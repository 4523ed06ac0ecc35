----------------------------- MODULE AuthProofs -----------------------------
(***************************************************************************)
(* What holds of Auth for every value of its constants: that its rows are  *)
(* typed, that guesses are bounded, that a secret works once, and that a   *)
(* socket serves nobody who was signed out.                                *)
(*                                                                         *)
(* The invariants: Typed (three parts, each about tables that change       *)
(* together), Guarded (the lockout read in one step still holds when the   *)
(* failure is recorded in another) and Spent (the tables remember every    *)
(* secret that was used).                                                  *)
(***************************************************************************)
EXTENDS Auth, SequenceTheorems, FiniteSetTheorems, TLAPS

(***************************************************************************)
(* What the tables and the handlers hold, in three parts.                  *)
(***************************************************************************)
Session == [device : BOOLEAN, idle : Ages(IdleDays), age : Ages(DeviceDays),
            revoked : BOOLEAN, via : 0 .. MaxPasswords]
Ticket  == [session : Nat, age : Ages(TicketTTL), used : BOOLEAN]
Otp     == [age : Ages(OtpTTL), used : BOOLEAN]

(* A handler that is half way has kept room for the row that it will add. *)
RowsTyped ==
  /\ passwords \in 0 .. MaxPasswords
  /\ sessions \in Seq(Session) /\ Len(sessions) <= MaxSessions
  /\ loop \in [pc : {"idle", "verified"}, guess : 0 .. MaxPasswords, ok : BOOLEAN]
  /\ bot \in {"idle", "verified", "stored"}
  /\ loop.pc # "idle" => Len(sessions) < MaxSessions
  /\ bot = "verified" => passwords < MaxPasswords

(* Sessions are never deleted: who names one names a row. *)
NamesTyped ==
  /\ tickets \in Seq(Ticket)
  /\ \A i \in 1 .. Len(tickets) : tickets[i].session \in 1 .. Len(sessions)
  /\ sockets \in [Conns -> [pc : {"closed", "open", "running", "refused"}, session : Nat]]
  /\ \A c \in Conns : sockets[c].pc # "closed" => sockets[c].session \in 1 .. Len(sessions)
  /\ requests \in [Requests -> [pc : {"idle", "read", "validated"}, session : Nat]]
  /\ \A r \in Requests : requests[r].pc # "idle" => requests[r].session \in 1 .. Len(sessions)

SecretsTyped ==
  /\ keys \in [CredIds -> None .. MaxCount]
  /\ challenges \in [Ceremonies -> [id : 0 .. MaxChallenges, age : Ages(ChallengeTTL)]]
  /\ minted \in 0 .. MaxChallenges
  /\ codes \subseteq Codes
  /\ otps \in Seq(Otp)
  /\ awaiting \in Ages(OtpTTL)

Typed == RowsTyped /\ NamesTyped /\ SecretsTyped

-----------------------------------------------------------------------------
(* What the helpers do with a table of sessions. *)

(* An age stays within what is told apart. *)
LEMMA AgesFacts ==
  ASSUME NEW n \in Nat
  PROVE  /\ None \in Ages(n) /\ 0 \in Ages(n)
         /\ \A a \in Ages(n) : Older(a, n) \in Ages(n) /\ Expired(a, n) \in Ages(n)
  BY DEF Ages, None, Never, Older, Expired

(* The lifetimes, as one set. *)
LEMMA TTLs ==
  {BackoffCap, TicketTTL, ChallengeTTL, OtpTTL, IdleDays, BrowserDays, DeviceDays} \subseteq Nat
  BY TimesAreNatural

(* A new row is a row. *)
LEMMA SignInFacts ==
  ASSUME sessions \in Seq(Session), NEW ok, NEW device \in BOOLEAN,
         NEW via \in 0 .. MaxPasswords, SignIn(ok, device, via)
  PROVE  /\ sessions' \in Seq(Session)
         /\ Len(sessions') \in {Len(sessions), Len(sessions) + 1}
  <1>1. NewSession(device, via) \in Session
    <2>1. 0 \in Ages(IdleDays) /\ 0 \in Ages(DeviceDays)
      BY AgesFacts, TTLs
    <2> QED BY <2>1 DEF NewSession, Session
  <1>2. /\ Append(sessions, NewSession(device, via)) \in Seq(Session)
        /\ Len(Append(sessions, NewSession(device, via))) = Len(sessions) + 1
    BY <1>1, AppendProperties
  <1> QED BY <1>2 DEF SignIn

(* A function on the domain of a table whose values are rows is a table. *)
LEMMA UpdatedRows ==
  ASSUME sessions \in Seq(Session), NEW f,
         f = [i \in DOMAIN sessions |-> f[i]],
         \A i \in DOMAIN sessions : f[i] \in Session
  PROVE  f \in Seq(Session) /\ Len(f) = Len(sessions)
  <1>1. DOMAIN sessions = 1 .. Len(sessions) /\ Len(sessions) \in Nat
    BY LenProperties
  <1>2. f = [i \in 1 .. Len(sessions) |-> f[i]] /\ \A i \in 1 .. Len(sessions) : f[i] \in Session
    BY <1>1
  <1>3. f \in Seq(Session)
    BY <1>1, <1>2, IsASeq
  <1> QED BY <1>1, <1>2, <1>3, LenProperties

(* A row of the table of sessions is a session. *)
LEMMA RowOf ==
  ASSUME sessions \in Seq(Session), NEW s \in DOMAIN sessions
  PROVE  /\ sessions[s] \in Session
         /\ s \in 1 .. Len(sessions)
  BY LenProperties, ElementOfSeq

(* Touching a session keeps the table. *)
LEMMA TouchedFacts ==
  ASSUME sessions \in Seq(Session), NEW s, s = 0 \/ s \in DOMAIN sessions
  PROVE  Touched(s) \in Seq(Session) /\ Len(Touched(s)) = Len(sessions)
  <1>1. CASE s = 0
    BY <1>1 DEF Touched
  <1>2. CASE s # 0
    <2>1. Touched(s) = [sessions EXCEPT ![s].idle = 0] /\ s \in DOMAIN sessions
      BY <1>2 DEF Touched
    <2>2. \A i \in DOMAIN sessions : Touched(s)[i] \in Session
      <3>1. \A i \in DOMAIN sessions : sessions[i] \in Session
        BY RowOf
      <3>2. 0 \in Ages(IdleDays)
        BY AgesFacts, TTLs
      <3> QED BY <2>1, <3>1, <3>2 DEF Session
    <2>3. Touched(s) = [i \in DOMAIN sessions |-> Touched(s)[i]]
      BY <2>1
    <2> QED BY <2>2, <2>3, UpdatedRows
  <1> QED BY <1>1, <1>2

(* So does revoking one, or many. *)
LEMMA RevokedFacts ==
  ASSUME sessions \in Seq(Session),
         (\E s \in DOMAIN sessions : Revoke(s)) \/ (\E keep \in BOOLEAN : RevokeAll(keep))
  PROVE  sessions' \in Seq(Session) /\ Len(sessions') = Len(sessions)
  <1>1. \A i \in DOMAIN sessions : sessions[i] \in Session
    BY RowOf
  <1>2. CASE \E s \in DOMAIN sessions : Revoke(s)
    <2>1. PICK s \in DOMAIN sessions : sessions' = [sessions EXCEPT ![s].revoked = TRUE]
      BY <1>2 DEF Revoke
    <2>2. \A i \in DOMAIN sessions : sessions'[i] \in Session
      BY <1>1, <2>1 DEF Session
    <2>3. sessions' = [i \in DOMAIN sessions |-> sessions'[i]]
      BY <2>1
    <2> QED BY <2>2, <2>3, UpdatedRows
  <1>3. CASE \E keep \in BOOLEAN : RevokeAll(keep)
    <2>1. PICK keep \in BOOLEAN : RevokeAll(keep)
      BY <1>3
    <2>2. \A i \in DOMAIN sessions :
             sessions'[i] = [sessions[i] EXCEPT !.revoked = @ \/ ~(keep /\ sessions[i].device)]
      BY <2>1 DEF RevokeAll
    <2>3. ASSUME NEW i \in DOMAIN sessions
          PROVE  sessions'[i] \in Session
      <3> DEFINE b == sessions[i].revoked \/ ~(keep /\ sessions[i].device)
      <3>1. sessions'[i] = [sessions[i] EXCEPT !.revoked = b]
        BY <2>2
      <3>2. b \in BOOLEAN
        OBVIOUS
      <3> HIDE DEF b
      <3> QED BY <1>1, <3>1, <3>2 DEF Session
    <2>4. sessions' = [i \in DOMAIN sessions |-> sessions'[i]]
      BY <2>1 DEF RevokeAll
    <2> QED BY <2>3, <2>4, UpdatedRows
  <1> QED BY <1>2, <1>3

(* So does a day. *)
LEMMA DayFacts ==
  ASSUME sessions \in Seq(Session), Day
  PROVE  sessions' \in Seq(Session) /\ Len(sessions') = Len(sessions)
  <1>1. sessions' = [i \in DOMAIN sessions |->
           [sessions[i] EXCEPT !.idle = Older(@, IdleDays), !.age = Older(@, DeviceDays)]]
    BY DEF Day
  <1>2. \A i \in DOMAIN sessions : sessions'[i] \in Session
    <2>1. \A i \in DOMAIN sessions : sessions[i] \in Session
      BY RowOf
    <2>2. \A a \in Ages(IdleDays) : Older(a, IdleDays) \in Ages(IdleDays)
      BY AgesFacts, TTLs
    <2>3. \A a \in Ages(DeviceDays) : Older(a, DeviceDays) \in Ages(DeviceDays)
      BY AgesFacts, TTLs
    <2> QED BY <1>1, <2>1, <2>2, <2>3 DEF Session
  <1>3. sessions' = [i \in DOMAIN sessions |-> sessions'[i]]
    BY <1>1
  <1> QED BY <1>2, <1>3, UpdatedRows

-----------------------------------------------------------------------------
(* Each part is kept by every step. *)

(* No step takes a session away. *)
LEMMA RowsInductive ==
  RowsTyped /\ NamesTyped /\ [Next]_vars => RowsTyped' /\ Len(sessions) <= Len(sessions')
  <1> SUFFICES ASSUME RowsTyped, NamesTyped, [Next]_vars
               PROVE  RowsTyped' /\ Len(sessions) <= Len(sessions')
    OBVIOUS
  <1>t. /\ sessions \in Seq(Session) /\ Len(sessions) \in Nat /\ Len(sessions) <= MaxSessions
        /\ passwords \in 0 .. MaxPasswords
        /\ loop \in [pc : {"idle", "verified"}, guess : 0 .. MaxPasswords, ok : BOOLEAN]
        /\ bot \in {"idle", "verified", "stored"}
    BY LenProperties DEF RowsTyped
  <1>b. MaxSessions \in Nat /\ MaxPasswords \in Nat /\ MaxPasswords > 0 /\ 0 \in 0 .. MaxPasswords
    BY BoundsAreNatural
  <1>i. IdleLoop \in [pc : {"idle", "verified"}, guess : 0 .. MaxPasswords, ok : BOOLEAN]
    BY <1>b DEF IdleLoop
  <1>1. ASSUME sessions' \in Seq(Session), Len(sessions') = Len(sessions),
               loop' = loop, passwords' = passwords, bot' = bot \/ bot' \in {"idle", "stored"}
        PROVE  RowsTyped' /\ Len(sessions) <= Len(sessions')
    BY <1>1, <1>t DEF RowsTyped
  <1>2. ASSUME NEW device \in BOOLEAN, NEW via \in 0 .. MaxPasswords, NEW ok,
               SignIn(ok, device, via), Room, loop' = loop, passwords' = passwords, bot' = bot
        PROVE  RowsTyped' /\ Len(sessions) <= Len(sessions')
    <2>1. sessions' \in Seq(Session) /\ Len(sessions') \in {Len(sessions), Len(sessions) + 1}
      BY <1>2, <1>t, SignInFacts
    <2>2. Len(sessions) + (IF loop.pc = "idle" THEN 0 ELSE 1) < MaxSessions
      BY <1>2 DEF Room
    <2>3. Len(sessions') <= MaxSessions /\ (loop.pc # "idle" => Len(sessions') < MaxSessions)
      BY <1>t, <1>b, <2>1, <2>2
    <2> QED BY <1>2, <1>t, <2>1, <2>3 DEF RowsTyped
  <1>3. CASE Day
    <2>1. loop' = loop /\ passwords' = passwords /\ bot' = bot
      BY <1>3 DEF Day
    <2> QED BY <1>1, <1>3, <1>t, <2>1, DayFacts
  <1>4. CASE PasswordVerify
    <2>1. /\ Room /\ LoopFree
          /\ \E guess \in 0 .. passwords : loop' = [pc |-> "verified", guess |-> guess,
                                                  ok |-> PasswordMatches(guess)]
          /\ UNCHANGED <<sessions, passwords, bot>>
      BY <1>4 DEF PasswordVerify, stores
    <2>2. PICK guess \in 0 .. passwords : loop' = [pc |-> "verified", guess |-> guess,
                                                  ok |-> PasswordMatches(guess)]
      BY <2>1
    <2>3. PasswordMatches(guess) \in BOOLEAN /\ guess \in 0 .. MaxPasswords
      BY <1>t, <1>b DEF PasswordMatches
    <2>4. loop' \in [pc : {"idle", "verified"}, guess : 0 .. MaxPasswords, ok : BOOLEAN]
      BY <2>2, <2>3
    <2>5. Len(sessions) < MaxSessions
      BY <2>1, <1>t, <1>b DEF Room, LoopFree
    <2> QED BY <1>t, <2>1, <2>4, <2>5 DEF RowsTyped
  <1>5. CASE PasswordLogin
    <2>1. /\ SignIn(loop.ok, FALSE, loop.guess) /\ loop' = IdleLoop
          /\ loop.pc = "verified" /\ UNCHANGED <<passwords, bot>>
      BY <1>5 DEF PasswordLogin
    <2>2. loop.guess \in 0 .. MaxPasswords /\ Len(sessions) < MaxSessions
      BY <1>t, <2>1 DEF RowsTyped
    <2>3. sessions' \in Seq(Session) /\ Len(sessions') \in {Len(sessions), Len(sessions) + 1}
      BY <1>t, <2>1, <2>2, SignInFacts
    <2>4. Len(sessions') <= MaxSessions
      BY <1>t, <1>b, <2>2, <2>3
    <2>5. loop'.pc = "idle"
      BY <2>1 DEF IdleLoop
    <2> QED BY <1>t, <1>i, <2>1, <2>3, <2>4, <2>5 DEF RowsTyped
  <1>6. CASE RecoveryLogin
    <2>1. /\ \E ok : SignIn(ok, FALSE, 0)
          /\ Room /\ loop' = loop /\ passwords' = passwords /\ bot' = bot
      BY <1>6 DEF RecoveryLogin
    <2> QED BY <1>2, <1>b, <2>1
  <1>7. CASE Logout
    <2>1. (\E s \in DOMAIN sessions : Revoke(s)) /\ UNCHANGED <<loop, passwords, bot>>
      BY <1>7 DEF Logout
    <2> QED BY <1>1, <1>t, <2>1, RevokedFacts
  <1>8. CASE RegisterOptions
    <2>1. /\ \E s \in 0 .. Len(sessions) : sessions' = Touched(s)
          /\ UNCHANGED <<loop, passwords, bot>>
      BY <1>8 DEF RegisterOptions
    <2>2. \A s \in 0 .. Len(sessions) : s = 0 \/ s \in DOMAIN sessions
      BY <1>t, LenProperties
    <2> QED BY <1>1, <1>t, <2>1, <2>2, TouchedFacts
  <1>9. CASE RegisterVerify
    <2>1. /\ \E s \in 0 .. Len(sessions) :
               sessions' = Touched(s) \/ sessions' = Append(sessions, NewSession(FALSE, 0))
          /\ UNCHANGED <<loop, passwords, bot>> /\ Room
      BY <1>9 DEF RegisterVerify
    <2>2. \A s \in 0 .. Len(sessions) : s = 0 \/ s \in DOMAIN sessions
      BY <1>t, LenProperties
    <2>3. ASSUME sessions' = Append(sessions, NewSession(FALSE, 0))
          PROVE  SignIn(TRUE, FALSE, 0)
      BY <2>3 DEF SignIn
    <2>4. CASE \E s \in 0 .. Len(sessions) : sessions' = Touched(s)
      BY <1>1, <1>t, <2>1, <2>2, <2>4, TouchedFacts
    <2>5. CASE sessions' = Append(sessions, NewSession(FALSE, 0))
      BY <1>2, <1>b, <2>1, <2>3, <2>5
    <2> QED BY <2>1, <2>4, <2>5
  <1>10. CASE PasskeyLogin
    <2>1. /\ \E ok : SignIn(ok, FALSE, 0)
          /\ Room /\ loop' = loop /\ passwords' = passwords /\ bot' = bot
      BY <1>10 DEF PasskeyLogin, VerifyLogin
    <2> QED BY <1>2, <1>b, <2>1
  <1>11. ASSUME NEW r \in Requests, ValidateTouch(r)
         PROVE  RowsTyped' /\ Len(sessions) <= Len(sessions')
    <2>1. /\ sessions' = Touched(requests[r].session) /\ requests[r].pc = "read"
          /\ UNCHANGED <<loop, passwords, bot>>
      BY <1>11 DEF ValidateTouch
    <2>2. requests[r].session \in DOMAIN sessions
      BY <1>t, <2>1, LenProperties DEF NamesTyped
    <2> QED BY <1>1, <1>t, <2>1, <2>2, TouchedFacts
  <1>12. CASE AnswerReset
    <2>1. /\ bot' = "idle" \/ (bot' = "verified" /\ passwords < MaxPasswords)
          /\ UNCHANGED <<loop, passwords, sessions>>
      BY <1>12 DEF AnswerReset
    <2>2. CASE bot' = "idle"
      BY <1>1, <1>t, <2>1, <2>2
    <2>3. CASE bot' = "verified" /\ passwords < MaxPasswords
      BY <1>t, <2>1, <2>3 DEF RowsTyped
    <2> QED BY <2>1, <2>2, <2>3
  <1>13. CASE StorePassword
    <2>1. passwords' = passwords + 1 /\ passwords < MaxPasswords /\ bot' = "stored"
          /\ UNCHANGED <<loop, sessions>>
      BY <1>13 DEF StorePassword, AddPassword, RowsTyped
    <2> QED BY <1>t, <1>b, <2>1 DEF RowsTyped
  <1>14. CASE SignOutAll
    <2>1. RevokeAll(TRUE) /\ bot' = "idle" /\ UNCHANGED <<loop, passwords>>
      BY <1>14 DEF SignOutAll
    <2> QED BY <1>1, <1>t, <2>1, RevokedFacts
  <1>15. CASE SetPassword
    <2>1. /\ passwords' = passwords + 1
          /\ passwords + (IF bot = "verified" THEN 1 ELSE 0) < MaxPasswords
          /\ UNCHANGED <<loop, sessions, bot>>
      BY <1>15 DEF SetPassword, AddPassword
    <2> QED BY <1>t, <1>b, <2>1 DEF RowsTyped
  <1>16. CASE IssueDeviceToken
    <2>1. SignIn(TRUE, TRUE, 0) /\ Room /\ UNCHANGED <<loop, passwords, bot>>
      BY <1>16 DEF IssueDeviceToken
    <2> QED BY <1>2, <1>b, <2>1
  <1>17. ASSUME UNCHANGED <<sessions, loop, passwords>>, bot' = bot \/ bot' = "idle"
         PROVE  RowsTyped' /\ Len(sessions) <= Len(sessions')
    BY <1>1, <1>17, <1>t
  <1>18. CASE Tick \/ LoginOptions \/ StartReset \/ DropReset \/ BotCrash \/ PrintRecoveryCodes
    BY <1>17, <1>18 DEF Tick, LoginOptions, StartReset, DropReset, BotCrash, PrintRecoveryCodes,
                        stores
  <1>19. ASSUME NEW r \in Requests, ValidateRead(r) \/ MintTicket(r) \/ ApproveHigh(r)
         PROVE  RowsTyped' /\ Len(sessions) <= Len(sessions')
    BY <1>17, <1>19 DEF ValidateRead, MintTicket, ApproveHigh, stores
  <1>20. ASSUME NEW c \in Conns, Handshake(c) \/ Message(c) \/ Reply(c) \/ Disconnect(c)
         PROVE  RowsTyped' /\ Len(sessions) <= Len(sessions')
    BY <1>17, <1>20 DEF Handshake, Message, Reply, Disconnect, stores
  <1>21. CASE UNCHANGED vars
    BY <1>17, <1>21 DEF vars
  <1> QED BY <1>3, <1>4, <1>5, <1>6, <1>7, <1>8, <1>9, <1>10, <1>11, <1>12, <1>13, <1>14, <1>15,
             <1>16, <1>18, <1>19, <1>20, <1>21 DEF Next

(* The names of sessions that tickets, sockets and requests hold. *)
LEMMA NamesInductive ==
  RowsTyped /\ NamesTyped /\ [Next]_vars => NamesTyped'
  <1> SUFFICES ASSUME RowsTyped, NamesTyped, [Next]_vars
               PROVE  NamesTyped'
    OBVIOUS
  <1>g. Len(sessions) \in Nat /\ Len(sessions') \in Nat /\ Len(sessions) <= Len(sessions')
    BY RowsInductive, LenProperties DEF RowsTyped
  <1>n. 1 .. Len(sessions) \subseteq 1 .. Len(sessions')
    BY <1>g
  <1>t. tickets \in Seq(Ticket) /\ Len(tickets) \in Nat /\ DOMAIN tickets = 1 .. Len(tickets)
    BY LenProperties DEF NamesTyped
  <1>d. DOMAIN sessions = 1 .. Len(sessions)
    BY LenProperties DEF RowsTyped
  <1>1. ASSUME UNCHANGED <<tickets, sockets, requests>>
        PROVE  NamesTyped'
    BY <1>1, <1>n DEF NamesTyped
  <1>2. ASSUME NEW ages, UNCHANGED <<sockets, requests>>,
               tickets' = [i \in DOMAIN tickets |-> [tickets[i] EXCEPT !.age = ages[i]]],
               \A i \in DOMAIN tickets : ages[i] \in Ages(TicketTTL)
        PROVE  NamesTyped'
    <2>1. \A i \in DOMAIN tickets : tickets[i] \in Ticket
      BY <1>t, ElementOfSeq
    <2>2. \A i \in 1 .. Len(tickets) :
             tickets'[i] \in Ticket /\ tickets'[i].session = tickets[i].session
      BY <1>2, <1>t, <2>1 DEF Ticket
    <2>3. tickets' = [i \in 1 .. Len(tickets) |-> tickets'[i]]
      BY <1>2, <1>t
    <2>4. tickets' \in Seq(Ticket)
      BY <1>t, <2>2, <2>3, IsASeq
    <2>5. Len(tickets') = Len(tickets)
      BY <1>t, <2>3, <2>4, LenProperties
    <2> QED BY <1>2, <1>n, <2>2, <2>4, <2>5 DEF NamesTyped
  <1>3. CASE Tick \/ Day
    <2>1. \A i \in DOMAIN tickets : tickets[i].age \in Ages(TicketTTL)
      <3>1. \A i \in DOMAIN tickets : tickets[i] \in Ticket
        BY <1>t, ElementOfSeq
      <3> QED BY <3>1 DEF Ticket
    <2>2. CASE Tick
      <3>1. /\ tickets' = [i \in DOMAIN tickets |->
                              [tickets[i] EXCEPT !.age = Older(@, TicketTTL)]]
            /\ UNCHANGED <<sockets, requests>>
        BY <2>2 DEF Tick, AgeTickets
      <3> DEFINE ages == [i \in DOMAIN tickets |-> Older(tickets[i].age, TicketTTL)]
      <3>2. \A i \in DOMAIN tickets : ages[i] \in Ages(TicketTTL)
        BY <2>1, AgesFacts, TTLs
      <3>3. tickets' = [i \in DOMAIN tickets |-> [tickets[i] EXCEPT !.age = ages[i]]]
        BY <3>1
      <3> HIDE DEF ages
      <3> QED BY <1>2, <3>1, <3>2, <3>3
    <2>3. CASE Day
      <3>1. /\ tickets' = [i \in DOMAIN tickets |->
                              [tickets[i] EXCEPT !.age = Expired(@, TicketTTL)]]
            /\ UNCHANGED <<sockets, requests>>
        BY <2>3 DEF Day, AgeTickets
      <3> DEFINE ages == [i \in DOMAIN tickets |-> Expired(tickets[i].age, TicketTTL)]
      <3>2. \A i \in DOMAIN tickets : ages[i] \in Ages(TicketTTL)
        BY <2>1, AgesFacts, TTLs
      <3>3. tickets' = [i \in DOMAIN tickets |-> [tickets[i] EXCEPT !.age = ages[i]]]
        BY <3>1
      <3> HIDE DEF ages
      <3> QED BY <1>2, <3>1, <3>2, <3>3
    <2> QED BY <1>3, <2>2, <2>3
  <1>4. ASSUME NEW r \in Requests, ValidateRead(r)
        PROVE  NamesTyped'
    <2>1. /\ \E s \in DOMAIN sessions :
                requests' = [requests EXCEPT ![r] = [pc |-> "read", session |-> s]]
          /\ UNCHANGED <<tickets, sockets, sessions>>
      BY <1>4 DEF ValidateRead, stores
    <2> QED BY <1>d, <1>g, <2>1 DEF NamesTyped
  <1>5. ASSUME NEW r \in Requests, ValidateTouch(r)
        PROVE  NamesTyped'
    <2>1. /\ requests' = [requests EXCEPT ![r].pc = "validated"] /\ requests[r].pc = "read"
          /\ UNCHANGED <<tickets, sockets>>
      BY <1>5 DEF ValidateTouch
    <2> QED BY <1>n, <2>1 DEF NamesTyped
  <1>6. ASSUME NEW r \in Requests, Answered(r)
        PROVE  /\ requests' \in [Requests -> [pc : {"idle", "read", "validated"}, session : Nat]]
               /\ \A q \in Requests : requests'[q].pc # "idle" =>
                                          requests'[q].session \in 1 .. Len(sessions')
    BY <1>6, <1>n DEF Answered, NamesTyped
  <1>7. ASSUME NEW r \in Requests, MintTicket(r)
        PROVE  NamesTyped'
    <2> DEFINE row == [session |-> requests[r].session, age |-> 0, used |-> FALSE]
    <2>1. /\ tickets' = Append(tickets, row) /\ Answered(r) /\ requests[r].pc = "validated"
          /\ UNCHANGED <<sockets, sessions>>
      BY <1>7 DEF MintTicket, MintWsTicket
    <2>2. requests[r].session \in 1 .. Len(sessions)
      BY <2>1 DEF NamesTyped
    <2>3. row \in Ticket
      BY <1>g, <2>2, AgesFacts, TTLs DEF Ticket
    <2>4. row.session \in 1 .. Len(sessions)
      BY <2>2
    <2> HIDE DEF row
    <2>5. /\ tickets' \in Seq(Ticket) /\ Len(tickets') = Len(tickets) + 1
          /\ \A i \in 1 .. Len(tickets) : tickets'[i] = tickets[i]
          /\ tickets'[Len(tickets) + 1] = row
      BY <1>t, <2>1, <2>3, AppendProperties
    <2>6. \A i \in 1 .. Len(tickets') : i \in 1 .. Len(tickets) \/ i = Len(tickets) + 1
      BY <1>t, <2>5
    <2>7. \A i \in 1 .. Len(tickets') : tickets'[i].session \in 1 .. Len(sessions')
      BY <1>n, <2>4, <2>5, <2>6 DEF NamesTyped
    <2> QED BY <1>n, <1>6, <2>1, <2>5, <2>7 DEF NamesTyped
  <1>8. ASSUME NEW r \in Requests, ApproveHigh(r)
        PROVE  NamesTyped'
    <2>1. Answered(r) /\ UNCHANGED <<tickets, sockets>>
      BY <1>8 DEF ApproveHigh
    <2> QED BY <1>n, <1>6, <2>1 DEF NamesTyped
  <1>9. ASSUME NEW c \in Conns, Handshake(c)
        PROVE  NamesTyped'
    <2>1. PICK i \in DOMAIN tickets :
             /\ tickets' = [tickets EXCEPT ![i].used = TRUE]
             /\ sockets' = [sockets EXCEPT ![c] = [pc |-> "open", session |-> tickets[i].session]]
      BY <1>9 DEF Handshake, Consumed
    <2>2. requests' = requests
      BY <1>9 DEF Handshake
    <2>3. tickets[i] \in Ticket /\ i \in 1 .. Len(tickets)
      BY <1>t, ElementOfSeq
    <2>4. [tickets[i] EXCEPT !.used = TRUE] \in Ticket
      BY <2>3 DEF Ticket
    <2>5. tickets' = [tickets EXCEPT ![i] = [tickets[i] EXCEPT !.used = TRUE]]
      BY <2>1
    <2>6. /\ tickets' \in Seq(Ticket) /\ Len(tickets') = Len(tickets)
          /\ \A j \in 1 .. Len(tickets) :
                tickets'[j] = IF j = i THEN [tickets[i] EXCEPT !.used = TRUE] ELSE tickets[j]
      <3> DEFINE e == [tickets[i] EXCEPT !.used = TRUE]
      <3>1. e \in Ticket /\ tickets' = [tickets EXCEPT ![i] = e]
        BY <2>4, <2>5
      <3> HIDE DEF e
      <3>2. /\ tickets' \in Seq(Ticket) /\ Len(tickets') = Len(tickets)
            /\ \A j \in 1 .. Len(tickets) : tickets'[j] = IF j = i THEN e ELSE tickets[j]
        BY <1>t, <2>3, <3>1, ExceptSeq
      <3> QED BY <3>2 DEF e
    <2>7. \A j \in 1 .. Len(tickets) : tickets'[j].session = tickets[j].session
      BY <2>3, <2>6 DEF Ticket
    <2>8. tickets[i].session \in 1 .. Len(sessions) /\ tickets[i].session \in Nat
      BY <2>3 DEF NamesTyped, Ticket
    <2>9. /\ sockets' \in [Conns -> [pc : {"closed", "open", "running", "refused"}, session : Nat]]
          /\ \A d \in Conns :
                sockets'[d].pc # "closed" => sockets'[d].session \in 1 .. Len(sessions')
      BY <1>n, <2>1, <2>8 DEF NamesTyped
    <2> QED BY <1>n, <2>2, <2>6, <2>7, <2>9 DEF NamesTyped
  <1>10. ASSUME NEW c \in Conns, Message(c) \/ Reply(c) \/ Disconnect(c)
         PROVE  NamesTyped'
    <2>1. UNCHANGED <<tickets, requests>>
      BY <1>10 DEF Message, Reply, Disconnect, stores
    <2>2. /\ sockets' \in [Conns -> [pc : {"closed", "open", "running", "refused"}, session : Nat]]
          /\ \A d \in Conns : sockets'[d].pc # "closed" =>
                sockets[d].pc # "closed" /\ sockets'[d].session = sockets[d].session
      <3>1. CASE Message(c)
        BY <3>1 DEF Message, NamesTyped
      <3>2. CASE Reply(c)
        BY <3>2 DEF Reply, NamesTyped
      <3>3. CASE Disconnect(c)
        BY <3>3 DEF Disconnect, NamesTyped
      <3> QED BY <1>10, <3>1, <3>2, <3>3
    <2> QED BY <1>n, <2>1, <2>2 DEF NamesTyped
  <1>11. CASE \/ PasswordVerify \/ PasswordLogin \/ RecoveryLogin \/ Logout
              \/ RegisterOptions \/ RegisterVerify \/ LoginOptions \/ PasskeyLogin
    BY <1>1, <1>11 DEF PasswordVerify, PasswordLogin, RecoveryLogin, Logout, RegisterOptions,
                       RegisterVerify, LoginOptions, PasskeyLogin, stores
  <1>12. CASE \/ StartReset \/ DropReset \/ AnswerReset \/ StorePassword \/ SignOutAll \/ BotCrash
              \/ SetPassword \/ PrintRecoveryCodes \/ IssueDeviceToken
    BY <1>1, <1>12 DEF StartReset, DropReset, AnswerReset, StorePassword, SignOutAll, BotCrash,
                       SetPassword, PrintRecoveryCodes, IssueDeviceToken, stores
  <1>13. CASE UNCHANGED vars
    BY <1>1, <1>13 DEF vars
  <1> QED BY <1>3, <1>4, <1>5, <1>7, <1>8, <1>9, <1>10, <1>11, <1>12, <1>13 DEF Next

(* A table of reset codes in which the ages or the marks change, or one is new. *)
LEMMA OtpsUpdated ==
  ASSUME otps \in Seq(Otp), NEW f, f = [i \in DOMAIN otps |-> f[i]],
         \A i \in DOMAIN otps : f[i] \in Otp
  PROVE  f \in Seq(Otp) /\ Len(f) = Len(otps)
  <1>1. DOMAIN otps = 1 .. Len(otps) /\ Len(otps) \in Nat
    BY LenProperties
  <1>2. f = [i \in 1 .. Len(otps) |-> f[i]] /\ \A i \in 1 .. Len(otps) : f[i] \in Otp
    BY <1>1
  <1>3. f \in Seq(Otp)
    BY <1>1, <1>2, IsASeq
  <1> QED BY <1>1, <1>2, <1>3, LenProperties

(* A row of the reset codes is one. *)
LEMMA OtpRows ==
  ASSUME otps \in Seq(Otp)
  PROVE  \A i \in DOMAIN otps : otps[i] \in Otp
  BY ElementOfSeq, LenProperties

(* An assertion leaves keys and challenges typed. *)
LEMMA AssertionTyped ==
  ASSUME SecretsTyped, NEW c \in CredIds, NEW genuine \in BOOLEAN, NEW n \in 0 .. MaxCount,
         \/ VerifyAssertion(c, genuine, n)
         \/ VerifyRegistration(c, genuine, n)
  PROVE  /\ keys' \in [CredIds -> None .. MaxCount]
         /\ challenges' \in [Ceremonies -> [id : 0 .. MaxChallenges, age : Ages(ChallengeTTL)]]
  <1>1. keys' = keys \/ keys' = [keys EXCEPT ![c] = n]
    BY DEF VerifyAssertion, VerifyRegistration
  <1>2. n \in None .. MaxCount
    BY BoundsAreNatural DEF None
  <1>3. \E k \in Ceremonies : challenges' = [challenges EXCEPT ![k] = [id |-> 0, age |-> None]]
    BY DEF VerifyAssertion, VerifyRegistration, Consume, Ceremonies
  <1>4. [id |-> 0, age |-> None] \in [id : 0 .. MaxChallenges, age : Ages(ChallengeTTL)]
    BY BoundsAreNatural, AgesFacts, TTLs
  <1>5. keys' \in [CredIds -> None .. MaxCount]
    BY <1>1, <1>2 DEF SecretsTyped
  <1> QED BY <1>3, <1>4, <1>5 DEF SecretsTyped

(* A new challenge is one more than the last one. *)
LEMMA StoreTyped ==
  ASSUME SecretsTyped, NEW k \in Ceremonies, StoreChallenge(k)
  PROVE  /\ minted' \in 0 .. MaxChallenges
         /\ challenges' \in [Ceremonies -> [id : 0 .. MaxChallenges, age : Ages(ChallengeTTL)]]
  <1>1. /\ minted' = minted + 1 /\ minted < MaxChallenges
        /\ challenges' = [challenges EXCEPT ![k] = [id |-> minted + 1, age |-> 0]]
    BY DEF StoreChallenge
  <1>2. minted + 1 \in 0 .. MaxChallenges
    BY <1>1, BoundsAreNatural DEF SecretsTyped
  <1>3. [id |-> minted + 1, age |-> 0] \in [id : 0 .. MaxChallenges, age : Ages(ChallengeTTL)]
    BY <1>2, AgesFacts, TTLs
  <1> QED BY <1>1, <1>2, <1>3 DEF SecretsTyped

(* Keys, challenges and codes stay of their kind. *)
LEMMA SecretsInductive == SecretsTyped /\ [Next]_vars => SecretsTyped'
  <1> SUFFICES ASSUME SecretsTyped, [Next]_vars
               PROVE  SecretsTyped'
    OBVIOUS
  <1>t. /\ challenges \in [Ceremonies -> [id : 0 .. MaxChallenges, age : Ages(ChallengeTTL)]]
        /\ otps \in Seq(Otp) /\ awaiting \in Ages(OtpTTL)
    BY DEF SecretsTyped
  <1>1. ASSUME UNCHANGED <<keys, challenges, minted, codes, otps, awaiting>>
        PROVE  SecretsTyped'
    BY <1>1 DEF SecretsTyped
  <1>2. CASE Tick \/ Day
    <2>1. UNCHANGED <<keys, minted, codes>>
      BY <1>2 DEF Tick, Day
    <2>2. awaiting' \in Ages(OtpTTL)
      <3>1. awaiting' = Older(awaiting, OtpTTL) \/ awaiting' = Expired(awaiting, OtpTTL)
        BY <1>2 DEF Tick, Day
      <3> QED BY <1>t, <3>1, AgesFacts, TTLs
    <2>3. challenges' \in [Ceremonies -> [id : 0 .. MaxChallenges, age : Ages(ChallengeTTL)]]
      <3>1. \A k \in Ceremonies :
               challenges'[k] \in {[challenges[k] EXCEPT !.age = Older(@, ChallengeTTL)],
                                  [challenges[k] EXCEPT !.age = Expired(@, ChallengeTTL)]}
        BY <1>2 DEF Tick, Day, AgeChallenges
      <3>2. \A a \in Ages(ChallengeTTL) : /\ Older(a, ChallengeTTL) \in Ages(ChallengeTTL)
                                         /\ Expired(a, ChallengeTTL) \in Ages(ChallengeTTL)
        BY AgesFacts, TTLs
      <3>3. \A k \in Ceremonies :
               challenges'[k] \in [id : 0 .. MaxChallenges, age : Ages(ChallengeTTL)]
        BY <1>t, <3>1, <3>2
      <3>4. challenges' = [k \in Ceremonies |-> challenges'[k]]
        BY <1>2 DEF Tick, Day, AgeChallenges
      <3> QED BY <3>3, <3>4
    <2>4. otps' \in Seq(Otp)
      <3>1. \A i \in DOMAIN otps :
               otps'[i] \in {[otps[i] EXCEPT !.age = Older(@, OtpTTL)],
                            [otps[i] EXCEPT !.age = Expired(@, OtpTTL)]}
        BY <1>2 DEF Tick, Day, AgeOtps
      <3>2. \A a \in Ages(OtpTTL) : /\ Older(a, OtpTTL) \in Ages(OtpTTL)
                                   /\ Expired(a, OtpTTL) \in Ages(OtpTTL)
        BY AgesFacts, TTLs
      <3>3. \A i \in DOMAIN otps : otps[i] \in Otp
        BY <1>t, OtpRows
      <3>4. \A i \in DOMAIN otps : otps'[i] \in Otp
        BY <3>1, <3>2, <3>3 DEF Otp
      <3>5. otps' = [i \in DOMAIN otps |-> otps'[i]]
        BY <1>2 DEF Tick, Day, AgeOtps
      <3> QED BY <1>t, <3>4, <3>5, OtpsUpdated
    <2> QED BY <2>1, <2>2, <2>3, <2>4 DEF SecretsTyped
  <1>3. CASE RecoveryLogin \/ PrintRecoveryCodes
    <2>1. codes' \subseteq codes \/ codes' = Codes
      BY <1>3 DEF RecoveryLogin, VerifyRecoveryCode, PrintRecoveryCodes, GenerateRecoveryCodes
    <2>2. UNCHANGED <<keys, challenges, minted, otps, awaiting>>
      BY <1>3 DEF RecoveryLogin, PrintRecoveryCodes
    <2> QED BY <2>1, <2>2 DEF SecretsTyped
  <1>4. CASE RegisterOptions \/ LoginOptions
    <2>1. \E k \in Ceremonies : StoreChallenge(k)
      BY <1>4 DEF RegisterOptions, LoginOptions, StartRegistration, StartLogin, Ceremonies
    <2>2. UNCHANGED <<keys, codes, otps, awaiting>>
      BY <1>4 DEF RegisterOptions, LoginOptions, stores
    <2> QED BY <2>1, <2>2, StoreTyped DEF SecretsTyped
  <1>5. CASE RegisterVerify \/ PasskeyLogin
    <2>1. \E c \in CredIds, genuine \in BOOLEAN, n \in 0 .. MaxCount :
             VerifyAssertion(c, genuine, n) \/ VerifyRegistration(c, genuine, n)
      BY <1>5 DEF RegisterVerify, PasskeyLogin, VerifyLogin
    <2>2. UNCHANGED <<minted, codes, otps, awaiting>>
      BY <1>5 DEF RegisterVerify, PasskeyLogin
    <2> QED BY <2>1, <2>2, AssertionTyped DEF SecretsTyped
  <1>6. ASSUME NEW r \in Requests, ApproveHigh(r)
        PROVE  SecretsTyped'
    <2>1. \/ UNCHANGED <<challenges, keys>>
          \/ \E c \in CredIds, genuine \in BOOLEAN, n \in 0 .. MaxCount :
                VerifyAssertion(c, genuine, n)
      BY <1>6 DEF ApproveHigh
    <2>2. UNCHANGED <<minted, codes, otps, awaiting>>
      BY <1>6 DEF ApproveHigh
    <2> QED BY <2>1, <2>2, AssertionTyped DEF SecretsTyped
  <1>7. CASE StartReset
    <2>1. RequestOtp /\ awaiting' \in {0, awaiting} /\ UNCHANGED <<keys, challenges, minted, codes>>
      BY <1>7 DEF StartReset
    <2> DEFINE f == [i \in DOMAIN otps |-> [otps[i] EXCEPT !.used = TRUE]]
               new == [age |-> 0, used |-> FALSE]
    <2>2. otps' = Append(f, new)
      BY <2>1 DEF RequestOtp
    <2>3. \A i \in DOMAIN otps : f[i] \in Otp
      BY <1>t, OtpRows DEF Otp
    <2>4. f = [i \in DOMAIN otps |-> f[i]]
      OBVIOUS
    <2>5. new \in Otp
      BY AgesFacts, TTLs DEF Otp
    <2> HIDE DEF f, new
    <2>6. f \in Seq(Otp)
      BY <1>t, <2>3, <2>4, OtpsUpdated
    <2>7. otps' \in Seq(Otp)
      BY <2>2, <2>5, <2>6, AppendProperties
    <2>8. awaiting' \in Ages(OtpTTL)
      BY <1>t, <2>1, AgesFacts, TTLs
    <2> QED BY <2>1, <2>7, <2>8 DEF SecretsTyped
  <1>8. CASE AnswerReset
    <2>1. PICK i \in 0 .. Len(otps), ok \in BOOLEAN : VerifyOtp(i, ok)
      BY <1>8 DEF AnswerReset
    <2>2. otps' \in Seq(Otp)
      <3>1. CASE ok
        <4>1. otps' = [otps EXCEPT ![i].used = TRUE] /\ i # 0
          BY <2>1, <3>1 DEF VerifyOtp
        <4>2. \A j \in DOMAIN otps : otps'[j] \in Otp
          BY <1>t, <4>1, OtpRows DEF Otp
        <4>3. otps' = [j \in DOMAIN otps |-> otps'[j]]
          BY <4>1
        <4> QED BY <1>t, <4>2, <4>3, OtpsUpdated
      <3>2. CASE ~ok
        BY <1>t, <2>1, <3>2 DEF VerifyOtp
      <3> QED BY <3>1, <3>2
    <2>3. UNCHANGED <<keys, challenges, minted, codes, awaiting>>
      BY <1>8 DEF AnswerReset
    <2> QED BY <2>2, <2>3 DEF SecretsTyped
  <1>9. CASE DropReset \/ StorePassword
    <2>1. awaiting' = None /\ UNCHANGED <<keys, challenges, minted, codes, otps>>
      BY <1>9 DEF DropReset, StorePassword, stores
    <2> QED BY <2>1, AgesFacts, TTLs DEF SecretsTyped
  <1>10. CASE PasswordVerify \/ PasswordLogin \/ Logout \/ SignOutAll \/ BotCrash \/ SetPassword
              \/ IssueDeviceToken
    BY <1>1, <1>10 DEF PasswordVerify, PasswordLogin, Logout, SignOutAll, BotCrash, SetPassword,
                       IssueDeviceToken, stores
  <1>11. ASSUME NEW r \in Requests, ValidateRead(r) \/ ValidateTouch(r) \/ MintTicket(r)
         PROVE  SecretsTyped'
    BY <1>1, <1>11 DEF ValidateRead, ValidateTouch, MintTicket, stores
  <1>12. ASSUME NEW c \in Conns, Handshake(c) \/ Message(c) \/ Reply(c) \/ Disconnect(c)
         PROVE  SecretsTyped'
    BY <1>1, <1>12 DEF Handshake, Message, Reply, Disconnect, stores
  <1>13. CASE UNCHANGED vars
    BY <1>1, <1>13 DEF vars
  <1> QED BY <1>2, <1>3, <1>4, <1>5, <1>6, <1>7, <1>8, <1>9, <1>10, <1>11, <1>12, <1>13 DEF Next

(* All tables are empty at first. *)
LEMMA TypedAtFirst == Init => Typed
  <1> SUFFICES ASSUME Init PROVE Typed
    OBVIOUS
  <1>0. 0 \in 0 .. MaxPasswords /\ 1 \in 0 .. MaxPasswords /\ MaxSessions \in Nat
    BY BoundsAreNatural
  <1>s. << >> \in Seq(Session) /\ << >> \in Seq(Ticket) /\ << >> \in Seq(Otp) /\ Len(<< >>) = 0
    BY EmptySeq
  <1>1. RowsTyped
    <2>1. /\ loop \in [pc : {"idle", "verified"}, guess : 0 .. MaxPasswords, ok : BOOLEAN]
          /\ loop.pc = "idle"
      BY <1>0 DEF Init, IdleLoop
    <2>2. passwords \in 0 .. MaxPasswords /\ bot = "idle" /\ sessions = << >>
      BY <1>0 DEF Init
    <2> QED BY <1>0, <1>s, <2>1, <2>2 DEF RowsTyped
  <1>2. NamesTyped
    <2>1. tickets = << >> /\ 1 .. Len(tickets) = {}
      BY <1>s DEF Init
    <2>2. /\ sockets \in [Conns -> [pc : {"closed", "open", "running", "refused"}, session : Nat]]
          /\ \A c \in Conns : sockets[c].pc = "closed"
      BY DEF Init
    <2>3. /\ requests \in [Requests -> [pc : {"idle", "read", "validated"}, session : Nat]]
          /\ \A r \in Requests : requests[r].pc = "idle"
      BY DEF Init
    <2> QED BY <1>s, <2>1, <2>2, <2>3 DEF NamesTyped
  <1>3. SecretsTyped
    <2>1. None \in None .. MaxCount /\ 0 \in 0 .. MaxChallenges
      BY BoundsAreNatural DEF None
    <2>2. None \in Ages(ChallengeTTL) /\ None \in Ages(OtpTTL)
      BY AgesFacts, TTLs
    <2> QED BY <1>s, <2>1, <2>2 DEF Init, SecretsTyped
  <1> QED BY <1>1, <1>2, <1>3 DEF Typed

(* The three parts together. *)
LEMMA TypedInductive == Typed /\ [Next]_vars => Typed'
  BY RowsInductive, NamesInductive, SecretsInductive DEF Typed

(* Typed says what TypeOK says, row by row. *)
LEMMA TypedSuffices == Typed => TypeOK
  <1> SUFFICES ASSUME Typed PROVE TypeOK
    OBVIOUS
  <1>1. DOMAIN sessions = 1 .. Len(sessions) /\ \A i \in DOMAIN sessions : sessions[i] \in Session
    BY RowOf, LenProperties DEF Typed, RowsTyped
  <1>2. /\ DOMAIN tickets = 1 .. Len(tickets)
        /\ \A i \in DOMAIN tickets : tickets[i] \in Ticket
    BY ElementOfSeq, LenProperties DEF Typed, NamesTyped
  <1>3. \A i \in DOMAIN otps : otps[i] \in Otp
    BY OtpRows DEF Typed, SecretsTyped
  <1>4. \A s \in Range(sessions) : s \in Session
    BY <1>1 DEF Range
  <1>5. \A t \in Range(tickets) :
           t \in [session : DOMAIN sessions, age : Ages(TicketTTL), used : BOOLEAN]
    <2>1. \A i \in DOMAIN tickets : tickets[i].session \in DOMAIN sessions
      BY <1>1, <1>2 DEF Typed, NamesTyped
    <2> QED BY <1>2, <2>1 DEF Range, Ticket
  <1>6. \A o \in Range(otps) : o \in Otp
    BY <1>3 DEF Range
  <1> QED BY <1>1, <1>4, <1>5, <1>6
           DEF TypeOK, Typed, RowsTyped, NamesTyped, SecretsTyped, Session, Otp

(***************************************************************************)
(* Every row and every handler is in a state of its own kind: a ticket, a  *)
(* socket and a request name a session that exists, and no table outgrows  *)
(* the room that a handler half way through has kept for itself.           *)
(***************************************************************************)
THEOREM TypeCorrect == Spec => []TypeOK
  <1> QED BY TypedAtFirst, TypedInductive, TypedSuffices, PTL DEF Spec

-----------------------------------------------------------------------------
(* Guesses *)

(* While a password is being verified, one more failure is below the threshold. *)
Guarded ==
  /\ attempts \in [Kinds -> Seq(Nat)]
  /\ GuessesAreBounded
  /\ loop.pc # "idle" => Len(attempts["password"]) < Threshold["password"]

(* Who is not locked out may fail once more. *)
LEMMA NotLocked ==
  ASSUME attempts \in [Kinds -> Seq(Nat)], NEW kind \in Kinds, ~Locked(kind)
  PROVE  Len(attempts[kind]) < Threshold[kind]
  <1>1. Threshold[kind] \in Nat /\ Threshold[kind] > 0
    BY TimesAreNatural
  <1>2. attempts[kind] \in Seq(Nat)
    OBVIOUS
  <1>3. CASE attempts[kind] = << >>
    BY <1>1, <1>3
  <1>4. CASE attempts[kind] # << >>
    BY <1>1, <1>2, <1>4 DEF Locked
  <1> QED BY <1>3, <1>4

(* An attempt adds at most one failure to its kind. *)
LEMMA RecordFacts ==
  ASSUME attempts \in [Kinds -> Seq(Nat)], NEW kind \in Kinds, NEW ok,
         Len(attempts[kind]) < Threshold[kind], Record(kind, ok)
  PROVE  /\ attempts' \in [Kinds -> Seq(Nat)]
         /\ Len(attempts'[kind]) <= Threshold[kind]
         /\ \A k \in Kinds \ {kind} : attempts'[k] = attempts[k]
  <1> DEFINE all == <<0>> \o attempts[kind]
             n == IF Len(all) > Threshold[kind] THEN Threshold[kind] + 1 ELSE Len(all)
  <1>1. Threshold[kind] \in Nat /\ attempts[kind] \in Seq(Nat) /\ Len(attempts[kind]) \in Nat
    BY TimesAreNatural
  <1>2. all \in Seq(Nat) /\ Len(all) = 1 + Len(attempts[kind])
    <2>1. <<0>> \in Seq(Nat) /\ Len(<<0>>) = 1
      OBVIOUS
    <2> QED BY <1>1, <2>1, ConcatProperties
  <1>3. n = Len(all) /\ n \in Nat /\ n <= Threshold[kind] /\ 1 <= n
    BY <1>1, <1>2
  <1>4. Failed(kind) = SubSeq(all, 1, n)
    BY DEF Failed
  <1> HIDE DEF all, n
  <1>5. SubSeq(all, 1, n) \in Seq(Nat) /\ Len(SubSeq(all, 1, n)) = n
    <2>1. \A i \in 1 .. n : all[i] \in Nat
      BY <1>2, <1>3
    <2>2. 1 \in Int /\ n \in Int
      BY <1>3
    <2> QED BY <1>3, <2>1, <2>2, SubSeqProperties
  <1>6. Failed(kind) \in Seq(Nat) /\ Len(Failed(kind)) <= Threshold[kind]
    BY <1>3, <1>4, <1>5
  <1>7. << >> \in Seq(Nat) /\ Len(<< >>) = 0
    OBVIOUS
  <1> HIDE DEF Failed
  <1> QED BY <1>1, <1>6, <1>7 DEF Record

(* What stays in the window is no more than what was there. *)
LEMMA RecentIsFewer ==
  ASSUME attempts \in [Kinds -> Seq(Nat)], NEW k \in Kinds
  PROVE  Recent(k) \in Nat /\ Recent(k) <= Len(attempts[k])
  <1> DEFINE young == {i \in DOMAIN attempts[k] : attempts[k][i] + 1 <= Window[k]}
             n == Len(attempts[k])
  <1>1. attempts[k] \in Seq(Nat) /\ n \in Nat /\ DOMAIN attempts[k] = 1 .. n
    OBVIOUS
  <1>2. IsFiniteSet(1 .. n) /\ Cardinality(1 .. n) = n
    <2> HIDE DEF n
    <2>1. 1 \in Int /\ n \in Int /\ n >= 0
      BY <1>1
    <2>2. IsFiniteSet(1 .. n) /\ Cardinality(1 .. n) = IF 1 > n THEN 0 ELSE n - 1 + 1
      BY <2>1, FS_Interval
    <2> QED BY <2>1, <2>2
  <1>3. young \subseteq 1 .. n
    BY <1>1
  <1>4. IsFiniteSet(young) /\ Cardinality(young) <= n
    BY <1>2, <1>3, FS_Subset
  <1>5. Cardinality(young) \in Nat
    BY <1>4, FS_CardinalityType
  <1> QED BY <1>4, <1>5 DEF Recent

(* Time takes failures away. *)
LEMMA TickFacts ==
  ASSUME attempts \in [Kinds -> Seq(Nat)], Tick
  PROVE  /\ attempts' \in [Kinds -> Seq(Nat)]
         /\ \A k \in Kinds : Len(attempts'[k]) <= Len(attempts[k])
         /\ loop' = loop
  <1>1. attempts' = [k \in Kinds |-> [i \in 1 .. Recent(k) |-> attempts[k][i] + 1]] /\ loop' = loop
    BY DEF Tick
  <1>2. ASSUME NEW k \in Kinds
        PROVE  attempts'[k] \in Seq(Nat) /\ Len(attempts'[k]) <= Len(attempts[k])
    <2>1. Recent(k) \in Nat /\ Recent(k) <= Len(attempts[k])
      BY RecentIsFewer
    <2>2. attempts[k] \in Seq(Nat)
      OBVIOUS
    <2>3. \A i \in 1 .. Recent(k) : attempts[k][i] + 1 \in Nat
      BY <2>1, <2>2
    <2>4. attempts'[k] = [i \in 1 .. Recent(k) |-> attempts[k][i] + 1]
      BY <1>1
    <2> HIDE DEF Recent
    <2>5. attempts'[k] \in Seq(Nat)
      BY <2>1, <2>3, <2>4, IsASeq
    <2>6. Len(attempts'[k]) = Recent(k)
      BY <2>1, <2>4, <2>5, LenProperties
    <2> QED BY <2>1, <2>5, <2>6
  <1> QED BY <1>1, <1>2

(* An attempt of somebody who is not locked out keeps every bound. *)
LEMMA AttemptIsBounded ==
  ASSUME Guarded, NEW kind \in Kinds, NEW ok, Record(kind, ok),
         Len(attempts[kind]) < Threshold[kind],
         loop' = IdleLoop \/ (loop' = loop /\ kind # "password")
  PROVE  Guarded'
  <1>1. /\ attempts' \in [Kinds -> Seq(Nat)]
        /\ Len(attempts'[kind]) <= Threshold[kind]
        /\ \A k \in Kinds \ {kind} : attempts'[k] = attempts[k]
    BY RecordFacts DEF Guarded
  <1>2. GuessesAreBounded'
    BY <1>1 DEF Guarded, GuessesAreBounded
  <1>3. ASSUME loop'.pc # "idle"
        PROVE  Len(attempts'["password"]) < Threshold["password"]
    <2>1. loop' = loop /\ kind # "password"
      BY <1>3 DEF IdleLoop
    <2> QED BY <1>1, <1>3, <2>1 DEF Guarded, Kinds
  <1> QED BY <1>1, <1>2, <1>3 DEF Guarded

(* Guarded is kept: an attempt is recorded only by who was not locked out. *)
LEMMA GuardedInductive == Guarded /\ [Next]_vars => Guarded'
  <1> SUFFICES ASSUME Guarded, [Next]_vars
               PROVE  Guarded'
    OBVIOUS
  <1>t. /\ attempts \in [Kinds -> Seq(Nat)]
        /\ \A k \in Kinds : Threshold[k] \in Nat /\ Threshold[k] > 0
    BY TimesAreNatural DEF Guarded
  <1>1. CASE Tick
    <2>1. /\ attempts' \in [Kinds -> Seq(Nat)]
          /\ \A k \in Kinds : Len(attempts'[k]) <= Len(attempts[k])
          /\ loop' = loop
      BY <1>t, <1>1, TickFacts
    <2>2. \A k \in Kinds : Len(attempts[k]) \in Nat /\ Len(attempts'[k]) \in Nat
      BY <1>t, <2>1
    <2>3. GuessesAreBounded'
      BY <1>t, <2>1, <2>2 DEF Guarded, GuessesAreBounded
    <2>4. loop'.pc # "idle" => Len(attempts'["password"]) < Threshold["password"]
      BY <1>t, <2>1, <2>2 DEF Guarded, Kinds
    <2> QED BY <2>1, <2>3, <2>4 DEF Guarded
  <1>2. CASE Day
    <2>1. attempts' = [k \in Kinds |-> << >>] /\ loop' = loop
      BY <1>2 DEF Day
    <2>2. << >> \in Seq(Nat) /\ Len(<< >>) = 0
      OBVIOUS
    <2> QED BY <1>t, <2>1, <2>2 DEF Guarded, GuessesAreBounded, Kinds
  <1>3. CASE PasswordVerify
    <2>1. attempts' = attempts /\ ~Locked("password")
      BY <1>3 DEF PasswordVerify
    <2>2. Len(attempts["password"]) < Threshold["password"]
      BY <1>t, <2>1, NotLocked DEF Kinds
    <2> QED BY <2>1, <2>2 DEF Guarded, GuessesAreBounded
  <1>4. CASE PasswordLogin
    <2>1. Record("password", loop.ok) /\ loop' = IdleLoop /\ "password" \in Kinds
      BY <1>4 DEF PasswordLogin, Kinds
    <2>2. Len(attempts["password"]) < Threshold["password"]
      BY <1>4 DEF PasswordLogin, Guarded
    <2> QED BY <2>1, <2>2, AttemptIsBounded
  <1>5. CASE RecoveryLogin
    <2>1. ~Locked("recovery") /\ loop' = loop /\ "recovery" \in Kinds
      BY <1>5 DEF RecoveryLogin, Kinds
    <2>2. \E ok : Record("recovery", ok)
      BY <1>5 DEF RecoveryLogin
    <2>3. Len(attempts["recovery"]) < Threshold["recovery"]
      BY <1>t, <2>1, NotLocked
    <2> QED BY <2>1, <2>2, <2>3, AttemptIsBounded
  <1>6. CASE PasskeyLogin
    <2>1. ~Locked("passkey") /\ loop' = loop /\ "passkey" \in Kinds
      BY <1>6 DEF PasskeyLogin, Kinds
    <2>2. \E ok \in BOOLEAN : Record("passkey", ok)
      BY <1>6 DEF PasskeyLogin, Accepted
    <2>3. Len(attempts["passkey"]) < Threshold["passkey"]
      BY <1>t, <2>1, NotLocked
    <2> QED BY <2>1, <2>2, <2>3, AttemptIsBounded
  <1>7. CASE AnswerReset
    <2>1. ~Locked("otp") /\ loop' = loop /\ "otp" \in Kinds
      BY <1>7 DEF AnswerReset, Kinds
    <2>2. \E ok \in BOOLEAN : Record("otp", ok)
      BY <1>7 DEF AnswerReset
    <2>3. Len(attempts["otp"]) < Threshold["otp"]
      BY <1>t, <2>1, NotLocked
    <2> QED BY <2>1, <2>2, <2>3, AttemptIsBounded
  <1>8. ASSUME attempts' = attempts, loop' = loop
        PROVE  Guarded'
    BY <1>8 DEF Guarded, GuessesAreBounded
  <1>9. CASE Logout \/ RegisterOptions \/ RegisterVerify \/ LoginOptions
    BY <1>8, <1>9 DEF Logout, RegisterOptions, RegisterVerify, LoginOptions
  <1>10. CASE \E r \in Requests :
                ValidateRead(r) \/ ValidateTouch(r) \/ MintTicket(r) \/ ApproveHigh(r)
    BY <1>8, <1>10 DEF ValidateRead, ValidateTouch, MintTicket, ApproveHigh
  <1>11. CASE \E c \in Conns : Handshake(c) \/ Message(c) \/ Reply(c) \/ Disconnect(c)
    BY <1>8, <1>11 DEF Handshake, Message, Reply, Disconnect
  <1>12. CASE StartReset \/ DropReset \/ StorePassword \/ SignOutAll \/ BotCrash
    BY <1>8, <1>12 DEF StartReset, DropReset, StorePassword, SignOutAll, BotCrash
  <1>13. CASE SetPassword \/ PrintRecoveryCodes \/ IssueDeviceToken
    BY <1>8, <1>13 DEF SetPassword, PrintRecoveryCodes, IssueDeviceToken
  <1>14. CASE UNCHANGED vars
    BY <1>8, <1>14 DEF vars
  <1> QED BY <1>1, <1>2, <1>3, <1>4, <1>5, <1>6, <1>7, <1>9, <1>10, <1>11, <1>12, <1>13, <1>14
           DEF Next

(***************************************************************************)
(* No kind of secret is guessed at more often than its threshold within a  *)
(* window, for any thresholds and windows and any number of requests,      *)
(* sockets, keys and sessions: the lockout is read in one statement and    *)
(* the failure recorded in another.                                        *)
(***************************************************************************)
THEOREM GuessesBounded == Spec => []GuessesAreBounded
  <1>1. Init => Guarded
    <2> SUFFICES ASSUME Init PROVE Guarded
      OBVIOUS
    <2>1. attempts = [k \in Kinds |-> << >>] /\ loop.pc = "idle"
      BY DEF Init, IdleLoop
    <2>2. << >> \in Seq(Nat) /\ Len(<< >>) = 0 /\ \A k \in Kinds : Threshold[k] \in Nat
      BY TimesAreNatural
    <2> QED BY <2>1, <2>2 DEF Guarded, GuessesAreBounded
  <1>2. Guarded => GuessesAreBounded
    BY DEF Guarded
  <1> QED BY <1>1, <1>2, GuardedInductive, PTL DEF Spec

-----------------------------------------------------------------------------
(* Secrets *)

Secrets == ({"ticket", "otp", "challenge"} \X Nat) \cup ({"recovery"} \X Codes)

(* Somebody got in with the secret x of this kind. *)
Used(kind, x) == \E i \in DOMAIN redeemed : redeemed[i] = <<kind, x>>

(* The tables remember what was used: what let somebody in does not again. *)
TicketsSpent == \A x \in Nat : Used("ticket", x) => x \in 1 .. Len(tickets) /\ tickets[x].used
CodesSpent   == \A x \in Codes : Used("recovery", x) => x \notin codes

(* Only the newest reset code is still good. *)
OtpsSpent ==
  /\ \A x \in Nat : Used("otp", x) => x \in 1 .. Len(otps) /\ otps[x].used
  /\ \A i \in 1 .. Len(otps) : i < Len(otps) => otps[i].used

(* A challenge is numbered when it is generated, and one is pending at most once. *)
ChallengesSpent ==
  /\ \A x \in Nat : Used("challenge", x) =>
       x \in 1 .. minted /\ \A k \in Ceremonies : challenges[k].id # x
  /\ \A k \in Ceremonies : /\ challenges[k].id <= minted
                           /\ challenges[k].age # None => challenges[k].id # 0
  /\ challenges["register"].id # 0 => challenges["register"].id # challenges["login"].id

Spent ==
  /\ redeemed \in Seq(Secrets)
  /\ TicketsSpent /\ CodesSpent /\ OtpsSpent /\ ChallengesSpent
  /\ SecretsWorkOnce

(* What is used after one more secret let somebody in. *)
LEMMA OneMoreUsed ==
  ASSUME redeemed \in Seq(Secrets), NEW s \in Secrets, redeemed' = Append(redeemed, s),
         NEW kind, NEW x
  PROVE  Used(kind, x)' <=> Used(kind, x) \/ s = <<kind, x>>
  <1>1. /\ redeemed' \in Seq(Secrets) /\ Len(redeemed) \in Nat
        /\ Len(redeemed') = Len(redeemed) + 1
        /\ \A i \in 1 .. Len(redeemed) : redeemed'[i] = redeemed[i]
        /\ redeemed'[Len(redeemed) + 1] = s
    BY AppendProperties, LenProperties
  <1>2. DOMAIN redeemed = 1 .. Len(redeemed) /\ DOMAIN redeemed' = 1 .. Len(redeemed) + 1
    BY <1>1, LenProperties
  <1>3. \A i \in DOMAIN redeemed' : i \in DOMAIN redeemed \/ i = Len(redeemed) + 1
    BY <1>1, <1>2
  <1>4. Len(redeemed) + 1 \in DOMAIN redeemed' /\ DOMAIN redeemed \subseteq DOMAIN redeemed'
    BY <1>1, <1>2
  <1> QED BY <1>1, <1>2, <1>3, <1>4 DEF Used

(* A secret that was not used before, and of the reset codes a later one, may let somebody in. *)
LEMMA NewSecretOnce ==
  ASSUME redeemed \in Seq(Secrets), SecretsWorkOnce, NEW s \in Secrets,
         redeemed' = Append(redeemed, s), ~Used(s[1], s[2]),
         \A x \in Nat : s[1] = "otp" /\ Used("otp", x) => x < s[2]
  PROVE  redeemed' \in Seq(Secrets) /\ SecretsWorkOnce'
  <1> DEFINE n == Len(redeemed)
  <1>1. /\ redeemed' \in Seq(Secrets) /\ n \in Nat
        /\ Len(redeemed') = n + 1
        /\ \A i \in 1 .. n : redeemed'[i] = redeemed[i]
        /\ redeemed'[n + 1] = s
    BY AppendProperties, LenProperties
  <1>2. DOMAIN redeemed = 1 .. n /\ DOMAIN redeemed' = 1 .. n + 1
    BY <1>1, LenProperties
  <1>3. \A i \in DOMAIN redeemed : redeemed[i] \in Secrets
    BY ElementOfSeq, <1>2
  <1>4. \A t \in Secrets : t = <<t[1], t[2]>> /\ (t[1] = "otp" => t[2] \in Nat)
    BY DEF Secrets
  <1> HIDE DEF n
  <1>5. \A i \in 1 .. n : redeemed[i] # s
    BY <1>2, <1>3, <1>4 DEF Used
  <1>6. \A i \in 1 .. n : redeemed[i][1] = "otp" /\ s[1] = "otp" => redeemed[i][2] < s[2]
    <2> SUFFICES ASSUME NEW i \in 1 .. n, redeemed[i][1] = "otp", s[1] = "otp"
                 PROVE  redeemed[i][2] < s[2]
      OBVIOUS
    <2>1. redeemed[i] \in Secrets
      BY <1>2, <1>3
    <2>2. redeemed[i] = <<"otp", redeemed[i][2]>> /\ redeemed[i][2] \in Nat
      BY <1>4, <2>1
    <2>3. Used("otp", redeemed[i][2])
      BY <1>2, <2>2 DEF Used
    <2> QED BY <2>2, <2>3
  <1>7. ASSUME NEW i \in 1 .. n + 1, NEW j \in 1 .. n + 1
        PROVE  /\ redeemed'[i] = redeemed'[j] => i = j
               /\ redeemed'[i][1] = "otp" /\ redeemed'[j][1] = "otp" /\ i < j =>
                    redeemed'[i][2] < redeemed'[j][2]
    <2>1. (i \in 1 .. n \/ i = n + 1) /\ (j \in 1 .. n \/ j = n + 1)
      BY <1>1
    <2>2. CASE i \in 1 .. n /\ j \in 1 .. n
      BY <1>1, <1>2, <2>2 DEF SecretsWorkOnce
    <2>3. CASE i \in 1 .. n /\ j = n + 1
      BY <1>1, <1>5, <1>6, <2>3
    <2>4. CASE i = n + 1 /\ j \in 1 .. n
      BY <1>1, <1>5, <2>4
    <2>5. CASE i = n + 1 /\ j = n + 1
      BY <1>1, <2>5
    <2> QED BY <2>1, <2>2, <2>3, <2>4, <2>5
  <1> QED BY <1>1, <1>2, <1>7 DEF SecretsWorkOnce

(* A ticket that was used stays used. *)
LEMMA TicketsStep ==
  ASSUME Typed, [Next]_vars
  PROVE  /\ Len(tickets) \in Nat /\ Len(tickets') \in Nat /\ Len(tickets) <= Len(tickets')
         /\ \A i \in 1 .. Len(tickets) : tickets[i].used => tickets'[i].used
  <1>t. /\ tickets \in Seq(Ticket) /\ Len(tickets) \in Nat
        /\ DOMAIN tickets = 1 .. Len(tickets) /\ \A i \in 1 .. Len(tickets) : tickets[i] \in Ticket
    BY LenProperties, ElementOfSeq DEF Typed, NamesTyped
  <1>p. tickets' \in Seq(Ticket) /\ Len(tickets') \in Nat /\ DOMAIN tickets' = 1 .. Len(tickets')
    BY TypedInductive, LenProperties DEF Typed, NamesTyped
  <1>1. CASE tickets' = tickets
    BY <1>t, <1>1
  <1>2. CASE Tick \/ Day
    <2>1. \/ tickets' = [i \in DOMAIN tickets |-> [tickets[i] EXCEPT !.age = Older(@, TicketTTL)]]
          \/ tickets' = [i \in DOMAIN tickets |-> [tickets[i] EXCEPT !.age = Expired(@, TicketTTL)]]
      BY <1>2 DEF Tick, Day, AgeTickets
    <2>2. \A i \in DOMAIN tickets : tickets'[i].used = tickets[i].used
      <3>1. \A i \in DOMAIN tickets :
               \/ tickets'[i] = [tickets[i] EXCEPT !.age = Older(@, TicketTTL)]
               \/ tickets'[i] = [tickets[i] EXCEPT !.age = Expired(@, TicketTTL)]
        BY <2>1
      <3>2. \A i \in DOMAIN tickets : tickets[i] \in Ticket
        BY <1>t
      <3> QED BY <3>1, <3>2 DEF Ticket
    <2>3. tickets' = [i \in 1 .. Len(tickets) |-> tickets'[i]]
      BY <1>t, <2>1
    <2>4. Len(tickets') = Len(tickets)
      <3>1. tickets' \in Seq(Ticket) /\ Len(tickets) \in Nat
        BY <1>t, <1>p
      <3> QED BY <2>3, <3>1, LenProperties
    <2> QED BY <1>t, <2>2, <2>4
  <1>3. ASSUME NEW r \in Requests, MintTicket(r)
        PROVE  /\ Len(tickets) <= Len(tickets')
               /\ \A i \in 1 .. Len(tickets) : tickets'[i] = tickets[i]
    <2> DEFINE row == [session |-> requests[r].session, age |-> 0, used |-> FALSE]
    <2>1. tickets' = Append(tickets, row) /\ requests[r].pc = "validated"
      BY <1>3 DEF MintTicket, MintWsTicket
    <2>2. row \in Ticket
      <3>1. requests[r].session \in Nat
        BY <2>1 DEF Typed, NamesTyped
      <3> QED BY <3>1, AgesFacts, TTLs DEF Ticket
    <2> HIDE DEF row
    <2> QED BY <1>t, <2>1, <2>2, AppendProperties
  <1>4. ASSUME NEW i \in DOMAIN tickets, Consumed(i)
        PROVE  /\ Len(tickets) = Len(tickets')
               /\ \A j \in 1 .. Len(tickets) : tickets[j].used => tickets'[j].used
    <2>1. tickets' = [tickets EXCEPT ![i].used = TRUE]
      BY <1>4 DEF Consumed
    <2>2. Len(tickets') = Len(tickets)
      BY <1>t, <1>p, <2>1
    <2> QED BY <1>t, <2>1, <2>2 DEF Ticket
  <1>5. \/ tickets' = tickets \/ Tick \/ Day \/ \E r \in Requests : MintTicket(r)
        \/ \E i \in DOMAIN tickets : Consumed(i)
    <2>1. CASE \/ PasswordVerify \/ PasswordLogin \/ RecoveryLogin \/ Logout
               \/ RegisterOptions \/ RegisterVerify \/ LoginOptions \/ PasskeyLogin
      BY <2>1 DEF PasswordVerify, PasswordLogin, RecoveryLogin, Logout, RegisterOptions,
                  RegisterVerify, LoginOptions, PasskeyLogin, stores
    <2>2. CASE \E r \in Requests :
                 ValidateRead(r) \/ ValidateTouch(r) \/ MintTicket(r) \/ ApproveHigh(r)
      BY <2>2 DEF ValidateRead, ValidateTouch, ApproveHigh, stores
    <2>3. CASE \E c \in Conns : Handshake(c) \/ Message(c) \/ Reply(c) \/ Disconnect(c)
      BY <2>3 DEF Handshake, Message, Reply, Disconnect, stores
    <2>4. CASE \/ StartReset \/ DropReset \/ AnswerReset \/ StorePassword \/ SignOutAll \/ BotCrash
               \/ SetPassword \/ PrintRecoveryCodes \/ IssueDeviceToken
      BY <2>4 DEF StartReset, DropReset, AnswerReset, StorePassword, SignOutAll, BotCrash,
                  SetPassword, PrintRecoveryCodes, IssueDeviceToken, stores
    <2>5. CASE UNCHANGED vars
      BY <2>5 DEF vars
    <2> QED BY <2>1, <2>2, <2>3, <2>4, <2>5 DEF Next
  <1>6. /\ Len(tickets) <= Len(tickets')
        /\ \A i \in 1 .. Len(tickets) : tickets[i].used => tickets'[i].used
    <2>1. CASE \E r \in Requests : MintTicket(r)
      BY <1>3, <2>1
    <2>2. CASE \E i \in DOMAIN tickets : Consumed(i)
      BY <1>t, <1>4, <2>2
    <2> QED BY <1>1, <1>2, <1>5, <2>1, <2>2
  <1> QED BY <1>t, <1>p, <1>6

(* New recovery codes are printed only before the first one was used. *)
LEMMA CodesStep ==
  ASSUME [Next]_vars
  PROVE  codes' \subseteq codes \/ (redeemed' = redeemed /\ \A x : ~Used("recovery", x))
  <1>1. codes' = codes \/ RecoveryLogin \/ PrintRecoveryCodes
    <2>1. CASE \/ Tick \/ Day \/ PasswordVerify \/ PasswordLogin \/ Logout
               \/ RegisterOptions \/ RegisterVerify \/ LoginOptions \/ PasskeyLogin
      BY <2>1 DEF Tick, Day, PasswordVerify, PasswordLogin, Logout, RegisterOptions,
                  RegisterVerify, LoginOptions, PasskeyLogin, stores
    <2>2. CASE \E r \in Requests :
                 ValidateRead(r) \/ ValidateTouch(r) \/ MintTicket(r) \/ ApproveHigh(r)
      BY <2>2 DEF ValidateRead, ValidateTouch, MintTicket, ApproveHigh, stores
    <2>3. CASE \E c \in Conns : Handshake(c) \/ Message(c) \/ Reply(c) \/ Disconnect(c)
      BY <2>3 DEF Handshake, Message, Reply, Disconnect, stores
    <2>4. CASE \/ StartReset \/ DropReset \/ AnswerReset \/ StorePassword \/ SignOutAll \/ BotCrash
               \/ SetPassword \/ IssueDeviceToken
      BY <2>4 DEF StartReset, DropReset, AnswerReset, StorePassword, SignOutAll, BotCrash,
                  SetPassword, IssueDeviceToken, stores
    <2>5. CASE UNCHANGED vars
      BY <2>5 DEF vars
    <2> QED BY <2>1, <2>2, <2>3, <2>4, <2>5 DEF Next
  <1>2. CASE RecoveryLogin
    BY <1>2 DEF RecoveryLogin, VerifyRecoveryCode
  <1>3. CASE PrintRecoveryCodes
    <2>1. redeemed' = redeemed /\ \A r \in DOMAIN redeemed : redeemed[r][1] # "recovery"
      BY <1>3 DEF PrintRecoveryCodes
    <2>2. ASSUME NEW x, Used("recovery", x)
          PROVE  FALSE
      BY <2>1, <2>2 DEF Used
    <2> QED BY <2>1, <2>2
  <1> QED BY <1>1, <1>2, <1>3

(* A new reset code marks the earlier ones; an answer marks the one it names. *)
LEMMA OtpsStep ==
  ASSUME Typed, [Next]_vars
  PROVE  /\ Len(otps) \in Nat /\ Len(otps') \in {Len(otps), Len(otps) + 1}
         /\ \A i \in 1 .. Len(otps) :
              otps[i].used \/ Len(otps') # Len(otps) => otps'[i].used
  <1>t. /\ otps \in Seq(Otp) /\ Len(otps) \in Nat /\ DOMAIN otps = 1 .. Len(otps)
        /\ \A i \in 1 .. Len(otps) : otps[i] \in Otp
    BY LenProperties, ElementOfSeq DEF Typed, SecretsTyped
  <1>p. otps' \in Seq(Otp) /\ Len(otps') \in Nat /\ DOMAIN otps' = 1 .. Len(otps')
    BY TypedInductive, LenProperties DEF Typed, SecretsTyped
  <1>1. CASE otps' = otps
    BY <1>t, <1>1
  <1>2. CASE Tick \/ Day
    <2>1. \/ otps' = [i \in DOMAIN otps |-> [otps[i] EXCEPT !.age = Older(@, OtpTTL)]]
          \/ otps' = [i \in DOMAIN otps |-> [otps[i] EXCEPT !.age = Expired(@, OtpTTL)]]
      BY <1>2 DEF Tick, Day, AgeOtps
    <2>2. \A i \in DOMAIN otps : otps'[i].used = otps[i].used
      <3>1. \A i \in DOMAIN otps :
               \/ otps'[i] = [otps[i] EXCEPT !.age = Older(@, OtpTTL)]
               \/ otps'[i] = [otps[i] EXCEPT !.age = Expired(@, OtpTTL)]
        BY <2>1
      <3>2. \A i \in DOMAIN otps : otps[i] \in Otp
        BY <1>t
      <3> QED BY <3>1, <3>2 DEF Otp
    <2>3. otps' = [i \in 1 .. Len(otps) |-> otps'[i]]
      BY <1>t, <2>1
    <2>4. Len(otps') = Len(otps)
      <3>1. otps' \in Seq(Otp) /\ Len(otps) \in Nat
        BY <1>t, <1>p
      <3> QED BY <2>3, <3>1, LenProperties
    <2> QED BY <1>t, <2>2, <2>4
  <1>3. CASE StartReset
    <2> DEFINE f == [i \in DOMAIN otps |-> [otps[i] EXCEPT !.used = TRUE]]
               new == [age |-> 0, used |-> FALSE]
    <2>1. otps' = Append(f, new)
      BY <1>3 DEF StartReset, RequestOtp
    <2>2. \A i \in DOMAIN otps : f[i] \in Otp /\ f[i].used
      BY <1>t DEF Otp
    <2>3. f = [i \in DOMAIN otps |-> f[i]]
      OBVIOUS
    <2>4. new \in Otp
      BY AgesFacts, TTLs DEF Otp
    <2> HIDE DEF f, new
    <2>5. f \in Seq(Otp) /\ Len(f) = Len(otps)
      BY <1>t, <2>2, <2>3, OtpsUpdated
    <2>6. Len(otps') = Len(otps) + 1 /\ \A i \in 1 .. Len(otps) : otps'[i] = f[i]
      BY <2>1, <2>4, <2>5, AppendProperties
    <2> QED BY <1>t, <2>2, <2>6
  <1>4. CASE AnswerReset
    <2>1. otps' = otps \/ \E i \in 0 .. Len(otps) : otps' = [otps EXCEPT ![i].used = TRUE]
      BY <1>4 DEF AnswerReset, VerifyOtp
    <2>2. ASSUME NEW i \in 0 .. Len(otps), otps' = [otps EXCEPT ![i].used = TRUE]
          PROVE  /\ Len(otps') = Len(otps)
                 /\ \A j \in 1 .. Len(otps) : otps[j].used => otps'[j].used
      <3>1. Len(otps') = Len(otps)
        BY <1>t, <1>p, <2>2
      <3> QED BY <1>t, <2>2, <3>1 DEF Otp
    <2> QED BY <1>t, <1>1, <2>1, <2>2
  <1>5. otps' = otps \/ Tick \/ Day \/ StartReset \/ AnswerReset
    <2>1. CASE \/ PasswordVerify \/ PasswordLogin \/ RecoveryLogin \/ Logout
               \/ RegisterOptions \/ RegisterVerify \/ LoginOptions \/ PasskeyLogin
      BY <2>1 DEF PasswordVerify, PasswordLogin, RecoveryLogin, Logout, RegisterOptions,
                  RegisterVerify, LoginOptions, PasskeyLogin, stores
    <2>2. CASE \E r \in Requests :
                 ValidateRead(r) \/ ValidateTouch(r) \/ MintTicket(r) \/ ApproveHigh(r)
      BY <2>2 DEF ValidateRead, ValidateTouch, MintTicket, ApproveHigh, stores
    <2>3. CASE \E c \in Conns : Handshake(c) \/ Message(c) \/ Reply(c) \/ Disconnect(c)
      BY <2>3 DEF Handshake, Message, Reply, Disconnect, stores
    <2>4. CASE \/ DropReset \/ StorePassword \/ SignOutAll \/ BotCrash
               \/ SetPassword \/ PrintRecoveryCodes \/ IssueDeviceToken
      BY <2>4 DEF DropReset, StorePassword, SignOutAll, BotCrash,
                  SetPassword, PrintRecoveryCodes, IssueDeviceToken, stores
    <2>5. CASE UNCHANGED vars
      BY <2>5 DEF vars
    <2> QED BY <2>1, <2>2, <2>3, <2>4, <2>5 DEF Next
  <1> QED BY <1>1, <1>2, <1>3, <1>4, <1>5

(* A pending challenge is dropped or kept, or a new one with a new number takes its place. *)
ChallengesKept ==
  /\ minted' = minted
  /\ \A k \in Ceremonies :
       /\ challenges'[k].id \in {challenges[k].id, 0}
       /\ challenges'[k].age # None =>
            challenges'[k].id = challenges[k].id /\ challenges[k].age # None
NewChallenge(k) ==
  /\ redeemed' = redeemed
  /\ minted' = minted + 1
  /\ challenges' = [challenges EXCEPT ![k] = [id |-> minted + 1, age |-> 0]]

(* A step keeps the pending challenges or adds one. *)
LEMMA ChallengesStep ==
  ASSUME Typed, [Next]_vars
  PROVE  ChallengesKept \/ \E k \in Ceremonies : NewChallenge(k)
  <1>t. /\ challenges \in [Ceremonies -> [id : 0 .. MaxChallenges, age : Ages(ChallengeTTL)]]
        /\ \A k \in Ceremonies : challenges[k].id \in {challenges[k].id, 0}
    BY DEF Typed, SecretsTyped
  <1>1. ASSUME UNCHANGED <<challenges, minted>>
        PROVE  ChallengesKept
    BY <1>1 DEF ChallengesKept
  <1>2. CASE Tick \/ Day
    <2>1. /\ minted' = minted
          /\ \/ challenges' = [k \in Ceremonies |->
                                 [challenges[k] EXCEPT !.age = Older(@, ChallengeTTL)]]
             \/ challenges' = [k \in Ceremonies |->
                                 [challenges[k] EXCEPT !.age = Expired(@, ChallengeTTL)]]
      BY <1>2 DEF Tick, Day, AgeChallenges
    <2>2. ASSUME NEW k \in Ceremonies
          PROVE  /\ challenges'[k].id = challenges[k].id
                 /\ challenges'[k].age # None => challenges[k].age # None
      <3>1. \/ challenges'[k] = [challenges[k] EXCEPT !.age = Older(@, ChallengeTTL)]
            \/ challenges'[k] = [challenges[k] EXCEPT !.age = Expired(@, ChallengeTTL)]
        BY <2>1
      <3> QED BY <1>t, <3>1 DEF Older, Expired
    <2> QED BY <2>1, <2>2 DEF ChallengesKept
  <1>3. ASSUME NEW k \in Ceremonies, Consume(k), minted' = minted
        PROVE  ChallengesKept
    BY <1>3, <1>t DEF Consume, ChallengesKept
  <1>4. CASE RegisterOptions \/ LoginOptions
    <2>1. redeemed' = redeemed /\ \E k \in Ceremonies : StoreChallenge(k)
      BY <1>4 DEF RegisterOptions, LoginOptions, StartRegistration, StartLogin, Ceremonies
    <2> QED BY <2>1 DEF StoreChallenge, NewChallenge
  <1>5. CASE RegisterVerify \/ PasskeyLogin
    <2>1. minted' = minted /\ \E k \in Ceremonies : Consume(k)
      BY <1>5 DEF RegisterVerify, PasskeyLogin, VerifyLogin, VerifyAssertion, VerifyRegistration,
                  Ceremonies
    <2> QED BY <1>3, <2>1
  <1>6. ASSUME NEW r \in Requests, ApproveHigh(r)
        PROVE  ChallengesKept
    <2>1. minted' = minted /\ (challenges' = challenges \/ \E k \in Ceremonies : Consume(k))
      BY <1>6 DEF ApproveHigh, VerifyAssertion, Ceremonies
    <2> QED BY <1>1, <1>3, <2>1
  <1>7. CASE \/ PasswordVerify \/ PasswordLogin \/ RecoveryLogin \/ Logout
             \/ StartReset \/ DropReset \/ AnswerReset \/ StorePassword \/ SignOutAll \/ BotCrash
             \/ SetPassword \/ PrintRecoveryCodes \/ IssueDeviceToken
    BY <1>1, <1>7 DEF PasswordVerify, PasswordLogin, RecoveryLogin, Logout, StartReset, DropReset,
         AnswerReset, StorePassword, SignOutAll, BotCrash, SetPassword, PrintRecoveryCodes,
         IssueDeviceToken, stores
  <1>8. ASSUME NEW r \in Requests, ValidateRead(r) \/ ValidateTouch(r) \/ MintTicket(r)
        PROVE  ChallengesKept
    BY <1>1, <1>8 DEF ValidateRead, ValidateTouch, MintTicket, stores
  <1>9. ASSUME NEW c \in Conns, Handshake(c) \/ Message(c) \/ Reply(c) \/ Disconnect(c)
        PROVE  ChallengesKept
    BY <1>1, <1>9 DEF Handshake, Message, Reply, Disconnect, stores
  <1>10. CASE UNCHANGED vars
    BY <1>1, <1>10 DEF vars
  <1> QED BY <1>2, <1>4, <1>5, <1>6, <1>7, <1>8, <1>9, <1>10 DEF Next

-----------------------------------------------------------------------------
(* Who is let in, and what is spent for it in the same step. *)

Redeems(kind, x) == redeemed' = Append(redeemed, <<kind, x>>)

TicketIn(i)  == Redeems("ticket", i) /\ ~tickets[i].used /\ tickets'[i].used
CodeIn(code) == Redeems("recovery", code) /\ codes' = codes \ {code}
ChallengeIn(k) ==
  /\ Redeems("challenge", challenges[k].id) /\ challenges[k].age # None
  /\ challenges' = [challenges EXCEPT ![k] = [id |-> 0, age |-> None]] /\ minted' = minted
OtpIn(i) == Redeems("otp", i) /\ ~otps[i].used /\ otps' = [otps EXCEPT ![i].used = TRUE]

(* A step lets nobody in, or one by one secret. *)
LEMMA RedeemedStep ==
  ASSUME Typed, [Next]_vars
  PROVE  \/ redeemed' = redeemed
         \/ \E i \in 1 .. Len(tickets) : TicketIn(i)
         \/ \E code \in codes : CodeIn(code)
         \/ \E k \in Ceremonies : ChallengeIn(k)
         \/ \E i \in 1 .. Len(otps) : OtpIn(i)
  <1>1. ASSUME NEW c \in Conns, Handshake(c)
        PROVE  \E i \in 1 .. Len(tickets) : TicketIn(i)
    <2>1. PICK i \in DOMAIN tickets : Consumed(i)
      BY <1>1 DEF Handshake
    <2>2. tickets[i] \in Ticket /\ i \in 1 .. Len(tickets)
      BY ElementOfSeq, LenProperties DEF Typed, NamesTyped
    <2> QED BY <2>1, <2>2 DEF Consumed, TicketIn, Redeems, Ticket
  <1>2. CASE RecoveryLogin
    BY <1>2 DEF RecoveryLogin, VerifyRecoveryCode, CodeIn, Redeems
  <1>3. ASSUME NEW c \in CredIds, NEW genuine \in BOOLEAN, NEW n \in 0 .. MaxCount,
               VerifyAssertion(c, genuine, n) \/ VerifyRegistration(c, genuine, n),
               minted' = minted
        PROVE  redeemed' = redeemed \/ \E k \in Ceremonies : ChallengeIn(k)
    BY <1>3 DEF VerifyAssertion, VerifyRegistration, Accepted, Registered, Pending, Consume,
                ChallengeIn, Redeems, Ceremonies
  <1>4. CASE RegisterVerify \/ PasskeyLogin
    <2>1. /\ minted' = minted
          /\ \E c \in CredIds, genuine \in BOOLEAN, n \in 0 .. MaxCount :
               VerifyAssertion(c, genuine, n) \/ VerifyRegistration(c, genuine, n)
      BY <1>4 DEF RegisterVerify, PasskeyLogin, VerifyLogin
    <2> QED BY <1>3, <2>1
  <1>5. ASSUME NEW r \in Requests, ApproveHigh(r)
        PROVE  redeemed' = redeemed \/ \E k \in Ceremonies : ChallengeIn(k)
    <2>1. /\ minted' = minted
          /\ \/ redeemed' = redeemed
             \/ \E c \in CredIds, genuine \in BOOLEAN, n \in 0 .. MaxCount :
                  VerifyAssertion(c, genuine, n)
      BY <1>5 DEF ApproveHigh
    <2> QED BY <1>3, <2>1
  <1>6. CASE AnswerReset
    <2>1. PICK i \in 0 .. Len(otps), ok \in BOOLEAN : VerifyOtp(i, ok)
      BY <1>6 DEF AnswerReset
    <2>2. CASE ok
      <3>1. i # 0 /\ OtpIn(i)
        BY <2>1, <2>2 DEF VerifyOtp, OtpIn, Redeems
      <3>2. Len(otps) \in Nat
        BY LenProperties DEF Typed, SecretsTyped
      <3> QED BY <3>1, <3>2
    <2>3. CASE ~ok
      BY <2>1, <2>3 DEF VerifyOtp
    <2> QED BY <2>2, <2>3
  <1>7. CASE \/ Tick \/ Day \/ PasswordVerify \/ PasswordLogin \/ Logout
             \/ RegisterOptions \/ LoginOptions
             \/ StartReset \/ DropReset \/ StorePassword \/ SignOutAll \/ BotCrash
             \/ SetPassword \/ PrintRecoveryCodes \/ IssueDeviceToken
    BY <1>7 DEF Tick, Day, PasswordVerify, PasswordLogin, Logout, RegisterOptions, LoginOptions,
         StartReset, DropReset, StorePassword, SignOutAll, BotCrash, SetPassword,
         PrintRecoveryCodes, IssueDeviceToken
  <1>8. ASSUME NEW r \in Requests, ValidateRead(r) \/ ValidateTouch(r) \/ MintTicket(r)
        PROVE  redeemed' = redeemed
    BY <1>8 DEF ValidateRead, ValidateTouch, MintTicket
  <1>9. ASSUME NEW c \in Conns, Message(c) \/ Reply(c) \/ Disconnect(c)
        PROVE  redeemed' = redeemed
    BY <1>9 DEF Message, Reply, Disconnect
  <1>10. CASE UNCHANGED vars
    BY <1>10 DEF vars
  <1> QED BY <1>1, <1>2, <1>4, <1>5, <1>6, <1>7, <1>8, <1>9, <1>10 DEF Next

-----------------------------------------------------------------------------
LEMMA SpentInductive == Typed /\ Spent /\ [Next]_vars => Spent'
  <1> SUFFICES ASSUME Typed, Spent, [Next]_vars
               PROVE  Spent'
    OBVIOUS
  <1>s. redeemed \in Seq(Secrets) /\ SecretsWorkOnce
    BY DEF Spent
  <1>t. /\ Len(tickets) \in Nat /\ Len(tickets') \in Nat /\ Len(tickets) <= Len(tickets')
        /\ \A i \in 1 .. Len(tickets) : tickets[i].used => tickets'[i].used
    BY TicketsStep
  <1>o. /\ Len(otps) \in Nat /\ Len(otps') \in {Len(otps), Len(otps) + 1}
        /\ \A i \in 1 .. Len(otps) :
             otps[i].used \/ Len(otps') # Len(otps) => otps'[i].used
    BY OtpsStep
  <1>c. codes' \subseteq codes \/ (redeemed' = redeemed /\ \A x : ~Used("recovery", x))
    BY CodesStep
  <1>h. ChallengesKept \/ \E k \in Ceremonies : NewChallenge(k)
    BY ChallengesStep
  <1>m. /\ minted \in Nat
        /\ challenges \in [Ceremonies -> [id : 0 .. MaxChallenges, age : Ages(ChallengeTTL)]]
        /\ \A k \in Ceremonies : challenges[k].id \in Nat
    BY BoundsAreNatural DEF Typed, SecretsTyped
  (* What was used before is still known to have been, whoever else got in. *)
  <1>1. ASSUME \A x \in Nat : Used("ticket", x)' => Used("ticket", x)
        PROVE  TicketsSpent'
    BY <1>1, <1>t DEF Spent, TicketsSpent
  <1>2. ASSUME \A x \in Nat : Used("otp", x)' => Used("otp", x)
        PROVE  OtpsSpent'
    <2>1. \A i \in 1 .. Len(otps') : i \in 1 .. Len(otps) \/ i = Len(otps')
      BY <1>o
    <2>2. \A i \in 1 .. Len(otps') : i < Len(otps') => otps'[i].used
      BY <1>o, <2>1 DEF Spent, OtpsSpent
    <2>3. \A x \in Nat : Used("otp", x) => x \in 1 .. Len(otps') /\ otps'[x].used
      BY <1>o DEF Spent, OtpsSpent
    <2> QED BY <1>2, <2>2, <2>3 DEF OtpsSpent
  <1>3. ASSUME \A x \in Codes : Used("recovery", x)' => Used("recovery", x)
        PROVE  CodesSpent'
    BY <1>3, <1>c DEF Spent, CodesSpent
  <1>4. ASSUME \A x \in Nat : Used("challenge", x)' => Used("challenge", x)
        PROVE  ChallengesSpent'
    <2>1. CASE ChallengesKept
      BY <1>4, <1>m, <2>1 DEF ChallengesKept, Spent, ChallengesSpent, Ceremonies
    <2>2. CASE \E k \in Ceremonies : NewChallenge(k)
      <3>1. PICK k \in Ceremonies : NewChallenge(k)
        BY <2>2
      <3>2. /\ minted' = minted + 1 /\ challenges'[k].id = minted + 1
            /\ \A j \in Ceremonies \ {k} : challenges'[j] = challenges[j]
        BY <1>m, <3>1 DEF NewChallenge
      <3>3. \A x \in Nat : Used("challenge", x)' =>
               x \in 1 .. minted' /\ \A j \in Ceremonies : challenges'[j].id # x
        BY <1>4, <1>m, <3>2 DEF Spent, ChallengesSpent
      <3>4. \A j \in Ceremonies : challenges'[j].id <= minted' /\
               (challenges'[j].age # None => challenges'[j].id # 0)
        BY <1>m, <3>2 DEF Spent, ChallengesSpent
      <3>5. challenges'["register"].id # 0 => challenges'["register"].id # challenges'["login"].id
        BY <1>m, <3>2 DEF Spent, ChallengesSpent, Ceremonies
      <3> QED BY <3>3, <3>4, <3>5 DEF ChallengesSpent
    <2> QED BY <1>h, <2>1, <2>2
  <1>5. CASE redeemed' = redeemed
    <2>1. \A kind, x : Used(kind, x)' <=> Used(kind, x)
      BY <1>5 DEF Used
    <2>2. SecretsWorkOnce'
      BY <1>5, <1>s DEF SecretsWorkOnce
    <2> QED BY <1>s, <1>1, <1>2, <1>3, <1>4, <1>5, <2>1, <2>2 DEF Spent
  <1>6. ASSUME NEW i \in 1 .. Len(tickets), TicketIn(i)
        PROVE  Spent'
    <2>1. <<"ticket", i>> \in Secrets /\ redeemed' = Append(redeemed, <<"ticket", i>>)
      BY <1>t, <1>6 DEF TicketIn, Redeems, Secrets
    <2>2. ~Used("ticket", i)
      BY <1>t, <1>6 DEF TicketIn, Spent, TicketsSpent
    <2>3. redeemed' \in Seq(Secrets) /\ SecretsWorkOnce'
      BY <1>s, <2>1, <2>2, NewSecretOnce
    <2>4. ASSUME NEW kind, NEW x
          PROVE  Used(kind, x)' <=> Used(kind, x) \/ <<"ticket", i>> = <<kind, x>>
      BY <1>s, <2>1, OneMoreUsed
    <2>5. TicketsSpent'
      BY <1>t, <1>6, <2>4 DEF TicketIn, Spent, TicketsSpent
    <2> QED BY <1>2, <1>3, <1>4, <2>3, <2>4, <2>5 DEF Spent
  <1>7. ASSUME NEW code \in codes, CodeIn(code)
        PROVE  Spent'
    <2>1. <<"recovery", code>> \in Secrets /\ redeemed' = Append(redeemed, <<"recovery", code>>)
      BY <1>7 DEF CodeIn, Redeems, Secrets, Typed, SecretsTyped
    <2>2. ~Used("recovery", code)
      BY <1>7 DEF Spent, CodesSpent, Typed, SecretsTyped
    <2>3. redeemed' \in Seq(Secrets) /\ SecretsWorkOnce'
      BY <1>s, <2>1, <2>2, NewSecretOnce
    <2>4. ASSUME NEW kind, NEW x
          PROVE  Used(kind, x)' <=> Used(kind, x) \/ <<"recovery", code>> = <<kind, x>>
      BY <1>s, <2>1, OneMoreUsed
    <2>5. CodesSpent'
      BY <1>7, <2>4 DEF CodeIn, Spent, CodesSpent
    <2> QED BY <1>1, <1>2, <1>4, <2>3, <2>4, <2>5 DEF Spent
  <1>8. ASSUME NEW k \in Ceremonies, ChallengeIn(k)
        PROVE  Spent'
    <2> DEFINE x0 == challenges[k].id
    <2>0. x0 \in Nat /\ x0 # 0 /\ x0 <= minted
      BY <1>m, <1>8 DEF ChallengeIn, Spent, ChallengesSpent
    <2>1. <<"challenge", x0>> \in Secrets /\ redeemed' = Append(redeemed, <<"challenge", x0>>)
      BY <1>8, <2>0 DEF ChallengeIn, Redeems, Secrets
    <2>2. ~Used("challenge", x0)
      BY <2>0 DEF Spent, ChallengesSpent
    <2>a. /\ challenges' = [challenges EXCEPT ![k] = [id |-> 0, age |-> None]] /\ minted' = minted
          /\ \A j \in Ceremonies \ {k} : challenges[j].id # x0
      BY <1>8, <2>0 DEF ChallengeIn, Spent, ChallengesSpent, Ceremonies
    <2> HIDE DEF x0
    <2>3. redeemed' \in Seq(Secrets) /\ SecretsWorkOnce'
      BY <1>s, <2>1, <2>2, NewSecretOnce
    <2>4. ASSUME NEW kind, NEW x
          PROVE  Used(kind, x)' <=> Used(kind, x) \/ <<"challenge", x0>> = <<kind, x>>
      BY <1>s, <2>1, OneMoreUsed
    <2>b. /\ challenges'[k].id = 0 /\ challenges'[k].age = None
          /\ \A j \in Ceremonies \ {k} : challenges'[j] = challenges[j]
      BY <1>m, <2>a
    <2>5. ChallengesSpent'
      <3>1. \A x \in Nat : Used("challenge", x)' =>
               x \in 1 .. minted' /\ \A j \in Ceremonies : challenges'[j].id # x
        BY <1>m, <2>0, <2>4, <2>a, <2>b DEF Spent, ChallengesSpent
      <3>2. \A j \in Ceremonies : challenges'[j].id <= minted' /\
               (challenges'[j].age # None => challenges'[j].id # 0)
        BY <1>m, <2>a, <2>b DEF Spent, ChallengesSpent
      <3>3. challenges'["register"].id # 0 => challenges'["register"].id # challenges'["login"].id
        BY <1>m, <2>b DEF Spent, ChallengesSpent, Ceremonies
      <3> QED BY <3>1, <3>2, <3>3 DEF ChallengesSpent
    <2> QED BY <1>1, <1>2, <1>3, <2>3, <2>4, <2>5 DEF Spent
  <1>9. ASSUME NEW i \in 1 .. Len(otps), OtpIn(i)
        PROVE  Spent'
    <2>1. <<"otp", i>> \in Secrets /\ redeemed' = Append(redeemed, <<"otp", i>>)
      BY <1>o, <1>9 DEF OtpIn, Redeems, Secrets
    <2>2. i = Len(otps) /\ \A x \in Nat : Used("otp", x) => x < i
      BY <1>o, <1>9 DEF OtpIn, Spent, OtpsSpent
    <2>3. redeemed' \in Seq(Secrets) /\ SecretsWorkOnce'
      <3>1. ~Used("otp", i)
        BY <1>o, <2>2
      <3> QED BY <1>s, <2>1, <2>2, <3>1, NewSecretOnce
    <2>4. ASSUME NEW kind, NEW x
          PROVE  Used(kind, x)' <=> Used(kind, x) \/ <<"otp", i>> = <<kind, x>>
      BY <1>s, <2>1, OneMoreUsed
    <2>5. OtpsSpent'
      <3>1. otps \in Seq(Otp) /\ \A j \in 1 .. Len(otps) : otps[j] \in Otp
        BY ElementOfSeq DEF Typed, SecretsTyped
      <3>2. otps' = [otps EXCEPT ![i].used = TRUE]
        BY <1>9 DEF OtpIn
      <3>3. otps'[i].used
        BY <1>9, <3>1, <3>2 DEF Otp
      <3>4. \A j \in 1 .. Len(otps) : otps'[j].used
        BY <1>o, <2>2, <3>3 DEF Spent, OtpsSpent
      <3>5. \A x \in Nat : Used("otp", x)' => x \in 1 .. Len(otps)
        BY <1>9, <2>4 DEF Spent, OtpsSpent
      <3>6. \A j \in 1 .. Len(otps') : j < Len(otps') => j \in 1 .. Len(otps)
        BY <1>o
      <3>7. \A j \in 1 .. Len(otps) : j \in 1 .. Len(otps')
        BY <1>o
      <3> QED BY <3>4, <3>5, <3>6, <3>7 DEF OtpsSpent
    <2> QED BY <1>1, <1>3, <1>4, <2>3, <2>4, <2>5 DEF Spent
  <1> QED BY <1>5, <1>6, <1>7, <1>8, <1>9, RedeemedStep

(***************************************************************************)
(* A ticket, a challenge, a recovery code and a reset code each let        *)
(* somebody in at most once, and a reset code only until a newer one was   *)
(* requested, for any number of each and however their uses interleave.    *)
(***************************************************************************)
THEOREM SecretsUsedOnce == Spec => []SecretsWorkOnce
  <1>1. Init => Spent
    <2> SUFFICES ASSUME Init PROVE Spent
      OBVIOUS
    <2>1. redeemed = << >> /\ << >> \in Seq(Secrets) /\ DOMAIN redeemed = {}
      BY EmptySeq DEF Init
    <2>2. \A kind, x : ~Used(kind, x)
      BY <2>1 DEF Used
    <2>3. otps = << >> /\ 1 .. Len(otps) = {} /\ minted = 0
      BY DEF Init
    <2>4. \A k \in Ceremonies : challenges[k].id = 0 /\ challenges[k].age = None
      BY DEF Init
    <2>5. ChallengesSpent
      BY <2>2, <2>3, <2>4 DEF ChallengesSpent, Ceremonies
    <2> QED BY <2>1, <2>2, <2>3, <2>5
            DEF Spent, TicketsSpent, CodesSpent, OtpsSpent, SecretsWorkOnce
  <1>2. Spent => SecretsWorkOnce
    BY DEF Spent
  <1> QED BY <1>1, <1>2, TypedAtFirst, TypedInductive, SpentInductive, PTL DEF Spec

-----------------------------------------------------------------------------
(* Sockets *)

(***************************************************************************)
(* A socket serves no message of a session that was signed out or outlived *)
(* its lifetime: the only step that starts to serve one has just read that *)
(* row, whatever became of it since the cookie, the ticket and the         *)
(* handshake; and no step moves a socket from one session to another.      *)
(***************************************************************************)
THEOREM SignedOutStaysOut == Spec => SignedOutMeansOut
  <1> DEFINE Serves(c) == LET s == sessions[sockets'[c].session] IN
                sockets[c].pc # "running" /\ sockets'[c].pc = "running" =>
                  ~s.revoked /\ s.age <= Lifetime(s)
  <1>1. Typed /\ [Next]_vars => [\A c \in Conns : Serves(c)]_vars
    <2> SUFFICES ASSUME Typed, Next, NEW c \in Conns,
                        sockets[c].pc # "running", sockets'[c].pc = "running"
                 PROVE  LET s == sessions[sockets'[c].session] IN
                        ~s.revoked /\ s.age <= Lifetime(s)
      OBVIOUS
    <2>t. sockets \in [Conns -> [pc : {"closed", "open", "running", "refused"}, session : Nat]]
      BY DEF Typed, NamesTyped
    <2>1. sockets' # sockets
      OBVIOUS
    <2>2. \E d \in Conns : Handshake(d) \/ Message(d) \/ Reply(d) \/ Disconnect(d)
      <3>1. CASE \/ Tick \/ Day \/ PasswordVerify \/ PasswordLogin \/ RecoveryLogin \/ Logout
                 \/ RegisterOptions \/ RegisterVerify \/ LoginOptions \/ PasskeyLogin
        BY <2>1, <3>1 DEF Tick, Day, PasswordVerify, PasswordLogin, RecoveryLogin, Logout,
             RegisterOptions, RegisterVerify, LoginOptions, PasskeyLogin
      <3>2. CASE \E r \in Requests :
                 ValidateRead(r) \/ ValidateTouch(r) \/ MintTicket(r) \/ ApproveHigh(r)
        BY <2>1, <3>2 DEF ValidateRead, ValidateTouch, MintTicket, ApproveHigh
      <3>3. CASE \/ StartReset \/ DropReset \/ AnswerReset \/ StorePassword \/ SignOutAll \/ BotCrash
                 \/ SetPassword \/ PrintRecoveryCodes \/ IssueDeviceToken
        BY <2>1, <3>3 DEF StartReset, DropReset, AnswerReset, StorePassword, SignOutAll, BotCrash,
             SetPassword, PrintRecoveryCodes, IssueDeviceToken
      <3> QED BY <3>1, <3>2, <3>3 DEF Next
    <2>3. PICK d \in Conns : Handshake(d) \/ Message(d) \/ Reply(d) \/ Disconnect(d)
      BY <2>2
    <2>4. CASE Message(d)
      <3>1. c = d /\ ValidById(sessions[sockets[c].session])
        BY <2>t, <2>4 DEF Message
      <3>2. sockets'[c].session = sockets[c].session
        BY <2>t, <2>4 DEF Message
      <3> QED BY <3>1, <3>2 DEF ValidById
    <2>5. CASE Handshake(d)
      BY <2>t, <2>5 DEF Handshake
    <2>6. CASE Reply(d)
      BY <2>t, <2>6 DEF Reply
    <2>7. CASE Disconnect(d)
      BY <2>t, <2>7 DEF Disconnect
    <2> QED BY <2>3, <2>4, <2>5, <2>6, <2>7
  <1>2. [][\A c \in Conns : Serves(c)]_vars => SignedOutMeansOut
    BY PTL DEF SignedOutMeansOut
  <1> HIDE DEF Serves
  <1> QED BY <1>1, <1>2, TypedAtFirst, TypedInductive, PTL DEF Spec
=============================================================================
