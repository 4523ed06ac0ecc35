-------------------------------- MODULE Auth --------------------------------
(***************************************************************************)
(* Logging in and staying logged in (core/auth.py), as its callers use it: *)
(* the endpoints of the kernel and its voice socket (kernel/app.py), the   *)
(* password reset of the Telegram bot, and `manage.py login`.              *)
(*                                                                         *)
(* Three processes share the tables.  The kernel's endpoints are           *)
(* coroutines that never await between two statements: one event loop runs *)
(* them one at a time (loop).  The dependency require_session runs in a    *)
(* thread beside them, and so do the commands.  The bot handles one        *)
(* message at a time (bot); the command line is a process of its own.      *)
(*                                                                         *)
(* Two clocks: Tick for what lasts minutes (tickets, codes, challenges,    *)
(* lockouts), Day for what lasts days (sessions).                          *)
(***************************************************************************)
EXTENDS Integers, Sequences, FiniteSets, SequencesExt

CONSTANTS
  Conns,          \* voice sockets
  Requests,       \* requests that carry a session cookie
  CredIds,        \* passkeys that may be registered
  Codes,          \* recovery codes that may be printed
  Threshold,      \* failures to a lockout, per kind of attempt
  Window,         \* how long it lasts
  BackoffCap,
  TicketTTL, ChallengeTTL, OtpTTL,
  IdleDays, BrowserDays, DeviceDays,
  MaxSessions, MaxTickets, MaxOtps, MaxPasswords, MaxChallenges, MaxCount,
  Habits          \* the sets of things that people do, one set per behaviour

Kinds == {"password", "recovery", "passkey", "otp"}
Ceremonies == {"register", "login"}
Doings == {"password", "recovery", "passkey", "device", "voice", "logout", "reset",
           "console", "crash", "days"}

ASSUME TimesAreNatural ==
  /\ \A k \in Kinds : Threshold[k] \in Nat \ {0} /\ Window[k] \in Nat
  /\ {BackoffCap, TicketTTL, ChallengeTTL, OtpTTL, IdleDays, BrowserDays, DeviceDays} \subseteq Nat
  /\ Habits \subseteq SUBSET Doings

ASSUME BoundsAreNatural ==
  {MaxSessions, MaxTickets, MaxOtps, MaxChallenges, MaxCount} \subseteq Nat /\ MaxPasswords \in Nat \ {0}

VARIABLES
  habit,        \* what is done in this behaviour, a member of Habits
  passwords,    \* rows of credential_password: the newest counts
  sessions,     \* auth_sessions
  tickets,      \* ws_tickets
  sockets,      \* the voice sockets of the kernel
  requests,     \* requests in flight behind require_session
  keys,         \* credentials: the stored sign_count of each
  challenges,   \* kv: webauthn.challenge.<ceremony>
  minted,       \* how many challenges were generated
  codes,        \* recovery_codes without used_at
  otps,         \* password_reset_otp
  awaiting,     \* kv: account_security.password_reset_session, its age
  attempts,     \* auth_attempts: ages of the failures since the last success
  loop,         \* the kernel's event loop
  bot,          \* the bot's handler of a reset
  redeemed      \* observed: every single-use secret that let somebody in

stores == <<sessions, tickets, keys, codes, otps, passwords>>
vars == <<habit, passwords, sessions, tickets, sockets, requests, keys, challenges, minted,
          codes, otps, awaiting, attempts, loop, bot, redeemed>>

None == -1
Never(n) == n + 1            \* an age past n is as good as any other
Older(age, n) == IF age = None THEN None ELSE IF age > n THEN age ELSE age + 1
Expired(age, n) == IF age = None THEN None ELSE Never(n)

IdleLoop == [pc |-> "idle", guess |-> 0, ok |-> FALSE]

Init ==
  /\ habit \in Habits
  /\ passwords = IF "password" \in habit THEN 1 ELSE 0
  /\ sessions = << >> /\ tickets = << >> /\ otps = << >>
  /\ sockets = [c \in Conns |-> [pc |-> "closed", session |-> 0]]
  /\ requests = [r \in Requests |-> [pc |-> "idle", session |-> 0]]
  /\ keys = [c \in CredIds |-> None]
  /\ challenges = [k \in Ceremonies |-> [id |-> 0, age |-> None]]
  /\ minted = 0
  /\ codes = {}
  /\ awaiting = None
  /\ attempts = [k \in Kinds |-> << >>]
  /\ loop = IdleLoop
  /\ bot = "idle"
  /\ redeemed = << >>

-----------------------------------------------------------------------------
(* Helpers *)

Lifetime(s) == IF s.device THEN DeviceDays ELSE BrowserDays

(* validate_session: a device is not asked how long it was idle ... *)
Valid(s) == ~s.revoked /\ s.age <= Lifetime(s) /\ (s.device \/ s.idle <= IdleDays)
(* ... session_by_id asks everybody. *)
ValidById(s) == ~s.revoked /\ s.age <= Lifetime(s) /\ s.idle <= IdleDays

Room == Len(sessions) + (IF loop.pc = "idle" THEN 0 ELSE 1) < MaxSessions

NewSession(device, via) ==
  [device |-> device, idle |-> 0, age |-> 0, revoked |-> FALSE, via |-> via]

SignIn(ok, device, via) ==
  sessions' = IF ok THEN Append(sessions, NewSession(device, via)) ELSE sessions
Revoke(s) == sessions' = [sessions EXCEPT ![s].revoked = TRUE]
RevokeAll(keepDevices) ==
  sessions' = [i \in DOMAIN sessions |->
    [sessions[i] EXCEPT !.revoked = @ \/ ~(keepDevices /\ sessions[i].device)]]

PasswordMatches(guess) == passwords > 0 /\ guess = passwords
AddPassword == passwords' = passwords + 1

HasPasskey == \E c \in CredIds : keys[c] # None
FirstRun   == passwords = 0 /\ ~HasPasskey

Backoff(n) == IF 2 ^ n < BackoffCap THEN 2 ^ n ELSE BackoffCap

(* A mutant of the next definition: one failure too many. *)
LockedTooLate(kind) ==
  LET failures == attempts[kind] IN
  /\ failures # << >>
  /\ \/ Len(failures) > Threshold[kind]
     \/ Head(failures) < Backoff(Len(failures))
(* Failures within the window, newest first, up to the last success. *)
Locked(kind) ==
  LET failures == attempts[kind] IN
  /\ failures # << >>
  /\ \/ Len(failures) >= Threshold[kind]
     \/ Head(failures) < Backoff(Len(failures))

(* One more failure than the threshold is as good as many. *)
Failed(kind) ==
  LET all == <<0>> \o attempts[kind] IN
  SubSeq(all, 1, IF Len(all) > Threshold[kind] THEN Threshold[kind] + 1 ELSE Len(all))
Record(kind, ok) ==
  attempts' = [attempts EXCEPT ![kind] = IF ok THEN << >> ELSE Failed(kind)]

LoopFree == loop.pc = "idle"

-----------------------------------------------------------------------------
(* Time.  What expired stays so; attempts fall out of the window. *)

AgeTickets(Past(_, _)) == [i \in DOMAIN tickets |->
                             [tickets[i] EXCEPT !.age = Past(@, TicketTTL)]]
AgeOtps(Past(_, _)) == [i \in DOMAIN otps |-> [otps[i] EXCEPT !.age = Past(@, OtpTTL)]]
AgeChallenges(Past(_, _)) == [k \in Ceremonies |->
                             [challenges[k] EXCEPT !.age = Past(@, ChallengeTTL)]]

(* Newest first: what stays in the window are the first ones. *)
Recent(k) == Cardinality({i \in DOMAIN attempts[k] : attempts[k][i] + 1 <= Window[k]})

Tick ==
  /\ tickets' = AgeTickets(Older)
  /\ otps' = AgeOtps(Older)
  /\ challenges' = AgeChallenges(Older)
  /\ awaiting' = Older(awaiting, OtpTTL)
  /\ attempts' = [k \in Kinds |-> [i \in 1 .. Recent(k) |-> attempts[k][i] + 1]]
  /\ UNCHANGED <<habit, passwords, sessions, sockets, requests, keys, minted, codes, loop, bot,
                 redeemed>>

Day ==
  /\ "days" \in habit
  /\ tickets' = AgeTickets(Expired)
  /\ otps' = AgeOtps(Expired)
  /\ challenges' = AgeChallenges(Expired)
  /\ awaiting' = Expired(awaiting, OtpTTL)
  /\ attempts' = [k \in Kinds |-> << >>]
  /\ sessions' = [i \in DOMAIN sessions |->
       [sessions[i] EXCEPT !.idle = Older(@, IdleDays), !.age = Older(@, DeviceDays)]]
  /\ UNCHANGED <<habit, passwords, sockets, requests, keys, minted, codes, loop, bot, redeemed>>

-----------------------------------------------------------------------------
(* The kernel: logging in *)

(***************************************************************************)
(* auth_password_login up to the verification: the hash that counts is the *)
(* one read here.  Argon2 takes its time; other processes do not wait.     *)
(***************************************************************************)
PasswordVerify ==
  /\ "password" \in habit /\ LoopFree /\ Room
  /\ ~Locked("password")
  /\ \E guess \in 0 .. passwords :
       loop' = [pc |-> "verified", guess |-> guess,
                ok |-> PasswordMatches(guess)]
  /\ UNCHANGED <<habit, stores, sockets, requests, challenges, minted, awaiting, attempts, bot,
                 redeemed>>

PasswordLogin ==
  /\ loop.pc = "verified"
  /\ Record("password", loop.ok)
  /\ SignIn(loop.ok, FALSE, loop.guess)
  /\ loop' = IdleLoop
  /\ UNCHANGED <<habit, passwords, tickets, sockets, requests, keys, challenges, minted, codes,
                 otps, awaiting, bot, redeemed>>

VerifyRecoveryCode(code) ==
  /\ codes' = codes \ {code}
  /\ redeemed' = IF code \in codes THEN Append(redeemed, <<"recovery", code>>) ELSE redeemed

(* auth_recovery_login; code 0 was never printed. *)
RecoveryLogin ==
  /\ "recovery" \in habit /\ LoopFree /\ Room
  /\ ~Locked("recovery")
  /\ \E code \in Codes \cup {0} :
       /\ VerifyRecoveryCode(code)
       /\ Record("recovery", code \in codes)
       /\ SignIn(code \in codes, FALSE, 0)
  /\ UNCHANGED <<habit, passwords, tickets, sockets, requests, keys, challenges, minted, otps,
                 awaiting, loop, bot>>

(* auth_logout: the row that the cookie names, alive or not. *)
Logout ==
  /\ "logout" \in habit /\ LoopFree
  /\ \E s \in DOMAIN sessions : Revoke(s)
  /\ UNCHANGED <<habit, passwords, tickets, sockets, requests, keys, challenges, minted, codes,
                 otps, awaiting, attempts, loop, bot, redeemed>>

-----------------------------------------------------------------------------
(* The kernel: passkeys *)

(***************************************************************************)
(* _require_first_run_or_session, with the session it touched, if any: the *)
(* first key of all is registered from localhost, the others logged in.    *)
(***************************************************************************)
MayRegister(s, local) ==
  IF FirstRun THEN local /\ s = 0 ELSE s \in DOMAIN sessions /\ Valid(sessions[s])
Touched(s) == IF s = 0 THEN sessions ELSE [sessions EXCEPT ![s].idle = 0]

StoreChallenge(ceremony) ==
  /\ minted < MaxChallenges
  /\ minted' = minted + 1
  /\ challenges' = [challenges EXCEPT ![ceremony] = [id |-> minted + 1, age |-> 0]]

(* _consume_challenge clears what is there, and answers only when fresh. *)
Consume(ceremony) ==
  challenges' = [challenges EXCEPT ![ceremony] = [id |-> 0, age |-> None]]
Pending(ceremony) ==
  challenges[ceremony].age # None /\ challenges[ceremony].age <= ChallengeTTL

StartRegistration == StoreChallenge("register")
StartLogin        == HasPasskey /\ StoreChallenge("login")

RegisterOptions ==
  /\ "passkey" \in habit /\ LoopFree
  /\ \E s \in 0 .. Len(sessions), local \in BOOLEAN :
       MayRegister(s, local) /\ sessions' = Touched(s)
  /\ StartRegistration
  /\ UNCHANGED <<habit, passwords, tickets, sockets, requests, keys, codes, otps, awaiting,
                 attempts, loop, bot, redeemed>>

Registered(c, genuine) == Pending("register") /\ genuine /\ keys[c] = None
VerifyRegistration(c, genuine, n) ==
  LET ok == Registered(c, genuine) IN
  /\ Consume("register")
  /\ keys' = IF ok THEN [keys EXCEPT ![c] = n] ELSE keys
  /\ redeemed' = IF ok THEN Append(redeemed, <<"challenge", challenges["register"].id>>)
                       ELSE redeemed

(* Registering the first key also logs in. *)
RegisterVerify ==
  /\ "passkey" \in habit /\ LoopFree /\ Room
  /\ \E s \in 0 .. Len(sessions), local, genuine \in BOOLEAN, c \in CredIds, n \in 0 .. MaxCount :
       /\ MayRegister(s, local)
       /\ VerifyRegistration(c, genuine, n)
       /\ sessions' = IF Registered(c, genuine) /\ s = 0
                      THEN Append(sessions, NewSession(FALSE, 0)) ELSE Touched(s)
  /\ UNCHANGED <<habit, passwords, tickets, sockets, requests, minted, codes, otps, awaiting,
                 attempts, loop, bot>>

LoginOptions ==
  /\ "passkey" \in habit /\ LoopFree
  /\ StartLogin
  /\ UNCHANGED <<habit, stores, sockets, requests, awaiting, attempts, loop, bot, redeemed>>

(***************************************************************************)
(* _verify_assertion: the challenge is spent, win or lose; the library     *)
(* says whether the signature is genuine; a counter that was ever positive *)
(* may not go backwards.                                                   *)
(***************************************************************************)
Accepted(c, genuine, n) ==
  /\ Pending("login")
  /\ keys[c] # None
  /\ genuine
  /\ (keys[c] # 0 => n >= keys[c])

VerifyAssertion(c, genuine, n) ==
  LET ok == Accepted(c, genuine, n) IN
  /\ Consume("login")
  /\ keys' = IF ok THEN [keys EXCEPT ![c] = n] ELSE keys
  /\ redeemed' = IF ok THEN Append(redeemed, <<"challenge", challenges["login"].id>>)
                       ELSE redeemed

VerifyLogin(c, genuine, n) ==
  VerifyAssertion(c, genuine, n) /\ SignIn(Accepted(c, genuine, n), FALSE, 0)

PasskeyLogin ==
  /\ "passkey" \in habit /\ LoopFree /\ Room
  /\ ~Locked("passkey")
  /\ \E c \in CredIds, genuine \in BOOLEAN, n \in 0 .. MaxCount :
       /\ VerifyLogin(c, genuine, n)
       /\ Record("passkey", Accepted(c, genuine, n))
  /\ UNCHANGED <<habit, passwords, tickets, sockets, requests, minted, codes, otps, awaiting,
                 loop, bot>>

-----------------------------------------------------------------------------
(* The kernel: requests with a cookie, and the voice socket *)

(* require_session, in a thread: the row is read and judged ... *)
ValidateRead(r) ==
  /\ habit \cap {"voice", "passkey"} # {}
  /\ requests[r].pc = "idle"
  /\ \E s \in DOMAIN sessions :
       /\ Valid(sessions[s])
       /\ requests' = [requests EXCEPT ![r] = [pc |-> "read", session |-> s]]
  /\ UNCHANGED <<habit, stores, sockets, challenges, minted, awaiting, attempts, loop, bot,
                 redeemed>>

(* ... and its last_seen_at moved, whatever became of it meanwhile. *)
ValidateTouch(r) ==
  /\ requests[r].pc = "read"
  /\ sessions' = Touched(requests[r].session)
  /\ requests' = [requests EXCEPT ![r].pc = "validated"]
  /\ UNCHANGED <<habit, passwords, tickets, sockets, keys, challenges, minted, codes, otps,
                 awaiting, attempts, loop, bot, redeemed>>

Answered(r) == requests' = [requests EXCEPT ![r] = [pc |-> "idle", session |-> 0]]

MintWsTicket(s) ==
  /\ Len(tickets) < MaxTickets
  /\ tickets' = Append(tickets, [session |-> s, age |-> 0, used |-> FALSE])

MintTicket(r) ==
  /\ "voice" \in habit /\ LoopFree
  /\ requests[r].pc = "validated"
  /\ MintWsTicket(requests[r].session)
  /\ Answered(r)
  /\ UNCHANGED <<habit, passwords, sessions, sockets, keys, challenges, minted, codes, otps,
                 awaiting, attempts, loop, bot, redeemed>>

(***************************************************************************)
(* approvals_resolve of a high tier: with a passkey registered, a fresh    *)
(* assertion first; without one the session is enough.  What resolve does  *)
(* is the module Approvals.                                                *)
(***************************************************************************)
ApproveHigh(r) ==
  /\ LoopFree
  /\ requests[r].pc = "validated"
  /\ \/ ~HasPasskey /\ UNCHANGED <<challenges, keys, redeemed>>
     \/ HasPasskey /\ \E c \in CredIds, genuine \in BOOLEAN, n \in 0 .. MaxCount :
          VerifyAssertion(c, genuine, n)
  /\ Answered(r)
  /\ UNCHANGED <<habit, passwords, sessions, tickets, sockets, minted, codes, otps, awaiting,
                 attempts, loop, bot>>

(* A mutant of the next definition: the update does not ask whether it was used. *)
ConsumeAgain(i) ==
  /\ tickets[i].age < TicketTTL
  /\ tickets' = [tickets EXCEPT ![i].used = TRUE]
  /\ redeemed' = Append(redeemed, <<"ticket", i>>)
(* consume_ws_ticket: one statement; whose ticket it is, is not asked here. *)
Consumed(i) ==
  /\ ~tickets[i].used /\ tickets[i].age < TicketTTL
  /\ tickets' = [tickets EXCEPT ![i].used = TRUE]
  /\ redeemed' = Append(redeemed, <<"ticket", i>>)

(* The handshake of ws_voice with the ticket i, as often as it is sent. *)
Handshake(c) ==
  /\ LoopFree
  /\ sockets[c].pc \in {"closed", "refused"}
  /\ \E i \in DOMAIN tickets :
       /\ Consumed(i)
       /\ sockets' = [sockets EXCEPT ![c] = [pc |-> "open", session |-> tickets[i].session]]
  /\ UNCHANGED <<habit, passwords, sessions, requests, keys, challenges, minted, codes, otps,
                 awaiting, attempts, loop, bot>>

(* A mutant of the next definition: the ticket was proof enough. *)
MessageTrusted(c) ==
  /\ LoopFree
  /\ sockets[c].pc = "open"
  /\ sockets' = [sockets EXCEPT ![c].pc = "running"]
  /\ UNCHANGED <<habit, stores, requests, challenges, minted, awaiting, attempts, loop, bot,
                 redeemed>>
(* A message is looked at and handed to a thread, or the socket refused. *)
Message(c) ==
  /\ LoopFree
  /\ sockets[c].pc = "open"
  /\ sockets' = [sockets EXCEPT ![c] =
       IF ValidById(sessions[sockets[c].session])
       THEN [@ EXCEPT !.pc = "running"]
       ELSE [@ EXCEPT !.pc = "refused"]]
  /\ UNCHANGED <<habit, stores, requests, challenges, minted, awaiting, attempts, loop, bot,
                 redeemed>>

Reply(c) ==
  /\ LoopFree
  /\ sockets[c].pc = "running"
  /\ sockets' = [sockets EXCEPT ![c].pc = "open"]
  /\ UNCHANGED <<habit, stores, requests, challenges, minted, awaiting, attempts, loop, bot,
                 redeemed>>

Disconnect(c) ==
  /\ LoopFree
  /\ sockets[c].pc \in {"open", "running"}
  /\ sockets' = [sockets EXCEPT ![c] = [pc |-> "closed", session |-> 0]]
  /\ UNCHANGED <<habit, stores, requests, challenges, minted, awaiting, attempts, loop, bot,
                 redeemed>>

-----------------------------------------------------------------------------
(* The bot: /resetpassword *)

(* A mutant of the next definition: the earlier codes stay good. *)
RequestOtpBeside == otps' = Append(otps, [age |-> 0, used |-> FALSE])
RequestOtp ==
  otps' = Append([i \in DOMAIN otps |-> [otps[i] EXCEPT !.used = TRUE]],
                 [age |-> 0, used |-> FALSE])
(***************************************************************************)
(* Unless locked: every earlier code is marked used, a new one is minted   *)
(* and sent; only when it was sent does the chat wait for it.              *)
(***************************************************************************)
StartReset ==
  /\ "reset" \in habit /\ bot = "idle" /\ Len(otps) < MaxOtps
  /\ ~Locked("otp")
  /\ RequestOtp
  /\ \E sent \in BOOLEAN : awaiting' = IF sent THEN 0 ELSE awaiting
  /\ UNCHANGED <<habit, passwords, sessions, tickets, sockets, requests, keys, challenges, minted,
                 codes, attempts, loop, bot, redeemed>>

Waiting == bot = "idle" /\ awaiting # None /\ awaiting <= OtpTTL

(* "cancel", or an answer while locked: the chat stops waiting. *)
DropReset ==
  /\ Waiting
  /\ awaiting' = None
  /\ UNCHANGED <<habit, stores, sockets, requests, challenges, minted, attempts, loop, bot,
                 redeemed>>

VerifyOtp(i, ok) ==
  /\ ok = (i # 0 /\ ~otps[i].used /\ otps[i].age < OtpTTL)
  /\ otps' = IF ok THEN [otps EXCEPT ![i].used = TRUE] ELSE otps
  /\ redeemed' = IF ok THEN Append(redeemed, <<"otp", i>>) ELSE redeemed

(* An answer: any code ever sent, or (0) none of them. *)
AnswerReset ==
  /\ Waiting /\ ~Locked("otp")
  /\ \E i \in 0 .. Len(otps), ok \in BOOLEAN :
       /\ VerifyOtp(i, ok)
       /\ (ok => passwords < MaxPasswords)
       /\ Record("otp", ok)
       /\ bot' = IF ok THEN "verified" ELSE "idle"
  /\ UNCHANGED <<habit, passwords, sessions, tickets, sockets, requests, keys, challenges, minted,
                 codes, awaiting, loop>>

StorePassword ==
  /\ bot = "verified"
  /\ awaiting' = None
  /\ AddPassword
  /\ bot' = "stored"
  /\ UNCHANGED <<habit, sessions, tickets, sockets, requests, keys, challenges, minted, codes,
                 otps, attempts, loop, redeemed>>

SignOutAll ==
  /\ bot = "stored"
  /\ RevokeAll(TRUE)
  /\ bot' = "idle"
  /\ UNCHANGED <<habit, passwords, tickets, sockets, requests, keys, challenges, minted, codes,
                 otps, awaiting, attempts, loop, redeemed>>

(* The bot dies in the middle; the next one finds the tables as they are. *)
BotCrash ==
  /\ "crash" \in habit /\ bot # "idle"
  /\ bot' = "idle"
  /\ UNCHANGED <<habit, stores, sockets, requests, challenges, minted, awaiting, attempts, loop,
                 redeemed>>

-----------------------------------------------------------------------------
(* manage.py login *)

SetPassword ==
  /\ "console" \in habit
  /\ passwords + (IF bot = "verified" THEN 1 ELSE 0) < MaxPasswords
  /\ AddPassword
  /\ UNCHANGED <<habit, sessions, tickets, sockets, requests, keys, challenges, minted, codes,
                 otps, awaiting, attempts, loop, bot, redeemed>>

GenerateRecoveryCodes == codes' = Codes

PrintRecoveryCodes ==
  /\ "recovery" \in habit
  /\ \A r \in DOMAIN redeemed : redeemed[r][1] # "recovery"
  /\ codes # Codes
  /\ GenerateRecoveryCodes
  /\ UNCHANGED <<habit, passwords, sessions, tickets, sockets, requests, keys, challenges, minted,
                 otps, awaiting, attempts, loop, bot, redeemed>>

IssueDeviceToken ==
  /\ "device" \in habit /\ Room
  /\ SignIn(TRUE, TRUE, 0)
  /\ UNCHANGED <<habit, passwords, tickets, sockets, requests, keys, challenges, minted, codes,
                 otps, awaiting, attempts, loop, bot, redeemed>>

-----------------------------------------------------------------------------
Next ==
  \/ Tick \/ Day
  \/ PasswordVerify \/ PasswordLogin \/ RecoveryLogin \/ Logout
  \/ RegisterOptions \/ RegisterVerify \/ LoginOptions \/ PasskeyLogin
  \/ \E r \in Requests :
       ValidateRead(r) \/ ValidateTouch(r) \/ MintTicket(r) \/ ApproveHigh(r)
  \/ \E c \in Conns : Handshake(c) \/ Message(c) \/ Reply(c) \/ Disconnect(c)
  \/ StartReset \/ DropReset \/ AnswerReset \/ StorePassword \/ SignOutAll \/ BotCrash
  \/ SetPassword \/ PrintRecoveryCodes \/ IssueDeviceToken

Spec == Init /\ [][Next]_vars

-----------------------------------------------------------------------------
(* Properties *)

Ages(n) == None .. Never(n)

(* Every row and every handler is in a state of its own kind. *)
TypeOK ==
  /\ passwords \in 0 .. MaxPasswords
  /\ \A s \in Range(sessions) :
       s \in [device : BOOLEAN, idle : Ages(IdleDays), age : Ages(DeviceDays),
              revoked : BOOLEAN, via : 0 .. MaxPasswords]
  /\ Len(sessions) <= MaxSessions
  /\ \A t \in Range(tickets) :
       t \in [session : DOMAIN sessions, age : Ages(TicketTTL), used : BOOLEAN]
  /\ \A c \in Conns : sockets[c].pc # "closed" => sockets[c].session \in DOMAIN sessions
  /\ \A r \in Requests : requests[r].pc # "idle" => requests[r].session \in DOMAIN sessions
  /\ keys \in [CredIds -> None .. MaxCount]
  /\ challenges \in [Ceremonies -> [id : 0 .. MaxChallenges, age : Ages(ChallengeTTL)]]
  /\ codes \subseteq Codes
  /\ \A o \in Range(otps) : o \in [age : Ages(OtpTTL), used : BOOLEAN]
  /\ awaiting \in Ages(OtpTTL)
  /\ loop \in [pc : {"idle", "verified"}, guess : 0 .. MaxPasswords, ok : BOOLEAN]
  /\ bot \in {"idle", "verified", "stored"}

(***************************************************************************)
(* No secret is guessed at more often than its threshold within a window:  *)
(* the lockout is read in one statement and the attempt recorded in        *)
(* another, and no second attempt comes between them.                      *)
(***************************************************************************)
GuessesAreBounded == \A k \in Kinds : Len(attempts[k]) <= Threshold[k]

(***************************************************************************)
(* A ticket, a challenge, a recovery code and a reset code each let        *)
(* somebody in at most once, and a reset code only until a newer one was   *)
(* requested: "an old email can never be replayed".                        *)
(***************************************************************************)
SecretsWorkOnce ==
  /\ \A i, j \in DOMAIN redeemed : redeemed[i] = redeemed[j] => i = j
  /\ \A i, j \in DOMAIN redeemed :
       redeemed[i][1] = "otp" /\ redeemed[j][1] = "otp" /\ i < j => redeemed[i][2] < redeemed[j][2]

(***************************************************************************)
(* A socket serves no message of a session that was signed out or outlived *)
(* its lifetime, whenever that happened: between the cookie and the        *)
(* ticket, between the ticket and the handshake, or while the socket was   *)
(* open.                                                                   *)
(***************************************************************************)
SignedOutMeansOut ==
  [][\A c \in Conns :
       LET s == sessions[sockets'[c].session] IN
       sockets[c].pc # "running" /\ sockets'[c].pc = "running" =>
         ~s.revoked /\ s.age <= Lifetime(s)]_vars
=============================================================================
