---------------------------- MODULE SkillsProofs ----------------------------
(***************************************************************************)
(* What holds of the skills beside each other, and of the laptop, for      *)
(* every value of the constants.  Each skill has an invariant of its own;  *)
(* a step of another skill leaves its variables, and can only add to the   *)
(* faults.                                                                 *)
(***************************************************************************)
EXTENDS Skills, Laptop, FiniteSetTheorems, SequenceTheorems, TLAPS

-----------------------------------------------------------------------------
(* The microphone *)

LEMMA MicKeeps ==
  ASSUME MicOnlyWithConsent, VoiceNext
  PROVE  MicOnlyWithConsent'
  <1>1. CASE UNCHANGED mic
    BY <1>1 DEF mic, MicOnlyWithConsent
  <1>2. CASE MicOn \/ MicOnFails \/ MicOff \/ Quit
    BY <1>2 DEF MicOn, MicOnFails, MicOff, Quit, MicOnlyWithConsent
  <1>3. ASSUME NEW l,
               BargeIn(l) \/ Hears(l) \/ HearsNothing(l) \/ HearsGlitch(l) \/ Handle(l)
               \/ NotUnderstood(l) \/ Said(l) \/ LoopEnds(l)
        PROVE  MicOnlyWithConsent'
    BY <1>3 DEF BargeIn, Hears, HearsNothing, HearsGlitch, Handle, NotUnderstood, Said,
                LoopEnds, mic, MicOnlyWithConsent
  <1>4. CASE Listening
    BY <1>1, <1>2, <1>3, <1>4 DEF Listening, QuitEnds, Typed, Wake, Transcribe
  <1>5. CASE Glitches
    BY <1>2, <1>3, <1>5 DEF Glitches
  <1>6. CASE Answering
    <2>1. PICK t \in DOMAIN turns : \/ Receive(t) \/ SendFails(t)
                             \/ Act(t) \/ SpeakStart(t) \/ Play(t) \/ PlayEnds(t)
                             \/ Finish(t) \/ Display(t)
      BY <1>6 DEF Answering
    <2> QED BY <1>1, <2>1 DEF Receive, SendFails, Act, SpeakStart, Play, PlayEnds, Finish, Display
  <1>7. CASE Casting
    BY <1>1, <1>7 DEF Casting
  <1> QED BY <1>4, <1>5, <1>6, <1>7 DEF VoiceNext

-----------------------------------------------------------------------------
(* Calls *)

(* A call that waits has a number of its own, not yet said yes to. *)
CallsInv ==
  /\ previews \in 0..MaxPreviews /\ confirmed \subseteq 1..previews
  /\ pending = NoCall \/ (pending.no \in (1..previews) \ confirmed)
  /\ dialled = [n \in 1..MaxPreviews |-> IF n \in confirmed THEN 1 ELSE 0]

LEMMA CallsKeep ==
  ASSUME CallsInv, DevicesNext
  PROVE  CallsInv'
  <1>0. MaxPreviews \in Nat
    BY DevicesAssumption
  <1>1. CASE UNCHANGED calling
    BY <1>1 DEF calling, CallsInv
  <1>2. ASSUME NEW name, PreviewCall(name)
        PROVE  CallsInv'
    <2>1. PICK number : /\ previews < MaxPreviews /\ previews' = previews + 1
                        /\ pending' = [no |-> previews + 1, number |-> number]
                        /\ UNCHANGED <<confirmed, dialled>>
      BY <1>2 DEF PreviewCall
    <2>2. pending'.no = previews'
      BY <2>1
    <2>3. previews' \in 0..MaxPreviews /\ confirmed \subseteq 1..previews'
      BY <1>0, <2>1 DEF CallsInv
    <2>4. previews' \notin confirmed /\ previews' \in 1..previews'
      BY <1>0, <2>1 DEF CallsInv
    <2> QED BY <2>1, <2>2, <2>3, <2>4 DEF CallsInv
  <1>3. ASSUME NEW yes, ContinueCall(yes)
        PROVE  CallsInv'
    <2>0. pending' = NoCall /\ UNCHANGED previews /\ pending # NoCall
      BY <1>3 DEF ContinueCall
    <2>n. PICK n \in (1..previews) \ confirmed : n = pending.no
      BY <2>0 DEF CallsInv
    <2>1. CASE UNCHANGED <<confirmed, dialled>>
      BY <2>0, <2>1 DEF CallsInv
    <2>2. CASE /\ confirmed' = confirmed \cup {pending.no}
               /\ dialled' = [dialled EXCEPT ![pending.no] = @ + 1]
      <3>1. confirmed' = confirmed \cup {n} /\ dialled' = [dialled EXCEPT ![n] = @ + 1]
        BY <2>n, <2>2
      <3>2. dialled' = [k \in 1..MaxPreviews |-> IF k \in confirmed' THEN 1 ELSE 0]
        <4>1. dialled = [k \in 1..MaxPreviews |-> IF k \in confirmed THEN 1 ELSE 0]
          BY DEF CallsInv
        <4>2. \A k \in 1..MaxPreviews : dialled'[k] = IF k \in confirmed' THEN 1 ELSE 0
          BY <2>n, <3>1, <4>1
        <4> QED BY <3>1, <4>1, <4>2
      <3> QED BY <2>0, <2>n, <3>1, <3>2 DEF CallsInv
    <2> QED BY <1>3, <2>1, <2>2 DEF ContinueCall
  <1>4. CASE Calling
    BY <1>1, <1>2, <1>3, <1>4 DEF Calling, PickUp
  <1> QED BY <1>1, <1>4 DEF DevicesNext, Booking, Doing, Opening, Speech, Music

(* The number of a preview is sent to be dialled once it is said yes to, and   *)
(* the microphone is open only when he wants it.                               *)
LaptopInv == MicOnlyWithConsent /\ CallsInv

LEMMA LaptopHolds == LaptopSpec => []LaptopInv
  <1>1. LaptopInit => LaptopInv
    <2> SUFFICES ASSUME LaptopInit PROVE LaptopInv
      OBVIOUS
    <2>1. MicOnlyWithConsent
      BY DEF LaptopInit, VoiceInit, MicOnlyWithConsent
    <2>2. CallsInv
      BY DevicesAssumption DEF LaptopInit, DevicesInit, CallsInv
    <2> QED BY <2>1, <2>2 DEF LaptopInv
  <1>2. LaptopInv /\ [LaptopNext]_<<daily, voiceVars, devicesVars>> => LaptopInv'
    <2> SUFFICES ASSUME LaptopInv, [LaptopNext]_<<daily, voiceVars, devicesVars>>
                 PROVE  LaptopInv'
      OBVIOUS
    <2>1. CASE Speaking
      <3>1. CallsInv'
        BY <2>1 DEF Speaking, LaptopInv, CallsInv, devicesVars
      <3> QED BY <2>1, <3>1, MicKeeps DEF Speaking, LaptopInv
    <2>2. CASE Reaching
      <3>1. MicOnlyWithConsent'
        BY <2>2 DEF Reaching, LaptopInv, MicOnlyWithConsent, voiceVars
      <3> QED BY <2>2, <3>1, CallsKeep DEF Reaching, LaptopInv
    <2>3. CASE UNCHANGED <<daily, voiceVars, devicesVars>>
      BY <2>3 DEF LaptopInv, CallsInv, MicOnlyWithConsent, voiceVars, devicesVars
    <2> QED BY <2>1, <2>2, <2>3 DEF LaptopNext
  <1> QED BY <1>1, <1>2, PTL DEF LaptopSpec

(* The microphone is open only while the last thing he asked of it is that it  *)
(* be, however many listening threads of earlier sessions are still about.     *)
THEOREM MicNeedsConsent == LaptopSpec => []MicOnlyWithConsent
  BY LaptopHolds, PTL DEF LaptopInv

(* A number is dialled once for each preview he said yes to, and for no other. *)
THEOREM CallsNeedAYes == LaptopSpec => []CallsAreConfirmed
  <1>1. LaptopInv => CallsAreConfirmed
    BY DEF LaptopInv, CallsInv, CallsAreConfirmed
  <1> QED BY <1>1, LaptopHolds, PTL

-----------------------------------------------------------------------------
(* The models *)

(* A request that failed while the default model works was answered in prose twice. *)
Requests  == [at : {"idle", "posting", "done", "failed"}, kind : Kinds \cup {"none"},
              task : Routes, route : Routes, tries : Nat, round : {1, 2}, prose : {0, 1, 2}]
ModelsInv == call \in Requests /\ OneDeadModelIsNoOutage

LEMMA NoRequestIs == NoRequest \in Requests /\ NoRequest.at = "idle"
  BY DEF NoRequest, Requests, Routes

(* What a request becomes: given up for the default model, which failed only   *)
(* if it is not as it should be, or something that is not a failure.           *)
LEMMA GivenUpKeeps ==
  ASSUME ModelsInv, call' = GivenUp, UNCHANGED <<well, keys>>, call.at = "posting",
         call.route = "default" => ~("default" \in well /\ "default" \in keys)
  PROVE  ModelsInv'
  <1>0. call \in Requests
    BY DEF ModelsInv
  <1>1. CASE call.route = "default"
    <2>1. call' = [call EXCEPT !.at = "failed"]
      BY <1>1 DEF GivenUp
    <2> QED BY <1>0, <1>1, <2>1 DEF ModelsInv, Requests, OneDeadModelIsNoOutage
  <1>2. CASE call.route # "default"
    <2>1. call' = [call EXCEPT !.route = "default", !.tries = 0]
      BY <1>2 DEF GivenUp
    <2>2. "default" \in Routes /\ 0 \in Nat
      BY DEF Routes
    <2>3. call' \in Requests /\ call'.at = "posting"
      BY <1>0, <2>1, <2>2 DEF Requests
    <2> QED BY <2>3 DEF ModelsInv, OneDeadModelIsNoOutage
  <1> QED BY <1>1, <1>2

LEMMA PostKeeps ==
  ASSUME ModelsInv, Post
  PROVE  ModelsInv'
  <1>0. call \in Requests /\ UNCHANGED <<well, keys>> /\ call.at = "posting"
    BY DEF Post, ModelsInv
  <1>1. PICK reply \in Replies :
          call' = CASE reply \in {"answer", "prose"} -> Received(reply)
                    [] reply \in {"empty", "refused"}
                       \/ (reply \in {"busy", "unreachable"} /\ call.tries + 1 = MaxRetries) -> GivenUp
                    [] OTHER -> [call EXCEPT !.tries = @ + 1]
    BY DEF Post
  <1>2. \/ call' = Received(reply)
        \/ call' = GivenUp /\ reply \notin {"answer", "prose"}
        \/ call' = [call EXCEPT !.tries = @ + 1]
    <2> DEFINE received == reply \in {"answer", "prose"}
               givenUp == reply \in {"empty", "refused"}
                          \/ (reply \in {"busy", "unreachable"} /\ call.tries + 1 = MaxRetries)
               more == [call EXCEPT !.tries = @ + 1]
    <2>1. call' = CASE received -> Received(reply) [] givenUp -> GivenUp [] OTHER -> more
      BY <1>1
    <2>2. ~(received /\ givenUp)
      OBVIOUS
    <2>3. CASE reply \in {"answer", "prose"}
      BY <2>1, <2>2, <2>3
    <2>4. CASE givenUp
      BY <2>1, <2>2, <2>4
    <2>5. CASE ~received /\ ~givenUp
      BY <2>1, <2>5
    <2> QED BY <2>3, <2>4, <2>5
  <1>3. CASE call' = Received(reply)
    <2>1. CASE call' = [call EXCEPT !.at = "done"]
      <3>1. call' \in Requests /\ call'.at = "done"
        BY <1>0, <2>1 DEF Requests
      <3> QED BY <3>1 DEF ModelsInv, OneDeadModelIsNoOutage
    <2>2. CASE call' = [call EXCEPT !.round = 2, !.route = call.task, !.tries = 0, !.prose = 1]
      <3>1. call' \in Requests /\ call'.at = "posting"
        BY <1>0, <2>2 DEF Requests
      <3> QED BY <3>1 DEF ModelsInv, OneDeadModelIsNoOutage
    <2>3. CASE call' = [call EXCEPT !.at = "failed", !.prose = 2]
      <3>1. call' \in Requests /\ call'.prose = 2
        BY <1>0, <2>3 DEF Requests
      <3> QED BY <3>1 DEF ModelsInv, OneDeadModelIsNoOutage
    <2> QED BY <1>3, <2>1, <2>2, <2>3 DEF Received
  <1>4. CASE call' = GivenUp /\ reply \notin {"answer", "prose"}
    <2>1. call.route = "default" => "default" \notin well
      BY <1>4 DEF Replies
    <2> QED BY <1>0, <1>4, <2>1, GivenUpKeeps
  <1>5. CASE call' = [call EXCEPT !.tries = @ + 1]
    <2>1. call' \in Requests /\ call'.at = "posting"
      BY <1>0, <1>5 DEF Requests
    <2> QED BY <2>1 DEF ModelsInv, OneDeadModelIsNoOutage
  <1> QED BY <1>2, <1>3, <1>4, <1>5

LEMMA ModelsKeep ==
  ASSUME ModelsInv, ModelsNext
  PROVE  ModelsInv'
  <1>1. ASSUME NEW kind \in Kinds, NEW task \in Routes, Request(kind, task)
        PROVE  ModelsInv'
    <2>1. call' = [NoRequest EXCEPT !.at = "posting", !.kind = kind, !.task = task, !.route = task]
      BY <1>1 DEF Request
    <2>2. call' \in Requests /\ call'.at = "posting"
      BY <2>1, NoRequestIs DEF Requests
    <2> QED BY <2>2 DEF ModelsInv, OneDeadModelIsNoOutage
  <1>2. CASE NoKey
    <2>1. /\ call' = GivenUp /\ UNCHANGED <<well, keys>> /\ call.at = "posting"
          /\ "default" \notin keys
      BY <1>2 DEF NoKey, HasKey
    <2> QED BY <2>1, GivenUpKeeps
  <1>3. CASE Return
    BY <1>3, NoRequestIs DEF Return, ModelsInv, OneDeadModelIsNoOutage
  <1> QED BY <1>1, <1>2, <1>3, PostKeeps DEF ModelsNext

-----------------------------------------------------------------------------
(* The rules *)

(* A pattern that he declined is marked so, and nobody holds it. *)
RowsOfSignals ==
  [count : Nat, against : BOOLEAN, status : {"watching", "proposed", "declined", "confirmed"}]
RulesInv ==
  /\ signals \in [Patterns -> RowsOfSignals]
  /\ proposer.rows \subseteq Patterns /\ "rows" \in DOMAIN proposer
  /\ \A p \in refused : /\ p \in Patterns /\ signals[p].status = "declined"
                        /\ p \notin proposer.rows /\ p # confirming

(* A row whose status is set, and the others. *)
LEMMA SetStatusSets ==
  ASSUME signals \in [Patterns -> RowsOfSignals], NEW p \in Patterns,
         NEW st \in {"watching", "proposed", "declined", "confirmed"}, SetStatus(p, st)
  PROVE  /\ signals' \in [Patterns -> RowsOfSignals] /\ signals'[p].status = st
         /\ \A q \in Patterns \ {p} : signals'[q] = signals[q]
  <1> DEFINE r == [signals[p] EXCEPT !.status = st]
  <1>1. signals[p] \in RowsOfSignals
    OBVIOUS
  <1>2. r \in RowsOfSignals /\ r.status = st
    BY <1>1 DEF RowsOfSignals
  <1>3. signals' = [signals EXCEPT ![p] = r]
    BY DEF SetStatus
  <1> HIDE DEF r
  <1> QED BY <1>2, <1>3

(* An observation leaves the status. *)
LEMMA LogSignalLeaves ==
  ASSUME signals \in [Patterns -> RowsOfSignals], NEW p \in Patterns, NEW contradicts \in BOOLEAN,
         LogSignal(p, contradicts)
  PROVE  /\ signals' \in [Patterns -> RowsOfSignals]
         /\ \A q \in Patterns : signals'[q].status = signals[q].status
  <1> DEFINE old == signals[p]
             n == IF contradicts \/ old.count = Threshold THEN old.count ELSE old.count + 1
             a == old.against \/ contradicts
             r == [count |-> n, against |-> a, status |-> old.status]
  <1>1. old \in RowsOfSignals
    OBVIOUS
  <1>2. old.count \in Nat /\ old.against \in BOOLEAN
    BY <1>1 DEF RowsOfSignals
  <1>3. n \in Nat /\ a \in BOOLEAN
    BY <1>2
  <1>4. signals' = [signals EXCEPT ![p] = r]
    BY DEF LogSignal
  <1>5. r.status = old.status
    OBVIOUS
  <1> HIDE DEF n, a
  <1>6. r \in RowsOfSignals
    BY <1>1, <1>3 DEF RowsOfSignals
  <1> HIDE DEF r
  <1> QED BY <1>4, <1>5, <1>6

LEMMA RulesKeep ==
  ASSUME RulesInv, RulesNext
  PROVE  RulesInv'
  <1>0. /\ signals \in [Patterns -> RowsOfSignals] /\ proposer.rows \subseteq Patterns
        /\ \A p \in refused : /\ p \in Patterns /\ signals[p].status = "declined"
                              /\ p \notin proposer.rows /\ p # confirming
    BY DEF RulesInv
  <1>1. ASSUME NEW p \in Patterns, NEW contradicts \in BOOLEAN, Observe(p, contradicts)
        PROVE  RulesInv'
    BY <1>0, <1>1, LogSignalLeaves DEF Observe, RulesInv
  <1>2. ASSUME NEW p \in Patterns, RetroMine(p)
        PROVE  RulesInv'
    BY <1>1, <1>2 DEF RetroMine
  <1>3. ASSUME NEW p \in Patterns, DeclineRule(p)
        PROVE  RulesInv'
    <2>1. /\ signals' \in [Patterns -> RowsOfSignals] /\ signals'[p].status = "declined"
          /\ \A q \in Patterns \ {p} : signals'[q] = signals[q]
      BY <1>0, <1>3, SetStatusSets DEF DeclineRule
    <2>2. /\ refused' \subseteq refused \cup {p}
          /\ p \in refused' => p \in refused \/ (p \notin proposer.rows /\ p # confirming)
          /\ UNCHANGED <<proposer, confirming>>
      BY <1>3 DEF DeclineRule, Held
    <2> QED BY <1>0, <2>1, <2>2 DEF RulesInv
  <1>4. ASSUME NEW p \in Patterns, NotNow(p)
        PROVE  RulesInv'
    <2>1. /\ signals' \in [Patterns -> RowsOfSignals]
          /\ \A q \in Patterns \ {p} : signals'[q] = signals[q]
      BY <1>0, <1>4, SetStatusSets DEF NotNow
    <2>2. refused' = refused \ {p} /\ UNCHANGED <<proposer, confirming>>
      BY <1>4 DEF NotNow
    <2> QED BY <1>0, <2>1, <2>2 DEF RulesInv
  <1>5. ASSUME NEW p \in Patterns, ConfirmStart(p)
        PROVE  RulesInv'
    BY <1>0, <1>5 DEF ConfirmStart, RulesInv
  <1>6. CASE ProposeStart
    <2>1. Candidates \subseteq Patterns /\ \A p \in Candidates : signals[p].status = "watching"
      BY DEF Candidates
    <2>2. /\ proposer'.rows = Candidates /\ "rows" \in DOMAIN proposer'
          /\ UNCHANGED <<signals, confirming, refused>>
      BY <1>6 DEF ProposeStart
    <2> QED BY <1>0, <2>1, <2>2 DEF RulesInv
  <1>7. CASE ProposeOne
    <2>1. PICK p \in proposer.rows :
            /\ SetStatus(p, "proposed")
            /\ proposer' = [proposer EXCEPT !.rows = @ \ {p}, !.worded = @ \union {p}]
      BY <1>7 DEF ProposeOne
    <2>2. /\ signals' \in [Patterns -> RowsOfSignals]
          /\ \A q \in Patterns \ {p} : signals'[q] = signals[q]
      BY <1>0, <2>1, SetStatusSets
    <2>3. proposer'.rows = proposer.rows \ {p} /\ "rows" \in DOMAIN proposer'
      BY <2>1 DEF RulesInv
    <2>4. UNCHANGED <<confirming, refused>>
      BY <1>7 DEF ProposeOne
    <2> QED BY <1>0, <2>2, <2>3, <2>4 DEF RulesInv
  <1>8. CASE ProposeSend
    BY <1>0, <1>8 DEF ProposeSend, Quiet, RulesInv
  <1>9. CASE ConfirmEnd
    <2>0. /\ UNCHANGED <<proposer, refused>> /\ confirming' = "none"
          /\ UNCHANGED signals \/ SetStatus(confirming, "confirmed")
      BY <1>9 DEF ConfirmEnd
    <2>1. \A p \in refused : p # confirming'
      BY <1>0, <2>0, PersonaAssumption
    <2>2. CASE UNCHANGED signals
      BY <1>0, <2>0, <2>1, <2>2 DEF RulesInv
    <2>3. CASE SetStatus(confirming, "confirmed") /\ confirming \in Patterns
      <3>1. /\ signals' \in [Patterns -> RowsOfSignals]
            /\ \A q \in Patterns \ {confirming} : signals'[q] = signals[q]
        BY <1>0, <2>3, SetStatusSets
      <3> QED BY <1>0, <2>0, <2>1, <3>1 DEF RulesInv
    <2>4. CASE SetStatus(confirming, "confirmed") /\ confirming \notin Patterns
      <3>1. signals' = signals
        BY <1>0, <2>4 DEF SetStatus
      <3> QED BY <1>0, <2>0, <2>1, <3>1 DEF RulesInv
    <2> QED BY <2>0, <2>2, <2>3, <2>4
  <1>10. ASSUME NEW text, Remember(text) \/ Forget(text)
         PROVE  RulesInv'
    BY <1>0, <1>10 DEF Remember, Forget, RulesInv
  <1> QED BY <1>1, <1>2, <1>3, <1>4, <1>5, <1>6, <1>7, <1>8, <1>9, <1>10 DEF RulesNext


-----------------------------------------------------------------------------
(* What is said of him *)

(* Whatever a text may be written from is something he made or confirmed, or that was measured. *)
AnyValue == (UNION {Values[t] : t \in Topics}) \cup {"none"}
FactsInv ==
  /\ facts \in [Topics -> [value : AnyValue, verified : BOOLEAN]]
  /\ cv \in [Topics -> [value : AnyValue, active : BOOLEAN]]
  /\ \A t \in Topics : /\ facts[t].verified => <<t, facts[t].value>> \in grounded
                       /\ cv[t].active \/ cv[t].value # "none" => <<t, cv[t].value>> \in grounded
  /\ master \subseteq grounded /\ parsing \subseteq grounded /\ told \subseteq grounded
  /\ writing.from \subseteq grounded /\ writing.base \subseteq grounded

(* What the texts are drawn from. *)
LEMMA SourcesAreGrounded ==
  ASSUME FactsInv
  PROVE  /\ Verified \subseteq grounded /\ EveryCvRow \subseteq grounded
         /\ CvFacts \subseteq grounded /\ FactsText \subseteq grounded
         /\ MasterText \subseteq grounded
  <1>1. Verified \subseteq grounded
    BY DEF Verified, FactsInv
  <1>2. CvFacts \subseteq grounded /\ EveryCvRow \subseteq grounded
    BY DEF CvFacts, EveryCvRow, FactsInv
  <1>3. FactsText \subseteq grounded
    BY <1>1, <1>2 DEF FactsText
  <1>4. MasterText \subseteq grounded
    BY <1>3 DEF MasterText, FactsInv
  <1> QED BY <1>1, <1>2, <1>3, <1>4

(* A fact that is stored, of a topic, with what is grounded along with it. *)
LEMMA UpsertKeepsFacts ==
  ASSUME FactsInv, NEW t \in Topics, NEW v \in AnyValue, NEW verified \in BOOLEAN,
         Upsert(t, v, verified), grounded \subseteq grounded',
         verified => <<t, v>> \in grounded', UNCHANGED <<master, cv, parsing, writing, told>>
  PROVE  FactsInv'
  <1>1. facts' = [facts EXCEPT ![t] = [value |-> v, verified |-> verified]]
    BY DEF Upsert
  <1> DEFINE r == [value |-> v, verified |-> verified]
  <1>2. r \in [value : AnyValue, verified : BOOLEAN] /\ r.value = v /\ r.verified = verified
    OBVIOUS
  <1>3. facts' = [facts EXCEPT ![t] = r]
    BY <1>1
  <1> HIDE DEF r
  <1>4. facts' \in [Topics -> [value : AnyValue, verified : BOOLEAN]]
    BY <1>2, <1>3 DEF FactsInv
  <1>5. \A u \in Topics : facts'[u] = IF u = t THEN r ELSE facts[u]
    BY <1>3 DEF FactsInv
  <1>6. \A u \in Topics : facts'[u].verified => <<u, facts'[u].value>> \in grounded'
    BY <1>2, <1>5 DEF FactsInv
  <1> QED BY <1>4, <1>6 DEF FactsInv

(* What only writes, or only grounds. *)
LEMMA OthersKeepFacts ==
  ASSUME FactsInv, UNCHANGED <<facts, cv>>, grounded \subseteq grounded',
         master' \subseteq grounded', parsing' \subseteq grounded', told' \subseteq grounded',
         writing'.from \subseteq grounded', writing'.base \subseteq grounded'
  PROVE  FactsInv'
  BY DEF FactsInv

LEMMA FactsKeep ==
  ASSUME FactsInv, FactsNext
  PROVE  FactsInv'
  <1>v. ASSUME NEW t \in Topics, NEW v \in Values[t]
        PROVE  v \in AnyValue
    BY DEF AnyValue
  <1>t. "skill" \in Topics /\ "story" \in Topics /\ "flips" \in Topics
    BY PersonaAssumption DEF Topics
  <1>1. ASSUME NEW v \in Values["skill"], Interview(v) \/ ImportGithub(v)
        PROVE  FactsInv'
    BY <1>1, <1>v, <1>t, UpsertKeepsFacts DEF Interview, ImportGithub, Grounded
  <1>2. ASSUME NEW v \in Values["story"], BuildStory(v)
        PROVE  FactsInv'
    BY <1>2, <1>v, <1>t, UpsertKeepsFacts DEF BuildStory, Grounded
  <1>3. ASSUME NEW v \in Values["flips"], FeedLedger(v)
        PROVE  FactsInv'
    BY <1>3, <1>v, <1>t, UpsertKeepsFacts DEF FeedLedger, Grounded
  <1>4. ASSUME NEW t \in Topics, NEW accept \in BOOLEAN, Verify(t, accept)
        PROVE  FactsInv'
    <2> DEFINE r == [value |-> facts[t].value, verified |-> accept]
    <2>0. facts[t] \in [value : AnyValue, verified : BOOLEAN]
      BY DEF FactsInv
    <2>1. [facts[t] EXCEPT !.verified = accept] = r /\ r.value \in AnyValue
      BY <2>0
    <2>2. facts' = [facts EXCEPT ![t] = r]
      BY <1>4, <2>1 DEF Verify
    <2>3. Upsert(t, facts[t].value, accept)
      BY <2>2 DEF Upsert
    <2>4. /\ grounded' = grounded \cup (IF accept THEN {<<t, facts[t].value>>} ELSE {})
          /\ UNCHANGED <<master, cv, parsing, writing, told>>
      BY <1>4 DEF Verify, Grounded
    <2> QED BY <2>1, <2>3, <2>4, UpsertKeepsFacts
  <1>5. ASSUME NEW v \in Values["skill"], PutMaster(v)
        PROVE  FactsInv'
    BY <1>5, OthersKeepFacts DEF PutMaster, Grounded, FactsInv
  <1>6. CASE CvUpdate
    BY <1>6, OthersKeepFacts DEF CvUpdate, FactsInv
  <1>7. CASE UpdateFails
    BY <1>7, OthersKeepFacts DEF UpdateFails, FactsInv
  <1>8. CASE ReplaceCvFacts
    <2>1. /\ parsing \subseteq grounded /\ parsing' = {}
          /\ UNCHANGED <<facts, master, writing, told, grounded>>
      BY <1>8 DEF ReplaceCvFacts, FactsInv
    <2>2. ASSUME NEW t \in Topics
          PROVE  /\ cv'[t] \in [value : AnyValue, active : BOOLEAN]
                 /\ cv'[t].active \/ cv'[t].value # "none" => <<t, cv'[t].value>> \in grounded
      <3>0. cv[t] \in [value : AnyValue, active : BOOLEAN]
        BY DEF FactsInv
      <3>1. CASE \E v \in Values[t] : <<t, v>> \in parsing
        <4>1. PICK v \in Values[t] :
                 <<t, v>> \in parsing /\ cv'[t] = [value |-> v, active |-> TRUE]
          BY <1>8, <3>1 DEF ReplaceCvFacts
        <4> QED BY <1>v, <2>1, <4>1
      <3>2. CASE ~\E v \in Values[t] : <<t, v>> \in parsing
        <4>1. cv'[t] = [cv[t] EXCEPT !.active = FALSE]
          BY <1>8, <3>2 DEF ReplaceCvFacts
        <4>2. cv'[t] = [value |-> cv[t].value, active |-> FALSE]
          BY <3>0, <4>1
        <4>3. cv[t].value # "none" => <<t, cv[t].value>> \in grounded
          BY DEF FactsInv
        <4> QED BY <3>0, <4>2, <4>3
      <3> QED BY <3>1, <3>2
    <2>3. cv' \in [Topics -> [value : AnyValue, active : BOOLEAN]]
      <3>1. DOMAIN cv' = Topics /\ cv' = [t \in DOMAIN cv' |-> cv'[t]]
        BY <1>8 DEF ReplaceCvFacts
      <3> QED BY <2>2, <3>1
    <2> QED BY <2>1, <2>2, <2>3 DEF FactsInv
  <1>9. ASSUME NEW text, NEW from \in SUBSET grounded, NEW base \in SUBSET grounded,
               Draft(text, from, base)
        PROVE  FactsInv'
    BY <1>9, OthersKeepFacts DEF Draft, FactsInv
  <1>10. CASE AnswerStart \/ CoverStart \/ TailorStart
    <2>1. ASSUME NEW found \in SUBSET Verified \ {{}}, Draft("answer", found, {})
          PROVE  FactsInv'
      BY <1>9, <2>1, SourcesAreGrounded
    <2>2. CASE CoverStart
      <3>1. Verified \cup EveryCvRow \in SUBSET grounded
        BY SourcesAreGrounded
      <3> QED BY <1>9, <2>2, <3>1 DEF CoverStart
    <2>3. CASE TailorStart
      <3>1. MasterText \cup FactsText \in SUBSET grounded /\ MasterText \in SUBSET grounded
        BY SourcesAreGrounded
      <3> QED BY <1>9, <2>3, <3>1 DEF TailorStart
    <2> QED BY <1>10, <2>1, <2>2, <2>3 DEF AnswerStart
  <1>11. ASSUME NEW claims \in SUBSET grounded, Written(claims)
         PROVE  FactsInv'
    BY <1>11, OthersKeepFacts DEF Written, NotWriting, FactsInv
  <1>12. CASE Answered
    <2>1. writing.from \in SUBSET grounded /\ {} \in SUBSET grounded
      BY DEF FactsInv
    <2> QED BY <1>11, <1>12, <2>1 DEF Answered
  <1>13. CASE Tailored
    <2>1. PICK claims : Written(claims) /\ claims \subseteq writing.base \cup FactsText
      BY <1>13 DEF Tailored
    <2>2. claims \in SUBSET grounded
      BY <2>1, SourcesAreGrounded DEF FactsInv
    <2> QED BY <1>11, <2>1, <2>2
  <1>14. CASE StoryAnswer
    <2>1. told' \subseteq grounded
      BY <1>14, <1>t DEF StoryAnswer, FactsInv
    <2> QED BY <1>14, <2>1, OthersKeepFacts DEF StoryAnswer, FactsInv
  <1> QED BY <1>1, <1>2, <1>3, <1>4, <1>5, <1>6, <1>7, <1>8, <1>10, <1>12, <1>13, <1>14
          DEF FactsNext


-----------------------------------------------------------------------------
(* Quizzes *)

(* A session that is stored, or that an answer was read with, is past graded cards only. *)
InTurn(s) ==
  /\ s \in [no : {s.no}, ids : {s.ids}, idx : Nat \ {0}]
  /\ \A i \in 1..(s.idx - 1) : <<s.no, s.ids[i]>> \in graded
QuizInv ==
  InTurn(quiz) /\ DOMAIN judging = Chats /\ \A c \in Chats : InTurn(judging[c])

(* A session goes on from the card that was graded. *)
LEMMA AdvanceKeeps ==
  ASSUME NEW s, InTurn(s), MarkGraded(s), Advance(s)
  PROVE  InTurn(quiz)'
  <1>1. CASE quiz' = NoQuiz
    <2>1. quiz'.idx = 1 /\ quiz' \in [no : {quiz'.no}, ids : {quiz'.ids}, idx : Nat \ {0}]
      BY <1>1 DEF NoQuiz
    <2> QED BY <2>1 DEF InTurn
  <1>2. CASE quiz' = [s EXCEPT !.idx = @ + 1]
    <2>1. s \in [no : {s.no}, ids : {s.ids}, idx : Nat \ {0}] /\ s.idx \in Nat \ {0}
      BY DEF InTurn
    <2>2. quiz'.no = s.no /\ quiz'.ids = s.ids /\ quiz'.idx = s.idx + 1
      BY <1>2, <2>1
    <2>3. quiz' \in [no : {s.no}, ids : {s.ids}, idx : Nat \ {0}]
      BY <1>2, <2>1
    <2>4. ASSUME NEW i \in 1..s.idx
          PROVE  <<s.no, s.ids[i]>> \in graded'
      <3>1. i = s.idx \/ i \in 1..(s.idx - 1)
        BY <2>1
      <3> QED BY <3>1 DEF InTurn, MarkGraded
    <2>5. 1..(quiz'.idx - 1) = 1..s.idx
      BY <2>1, <2>2
    <2> QED BY <2>2, <2>3, <2>4, <2>5 DEF InTurn
  <1> QED BY <1>1, <1>2 DEF Advance

(* What was graded stays so. *)
LEMMA GradedKeeps ==
  ASSUME NEW s, InTurn(s), graded \subseteq graded'
  PROVE  /\ s \in [no : {s.no}, ids : {s.ids}, idx : Nat \ {0}]
         /\ \A i \in 1..(s.idx - 1) : <<s.no, s.ids[i]>> \in graded'
  BY DEF InTurn

LEMMA NewSession ==
  ASSUME NEW n, NEW ids
  PROVE  InTurn([no |-> n, ids |-> ids, idx |-> 1])
  BY DEF InTurn

LEMMA QuizKeeps ==
  ASSUME QuizInv, StudyNext
  PROVE  QuizInv'
  <1>1. CASE UNCHANGED quizzing
    BY <1>1 DEF quizzing, QuizInv, InTurn
  <1>2. CASE StartQuiz
    <2>1. PICK ids : quiz' = [no |-> quizzes', ids |-> ids, idx |-> 1]
      BY <1>2 DEF StartQuiz
    <2>2. UNCHANGED <<graded, judging>>
      BY <1>2 DEF StartQuiz
    <2> QED BY <2>1, <2>2 DEF QuizInv, InTurn
  <1>3. ASSUME NEW g \in Grades, Grade(g)
        PROVE  QuizInv'
    <2>1. MarkGraded(quiz) /\ Advance(quiz) /\ UNCHANGED judging /\ InTurn(quiz)
      BY <1>3 DEF Grade, QuizInv
    <2>2. InTurn(quiz)' /\ graded \subseteq graded'
      BY <2>1, AdvanceKeeps DEF MarkGraded
    <2> QED BY <2>1, <2>2 DEF QuizInv, InTurn
  <1>4. ASSUME NEW c \in Chats, Answer(c)
        PROVE  QuizInv'
    <2>1. judging' = [judging EXCEPT ![c] = quiz] /\ UNCHANGED <<quiz, graded>>
      BY <1>4 DEF Answer
    <2>2. DOMAIN judging' = Chats /\ \A d \in Chats : judging'[d] = IF d = c THEN quiz ELSE judging[d]
      BY <2>1 DEF QuizInv
    <2>3. ASSUME NEW d \in Chats
          PROVE  InTurn(judging[d])'
      <3>1. PICK s : s = judging'[d] /\ InTurn(s)
        BY <2>2 DEF QuizInv
      <3> QED BY <2>1, <3>1 DEF InTurn
    <2> QED BY <2>1, <2>2, <2>3 DEF QuizInv, InTurn
  <1>5. ASSUME NEW c \in Chats, Judged(c)
        PROVE  QuizInv'
    <2>1. PICK s : s = judging[c]
      OBVIOUS
    <2>2. MarkGraded(s) /\ Advance(s) /\ judging' = [judging EXCEPT ![c] = NoQuiz] /\ InTurn(s)
      BY <1>5, <2>1 DEF Judged, QuizInv
    <2>3. InTurn(quiz)' /\ graded \subseteq graded'
      BY <2>2, AdvanceKeeps DEF MarkGraded
    <2>4. DOMAIN judging' = Chats
          /\ \A d \in Chats : judging'[d] = IF d = c THEN NoQuiz ELSE judging[d]
      BY <2>2 DEF QuizInv
    <2>5. ASSUME NEW d \in Chats
          PROVE  InTurn(judging[d])'
      <3>1. PICK r : r = judging'[d] /\ InTurn(r)
        BY <2>4, NewSession DEF QuizInv, NoQuiz
      <3> QED BY <2>3, <3>1, GradedKeeps DEF InTurn
    <2> QED BY <2>3, <2>4, <2>5 DEF QuizInv
  <1>6. CASE Quizzing
    BY <1>2, <1>3, <1>4, <1>5, <1>6 DEF Quizzing
  <1> QED BY <1>1, <1>6 DEF StudyNext, Carding, Lessons, Indexing, Capturing, StudyDies


-----------------------------------------------------------------------------
(* Alarms *)

(* An article that is gone does not come back. *)
FeedInv ==
  /\ \E m \in Nat : feed \cup gone = 1..m
  /\ feed \cap gone = {}

(* An article that was part of an alarm more often than something failed is recorded,  *)
(* gone or about to be recorded, so a poll does not find it again; and an alarm within *)
(* the hour is recorded, about to be, or followed by a failure.                        *)
AlarmsInv ==
  /\ poll \in [pc : {"idle", "scan", "record"}, todo : {poll.todo}, found : {poll.found},
               top : {poll.top}]
  /\ alarms \in [Articles -> Nat] /\ faults \in Nat
  /\ hush => cooling \/ poll.pc = "record" \/ faults > 0
  /\ poll.pc = "scan" /\ hush => faults > 0
  /\ flood => faults > 0
  /\ \A a \in Articles :
       /\ alarms[a] <= 1 + faults
       /\ \/ alarms[a] <= faults
          \/ a \in rung \cup gone
          \/ poll.pc = "record" /\ a \in poll.top
  /\ poll.pc = "scan" => \A k \in poll.found : \A a \in k : a \in Articles /\ alarms[a] <= faults

NewsInv == feed \subseteq Articles /\ FeedInv /\ AlarmsInv

(* Failures only allow for more. *)
LEMMA MoreFaultsAllowed ==
  ASSUME AlarmsInv, UNCHANGED breaking, faults' \in {faults, faults + 1}, gone \subseteq gone'
  PROVE  AlarmsInv'
  <1>1. /\ UNCHANGED <<rung, cooling, hush, alarms, flood, poll>>
        /\ faults \in Nat /\ faults' \in Nat /\ faults <= faults'
    BY DEF AlarmsInv, breaking
  <1>2. ASSUME NEW a \in Articles
        PROVE  /\ alarms[a] <= 1 + faults'
               /\ \/ alarms[a] <= faults'
                  \/ a \in rung \cup gone'
                  \/ poll.pc = "record" /\ a \in poll.top
    <2>1. alarms[a] \in Nat /\ alarms[a] <= 1 + faults
      BY DEF AlarmsInv
    <2>2. alarms[a] <= 1 + faults' /\ (alarms[a] <= faults => alarms[a] <= faults')
      BY <1>1, <2>1
    <2> QED BY <2>2 DEF AlarmsInv
  <1>3. ASSUME poll.pc = "scan", NEW k \in poll.found, NEW a \in k
        PROVE  a \in Articles /\ alarms[a] <= faults'
    <2>1. a \in Articles /\ alarms[a] <= faults
      BY <1>3 DEF AlarmsInv
    <2>2. alarms[a] \in Nat
      BY <2>1 DEF AlarmsInv
    <2> QED BY <1>1, <2>1, <2>2
  <1>4. faults > 0 => faults' > 0
    BY <1>1
  <1> QED BY <1>1, <1>2, <1>3, <1>4 DEF AlarmsInv

LEMMA FeedKeeps ==
  ASSUME NewsInv, NEW a \in Articles, Appears(a) \/ Ages(a)
  PROVE  /\ feed' \subseteq Articles /\ FeedInv' /\ gone \subseteq gone' /\ UNCHANGED breaking
  <1>1. CASE Appears(a)
    <2>1. PICK m \in Nat : feed \cup gone = 1..m
      BY DEF NewsInv, FeedInv
    <2>2. Cardinality(1..m) = m
      <3>1. Cardinality(1..m) = IF 1 > m THEN 0 ELSE m - 1 + 1
        BY FS_Interval
      <3> QED BY <3>1
    <2>3. a = m + 1 /\ feed' = feed \cup {a} /\ gone' = gone /\ UNCHANGED breaking
      BY <1>1, <2>1, <2>2 DEF Appears
    <2>4. feed' \cup gone' = 1..(m + 1)
      <3>1. feed' \cup gone' = (1..m) \cup {m + 1}
        BY <2>1, <2>3
      <3>2. (1..m) \cup {m + 1} = 1..(m + 1)
        OBVIOUS
      <3> QED BY <3>1, <3>2
    <2>5. a \notin gone
      <3>1. m + 1 \notin 1..m
        OBVIOUS
      <3> QED BY <2>1, <2>3, <3>1
    <2>6. m + 1 \in Nat
      OBVIOUS
    <2> QED BY <2>3, <2>4, <2>5, <2>6 DEF NewsInv, FeedInv
  <1>2. CASE Ages(a)
    <2>1. a \in feed /\ feed' = feed \ {a} /\ gone' = gone \cup {a} /\ UNCHANGED breaking
      BY <1>2 DEF Ages
    <2>2. feed' \cup gone' = feed \cup gone
      BY <2>1
    <2> QED BY <2>1, <2>2 DEF NewsInv, FeedInv
  <1> QED BY <1>1, <1>2

LEMMA PollsKeep ==
  ASSUME NewsInv, UNCHANGED articles,
         \/ UNCHANGED daily /\ (PollStart \/ PollScan \/ PollAlarm \/ PollRecord \/ HourPasses)
         \/ PollMisses \/ PollRecordFails
  PROVE  AlarmsInv'
  <1>0. /\ UNCHANGED <<feed, gone>> /\ AlarmsInv /\ feed \subseteq Articles /\ feed \cap gone = {}
        /\ faults \in Nat /\ alarms \in [Articles -> Nat]
        /\ poll \in [pc : {"idle", "scan", "record"}, todo : {poll.todo}, found : {poll.found},
                     top : {poll.top}]
    BY DEF NewsInv, FeedInv, AlarmsInv, articles
  <1>n. NoPoll \in [pc : {"idle", "scan", "record"}, todo : {NoPoll.todo}, found : {NoPoll.found},
                    top : {NoPoll.top}] /\ NoPoll.pc = "idle" /\ NoPoll.found = {}
    BY DEF NoPoll
  <1>1. CASE UNCHANGED daily /\ PollStart
    <2>1. /\ rung' = rung \ gone /\ UNCHANGED <<cooling, hush, alarms, flood, faults>>
          /\ poll.pc = "idle"
      BY <1>1 DEF PollStart, daily
    <2>2. CASE poll' = NoPoll
      BY <1>0, <1>n, <2>1, <2>2 DEF AlarmsInv
    <2>3. CASE ~cooling /\ poll' = [NoPoll EXCEPT !.pc = "scan", !.todo = Stories]
      <3>1. /\ poll'.pc = "scan" /\ poll'.found = {}
            /\ poll' \in [pc : {"idle", "scan", "record"}, todo : {poll'.todo},
                          found : {poll'.found}, top : {poll'.top}]
        BY <2>3 DEF NoPoll
      <3> QED BY <1>0, <2>1, <2>3, <3>1 DEF AlarmsInv
    <2> QED BY <1>1, <2>2, <2>3 DEF PollStart
  <1>2. CASE UNCHANGED daily /\ PollScan
    <2>1. PICK s \in {Least(poll.todo)}, embeds \in BOOLEAN :
            poll' = [poll EXCEPT !.todo = @ \ {s}, !.found = @ \cup Novel(Qualifying(s, embeds))]
      BY <1>2 DEF PollScan
    <2>2. UNCHANGED <<rung, cooling, hush, alarms, flood, faults>> /\ poll.pc = "scan"
      BY <1>2 DEF PollScan, daily
    <2>3. /\ poll'.pc = "scan" /\ poll'.top = poll.top
          /\ poll'.found = poll.found \cup Novel(Qualifying(s, embeds))
          /\ poll' \in [pc : {"idle", "scan", "record"}, todo : {poll'.todo},
                        found : {poll'.found}, top : {poll'.top}]
      BY <1>0, <2>1, <2>2
    <2>4. ASSUME NEW k \in Novel(Qualifying(s, embeds)), NEW a \in k
          PROVE  a \in Articles /\ alarms[a] <= faults
      <3>1. k \in Clusters(Fetched(s), embeds) /\ a \notin rung
        BY DEF Novel, Qualifying
      <3>2. a \in feed
        BY <3>1 DEF Clusters, Fetched
      <3> QED BY <1>0, <2>2, <3>1, <3>2 DEF AlarmsInv
    <2> QED BY <1>0, <2>2, <2>3, <2>4 DEF AlarmsInv
  <1>3. CASE UNCHANGED daily /\ PollAlarm
    <2>0. UNCHANGED <<rung, cooling, faults>> /\ poll.pc = "scan"
      BY <1>3 DEF PollAlarm, daily
    <2>1. CASE poll' = NoPoll /\ UNCHANGED <<hush, alarms, flood>>
      BY <1>0, <1>n, <2>0, <2>1 DEF AlarmsInv
    <2>2. ASSUME NEW top \in poll.found,
                 poll' = [NoPoll EXCEPT !.pc = "record", !.top = top],
                 alarms' = [a \in Articles |-> IF a \in top THEN alarms[a] + 1 ELSE alarms[a]],
                 hush' = TRUE, flood' = (flood \/ hush)
          PROVE  AlarmsInv'
      <3>1. /\ poll'.pc = "record" /\ poll'.top = top
            /\ poll' \in [pc : {"idle", "scan", "record"}, todo : {poll'.todo},
                          found : {poll'.found}, top : {poll'.top}]
        BY <2>2 DEF NoPoll
      <3>2. alarms' \in [Articles -> Nat]
        BY <1>0, <2>2
      <3>3. flood' => faults > 0
        BY <1>0, <2>0, <2>2 DEF AlarmsInv
      <3>4. ASSUME NEW a \in Articles
            PROVE  /\ alarms'[a] <= 1 + faults
                   /\ alarms'[a] <= faults \/ a \in rung \cup gone \/ a \in top
        <4>0. alarms[a] \in Nat
          BY <1>0
        <4>1. CASE a \in top
          <5>1. alarms[a] <= faults /\ alarms'[a] = alarms[a] + 1
            BY <1>0, <2>0, <2>2, <4>1 DEF AlarmsInv
          <5> QED BY <1>0, <4>0, <4>1, <5>1
        <4>2. CASE a \notin top
          <5>1. alarms'[a] = alarms[a]
            BY <2>2, <4>2
          <5>2. alarms[a] <= 1 + faults /\ (alarms[a] <= faults \/ a \in rung \cup gone)
            BY <1>0, <2>0 DEF AlarmsInv
          <5> QED BY <5>1, <5>2
        <4> QED BY <4>1, <4>2
      <3> QED BY <1>0, <2>0, <3>1, <3>2, <3>3, <3>4 DEF AlarmsInv
    <2> QED BY <1>3, <2>1, <2>2 DEF PollAlarm
  <1>4. CASE UNCHANGED daily /\ PollRecord
    <2>1. /\ poll.pc = "record" /\ rung' = rung \cup poll.top /\ cooling' = TRUE /\ poll' = NoPoll
          /\ UNCHANGED <<hush, alarms, flood, faults>>
      BY <1>4 DEF PollRecord, daily
    <2> QED BY <1>0, <1>n, <2>1 DEF AlarmsInv
  <1>5. CASE UNCHANGED daily /\ HourPasses
    <2>1. /\ poll.pc # "record" /\ hush' = FALSE /\ cooling' = FALSE
          /\ UNCHANGED <<rung, alarms, flood, poll, faults>>
      BY <1>5 DEF HourPasses, daily
    <2> QED BY <1>0, <2>1 DEF AlarmsInv
  <1>6. CASE PollMisses
    <2>1. /\ UNCHANGED <<rung, cooling, hush, alarms, flood>> /\ faults' = faults + 1
          /\ poll.pc = "scan" /\ poll' = [poll EXCEPT !.todo = @ \ {Least(poll.todo)}]
      BY <1>6 DEF PollMisses, Fault
    <2>2. /\ poll'.pc = "scan" /\ poll'.found = poll.found
          /\ poll' \in [pc : {"idle", "scan", "record"}, todo : {poll'.todo},
                        found : {poll'.found}, top : {poll'.top}]
      BY <1>0, <2>1
    <2>3. faults' \in Nat /\ faults' > 0
      BY <1>0, <2>1
    <2>4. ASSUME NEW a \in Articles
          PROVE  alarms[a] <= 1 + faults' /\ (alarms[a] <= faults' \/ a \in rung \cup gone)
      <3>1. alarms[a] \in Nat /\ alarms[a] <= 1 + faults
        BY <1>0 DEF AlarmsInv
      <3> QED BY <1>0, <2>1, <3>1
    <2>5. ASSUME NEW k \in poll.found, NEW a \in k
          PROVE  a \in Articles /\ alarms[a] <= faults'
      <3>1. a \in Articles /\ alarms[a] <= faults
        BY <1>0, <2>1, <2>5 DEF AlarmsInv
      <3>2. alarms[a] \in Nat
        BY <1>0, <3>1
      <3> QED BY <1>0, <2>1, <3>1, <3>2
    <2> QED BY <1>0, <2>1, <2>2, <2>3, <2>4, <2>5 DEF AlarmsInv
  <1>7. CASE PollRecordFails
    <2>1. /\ UNCHANGED <<rung, cooling, hush, alarms, flood>> /\ faults' = faults + 1
          /\ poll' = NoPoll
      BY <1>7 DEF PollRecordFails, Fault
    <2>3. faults' \in Nat /\ faults' > 0
      BY <1>0, <2>1
    <2>4. ASSUME NEW a \in Articles
          PROVE  alarms[a] <= 1 + faults' /\ alarms[a] <= faults'
      <3>1. alarms[a] \in Nat /\ alarms[a] <= 1 + faults
        BY <1>0 DEF AlarmsInv
      <3> QED BY <1>0, <2>1, <3>1
    <2> QED BY <1>0, <1>n, <2>1, <2>3, <2>4 DEF AlarmsInv
  <1> QED BY <1>1, <1>2, <1>3, <1>4, <1>5, <1>6, <1>7

LEMMA NewsKeep ==
  ASSUME NewsInv, NewsNext
  PROVE  NewsInv'
  <1>0. faults \in Nat
    BY DEF NewsInv, AlarmsInv
  <1>1. CASE Articling
    <2>1. PICK a \in Articles : Appears(a) \/ Ages(a)
      BY <1>1 DEF Articling
    <2>2. UNCHANGED faults
      BY <1>1 DEF Articling, daily
    <2> QED BY <2>1, <2>2, FeedKeeps, MoreFaultsAllowed DEF NewsInv
  <1>2. CASE Briefings \/ BriefingFaults
    <2>1. /\ UNCHANGED articles /\ UNCHANGED breaking
          /\ UNCHANGED faults \/ faults' = faults + 1
      BY <1>2 DEF Briefings, BriefingFaults, BriefStart, BriefRead, BriefRecord, BriefSend,
                  BriefRecordFails, BriefDies, Fault, daily
    <2> QED BY <2>1, MoreFaultsAllowed DEF NewsInv, FeedInv, articles
  <1>3. CASE Polls \/ PollFaults \/ Hours
    <2>1. UNCHANGED articles
      BY <1>3 DEF Polls, PollFaults, Hours
    <2>2. AlarmsInv'
      BY <1>3, <2>1, PollsKeep DEF Polls, PollFaults, Hours
    <2> QED BY <2>1, <2>2 DEF NewsInv, FeedInv, articles
  <1>4. CASE Boards
    <2>1. UNCHANGED articles /\ UNCHANGED breaking /\ UNCHANGED faults
      BY <1>4 DEF Boards, daily
    <2> QED BY <2>1, MoreFaultsAllowed DEF NewsInv, FeedInv, articles
  <1> QED BY <1>1, <1>2, <1>3, <1>4 DEF NewsNext


-----------------------------------------------------------------------------
(* Bargains *)

(* What a score above nothing was given for. *)
Bargain == row.price # 0 /\ Priced # {} /\ AtLeast(20) /\ ~Slow /\ Stale
ScoringInv ==
  /\ comps \in [Others -> Nat] /\ \A i, j \in Others : i < j => comps[i] <= comps[j]
  /\ ad \in [price : Nat, age : Nat, urges : Nat] /\ floor \in {0, 40}
  /\ row \in [state : {"none", "DISCOVERED", "SCORING", "NEGOTIATING", "REJECTED"}, price : Nat,
              urges : Nat, points : {row.points}]
  /\ row.state = "SCORING" => row.points = 0 \/ Bargain
  /\ row.state = "NEGOTIATING" => Bargain /\ AtLeast(floor)

(* The median is at most the price at its upper rank, and half of the prices are from it on. *)
LEMMA MedianIsRanked ==
  ASSUME ScoringInv, Priced # {}
  PROVE  \E b \in Others :
           /\ TwiceMedian \in Nat /\ TwiceMedian <= 2 * comps[b]
           /\ b..Cardinality(Others) \subseteq Others
           /\ IsFiniteSet(Priced) /\ Cardinality(Priced) \in Nat
           /\ 2 * Cardinality(b..Cardinality(Others)) >= Cardinality(Priced)
           /\ \A i \in b..Cardinality(Others) : comps[i] >= comps[b]
  <1> DEFINE N == Cardinality(Others)
             n == Cardinality(Priced)
             a == N - n + ((n + 1) \div 2)
             b == N - n + (n \div 2 + 1)
  <1>1. N \in Nat /\ Others = 1..N /\ IsFiniteSet(Others)
    BY ScoringAssumption, FS_CardinalityType DEF ScoringAssumption
  <1>2. IsFiniteSet(Priced) /\ n \in Nat /\ n <= N
    <2>1. Priced \subseteq Others
      BY DEF Priced
    <2> QED BY <1>1, <2>1, FS_Subset, FS_CardinalityType
  <1>3. n # 0
    BY <1>2, FS_EmptySet
  <1>4. TwiceMedian = comps[a] + comps[b]
    BY DEF TwiceMedian
  <1> HIDE DEF N, n
  <1>5. a \in 1..N /\ b \in 1..N /\ a <= b
    BY <1>1, <1>2, <1>3
  <1>6. 2 * (N - b + 1) >= n /\ b <= N
    BY <1>1, <1>2, <1>3
  <1> HIDE DEF a, b
  <1>7. comps[a] \in Nat /\ comps[b] \in Nat /\ comps[a] <= comps[b]
    <2>1. a = b \/ a < b
      BY <1>5
    <2> QED BY <1>1, <1>5, <2>1 DEF ScoringInv
  <1>8. TwiceMedian \in Nat /\ TwiceMedian <= 2 * comps[b]
    BY <1>4, <1>7
  <1>9. Cardinality(b..N) = N - b + 1
    <2>1. b \in Int /\ N \in Int /\ ~(b > N)
      BY <1>1, <1>5
    <2> QED BY <2>1, FS_Interval
  <1>10. 2 * Cardinality(b..N) >= n
    BY <1>6, <1>9
  <1>11. b..N \subseteq 1..N
    BY <1>1, <1>5
  <1>12. ASSUME NEW i \in b..N
         PROVE  comps[i] >= comps[b]
    <2>1. (i = b \/ b < i) /\ i \in 1..N
      BY <1>1, <1>5, <1>11
    <2>2. comps[i] \in Nat
      BY <1>1, <2>1 DEF ScoringInv
    <2> QED BY <1>1, <1>5, <1>7, <2>1, <2>2 DEF ScoringInv
  <1> QED BY <1>1, <1>2, <1>5, <1>8, <1>10, <1>11, <1>12 DEF N, n

(* Half of the others were offered for a quarter more than a bargain. *)
LEMMA HalfAreDearer ==
  ASSUME ScoringInv, Bargain
  PROVE  2 * Cardinality({i \in Priced : 4 * comps[i] >= 5 * row.price}) >= Cardinality(Priced)
  <1> DEFINE S == {i \in Priced : 4 * comps[i] >= 5 * row.price}
             U(b) == b..Cardinality(Others)
  <1>1. PICK b \in Others :
          /\ TwiceMedian \in Nat /\ TwiceMedian <= 2 * comps[b]
          /\ U(b) \subseteq Others
          /\ IsFiniteSet(Priced) /\ Cardinality(Priced) \in Nat
          /\ 2 * Cardinality(U(b)) >= Cardinality(Priced)
          /\ \A i \in U(b) : comps[i] >= comps[b]
    BY MedianIsRanked DEF Bargain
  <1>2. row.price \in Nat /\ comps[b] \in Nat
    BY DEF ScoringInv
  <1>3. 4 * comps[b] >= 5 * row.price /\ row.price # 0
    <2>1. 100 * (TwiceMedian - 2 * row.price) >= 20 * TwiceMedian /\ row.price # 0
      BY DEF Bargain, AtLeast, Below
    <2> QED BY SMTT(20), <1>1, <1>2, <2>1
  <1>4. ASSUME NEW i \in U(b)
        PROVE  i \in S
    <2>1. i \in Others /\ comps[i] >= comps[b] /\ comps[i] \in Nat
      BY <1>1 DEF ScoringInv
    <2>2. comps[i] # 0 /\ 4 * comps[i] >= 5 * row.price
      BY <1>2, <1>3, <2>1
    <2> QED BY <2>1, <2>2 DEF Priced
  <1>5. IsFiniteSet(S) /\ Cardinality(U(b)) \in Nat /\ Cardinality(S) \in Nat
        /\ Cardinality(U(b)) <= Cardinality(S)
    <2>1. IsFiniteSet(S)
      <3>1. S \subseteq Priced
        OBVIOUS
      <3> QED BY <1>1, <3>1, FS_Subset
    <2>2. IsFiniteSet(U(b)) /\ Cardinality(U(b)) <= Cardinality(S)
      <3>1. U(b) \subseteq S
        BY <1>4
      <3> HIDE DEF U, S
      <3> QED BY <2>1, <3>1, FS_Subset
    <2> HIDE DEF U, S
    <2> QED BY <2>1, <2>2, FS_CardinalityType
  <1> HIDE DEF U
  <1>6. 2 * Cardinality(S) >= Cardinality(Priced)
    <2> HIDE DEF S
    <2> QED BY <1>1, <1>5
  <1> QED BY <1>6

(* A bargain stays one while it is only stored and judged, and as days pass. *)
LEMMA BargainStays ==
  ASSUME ScoringInv, UNCHANGED <<comps, sold, floor>>,
         row'.price = row.price, row'.urges = row.urges,
         ad'.age \in Nat, ad'.age >= ad.age
  PROVE  /\ Bargain => Bargain'
         /\ AtLeast(floor) => AtLeast(floor)'
  <1>1. TwiceMedian' = TwiceMedian /\ Priced' = Priced
    BY DEF TwiceMedian, Priced
  <1>2. (AtLeast(20) => AtLeast(20)') /\ (AtLeast(floor) => AtLeast(floor)')
    BY <1>1 DEF AtLeast, Below
  <1>3. ~Slow => ~Slow'
    BY DEF Slow
  <1>4. Stale => Stale'
    <2>1. ad.age \in Nat
      BY DEF ScoringInv
    <2> QED BY <2>1 DEF Stale
  <1> QED BY <1>1, <1>2, <1>3, <1>4 DEF Bargain

LEMMA ScoringKeeps ==
  ASSUME ScoringInv, ScoringNext
  PROVE  ScoringInv'
  <1>0. /\ row \in [state : {"none", "DISCOVERED", "SCORING", "NEGOTIATING", "REJECTED"}, price : Nat,
                    urges : Nat, points : {row.points}]
        /\ ad \in [price : Nat, age : Nat, urges : Nat]
    BY DEF ScoringInv
  <1>1. ASSUME UNCHANGED <<row, comps, sold, floor>>,
               ad' \in [price : Nat, age : Nat, urges : Nat],
               ad'.age >= ad.age
        PROVE  ScoringInv'
    <2>1. (Bargain => Bargain') /\ (AtLeast(floor) => AtLeast(floor)')
      <3>1. ad'.age \in Nat
        BY <1>1
      <3> QED BY <1>1, <3>1, BargainStays
    <2> QED BY <1>1, <2>1 DEF ScoringInv
  <1>2. CASE Drop
    <2>1. PICK p \in Asked : ad' = [ad EXCEPT !.price = p, !.urges = @ + 1]
      BY <1>2 DEF Drop
    <2>2. p \in Nat
      BY ScoringAssumption DEF ScoringAssumption
    <2>3. ad.urges + 1 \in Nat /\ ad.age \in Nat
      BY <1>0
    <2>4. ad' = [price |-> p, age |-> ad.age, urges |-> ad.urges + 1]
      BY <1>0, <2>1
    <2>5. ad' \in [price : Nat, age : Nat, urges : Nat] /\ ad'.age = ad.age
      BY <2>2, <2>3, <2>4
    <2> QED BY <1>1, <1>2, <2>3, <2>5 DEF Drop
  <1>3. CASE Wait
    <2>1. PICK a \in DayCounts : a > ad.age /\ ad' = [ad EXCEPT !.age = a]
      BY <1>3 DEF Wait
    <2>2. a \in Nat
      BY ScoringAssumption DEF ScoringAssumption
    <2>3. ad' \in [price : Nat, age : Nat, urges : Nat] /\ ad'.age >= ad.age
      BY <1>0, <2>1, <2>2
    <2> QED BY <1>1, <1>3, <2>3 DEF Wait
  <1>4. CASE Sight
    <2>1. row' = [NoRow EXCEPT !.state = "DISCOVERED", !.price = ad.price, !.urges = ad.urges]
          /\ UNCHANGED <<ad, comps, sold, floor>>
      BY <1>4 DEF Sight
    <2>2. /\ row'.state = "DISCOVERED"
          /\ row' \in [state : {"none", "DISCOVERED", "SCORING", "NEGOTIATING", "REJECTED"},
                       price : Nat, urges : Nat, points : {row'.points}]
      BY <1>0, <2>1 DEF NoRow
    <2> QED BY <2>1, <2>2 DEF ScoringInv
  <1>5. CASE Judge
    <2>1. row' = [row EXCEPT !.state = "SCORING", !.points = Scores]
          /\ UNCHANGED <<ad, comps, sold, floor>>
      BY <1>5 DEF Judge
    <2>2. /\ row'.state = "SCORING" /\ row'.points = Scores
          /\ row'.price = row.price /\ row'.urges = row.urges
          /\ row' \in [state : {"none", "DISCOVERED", "SCORING", "NEGOTIATING", "REJECTED"},
                       price : Nat, urges : Nat, points : {row'.points}]
      BY <1>0, <2>1
    <2>3. Bargain => Bargain'
      BY <1>0, <2>1, <2>2, BargainStays
    <2>4. Scores = 0 \/ Bargain
      BY DEF Scores, Bargain
    <2> QED BY <2>1, <2>2, <2>3, <2>4 DEF ScoringInv
  <1>6. CASE Settle
    <2>0. row.state = "SCORING" /\ UNCHANGED <<ad, comps, sold, floor>>
      BY <1>6 DEF Settle
    <2>1. CASE ~(row.points >= 59950 /\ (floor = 0 \/ AtLeast(floor)))
      <3>1. row' = [row EXCEPT !.state = "REJECTED"]
        BY <1>6, <2>1 DEF Settle
      <3>2. /\ row'.state = "REJECTED"
            /\ row' \in [state : {"none", "DISCOVERED", "SCORING", "NEGOTIATING", "REJECTED"},
                         price : Nat, urges : Nat, points : {row'.points}]
        BY <1>0, <3>1
      <3> QED BY <2>0, <3>2 DEF ScoringInv
    <2>2. CASE row.points >= 59950 /\ (floor = 0 \/ AtLeast(floor))
      <3>1. row' = [row EXCEPT !.state = "NEGOTIATING"]
        BY <1>6, <2>2 DEF Settle
      <3>2. /\ row'.state = "NEGOTIATING" /\ row'.price = row.price /\ row'.urges = row.urges
            /\ row' \in [state : {"none", "DISCOVERED", "SCORING", "NEGOTIATING", "REJECTED"},
                         price : Nat, urges : Nat, points : {row'.points}]
        BY <1>0, <3>1
      <3>3. Bargain
        BY <2>0, <2>2 DEF ScoringInv
      <3>4. AtLeast(floor)
        <4>1. TwiceMedian \in Nat
          BY <3>3, MedianIsRanked DEF Bargain
        <4>2. row.price \in Nat
          BY <1>0
        <4>3. AtLeast(20) => AtLeast(0)
          BY <4>1, <4>2 DEF AtLeast, Below
        <4> QED BY <2>2, <3>3, <4>3 DEF Bargain
      <3>5. Bargain' /\ AtLeast(floor)'
        BY <1>0, <2>0, <3>2, <3>3, <3>4, BargainStays
      <3> QED BY <2>0, <3>2, <3>5 DEF ScoringInv
    <2> QED BY <2>1, <2>2
  <1> QED BY <1>2, <1>3, <1>4, <1>5, <1>6 DEF ScoringNext


-----------------------------------------------------------------------------
(* The check of hosts *)

FindingRows == [status : {"absent", "open", "resolved"}, seen : Nat, occurrences : Nat]
ScanRows    == [at : {"idle", "host", "local", "reporting"}, began : Nat, hosts : Seq(Hosts),
                expected : SUBSET Hosts, step : Nat, found : SUBSET Broken,
                recurring : SUBSET Broken, alone : BOOLEAN]
ReconTyped ==
  /\ scans \in Nat /\ wrong \subseteq Broken
  /\ targets \in [hosts : Seq(Hosts), expected : SUBSET Hosts]
  /\ findings \in [Broken -> FindingRows] /\ scan \in [Scanners -> ScanRows]

Among(h, q) == \E i \in DOMAIN q : q[i] = h
Known(p) == p[1] = "local" \/ Among(p[1], targets.hosts)

(* What is open is of a place that is enrolled. *)
FindingsHold ==
  \A p \in Broken : findings[p].seen <= scans /\ (findings[p].status = "open" => Known(p))

(* What a scan found is still open, unless another one began later; and while it is alone *)
(* what is open was found, or is of a host it has yet to finish.                          *)
Kept(s, p) ==
  \/ findings[p].status = "open" /\ findings[p].seen >= scan[s].began
  \/ \E o \in Scanners : scan[o].began > scan[s].began
ScanHolds(s) ==
  scan[s].at # "idle" =>
    /\ scan[s].at = "host" => scan[s].hosts # <<>>
    /\ scan[s].at # "host" => scan[s].hosts = <<>>
    /\ \A h : Among(h, scan[s].hosts) => Among(h, targets.hosts)
    /\ \A p \in scan[s].found : Known(p) /\ Kept(s, p)
AloneHolds(s) ==
  scan[s].at # "idle" /\ scan[s].alone =>
    /\ scan[s].began = scans
    /\ \A o \in Scanners \ {s} : scan[o].at = "idle"
    /\ \A p \in Broken : findings[p].status = "open" =>
         p[1] = "local" \/ p \in scan[s].found \/ Among(p[1], scan[s].hosts)
    /\ \A p \in Broken : findings[p].seen >= scan[s].began => p \in scan[s].found

ReconInv ==
  /\ ReconTyped /\ FindingsHold /\ \A s \in Scanners : scan[s].began <= scans
  /\ \A s \in Scanners : ScanHolds(s) /\ AloneHolds(s)

(* The first of the hosts, and the others. *)
LEMMA FirstAndRest ==
  ASSUME NEW q \in Seq(Hosts), q # <<>>
  PROVE  /\ Head(q) \in Hosts /\ Among(Head(q), q)
         /\ Tail(q) \in Seq(Hosts) /\ (Tail(q) = <<>> <=> Len(q) = 1)
         /\ \A h : Among(h, Tail(q)) => Among(h, q)
         /\ \A h : Among(h, q) => h = Head(q) \/ Among(h, Tail(q))
  <1>1. /\ Head(q) \in Hosts /\ Tail(q) \in Seq(Hosts) /\ Len(Tail(q)) = Len(q) - 1
        /\ \A i \in 1..Len(Tail(q)) : Tail(q)[i] = q[i + 1]
    BY HeadTailProperties
  <1>2. Len(q) \in Nat \ {0} /\ DOMAIN q = 1..Len(q) /\ DOMAIN Tail(q) = 1..Len(Tail(q))
        /\ Head(q) = q[1]
    BY <1>1
  <1>3. Tail(q) = <<>> <=> Len(q) = 1
    <2>1. \A t \in Seq(Hosts) : t = <<>> <=> Len(t) = 0
      BY EmptySeq
    <2>2. Len(q) - 1 = 0 <=> Len(q) = 1
      BY <1>2
    <2> QED BY <1>1, <2>1, <2>2
  <1>4. 1 \in DOMAIN q
    BY <1>2
  <1>5. ASSUME NEW i \in DOMAIN Tail(q)
        PROVE  i + 1 \in DOMAIN q /\ Tail(q)[i] = q[i + 1]
    BY <1>1, <1>2
  <1>6. ASSUME NEW i \in DOMAIN q, i # 1
        PROVE  i - 1 \in DOMAIN Tail(q) /\ Tail(q)[i - 1] = q[i]
    <2>1. i - 1 \in 1..Len(Tail(q)) /\ (i - 1) + 1 = i
      BY <1>1, <1>2, <1>6
    <2> QED BY <1>1, <1>2, <2>1
  <1> QED BY <1>1, <1>2, <1>3, <1>4, <1>5, <1>6 DEF Among

(* A step that leaves the hosts, the findings and the clock, and the scans as far as     *)
(* they matter here.                                                                     *)
LEMMA QuietStep ==
  ASSUME ReconInv, NEW s \in Scanners, NEW r \in ScanRows,
         scan' = [scan EXCEPT ![s] = r], UNCHANGED <<targets, wrong, findings, scans>>,
         r.began = scan[s].began,
         \/ r.at = "idle"
         \/ /\ scan[s].at # "idle" /\ (r.at = "host" <=> scan[s].at = "host")
            /\ r.hosts = scan[s].hosts /\ r.found = scan[s].found /\ r.alone = scan[s].alone
  PROVE  ReconInv'
  <1>1. scan' \in [Scanners -> ScanRows] /\ scan'[s] = r
        /\ \A t \in Scanners \ {s} : scan'[t] = scan[t]
    BY DEF ReconInv, ReconTyped
  <1>2. \A t \in Scanners : scan'[t].began = scan[t].began
    BY <1>1
  <1>3. ReconTyped' /\ FindingsHold' /\ \A t \in Scanners : scan'[t].began <= scans'
    BY <1>1, <1>2 DEF ReconInv, ReconTyped, FindingsHold, Known
  <1>4. \A t \in Scanners : \A p : Kept(t, p) => Kept(t, p)'
    BY <1>2 DEF Kept
  <1>5. ASSUME NEW t \in Scanners
        PROVE  ScanHolds(t)' /\ AloneHolds(t)'
    <2>1. /\ scan'[t].began = scan[t].began
          /\ \/ scan'[t].at = "idle"
             \/ /\ scan[t].at # "idle" /\ (scan'[t].at = "host" <=> scan[t].at = "host")
                /\ scan'[t].hosts = scan[t].hosts /\ scan'[t].found = scan[t].found
                /\ scan'[t].alone = scan[t].alone
      BY <1>1, <1>2
    <2>2. ScanHolds(t) /\ AloneHolds(t)
      BY DEF ReconInv
    <2>3. ScanHolds(t)'
      BY <1>4, <2>1, <2>2 DEF ScanHolds, Known
    <2>4. \A o \in Scanners : scan[o].at = "idle" => scan'[o].at = "idle"
      BY <1>1
    <2>5. AloneHolds(t)'
      BY <2>1, <2>2, <2>4 DEF AloneHolds
    <2> QED BY <2>3, <2>5
  <1> QED BY <1>3, <1>5 DEF ReconInv


(* A host that is enrolled, and problems that come and go. *)
LEMMA EnrollKeeps ==
  ASSUME ReconInv, NEW h \in Hosts, NEW expected \in BOOLEAN, Enroll(h, expected)
  PROVE  ReconInv'
  <1>1. targets.hosts \in Seq(Hosts) /\ targets.expected \in SUBSET Hosts
    BY DEF ReconInv, ReconTyped
  <1>2. PICK q, x : /\ targets' = [hosts |-> q, expected |-> x] /\ x \in SUBSET Hosts
                    /\ q = targets.hosts \/ q = Append(targets.hosts, h)
    <2>1. (IF expected THEN targets.expected \union {h} ELSE targets.expected \ {h})
            \in SUBSET Hosts
      BY <1>1
    <2> QED BY <2>1 DEF Enroll
  <1>3. q \in Seq(Hosts) /\ \A g : Among(g, targets.hosts) => Among(g, q)
    <2>1. CASE q = targets.hosts
      BY <1>1, <2>1
    <2>2. CASE q = Append(targets.hosts, h)
      <3>1. /\ q \in Seq(Hosts) /\ Len(q) = Len(targets.hosts) + 1
            /\ \A i \in 1..Len(targets.hosts) : q[i] = targets.hosts[i]
        BY <1>1, <2>2, AppendProperties
      <3>2. \A i \in DOMAIN targets.hosts : i \in DOMAIN q /\ q[i] = targets.hosts[i]
        <4>1. Len(targets.hosts) \in Nat /\ DOMAIN targets.hosts = 1..Len(targets.hosts)
          BY <1>1
        <4>2. DOMAIN q = 1..Len(q)
          BY <3>1
        <4> QED BY <3>1, <4>1, <4>2
      <3> QED BY <3>1, <3>2 DEF Among
    <2> QED BY <1>2, <2>1, <2>2
  <1>4. UNCHANGED <<wrong, findings, scans, scan>>
    BY DEF Enroll
  <1>5. targets' \in [hosts : Seq(Hosts), expected : SUBSET Hosts] /\ targets'.hosts = q
    BY <1>2, <1>3
  <1>6. \A p : Known(p) => Known(p)'
    BY <1>3, <1>5 DEF Known
  <1>7. ReconTyped' /\ FindingsHold' /\ \A s \in Scanners : scan'[s].began <= scans'
    BY <1>4, <1>5, <1>6 DEF ReconInv, ReconTyped, FindingsHold
  <1>8. ASSUME NEW s \in Scanners
        PROVE  ScanHolds(s)' /\ AloneHolds(s)'
    <2>1. ScanHolds(s) /\ AloneHolds(s)
      BY DEF ReconInv
    <2>2. \A p : Kept(s, p) => Kept(s, p)'
      BY <1>4 DEF Kept
    <2>3. ScanHolds(s)'
      BY <1>3, <1>4, <1>5, <1>6, <2>1, <2>2 DEF ScanHolds
    <2>4. AloneHolds(s)'
      BY <1>4, <2>1 DEF AloneHolds
    <2> QED BY <2>3, <2>4
  <1> QED BY <1>7, <1>8 DEF ReconInv

LEMMA ChangeKeeps ==
  ASSUME ReconInv, NEW p \in Broken, Change(p)
  PROVE  ReconInv'
  <1>1. UNCHANGED <<targets, findings, scans, scan>> /\ wrong' \subseteq Broken
    BY DEF Change, ReconInv, ReconTyped
  <1> QED BY <1>1 DEF ReconInv, ReconTyped, FindingsHold, ScanHolds, AloneHolds, Known, Kept

(* A scan that begins is later than all before it, and ends the solitude of the other. *)
LEMMA BeginKeeps ==
  ASSUME ReconInv, NEW s \in Scanners, Begin(s)
  PROVE  ReconInv'
  <1> DEFINE solo == \A o \in Scanners : scan[o].at = "idle"
             r == [Idle EXCEPT !.at = "host", !.began = scans + 1, !.hosts = targets.hosts,
                               !.expected = targets.expected, !.alone = solo]
  <1>0. /\ scans \in Nat /\ scan \in [Scanners -> ScanRows]
        /\ targets.hosts \in Seq(Hosts) /\ targets.expected \in SUBSET Hosts
    BY DEF ReconInv, ReconTyped
  <1>1. /\ scans' = scans + 1 /\ UNCHANGED <<targets, wrong, findings>>
        /\ scan[s].at = "idle" /\ targets.hosts # <<>>
    BY DEF Begin
  <1>2. scan' = [o \in Scanners |->
                  IF o = s THEN r
                  ELSE IF scan[o].at # "idle" THEN [scan[o] EXCEPT !.alone = FALSE] ELSE scan[o]]
    BY <1>1 DEF Begin
  <1>3. /\ r \in ScanRows /\ r.at = "host" /\ r.began = scans + 1 /\ r.hosts = targets.hosts
        /\ r.found = {} /\ r.alone = solo
    <2>1. solo \in BOOLEAN
      OBVIOUS
    <2>2. Idle \in ScanRows /\ Idle.found = {}
      BY <1>0, EmptySeq DEF Idle, ScanRows
    <2> HIDE DEF solo
    <2>3. scans + 1 \in Nat
      BY <1>0
    <2> QED BY <1>0, <2>1, <2>2, <2>3 DEF ScanRows
  <1> HIDE DEF r
  <1>4. scan'[s] = r
    BY <1>2
  <1>5. ASSUME NEW o \in Scanners \ {s}
        PROVE  /\ scan'[o] \in ScanRows /\ scan'[o].at = scan[o].at
               /\ scan'[o].began = scan[o].began
               /\ scan'[o].hosts = scan[o].hosts /\ scan'[o].found = scan[o].found
               /\ scan'[o].at # "idle" => scan'[o].alone = FALSE
    <2>1. scan[o] \in ScanRows
      BY <1>0
    <2>2. CASE scan[o].at = "idle"
      BY <1>2, <2>1, <2>2
    <2>3. CASE scan[o].at # "idle"
      <3>1. scan'[o] = [scan[o] EXCEPT !.alone = FALSE]
        BY <1>2, <2>3
      <3> QED BY <2>1, <3>1 DEF ScanRows
    <2> QED BY <2>2, <2>3
  <1>6. scan' \in [Scanners -> ScanRows]
    <2>1. \A o \in Scanners : scan'[o] \in ScanRows
      BY <1>3, <1>4, <1>5
    <2>2. DOMAIN scan' = Scanners /\ scan' = [o \in DOMAIN scan' |-> scan'[o]]
      BY <1>2
    <2> QED BY <2>1, <2>2
  <1>7. \A o \in Scanners : scan[o].began \in Nat /\ scan[o].began <= scans
    BY <1>0 DEF ReconInv, ScanRows
  <1>8. \A o \in Scanners : scan'[o].began >= scan[o].began /\ scan'[o].began <= scans'
    <2>1. ASSUME NEW o \in Scanners
          PROVE  scan'[o].began >= scan[o].began /\ scan'[o].began <= scans'
      <3>1. scan'[o].began = scan[o].began \/ scan'[o].began = scans + 1
        BY <1>3, <1>4, <1>5
      <3>2. scan[o].began \in Nat /\ scan[o].began <= scans
        BY <1>7
      <3> QED BY <1>0, <1>1, <3>1, <3>2
    <2> QED BY <2>1
  <1>9. ReconTyped' /\ FindingsHold'
    <2>1. \A p \in Broken : findings[p].seen \in Nat
      BY DEF ReconInv, ReconTyped, FindingRows
    <2>2. \A p \in Broken : findings[p].seen <= scans'
      BY <1>0, <1>1, <2>1 DEF ReconInv, FindingsHold
    <2> QED BY <1>0, <1>1, <1>6, <2>2 DEF ReconInv, ReconTyped, FindingsHold, Known
  <1>10. ScanHolds(s)' /\ AloneHolds(s)'
    <2>1. ScanHolds(s)'
      BY <1>1, <1>3, <1>4 DEF ScanHolds
    <2>2. ASSUME scan'[s].alone
          PROVE  \A o \in Scanners \ {s} : scan'[o].at = "idle"
      BY <1>3, <1>4, <1>5, <2>2
    <2>3. ASSUME NEW p \in Broken
          PROVE  /\ findings[p].status = "open" => p[1] = "local" \/ Among(p[1], targets.hosts)
                 /\ ~(findings[p].seen >= scans + 1)
      <3>1. findings[p].seen \in Nat /\ findings[p].seen <= scans
        BY DEF ReconInv, ReconTyped, FindingRows, FindingsHold
      <3> QED BY <1>0, <3>1 DEF ReconInv, FindingsHold, Known
    <2>4. AloneHolds(s)'
      BY <1>1, <1>3, <1>4, <2>2, <2>3 DEF AloneHolds
    <2> QED BY <2>1, <2>4
  <1>11. ASSUME NEW o \in Scanners \ {s}
         PROVE  ScanHolds(o)' /\ AloneHolds(o)'
    <2>1. ScanHolds(o)
      BY DEF ReconInv
    <2>2. AloneHolds(o)'
      BY <1>5 DEF AloneHolds
    <2>3. \A p : Kept(o, p) => Kept(o, p)'
      <3>1. scan'[s].began > scan'[o].began
        <4>1. scan'[s].began = scans + 1 /\ scan'[o].began = scan[o].began
          BY <1>3, <1>4, <1>5
        <4>2. scan[o].began \in Nat /\ scan[o].began <= scans
          BY <1>7
        <4> QED BY <1>0, <4>1, <4>2
      <3> QED BY <3>1 DEF Kept
    <2>4. ScanHolds(o)'
      BY <1>1, <1>5, <2>1, <2>3 DEF ScanHolds, Known
    <2> QED BY <2>2, <2>4
  <1> QED BY <1>8, <1>9, <1>10, <1>11 DEF ReconInv


(* A problem that is seen is open, found, and seen now. *)
LEMMA SeenKeeps ==
  ASSUME ReconInv, NEW s \in Scanners, Looking(s), Seen(s), RecordFinding(Problem(s)),
         scan' = [scan EXCEPT ![s] = [scan[s] EXCEPT !.step = @ + 1,
                                                     !.found = @ \union {Problem(s)}]],
         UNCHANGED <<targets, wrong, scans>>
  PROVE  ReconInv'
  <1>0. /\ scans \in Nat /\ findings \in [Broken -> FindingRows] /\ scan \in [Scanners -> ScanRows]
        /\ scan[s] \in ScanRows /\ scan[s].step \in Nat /\ scan[s].at \in {"host", "local"}
    BY DEF ReconInv, ReconTyped, ScanRows, Looking
  <1>1. PICK p \in Broken : p = Problem(s)
    BY DEF Seen, ReconInv, ReconTyped
  <1>2. Known(p)
    <2>1. p[1] = Place(s)
      BY <1>1 DEF Problem
    <2>2. CASE scan[s].at = "host"
      <3>1. scan[s].hosts \in Seq(Hosts) /\ scan[s].hosts # <<>>
        BY <1>0, <2>2 DEF ScanRows, ReconInv, ScanHolds
      <3>2. Among(p[1], scan[s].hosts)
        BY <2>1, <2>2, <3>1, FirstAndRest DEF Place
      <3> QED BY <2>2, <3>2 DEF ReconInv, ScanHolds, Known
    <2>3. CASE scan[s].at = "local"
      BY <2>1, <2>3 DEF Place, Known
    <2> QED BY <1>0, <2>2, <2>3
  <1> DEFINE r == [scan[s] EXCEPT !.step = @ + 1, !.found = @ \union {p}]
             n == IF findings[p].occurrences < EscalateAfter
                  THEN findings[p].occurrences + 1 ELSE findings[p].occurrences
             f == [status |-> "open", seen |-> scans, occurrences |-> n]
  <1>3. /\ r \in ScanRows /\ r.at = scan[s].at /\ r.began = scan[s].began
        /\ r.hosts = scan[s].hosts /\ r.found = scan[s].found \cup {p} /\ r.alone = scan[s].alone
    <2>1. scan[s].found \cup {p} \in SUBSET Broken /\ scan[s].step + 1 \in Nat
      BY <1>0 DEF ScanRows
    <2> QED BY <1>0, <2>1 DEF ScanRows
  <1>4. f \in FindingRows /\ f.status = "open" /\ f.seen = scans
    <2>1. findings[p].occurrences \in Nat
      BY <1>0 DEF FindingRows
    <2>2. n \in Nat
      BY <2>1
    <2> HIDE DEF n
    <2> QED BY <1>0, <2>2 DEF FindingRows
  <1>5. scan' = [scan EXCEPT ![s] = r] /\ findings' = [findings EXCEPT ![p] = f]
    BY <1>1 DEF RecordFinding
  <1> HIDE DEF r, f
  <1>6. /\ scan' \in [Scanners -> ScanRows] /\ scan'[s] = r
        /\ \A t \in Scanners \ {s} : scan'[t] = scan[t]
        /\ findings' \in [Broken -> FindingRows] /\ findings'[p] = f
        /\ \A q \in Broken \ {p} : findings'[q] = findings[q]
    BY <1>0, <1>3, <1>4, <1>5
  <1>7. \A t \in Scanners : /\ scan'[t].began = scan[t].began
                            /\ scan[t].began \in Nat /\ scan[t].began <= scans
    BY <1>0, <1>3, <1>6 DEF ReconInv, ScanRows
  <1>8. ReconTyped' /\ FindingsHold' /\ \A t \in Scanners : scan'[t].began <= scans'
    <2>1. ReconTyped'
      BY <1>6 DEF ReconInv, ReconTyped
    <2>2. FindingsHold'
      BY <1>0, <1>2, <1>4, <1>6 DEF ReconInv, FindingsHold, Known
    <2> QED BY <1>7, <2>1, <2>2
  <1>9. \A t \in Scanners : \A q \in Broken : Kept(t, q) => Kept(t, q)'
    <2> SUFFICES ASSUME NEW t \in Scanners, NEW q \in Broken, Kept(t, q) PROVE Kept(t, q)'
      OBVIOUS
    <2>1. CASE q = p
      BY <1>4, <1>6, <1>7, <2>1 DEF Kept
    <2>2. CASE q # p
      BY <1>6, <1>7, <2>2 DEF Kept
    <2> QED BY <2>1, <2>2
  <1>10. ScanHolds(s)' /\ AloneHolds(s)'
    <2>1. ScanHolds(s) /\ AloneHolds(s) /\ scan[s].at # "idle"
      BY <1>0 DEF ReconInv
    <2>2. Kept(s, p)'
      BY <1>4, <1>6, <1>7 DEF Kept
    <2>3. \A q \in scan[s].found : q \in Broken
      BY <1>0 DEF ScanRows
    <2>4. ScanHolds(s)'
      BY <1>2, <1>3, <1>6, <1>9, <2>1, <2>2, <2>3 DEF ScanHolds, Known
    <2>5. ASSUME scan[s].alone, NEW q \in Broken
          PROVE  /\ findings'[q].status = "open" =>
                      q[1] = "local" \/ q \in r.found \/ Among(q[1], r.hosts)
                 /\ findings'[q].seen >= r.began => q \in r.found
      <3>1. CASE q = p
        BY <1>3, <3>1
      <3>2. CASE q # p
        <4>1. findings'[q] = findings[q]
          BY <1>6, <3>2
        <4> QED BY <1>3, <2>1, <2>5, <4>1 DEF AloneHolds
      <3> QED BY <3>1, <3>2
    <2>6. scan[s].alone => /\ r.began = scans'
                           /\ \A o \in Scanners \ {s} : scan'[o].at = "idle"
      BY <1>3, <1>6, <2>1 DEF AloneHolds
    <2>7. AloneHolds(s)'
      BY <1>3, <1>6, <2>5, <2>6 DEF AloneHolds
    <2> QED BY <2>4, <2>7
  <1>11. ASSUME NEW t \in Scanners \ {s}
         PROVE  ScanHolds(t)' /\ AloneHolds(t)'
    <2>1. ScanHolds(t) /\ AloneHolds(t)
      BY DEF ReconInv
    <2>2. \A q \in scan[t].found : q \in Broken
      BY <1>0 DEF ScanRows
    <2>3. ScanHolds(t)'
      BY <1>6, <1>9, <2>1, <2>2 DEF ScanHolds, Known
    <2>4. AloneHolds(t)'
      BY <1>0, <1>6, <2>1 DEF AloneHolds
    <2> QED BY <2>3, <2>4
  <1> QED BY <1>8, <1>10, <1>11 DEF ReconInv

(* A host that is finished: what is open of it was seen by this scan, or by a later one. *)
LEMMA HostDoneKeeps ==
  ASSUME ReconInv, NEW s \in Scanners, HostDone(s)
  PROVE  ReconInv'
  <1>0. /\ scans \in Nat /\ findings \in [Broken -> FindingRows] /\ scan \in [Scanners -> ScanRows]
        /\ scan[s] \in ScanRows /\ scan[s].at = "host" /\ scan[s].hosts \in Seq(Hosts)
        /\ scan[s].hosts # <<>> /\ UNCHANGED <<targets, wrong, scans>>
    BY DEF ReconInv, ReconTyped, ScanRows, HostDone, ScanHolds
  <1> DEFINE h == Head(scan[s].hosts)
             a == IF Len(scan[s].hosts) = 1 THEN "local" ELSE "host"
             r == [scan[s] EXCEPT !.step = 1, !.hosts = Tail(@), !.at = a]
  <1>1. /\ Tail(scan[s].hosts) \in Seq(Hosts)
        /\ Tail(scan[s].hosts) = <<>> <=> Len(scan[s].hosts) = 1
        /\ \A g : Among(g, Tail(scan[s].hosts)) => Among(g, scan[s].hosts)
        /\ \A g : Among(g, scan[s].hosts) => g = h \/ Among(g, Tail(scan[s].hosts))
    BY <1>0, FirstAndRest
  <1>2. /\ r \in ScanRows /\ r.at = a /\ r.began = scan[s].began
        /\ r.hosts = Tail(scan[s].hosts) /\ r.found = scan[s].found /\ r.alone = scan[s].alone
    BY <1>0, <1>1 DEF ScanRows
  <1>3. scan' = [scan EXCEPT ![s] = r]
    BY DEF HostDone
  <1>4. a = "host" => r.hosts # <<>>
    BY <1>1, <1>2
  <1>5. a # "host" => r.hosts = <<>>
    BY <1>1, <1>2
  <1>6. a \in {"host", "local"}
    OBVIOUS
  <1>7. findings' = [p \in Broken |->
          IF p[1] = h /\ findings[p].status = "open" /\ findings[p].seen < scan[s].began
          THEN [findings[p] EXCEPT !.status = "resolved"] ELSE findings[p]]
    BY <1>0 DEF HostDone, ResolveUnseen, Place
  <1> HIDE DEF h, a, r
  <1>8. /\ scan' \in [Scanners -> ScanRows] /\ scan'[s] = r
        /\ \A t \in Scanners \ {s} : scan'[t] = scan[t]
    BY <1>0, <1>2, <1>3
  <1>9. \A t \in Scanners : /\ scan'[t].began = scan[t].began
                            /\ scan[t].began \in Nat /\ scan[t].began <= scans
    BY <1>0, <1>2, <1>8 DEF ReconInv, ScanRows
  <1>10. ASSUME NEW p \in Broken
         PROVE  /\ findings'[p] \in FindingRows /\ findings'[p].seen = findings[p].seen
                /\ \/ findings'[p] = findings[p]
                   \/ findings[p].seen < scan[s].began
                /\ findings'[p].status = "open" =>
                     /\ findings[p].status = "open"
                     /\ p[1] # h \/ ~(findings[p].seen < scan[s].began)
    <2>0. findings[p] \in FindingRows
      BY <1>0
    <2>1. CASE p[1] = h /\ findings[p].status = "open" /\ findings[p].seen < scan[s].began
      <3>1. findings'[p] = [findings[p] EXCEPT !.status = "resolved"]
        BY <1>7, <2>1
      <3> QED BY <2>0, <2>1, <3>1 DEF FindingRows
    <2>2. CASE ~(p[1] = h /\ findings[p].status = "open" /\ findings[p].seen < scan[s].began)
      <3>1. findings'[p] = findings[p]
        BY <1>7, <2>2
      <3> QED BY <2>0, <2>2, <3>1
    <2> QED BY <2>1, <2>2
  <1>11. findings' \in [Broken -> FindingRows]
    <2>1. DOMAIN findings' = Broken /\ findings' = [p \in DOMAIN findings' |-> findings'[p]]
      BY <1>7
    <2> QED BY <1>10, <2>1
  <1>12. ReconTyped' /\ FindingsHold' /\ \A t \in Scanners : scan'[t].began <= scans'
    <2>1. ReconTyped'
      BY <1>0, <1>8, <1>11 DEF ReconInv, ReconTyped
    <2>2. FindingsHold'
      BY <1>0, <1>10 DEF ReconInv, FindingsHold, Known
    <2> QED BY <1>0, <1>9, <2>1, <2>2
  <1>13. \A t \in Scanners : \A p \in Broken : Kept(t, p) => Kept(t, p)'
    <2> SUFFICES ASSUME NEW t \in Scanners, NEW p \in Broken, Kept(t, p) PROVE Kept(t, p)'
      OBVIOUS
    <2>1. CASE findings'[p] = findings[p]
      BY <1>9, <2>1 DEF Kept
    <2>2. CASE findings[p].seen < scan[s].began
      <3>1. findings[p].seen \in Nat
        BY <1>0 DEF FindingRows
      <3>2. \/ \E o \in Scanners : scan[o].began > scan[t].began
            \/ findings[p].seen >= scan[t].began
        BY DEF Kept
      <3>3. CASE findings[p].seen >= scan[t].began
        <4>1. scan[s].began > scan[t].began
          BY <1>9, <2>2, <3>1, <3>3
        <4> QED BY <1>9, <4>1 DEF Kept
      <3> QED BY <1>9, <3>2, <3>3 DEF Kept
    <2> QED BY <1>10, <2>1, <2>2
  <1>14. ScanHolds(s)' /\ AloneHolds(s)'
    <2>1. ScanHolds(s) /\ AloneHolds(s) /\ scan[s].at # "idle"
      BY <1>0 DEF ReconInv
    <2>2. \A p \in scan[s].found : p \in Broken
      BY <1>0 DEF ScanRows
    <2>3. ScanHolds(s)'
      BY <1>0, <1>1, <1>2, <1>4, <1>5, <1>8, <1>13, <2>1, <2>2 DEF ScanHolds, Known
    <2>4. ASSUME scan[s].alone, NEW p \in Broken, findings'[p].status = "open"
          PROVE  p[1] = "local" \/ p \in r.found \/ Among(p[1], r.hosts)
      <3>1. /\ findings[p].status = "open" /\ findings[p].seen \in Nat
            /\ p[1] # h \/ ~(findings[p].seen < scan[s].began)
        BY <1>0, <1>10, <2>4 DEF FindingRows
      <3>2. CASE p[1] # h
        BY <1>1, <1>2, <2>1, <2>4, <3>1, <3>2 DEF AloneHolds
      <3>3. CASE ~(findings[p].seen < scan[s].began)
        <4>1. findings[p].seen >= scan[s].began
          BY <1>9, <3>1, <3>3
        <4> QED BY <1>2, <2>1, <2>4, <4>1 DEF AloneHolds
      <3> QED BY <3>1, <3>2, <3>3
    <2>5. AloneHolds(s)'
      BY <1>0, <1>2, <1>8, <1>10, <2>1, <2>4 DEF AloneHolds
    <2> QED BY <2>3, <2>5
  <1>15. ASSUME NEW t \in Scanners \ {s}
         PROVE  ScanHolds(t)' /\ AloneHolds(t)'
    <2>1. ScanHolds(t) /\ AloneHolds(t)
      BY DEF ReconInv
    <2>2. \A p \in scan[t].found : p \in Broken
      BY <1>0 DEF ScanRows
    <2>3. ScanHolds(t)'
      BY <1>0, <1>8, <1>13, <2>1, <2>2 DEF ScanHolds, Known
    <2>4. AloneHolds(t)'
      BY <1>0, <1>8, <2>1 DEF AloneHolds
    <2> QED BY <2>3, <2>4
  <1> QED BY <1>12, <1>14, <1>15 DEF ReconInv

LEMMA ReconKeeps ==
  ASSUME ReconInv, ReconNext
  PROVE  ReconInv'
  <1>0. scan \in [Scanners -> ScanRows]
    BY DEF ReconInv, ReconTyped
  <1>1. ASSUME NEW s \in Scanners, Looking(s), UNCHANGED <<targets, wrong, findings, scans>>,
               scan' = [scan EXCEPT ![s] = [scan[s] EXCEPT !.step = @ + 1]]
        PROVE  ReconInv'
    <2> DEFINE r == [scan[s] EXCEPT !.step = @ + 1]
    <2>1. scan[s] \in ScanRows /\ scan[s].at # "idle"
      BY <1>0, <1>1 DEF Looking
    <2>2. /\ r \in ScanRows /\ r.at = scan[s].at /\ r.began = scan[s].began
          /\ r.hosts = scan[s].hosts /\ r.found = scan[s].found /\ r.alone = scan[s].alone
      BY <2>1 DEF ScanRows
    <2>3. scan' = [scan EXCEPT ![s] = r]
      BY <1>1
    <2> HIDE DEF r
    <2> QED BY ZenonT(30), <1>1, <2>1, <2>2, <2>3, QuietStep
  <1>2. ASSUME NEW s \in Scanners, scan' = [scan EXCEPT ![s] = Ended(s)],
               UNCHANGED <<targets, wrong, findings, scans>>
        PROVE  ReconInv'
    <2>1. scan[s].began \in Nat
      BY <1>0 DEF ScanRows
    <2>2. Ended(s) \in ScanRows /\ Ended(s).began = scan[s].began /\ Ended(s).at = "idle"
      BY <2>1, EmptySeq DEF Ended, Idle, ScanRows
    <2> QED BY <1>2, <2>2, QuietStep
  <1>3. ASSUME NEW s \in Scanners, Look(s)
        PROVE  ReconInv'
    <2>1. CASE Seen(s)
      BY <1>3, <2>1, SeenKeeps DEF Look
    <2>2. CASE ~Seen(s)
      BY <1>1, <1>3, <2>2 DEF Look
    <2> QED BY <2>1, <2>2
  <1>4. ASSUME NEW s \in Scanners, LookFails(s)
        PROVE  ReconInv'
    BY <1>1, <1>4 DEF LookFails
  <1>5. ASSUME NEW s \in Scanners, SchemeFails(s) \/ Reported(s)
        PROVE  ReconInv'
    BY <1>2, <1>5 DEF SchemeFails, Reported
  <1>6. ASSUME NEW s \in Scanners, Report(s)
        PROVE  ReconInv'
    <2> DEFINE r == [scan[s] EXCEPT !.at = "reporting", !.recurring = Recurring]
    <2>1. scan[s] \in ScanRows /\ scan[s].at = "local" /\ Recurring \in SUBSET Broken
      BY <1>0, <1>6 DEF Report, Recurring, Open
    <2>2. /\ r \in ScanRows /\ r.at = "reporting" /\ r.began = scan[s].began
          /\ r.hosts = scan[s].hosts /\ r.found = scan[s].found /\ r.alone = scan[s].alone
      BY <2>1 DEF ScanRows
    <2>3. scan' = [scan EXCEPT ![s] = r] /\ UNCHANGED <<targets, wrong, findings, scans>>
      BY <1>6 DEF Report
    <2> HIDE DEF r
    <2> QED BY <2>1, <2>2, <2>3, QuietStep
  <1> QED BY <1>3, <1>4, <1>5, <1>6, EnrollKeeps, ChangeKeeps, BeginKeeps, HostDoneKeeps
          DEF ReconNext

LEMMA ReportFollows ==
  ASSUME ReconInv
  PROVE  ReportIsTheScan
  <1> SUFFICES ASSUME NEW s \in Scanners, scan[s].at \in {"local", "reporting"}
               PROVE  LET found  == {p \in scan[s].found : p[1] \in Hosts}
                          open   == {p \in Open : \E i \in DOMAIN targets.hosts :
                                                    targets.hosts[i] = p[1]}
                      IN IF scan[s].alone THEN found \subseteq open /\ \A p \in open : p \in found
                         ELSE found \subseteq open
                              \/ \E o \in Scanners \ {s} : scan[o].began > scan[s].began
    BY DEF ReportIsTheScan
  <1> DEFINE found == {p \in scan[s].found : p[1] \in Hosts}
             open == {p \in Open : \E i \in DOMAIN targets.hosts : targets.hosts[i] = p[1]}
  <1>0. /\ \A o \in Scanners : scan[o] \in ScanRows /\ scan[o].began \in Nat /\ scan[o].began <= scans
        /\ scans \in Nat /\ targets.hosts \in Seq(Hosts) /\ ScanHolds(s) /\ AloneHolds(s)
    BY DEF ReconInv, ReconTyped, ScanRows
  <1>1. ASSUME ~\E o \in Scanners \ {s} : scan[o].began > scan[s].began
        PROVE  found \subseteq open
    <2> SUFFICES ASSUME NEW p \in found PROVE p \in open
      OBVIOUS
    <2>1. p \in Broken /\ p \in scan[s].found /\ Known(p) /\ Kept(s, p) /\ p[1] # "local"
      BY <1>0, ReconAssumption DEF ScanRows, ScanHolds, ReconAssumption
    <2>2. ~(scan[s].began > scan[s].began)
      BY <1>0
    <2>3. findings[p].status = "open"
      BY <1>1, <2>1, <2>2 DEF Kept
    <2> QED BY <2>1, <2>3 DEF Open, Known, Among
  <1>2. CASE scan[s].alone
    <2>1. ~\E o \in Scanners \ {s} : scan[o].began > scan[s].began
      <3>1. scan[s].began = scans
        BY <1>0, <1>2 DEF AloneHolds
      <3>2. ASSUME NEW o \in Scanners
            PROVE  ~(scan[o].began > scans)
        BY <1>0
      <3> QED BY <3>1, <3>2
    <2>2. ASSUME NEW p \in open
          PROVE  p \in found
      <3>1. p \in Broken /\ findings[p].status = "open" /\ p[1] \in Hosts
        <4>1. PICK i \in DOMAIN targets.hosts : targets.hosts[i] = p[1]
          OBVIOUS
        <4>2. targets.hosts[i] \in Hosts
          BY <1>0
        <4> QED BY <4>1, <4>2 DEF Open
      <3>2. p[1] # "local"
        BY <3>1, ReconAssumption DEF ReconAssumption
      <3>3. ~Among(p[1], scan[s].hosts)
        BY <1>0 DEF ScanHolds, Among
      <3> QED BY <1>0, <1>2, <3>1, <3>2, <3>3 DEF AloneHolds
    <2> QED BY <1>1, <1>2, <2>1, <2>2
  <1>3. CASE ~scan[s].alone
    BY <1>1, <1>3
  <1> QED BY <1>2, <1>3


-----------------------------------------------------------------------------
(* Study: intervals *)

(* Python's round, of hundredths and of tenths: the nearest, never further up for less. *)
LEMMA RoundIs ==
  ASSUME NEW d \in {10, 100}, NEW n \in Nat
  PROVE  /\ Round(n, d) \in Nat
         /\ 2 * n - d <= 2 * (d * Round(n, d)) /\ 2 * (d * Round(n, d)) <= 2 * n + d
         /\ \A m \in Nat : n <= m => Round(n, d) <= Round(m, d)
  <1>1. ASSUME NEW k \in Nat
        PROVE  /\ k \div d \in Nat /\ k % d \in 0 .. d - 1 /\ k % d = k - d * (k \div d)
               /\ Round(k, d) \in Nat
               /\ \/ Round(k, d) = k \div d /\ 2 * (k % d) <= d
                  \/ Round(k, d) = k \div d + 1 /\ 2 * (k % d) >= d
    <2>1. k \div 10 \in Nat /\ k % 10 \in 0 .. 9 /\ k % 10 = k - 10 * (k \div 10)
      OBVIOUS
    <2>2. k \div 100 \in Nat /\ k % 100 \in 0 .. 99 /\ k % 100 = k - 100 * (k \div 100)
      OBVIOUS
    <2>3. k \div d \in Nat /\ k % d \in 0 .. d - 1 /\ k % d = k - d * (k \div d)
      BY <2>1, <2>2
    <2> DEFINE q == k \div d
               r == k % d
    <2>4. Round(k, d) = IF 2 * r < d \/ (2 * r = d /\ q % 2 = 0) THEN q ELSE q + 1
      BY Zenon DEF Round
    <2>5. q \in Nat /\ r \in Nat
      BY <2>3
    <2> HIDE DEF q, r
    <2>6. \/ Round(k, d) = q /\ 2 * r <= d
          \/ Round(k, d) = q + 1 /\ 2 * r >= d
      BY <2>4, <2>5
    <2>7. Round(k, d) \in Nat
      BY <2>5, <2>6
    <2> QED BY <2>3, <2>6, <2>7 DEF q, r
  <1>2. ASSUME NEW m \in Nat, n <= m
        PROVE  Round(n, d) <= Round(m, d)
    <2> DEFINE q == n \div d
               r == n % d
               u == m \div d
               v == m % d
    <2>1. /\ q \in Nat /\ r \in 0 .. d - 1 /\ r = n - d * q
          /\ u \in Nat /\ v \in 0 .. d - 1 /\ v = m - d * u
      BY <1>1
    <2>2. /\ Round(n, d) = IF 2 * r < d \/ (2 * r = d /\ q % 2 = 0) THEN q ELSE q + 1
          /\ Round(m, d) = IF 2 * v < d \/ (2 * v = d /\ u % 2 = 0) THEN u ELSE u + 1
      BY Zenon DEF Round
    <2> HIDE DEF q, r, u, v
    <2>3. q < u \/ (q = u /\ r <= v)
      <3>1. CASE d = 10
        BY <1>2, <2>1, <3>1
      <3>2. CASE d = 100
        BY <1>2, <2>1, <3>2
      <3> QED BY <3>1, <3>2
    <2>4. CASE q < u
      <3>1. Round(n, d) <= q + 1 /\ u <= Round(m, d)
        BY <2>1, <2>2
      <3> QED BY <2>1, <2>2, <2>4, <3>1
    <2>5. CASE q = u /\ r <= v
      BY <2>1, <2>2, <2>5
    <2> QED BY <2>3, <2>4, <2>5
  <1>3. 2 * n - d <= 2 * (d * Round(n, d)) /\ 2 * (d * Round(n, d)) <= 2 * n + d
    <2> DEFINE q == n \div d
               r == n % d
               R == Round(n, d)
    <2>1. /\ q \in Nat /\ r \in 0 .. d - 1 /\ r = n - d * q
          /\ (R = q /\ 2 * r <= d) \/ (R = q + 1 /\ 2 * r >= d)
      BY <1>1
    <2> HIDE DEF q, r, R
    <2>2. 2 * n - d <= 2 * (d * R) /\ 2 * (d * R) <= 2 * n + d
      <3>1. CASE d = 10
        BY <2>1, <3>1
      <3>2. CASE d = 100
        BY <2>1, <3>2
      <3> QED BY <3>1, <3>2
    <2> QED BY <2>2 DEF R
  <1> QED BY <1>1, <1>2, <1>3

(* A product of natural numbers grows with either of them. *)
LEMMA NonLinear ==
  ASSUME NEW a \in Nat, NEW b \in Nat, NEW x \in Nat, NEW y \in Nat, a <= b, x <= y
  PROVE  a * x \in Nat /\ b * y \in Nat /\ a * x <= b * y
  <1>1. b * y - a * x = (b - a) * y + a * (y - x)
    OBVIOUS
  <1>2. (b - a) * y \in Nat /\ a * (y - x) \in Nat /\ a * x \in Nat /\ b * y \in Nat
    OBVIOUS
  <1> QED BY <1>1, <1>2

Card == [status : {"absent", "candidate", "active", "suspended"}, due : BOOLEAN,
         ease : {e \in Nat : e >= 130}, days : Nat, lapsed : BOOLEAN]

(* What schedule gives a card for each grade, and that it is a card again. *)
LEMMA ScheduleIs ==
  ASSUME NEW card \in Card, NEW grade \in Grades
  PROVE  LET ease == Floored(IF grade = "again" THEN card.ease - 20
                             ELSE card.ease + Gain[grade], 130)
             next == IF grade = "again" \/ card.days = 0 THEN 1
                     ELSE IF card.days = 1 THEN 6 ELSE Round(card.days * ease, 100)
         IN /\ Schedule(card, grade) \in Card
            /\ Schedule(card, grade).ease = ease
            /\ ease >= 130 /\ ease \in Nat /\ next \in Nat /\ next >= 1
            /\ grade = "hard" => Schedule(card, grade).days = Floored(Round(next * 8, 10), 1)
            /\ grade # "hard" => Schedule(card, grade).days = next
  <1> DEFINE ease == Floored(IF grade = "again" THEN card.ease - 20
                             ELSE card.ease + Gain[grade], 130)
             next == IF grade = "again" \/ card.days = 0 THEN 1
                     ELSE IF card.days = 1 THEN 6 ELSE Round(card.days * ease, 100)
             days == IF grade = "hard" THEN Floored(Round(next * 8, 10), 1) ELSE next
  <1>0. card.ease \in Nat /\ card.ease >= 130 /\ card.days \in Nat /\ card.lapsed \in BOOLEAN
    BY DEF Card
  <1>1. ease \in Nat /\ ease >= 130
    BY <1>0 DEF Floored, Gain, Grades
  <1>2. Schedule(card, grade) =
          [card EXCEPT !.ease = ease, !.days = days, !.lapsed = @ \/ grade = "again"]
    BY Zenon DEF Schedule
  <1> HIDE DEF ease
  <1>3. next \in Nat /\ next >= 1
    <2>1. CASE card.days \in {0, 1} \/ grade = "again"
      BY <2>1
    <2>2. CASE card.days >= 2 /\ grade # "again"
      <3>1. card.days * ease \in Nat /\ card.days * ease >= 2 * 130
        BY <1>0, <1>1, <2>2, NonLinear
      <3>2. Round(card.days * ease, 100) \in Nat /\ Round(card.days * ease, 100) >= 1
        <4> DEFINE x == card.days * ease
        <4>1. x \in Nat /\ x >= 260
          BY <3>1
        <4> HIDE DEF x
        <4>2. Round(x, 100) \in Nat /\ 2 * x - 100 <= 2 * (100 * Round(x, 100))
          BY <4>1, RoundIs
        <4>3. Round(x, 100) >= 1
          BY <4>1, <4>2
        <4> QED BY <4>2, <4>3 DEF x
      <3> QED BY <2>2, <3>2
    <2> QED BY <1>0, <2>1, <2>2
  <1> HIDE DEF next
  <1>4. days \in Nat
    BY <1>3, RoundIs DEF Floored
  <1> HIDE DEF days
  <1>5. Schedule(card, grade) \in Card
    BY <1>0, <1>1, <1>2, <1>4 DEF Card
  <1>6. Schedule(card, grade).ease = ease /\ Schedule(card, grade).days = days
    BY <1>2 DEF Card
  <1> QED BY <1>1, <1>3, <1>5, <1>6 DEF days, next, ease

(* A card answered better is never asked earlier, and one that was known is asked later than *)
(* it was the last time.                                                                     *)
BetterIsLaterFor(card) ==
  LET after == [g \in Grades |-> Schedule(card, g).days]
  IN /\ after["again"] <= after["hard"] /\ after["hard"] <= after["good"]
     /\ after["good"] <= after["easy"] /\ after["good"] > card.days

LEMMA BetterIsLaterAlways ==
  ASSUME NEW card \in Card
  PROVE  BetterIsLaterFor(card)
  <1> DEFINE ease(g) == Floored(IF g = "again" THEN card.ease - 20 ELSE card.ease + Gain[g], 130)
             next(g) == IF g = "again" \/ card.days = 0 THEN 1
                        ELSE IF card.days = 1 THEN 6 ELSE Round(card.days * ease(g), 100)
             days(g) == Schedule(card, g).days
             D == card.days
  <1>0. card.ease \in Nat /\ card.ease >= 130 /\ D \in Nat
    BY DEF Card
  <1>1. \A g \in Grades :
          /\ ease(g) \in Nat /\ ease(g) >= 130 /\ next(g) \in Nat /\ next(g) >= 1
          /\ g = "hard" => days(g) = Floored(Round(next(g) * 8, 10), 1)
          /\ g # "hard" => days(g) = next(g)
    <2> TAKE g \in Grades
    <2> QED BY ScheduleIs
  <1>2. "again" \in Grades /\ "hard" \in Grades /\ "good" \in Grades /\ "easy" \in Grades
    BY DEF Grades
  <1>3. ease("hard") <= ease("good") /\ ease("good") <= ease("easy")
    BY <1>0 DEF Floored, Gain
  <1>4. next("again") = 1
    OBVIOUS
  <1> HIDE DEF ease
  <1>5. ASSUME NEW a \in Grades, NEW b \in Grades, a # "again", b # "again", ease(a) <= ease(b)
        PROVE  next(a) <= next(b)
    <2>1. CASE D \in {0, 1}
      BY <1>5, <2>1
    <2>2. CASE D >= 2
      <3> DEFINE x == D * ease(a)
                 y == D * ease(b)
      <3>1. x \in Nat /\ y \in Nat /\ x <= y
        BY <1>0, <1>1, <1>5, NonLinear
      <3>2. next(a) = Round(x, 100) /\ next(b) = Round(y, 100)
        BY <1>5, <2>2
      <3> HIDE DEF x, y, next
      <3> QED BY <3>1, <3>2, RoundIs
    <2> QED BY <1>0, <2>1, <2>2
  <1>6. next("good") > D
    <2>1. CASE D \in {0, 1}
      BY <2>1
    <2>2. CASE D >= 2
      <3> DEFINE x == D * ease("good")
      <3>1. x \in Nat /\ D * 130 <= x
        BY <1>0, <1>1, <1>2, NonLinear
      <3>2. next("good") = Round(x, 100)
        BY <2>2
      <3> HIDE DEF x, next
      <3>3. Round(x, 100) \in Nat /\ 2 * x - 100 <= 2 * (100 * Round(x, 100))
        BY <3>1, RoundIs
      <3> QED BY <1>0, <2>2, <3>1, <3>2, <3>3
    <2> QED BY <1>0, <2>1, <2>2
  <1> HIDE DEF next
  <1>7. days("hard") \in Nat /\ days("hard") >= 1 /\ days("hard") <= next("hard")
    <2> DEFINE n == next("hard")
               R == Round(n * 8, 10)
    <2>1. n \in Nat /\ n >= 1 /\ days("hard") = Floored(R, 1)
      BY <1>1, <1>2
    <2> HIDE DEF n
    <2>2. R \in Nat /\ 2 * (10 * R) <= 2 * (n * 8) + 10
      <3>1. n * 8 \in Nat
        BY <2>1
      <3> QED BY <3>1, RoundIs
    <2> HIDE DEF R
    <2>3. R <= n
      BY <2>1, <2>2
    <2> QED BY <2>1, <2>2, <2>3 DEF Floored, n
  <1>8. next("hard") <= next("good") /\ next("good") <= next("easy")
    BY <1>2, <1>3, <1>5
  <1>9. days("again") = 1 /\ days("good") = next("good") /\ days("easy") = next("easy")
    BY <1>1, <1>2, <1>4
  <1>10. \A g \in Grades : next(g) \in Nat
    BY <1>1
  <1> HIDE DEF days
  <1>11. /\ days("again") <= days("hard") /\ days("hard") <= days("good")
         /\ days("good") <= days("easy") /\ days("good") > D
    BY <1>2, <1>6, <1>7, <1>8, <1>9, <1>10
  <1> QED BY <1>2, <1>11 DEF BetterIsLaterFor, days

-----------------------------------------------------------------------------
(* Study: quizzes, lessons and the vault *)

Ascending(q) == \A i, k \in 1 .. Len(q) : i < k => q[i] < q[k]

(* A set of numbers has a least one. *)
LEMMA LeastOf ==
  ASSUME NEW S \in SUBSET Nat, S # {}
  PROVE  \E m \in S : \A n \in S : m <= n
  <1>1. PICK m \in S : \A n \in S : <<n, m>> \notin OpToRel(<, Nat)
    BY NatLessThanWellFounded, WFMin
  <1>2. \A n \in S : ~(n < m)
    BY <1>1 DEF OpToRel
  <1> QED BY <1>2

(* Any finite set of numbers can be listed in ascending order. *)
LEMMA SortedExists ==
  ASSUME NEW S \in SUBSET Nat, IsFiniteSet(S)
  PROVE  \E q \in [1 .. Cardinality(S) -> S] :
           \A i, k \in 1 .. Cardinality(S) : i < k => q[i] < q[k]
  <1> DEFINE IsSorted(T) == \E q \in [1 .. Cardinality(T) -> T] :
                              \A i, k \in 1 .. Cardinality(T) : i < k => q[i] < q[k]
             Sizes == {n \in Nat : \E T \in SUBSET Nat :
                         IsFiniteSet(T) /\ Cardinality(T) = n /\ ~IsSorted(T)}
  <1> SUFFICES ASSUME Sizes # {} PROVE FALSE
    <2>1. Cardinality(S) \in Nat
      BY FS_CardinalityType
    <2>2. IsSorted(S)
      BY <2>1
    <2> QED BY <2>2
  <1>1. PICK n \in Sizes : \A k \in Sizes : n <= k
    <2>1. Sizes \in SUBSET Nat
      OBVIOUS
    <2> HIDE DEF Sizes
    <2> QED BY <2>1, LeastOf
  <1>2. PICK T \in SUBSET Nat : IsFiniteSet(T) /\ Cardinality(T) = n /\ ~IsSorted(T)
    BY <1>1
  <1>3. T # {}
    <2> SUFFICES ASSUME T = {} PROVE FALSE
      OBVIOUS
    <2>1. Cardinality(T) = 0
      BY FS_EmptySet
    <2>2. [i \in 1 .. 0 |-> 0] \in [1 .. 0 -> T]
      OBVIOUS
    <2>3. IsSorted(T)
      BY <2>1, <2>2
    <2> QED BY <1>2, <2>3
  <1>4. PICK m \in T : \A t \in T : m <= t
    BY <1>3, LeastOf
  <1> DEFINE R == T \ {m}
  <1>5. R \in SUBSET Nat /\ IsFiniteSet(R) /\ Cardinality(R) = n - 1 /\ n - 1 \in Nat
    <2>1. IsFiniteSet(R) /\ Cardinality(R) = Cardinality(T) - 1
      BY <1>2, <1>4, FS_RemoveElement
    <2>2. Cardinality(R) \in Nat
      BY <2>1, FS_CardinalityType
    <2> QED BY <1>2, <2>1, <2>2
  <1> HIDE DEF IsSorted
  <1>6. IsSorted(R)
    <2>1. n - 1 \notin Sizes
      BY <1>1, <1>5
    <2> HIDE DEF R
    <2> QED BY <1>5, <2>1
  <1> USE DEF IsSorted
  <1>7. PICK q \in [1 .. n - 1 -> R] : \A i, k \in 1 .. n - 1 : i < k => q[i] < q[k]
    BY <1>5, <1>6
  <1> DEFINE p == [i \in 1 .. n |-> IF i = 1 THEN m ELSE q[i - 1]]
  <1>8. \A i \in 1 .. n : i # 1 => i - 1 \in 1 .. n - 1 /\ p[i] = q[i - 1] /\ q[i - 1] \in R
    BY <1>1, <1>7
  <1>9. p \in [1 .. n -> T]
    BY <1>4, <1>8
  <1>10. ASSUME NEW i \in 1 .. n, NEW k \in 1 .. n, i < k
         PROVE  p[i] < p[k]
    <2>1. k # 1 /\ k - 1 \in 1 .. n - 1 /\ p[k] = q[k - 1] /\ q[k - 1] \in R
      BY <1>1, <1>8, <1>10
    <2>2. CASE i = 1
      <3>1. p[i] = m /\ p[k] \in T /\ p[k] # m
        BY <2>1, <2>2
      <3>2. m \in Nat /\ p[k] \in Nat /\ m <= p[k]
        BY <1>4, <3>1
      <3> HIDE DEF p
      <3> QED BY <3>1, <3>2
    <2>3. CASE i # 1
      <3>1. i - 1 \in 1 .. n - 1 /\ p[i] = q[i - 1] /\ i - 1 < k - 1
        BY <1>1, <1>8, <1>10, <2>3
      <3> HIDE DEF p
      <3> QED BY <1>7, <2>1, <3>1
    <2> QED BY <2>2, <2>3
  <1>11. IsSorted(T)
    <2> HIDE DEF p
    <2> QED BY <1>2, <1>9, <1>10
  <1> QED BY <1>2, <1>11

(* The cards of a quiz are those that are due, each of them once. *)
LEMMA SortedIs ==
  ASSUME NEW S \in SUBSET Nat, IsFiniteSet(S)
  PROVE  Sorted(S) \in Seq(S) /\ Len(Sorted(S)) = Cardinality(S) /\ Ascending(Sorted(S))
  <1>1. Cardinality(S) \in Nat
    BY FS_CardinalityType
  <1>2. /\ Sorted(S) \in [1 .. Cardinality(S) -> S]
        /\ \A i, k \in 1 .. Cardinality(S) : i < k => Sorted(S)[i] < Sorted(S)[k]
    BY SortedExists, Zenon DEF Sorted
  <1>3. Sorted(S) \in Seq(S) /\ Len(Sorted(S)) = Cardinality(S)
    BY <1>1, <1>2
  <1> QED BY <1>2, <1>3 DEF Ascending

(* A session that is stored, or that an answer was read with, is at one of its cards. *)
Session   == [no : Nat, ids : Seq(Cards), idx : Nat \ {0}]
OnCard(s) == s \in Session /\ (s = NoQuiz \/ (s.idx \in 1 .. Len(s.ids) /\ Ascending(s.ids)))

CardsTyped == cards \in [Cards -> Card]
QuizTyped  == /\ OnCard(quiz) /\ quizzes \in Nat /\ graded \subseteq Nat \X Cards
              /\ judging \in [Chats -> Session] /\ \A c \in Chats : OnCard(judging[c])
TalksTyped == /\ lesson \in Modes \cup {"none"} /\ tutoring \in [Chats -> Modes \cup {"none"}]
              /\ interview \in 0 .. Questions /\ grading \in [Chats -> 0 .. Questions]
(* What is indexed was read after its digest was taken, and is not newer than the file. *)
IngestRow   == [pc : {"idle", "embed", "store"}, file : Notes \cup {"none"},
                digest : Nat, content : Nat]
Current(p)  == /\ ingest[p].pc # "idle" => ingest[p].file \in Notes
               /\ ingest[p].pc = "embed" => ingest[p].digest <= notes[ingest[p].file]
               /\ ingest[p].pc = "store" => /\ ingest[p].digest <= ingest[p].content
                                            /\ ingest[p].content <= notes[ingest[p].file]
VaultTyped ==
  /\ notes \in [Notes -> 0 .. MaxEdits]
  /\ vault \in [Notes -> [digest : Nat, content : Nat]]
  /\ \A f \in Notes : vault[f].digest <= vault[f].content /\ vault[f].content <= notes[f]
  /\ ingest \in [Ingesters -> IngestRow] /\ \A p \in Ingesters : Current(p)
LecturesTyped ==
  /\ audio \in [Recordings -> {"none", "inbox", "processed", "lost"}]
  /\ capture \in [pc : {"idle", "save", "archive"}, of : Recordings \cup {"none"}]
  /\ capture.pc # "idle" => capture.of \in Recordings
StudyTypes == CardsTyped /\ QuizTyped /\ TalksTyped /\ VaultTyped /\ LecturesTyped

(* A card that was never seen, one just added for a quiz, and no quiz. *)
LEMMA NewCardIs ==
  /\ NewCard \in Card /\ [NewCard EXCEPT !.status = "active", !.due = TRUE] \in Card
  /\ NoQuiz \in Session /\ OnCard(NoQuiz)
  <1>1. NewCard \in Card
    BY DEF NewCard, Card
  <1>3. [NewCard EXCEPT !.status = "active", !.due = TRUE] \in Card
    BY <1>1 DEF Card
  <1>2. << >> \in Seq(Cards)
    OBVIOUS
  <1> QED BY <1>1, <1>2, <1>3 DEF NoQuiz, Session, OnCard

LEMMA StudyTypesInit == StudyInit => StudyTypes
  <1> SUFFICES ASSUME StudyInit PROVE StudyTypes
    OBVIOUS
  <1>1. CardsTyped
    BY NewCardIs DEF StudyInit, CardsTyped
  <1>2. QuizTyped
    BY NewCardIs DEF StudyInit, QuizTyped
  <1>3. TalksTyped
    BY DEF StudyInit, TalksTyped, Questions
  <1>4. VaultTyped
    BY StudyAssumption DEF StudyInit, VaultTyped, Current, IngestRow, NoIngest
  <1>5. LecturesTyped
    BY DEF StudyInit, LecturesTyped
  <1> QED BY <1>1, <1>2, <1>3, <1>4, <1>5 DEF StudyTypes

(* A card changed in place. *)
LEMMA CardChanged ==
  ASSUME CardsTyped, NEW c \in Cards, NEW new \in Card, cards' = [cards EXCEPT ![c] = new]
  PROVE  CardsTyped'
  BY DEF CardsTyped

(* Whoever adds a card adds a candidate. *)
LEMMA AddCardTyped ==
  ASSUME CardsTyped, NEW c \in Cards, AddCard(c)
  PROVE  CardsTyped'
  <1>1. [cards[c] EXCEPT !.status = "candidate"] \in Card
    BY DEF CardsTyped, Card
  <1> QED BY <1>1, CardChanged DEF AddCard, CardsTyped

(* Cards are added, approved, rejected and come due. *)
LEMMA CardingTyped ==
  ASSUME CardsTyped, Carding
  PROVE  CardsTyped'
  <1>1. CASE Surge
    <2>1. \A c \in Cards : [cards[c] EXCEPT !.due = TRUE] \in Card /\ cards[c] \in Card
      BY DEF CardsTyped, Card
    <2> QED BY <1>1, <2>1 DEF Surge, CardsTyped
  <1>2. ASSUME NEW c \in Cards, NewCandidate(c)
        PROVE  CardsTyped'
    BY <1>2, AddCardTyped DEF NewCandidate
  <1>3. ASSUME NEW c \in Cards, ApproveCard(c)
        PROVE  CardsTyped'
    <2> DEFINE old == cards[c]
               new == [old EXCEPT !.status = "active", !.due = TRUE, !.ease = 250, !.days = 0]
    <2>1. old \in Card
      BY DEF CardsTyped
    <2>2. cards' = [cards EXCEPT ![c] = new]
      BY <1>3 DEF ApproveCard
    <2> HIDE DEF old
    <2>3. new \in Card
      <3> DEFINE a == [old EXCEPT !.status = "active"]
                 b == [a EXCEPT !.due = TRUE]
                 d == [b EXCEPT !.ease = 250]
                 e == [d EXCEPT !.days = 0]
      <3>1. new = e
        OBVIOUS
      <3>2. a \in Card
        BY <2>1 DEF Card
      <3> HIDE DEF a
      <3>3. b \in Card
        BY <3>2 DEF Card
      <3> HIDE DEF b
      <3>4. d \in Card
        BY <3>3 DEF Card
      <3> HIDE DEF d
      <3>5. e \in Card
        BY <3>4 DEF Card
      <3> QED BY <3>1, <3>5
    <2> HIDE DEF new
    <2> QED BY <2>2, <2>3, CardChanged
  <1>4. ASSUME NEW c \in Cards, RejectCard(c)
        PROVE  CardsTyped'
    <2>1. [cards[c] EXCEPT !.status = "suspended"] \in Card
      BY DEF CardsTyped, Card
    <2> QED BY <1>4, <2>1, CardChanged DEF RejectCard
  <1>5. ASSUME NEW c \in Cards, ComesDue(c)
        PROVE  CardsTyped'
    <2>1. [cards[c] EXCEPT !.due = TRUE] \in Card
      BY DEF CardsTyped, Card
    <2> QED BY <1>5, <2>1, CardChanged DEF ComesDue
  <1> QED BY <1>1, <1>2, <1>3, <1>4, <1>5 DEF Carding

(* A review is of the card a session is at, and the session goes on or is over. *)
LEMMA ReviewTyped ==
  ASSUME CardsTyped, QuizTyped, NEW s, OnCard(s), s # NoQuiz, NEW g \in Grades,
         Review(s.ids[s.idx], g), MarkGraded(s), Advance(s)
  PROVE  CardsTyped' /\ OnCard(quiz)' /\ graded' \subseteq Nat \X Cards
  <1> DEFINE c == s.ids[s.idx]
  <1>1. /\ s \in Session /\ s.no \in Nat /\ s.ids \in Seq(Cards) /\ s.idx \in 1 .. Len(s.ids)
        /\ Ascending(s.ids)
    BY DEF OnCard, Session
  <1>2. c \in Cards /\ Len(s.ids) \in Nat
    BY <1>1, LenProperties
  <1>3. CardsTyped'
    <2>1. cards[c] \in Card
      BY <1>2 DEF CardsTyped
    <2>2. Schedule(cards[c], g) \in Card
      BY <2>1, ScheduleIs
    <2>3. /\ [Schedule(cards[c], g) EXCEPT !.due = FALSE] \in Card
          /\ [cards[c] EXCEPT !.due = FALSE] \in Card
      BY <2>1, <2>2 DEF Card
    <2>4. \E new \in Card : cards' = [cards EXCEPT ![c] = new]
      BY <2>3 DEF Review
    <2> HIDE DEF c
    <2> QED BY <1>2, <2>4, CardChanged
  <1>4. OnCard(quiz)'
    <2>1. CASE s.idx = Len(s.ids)
      BY <2>1, NewCardIs DEF Advance, OnCard
    <2>2. CASE s.idx # Len(s.ids)
      <3>1. quiz' = [s EXCEPT !.idx = s.idx + 1]
        BY <2>2 DEF Advance
      <3>2. quiz' \in Session /\ quiz'.ids = s.ids /\ quiz'.idx = s.idx + 1
        BY <1>1, <3>1 DEF Session
      <3>3. s.idx + 1 \in 1 .. Len(s.ids)
        BY <1>1, <1>2, <2>2
      <3> QED BY <1>1, <3>2, <3>3 DEF OnCard
    <2> QED BY <2>1, <2>2
  <1>5. graded' \subseteq Nat \X Cards
    BY <1>1, <1>2 DEF MarkGraded, QuizTyped
  <1> QED BY <1>3, <1>4, <1>5

(* A quiz is begun and its answers are judged, from any of the channels. *)
LEMMA QuizzingTyped ==
  ASSUME CardsTyped, QuizTyped, Quizzing
  PROVE  CardsTyped' /\ QuizTyped'
  <1>1. CASE StartQuiz
    <2> DEFINE q == Sorted(Due)
    <2>1. Due \in SUBSET Nat /\ IsFiniteSet(Due) /\ Due \subseteq Cards
      BY StudyAssumption, FS_Subset DEF Due
    <2>2. q \in Seq(Due) /\ Len(q) = Cardinality(Due) /\ Ascending(q)
      BY <2>1, SortedIs
    <2>3. Cardinality(Due) \in Nat /\ Cardinality(Due) # 0
      BY <1>1, <2>1, FS_CardinalityType, FS_EmptySet DEF StartQuiz
    <2> HIDE DEF q
    <2>4. q \in Seq(Cards) /\ 1 \in 1 .. Len(q)
      <3>1. q \in [1 .. Len(q) -> Cards] /\ Len(q) \in Nat
        BY <2>1, <2>2, LenProperties
      <3>2. q \in Seq(Cards)
        BY <3>1, SeqDef
      <3> QED BY <2>2, <2>3, <3>2
    <2>5. quizzes' \in Nat /\ quiz' = [no |-> quizzes', ids |-> q, idx |-> 1]
      BY <1>1 DEF StartQuiz, QuizTyped, q
    <2>6. OnCard(quiz)'
      BY <2>2, <2>4, <2>5 DEF OnCard, Session
    <2>7. UNCHANGED <<cards, graded, judging>>
      BY <1>1 DEF StartQuiz
    <2> QED BY <2>5, <2>6, <2>7 DEF QuizTyped, CardsTyped
  <1>2. ASSUME NEW g \in Grades, Grade(g)
        PROVE  CardsTyped' /\ QuizTyped'
    <2>1. OnCard(quiz) /\ quiz # NoQuiz
      BY <1>2 DEF Grade, QuizTyped
    <2>2. /\ Review(quiz.ids[quiz.idx], g) /\ MarkGraded(quiz) /\ Advance(quiz)
          /\ UNCHANGED <<quizzes, judging>>
      BY <1>2 DEF Grade
    <2>3. CardsTyped' /\ OnCard(quiz)' /\ graded' \subseteq Nat \X Cards
      BY <2>1, <2>2, ReviewTyped
    <2> QED BY <2>2, <2>3 DEF QuizTyped
  <1>3. ASSUME NEW c \in Chats, Answer(c)
        PROVE  CardsTyped' /\ QuizTyped'
    <2>1. /\ judging' = [judging EXCEPT ![c] = quiz] /\ UNCHANGED <<cards, quiz, quizzes, graded>>
          /\ quiz \in Session
      BY <1>3 DEF Answer, QuizTyped, OnCard
    <2>2. judging' \in [Chats -> Session]
      BY <2>1 DEF QuizTyped
    <2>3. \A d \in Chats : judging'[d] = IF d = c THEN quiz ELSE judging[d]
      BY <2>1 DEF QuizTyped
    <2>4. \A d \in Chats : OnCard(judging'[d])
      BY <2>3 DEF QuizTyped
    <2> QED BY <2>1, <2>2, <2>4 DEF QuizTyped, CardsTyped
  <1>4. ASSUME NEW c \in Chats, Judged(c)
        PROVE  CardsTyped' /\ QuizTyped'
    <2>1. PICK s : s = judging[c]
      OBVIOUS
    <2>2. /\ s # NoQuiz /\ OnCard(s) /\ "good" \in Grades
          /\ Review(s.ids[s.idx], "good") /\ MarkGraded(s) /\ Advance(s)
          /\ judging' = [judging EXCEPT ![c] = NoQuiz] /\ UNCHANGED quizzes
      BY <1>4, <2>1 DEF Judged, QuizTyped, Grades
    <2>3. CardsTyped' /\ OnCard(quiz)' /\ graded' \subseteq Nat \X Cards
      BY <2>2, ReviewTyped
    <2>4. /\ judging' \in [Chats -> Session]
          /\ \A d \in Chats : judging'[d] = IF d = c THEN NoQuiz ELSE judging[d]
      BY <2>2, NewCardIs DEF QuizTyped
    <2>5. \A d \in Chats : OnCard(judging'[d])
      BY <2>4, NewCardIs DEF QuizTyped
    <2> QED BY <2>2, <2>3, <2>4, <2>5 DEF QuizTyped
  <1> QED BY <1>1, <1>2, <1>3, <1>4 DEF Quizzing

(* The tutor and the mock interview. *)
LEMMA LessonsTyped ==
  ASSUME CardsTyped, TalksTyped, Lessons
  PROVE  CardsTyped' /\ TalksTyped'
  <1> DEFINE Adds == UNCHANGED cards \/ \E c \in Cards : AddCard(c)
  <1>1. Adds => CardsTyped'
    BY AddCardTyped DEF CardsTyped
  <1>2. CASE EndLesson \/ MockStart \/ \E m \in Modes : Teach(m)
    <2>1. Adds
      BY <1>2 DEF EndLesson, MockStart, Teach
    <2>2. TalksTyped'
      BY <1>2 DEF EndLesson, MockStart, Teach, TalksTyped, Questions
    <2> QED BY <1>1, <2>1, <2>2
  <1>3. ASSUME NEW c \in Chats, Reply(c) \/ ModelFails(c)
        PROVE  CardsTyped' /\ TalksTyped'
    <2>1. Adds
      BY <1>3 DEF Reply, ModelFails
    <2>2. TalksTyped'
      BY <1>3 DEF Reply, ModelFails, TalksTyped
    <2> QED BY <1>1, <2>1, <2>2
  <1>4. ASSUME NEW c \in Chats, Assessed(c)
        PROVE  CardsTyped' /\ TalksTyped'
    <2>1. tutoring[c] \in {"drill", "mocklab", "socratic", "explain"}
      BY <1>4 DEF Assessed, TalksTyped, Modes
    <2>2. /\ lesson' \in Modes \cup {"none"} /\ Adds
          /\ tutoring' = [tutoring EXCEPT ![c] = "none"] /\ UNCHANGED <<interview, grading>>
      BY <1>4, <2>1 DEF Assessed, TalksTyped, Modes
    <2> QED BY <1>1, <2>2 DEF TalksTyped
  <1>5. ASSUME NEW c \in Chats, MockAnswer(c) \/ MockGraded(c)
        PROVE  CardsTyped' /\ TalksTyped'
    <2>1. Adds
      BY <1>5 DEF MockAnswer, MockGraded
    <2>2. TalksTyped'
      <3>1. grading[c] \in 0 .. 2 /\ interview \in 0 .. 2
        BY DEF TalksTyped, Questions
      <3>2. interview' \in 0 .. 2
        BY <1>5, <3>1 DEF MockAnswer, MockGraded, Questions
      <3>3. grading' \in [Chats -> 0 .. 2] /\ UNCHANGED <<lesson, tutoring>>
        BY <1>5, <3>1 DEF MockAnswer, MockGraded, TalksTyped, Questions
      <3> QED BY <3>2, <3>3 DEF TalksTyped, Questions
    <2> QED BY <1>1, <2>1, <2>2
  <1> QED BY <1>2, <1>3, <1>4, <1>5 DEF Lessons

(* One process goes on with its file; another one's is as it was. *)
LEMMA IngestChanged ==
  ASSUME VaultTyped, NEW p \in Ingesters, NEW new \in IngestRow,
         ingest' = [ingest EXCEPT ![p] = new]
  PROVE  /\ ingest' \in [Ingesters -> IngestRow] /\ ingest'[p] = new
         /\ \A o \in Ingesters \ {p} : ingest'[o] = ingest[o]
  BY DEF VaultTyped

LEMMA IdleIs == NoIngest \in IngestRow /\ NoIngest.pc = "idle"
  BY DEF NoIngest, IngestRow

LEMMA VersionsAre ==
  ASSUME VaultTyped
  PROVE  \A f \in Notes : notes[f] \in Nat
  <1>1. notes \in [Notes -> 0 .. MaxEdits] /\ MaxEdits \in Nat
    BY StudyAssumption DEF VaultTyped
  <1> QED BY <1>1

(* A file may be written between any two steps of its indexing: what was read stays older. *)
LEMMA IndexingTyped ==
  ASSUME VaultTyped,
         \/ \E f \in Notes : Write(f) \/ \E p \in Ingesters : IngestDigest(p, f)
         \/ \E p \in Ingesters : IngestEmbed(p) \/ IngestStore(p) \/ IngestDies(p)
  PROVE  VaultTyped'
  <1>1. ASSUME NEW f \in Notes, Write(f)
        PROVE  VaultTyped'
    <2>1. notes[f] \in 0 .. MaxEdits /\ notes[f] + 1 \in 0 .. MaxEdits
      BY <1>1, StudyAssumption DEF Write, VaultTyped
    <2>2. /\ notes' \in [Notes -> 0 .. MaxEdits]
          /\ \A g \in Notes : notes[g] <= notes'[g] /\ notes[g] \in Nat /\ notes'[g] \in Nat
      BY <1>1, <2>1, StudyAssumption DEF Write, VaultTyped
    <2>3. UNCHANGED <<vault, ingest>>
      BY <1>1 DEF Write
    <2>4. \A g \in Notes : /\ vault'[g].digest <= vault'[g].content /\ vault'[g].content <= notes'[g]
      BY <2>2, <2>3 DEF VaultTyped
    <2>5. \A p \in Ingesters : Current(p)'
      BY <2>2, <2>3 DEF VaultTyped, Current, IngestRow
    <2> QED BY <2>2, <2>3, <2>4, <2>5 DEF VaultTyped
  <1>2. ASSUME NEW f \in Notes, NEW p \in Ingesters, IngestDigest(p, f)
        PROVE  VaultTyped'
    <2> DEFINE new == [NoIngest EXCEPT !.pc = "embed", !.file = f, !.digest = notes[f]]
    <2>1. /\ new \in IngestRow /\ new.pc = "embed" /\ new.file = f /\ new.digest = notes[f]
          /\ notes[f] \in Nat
      <3>1. notes[f] \in Nat
        BY StudyAssumption DEF VaultTyped
      <3> DEFINE a == [NoIngest EXCEPT !.pc = "embed"]
                 b == [a EXCEPT !.file = f]
                 d == [b EXCEPT !.digest = notes[f]]
      <3>2. new = d
        OBVIOUS
      <3>3. a \in IngestRow /\ a.pc = "embed"
        BY IdleIs DEF IngestRow
      <3> HIDE DEF a
      <3>4. b \in IngestRow /\ b.pc = "embed" /\ b.file = f
        BY <3>3 DEF IngestRow
      <3> HIDE DEF b
      <3>5. d \in IngestRow /\ d.pc = "embed" /\ d.file = f /\ d.digest = notes[f]
        BY <3>1, <3>4 DEF IngestRow
      <3> QED BY <3>1, <3>2, <3>5
    <2>2. ingest' = [ingest EXCEPT ![p] = new] /\ UNCHANGED <<notes, vault>>
      BY <1>2 DEF IngestDigest
    <2> HIDE DEF new
    <2>3. /\ ingest' \in [Ingesters -> IngestRow] /\ ingest'[p] = new
          /\ \A o \in Ingesters \ {p} : ingest'[o] = ingest[o]
      BY <2>1, <2>2, IngestChanged
    <2>4. \A o \in Ingesters : Current(o)'
      BY <2>1, <2>2, <2>3 DEF VaultTyped, Current
    <2> QED BY <2>2, <2>3, <2>4 DEF VaultTyped
  <1>3. ASSUME NEW p \in Ingesters, IngestEmbed(p)
        PROVE  VaultTyped'
    <2> DEFINE old == ingest[p]
               new == [old EXCEPT !.pc = "store", !.content = notes[old.file]]
    <2>1. /\ old \in IngestRow /\ old.file \in Notes /\ old.digest <= notes[old.file]
          /\ notes[old.file] \in Nat
      <3>1. old \in IngestRow /\ Current(p) /\ old.pc = "embed"
        BY <1>3 DEF IngestEmbed, VaultTyped
      <3>2. old.file \in Notes /\ old.digest <= notes[old.file]
        BY <3>1 DEF Current
      <3>3. notes[old.file] \in Nat
        BY <3>2, VersionsAre
      <3> HIDE DEF old
      <3> QED BY <3>1, <3>2, <3>3
    <2>2. /\ new \in IngestRow /\ new.pc = "store" /\ new.file = old.file /\ new.digest = old.digest
          /\ new.content = notes[old.file]
      BY <2>1 DEF IngestRow
    <2>3. ingest' = [ingest EXCEPT ![p] = new] /\ UNCHANGED <<notes, vault>>
      BY <1>3 DEF IngestEmbed
    <2> HIDE DEF new, old
    <2>4. /\ ingest' \in [Ingesters -> IngestRow] /\ ingest'[p] = new
          /\ \A o \in Ingesters \ {p} : ingest'[o] = ingest[o]
      BY <2>2, <2>3, IngestChanged
    <2>5. \A o \in Ingesters : Current(o)'
      BY <2>1, <2>2, <2>3, <2>4 DEF VaultTyped, Current
    <2> QED BY <2>3, <2>4, <2>5 DEF VaultTyped
  <1>4. ASSUME NEW p \in Ingesters, IngestStore(p)
        PROVE  VaultTyped'
    <2> DEFINE old == ingest[p]
               stored == [digest |-> old.digest, content |-> old.content]
    <2>1. /\ old \in IngestRow /\ old.file \in Notes
          /\ old.digest <= old.content /\ old.content <= notes[old.file]
      BY <1>4 DEF IngestStore, VaultTyped, Current
    <2>2. /\ ingest' = [ingest EXCEPT ![p] = NoIngest] /\ UNCHANGED notes
          /\ vault' = [vault EXCEPT ![old.file] = stored]
      BY <1>4 DEF IngestStore
    <2>3. /\ stored \in [digest : Nat, content : Nat]
          /\ stored.digest = old.digest /\ stored.content = old.content
      BY <2>1 DEF IngestRow
    <2> HIDE DEF stored, old
    <2>4. /\ ingest' \in [Ingesters -> IngestRow] /\ ingest'[p] = NoIngest
          /\ \A o \in Ingesters \ {p} : ingest'[o] = ingest[o]
      BY <2>2, IdleIs, IngestChanged
    <2>5. /\ vault' \in [Notes -> [digest : Nat, content : Nat]]
          /\ \A g \in Notes : vault'[g] = IF g = old.file THEN stored ELSE vault[g]
      BY <2>2, <2>3 DEF VaultTyped
    <2>6. \A g \in Notes : vault'[g].digest <= vault'[g].content /\ vault'[g].content <= notes'[g]
      BY <2>1, <2>2, <2>3, <2>5 DEF VaultTyped
    <2>7. \A o \in Ingesters : Current(o)'
      BY <2>2, <2>4, IdleIs DEF VaultTyped, Current
    <2> QED BY <2>2, <2>4, <2>5, <2>6, <2>7 DEF VaultTyped
  <1>5. ASSUME NEW p \in Ingesters, IngestDies(p)
        PROVE  VaultTyped'
    <2>1. ingest' = [ingest EXCEPT ![p] = NoIngest] /\ UNCHANGED <<notes, vault>>
      BY <1>5 DEF IngestDies
    <2>2. /\ ingest' \in [Ingesters -> IngestRow] /\ ingest'[p] = NoIngest
          /\ \A o \in Ingesters \ {p} : ingest'[o] = ingest[o]
      BY <2>1, IdleIs, IngestChanged
    <2>3. \A o \in Ingesters : Current(o)'
      BY <2>1, <2>2, IdleIs DEF VaultTyped, Current
    <2> QED BY <2>1, <2>2, <2>3 DEF VaultTyped
  <1> QED BY <1>1, <1>2, <1>3, <1>4, <1>5

(* Lectures are recorded, transcribed and archived. *)
LEMMA CapturingTyped ==
  ASSUME CardsTyped, LecturesTyped,
         \/ CaptureSave \/ CaptureArchive \/ CaptureDies
         \/ \E r \in Recordings : RecordLecture(r) \/ CaptureStart(r)
  PROVE  CardsTyped' /\ LecturesTyped' /\ UNCHANGED <<notes, vault, ingest>>
  <1>1. CASE CaptureSave
    <2>1. CardsTyped'
      BY <1>1, AddCardTyped DEF CaptureSave, CardsTyped
    <2> QED BY <1>1, <2>1 DEF CaptureSave, LecturesTyped
  <1>2. CASE CaptureArchive \/ CaptureDies
    BY <1>2 DEF CaptureArchive, CaptureDies, CardsTyped, LecturesTyped
  <1>3. ASSUME NEW r \in Recordings, RecordLecture(r) \/ CaptureStart(r)
        PROVE  CardsTyped' /\ LecturesTyped' /\ UNCHANGED <<notes, vault, ingest>>
    BY <1>3 DEF RecordLecture, CaptureStart, CardsTyped, LecturesTyped
  <1> QED BY <1>1, <1>2, <1>3

(* Every step of the study skills. *)
LEMMA StudyTypesKept ==
  ASSUME StudyTypes, StudyNext
  PROVE  StudyTypes'
  <1>c. UNCHANGED cards => CardsTyped'
    BY DEF StudyTypes, CardsTyped
  <1>q. UNCHANGED quizzing => QuizTyped'
    BY DEF StudyTypes, QuizTyped, quizzing
  <1>t. UNCHANGED talks => TalksTyped'
    BY DEF StudyTypes, TalksTyped, talks
  <1>v. UNCHANGED <<notes, vault, ingest>> => VaultTyped'
    BY DEF StudyTypes, VaultTyped, Current
  <1>l. UNCHANGED <<audio, capture>> => LecturesTyped'
    BY DEF StudyTypes, LecturesTyped
  <1>w. UNCHANGED vaulting => UNCHANGED <<notes, vault, ingest>> /\ UNCHANGED <<audio, capture>>
    BY DEF vaulting
  <1>1. CASE Carding
    BY <1>1, <1>q, <1>t, <1>v, <1>l, <1>w, CardingTyped DEF Carding, StudyTypes
  <1>2. CASE Quizzing
    BY <1>2, <1>t, <1>v, <1>l, <1>w, QuizzingTyped DEF Quizzing, StudyTypes
  <1>3. CASE Lessons
    BY <1>3, <1>q, <1>v, <1>l, <1>w, LessonsTyped DEF Lessons, StudyTypes
  <1>4. CASE Indexing
    <2>1. VaultTyped'
      BY <1>4, IndexingTyped DEF Indexing, StudyTypes
    <2>2. UNCHANGED <<audio, capture>>
      BY <1>4 DEF Indexing, Write, IngestDigest, IngestEmbed, IngestStore
    <2> QED BY <1>4, <1>c, <1>q, <1>t, <1>l, <2>1, <2>2 DEF Indexing, StudyTypes
  <1>5. CASE Capturing
    BY <1>5, <1>q, <1>t, <1>v, CapturingTyped DEF Capturing, StudyTypes
  <1>6. CASE StudyDies
    <2>1. ASSUME NEW p \in Ingesters, IngestDies(p), UNCHANGED <<cards, quizzing, talks>>
          PROVE  StudyTypes'
      <3>1. VaultTyped'
        BY <2>1, IndexingTyped DEF StudyTypes
      <3>2. UNCHANGED <<audio, capture>> /\ UNCHANGED cards /\ UNCHANGED quizzing /\ UNCHANGED talks
        BY <2>1 DEF IngestDies
      <3> QED BY <1>c, <1>q, <1>t, <1>l, <3>1, <3>2 DEF StudyTypes
    <2>2. CASE CaptureDies /\ UNCHANGED <<quizzing, talks>>
      BY <2>2, <1>q, <1>t, <1>v, CapturingTyped DEF StudyTypes
    <2> QED BY <1>6, <2>1, <2>2 DEF StudyDies
  <1> QED BY <1>1, <1>2, <1>3, <1>4, <1>5, <1>6 DEF StudyNext

-----------------------------------------------------------------------------
(* Beside each other *)

SkillsInv == /\ NewsInv /\ QuizInv /\ FactsInv /\ RulesInv /\ ModelsInv /\ ReconInv
             /\ ScoringInv

LEMMA SkillsStart == SkillsInit => SkillsInv
  <1> SUFFICES ASSUME SkillsInit PROVE SkillsInv
    OBVIOUS
  <1>1. NewsInv
    <2>1. FeedInv
      <3>1. 1..0 = {} /\ 0 \in Nat
        OBVIOUS
      <3> QED BY <3>1 DEF SkillsInit, NewsInit, FeedInv
    <2>2. AlarmsInv
      BY DEF SkillsInit, DailyInit, NewsInit, NoPoll, AlarmsInv
    <2> QED BY <2>1, <2>2 DEF SkillsInit, NewsInit, NewsInv
  <1>2. QuizInv
    BY NewSession DEF SkillsInit, StudyInit, NoQuiz, QuizInv
  <1>3. FactsInv
    BY DEF SkillsInit, PersonaInit, NoFact, NotWriting, AnyValue, FactsInv
  <1>4. RulesInv
    BY DEF SkillsInit, PersonaInit, Unseen, Quiet, RowsOfSignals, RulesInv
  <1>5. ModelsInv
    BY NoRequestIs DEF SkillsInit, ModelsInit, ModelsInv, OneDeadModelIsNoOutage
  <1>6. ReconInv
    <2>1. Absent \in FindingRows /\ Absent.seen = 0 /\ Absent.status = "absent"
      BY DEF Absent, FindingRows
    <2>2. Idle \in ScanRows /\ Idle.at = "idle" /\ Idle.began = 0
      BY EmptySeq DEF Idle, ScanRows
    <2>3. /\ targets = [hosts |-> <<>>, expected |-> {}] /\ wrong = {} /\ scans = 0
          /\ findings = [p \in Broken |-> Absent] /\ scan = [s \in Scanners |-> Idle]
      BY DEF SkillsInit, ReconInit
    <2>4. ReconTyped
      BY <2>1, <2>2, <2>3, EmptySeq DEF ReconTyped
    <2> QED BY <2>1, <2>2, <2>3, <2>4 DEF ReconInv, FindingsHold, ScanHolds, AloneHolds
  <1>7. ScoringInv
    <2>1. /\ row = NoRow /\ NoRow.state = "none"
          /\ NoRow \in [state : {"none", "DISCOVERED", "SCORING", "NEGOTIATING", "REJECTED"},
                        price : Nat, urges : Nat, points : {NoRow.points}]
      BY DEF SkillsInit, ScoringInit, NoRow
    <2>2. CASE Goes("scoring")
      <3>1. /\ comps \in [Others -> Asked] /\ \A i, j \in Others : i < j => comps[i] <= comps[j]
            /\ ad \in [price : Asked, age : DayCounts, urges : {0}] /\ floor \in {0, 40}
        BY <2>2 DEF SkillsInit, ScoringInit
      <3>2. Asked \subseteq Nat /\ DayCounts \subseteq Nat
        BY ScoringAssumption DEF ScoringAssumption
      <3> QED BY <2>1, <3>1, <3>2 DEF ScoringInv
    <2>3. CASE ~Goes("scoring")
      <3>1. /\ comps = [i \in Others |-> 0] /\ ad = [price |-> 0, age |-> 0, urges |-> 0]
            /\ floor = 0
        BY <2>3 DEF SkillsInit, ScoringInit
      <3> QED BY <2>1, <3>1 DEF ScoringInv
    <2> QED BY <2>2, <2>3
  <1> QED BY <1>1, <1>2, <1>3, <1>4, <1>5, <1>6, <1>7 DEF SkillsInv

(* Steps of the others *)
LEMMA NewsStay ==
  ASSUME NewsInv, UNCHANGED newsVars, UNCHANGED faults \/ Fault
  PROVE  NewsInv'
  <1>1. UNCHANGED articles /\ UNCHANGED breaking /\ faults' \in {faults, faults + 1}
    BY DEF newsVars, articles, breaking, Fault
  <1> QED BY <1>1, MoreFaultsAllowed DEF NewsInv, FeedInv, articles

LEMMA QuizStays ==
  ASSUME QuizInv, UNCHANGED studyVars
  PROVE  QuizInv'
  BY DEF studyVars, QuizInv, InTurn

LEMMA FactsStay ==
  ASSUME FactsInv, UNCHANGED knowing
  PROVE  FactsInv'
  BY DEF knowing, FactsInv

LEMMA RulesStay ==
  ASSUME RulesInv, UNCHANGED noticing
  PROVE  RulesInv'
  BY DEF noticing, RulesInv

LEMMA ModelsStay ==
  ASSUME ModelsInv, UNCHANGED modelsVars
  PROVE  ModelsInv'
  BY DEF modelsVars, ModelsInv, OneDeadModelIsNoOutage

LEMMA ReconStays ==
  ASSUME ReconInv, UNCHANGED reconVars
  PROVE  ReconInv'
  BY DEF reconVars, ReconInv, ReconTyped, FindingsHold, ScanHolds, AloneHolds, Known, Kept

LEMMA ScoringStays ==
  ASSUME ScoringInv, UNCHANGED scoringVars
  PROVE  ScoringInv'
  <1>1. ad.age \in Nat /\ UNCHANGED <<ad, row, comps, sold, floor>>
    BY DEF scoringVars, ScoringInv
  <1>2. (Bargain => Bargain') /\ (AtLeast(floor) => AtLeast(floor)')
    BY <1>1, BargainStays
  <1> QED BY <1>1, <1>2 DEF ScoringInv

(* Whatever dies, dies once. *)
LEMMA FaultsByOne ==
  ASSUME SkillsNext
  PROVE  UNCHANGED faults \/ Fault
  <1>1. CASE Newly
    BY <1>1 DEF Newly, NewsNext, Articling, Briefings, BriefingFaults, BriefRecordFails,
       BriefDies,
                Polls, PollFaults, PollMisses, PollRecordFails, Hours, Boards, daily
  <1>2. CASE Eventful
    BY <1>2 DEF Eventful, EventsNext, Pushing, Deaths, SchedulerDies, Choosing, Planning, daily
  <1>3. CASE Studying
    BY <1>3 DEF Studying, StudyNext, Carding, Quizzing, Lessons, Indexing, Capturing, StudyDies,
                IngestDies, CaptureDies, daily
  <1>4. CASE Knowing \/ Asking \/ Dealing
    BY <1>4 DEF Knowing, PersonaNext, Asking, ModelsNext, Dealing, ScoringNext, daily
  <1>5. CASE Watching
    BY <1>5 DEF Watching, ReconNext, LookFails, SchemeFails, daily
  <1> QED BY <1>1, <1>2, <1>3, <1>4, <1>5 DEF SkillsNext

LEMMA SkillsKeep == SkillsInv /\ [SkillsNext]_<<daily, skillsVars>> => SkillsInv'
  <1> SUFFICES ASSUME SkillsInv, [SkillsNext]_<<daily, skillsVars>> PROVE SkillsInv'
    OBVIOUS
  <1>0. UNCHANGED faults \/ Fault
    BY FaultsByOne DEF daily
  <1>1. UNCHANGED personaVars => UNCHANGED knowing /\ UNCHANGED noticing
    BY DEF personaVars
  <1>2. CASE Newly
    BY <1>1, <1>2, NewsKeep, QuizStays, FactsStay, RulesStay, ModelsStay, ReconStays, ScoringStays
       DEF Newly, SkillsInv
  <1>3. CASE Eventful
    BY <1>0, <1>1, <1>3, NewsStay, QuizStays, FactsStay, RulesStay, ModelsStay, ReconStays,
       ScoringStays DEF Eventful, SkillsInv
  <1>4. CASE Studying
    BY <1>0, <1>1, <1>4, NewsStay, QuizKeeps, FactsStay, RulesStay, ModelsStay, ReconStays,
       ScoringStays DEF Studying, SkillsInv
  <1>5. CASE Knowing
    <2>1. NewsInv' /\ QuizInv' /\ ModelsInv' /\ ReconInv' /\ ScoringInv'
      BY <1>0, <1>5, NewsStay, QuizStays, ModelsStay, ReconStays, ScoringStays
         DEF Knowing, SkillsInv
    <2>2. CASE FactsNext
      <3>1. UNCHANGED noticing
        BY <2>2 DEF FactsNext
      <3> QED BY <2>1, <2>2, <3>1, FactsKeep, RulesStay DEF SkillsInv
    <2>3. CASE RulesNext
      <3>1. UNCHANGED knowing
        BY <2>3 DEF RulesNext
      <3> QED BY <2>1, <2>3, <3>1, FactsStay, RulesKeep DEF SkillsInv
    <2> QED BY <1>5, <2>2, <2>3 DEF Knowing, PersonaNext
  <1>6. CASE Asking
    BY <1>0, <1>1, <1>6, NewsStay, QuizStays, FactsStay, RulesStay, ModelsKeep, ReconStays,
       ScoringStays DEF Asking, SkillsInv
  <1>7. CASE Watching
    BY <1>0, <1>1, <1>7, NewsStay, QuizStays, FactsStay, RulesStay, ModelsStay, ReconKeeps,
       ScoringStays DEF Watching, SkillsInv
  <1>8. CASE Dealing
    BY <1>0, <1>1, <1>8, NewsStay, QuizStays, FactsStay, RulesStay, ModelsStay, ReconStays,
       ScoringKeeps DEF Dealing, SkillsInv
  <1>9. CASE UNCHANGED <<daily, skillsVars>>
    BY <1>0, <1>1, <1>9, NewsStay, QuizStays, FactsStay, RulesStay, ModelsStay, ReconStays,
       ScoringStays DEF skillsVars, SkillsInv
  <1> QED BY <1>2, <1>3, <1>4, <1>5, <1>6, <1>7, <1>8, <1>9 DEF SkillsNext

LEMMA SkillsHold == SkillsSpec => []SkillsInv
  BY SkillsStart, SkillsKeep, PTL DEF SkillsSpec

(* Alarms are rationed: none within an hour of another and none twice for an article,   *)
(* but for as many as could not be recorded.                                            *)
THEOREM AlarmsRationed == SkillsSpec => []AlarmsAreRationed
  <1>1. SkillsInv => AlarmsAreRationed
    BY DEF SkillsInv, NewsInv, AlarmsInv, AlarmsAreRationed
  <1> QED BY <1>1, SkillsHold, PTL

(* The stored quiz is past graded cards only, whichever channels answer at once. *)
THEOREM NoCardSkipped == SkillsSpec => []SkipsNoCard
  <1>1. SkillsInv => SkipsNoCard
    BY DEF SkillsInv, QuizInv, InTurn, SkipsNoCard
  <1> QED BY <1>1, SkillsHold, PTL

(* No answer, letter or CV says what he did not make or confirm and nothing measured. *)
THEOREM TextsAreGrounded == SkillsSpec => []OnlyGroundedIsTold
  <1>1. SkillsInv => OnlyGroundedIsTold
    BY DEF SkillsInv, FactsInv, OnlyGroundedIsTold
  <1> QED BY <1>1, SkillsHold, PTL

(* A pattern that he declined is in no later run of propose. *)
THEOREM NoIsFinal == SkillsSpec => []NoMeansNo
  <1>1. SkillsInv => NoMeansNo
    BY DEF SkillsInv, RulesInv, NoMeansNo
  <1> QED BY <1>1, SkillsHold, PTL

(* While the default model works, only prose written twice for JSON fails a request. *)
THEOREM DefaultModelStandsIn == SkillsSpec => []OneDeadModelIsNoOutage
  <1>1. SkillsInv => OneDeadModelIsNoOutage
    BY DEF SkillsInv, ModelsInv
  <1> QED BY <1>1, SkillsHold, PTL

(* What a scan reports as open of the enrolled hosts is what it found; a scan beside     *)
(* another one loses a problem only to one that began later.                             *)
THEOREM ReportsAreScans == SkillsSpec => []ReportIsTheScan
  <1>1. SkillsInv => ReportIsTheScan
    BY ReportFollows DEF SkillsInv
  <1> QED BY <1>1, SkillsHold, PTL

(* Only a bargain is pursued: half of the others were dearer by a quarter. *)
THEOREM BargainsOnly == SkillsSpec => []OnlyBargainsArePursued
  <1>1. ASSUME SkillsInv
        PROVE  OnlyBargainsArePursued
    <2> SUFFICES ASSUME row.state = "NEGOTIATING"
                 PROVE  /\ 2 * Cardinality({i \in Priced : 4 * comps[i] >= 5 * row.price})
                             >= Cardinality(Priced)
                        /\ row.price # 0 /\ Priced # {}
                        /\ AtLeast(floor) /\ ~Slow
                        /\ ad.age >= 14 \/ row.urges > 0
      BY DEF OnlyBargainsArePursued
    <2>1. ScoringInv /\ Bargain /\ AtLeast(floor)
      BY <1>1 DEF SkillsInv, ScoringInv
    <2>2. Stale
      BY <2>1 DEF Bargain
    <2> QED BY <2>1, <2>2, HalfAreDearer DEF Bargain, Stale
  <1> QED BY <1>1, SkillsHold, PTL

LEMMA StudyTypesHold == SkillsSpec => []StudyTypes
  <1>1. SkillsInit => StudyTypes
    BY StudyTypesInit DEF SkillsInit
  <1>2. StudyTypes /\ [SkillsNext]_<<daily, skillsVars>> => StudyTypes'
    <2> SUFFICES ASSUME StudyTypes, [SkillsNext]_<<daily, skillsVars>> PROVE StudyTypes'
      OBVIOUS
    <2>1. CASE UNCHANGED studyVars
      BY <2>1 DEF studyVars, StudyTypes, CardsTyped, QuizTyped, TalksTyped, VaultTyped, Current,
                  LecturesTyped
    <2>2. CASE Studying
      BY <2>2, StudyTypesKept DEF Studying
    <2>3. CASE Newly \/ Eventful \/ Knowing \/ Asking \/ Watching \/ Dealing
      BY <2>1, <2>3 DEF Newly, Eventful, Knowing, Asking, Watching, Dealing
    <2>4. CASE UNCHANGED <<daily, skillsVars>>
      BY <2>1, <2>4 DEF skillsVars
    <2> QED BY <2>2, <2>3, <2>4 DEF SkillsNext
  <1> QED BY <1>1, <1>2, PTL DEF SkillsSpec

(* The variables of the study skills stay in their types; a quiz, stored or being judged, *)
(* is at one of its cards, so the answer that comes is of a card there is.                *)
THEOREM QuizIsAtACard ==
  SkillsSpec => [](StudyTypes /\ (quiz # NoQuiz => quiz.ids[quiz.idx] \in Cards))
  <1>1. StudyTypes => (quiz # NoQuiz => quiz.ids[quiz.idx] \in Cards)
    BY DEF StudyTypes, QuizTyped, OnCard, Session
  <1> QED BY <1>1, StudyTypesHold, PTL

(* Whatever its history, a card answered better is never asked earlier, and one that was *)
(* known is asked later than it was the last time (schedule of sm2.py).                  *)
THEOREM BetterAnswersAreLater ==
  SkillsSpec => [](\A c \in Cards : BetterIsLaterFor(cards[c]))
  <1>1. StudyTypes => \A c \in Cards : BetterIsLaterFor(cards[c])
    BY BetterIsLaterAlways DEF StudyTypes, CardsTyped
  <1> QED BY <1>1, StudyTypesHold, PTL

(* A file that the vault would pass over, its digest being that of what is indexed, is    *)
(* indexed as it stands: whatever two ingests read while it was written, none leaves the  *)
(* digest of one version beside the chunks of an older one (ingest of study_vault.py).    *)
THEOREM PassedOverIsCurrent ==
  SkillsSpec => [](\A f \in Notes : vault[f].digest = notes[f] => vault[f].content = notes[f])
  <1>1. ASSUME StudyTypes
        PROVE  \A f \in Notes : vault[f].digest = notes[f] => vault[f].content = notes[f]
    <2> SUFFICES ASSUME NEW f \in Notes, vault[f].digest = notes[f]
                 PROVE  vault[f].content = notes[f]
      OBVIOUS
    <2>1. /\ vault[f] \in [digest : Nat, content : Nat] /\ notes[f] \in Nat
          /\ vault[f].digest <= vault[f].content /\ vault[f].content <= notes[f]
      BY <1>1, VersionsAre DEF StudyTypes, VaultTyped
    <2> QED BY <2>1
  <1> QED BY <1>1, StudyTypesHold, PTL
=============================================================================
