------------------------------ MODULE Persona ------------------------------
(***************************************************************************)
(* What AgentOS knows of its user (core/persona_store.py,                  *)
(* skills/persona.py, skills/cv_tailor.py) and the rules it proposes to    *)
(* him (skills/adaptive.py).                                               *)
(*                                                                         *)
(* A claim is a topic with a value: a fact of persona_facts, or a fact his *)
(* CV states.  Facts enter from an interview, a measurement or an import;  *)
(* only he turns an imported one into a verified one.  Answers, cover      *)
(* letters and CVs are written by a model out of the facts it was given,   *)
(* which may change while it writes.  Writers only read, so one text is    *)
(* written at a time.                                                      *)
(***************************************************************************)
EXTENDS Daily

CONSTANTS
  Values,       \* per topic, what a fact may say
  Patterns,     \* (skill, signal_type, payload) combinations
  Threshold,    \* how often a pattern must repeat
  Texts,        \* wordings of a rule: those ...
  Breaching,    \* ... that would switch off an invariant, ...
  Unread        \* ... and those of a category no skill reads

ASSUME PersonaAssumption ==
  /\ DOMAIN Values = {"skill", "story", "flips"}
  /\ Threshold \in Nat /\ Breaching \subseteq Texts /\ Unread \subseteq Texts
  /\ "none" \notin Patterns

VARIABLES
  facts,        \* the table persona_facts
  master,       \* external: the claims of the master CV's file
  cv,           \* the table cv_facts
  parsing,      \* the claims of a CV being ingested, {} when none is
  writing,      \* the text being written and the claims it is written from
  told,         \* observed: the claims of the last text
  grounded,     \* observed: claims he made or confirmed, or that were measured
  signals,      \* the table signal_log
  proposer,     \* the run of adaptive.propose: rows to word, rows worded
  confirming,   \* the pattern whose rule is being worded for good
  shown,        \* external: the patterns whose proposal he has seen
  rules,        \* the table standing_instructions, per wording
  refused       \* observed: patterns he declined that nothing was about to propose

knowing     == <<facts, master, cv, parsing, writing, told, grounded>>
noticing    == <<signals, proposer, confirming, shown, rules, refused>>
personaVars == <<knowing, noticing>>

Topics     == DOMAIN Values
Claims     == UNION {{t} \X Values[t] : t \in Topics}
NoFact     == [value |-> "none", verified |-> FALSE]
NotWriting == [text |-> "none", from |-> {}, base |-> {}]
Unseen     == [count |-> 0, against |-> FALSE, status |-> "watching"]
Quiet      == [busy |-> FALSE, rows |-> {}, worded |-> {}]

PersonaInit ==
  /\ facts = [t \in Topics |-> NoFact] /\ master = {}
  /\ cv = [t \in Topics |-> [value |-> "none", active |-> FALSE]]
  /\ parsing = {} /\ writing = NotWriting /\ told = {} /\ grounded = {}
  /\ signals = [p \in Patterns |-> Unseen] /\ proposer = Quiet /\ confirming = "none"
  /\ shown = {} /\ rules = [r \in Texts |-> "absent"] /\ refused = {}

-----------------------------------------------------------------------------
(* Facts *)

(* A mutant of the next definition: a fact once verified stays verified, whatever it says. *)
UpsertKeeps(t, v, verified) ==
  facts' = [facts EXCEPT ![t] = [value |-> v, verified |-> verified \/ facts[t].verified]]

Upsert(t, v, verified) == facts' = [facts EXCEPT ![t] = [value |-> v, verified |-> verified]]

Grounded(claims) == grounded' = grounded \union claims

(* The interview stores an answer at a time. *)
Interview(v) ==
  /\ Upsert("skill", v, TRUE) /\ Grounded({<<"skill", v>>})
  /\ UNCHANGED <<master, cv, parsing, writing, told>>

BuildStory(v) ==
  /\ Upsert("story", v, TRUE) /\ Grounded({<<"story", v>>})
  /\ UNCHANGED <<master, cv, parsing, writing, told>>

(* The ledger of flips becomes facts whenever a report of it is made. *)
FeedLedger(v) ==
  /\ Upsert("flips", v, TRUE) /\ Grounded({<<"flips", v>>})
  /\ UNCHANGED <<master, cv, parsing, writing, told>>

(* One of the facts that a model, or the code itself, made of his repositories. *)
ImportGithub(v) ==
  /\ Upsert("skill", v, FALSE)
  /\ UNCHANGED <<master, cv, parsing, writing, told, grounded>>

(* persona verify: he names a topic, not the value he was shown. *)
Verify(t, accept) ==
  /\ facts[t] # NoFact
  /\ facts' = [facts EXCEPT ![t].verified = accept]
  /\ Grounded(IF accept THEN {<<t, facts[t].value>>} ELSE {})
  /\ UNCHANGED <<master, cv, parsing, writing, told>>

Verified == {<<t, facts[t].value>> : t \in {u \in Topics : facts[u].verified}}

-----------------------------------------------------------------------------
(* The CV *)

PutMaster(v) ==
  /\ master' = {<<"skill", v>>} /\ Grounded(master')
  /\ UNCHANGED <<facts, cv, parsing, writing, told>>

CvUpdate ==
  /\ parsing = {} /\ master # {} /\ parsing' = master
  /\ UNCHANGED <<facts, master, cv, writing, told, grounded>>

ReplaceCvFacts ==
  /\ parsing # {} /\ parsing' = {}
  /\ cv' = [t \in Topics |->
       IF \E v \in Values[t] : <<t, v>> \in parsing
       THEN [value |-> CHOOSE v \in Values[t] : <<t, v>> \in parsing, active |-> TRUE]
       ELSE [cv[t] EXCEPT !.active = FALSE]]
  /\ UNCHANGED <<facts, master, writing, told, grounded>>

UpdateFails == parsing # {} /\ parsing' = {} /\ UNCHANGED <<facts, master, cv, writing, told, grounded>>

CvFacts    == {<<t, cv[t].value>> : t \in {u \in Topics : cv[u].active}}
EveryCvRow == {<<t, cv[t].value>> : t \in {u \in Topics : cv[u].value # "none"}}

(* What the tailor may draw on, and the text of the master CV. *)
FactsText  == CvFacts \union {c \in Verified : c[1] = "skill"}
MasterText == IF master # {} THEN master ELSE FactsText

-----------------------------------------------------------------------------
(* Texts *)

Draft(text, from, base) ==
  /\ writing = NotWriting
  /\ writing' = [text |-> text, from |-> from, base |-> base]
  /\ UNCHANGED <<facts, master, cv, parsing, told, grounded>>

(* Retrieval is by shared words: any of the verified facts may be found, and without one   *)
(* the answer is NEEDS_INPUT.                                                               *)
AnswerStart == \E found \in SUBSET Verified \ {{}} : Draft("answer", found, {})

(* The letter has every row of cv_facts, those of an earlier CV included. *)
CoverStart == Verified \union EveryCvRow # {} /\ Draft("cover", Verified \union EveryCvRow, {})

TailorStart == CvFacts # {} /\ Draft("cv", MasterText \union FactsText, MasterText)

Written(claims) ==
  /\ told' = claims /\ writing' = NotWriting
  /\ UNCHANGED <<facts, master, cv, parsing, grounded>>

(* The model uses what it was given; when it cannot be reached nothing is told. *)
Answered == writing.text \in {"answer", "cover"} /\ (Written(writing.from) \/ Written({}))

(* The tailor's model may add any claim; a draft with a claim that neither the master CV   *)
(* nor the facts of this moment support is replaced by the master CV.                      *)
Tailored ==
  /\ writing.text = "cv"
  /\ \E added \in {{}} \union {{c} : c \in Claims} :
       LET draft == writing.from \union added IN
       Written(IF draft \subseteq writing.base \union FactsText THEN draft ELSE writing.base)

(* A form's question about an experience is answered with a story as it stands. *)
StoryAnswer ==
  /\ facts["story"].verified /\ told' = {<<"story", facts["story"].value>>}
  /\ UNCHANGED <<facts, master, cv, parsing, writing, grounded>>

-----------------------------------------------------------------------------
(* Patterns and rules *)

(* A mutant of the next definition: an observation puts its row back to watching. *)
LogSignalAfresh(p, contradicts) ==
  signals' = [signals EXCEPT ![p] =
    [count |-> IF contradicts \/ @.count = Threshold THEN @.count ELSE @.count + 1,
     against |-> @.against \/ contradicts, status |-> "watching"]]

(* Counted up to the threshold. *)
LogSignal(p, contradicts) ==
  signals' = [signals EXCEPT ![p] =
    [count |-> IF contradicts \/ @.count = Threshold THEN @.count ELSE @.count + 1,
     against |-> @.against \/ contradicts, status |-> @.status]]

Observe(p, contradicts) ==
  LogSignal(p, contradicts) /\ UNCHANGED <<proposer, confirming, shown, rules, refused>>

SetStatus(p, status) == signals' = [signals EXCEPT ![p].status = status]

Candidates == {p \in Patterns : LET s == signals[p] IN
                 s.status = "watching" /\ ~s.against /\ s.count >= Threshold}

ProposeStart ==
  /\ ~proposer.busy /\ Candidates # {}
  /\ proposer' = [busy |-> TRUE, rows |-> Candidates, worded |-> {}]
  /\ UNCHANGED <<signals, confirming, shown, rules, refused>>

(* A model words a row; then the row is marked. *)
ProposeOne ==
  /\ \E p \in proposer.rows :
       /\ SetStatus(p, "proposed")
       /\ proposer' = [proposer EXCEPT !.rows = @ \ {p}, !.worded = @ \union {p}]
  /\ UNCHANGED <<confirming, shown, rules, refused>>

(* The message is sent at the end, and may be lost. *)
ProposeSend ==
  /\ proposer.busy /\ proposer.rows = {} /\ proposer' = Quiet
  /\ shown' \in {shown, shown \union proposer.worded}
  /\ UNCHANGED <<signals, confirming, rules, refused>>

Held == proposer.rows \union proposer.worded \union {confirming}

DeclineRule(p) ==
  /\ p \in shown /\ SetStatus(p, "declined")
  /\ refused' = IF p \in Held THEN refused ELSE refused \union {p}
  /\ UNCHANGED <<proposer, confirming, shown, rules>>

NotNow(p) ==
  /\ p \in shown /\ SetStatus(p, "watching") /\ refused' = refused \ {p}
  /\ UNCHANGED <<proposer, confirming, shown, rules>>

(* The rule is worded again, not taken from the proposal. *)
ConfirmStart(p) ==
  /\ p \in shown /\ confirming = "none" /\ confirming' = p /\ refused' = refused \ {p}
  /\ UNCHANGED <<signals, proposer, shown, rules>>

InBounds(text) == text \notin Breaching \union Unread

ConfirmEnd ==
  /\ confirming # "none" /\ confirming' = "none"
  /\ \E text \in Texts :
       IF InBounds(text)
       THEN rules' = [rules EXCEPT ![text] = "active"] /\ SetStatus(confirming, "confirmed")
       ELSE UNCHANGED <<rules, signals>>
  /\ UNCHANGED <<proposer, shown, refused>>

(* What he says in a retro is logged like any other signal, once per rule found in it. *)
RetroMine(p) == (\E text \in Texts : InBounds(text)) /\ Observe(p, FALSE)

Remember(text) ==
  /\ rules' = [rules EXCEPT ![text] = "active"]
  /\ UNCHANGED <<signals, proposer, confirming, shown, refused>>

Forget(text) ==
  /\ rules[text] = "active" /\ rules' = [rules EXCEPT ![text] = "dropped"]
  /\ UNCHANGED <<signals, proposer, confirming, shown, refused>>

-----------------------------------------------------------------------------
FactsNext ==
  /\ Goes("facts")
  /\ \/ \E v \in Values["skill"] : Interview(v) \/ ImportGithub(v)
     \/ \E t \in Topics, accept \in BOOLEAN : Verify(t, accept)
     \/ Answered
     \/ Goes("stories") /\ \/ \E v \in Values["story"] : BuildStory(v)
                           \/ \E v \in Values["flips"] : FeedLedger(v)
                           \/ AnswerStart \/ StoryAnswer
     \/ Goes("cvs") /\ \/ \E v \in Values["skill"] : PutMaster(v)
                       \/ CvUpdate \/ ReplaceCvFacts \/ UpdateFails
                       \/ CoverStart \/ TailorStart \/ Tailored
  /\ UNCHANGED noticing

RulesNext ==
  /\ Goes("rules")
  /\ \/ \E p \in Patterns : \/ \E contradicts \in BOOLEAN : Observe(p, contradicts)
                            \/ DeclineRule(p) \/ NotNow(p) \/ ConfirmStart(p) \/ RetroMine(p)
     \/ ProposeStart \/ ProposeOne \/ ProposeSend \/ ConfirmEnd
     \/ \E text \in Texts : Remember(text) \/ Forget(text)
  /\ UNCHANGED knowing

PersonaNext == (FactsNext \/ RulesNext) /\ UNCHANGED daily

-----------------------------------------------------------------------------
(* An answer, a letter or a CV makes no claim that he did not make or confirm at some      *)
(* time, or that was not measured: an imported fact takes the place of a verified one      *)
(* without its trust, and what a model adds to a CV is found out (persona_store.py:72,     *)
(* memory.py:955, cv_tailor.py:343).                                                       *)
OnlyGroundedIsTold == told \subseteq grounded

(* A pattern he declined is not proposed again, however often it goes on repeating         *)
(* (adaptive.py:219): unless he takes it back himself, it stays out of every later run of  *)
(* propose.                                                                                *)
NoMeansNo == \A p \in refused : p \notin proposer.rows
=============================================================================
