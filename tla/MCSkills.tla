------------------------------ MODULE MCSkills ------------------------------
(* A small instance of Skills for TLC. *)
EXTENDS Skills

Activities ==
  {{"news", "briefing", "asking"}, {"news", "ageing", "briefing"},
   {"news", "ageing", "breaking", "faults"}, {"boards"},
   {"events", "days", "closing", "faults", "choices"},
   {"events", "days", "closing", "digest", "faults"},
   {"events", "days", "reminders", "choices", "faults"}, {"planner"},
   {"quiz"}, {"sm2"}, {"cards"}, {"lessons"}, {"interviews"}, {"vault", "faults"}, {"lectures", "faults"},
   {"facts", "stories"}, {"facts", "cvs"}, {"rules"}, {"models"},
   {"recon", "faults"}, {"recon", "expecting"}, {"recon", "asking"}, {"scoring"}}
StoriesOf == <<1, 1, 2, 2, 1>>
GroupsOf  == <<"a", "b", "b", "a", "a">>
OneName   == [r \in {"r1", "r2"} |-> "lecture"]
ProblemsOf == {<<"h1", "open_port">>, <<"h1", "exposed_file">>}
ValuesOf  == [skill |-> {"v1", "v2"}, story |-> {"v1"}, flips |-> {"v1"}]

(* Whatever its history, a card answered better is never asked earlier, and one that *)
(* was known is asked later than it was the last time (schedule of sm2.py).          *)
ASSUME BetterIsLater ==
  \A days \in 0..60, ease \in 130..300 :
    LET after == [g \in Grades |-> Schedule([NewCard EXCEPT !.days = days, !.ease = ease], g).days] IN
    /\ after["again"] <= after["hard"] /\ after["hard"] <= after["good"]
    /\ after["good"] <= after["easy"] /\ after["good"] > days
=============================================================================
