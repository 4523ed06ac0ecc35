------------------------------- MODULE Skills -------------------------------
(***************************************************************************)
(* The skills that share no rows, beside each other: news, events, study,  *)
(* persona and rules, the models, the check of hosts, the scoring of deals.*)
(* A behaviour is about the activities of its scope.                       *)
(***************************************************************************)
EXTENDS News, Events, Study, Persona, Models, Recon, Scoring

skillsVars == <<newsVars, eventsVars, studyVars, personaVars, modelsVars, reconVars,
                scoringVars>>

SkillsInit ==
  /\ DailyInit /\ NewsInit /\ EventsInit /\ StudyInit /\ PersonaInit
  /\ ModelsInit /\ ReconInit /\ ScoringInit

Newly    == /\ About({"news", "boards"}) /\ NewsNext
            /\ UNCHANGED <<eventsVars, studyVars, personaVars, modelsVars, reconVars, scoringVars>>
Eventful == /\ About({"events", "planner"}) /\ EventsNext
            /\ UNCHANGED <<newsVars, studyVars, personaVars, modelsVars, reconVars, scoringVars>>
Studying == /\ About({"quiz", "sm2", "cards", "lessons", "interviews", "vault", "lectures"})
            /\ StudyNext
            /\ UNCHANGED <<newsVars, eventsVars, personaVars, modelsVars, reconVars, scoringVars>>
Knowing  == /\ About({"facts", "rules"}) /\ PersonaNext
            /\ UNCHANGED <<newsVars, eventsVars, studyVars, modelsVars, reconVars, scoringVars>>
Asking   == /\ About({"models"}) /\ ModelsNext
            /\ UNCHANGED <<newsVars, eventsVars, studyVars, personaVars, reconVars, scoringVars>>
Watching == /\ About({"recon"}) /\ ReconNext
            /\ UNCHANGED <<newsVars, eventsVars, studyVars, personaVars, modelsVars, scoringVars>>
Dealing  == /\ About({"scoring"}) /\ ScoringNext
            /\ UNCHANGED <<newsVars, eventsVars, studyVars, personaVars, modelsVars, reconVars>>

SkillsNext ==
  Newly \/ Eventful \/ Studying \/ Knowing \/ Asking \/ Watching \/ Dealing

SkillsSpec == /\ SkillsInit /\ [][SkillsNext]_<<daily, skillsVars>>
              /\ NewsFair /\ EventsFair /\ StudyFair
=============================================================================
