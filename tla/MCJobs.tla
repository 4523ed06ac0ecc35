------------------------------- MODULE MCJobs -------------------------------
(* A small instance of Jobs for TLC. *)
EXTENDS Jobs

Activities == {{"hunt", "approve", "skip"}, {"hunt", "outage", "sweep", "time"},
               {"hunt", "faults", "sweep", "time"}, {"hunt", "twins", "approve", "skip"},
               {"hunt", "windows"},
               {"listed", "approve", "skip", "tailor", "sweep", "time"},
               {"listed", "approve", "faults"}, {"watch", "faults"}}
Routes == [j \in Postings |-> IF j = 2 THEN "signup" ELSE "email"]
=============================================================================
