-------------------------- MODULE MCWorkerLifecycle --------------------------
(* Instances of WorkerLifecycle with three processes: a worker and two commands. *)
EXTENDS WorkerLifecycle, TLC

MCIds == 1..6

Calm == [k \in Events |-> 0]
(* Commands one after another, with any three of the eight faults, once each. *)
OneByOne == {[overlap |-> 1,
            budget |-> [k \in Events |-> IF k = "start" THEN 2 ELSE IF k \in f THEN 1 ELSE 0]] :
              f \in {g \in SUBSET (Events \ {"start"}) : Cardinality(g) = 3}}
(* Two commands at the same time, and at most a PID record that is not written. *)
Racing == [overlap |-> 2, budget |-> [Calm EXCEPT !["start"] = 2, !["pid"] = 1]]
MCScenarios == OneByOne \cup {Racing}

(* Two starts, and nothing goes wrong. *)
Twice == {[overlap |-> 1, budget |-> [Calm EXCEPT !["start"] = 2]]}
=============================================================================
