----------------------- MODULE MCConfigurationStorage -----------------------
(* Instances of ConfigurationStorage with two configurations. *)
EXTENDS ConfigurationStorage, TLC

CONSTANTS p1, p2, c1, c2

(* A new installation, one of an old version with plaintext credentials in one   *)
(* or both files, and one that has been saved twice.                             *)
Fresh == [f \in Files |-> NoFile]
Legacy == [Fresh EXCEPT !["primary"] = [id |-> c1, form |-> "plain"]]
LegacyCopy == [f \in Files |-> [id |-> c1, form |-> "plain"]]
TwoGenerations == ("primary" :> [id |-> c2, form |-> "dpapi"])
                  @@ ("lastgood" :> [id |-> c1, form |-> "dpapi"])

(* Three saves, with one fault of each kind and two damaged files. *)
FaultBudget ==
    [k \in Events |-> CASE k = "save" -> 3 [] k = "damage" -> 2 [] OTHER -> 1]
(* Two saves, two damaged files, one failing access and one kill. *)
PairBudget ==
    [k \in Events |-> CASE k \in {"save", "damage"} -> 2 [] k = "dpapi" -> 0 [] OTHER -> 1]
(* One damaged file, and a kill. *)
KillBudget ==
    [k \in Events |-> CASE k \in {"damage", "crash"} -> 1 [] OTHER -> 0]
Scenario(procs0, file0, budget) == [procs |-> procs0, file |-> file0, left |-> budget]
(* One process from every kind of installation, and two from a current one. *)
MCScenarios ==
    {Scenario({p1}, f, FaultBudget) : f \in {Fresh, Legacy, LegacyCopy, TwoGenerations}}
    \cup {Scenario({p1, p2}, f, PairBudget) : f \in {Fresh, TwoGenerations}}
KillScenarios == {Scenario({p1}, TwoGenerations, KillBudget)}
=============================================================================
