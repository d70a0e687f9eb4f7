------------------------- MODULE RecoveryOwnership -------------------------
(* The ownership guards of recovery_ownership.py.  Every launcher process that   *)
(* may touch the network builds one guard; a guard pins the first evidence       *)
(* record it is shown and decides from that record alone who may APPLY and who   *)
(* may RESTORE.                                                                  *)
(* A digest that is not a SHA-256, an empty field or an empty reason raises      *)
(* before anything is changed: those records are outside Evidence.               *)
EXTENDS Naturals

CONSTANTS Actors, Operations, Scopes, NoEvidence

Evidence == [owner_id : Actors, operation_id : Operations, resource_scope : Scopes]

ASSUME NoEvidenceAssumption == NoEvidence \notin Evidence

VARIABLES
    alive,      \* the actors whose process is running
    scope,      \* expected_scope of each actor's guard
    admitted,   \* _admitted_identity of each actor's guard
    claim       \* evidence_identity of _claim, successor_owner_id being the actor

guardVars == <<alive, scope, admitted, claim>>

GuardInit ==
    /\ alive = Actors
    /\ scope \in [Actors -> Scopes]
    /\ admitted = [a \in Actors |-> NoEvidence]
    /\ claim = [a \in Actors |-> NoEvidence]

(* Mutant of Admissible: a guard accepts whatever record it is shown. *)
AdmissibleUnpinned(a, e) == e.resource_scope = scope[a]

(* admit: evidence of another scope, or other than the pinned record, raises. *)
Admissible(a, e) ==
    /\ e.resource_scope = scope[a]
    /\ admitted[a] \in {NoEvidence, e}

admit(a, e) ==
    /\ Admissible(a, e)
    /\ admitted' = [admitted EXCEPT ![a] = e]

(* claim_orphaned: admit has pinned the record before the claim is refused to    *)
(* the record's own owner.                                                       *)
claim_orphaned(a, e) ==
    /\ admit(a, e)
    /\ claim' = IF a = e.owner_id THEN claim ELSE [claim EXCEPT ![a] = e]

(* Mutant of Authorized: a claim extends to every purpose. *)
AuthorizedByClaim(a, e, purpose) ==
    Admissible(a, e) /\ (a = e.owner_id \/ claim[a] = e)

(* authorize: what it answers once the record is admitted. *)
Authorized(a, e, purpose) ==
    /\ Admissible(a, e)
    /\ \/ a = e.owner_id
       \/ purpose = "RESTORE" /\ claim[a] = e

(* An authorize that raises all the same: the record stays admitted. *)
refuse(a, e, purpose) ==
    /\ admit(a, e) /\ ~Authorized(a, e, purpose)
    /\ UNCHANGED <<alive, scope, claim>>

(* A launcher process that dies takes its guard with it; its successor starts    *)
(* with an empty one.                                                            *)
Die(a) ==
    /\ a \in alive
    /\ alive' = alive \ {a}
    /\ admitted' = [admitted EXCEPT ![a] = NoEvidence]
    /\ claim' = [claim EXCEPT ![a] = NoEvidence]
    /\ UNCHANGED scope

GuardTypeOK ==
    /\ alive \subseteq Actors
    /\ scope \in [Actors -> Scopes]
    /\ admitted \in [Actors -> Evidence \cup {NoEvidence}]
    /\ claim \in [Actors -> Evidence \cup {NoEvidence}]

=============================================================================
