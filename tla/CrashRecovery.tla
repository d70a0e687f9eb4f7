--------------------------- MODULE CrashRecovery ---------------------------
(* The recovery state machine and the ownership guards at work together, the     *)
(* way tests/test_crash_recovery.py composes them: the machine is the durable    *)
(* checkpoint, the evidence record is durable beside it, the guards live and     *)
(* die with their processes, and a caller advances the machine only after its    *)
(* guard has authorized the step.                                                *)
EXTENDS RecoveryState, RecoveryOwnership

VARIABLES
    record,    \* the durable evidence record, NoEvidence when there is none
    network,   \* "original", or "changed" once an APPLY may have written
    writers    \* history: the actors that applied anything in this cycle

vars == <<machineVars, guardVars, record, network, writers>>

Init == MachineInit /\ GuardInit /\ record = NoEvidence
        /\ network = "original" /\ writers = {}

(* authorize admits the record, then answers. *)
Authorize(a, purpose) ==
    /\ a \in alive /\ record # NoEvidence
    /\ Authorized(a, record, purpose)
    /\ admit(a, record)
    /\ UNCHANGED <<alive, scope, claim>>

(* A step that is refused leaves the record pinned all the same. *)
Refused(a) ==
    /\ a \in alive /\ record # NoEvidence
    /\ \E purpose \in {"APPLY", "RESTORE"} : refuse(a, record, purpose)
    /\ UNCHANGED <<machineVars, record, network, writers>>

BeginActivation(a) ==
    /\ a \in alive /\ record = NoEvidence
    /\ begin_activation
    /\ UNCHANGED <<guardVars, record, network, writers>>

(* The owner records its evidence before the first write. *)
SaveOriginal(a, e) ==
    /\ a \in alive /\ e.owner_id = a
    /\ Authorized(a, e, "APPLY") /\ admit(a, e)
    /\ original_saved
    /\ record' = e
    /\ UNCHANGED <<alive, scope, claim, network, writers>>

Abort(a) ==
    /\ a \in alive
    /\ abort_before_apply
    /\ UNCHANGED <<guardVars, record, network, writers>>

(* Each write of APPLY is authorized; it may succeed or fail half way. *)
Apply(a) ==
    /\ Authorize(a, "APPLY")
    /\ apply_completed \/ apply_failed
    /\ network' = "changed"
    /\ writers' = writers \cup {a}
    /\ UNCHANGED record

VerifyActive(a) ==
    /\ Authorize(a, "APPLY")
    /\ active_verified \/ active_verification_failed
    /\ UNCHANGED <<record, network, writers>>

(* A successor sends an interrupted activation back through RESTORE. *)
TakeOver(a) ==
    /\ Authorize(a, "RESTORE")
    /\ apply_failed \/ active_verification_failed \/ begin_restore
    /\ UNCHANGED <<record, network, writers>>

(* The restoring write may leave the network as it was. *)
Restore(a) ==
    /\ Authorize(a, "RESTORE")
    /\ restore_completed
    /\ network' \in {network, "original"}
    /\ UNCHANGED <<record, writers>>

VerifyOff(a) ==
    /\ Authorize(a, "RESTORE")
    /\ IF network = "original"
         THEN off_verified /\ record' = NoEvidence /\ writers' = {}
         ELSE off_verification_failed /\ UNCHANGED <<record, writers>>
    /\ UNCHANGED network

Claim(a) ==
    /\ a \in alive /\ record # NoEvidence
    /\ claim_orphaned(a, record)
    /\ UNCHANGED <<machineVars, alive, scope, record, network, writers>>

Crash(a) == Die(a) /\ UNCHANGED <<machineVars, record, network, writers>>

Next ==
    \/ \E a \in Actors :
         \/ BeginActivation(a) \/ Abort(a) \/ Apply(a) \/ VerifyActive(a)
         \/ TakeOver(a) \/ Restore(a) \/ VerifyOff(a) \/ Claim(a) \/ Crash(a)
         \/ Refused(a)
    \/ \E a \in Actors, e \in Evidence : SaveOriginal(a, e)

Spec == Init /\ [][Next]_vars

-----------------------------------------------------------------------------
(* The machine is in a declared state, and guards hold records of their kind. *)
TypeOK ==
    /\ MachineTypeOK /\ GuardTypeOK
    /\ record \in Evidence \cup {NoEvidence}
    /\ network \in {"original", "changed"}
    /\ writers \subseteq Actors

(* CRASH_RECOVERY_TESTS.md: OFF is never reported, whoever died and whoever took *)
(* over, while the network may still hold what APPLY wrote or while the evidence *)
(* is still on record (is_safe_off).                                             *)
OffMeansRestored == state = "OFF" => network = "original" /\ record = NoEvidence

(* RECOVERY_OWNERSHIP.md, rules 1 and 4: within one cycle only the actor that    *)
(* captured the original state ever applies anything; a successor's claim,       *)
(* however it was obtained, never extends to APPLY.                              *)
OnlyOwnerApplies == record # NoEvidence => writers \subseteq {record.owner_id}

(* RECOVERY_OWNERSHIP.md, rule 5: a guard that has pinned a record never comes   *)
(* to hold another one while its process lives, and its claim is over that       *)
(* record.                                                                       *)
EvidencePinned ==
    [][\A a \in Actors :
         /\ admitted[a] # NoEvidence /\ a \in alive' => admitted'[a] = admitted[a]
         /\ claim'[a] # NoEvidence => claim'[a] = admitted'[a]]_vars
=============================================================================
