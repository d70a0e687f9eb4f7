--------------------------- MODULE RecoveryState ---------------------------
(* The recovery state machine of recovery_state.py: the life cycle that every   *)
(* mutation of the user's network settings has to follow,                       *)
(*    OFF -> SAVE_ORIGINAL -> APPLY -> VERIFY -> ACTIVE                          *)
(*        -> RESTORE -> VERIFY -> OFF,                                           *)
(* where VERIFY is proving either ACTIVE or OFF.  A method called in another     *)
(* state raises RecoveryTransitionError and changes nothing: a disabled action.  *)
EXTENDS Naturals, Sequences

CONSTANT MaxHistory      \* bound on the length of the transition history

ASSUME MaxHistoryAssumption == MaxHistory \in Nat

VARIABLES
    state,                \* _state
    verification_target,  \* _verification_target
    history               \* _history

machineVars == <<state, verification_target, history>>

States == {"OFF", "SAVE_ORIGINAL", "APPLY", "VERIFY", "ACTIVE", "RESTORE"}
Targets == {"NONE", "ACTIVE", "OFF"}
Transition == [previous : States, current : States, target : Targets]

MachineInit ==
    /\ state = "OFF"
    /\ verification_target = "NONE"
    /\ history = <<>>

(* _move: the new state, its target, and the transition on record. *)
Move(to, target) ==
    /\ Len(history) < MaxHistory
    /\ state' = to
    /\ verification_target' = target
    /\ history' = Append(history,
                         [previous |-> state, current |-> to, target |-> target])

(* _require and _require_verification_target. *)
Require(expected) == state = expected
RequireTarget(target) == state = "VERIFY" /\ verification_target = target

(* Mutants: a failed apply or a failed verification straight back to OFF, and a  *)
(* state passed for a target.                                                    *)
ApplyFailedToOff == Require("APPLY") /\ Move("OFF", "NONE")
OffAnyway == RequireTarget("OFF") /\ Move("OFF", "NONE")
StateForTarget == Require("RESTORE") /\ Move("VERIFY", "RESTORE")

begin_activation == Require("OFF") /\ Move("SAVE_ORIGINAL", "NONE")
original_saved == Require("SAVE_ORIGINAL") /\ Move("APPLY", "NONE")
abort_before_apply == Require("SAVE_ORIGINAL") /\ Move("OFF", "NONE")
apply_completed == Require("APPLY") /\ Move("VERIFY", "ACTIVE")
apply_failed == Require("APPLY") /\ Move("RESTORE", "NONE")
active_verified == RequireTarget("ACTIVE") /\ Move("ACTIVE", "NONE")
active_verification_failed == RequireTarget("ACTIVE") /\ Move("RESTORE", "NONE")
begin_restore == Require("ACTIVE") /\ Move("RESTORE", "NONE")
restore_completed == Require("RESTORE") /\ Move("VERIFY", "OFF")
off_verified == RequireTarget("OFF") /\ Move("OFF", "NONE")
off_verification_failed == RequireTarget("OFF") /\ Move("RESTORE", "NONE")

(* recovery_required: the network may hold values the launcher wrote. *)
recovery_required == state \in {"APPLY", "VERIFY", "ACTIVE", "RESTORE"}

MachineNext ==
    \/ begin_activation \/ original_saved \/ abort_before_apply
    \/ apply_completed \/ apply_failed
    \/ active_verified \/ active_verification_failed
    \/ begin_restore \/ restore_completed
    \/ off_verified \/ off_verification_failed

MachineSpec == MachineInit /\ [][MachineNext]_machineVars

-----------------------------------------------------------------------------
MachineTypeOK ==
    /\ state \in States
    /\ verification_target \in Targets
    /\ history \in Seq(Transition)
    /\ Len(history) <= MaxHistory

(* The index of the last transition into state s at or before i, 0 if none. *)
LastInto(s, i) ==
    LET into == {j \in 1..i : history[j].current = s}
    IN  IF into = {} THEN 0 ELSE CHOOSE j \in into : \A k \in into : k <= j

(* RECOVERY_STATE_MACHINE.md, invariants 1 to 6, read off the whole history:     *)
(* every ACTIVE was reached through VERIFY(ACTIVE) of an APPLY that a            *)
(* SAVE_ORIGINAL of the same cycle preceded, and every OFF was reached through   *)
(* VERIFY(OFF) unless that cycle never applied anything.                         *)
CyclesAreVerified ==
    \A i \in 1..Len(history) :
        /\ history[i].current = "ACTIVE" =>
             /\ LastInto("VERIFY", i) = i - 1
             /\ history[i - 1].target = "ACTIVE"
             /\ LastInto("APPLY", i) = i - 2
             /\ LastInto("SAVE_ORIGINAL", i) > LastInto("OFF", i)
        /\ history[i].current = "OFF" =>
             \/ LastInto("VERIFY", i) = i - 1 /\ history[i - 1].target = "OFF"
             \/ LastInto("APPLY", i - 1) <= LastInto("OFF", i - 1)

=============================================================================
