-------------------------- MODULE EvidenceProtocol --------------------------
(* What every system-proxy backend of the launcher promises about one store of   *)
(* user settings (WinINET, the user environment, a NetworkManager profile, ...): *)
(* values are changed only while durable evidence of their originals is held,    *)
(* and the evidence goes only when no changed value is left.  The backend_       *)
(* contract documents it, the backends implement it.                             *)
EXTENDS Naturals

CONSTANT Governed         \* the governed values of the store

VARIABLES
    evidence,            \* "none", "held", or "ambiguous": there, but not readable
    dirty                \* the values that hold what the launcher put there

evidenceVars == <<evidence, dirty>>

EvidenceInit == evidence = "none" /\ dirty = {}

(* The originals are recorded while all of them are still in place. *)
Capture ==
    /\ evidence = "none" /\ dirty = {}
    /\ evidence' = "held"
    /\ UNCHANGED dirty

(* What an older installation left behind may turn out not to be readable. *)
Inherit ==
    /\ evidence = "none" /\ dirty = {}
    /\ evidence' = "ambiguous"
    /\ UNCHANGED dirty

Mutate(n) ==
    /\ evidence = "held"
    /\ dirty' = dirty \cup {n}
    /\ UNCHANGED evidence

(* A value is put back, or another program takes it over. *)
Revert(n) ==
    /\ dirty' = dirty \ {n}
    /\ UNCHANGED evidence

Discard ==
    /\ evidence = "held" /\ dirty = {}
    /\ evidence' = "none"
    /\ UNCHANGED dirty

(* Evidence that became unreadable is kept for the user to look at. *)
Damage ==
    /\ evidence = "held"
    /\ evidence' = "ambiguous"
    /\ UNCHANGED dirty

EvidenceNext ==
    \/ Capture \/ Inherit \/ Discard \/ Damage
    \/ \E n \in Governed : Mutate(n) \/ Revert(n)

EvidenceSpec == EvidenceInit /\ [][EvidenceNext]_evidenceVars

EvidenceTypeOK ==
    /\ evidence \in {"none", "held", "ambiguous"}
    /\ dirty \subseteq Governed

(* No changed value without evidence of its original. *)
DirtyIsCovered == dirty # {} => evidence # "none"
=============================================================================
