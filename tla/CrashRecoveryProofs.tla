------------------------ MODULE CrashRecoveryProofs ------------------------
(* Proofs about the recovery state machine and the ownership guards at work      *)
(* together, for any actors, operations, scopes and length of the history.       *)
EXTENDS CrashRecovery, TLAPS

USE NoEvidenceAssumption, MaxHistoryAssumption

(* What no step of the machine, the guards or a crash can break. *)
RecoveryInv ==
    /\ TypeOK
    /\ state \in {"OFF", "SAVE_ORIGINAL"} => network = "original" /\ record = NoEvidence
    /\ record = NoEvidence => writers = {}
    /\ OnlyOwnerApplies
    /\ \A a \in Actors : claim[a] # NoEvidence => claim[a] = admitted[a]

-----------------------------------------------------------------------------
(* Operators.                                                                    *)

(* A move leaves the machine in a declared state with one transition more. *)
LEMMA MoveTyped ==
    ASSUME MachineTypeOK, NEW to \in States, NEW target \in Targets, Move(to, target)
    PROVE  MachineTypeOK'
  <1>1. [previous |-> state, current |-> to, target |-> target] \in Transition
    BY DEF MachineTypeOK, Transition
  <1>2. history' \in Seq(Transition) /\ Len(history') = Len(history) + 1
    BY <1>1 DEF Move, MachineTypeOK
  <1> QED BY <1>2 DEF Move, MachineTypeOK

(* Every method of the machine is a move. *)
LEMMA MachineStep ==
    ASSUME MachineTypeOK, MachineNext
    PROVE  MachineTypeOK'
  <1> USE DEF States, Targets
  <1>1. \E to \in States, target \in Targets : Move(to, target)
    BY DEF MachineNext, begin_activation, original_saved, abort_before_apply,
           apply_completed, apply_failed, active_verified, active_verification_failed,
           begin_restore, restore_completed, off_verified, off_verification_failed
  <1> QED BY <1>1, MoveTyped

(* A guard that admits a record pins it. *)
LEMMA AdmitTyped ==
    ASSUME GuardTypeOK, NEW a \in Actors, NEW e \in Evidence, admit(a, e)
    PROVE  /\ admitted' \in [Actors -> Evidence \cup {NoEvidence}]
           /\ admitted'[a] = e
           /\ admitted[a] \in {NoEvidence, e}
           /\ \A b \in Actors \ {a} : admitted'[b] = admitted[b]
  BY DEF GuardTypeOK, admit, Admissible

(* Only the owner of a record is authorized to apply. *)
LEMMA ApplyIsTheOwners ==
    ASSUME NEW a, NEW e, Authorized(a, e, "APPLY")
    PROVE  a = e.owner_id
  BY DEF Authorized

LEMMA AuthorizeEffect ==
    ASSUME RecoveryInv, NEW a \in Actors, NEW purpose, Authorize(a, purpose)
    PROVE  /\ GuardTypeOK' /\ record \in Evidence
           /\ claim' = claim /\ alive' = alive
           /\ admitted[a] \in {NoEvidence, record}
           /\ \A b \in Actors : claim'[b] # NoEvidence => claim'[b] = admitted'[b]
  <1>1. record \in Evidence /\ GuardTypeOK
    BY DEF RecoveryInv, TypeOK, Authorize
  <1>2. admit(a, record) /\ UNCHANGED <<alive, scope, claim>>
    BY DEF Authorize
  <1>3. /\ admitted' \in [Actors -> Evidence \cup {NoEvidence}]
        /\ admitted'[a] = record
        /\ admitted[a] \in {NoEvidence, record}
        /\ \A b \in Actors \ {a} : admitted'[b] = admitted[b]
    BY <1>1, <1>2, AdmitTyped
  <1>4. \A b \in Actors : claim[b] # NoEvidence => claim[b] = admitted[b]
    BY DEF RecoveryInv
  <1> QED BY <1>1, <1>2, <1>3, <1>4 DEF GuardTypeOK

-----------------------------------------------------------------------------
LEMMA RecoveryInit == Init => RecoveryInv
  BY DEF Init, MachineInit, GuardInit, RecoveryInv, TypeOK, MachineTypeOK, GuardTypeOK,
         OnlyOwnerApplies, States, Targets

LEMMA RecoveryStep ==
    ASSUME RecoveryInv, [Next]_vars
    PROVE  RecoveryInv'
  <1>0. TypeOK /\ MachineTypeOK /\ GuardTypeOK
    BY DEF RecoveryInv, TypeOK
  <1>a. ASSUME NEW a \in Actors, BeginActivation(a) PROVE RecoveryInv'
    <2>1. MachineTypeOK'
      BY <1>0, <1>a, MachineStep DEF BeginActivation, MachineNext
    <2> QED BY <1>0, <1>a, <2>1 DEF BeginActivation, begin_activation, Require, Move,
              RecoveryInv, TypeOK, GuardTypeOK, guardVars, OnlyOwnerApplies
  <1>b. ASSUME NEW a \in Actors, Abort(a) PROVE RecoveryInv'
    <2>1. MachineTypeOK'
      BY <1>0, <1>b, MachineStep DEF Abort, MachineNext
    <2> QED BY <1>0, <1>b, <2>1 DEF Abort, abort_before_apply, Require, Move,
              RecoveryInv, TypeOK, GuardTypeOK, guardVars, OnlyOwnerApplies
  <1>c. ASSUME NEW a \in Actors, Apply(a) PROVE RecoveryInv'
    <2>1. MachineTypeOK'
      BY <1>0, <1>c, MachineStep DEF Apply, MachineNext
    <2>2. state' \notin {"OFF", "SAVE_ORIGINAL"}
      BY <1>c DEF Apply, apply_completed, apply_failed, Move
    <2>3. a = record.owner_id
      BY <1>c, ApplyIsTheOwners DEF Apply, Authorize
    <2>4. Authorize(a, "APPLY") /\ network' = "changed" /\ record' = record
          /\ writers' = writers \cup {a}
      BY <1>c DEF Apply
    <2>5. /\ GuardTypeOK' /\ record \in Evidence
          /\ \A b \in Actors : claim'[b] # NoEvidence => claim'[b] = admitted'[b]
      BY <2>4, AuthorizeEffect
    <2> QED BY <1>0, <2>1, <2>2, <2>3, <2>4, <2>5 DEF RecoveryInv, TypeOK, OnlyOwnerApplies
  <1>d. ASSUME NEW a \in Actors, VerifyActive(a) \/ TakeOver(a) PROVE RecoveryInv'
    <2>1. MachineTypeOK'
      BY <1>0, <1>d, MachineStep DEF VerifyActive, TakeOver, MachineNext
    <2>2. state' \notin {"OFF", "SAVE_ORIGINAL"}
      BY <1>d DEF VerifyActive, TakeOver, active_verified, active_verification_failed,
                  apply_failed, begin_restore, Move
    <2>3. PICK purpose \in {"APPLY", "RESTORE"} : Authorize(a, purpose)
      BY <1>d DEF VerifyActive, TakeOver
    <2>4. UNCHANGED <<record, network, writers>>
      BY <1>d DEF VerifyActive, TakeOver
    <2>5. /\ GuardTypeOK' /\ record \in Evidence
          /\ \A b \in Actors : claim'[b] # NoEvidence => claim'[b] = admitted'[b]
      BY <2>3, AuthorizeEffect
    <2> QED BY <1>0, <2>1, <2>2, <2>4, <2>5 DEF RecoveryInv, TypeOK, OnlyOwnerApplies
  <1>e. ASSUME NEW a \in Actors, Restore(a) PROVE RecoveryInv'
    <2>1. MachineTypeOK'
      BY <1>0, <1>e, MachineStep DEF Restore, MachineNext
    <2>2. state' \notin {"OFF", "SAVE_ORIGINAL"}
      BY <1>e DEF Restore, restore_completed, Move
    <2>3. Authorize(a, "RESTORE") /\ network' \in {network, "original"}
          /\ UNCHANGED <<record, writers>>
      BY <1>e DEF Restore
    <2>4. /\ GuardTypeOK' /\ record \in Evidence
          /\ \A b \in Actors : claim'[b] # NoEvidence => claim'[b] = admitted'[b]
      BY <2>3, AuthorizeEffect
    <2> QED BY <1>0, <2>1, <2>2, <2>3, <2>4 DEF RecoveryInv, TypeOK, OnlyOwnerApplies
  <1>f. ASSUME NEW a \in Actors, VerifyOff(a) PROVE RecoveryInv'
    <2>1. MachineTypeOK'
      BY <1>0, <1>f, MachineStep DEF VerifyOff, MachineNext
    <2>2. Authorize(a, "RESTORE") /\ network' = network
      BY <1>f DEF VerifyOff
    <2>3. /\ GuardTypeOK' /\ record \in Evidence
          /\ \A b \in Actors : claim'[b] # NoEvidence => claim'[b] = admitted'[b]
      BY <2>2, AuthorizeEffect
    <2>4. CASE network = "original"
      <3>1. record' = NoEvidence /\ writers' = {}
        BY <1>f, <2>4 DEF VerifyOff
      <3> QED BY <1>0, <2>1, <2>2, <2>3, <2>4, <3>1 DEF RecoveryInv, TypeOK, OnlyOwnerApplies
    <2>5. CASE network # "original"
      <3>1. UNCHANGED <<record, writers>> /\ state' = "RESTORE"
        BY <1>f, <2>5 DEF VerifyOff, off_verification_failed, Move
      <3> QED BY <1>0, <2>1, <2>2, <2>3, <3>1 DEF RecoveryInv, TypeOK, OnlyOwnerApplies
    <2> QED BY <2>4, <2>5
  <1>g. ASSUME NEW a \in Actors, Claim(a) PROVE RecoveryInv'
    <2>1. record \in Evidence /\ admit(a, record)
      BY <1>0, <1>g DEF Claim, claim_orphaned, TypeOK
    <2>2. /\ admitted' \in [Actors -> Evidence \cup {NoEvidence}]
          /\ admitted'[a] = record
          /\ admitted[a] \in {NoEvidence, record}
          /\ \A b \in Actors \ {a} : admitted'[b] = admitted[b]
      BY <1>0, <2>1, AdmitTyped
    <2>3. UNCHANGED <<machineVars, alive, scope, record, network, writers>>
          /\ claim' \in {claim, [claim EXCEPT ![a] = record]}
      BY <1>g DEF Claim, claim_orphaned
    <2>4. claim' \in [Actors -> Evidence \cup {NoEvidence}]
      BY <1>0, <2>1, <2>3 DEF GuardTypeOK
    <2>5. \A b \in Actors : claim'[b] # NoEvidence => claim'[b] = admitted'[b]
      BY <1>0, <2>1, <2>2, <2>3 DEF RecoveryInv, GuardTypeOK
    <2> QED BY <1>0, <2>2, <2>3, <2>4, <2>5 DEF RecoveryInv, TypeOK, OnlyOwnerApplies,
              GuardTypeOK, MachineTypeOK, machineVars
  <1>h. ASSUME NEW a \in Actors, Crash(a) PROVE RecoveryInv'
    <2>1. GuardTypeOK' /\ \A b \in Actors : claim'[b] # NoEvidence => claim'[b] = admitted'[b]
      BY <1>0, <1>h DEF Crash, Die, GuardTypeOK, RecoveryInv
    <2> QED BY <1>0, <1>h, <2>1 DEF Crash, RecoveryInv, TypeOK, OnlyOwnerApplies,
              MachineTypeOK, machineVars
  <1>i. ASSUME NEW a \in Actors, NEW e \in Evidence, SaveOriginal(a, e) PROVE RecoveryInv'
    <2>1. MachineTypeOK'
      BY <1>0, <1>i, MachineStep DEF SaveOriginal, MachineNext
    <2>2. state = "SAVE_ORIGINAL" /\ state' = "APPLY"
      BY <1>i DEF SaveOriginal, original_saved, Require, Move
    <2>3. record = NoEvidence /\ writers = {}
      BY <2>2 DEF RecoveryInv
    <2>4. record' = e /\ UNCHANGED <<alive, scope, claim, network, writers>> /\ admit(a, e)
      BY <1>i DEF SaveOriginal
    <2>5. /\ admitted' \in [Actors -> Evidence \cup {NoEvidence}]
          /\ admitted'[a] = e
          /\ admitted[a] \in {NoEvidence, e}
          /\ \A b \in Actors \ {a} : admitted'[b] = admitted[b]
      BY <1>0, <2>4, AdmitTyped
    <2>6. \A b \in Actors : claim'[b] # NoEvidence => claim'[b] = admitted'[b]
      BY <2>4, <2>5 DEF RecoveryInv
    <2> QED BY <1>0, <2>1, <2>2, <2>3, <2>4, <2>5, <2>6
            DEF RecoveryInv, TypeOK, OnlyOwnerApplies, GuardTypeOK
  <1>j. ASSUME NEW a \in Actors, Refused(a) PROVE RecoveryInv'
    <2>1. PICK purpose \in {"APPLY", "RESTORE"} : refuse(a, record, purpose)
      BY <1>j DEF Refused
    <2>2. record \in Evidence /\ admit(a, record) /\ UNCHANGED <<alive, scope, claim>>
      BY <1>0, <1>j, <2>1 DEF Refused, refuse, TypeOK
    <2>3. /\ admitted' \in [Actors -> Evidence \cup {NoEvidence}]
          /\ admitted'[a] = record
          /\ admitted[a] \in {NoEvidence, record}
          /\ \A b \in Actors \ {a} : admitted'[b] = admitted[b]
      BY <1>0, <2>2, AdmitTyped
    <2>4. UNCHANGED <<machineVars, record, network, writers>>
      BY <1>j DEF Refused
    <2>5. \A b \in Actors : claim'[b] # NoEvidence => claim'[b] = admitted'[b]
      BY <2>2, <2>3 DEF RecoveryInv
    <2> QED BY <1>0, <2>2, <2>3, <2>4, <2>5 DEF RecoveryInv, TypeOK, OnlyOwnerApplies,
              GuardTypeOK, MachineTypeOK, machineVars
  <1>k. CASE UNCHANGED vars
    BY <1>k DEF vars, machineVars, guardVars, RecoveryInv, TypeOK, MachineTypeOK,
                GuardTypeOK, OnlyOwnerApplies
  <1> QED BY <1>a, <1>b, <1>c, <1>d, <1>e, <1>f, <1>g, <1>h, <1>i, <1>j, <1>k DEF Next

-----------------------------------------------------------------------------
LEMMA RecoveryInvariant == Spec => []RecoveryInv
  BY RecoveryInit, RecoveryStep, PTL DEF Spec

(* recovery_state.py and recovery_ownership.py: the machine stays in declared    *)
(* states and guards hold records of their kind.                                 *)
THEOREM TypeCorrect == Spec => []TypeOK
  <1>1. RecoveryInv => TypeOK
    BY DEF RecoveryInv
  <1> QED BY <1>1, RecoveryInvariant, PTL

(* is_safe_off of recovery_state.py, whoever dies and whoever takes over. *)
THEOREM OffIsSafe == Spec => []OffMeansRestored
  <1>1. RecoveryInv => OffMeansRestored
    BY DEF RecoveryInv, OffMeansRestored
  <1> QED BY <1>1, RecoveryInvariant, PTL

(* authorize of recovery_ownership.py: a claim never extends to APPLY. *)
THEOREM OwnerApplies == Spec => []OnlyOwnerApplies
  <1>1. RecoveryInv => OnlyOwnerApplies
    BY DEF RecoveryInv
  <1> QED BY <1>1, RecoveryInvariant, PTL

(* A guard's pinned record changes only when its process dies. *)
LEMMA PinnedStep ==
    ASSUME RecoveryInv, RecoveryInv', Next, NEW a \in Actors
    PROVE  /\ admitted[a] # NoEvidence /\ a \in alive' => admitted'[a] = admitted[a]
           /\ claim'[a] # NoEvidence => claim'[a] = admitted'[a]
  <1>0. TypeOK /\ GuardTypeOK
    BY DEF RecoveryInv, TypeOK
  <1>1. claim'[a] # NoEvidence => claim'[a] = admitted'[a]
    BY DEF RecoveryInv
  <1>2. ASSUME NEW b \in Actors, NEW e \in Evidence, admit(b, e)
        PROVE  admitted[a] # NoEvidence => admitted'[a] = admitted[a]
    BY <1>0, <1>2, AdmitTyped
  <1>3. ASSUME NEW b \in Actors, Crash(b)
        PROVE  admitted[a] # NoEvidence /\ a \in alive' => admitted'[a] = admitted[a]
    BY <1>0, <1>3 DEF Crash, Die, GuardTypeOK
  <1>4. ASSUME NEW b \in Actors, BeginActivation(b) \/ Abort(b)
        PROVE  admitted' = admitted
    BY <1>4 DEF BeginActivation, Abort, guardVars
  <1>5. ASSUME NEW b \in Actors,
               Apply(b) \/ VerifyActive(b) \/ TakeOver(b) \/ Restore(b) \/ VerifyOff(b)
                 \/ Claim(b) \/ Refused(b)
        PROVE  record \in Evidence /\ admit(b, record)
    BY <1>0, <1>5 DEF Apply, VerifyActive, TakeOver, Restore, VerifyOff, Claim, Refused,
                      Authorize, claim_orphaned, refuse, TypeOK
  <1>6. ASSUME NEW b \in Actors, NEW e \in Evidence, SaveOriginal(b, e)
        PROVE  admit(b, e)
    BY <1>6 DEF SaveOriginal
  <1> QED BY <1>1, <1>2, <1>3, <1>4, <1>5, <1>6 DEF Next

(* admit of recovery_ownership.py pins the first record a guard is shown. *)
THEOREM GuardsStayPinned == Spec => EvidencePinned
  <1> DEFINE Pinned == \A a \in Actors :
               /\ admitted[a] # NoEvidence /\ a \in alive' => admitted'[a] = admitted[a]
               /\ claim'[a] # NoEvidence => claim'[a] = admitted'[a]
  <1>1. RecoveryInv /\ RecoveryInv' /\ [Next]_vars => [Pinned]_vars
    BY PinnedStep
  <1>2. [][Pinned]_vars <=> EvidencePinned
    BY DEF EvidencePinned
  <1> QED BY <1>1, <1>2, RecoveryInvariant, PTL DEF Spec

-----------------------------------------------------------------------------
(* The history of the machine.                                                   *)

(* LastInto, of a given history. *)
LastOf(h, s, i) ==
    LET into == {j \in 1..i : h[j].current = s}
    IN  IF into = {} THEN 0 ELSE CHOOSE j \in into : \A k \in into : k <= j

(* The same with a record appended: nothing changes before it, ... *)
LEMMA LastBefore ==
    ASSUME NEW T, NEW h \in Seq(T), NEW r \in T, NEW s, NEW i \in 0..Len(h)
    PROVE  LastOf(Append(h, r), s, i) = LastOf(h, s, i)
  <1> DEFINE before == {j \in 1..i : h[j].current = s}
             after == {j \in 1..i : Append(h, r)[j].current = s}
  <1>1. \A j \in 1..i : Append(h, r)[j] = h[j]
    OBVIOUS
  <1>2. after = before
    BY <1>1
  <1> HIDE DEF after, before
  <1>3. LastOf(Append(h, r), s, i)
          = IF after = {} THEN 0 ELSE CHOOSE j \in after : \A k \in after : k <= j
    BY DEF LastOf, after
  <1>4. LastOf(h, s, i)
          = IF before = {} THEN 0 ELSE CHOOSE j \in before : \A k \in before : k <= j
    BY DEF LastOf, before
  <1> QED BY <1>2, <1>3, <1>4

(* ... and it is the last one into its own state. *)
LEMMA LastAtEnd ==
    ASSUME NEW T, NEW h \in Seq(T), NEW r \in T, NEW s
    PROVE  LastOf(Append(h, r), s, Len(h) + 1)
             = IF r.current = s THEN Len(h) + 1 ELSE LastOf(h, s, Len(h))
  <1> DEFINE n == Len(h)
             before == {j \in 1..n : h[j].current = s}
             after == {j \in 1..(n + 1) : Append(h, r)[j].current = s}
  <1>0. n \in Nat /\ \A j \in 1..n : Append(h, r)[j] = h[j]
    OBVIOUS
  <1>1. Append(h, r)[n + 1] = r
    OBVIOUS
  <1>2. CASE r.current # s
    <2>1. after = before
      BY <1>0, <1>1, <1>2
    <2> HIDE DEF after, before
    <2>2. LastOf(Append(h, r), s, n + 1)
            = IF after = {} THEN 0 ELSE CHOOSE j \in after : \A k \in after : k <= j
      BY DEF LastOf, after
    <2>3. LastOf(h, s, n)
            = IF before = {} THEN 0 ELSE CHOOSE j \in before : \A k \in before : k <= j
      BY DEF LastOf, before
    <2> QED BY <1>2, <2>1, <2>2, <2>3
  <1>3. CASE r.current = s
    <2>1. n + 1 \in after /\ \A k \in after : k \in 1..(n + 1)
      BY <1>0, <1>1, <1>3
    <2>2. \A j \in after : (\A k \in after : k <= j) => j = n + 1
      BY <1>0, <2>1
    <2>3. \A k \in after : k <= n + 1
      BY <1>0, <2>1
    <2> HIDE DEF after
    <2>4. LastOf(Append(h, r), s, n + 1)
            = IF after = {} THEN 0 ELSE CHOOSE j \in after : \A k \in after : k <= j
      BY DEF LastOf, after
    <2>5. (CHOOSE j \in after : \A k \in after : k <= j) = n + 1
      BY <2>1, <2>2, <2>3
    <2> QED BY <1>3, <2>1, <2>4, <2>5
  <1> QED BY <1>2, <1>3

(* What CyclesAreVerified says of the transition i of history h, and that it is  *)
(* not the first one where it has a predecessor to speak of.                     *)
VerifiedAt(h, i) ==
    /\ h[i].current = "ACTIVE" =>
         /\ i > 1
         /\ LastOf(h, "VERIFY", i) = i - 1
         /\ h[i - 1].target = "ACTIVE"
         /\ LastOf(h, "APPLY", i) = i - 2
         /\ LastOf(h, "SAVE_ORIGINAL", i) > LastOf(h, "OFF", i)
    /\ h[i].current = "OFF" =>
         \/ i > 1 /\ LastOf(h, "VERIFY", i) = i - 1 /\ h[i - 1].target = "OFF"
         \/ LastOf(h, "APPLY", i - 1) <= LastOf(h, "OFF", i - 1)

(* Where the machine is, as read off its history.  The positions are numbers up  *)
(* to its length; the last transition is the one into the current state; and     *)
(* each state remembers what its cycle has passed.                               *)
CycleInv ==
    LET n == Len(history)
    IN  /\ MachineTypeOK
        /\ \A s \in States : LastOf(history, s, n) \in 0..n
        /\ n = 0 => state = "OFF"
        /\ n > 0 => history[n].current = state /\ history[n].target = verification_target
        /\ n > 0 => LastOf(history, state, n) = n
        /\ state \in {"OFF", "SAVE_ORIGINAL"}
             => LastOf(history, "APPLY", n) <= LastOf(history, "OFF", n)
        /\ state \in {"SAVE_ORIGINAL", "APPLY"} \/ verification_target = "ACTIVE"
             => LastOf(history, "SAVE_ORIGINAL", n) > LastOf(history, "OFF", n)
        /\ state = "VERIFY" /\ verification_target = "ACTIVE"
             => LastOf(history, "APPLY", n) = n - 1
        /\ verification_target # "NONE" => state = "VERIFY"
        /\ \A i \in 1..n : VerifiedAt(history, i)

LEMMA CyclesInit == MachineInit => CycleInv
  BY DEF MachineInit, CycleInv, MachineTypeOK, States, Targets, LastOf

LEMMA CyclesFollow == CycleInv => CyclesAreVerified
  <1> SUFFICES ASSUME CycleInv, NEW i \in 1..Len(history)
               PROVE  /\ history[i].current = "ACTIVE" =>
                           /\ LastInto("VERIFY", i) = i - 1
                           /\ history[i - 1].target = "ACTIVE"
                           /\ LastInto("APPLY", i) = i - 2
                           /\ LastInto("SAVE_ORIGINAL", i) > LastInto("OFF", i)
                      /\ history[i].current = "OFF" =>
                           \/ LastInto("VERIFY", i) = i - 1 /\ history[i - 1].target = "OFF"
                           \/ LastInto("APPLY", i - 1) <= LastInto("OFF", i - 1)
    BY DEF CyclesAreVerified
  <1>1. \A s, k : LastInto(s, k) = LastOf(history, s, k)
    BY DEF LastInto, LastOf
  <1> QED BY <1>1 DEF CycleInv, VerifiedAt

(* What a move does to the history, in those terms. *)
LEMMA MoveHistory ==
    ASSUME CycleInv, NEW to \in States, NEW target \in Targets, Move(to, target)
    PROVE  /\ MachineTypeOK' /\ Len(history) \in Nat
           /\ Len(history') = Len(history) + 1
           /\ history'[Len(history) + 1].current = to
           /\ history'[Len(history) + 1].target = target
           /\ \A i \in 1..Len(history) : history'[i] = history[i]
           /\ \A s \in States, i \in 0..Len(history) :
                LastOf(history', s, i) = LastOf(history, s, i)
           /\ \A s \in States : LastOf(history', s, Len(history) + 1)
                = IF to = s THEN Len(history) + 1 ELSE LastOf(history, s, Len(history))
  <1> DEFINE r == [previous |-> state, current |-> to, target |-> target]
  <1>1. MachineTypeOK /\ MachineTypeOK'
    BY MoveTyped DEF CycleInv
  <1>2. r \in Transition /\ history \in Seq(Transition) /\ history' = Append(history, r)
    BY <1>1 DEF Transition, MachineTypeOK, Move
  <1>3. r.current = to /\ r.target = target
    OBVIOUS
  <1> HIDE DEF r
  <1>4. /\ Len(history) \in Nat /\ Len(history') = Len(history) + 1
        /\ history'[Len(history) + 1] = r
        /\ \A i \in 1..Len(history) : history'[i] = history[i]
    BY <1>2
  <1>5. \A s \in States, i \in 0..Len(history) :
                LastOf(history', s, i) = LastOf(history, s, i)
    BY <1>2, LastBefore
  <1>6. \A s \in States : LastOf(history', s, Len(history) + 1)
                = IF to = s THEN Len(history) + 1 ELSE LastOf(history, s, Len(history))
    BY <1>2, <1>3, LastAtEnd
  <1> QED BY <1>1, <1>3, <1>4, <1>5, <1>6

(* The past stays verified. *)
LEMMA MoveKeepsPast ==
    ASSUME CycleInv, NEW to \in States, NEW target \in Targets, Move(to, target),
           NEW i \in 1..Len(history)
    PROVE  VerifiedAt(history', i)
  <1>1. /\ Len(history) \in Nat
        /\ \A j \in 1..Len(history) : history'[j] = history[j]
        /\ \A s \in States, j \in 0..Len(history) :
                LastOf(history', s, j) = LastOf(history, s, j)
    BY MoveHistory
  <1>2. VerifiedAt(history, i)
    BY DEF CycleInv
  <1>3. history'[i] = history[i] /\ (i > 1 => history'[i - 1] = history[i - 1])
    BY <1>1
  <1>4. \A s \in States : /\ LastOf(history', s, i) = LastOf(history, s, i)
                          /\ LastOf(history', s, i - 1) = LastOf(history, s, i - 1)
    BY <1>1
  <1> QED BY <1>2, <1>3, <1>4 DEF VerifiedAt, States

(* One transition at a time: the methods, and the checkpoint each one sets. *)
LEMMA CyclesStep ==
    ASSUME CycleInv, [MachineNext]_machineVars
    PROVE  CycleInv'
  <1> DEFINE n == Len(history)
             At(s) == LastOf(history, s, n)
             After(s) == LastOf(history', s, n + 1)
  <1>1. CASE UNCHANGED machineVars
    BY <1>1 DEF CycleInv, machineVars, MachineTypeOK
  <1>2. CASE MachineNext
    <2>1. PICK to \in States, target \in Targets :
            /\ Move(to, target)
            /\ \/ state = "OFF" /\ to = "SAVE_ORIGINAL" /\ target = "NONE"
               \/ state = "SAVE_ORIGINAL" /\ to = "APPLY" /\ target = "NONE"
               \/ state = "SAVE_ORIGINAL" /\ to = "OFF" /\ target = "NONE"
               \/ state = "APPLY" /\ to = "VERIFY" /\ target = "ACTIVE"
               \/ to = "RESTORE" /\ target = "NONE"
               \/ state = "VERIFY" /\ verification_target = "ACTIVE"
                    /\ to = "ACTIVE" /\ target = "NONE"
               \/ state = "RESTORE" /\ to = "VERIFY" /\ target = "OFF"
               \/ state = "VERIFY" /\ verification_target = "OFF"
                    /\ to = "OFF" /\ target = "NONE"
      BY <1>2 DEF MachineNext, begin_activation, original_saved, abort_before_apply,
           apply_completed, apply_failed, active_verified, active_verification_failed,
           begin_restore, restore_completed, off_verified, off_verification_failed,
           Require, RequireTarget, States, Targets
    <2>2. /\ MachineTypeOK' /\ n \in Nat /\ Len(history') = n + 1
          /\ history'[n + 1].current = to /\ history'[n + 1].target = target
          /\ \A i \in 1..n : history'[i] = history[i]
          /\ \A s \in States : LastOf(history', s, n) = At(s)
          /\ \A s \in States : After(s) = IF to = s THEN n + 1 ELSE At(s)
      BY <2>1, MoveHistory
    <2>3. state' = to /\ verification_target' = target
      BY <2>1 DEF Move
    <2>4. \A i \in 1..n : VerifiedAt(history', i)
      BY <2>1, MoveKeepsPast
    <2>5. /\ \A s \in States : At(s) \in 0..n
          /\ n = 0 => state = "OFF"
          /\ n > 0 => history[n].current = state /\ history[n].target = verification_target
          /\ n > 0 => At(state) = n
          /\ state \in {"OFF", "SAVE_ORIGINAL"} => At("APPLY") <= At("OFF")
          /\ state \in {"SAVE_ORIGINAL", "APPLY"} \/ verification_target = "ACTIVE"
               => At("SAVE_ORIGINAL") > At("OFF")
          /\ state = "VERIFY" /\ verification_target = "ACTIVE" => At("APPLY") = n - 1
      BY DEF CycleInv
    <2> HIDE DEF n, At, After
    <2>6. \A s \in States : After(s) \in 0..(n + 1)
      BY <2>2, <2>5
    <2>7. /\ to \in {"OFF", "SAVE_ORIGINAL"} => After("APPLY") <= After("OFF")
          /\ to \in {"SAVE_ORIGINAL", "APPLY"} \/ target = "ACTIVE"
               => After("SAVE_ORIGINAL") > After("OFF")
          /\ to = "VERIFY" /\ target = "ACTIVE" => After("APPLY") = n
          /\ target # "NONE" => to = "VERIFY"
      BY <2>1, <2>2, <2>5 DEF States
    <2>8. VerifiedAt(history', n + 1)
      <3>1. to = "ACTIVE" => /\ n > 0 /\ After("VERIFY") = n
                             /\ history'[n].target = "ACTIVE"
                             /\ After("APPLY") = n - 1
                             /\ After("SAVE_ORIGINAL") > After("OFF")
        BY <2>1, <2>2, <2>5 DEF States
      <3>2. to = "OFF" => \/ n > 0 /\ After("VERIFY") = n /\ history'[n].target = "OFF"
                          \/ LastOf(history', "APPLY", n) <= LastOf(history', "OFF", n)
        BY <2>1, <2>2, <2>5 DEF States
      <3>3. n + 1 - 1 = n /\ n + 1 - 2 = n - 1 /\ (n > 0 => n + 1 > 1)
        BY <2>2
      <3> QED BY <2>2, <3>1, <3>2, <3>3 DEF VerifiedAt, After
    <2>9. \A i \in 1..(n + 1) : VerifiedAt(history', i)
      BY <2>2, <2>4, <2>8
    <2> QED BY <2>2, <2>3, <2>6, <2>7, <2>9 DEF CycleInv, After, n
  <1> QED BY <1>1, <1>2

(* The callers move the machine only by its methods. *)
LEMMA CallersUseTheMachine == [Next]_vars => [MachineNext]_machineVars
  BY DEF Next, vars, machineVars, BeginActivation, Abort, Apply, VerifyActive, TakeOver,
         Restore, VerifyOff, Claim, Refused, Crash, SaveOriginal, MachineNext

(* The transitions of recovery_state.py: no ACTIVE and no OFF in the whole       *)
(* history, however long, was reached without the verification it needs.         *)
THEOREM CyclesVerified == Spec => []CyclesAreVerified
  <1>1. Init => CycleInv
    BY CyclesInit DEF Init
  <1>2. CycleInv /\ [Next]_vars => CycleInv'
    BY CyclesStep, CallersUseTheMachine
  <1> QED BY <1>1, <1>2, CyclesFollow, PTL DEF Spec
=============================================================================
