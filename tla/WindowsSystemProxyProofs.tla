---------------------- MODULE WindowsSystemProxyProofs ----------------------
(* Proofs about WindowsSystemProxy, for all names, values, settings and budgets. *)
EXTENDS WindowsSystemProxy, TLAPS

(* What the local variables of a call are known to be at each of its steps. *)
CallTyped(c) ==
    /\ c.pc \in {"save", "commit", "apply"} => c.cfg \in Endpoints
    /\ c.pc \in {"commit", "apply", "unwind"} => c.saved \in Snapshots(c.store)
    /\ c.pc \in {"recheck", "heal"} => c.saved \in Snapshots("internet")
    /\ c.pc = "sync_write" => c.saved \in Snapshots("env")
    /\ c.pc = "apply" => c.idx \in 1..Len(ApplyOrder(c.store))
    /\ c.pc = "unwind" => c.idx \in 1..Len(Names(c.store))

TypeInv == TypeOK /\ \A p \in Procs : CallTyped(call[p])

(* The names of the two stores. *)
LEMMA StoreNames ==
    /\ \A s \in Stores : Names(s) \in Seq(STRING) /\ NameSet(s) \subseteq AllNames
    /\ \A s \in Stores : Len(Names(s)) \in Nat /\ Len(Names(s)) > 0
    /\ \A s \in Stores : \A i \in 1..Len(Names(s)) : Names(s)[i] \in NameSet(s)
    /\ \A s \in Stores : Len(ApplyOrder(s)) \in Nat /\ Len(ApplyOrder(s)) > 0
    /\ \A s \in Stores : \A i \in 1..Len(ApplyOrder(s)) : ApplyOrder(s)[i] \in NameSet(s)
    /\ {"AutoConfigURL", "ProxyEnable", "AutoDetect"} \subseteq NameSet("internet")
    /\ "NO_PROXY" \in NameSet("env")
    /\ NameSet("internet") \cap NameSet("env") = {}
    /\ AllNames = NameSet("internet") \cup NameSet("env")
  <1>1. \A s \in Stores : Names(s) \in Seq(STRING)
    BY NamesAssumption DEF Stores, Names
  <1>2. \A s \in Stores : NameSet(s) \subseteq AllNames
    BY DEF Stores, AllNames
  <1>3. \A s \in Stores : \A i \in 1..Len(Names(s)) : Names(s)[i] \in NameSet(s)
    BY DEF NameSet
  <1>4. \A s \in Stores : Len(Names(s)) \in Nat /\ Len(Names(s)) > 0
    <2> SUFFICES ASSUME NEW s \in Stores PROVE Len(Names(s)) \in Nat /\ Len(Names(s)) > 0
      OBVIOUS
    <2>1. Len(Names(s)) \in Nat
      BY <1>1
    <2>2. NameSet(s) # {}
      BY NamesAssumption DEF Stores
    <2>3. PICK i \in 1..Len(Names(s)) : TRUE
      BY <2>2 DEF NameSet
    <2> QED BY <2>1, <2>3
  <1>5. \A i \in 1..3 : <<"AutoConfigURL", "ProxyEnable", "AutoDetect">>[i] \in NameSet("internet")
    <2>1. 1..3 = {1, 2, 3}
      OBVIOUS
    <2> QED BY <2>1, NamesAssumption
  <1>6. ASSUME NEW s \in Stores, s # "internet"
        PROVE ApplyOrder(s) = Names(s)
    BY <1>6 DEF ApplyOrder, Names
  <1>7. Len(ApplyOrder("internet")) = 3
    BY DEF ApplyOrder
  <1>8. \A s \in Stores : Len(ApplyOrder(s)) \in Nat /\ Len(ApplyOrder(s)) > 0
    BY <1>4, <1>6, <1>7
  <1>9. \A s \in Stores : \A i \in 1..Len(ApplyOrder(s)) : ApplyOrder(s)[i] \in NameSet(s)
    <2> SUFFICES ASSUME NEW s \in Stores, NEW i \in 1..Len(ApplyOrder(s))
                 PROVE ApplyOrder(s)[i] \in NameSet(s)
      OBVIOUS
    <2>1. CASE s = "internet"
      BY <2>1, <1>5, <1>7 DEF ApplyOrder
    <2>2. CASE s # "internet"
      BY <2>2, <1>6, <1>3
    <2> QED BY <2>1, <2>2
  <1> QED BY <1>1, <1>2, <1>3, <1>4, <1>8, <1>9, NamesAssumption DEF AllNames

-----------------------------------------------------------------------------
(* Type correctness.                                                             *)

LEMMA RegistryWrite ==
    ASSUME NEW f \in Registry(AllNames), NEW n \in AllNames, NEW v \in ValuesOf(n)
    PROVE  [f EXCEPT ![n] = v] \in Registry(AllNames)
  <1>1. v \in Values
    BY ValuesAssumption DEF ValuesOf, Values
  <1> QED BY <1>1 DEF Registry

LEMMA AbsentTyped == \A n \in AllNames : Absent \in ValuesOf(n)
  BY ValuesAssumption DEF ValuesOf

(* What the launcher applies is a value of the right kind. *)
LEMMA AppliedTyped ==
    ASSUME NEW s \in Stores, NEW i \in 1..Len(ApplyOrder(s)), NEW e \in Endpoints,
           NEW policy \in Policies, NEW saved \in Snapshots(s)
    PROVE  AppliedValue(ApplyOrder(s)[i], e, policy, saved) \in ValuesOf(ApplyOrder(s)[i])
  <1> DEFINE n == ApplyOrder(s)[i]
  <1>1. n \in NameSet(s) /\ saved[n] \in ValuesOf(n)
    BY StoreNames DEF Snapshots, Registry
  <1>2. pac_url[e] \in Scalars /\ local_proxy[e] \in Scalars /\ Zero \in Scalars
    BY ValuesAssumption
  <1>3. CASE n = "NO_PROXY"
    <2>1. saved[n] = Absent \/ saved[n] \in SUBSET Entries
      BY <1>1, <1>3 DEF ValuesOf
    <2>2. combined_no_proxy(saved[n], policy) \in SUBSET Entries
      BY <2>1, ValuesAssumption DEF combined_no_proxy
    <2>3. AppliedValue(n, e, policy, saved) = combined_no_proxy(saved[n], policy)
      BY <1>3 DEF AppliedValue
    <2> QED BY <2>2, <2>3, <1>3 DEF ValuesOf
  <1>4. CASE n # "NO_PROXY"
    <2>1. s = "internet" => n \in {"AutoConfigURL", "ProxyEnable", "AutoDetect"}
      <3>1. ASSUME s = "internet" PROVE i \in {1, 2, 3}
        BY <3>1 DEF ApplyOrder
      <3> QED BY <3>1 DEF ApplyOrder
    <2>2. AppliedValue(n, e, policy, saved) \in {pac_url[e], Zero, local_proxy[e]}
      BY <2>1, <1>1, <1>4 DEF AppliedValue, Stores
    <2> QED BY <2>2, <1>2, <1>4 DEF ValuesOf
  <1> QED BY <1>3, <1>4

(* The records that calls move to. *)
LEMMA ReturnTyped ==
    ASSUME NEW op \in Ops, NEW ok \in BOOLEAN
    PROVE  /\ Return(op, ok) \in Calls /\ CallTyped(Return(op, ok))
           /\ Return(op, ok).pc = "idle"
  BY DEF Return, Calls, CallTyped, PCs, Stores

LEMMA AfterRestoreTyped ==
    ASSUME NEW c \in Calls, NEW ok \in BOOLEAN
    PROVE  /\ AfterRestore(c, ok) \in Calls /\ CallTyped(AfterRestore(c, ok))
           /\ AfterRestore(c, ok).pc \in {"autostart", "restore", "finish"}
  <1>1. CASE c.op = "undo"
    BY <1>1 DEF AfterRestore, Calls, CallTyped, PCs, Stores, Ops
  <1>2. CASE c.op # "undo" /\ c.store = "internet"
    BY <1>2 DEF AfterRestore, Calls, CallTyped, PCs, Stores, Ops
  <1>3. CASE c.op # "undo" /\ c.store # "internet"
    BY <1>3 DEF AfterRestore, Calls, CallTyped, PCs, Stores, Ops
  <1> QED BY <1>1, <1>2, <1>3

LEMMA AfterApplyTyped ==
    ASSUME NEW c \in Calls, c.cfg \in Endpoints
    PROVE  /\ AfterApply(c) \in Calls /\ CallTyped(AfterApply(c))
           /\ AfterApply(c).pc \in {"save", "autostart", "restore"}
  BY DEF AfterApply, Calls, CallTyped, PCs, Stores, Ops

LEMMA RefusedTyped ==
    ASSUME NEW c \in Calls
    PROVE  /\ Refused(c) \in Calls /\ CallTyped(Refused(c))
           /\ Refused(c).pc \in {"idle", "autostart"}
  BY DEF Refused, Return, Calls, CallTyped, PCs, Stores, Ops

(* The next value of a loop over the names. *)
LEMMA AdvanceTyped ==
    ASSUME NEW c \in Calls, NEW ok \in BOOLEAN
    PROVE  /\ Advance(c, ok) \in Calls
           /\ Advance(c, ok).pc = c.pc /\ Advance(c, ok).op = c.op
           /\ Advance(c, ok).store = c.store /\ Advance(c, ok).saved = c.saved
           /\ Advance(c, ok).cfg = c.cfg /\ Advance(c, ok).idx = c.idx + 1
           /\ Advance(c, ok).sok = (c.sok /\ ok)
  <1>1. c.idx + 1 \in Nat
    BY DEF Calls
  <1>2. (c.sok /\ ok) \in BOOLEAN
    OBVIOUS
  <1>3. [c EXCEPT !.idx = c.idx + 1] \in Calls
    BY <1>1 DEF Calls
  <1>4. [[c EXCEPT !.idx = c.idx + 1] EXCEPT !.sok = c.sok /\ ok] \in Calls
    BY <1>2, <1>3 DEF Calls
  <1> QED BY <1>4 DEF Calls, Advance

LEMMA GoTyped ==
    ASSUME TypeInv, NEW p \in Procs, NEW c \in Calls, CallTyped(c), Go(p, c)
    PROVE  /\ call' \in [Procs -> Calls]
           /\ \A q \in Procs : CallTyped(call'[q])
           /\ call'[p] = c
           /\ \A q \in Procs \ {p} : call'[q] = call[q]
  BY DEF TypeInv, TypeOK, Go

LEMMA SpendTyped ==
    ASSUME TypeInv, NEW k \in Events, Spend(k)
    PROVE  left' \in [Events -> Nat]
  BY DEF TypeInv, TypeOK, Spend

(* A step that only moves its call on, and may spend budget or find values       *)
(* unreadable.                                                                   *)
LEMMA ReadTyped ==
    ASSUME TypeInv, NEW p \in Procs, NEW c \in Calls, CallTyped(c), Go(p, c),
           left' \in [Events -> Nat], drift' \subseteq AllNames,
           UNCHANGED <<reg, backup, endpoint, no_proxy, applied, user, edited>>,
           run' \in RunClasses
    PROVE  TypeInv'
  <1>1. call' \in [Procs -> Calls] /\ \A q \in Procs : CallTyped(call'[q])
    BY GoTyped
  <1> QED BY <1>1 DEF TypeInv, TypeOK, HasEvidence

(* A step that only moves its call on, and may spend budget. *)
LEMMA MoveTyped ==
    ASSUME TypeInv, NEW p \in Procs, NEW c \in Calls, CallTyped(c), Go(p, c),
           left' \in [Events -> Nat],
           UNCHANGED <<reg, backup, endpoint, no_proxy, applied, user, drift, edited>>,
           run' \in RunClasses
    PROVE  TypeInv'
  <1>1. drift' \subseteq AllNames
    BY DEF TypeInv, TypeOK
  <1> QED BY <1>1, ReadTyped

(* A step that writes one governed value. *)
LEMMA WriteTyped ==
    ASSUME TypeInv, NEW p \in Procs, NEW c \in Calls, CallTyped(c), Go(p, c),
           NEW n \in AllNames, NEW v \in ValuesOf(n), reg' = [reg EXCEPT ![n] = v],
           applied' \subseteq AllNames, user' \in Registry(AllNames),
           UNCHANGED <<backup, endpoint, no_proxy, run, left, drift, edited>>
    PROVE  TypeInv'
  <1>1. call' \in [Procs -> Calls] /\ \A q \in Procs : CallTyped(call'[q])
    BY GoTyped
  <1>2. reg' \in Registry(AllNames)
    BY RegistryWrite DEF TypeInv, TypeOK
  <1> QED BY <1>1, <1>2 DEF TypeInv, TypeOK, HasEvidence

LEMMA EnableTyped ==
    ASSUME TypeInv, NEW p \in Procs, enable_system_proxy(p)
    PROVE  TypeInv'
  <1> DEFINE c == [Begin("save", "enable") EXCEPT !.cfg = endpoint]
  <1>1. c \in Calls /\ CallTyped(c)
    BY DEF Begin, Return, Calls, CallTyped, PCs, Ops, Stores, TypeInv, TypeOK
  <1>2. left' \in [Events -> Nat]
    BY SpendTyped DEF enable_system_proxy, Events
  <1> QED BY <1>1, <1>2, MoveTyped DEF enable_system_proxy, TypeInv, TypeOK, history

LEMMA SaveTyped ==
    ASSUME TypeInv, NEW p \in Procs, _save_backup(p)
    PROVE  TypeInv'
  <1> DEFINE c == call[p]
  <1>1. c \in Calls /\ CallTyped(c) /\ c.pc = "save" /\ c.store \in Stores
        /\ c.cfg \in Endpoints /\ left \in [Events -> Nat] /\ run \in RunClasses
    BY DEF TypeInv, TypeOK, _save_backup, CallTyped, Calls
  <1>2. UNCHANGED <<reg, backup, endpoint, no_proxy, applied, user, edited>> /\ run' = run
    BY DEF _save_backup
  <1>7. drift' \subseteq AllNames
    <2>1. NameSet(c.store) \subseteq AllNames /\ drift \subseteq AllNames
      BY <1>1 DEF AllNames, Stores, TypeInv, TypeOK
    <2>2. drift' = drift \/ \E lost \in SUBSET NameSet(c.store) : drift' = drift \cup lost
      BY DEF _save_backup
    <2> QED BY <2>1, <2>2
  <1>3. CASE HasEvidence(c.store) /\ UNCHANGED left
             /\ Go(p, [c EXCEPT !.pc = "apply", !.idx = 1, !.sok = TRUE,
                                !.saved = backup[c.store]])
    <2> DEFINE d == [c EXCEPT !.pc = "apply", !.idx = 1, !.sok = TRUE,
                              !.saved = backup[c.store]]
    <2>1. backup[c.store] \in Snapshots(c.store) /\ backup[c.store] \in AnySnapshot
      BY <1>1, <1>3 DEF TypeInv, TypeOK, AnySnapshot, Stores
    <2>2. 1 \in 1..Len(ApplyOrder(c.store))
      BY <1>1, StoreNames
    <2>3. d \in Calls /\ CallTyped(d)
      BY <1>1, <2>1, <2>2 DEF Calls, CallTyped, PCs
    <2> QED BY <2>3, <1>1, <1>2, <1>3, <1>7, ReadTyped
  <1>4. CASE Go(p, Refused(c)) /\ UNCHANGED left
    BY <1>4, <1>1, <1>2, RefusedTyped, <1>7, ReadTyped
  <1>5. CASE Go(p, Refused(c)) /\ Spend("read")
    <2>1. left' \in [Events -> Nat]
      BY <1>5, SpendTyped DEF Events
    <2> QED BY <2>1, <1>5, <1>1, <1>2, RefusedTyped, <1>7, ReadTyped
  <1>6. CASE \E lost \in SUBSET NameSet(c.store) :
               /\ IF lost = {} THEN UNCHANGED left
                               ELSE c.store = "env" /\ Spend("read")
               /\ Go(p, [c EXCEPT !.pc = "commit",
                           !.saved = [n \in NameSet(c.store) |-> View(lost)[n]]])
    <2> PICK lost \in SUBSET NameSet(c.store) :
               /\ IF lost = {} THEN UNCHANGED left
                               ELSE c.store = "env" /\ Spend("read")
               /\ Go(p, [c EXCEPT !.pc = "commit",
                           !.saved = [n \in NameSet(c.store) |-> View(lost)[n]]])
      BY <1>6
    <2> DEFINE v == [n \in NameSet(c.store) |-> View(lost)[n]]
               d == [c EXCEPT !.pc = "commit", !.saved = v]
    <2>1. v \in Snapshots(c.store)
      <3>1. \A n \in NameSet(c.store) : View(lost)[n] \in ValuesOf(n) /\ View(lost)[n] \in Values
        BY <1>1, StoreNames, AbsentTyped, ValuesAssumption
           DEF View, TypeInv, TypeOK, Registry, Values
      <3> QED BY <3>1 DEF Snapshots, Registry
    <2>2. v \in AnySnapshot
      BY <2>1, <1>1 DEF AnySnapshot, Stores
    <2>3. d \in Calls /\ CallTyped(d)
      BY <1>1, <2>1, <2>2 DEF Calls, CallTyped, PCs
    <2>4. left' \in [Events -> Nat]
      BY <1>1, SpendTyped DEF Events
    <2> QED BY <2>3, <2>4, <1>1, <1>2, <1>7, ReadTyped
  <1> QED BY <1>3, <1>4, <1>5, <1>6 DEF _save_backup

LEMMA CommitTyped ==
    ASSUME TypeInv, NEW p \in Procs, _commit_backup(p)
    PROVE  TypeInv'
  <1> DEFINE c == call[p]
  <1>1. c \in Calls /\ CallTyped(c) /\ c.pc = "commit" /\ c.store \in Stores
        /\ c.cfg \in Endpoints /\ c.saved \in Snapshots(c.store) /\ run \in RunClasses
    BY DEF TypeInv, TypeOK, _commit_backup, CallTyped, Calls
  <1>2. CASE /\ backup' = [backup EXCEPT ![c.store] = c.saved]
             /\ Go(p, [c EXCEPT !.pc = "apply", !.idx = 1, !.sok = TRUE])
             /\ UNCHANGED left
    <2> DEFINE d == [c EXCEPT !.pc = "apply", !.idx = 1, !.sok = TRUE]
    <2>1. 1 \in 1..Len(ApplyOrder(c.store))
      BY <1>1, StoreNames
    <2>2. d \in Calls /\ CallTyped(d)
      BY <1>1, <2>1 DEF Calls, CallTyped, PCs
    <2>3. call' \in [Procs -> Calls] /\ \A q \in Procs : CallTyped(call'[q])
      BY <1>2, <2>2, GoTyped
    <2>4. c.saved \in AnySnapshot
      BY <1>1 DEF AnySnapshot, Stores
    <2> QED BY <1>1, <1>2, <2>3, <2>4
            DEF TypeInv, TypeOK, HasEvidence, history, _commit_backup
  <1>3. CASE Spend("write") /\ Go(p, Refused(c)) /\ UNCHANGED backup
    <2>1. left' \in [Events -> Nat]
      BY <1>3, SpendTyped DEF Events
    <2> QED BY <2>1, <1>3, <1>1, RefusedTyped, MoveTyped DEF _commit_backup, history
  <1> QED BY <1>2, <1>3 DEF _commit_backup

LEMMA ApplyTyped ==
    ASSUME TypeInv, NEW p \in Procs, _apply_value(p)
    PROVE  TypeInv'
  <1> DEFINE c == call[p]
             n == ApplyOrder(c.store)[c.idx]
             After(ok) ==
               IF c.idx < Len(ApplyOrder(c.store))
                 THEN Advance(c, ok)
                 ELSE AfterApply([c EXCEPT !.sok = @ /\ ok])
  <1>1. c \in Calls /\ CallTyped(c) /\ c.pc = "apply" /\ c.store \in Stores
        /\ c.cfg \in Endpoints /\ c.saved \in Snapshots(c.store)
        /\ c.idx \in 1..Len(ApplyOrder(c.store)) /\ run \in RunClasses
    BY DEF TypeInv, TypeOK, _apply_value, CallTyped, Calls
  <1>2. ASSUME NEW ok \in BOOLEAN PROVE After(ok) \in Calls /\ CallTyped(After(ok))
    <2>1. CASE c.idx < Len(ApplyOrder(c.store))
      <3>1. c.idx + 1 \in 1..Len(ApplyOrder(c.store))
        BY <2>1, <1>1, StoreNames
      <3> DEFINE d == Advance(c, ok)
      <3>2. /\ d \in Calls /\ d.pc = c.pc /\ d.cfg = c.cfg /\ d.saved = c.saved
            /\ d.store = c.store /\ d.idx = c.idx + 1
        BY <1>1, AdvanceTyped
      <3>3. CallTyped(d)
        BY <3>1, <3>2, <1>1 DEF CallTyped
      <3> QED BY <2>1, <3>2, <3>3
    <2>2. CASE ~(c.idx < Len(ApplyOrder(c.store)))
      <3> DEFINE d == [c EXCEPT !.sok = @ /\ ok]
      <3>1. d \in Calls /\ d.cfg \in Endpoints
        BY <1>1 DEF Calls
      <3> QED BY <2>2, <3>1, AfterApplyTyped
    <2> QED BY <2>1, <2>2
  <1>3. CASE /\ reg' = [reg EXCEPT ![n] = AppliedValue(n, c.cfg, no_proxy, c.saved)]
             /\ applied' = applied \cup {n}
             /\ Go(p, After(TRUE))
             /\ UNCHANGED left
    <2>1. n \in AllNames
      BY <1>1, StoreNames
    <2>2. AppliedValue(n, c.cfg, no_proxy, c.saved) \in ValuesOf(n)
      BY <1>1, AppliedTyped DEF TypeInv, TypeOK
    <2>3. applied' \subseteq AllNames /\ user' \in Registry(AllNames)
      BY <1>3, <2>1 DEF TypeInv, TypeOK, _apply_value
    <2>4. After(TRUE) \in Calls /\ CallTyped(After(TRUE))
      BY <1>2
    <2> HIDE DEF After, n
    <2> QED BY <2>1, <2>2, <2>3, <2>4, <1>3, WriteTyped DEF _apply_value
  <1>4. CASE Spend("write") /\ Go(p, After(FALSE)) /\ UNCHANGED <<reg, applied>>
    <2>1. left' \in [Events -> Nat]
      BY <1>4, SpendTyped DEF Events
    <2>2. After(FALSE) \in Calls /\ CallTyped(After(FALSE))
      BY <1>2
    <2> HIDE DEF After
    <2> QED BY <2>1, <2>2, <1>4, <1>1, MoveTyped DEF _apply_value
  <1> QED BY <1>3, <1>4 DEF _apply_value

LEMMA AutostartTyped ==
    ASSUME TypeInv, NEW p \in Procs, _enable_recovery_autostart(p)
    PROVE  TypeInv'
  <1> DEFINE c == call[p]
             After(ok) == IF c.ok /\ ok THEN Return("enable", TRUE)
                          ELSE [c EXCEPT !.pc = "restore", !.op = "rollback",
                                         !.store = "internet", !.ok = FALSE]
  <1>1. c \in Calls /\ run \in RunClasses /\ left \in [Events -> Nat]
    BY DEF TypeInv, TypeOK
  <1>2. ASSUME NEW ok \in BOOLEAN PROVE After(ok) \in Calls /\ CallTyped(After(ok))
    <2>1. CASE c.ok /\ ok
      BY <2>1, ReturnTyped DEF Ops
    <2>2. CASE ~(c.ok /\ ok)
      BY <2>2, <1>1 DEF Calls, CallTyped, PCs, Ops, Stores
    <2> QED BY <2>1, <2>2
  <1>3. /\ UNCHANGED <<reg, backup, endpoint, no_proxy, applied, user, drift, edited>>
        /\ run' \in RunClasses
    BY <1>1 DEF _enable_recovery_autostart, history, RunClasses
  <1>4. left' \in [Events -> Nat]
    BY <1>1, SpendTyped DEF _enable_recovery_autostart, Events
  <1>5. Go(p, After(TRUE)) \/ Go(p, After(FALSE))
    BY DEF _enable_recovery_autostart
  <1>6. PICK ok \in BOOLEAN : Go(p, After(ok))
    BY <1>5
  <1>7. After(ok) \in Calls /\ CallTyped(After(ok))
    BY <1>2
  <1> HIDE DEF After
  <1> QED BY <1>3, <1>4, <1>6, <1>7, MoveTyped

LEMMA DisableTyped ==
    ASSUME TypeInv, NEW p \in Procs, disable_system_proxy(p)
    PROVE  TypeInv'
  <1>1. Begin("restore", "disable") \in Calls /\ CallTyped(Begin("restore", "disable"))
    BY DEF Begin, Return, Calls, CallTyped, PCs, Ops, Stores
  <1> QED BY <1>1, MoveTyped DEF disable_system_proxy, TypeInv, TypeOK, history

LEMMA CheckTyped ==
    ASSUME TypeInv, NEW p \in Procs, _restore_check(p)
    PROVE  TypeInv'
  <1> DEFINE c == call[p]
             d == [c EXCEPT !.pc = "unwind", !.idx = 1, !.sok = TRUE,
                            !.saved = backup[c.store]]
  <1>1. c \in Calls /\ c.store \in Stores /\ run \in RunClasses /\ left \in [Events -> Nat]
    BY DEF TypeInv, TypeOK, Calls
  <1>2. UNCHANGED <<reg, backup, endpoint, no_proxy, applied, user, drift, edited>> /\ run' = run
    BY DEF _restore_check, history
  <1>3. left' \in [Events -> Nat]
    BY <1>1, SpendTyped DEF _restore_check, Events
  <1>4. CASE Go(p, AfterRestore(c, TRUE)) \/ Go(p, AfterRestore(c, FALSE))
    BY <1>1, <1>2, <1>3, <1>4, AfterRestoreTyped, MoveTyped
  <1>5. CASE HasEvidence(c.store) /\ Go(p, d)
    <2>1. backup[c.store] \in Snapshots(c.store) /\ backup[c.store] \in AnySnapshot
      BY <1>1, <1>5 DEF TypeInv, TypeOK, AnySnapshot, Stores
    <2>2. 1 \in 1..Len(Names(c.store))
      BY <1>1, StoreNames
    <2>3. d \in Calls /\ CallTyped(d)
      BY <1>1, <2>1, <2>2 DEF Calls, CallTyped, PCs
    <2> QED BY <2>3, <1>1, <1>2, <1>3, <1>5, MoveTyped
  <1>6. \/ Go(p, AfterRestore(c, TRUE)) \/ Go(p, AfterRestore(c, FALSE))
        \/ HasEvidence(c.store) /\ Go(p, d)
    BY Zenon DEF _restore_check
  <1> QED BY <1>4, <1>5, <1>6

LEMMA RestoreTyped ==
    ASSUME TypeInv, NEW p \in Procs, _restore_value(p)
    PROVE  TypeInv'
  <1> DEFINE c == call[p]
             n == Names(c.store)[c.idx]
             After(ok) ==
               IF c.idx < Len(Names(c.store)) THEN Advance(c, ok)
               ELSE IF c.sok /\ ok THEN [c EXCEPT !.pc = "remove"]
               ELSE AfterRestore(c, FALSE)
  <1>1. c \in Calls /\ CallTyped(c) /\ c.pc = "unwind" /\ c.store \in Stores
        /\ c.saved \in Snapshots(c.store) /\ c.idx \in 1..Len(Names(c.store))
        /\ run \in RunClasses
    BY DEF TypeInv, TypeOK, _restore_value, CallTyped, Calls
  <1>2. ASSUME NEW ok \in BOOLEAN PROVE After(ok) \in Calls /\ CallTyped(After(ok))
    <2>1. CASE c.idx < Len(Names(c.store))
      <3>1. c.idx + 1 \in 1..Len(Names(c.store))
        BY <2>1, <1>1, StoreNames
      <3> DEFINE d == Advance(c, ok)
      <3>2. /\ d \in Calls /\ d.pc = c.pc /\ d.cfg = c.cfg /\ d.saved = c.saved
            /\ d.store = c.store /\ d.idx = c.idx + 1
        BY <1>1, AdvanceTyped
      <3>3. CallTyped(d)
        BY <3>1, <3>2, <1>1 DEF CallTyped
      <3> QED BY <2>1, <3>2, <3>3
    <2>2. CASE ~(c.idx < Len(Names(c.store))) /\ c.sok /\ ok
      BY <2>2, <1>1 DEF Calls, CallTyped, PCs
    <2>3. CASE ~(c.idx < Len(Names(c.store))) /\ ~(c.sok /\ ok)
      BY <2>3, <1>1, AfterRestoreTyped
    <2> QED BY <2>1, <2>2, <2>3
  <1>3. CASE /\ reg' = [reg EXCEPT ![n] = c.saved[n]]
             /\ applied' = applied \ {n}
             /\ Go(p, After(TRUE))
             /\ UNCHANGED left
    <2>1. n \in AllNames /\ c.saved[n] \in ValuesOf(n)
      BY <1>1, StoreNames DEF Snapshots, Registry
    <2>2. applied' \subseteq AllNames /\ user' \in Registry(AllNames)
      BY <1>3 DEF TypeInv, TypeOK, _restore_value
    <2>3. After(TRUE) \in Calls /\ CallTyped(After(TRUE))
      BY <1>2
    <2> HIDE DEF After, n
    <2> QED BY <2>1, <2>2, <2>3, <1>3, WriteTyped DEF _restore_value
  <1>4. CASE Spend("write") /\ Go(p, After(FALSE)) /\ UNCHANGED <<reg, applied>>
    <2>1. left' \in [Events -> Nat]
      BY <1>4, SpendTyped DEF Events
    <2>2. After(FALSE) \in Calls /\ CallTyped(After(FALSE))
      BY <1>2
    <2> HIDE DEF After
    <2> QED BY <2>1, <2>2, <1>4, <1>1, MoveTyped DEF _restore_value
  <1> QED BY <1>3, <1>4 DEF _restore_value

LEMMA RemoveTyped ==
    ASSUME TypeInv, NEW p \in Procs, _remove_backup(p)
    PROVE  TypeInv'
  <1> DEFINE c == call[p]
  <1>1. c \in Calls /\ c.store \in Stores /\ run \in RunClasses
    BY DEF TypeInv, TypeOK, Calls
  <1>2. CASE /\ backup' = [backup EXCEPT ![c.store] = NoFile]
             /\ Go(p, AfterRestore(c, TRUE)) /\ UNCHANGED left
    <2>1. call' \in [Procs -> Calls] /\ \A q \in Procs : CallTyped(call'[q])
      BY <1>1, <1>2, AfterRestoreTyped, GoTyped
    <2> QED BY <1>1, <1>2, <2>1 DEF TypeInv, TypeOK, HasEvidence, history, _remove_backup
  <1>3. CASE Spend("write") /\ Go(p, AfterRestore(c, FALSE)) /\ UNCHANGED backup
    <2>1. left' \in [Events -> Nat]
      BY <1>3, SpendTyped DEF Events
    <2> QED BY <2>1, <1>1, <1>3, AfterRestoreTyped, MoveTyped DEF _remove_backup, history
  <1> QED BY <1>2, <1>3 DEF _remove_backup

LEMMA FinishTyped ==
    ASSUME TypeInv, NEW p \in Procs, _finish(p)
    PROVE  TypeInv'
  <1>1. call[p].ok \in BOOLEAN /\ run \in RunClasses /\ left \in [Events -> Nat]
    BY DEF TypeInv, TypeOK, Calls
  <1>2. /\ UNCHANGED <<reg, backup, endpoint, no_proxy, applied, user, drift, edited>>
        /\ run' \in RunClasses
    BY <1>1 DEF _finish, history, RunClasses, _disable_recovery_autostart
  <1>3. left' \in [Events -> Nat]
    BY <1>1, SpendTyped DEF _finish, Events, _disable_recovery_autostart
  <1> DEFINE v == [call[p] EXCEPT !.pc = "verdict", !.ok = @ /\ ~network_restore_pending]
  <1>4. v \in Calls /\ CallTyped(v)
    BY DEF TypeInv, TypeOK, Calls, PCs, CallTyped
  <1>5. CASE Go(p, Return("enable", FALSE))
    BY <1>2, <1>3, <1>5, ReturnTyped, MoveTyped DEF Ops
  <1>6. CASE Go(p, v)
    <2> HIDE DEF v
    <2> QED BY <1>2, <1>3, <1>4, <1>6, MoveTyped
  <1> QED BY <1>5, <1>6, Zenon DEF _finish

LEMMA VerdictTyped ==
    ASSUME TypeInv, NEW p \in Procs, _verdict(p)
    PROVE  TypeInv'
  <1>1. call[p].ok \in BOOLEAN /\ run \in RunClasses /\ left \in [Events -> Nat]
    BY DEF TypeInv, TypeOK, Calls
  <1>2. UNCHANGED <<reg, backup, endpoint, no_proxy, run, applied, user, drift, edited>>
    BY DEF _verdict, history
  <1>3. left' \in [Events -> Nat]
    BY <1>1, SpendTyped DEF _verdict, Events
  <1>4. PICK ok \in BOOLEAN : Go(p, Return("disable", ok))
    BY <1>1, Zenon DEF _verdict
  <1>5. Return("disable", ok) \in Calls /\ CallTyped(Return("disable", ok))
    BY ReturnTyped DEF Ops
  <1> QED BY <1>1, <1>2, <1>3, <1>4, <1>5, MoveTyped

LEMMA ReassertTyped ==
    ASSUME TypeInv, NEW p \in Procs, reassert_missing_owned_pac(p)
    PROVE  TypeInv'
  <1> DEFINE c == [Begin("recheck", "reassert") EXCEPT !.saved = backup["internet"]]
  <1>1. backup["internet"] \in Snapshots("internet") /\ backup["internet"] \in AnySnapshot
    BY DEF reassert_missing_owned_pac, TypeInv, TypeOK, AnySnapshot, Stores
  <1>2. c \in Calls /\ CallTyped(c)
    BY <1>1 DEF Begin, Return, Calls, CallTyped, PCs, Ops, Stores
  <1> QED BY <1>2, MoveTyped DEF reassert_missing_owned_pac, TypeInv, TypeOK, history

LEMMA RecheckTyped ==
    ASSUME TypeInv, NEW p \in Procs, _reassert_recheck(p)
    PROVE  TypeInv'
  <1> DEFINE c == [call[p] EXCEPT !.pc = "heal"]
  <1>1. c \in Calls /\ CallTyped(c)
    BY DEF Calls, CallTyped, PCs, TypeInv, TypeOK, _reassert_recheck
  <1>2. CASE Go(p, c)
    BY <1>1, <1>2, MoveTyped DEF _reassert_recheck, TypeInv, TypeOK, history
  <1>3. CASE Go(p, Return("reassert", FALSE))
    BY <1>3, ReturnTyped, MoveTyped DEF _reassert_recheck, TypeInv, TypeOK, history, Ops
  <1> QED BY <1>2, <1>3 DEF _reassert_recheck

LEMMA HealTyped ==
    ASSUME TypeInv, NEW p \in Procs, _reassert_write(p)
    PROVE  TypeInv'
  <1> DEFINE seen == reg["ProxyEnable"] = Zero /\ reg["AutoDetect"] = Zero
  <1>1. "AutoConfigURL" \in AllNames /\ endpoint \in Endpoints /\ run \in RunClasses
    BY StoreNames DEF TypeInv, TypeOK, Stores
  <1>2. pac_url[endpoint] \in ValuesOf("AutoConfigURL")
    BY <1>1, ValuesAssumption DEF ValuesOf
  <1>3. CASE /\ reg' = [reg EXCEPT !["AutoConfigURL"] = pac_url[endpoint]]
             /\ applied' = applied \cup {"AutoConfigURL"}
             /\ Go(p, Return("reassert", seen))
             /\ UNCHANGED left
    <2>1. applied' \subseteq AllNames /\ user' \in Registry(AllNames)
      BY <1>1, <1>3 DEF TypeInv, TypeOK, _reassert_write
    <2>2. Return("reassert", seen) \in Calls /\ CallTyped(Return("reassert", seen))
      BY ReturnTyped, Zenon DEF Ops
    <2> HIDE DEF seen
    <2> QED BY <1>1, <1>2, <1>3, <2>1, <2>2, WriteTyped DEF _reassert_write
  <1>4. CASE Spend("write") /\ Go(p, Return("reassert", FALSE)) /\ UNCHANGED <<reg, applied>>
    <2>1. left' \in [Events -> Nat]
      BY <1>4, SpendTyped DEF Events
    <2> QED BY <2>1, <1>1, <1>4, ReturnTyped, MoveTyped DEF _reassert_write, Ops
  <1> QED BY <1>3, <1>4 DEF _reassert_write

LEMMA SaveNoProxyTyped ==
    ASSUME TypeInv, NEW p \in Procs, NEW policy \in Policies, save_no_proxy(p, policy)
    PROVE  TypeInv'
  <1>1. Begin("sync", "sync") \in Calls /\ CallTyped(Begin("sync", "sync"))
    BY DEF Begin, Return, Calls, CallTyped, PCs, Ops, Stores
  <1>2. Return("sync", FALSE) \in Calls /\ CallTyped(Return("sync", FALSE))
    BY ReturnTyped DEF Ops
  <1>3. call' \in [Procs -> Calls] /\ \A q \in Procs : CallTyped(call'[q])
    BY <1>1, <1>2, GoTyped DEF save_no_proxy
  <1>4. left' \in [Events -> Nat]
    BY SpendTyped DEF save_no_proxy, Events
  <1>5. edited' \subseteq Stores
    BY DEF save_no_proxy, TypeInv, TypeOK, Stores
  <1> QED BY <1>3, <1>4, <1>5 DEF save_no_proxy, TypeInv, TypeOK, HasEvidence

LEMMA SyncTyped ==
    ASSUME TypeInv, NEW p \in Procs, sync_client_no_proxy(p)
    PROVE  TypeInv'
  <1> DEFINE c == [call[p] EXCEPT !.pc = "sync_write", !.saved = backup["env"]]
  <1>1. CASE HasEvidence("env") /\ Go(p, c)
    <2>1. backup["env"] \in Snapshots("env") /\ backup["env"] \in AnySnapshot
      BY <1>1 DEF TypeInv, TypeOK, AnySnapshot, Stores
    <2>2. c \in Calls /\ CallTyped(c)
      BY <2>1 DEF Calls, CallTyped, PCs, TypeInv, TypeOK
    <2> QED BY <1>1, <2>2, MoveTyped DEF sync_client_no_proxy, TypeInv, TypeOK, history
  <1>2. CASE Go(p, Return("sync", backup["env"] = NoFile))
    <2>1. (backup["env"] = NoFile) \in BOOLEAN /\ "sync" \in Ops
      BY DEF Ops
    <2>2. /\ Return("sync", backup["env"] = NoFile) \in Calls
          /\ CallTyped(Return("sync", backup["env"] = NoFile))
      BY <2>1, ReturnTyped
    <2> QED BY <1>2, <2>2, MoveTyped DEF sync_client_no_proxy, TypeInv, TypeOK, history
  <1> QED BY <1>1, <1>2 DEF sync_client_no_proxy

LEMMA SyncWriteTyped ==
    ASSUME TypeInv, NEW p \in Procs, _sync_write(p)
    PROVE  TypeInv'
  <1> DEFINE v == combined_no_proxy(call[p].saved["NO_PROXY"], no_proxy)
  <1>1. /\ "NO_PROXY" \in AllNames /\ no_proxy \in SUBSET Entries /\ run \in RunClasses
        /\ call[p].saved \in Snapshots("env")
    BY StoreNames, ValuesAssumption DEF TypeInv, TypeOK, Stores, CallTyped, _sync_write
  <1>2. v \in ValuesOf("NO_PROXY")
    <2>1. call[p].saved["NO_PROXY"] \in ValuesOf("NO_PROXY")
      BY <1>1, StoreNames DEF Snapshots, Registry
    <2> QED BY <1>1, <2>1, ValuesAssumption DEF ValuesOf, combined_no_proxy
  <1>3. CASE /\ reg' = [reg EXCEPT !["NO_PROXY"] = v]
             /\ applied' = applied \cup {"NO_PROXY"}
             /\ Go(p, Return("sync", TRUE))
             /\ UNCHANGED left
    <2>1. applied' \subseteq AllNames /\ user' \in Registry(AllNames)
      BY <1>1, <1>3 DEF TypeInv, TypeOK, _sync_write
    <2>2. Return("sync", TRUE) \in Calls /\ CallTyped(Return("sync", TRUE))
      BY ReturnTyped DEF Ops
    <2> HIDE DEF v
    <2> QED BY <1>1, <1>2, <1>3, <2>1, <2>2, WriteTyped DEF _sync_write
  <1>4. CASE Spend("write") /\ Go(p, Return("sync", FALSE)) /\ UNCHANGED <<reg, applied>>
    <2>1. left' \in [Events -> Nat]
      BY <1>4, SpendTyped DEF Events
    <2> QED BY <2>1, <1>1, <1>4, ReturnTyped, MoveTyped DEF _sync_write, Ops
  <1> QED BY <1>3, <1>4 DEF _sync_write

LEMMA OrphanTyped ==
    ASSUME TypeInv, NEW p \in Procs, clear_orphaned_arvectum_pac(p)
    PROVE  TypeInv'
  <1>1. Begin("orphan", "orphan") \in Calls /\ CallTyped(Begin("orphan", "orphan"))
    BY DEF Begin, Return, Calls, CallTyped, PCs, Ops, Stores
  <1> QED BY <1>1, MoveTyped DEF clear_orphaned_arvectum_pac, TypeInv, TypeOK, history

LEMMA OrphanRecheckTyped ==
    ASSUME TypeInv, NEW p \in Procs, _orphan_recheck(p)
    PROVE  TypeInv'
  <1> DEFINE c == [call[p] EXCEPT !.pc = "orphan_delete"]
  <1>1. c \in Calls /\ CallTyped(c)
    BY DEF Calls, CallTyped, PCs, TypeInv, TypeOK
  <1>2. left' \in [Events -> Nat]
    BY SpendTyped DEF _orphan_recheck, Events, TypeInv, TypeOK
  <1>3. CASE Go(p, c)
    BY <1>1, <1>2, <1>3, MoveTyped DEF _orphan_recheck, TypeInv, TypeOK, history
  <1>4. CASE Go(p, Return("orphan", FALSE))
    BY <1>2, <1>4, ReturnTyped, MoveTyped DEF _orphan_recheck, TypeInv, TypeOK, history, Ops
  <1> QED BY <1>3, <1>4 DEF _orphan_recheck

LEMMA OrphanDeleteTyped ==
    ASSUME TypeInv, NEW p \in Procs, _orphan_delete(p)
    PROVE  TypeInv'
  <1>1. /\ "AutoConfigURL" \in AllNames /\ Absent \in ValuesOf("AutoConfigURL")
        /\ run \in RunClasses
    BY StoreNames, AbsentTyped DEF TypeInv, TypeOK, Stores
  <1>2. CASE /\ reg' = [reg EXCEPT !["AutoConfigURL"] = Absent]
             /\ applied' = applied \ {"AutoConfigURL"}
             /\ user' = [user EXCEPT !["AutoConfigURL"] = Absent]
             /\ Go(p, Return("orphan", TRUE))
             /\ UNCHANGED left
    <2>1. applied' \subseteq AllNames /\ user' \in Registry(AllNames)
      BY <1>1, <1>2, RegistryWrite DEF TypeInv, TypeOK
    <2>2. Return("orphan", TRUE) \in Calls /\ CallTyped(Return("orphan", TRUE))
      BY ReturnTyped DEF Ops
    <2> QED BY <1>1, <1>2, <2>1, <2>2, WriteTyped DEF _orphan_delete
  <1>3. CASE Spend("write") /\ Go(p, Return("orphan", FALSE)) /\ UNCHANGED <<reg, applied, user>>
    <2>1. left' \in [Events -> Nat]
      BY <1>3, SpendTyped DEF Events
    <2> QED BY <2>1, <1>1, <1>3, ReturnTyped, MoveTyped DEF _orphan_delete, Ops
  <1> QED BY <1>2, <1>3 DEF _orphan_delete

LEMMA CrashTyped ==
    ASSUME TypeInv, NEW p \in Procs, Crash(p)
    PROVE  TypeInv'
  <1>1. Idle \in Calls /\ CallTyped(Idle)
    BY ReturnTyped DEF Idle, Ops
  <1>2. left' \in [Events -> Nat]
    BY SpendTyped DEF Crash, Events
  <1> QED BY <1>1, <1>2, MoveTyped DEF Crash, TypeInv, TypeOK, history

LEMMA StartTyped ==
    ASSUME TypeInv, NEW p \in Procs, ensure_state_ready(p)
    PROVE  TypeInv'
  <1>1. Begin("import", "import") \in Calls /\ CallTyped(Begin("import", "import"))
    BY DEF Begin, Return, Calls, CallTyped, PCs, Ops, Stores
  <1>2. left' \in [Events -> Nat]
    BY SpendTyped DEF ensure_state_ready, Events
  <1> QED BY <1>1, <1>2, MoveTyped DEF ensure_state_ready, TypeInv, TypeOK, history

LEMMA ImportTyped ==
    ASSUME TypeInv, NEW p \in Procs, _import_backup(p)
    PROVE  TypeInv'
  <1> DEFINE c == call[p]
             After == IF c.store = "internet" THEN [c EXCEPT !.store = "env"]
                                              ELSE Return("import", TRUE)
  <1>1. c \in Calls /\ CallTyped(c) /\ c.pc = "import" /\ c.store \in Stores
    BY DEF TypeInv, TypeOK, _import_backup, Calls
  <1>2. After \in Calls /\ CallTyped(After)
    <2>1. CASE c.store = "internet"
      BY <2>1, <1>1 DEF Calls, CallTyped, Stores
    <2>2. CASE c.store # "internet"
      BY <2>2, ReturnTyped DEF Ops
    <2> QED BY <2>1, <2>2
  <1> HIDE DEF After
  <1>3. CASE Go(p, After) /\ UNCHANGED <<backup, left, drift>>
    BY <1>2, <1>3, MoveTyped DEF _import_backup, TypeInv, TypeOK
  <1>4. CASE /\ backup' = [backup EXCEPT ![c.store] = legacy_backups[c.store]]
             /\ drift' = drift \cup NameSet(c.store)
             /\ Go(p, After) /\ UNCHANGED left
    <2>1. call' \in [Procs -> Calls] /\ \A q \in Procs : CallTyped(call'[q])
      BY <1>2, <1>4, GoTyped
    <2>2. /\ backup' \in [Stores -> {NoFile, Invalid} \cup AnySnapshot]
          /\ \A s \in Stores : HasEvidence(s)' => backup'[s] \in Snapshots(s)
      BY <1>1, <1>4, ValuesAssumption DEF TypeInv, TypeOK, HasEvidence
    <2>3. drift' \subseteq AllNames
      BY <1>1, <1>4 DEF TypeInv, TypeOK, AllNames, Stores
    <2> QED BY <2>1, <2>2, <2>3, <1>4 DEF _import_backup, TypeInv, TypeOK
  <1>5. CASE Spend("write") /\ Go(p, Return("import", FALSE)) /\ UNCHANGED <<backup, drift>>
    <2>1. left' \in [Events -> Nat]
      BY <1>5, SpendTyped DEF Events
    <2> QED BY <2>1, <1>5, ReturnTyped, MoveTyped DEF _import_backup, TypeInv, TypeOK, Ops
  <1> QED BY <1>3, <1>4, <1>5 DEF _import_backup, After

LEMMA OutsideTyped ==
    ASSUME TypeInv,
           \/ \E e \in Endpoints : change_endpoint(e)
           \/ \E n \in AllNames : \E v \in ForeignValues[n] : ForeignWrite(n, v)
           \/ \E s \in Stores : Corrupt(s)
    PROVE  TypeInv'
  <1>1. ASSUME NEW e \in Endpoints, change_endpoint(e) PROVE TypeInv'
    <2>1. left' \in [Events -> Nat]
      BY <1>1, SpendTyped DEF change_endpoint, Events
    <2> QED BY <1>1, <2>1 DEF change_endpoint, TypeInv, TypeOK, HasEvidence, history
  <1>2. ASSUME NEW n \in AllNames, NEW v \in ForeignValues[n], ForeignWrite(n, v)
        PROVE  TypeInv'
    <2>1. left' \in [Events -> Nat]
      BY <1>2, SpendTyped DEF ForeignWrite, Events
    <2>2. v \in ValuesOf(n)
      BY ValuesAssumption
    <2>3. reg' \in Registry(AllNames) /\ user' \in Registry(AllNames)
      BY <1>2, <2>2, RegistryWrite DEF ForeignWrite, TypeInv, TypeOK
    <2>4. applied' \subseteq AllNames /\ drift' \subseteq AllNames
      BY <1>2 DEF ForeignWrite, TypeInv, TypeOK
    <2> QED BY <1>2, <2>1, <2>3, <2>4 DEF ForeignWrite, TypeInv, TypeOK, HasEvidence
  <1>3. ASSUME NEW s \in Stores, Corrupt(s) PROVE TypeInv'
    <2>1. left' \in [Events -> Nat]
      BY <1>3, SpendTyped DEF Corrupt, Events
    <2> QED BY <1>3, <2>1 DEF Corrupt, TypeInv, TypeOK, HasEvidence, history
  <1> QED BY <1>1, <1>2, <1>3

LEMMA TypeInit == Init => TypeInv
  <1> SUFFICES ASSUME Init PROVE TypeInv
    OBVIOUS
  <1>1. Idle \in Calls /\ CallTyped(Idle)
    BY ReturnTyped DEF Idle, Ops
  <1>2. reg \in Registry(AllNames) /\ user \in Registry(AllNames) /\ run \in RunClasses
    BY ValuesAssumption DEF Init
  <1> QED BY <1>1, <1>2, ValuesAssumption DEF Init, TypeInv, TypeOK, HasEvidence

LEMMA TypeStep == TypeInv /\ [Next]_vars => TypeInv'
  <1> SUFFICES ASSUME TypeInv, [Next]_vars PROVE TypeInv'
    OBVIOUS
  <1>1. CASE UNCHANGED vars
    BY <1>1 DEF vars, TypeInv, TypeOK, HasEvidence
  <1>2. ASSUME NEW p \in Procs, Step(p) PROVE TypeInv'
    BY <1>2, SaveTyped, CommitTyped, ApplyTyped, AutostartTyped, CheckTyped, RestoreTyped,
       RemoveTyped, FinishTyped, VerdictTyped, RecheckTyped, HealTyped, SyncTyped, SyncWriteTyped,
       OrphanRecheckTyped, OrphanDeleteTyped, ImportTyped DEF Step
  <1>3. ASSUME NEW p \in Procs,
               \/ Crash(p) \/ enable_system_proxy(p) \/ disable_system_proxy(p)
               \/ ensure_state_ready(p)
               \/ reassert_missing_owned_pac(p) \/ clear_orphaned_arvectum_pac(p)
               \/ \E policy \in Policies : save_no_proxy(p, policy)
        PROVE TypeInv'
    BY <1>3, CrashTyped, EnableTyped, DisableTyped, ReassertTyped, OrphanTyped,
       SaveNoProxyTyped, StartTyped
  <1> QED BY <1>1, <1>2, <1>3, OutsideTyped DEF Next

(* Every reachable state of the Windows backend is well typed, for any number of *)
(* launcher processes: the registry holds values of the right kind, a backup     *)
(* that passes its validation is a full snapshot of its store.                   *)
THEOREM TypeCorrect == Spec => []TypeOK
  <1>1. TypeInv => TypeOK
    BY DEF TypeInv
  <1> QED BY TypeInit, TypeStep, <1>1, PTL DEF Spec

-----------------------------------------------------------------------------
(* Evidence covers every applied value, as long as launcher processes do not     *)
(* overlap.  EvidenceCoversApplied is not inductive: what makes it so is that a  *)
(* call past its save step holds readable evidence, that a loop that restores    *)
(* without failure has left nothing applied behind it, and that a backup is      *)
(* about to be removed only when nothing of its store is applied.                *)

CallSafe(c) ==
    /\ c.pc = "commit" => backup[c.store] = NoFile
    /\ c.pc \in {"apply", "unwind", "remove"} => HasEvidence(c.store)
    /\ c.pc \in {"recheck", "heal"} => HasEvidence("internet")
    /\ c.pc = "sync_write" => HasEvidence("env")
    /\ c.pc = "unwind" /\ c.sok =>
         \A j \in 1..(c.idx - 1) : Names(c.store)[j] \notin applied
    /\ c.pc = "remove" => applied \cap NameSet(c.store) = {}

SafeInv == TypeInv /\ EvidenceCoversApplied /\ \A p \in Procs : CallSafe(call[p])

(* Steps at which CallSafe claims nothing. *)
Harmless == PCs \ {"commit", "apply", "unwind", "remove", "recheck", "heal", "sync_write"}

LEMMA HarmlessSafe ==
    ASSUME NEW p, call'[p].pc \in Harmless
    PROVE  CallSafe(call[p])'
  BY DEF CallSafe, Harmless

LEMMA EvidenceIsFile ==
    ASSUME TypeInv, NEW s \in Stores, NEW b \in Snapshots(s)
    PROVE  b \notin {NoFile, Invalid}
  BY ValuesAssumption DEF AnySnapshot, Stores

(* A call that moves on without touching the registry or a backup. *)
LEMMA QuietSafe ==
    ASSUME SafeInv, NEW p, Procs = {p}, TypeInv', UNCHANGED <<backup, applied>>,
           call'[p].pc \in Harmless
    PROVE  SafeInv'
  <1>1. EvidenceCoversApplied'
    BY DEF SafeInv, EvidenceCoversApplied
  <1> QED BY <1>1, HarmlessSafe DEF SafeInv

LEMMA SaveSafe ==
    ASSUME SafeInv, NEW p, Procs = {p}, TypeInv', _save_backup(p)
    PROVE  SafeInv'
  <1> DEFINE c == call[p]
  <1>1. c \in Calls /\ c.store \in Stores /\ TypeInv /\ p \in Procs
    BY DEF SafeInv, TypeInv, TypeOK, Calls
  <1>2. UNCHANGED <<backup, applied>>
    BY DEF _save_backup, history
  <1>3. EvidenceCoversApplied'
    BY <1>2 DEF SafeInv, EvidenceCoversApplied
  <1>4. CASE HasEvidence(c.store)
             /\ Go(p, [c EXCEPT !.pc = "apply", !.idx = 1, !.sok = TRUE,
                                !.saved = backup[c.store]])
    <2>1. call'[p] = [c EXCEPT !.pc = "apply", !.idx = 1, !.sok = TRUE,
                               !.saved = backup[c.store]]
      BY <1>1, <1>4 DEF Go, TypeInv, TypeOK
    <2>2. call'[p].pc = "apply" /\ call'[p].store = c.store
      BY <2>1, <1>1 DEF Calls
    <2>3. CallSafe(call[p])'
      BY <2>2, <1>2, <1>4 DEF CallSafe, HasEvidence
    <2> QED BY <2>3, <1>3 DEF SafeInv
  <1>5. CASE Go(p, Refused(c))
    <2>1. call'[p].pc \in Harmless
      BY <1>1, <1>5, RefusedTyped DEF Go, TypeInv, TypeOK, Harmless, PCs
    <2> QED BY <2>1, <1>2, QuietSafe
  <1>6. CASE /\ backup[c.store] = NoFile
             /\ \E v : Go(p, [c EXCEPT !.pc = "commit", !.saved = v])
    <2>1. PICK v : Go(p, [c EXCEPT !.pc = "commit", !.saved = v])
      BY <1>6
    <2>2. call'[p] = [c EXCEPT !.pc = "commit", !.saved = v]
      BY <1>1, <2>1 DEF Go, TypeInv, TypeOK
    <2>3. call'[p].pc = "commit" /\ call'[p].store = c.store
      BY <2>2, <1>1 DEF Calls
    <2>4. CallSafe(call[p])'
      BY <2>3, <1>2, <1>6 DEF CallSafe
    <2> QED BY <2>4, <1>3 DEF SafeInv
  <1> QED BY <1>4, <1>5, <1>6 DEF _save_backup

LEMMA CommitSafe ==
    ASSUME SafeInv, NEW p, Procs = {p}, TypeInv', _commit_backup(p)
    PROVE  SafeInv'
  <1> DEFINE c == call[p]
  <1>1. /\ c \in Calls /\ c.store \in Stores /\ TypeInv /\ p \in Procs
        /\ c.saved \in Snapshots(c.store) /\ backup \in [Stores -> {NoFile, Invalid} \cup AnySnapshot]
    BY DEF SafeInv, TypeInv, TypeOK, Calls, CallTyped, _commit_backup
  <1>2. CASE /\ backup' = [backup EXCEPT ![c.store] = c.saved]
             /\ Go(p, [c EXCEPT !.pc = "apply", !.idx = 1, !.sok = TRUE])
    <2>1. call'[p] = [c EXCEPT !.pc = "apply", !.idx = 1, !.sok = TRUE]
      BY <1>1, <1>2 DEF Go, TypeInv, TypeOK
    <2>2. call'[p].pc = "apply" /\ call'[p].store = c.store
      BY <2>1, <1>1 DEF Calls
    <2>3. backup'[c.store] \notin {NoFile, Invalid}
      BY <1>1, <1>2, EvidenceIsFile
    <2>4. CallSafe(call[p])'
      BY <2>2, <2>3 DEF CallSafe, HasEvidence
    <2>5. EvidenceCoversApplied'
      <3>1. applied' = applied
        BY DEF _commit_backup, history
      <3> QED BY <3>1, <1>1, <1>2, <2>3 DEF EvidenceCoversApplied, SafeInv
    <2> QED BY <2>4, <2>5 DEF SafeInv
  <1>3. CASE Go(p, Refused(c)) /\ UNCHANGED backup
    <2>1. call'[p].pc \in Harmless
      BY <1>1, <1>3, RefusedTyped DEF Go, TypeInv, TypeOK, Harmless, PCs
    <2>2. applied' = applied
      BY DEF _commit_backup, history
    <2> QED BY <2>1, <2>2, <1>3, QuietSafe
  <1> QED BY <1>2, <1>3 DEF _commit_backup

LEMMA ApplySafe ==
    ASSUME SafeInv, NEW p, Procs = {p}, TypeInv', _apply_value(p)
    PROVE  SafeInv'
  <1> DEFINE c == call[p]
             n == ApplyOrder(c.store)[c.idx]
             After(ok) ==
               IF c.idx < Len(ApplyOrder(c.store)) THEN Advance(c, ok)
                 ELSE AfterApply([c EXCEPT !.sok = @ /\ ok])
  <1>1. /\ c \in Calls /\ c.store \in Stores /\ TypeInv /\ p \in Procs /\ c.pc = "apply"
        /\ c.cfg \in Endpoints /\ c.idx \in 1..Len(ApplyOrder(c.store)) /\ HasEvidence(c.store)
    BY DEF SafeInv, TypeInv, TypeOK, Calls, CallTyped, CallSafe, _apply_value
  <1>2. backup' = backup
    BY DEF _apply_value
  <1>3. applied' \subseteq applied \cup {n}
    BY DEF _apply_value
  <1>4. n \in NameSet(c.store)
    BY <1>1, StoreNames
  <1>5. EvidenceCoversApplied'
    <2> SUFFICES ASSUME NEW s \in Stores, applied' \cap NameSet(s) # {}
                 PROVE backup'[s] # NoFile
      BY DEF EvidenceCoversApplied
    <2>1. CASE applied \cap NameSet(s) # {}
      BY <2>1, <1>2 DEF EvidenceCoversApplied, SafeInv
    <2>2. CASE applied \cap NameSet(s) = {}
      <3>1. n \in NameSet(s)
        BY <2>2, <1>3
      <3>2. s = c.store
        BY <3>1, <1>1, <1>4, StoreNames DEF Stores
      <3> QED BY <3>2, <1>1, <1>2 DEF HasEvidence
    <2> QED BY <2>1, <2>2
  <1>6. PICK ok \in BOOLEAN : call'[p] = After(ok)
    BY <1>1 DEF _apply_value, Go, TypeInv, TypeOK
  <1>7. CASE c.idx < Len(ApplyOrder(c.store))
    <2>1. call'[p].pc = "apply" /\ call'[p].store = c.store
      BY <1>1, <1>6, <1>7, AdvanceTyped
    <2>2. CallSafe(call[p])'
      BY <2>1, <1>1, <1>2 DEF CallSafe, HasEvidence
    <2> QED BY <2>2, <1>5 DEF SafeInv
  <1>8. CASE ~(c.idx < Len(ApplyOrder(c.store)))
    <2> DEFINE d == [c EXCEPT !.sok = @ /\ ok]
    <2>1. d \in Calls /\ d.cfg \in Endpoints
      BY <1>1 DEF Calls
    <2>2. AfterApply(d).pc \in {"save", "autostart", "restore"}
      BY <2>1, AfterApplyTyped
    <2>3. call'[p] = AfterApply(d)
      BY <1>6, <1>8
    <2>4. call'[p].pc \in Harmless
      BY <2>2, <2>3 DEF Harmless, PCs
    <2> QED BY <2>4, <1>5, HarmlessSafe DEF SafeInv
  <1> QED BY <1>7, <1>8

LEMMA CheckSafe ==
    ASSUME SafeInv, NEW p, Procs = {p}, TypeInv', _restore_check(p)
    PROVE  SafeInv'
  <1> DEFINE c == call[p]
             d == [c EXCEPT !.pc = "unwind", !.idx = 1, !.sok = TRUE,
                            !.saved = backup[c.store]]
  <1>1. c \in Calls /\ c.store \in Stores /\ TypeInv /\ p \in Procs
    BY DEF SafeInv, TypeInv, TypeOK, Calls
  <1>2. UNCHANGED <<backup, applied>>
    BY DEF _restore_check, history
  <1>3. EvidenceCoversApplied'
    BY <1>2 DEF SafeInv, EvidenceCoversApplied
  <1>4. CASE Go(p, AfterRestore(c, TRUE)) \/ Go(p, AfterRestore(c, FALSE))
    <2>1. PICK ok \in BOOLEAN : call'[p] = AfterRestore(c, ok)
      BY <1>1, <1>4 DEF Go, TypeInv, TypeOK
    <2>2. call'[p].pc \in Harmless
      BY <2>1, <1>1, AfterRestoreTyped DEF Harmless, PCs
    <2> QED BY <2>2, <1>2, QuietSafe
  <1>5. CASE HasEvidence(c.store) /\ Go(p, d)
    <2>1. call'[p] = d
      BY <1>1, <1>5 DEF Go, TypeInv, TypeOK
    <2>2. call'[p].pc = "unwind" /\ call'[p].store = c.store /\ call'[p].idx = 1
      BY <2>1, <1>1 DEF Calls
    <2>3. \A j \in 1..(call'[p].idx - 1) : FALSE
      BY <2>2
    <2>4. CallSafe(call[p])'
      BY <2>2, <2>3, <1>2, <1>5 DEF CallSafe, HasEvidence
    <2> QED BY <2>4, <1>3 DEF SafeInv
  <1>6. \/ Go(p, AfterRestore(c, TRUE)) \/ Go(p, AfterRestore(c, FALSE))
        \/ HasEvidence(c.store) /\ Go(p, d)
    BY Zenon DEF _restore_check
  <1> QED BY <1>4, <1>5, <1>6

(* The heart of the argument: when the loop ends without a failure it has taken  *)
(* every name of the store out of applied.                                       *)
LEMMA RestoreSafe ==
    ASSUME SafeInv, NEW p, Procs = {p}, TypeInv', _restore_value(p)
    PROVE  SafeInv'
  <1> DEFINE c == call[p]
             n == Names(c.store)[c.idx]
             After(ok) ==
               IF c.idx < Len(Names(c.store)) THEN Advance(c, ok)
               ELSE IF c.sok /\ ok THEN [c EXCEPT !.pc = "remove"]
               ELSE AfterRestore(c, FALSE)
  <1>1. /\ c \in Calls /\ c.store \in Stores /\ TypeInv /\ p \in Procs /\ c.pc = "unwind"
        /\ c.idx \in 1..Len(Names(c.store)) /\ HasEvidence(c.store)
        /\ c.sok => \A j \in 1..(c.idx - 1) : Names(c.store)[j] \notin applied
    BY DEF SafeInv, TypeInv, TypeOK, Calls, CallTyped, CallSafe, _restore_value
  <1>2. backup' = backup
    BY DEF _restore_value
  <1>3. applied' \subseteq applied
    BY DEF _restore_value
  <1>4. EvidenceCoversApplied'
    BY <1>2, <1>3 DEF SafeInv, EvidenceCoversApplied
  <1>5. PICK ok \in BOOLEAN : call'[p] = After(ok) /\ (ok => n \notin applied')
    <2>1. CASE applied' = applied \ {n} /\ Go(p, After(TRUE))
      BY <2>1, <1>1 DEF Go, TypeInv, TypeOK
    <2>2. CASE Go(p, After(FALSE))
      BY <2>2, <1>1 DEF Go, TypeInv, TypeOK
    <2> QED BY <2>1, <2>2 DEF _restore_value
  <1>6. c.sok /\ ok => \A j \in 1..c.idx : Names(c.store)[j] \notin applied'
    BY <1>1, <1>3, <1>5
  <1>7. CASE c.idx < Len(Names(c.store))
    <2>1. /\ call'[p].pc = "unwind" /\ call'[p].store = c.store /\ call'[p].idx = c.idx + 1
          /\ call'[p].sok = (c.sok /\ ok)
      BY <1>1, <1>5, <1>7, AdvanceTyped
    <2>2. call'[p].idx - 1 = c.idx
      BY <2>1, <1>1
    <2>3. CallSafe(call[p])'
      BY <2>1, <2>2, <1>1, <1>2, <1>6 DEF CallSafe, HasEvidence
    <2> QED BY <2>3, <1>4 DEF SafeInv
  <1>8. CASE ~(c.idx < Len(Names(c.store))) /\ c.sok /\ ok
    <2>1. call'[p] = [c EXCEPT !.pc = "remove"]
      BY <1>5, <1>8
    <2>2. call'[p].pc = "remove" /\ call'[p].store = c.store
      BY <2>1, <1>1 DEF Calls
    <2>3. c.idx = Len(Names(c.store))
      BY <1>1, <1>8, StoreNames
    <2>4. applied' \cap NameSet(c.store) = {}
      BY <2>3, <1>6, <1>8 DEF NameSet
    <2>5. CallSafe(call[p])'
      BY <2>2, <2>4, <1>1, <1>2 DEF CallSafe, HasEvidence
    <2> QED BY <2>5, <1>4 DEF SafeInv
  <1>9. CASE ~(c.idx < Len(Names(c.store))) /\ ~(c.sok /\ ok)
    <2>1. call'[p].pc \in Harmless
      BY <1>1, <1>5, <1>9, AfterRestoreTyped DEF Harmless, PCs
    <2> QED BY <2>1, <1>4, HarmlessSafe DEF SafeInv
  <1> QED BY <1>7, <1>8, <1>9

LEMMA RemoveSafe ==
    ASSUME SafeInv, NEW p, Procs = {p}, TypeInv', _remove_backup(p)
    PROVE  SafeInv'
  <1> DEFINE c == call[p]
  <1>1. /\ c \in Calls /\ c.store \in Stores /\ TypeInv /\ p \in Procs
        /\ applied \cap NameSet(c.store) = {}
        /\ backup \in [Stores -> {NoFile, Invalid} \cup AnySnapshot]
    BY DEF SafeInv, TypeInv, TypeOK, Calls, CallSafe, _remove_backup
  <1>2. applied' = applied /\ (backup' = [backup EXCEPT ![c.store] = NoFile] \/ backup' = backup)
    BY DEF _remove_backup, history
  <1>3. EvidenceCoversApplied'
    BY <1>1, <1>2 DEF SafeInv, EvidenceCoversApplied
  <1>4. PICK ok \in BOOLEAN : call'[p] = AfterRestore(c, ok)
    BY <1>1 DEF _remove_backup, Go, TypeInv, TypeOK
  <1>5. call'[p].pc \in Harmless
    BY <1>4, <1>1, AfterRestoreTyped DEF Harmless, PCs
  <1> QED BY <1>3, <1>5, HarmlessSafe DEF SafeInv

(* The self-healing write and the NO_PROXY synchronisation. *)
LEMMA WorkerSafe ==
    ASSUME SafeInv, NEW p, Procs = {p}, TypeInv',
           \/ reassert_missing_owned_pac(p) \/ _reassert_recheck(p) \/ _reassert_write(p)
           \/ sync_client_no_proxy(p) \/ _sync_write(p)
    PROVE  SafeInv'
  <1>1. call[p] \in Calls /\ TypeInv /\ p \in Procs /\ EvidenceCoversApplied
    BY DEF SafeInv, TypeInv, TypeOK
  <1>2. "AutoConfigURL" \in NameSet("internet") /\ "NO_PROXY" \in NameSet("env")
        /\ NameSet("internet") \cap NameSet("env") = {}
    BY StoreNames
  <1>3. CASE reassert_missing_owned_pac(p)
    <2>1. UNCHANGED <<backup, applied>> /\ HasEvidence("internet")
      BY <1>3 DEF reassert_missing_owned_pac, history
    <2>2. call'[p].pc = "recheck"
      BY <1>1, <1>3 DEF reassert_missing_owned_pac, Go, TypeInv, TypeOK, Begin, Return
    <2>3. CallSafe(call[p])'
      BY <2>1, <2>2 DEF CallSafe, HasEvidence
    <2> QED BY <2>1, <2>3, <1>1 DEF SafeInv, EvidenceCoversApplied
  <1>4. CASE _reassert_recheck(p)
    <2>1. UNCHANGED <<backup, applied>> /\ HasEvidence("internet")
      BY <1>4 DEF _reassert_recheck, history, SafeInv, CallSafe
    <2>2. call'[p].pc \in {"heal", "idle"}
      BY <1>1, <1>4 DEF _reassert_recheck, Go, TypeInv, TypeOK, Return, Calls
    <2>3. CallSafe(call[p])'
      BY <2>1, <2>2 DEF CallSafe, HasEvidence
    <2> QED BY <2>1, <2>3, <1>1 DEF SafeInv, EvidenceCoversApplied
  <1>5. CASE _reassert_write(p)
    <2>1. /\ backup' = backup /\ HasEvidence("internet")
          /\ applied' \subseteq applied \cup {"AutoConfigURL"}
      BY <1>5 DEF _reassert_write, SafeInv, CallSafe
    <2>2. EvidenceCoversApplied'
      BY <1>1, <1>2, <2>1 DEF EvidenceCoversApplied, HasEvidence, Stores
    <2>3. call'[p].pc \in Harmless
      BY <1>1, <1>5 DEF _reassert_write, Go, TypeInv, TypeOK, Return, Harmless, PCs
    <2> QED BY <2>2, <2>3, HarmlessSafe DEF SafeInv
  <1>6. CASE sync_client_no_proxy(p)
    <2>1. UNCHANGED <<backup, applied>>
      BY <1>6 DEF sync_client_no_proxy, history
    <2>2. \/ call'[p].pc = "sync_write" /\ HasEvidence("env")
          \/ call'[p].pc = "idle"
      BY <1>1, <1>6 DEF sync_client_no_proxy, Go, TypeInv, TypeOK, Return, Calls
    <2>3. CallSafe(call[p])'
      BY <2>1, <2>2 DEF CallSafe, HasEvidence
    <2> QED BY <2>1, <2>3, <1>1 DEF SafeInv, EvidenceCoversApplied
  <1>7. CASE _sync_write(p)
    <2>1. /\ backup' = backup /\ HasEvidence("env")
          /\ applied' \subseteq applied \cup {"NO_PROXY"}
      BY <1>7 DEF _sync_write, SafeInv, CallSafe
    <2>2. EvidenceCoversApplied'
      BY <1>1, <1>2, <2>1 DEF EvidenceCoversApplied, HasEvidence, Stores
    <2>3. call'[p].pc \in Harmless
      BY <1>1, <1>7 DEF _sync_write, Go, TypeInv, TypeOK, Return, Harmless, PCs
    <2> QED BY <2>2, <2>3, HarmlessSafe DEF SafeInv
  <1> QED BY <1>3, <1>4, <1>5, <1>6, <1>7

(* Calls that begin or end, and the deletion of an orphaned PAC. *)
LEMMA QuietStepsSafe ==
    ASSUME SafeInv, NEW p, Procs = {p}, TypeInv',
           \/ _enable_recovery_autostart(p) \/ _finish(p) \/ _verdict(p) \/ Crash(p)
           \/ enable_system_proxy(p) \/ disable_system_proxy(p) \/ ensure_state_ready(p)
           \/ clear_orphaned_arvectum_pac(p) \/ _orphan_recheck(p) \/ _orphan_delete(p)
           \/ \E policy \in Policies : save_no_proxy(p, policy)
    PROVE  SafeInv'
  <1>1. call[p] \in Calls /\ TypeInv /\ p \in Procs /\ EvidenceCoversApplied
        /\ call \in [Procs -> Calls]
    BY DEF SafeInv, TypeInv, TypeOK
  <1>2. backup' = backup /\ applied' \subseteq applied
    BY DEF _enable_recovery_autostart, _finish, _verdict, Crash, enable_system_proxy,
           disable_system_proxy, clear_orphaned_arvectum_pac, _orphan_recheck,
           _orphan_delete, save_no_proxy, ensure_state_ready, history
  <1>3. EvidenceCoversApplied'
    BY <1>1, <1>2 DEF EvidenceCoversApplied
  <1>4. call'[p].pc \in {"idle", "restore", "save", "verdict", "orphan", "orphan_delete", "sync",
                       "import"}
    <2>1. CASE _enable_recovery_autostart(p)
      <3> DEFINE back == [call[p] EXCEPT !.pc = "restore", !.op = "rollback",
                                         !.store = "internet", !.ok = FALSE]
      <3>1. Go(p, Return("enable", TRUE)) \/ Go(p, back)
        BY <2>1, Zenon DEF _enable_recovery_autostart
      <3>2. call'[p] = Return("enable", TRUE) \/ call'[p] = back
        BY <3>1, <1>1 DEF Go
      <3>3. back.pc = "restore"
        BY <1>1 DEF Calls
      <3>4. Return("enable", TRUE).pc = "idle"
        BY DEF Return
      <3> HIDE DEF back
      <3> QED BY <3>2, <3>3, <3>4
    <2>2. CASE _finish(p)
      <3> DEFINE v == [call[p] EXCEPT !.pc = "verdict", !.ok = @ /\ ~network_restore_pending]
      <3>1. Go(p, Return("enable", FALSE)) \/ Go(p, v)
        BY <2>2, Zenon DEF _finish
      <3>2. call'[p] = Return("enable", FALSE) \/ call'[p] = v
        BY <3>1, <1>1 DEF Go
      <3>3. v.pc = "verdict"
        BY <1>1 DEF Calls
      <3>4. Return("enable", FALSE).pc = "idle"
        BY DEF Return
      <3> HIDE DEF v
      <3> QED BY <3>2, <3>3, <3>4
    <2>6. CASE _verdict(p)
      <3>1. \E ok : Go(p, Return("disable", ok))
        BY <2>6, Zenon DEF _verdict
      <3> QED BY <3>1, <1>1 DEF Go, Return
    <2>3. CASE Crash(p) \/ enable_system_proxy(p) \/ disable_system_proxy(p)
               \/ clear_orphaned_arvectum_pac(p) \/ ensure_state_ready(p)
      <3>1. CASE Crash(p)
        BY <3>1, <1>1 DEF Crash, Go, Return, Idle
      <3>2. CASE enable_system_proxy(p)
        BY <3>2, <1>1 DEF enable_system_proxy, Go, Return, Begin
      <3>3. CASE disable_system_proxy(p) \/ clear_orphaned_arvectum_pac(p)
        BY <3>3, <1>1 DEF disable_system_proxy, clear_orphaned_arvectum_pac, Go, Return, Begin
      <3>4. CASE ensure_state_ready(p)
        BY <3>4, <1>1 DEF ensure_state_ready, Go, Return, Begin
      <3> QED BY <2>3, <3>1, <3>2, <3>3, <3>4
    <2>4. CASE _orphan_recheck(p) \/ _orphan_delete(p)
      BY <2>4, <1>1 DEF _orphan_recheck, _orphan_delete, Go, Return, Calls
    <2>5. CASE \E policy \in Policies : save_no_proxy(p, policy)
      BY <2>5, <1>1 DEF save_no_proxy, Go, Return, Begin
    <2> QED BY <2>1, <2>2, <2>3, <2>4, <2>5, <2>6
  <1>5. call'[p].pc \in Harmless
    BY <1>4 DEF Harmless, PCs
  <1> QED BY <1>3, <1>5, HarmlessSafe DEF SafeInv

LEMMA ImportSafe ==
    ASSUME SafeInv, NEW p, Procs = {p}, TypeInv', _import_backup(p)
    PROVE  SafeInv'
  <1> DEFINE c == call[p]
  <1>1. /\ c \in Calls /\ c.store \in Stores /\ c.pc = "import" /\ p \in Procs
        /\ call \in [Procs -> Calls] /\ EvidenceCoversApplied
        /\ backup \in [Stores -> {NoFile, Invalid} \cup AnySnapshot]
    BY DEF SafeInv, TypeInv, TypeOK, Calls, _import_backup
  <1>2. applied' = applied
        /\ \/ backup' = backup
           \/ /\ legacy_backups[c.store] # NoFile
              /\ backup' = [backup EXCEPT ![c.store] = legacy_backups[c.store]]
    BY DEF _import_backup
  <1>3. EvidenceCoversApplied'
    BY <1>1, <1>2 DEF EvidenceCoversApplied
  <1>4. \/ Go(p, [c EXCEPT !.store = "env"])
        \/ \E ok : Go(p, Return("import", ok))
    BY DEF _import_backup
  <1>5. call'[p].pc \in {"import", "idle"}
    BY <1>1, <1>4 DEF Go, Return, Calls
  <1>6. call'[p].pc \in Harmless
    BY <1>5 DEF Harmless, PCs
  <1> QED BY <1>3, <1>6, HarmlessSafe DEF SafeInv

LEMMA OutsideSafe ==
    ASSUME SafeInv, NEW p, Procs = {p}, TypeInv',
           \/ \E e \in Endpoints : change_endpoint(e)
           \/ \E n \in AllNames : \E v \in ForeignValues[n] : ForeignWrite(n, v)
           \/ \E s \in Stores : Corrupt(s)
    PROVE  SafeInv'
  <1>1. CASE (\E e \in Endpoints : change_endpoint(e))
             \/ \E n \in AllNames : \E v \in ForeignValues[n] : ForeignWrite(n, v)
    <2>1. call' = call /\ backup' = backup /\ applied' \subseteq applied
      BY <1>1 DEF change_endpoint, ForeignWrite, history
    <2>2. EvidenceCoversApplied'
      BY <2>1 DEF SafeInv, EvidenceCoversApplied
    <2>3. CallSafe(call[p])'
      BY <2>1 DEF SafeInv, CallSafe, HasEvidence
    <2> QED BY <2>2, <2>3 DEF SafeInv
  <1>2. ASSUME NEW s \in Stores, Corrupt(s) PROVE SafeInv'
    <2>1. call' = call /\ applied' = applied /\ call[p].pc = "idle"
          /\ backup' = [backup EXCEPT ![s] = Invalid]
      BY <1>2 DEF Corrupt, history, Ready
    <2>2. EvidenceCoversApplied'
      BY <2>1, ValuesAssumption DEF SafeInv, EvidenceCoversApplied, TypeInv, TypeOK
    <2>3. call'[p].pc \in Harmless
      BY <2>1 DEF Harmless, PCs
    <2> QED BY <2>2, <2>3, HarmlessSafe DEF SafeInv
  <1> QED BY <1>1, <1>2

LEMMA SafeStep ==
    ASSUME NEW p, Procs = {p}, SafeInv, [Next]_vars
    PROVE  SafeInv'
  <1>1. TypeInv'
    BY TypeStep DEF SafeInv
  <1>2. CASE UNCHANGED vars
    <2>1. call' = call /\ backup' = backup /\ applied' = applied
      BY <1>2 DEF vars
    <2> QED BY <1>1, <2>1 DEF SafeInv, EvidenceCoversApplied, CallSafe, HasEvidence
  <1>3. CASE Step(p)
    BY <1>1, <1>3, SaveSafe, CommitSafe, ApplySafe, CheckSafe, RestoreSafe, RemoveSafe,
       WorkerSafe, QuietStepsSafe, ImportSafe DEF Step
  <1>4. CASE \/ Crash(p) \/ enable_system_proxy(p) \/ disable_system_proxy(p)
             \/ ensure_state_ready(p)
             \/ reassert_missing_owned_pac(p) \/ clear_orphaned_arvectum_pac(p)
             \/ \E policy \in Policies : save_no_proxy(p, policy)
    BY <1>1, <1>4, WorkerSafe, QuietStepsSafe
  <1>5. CASE \/ \E e \in Endpoints : change_endpoint(e)
             \/ \E n \in AllNames : \E v \in ForeignValues[n] : ForeignWrite(n, v)
             \/ \E s \in Stores : Corrupt(s)
    BY <1>1, <1>5, OutsideSafe
  <1> QED BY <1>2, <1>3, <1>4, <1>5 DEF Next

LEMMA SafeInit == Init => SafeInv
  <1> SUFFICES ASSUME Init PROVE SafeInv
    OBVIOUS
  <1>1. EvidenceCoversApplied
    BY DEF Init, EvidenceCoversApplied
  <1>2. \A p \in Procs : CallSafe(call[p])
    BY DEF Init, Idle, Return, CallSafe
  <1> QED BY <1>1, <1>2, TypeInit DEF SafeInv

(* windows_system_proxy.py, first lines: "Original user state is captured before *)
(* mutation ... and backup evidence is removed only after successful restore".   *)
(* While launcher processes run one after the other, no value the launcher       *)
(* applied is ever left without a backup file: whatever write fails, wherever a  *)
(* process is killed, whatever other programs write, however the settings are    *)
(* edited, whichever backup is damaged.                                          *)
THEOREM AppliedIsCovered ==
    ASSUME NEW p, Procs = {p}
    PROVE  Spec => []EvidenceCoversApplied
  <1>1. SafeInv => EvidenceCoversApplied
    BY DEF SafeInv
  <1>2. SafeInv /\ [Next]_vars => SafeInv'
    BY SafeStep
  <1> QED BY SafeInit, <1>1, <1>2, PTL DEF Spec

-----------------------------------------------------------------------------
(* Refinement: each store follows EvidenceProtocol.  Every step of the backend   *)
(* has one of six effects on the backups and the applied values, and each effect *)
(* is, seen from either store, a step of the protocol or no step at all.         *)

Keeps == backup' = backup /\ applied' = applied
Reverts == backup' = backup /\ \E n \in AllNames : applied' = applied \ {n}
Mutates ==
    /\ backup' = backup
    /\ \E s \in Stores : \E n \in NameSet(s) : HasEvidence(s) /\ applied' = applied \cup {n}
Captures ==
    /\ applied' = applied
    /\ \E s \in Stores : \E b \in Snapshots(s) \cup {Invalid} :
         backup[s] = NoFile /\ backup' = [backup EXCEPT ![s] = b]
Discards ==
    /\ applied' = applied
    /\ \E s \in Stores : /\ HasEvidence(s) /\ applied \cap NameSet(s) = {}
                         /\ backup' = [backup EXCEPT ![s] = NoFile]
Damages ==
    /\ applied' = applied
    /\ \E s \in Stores : HasEvidence(s) /\ backup' = [backup EXCEPT ![s] = Invalid]
Effect == Keeps \/ Reverts \/ Mutates \/ Captures \/ Discards \/ Damages

LEMMA BackupEffect ==
    ASSUME SafeInv, NEW p \in Procs,
           _commit_backup(p) \/ _remove_backup(p) \/ _import_backup(p)
    PROVE  Effect
  <1>1. /\ call[p] \in Calls /\ call[p].store \in Stores /\ CallTyped(call[p])
        /\ CallSafe(call[p])
    BY DEF SafeInv, TypeInv, TypeOK, Calls
  <1>2. applied' = applied
    BY DEF _commit_backup, _remove_backup, _import_backup, history
  <1>3. CASE _commit_backup(p)
    <2>1. backup[call[p].store] = NoFile /\ call[p].saved \in Snapshots(call[p].store)
      BY <1>1, <1>3 DEF _commit_backup, CallSafe, CallTyped
    <2>2. backup' = backup \/ backup' = [backup EXCEPT ![call[p].store] = call[p].saved]
      BY <1>3 DEF _commit_backup
    <2> QED BY <1>1, <1>2, <2>1, <2>2 DEF Effect, Keeps, Captures
  <1>4. CASE _remove_backup(p)
    <2>1. HasEvidence(call[p].store) /\ applied \cap NameSet(call[p].store) = {}
      BY <1>1, <1>4 DEF _remove_backup, CallSafe
    <2>2. backup' = backup \/ backup' = [backup EXCEPT ![call[p].store] = NoFile]
      BY <1>4 DEF _remove_backup
    <2> QED BY <1>1, <1>2, <2>1, <2>2 DEF Effect, Keeps, Discards
  <1>5. CASE _import_backup(p)
    <2>1. \/ backup' = backup
          \/ /\ backup[call[p].store] = NoFile /\ legacy_backups[call[p].store] # NoFile
             /\ backup' = [backup EXCEPT ![call[p].store] = legacy_backups[call[p].store]]
      BY <1>5 DEF _import_backup
    <2>2. legacy_backups[call[p].store] \in {NoFile, Invalid} \cup Snapshots(call[p].store)
      BY <1>1, ValuesAssumption
    <2> QED BY <1>1, <1>2, <2>1, <2>2 DEF Effect, Keeps, Captures
  <1> QED BY <1>3, <1>4, <1>5

LEMMA ValueEffect ==
    ASSUME SafeInv, NEW p \in Procs,
           \/ _apply_value(p) \/ _restore_value(p) \/ _reassert_write(p)
           \/ _sync_write(p) \/ _orphan_delete(p)
    PROVE  Effect
  <1>1. /\ call[p] \in Calls /\ call[p].store \in Stores /\ CallTyped(call[p])
        /\ CallSafe(call[p])
    BY DEF SafeInv, TypeInv, TypeOK, Calls
  <1>2. backup' = backup
    BY DEF _apply_value, _restore_value, _reassert_write, _sync_write, _orphan_delete
  <1>3. CASE _apply_value(p)
    <2> DEFINE n == ApplyOrder(call[p].store)[call[p].idx]
    <2>1. n \in NameSet(call[p].store) /\ HasEvidence(call[p].store)
      BY <1>1, <1>3, StoreNames DEF _apply_value, CallSafe, CallTyped
    <2>2. applied' = applied \/ applied' = applied \cup {n}
      BY <1>3 DEF _apply_value
    <2> HIDE DEF n
    <2> QED BY <1>1, <1>2, <2>1, <2>2 DEF Effect, Keeps, Mutates
  <1>4. CASE _restore_value(p)
    <2> DEFINE n == Names(call[p].store)[call[p].idx]
    <2>1. n \in AllNames
      BY <1>1, <1>4, StoreNames DEF _restore_value, CallTyped, NameSet
    <2>2. applied' = applied \/ applied' = applied \ {n}
      BY <1>4 DEF _restore_value
    <2> HIDE DEF n
    <2> QED BY <1>2, <2>1, <2>2 DEF Effect, Keeps, Reverts
  <1>5. CASE _reassert_write(p)
    <2>1. HasEvidence("internet") /\ "AutoConfigURL" \in NameSet("internet")
      BY <1>1, <1>5, StoreNames DEF _reassert_write, CallSafe
    <2>2. applied' = applied \/ applied' = applied \cup {"AutoConfigURL"}
      BY <1>5 DEF _reassert_write
    <2> QED BY <1>2, <2>1, <2>2 DEF Effect, Keeps, Mutates, Stores
  <1>6. CASE _sync_write(p)
    <2>1. HasEvidence("env") /\ "NO_PROXY" \in NameSet("env")
      BY <1>1, <1>6, StoreNames DEF _sync_write, CallSafe
    <2>2. applied' = applied \/ applied' = applied \cup {"NO_PROXY"}
      BY <1>6 DEF _sync_write
    <2> QED BY <1>2, <2>1, <2>2 DEF Effect, Keeps, Mutates, Stores
  <1>7. CASE _orphan_delete(p)
    <2>1. "AutoConfigURL" \in AllNames
      BY StoreNames
    <2>2. applied' = applied \/ applied' = applied \ {"AutoConfigURL"}
      BY <1>7 DEF _orphan_delete
    <2> QED BY <1>2, <2>1, <2>2 DEF Effect, Keeps, Reverts
  <1> QED BY <1>3, <1>4, <1>5, <1>6, <1>7

LEMMA StepEffect == SafeInv /\ [Next]_vars => Effect
  <1> SUFFICES ASSUME SafeInv, [Next]_vars PROVE Effect
    OBVIOUS
  <1>1. CASE UNCHANGED vars
    BY <1>1 DEF vars, Effect, Keeps
  <1>2. ASSUME NEW p \in Procs, Step(p) PROVE Effect
    <2>1. CASE \/ _save_backup(p) \/ _enable_recovery_autostart(p) \/ _restore_check(p)
               \/ _finish(p) \/ _verdict(p) \/ _reassert_recheck(p)
               \/ sync_client_no_proxy(p) \/ _orphan_recheck(p)
      <3>1. backup' = backup /\ applied' = applied
        <4>1. CASE _save_backup(p) \/ _restore_check(p)
          BY <4>1 DEF _save_backup, _restore_check, history
        <4>2. CASE _enable_recovery_autostart(p) \/ _finish(p) \/ _verdict(p)
          BY <4>2 DEF _enable_recovery_autostart, _finish, _verdict, history
        <4>3. CASE _reassert_recheck(p) \/ sync_client_no_proxy(p) \/ _orphan_recheck(p)
          BY <4>3 DEF _reassert_recheck, sync_client_no_proxy, _orphan_recheck, history
        <4> QED BY <2>1, <4>1, <4>2, <4>3
      <3> QED BY <3>1 DEF Effect, Keeps
    <2> QED BY <1>2, <2>1, BackupEffect, ValueEffect DEF Step
  <1>3. ASSUME NEW p \in Procs,
               \/ Crash(p) \/ enable_system_proxy(p) \/ disable_system_proxy(p)
               \/ reassert_missing_owned_pac(p) \/ clear_orphaned_arvectum_pac(p)
               \/ ensure_state_ready(p)
               \/ \E policy \in Policies : save_no_proxy(p, policy)
        PROVE Effect
    <2>1. backup' = backup /\ applied' = applied
      BY <1>3 DEF Crash, enable_system_proxy, disable_system_proxy, history, ensure_state_ready,
                  reassert_missing_owned_pac, clear_orphaned_arvectum_pac, save_no_proxy
    <2> QED BY <2>1 DEF Effect, Keeps
  <1>4. ASSUME NEW e \in Endpoints, change_endpoint(e) PROVE Effect
    BY <1>4 DEF change_endpoint, Effect, Keeps
  <1>5. ASSUME NEW n \in AllNames, NEW v \in ForeignValues[n], ForeignWrite(n, v)
        PROVE  Effect
    BY <1>5 DEF ForeignWrite, Effect, Reverts
  <1>6. ASSUME NEW s \in Stores, Corrupt(s) PROVE Effect
    BY <1>6 DEF Corrupt, history, Effect, Damages
  <1> QED BY <1>1, <1>2, <1>3, <1>4, <1>5, <1>6 DEF Next

(* EvidenceNext of one store, or a step that leaves the store alone. *)
Dirty(s) == applied \cap NameSet(s)
StoreStep(s) ==
    \/ UNCHANGED <<EvidenceOf(s), Dirty(s)>>
    \/ EvidenceOf(s) = "none" /\ Dirty(s) = {} /\ EvidenceOf(s)' \in {"held", "ambiguous"}
       /\ UNCHANGED Dirty(s)
    \/ EvidenceOf(s) = "held" /\ Dirty(s) = {} /\ EvidenceOf(s)' = "none"
       /\ UNCHANGED Dirty(s)
    \/ EvidenceOf(s) = "held" /\ EvidenceOf(s)' = "ambiguous" /\ UNCHANGED Dirty(s)
    \/ \E n \in NameSet(s) :
         /\ UNCHANGED EvidenceOf(s)
         /\ \/ EvidenceOf(s) = "held" /\ Dirty(s)' = Dirty(s) \cup {n}
            \/ Dirty(s)' = Dirty(s) \ {n}

LEMMA EffectIsStoreStep ==
    ASSUME SafeInv, Effect, NEW s \in Stores
    PROVE  StoreStep(s)
  <1>1. /\ backup \in [Stores -> {NoFile, Invalid} \cup AnySnapshot]
        /\ EvidenceCoversApplied /\ NoFile # Invalid
    BY ValuesAssumption DEF SafeInv, TypeInv, TypeOK
  <1>2. CASE Keeps
    BY <1>2 DEF Keeps, StoreStep, EvidenceOf, Dirty
  <1>3. CASE Reverts
    <2>1. PICK n \in AllNames : applied' = applied \ {n}
      BY <1>3 DEF Reverts
    <2>2. EvidenceOf(s)' = EvidenceOf(s)
      BY <1>3 DEF Reverts, EvidenceOf
    <2>3. CASE n \in NameSet(s)
      <3>1. Dirty(s)' = Dirty(s) \ {n}
        BY <2>1 DEF Dirty
      <3> QED BY <2>2, <2>3, <3>1 DEF StoreStep
    <2>4. CASE n \notin NameSet(s)
      <3>1. Dirty(s)' = Dirty(s)
        BY <2>1, <2>4 DEF Dirty
      <3> QED BY <2>2, <3>1 DEF StoreStep
    <2> QED BY <2>3, <2>4
  <1>4. CASE Mutates
    <2>1. PICK t \in Stores : \E n \in NameSet(t) : HasEvidence(t) /\ applied' = applied \cup {n}
      BY <1>4 DEF Mutates
    <2>2. PICK n \in NameSet(t) : HasEvidence(t) /\ applied' = applied \cup {n}
      BY <2>1
    <2>3. EvidenceOf(s)' = EvidenceOf(s)
      BY <1>4 DEF Mutates, EvidenceOf
    <2>4. CASE t = s
      <3>1. EvidenceOf(s) = "held"
        BY <2>2, <2>4 DEF HasEvidence, EvidenceOf
      <3>2. Dirty(s)' = Dirty(s) \cup {n}
        BY <2>2, <2>4 DEF Dirty
      <3> QED BY <2>2, <2>3, <2>4, <3>1, <3>2 DEF StoreStep
    <2>5. CASE t # s
      <3>1. n \notin NameSet(s)
        BY <2>2, <2>5, NamesAssumption DEF Stores
      <3>2. Dirty(s)' = Dirty(s)
        BY <2>2, <3>1 DEF Dirty
      <3> QED BY <2>3, <3>2 DEF StoreStep
    <2> QED BY <2>4, <2>5
  <1>5. CASE Captures
    <2>1. PICK t \in Stores : \E b \in Snapshots(t) \cup {Invalid} :
            backup[t] = NoFile /\ backup' = [backup EXCEPT ![t] = b]
      BY <1>5 DEF Captures
    <2>2. PICK b \in Snapshots(t) \cup {Invalid} :
            backup[t] = NoFile /\ backup' = [backup EXCEPT ![t] = b]
      BY <2>1
    <2>3. Dirty(s)' = Dirty(s)
      BY <1>5 DEF Captures, Dirty
    <2>4. CASE t = s
      <3>1. EvidenceOf(s) = "none" /\ Dirty(s) = {}
        BY <1>1, <2>2, <2>4 DEF EvidenceOf, Dirty, EvidenceCoversApplied
      <3>2. EvidenceOf(s)' \in {"held", "ambiguous"}
        BY <1>1, <2>2, <2>4, EvidenceIsFile DEF EvidenceOf, SafeInv
      <3> QED BY <2>3, <3>1, <3>2 DEF StoreStep
    <2>5. CASE t # s
      BY <1>1, <2>2, <2>3, <2>5 DEF StoreStep, EvidenceOf
    <2> QED BY <2>4, <2>5
  <1>6. CASE Discards
    <2>1. PICK t \in Stores : HasEvidence(t) /\ applied \cap NameSet(t) = {}
                              /\ backup' = [backup EXCEPT ![t] = NoFile]
      BY <1>6 DEF Discards
    <2>2. Dirty(s)' = Dirty(s)
      BY <1>6 DEF Discards, Dirty
    <2>3. CASE t = s
      BY <1>1, <2>1, <2>2, <2>3 DEF StoreStep, EvidenceOf, Dirty, HasEvidence
    <2>4. CASE t # s
      BY <1>1, <2>1, <2>2, <2>4 DEF StoreStep, EvidenceOf
    <2> QED BY <2>3, <2>4
  <1>7. CASE Damages
    <2>1. PICK t \in Stores : HasEvidence(t) /\ backup' = [backup EXCEPT ![t] = Invalid]
      BY <1>7 DEF Damages
    <2>2. Dirty(s)' = Dirty(s)
      BY <1>7 DEF Damages, Dirty
    <2>3. CASE t = s
      BY <1>1, <2>1, <2>2, <2>3 DEF StoreStep, EvidenceOf, HasEvidence
    <2>4. CASE t # s
      BY <1>1, <2>1, <2>2, <2>4 DEF StoreStep, EvidenceOf
    <2> QED BY <2>3, <2>4
  <1> QED BY <1>2, <1>3, <1>4, <1>5, <1>6, <1>7 DEF Effect

(* The WinINET half of windows_system_proxy.py implements the evidence protocol  *)
(* while launcher processes run one after the other: it changes a value only     *)
(* with readable evidence on disk, removes evidence only when nothing it changed *)
(* is left, and never replaces evidence it cannot read.                          *)
THEOREM InternetImplements ==
    ASSUME NEW p, Procs = {p}
    PROVE  Spec => InternetRefines
  <1>1. Init => Internet!EvidenceInit
    BY DEF Init, Internet!EvidenceInit, EvidenceOf, Stores
  <1>2. SafeInv /\ [Next]_vars => [Internet!EvidenceNext]_(Internet!evidenceVars)
    <2> SUFFICES ASSUME SafeInv, [Next]_vars
                 PROVE  [Internet!EvidenceNext]_(Internet!evidenceVars)
      OBVIOUS
    <2>1. StoreStep("internet")
      BY StepEffect, EffectIsStoreStep DEF Stores
    <2> QED BY <2>1 DEF StoreStep, Dirty, Internet!EvidenceNext, Internet!Capture, Internet!Inherit,
                  Internet!Discard, Internet!Damage, Internet!Mutate, Internet!Revert,
                  Internet!evidenceVars
  <1>3. SafeInv /\ [Next]_vars => SafeInv'
    BY SafeStep
  <1> QED BY <1>1, <1>2, <1>3, SafeInit, PTL DEF Spec, InternetRefines, Internet!EvidenceSpec

(* And so does the user-environment half. *)
THEOREM EnvImplements ==
    ASSUME NEW p, Procs = {p}
    PROVE  Spec => EnvRefines
  <1>1. Init => Env!EvidenceInit
    BY DEF Init, Env!EvidenceInit, EvidenceOf, Stores
  <1>2. SafeInv /\ [Next]_vars => [Env!EvidenceNext]_(Env!evidenceVars)
    <2> SUFFICES ASSUME SafeInv, [Next]_vars
                 PROVE  [Env!EvidenceNext]_(Env!evidenceVars)
      OBVIOUS
    <2>1. StoreStep("env")
      BY StepEffect, EffectIsStoreStep DEF Stores
    <2> QED BY <2>1 DEF StoreStep, Dirty, Env!EvidenceNext, Env!Capture, Env!Inherit, Env!Discard,
                  Env!Damage, Env!Mutate, Env!Revert, Env!evidenceVars
  <1>3. SafeInv /\ [Next]_vars => SafeInv'
    BY SafeStep
  <1> QED BY <1>1, <1>2, <1>3, SafeInit, PTL DEF Spec, EnvRefines, Env!EvidenceSpec
=============================================================================
