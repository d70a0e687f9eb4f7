----------------------- MODULE WindowsRecoveryProofs -----------------------
(* Proofs about WindowsSystemProxy that look at the values themselves: what the  *)
(* user had can be had back, the launcher recognises its own writes, and its     *)
(* calls tell the truth.  As in WindowsSystemProxyProofs launcher processes run  *)
(* one after the other; names, values, settings and budgets are any.             *)
EXTENDS WindowsSystemProxyProofs

-----------------------------------------------------------------------------
(* The inductive invariant.                                                      *)

(* A backup holds what the user had, for every name nobody else wrote meanwhile. *)
BackupsTrue ==
    \A s \in Stores : HasEvidence(s) => \A n \in NameSet(s) \ drift : backup[s][n] = user[n]

(* A value the launcher has not applied is the user's. *)
RestTrue == \A n \in AllNames \ (applied \cup drift) : reg[n] = user[n]

(* A value it has applied is the one the settings of this moment would apply. *)
AppliedTrue ==
    \A s \in Stores \ edited : \A n \in applied \cap NameSet(s) :
        HasEvidence(s) => reg[n] = AppliedValue(n, endpoint, no_proxy, backup[s])

(* What a call has in hand, and what its ok stands for. *)
Reads(c) ==
    /\ c.pc = "commit" => \A n \in NameSet(c.store) \ drift : c.saved[n] = user[n]
    /\ c.pc \in {"apply", "unwind"} => c.saved = backup[c.store]
    /\ c.pc = "sync_write" => c.saved = backup["env"]
    /\ c.pc \in {"save", "commit", "apply"} => c.cfg = endpoint \/ edited = Stores
    /\ c.pc \in {"orphan", "orphan_delete"} => backup["internet"] = NoFile
Means(c) ==
    /\ c.pc \in {"save", "commit", "apply"} /\ c.store = "env" => HasEvidence("internet")
    /\ c.pc = "autostart" /\ c.ok => \A s \in Stores : HasEvidence(s)
    /\ c.pc \in {"restore", "unwind", "remove"} /\ c.op = "undo" => ~c.ok
    /\ c.pc = "verdict" /\ c.ok => ~network_restore_pending
Knows(c) == Reads(c) /\ Means(c)

ValuesTrue == BackupsTrue /\ RestTrue /\ AppliedTrue
TruthInv == SafeInv /\ ValuesTrue /\ \A p \in Procs : Knows(call[p])

(* Steps at which a call has nothing in hand. *)
Empty == {"idle", "finish", "recheck", "heal", "sync", "import"}

LEMMA EmptyKnows ==
    ASSUME NEW p, call'[p].pc \in Empty
    PROVE  Knows(call[p])'
BY DEF Empty, Knows, Reads, Means

(* What a process knows of the file of its store. *)
LEMMA InHand ==
    ASSUME TruthInv, NEW p \in Procs
    PROVE  /\ call[p] \in Calls /\ call[p].store \in Stores /\ call \in [Procs -> Calls]
           /\ CallTyped(call[p]) /\ CallSafe(call[p]) /\ Knows(call[p])
           /\ reg \in Registry(AllNames) /\ user \in Registry(AllNames)
           /\ backup \in [Stores -> {NoFile, Invalid} \cup AnySnapshot]
           /\ applied \subseteq AllNames /\ drift \subseteq AllNames
BY DEF TruthInv, SafeInv, TypeInv, TypeOK, Calls

LEMMA Uncaptured ==
    ASSUME TruthInv, NEW s \in Stores, backup[s] = NoFile
    PROVE  applied \cap NameSet(s) = {}
BY DEF TruthInv, SafeInv, EvidenceCoversApplied

(* A step that moves its call on, and at most finds values unreadable. *)
LEMMA MoveTrue ==
    ASSUME TruthInv, NEW p, Procs = {p}, SafeInv',
           UNCHANGED <<reg, backup, endpoint, no_proxy, applied, user, edited>>,
           drift \subseteq drift', Knows(call[p])'
    PROVE  TruthInv'
<1>1. BackupsTrue'
  BY DEF TruthInv, ValuesTrue, BackupsTrue, HasEvidence
<1>2. RestTrue'
  BY DEF TruthInv, ValuesTrue, RestTrue
<1>3. AppliedTrue'
  BY DEF TruthInv, ValuesTrue, AppliedTrue, HasEvidence
<1> QED BY <1>1, <1>2, <1>3 DEF TruthInv, ValuesTrue

LEMMA RefusedKnows ==
    ASSUME NEW p, NEW c \in Calls, call'[p] = Refused(c)
    PROVE  Knows(call[p])'
<1>1. call'[p].pc = "idle" \/ (call'[p].pc = "autostart" /\ ~call'[p].ok)
  BY DEF Refused, Return, Calls
<1> QED BY <1>1 DEF Knows, Reads, Means

(* The end of a restore: on to the other store, to the end of the call, or, when *)
(* a failed enable undid its environment half, to the end of that.               *)
LEMMA AfterRestoreKnows ==
    ASSUME NEW p, NEW c \in Calls, NEW ok \in BOOLEAN, call'[p] = AfterRestore(c, ok),
           c.op = "undo" => ~c.ok
    PROVE  Knows(call[p])'
<1>1. CASE c.op = "undo"
  <2>1. call'[p].pc = "autostart" /\ ~call'[p].ok
    BY <1>1 DEF AfterRestore, Calls
  <2> QED BY <2>1 DEF Knows, Reads, Means
<1>2. CASE c.op # "undo"
  <2>1. call'[p].pc \in {"restore", "finish"} /\ call'[p].op # "undo"
    BY <1>2 DEF AfterRestore, Calls
  <2> QED BY <2>1 DEF Knows, Reads, Means
<1> QED BY <1>1, <1>2

-----------------------------------------------------------------------------
(* enable_system_proxy                                                           *)

LEMMA SaveTrue ==
    ASSUME TruthInv, NEW p, Procs = {p}, SafeInv', _save_backup(p)
    PROVE  TruthInv'
<1> DEFINE c == call[p]
<1>1. /\ c \in Calls /\ c.store \in Stores /\ p \in Procs /\ call \in [Procs -> Calls]
      /\ c.pc = "save" /\ Knows(c)
  BY InHand DEF _save_backup
<1>2. UNCHANGED <<reg, backup, endpoint, no_proxy, applied, user, edited>>
  BY DEF _save_backup
<1>3. /\ c.cfg = endpoint \/ edited = Stores
      /\ c.store = "env" => HasEvidence("internet")
  BY <1>1 DEF Knows, Reads, Means
<1>4. CASE /\ HasEvidence(c.store)
           /\ Go(p, [c EXCEPT !.pc = "apply", !.idx = 1, !.sok = TRUE, !.saved = backup[c.store]])
           /\ UNCHANGED <<left, drift>>
  <2>1. call'[p] = [c EXCEPT !.pc = "apply", !.idx = 1, !.sok = TRUE, !.saved = backup[c.store]]
    BY <1>1, <1>4 DEF Go
  <2>2. /\ call'[p].pc = "apply" /\ call'[p].store = c.store /\ call'[p].cfg = c.cfg
        /\ call'[p].saved = backup[c.store]
    BY <1>1, <2>1 DEF Calls
  <2>3. Knows(call[p])'
    BY <1>2, <1>3, <2>2 DEF Knows, Reads, Means, HasEvidence
  <2> QED BY <1>2, <1>4, <2>3, MoveTrue
<1>5. CASE Go(p, Refused(c)) /\ UNCHANGED drift
  <2>1. call'[p] = Refused(c)
    BY <1>1, <1>5 DEF Go
  <2>2. Knows(call[p])'
    BY <1>1, <2>1, RefusedKnows
  <2> QED BY <1>2, <1>5, <2>2, MoveTrue
<1>6. ASSUME backup[c.store] = NoFile, NEW lost \in SUBSET NameSet(c.store),
             Go(p, [c EXCEPT !.pc = "commit",
                               !.saved = [n \in NameSet(c.store) |-> View(lost)[n]]]),
             drift' = drift \cup lost
      PROVE  TruthInv'
  <2>1. call'[p] = [c EXCEPT !.pc = "commit",
                               !.saved = [n \in NameSet(c.store) |-> View(lost)[n]]]
    BY <1>1, <1>6 DEF Go
  <2>2. /\ call'[p].pc = "commit" /\ call'[p].store = c.store /\ call'[p].cfg = c.cfg
        /\ call'[p].saved = [n \in NameSet(c.store) |-> View(lost)[n]]
    BY <1>1, <2>1 DEF Calls
  <2>3. NameSet(c.store) \subseteq AllNames /\ applied \cap NameSet(c.store) = {}
    BY <1>1, <1>6, StoreNames, Uncaptured
  <2>4. \A n \in NameSet(c.store) \ drift' : call'[p].saved[n] = user'[n]
    BY <1>2, <1>6, <2>2, <2>3 DEF View, TruthInv, ValuesTrue, RestTrue
  <2>5. Knows(call[p])'
    BY <1>2, <1>3, <2>2, <2>4 DEF Knows, Reads, Means, HasEvidence
  <2> QED BY <1>2, <1>6, <2>5, MoveTrue
<1> QED BY <1>4, <1>5, <1>6 DEF _save_backup

LEMMA CommitTrue ==
    ASSUME TruthInv, NEW p, Procs = {p}, SafeInv', _commit_backup(p)
    PROVE  TruthInv'
<1> DEFINE c == call[p]
<1>1. /\ c \in Calls /\ c.store \in Stores /\ p \in Procs /\ call \in [Procs -> Calls]
      /\ c.pc = "commit" /\ Knows(c) /\ CallSafe(c) /\ c.saved \in Snapshots(c.store)
      /\ backup \in [Stores -> {NoFile, Invalid} \cup AnySnapshot]
  BY InHand DEF _commit_backup, CallTyped
<1>2. UNCHANGED <<reg, endpoint, no_proxy, applied, user, drift, edited>>
  BY DEF _commit_backup, history
<1>3. /\ c.cfg = endpoint \/ edited = Stores
      /\ c.store = "env" => HasEvidence("internet")
      /\ \A n \in NameSet(c.store) \ drift : c.saved[n] = user[n]
  BY <1>1 DEF Knows, Reads, Means
<1>4. CASE /\ backup' = [backup EXCEPT ![c.store] = c.saved]
           /\ Go(p, [c EXCEPT !.pc = "apply", !.idx = 1, !.sok = TRUE])
  <2>1. call'[p] = [c EXCEPT !.pc = "apply", !.idx = 1, !.sok = TRUE]
    BY <1>1, <1>4 DEF Go
  <2>2. /\ call'[p].pc = "apply" /\ call'[p].store = c.store /\ call'[p].cfg = c.cfg
        /\ call'[p].saved = c.saved
    BY <1>1, <2>1 DEF Calls
  <2>3. applied \cap NameSet(c.store) = {}
    BY <1>1, Uncaptured DEF CallSafe
  <2>4. BackupsTrue'
    BY <1>1, <1>2, <1>3, <1>4 DEF TruthInv, ValuesTrue, BackupsTrue, HasEvidence
  <2>5. RestTrue'
    BY <1>2 DEF TruthInv, ValuesTrue, RestTrue
  <2>6. AppliedTrue'
    BY <1>1, <1>2, <1>4, <2>3 DEF TruthInv, ValuesTrue, AppliedTrue, HasEvidence
  <2>7. c.store = "env" => HasEvidence("internet")'
    BY <1>1, <1>3, <1>4 DEF HasEvidence, Stores
  <2>8. Knows(call[p])'
    BY <1>1, <1>2, <1>3, <1>4, <2>2, <2>7 DEF Knows, Reads, Means
  <2> QED BY <2>4, <2>5, <2>6, <2>8 DEF TruthInv, ValuesTrue
<1>5. CASE Go(p, Refused(c)) /\ UNCHANGED backup
  <2>1. call'[p] = Refused(c)
    BY <1>1, <1>5 DEF Go
  <2>2. Knows(call[p])'
    BY <1>1, <2>1, RefusedKnows
  <2> QED BY <1>2, <1>5, <2>2, MoveTrue
<1> QED BY <1>4, <1>5 DEF _commit_backup

(* A value is applied as the settings of this moment say. *)
LEMMA AppliesTrue ==
    ASSUME TruthInv, NEW s \in Stores, NEW n \in NameSet(s), NEW v,
           reg' = [reg EXCEPT ![n] = v], applied' = applied \cup {n},
           UNCHANGED <<backup, endpoint, no_proxy, user, drift, edited>>,
           s \notin edited => v = AppliedValue(n, endpoint, no_proxy, backup[s])
    PROVE  ValuesTrue'
<1>1. /\ n \in AllNames /\ reg \in [AllNames -> Values]
      /\ \A t \in Stores : n \in NameSet(t) => t = s
  BY StoreNames DEF TruthInv, SafeInv, TypeInv, TypeOK, Registry, Stores
<1>2. BackupsTrue'
  BY DEF TruthInv, ValuesTrue, BackupsTrue, HasEvidence
<1>3. RestTrue'
  BY <1>1 DEF TruthInv, ValuesTrue, RestTrue
<1>4. AppliedTrue'
  <2> SUFFICES ASSUME NEW t \in Stores \ edited, NEW m \in applied' \cap NameSet(t),
                      HasEvidence(t)
               PROVE  reg'[m] = AppliedValue(m, endpoint, no_proxy, backup[t])
    BY DEF AppliedTrue, HasEvidence
  <2>1. CASE m = n
    BY <1>1, <2>1
  <2>2. CASE m # n
    <3>1. reg'[m] = reg[m] /\ m \in applied
      BY <2>2
    <3> QED BY <3>1 DEF TruthInv, ValuesTrue, AppliedTrue
  <2> QED BY <2>1, <2>2
<1> QED BY <1>2, <1>3, <1>4 DEF ValuesTrue

(* Where the writes of one store end. *)
LEMMA AfterApplyKnows ==
    ASSUME NEW p, NEW c \in Calls, call'[p] = AfterApply(c), HasEvidence(c.store),
           c.store = "env" => HasEvidence("internet"),
           c.cfg = endpoint \/ edited = Stores, UNCHANGED <<backup, endpoint, edited>>
    PROVE  Knows(call[p])'
<1>1. CASE c.store = "internet"
  <2>1. call'[p].pc = "save" /\ call'[p].store = "env" /\ call'[p].cfg = c.cfg
    BY <1>1 DEF AfterApply, Calls
  <2> QED BY <1>1, <2>1 DEF Knows, Reads, Means, HasEvidence
<1>2. CASE c.store = "env" /\ c.sok
  <2>1. call'[p].pc = "autostart"
    BY <1>2 DEF AfterApply, Calls
  <2> QED BY <1>2, <2>1 DEF Knows, Reads, Means, HasEvidence, Stores
<1>3. CASE c.store = "env" /\ ~c.sok
  <2>1. call'[p].pc = "restore" /\ ~call'[p].ok
    BY <1>3 DEF AfterApply, Calls
  <2> QED BY <2>1 DEF Knows, Reads, Means
<1> QED BY <1>1, <1>2, <1>3 DEF Calls, Stores

LEMMA ApplyTrue ==
    ASSUME TruthInv, NEW p, Procs = {p}, SafeInv', _apply_value(p)
    PROVE  TruthInv'
<1> DEFINE c == call[p]
           n == ApplyOrder(c.store)[c.idx]
           After(ok) ==
             IF c.idx < Len(ApplyOrder(c.store)) THEN Advance(c, ok)
               ELSE AfterApply([c EXCEPT !.sok = @ /\ ok])
<1>1. /\ c \in Calls /\ c.store \in Stores /\ p \in Procs /\ call \in [Procs -> Calls]
      /\ c.pc = "apply" /\ Knows(c) /\ HasEvidence(c.store)
      /\ c.idx \in 1..Len(ApplyOrder(c.store))
  BY InHand DEF _apply_value, CallTyped, CallSafe
<1>2. UNCHANGED <<backup, endpoint, no_proxy, user, drift, edited>>
  BY DEF _apply_value
<1>3. /\ c.cfg = endpoint \/ edited = Stores
      /\ c.store = "env" => HasEvidence("internet")
      /\ c.saved = backup[c.store]
  BY <1>1 DEF Knows, Reads, Means
<1>4. n \in NameSet(c.store)
  BY <1>1, StoreNames
<1>5. ValuesTrue'
  <2>1. CASE reg' = [reg EXCEPT ![n] = AppliedValue(n, c.cfg, no_proxy, c.saved)]
             /\ applied' = applied \cup {n}
    <3>1. c.store \notin edited =>
            AppliedValue(n, c.cfg, no_proxy, c.saved)
              = AppliedValue(n, endpoint, no_proxy, backup[c.store])
      BY <1>1, <1>3
    <3> HIDE DEF n
    <3>2. PICK v : v = AppliedValue(n, c.cfg, no_proxy, c.saved)
      OBVIOUS
    <3> QED BY <1>1, <1>2, <1>4, <2>1, <3>1, <3>2, AppliesTrue
  <2>2. CASE UNCHANGED <<reg, applied>>
    BY <1>2, <2>2 DEF TruthInv, ValuesTrue, BackupsTrue, RestTrue, AppliedTrue, HasEvidence
  <2> QED BY <2>1, <2>2 DEF _apply_value
<1>6. PICK ok \in BOOLEAN : call'[p] = After(ok)
  BY <1>1 DEF _apply_value, Go
<1>7. CASE c.idx < Len(ApplyOrder(c.store))
  <2>1. /\ call'[p].pc = "apply" /\ call'[p].store = c.store /\ call'[p].cfg = c.cfg
        /\ call'[p].saved = c.saved
    BY <1>1, <1>6, <1>7, AdvanceTyped
  <2>2. Knows(call[p])'
    BY <1>2, <1>3, <2>1 DEF Knows, Reads, Means, HasEvidence
  <2> QED BY <1>5, <2>2 DEF TruthInv
<1>8. CASE ~(c.idx < Len(ApplyOrder(c.store)))
  <2>1. PICK d : d = [c EXCEPT !.sok = @ /\ ok]
    OBVIOUS
  <2>2. d \in Calls /\ d.store = c.store /\ d.cfg = c.cfg
    BY <1>1, <2>1 DEF Calls
  <2>3. call'[p] = AfterApply(d)
    BY <1>6, <1>8, <2>1
  <2>4. Knows(call[p])'
    BY <1>1, <1>2, <1>3, <2>2, <2>3, AfterApplyKnows
  <2> QED BY <1>5, <2>4 DEF TruthInv
<1> QED BY <1>7, <1>8

LEMMA AutostartTrue ==
    ASSUME TruthInv, NEW p, Procs = {p}, SafeInv', _enable_recovery_autostart(p)
    PROVE  TruthInv'
<1> DEFINE back == [call[p] EXCEPT !.pc = "restore", !.op = "rollback",
                                   !.store = "internet", !.ok = FALSE]
<1>1. call[p] \in Calls /\ p \in Procs /\ call \in [Procs -> Calls]
  BY InHand
<1>2. UNCHANGED <<reg, backup, endpoint, no_proxy, applied, user, drift, edited>>
  BY DEF _enable_recovery_autostart, history
<1>3. Go(p, Return("enable", TRUE)) \/ Go(p, back)
  BY Zenon DEF _enable_recovery_autostart
<1>4. call'[p] = Return("enable", TRUE) \/ call'[p] = back
  BY <1>1, <1>3 DEF Go
<1>5. back.pc = "restore" /\ back.op = "rollback"
  BY <1>1 DEF Calls
<1>6. Return("enable", TRUE).pc = "idle"
  BY DEF Return
<1>7. call'[p].pc = "idle" \/ (call'[p].pc = "restore" /\ call'[p].op = "rollback")
  <2> HIDE DEF back
  <2> QED BY <1>4, <1>5, <1>6
<1>8. Knows(call[p])'
  BY <1>7 DEF Knows, Reads, Means
<1> QED BY <1>2, <1>8, MoveTrue

-----------------------------------------------------------------------------
(* The restore                                                                   *)

LEMMA CheckTrue ==
    ASSUME TruthInv, NEW p, Procs = {p}, SafeInv', _restore_check(p)
    PROVE  TruthInv'
<1> DEFINE c == call[p]
           d == [c EXCEPT !.pc = "unwind", !.idx = 1, !.sok = TRUE, !.saved = backup[c.store]]
<1>1. /\ c \in Calls /\ c.store \in Stores /\ p \in Procs /\ call \in [Procs -> Calls]
      /\ c.op = "undo" => ~c.ok
  BY InHand DEF _restore_check, Knows, Means
<1>2. UNCHANGED <<reg, backup, endpoint, no_proxy, applied, user, drift, edited>>
  BY DEF _restore_check, history
<1>3. CASE Go(p, AfterRestore(c, TRUE)) \/ Go(p, AfterRestore(c, FALSE))
  <2>1. PICK ok \in BOOLEAN : call'[p] = AfterRestore(c, ok)
    BY <1>1, <1>3 DEF Go
  <2>2. Knows(call[p])'
    BY <1>1, <2>1, AfterRestoreKnows
  <2> QED BY <1>2, <2>2, MoveTrue
<1>4. CASE Go(p, d)
  <2>1. call'[p] = d
    BY <1>1, <1>4 DEF Go
  <2>2. /\ call'[p].pc = "unwind" /\ call'[p].store = c.store /\ call'[p].saved = backup[c.store]
        /\ call'[p].op = c.op /\ call'[p].ok = c.ok
    BY <1>1, <2>1 DEF Calls
  <2>3. Knows(call[p])'
    BY <1>1, <1>2, <2>2 DEF Knows, Reads, Means
  <2> QED BY <1>2, <2>3, MoveTrue
<1>5. Go(p, AfterRestore(c, TRUE)) \/ Go(p, AfterRestore(c, FALSE)) \/ Go(p, d)
  BY Zenon DEF _restore_check
<1> QED BY <1>3, <1>4, <1>5

(* What is put back is what the user had, unless another program has written it  *)
(* since.                                                                        *)
LEMMA RestoreTrue ==
    ASSUME TruthInv, NEW p, Procs = {p}, SafeInv', _restore_value(p)
    PROVE  TruthInv'
<1> DEFINE c == call[p]
           n == Names(c.store)[c.idx]
           After(ok) ==
             IF c.idx < Len(Names(c.store)) THEN Advance(c, ok)
             ELSE IF c.sok /\ ok THEN [c EXCEPT !.pc = "remove"]
             ELSE AfterRestore(c, FALSE)
<1>1. /\ c \in Calls /\ c.store \in Stores /\ p \in Procs /\ call \in [Procs -> Calls]
      /\ c.pc = "unwind" /\ HasEvidence(c.store) /\ c.saved = backup[c.store]
      /\ c.idx \in 1..Len(Names(c.store)) /\ (c.op = "undo" => ~c.ok)
      /\ reg \in [AllNames -> Values]
  BY InHand DEF _restore_value, CallTyped, CallSafe, Knows, Reads, Means, Registry
<1>2. UNCHANGED <<backup, endpoint, no_proxy, user, drift, edited>>
  BY DEF _restore_value
<1>3. n \in NameSet(c.store) /\ n \in AllNames
  BY <1>1, StoreNames
<1>4. ValuesTrue'
  <2>1. CASE reg' = [reg EXCEPT ![n] = c.saved[n]] /\ applied' = applied \ {n}
    <3> HIDE DEF n
    <3>1. n \notin drift => c.saved[n] = user[n]
      BY <1>1, <1>3 DEF TruthInv, ValuesTrue, BackupsTrue
    <3>2. BackupsTrue'
      BY <1>2 DEF TruthInv, ValuesTrue, BackupsTrue, HasEvidence
    <3>3. RestTrue'
      BY <1>1, <1>2, <1>3, <2>1, <3>1 DEF TruthInv, ValuesTrue, RestTrue
    <3>4. AppliedTrue'
      BY <1>2, <2>1 DEF TruthInv, ValuesTrue, AppliedTrue, HasEvidence
    <3> QED BY <3>2, <3>3, <3>4 DEF ValuesTrue
  <2>2. CASE UNCHANGED <<reg, applied>>
    BY <1>2, <2>2 DEF TruthInv, ValuesTrue, BackupsTrue, RestTrue, AppliedTrue, HasEvidence
  <2> QED BY <2>1, <2>2 DEF _restore_value
<1>5. PICK ok \in BOOLEAN : call'[p] = After(ok)
  BY <1>1 DEF _restore_value, Go
<1>6. Knows(call[p])'
  <2>1. CASE c.idx < Len(Names(c.store))
    <3>1. call'[p] = Advance(c, ok)
      BY <1>5, <2>1
    <3>2. /\ call'[p].pc = "unwind" /\ call'[p].store = c.store /\ call'[p].op = c.op
          /\ call'[p].saved = c.saved
      BY <1>1, <3>1, AdvanceTyped
    <3>3. call'[p].ok = c.ok
      BY <1>1, <3>1 DEF Advance, Calls
    <3> QED BY <1>1, <1>2, <3>2, <3>3 DEF Knows, Reads, Means
  <2>2. CASE ~(c.idx < Len(Names(c.store))) /\ c.sok /\ ok
    <3>1. call'[p] = [c EXCEPT !.pc = "remove"]
      BY <1>5, <2>2
    <3>2. call'[p].pc = "remove" /\ call'[p].op = c.op /\ call'[p].ok = c.ok
      BY <1>1, <3>1 DEF Calls
    <3> QED BY <1>1, <3>2 DEF Knows, Reads, Means
  <2>3. CASE ~(c.idx < Len(Names(c.store))) /\ ~(c.sok /\ ok)
    <3>1. PICK no \in BOOLEAN : call'[p] = AfterRestore(c, no)
      BY <1>5, <2>3
    <3> QED BY <1>1, <3>1, AfterRestoreKnows
  <2> QED BY <2>1, <2>2, <2>3
<1> QED BY <1>4, <1>6 DEF TruthInv

LEMMA RemoveTrue ==
    ASSUME TruthInv, NEW p, Procs = {p}, SafeInv', _remove_backup(p)
    PROVE  TruthInv'
<1> DEFINE c == call[p]
<1>1. /\ c \in Calls /\ c.store \in Stores /\ p \in Procs /\ call \in [Procs -> Calls]
      /\ c.op = "undo" => ~c.ok
      /\ backup \in [Stores -> {NoFile, Invalid} \cup AnySnapshot]
  BY InHand DEF _remove_backup, Knows, Means
<1>2. UNCHANGED <<reg, endpoint, no_proxy, applied, user, drift, edited>>
  BY DEF _remove_backup, history
<1>3. backup' = [backup EXCEPT ![c.store] = NoFile] \/ backup' = backup
  BY DEF _remove_backup
<1>4. \A s \in Stores : HasEvidence(s)' => HasEvidence(s) /\ backup'[s] = backup[s]
  BY <1>1, <1>3 DEF HasEvidence
<1>5. ValuesTrue'
  BY <1>2, <1>4 DEF TruthInv, ValuesTrue, BackupsTrue, RestTrue, AppliedTrue
<1>6. PICK ok \in BOOLEAN : call'[p] = AfterRestore(c, ok)
  BY <1>1 DEF _remove_backup, Go
<1>7. Knows(call[p])'
  BY <1>1, <1>6, AfterRestoreKnows
<1> QED BY <1>5, <1>7 DEF TruthInv

LEMMA FinishTrue ==
    ASSUME TruthInv, NEW p, Procs = {p}, SafeInv', _finish(p)
    PROVE  TruthInv'
<1> DEFINE v == [call[p] EXCEPT !.pc = "verdict", !.ok = @ /\ ~network_restore_pending]
<1>1. call[p] \in Calls /\ p \in Procs /\ call \in [Procs -> Calls]
  BY InHand
<1>2. UNCHANGED <<reg, backup, endpoint, no_proxy, applied, user, drift, edited>>
  BY DEF _finish, history
<1>3. Go(p, Return("enable", FALSE)) \/ Go(p, v)
  BY Zenon DEF _finish
<1>4. call'[p] = Return("enable", FALSE) \/ call'[p] = v
  BY <1>1, <1>3 DEF Go
<1>5. v.pc = "verdict" /\ (v.ok => ~network_restore_pending)
  BY <1>1 DEF Calls
<1>6. Return("enable", FALSE).pc = "idle"
  BY DEF Return
<1>7. network_restore_pending' = network_restore_pending
  BY <1>2 DEF network_restore_pending
<1>8. call'[p].pc = "idle" \/ (call'[p].pc = "verdict" /\ (call'[p].ok => ~network_restore_pending'))
  <2> HIDE DEF v
  <2> QED BY <1>4, <1>5, <1>6, <1>7
<1>9. Knows(call[p])'
  BY <1>8 DEF Knows, Reads, Means
<1> QED BY <1>2, <1>9, MoveTrue

-----------------------------------------------------------------------------
(* The worker, the orphaned PAC, the files of an older installation              *)

(* Steps that move on to where a call has nothing in hand. *)
LEMMA EmptyTrue ==
    ASSUME TruthInv, NEW p, Procs = {p}, SafeInv',
           \/ _verdict(p) \/ Crash(p) \/ ensure_state_ready(p)
           \/ reassert_missing_owned_pac(p) \/ _reassert_recheck(p)
    PROVE  TruthInv'
<1>1. call[p] \in Calls /\ p \in Procs /\ call \in [Procs -> Calls]
  BY InHand
<1>2. UNCHANGED <<reg, backup, endpoint, no_proxy, applied, user, drift, edited>>
  BY DEF _verdict, Crash, ensure_state_ready, reassert_missing_owned_pac, _reassert_recheck, history
<1>3. call'[p].pc \in Empty
  <2>1. CASE _verdict(p)
    <3>1. \E ok : Go(p, Return("disable", ok))
      BY <2>1, Zenon DEF _verdict
    <3> QED BY <1>1, <3>1 DEF Go, Return, Empty
  <2>2. CASE Crash(p)
    BY <1>1, <2>2 DEF Crash, Go, Idle, Return, Empty
  <2>3. CASE ensure_state_ready(p)
    BY <1>1, <2>3 DEF ensure_state_ready, Go, Begin, Return, Empty
  <2>4. CASE reassert_missing_owned_pac(p)
    BY <1>1, <2>4 DEF reassert_missing_owned_pac, Go, Begin, Return, Empty
  <2>5. CASE _reassert_recheck(p)
    BY <1>1, <2>5 DEF _reassert_recheck, Go, Return, Empty, Calls
  <2> QED BY <2>1, <2>2, <2>3, <2>4, <2>5
<1> QED BY <1>2, <1>3, EmptyKnows, MoveTrue

LEMMA HealTrue ==
    ASSUME TruthInv, NEW p, Procs = {p}, SafeInv', _reassert_write(p)
    PROVE  TruthInv'
<1>1. call[p] \in Calls /\ p \in Procs /\ call \in [Procs -> Calls]
  BY InHand
<1>2. UNCHANGED <<backup, endpoint, no_proxy, user, drift, edited>>
  BY DEF _reassert_write
<1>3. call'[p].pc \in Empty
  BY <1>1 DEF _reassert_write, Go, Return, Empty
<1>4. CASE /\ reg' = [reg EXCEPT !["AutoConfigURL"] = pac_url[endpoint]]
           /\ applied' = applied \cup {"AutoConfigURL"}
  <2>1. "AutoConfigURL" \in NameSet("internet") /\ "internet" \in Stores
    BY StoreNames DEF Stores
  <2>2. pac_url[endpoint] = AppliedValue("AutoConfigURL", endpoint, no_proxy, backup["internet"])
    <3>1. "AutoConfigURL" \notin NameSet("env")
      BY StoreNames
    <3> QED BY <3>1 DEF AppliedValue
  <2>3. ValuesTrue'
    BY <1>2, <1>4, <2>1, <2>2, AppliesTrue
  <2> QED BY <1>3, <2>3, EmptyKnows DEF TruthInv
<1>5. CASE UNCHANGED <<reg, applied>>
  BY <1>2, <1>3, <1>5, EmptyKnows, MoveTrue
<1> QED BY <1>4, <1>5 DEF _reassert_write

LEMMA SyncTrue ==
    ASSUME TruthInv, NEW p, Procs = {p}, SafeInv', sync_client_no_proxy(p)
    PROVE  TruthInv'
<1>1. call[p] \in Calls /\ p \in Procs /\ call \in [Procs -> Calls]
  BY InHand
<1>2. UNCHANGED <<reg, backup, endpoint, no_proxy, applied, user, drift, edited>>
  BY DEF sync_client_no_proxy, history
<1>3. \/ call'[p].pc = "sync_write" /\ call'[p].saved = backup["env"]
      \/ call'[p].pc = "idle"
  BY <1>1 DEF sync_client_no_proxy, Go, Return, Calls
<1>4. Knows(call[p])'
  BY <1>2, <1>3 DEF Knows, Reads, Means
<1> QED BY <1>2, <1>4, MoveTrue

LEMMA SyncWriteTrue ==
    ASSUME TruthInv, NEW p, Procs = {p}, SafeInv', _sync_write(p)
    PROVE  TruthInv'
<1>1. call[p] \in Calls /\ p \in Procs /\ call \in [Procs -> Calls] /\ call[p].saved = backup["env"]
  BY InHand DEF _sync_write, Knows, Reads
<1>2. UNCHANGED <<backup, endpoint, no_proxy, user, drift, edited>>
  BY DEF _sync_write
<1>3. call'[p].pc \in Empty
  BY <1>1 DEF _sync_write, Go, Return, Empty
<1>4. CASE /\ reg' = [reg EXCEPT !["NO_PROXY"] =
                        combined_no_proxy(call[p].saved["NO_PROXY"], no_proxy)]
           /\ applied' = applied \cup {"NO_PROXY"}
  <2>1. "NO_PROXY" \in NameSet("env") /\ "env" \in Stores
    BY StoreNames DEF Stores
  <2>2. combined_no_proxy(call[p].saved["NO_PROXY"], no_proxy)
          = AppliedValue("NO_PROXY", endpoint, no_proxy, backup["env"])
    BY <1>1 DEF AppliedValue
  <2>3. ValuesTrue'
    BY <1>2, <1>4, <2>1, <2>2, AppliesTrue
  <2> QED BY <1>3, <2>3, EmptyKnows DEF TruthInv
<1>5. CASE UNCHANGED <<reg, applied>>
  BY <1>2, <1>3, <1>5, EmptyKnows, MoveTrue
<1> QED BY <1>4, <1>5 DEF _sync_write

LEMMA OrphanTrue ==
    ASSUME TruthInv, NEW p, Procs = {p}, SafeInv',
           clear_orphaned_arvectum_pac(p) \/ _orphan_recheck(p)
    PROVE  TruthInv'
<1>1. call[p] \in Calls /\ p \in Procs /\ call \in [Procs -> Calls]
  BY InHand
<1>2. UNCHANGED <<reg, backup, endpoint, no_proxy, applied, user, drift, edited>>
  BY DEF clear_orphaned_arvectum_pac, _orphan_recheck, history
<1>3. backup["internet"] = NoFile
  BY InHand DEF clear_orphaned_arvectum_pac, _orphan_recheck, Knows, Reads
<1>4. call'[p].pc \in {"orphan", "orphan_delete", "idle"}
  BY <1>1 DEF clear_orphaned_arvectum_pac, _orphan_recheck, Go, Begin, Return, Calls
<1>5. Knows(call[p])'
  BY <1>2, <1>3, <1>4 DEF Knows, Reads, Means
<1> QED BY <1>2, <1>5, MoveTrue

LEMMA OrphanDeleteTrue ==
    ASSUME TruthInv, NEW p, Procs = {p}, SafeInv', _orphan_delete(p)
    PROVE  TruthInv'
<1>1. /\ call[p] \in Calls /\ p \in Procs /\ call \in [Procs -> Calls]
      /\ backup["internet"] = NoFile
      /\ reg \in [AllNames -> Values] /\ user \in [AllNames -> Values]
  BY InHand DEF _orphan_delete, Knows, Reads, Registry
<1>2. UNCHANGED <<backup, endpoint, no_proxy, drift, edited>>
  BY DEF _orphan_delete
<1>3. call'[p].pc \in Empty
  BY <1>1 DEF _orphan_delete, Go, Return, Empty
<1>4. CASE /\ reg' = [reg EXCEPT !["AutoConfigURL"] = Absent]
           /\ applied' = applied \ {"AutoConfigURL"}
           /\ user' = [user EXCEPT !["AutoConfigURL"] = Absent]
  <2>1. "AutoConfigURL" \in AllNames /\ "AutoConfigURL" \notin NameSet("env")
    BY StoreNames
  <2>2. BackupsTrue'
    BY <1>1, <1>2, <1>4, <2>1 DEF TruthInv, ValuesTrue, BackupsTrue, HasEvidence, Stores
  <2>3. RestTrue'
    BY <1>1, <1>2, <1>4, <2>1 DEF TruthInv, ValuesTrue, RestTrue
  <2>4. AppliedTrue'
    BY <1>2, <1>4 DEF TruthInv, ValuesTrue, AppliedTrue, HasEvidence
  <2> QED BY <1>3, <2>2, <2>3, <2>4, EmptyKnows DEF TruthInv, ValuesTrue
<1>5. CASE UNCHANGED <<reg, applied, user>>
  BY <1>2, <1>3, <1>5, EmptyKnows, MoveTrue
<1> QED BY <1>4, <1>5 DEF _orphan_delete

LEMMA ImportTrue ==
    ASSUME TruthInv, NEW p, Procs = {p}, SafeInv', _import_backup(p)
    PROVE  TruthInv'
<1> DEFINE c == call[p]
<1>1. /\ c \in Calls /\ c.store \in Stores /\ c.pc = "import" /\ p \in Procs
      /\ call \in [Procs -> Calls]
      /\ backup \in [Stores -> {NoFile, Invalid} \cup AnySnapshot]
  BY InHand DEF _import_backup
<1>2. UNCHANGED <<reg, endpoint, no_proxy, applied, user, edited>>
  BY DEF _import_backup
<1>3. \/ Go(p, [c EXCEPT !.store = "env"])
      \/ \E ok : Go(p, Return("import", ok))
  BY DEF _import_backup
<1>4. call'[p].pc \in Empty
  BY <1>1, <1>3 DEF Go, Return, Calls, Empty
<1>5. CASE UNCHANGED <<backup, drift>>
  BY <1>2, <1>4, <1>5, EmptyKnows, MoveTrue
<1>6. CASE /\ backup[c.store] = NoFile
           /\ backup' = [backup EXCEPT ![c.store] = legacy_backups[c.store]]
           /\ drift' = drift \cup NameSet(c.store)
  <2>1. applied \cap NameSet(c.store) = {}
    BY <1>1, <1>6, Uncaptured
  <2>2. \A s \in Stores : s # c.store => backup'[s] = backup[s]
    BY <1>1, <1>6
  <2>3. BackupsTrue'
    BY <1>2, <1>6, <2>2 DEF TruthInv, ValuesTrue, BackupsTrue, HasEvidence
  <2>4. RestTrue'
    BY <1>2, <1>6 DEF TruthInv, ValuesTrue, RestTrue
  <2>5. AppliedTrue'
    BY <1>2, <2>1, <2>2 DEF TruthInv, ValuesTrue, AppliedTrue, HasEvidence
  <2> QED BY <1>4, <2>3, <2>4, <2>5, EmptyKnows DEF TruthInv, ValuesTrue
<1> QED BY <1>5, <1>6 DEF _import_backup

-----------------------------------------------------------------------------
(* Calls that begin, edits, other programs                                       *)

LEMMA BeginTrue ==
    ASSUME TruthInv, NEW p, Procs = {p}, SafeInv',
           enable_system_proxy(p) \/ disable_system_proxy(p)
    PROVE  TruthInv'
<1>1. call[p] \in Calls /\ p \in Procs /\ call \in [Procs -> Calls]
  BY InHand
<1>2. UNCHANGED <<reg, backup, endpoint, no_proxy, applied, user, drift, edited>>
  BY DEF enable_system_proxy, disable_system_proxy, history
<1>3. \/ call'[p].pc = "save" /\ call'[p].store = "internet" /\ call'[p].cfg = endpoint
      \/ call'[p].pc = "restore" /\ call'[p].op = "disable"
  BY <1>1 DEF enable_system_proxy, disable_system_proxy, Go, Begin, Return
<1>4. Knows(call[p])'
  BY <1>2, <1>3 DEF Knows, Reads, Means
<1> QED BY <1>2, <1>4, MoveTrue

(* Only NO_PROXY depends on the exclusions. *)
LEMMA PolicyIsEnv ==
    ASSUME NEW n \in NameSet("internet"), NEW e, NEW x, NEW y, NEW saved
    PROVE  AppliedValue(n, e, x, saved) = AppliedValue(n, e, y, saved)
<1>1. n # "NO_PROXY"
  BY StoreNames
<1> QED BY <1>1 DEF AppliedValue

LEMMA PolicyTrue ==
    ASSUME TruthInv, NEW p, Procs = {p}, SafeInv', NEW policy \in Policies,
           save_no_proxy(p, policy)
    PROVE  TruthInv'
<1>1. call[p] \in Calls /\ p \in Procs /\ call \in [Procs -> Calls]
  BY InHand
<1>2. UNCHANGED <<reg, backup, endpoint, applied, user, drift>>
  BY DEF save_no_proxy
<1>3. call'[p].pc \in Empty
  BY <1>1 DEF save_no_proxy, Go, Begin, Return, Empty
<1>4. BackupsTrue' /\ RestTrue'
  BY <1>2 DEF TruthInv, ValuesTrue, BackupsTrue, RestTrue, HasEvidence
<1>5. AppliedTrue'
  <2>1. CASE AtWork
    <3>1. edited' = edited \cup {"env"}
      BY <2>1 DEF save_no_proxy
    <3>2. \A s \in Stores \ edited' : s = "internet" /\ s \in Stores \ edited
      BY <3>1 DEF Stores
    <3> QED BY <1>2, <3>2, PolicyIsEnv DEF TruthInv, ValuesTrue, AppliedTrue, HasEvidence
  <2>2. CASE ~AtWork
    BY <1>2, <2>2 DEF AtWork, network_restore_pending, AppliedTrue, HasEvidence
  <2> QED BY <2>1, <2>2
<1> QED BY <1>3, <1>4, <1>5, EmptyKnows DEF TruthInv, ValuesTrue

LEMMA EndpointTrue ==
    ASSUME TruthInv, NEW p, Procs = {p}, SafeInv', NEW e \in Endpoints, change_endpoint(e)
    PROVE  TruthInv'
<1>1. UNCHANGED <<reg, backup, no_proxy, call, applied, user, drift>>
  BY DEF change_endpoint
<1>2. BackupsTrue' /\ RestTrue'
  BY <1>1 DEF TruthInv, ValuesTrue, BackupsTrue, RestTrue, HasEvidence
<1>3. CASE AtWork
  <2>1. edited' = Stores
    BY <1>3 DEF change_endpoint
  <2>2. AppliedTrue'
    BY <2>1 DEF AppliedTrue
  <2>3. Knows(call[p])'
    BY <1>1, <2>1 DEF TruthInv, Knows, Reads, Means, HasEvidence, network_restore_pending
  <2> QED BY <1>2, <2>2, <2>3 DEF TruthInv, ValuesTrue
<1>4. CASE ~AtWork
  <2>1. AppliedTrue'
    BY <1>1, <1>4 DEF AtWork, network_restore_pending, AppliedTrue, HasEvidence
  <2>2. call'[p].pc \in Empty
    BY <1>1, <1>4 DEF AtWork, Ready, Empty
  <2> QED BY <1>2, <2>1, <2>2, EmptyKnows DEF TruthInv, ValuesTrue
<1> QED BY <1>3, <1>4

LEMMA ForeignTrue ==
    ASSUME TruthInv, NEW p, Procs = {p}, SafeInv', NEW n \in AllNames, NEW v, ForeignWrite(n, v)
    PROVE  TruthInv'
<1>1. /\ p \in Procs /\ reg \in [AllNames -> Values] /\ user \in [AllNames -> Values]
      /\ Knows(call[p])
  BY InHand DEF Registry
<1>2. /\ UNCHANGED <<backup, endpoint, no_proxy, call, edited>>
      /\ reg' = [reg EXCEPT ![n] = v] /\ user' = [user EXCEPT ![n] = v]
      /\ applied' = applied \ {n}
      /\ drift' \in {drift \cup {n}, drift \ {n}}
      /\ drift' = drift \cup {n} \/ (n \notin drift' /\ backup[StoreOf(n)] = NoFile /\ Ready(p))
  BY DEF ForeignWrite
<1>3. \A m \in AllNames : m # n => reg'[m] = reg[m] /\ user'[m] = user[m]
                                   /\ (m \in drift' <=> m \in drift)
                                   /\ (m \in applied' <=> m \in applied)
  BY <1>1, <1>2
<1>4. reg'[n] = user'[n] /\ n \notin applied'
  BY <1>1, <1>2
<1>5. \A s \in Stores : NameSet(s) \subseteq AllNames /\ (n \in NameSet(s) => StoreOf(n) = s)
  BY StoreNames DEF StoreOf, Stores
<1>6. BackupsTrue'
  <2> SUFFICES ASSUME NEW s \in Stores, HasEvidence(s), NEW m \in NameSet(s) \ drift'
               PROVE  backup[s][m] = user'[m]
    BY <1>2 DEF BackupsTrue, HasEvidence
  <2>1. CASE m = n
    BY <1>2, <1>5, <2>1 DEF HasEvidence
  <2>2. CASE m # n
    BY <1>3, <1>5, <2>2 DEF TruthInv, ValuesTrue, BackupsTrue
  <2> QED BY <2>1, <2>2
<1>7. RestTrue'
  BY <1>3, <1>4 DEF TruthInv, ValuesTrue, RestTrue
<1>8. AppliedTrue'
  BY <1>2, <1>3, <1>4, <1>5 DEF TruthInv, ValuesTrue, AppliedTrue, HasEvidence
<1>9. Knows(call[p])'
  <2>1. CASE drift' = drift \cup {n}
    <3>1. /\ call'[p] = call[p] /\ HasEvidence("internet")' = HasEvidence("internet")
          /\ network_restore_pending' = network_restore_pending
          /\ \A s \in Stores : HasEvidence(s)' = HasEvidence(s)
      BY <1>2 DEF HasEvidence, network_restore_pending
    <3>2. Means(call[p])'
      BY <1>1, <3>1 DEF Knows, Means
    <3>3. call[p].pc = "commit" =>
             \A m \in NameSet(call[p].store) \ drift' : call[p].saved[m] = user'[m]
      BY <1>1, <1>3, <1>5, <2>1, InHand DEF Knows, Reads
    <3>4. Reads(call[p])'
      BY <1>1, <1>2, <3>3 DEF Knows, Reads
    <3> QED BY <3>2, <3>4 DEF Knows
  <2>2. CASE Ready(p)
    BY <1>2, <2>2, EmptyKnows DEF Ready, Empty
  <2> QED BY <1>2, <2>1, <2>2
<1> QED BY <1>6, <1>7, <1>8, <1>9 DEF TruthInv, ValuesTrue

LEMMA CorruptTrue ==
    ASSUME TruthInv, NEW p, Procs = {p}, SafeInv', NEW s \in Stores, Corrupt(s)
    PROVE  TruthInv'
<1>1. /\ UNCHANGED <<reg, endpoint, no_proxy, call, applied, user, drift, edited>>
      /\ backup' = [backup EXCEPT ![s] = Invalid] /\ call'[p].pc \in Empty
      /\ backup \in [Stores -> {NoFile, Invalid} \cup AnySnapshot]
  BY InHand DEF Corrupt, history, Ready, Empty
<1>2. \A t \in Stores : HasEvidence(t)' => HasEvidence(t) /\ backup'[t] = backup[t]
  BY <1>1 DEF HasEvidence
<1>3. ValuesTrue'
  BY <1>1, <1>2 DEF TruthInv, ValuesTrue, BackupsTrue, RestTrue, AppliedTrue
<1> QED BY <1>1, <1>3, EmptyKnows DEF TruthInv

-----------------------------------------------------------------------------
(* The theorems.                                                                 *)

LEMMA TruthInit == Init => TruthInv
<1> SUFFICES ASSUME Init PROVE TruthInv
  OBVIOUS
<1>1. ValuesTrue
  BY DEF Init, ValuesTrue, BackupsTrue, RestTrue, AppliedTrue, HasEvidence
<1>2. \A p \in Procs : Knows(call[p])
  BY DEF Init, Idle, Return, Knows, Reads, Means
<1> QED BY <1>1, <1>2, SafeInit DEF TruthInv

LEMMA TruthStep ==
    ASSUME NEW p, Procs = {p}, TruthInv, [Next]_vars
    PROVE  TruthInv'
<1>1. SafeInv'
  BY SafeStep DEF TruthInv
<1>2. CASE UNCHANGED vars
  <2>1. UNCHANGED <<reg, backup, endpoint, no_proxy, call, applied, user, drift, edited>>
    BY <1>2 DEF vars
  <2>2. Knows(call[p])'
    BY <2>1 DEF TruthInv, Knows, Reads, Means, HasEvidence, network_restore_pending
  <2> QED BY <1>1, <2>1, <2>2, MoveTrue
<1>3. CASE Step(p)
  BY <1>1, <1>3, SaveTrue, CommitTrue, ApplyTrue, AutostartTrue, CheckTrue, RestoreTrue,
     RemoveTrue, FinishTrue, EmptyTrue, HealTrue, SyncTrue, SyncWriteTrue, OrphanTrue,
     OrphanDeleteTrue, ImportTrue DEF Step
<1>4. CASE \/ Crash(p) \/ enable_system_proxy(p) \/ disable_system_proxy(p)
           \/ ensure_state_ready(p)
           \/ reassert_missing_owned_pac(p) \/ clear_orphaned_arvectum_pac(p)
           \/ \E policy \in Policies : save_no_proxy(p, policy)
  BY <1>1, <1>4, EmptyTrue, BeginTrue, OrphanTrue, PolicyTrue
<1>5. CASE \/ \E e \in Endpoints : change_endpoint(e)
           \/ \E n \in AllNames : \E v \in ForeignValues[n] : ForeignWrite(n, v)
           \/ \E s \in Stores : Corrupt(s)
  BY <1>1, <1>5, EndpointTrue, ForeignTrue, CorruptTrue
<1> QED BY <1>2, <1>3, <1>4, <1>5 DEF Next

(* windows_system_proxy.py: what the user had can be had back after any sequence *)
(* of calls, failures, kills, foreign writes, edits and damaged files, from the  *)
(* registry or from the backup file, for each value no other program wrote while *)
(* the launcher was at work.                                                     *)
THEOREM OriginalsRecoverable ==
    ASSUME NEW p, Procs = {p}
    PROVE  Spec => []OriginalRecoverable
<1>1. TruthInv => OriginalRecoverable
  <2> SUFFICES ASSUME TruthInv, NEW s \in Stores, NEW n \in NameSet(s) \ drift
               PROVE  \/ reg[n] = user[n] \/ backup[s] = Invalid
                      \/ HasEvidence(s) /\ backup[s][n] = user[n]
    BY DEF OriginalRecoverable
  <2>1. n \in AllNames
    BY StoreNames
  <2>2. CASE n \notin applied
    BY <2>1, <2>2 DEF TruthInv, ValuesTrue, RestTrue
  <2>3. CASE n \in applied
    <3>1. backup[s] # NoFile
      BY <2>3, Uncaptured
    <3>2. CASE HasEvidence(s)
      BY <3>2 DEF TruthInv, ValuesTrue, BackupsTrue
    <3> QED BY <3>1, <3>2 DEF HasEvidence
  <2> QED BY <2>2, <2>3
<1>2. TruthInv /\ [Next]_vars => TruthInv'
  BY TruthStep
<1> QED BY TruthInit, <1>1, <1>2, PTL DEF Spec

(* _internet_state_is_owned_or_saved, _env_state_is_owned_or_saved: at no step   *)
(* at which it could be killed does the launcher leave behind a mixture of its   *)
(* own and the user's values that it would later refuse to restore as foreign.   *)
THEOREM OwnStateRecognised ==
    ASSUME NEW p, Procs = {p}
    PROVE  Spec => []OwnStateNeverForeign
<1>1. TruthInv => OwnStateNeverForeign
  <2> SUFFICES ASSUME TruthInv, NEW s \in Stores, HasEvidence(s),
                      drift \cap NameSet(s) = {}, s \notin edited, NEW n \in NameSet(s)
               PROVE  reg[n] \in {backup[s][n], AppliedValue(n, endpoint, no_proxy, backup[s])}
    BY DEF OwnStateNeverForeign, OwnedOrSaved
  <2>1. n \in AllNames \ drift
    BY StoreNames
  <2>2. CASE n \in applied
    BY <2>2 DEF TruthInv, ValuesTrue, AppliedTrue
  <2>3. CASE n \notin applied
    BY <2>1, <2>3 DEF TruthInv, ValuesTrue, BackupsTrue, RestTrue
  <2> QED BY <2>2, <2>3
<1>2. TruthInv /\ [Next]_vars => TruthInv'
  BY TruthStep
<1> QED BY TruthInit, <1>1, <1>2, PTL DEF Spec

(* Which step returns True from disable_system_proxy or enable_system_proxy. *)
LEMMA TrueReturns ==
    ASSUME NEW p, Procs = {p}, TruthInv, [Next]_vars, NEW op \in {"disable", "enable"},
           Returns(p, op, TRUE)
    PROVE  \/ op = "disable" /\ _verdict(p) /\ call[p].ok
           \/ op = "enable" /\ _enable_recovery_autostart(p) /\ call[p].ok
<1>1. call[p] \in Calls /\ p \in Procs /\ call \in [Procs -> Calls]
  BY InHand

<1>2. /\ call[p].pc # "idle" /\ call'[p].pc = "idle" /\ call'[p].op = op /\ call'[p].ok
      /\ call' # call
  BY DEF Returns
<1>3. ASSUME \/ UNCHANGED vars \/ \E e \in Endpoints : change_endpoint(e)
             \/ \E n \in AllNames : \E v \in ForeignValues[n] : ForeignWrite(n, v)
             \/ \E s \in Stores : Corrupt(s)
      PROVE  FALSE
  BY <1>2, <1>3 DEF vars, change_endpoint, ForeignWrite, Corrupt
<1>4. ASSUME \/ enable_system_proxy(p) \/ disable_system_proxy(p) \/ ensure_state_ready(p)
             \/ reassert_missing_owned_pac(p) \/ clear_orphaned_arvectum_pac(p)
             \/ \E policy \in Policies : save_no_proxy(p, policy)
      PROVE  FALSE
  BY <1>2, <1>4 DEF enable_system_proxy, disable_system_proxy, ensure_state_ready, Ready,
     reassert_missing_owned_pac, clear_orphaned_arvectum_pac, save_no_proxy
<1>5. ASSUME Crash(p) PROVE FALSE
  BY <1>1, <1>2, <1>5 DEF Crash, Go, Idle, Return
<1>6. ASSUME _save_backup(p) \/ _commit_backup(p) PROVE FALSE
  <2> DEFINE c == call[p]
  <2>1. CASE Go(p, Refused(c))
    <3>1. call'[p] = Refused(c)
      BY <1>1, <2>1 DEF Go
    <3>2. call'[p].pc = "autostart" \/ ~call'[p].ok
      BY <1>1, <3>1 DEF Refused, Return, Calls
    <3> QED BY <1>2, <3>2
  <2>2. CASE Go(p, [c EXCEPT !.pc = "apply", !.idx = 1, !.sok = TRUE, !.saved = backup[c.store]])
    BY <1>1, <1>2, <2>2 DEF Go, Calls
  <2>3. CASE Go(p, [c EXCEPT !.pc = "apply", !.idx = 1, !.sok = TRUE])
    BY <1>1, <1>2, <2>3 DEF Go, Calls
  <2>4. ASSUME NEW v, Go(p, [c EXCEPT !.pc = "commit", !.saved = v])
        PROVE  FALSE
    BY <1>1, <1>2, <2>4 DEF Go, Calls
  <2> QED BY <1>6, <2>1, <2>2, <2>3, <2>4 DEF _save_backup, _commit_backup
<1>7. ASSUME _apply_value(p) PROVE FALSE
  <2> DEFINE c == call[p]
  <2>1. PICK ok \in BOOLEAN : \/ call'[p] = Advance(c, ok)
                              \/ call'[p] = AfterApply([c EXCEPT !.sok = @ /\ ok])
    BY <1>1, <1>7 DEF _apply_value, Go
  <2>2. c.cfg \in Endpoints /\ c.pc = "apply"
    BY <1>7, InHand DEF _apply_value, CallTyped
  <2>3. PICK d : d = [c EXCEPT !.sok = @ /\ ok]
    OBVIOUS
  <2>4. d \in Calls /\ d.cfg \in Endpoints
    BY <1>1, <2>2, <2>3 DEF Calls
  <2>5. AfterApply(d).pc # "idle"
    BY <2>4, AfterApplyTyped
  <2> QED BY <1>1, <1>2, <2>1, <2>2, <2>3, <2>5, AdvanceTyped
<1>8. ASSUME _restore_check(p) \/ _restore_value(p) \/ _remove_backup(p) PROVE FALSE
  <2> DEFINE c == call[p]
  <2>1. \/ \E ok \in BOOLEAN : call'[p] = AfterRestore(c, ok) \/ call'[p] = Advance(c, ok)
        \/ call'[p] = [c EXCEPT !.pc = "remove"]
        \/ call'[p] = [c EXCEPT !.pc = "unwind", !.idx = 1, !.sok = TRUE, !.saved = backup[c.store]]
    <3>1. CASE _restore_check(p)
      <4>1. \/ Go(p, AfterRestore(c, TRUE)) \/ Go(p, AfterRestore(c, FALSE))
            \/ Go(p, [c EXCEPT !.pc = "unwind", !.idx = 1, !.sok = TRUE, !.saved = backup[c.store]])
        BY <3>1, Zenon DEF _restore_check
      <4> QED BY <1>1, <4>1 DEF Go
    <3>2. CASE _restore_value(p) \/ _remove_backup(p)
      BY <1>1, <3>2 DEF _restore_value, _remove_backup, Go
    <3> QED BY <1>8, <3>1, <3>2
  <2>2. \A ok \in BOOLEAN : AfterRestore(c, ok).pc # "idle" /\ Advance(c, ok).pc # "idle"
    BY <1>1, <1>2, AfterRestoreTyped, AdvanceTyped
  <2> QED BY <1>1, <1>2, <2>1, <2>2 DEF Calls
<1>9. ASSUME _finish(p) PROVE FALSE
  <2> DEFINE v == [call[p] EXCEPT !.pc = "verdict", !.ok = @ /\ ~network_restore_pending]
  <2>1. Go(p, Return("enable", FALSE)) \/ Go(p, v)
    BY <1>9, Zenon DEF _finish
  <2>2. v.pc = "verdict"
    BY <1>1 DEF Calls
  <2>3. ~Return("enable", FALSE).ok
    BY DEF Return
  <2> HIDE DEF v
  <2> QED BY <1>1, <1>2, <2>1, <2>2, <2>3 DEF Go
<1>10. ASSUME \/ _reassert_recheck(p) \/ _reassert_write(p)
              \/ sync_client_no_proxy(p) \/ _sync_write(p)
       PROVE  FALSE
  <2>1. ASSUME NEW what \in {"reassert", "sync"}, NEW ok, Go(p, Return(what, ok))
        PROVE  FALSE
    BY <1>1, <1>2, <2>1 DEF Go, Return
  <2>2. ASSUME _reassert_recheck(p) PROVE FALSE
    <3>1. Go(p, [call[p] EXCEPT !.pc = "heal"]) \/ Go(p, Return("reassert", FALSE))
      BY <2>2 DEF _reassert_recheck
    <3>2. ~Go(p, [call[p] EXCEPT !.pc = "heal"])
      BY <1>1, <1>2 DEF Go, Calls
    <3> QED BY <2>1, <3>1, <3>2
  <2>3. ASSUME _reassert_write(p) PROVE FALSE
    <3>1. \E ok : Go(p, Return("reassert", ok))
      BY <2>3, Zenon DEF _reassert_write
    <3> QED BY <2>1, <3>1
  <2>4. ASSUME sync_client_no_proxy(p) PROVE FALSE
    <3>1. \/ Go(p, [call[p] EXCEPT !.pc = "sync_write", !.saved = backup["env"]])
          \/ \E ok : Go(p, Return("sync", ok))
      BY <2>4, Zenon DEF sync_client_no_proxy
    <3>2. ~Go(p, [call[p] EXCEPT !.pc = "sync_write", !.saved = backup["env"]])
      BY <1>1, <1>2 DEF Go, Calls
    <3> QED BY <2>1, <3>1, <3>2
  <2>5. ASSUME _sync_write(p) PROVE FALSE
    <3>1. \E ok : Go(p, Return("sync", ok))
      BY <2>5, Zenon DEF _sync_write
    <3> QED BY <2>1, <3>1
  <2> QED BY <1>10, <2>2, <2>3, <2>4, <2>5
<1>11. ASSUME _orphan_recheck(p) \/ _orphan_delete(p) \/ _import_backup(p) PROVE FALSE
  <2>1. \/ call'[p].pc # "idle" \/ call'[p].op \in {"orphan", "import"}
    BY <1>1, <1>2, <1>11 DEF _orphan_recheck, _orphan_delete, _import_backup, Go, Return, Calls
  <2> QED BY <1>2, <2>1
<1>12. ASSUME _verdict(p)
       PROVE  op = "disable" /\ call[p].ok
  <2>1. \E ok : (ok => call[p].ok) /\ Go(p, Return("disable", ok))
    BY <1>12, Zenon DEF _verdict
  <2>2. PICK ok : (ok => call[p].ok) /\ Go(p, Return("disable", ok))
    BY <2>1
  <2>3. call'[p] = Return("disable", ok)
    BY <1>1, <2>2 DEF Go
  <2>4. call'[p].op = "disable" /\ call'[p].ok = ok
    BY <2>3 DEF Return
  <2> QED BY <1>2, <2>2, <2>4
<1>13. ASSUME _enable_recovery_autostart(p)
       PROVE  op = "enable" /\ call[p].ok
  <2> DEFINE back == [call[p] EXCEPT !.pc = "restore", !.op = "rollback",
                                     !.store = "internet", !.ok = FALSE]
  <2>1. (call[p].ok /\ Go(p, Return("enable", TRUE))) \/ Go(p, back)
    BY <1>13, Zenon DEF _enable_recovery_autostart
  <2>2. back.pc = "restore"
    BY <1>1 DEF Calls
  <2>3. Return("enable", TRUE).op = "enable"
    BY DEF Return
  <2> HIDE DEF back
  <2> QED BY <1>1, <1>2, <2>1, <2>2, <2>3 DEF Go
<1> QED BY <1>3, <1>4, <1>5, <1>6, <1>7, <1>8, <1>9, <1>10, <1>11, <1>12, <1>13 DEF Next, Step

(* application_runtime.py relies on the answers: disable_system_proxy returns    *)
(* True only when no value the launcher applied and no backup is left,           *)
(* enable_system_proxy only when both backups are readable on disk.              *)
THEOREM AnswersAreTrue ==
    ASSUME NEW w, Procs = {w}
    PROVE  Spec => ReturnsAreTruthful
<1>1. ASSUME TruthInv, [Next]_vars, Returns(w, "disable", TRUE)
      PROVE  applied' = {} /\ ~network_restore_pending'
  <2>1. _verdict(w) /\ call[w].ok
    BY <1>1, TrueReturns
  <2>2. UNCHANGED <<backup, applied>> /\ w \in Procs
    BY <2>1 DEF _verdict, history
  <2>3. ~network_restore_pending
    BY <1>1, <2>1, <2>2, InHand DEF _verdict, Knows, Means
  <2>4. applied \subseteq NameSet("internet") \cup NameSet("env")
    BY <1>1, <2>2, InHand DEF AllNames
  <2>5. applied = {}
    BY <1>1, <2>3, <2>4, Uncaptured DEF network_restore_pending, Stores
  <2> QED BY <2>2, <2>3, <2>5 DEF network_restore_pending
<1>2. ASSUME TruthInv, [Next]_vars, Returns(w, "enable", TRUE)
      PROVE  \A s \in Stores : HasEvidence(s)'
  <2>1. _enable_recovery_autostart(w) /\ call[w].ok
    BY <1>2, TrueReturns
  <2>2. UNCHANGED backup /\ w \in Procs
    BY <2>1 DEF _enable_recovery_autostart
  <2>3. \A s \in Stores : HasEvidence(s)
    BY <1>2, <2>1, <2>2, InHand DEF _enable_recovery_autostart, Knows, Means
  <2> QED BY <2>2, <2>3 DEF HasEvidence
<1> DEFINE Truthful == \A p \in Procs :
             /\ Returns(p, "disable", TRUE) => applied' = {} /\ ~network_restore_pending'
             /\ Returns(p, "enable", TRUE) => \A s \in Stores : HasEvidence(s)'
<1>3. TruthInv /\ [Next]_vars => [Truthful]_vars
  BY <1>1, <1>2
<1>4. TruthInv /\ [Next]_vars => TruthInv'
  BY TruthStep
<1>5. [][Truthful]_vars <=> ReturnsAreTruthful
  BY DEF ReturnsAreTruthful
<1> QED BY TruthInit, <1>3, <1>4, <1>5, PTL DEF Spec
=============================================================================
