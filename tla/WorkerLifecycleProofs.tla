----------------------- MODULE WorkerLifecycleProofs -----------------------
(* Proofs about the commands, the ownership journal and the routing service, for *)
(* any finite number of processes, any session ids and any budgets of faults.    *)
EXTENDS WorkerLifecycle, FiniteSetTheorems, TLAPS

USE LifecycleAssumption

-----------------------------------------------------------------------------
(* Inductive invariants.                                                         *)

Restores == {"previous", "rollback", "finally", "stop"}
Journals == [id : Ids, phase : {"prepared", "applied", "restoring"}]
PCs == {"none", "load", "begin", "restoring", "send", "await", "reply", "check", "bind", "pid",
        "prepare", "apply", "mark", "abort", "abort_save", "enable", "loop", "close",
        "unpid", "record", "kill", "still", "drop", "disable", "verdict", "exit"}
Calls ==
    [pc : PCs, op : {"none", "start", "stop"}, exclusions : BOOLEAN,
     where : Restores \cup {"already", "activate"}, id : Ids \cup {None},
     file : Journals \cup {None}, rec : Procs \cup {None, Gone}, seen : SUBSET Procs,
     missed : BOOLEAN, killed : BOOLEAN, ok : BOOLEAN]

(* A process knows where it is going on and has in hand what it will write. *)
CallOK(c) ==
    /\ c \in Calls
    /\ c.pc \in {"load", "begin", "restoring", "send"} => c.where \in Restores
    /\ c.pc \in {"await", "reply"} => c.where \in Restores \cup {"activate"}
    /\ c.pc \in {"bind", "pid", "prepare", "apply"} => c.where = "activate"
    /\ c.pc = "drop" => c.where = "stop"
    /\ c.pc \in {"restoring", "mark", "abort_save"} => c.file \in Journals
    /\ c.pc \in {"restoring", "send", "apply"} => c.id \in Ids

WorldTyped ==
    /\ listening \subseteq Procs /\ lost \subseteq Procs
    /\ pidfile \in Procs \cup {None, Gone}
    /\ journal \in Journals \cup {None}
    /\ session \in [id : Ids, owner : Procs \cup {Gone}] \cup {None}
    /\ pipe \in [from : Procs \cup {Gone}, cmd : {"apply", "restore"}, id : Ids] \cup {None}
    /\ service \in BOOLEAN
    /\ network \in {"off", "on", "partial"}
    /\ overlap \in Nat
    /\ left \in [Events -> Nat]

(* Who has a request in the pipe waits for its answer. *)
PipeOK ==
    pipe # None /\ pipe.from # Gone =>
        /\ call[pipe.from].pc = "await" /\ call[pipe.from].id = pipe.id
        /\ pipe.cmd = "apply" <=> call[pipe.from].where = "activate"

Busy(c) == c.pc \notin {"none", "loop"}

(* What the one busy process knows of the journal j and the session s: what it   *)
(* loaded is still there; its journal stays while it has a session made; a       *)
(* restore that is reported as verified has left no session.                     *)
Held(c, j, s) ==
    /\ c.pc \in {"restoring", "mark", "abort_save"} => c.file = j
    /\ c.pc = "apply" \/ (c.pc = "await" /\ c.where = "activate")
         => j # None /\ j.id = c.id
    /\ c.pc = "reply" /\ c.where # "activate" /\ c.ok => s = None
    /\ c.pc \in {"disable", "verdict"} /\ c.ok => j = None

(* What it, q, knows of the PID record r and of the listeners l that the launcher *)
(* has not lost sight of.                                                        *)
PidHeld(c, q, l, r) ==
    /\ (c.pc = "bind" /\ ~c.missed) \/ c.pc = "drop" \/ (c.pc = "still" /\ c.killed) => l = {}
    /\ c.pc = "pid" /\ ~c.missed => l \subseteq {q}
    /\ c.pc = "unpid" => q \notin l
    /\ c.pc = "kill" => c.rec = r

PidsKnown ==
    /\ \A q \in listening \ lost : q = pidfile \/ call[q].pc = "pid"
    /\ \A q \in Procs : PidHeld(call[q], q, listening \ lost, pidfile)

SerialInv ==
    /\ \A p, q \in Procs : Busy(call[p]) /\ Busy(call[q]) => p = q
    /\ session # None => journal # None /\ journal.id = session.id
    /\ \A p \in Procs : Held(call[p], journal, session)
    /\ PidsKnown

LifecycleInv ==
    /\ call \in [Procs -> Calls] /\ \A p \in Procs : CallOK(call[p])
    /\ WorldTyped /\ PipeOK
    /\ Serial => SerialInv

-----------------------------------------------------------------------------
(* One process moves.                                                            *)

(* Who waits in its loop, or does not exist, knows nothing that could change. *)
LEMMA IdleHolds ==
    ASSUME NEW c, ~Busy(c), NEW j, NEW s, NEW q, NEW l, NEW r
    PROVE  Held(c, j, s) /\ PidHeld(c, q, l, r)
BY DEF Busy, Held, PidHeld

(* When commands do not overlap, one that may begin is alone. *)
LEMMA QuietMeansIdle ==
    ASSUME Serial, Quiet
    PROVE  \A q \in Procs : ~Busy(call[q])
<1> DEFINE B == {q \in Procs : call[q].pc \notin {"none", "loop"}}
<1>1. IsFiniteSet(B)
  BY FS_Subset
<1>2. Cardinality(B) \in Nat
  BY <1>1, FS_CardinalityType
<1>3. Cardinality(B) < 1
  BY DEF Serial, Quiet
<1>4. B = {}
  <2> HIDE DEF B
  <2> QED BY <1>1, <1>2, <1>3, FS_EmptySet
<1> QED BY <1>4 DEF Busy

LEMMA SpendTyped ==
    ASSUME NEW k \in Events, left \in [Events -> Nat], Spend(k)
    PROVE  left' \in [Events -> Nat]
BY DEF Spend, Events

(* Only p goes on, to c; every other process is idle or p was busy. *)
LEMMA OneMoves ==
    ASSUME LifecycleInv, NEW p \in Procs, NEW c, CallOK(c), call' = [call EXCEPT ![p] = c],
           WorldTyped', PipeOK', overlap' = overlap,
           Serial => Busy(call[p]) \/ \A q \in Procs : ~Busy(call[q]),
           Serial => (session' # None => journal' # None /\ journal'.id = session'.id),
           Serial => Held(c, journal', session'),
           Serial =>
             /\ \A q \in listening' \ lost' : q = pidfile' \/ (q = p /\ c.pc = "pid")
             /\ PidHeld(c, p, listening' \ lost', pidfile')
    PROVE  LifecycleInv'
<1>1. \A q \in Procs : call'[q] = IF q = p THEN c ELSE call[q]
  BY DEF LifecycleInv
<1>2. call' \in [Procs -> Calls] /\ \A q \in Procs : CallOK(call'[q])
  BY <1>1 DEF LifecycleInv, CallOK
<1>3. ASSUME Serial'
      PROVE  SerialInv'
  <2>1. Serial /\ SerialInv
    BY <1>3 DEF Serial, LifecycleInv
  <2>2. \A q \in Procs : q # p => ~Busy(call[q])
    BY <2>1 DEF SerialInv
  <2>3. \A q \in Procs : Busy(call'[q]) => q = p
    BY <1>1, <2>2
  <2>4. \A q \in Procs : Held(call'[q], journal', session')
    BY <1>1, <2>1, <2>2, IdleHolds
  <2>5. PidsKnown'
    <3>1. \A q \in Procs : PidHeld(call'[q], q, listening' \ lost', pidfile')
      BY <1>1, <2>1, <2>2, IdleHolds
    <3>2. \A q \in listening' \ lost' : q = pidfile' \/ call'[q].pc = "pid"
      BY <1>1, <2>1
    <3> QED BY <3>1, <3>2 DEF PidsKnown
  <2> QED BY <2>1, <2>3, <2>4, <2>5 DEF SerialInv
<1> QED BY <1>2, <1>3 DEF LifecycleInv

(* A request in the pipe is not disturbed by who is not waiting for its answer. *)
LEMMA PipeSame ==
    ASSUME LifecycleInv, NEW p \in Procs, NEW c, call' = [call EXCEPT ![p] = c],
           pipe' = pipe, call[p].pc # "await"
    PROVE  PipeOK'
BY DEF LifecycleInv, PipeOK, WorldTyped

(* A step of p that touches nothing but its own call and the budget. *)
LEMMA LocalMove ==
    ASSUME LifecycleInv, NEW p \in Procs, NEW c, CallOK(c), call' = [call EXCEPT ![p] = c],
           UNCHANGED world, left' \in [Events -> Nat],
           call[p].pc \notin {"await", "pid"},
           Serial => Busy(call[p]) \/ \A q \in Procs : ~Busy(call[q]),
           Serial => Held(c, journal, session),
           Serial => PidHeld(c, p, listening \ lost, pidfile)
    PROVE  LifecycleInv'
<1>1. WorldTyped'
  BY DEF LifecycleInv, WorldTyped, world
<1>2. PipeOK'
  BY PipeSame DEF world
<1>3. Serial => (session' # None => journal' # None /\ journal'.id = session'.id)
  BY DEF world, LifecycleInv, SerialInv
<1>4. Serial => Held(c, journal', session')
  BY DEF world
<1>5. ASSUME Serial
      PROVE  /\ \A q \in listening' \ lost' : q = pidfile' \/ (q = p /\ c.pc = "pid")
             /\ PidHeld(c, p, listening' \ lost', pidfile')
  <2>1. \A q \in listening \ lost : q = pidfile \/ call[q].pc = "pid"
    BY <1>5 DEF LifecycleInv, SerialInv, PidsKnown
  <2>2. \A q \in listening \ lost : call[q].pc = "pid" => Busy(call[q])
    BY DEF Busy
  <2>3. \A q \in listening \ lost : q = pidfile
    BY <1>5, <2>1, <2>2 DEF LifecycleInv, SerialInv, WorldTyped
  <2> QED BY <1>5, <2>3 DEF world
<1> QED BY <1>1, <1>2, <1>3, <1>4, <1>5, OneMoves DEF world

-----------------------------------------------------------------------------
(* restore                                                                       *)

(* Where a restore ends nothing is in hand, and only --stop remembers success. *)
LEMMA AfterRestoreOK ==
    ASSUME NEW c, CallOK(c), c.where \in Restores, NEW ok \in BOOLEAN,
           NEW d, d = AfterRestore(c, ok)
    PROVE  /\ CallOK(d)
           /\ d.pc \in {"check", "exit", "close", "disable"}
           /\ d.pc = "disable" => d.ok = ok
<1>1. CASE c.where = "previous"
  <2>1. d = [c EXCEPT !.id = None, !.file = None, !.ok = TRUE,
                      !.pc = IF ok THEN "check" ELSE "exit"]
    BY <1>1 DEF AfterRestore
  <2> QED BY <2>1 DEF CallOK, Calls, PCs
<1>2. CASE c.where \in {"rollback", "finally"}
  <2>1. d = [c EXCEPT !.id = None, !.file = None, !.ok = TRUE, !.pc = "close"]
    BY <1>2 DEF AfterRestore
  <2> QED BY <2>1 DEF CallOK, Calls, PCs
<1>3. CASE c.where = "stop"
  <2>1. d = [c EXCEPT !.id = None, !.file = None, !.ok = ok, !.pc = "disable"]
    BY <1>3 DEF AfterRestore, CallOK, Calls
  <2> QED BY <2>1 DEF CallOK, Calls, PCs
<1> QED BY <1>1, <1>2, <1>3 DEF Restores

(* What a process knows where a restore ended. *)
LEMMA AfterRestoreHeld ==
    ASSUME NEW d, d.pc \in {"check", "exit", "close", "disable"}, NEW j, NEW s, NEW q,
           NEW l, NEW r, d.pc = "disable" /\ d.ok => j = None
    PROVE  Held(d, j, s) /\ PidHeld(d, q, l, r)
BY DEF Held, PidHeld

LEMMA RestoreFails ==
    ASSUME LifecycleInv, NEW p \in Procs, Busy(call[p]), call[p].where \in Restores,
           call[p].pc \notin {"await", "pid"}, Go(p, AfterRestore(call[p], FALSE)),
           UNCHANGED world, left' \in [Events -> Nat]
    PROVE  LifecycleInv'
<1>1. PICK ok \in BOOLEAN : ok = FALSE
  OBVIOUS
<1>2. PICK d : d = AfterRestore(call[p], ok)
  OBVIOUS
<1>3. call' = [call EXCEPT ![p] = d]
  BY <1>1, <1>2 DEF Go
<1>4. CallOK(call[p])
  BY DEF LifecycleInv
<1>5. CallOK(d) /\ d.pc \in {"check", "exit", "close", "disable"} /\ (d.pc = "disable" => ~d.ok)
  BY <1>1, <1>2, <1>4, AfterRestoreOK
<1>6. Held(d, journal, session) /\ PidHeld(d, p, listening \ lost, pidfile)
  BY <1>5, AfterRestoreHeld
<1> QED BY <1>3, <1>5, <1>6, LocalMove

LEMMA LeftSame ==
    ASSUME LifecycleInv, UNCHANGED left
    PROVE  left' \in [Events -> Nat]
BY DEF LifecycleInv, WorldTyped, Events

LEMMA LeftSpent ==
    ASSUME LifecycleInv, NEW k \in Events, Spend(k)
    PROVE  left' \in [Events -> Nat]
BY SpendTyped DEF LifecycleInv, WorldTyped

LEMMA LoadKeeps ==
    ASSUME LifecycleInv, NEW p \in Procs, restore(p)
    PROVE  LifecycleInv'
<1>1. /\ CallOK(call[p]) /\ call[p].pc = "load" /\ call[p].where \in Restores
      /\ Busy(call[p]) /\ journal \in Journals \cup {None} /\ UNCHANGED world
  BY DEF LifecycleInv, CallOK, WorldTyped, restore, At, Busy
<1>2. left' \in [Events -> Nat]
  BY LeftSame DEF restore
<1>3. CASE journal = None
  <2>1. PICK ok \in BOOLEAN : ok <=> call[p].where \in {"previous", "stop"}
    OBVIOUS
  <2>2. PICK d : d = AfterRestore(call[p], ok)
    OBVIOUS
  <2>3. call' = [call EXCEPT ![p] = d]
    BY <1>3, <2>1, <2>2 DEF restore, Go, AfterRestore
  <2>4. CallOK(d) /\ d.pc \in {"check", "exit", "close", "disable"}
    BY <1>1, <2>2, AfterRestoreOK
  <2>5. Held(d, journal, session) /\ PidHeld(d, p, listening \ lost, pidfile)
    BY <1>3, <2>4, AfterRestoreHeld
  <2> QED BY <1>1, <1>2, <2>3, <2>4, <2>5, LocalMove
<1>4. CASE journal # None
  <2>1. PICK d : d = [call[p] EXCEPT !.id = journal.id,
                         !.pc = IF journal.phase = "restoring" THEN "send" ELSE "begin"]
    OBVIOUS
  <2>2. call' = [call EXCEPT ![p] = d]
    BY <1>4, <2>1 DEF restore, Go
  <2>3. journal \in Journals /\ journal.id \in Ids
    BY <1>1, <1>4 DEF Journals
  <2>4. CallOK(d) /\ d.pc \in {"send", "begin"}
    BY <1>1, <2>1, <2>3 DEF CallOK, Calls, PCs
  <2>5. Held(d, journal, session) /\ PidHeld(d, p, listening \ lost, pidfile)
    BY <2>4 DEF Held, PidHeld
  <2> QED BY <1>1, <1>2, <2>2, <2>4, <2>5, LocalMove
<1> QED BY <1>3, <1>4

LEMMA RestoreLoadKeeps ==
    ASSUME LifecycleInv, NEW p \in Procs, _restore_load(p)
    PROVE  LifecycleInv'
<1>1. /\ CallOK(call[p]) /\ call[p].pc = "begin" /\ call[p].where \in Restores
      /\ Busy(call[p]) /\ journal \in Journals \cup {None} /\ UNCHANGED <<world, left>>
  BY DEF LifecycleInv, CallOK, WorldTyped, _restore_load, At, Busy
<1>2. CASE /\ journal # None
           /\ Go(p, [call[p] EXCEPT !.file = journal, !.id = journal.id, !.pc = "restoring"])
  <2>1. PICK d : d = [call[p] EXCEPT !.file = journal, !.id = journal.id, !.pc = "restoring"]
    OBVIOUS
  <2>2. call' = [call EXCEPT ![p] = d]
    BY <1>2, <2>1 DEF Go
  <2>3. journal \in Journals /\ journal.id \in Ids
    BY <1>1, <1>2 DEF Journals
  <2>4. CallOK(d) /\ d.file = journal /\ d.pc = "restoring"
    BY <1>1, <2>1, <2>3 DEF CallOK, Calls, PCs
  <2>5. Held(d, journal, session) /\ PidHeld(d, p, listening \ lost, pidfile)
    BY <2>4 DEF Held, PidHeld
  <2> QED BY <1>1, <2>2, <2>4, <2>5, LeftSame, LocalMove
<1>3. CASE Go(p, AfterRestore(call[p], FALSE))
  BY <1>1, <1>3, LeftSame, RestoreFails
<1> QED BY <1>2, <1>3 DEF _restore_load

(* The record names the one that listens and is not lost, but for the moment     *)
(* between the two.                                                              *)
LEMMA RecordKnown ==
    ASSUME LifecycleInv, NEW p \in Procs, Busy(call[p]), call[p].pc # "pid"
    PROVE  Serial => \A q \in listening \ lost : q = pidfile
<1> SUFFICES ASSUME Serial
             PROVE  \A q \in listening \ lost : q = pidfile
  OBVIOUS
<1>1. \A q \in listening \ lost : call[q].pc # "pid"
  BY DEF LifecycleInv, SerialInv, Busy, WorldTyped
<1> QED BY <1>1 DEF LifecycleInv, SerialInv, PidsKnown

(* The journal loaded is written back with another phase: while commands do not  *)
(* overlap it is still the one that is there.                                    *)
LEMMA TransitionWrites ==
    ASSUME LifecycleInv, NEW p \in Procs, call[p].pc \in {"restoring", "mark", "abort_save"},
           NEW phase \in {"applied", "restoring"}, NEW d, CallOK(d),
           d.pc \in {"send", "enable", "close"}, call' = [call EXCEPT ![p] = d],
           journal' = [call[p].file EXCEPT !.phase = phase],
           UNCHANGED <<listening, lost, pidfile, session, pipe, service, network, overlap, left>>
    PROVE  LifecycleInv'
<1>1. CallOK(call[p]) /\ call[p].file \in Journals /\ Busy(call[p])
  BY DEF LifecycleInv, CallOK, Busy
<1>2. journal' \in Journals /\ journal'.id = call[p].file.id
  BY <1>1 DEF Journals
<1>3. journal' # None
  BY <1>2 DEF Journals
<1>4. WorldTyped'
  BY <1>2 DEF LifecycleInv, WorldTyped
<1>5. PipeOK'
  BY PipeSame
<1>6. Serial => (session' # None => journal' # None /\ journal'.id = session'.id)
  BY <1>2, <1>3 DEF LifecycleInv, SerialInv, Held
<1>7. Held(d, journal', session') /\ PidHeld(d, p, listening' \ lost', pidfile')
  BY DEF Held, PidHeld
<1>8. Serial => \A q \in listening \ lost : q = pidfile
  BY <1>1, RecordKnown
<1> QED BY <1>1, <1>4, <1>5, <1>6, <1>7, <1>8, OneMoves

LEMMA RestoreMarkKeeps ==
    ASSUME LifecycleInv, NEW p \in Procs, _restore_mark(p)
    PROVE  LifecycleInv'
<1>1. CallOK(call[p]) /\ call[p].pc = "restoring" /\ call[p].where \in Restores /\ Busy(call[p])
  BY DEF LifecycleInv, CallOK, _restore_mark, At, Busy
<1>2. CASE /\ journal' = [call[p].file EXCEPT !.phase = "restoring"]
           /\ Go(p, [call[p] EXCEPT !.pc = "send"])
           /\ UNCHANGED <<listening, lost, pidfile, session, pipe, service, network, overlap, left>>
  <2>1. PICK d : d = [call[p] EXCEPT !.pc = "send"]
    OBVIOUS
  <2>2. CallOK(d) /\ d.pc = "send"
    BY <1>1, <2>1 DEF CallOK, Calls, PCs
  <2>3. call' = [call EXCEPT ![p] = d]
    BY <1>2, <2>1 DEF Go
  <2> QED BY <1>1, <1>2, <2>2, <2>3, TransitionWrites
<1>3. CASE Spend("file") /\ Go(p, AfterRestore(call[p], FALSE)) /\ UNCHANGED world
  BY <1>1, <1>3, LeftSpent, RestoreFails DEF Events
<1> QED BY <1>2, <1>3 DEF _restore_mark, transition

(* Who puts a request into the pipe waits for it. *)
LEMMA RequestSent ==
    ASSUME LifecycleInv, NEW p \in Procs, call[p].pc \in {"send", "apply"},
           NEW cmd \in {"apply", "restore"}, cmd = "apply" <=> call[p].where = "activate",
           pipe = None, pipe' = [from |-> p, cmd |-> cmd, id |-> call[p].id], To(p, "await"),
           UNCHANGED <<listening, lost, pidfile, journal, session, service, network, overlap, left>>
    PROVE  LifecycleInv'
<1>1. CallOK(call[p]) /\ call[p].id \in Ids /\ Busy(call[p])
  BY DEF LifecycleInv, CallOK, Busy
<1>2. PICK d : d = [call[p] EXCEPT !.pc = "await"]
  OBVIOUS
<1>3. call' = [call EXCEPT ![p] = d]
  BY <1>2 DEF To, Go
<1>4. /\ CallOK(d) /\ d.pc = "await" /\ d.where = call[p].where /\ d.id = call[p].id
  BY <1>1, <1>2 DEF CallOK, Calls, PCs
<1>5. WorldTyped'
  BY <1>1 DEF LifecycleInv, WorldTyped
<1>6. PipeOK'
  BY <1>3, <1>4 DEF PipeOK, LifecycleInv
<1>7. Serial => Held(d, journal', session')
  BY <1>1, <1>4 DEF LifecycleInv, SerialInv, Held, CallOK, Restores
<1>8. PidHeld(d, p, listening' \ lost', pidfile')
  BY <1>4 DEF PidHeld
<1>9. Serial => \A q \in listening \ lost : q = pidfile
  BY <1>1, RecordKnown
<1>10. Serial => (session' # None => journal' # None /\ journal'.id = session'.id)
  BY DEF LifecycleInv, SerialInv
<1> QED BY <1>1, <1>3, <1>4, <1>5, <1>6, <1>7, <1>8, <1>9, <1>10, OneMoves

LEMMA RestoreSendKeeps ==
    ASSUME LifecycleInv, NEW p \in Procs, _restore_send(p)
    PROVE  LifecycleInv'
<1>1. CallOK(call[p]) /\ call[p].pc = "send" /\ call[p].where \in Restores /\ Busy(call[p])
  BY DEF LifecycleInv, CallOK, _restore_send, At, Busy
<1>2. CASE /\ pipe = None
           /\ pipe' = [from |-> p, cmd |-> "restore", id |-> call[p].id]
           /\ To(p, "await")
           /\ UNCHANGED <<listening, lost, pidfile, journal, session, service, network, overlap, left>>
  BY <1>1, <1>2, RequestSent DEF Restores
<1>3. CASE Go(p, AfterRestore(call[p], FALSE)) /\ UNCHANGED <<world, left>>
  BY <1>1, <1>3, LeftSame, RestoreFails
<1> QED BY <1>2, <1>3 DEF _restore_send, request

(* The journal is removed once the restore was verified: no session is left. *)
LEMMA RestoreClearKeeps ==
    ASSUME LifecycleInv, NEW p \in Procs, _restore_clear(p)
    PROVE  LifecycleInv'
<1>1. CallOK(call[p]) /\ call[p].pc = "reply" /\ call[p].where \in Restores /\ Busy(call[p])
  BY DEF LifecycleInv, CallOK, _restore_clear, At, Busy
<1>2. CASE /\ call[p].ok /\ journal' = None
           /\ Go(p, AfterRestore(call[p], TRUE))
           /\ UNCHANGED <<listening, lost, pidfile, session, pipe, service, network, overlap, left>>
  <2>1. PICK ok \in BOOLEAN : ok = TRUE
    OBVIOUS
  <2>2. PICK d : d = AfterRestore(call[p], ok)
    OBVIOUS
  <2>3. call' = [call EXCEPT ![p] = d]
    BY <1>2, <2>1, <2>2 DEF Go
  <2>4. CallOK(d) /\ d.pc \in {"check", "exit", "close", "disable"}
    BY <1>1, <2>2, AfterRestoreOK
  <2>5. Held(d, journal', session') /\ PidHeld(d, p, listening' \ lost', pidfile')
    BY <1>2, <2>4, AfterRestoreHeld
  <2>6. Serial => session' = None
    BY <1>1, <1>2 DEF LifecycleInv, SerialInv, Held, Restores
  <2>7. WorldTyped'
    BY <1>2 DEF LifecycleInv, WorldTyped
  <2>8. PipeOK'
    BY <1>1, <1>2, <2>3, PipeSame
  <2>9. Serial => \A q \in listening \ lost : q = pidfile
    BY <1>1, RecordKnown
  <2> QED BY <1>1, <1>2, <2>3, <2>4, <2>5, <2>6, <2>7, <2>8, <2>9, OneMoves
<1>3. CASE Go(p, AfterRestore(call[p], FALSE)) /\ UNCHANGED <<world, left>>
  BY <1>1, <1>3, LeftSame, RestoreFails
<1>4. CASE Spend("file") /\ Go(p, AfterRestore(call[p], FALSE)) /\ UNCHANGED world
  BY <1>1, <1>4, LeftSpent, RestoreFails DEF Events
<1> QED BY <1>2, <1>3, <1>4 DEF _restore_clear

-----------------------------------------------------------------------------
(* _cmd_start                                                                    *)

LEMMA IdleWorldIdle ==
    ASSUME LifecycleInv, NEW p \in Procs, Begins(p)
    PROVE  /\ call[p].pc = "none"
           /\ Serial => \A q \in Procs : ~Busy(call[q])
BY QuietMeansIdle DEF Begins, At

LEMMA CmdStartKeeps ==
    ASSUME LifecycleInv, NEW p \in Procs, NEW exclusions \in BOOLEAN, _cmd_start(p, exclusions)
    PROVE  LifecycleInv'
<1>1. PICK d : d = [NoProcess EXCEPT !.pc = "load", !.op = "start", !.exclusions = exclusions]
  OBVIOUS
<1>2. CallOK(d) /\ d.pc = "load"
  BY <1>1 DEF NoProcess, CallOK, Calls, PCs, Restores
<1>3. call' = [call EXCEPT ![p] = d] /\ UNCHANGED world
  BY <1>1 DEF _cmd_start, Go
<1>4. Held(d, journal, session) /\ PidHeld(d, p, listening \ lost, pidfile)
  BY <1>2 DEF Held, PidHeld
<1>5. left' \in [Events -> Nat]
  BY LeftSpent DEF _cmd_start, Events
<1>6. call[p].pc = "none" /\ (Serial => \A q \in Procs : ~Busy(call[q]))
  BY IdleWorldIdle DEF _cmd_start
<1> QED BY <1>2, <1>3, <1>4, <1>5, <1>6, LocalMove

LEMMA StartCheckKeeps ==
    ASSUME LifecycleInv, NEW p \in Procs, _start_check(p)
    PROVE  LifecycleInv'
<1>1. CallOK(call[p]) /\ call[p].pc = "check" /\ Busy(call[p]) /\ UNCHANGED world
  BY DEF LifecycleInv, CallOK, _start_check, At, Busy
<1>2. left' \in [Events -> Nat]
  BY LeftSame, LeftSpent DEF _start_check, Overlooked, Events
<1>3. CASE Go(p, IF call[p].exclusions /\ ~service THEN [call[p] EXCEPT !.pc = "exit"]
                 ELSE IF is_running THEN [call[p] EXCEPT !.pc = "enable", !.where = "already"]
                 ELSE [call[p] EXCEPT !.pc = "bind", !.where = "activate"])
  <2>1. PICK d : d = IF call[p].exclusions /\ ~service THEN [call[p] EXCEPT !.pc = "exit"]
                     ELSE IF is_running THEN [call[p] EXCEPT !.pc = "enable", !.where = "already"]
                     ELSE [call[p] EXCEPT !.pc = "bind", !.where = "activate"]
    OBVIOUS
  <2>2. call' = [call EXCEPT ![p] = d]
    BY <1>3, <2>1 DEF Go
  <2>3. CallOK(d) /\ d.pc \in {"exit", "enable", "bind"} /\ (d.pc = "bind" => ~is_running)
    <3>1. CASE d = [call[p] EXCEPT !.pc = "exit"]
      BY <1>1, <3>1 DEF CallOK, Calls, PCs
    <3>2. CASE d = [call[p] EXCEPT !.pc = "enable", !.where = "already"]
      BY <1>1, <3>2 DEF CallOK, Calls, PCs
    <3>3. CASE ~is_running /\ d = [call[p] EXCEPT !.pc = "bind", !.where = "activate"]
      BY <1>1, <3>3 DEF CallOK, Calls, PCs
    <3> QED BY <2>1, <3>1, <3>2, <3>3
  <2>4. Held(d, journal, session)
    BY <2>3 DEF Held
  <2>5. Serial => (~is_running => listening \ lost = {})
    BY <1>1, RecordKnown DEF is_running, LifecycleInv, WorldTyped
  <2>6. Serial => PidHeld(d, p, listening \ lost, pidfile)
    BY <2>3, <2>5 DEF PidHeld
  <2> QED BY <1>1, <1>2, <2>2, <2>3, <2>4, <2>6, LocalMove
<1>4. CASE Go(p, [call[p] EXCEPT !.pc = "bind", !.where = "activate", !.missed = TRUE])
  <2>1. PICK d : d = [call[p] EXCEPT !.pc = "bind", !.where = "activate", !.missed = TRUE]
    OBVIOUS
  <2>2. CallOK(d) /\ d.pc = "bind" /\ d.missed
    BY <1>1, <2>1 DEF CallOK, Calls, PCs
  <2>3. call' = [call EXCEPT ![p] = d]
    BY <1>4, <2>1 DEF Go
  <2>4. Held(d, journal, session) /\ PidHeld(d, p, listening \ lost, pidfile)
    BY <2>2 DEF Held, PidHeld
  <2> QED BY <1>1, <1>2, <2>2, <2>3, <2>4, LocalMove
<1> QED BY <1>3, <1>4 DEF _start_check

LEMMA StartBindKeeps ==
    ASSUME LifecycleInv, NEW p \in Procs, _start_bind(p)
    PROVE  LifecycleInv'
<1>1. /\ CallOK(call[p]) /\ call[p].pc = "bind" /\ Busy(call[p]) /\ call[p].where = "activate"
      /\ UNCHANGED <<lost, pidfile, journal, session, pipe, service, network, overlap, left>>
  BY DEF LifecycleInv, CallOK, _start_bind, At, Busy
<1>2. Serial => /\ \A q \in listening \ lost : q = pidfile
                /\ ~call[p].missed => listening \ lost = {}
  BY <1>1, RecordKnown DEF LifecycleInv, SerialInv, PidsKnown, PidHeld
<1>3. left' \in [Events -> Nat]
  BY <1>1, LeftSame
<1>4. CASE listening' = listening \cup {p} /\ To(p, "pid")
  <2>1. PICK d : d = [call[p] EXCEPT !.pc = "pid"]
    OBVIOUS
  <2>2. CallOK(d) /\ d.pc = "pid" /\ d.missed = call[p].missed
    BY <1>1, <2>1 DEF CallOK, Calls, PCs
  <2>3. call' = [call EXCEPT ![p] = d]
    BY <1>4, <2>1 DEF To, Go
  <2>4. WorldTyped'
    BY <1>1, <1>4 DEF LifecycleInv, WorldTyped
  <2>5. PipeOK'
    BY <1>1, <2>3, PipeSame
  <2>6. Held(d, journal', session')
    BY <2>2 DEF Held
  <2>7. listening' \ lost' \subseteq (listening \ lost) \cup {p}
    BY <1>1, <1>4
  <2>8. Serial => /\ PidHeld(d, p, listening' \ lost', pidfile')
                  /\ \A q \in listening' \ lost' : q = pidfile' \/ q = p
    BY <1>1, <1>2, <2>2, <2>7 DEF PidHeld
  <2>9. Serial => (session' # None => journal' # None /\ journal'.id = session'.id)
    BY <1>1 DEF LifecycleInv, SerialInv
  <2> QED BY <1>1, <2>2, <2>3, <2>4, <2>5, <2>6, <2>7, <2>8, <2>9, OneMoves
<1>5. CASE UNCHANGED listening /\ To(p, "exit")
  <2>1. PICK d : d = [call[p] EXCEPT !.pc = "exit"]
    OBVIOUS
  <2>2. CallOK(d) /\ d.pc = "exit"
    BY <1>1, <2>1 DEF CallOK, Calls, PCs
  <2>3. call' = [call EXCEPT ![p] = d]
    BY <1>5, <2>1 DEF To, Go
  <2>4. Held(d, journal, session) /\ PidHeld(d, p, listening \ lost, pidfile)
    BY <2>2 DEF Held, PidHeld
  <2> QED BY <1>1, <1>3, <1>5, <2>2, <2>3, <2>4, LocalMove DEF world
<1> QED BY <1>4, <1>5 DEF _start_bind

(* The record now names the one that listens, or that one is lost; so are those  *)
(* --start did not see, once their record is replaced.                           *)
LEMMA WritePidKeeps ==
    ASSUME LifecycleInv, NEW p \in Procs, _write_pid(p)
    PROVE  LifecycleInv'
<1>1. /\ CallOK(call[p]) /\ call[p].pc = "pid" /\ Busy(call[p]) /\ call[p].where = "activate"
      /\ UNCHANGED <<listening, journal, session, pipe, service, network, overlap>>
  BY DEF LifecycleInv, CallOK, _write_pid, At, Busy
<1>2. PICK d : d = [call[p] EXCEPT !.missed = FALSE,
                      !.pc = IF call[p].exclusions THEN "prepare" ELSE "enable"]
  OBVIOUS
<1>3. call' = [call EXCEPT ![p] = d]
  BY <1>2 DEF _write_pid, Go
<1>4. CallOK(d) /\ d.pc \in {"prepare", "enable"}
  <2>1. PICK pc \in {"prepare", "enable"} :
          pc = IF call[p].exclusions THEN "prepare" ELSE "enable"
    OBVIOUS
  <2>2. d = [call[p] EXCEPT !.missed = FALSE, !.pc = pc]
    BY <1>2, <2>1
  <2> QED BY <1>1, <2>2 DEF CallOK, Calls, PCs
<1>5. PICK others : others = IF call[p].missed THEN listening \ {p} ELSE {}
  OBVIOUS
<1>6. \/ pidfile' = p /\ lost' = lost \cup others
      \/ UNCHANGED pidfile /\ lost' = lost \cup {p}
      \/ pidfile' = Gone /\ lost' = lost \cup others \cup {p}
  BY <1>5 DEF _write_pid
<1>7. left' \in [Events -> Nat]
  BY LeftSame, LeftSpent DEF _write_pid, Events
<1>8. others \subseteq Procs
  BY <1>5 DEF LifecycleInv, WorldTyped
<1>9. WorldTyped'
  BY <1>1, <1>6, <1>7, <1>8 DEF LifecycleInv, WorldTyped
<1>10. PipeOK'
  <2>1. pipe' = pipe /\ call[p].pc # "await"
    BY <1>1
  <2> QED BY <1>3, <2>1, PipeSame
<1>11. Held(d, journal', session') /\ PidHeld(d, p, listening' \ lost', pidfile')
  BY <1>4 DEF Held, PidHeld
<1>12. ASSUME Serial
       PROVE  \A q \in listening' \ lost' : q = pidfile'
  <2>1. /\ ~call[p].missed => listening \ lost \subseteq {p}
        /\ \A q \in listening \ lost : q = pidfile \/ q = p
    BY <1>1, <1>12 DEF LifecycleInv, SerialInv, PidsKnown, PidHeld, WorldTyped, Busy
  <2>2. CASE pidfile' = p /\ lost' = lost \cup others
    BY <1>1, <1>5, <2>1, <2>2
  <2>3. CASE UNCHANGED pidfile /\ lost' = lost \cup {p}
    BY <1>1, <2>1, <2>3
  <2>4. CASE pidfile' = Gone /\ lost' = lost \cup others \cup {p}
    BY <1>1, <1>5, <2>1, <2>4
  <2> QED BY <1>6, <2>2, <2>3, <2>4
<1>13. Serial => (session' # None => journal' # None /\ journal'.id = session'.id)
  BY <1>1 DEF LifecycleInv, SerialInv
<1> QED BY <1>1, <1>3, <1>4, <1>9, <1>10, <1>11, <1>12, <1>13, OneMoves

LEMMA PrepareKeeps ==
    ASSUME LifecycleInv, NEW p \in Procs, prepare(p)
    PROVE  LifecycleInv'
<1>1. CallOK(call[p]) /\ call[p].pc = "prepare" /\ Busy(call[p]) /\ call[p].where = "activate"
  BY DEF LifecycleInv, CallOK, prepare, At, Busy
<1>2. ASSUME To(p, "close"), UNCHANGED world,
             left' \in [Events -> Nat]
      PROVE  LifecycleInv'
  <2>1. PICK d : d = [call[p] EXCEPT !.pc = "close"]
    OBVIOUS
  <2>2. CallOK(d) /\ d.pc = "close"
    BY <1>1, <2>1 DEF CallOK, Calls, PCs
  <2>3. call' = [call EXCEPT ![p] = d]
    BY <1>2, <2>1 DEF To, Go
  <2>4. Held(d, journal, session) /\ PidHeld(d, p, listening \ lost, pidfile)
    BY <2>2 DEF Held, PidHeld
  <2> QED BY <1>1, <1>2, <2>2, <2>3, <2>4, LocalMove
<1>3. PICK id : id = CHOOSE i \in Ids : i \notin Used
  OBVIOUS
<1>4. CASE /\ journal = None /\ Ids \ Used # {}
           /\ journal' = [id |-> id, phase |-> "prepared"]
           /\ Go(p, [call[p] EXCEPT !.pc = "apply", !.id = id])
           /\ UNCHANGED <<listening, lost, pidfile, session, pipe, service, network, overlap, left>>
  <2>1. id \in Ids
    BY <1>3, <1>4
  <2>2. PICK d : d = [call[p] EXCEPT !.pc = "apply", !.id = id]
    OBVIOUS
  <2>3. CallOK(d) /\ d.pc = "apply" /\ d.id = id
    BY <1>1, <2>1, <2>2 DEF CallOK, Calls, PCs
  <2>4. call' = [call EXCEPT ![p] = d]
    BY <1>4, <2>2 DEF Go
  <2>5. journal' \in Journals /\ journal' # None /\ journal'.id = id
    BY <1>4, <2>1 DEF Journals
  <2>6. WorldTyped'
    BY <1>4, <2>5 DEF LifecycleInv, WorldTyped
  <2>7. PipeOK'
    BY <1>1, <1>4, <2>4, PipeSame
  <2>8. Held(d, journal', session') /\ PidHeld(d, p, listening' \ lost', pidfile')
    BY <2>3, <2>5 DEF Held, PidHeld
  <2>9. Serial => session' = None
    BY <1>4 DEF LifecycleInv, SerialInv
  <2>10. Serial => \A q \in listening \ lost : q = pidfile
    BY <1>1, RecordKnown
  <2> QED BY <1>1, <1>4, <2>3, <2>4, <2>6, <2>7, <2>8, <2>9, <2>10, OneMoves
<1>5. CASE journal # None /\ To(p, "close") /\ UNCHANGED <<world, left>>
  BY <1>2, <1>5, LeftSame
<1>6. CASE Spend("file") /\ To(p, "close") /\ UNCHANGED world
  BY <1>2, <1>6, LeftSpent DEF Events
<1> QED BY <1>3, <1>4, <1>5, <1>6 DEF prepare

(* Places where a process holds nothing of journal, session or record. *)
LEMMA FreeHolds ==
    ASSUME NEW d, d.pc \in {"load", "abort", "enable", "loop", "close", "record", "exit"},
           NEW j, NEW s, NEW q, NEW l, NEW r
    PROVE  Held(d, j, s) /\ PidHeld(d, q, l, r)
BY DEF Held, PidHeld

(* A step to such a place that touches nothing but the call and the budget. *)
LEMMA FreeMove ==
    ASSUME LifecycleInv, NEW p \in Procs, NEW d, CallOK(d), Go(p, d),
           Busy(call[p]), call[p].pc \notin {"await", "pid"},
           d.pc \in {"load", "abort", "enable", "loop", "close", "record", "exit"},
           UNCHANGED world, left' \in [Events -> Nat]
    PROVE  LifecycleInv'
<1>1. call' = [call EXCEPT ![p] = d]
  BY DEF Go
<1>2. Held(d, journal, session) /\ PidHeld(d, p, listening \ lost, pidfile)
  BY FreeHolds
<1> QED BY <1>1, <1>2, LocalMove

LEMMA ActivateSendKeeps ==
    ASSUME LifecycleInv, NEW p \in Procs, _activate_send(p)
    PROVE  LifecycleInv'
<1>1. CallOK(call[p]) /\ call[p].pc = "apply" /\ Busy(call[p]) /\ call[p].where = "activate"
  BY DEF LifecycleInv, CallOK, _activate_send, At, Busy
<1>2. CASE /\ pipe = None
           /\ pipe' = [from |-> p, cmd |-> "apply", id |-> call[p].id]
           /\ To(p, "await")
           /\ UNCHANGED <<listening, lost, pidfile, journal, session, service, network, overlap, left>>
  BY <1>1, <1>2, RequestSent
<1>3. CASE Go(p, [call[p] EXCEPT !.pc = "abort"]) /\ UNCHANGED <<world, left>>
  <2>1. PICK d : d = [call[p] EXCEPT !.pc = "abort"]
    OBVIOUS
  <2>2. CallOK(d) /\ d.pc = "abort"
    BY <1>1, <2>1 DEF CallOK, Calls, PCs
  <2>3. left' \in [Events -> Nat]
    BY <1>3, LeftSame
  <2> QED BY <1>1, <1>3, <2>1, <2>2, <2>3, FreeMove
<1> QED BY <1>2, <1>3 DEF _activate_send, request

(* A move to a place where the journal just loaded is in hand. *)
LEMMA FileMove ==
    ASSUME LifecycleInv, NEW p \in Procs, Busy(call[p]), call[p].pc \notin {"await", "pid"},
           NEW pc \in {"mark", "abort_save"}, journal # None,
           Go(p, [call[p] EXCEPT !.pc = pc, !.file = journal]), UNCHANGED <<world, left>>
    PROVE  LifecycleInv'
<1>1. PICK d : d = [call[p] EXCEPT !.pc = pc, !.file = journal]
  OBVIOUS
<1>2. call' = [call EXCEPT ![p] = d]
  BY <1>1 DEF Go
<1>3. CallOK(call[p]) /\ journal \in Journals
  BY DEF LifecycleInv, WorldTyped
<1>4. CallOK(d) /\ d.pc = pc /\ d.file = journal
  BY <1>1, <1>3 DEF CallOK, Calls, PCs
<1>5. Held(d, journal, session) /\ PidHeld(d, p, listening \ lost, pidfile)
  BY <1>4 DEF Held, PidHeld
<1>6. left' \in [Events -> Nat]
  BY LeftSame
<1> QED BY <1>2, <1>4, <1>5, <1>6, LocalMove

LEMMA ActivateLoadKeeps ==
    ASSUME LifecycleInv, NEW p \in Procs, _activate_load(p)
    PROVE  LifecycleInv'
<1>1. /\ CallOK(call[p]) /\ call[p].pc = "reply" /\ Busy(call[p]) /\ call[p].where = "activate"
      /\ UNCHANGED <<world, left>>
  BY DEF LifecycleInv, CallOK, _activate_load, At, Busy
<1>2. CASE journal # None /\ Go(p, [call[p] EXCEPT !.pc = "mark", !.file = journal])
  BY <1>1, <1>2, FileMove
<1>3. CASE Go(p, [call[p] EXCEPT !.pc = "abort"])
  <2>1. PICK d : d = [call[p] EXCEPT !.pc = "abort"]
    OBVIOUS
  <2>2. CallOK(d) /\ d.pc = "abort"
    BY <1>1, <2>1 DEF CallOK, Calls, PCs
  <2>3. left' \in [Events -> Nat]
    BY <1>1, LeftSame
  <2> QED BY <1>1, <1>3, <2>1, <2>2, <2>3, FreeMove
<1> QED BY <1>2, <1>3 DEF _activate_load

LEMMA ActivateMarkKeeps ==
    ASSUME LifecycleInv, NEW p \in Procs, _activate_mark(p)
    PROVE  LifecycleInv'
<1>1. CallOK(call[p]) /\ call[p].pc = "mark" /\ Busy(call[p])
  BY DEF LifecycleInv, CallOK, _activate_mark, At, Busy
<1>2. CASE /\ journal' = [call[p].file EXCEPT !.phase = "applied"]
           /\ Go(p, [call[p] EXCEPT !.pc = "enable", !.id = None, !.file = None])
           /\ UNCHANGED <<listening, lost, pidfile, session, pipe, service, network, overlap, left>>
  <2>1. PICK d : d = [call[p] EXCEPT !.pc = "enable", !.id = None, !.file = None]
    OBVIOUS
  <2>2. CallOK(d) /\ d.pc = "enable"
    BY <1>1, <2>1 DEF CallOK, Calls, PCs
  <2>3. call' = [call EXCEPT ![p] = d]
    BY <1>2, <2>1 DEF Go
  <2> QED BY <1>1, <1>2, <2>2, <2>3, TransitionWrites
<1>3. CASE Spend("file") /\ Go(p, [call[p] EXCEPT !.pc = "abort"]) /\ UNCHANGED world
  <2>1. PICK d : d = [call[p] EXCEPT !.pc = "abort"]
    OBVIOUS
  <2>2. CallOK(d) /\ d.pc = "abort"
    BY <1>1, <2>1 DEF CallOK, Calls, PCs
  <2>3. left' \in [Events -> Nat]
    BY <1>3, LeftSpent DEF Events
  <2> QED BY <1>1, <1>3, <2>1, <2>2, <2>3, FreeMove
<1> QED BY <1>2, <1>3 DEF _activate_mark, transition

(* Where activate gives up, nothing is in hand any longer. *)
LEMMA AbortedOK ==
    ASSUME NEW c, CallOK(c), NEW d,
           d = [c EXCEPT !.pc = "close", !.id = None, !.file = None, !.ok = TRUE]
    PROVE  CallOK(d) /\ d.pc = "close"
BY DEF CallOK, Calls, PCs

LEMMA ActivateAbortKeeps ==
    ASSUME LifecycleInv, NEW p \in Procs, _activate_abort(p)
    PROVE  LifecycleInv'
<1>1. CallOK(call[p]) /\ call[p].pc = "abort" /\ Busy(call[p]) /\ UNCHANGED <<world, left>>
  BY DEF LifecycleInv, CallOK, _activate_abort, At, Busy
<1>2. CASE journal # None /\ Go(p, [call[p] EXCEPT !.pc = "abort_save", !.file = journal])
  BY <1>1, <1>2, FileMove
<1>3. CASE Go(p, [call[p] EXCEPT !.pc = "close", !.id = None, !.file = None, !.ok = TRUE])
  <2>1. PICK d : d = [call[p] EXCEPT !.pc = "close", !.id = None, !.file = None, !.ok = TRUE]
    OBVIOUS
  <2>2. left' \in [Events -> Nat]
    BY <1>1, LeftSame
  <2> QED BY <1>1, <1>3, <2>1, <2>2, AbortedOK, FreeMove
<1> QED BY <1>2, <1>3 DEF _activate_abort

LEMMA ActivateAbortSaveKeeps ==
    ASSUME LifecycleInv, NEW p \in Procs, _activate_abort_save(p)
    PROVE  LifecycleInv'
<1>1. CallOK(call[p]) /\ call[p].pc = "abort_save" /\ Busy(call[p])
  BY DEF LifecycleInv, CallOK, _activate_abort_save, At, Busy
<1>2. PICK d : d = [call[p] EXCEPT !.pc = "close", !.id = None, !.file = None, !.ok = TRUE]
  OBVIOUS
<1>3. CallOK(d) /\ d.pc = "close"
  BY <1>1, <1>2, AbortedOK
<1>4. CASE /\ journal' = [call[p].file EXCEPT !.phase = "restoring"]
           /\ Go(p, d)
           /\ UNCHANGED <<listening, lost, pidfile, session, pipe, service, network, overlap, left>>
  BY <1>1, <1>3, <1>4, TransitionWrites DEF Go
<1>5. CASE Spend("file") /\ Go(p, d) /\ UNCHANGED world
  BY <1>1, <1>3, <1>5, LeftSpent, FreeMove DEF Events
<1> QED BY <1>2, <1>4, <1>5 DEF _activate_abort_save, transition

(* A call of the system proxy backend. *)
LEMMA NetMove ==
    ASSUME LifecycleInv, NEW p \in Procs, NEW d, CallOK(d), call' = [call EXCEPT ![p] = d],
           Busy(call[p]), call[p].pc \notin {"await", "pid"},
           UNCHANGED <<listening, lost, pidfile, journal, session, pipe, service, overlap>>,
           network' \in {"off", "on", "partial"},
           left' \in [Events -> Nat],
           Serial => Held(d, journal, session), PidHeld(d, p, listening \ lost, pidfile)
    PROVE  LifecycleInv'
<1>1. WorldTyped'
  BY DEF LifecycleInv, WorldTyped
<1>2. PipeOK'
  BY PipeSame
<1>3. Serial => \A q \in listening \ lost : q = pidfile
  BY RecordKnown
<1>4. Serial => (session' # None => journal' # None /\ journal'.id = session'.id)
  BY DEF LifecycleInv, SerialInv
<1> QED BY <1>1, <1>2, <1>3, <1>4, OneMoves

LEMMA StartEnableKeeps ==
    ASSUME LifecycleInv, NEW p \in Procs, _start_enable(p)
    PROVE  LifecycleInv'
<1>1. /\ CallOK(call[p]) /\ call[p].pc = "enable" /\ Busy(call[p])
      /\ UNCHANGED <<listening, lost, pidfile, journal, session, pipe, service, overlap>>
  BY DEF LifecycleInv, CallOK, _start_enable, At, Busy
<1>2. left' \in [Events -> Nat]
  BY LeftSame, LeftSpent DEF _start_enable, Events
<1>3. network' \in {"off", "on", "partial"}
  BY DEF _start_enable, LifecycleInv, WorldTyped
<1>4. \E pc \in {"exit", "loop", "close", "load"}, where \in {call[p].where, "rollback"} :
        /\ pc = "load" => where = "rollback"
        /\ call' = [call EXCEPT ![p] = [call[p] EXCEPT !.pc = pc, !.where = where]]
  <2>1. \A pc : [call[p] EXCEPT !.pc = pc] = [call[p] EXCEPT !.pc = pc, !.where = call[p].where]
    BY <1>1 DEF CallOK, Calls
  <2> QED BY <2>1 DEF _start_enable, To, Go
<1>5. PICK pc \in {"exit", "loop", "close", "load"}, where \in {call[p].where, "rollback"} :
        /\ pc = "load" => where = "rollback"
        /\ call' = [call EXCEPT ![p] = [call[p] EXCEPT !.pc = pc, !.where = where]]
  BY <1>4
<1>6. PICK d : d = [call[p] EXCEPT !.pc = pc, !.where = where]
  OBVIOUS
<1>7. CallOK(d) /\ d.pc = pc
  BY <1>1, <1>5, <1>6 DEF CallOK, Calls, PCs, Restores
<1>8. Held(d, journal, session) /\ PidHeld(d, p, listening \ lost, pidfile)
  BY <1>7, FreeHolds
<1> QED BY <1>1, <1>2, <1>3, <1>5, <1>6, <1>7, <1>8, NetMove

LEMMA RunProxyLoopKeeps ==
    ASSUME LifecycleInv, NEW p \in Procs, _run_proxy_loop(p)
    PROVE  LifecycleInv'
<1>1. CallOK(call[p]) /\ call[p].pc = "loop" /\ UNCHANGED world
  BY DEF LifecycleInv, CallOK, _run_proxy_loop, At
<1>2. Serial => \A q \in Procs : ~Busy(call[q])
  BY QuietMeansIdle DEF _run_proxy_loop
<1>3. left' \in [Events -> Nat]
  BY LeftSpent DEF _run_proxy_loop, Events
<1>4. PICK d : d = IF call[p].exclusions THEN [call[p] EXCEPT !.pc = "load", !.where = "finally"]
                                         ELSE [call[p] EXCEPT !.pc = "close"]
  OBVIOUS
<1>5. call' = [call EXCEPT ![p] = d]
  BY <1>4 DEF _run_proxy_loop, Go
<1>6. CallOK(d) /\ d.pc \in {"load", "close"}
  <2>1. CASE d = [call[p] EXCEPT !.pc = "load", !.where = "finally"]
    BY <1>1, <2>1 DEF CallOK, Calls, PCs, Restores
  <2>2. CASE d = [call[p] EXCEPT !.pc = "close"]
    BY <1>1, <2>2 DEF CallOK, Calls, PCs
  <2> QED BY <1>4, <2>1, <2>2
<1>7. Held(d, journal, session) /\ PidHeld(d, p, listening \ lost, pidfile)
  BY <1>6, FreeHolds
<1> QED BY <1>1, <1>2, <1>3, <1>5, <1>6, <1>7, LocalMove

(* A step that changes listeners and record only, in hand with what p knows. *)
LEMMA RecordMove ==
    ASSUME LifecycleInv, NEW p \in Procs, NEW d, CallOK(d), call' = [call EXCEPT ![p] = d],
           Busy(call[p]), call[p].pc \notin {"await", "pid"}, d.pc \in {"load", "unpid", "exit"},
           UNCHANGED <<lost, journal, session, pipe, service, network, overlap, left>>,
           listening' \subseteq listening, pidfile' \in {pidfile, None},
           d.pc = "unpid" => p \notin listening',
           Serial => \A q \in listening' \ lost' : q = pidfile'
    PROVE  LifecycleInv'
<1>1. WorldTyped'
  BY DEF LifecycleInv, WorldTyped
<1>2. PipeOK'
  BY PipeSame
<1>3. Serial => (session' # None => journal' # None /\ journal'.id = session'.id)
  BY DEF LifecycleInv, SerialInv
<1>4. Held(d, journal', session') /\ PidHeld(d, p, listening' \ lost', pidfile')
  BY DEF Held, PidHeld
<1> QED BY <1>1, <1>2, <1>3, <1>4, OneMoves

LEMMA StartCloseKeeps ==
    ASSUME LifecycleInv, NEW p \in Procs, _start_close(p)
    PROVE  LifecycleInv'
<1>1. /\ CallOK(call[p]) /\ call[p].pc = "close" /\ Busy(call[p])
      /\ listening' = listening \ {p}
      /\ UNCHANGED <<lost, pidfile, journal, session, pipe, service, network, overlap, left>>
  BY DEF LifecycleInv, CallOK, _start_close, At, Busy
<1>2. PICK d : d = [call[p] EXCEPT !.pc = "unpid"]
  OBVIOUS
<1>3. CallOK(d) /\ d.pc = "unpid"
  BY <1>1, <1>2 DEF CallOK, Calls, PCs
<1>4. call' = [call EXCEPT ![p] = d]
  BY <1>2 DEF _start_close, To, Go
<1>5. Serial => \A q \in listening' \ lost' : q = pidfile'
  BY <1>1, RecordKnown
<1> QED BY <1>1, <1>3, <1>4, <1>5, RecordMove

LEMMA StartUnpidKeeps ==
    ASSUME LifecycleInv, NEW p \in Procs, _start_unpid(p)
    PROVE  LifecycleInv'
<1>1. /\ CallOK(call[p]) /\ call[p].pc = "unpid" /\ Busy(call[p])
      /\ pidfile' = IF pidfile = p THEN None ELSE pidfile
      /\ UNCHANGED <<listening, lost, journal, session, pipe, service, network, overlap, left>>
  BY DEF LifecycleInv, CallOK, _start_unpid, At, Busy
<1>2. PICK d : d = [call[p] EXCEPT !.pc = "exit"]
  OBVIOUS
<1>3. CallOK(d) /\ d.pc = "exit"
  BY <1>1, <1>2 DEF CallOK, Calls, PCs
<1>4. call' = [call EXCEPT ![p] = d]
  BY <1>2 DEF _start_unpid, To, Go
<1>5. Serial => p \notin listening \ lost /\ \A q \in listening \ lost : q = pidfile
  BY <1>1, RecordKnown DEF LifecycleInv, SerialInv, PidsKnown, PidHeld
<1>6. Serial => \A q \in listening' \ lost' : q = pidfile'
  BY <1>1, <1>5
<1> QED BY <1>1, <1>3, <1>4, <1>6, RecordMove

-----------------------------------------------------------------------------
(* _cmd_stop                                                                     *)

LEMMA CmdStopKeeps ==
    ASSUME LifecycleInv, NEW p \in Procs, _cmd_stop(p)
    PROVE  LifecycleInv'
<1>1. PICK d : d = [NoProcess EXCEPT !.pc = "record", !.op = "stop",
                                     !.seen = {q \in Procs : call[q].pc = "loop"}]
  OBVIOUS
<1>2. CallOK(d) /\ d.pc = "record"
  BY <1>1 DEF NoProcess, CallOK, Calls, PCs, Restores
<1>3. call' = [call EXCEPT ![p] = d] /\ UNCHANGED world
  BY <1>1 DEF _cmd_stop, Go
<1>4. Held(d, journal, session) /\ PidHeld(d, p, listening \ lost, pidfile)
  BY <1>2, FreeHolds
<1>5. left' \in [Events -> Nat]
  BY LeftSame DEF _cmd_stop
<1>6. call[p].pc = "none" /\ (Serial => \A q \in Procs : ~Busy(call[q]))
  BY IdleWorldIdle DEF _cmd_stop
<1> QED BY <1>2, <1>3, <1>4, <1>5, <1>6, LocalMove

LEMMA StopRecordKeeps ==
    ASSUME LifecycleInv, NEW p \in Procs, _stop_record(p)
    PROVE  LifecycleInv'
<1>1. CallOK(call[p]) /\ call[p].pc = "record" /\ Busy(call[p]) /\ UNCHANGED <<world, left>>
  BY DEF LifecycleInv, CallOK, _stop_record, At, Busy
<1>2. PICK d : d = [call[p] EXCEPT !.pc = "kill", !.rec = pidfile]
  OBVIOUS
<1>3. call' = [call EXCEPT ![p] = d]
  BY <1>2 DEF _stop_record, Go
<1>4. CallOK(d) /\ d.pc = "kill" /\ d.rec = pidfile
  BY <1>1, <1>2 DEF CallOK, Calls, PCs, LifecycleInv, WorldTyped
<1>5. Held(d, journal, session) /\ PidHeld(d, p, listening \ lost, pidfile)
  BY <1>4 DEF Held, PidHeld
<1>6. left' \in [Events -> Nat]
  BY <1>1, LeftSame
<1> QED BY <1>1, <1>3, <1>4, <1>5, <1>6, LocalMove

LEMMA StopStillKeeps ==
    ASSUME LifecycleInv, NEW p \in Procs, _stop_still(p)
    PROVE  LifecycleInv'
<1>1. /\ CallOK(call[p]) /\ call[p].pc = "still" /\ Busy(call[p])
      /\ UNCHANGED <<listening, pidfile, journal, session, pipe, service, network, overlap>>
  BY DEF LifecycleInv, CallOK, _stop_still, At, Busy
<1>2. left' \in [Events -> Nat]
  BY LeftSame, LeftSpent DEF _stop_still, Overlooked, Events
<1>3. PICK pc \in {"drop", "load"} :
        /\ Go(p, [call[p] EXCEPT !.where = "stop", !.killed = FALSE, !.pc = pc])
        /\ \/ /\ pc = IF call[p].killed \/ ~is_running THEN "drop" ELSE "load"
              /\ UNCHANGED lost
           \/ lost' = lost \cup listening
  BY DEF _stop_still
<1>4. PICK d : d = [call[p] EXCEPT !.where = "stop", !.killed = FALSE, !.pc = pc]
  OBVIOUS
<1>5. call' = [call EXCEPT ![p] = d]
  BY <1>3, <1>4 DEF Go
<1>6. CallOK(d) /\ d.pc = pc
  BY <1>1, <1>4 DEF CallOK, Calls, PCs, Restores
<1>7. Held(d, journal', session')
  BY <1>6 DEF Held
<1>8. ASSUME Serial
      PROVE  /\ \A q \in listening' \ lost' : q = pidfile'
             /\ pc = "drop" => listening' \ lost' = {}
  <2>1. /\ \A q \in listening \ lost : q = pidfile
        /\ call[p].killed => listening \ lost = {}
    BY <1>1, <1>8, RecordKnown DEF LifecycleInv, SerialInv, PidsKnown, PidHeld
  <2>2. ~is_running => listening \ lost = {}
    BY <2>1 DEF is_running, LifecycleInv, WorldTyped
  <2> QED BY <1>1, <1>3, <2>1, <2>2
<1>9. Serial => PidHeld(d, p, listening' \ lost', pidfile')
  BY <1>6, <1>8 DEF PidHeld
<1>10. WorldTyped'
  BY <1>1, <1>2, <1>3 DEF LifecycleInv, WorldTyped
<1>11. PipeOK'
  <2>1. pipe' = pipe /\ call[p].pc # "await"
    BY <1>1
  <2> QED BY <1>5, <2>1, PipeSame
<1>12. Serial => (session' # None => journal' # None /\ journal'.id = session'.id)
  BY <1>1 DEF LifecycleInv, SerialInv
<1> QED BY <1>1, <1>5, <1>6, <1>7, <1>8, <1>9, <1>10, <1>11, <1>12, OneMoves

LEMMA StopDropKeeps ==
    ASSUME LifecycleInv, NEW p \in Procs, _stop_drop(p)
    PROVE  LifecycleInv'
<1>1. /\ CallOK(call[p]) /\ call[p].pc = "drop" /\ Busy(call[p]) /\ call[p].where = "stop"
      /\ pidfile' = None
      /\ UNCHANGED <<listening, lost, journal, session, pipe, service, network, overlap, left>>
  BY DEF LifecycleInv, CallOK, _stop_drop, At, Busy
<1>2. PICK d : d = [call[p] EXCEPT !.pc = "load"]
  OBVIOUS
<1>3. CallOK(d) /\ d.pc = "load"
  BY <1>1, <1>2 DEF CallOK, Calls, PCs, Restores
<1>4. call' = [call EXCEPT ![p] = d]
  BY <1>2 DEF _stop_drop, To, Go
<1>5. Serial => listening \ lost = {}
  BY <1>1 DEF LifecycleInv, SerialInv, PidsKnown, PidHeld
<1> QED BY <1>1, <1>3, <1>4, <1>5, RecordMove

LEMMA StopDisableKeeps ==
    ASSUME LifecycleInv, NEW p \in Procs, _stop_disable(p)
    PROVE  LifecycleInv'
<1>1. /\ CallOK(call[p]) /\ call[p].pc = "disable" /\ Busy(call[p])
      /\ UNCHANGED <<listening, lost, pidfile, journal, session, pipe, service, overlap>>
  BY DEF LifecycleInv, CallOK, _stop_disable, At, Busy
<1>2. left' \in [Events -> Nat]
  BY LeftSame, LeftSpent DEF _stop_disable, Events
<1>3. network' \in {"off", "on", "partial"}
  BY DEF _stop_disable, LifecycleInv, WorldTyped
<1>4. \E ok \in BOOLEAN : /\ ok => call[p].ok
                          /\ call' = [call EXCEPT ![p] = [call[p] EXCEPT !.pc = "verdict", !.ok = ok]]
  <2>1. CASE To(p, "verdict")
    <3>1. [call[p] EXCEPT !.pc = "verdict"] = [call[p] EXCEPT !.pc = "verdict", !.ok = call[p].ok]
      BY <1>1 DEF CallOK, Calls
    <3>2. call[p].ok \in BOOLEAN
      BY <1>1 DEF CallOK, Calls
    <3> QED BY <2>1, <3>1, <3>2 DEF To, Go
  <2>2. CASE \E ok \in BOOLEAN : Go(p, [call[p] EXCEPT !.pc = "verdict", !.ok = @ /\ ok])
    <3>1. PICK ok \in BOOLEAN : Go(p, [call[p] EXCEPT !.pc = "verdict", !.ok = @ /\ ok])
      BY <2>2
    <3>2. PICK yes \in BOOLEAN : yes <=> call[p].ok /\ ok
      OBVIOUS
    <3>3. [call[p] EXCEPT !.pc = "verdict", !.ok = @ /\ ok]
            = [call[p] EXCEPT !.pc = "verdict", !.ok = yes]
      BY <1>1, <3>2 DEF CallOK, Calls
    <3> QED BY <3>1, <3>2, <3>3 DEF Go
  <2>3. CASE Go(p, [call[p] EXCEPT !.pc = "verdict", !.ok = FALSE])
    BY <2>3 DEF Go
  <2> QED BY <2>1, <2>2, <2>3 DEF _stop_disable
<1>5. PICK ok \in BOOLEAN :
         /\ ok => call[p].ok
         /\ call' = [call EXCEPT ![p] = [call[p] EXCEPT !.pc = "verdict", !.ok = ok]]
  BY <1>4
<1>6. PICK d : d = [call[p] EXCEPT !.pc = "verdict", !.ok = ok]
  OBVIOUS
<1>7. CallOK(d) /\ d.pc = "verdict" /\ d.ok = ok
  BY <1>1, <1>6 DEF CallOK, Calls, PCs
<1>8. Serial => Held(d, journal, session)
  BY <1>1, <1>5, <1>7 DEF LifecycleInv, SerialInv, Held
<1>9. PidHeld(d, p, listening \ lost, pidfile)
  BY <1>7 DEF PidHeld
<1> QED BY <1>1, <1>2, <1>3, <1>5, <1>6, <1>7, <1>8, <1>9, NetMove

LEMMA StopVerdictKeeps ==
    ASSUME LifecycleInv, NEW p \in Procs, _stop_verdict(p)
    PROVE  LifecycleInv'
<1>1. CallOK(call[p]) /\ call[p].pc = "verdict" /\ Busy(call[p]) /\ UNCHANGED world
  BY DEF LifecycleInv, CallOK, _stop_verdict, At, Busy
<1>2. PICK running \in BOOLEAN :
        Go(p, [call[p] EXCEPT !.pc = "exit", !.ok = @ /\ ~running /\ network = "off"])
  BY DEF _stop_verdict, is_running
<1>3. PICK ok \in BOOLEAN : ok <=> call[p].ok /\ ~running /\ network = "off"
  OBVIOUS
<1>4. PICK d : d = [call[p] EXCEPT !.pc = "exit", !.ok = ok]
  OBVIOUS
<1>5. Go(p, d)
  <2>1. d = [call[p] EXCEPT !.pc = "exit", !.ok = @ /\ ~running /\ network = "off"]
    BY <1>1, <1>3, <1>4 DEF CallOK, Calls
  <2> QED BY <1>2, <2>1
<1>6. CallOK(d) /\ d.pc = "exit"
  BY <1>1, <1>4 DEF CallOK, Calls, PCs
<1>7. left' \in [Events -> Nat]
  BY LeftSame, LeftSpent DEF _stop_verdict, Overlooked, Events
<1> QED BY <1>1, <1>5, <1>6, <1>7, FreeMove

-----------------------------------------------------------------------------
(* A process ends.                                                               *)

(* What the others are doing when r is gone. *)
Without(c, r) == [c EXCEPT !.rec = IF @ \in {r} THEN Gone ELSE @, !.seen = @ \ {r}]

LEMMA WithoutOK ==
    ASSUME NEW c, CallOK(c), NEW r \in Procs, NEW d, d = Without(c, r)
    PROVE  /\ CallOK(d)
           /\ d.pc = c.pc /\ d.where = c.where /\ d.id = c.id /\ d.file = c.file
           /\ d.missed = c.missed /\ d.killed = c.killed /\ d.ok = c.ok
           /\ d.rec = IF c.rec = r THEN Gone ELSE c.rec
BY DEF Without, CallOK, Calls

(* r ends while the others are where next says, which is where they were but for *)
(* one that waits for nothing.                                                   *)
LEMMA Terminates ==
    ASSUME LifecycleInv, NEW r \in Procs, NEW next, \A q \in Procs : CallOK(next[q]),
           Terminate({r}, next), UNCHANGED <<journal, service, overlap>>,
           network' \in {"off", "on", "partial"},
           left' \in [Events -> Nat],
           \A q \in Procs : next[q] # call[q] => call[q].pc # "await",
           Serial => \A q, t \in Procs : Busy(next[q]) /\ Busy(next[t]) => q = t,
           Serial => \A q \in Procs : Held(next[q], journal, session),
           Serial =>
             /\ \A q \in (listening \ lost) \ {r} : q = pidfile \/ next[q].pc = "pid"
             /\ \A q \in Procs : q # r => PidHeld(next[q], q, (listening \ lost) \ {r}, pidfile)
    PROVE  LifecycleInv'
<1>1. \A q \in Procs : call'[q] = IF q = r THEN NoProcess ELSE Without(next[q], r)
  BY DEF Terminate, Without
<1>2. CallOK(NoProcess) /\ ~Busy(NoProcess) /\ NoProcess.pc = "none"
  BY DEF NoProcess, CallOK, Calls, PCs, Restores, Busy
<1>3. \A q \in Procs : CallOK(call'[q])
  BY <1>1, <1>2, WithoutOK
<1>4. call' \in [Procs -> Calls]
  <2>1. call' = [q \in Procs |-> call'[q]]
    BY DEF Terminate
  <2>2. \A q \in Procs : call'[q] \in Calls
    BY <1>3 DEF CallOK
  <2> QED BY <2>1, <2>2
<1>5. \A q \in Procs : q # r =>
         /\ call'[q].pc = next[q].pc /\ call'[q].where = next[q].where
         /\ call'[q].id = next[q].id /\ call'[q].file = next[q].file
         /\ call'[q].missed = next[q].missed
         /\ call'[q].killed = next[q].killed /\ call'[q].ok = next[q].ok
         /\ call'[q].rec = IF next[q].rec = r THEN Gone ELSE next[q].rec
  BY <1>1, WithoutOK
<1>6. /\ listening' = listening \ {r} /\ lost' = lost \ {r}
      /\ pidfile' = IF pidfile = r THEN Gone ELSE pidfile
      /\ session' = IF session # None /\ session.owner = r
                      THEN [session EXCEPT !.owner = Gone] ELSE session
      /\ pipe' = IF pipe # None /\ pipe.from = r THEN [pipe EXCEPT !.from = Gone] ELSE pipe
  BY DEF Terminate
<1>7. WorldTyped'
  BY <1>6 DEF LifecycleInv, WorldTyped
<1>8. PipeOK'
  <2>1. CASE pipe # None /\ pipe.from = r
    BY <1>6, <2>1 DEF PipeOK, LifecycleInv, WorldTyped
  <2>2. CASE pipe # None /\ pipe.from \in Procs \ {r}
    BY <1>5, <1>6, <2>2 DEF PipeOK, LifecycleInv
  <2>3. CASE pipe = None \/ pipe.from = Gone
    BY <1>6, <2>3 DEF PipeOK
  <2> QED BY <2>1, <2>2, <2>3 DEF LifecycleInv, WorldTyped
<1>9. ASSUME Serial'
      PROVE  SerialInv'
  <2>1. Serial /\ SerialInv
    BY <1>9 DEF Serial, LifecycleInv
  <2>2. \A q, t \in Procs : Busy(call'[q]) /\ Busy(call'[t]) => q = t
    <3>1. \A q \in Procs : Busy(call'[q]) => q # r /\ Busy(next[q])
      BY <1>1, <1>2, <1>5 DEF Busy
    <3> QED BY <2>1, <3>1
  <2>3. (session' # None => session # None /\ session'.id = session.id)
    BY <1>6 DEF LifecycleInv, WorldTyped
  <2>4. session = None => session' = None
    BY <1>6
  <2>5. \A q \in Procs : Held(call'[q], journal', session')
    <3> SUFFICES ASSUME NEW q \in Procs PROVE Held(call'[q], journal', session')
      OBVIOUS
    <3>1. CASE q = r
      BY <1>1, <1>2, <3>1, IdleHolds
    <3>2. CASE q # r
      BY <1>5, <2>1, <2>4, <3>2 DEF Held
    <3> QED BY <3>1, <3>2
  <2>6. PidsKnown'
    <3>1. listening' \ lost' = (listening \ lost) \ {r}
      BY <1>6
    <3>2. \A q \in listening' \ lost' : q = pidfile' \/ call'[q].pc = "pid"
      BY <1>5, <1>6, <2>1, <3>1 DEF LifecycleInv, WorldTyped
    <3>3. ASSUME NEW q \in Procs
          PROVE  PidHeld(call'[q], q, listening' \ lost', pidfile')
      <4>1. CASE q = r
        BY <1>1, <1>2, <4>1, IdleHolds
      <4>2. CASE q # r
        BY <1>5, <1>6, <2>1, <3>1, <4>2 DEF PidHeld
      <4> QED BY <4>1, <4>2
    <3> QED BY <3>2, <3>3 DEF PidsKnown
  <2> QED BY <2>1, <2>2, <2>3, <2>5, <2>6 DEF SerialInv
<1> QED BY <1>3, <1>4, <1>7, <1>8, <1>9 DEF LifecycleInv

(* One ends by itself, or is killed from outside: the others are where they were. *)
LEMMA Dies ==
    ASSUME LifecycleInv, NEW p \in Procs, Terminate({p}, call),
           UNCHANGED <<journal, service, overlap>>, network' \in {"off", "on", "partial"},
           left' \in [Events -> Nat]
    PROVE  LifecycleInv'
<1>1. PICK next : next = call
  OBVIOUS
<1>2. Terminate({p}, next)
  BY <1>1
<1>3. \A q \in Procs : CallOK(next[q]) /\ next[q] = call[q]
  BY <1>1 DEF LifecycleInv
<1>4. Serial => /\ \A q, t \in Procs : Busy(next[q]) /\ Busy(next[t]) => q = t
                /\ \A q \in Procs : Held(next[q], journal, session)
  BY <1>1 DEF LifecycleInv, SerialInv
<1>5. ASSUME Serial
      PROVE  /\ \A q \in (listening \ lost) \ {p} : q = pidfile \/ next[q].pc = "pid"
             /\ \A q \in Procs : PidHeld(next[q], q, (listening \ lost) \ {p}, pidfile)
  <2>1. PidsKnown
    BY <1>5 DEF LifecycleInv, SerialInv
  <2>2. \A q \in Procs : PidHeld(call[q], q, (listening \ lost) \ {p}, pidfile)
    BY <2>1 DEF PidsKnown, PidHeld
  <2> QED BY <1>1, <2>1, <2>2 DEF PidsKnown
<1> QED BY <1>2, <1>3, <1>4, <1>5, Terminates

LEMMA ExitKeeps ==
    ASSUME LifecycleInv, NEW p \in Procs, Exit(p)
    PROVE  LifecycleInv'
<1>1. network' \in {"off", "on", "partial"}
  BY DEF Exit, LifecycleInv, WorldTyped
<1> QED BY <1>1, LeftSame, Dies DEF Exit

LEMMA KillKeeps ==
    ASSUME LifecycleInv, NEW p \in Procs, Kill(p)
    PROVE  LifecycleInv'
<1>1. network' \in {"off", "on", "partial"}
  BY DEF Kill, LifecycleInv, WorldTyped
<1>2. left' \in [Events -> Nat]
  BY LeftSpent DEF Kill, Events
<1> QED BY <1>1, <1>2, Dies DEF Kill

(* The worker the record names is killed: no other listens that is not lost.     *)
LEMMA KillPidKeeps ==
    ASSUME LifecycleInv, NEW p \in Procs, _kill_pid(p)
    PROVE  LifecycleInv'
<1>1. /\ CallOK(call[p]) /\ call[p].pc = "kill" /\ Busy(call[p]) /\ call \in [Procs -> Calls]
      /\ UNCHANGED <<journal, service, network, overlap>>
  BY DEF LifecycleInv, CallOK, _kill_pid, At, Busy
<1>2. \A killed \in BOOLEAN :
        [call EXCEPT ![p].pc = "still", ![p].killed = killed, ![p].rec = None]
          = [call EXCEPT ![p] = [call[p] EXCEPT !.pc = "still", !.killed = killed, !.rec = None]]
  BY <1>1
<1>3. network' \in {"off", "on", "partial"}
  BY <1>1 DEF LifecycleInv, WorldTyped
<1>4. CASE /\ call[p].rec \in Procs \ {p}
           /\ Terminate({call[p].rec}, [call EXCEPT ![p].pc = "still", ![p].killed = TRUE,
                                                     ![p].rec = None])
           /\ UNCHANGED left
  <2>1. PICK r \in Procs \ {p} : r = call[p].rec
    BY <1>4
  <2>2. PICK d : d = [call[p] EXCEPT !.pc = "still", !.killed = TRUE, !.rec = None]
    OBVIOUS
  <2>3. CallOK(d) /\ d.pc = "still"
    BY <1>1, <2>2 DEF CallOK, Calls, PCs
  <2>4. PICK next : next = [call EXCEPT ![p] = d]
    OBVIOUS
  <2>5. Terminate({r}, next)
    BY <1>2, <1>4, <2>1, <2>2, <2>4
  <2>6. \A q \in Procs : next[q] = IF q = p THEN d ELSE call[q]
    BY <1>1, <2>4
  <2>7. \A q \in Procs : CallOK(next[q]) /\ (next[q] # call[q] => call[q].pc # "await")
    BY <1>1, <2>3, <2>6 DEF LifecycleInv
  <2>8. Held(d, journal, session)
    BY <2>3 DEF Held
  <2>9. Serial => /\ \A q, t \in Procs : Busy(next[q]) /\ Busy(next[t]) => q = t
                  /\ \A q \in Procs : Held(next[q], journal, session)
    BY <1>1, <2>6, <2>8 DEF LifecycleInv, SerialInv
  <2>10. ASSUME Serial
         PROVE  /\ \A q \in (listening \ lost) \ {r} : q = pidfile \/ next[q].pc = "pid"
                /\ \A q \in Procs : q # r => PidHeld(next[q], q, (listening \ lost) \ {r}, pidfile)
    <3>1. PidsKnown /\ \A q \in listening \ lost : q = pidfile
      BY <1>1, <2>10, RecordKnown DEF LifecycleInv, SerialInv
    <3>2. pidfile = r
      BY <1>1, <2>1, <3>1 DEF PidsKnown, PidHeld
    <3>3. (listening \ lost) \ {r} = {}
      BY <3>1, <3>2
    <3>4. PidHeld(d, p, (listening \ lost) \ {r}, pidfile)
      BY <2>3, <3>3 DEF PidHeld
    <3>5. \A q \in Procs : q # p => ~Busy(call[q])
      BY <1>1, <2>10 DEF LifecycleInv, SerialInv
    <3>6. \A q \in Procs : PidHeld(next[q], q, (listening \ lost) \ {r}, pidfile)
      BY <2>6, <3>4, <3>5, IdleHolds
    <3> QED BY <3>3, <3>6
  <2>11. left' \in [Events -> Nat]
    BY <1>4, LeftSame
  <2> QED BY <1>1, <1>3, <2>5, <2>7, <2>9, <2>10, <2>11, Terminates
<1>5. CASE /\ call' = [call EXCEPT ![p].pc = "still", ![p].killed = FALSE, ![p].rec = None]
           /\ UNCHANGED <<listening, lost, pidfile, session, pipe>>
           /\ UNCHANGED left \/ Spend("kill")
  <2>1. PICK d : d = [call[p] EXCEPT !.pc = "still", !.killed = FALSE, !.rec = None]
    OBVIOUS
  <2>2. CallOK(d) /\ d.pc = "still" /\ ~d.killed
    BY <1>1, <2>1 DEF CallOK, Calls, PCs
  <2>3. call' = [call EXCEPT ![p] = d]
    BY <1>2, <1>5, <2>1
  <2>4. Held(d, journal, session) /\ PidHeld(d, p, listening \ lost, pidfile)
    BY <2>2 DEF Held, PidHeld
  <2>5. left' \in [Events -> Nat]
    BY <1>5, LeftSame, LeftSpent DEF Events
  <2> QED BY <1>1, <1>5, <2>2, <2>3, <2>4, <2>5, LocalMove DEF world
<1> QED BY <1>4, <1>5 DEF _kill_pid

-----------------------------------------------------------------------------
(* The service                                                                   *)

(* Nobody goes on, and neither journal nor record changes: the session ended or  *)
(* stays, and a request in the pipe stays or was from a process that is no more. *)
LEMMA NobodyMoves ==
    ASSUME LifecycleInv, UNCHANGED <<call, listening, lost, pidfile, journal, network, overlap>>,
           session' \in {session, None}, pipe' \in {pipe, None}, service' \in BOOLEAN,
           left' \in [Events -> Nat]
    PROVE  LifecycleInv'
<1>1. WorldTyped'
  BY DEF LifecycleInv, WorldTyped
<1>2. PipeOK'
  BY DEF LifecycleInv, PipeOK
<1>3. ASSUME Serial'
      PROVE  SerialInv'
  <2>1. Serial /\ SerialInv
    BY <1>3 DEF Serial, LifecycleInv
  <2>2. \A q \in Procs : Held(call'[q], journal', session')
    BY <2>1 DEF SerialInv, Held
  <2>3. PidsKnown'
    BY <2>1 DEF SerialInv, PidsKnown
  <2> QED BY <2>1, <2>2, <2>3 DEF SerialInv
<1> QED BY <1>1, <1>2, <1>3 DEF LifecycleInv

(* The one that asked gets its answer: the session made is the one its journal   *)
(* names, and a restore is reported as verified only without a session.          *)
LEMMA Answered ==
    ASSUME LifecycleInv, NEW f \in Procs, pipe # None, pipe.from = f, NEW ok \in BOOLEAN,
           call' = [call EXCEPT ![f].pc = "reply", ![f].ok = ok], pipe' = None,
           UNCHANGED <<listening, lost, pidfile, journal, network, overlap>>, service' \in BOOLEAN,
           \/ session' \in {session, None}
           \/ pipe.cmd = "apply" /\ session' = [id |-> pipe.id, owner |-> f],
           pipe.cmd = "restore" /\ ok => session' = None,
           left' \in [Events -> Nat]
    PROVE  LifecycleInv'
<1>1. /\ CallOK(call[f]) /\ call[f].pc = "await" /\ Busy(call[f]) /\ call[f].id = pipe.id
      /\ pipe.cmd = "apply" <=> call[f].where = "activate"
      /\ pipe.cmd \in {"apply", "restore"} /\ pipe.id \in Ids
  BY DEF LifecycleInv, PipeOK, WorldTyped, Busy
<1>2. PICK d : d = [call[f] EXCEPT !.pc = "reply", !.ok = ok]
  OBVIOUS
<1>3. call' = [call EXCEPT ![f] = d]
  BY <1>2 DEF LifecycleInv
<1>4. CallOK(d) /\ d.pc = "reply" /\ d.ok = ok /\ d.where = call[f].where
  <2>1. d \in Calls /\ d.pc = "reply" /\ d.ok = ok /\ d.where = call[f].where
    <3>1. call[f] \in Calls
      BY <1>1 DEF CallOK
    <3>2. "reply" \in PCs
      BY DEF PCs
    <3>3. d \in Calls
      BY <3>1, <3>2, <1>2 DEF Calls
    <3> QED BY <3>1, <3>3, <1>2 DEF Calls
  <2>2. call[f].where \in Restores \cup {"activate"}
    BY <1>1 DEF CallOK
  <2> QED BY <2>1, <2>2 DEF CallOK
<1>5. WorldTyped'
  BY <1>1 DEF LifecycleInv, WorldTyped
<1>6. PipeOK'
  BY DEF PipeOK
<1>7. Serial => (session' # None => journal' # None /\ journal'.id = session'.id)
  BY <1>1 DEF LifecycleInv, SerialInv, Held
<1>8. Held(d, journal', session')
  BY <1>1, <1>4 DEF Held
<1>9. PidHeld(d, f, listening' \ lost', pidfile')
  BY <1>4 DEF PidHeld
<1>10. Serial => \A q \in listening \ lost : q = pidfile
  BY <1>1, RecordKnown DEF LifecycleInv, WorldTyped, Events
<1> QED BY <1>1, <1>3, <1>4, <1>5, <1>6, <1>7, <1>8, <1>9, <1>10, OneMoves

(* Somebody gets an answer, or nobody is there to get it. *)
LEMMA AnswerKeeps ==
    ASSUME LifecycleInv, pipe # None, NEW ok \in BOOLEAN,
           call' = IF pipe.from = Gone THEN call
                   ELSE [call EXCEPT ![pipe.from].pc = "reply", ![pipe.from].ok = ok],
           pipe' = None, service' \in BOOLEAN,
           UNCHANGED <<listening, lost, pidfile, journal, network, overlap>>,
           \/ session' \in {session, None}
           \/ /\ pipe.cmd = "apply" /\ pipe.from # Gone
              /\ session' = [id |-> pipe.id, owner |-> pipe.from],
           pipe.cmd = "restore" /\ ok => session' = None,
           left' \in [Events -> Nat]
    PROVE  LifecycleInv'
<1>1. pipe.from \in Procs \cup {Gone}
  BY DEF LifecycleInv, WorldTyped
<1>2. CASE pipe.from = Gone
  BY <1>2, NobodyMoves
<1>3. CASE pipe.from \in Procs
  <2>1. PICK f \in Procs : f = pipe.from
    BY <1>3
  <2>2. call' = [call EXCEPT ![f].pc = "reply", ![f].ok = ok]
    BY <2>1
  <2> QED BY <2>1, <2>2, Answered
<1> QED BY <1>1, <1>2, <1>3

LEMMA ApplyKeeps ==
    ASSUME LifecycleInv, Apply
    PROVE  LifecycleInv'
<1>1. pipe # None /\ pipe.cmd = "apply" /\ pipe' = None
  BY DEF Apply, Answer
<1>2. UNCHANGED <<listening, lost, pidfile, journal, network, overlap>> /\ service' \in BOOLEAN
  BY DEF Apply, LifecycleInv, WorldTyped
<1>3. left' \in [Events -> Nat]
  BY LeftSame, LeftSpent DEF Apply, Events
<1>4. \E ok \in BOOLEAN :
        call' = IF pipe.from = Gone THEN call
                ELSE [call EXCEPT ![pipe.from].pc = "reply", ![pipe.from].ok = ok]
  BY DEF Apply, Answer
<1>5. \/ session' \in {session, None}
      \/ /\ pipe.cmd = "apply" /\ pipe.from # Gone
         /\ session' = [id |-> pipe.id, owner |-> pipe.from]
  BY DEF Apply
<1> QED BY <1>1, <1>2, <1>3, <1>4, <1>5, AnswerKeeps

LEMMA RestoreForCallerKeeps ==
    ASSUME LifecycleInv, RestoreForCaller
    PROVE  LifecycleInv'
<1>1. pipe # None /\ pipe.cmd = "restore" /\ pipe' = None
  BY DEF RestoreForCaller, Answer
<1>2. UNCHANGED <<listening, lost, pidfile, journal, network, overlap>> /\ service' \in BOOLEAN
  BY DEF RestoreForCaller, LifecycleInv, WorldTyped
<1>3. left' \in [Events -> Nat]
  BY LeftSame, LeftSpent DEF RestoreForCaller, Events
<1>4. \E ok \in BOOLEAN :
        /\ call' = IF pipe.from = Gone THEN call
                   ELSE [call EXCEPT ![pipe.from].pc = "reply", ![pipe.from].ok = ok]
        /\ ok => session' = None
  BY DEF RestoreForCaller, Answer
<1>5. session' \in {session, None}
  BY DEF RestoreForCaller
<1> QED BY <1>1, <1>2, <1>3, <1>4, <1>5, AnswerKeeps

LEMMA ServiceStopKeeps ==
    ASSUME LifecycleInv, ServiceStop
    PROVE  LifecycleInv'
<1>1. /\ service' \in BOOLEAN /\ session' = None /\ pipe' = None
      /\ UNCHANGED <<listening, lost, pidfile, journal, network, overlap>>
  BY DEF ServiceStop
<1>2. left' \in [Events -> Nat]
  BY LeftSpent DEF ServiceStop, Events
<1>3. CASE pipe = None
  <2>1. UNCHANGED call
    BY <1>3 DEF ServiceStop
  <2> QED BY <1>1, <1>2, <2>1, NobodyMoves
<1>4. CASE pipe # None
  <2>1. PICK ok \in BOOLEAN : ok = FALSE
    OBVIOUS
  <2>2. call' = IF pipe.from = Gone THEN call
                ELSE [call EXCEPT ![pipe.from].pc = "reply", ![pipe.from].ok = ok]
    BY <1>4, <2>1 DEF ServiceStop
  <2> QED BY <1>1, <1>2, <1>4, <2>2, AnswerKeeps
<1> QED BY <1>3, <1>4

LEMMA ProxyExitedKeeps ==
    ASSUME LifecycleInv, ProxyExited
    PROVE  LifecycleInv'
<1>1. service' \in BOOLEAN
  BY DEF ProxyExited, LifecycleInv, WorldTyped
<1> QED BY <1>1, LeftSame, NobodyMoves DEF ProxyExited

LEMMA ServiceMainKeeps ==
    ASSUME LifecycleInv, ServiceMain
    PROVE  LifecycleInv'
BY LeftSame, NobodyMoves DEF ServiceMain

-----------------------------------------------------------------------------
(* The theorems.                                                                 *)

LEMMA LifecycleStarts ==
    ASSUME Init
    PROVE  LifecycleInv
<1>1. CallOK(NoProcess) /\ ~Busy(NoProcess)
  BY DEF NoProcess, CallOK, Calls, PCs, Restores, Busy
<1>2. \A p \in Procs : call[p] = NoProcess
  BY DEF Init
<1>3. call \in [Procs -> Calls]
  BY <1>1 DEF Init, CallOK
<1>4. PICK s \in Scenarios : overlap = s.overlap /\ left = s.budget
  BY DEF Init
<1>5. overlap \in Nat /\ left \in [Events -> Nat]
  BY <1>4
<1>6. WorldTyped
  BY <1>5 DEF Init, WorldTyped
<1>7. PipeOK
  BY DEF Init, PipeOK
<1>8. ASSUME Serial
      PROVE  SerialInv
  <2>1. \A p \in Procs : Held(call[p], journal, session)
    BY <1>1, <1>2, IdleHolds
  <2>2. PidsKnown
    <3>1. \A p \in Procs : PidHeld(call[p], p, listening \ lost, pidfile)
      BY <1>1, <1>2, IdleHolds
    <3> QED BY <3>1 DEF PidsKnown, Init
  <2> QED BY <1>1, <1>2, <2>1, <2>2 DEF SerialInv, Init
<1> QED BY <1>1, <1>2, <1>3, <1>6, <1>7, <1>8 DEF LifecycleInv

LEMMA LifecycleStutters ==
    ASSUME LifecycleInv, UNCHANGED vars
    PROVE  LifecycleInv'
<1>1. service' \in BOOLEAN
  BY DEF vars, LifecycleInv, WorldTyped
<1> QED BY <1>1, LeftSame, NobodyMoves DEF vars

LEMMA LifecycleStep ==
    ASSUME LifecycleInv, [Next]_vars
    PROVE  LifecycleInv'
<1>1. ASSUME NEW p \in Procs, Step(p)
      PROVE  LifecycleInv'
  BY <1>1, LoadKeeps, RestoreLoadKeeps, RestoreMarkKeeps, RestoreSendKeeps, RestoreClearKeeps, StartCheckKeeps,
     StartBindKeeps, WritePidKeeps, PrepareKeeps, ActivateSendKeeps, ActivateLoadKeeps,
     ActivateMarkKeeps, ActivateAbortKeeps, ActivateAbortSaveKeeps, StartEnableKeeps,
     StartCloseKeeps, StartUnpidKeeps, StopRecordKeeps, KillPidKeeps, StopStillKeeps,
     StopDropKeeps, StopDisableKeeps, StopVerdictKeeps, ExitKeeps DEF Step
<1>2. ASSUME NEW p \in Procs,
             \/ Kill(p) \/ _run_proxy_loop(p) \/ _cmd_stop(p)
             \/ \E exclusions \in BOOLEAN : _cmd_start(p, exclusions)
      PROVE  LifecycleInv'
  BY <1>2, KillKeeps, RunProxyLoopKeeps, CmdStopKeeps, CmdStartKeeps
<1>3. CASE Serve \/ ServiceStop \/ ServiceMain
  BY <1>3, ApplyKeeps, RestoreForCallerKeeps, ProxyExitedKeeps, ServiceStopKeeps,
     ServiceMainKeeps DEF Serve
<1>4. CASE UNCHANGED vars
  BY <1>4, LifecycleStutters
<1> QED BY <1>1, <1>2, <1>3, <1>4 DEF Next

THEOREM LifecycleInvariant == Spec => []LifecycleInv
<1>1. Init => LifecycleInv
  BY LifecycleStarts
<1>2. LifecycleInv /\ [Next]_vars => LifecycleInv'
  BY LifecycleStep
<1> QED BY <1>1, <1>2, PTL DEF Spec

(* routing_ownership.py: while commands do not overlap, a session the service    *)
(* holds is the one the journal on disk names, whoever is killed, whatever write *)
(* fails and whenever the service stops.                                         *)
THEOREM SessionsJournaled == Spec => []SessionIsJournaled
<1>1. LifecycleInv => SessionIsJournaled
  BY DEF LifecycleInv, SerialInv, SessionIsJournaled
<1> QED BY <1>1, LifecycleInvariant, PTL

(* Only its verdict brings a process from there to its exit. *)
LEMMA VerdictGiven ==
    ASSUME LifecycleInv, [Next]_vars, Serial, NEW p \in Procs, At(p, "verdict"),
           call'[p].pc = "exit"
    PROVE  _stop_verdict(p)

<1>1. /\ call[p].pc = "verdict" /\ Busy(call[p]) /\ CallOK(call[p]) /\ call \in [Procs -> Calls]
      /\ \A q \in Procs : Busy(call[q]) => q = p
  BY DEF LifecycleInv, SerialInv, At, Busy
<1>2. ASSUME NEW q \in Procs, Step(q)
      PROVE  _stop_verdict(p)
  <2>1. call[q].pc \notin {"none", "loop"}
    BY <1>2 DEF Step, restore, _restore_load, _restore_mark, _restore_send, _restore_clear, _start_check,
       _start_bind, _write_pid, prepare, _activate_send, _activate_load, _activate_mark,
       _activate_abort, _activate_abort_save, _start_enable, _start_close, _start_unpid,
       _stop_record, _kill_pid, _stop_still, _stop_drop, _stop_disable, _stop_verdict, Exit, At
  <2>2. q = p
    BY <1>1, <2>1 DEF Busy
  <2> QED
    BY <1>1, <1>2, <2>2 DEF Step, restore, _restore_load, _restore_mark, _restore_send, _restore_clear,
       _start_check, _start_bind, _write_pid, prepare, _activate_send, _activate_load,
       _activate_mark, _activate_abort, _activate_abort_save, _start_enable, _start_close,
       _start_unpid, _stop_record, _kill_pid, _stop_still, _stop_drop, _stop_disable, Exit, At
<1>3. ASSUME NEW q \in Procs, Kill(q)
      PROVE  FALSE
  <2>1. call'[p] = IF p = q THEN NoProcess ELSE Without(call[p], q)
    BY <1>3 DEF Kill, Terminate, Without
  <2> QED BY <1>1, <2>1, WithoutOK DEF NoProcess
<1>4. ~Quiet
  BY <1>1, QuietMeansIdle
<1>5. ASSUME Answer(TRUE) \/ Answer(FALSE) \/ ServiceStop
      PROVE  FALSE
  <2>1. \/ call' = call
        \/ \E ok \in BOOLEAN : call' = [call EXCEPT ![pipe.from].pc = "reply",
                                                    ![pipe.from].ok = ok]
    BY <1>5 DEF Answer, ServiceStop
  <2>2. CASE call' = call
    BY <1>1, <2>2
  <2>3. ASSUME NEW ok \in BOOLEAN, NEW f,
               call' = [call EXCEPT ![f].pc = "reply", ![f].ok = ok]
        PROVE  FALSE
    <3>1. CASE f = p
      BY <1>1, <2>3, <3>1
    <3>2. CASE f # p
      BY <1>1, <2>3, <3>2
    <3> QED BY <3>1, <3>2
  <2> QED BY <2>1, <2>2, <2>3
<1>6. CASE Serve \/ ServiceStop \/ ServiceMain
  BY <1>1, <1>5, <1>6 DEF Serve, Apply, RestoreForCaller, ProxyExited, ServiceMain
<1>7. CASE UNCHANGED vars
  BY <1>1, <1>7 DEF vars
<1>8. ASSUME NEW q \in Procs,
             \/ _run_proxy_loop(q) \/ _cmd_stop(q)
             \/ \E exclusions \in BOOLEAN : _cmd_start(q, exclusions)
      PROVE  FALSE
  BY <1>4, <1>8 DEF _run_proxy_loop, _cmd_stop, _cmd_start, Begins
<1> QED BY <1>2, <1>3, <1>6, <1>7, <1>8 DEF Next

LEMMA VerdictTruthful ==
    ASSUME LifecycleInv, [Next]_vars, Serial, NEW p \in Procs, At(p, "verdict"),
           call'[p].pc = "exit", call'[p].ok
    PROVE  /\ call[p].seen \cap listening \subseteq lost \/ left'["probe"] < left["probe"]
           /\ network = "off" /\ journal = None /\ session = None
<1>1. _stop_verdict(p)
  BY VerdictGiven
<1>2. CallOK(call[p]) /\ call[p].pc = "verdict" /\ Busy(call[p]) /\ call \in [Procs -> Calls]
  BY DEF LifecycleInv, At, Busy
<1>3. call[p].ok /\ network = "off" /\ (~is_running \/ Spend("probe"))
  <2>1. PICK running \in BOOLEAN :
          /\ Go(p, [call[p] EXCEPT !.pc = "exit", !.ok = @ /\ ~running /\ network = "off"])
          /\ (running <=> is_running) \/ Spend("probe")
    BY <1>1 DEF _stop_verdict, is_running, Overlooked
  <2>2. call[p].ok /\ ~running /\ network = "off"
    BY <1>2, <2>1 DEF Go, CallOK, Calls
  <2> QED BY <2>1, <2>2
<1>4. journal = None /\ session = None
  BY <1>2, <1>3 DEF LifecycleInv, SerialInv, Held
<1>5. CASE ~is_running
  <2>1. listening \ lost = {}
    BY <1>2, <1>5, RecordKnown DEF is_running, LifecycleInv, WorldTyped
  <2> QED BY <1>3, <1>4, <2>1
<1>6. CASE Spend("probe")
  <2>1. left'["probe"] < left["probe"]
    BY <1>6 DEF Spend, LifecycleInv, WorldTyped, Events
  <2> QED BY <1>3, <1>4, <2>1
<1> QED BY <1>3, <1>5, <1>6

(* application_runtime.py: exit code 0 of --stop or --rollback means that the    *)
(* system proxy is off, that the routing session and its journal are gone, and   *)
(* that no worker which ran when the command began serves any longer, but for    *)
(* one whose PID record the launcher lost or one the last look did not see.      *)
THEOREM StopsTruthfully == Spec => StopIsTruthful
<1>1. LifecycleInv /\ [Next]_vars =>
        [\A p \in Procs :
           Serial /\ At(p, "verdict") /\ call'[p].pc = "exit" /\ call'[p].ok
             => /\ call[p].seen \cap listening \subseteq lost \/ left'["probe"] < left["probe"]
                /\ network = "off"
                /\ journal = None /\ session = None]_vars
  BY VerdictTruthful
<1> QED BY <1>1, LifecycleInvariant, PTL DEF Spec, StopIsTruthful
=============================================================================
