--------------------------- MODULE WorkerLifecycle ---------------------------
(* The commands --start, --stop and --rollback of application_runtime.py on      *)
(* Windows, the PID record of process_supervision.py, the ownership journal of   *)
(* routing_ownership.py with windows_windivert_controller.py, and the WinDivert  *)
(* routing service of native/windows_windivert behind its named pipe.            *)
(*                                                                               *)
(* One step is one file read or replaced, one request put into the pipe or       *)
(* answered, one process killed, or one call of the system proxy backend, whose  *)
(* own steps are those of WindowsSystemProxy.  --rollback does what --stop does. *)
(* The refusals that come before any effect (no upstream configured, exclusions  *)
(* that cannot be loaded, the preflight of --stop) are commands not begun.       *)
EXTENDS Naturals, FiniteSets

CONSTANTS
    Procs,      \* launcher processes that can exist at a time
    Ids,        \* routing session ids (uuid4)
    None,       \* no file, no session, no request
    Gone,       \* a process that is no more, known by its PID and creation time
    Scenarios   \* how many commands may overlap, and how often each event may happen

Events ==
    {"start", "file", "pid", "probe", "net", "service", "driver", "kill", "interrupt"}

ASSUME LifecycleAssumption ==
    /\ IsFiniteSet(Procs)
    /\ None \notin Procs \cup Ids /\ Gone \notin Procs /\ None # Gone
    /\ None \notin [id : Ids, phase : {"prepared", "applied", "restoring"}]
    /\ Scenarios \subseteq [overlap : Nat \ {0}, budget : [Events -> Nat]]

VARIABLES
    call,       \* what each process is doing; NoProcess if it does not exist
    listening,  \* processes with the local ports open
    lost,       \* history: workers whose PID record was not written, or was replaced or
                \* removed because is_running did not see them
    pidfile,    \* the process named by the PID record
    journal,    \* windows_windivert_routing_ownership.json
    session,    \* the service's RoutingSession: its id and proxy_process_
    pipe,       \* the request in the pipe's one instance
    service,    \* whether the service runs
    network,    \* system proxy: "off", "on", "partial" (a backup is left)
    overlap,    \* how many commands run at the same time
    left        \* what is left of the scenario's budget

vars == <<call, listening, lost, pidfile, journal, session, pipe, service, network, overlap,
          left>>

(* where: what the restore under way is part of; file: the journal as loaded;    *)
(* rec: the PID record read; seen: the workers running when --stop began;        *)
(* missed: --start did not see the worker that runs.                             *)
NoProcess ==
    [pc |-> "none", op |-> "none", exclusions |-> FALSE, where |-> "previous", id |-> None,
     file |-> None, rec |-> None, seen |-> {}, missed |-> FALSE, killed |-> FALSE,
     ok |-> TRUE]

At(p, pc) == call[p].pc = pc
Go(p, c) == call' = [call EXCEPT ![p] = c]
To(p, pc) == Go(p, [call[p] EXCEPT !.pc = pc])
Spend(k) == left[k] > 0 /\ left' = [left EXCEPT ![k] = @ - 1]
world == <<listening, lost, pidfile, journal, session, pipe, service, network, overlap>>

(* core.is_running: a PAC listener answers, and the record names a live process. *)
is_running == listening # {} /\ pidfile \in Procs
(* It answers FALSE for a worker that runs if _pac_healthy fails or takes a       *)
(* second, if the port in the settings is not the worker's any more, or if the   *)
(* creation time or the path of the process cannot be read.                      *)
Overlooked == is_running /\ Spend("probe")

(* The processes of P end while the others go on as in next. *)
Terminate(P, next) ==
    /\ call' = [q \in Procs |->
                  IF q \in P THEN NoProcess
                  ELSE [next[q] EXCEPT !.rec = IF @ \in P THEN Gone ELSE @,
                                       !.seen = @ \ P]]
    /\ listening' = listening \ P /\ lost' = lost \ P
    /\ pidfile' = IF pidfile \in P THEN Gone ELSE pidfile
    /\ session' = IF session # None /\ session.owner \in P
                    THEN [session EXCEPT !.owner = Gone] ELSE session
    /\ pipe' = IF pipe # None /\ pipe.from \in P THEN [pipe EXCEPT !.from = Gone] ELSE pipe

Init ==
    /\ call = [p \in Procs |-> NoProcess]
    /\ listening = {} /\ lost = {}
    /\ pidfile = None
    /\ journal = None
    /\ session = None
    /\ pipe = None
    /\ service = TRUE
    /\ network = "off"
    /\ \E s \in Scenarios : overlap = s.overlap /\ left = s.budget

-----------------------------------------------------------------------------
(* WindowsWinDivertController.restore, as part of --start, of its rollback, of   *)
(* the end of the worker's loop, or of --stop.                                   *)

(* Where the process goes on: --start refuses to go on without it, its rollback  *)
(* and the end of the loop only take notice (the exit code of --start is left    *)
(* out), --stop remembers it for its answer.                                     *)
AfterRestore(c0, ok) ==
    LET c == [c0 EXCEPT !.id = None, !.file = None, !.ok = TRUE]
    IN  CASE c.where = "previous" -> [c EXCEPT !.pc = IF ok THEN "check" ELSE "exit"]
          [] c.where \in {"rollback", "finally"} -> [c EXCEPT !.pc = "close"]
          [] c.where = "stop" -> [c EXCEPT !.pc = "disable", !.ok = ok]

(* _restore_windows_application_routing returns True without a journal; a        *)
(* controller that is asked to restore fails without one.                        *)
restore(p) ==
    LET c == call[p]
    IN  /\ At(p, "load")
        /\ Go(p, IF journal = None THEN AfterRestore(c, c.where \in {"previous", "stop"})
                 ELSE [c EXCEPT !.id = journal.id,
                         !.pc = IF journal.phase = "restoring" THEN "send" ELSE "begin"])
        /\ UNCHANGED <<world, left>>

(* RoutingOwnershipStore.transition, first half: it loads the journal again, and *)
(* the session that is restored is the one it finds.                             *)
_restore_load(p) ==
    LET c == call[p]
    IN  /\ At(p, "begin")
        /\ \/ /\ journal # None /\ journal.phase # "restoring"
              /\ Go(p, [c EXCEPT !.file = journal, !.id = journal.id, !.pc = "restoring"])
           \/ /\ ~(journal # None /\ journal.phase # "restoring")
              /\ Go(p, AfterRestore(c, FALSE))
        /\ UNCHANGED <<world, left>>

(* Second half: the journal that was loaded is written back with another phase.  *)
transition(p, phase, ok, failed) ==
    \/ /\ journal' = [call[p].file EXCEPT !.phase = phase]
       /\ Go(p, ok)
       /\ UNCHANGED <<listening, lost, pidfile, session, pipe, service, network, overlap, left>>
    \/ Spend("file") /\ Go(p, failed) /\ UNCHANGED world

_restore_mark(p) ==
    /\ At(p, "restoring")
    /\ transition(p, "restoring", [call[p] EXCEPT !.pc = "send"], AfterRestore(call[p], FALSE))

(* NamedPipeWindowsWinDivertClient.request: the pipe has one instance, and a     *)
(* busy or missing one fails at once.                                            *)
request(p, cmd, failed) ==
    \/ /\ service /\ pipe = None
       /\ pipe' = [from |-> p, cmd |-> cmd, id |-> call[p].id]
       /\ To(p, "await")
       /\ UNCHANGED <<listening, lost, pidfile, journal, session, service, network, overlap, left>>
    \/ /\ ~service \/ pipe # None
       /\ Go(p, failed)
       /\ UNCHANGED <<world, left>>

_restore_send(p) ==
    At(p, "send") /\ request(p, "restore", AfterRestore(call[p], FALSE))

(* clear_after_verified_restore loads the journal again and removes it, whatever *)
(* session it names.                                                             *)
_restore_clear(p) ==
    LET c == call[p]
    IN  /\ At(p, "reply") /\ c.where # "activate"
        /\ \/ /\ c.ok /\ journal # None /\ journal.phase = "restoring"
              /\ journal' = None
              /\ Go(p, AfterRestore(c, TRUE))
              /\ UNCHANGED <<listening, lost, pidfile, session, pipe, service, network, overlap, left>>
           \/ /\ ~(c.ok /\ journal # None /\ journal.phase = "restoring")
              /\ Go(p, AfterRestore(c, FALSE))
              /\ UNCHANGED <<world, left>>
           \/ Spend("file") /\ Go(p, AfterRestore(c, FALSE)) /\ UNCHANGED world

-----------------------------------------------------------------------------
(* _cmd_start                                                                    *)

(* A command begins, and a worker's loop ends, only while fewer than overlap      *)
(* other processes are doing anything but wait in their loop.                    *)
Quiet == Cardinality({q \in Procs : call[q].pc \notin {"none", "loop"}}) < overlap
Serial == overlap = 1

(* A new process for a command; which of the free names it gets is of no matter. *)
Begins(p) ==
    /\ Quiet
    /\ At(p, "none")
    /\ p = CHOOSE q \in Procs : At(q, "none")

_cmd_start(p, exclusions) ==
    /\ Begins(p)
    /\ Spend("start")
    /\ Go(p, [NoProcess EXCEPT !.pc = "load", !.op = "start", !.exclusions = exclusions])
    /\ UNCHANGED world

(* Exclusions are refused unless the service runs.  Already running: only the    *)
(* system proxy is enabled.                                                      *)
_start_check(p) ==
    LET c == call[p]
    IN  /\ At(p, "check")
        /\ \/ /\ Go(p, IF c.exclusions /\ ~service THEN [c EXCEPT !.pc = "exit"]
                       ELSE IF is_running THEN [c EXCEPT !.pc = "enable", !.where = "already"]
                       ELSE [c EXCEPT !.pc = "bind", !.where = "activate"])
              /\ UNCHANGED left
           \/ /\ c.exclusions => service
              /\ Overlooked
              /\ Go(p, [c EXCEPT !.pc = "bind", !.where = "activate", !.missed = TRUE])
        /\ UNCHANGED world

(* ProxyCore.start: all the ports or none.  The sockets are opened with          *)
(* SO_REUSEADDR, with which Windows lets a second launcher bind the same ports.  *)
_start_bind(p) ==
    /\ At(p, "bind")
    /\ \/ listening' = listening \cup {p} /\ To(p, "pid")
       \/ UNCHANGED listening /\ To(p, "exit")
    /\ UNCHANGED <<lost, pidfile, journal, session, pipe, service, network, overlap, left>>

(* _write_pid, whose result is not looked at: it replaces the record, fails, or   *)
(* writes one without a creation time, which names no process for certain.       *)
_write_pid(p) ==
    LET others == IF call[p].missed THEN listening \ {p} ELSE {}
    IN  /\ At(p, "pid")
        /\ \/ pidfile' = p /\ lost' = lost \cup others /\ UNCHANGED left
           \/ Spend("pid") /\ UNCHANGED pidfile /\ lost' = lost \cup {p}
           \/ Spend("pid") /\ pidfile' = Gone /\ lost' = lost \cup others \cup {p}
        /\ Go(p, [call[p] EXCEPT !.missed = FALSE,
                    !.pc = IF call[p].exclusions THEN "prepare" ELSE "enable"])
        /\ UNCHANGED <<listening, journal, session, pipe, service, network, overlap>>

(* Session ids still in use. *)
Used == {call[q].id : q \in Procs}
        \cup (IF journal = None THEN {} ELSE {journal.id})
        \cup (IF session = None THEN {} ELSE {session.id})
        \cup (IF pipe = None THEN {} ELSE {pipe.id})

(* Mutant of prepare: the journal is written only once the service has applied.  *)
PrepareLate(p) ==
    /\ At(p, "prepare")
    /\ Go(p, [call[p] EXCEPT !.pc = "apply", !.id = CHOOSE i \in Ids : i \notin Used])
    /\ UNCHANGED <<world, left>>

(* RoutingOwnershipStore.prepare: a journal that is there is never overwritten.  *)
(* The direct listener, opened just before, ends the same way if it fails.  Ids  *)
(* bounds the session ids: a new one is one that is not in use.                  *)
prepare(p) ==
    LET id == CHOOSE i \in Ids : i \notin Used
    IN  /\ At(p, "prepare")
        /\ \/ /\ journal = None /\ Ids \ Used # {}
              /\ journal' = [id |-> id, phase |-> "prepared"]
              /\ Go(p, [call[p] EXCEPT !.pc = "apply", !.id = id])
              /\ UNCHANGED <<listening, lost, pidfile, session, pipe, service, network, overlap, left>>
           \/ /\ journal # None
              /\ To(p, "close")
              /\ UNCHANGED <<world, left>>
           \/ Spend("file") /\ To(p, "close") /\ UNCHANGED world

_activate_send(p) ==
    At(p, "apply") /\ request(p, "apply", [call[p] EXCEPT !.pc = "abort"])

(* The service has answered: transition("applied"), or transition("restoring").  *)
_activate_load(p) ==
    /\ At(p, "reply") /\ call[p].where = "activate"
    /\ Go(p, IF call[p].ok /\ journal # None /\ journal.phase = "prepared"
               THEN [call[p] EXCEPT !.pc = "mark", !.file = journal]
               ELSE [call[p] EXCEPT !.pc = "abort"])
    /\ UNCHANGED <<world, left>>

_activate_mark(p) ==
    /\ At(p, "mark")
    /\ transition(p, "applied", [call[p] EXCEPT !.pc = "enable", !.id = None, !.file = None],
                                [call[p] EXCEPT !.pc = "abort"])

(* activate's except clause; the error goes on to _cmd_start either way. *)
_activate_abort(p) ==
    /\ At(p, "abort")
    /\ Go(p, IF journal # None /\ journal.phase # "restoring"
               THEN [call[p] EXCEPT !.pc = "abort_save", !.file = journal]
               ELSE [call[p] EXCEPT !.pc = "close", !.id = None, !.file = None, !.ok = TRUE])
    /\ UNCHANGED <<world, left>>

_activate_abort_save(p) ==
    LET c == [call[p] EXCEPT !.pc = "close", !.id = None, !.file = None, !.ok = TRUE]
    IN  At(p, "abort_save") /\ transition(p, "restoring", c, c)

(* enable_system_proxy, for a new worker or for one that was running already. *)
_start_enable(p) ==
    LET c == call[p]
        already == c.where = "already"
    IN  /\ At(p, "enable")
        /\ \/ /\ network' = "on"
              /\ To(p, IF already THEN "exit" ELSE "loop")
              /\ UNCHANGED left
           \/ /\ Spend("net")
              /\ network' \in {network, "off", "partial"}
              /\ Go(p, IF already THEN [c EXCEPT !.pc = "exit"]
                       ELSE IF c.exclusions
                         THEN [c EXCEPT !.pc = "load", !.where = "rollback"]
                         ELSE [c EXCEPT !.pc = "close"])
        /\ UNCHANGED <<listening, lost, pidfile, journal, session, pipe, service, overlap>>

(* _run_proxy_loop ends with a KeyboardInterrupt; the system proxy stays on. *)
_run_proxy_loop(p) ==
    /\ At(p, "loop") /\ Quiet
    /\ Spend("interrupt")
    /\ Go(p, IF call[p].exclusions THEN [call[p] EXCEPT !.pc = "load", !.where = "finally"]
                                   ELSE [call[p] EXCEPT !.pc = "close"])
    /\ UNCHANGED world

(* proxy.stop, then _remove_pid of the process's own record. *)
_start_close(p) ==
    /\ At(p, "close")
    /\ listening' = listening \ {p}
    /\ To(p, "unpid")
    /\ UNCHANGED <<lost, pidfile, journal, session, pipe, service, network, overlap, left>>

_start_unpid(p) ==
    /\ At(p, "unpid")
    /\ pidfile' = IF pidfile = p THEN None ELSE pidfile
    /\ To(p, "exit")
    /\ UNCHANGED <<listening, lost, journal, session, pipe, service, network, overlap, left>>

-----------------------------------------------------------------------------
(* _cmd_stop and _cmd_rollback                                                   *)

_cmd_stop(p) ==
    /\ Begins(p)
    /\ Go(p, [NoProcess EXCEPT !.pc = "record", !.op = "stop",
                               !.seen = {q \in Procs : call[q].pc = "loop"}])
    /\ UNCHANGED <<world, left>>

(* The record is read, and read again if the worker is found running. *)
_stop_record(p) ==
    /\ At(p, "record")
    /\ Go(p, [call[p] EXCEPT !.pc = "kill", !.rec = pidfile])
    /\ UNCHANGED <<world, left>>

(* _kill_pid: only the very process the record names; it refuses if the creation *)
(* time cannot be read.                                                          *)
_kill_pid(p) ==
    LET rec == call[p].rec
        Next(killed) == [call EXCEPT ![p].pc = "still", ![p].killed = killed, ![p].rec = None]
    IN  /\ At(p, "kill")
        /\ \/ /\ rec \in Procs \ {p}
              /\ Terminate({rec}, Next(TRUE))
              /\ UNCHANGED left
           \/ /\ rec \in Procs \ {p}
              /\ Spend("kill")
              /\ call' = Next(FALSE)
              /\ UNCHANGED <<listening, lost, pidfile, session, pipe>>
           \/ /\ rec \notin Procs \ {p}
              /\ call' = Next(FALSE)
              /\ UNCHANGED <<listening, lost, pidfile, session, pipe, left>>
        /\ UNCHANGED <<journal, service, network, overlap>>

_stop_still(p) ==
    LET next(pc) == [call[p] EXCEPT !.where = "stop", !.killed = FALSE, !.pc = pc]
    IN  /\ At(p, "still")
        /\ \/ /\ Go(p, next(IF call[p].killed \/ ~is_running THEN "drop" ELSE "load"))
              /\ UNCHANGED <<lost, left>>
           \/ /\ ~call[p].killed /\ Overlooked
              /\ Go(p, next("drop"))
              /\ lost' = lost \cup listening
        /\ UNCHANGED <<listening, pidfile, journal, session, pipe, service, network, overlap>>

(* _remove_pid, of whatever record is there now. *)
_stop_drop(p) ==
    /\ At(p, "drop")
    /\ pidfile' = None
    /\ To(p, "load")
    /\ UNCHANGED <<listening, lost, journal, session, pipe, service, network, overlap, left>>

(* disable_system_proxy: True only if this call restored both halves; a call     *)
(* that finds no backup, or one of the two, answers False.                       *)
_stop_disable(p) ==
    /\ At(p, "disable")
    /\ \/ /\ network = "on" /\ network' = "off"
          /\ To(p, "verdict")
          /\ UNCHANGED left
       \/ /\ network = "partial" /\ network' = "off"
          /\ \E ok \in BOOLEAN : Go(p, [call[p] EXCEPT !.pc = "verdict", !.ok = @ /\ ok])
          /\ UNCHANGED left
       \/ /\ network = "off" /\ UNCHANGED network
          /\ Go(p, [call[p] EXCEPT !.pc = "verdict", !.ok = FALSE])
          /\ UNCHANGED left
       \/ /\ network # "off" /\ Spend("net")
          /\ network' \in {network, "partial"}
          /\ Go(p, [call[p] EXCEPT !.pc = "verdict", !.ok = FALSE])
    /\ UNCHANGED <<listening, lost, pidfile, journal, session, pipe, service, overlap>>

(* Mutant of _stop_verdict: what became of the routing is not looked at. *)
VerdictUnchecked(p) ==
    /\ At(p, "verdict")
    /\ Go(p, [call[p] EXCEPT !.pc = "exit", !.ok = ~is_running /\ network = "off"])
    /\ UNCHANGED <<world, left>>

(* The exit code: 0 only if nothing runs, both restores succeeded and no backup  *)
(* is left.                                                                      *)
_stop_verdict(p) ==
    LET answer(running) ==
          [call[p] EXCEPT !.pc = "exit", !.ok = @ /\ ~running /\ network = "off"]
    IN  /\ At(p, "verdict")
        /\ \/ Go(p, answer(is_running)) /\ UNCHANGED left
           \/ Overlooked /\ Go(p, answer(FALSE))
        /\ UNCHANGED world

Exit(p) ==
    /\ At(p, "exit")
    /\ Terminate({p}, call)
    /\ UNCHANGED <<journal, service, network, overlap, left>>

-----------------------------------------------------------------------------
(* The service: RunPipeLoop, one client at a time.                               *)

Answer(ok) ==
    /\ call' = IF pipe.from = Gone THEN call
               ELSE [call EXCEPT ![pipe.from].pc = "reply", ![pipe.from].ok = ok]
    /\ pipe' = None

(* RoutingSession::Apply: refused while a session is active, and for a proxy     *)
(* process that cannot be opened; the answer may be lost.                        *)
Apply ==
    /\ service /\ pipe # None /\ pipe.cmd = "apply"
    /\ \/ /\ session = None /\ pipe.from # Gone
          /\ session' = [id |-> pipe.id, owner |-> pipe.from]
          /\ Answer(TRUE)
          /\ UNCHANGED left
       \/ /\ session = None /\ pipe.from # Gone
          /\ Spend("driver")
          /\ session' \in {None, [id |-> pipe.id, owner |-> pipe.from]}
          /\ Answer(FALSE)
       \/ /\ session # None \/ pipe.from = Gone
          /\ UNCHANGED session
          /\ Answer(FALSE)
          /\ UNCHANGED left
    /\ UNCHANGED <<listening, lost, pidfile, journal, service, network, overlap>>

(* Mutant of RestoreForCaller: nothing to do is an error. *)
RestoreOnce ==
    /\ service /\ pipe # None /\ pipe.cmd = "restore"
    /\ \/ /\ session # None /\ session.id = pipe.id
          /\ session' = None
          /\ Answer(TRUE)
       \/ /\ ~(session # None /\ session.id = pipe.id)
          /\ UNCHANGED session
          /\ Answer(FALSE)
    /\ UNCHANGED <<listening, lost, pidfile, journal, service, network, overlap, left>>

(* RoutingSession::RestoreForCaller: nothing to do counts as verified; another   *)
(* session is left alone; handles that do not close are forgotten all the same.  *)
RestoreForCaller ==
    /\ service /\ pipe # None /\ pipe.cmd = "restore"
    /\ \/ /\ session # None => session.id = pipe.id
          /\ session' = None
          /\ \/ Answer(TRUE) /\ UNCHANGED left
             \/ session # None /\ Spend("driver") /\ Answer(FALSE)
       \/ /\ session # None /\ session.id # pipe.id
          /\ UNCHANGED session
          /\ Answer(FALSE)
          /\ UNCHANGED left
    /\ UNCHANGED <<listening, lost, pidfile, journal, service, network, overlap>>

(* Mutant of ProxyExited: nobody waits for the process. *)
ProxyUnwatched ==
    /\ FALSE
    /\ UNCHANGED vars

(* WaitForConnection saw the proxy process exit. *)
ProxyExited ==
    /\ service /\ pipe = None
    /\ session # None /\ session.owner = Gone
    /\ session' = None
    /\ UNCHANGED <<call, listening, lost, pidfile, journal, pipe, service, network, overlap, left>>

(* The service is stopped or dies; a waiting client gets an error. *)
ServiceStop ==
    /\ service /\ Spend("service")
    /\ service' = FALSE
    /\ session' = None
    /\ pipe' = None
    /\ call' = IF pipe = None \/ pipe.from = Gone THEN call
               ELSE [call EXCEPT ![pipe.from].pc = "reply", ![pipe.from].ok = FALSE]
    /\ UNCHANGED <<listening, lost, pidfile, journal, network, overlap>>

ServiceMain ==
    /\ ~service /\ service' = TRUE
    /\ UNCHANGED <<call, listening, lost, pidfile, journal, session, pipe, network, overlap, left>>

-----------------------------------------------------------------------------
(* A process is killed from outside; inside a call of the system proxy backend   *)
(* it leaves that half done.                                                     *)
Kill(p) ==
    /\ ~At(p, "none")
    /\ Spend("kill")
    /\ Terminate({p}, call)
    /\ network' \in {network} \cup (IF At(p, "enable") \/ (At(p, "disable") /\ network # "off")
                                       THEN {"partial"} ELSE {})
    /\ UNCHANGED <<journal, service, overlap>>

(* What a process does by itself. *)
Step(p) ==
    \/ restore(p) \/ _restore_load(p) \/ _restore_mark(p) \/ _restore_send(p)
    \/ _restore_clear(p)
    \/ _start_check(p) \/ _start_bind(p) \/ _write_pid(p) \/ prepare(p)
    \/ _activate_send(p) \/ _activate_load(p) \/ _activate_mark(p)
    \/ _activate_abort(p) \/ _activate_abort_save(p)
    \/ _start_enable(p) \/ _start_close(p) \/ _start_unpid(p)
    \/ _stop_record(p) \/ _kill_pid(p) \/ _stop_still(p) \/ _stop_drop(p)
    \/ _stop_disable(p) \/ _stop_verdict(p)
    \/ Exit(p)

Serve == Apply \/ RestoreForCaller \/ ProxyExited

Next ==
    \/ \E p \in Procs :
         \/ Step(p) \/ Kill(p) \/ _run_proxy_loop(p)
         \/ \E exclusions \in BOOLEAN : _cmd_start(p, exclusions)
         \/ _cmd_stop(p)
    \/ Serve \/ ServiceStop \/ ServiceMain

Spec == Init /\ [][Next]_vars

(* Processes and service run on, a stopped service is started again, and the     *)
(* user keeps asking for the network back.  ProxyExited is strongly fair: the    *)
(* handle of a process that has exited stays signalled, so WaitForConnection     *)
(* returns with it the first time it finds no client at the pipe; clients that   *)
(* come and go cannot put it off for good.                                       *)
FairSpec ==
    /\ Spec
    /\ \A p \in Procs : WF_vars(Step(p))
    /\ WF_vars(Serve) /\ SF_vars(ProxyExited) /\ WF_vars(ServiceMain)
    /\ WF_vars(\E p \in Procs : _cmd_stop(p))

-----------------------------------------------------------------------------
(* routing_ownership.py: the journal is persisted "before creating any owned     *)
(* enforcement resource" and cleared after "verified restoration" only.  While   *)
(* commands do not overlap, a session the service holds is always the one the    *)
(* journal names, whoever is killed and whatever fails.                          *)
SessionIsJournaled ==
    Serial /\ session # None => journal # None /\ journal.id = session.id

(* "proxy stopped; network settings restored", exit code 0: the routing session   *)
(* and its journal are gone, the system proxy is off, and no worker that ran     *)
(* when --stop began serves any longer, but for one the launcher has lost sight  *)
(* of or the last look at the worker did not see.                                *)
StopIsTruthful ==
    [][\A p \in Procs :
         Serial /\ At(p, "verdict") /\ call'[p].pc = "exit" /\ call'[p].ok
           => /\ call[p].seen \cap listening \subseteq lost \/ left'["probe"] < left["probe"]
              /\ network = "off"
              /\ journal = None /\ session = None]_vars

(* A routing session never outlives its worker for good: the service ends it,    *)
(* even if the journal was lost to a race and nobody asks.                       *)
OrphanSessionEnds ==
    (session # None /\ session.owner = Gone) ~> (session = None \/ session.owner # Gone)

(* After any faults, --stop or --rollback tried again and again ends with no     *)
(* worker but those the launcher has lost sight of, no routing session, no       *)
(* journal and the system proxy off.                                             *)
StopConverges ==
    <>[](~Serial \/ (/\ network = "off" /\ journal = None /\ session = None
                     /\ \A p \in Procs : call[p].op = "start" => p \in lost))

(* application_exclusions.py: enforcement is reported "truthfully".  While no     *)
(* command is under way, a worker with exclusions that is in its loop has its    *)
(* routing session, as long as nothing fails and the service runs on.            *)
ExclusionsEnforced ==
    (\A q \in Procs : call[q].pc \in {"none", "loop"})
      => \A p \in Procs : At(p, "loop") /\ call[p].exclusions
                             => session # None /\ session.owner = p
=============================================================================
