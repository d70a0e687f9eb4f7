---------------------------- MODULE MacosBackend ----------------------------
(* macos_backend.py: how the launcher points the manual proxies of every network *)
(* service straight at its upstream, refreshes that route after a wake, and      *)
(* restores what the services had.                                               *)
(*                                                                               *)
(* A step is one networksetup command, the rollback file replaced or removed, or *)
(* one reading of the services with the decision made on it.  Each command may   *)
(* fail, and the process may die between any two: networksetup changes one thing *)
(* of one service at a time, so a call has dozens of intermediate states.        *)
EXTENDS Naturals, Sequences

CONSTANTS
    Procs,         \* launcher processes
    Services,      \* network services
    Endpoints,     \* servers, PAC URLs, bypass lists
    Empty,         \* no endpoint was ever set
    Sentinel,      \* 127.0.0.1:1, the closed port of the refresh pulse
    LocalPacs,     \* PAC URLs on this machine that are not the launcher's
    Configs,       \* resolved configurations: the upstream and the bypass list
    None, Corrupt, \* no rollback file; one that _load_backup rejects
    ForeignValues, \* what others may write into each setting of a service
    Scenarios      \* initial states, and how often each outside event may happen

Manual == {"web", "secure", "socks"}
Settings == Manual \cup {"auto", "bypass"}
(* A proxy setting is on or off and remembers its endpoint either way. *)
States == [on : BOOLEAN, at : Endpoints]
Cells == Services \X Settings
(* What a rollback file holds. *)
Payloads ==
    [cfg : Configs, saved : UNION {[S -> [Settings -> States]] : S \in SUBSET Services}]
Events == {"enable", "refresh", "command", "read", "write", "crash", "foreign", "off",
           "service", "settings", "corrupt"}

ASSUME MacosAssumption ==
    /\ {Empty, Sentinel} \cup LocalPacs \subseteq Endpoints
    /\ \A c \in Configs : c.upstream \in Endpoints \ {Empty, Sentinel}
    /\ None # Corrupt /\ {None, Corrupt} \cap Payloads = {}
    /\ \A ch \in Settings : ForeignValues[ch] \subseteq States
    /\ \A s \in Scenarios :
         /\ s.value \in [Services -> [Settings -> States]] /\ s.present \subseteq Services
         /\ s.config \in Configs /\ s.left \in [Events -> Nat]

VARIABLES
    value,    \* the settings of each service
    present,  \* the services networksetup lists
    store,    \* the rollback file
    config,   \* resolved_backend_config of this moment
    call,     \* what each process is doing
    left,     \* what is left of the scenario's budget
    applied,  \* history: cells the launcher changed and has not restored
    user,     \* history: what the user or another program last put there
    drift,    \* history: cells others wrote while a call or a rollback was pending
    armed     \* history: the last enable succeeded and no disable came after it

world == <<value, present, config>>
history == <<applied, user, drift, armed>>
vars == <<world, store, call, left, history>>

-----------------------------------------------------------------------------
(* What the backend recognises.                                                  *)

HasEvidence == store \notin {None, Corrupt}

(* _manual_proxy_matches and the PAC clause of _service_matches_snapshot:        *)
(* networksetup cannot forget an endpoint, so off is off.                        *)
Restored(ch, v, saved) ==
    CASE ch \in Manual ->
           v.on = saved.on /\ (saved = [on |-> FALSE, at |-> Empty] \/ v.at = saved.at)
      [] ch = "auto" -> v.on = saved.on /\ (saved.on => v.at = saved.at)
      [] OTHER -> v = saved

(* _owned_direct_proxy_matches and _service_matches_owned_state: web and secure  *)
(* at the upstream, SOCKS and PAC off, the bypass list as it was saved.          *)
Owned(ch, v, saved, cfg) ==
    CASE ch \in {"web", "secure"} -> v = [on |-> TRUE, at |-> cfg.upstream]
      [] ch \in {"socks", "auto"} -> ~v.on
      [] OTHER -> v = saved

(* Mutant of Recoverable: the endpoint of the pulse is nobody's. *)
RecoverableButPulse(ch, v, saved, cfg) ==
    \/ Owned(ch, v, saved, cfg) \/ Restored(ch, v, saved)
    \/ ch \in {"web", "secure"} /\ ~v.on
       /\ v.at \in {cfg.upstream, saved.at} \ {Empty}

(* _manual_proxies_recoverable, _service_matches_recoverable_state: also the     *)
(* fail-closed endpoint of the pulse, and an own or a saved endpoint that was    *)
(* switched off.                                                                 *)
Recoverable(ch, v, saved, cfg) ==
    \/ Owned(ch, v, saved, cfg) \/ Restored(ch, v, saved)
    \/ /\ ch \in {"web", "secure"}
       /\ \/ v = [on |-> TRUE, at |-> Sentinel]
          \/ ~v.on /\ v.at \in {cfg.upstream, saved.at} \ {Empty}

ServiceOwned(s, f) ==
    \A ch \in Settings : Owned(ch, value[s][ch], f.saved[s][ch], f.cfg)
ServiceRestored(s, f) ==
    \A ch \in Settings : Restored(ch, value[s][ch], f.saved[s][ch])
ServiceRecoverable(s, f) ==
    \A ch \in Settings : Recoverable(ch, value[s][ch], f.saved[s][ch], f.cfg)

(* _payload_is_owned, as is_enabled asks it too *)
_payload_is_owned(f) ==
    DOMAIN f.saved \subseteq present /\ \A s \in DOMAIN f.saved : ServiceOwned(s, f)

(* _restore_plan: all saved services are there, and each is owned, restored or   *)
(* recoverable; and those to restore.                                            *)
PlanAccepted(f) ==
    DOMAIN f.saved \subseteq present /\ \A s \in DOMAIN f.saved : ServiceRecoverable(s, f)
ToRestore(f) ==
    {s \in DOMAIN f.saved : ServiceOwned(s, f) \/ ~ServiceRestored(s, f)}

-----------------------------------------------------------------------------
(* The commands of each operation on one service, in order.                      *)

Cmd(ch, verb, at) == [ch |-> ch, verb |-> verb, at |-> at]
On(ch) == Cmd(ch, "on", Empty)
Off(ch) == Cmd(ch, "off", Empty)
Both(verb, at) == <<Cmd("web", verb, at), Cmd("secure", verb, at)>>

(* Mutant of PointAt: the proxies are off while their endpoint changes. *)
PointAtOff(e) == Both("off", Empty) \o Both("set", e) \o Both("on", Empty)
(* set_web_proxy and set_secure_web_proxy, then both are switched on *)
PointAt(e) == Both("set", e) \o Both("on", Empty)

EnableCommands(cfg) == <<Off("auto"), Off("socks")>> \o PointAt(cfg.upstream)

(* _restore_service for one manual proxy, and for all of a service *)
RestoreManual(ch, saved) ==
    (IF saved.at = Empty THEN <<>> ELSE <<Cmd(ch, "set", saved.at)>>)
    \o <<IF saved.on THEN On(ch) ELSE Off(ch)>>

(* Mutant of RestoreCommands: the SOCKS proxy enable switched off stays off. *)
RestoreWithoutSocks(saved) ==
    RestoreManual("web", saved["web"]) \o RestoreManual("secure", saved["secure"])
    \o <<Cmd("bypass", "put", saved["bypass"].at)>>
    \o (IF saved["auto"].at = Empty THEN <<>> ELSE <<Cmd("auto", "set", saved["auto"].at)>>)
    \o <<Off("auto")>> \o (IF saved["auto"].on THEN <<On("auto")>> ELSE <<>>)
RestoreCommands(saved) ==
    RestoreManual("web", saved["web"]) \o RestoreManual("secure", saved["secure"])
    \o RestoreManual("socks", saved["socks"])
    \o <<Cmd("bypass", "put", saved["bypass"].at)>>
    \o (IF saved["auto"].at = Empty THEN <<>> ELSE <<Cmd("auto", "set", saved["auto"].at)>>)
    \o <<Off("auto")>> \o (IF saved["auto"].on THEN <<On("auto")>> ELSE <<>>)

(* What networksetup does: setting an endpoint also switches it on. *)
Effect(v, cmd) ==
    CASE cmd.verb = "set" -> [on |-> TRUE, at |-> cmd.at]
      [] cmd.verb = "on" -> [v EXCEPT !.on = TRUE]
      [] cmd.verb = "off" -> [v EXCEPT !.on = FALSE]
      [] cmd.verb = "put" -> [v EXCEPT !.at = cmd.at]

-----------------------------------------------------------------------------
Return(op, ok) ==
    [pc |-> "idle", op |-> op, ok |-> ok, payload |-> None, todo |-> {},
     touched |-> {}, at |-> None, script |-> <<>>]
Idle == Return("none", FALSE)
Ready(p) == call[p].pc = "idle"
Go(p, c) == call' = [call EXCEPT ![p] = c]
Spend(k) == left[k] > 0 /\ left' = [left EXCEPT ![k] = @ - 1]

Init ==
    \E s \in Scenarios :
        /\ value = s.value /\ config = s.config /\ left = s.left
        /\ present = s.present /\ store = None
        /\ call = [p \in Procs |-> Idle]
        /\ applied = {} /\ user = value /\ drift = {} /\ armed = FALSE

(* With a rollback file there, enable only reports whether it is in force.  A    *)
(* PAC of another program on this machine, no service, or a command that fails   *)
(* ends it before any mutation.                                                  *)
enable(p) ==
    /\ Ready(p) /\ Spend("enable")
    /\ \/ Go(p, Return("enable", FALSE)) /\ UNCHANGED armed
       \/ /\ HasEvidence /\ store.cfg = config /\ _payload_is_owned(store)
          /\ Go(p, Return("enable", TRUE)) /\ armed' = TRUE
       \/ /\ store = None /\ present # {}
          /\ \A s \in present :
               ~(value[s]["auto"].on /\ value[s]["auto"].at \in LocalPacs)
          /\ Go(p, [Return("enable", TRUE) EXCEPT !.pc = "save", !.todo = present,
                      !.payload = [cfg |-> config, saved |-> [s \in present |-> value[s]]]])
          /\ UNCHANGED armed
    /\ UNCHANGED <<world, store, applied, user, drift>>

(* Mutant of _save: a failed save goes unnoticed. *)
SaveUnchecked(p) ==
    /\ call[p].pc = "save" /\ Go(p, [call[p] EXCEPT !.pc = "run"])
    /\ \/ store' = call[p].payload /\ UNCHANGED left
       \/ Spend("write") /\ UNCHANGED store
    /\ UNCHANGED <<world, history>>

(* JsonRollbackStore.save *)
_save(p) ==
    /\ call[p].pc = "save"
    /\ \/ /\ store' = call[p].payload /\ UNCHANGED left
          /\ Go(p, [call[p] EXCEPT !.pc = "run"])
       \/ Spend("write") /\ Go(p, Return("enable", FALSE)) /\ UNCHANGED store
    /\ UNCHANGED <<world, history>>

(* refresh after a wake: only of a route that is fully owned under this very     *)
(* configuration.                                                                *)
refresh(p) ==
    /\ Ready(p) /\ Spend("refresh")
    /\ IF HasEvidence /\ store.cfg = config /\ _payload_is_owned(store)
         THEN Go(p, [Return("refresh", TRUE) EXCEPT !.pc = "run", !.op = "pulse",
                       !.payload = store, !.todo = DOMAIN store.saved])
         ELSE Go(p, Return("refresh", FALSE))
    /\ UNCHANGED <<world, store, history>>

disable(p) ==
    /\ Ready(p)
    /\ \/ store = None /\ Go(p, Return("disable", TRUE)) /\ UNCHANGED <<left, armed>>
       \/ store # None /\ Spend("read") /\ Go(p, Return("disable", FALSE)) /\ UNCHANGED armed
       \/ /\ store = Corrupt \/ (HasEvidence /\ ~PlanAccepted(store))
          /\ Go(p, Return("disable", FALSE)) /\ UNCHANGED <<left, armed>>
       \/ /\ HasEvidence /\ PlanAccepted(store)
          /\ Go(p, [Return("disable", TRUE) EXCEPT !.pc = "run", !.payload = store,
                      !.todo = ToRestore(store)])
          /\ armed' = FALSE /\ UNCHANGED left
    /\ UNCHANGED <<world, store, applied, user, drift>>

-----------------------------------------------------------------------------
(* Running the commands, service by service; dicts give no particular order.     *)

_next_service(p, s) ==
    LET c == call[p]
    IN  /\ c.pc = "run" /\ c.script = <<>> /\ s \in c.todo
        /\ Go(p, [c EXCEPT !.todo = @ \ {s}, !.touched = @ \cup {s}, !.at = s,
                    !.script =
                      CASE c.op = "enable" -> EnableCommands(c.payload.cfg)
                        [] c.op = "pulse" -> PointAt(Sentinel)
                        [] c.op = "rearm" -> PointAt(c.payload.cfg.upstream)
                        [] c.op \in {"rollback", "disable"} ->
                             RestoreCommands(c.payload.saved[s])])
        /\ UNCHANGED <<world, store, left, history>>

(* A failing command: enable rolls back what it touched, a pulse goes straight   *)
(* to the own endpoint, the others give up this service and go on with the rest. *)
Failed(c) ==
    LET d == [c EXCEPT !.script = <<>>]
    IN  CASE c.op = "enable" -> [d EXCEPT !.op = "rollback", !.todo = c.touched]
          [] c.op = "pulse" -> [d EXCEPT !.op = "rearm", !.ok = FALSE,
                                         !.todo = DOMAIN c.payload.saved]
          [] OTHER -> [d EXCEPT !.ok = FALSE]

_command(p) ==
    LET c == call[p]
        cmd == Head(c.script)
        new == Effect(value[c.at][cmd.ch], cmd)
        cell == <<c.at, cmd.ch>>
    IN  /\ c.pc = "run" /\ c.script # <<>>
        /\ \/ /\ c.at \in present
              /\ value' = [value EXCEPT ![c.at][cmd.ch] = new]
              /\ applied' = IF Restored(cmd.ch, new, c.payload.saved[c.at][cmd.ch])
                              THEN applied \ {cell} ELSE applied \cup {cell}
              /\ Go(p, [c EXCEPT !.script = Tail(@)])
              /\ UNCHANGED left
           \/ /\ IF c.at \in present THEN Spend("command") ELSE UNCHANGED left
              /\ Go(p, Failed(c)) /\ UNCHANGED <<value, applied>>
        /\ UNCHANGED <<present, config, store, user, drift, armed>>

(* Mutant of _services_done: a restore is not verified, and its failures are     *)
(* forgotten.                                                                    *)
DoneUnverified(p) ==
    LET c == call[p]
    IN  /\ c.pc = "run" /\ c.script = <<>> /\ c.todo = {}
        /\ Go(p, CASE c.op = "enable" -> Return("enable", TRUE)
                   [] c.op = "pulse" -> [c EXCEPT !.op = "rearm",
                                                  !.todo = DOMAIN c.payload.saved]
                   [] c.op = "rearm" -> Return("refresh", c.ok /\ _payload_is_owned(c.payload))
                   [] OTHER -> [c EXCEPT !.pc = "clear"])
        /\ armed' = (armed \/ c.op = "enable")
        /\ UNCHANGED <<world, store, left, applied, user, drift>>

(* All services are through.  A pulse is followed by the own endpoint, a restore *)
(* by the rollback file; disable looks at every saved service once more first.   *)
_services_done(p) ==
    LET c == call[p]
        restored == \A s \in DOMAIN c.payload.saved : ServiceRestored(s, c.payload)
    IN  /\ c.pc = "run" /\ c.script = <<>> /\ c.todo = {}
        /\ Go(p, CASE c.op = "enable" -> Return("enable", TRUE)
                   [] c.op = "pulse" -> [c EXCEPT !.op = "rearm",
                                                  !.todo = DOMAIN c.payload.saved]
                   [] c.op = "rearm" -> Return("refresh", c.ok /\ _payload_is_owned(c.payload))
                   [] c.op = "rollback" -> IF c.ok THEN [c EXCEPT !.pc = "clear"]
                                           ELSE Return("enable", FALSE)
                   [] c.op = "disable" -> IF c.ok /\ restored THEN [c EXCEPT !.pc = "clear"]
                                          ELSE Return("disable", FALSE))
        /\ armed' = (armed \/ c.op = "enable")
        /\ UNCHANGED <<world, store, left, applied, user, drift>>

(* JsonRollbackStore.clear *)
_clear(p) ==
    LET op == IF call[p].op = "disable" THEN "disable" ELSE "enable"
    IN  /\ call[p].pc = "clear"
        /\ \/ store' = None /\ Go(p, Return(op, op = "disable")) /\ UNCHANGED left
           \/ Spend("write") /\ Go(p, Return(op, FALSE)) /\ UNCHANGED store
        /\ UNCHANGED <<world, history>>

(* sync_no_proxy: _expected_bypass ignores the configuration, so no service is   *)
(* touched, and the rollback file takes the configuration of this moment.        *)
sync_no_proxy(p) ==
    /\ Ready(p)
    /\ HasEvidence /\ store.cfg # config /\ store.cfg.upstream = config.upstream
    /\ _payload_is_owned(store)
    /\ \/ /\ store' = [store EXCEPT !.cfg = config]
          /\ Go(p, Return("sync", TRUE)) /\ UNCHANGED left
       \/ Spend("write") /\ Go(p, Return("sync", FALSE)) /\ UNCHANGED store
    /\ UNCHANGED <<world, history>>

-----------------------------------------------------------------------------
(* The world outside.                                                            *)

Crash(p) ==
    /\ ~Ready(p) /\ Spend("crash") /\ Go(p, Idle)
    /\ UNCHANGED <<world, store, history>>

Outside(s, ch, v) ==
    /\ value[s][ch] # v
    /\ value' = [value EXCEPT ![s][ch] = v]
    /\ user' = [user EXCEPT ![s][ch] = v]
    /\ applied' = applied \ {<<s, ch>>}
    /\ drift' = IF store # None \/ (\E p \in Procs : ~Ready(p))
                  THEN drift \cup {<<s, ch>>} ELSE drift \ {<<s, ch>>}
    /\ UNCHANGED <<present, config, store, call, armed>>
(* Another program writes a setting; macOS switches one off. *)
ForeignWrite(s, ch, v) == Spend("foreign") /\ Outside(s, ch, v)
SwitchOff(s, ch) ==
    Spend("off") /\ ch # "bypass" /\ Outside(s, ch, [value[s][ch] EXCEPT !.on = FALSE])

(* An adapter is unplugged or comes back. *)
ServiceChange(s) ==
    /\ Spend("service")
    /\ present' = IF s \in present THEN present \ {s} ELSE present \cup {s}
    /\ UNCHANGED <<value, config, store, call, history>>
ChangeSettings(c) ==
    /\ Spend("settings") /\ c # config /\ config' = c
    /\ UNCHANGED <<value, present, store, call, history>>
Damage ==
    /\ HasEvidence /\ (\A p \in Procs : Ready(p)) /\ Spend("corrupt")
    /\ store' = Corrupt
    /\ UNCHANGED <<world, call, history>>

Step(p) ==
    \/ _save(p) \/ _command(p) \/ _services_done(p) \/ _clear(p)
    \/ \E s \in Services : _next_service(p, s)

Next ==
    \/ \E p \in Procs :
         Step(p) \/ enable(p) \/ refresh(p) \/ disable(p) \/ sync_no_proxy(p) \/ Crash(p)
    \/ \E s \in Services :
         \/ ServiceChange(s)
         \/ \E ch \in Settings :
              SwitchOff(s, ch) \/ \E v \in ForeignValues[ch] : ForeignWrite(s, ch, v)
    \/ \E c \in Configs : ChangeSettings(c)
    \/ Damage

Spec == Init /\ [][Next]_vars

(* The user keeps asking for the network back, and a process that is not killed  *)
(* runs on.                                                                      *)
Fairness == \A p \in Procs : WF_vars(Step(p)) /\ SF_vars(disable(p))
FairSpec == Spec /\ Fairness

-----------------------------------------------------------------------------
(* Correctness.                                                                  *)

(* Nobody switches on a web proxy or a PAC that has no endpoint: networksetup    *)
(* could not put such a proxy back, and _load_backup rejects such a PAC.         *)
EndpointIfOn(v) == v.on => v.at # Empty
OnHasEndpoint ==
    \A ch \in {"web", "secure", "auto"} :
      /\ \A s \in Scenarios : \A t \in Services : EndpointIfOn(s.value[t][ch])
      /\ \A v \in ForeignValues[ch] : EndpointIfOn(v)

(* What the user had can always be had back, up to the endpoints networksetup    *)
(* cannot forget: it is in force, or in the one rollback file, through every     *)
(* partial enable, pulse and restore and over repeated cycles, unless the file   *)
(* is damaged or another program wrote that setting meanwhile.                   *)
OriginalRecoverable ==
    \A s \in Services : \A ch \in {c \in Settings : <<s, c>> \notin drift} :
        \/ Restored(ch, value[s][ch], user[s][ch])
        \/ store = Corrupt
        \/ /\ HasEvidence /\ s \in DOMAIN store.saved
           /\ Restored(ch, store.saved[s][ch], user[s][ch])

(* A setting that was saved as off but remembers an endpoint, for web and secure *)
(* one that is not the launcher's: set_*_proxy switches it on for a moment.      *)
OffWithEndpoint(f) ==
    \E s \in DOMAIN f.saved : \E ch \in Manual \cup {"auto"} :
        /\ ~f.saved[s][ch].on /\ f.saved[s][ch].at # Empty
        /\ ch \in {"web", "secure"} => f.saved[s][ch].at \notin {Sentinel, f.cfg.upstream}

NoDrift(f) == \A s \in DOMAIN f.saved : \A ch \in Settings : <<s, ch>> \notin drift

(* Whatever the launcher leaves behind when it dies or fails between two         *)
(* commands of enable, refresh or disable, its own _restore_plan accepts, as     *)
(* long as nothing that was saved as off remembered an endpoint of its own.      *)
OwnStateNeverForeign ==
    HasEvidence /\ NoDrift(store) /\ ~OffWithEndpoint(store)
      => \A s \in DOMAIN store.saved : ServiceRecoverable(s, store)

(* A call that ended, or a process that was killed, leaves a state from which a  *)
(* restore can be tried again: _restore_plan does not call what the launcher     *)
(* itself left foreign.                                                          *)
RestoreCanBeRetried ==
    HasEvidence /\ NoDrift(store) /\ (\A p \in Procs : Ready(p))
      => \A s \in DOMAIN store.saved : ServiceRecoverable(s, store)

(* "During the pulse new traffic can fail, but it cannot fall through to a       *)
(* direct IPv4/IPv6 route": from a successful enable to the next disable, both   *)
(* manual proxies of every saved service stay on, at the upstream or at the      *)
(* closed port, through failing and killed refreshes.                            *)
NeverDirect ==
    armed /\ HasEvidence =>
      \A s \in DOMAIN store.saved : \A ch \in {"web", "secure"} :
        <<s, ch>> \notin drift =>
          value[s][ch] \in [on : {TRUE}, at : {store.cfg.upstream, Sentinel}]

Returns(p, op, ok) ==
    /\ call[p].pc # "idle" /\ call'[p].pc = "idle"
    /\ call'[p].op = op /\ call'[p].ok = ok

(* disable says True only when everything it saved is restored and the rollback  *)
(* file is gone, enable and refresh only when every saved service is really      *)
(* routed through the upstream; settings others wrote meanwhile apart.           *)
ReturnsAreTruthful ==
    [][\A p \in Procs :
         /\ Returns(p, "disable", TRUE) => applied' \subseteq drift' /\ store' = None
         /\ Returns(p, "enable", TRUE) \/ Returns(p, "refresh", TRUE)
              => \A s \in DOMAIN store'.saved :
                   \A ch \in {c \in Settings : <<s, c>> \notin drift'} :
                     Owned(ch, value'[s][ch], store'.saved[s][ch], store'.cfg)]_vars

(* Trying disable again always ends with everything restored, unless the plan is *)
(* refused: a foreign value, a missing service, a damaged file.                  *)
RecoveryConverges == <>[](HasEvidence => ~PlanAccepted(store))

Evidence == INSTANCE EvidenceProtocol WITH
    Governed <- Cells, dirty <- applied \ drift,
    evidence <- IF store = None THEN "none"
                ELSE IF store = Corrupt THEN "ambiguous" ELSE "held"

(* The macOS backend implements EvidenceProtocol: no setting is changed without  *)
(* the rollback file, and the file goes only when every setting is restored that *)
(* no other program wrote meanwhile.                                             *)
EvidenceRefines == Evidence!EvidenceSpec
=============================================================================
