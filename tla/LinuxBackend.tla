---------------------------- MODULE LinuxBackend ----------------------------
(* linux_backend.py and linux_desktop_proxy.py: how the launcher points the      *)
(* active NetworkManager profiles and the desktop's own proxy setting (GSettings *)
(* or KDE) at its PAC, and how one rollback file brings all of them back.        *)
(*                                                                               *)
(* A step is one nmcli or desktop command that changes something, the rollback   *)
(* file replaced or removed, or one reading of the state with the decision made  *)
(* on it.  A command may fail without effect, or fail (time out) after it.       *)
(* Between steps connections come and go, other programs write, and the process  *)
(* dies.  nmcli lists connections in no particular order.                        *)
EXTENDS Naturals

CONSTANTS
    Procs,         \* launcher processes
    Profiles,      \* uuids of NetworkManager profiles, of types the launcher handles
    Backends,      \* desktop proxy stores a session may have: gsettings, kde
    Urls, NoUrl,   \* PAC URLs; NoUrl is method none, or an empty URL
    Configs,       \* resolved configurations: the PAC URL and the bypass list
    Sessions,      \* desktop clients detect_desktop_proxy_client may find
    None,          \* no desktop client, no rollback file
    Corrupt,       \* a rollback file _load_backup rejects
    Gone, Down,    \* a deleted profile, a profile that is not active
    ForeignValues, \* what other programs may write, per name
    Scenarios      \* initial states, and how often each outside event may happen

Fields(b) == {<<b, "mode">>, <<b, "url">>}
DesktopNames == UNION {Fields(b) : b \in Backends}
(* Every value the backend governs: profiles and desktop fields. *)
Names == Profiles \cup DesktopNames
Modes == {"none", "manual", "auto"}
Values == Urls \cup Modes \cup {Gone}
(* What a rollback file holds. *)
Payloads == [cfg : Configs, saved : UNION {[N -> Values] : N \in SUBSET Names}]
Events == {"enable", "command", "read", "write", "crash", "foreign", "link", "delete",
           "corrupt", "settings", "session"}

ASSUME LinuxAssumption ==
    /\ Sessions \subseteq Backends \cup {None}
    /\ None \notin Backends /\ Profiles \cap DesktopNames = {}
    /\ NoUrl \in Urls
    /\ \A c \in Configs : c.pac \in Urls \ {NoUrl}
    /\ Gone \notin Urls \cup Modes /\ Down \notin Values
    /\ None # Corrupt /\ {None, Corrupt} \cap Payloads = {}
    /\ \A n \in Names : ForeignValues[n] \subseteq Values \ {Gone}
    /\ \A s \in Scenarios :
         /\ s.value \in [Names -> Values] /\ s.up \subseteq Profiles
         /\ \A n \in Names : s.value[n] = Gone => n \in Profiles \ s.up
         /\ s.config \in Configs /\ s.session \in Sessions /\ s.left \in [Events -> Nat]

VARIABLES
    value,    \* each governed value, as stored by NetworkManager or the desktop
    device,   \* the proxy each active connection really uses, or Down
    store,    \* the rollback file: None, Corrupt, or what was saved
    config,   \* resolved_backend_config of this moment
    session,  \* the desktop client of this session
    call,     \* what each process is doing
    left,     \* what is left of the scenario's budget
    applied,  \* history: the names that hold what the launcher wrote
    user,     \* history: what the user or another program last put there
    drift,    \* history: names others wrote while a call or a rollback was pending
    moved     \* history: connections that last went up or down during a call

world == <<value, device, config, session>>
history == <<applied, user, drift, moved>>
vars == <<world, store, call, left, history>>

-----------------------------------------------------------------------------
HasEvidence == store \notin {None, Corrupt}
Active == {u \in Profiles : device[u] # Down}

(* _desired_proxy_state, _desired_desktop_state *)
Desired(n, cfg) ==
    IF \E b \in Backends : n = <<b, "mode">> THEN "auto" ELSE cfg.pac

(* The desktop half of a rollback file; a call's own client must be the same.    *)
SavedProfiles(s) == DOMAIN s.saved \cap Profiles
SavedFields(s) == DOMAIN s.saved \cap DesktopNames
_desktop_backend_matches_payload(s, client) ==
    SavedFields(s) = {} \/ (client # None /\ SavedFields(s) = Fields(client))

(* _profile_matches_owned_state and _desktop_matches_owned_state with            *)
(* allow_restored: every value is the one saved or the one applied, field by     *)
(* field; a deleted profile is nobody's.                                         *)
OwnedOrSaved(s, client) ==
    /\ _desktop_backend_matches_payload(s, client)
    /\ \A n \in DOMAIN s.saved :
         value[n] \in {s.saved[n], Desired(n, s.cfg), Gone}

(* _payload_is_owned_and_active, as is_enabled asks it too *)
_payload_is_owned_and_active(s, client) ==
    /\ _desktop_backend_matches_payload(s, client)
    /\ \A n \in DOMAIN s.saved : value[n] \in {Desired(n, s.cfg), Gone}
    /\ Active # {}
    /\ \A u \in Active : u \in DOMAIN s.saved /\ value[u] = Desired(u, s.cfg)

-----------------------------------------------------------------------------
Return(op, ok) ==
    [pc |-> "idle", op |-> op, ok |-> ok, payload |-> None, client |-> None,
     todo |-> {}, touched |-> {}, active |-> {}, at |-> None]
Idle == Return("none", FALSE)
Ready(p) == call[p].pc = "idle"
Go(p, c) == call' = [call EXCEPT ![p] = c]
Spend(k) == left[k] > 0 /\ left' = [left EXCEPT ![k] = @ - 1]

Init ==
    \E s \in Scenarios :
        /\ value = s.value /\ config = s.config /\ session = s.session /\ left = s.left
        /\ device = [u \in Profiles |-> IF u \in s.up THEN value[u] ELSE Down]
        /\ store = None
        /\ call = [p \in Procs |-> Idle]
        /\ applied = {} /\ user = value /\ drift = {} /\ moved = {}

-----------------------------------------------------------------------------
(* enable                                                                        *)

(* With a rollback file there, enable only reports whether it is in force;       *)
(* otherwise it reads all it is about to change.  Nothing to change, or a        *)
(* command that fails, ends it before any mutation.                              *)
enable(p) ==
    /\ Ready(p) /\ Spend("enable")
    /\ \/ Go(p, Return("enable", FALSE))
       \/ /\ HasEvidence
          /\ store.cfg = config /\ _payload_is_owned_and_active(store, session)
          /\ Go(p, Return("enable", TRUE))
       \/ /\ store = None /\ Active # {}
          /\ LET names == Active \cup (IF session = None THEN {} ELSE Fields(session))
             IN  Go(p, [Return("enable", TRUE) EXCEPT
                          !.pc = "save", !.client = session, !.active = Active,
                          !.payload = [cfg |-> config,
                                       saved |-> [n \in names |-> value[n]]]])
    /\ UNCHANGED <<world, store, history>>

(* Mutant of _save: a failed save goes unnoticed. *)
SaveUnchecked(p) ==
    /\ call[p].pc = "save"
    /\ Go(p, [call[p] EXCEPT !.pc = "profile", !.todo = call[p].active])
    /\ \/ store' = call[p].payload /\ UNCHANGED left
       \/ Spend("write") /\ UNCHANGED store
    /\ UNCHANGED <<world, history>>

(* JsonRollbackStore.save, which replaces the file atomically. *)
_save(p) ==
    /\ call[p].pc = "save"
    /\ \/ /\ store' = call[p].payload
          /\ Go(p, [call[p] EXCEPT !.pc = "profile", !.todo = call[p].active])
          /\ UNCHANGED left
       \/ Spend("write") /\ Go(p, Return("enable", FALSE)) /\ UNCHANGED store
    /\ UNCHANGED <<world, history>>

-----------------------------------------------------------------------------
(* Profiles and desktop, forwards (enable) and back (its rollback, disable).     *)

Restoring(c) == c.op \in {"rollback", "disable"}
Target(c, n) == IF Restoring(c) THEN c.payload.saved[n] ELSE Desired(n, c.payload.cfg)

(* Mutant of RollBack: only the profiles are put back. *)
RollBackProfiles(c) ==
    [c EXCEPT !.op = "rollback", !.pc = "profile", !.todo = c.touched \cap Profiles]
(* enable failed: the desktop, if it was touched, then the profiles touched. *)
RollBack(c) ==
    [c EXCEPT !.op = "rollback", !.todo = c.touched \cap Profiles,
              !.pc = IF c.touched \cap DesktopNames # {} THEN "url" ELSE "profile"]

(* A command failed: enable turns around, a restore remembers it and goes on. *)
Failed(c) == IF Restoring(c) THEN [c EXCEPT !.ok = FALSE] ELSE RollBack(c)

(* What a command that sets n does, whether it then reports success or not. *)
Write(c, n) ==
    /\ value' = [value EXCEPT ![n] = Target(c, n)]
    /\ applied' = IF Restoring(c) THEN applied \ {n} ELSE applied \cup {n}

(* set_proxy: one nmcli modify.  A profile that is gone fails it. *)
_set_proxy(p, u) ==
    LET c == [call[p] EXCEPT !.todo = @ \ {u}, !.touched = @ \cup {u}]
    IN  /\ c.pc = "profile" /\ u \in call[p].todo
        /\ \/ /\ value[u] # Gone /\ Write(c, u) /\ UNCHANGED left
              /\ Go(p, IF u \in c.active THEN [c EXCEPT !.pc = "reapply", !.at = u] ELSE c)
           \/ value[u] # Gone /\ Write(c, u) /\ Spend("command") /\ Go(p, Failed(c))
           \/ /\ value[u] # Gone /\ Spend("command") /\ Go(p, Failed(c))
              /\ UNCHANGED <<value, applied>>
           \/ value[u] = Gone /\ Go(p, Failed(c)) /\ UNCHANGED <<value, applied, left>>
        /\ UNCHANGED <<device, config, session, store, user, drift, moved>>

(* Mutant of _reapply: a restored profile is not pushed to its device. *)
ReapplyForwardOnly(p) ==
    LET c == [call[p] EXCEPT !.pc = "profile", !.at = None]
        u == call[p].at
    IN  /\ call[p].pc = "reapply" /\ Go(p, c)
        /\ device' = [device EXCEPT ![u] = IF Restoring(c) \/ @ = Down THEN @ ELSE value[u]]
        /\ UNCHANGED <<value, config, session, store, left, history>>

(* nmcli device reapply makes the connection use its profile as it now is; it    *)
(* fails if the connection is down.                                              *)
_reapply(p) ==
    LET c == [call[p] EXCEPT !.pc = "profile", !.at = None]
        u == call[p].at
    IN  /\ call[p].pc = "reapply"
        /\ \/ /\ device[u] # Down /\ Go(p, c) /\ UNCHANGED left
              /\ device' = [device EXCEPT ![u] = value[u]]
              /\ moved' = moved \ {u}
           \/ /\ device[u] # Down /\ Spend("command") /\ Go(p, Failed(c))
              /\ UNCHANGED <<device, moved>>
           \/ device[u] = Down /\ Go(p, Failed(c)) /\ UNCHANGED <<device, moved, left>>
        /\ UNCHANGED <<value, config, session, store, applied, user, drift>>

(* After the profiles enable goes on to the desktop, a restore to the rollback   *)
(* file, which stays if anything failed.                                         *)
_profiles_done(p) ==
    LET c == call[p]
    IN  /\ c.pc = "profile" /\ c.todo = {}
        /\ Go(p, IF Restoring(c)
                   THEN IF c.ok THEN [c EXCEPT !.pc = "clear"]
                        ELSE Return(IF c.op = "rollback" THEN "enable" ELSE c.op, FALSE)
                 ELSE IF SavedFields(c.payload) = {} THEN Return("enable", TRUE)
                 ELSE [c EXCEPT !.pc = "url"])
        /\ UNCHANGED <<world, store, left, history>>

(* set_state of the desktop client: the URL first, then the mode, then both are  *)
(* read back.                                                                    *)
_set_url(p) ==
    LET n == <<call[p].client, "url">>
        c == [call[p] EXCEPT !.touched = @ \cup {n}]
        given_up == Failed([c EXCEPT !.pc = "profile"])
    IN  /\ c.pc = "url"
        /\ \/ Write(c, n) /\ Go(p, [c EXCEPT !.pc = "mode"]) /\ UNCHANGED left
           \/ Write(c, n) /\ Spend("command") /\ Go(p, given_up)
           \/ Spend("command") /\ Go(p, given_up) /\ UNCHANGED <<value, applied>>
        /\ UNCHANGED <<device, config, session, store, user, drift, moved>>

_set_mode(p) ==
    LET c == call[p]
        given_up == Failed([c EXCEPT !.pc = "profile"])
    IN  /\ c.pc = "mode"
        /\ \/ /\ Write(c, <<c.client, "mode">>)
              /\ \/ /\ value[<<c.client, "url">>] = Target(c, <<c.client, "url">>)
                    /\ Go(p, IF Restoring(c) THEN [c EXCEPT !.pc = "profile"]
                             ELSE Return("enable", TRUE))
                    /\ UNCHANGED left
                 \/ /\ value[<<c.client, "url">>] # Target(c, <<c.client, "url">>)
                    /\ Go(p, given_up) /\ UNCHANGED left
                 \/ Spend("command") /\ Go(p, given_up)
           \/ Spend("command") /\ Go(p, given_up) /\ UNCHANGED <<value, applied>>
        /\ UNCHANGED <<device, config, session, store, user, drift, moved>>

(* JsonRollbackStore.clear *)
_clear(p) ==
    LET c == call[p]
    IN  /\ c.pc = "clear"
        /\ \/ /\ store' = None /\ UNCHANGED left
              /\ Go(p, IF c.op = "disable" THEN Return("disable", TRUE)
                       ELSE Return("enable", FALSE))
           \/ /\ Spend("write") /\ UNCHANGED store
              /\ Go(p, Return(IF c.op = "disable" THEN "disable" ELSE "enable", FALSE))
        /\ UNCHANGED <<world, history>>

-----------------------------------------------------------------------------
(* disable and sync_no_proxy                                                     *)

(* disable's restore of the desktop and then these profiles. *)
Restore(profiles) ==
    [Return("disable", TRUE) EXCEPT
       !.payload = store, !.client = session, !.active = Active, !.todo = profiles,
       !.pc = IF SavedFields(store) # {} THEN "url" ELSE "profile"]

(* Mutant of disable: a deleted profile is not passed over. *)
DisableDeletedToo(p) ==
    /\ Ready(p)
    /\ IF HasEvidence /\ OwnedOrSaved(store, session)
         THEN Go(p, Restore(SavedProfiles(store)))
         ELSE Go(p, Return("disable", store = None))
    /\ UNCHANGED <<world, store, left, history>>

(* Nothing to do without a rollback file; otherwise one foreign value refuses    *)
(* everything.  Deleted profiles are passed over.                                *)
disable(p) ==
    /\ Ready(p)
    /\ \/ store = None /\ Go(p, Return("disable", TRUE)) /\ UNCHANGED left
       \/ store # None /\ Spend("read") /\ Go(p, Return("disable", FALSE))
       \/ /\ store = Corrupt \/ (HasEvidence /\ ~OwnedOrSaved(store, session))
          /\ Go(p, Return("disable", FALSE)) /\ UNCHANGED left
       \/ /\ HasEvidence /\ OwnedOrSaved(store, session)
          /\ Go(p, Restore({u \in SavedProfiles(store) : value[u] # Gone}))
          /\ UNCHANGED left
    /\ UNCHANGED <<world, store, history>>

(* Mutant of sync_no_proxy: any new configuration is taken over. *)
SyncAnything(p) ==
    /\ Ready(p)
    /\ HasEvidence /\ _payload_is_owned_and_active(store, session)
    /\ Go(p, [Return("sync", TRUE) EXCEPT
                !.pc = "sync", !.payload = [store EXCEPT !.cfg = config]])
    /\ UNCHANGED <<world, store, left, history>>

(* sync_no_proxy writes the configuration of this moment into the rollback file, *)
(* if it differs at most in its bypass list and everything is in force; writing  *)
(* the same configuration again would change nothing.                            *)
sync_no_proxy(p) ==
    /\ Ready(p)
    /\ HasEvidence /\ store.cfg # config
    /\ store.cfg.pac = config.pac /\ _payload_is_owned_and_active(store, session)
    /\ Go(p, [Return("sync", TRUE) EXCEPT
                !.pc = "sync", !.payload = [store EXCEPT !.cfg = config]])
    /\ UNCHANGED <<world, store, left, history>>

_sync_save(p) ==
    /\ call[p].pc = "sync"
    /\ \/ store' = call[p].payload /\ Go(p, Return("sync", TRUE)) /\ UNCHANGED left
       \/ Spend("write") /\ Go(p, Return("sync", FALSE)) /\ UNCHANGED store
    /\ UNCHANGED <<world, history>>

-----------------------------------------------------------------------------
(* The world outside.                                                            *)

Pending == store # None \/ \E p \in Procs : ~Ready(p)

Crash(p) ==
    /\ ~Ready(p) /\ Spend("crash") /\ Go(p, Idle)
    /\ UNCHANGED <<world, store, history>>

(* Another program writes a governed value, in NetworkManager or the desktop. *)
ForeignWrite(n, v) ==
    /\ Spend("foreign") /\ value[n] \notin {v, Gone}
    /\ value' = [value EXCEPT ![n] = v]
    /\ user' = [user EXCEPT ![n] = v]
    /\ applied' = applied \ {n}
    /\ drift' = IF Pending THEN drift \cup {n} ELSE drift \ {n}
    /\ UNCHANGED <<device, config, session, store, call, moved>>

(* A connection comes up with what its profile says, or goes down. *)
Link(u) ==
    /\ Spend("link") /\ value[u] # Gone
    /\ device' = [device EXCEPT ![u] = IF @ = Down THEN value[u] ELSE Down]
    /\ moved' = IF \A p \in Procs : Ready(p) THEN moved \ {u} ELSE moved \cup {u}
    /\ UNCHANGED <<value, config, session, store, call, applied, user, drift>>

(* The user deletes a profile; its connection goes down. *)
DeleteProfile(u) ==
    /\ Spend("delete") /\ value[u] # Gone
    /\ value' = [value EXCEPT ![u] = Gone]
    /\ user' = [user EXCEPT ![u] = Gone]
    /\ device' = [device EXCEPT ![u] = Down]
    /\ applied' = applied \ {u}
    /\ drift' = drift \cup {u} /\ moved' = moved \cup {u}
    /\ UNCHANGED <<config, session, store, call>>

Damage ==
    /\ HasEvidence /\ (\A p \in Procs : Ready(p)) /\ Spend("corrupt")
    /\ store' = Corrupt
    /\ UNCHANGED <<world, call, history>>

(* The user edits ports or exclusions, or works from another session: a console  *)
(* without a bus, another desktop.                                               *)
ChangeSettings(c) ==
    /\ Spend("settings") /\ c # config /\ config' = c
    /\ UNCHANGED <<value, device, session, store, call, history>>
ChangeSession(s) ==
    /\ Spend("session") /\ s # session /\ session' = s
    /\ UNCHANGED <<value, device, config, store, call, history>>

Step(p) ==
    \/ _save(p) \/ _reapply(p) \/ _profiles_done(p) \/ _set_url(p) \/ _set_mode(p)
    \/ _clear(p) \/ _sync_save(p)
    \/ \E u \in Profiles : _set_proxy(p, u)

Next ==
    \/ \E p \in Procs :
         Step(p) \/ enable(p) \/ disable(p) \/ sync_no_proxy(p) \/ Crash(p)
    \/ \E n \in Names : \E v \in ForeignValues[n] : ForeignWrite(n, v)
    \/ \E u \in Profiles : Link(u) \/ DeleteProfile(u)
    \/ \E c \in Configs : ChangeSettings(c)
    \/ \E s \in Sessions : ChangeSession(s)
    \/ Damage

Spec == Init /\ [][Next]_vars

(* The user keeps asking for the network back, and a process that is not killed  *)
(* runs on.                                                                      *)
Fairness == \A p \in Procs : WF_vars(Step(p)) /\ SF_vars(disable(p))
FairSpec == Spec /\ Fairness

-----------------------------------------------------------------------------
(* Correctness.                                                                  *)

(* What the user had before can always be had back: the one rollback file holds  *)
(* the original of every value that differs from it, through failing commands,   *)
(* rollbacks that fail half way, kills and metadata updates, unless the file is  *)
(* damaged or another program wrote that same value meanwhile.                   *)
OriginalRecoverable ==
    \A n \in Names \ drift :
        \/ value[n] = user[n]
        \/ store = Corrupt
        \/ HasEvidence /\ n \in DOMAIN store.saved /\ store.saved[n] = user[n]

(* What the launcher wrote itself never refuses its own restore: at every point  *)
(* where it could die, disable accepts each value it left, in the session it was *)
(* enabled in, whatever the settings say by then.                                *)
OwnStateNeverForeign ==
    HasEvidence /\ drift \cap DOMAIN store.saved = {}
      => \A n \in DOMAIN store.saved :
           value[n] \in {store.saved[n], Desired(n, store.cfg)}

Returns(p, op, ok) ==
    /\ call[p].pc # "idle" \/ call'[p] # call[p]
    /\ call'[p].pc = "idle" /\ call'[p].op = op /\ call'[p].ok = ok

OwnPacs == {c.pac : c \in Configs}
(* Nobody but the launcher uses the URL of its PAC. *)
PacsAreOwn ==
    /\ \A s \in Scenarios : \A u \in Profiles : s.value[u] \notin OwnPacs
    /\ \A u \in Profiles : ForeignValues[u] \cap OwnPacs = {}

(* enable and disable report success only when it is true on every active        *)
(* connection, except one that went up or down while they, or an earlier call,   *)
(* were at work and was not reapplied since: what it was activated with stays.   *)
(* disable: nothing the launcher applied is left, in a profile, in the desktop   *)
(* or on a device.  enable: every profile that was active, and the desktop if    *)
(* there is one, points at the PAC of the configuration that was saved.  The     *)
(* devices do so too when enable did the work; when it found the work done, by a *)
(* process that was killed between modify and reapply, they may not: it reads    *)
(* profiles only.                                                                *)
ReturnsAreTruthful ==
    [][\A p \in Procs :
         /\ Returns(p, "disable", TRUE)
              => /\ applied' = {} /\ store' = None
                 /\ \A u \in Profiles \ moved' : device'[u] \notin OwnPacs
         /\ Returns(p, "enable", TRUE)
              => /\ store' \notin {None, Corrupt}
                 /\ \A n \in DOMAIN store'.saved \ drift' :
                      value'[n] = Desired(n, store'.cfg)
                 /\ call[p].pc # "idle" =>
                      \A u \in Profiles \ (moved' \cup drift') :
                        device'[u] \in {Down, store'.cfg.pac}]_vars

(* Trying disable again always ends with everything restored, unless a foreign   *)
(* value, a damaged file or the wrong session stands in the way.                 *)
RecoveryConverges ==
    <>[](HasEvidence => ~OwnedOrSaved(store, session))

Evidence == INSTANCE EvidenceProtocol WITH
    Governed <- Names, dirty <- applied,
    evidence <- IF store = None THEN "none"
                ELSE IF store = Corrupt THEN "ambiguous" ELSE "held"

(* The Linux backend implements EvidenceProtocol with one rollback file for all  *)
(* profiles and the desktop together: the file outlives a partly failed restore, *)
(* and no step changes a value without it.                                       *)
EvidenceRefines == Evidence!EvidenceSpec
=============================================================================
