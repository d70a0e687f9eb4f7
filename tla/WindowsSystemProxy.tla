------------------------- MODULE WindowsSystemProxy -------------------------
(* windows_system_proxy.py with the Run-key half of recovery_autostart.py, the   *)
(* orphan cleanup of windows_pac_recovery.py and the import of older backups by  *)
(* application_filesystem.py: how launcher processes put their PAC into WinINET  *)
(* and their proxy into the user environment, and how they take them out again.  *)
(*                                                                               *)
(* One step is one registry value written or deleted, one backup file replaced   *)
(* or removed, or one decision on what was read.  Between two steps another      *)
(* program may write any governed value, the process may die, and another        *)
(* launcher process (if Procs has one) may be in the middle of its own call:     *)
(* nothing in the code serialises launcher processes.                            *)
EXTENDS Naturals, Sequences

CONSTANTS
    Procs,            \* launcher processes: --start worker, --stop, GUI, ...
    InternetNames,    \* _INTERNET_SETTINGS_NAMES, in order
    EnvNames,         \* _PROXY_ENV_NAMES, in order
    Scalars,          \* registry values other than NO_PROXY lists
    Absent,           \* {"exists": False}
    Zero,             \* the DWORD 0
    Entries,          \* entries of a NO_PROXY list
    DEFAULT_NO_PROXY, \* core.DEFAULT_NO_PROXY
    Endpoints,        \* local ports and pac_path of proxy_settings.json
    pac_url,          \* pac_url(settings), per endpoint
    local_proxy,      \* http://127.0.0.1:<local_http_port>, per endpoint
    Policies,         \* contents no_proxy.txt may have
    Scenarios,        \* what is found at the start, and how often what may happen
    ForeignValues,    \* what other programs may write into each value
    legacy_backups,   \* the backups an older installation left behind
    NoFile, Invalid   \* a backup file that is missing, or fails its validation

Stores == {"internet", "env"}
Names(s) == IF s = "internet" THEN InternetNames ELSE EnvNames
NameSet(s) == {Names(s)[i] : i \in 1..Len(Names(s))}
AllNames == NameSet("internet") \cup NameSet("env")
Values == Scalars \cup SUBSET Entries
ValuesOf(n) == IF n = "NO_PROXY" THEN {Absent} \cup SUBSET Entries ELSE Scalars
Registry(names) == {f \in [names -> Values] : \A n \in names : f[n] \in ValuesOf(n)}
Snapshots(s) == Registry(NameSet(s))
AnySnapshot == Snapshots("internet") \cup Snapshots("env")
RunClasses == {"missing", "owned", "temporary", "legacy", "foreign"}
Events == {"enable", "write", "read", "crash", "foreign", "corrupt", "settings",
           "import"}

ASSUME NamesAssumption ==
    /\ InternetNames \in Seq(STRING) /\ EnvNames \in Seq(STRING)
    /\ {"AutoConfigURL", "ProxyEnable", "AutoDetect"} \subseteq NameSet("internet")
    /\ "NO_PROXY" \in NameSet("env")
    /\ NameSet("internet") \cap NameSet("env") = {}

ASSUME ValuesAssumption ==
    /\ Absent \in Scalars /\ Zero \in Scalars
    /\ DEFAULT_NO_PROXY \subseteq Entries
    /\ pac_url \in [Endpoints -> Scalars]
    /\ local_proxy \in [Endpoints -> Scalars]
    /\ Policies \subseteq SUBSET Entries
    /\ \A s \in Scenarios :
         /\ s.reg \in Registry(AllNames) /\ s.endpoint \in Endpoints
         /\ s.no_proxy \in Policies /\ s.run \in RunClasses
         /\ s.left \in [Events -> Nat]
    /\ \A n \in AllNames : ForeignValues[n] \subseteq ValuesOf(n)
    /\ NoFile \notin AnySnapshot /\ Invalid \notin AnySnapshot
    /\ NoFile # Invalid
    /\ legacy_backups \in [Stores -> {NoFile, Invalid} \cup AnySnapshot]
    /\ \A s \in Stores : legacy_backups[s] \in {NoFile, Invalid} \cup Snapshots(s)

VARIABLES
    reg,        \* the governed registry values, Internet Settings and Environment
    backup,     \* proxy_internet_backup.json and proxy_env_backup.json
    endpoint,   \* ports in proxy_settings.json
    no_proxy,   \* no_proxy.txt
    run,        \* class of the ArvectumProxyLauncherRecovery Run value
    call,       \* what each launcher process is doing
    left,       \* how often each fault or outside event may still happen
    applied,    \* history: the names whose value the launcher applied
    user,       \* history: what the user or another program last put there
    drift,      \* history: names other programs wrote while a call or a backup
                \*   was pending, that could not be read for a backup, or whose
                \*   backup is that of an older installation
    edited      \* history: stores whose settings were edited while a call or a
                \*   backup was pending

vars == <<reg, backup, endpoint, no_proxy, run, call, left, applied, user, drift, edited>>
history == <<applied, user, drift, edited>>

-----------------------------------------------------------------------------
(* What the launcher writes and what it recognises as its own.                   *)

(* _combined_no_proxy: the user's own entries, the defaults, the current policy. *)
combined_no_proxy(original, policy) ==
    (IF original = Absent THEN {} ELSE original) \cup DEFAULT_NO_PROXY \cup policy

(* _applied_internet_state and the applied table of                              *)
(* _env_state_is_owned_or_saved: the value the launcher gives to n.              *)
AppliedValue(n, e, policy, saved) ==
    CASE n = "AutoConfigURL" -> pac_url[e]
      [] n \in {"ProxyEnable", "AutoDetect"} -> Zero
      [] n = "NO_PROXY" -> combined_no_proxy(saved[n], policy)
      [] n \in NameSet("env") \ {"NO_PROXY"} -> local_proxy[e]
      [] OTHER -> saved[n]

(* The values enable_system_proxy writes, in its order. *)
ApplyOrder(s) ==
    IF s = "internet" THEN <<"AutoConfigURL", "ProxyEnable", "AutoDetect">>
                      ELSE EnvNames

(* _valid_internet_backup and its counterpart for the environment. *)
HasEvidence(s) == backup[s] \notin {NoFile, Invalid}

(* _internet_state_is_owned_or_saved, _env_state_is_owned_or_saved: every value  *)
(* is what was saved or what the settings of this moment would apply.            *)
OwnedOrSaved(s, saved, view) ==
    \A n \in NameSet(s) :
        view[n] \in {saved[n], AppliedValue(n, endpoint, no_proxy, saved)}

system_proxy_enabled ==
    /\ reg["AutoConfigURL"] = pac_url[endpoint]
    /\ reg["ProxyEnable"] = Zero
    /\ reg["AutoDetect"] = Zero

network_restore_pending == \E s \in Stores : backup[s] # NoFile

(* _read_internet_settings answers None on an error; _read_user_env answers      *)
(* "absent" for the one value it could not read.                                 *)
View(lost) == [n \in AllNames |-> IF n \in lost THEN Absent ELSE reg[n]]

-----------------------------------------------------------------------------
(* Calls: where a launcher process is inside enable, disable, ...                *)

PCs == {"idle", "save", "commit", "apply", "autostart", "restore", "unwind",
        "remove", "finish", "verdict", "recheck", "heal", "sync", "sync_write",
        "orphan", "orphan_delete", "import"}
Ops == {"none", "enable", "undo", "rollback", "disable", "reassert", "sync", "orphan",
        "import"}

(* A process between calls remembers what its last call was and returned. *)
Return(op, ok) ==
    [pc |-> "idle", op |-> op, store |-> "internet", idx |-> 1, ok |-> ok,
     sok |-> TRUE, saved |-> NoFile, cfg |-> NoFile]
Idle == Return("none", FALSE)

Begin(pc, op) == [Return(op, TRUE) EXCEPT !.pc = pc]
(* Mutant of Advance: ok = <write>, the last write alone decides. *)
AdvanceForgetting(c, ok) == [c EXCEPT !.idx = @ + 1, !.sok = ok]
(* On to the next value of a loop: ok = <write> and ok. *)
Advance(c, ok) == [c EXCEPT !.idx = @ + 1, !.sok = @ /\ ok]
Ready(p) == call[p].pc = "idle"
Go(p, c) == call' = [call EXCEPT ![p] = c]
(* A call or a backup is pending. *)
AtWork == network_restore_pending \/ \E p \in Procs : ~Ready(p)
Spend(k) == left[k] > 0 /\ left' = [left EXCEPT ![k] = @ - 1]

Init ==
    /\ \E s \in Scenarios :
         /\ reg = s.reg /\ endpoint = s.endpoint /\ no_proxy = s.no_proxy
         /\ run = s.run /\ left = s.left
    /\ backup = [s \in Stores |-> NoFile]
    /\ call = [p \in Procs |-> Idle]
    /\ applied = {}
    /\ user = reg
    /\ drift = {}
    /\ edited = {}

-----------------------------------------------------------------------------
(* enable_system_proxy                                                           *)

(* settings, and with them the PAC URL and the port, are read once. *)
enable_system_proxy(p) ==
    /\ Ready(p)
    /\ Spend("enable")
    /\ Go(p, [Begin("save", "enable") EXCEPT !.cfg = endpoint])
    /\ UNCHANGED <<reg, backup, endpoint, no_proxy, run, history>>

(* Mutant of Refused: the missing environment backup does not fail the call. *)
RefusedUnnoticed(c) ==
    IF c.store = "internet" THEN Return("enable", FALSE)
    ELSE [c EXCEPT !.pc = "autostart"]

(* Without a WinINET backup enable returns at once; without an environment       *)
(* backup it goes on to its rollback.                                            *)
Refused(c) ==
    IF c.store = "internet" THEN Return("enable", FALSE)
    ELSE [c EXCEPT !.pc = "autostart", !.ok = FALSE]

(* Mutants of _save_backup: the evidence is captured afresh at every enable; or  *)
(* again whenever the file there is not valid.                                   *)
SaveAfresh(p) ==
    LET c == call[p]
    IN  /\ c.pc = "save"
        /\ Go(p, [c EXCEPT !.pc = "commit", !.saved = [n \in NameSet(c.store) |-> reg[n]]])
        /\ UNCHANGED <<reg, backup, endpoint, no_proxy, run, left, history>>
SaveOverInvalid(p) ==
    LET c == call[p]
    IN  /\ c.pc = "save"
        /\ Go(p, IF HasEvidence(c.store)
                   THEN [c EXCEPT !.pc = "apply", !.idx = 1, !.sok = TRUE,
                                  !.saved = backup[c.store]]
                   ELSE [c EXCEPT !.pc = "commit",
                                  !.saved = [n \in NameSet(c.store) |-> reg[n]]])
        /\ UNCHANGED <<reg, backup, endpoint, no_proxy, run, left, history>>

(* _save_internet_backup and the first half of _enable_client_proxy_env: a valid *)
(* backup is kept as it is, an invalid one is never overwritten, otherwise the   *)
(* current values are read.                                                      *)
_save_backup(p) ==
    LET c == call[p]
    IN  /\ c.pc = "save"
        /\ \/ /\ HasEvidence(c.store)
              /\ Go(p, [c EXCEPT !.pc = "apply", !.idx = 1, !.sok = TRUE,
                                 !.saved = backup[c.store]])
              /\ UNCHANGED <<left, drift>>
           \/ backup[c.store] = Invalid /\ Go(p, Refused(c)) /\ UNCHANGED <<left, drift>>
           \/ /\ backup[c.store] = NoFile
              /\ c.store = "internet" /\ Spend("read") /\ Go(p, Refused(c))
              /\ UNCHANGED drift
           \/ /\ backup[c.store] = NoFile
              /\ \E lost \in SUBSET NameSet(c.store) :
                   /\ IF lost = {} THEN UNCHANGED left
                                   ELSE c.store = "env" /\ Spend("read")
                   /\ Go(p, [c EXCEPT !.pc = "commit",
                               !.saved = [n \in NameSet(c.store) |-> View(lost)[n]]])
                   /\ drift' = drift \cup lost
        /\ UNCHANGED <<reg, backup, endpoint, no_proxy, run, applied, user, edited>>

(* Mutants of _commit_backup: a failed write of the backup goes unnoticed; or    *)
(* both halves write the same file.                                              *)
CommitUnchecked(p) ==
    LET c == call[p]
    IN  /\ c.pc = "commit"
        /\ Go(p, [c EXCEPT !.pc = "apply", !.idx = 1, !.sok = TRUE])
        /\ \/ backup' = [backup EXCEPT ![c.store] = c.saved] /\ UNCHANGED left
           \/ Spend("write") /\ UNCHANGED backup
        /\ UNCHANGED <<reg, endpoint, no_proxy, run, history>>
CommitToOneFile(p) ==
    LET c == call[p]
    IN  /\ c.pc = "commit"
        /\ Go(p, [c EXCEPT !.pc = "apply", !.idx = 1, !.sok = TRUE])
        /\ backup' = [backup EXCEPT !["internet"] = c.saved]
        /\ UNCHANGED <<reg, endpoint, no_proxy, run, left, history>>

(* The temporary file replaces the backup path, or the write fails. *)
_commit_backup(p) ==
    LET c == call[p]
    IN  /\ c.pc = "commit"
        /\ \/ /\ backup' = [backup EXCEPT ![c.store] = c.saved]
              /\ Go(p, [c EXCEPT !.pc = "apply", !.idx = 1, !.sok = TRUE])
              /\ UNCHANGED left
           \/ Spend("write") /\ Go(p, Refused(c)) /\ UNCHANGED backup
        /\ UNCHANGED <<reg, endpoint, no_proxy, run, history>>

(* After the WinINET values the environment follows, whether they were written   *)
(* or not; a failed environment update is undone on the spot.                    *)
AfterApply(c) ==
    IF c.store = "internet"
      THEN [c EXCEPT !.pc = "save", !.store = "env", !.ok = c.sok, !.saved = NoFile]
      ELSE IF c.sok THEN [c EXCEPT !.pc = "autostart"]
           ELSE [c EXCEPT !.pc = "restore", !.op = "undo", !.ok = FALSE]

(* Mutant of _apply_value: NO_PROXY is written without the user's own entries.   *)
ApplyWithoutUserEntries(p) ==
    LET c == call[p]
        n == ApplyOrder(c.store)[c.idx]
    IN  /\ c.pc = "apply"
        /\ reg' = [reg EXCEPT ![n] =
                     AppliedValue(n, c.cfg, no_proxy, [c.saved EXCEPT ![n] = Absent])]
        /\ applied' = applied \cup {n}
        /\ Go(p, IF c.idx < Len(ApplyOrder(c.store)) THEN Advance(c, TRUE)
                                                    ELSE AfterApply(c))
        /\ UNCHANGED <<backup, endpoint, no_proxy, run, left, user, drift, edited>>

(* One _reg_set or _write_user_env of the three and the four. *)
_apply_value(p) ==
    LET c == call[p]
        n == ApplyOrder(c.store)[c.idx]
        After(ok) ==
          IF c.idx < Len(ApplyOrder(c.store))
            THEN Advance(c, ok)
            ELSE AfterApply([c EXCEPT !.sok = @ /\ ok])
    IN  /\ c.pc = "apply"
        /\ \/ /\ reg' = [reg EXCEPT ![n] = AppliedValue(n, c.cfg, no_proxy, c.saved)]
              /\ applied' = applied \cup {n}
              /\ Go(p, After(TRUE))
              /\ UNCHANGED left
           \/ Spend("write") /\ Go(p, After(FALSE)) /\ UNCHANGED <<reg, applied>>
        /\ UNCHANGED <<backup, endpoint, no_proxy, run, user, drift, edited>>

(* _enable_recovery_autostart: a Run value of the launcher's own is deleted, an  *)
(* unreadable or foreign one is left alone.  Then enable returns True, or starts *)
(* its rollback.                                                                 *)
_enable_recovery_autostart(p) ==
    LET c == call[p]
        After(ok) == IF c.ok /\ ok THEN Return("enable", TRUE)
                     ELSE [c EXCEPT !.pc = "restore", !.op = "rollback",
                                    !.store = "internet", !.ok = FALSE]
    IN  /\ c.pc = "autostart"
        /\ \/ run \in {"missing", "foreign"} /\ Go(p, After(TRUE))
              /\ UNCHANGED <<run, left>>
           \/ Spend("read") /\ Go(p, After(TRUE)) /\ UNCHANGED run
           \/ run \in {"owned", "temporary", "legacy"} /\ run' = "missing"
              /\ Go(p, After(TRUE)) /\ UNCHANGED left
           \/ run \in {"owned", "temporary", "legacy"} /\ Spend("write")
              /\ Go(p, After(FALSE)) /\ UNCHANGED run
        /\ UNCHANGED <<reg, backup, endpoint, no_proxy, history>>

-----------------------------------------------------------------------------
(* _restore_internet_backup and _disable_client_proxy_env, on behalf of          *)
(* disable_system_proxy, of enable's rollback, or of the undo above.             *)

(* Mutant of disable_system_proxy: nothing to do unless the PAC is active. *)
DisableIfActive(p) ==
    /\ Ready(p)
    /\ Go(p, IF system_proxy_enabled THEN Begin("restore", "disable")
                                     ELSE Return("disable", FALSE))
    /\ UNCHANGED <<reg, backup, endpoint, no_proxy, run, left, history>>

disable_system_proxy(p) ==
    /\ Ready(p)
    /\ Go(p, Begin("restore", "disable"))
    /\ UNCHANGED <<reg, backup, endpoint, no_proxy, run, left, history>>

AfterRestore(c, ok) ==
    IF c.op = "undo" THEN [c EXCEPT !.op = "enable", !.pc = "autostart", !.saved = NoFile]
    ELSE IF c.store = "internet"
      THEN [c EXCEPT !.pc = "restore", !.store = "env", !.ok = @ /\ ok, !.saved = NoFile]
      ELSE [c EXCEPT !.pc = "finish", !.ok = @ /\ ok, !.saved = NoFile]

(* Without valid evidence nothing is touched: the WinINET half calls that        *)
(* success, the environment half failure.  With evidence, one foreign value      *)
(* among the current ones refuses the whole restore.                             *)
_restore_check(p) ==
    LET c == call[p]
    IN  /\ c.pc = "restore"
        /\ \/ /\ ~HasEvidence(c.store)
              /\ Go(p, AfterRestore(c, c.store = "internet"))
              /\ UNCHANGED left
           \/ /\ HasEvidence(c.store) /\ c.store = "internet"
              /\ Spend("read") /\ Go(p, AfterRestore(c, FALSE))
           \/ /\ HasEvidence(c.store)
              /\ \E lost \in SUBSET NameSet(c.store) :
                   /\ IF lost = {} THEN UNCHANGED left
                                   ELSE c.store = "env" /\ Spend("read")
                   /\ IF OwnedOrSaved(c.store, backup[c.store], View(lost))
                        THEN Go(p, [c EXCEPT !.pc = "unwind", !.idx = 1, !.sok = TRUE,
                                             !.saved = backup[c.store]])
                        ELSE Go(p, AfterRestore(c, FALSE))
        /\ UNCHANGED <<reg, backup, endpoint, no_proxy, run, history>>

(* One saved value written back, or deleted if it did not exist; a failure does  *)
(* not stop the ones after it, but keeps the backup.                             *)
_restore_value(p) ==
    LET c == call[p]
        n == Names(c.store)[c.idx]
        After(ok) ==
          IF c.idx < Len(Names(c.store)) THEN Advance(c, ok)
          ELSE IF c.sok /\ ok THEN [c EXCEPT !.pc = "remove"]
          ELSE AfterRestore(c, FALSE)
    IN  /\ c.pc = "unwind"
        /\ \/ /\ reg' = [reg EXCEPT ![n] = c.saved[n]]
              /\ applied' = applied \ {n}
              /\ Go(p, After(TRUE))
              /\ UNCHANGED left
           \/ Spend("write") /\ Go(p, After(FALSE)) /\ UNCHANGED <<reg, applied>>
        /\ UNCHANGED <<backup, endpoint, no_proxy, run, user, drift, edited>>

_remove_backup(p) ==
    LET c == call[p]
    IN  /\ c.pc = "remove"
        /\ \/ /\ backup' = [backup EXCEPT ![c.store] = NoFile]
              /\ Go(p, AfterRestore(c, TRUE))
              /\ UNCHANGED left
           \/ Spend("write") /\ Go(p, AfterRestore(c, FALSE)) /\ UNCHANGED backup
        /\ UNCHANGED <<reg, endpoint, no_proxy, run, history>>

(* _disable_recovery_autostart, whose own failure nobody looks at. *)
_disable_recovery_autostart ==
    \/ run \in {"owned", "temporary"} /\ run' = "missing" /\ UNCHANGED left
    \/ run \in {"owned", "temporary"} /\ UNCHANGED run /\ Spend("write")
    \/ run \notin {"owned", "temporary"} /\ UNCHANGED <<run, left>>

(* The end of enable's rollback; disable_system_proxy looks whether its PAC is    *)
(* still active (an unreadable key counts as inactive) and a backup still there,  *)
(* and cleans up the Run value if not.                                            *)
_finish(p) ==
    LET c == call[p]
        verdict == [c EXCEPT !.pc = "verdict", !.ok = @ /\ ~network_restore_pending]
    IN  /\ c.pc = "finish"
        /\ \/ /\ c.op = "rollback"
              /\ _disable_recovery_autostart
              /\ Go(p, Return("enable", FALSE))
           \/ /\ c.op = "disable" /\ ~network_restore_pending /\ ~system_proxy_enabled
              /\ _disable_recovery_autostart
              /\ Go(p, verdict)
           \/ /\ c.op = "disable" /\ ~network_restore_pending
              /\ Spend("read")
              /\ run' = IF run \in {"owned", "temporary"} THEN "missing" ELSE run
              /\ Go(p, verdict)
           \/ /\ c.op = "disable" /\ (network_restore_pending \/ system_proxy_enabled)
              /\ Go(p, verdict)
              /\ UNCHANGED <<run, left>>
        /\ UNCHANGED <<reg, backup, endpoint, no_proxy, history>>

(* It looks at the PAC once more, and returns. *)
_verdict(p) ==
    /\ call[p].pc = "verdict"
    /\ \/ Go(p, Return("disable", call[p].ok /\ ~system_proxy_enabled)) /\ UNCHANGED left
       \/ Spend("read") /\ Go(p, Return("disable", call[p].ok))
    /\ UNCHANGED <<reg, backup, endpoint, no_proxy, run, history>>

-----------------------------------------------------------------------------
(* reassert_missing_owned_pac: the worker's self-healing poll.                   *)

(* eligible: nothing but the PAC itself is missing from the applied state. *)
Eligible(saved) ==
    /\ reg["AutoConfigURL"] = Absent
    /\ reg["ProxyEnable"] = Zero
    /\ reg["AutoDetect"] = Zero
    /\ \A n \in NameSet("internet") \ {"AutoConfigURL", "ProxyEnable", "AutoDetect"} :
         reg[n] = saved[n]

reassert_missing_owned_pac(p) ==
    /\ Ready(p)
    /\ ~system_proxy_enabled
    /\ HasEvidence("internet")
    /\ backup["internet"]["AutoConfigURL"] = Absent
    /\ Eligible(backup["internet"])
    /\ Go(p, [Begin("recheck", "reassert") EXCEPT !.saved = backup["internet"]])
    /\ UNCHANGED <<reg, backup, endpoint, no_proxy, run, left, history>>

(* Read again just before the write; the worker gives up, too, when its stop     *)
(* event is set or the key cannot be read.                                       *)
_reassert_recheck(p) ==
    /\ call[p].pc = "recheck"
    /\ \/ Eligible(call[p].saved) /\ Go(p, [call[p] EXCEPT !.pc = "heal"])
       \/ Go(p, Return("reassert", FALSE))
    /\ UNCHANGED <<reg, backup, endpoint, no_proxy, run, left, history>>

(* "restored" if the whole state reads as active afterwards. *)
_reassert_write(p) ==
    /\ call[p].pc = "heal"
    /\ \/ /\ reg' = [reg EXCEPT !["AutoConfigURL"] = pac_url[endpoint]]
          /\ applied' = applied \cup {"AutoConfigURL"}
          /\ Go(p, Return("reassert", reg["ProxyEnable"] = Zero /\ reg["AutoDetect"] = Zero))
          /\ UNCHANGED left
       \/ Spend("write") /\ Go(p, Return("reassert", FALSE)) /\ UNCHANGED <<reg, applied>>
    /\ UNCHANGED <<backup, endpoint, no_proxy, run, user, drift, edited>>

-----------------------------------------------------------------------------
(* Edits of the settings, and sync_client_no_proxy.                              *)

(* The GUI's exclusions dialog saves no_proxy.txt and synchronises NO_PROXY only *)
(* if it finds the worker running.                                               *)
save_no_proxy(p, policy) ==
    /\ Ready(p) /\ policy # no_proxy
    /\ Spend("settings")
    /\ no_proxy' = policy
    /\ Go(p, Begin("sync", "sync")) \/ Go(p, Return("sync", FALSE))
    /\ edited' = IF AtWork THEN edited \cup {"env"} ELSE edited
    /\ UNCHANGED <<reg, backup, endpoint, run, applied, user, drift>>

(* proxy_settings.json with other ports: saved by hand, or fallen back to the    *)
(* defaults because the file was damaged.                                        *)
change_endpoint(e) ==
    /\ e # endpoint
    /\ Spend("settings")
    /\ endpoint' = e
    /\ edited' = IF AtWork THEN Stores ELSE edited
    /\ UNCHANGED <<reg, backup, no_proxy, run, call, applied, user, drift>>

sync_client_no_proxy(p) ==
    /\ call[p].pc = "sync"
    /\ Go(p, IF HasEvidence("env")
               THEN [call[p] EXCEPT !.pc = "sync_write", !.saved = backup["env"]]
               ELSE Return("sync", backup["env"] = NoFile))
    /\ UNCHANGED <<reg, backup, endpoint, no_proxy, run, left, history>>

_sync_write(p) ==
    LET v == combined_no_proxy(call[p].saved["NO_PROXY"], no_proxy)
    IN  /\ call[p].pc = "sync_write"
        /\ \/ /\ reg' = [reg EXCEPT !["NO_PROXY"] = v]
              /\ applied' = applied \cup {"NO_PROXY"}
              /\ Go(p, Return("sync", TRUE))
              /\ UNCHANGED left
           \/ Spend("write") /\ Go(p, Return("sync", FALSE)) /\ UNCHANGED <<reg, applied>>
        /\ UNCHANGED <<backup, endpoint, no_proxy, run, user, drift, edited>>

-----------------------------------------------------------------------------
(* clear_orphaned_arvectum_pac, at the user's request: our PAC with no backup of *)
(* any kind beside it.  Whether the engine listens, and where the launcher is    *)
(* installed, is left open.                                                      *)
clear_orphaned_arvectum_pac(p) ==
    /\ Ready(p)
    /\ reg["AutoConfigURL"] = pac_url[endpoint]
    /\ backup["internet"] = NoFile
    /\ Go(p, Begin("orphan", "orphan"))
    /\ UNCHANGED <<reg, backup, endpoint, no_proxy, run, left, history>>

(* Read again; then the diagnostic snapshot is written, or is not. *)
_orphan_recheck(p) ==
    /\ call[p].pc = "orphan"
    /\ \/ /\ reg["AutoConfigURL"] = pac_url[endpoint]
          /\ Go(p, [call[p] EXCEPT !.pc = "orphan_delete"])
          /\ UNCHANGED left
       \/ /\ reg["AutoConfigURL"] # pac_url[endpoint]
          /\ Go(p, Return("orphan", FALSE))
          /\ UNCHANGED left
       \/ Spend("write") /\ Go(p, Return("orphan", FALSE))
    /\ UNCHANGED <<reg, backup, endpoint, no_proxy, run, history>>

_orphan_delete(p) ==
    /\ call[p].pc = "orphan_delete"
    /\ \/ /\ reg' = [reg EXCEPT !["AutoConfigURL"] = Absent]
          /\ applied' = applied \ {"AutoConfigURL"}
          /\ user' = [user EXCEPT !["AutoConfigURL"] = Absent]
          /\ Go(p, Return("orphan", TRUE))
          /\ UNCHANGED left
       \/ Spend("write") /\ Go(p, Return("orphan", FALSE)) /\ UNCHANGED <<reg, applied, user>>
    /\ UNCHANGED <<backup, endpoint, no_proxy, run, drift, edited>>

-----------------------------------------------------------------------------
(* ensure_state_ready, once in every launcher process.                           *)

ensure_state_ready(p) ==
    /\ Ready(p)
    /\ Spend("import")
    /\ Go(p, Begin("import", "import"))
    /\ UNCHANGED <<reg, backup, endpoint, no_proxy, run, history>>

(* A backup of an older installation is copied to where the current one would    *)
(* be, if there is none: at the first start, and again after every restore.      *)
_import_backup(p) ==
    LET c == call[p]
        After == IF c.store = "internet" THEN [c EXCEPT !.store = "env"]
                                         ELSE Return("import", TRUE)
    IN  /\ c.pc = "import"
        /\ \/ /\ legacy_backups[c.store] = NoFile \/ backup[c.store] # NoFile
              /\ Go(p, After)
              /\ UNCHANGED <<backup, left, drift>>
           \/ /\ legacy_backups[c.store] # NoFile /\ backup[c.store] = NoFile
              /\ backup' = [backup EXCEPT ![c.store] = legacy_backups[c.store]]
              /\ drift' = drift \cup NameSet(c.store)
              /\ Go(p, After)
              /\ UNCHANGED left
           \/ /\ legacy_backups[c.store] # NoFile /\ backup[c.store] = NoFile
              /\ Spend("write") /\ Go(p, Return("import", FALSE))
              /\ UNCHANGED <<backup, drift>>
        /\ UNCHANGED <<reg, endpoint, no_proxy, run, applied, user, edited>>

-----------------------------------------------------------------------------
(* The world outside.                                                            *)

(* A launcher process is killed between two steps. *)
Crash(p) ==
    /\ ~Ready(p)
    /\ Spend("crash")
    /\ Go(p, Idle)
    /\ UNCHANGED <<reg, backup, endpoint, no_proxy, run, history>>

StoreOf(n) == IF n \in NameSet("internet") THEN "internet" ELSE "env"

(* A VPN, an administrator or the user writes a governed value. *)
ForeignWrite(n, v) ==
    /\ Spend("foreign")
    /\ reg[n] # v
    /\ reg' = [reg EXCEPT ![n] = v]
    /\ user' = [user EXCEPT ![n] = v]
    /\ applied' = applied \ {n}
    /\ drift' = IF backup[StoreOf(n)] # NoFile \/ \E p \in Procs : ~Ready(p)
                  THEN drift \cup {n} ELSE drift \ {n}
    /\ UNCHANGED <<backup, endpoint, no_proxy, run, call, edited>>

(* A backup file is found damaged (it is written without fsync). *)
Corrupt(s) ==
    /\ HasEvidence(s)
    /\ \A p \in Procs : Ready(p)
    /\ Spend("corrupt")
    /\ backup' = [backup EXCEPT ![s] = Invalid]
    /\ UNCHANGED <<reg, endpoint, no_proxy, run, call, history>>

(* A process inside a call takes its next step. *)
Step(p) ==
    \/ _save_backup(p) \/ _commit_backup(p) \/ _apply_value(p)
    \/ _enable_recovery_autostart(p)
    \/ _restore_check(p) \/ _restore_value(p) \/ _remove_backup(p)
    \/ _finish(p) \/ _verdict(p)
    \/ _reassert_recheck(p) \/ _reassert_write(p)
    \/ sync_client_no_proxy(p) \/ _sync_write(p)
    \/ _orphan_recheck(p) \/ _orphan_delete(p)
    \/ _import_backup(p)

Next ==
    \/ \E p \in Procs :
         \/ Step(p) \/ Crash(p)
         \/ enable_system_proxy(p) \/ disable_system_proxy(p) \/ ensure_state_ready(p)
         \/ reassert_missing_owned_pac(p) \/ clear_orphaned_arvectum_pac(p)
         \/ \E policy \in Policies : save_no_proxy(p, policy)
    \/ \E e \in Endpoints : change_endpoint(e)
    \/ \E n \in AllNames : \E v \in ForeignValues[n] : ForeignWrite(n, v)
    \/ \E s \in Stores : Corrupt(s)

Spec == Init /\ [][Next]_vars

-----------------------------------------------------------------------------
(* Correctness.                                                                  *)

Calls == [pc : PCs, op : Ops, store : Stores, idx : Nat, ok : BOOLEAN, sok : BOOLEAN,
          saved : {NoFile} \cup AnySnapshot,
          cfg : Endpoints \cup {NoFile}]

(* Registry and files hold values of their kind, and a readable backup has every *)
(* value of its store (_valid_internet_backup).                                  *)
TypeOK ==
    /\ reg \in Registry(AllNames)
    /\ backup \in [Stores -> {NoFile, Invalid} \cup AnySnapshot]
    /\ \A s \in Stores : HasEvidence(s) => backup[s] \in Snapshots(s)
    /\ endpoint \in Endpoints
    /\ no_proxy \in Policies
    /\ run \in RunClasses
    /\ call \in [Procs -> Calls]
    /\ left \in [Events -> Nat]
    /\ applied \subseteq AllNames
    /\ user \in Registry(AllNames)
    /\ drift \subseteq AllNames
    /\ edited \subseteq Stores

(* "Original user state is captured before mutation ... and backup evidence is   *)
(* removed only after successful restore" (windows_system_proxy.py): whatever    *)
(* fails, dies or interferes, a value the launcher applied is never left without *)
(* a backup file for its store.                                                  *)
EvidenceCoversApplied ==
    \A s \in Stores : applied \cap NameSet(s) # {} => backup[s] # NoFile

(* The value the user had can always be had back: it is in the registry, or in   *)
(* the backup file, unless that file is damaged, another program wrote the same  *)
(* value while the launcher was at work, that value could not be read when the   *)
(* backup was made, or the backup is that of an older installation.  In          *)
(* particular neither a write by another program to one value nor an edit of the *)
(* settings costs the user a different one.                                      *)
OriginalRecoverable ==
    \A s \in Stores : \A n \in NameSet(s) \ drift :
        \/ reg[n] = user[n]
        \/ backup[s] = Invalid
        \/ HasEvidence(s) /\ backup[s][n] = user[n]

(* As long as no other program has interfered and nobody has edited the ports or *)
(* the exclusions meanwhile, the launcher never mistakes what it wrote itself    *)
(* for foreign: at every step at which it could die, the state it leaves behind  *)
(* is one _restore_internet_backup and _disable_client_proxy_env accept.         *)
OwnStateNeverForeign ==
    \A s \in Stores :
        HasEvidence(s) /\ drift \cap NameSet(s) = {} /\ s \notin edited
          => OwnedOrSaved(s, backup[s], reg)

(* Process p returns ok from a call of op in this step. *)
Returns(p, op, ok) ==
    /\ call[p].pc # "idle" /\ call'[p].pc = "idle"
    /\ call'[p].op = op /\ call'[p].ok = ok

(* disable_system_proxy says True only when nothing the launcher applied is left *)
(* and no backup is pending; enable_system_proxy says True only with both        *)
(* backups durable.                                                              *)
ReturnsAreTruthful ==
    [][\A p \in Procs :
         /\ Returns(p, "disable", TRUE) => applied' = {} /\ ~network_restore_pending'
         /\ Returns(p, "enable", TRUE) => \A s \in Stores : HasEvidence(s)']_vars

(* An interrupted or partly failed enable or disable is always recovered by      *)
(* trying disable again, unless a value written by another program or a damaged  *)
(* backup stands in the way.                                                     *)
RecoveryConverges ==
    <>[](\A s \in Stores :
           HasEvidence(s) => ~OwnedOrSaved(s, backup[s], reg))

(* The user, or the GUI on his behalf, keeps asking for the network back, and a  *)
(* process that is not killed runs on.                                           *)
Fairness ==
    \A p \in Procs : WF_vars(Step(p)) /\ SF_vars(disable_system_proxy(p))

FairSpec == Spec /\ Fairness

(* Each store follows the evidence protocol.                                     *)
EvidenceOf(s) ==
    IF backup[s] = NoFile THEN "none"
    ELSE IF backup[s] = Invalid THEN "ambiguous" ELSE "held"

Internet == INSTANCE EvidenceProtocol WITH
    Governed <- NameSet("internet"),
    evidence <- EvidenceOf("internet"), dirty <- applied \cap NameSet("internet")

Env == INSTANCE EvidenceProtocol WITH
    Governed <- NameSet("env"),
    evidence <- EvidenceOf("env"), dirty <- applied \cap NameSet("env")

(* The WinINET half of the backend implements EvidenceProtocol: no step changes  *)
(* a value without readable evidence, removes evidence with a changed value      *)
(* left, or replaces evidence that is ambiguous.                                 *)
InternetRefines == Internet!EvidenceSpec
(* The same for the environment half. *)
EnvRefines == Env!EvidenceSpec
=============================================================================
