------------------------ MODULE ConfigurationStorage ------------------------
(* configuration_storage.py: proxy_settings.json and its last-known-good copy,   *)
(* how they are saved, validated, quarantined and recovered by the GUI and the   *)
(* worker, which share them without a lock.                                      *)
(*                                                                               *)
(* One step is one file read and judged, replaced, or moved away.  os.replace is *)
(* atomic and temporary names are unique, so a killed process leaves a file as   *)
(* it was before or after a step.                                                *)
EXTENDS Naturals

CONSTANTS
    Procs,        \* the processes that load and save settings
    Ids,          \* configurations, told apart by anything but their credentials
    is_windows,   \* core.is_windows()
    NoFile,       \* a file that is not there
    Corrupt,      \* one that fails parsing or _validate_serialized_settings
    Scenarios     \* initial states, and how often each outside event may happen

Files == {"primary", "lastgood"}

(* A validated file: its credentials are plaintext, in a DPAPI blob, or absent. *)
Contents == [id : Ids, form : {"plain", "dpapi", "empty"}]
(* Settings in memory: with the credentials, or with empty ones. *)
Runtimes == [id : Ids, auth : BOOLEAN]
Events == {"save", "io", "dpapi", "crash", "damage"}

ASSUME StorageAssumption ==
    /\ is_windows \in BOOLEAN
    /\ NoFile \notin Contents /\ Corrupt \notin Contents /\ NoFile # Corrupt
    /\ \A s \in Scenarios :
         /\ s.procs \subseteq Procs /\ s.file \in [Files -> Contents \cup {NoFile}]
         /\ s.left \in [Events -> Nat]

VARIABLES
    procs,       \* the processes at work in this scenario
    file,        \* proxy_settings.json and proxy_settings.lastgood.json
    quarantine,  \* what lies in the quarantine directory
    call,        \* what each process is doing
    left,        \* what is left of the scenario's budget
    acked,       \* history: the last settings saved by the user that are not damaged
    damaged,     \* history: the files that were damaged and not mended since
    twofold      \* history: both files have been valid together

vars == <<procs, file, quarantine, call, left, acked, damaged, twofold>>

Valid(f) == file[f] \in Contents

Return(op, result) ==
    [pc |-> "idle", op |-> op, cfg |-> NoFile, disk |-> NoFile, previous |-> NoFile,
     result |-> result]
Go(p, c) == call' = [call EXCEPT ![p] = c]
Spend(k) == left[k] > 0 /\ left' = [left EXCEPT ![k] = @ - 1]

(* One process is at work. *)
Alone == \A p, q \in procs : p = q

(* _atomic_write_json on f, and a step that touches no file.  A damaged file that *)
(* is rewritten is mended, unless another process may have judged it before and  *)
(* move the new one away for the old one's damage.                               *)
Put(f, content) ==
    /\ file' = [file EXCEPT ![f] = content]
    /\ damaged' = IF Alone THEN damaged \ {f} ELSE damaged
    /\ twofold' = (twofold \/ \A g \in Files : file'[g] \in Contents)
Untouched == UNCHANGED <<file, quarantine, acked, damaged, twofold>>

Init ==
    /\ \E s \in Scenarios : procs = s.procs /\ file = s.file /\ left = s.left
    /\ quarantine = {}
    /\ call = [p \in Procs |-> Return("none", "none")]
    /\ acked = NoFile
    /\ damaged = {}
    /\ twofold = \A f \in Files : Valid(f)

-----------------------------------------------------------------------------
(* _decode_upstream_secrets of a file with legacy plaintext credentials; what a  *)
(* blob decodes to matters only to the caller, which may save any settings.      *)
Decoded(content) == [id |-> content.id, auth |-> content.form # "empty"]

(* _encode_settings_for_disk *)
Encoded(cfg) ==
    [id |-> cfg.id,
     form |-> IF ~cfg.auth THEN "empty" ELSE IF is_windows THEN "dpapi" ELSE "plain"]

(* _disk_contains_plaintext_credentials, where it matters. *)
LegacyPlain(content) == is_windows /\ content.form = "plain"

(* Mutant of load_settings: an unreadable file is recovered like a corrupt one. *)
LoadRecoversLocked(p, op) ==
    /\ call[p].pc = "idle"
    /\ \/ Valid("primary") /\ Go(p, Return(op, "runtime")) /\ UNCHANGED left
       \/ file["primary"] = Corrupt /\ op = "load"
          /\ Go(p, [Return(op, "none") EXCEPT !.pc = "quarantine"]) /\ UNCHANGED left
       \/ file["primary"] # NoFile /\ op = "load" /\ Spend("io")
          /\ Go(p, [Return(op, "none") EXCEPT !.pc = "quarantine"])
    /\ Untouched

(* load_settings: op is "load" for the governed load, "peek" for the read-only   *)
(* one of diagnostics.  Legacy plaintext credentials are saved again at once.    *)
load_settings(p, op) ==
    /\ call[p].pc = "idle"
    /\ \/ file["primary"] = NoFile /\ Go(p, Return(op, "defaults")) /\ UNCHANGED left
       \/ file["primary"] # NoFile /\ Spend("io") /\ Go(p, Return(op, "defaults"))
       \/ file["primary"] = Corrupt
          /\ Go(p, IF op = "peek" THEN Return(op, "defaults")
                   ELSE [Return(op, "none") EXCEPT !.pc = "quarantine"])
          /\ UNCHANGED left
       \/ /\ Valid("primary")
          /\ \/ LegacyPlain(file["primary"]) /\ op = "load"
                /\ Go(p, [Return(op, "none") EXCEPT !.pc = "save",
                            !.cfg = Decoded(file["primary"])])
             \/ ~(LegacyPlain(file["primary"]) /\ op = "load")
                /\ Go(p, Return(op, "runtime"))
          /\ UNCHANGED left
    /\ Untouched

(* _quarantine_corrupt_file: whatever is at the path now is moved away. *)
MoveToQuarantine(f) ==
    /\ file[f] # NoFile
    /\ quarantine' = quarantine \cup {file[f]}
    /\ file' = [file EXCEPT ![f] = NoFile]
    /\ UNCHANGED <<left, acked, damaged, twofold>>
QuarantineFails(f) == file[f] # NoFile /\ Spend("io") /\ Untouched
NothingThere(f) == file[f] = NoFile /\ UNCHANGED left /\ Untouched

(* _recover_corrupt_settings: a primary that stays where it is, is left alone. *)
_recover_primary(p) ==
    /\ call[p].pc = "quarantine"
    /\ \/ /\ MoveToQuarantine("primary") \/ NothingThere("primary")
          /\ Go(p, [call[p] EXCEPT !.pc = "lastgood"])
       \/ QuarantineFails("primary") /\ Go(p, Return("load", "defaults"))

(* The last-known-good copy is read; a plaintext one is encoded before it goes   *)
(* to the primary, and an encoder that fails here raises out of load_settings.   *)
_recover_lastgood(p) ==
    /\ call[p].pc = "lastgood"
    /\ \/ file["lastgood"] = NoFile /\ Go(p, Return("load", "defaults")) /\ UNCHANGED left
       \/ file["lastgood"] # NoFile /\ Spend("io") /\ Go(p, Return("load", "defaults"))
       \/ file["lastgood"] = Corrupt /\ Go(p, [call[p] EXCEPT !.pc = "drop"])
          /\ UNCHANGED left
       \/ /\ Valid("lastgood") /\ ~LegacyPlain(file["lastgood"])
          /\ Go(p, [call[p] EXCEPT !.pc = "restore", !.disk = file["lastgood"]])
          /\ UNCHANGED left
       \/ /\ Valid("lastgood") /\ LegacyPlain(file["lastgood"])
          /\ \/ Go(p, [call[p] EXCEPT !.pc = "restore",
                         !.disk = Encoded(Decoded(file["lastgood"]))])
                /\ UNCHANGED left
             \/ Spend("dpapi") /\ Go(p, Return("load", "raised"))
    /\ Untouched

_recover_drop(p) ==
    /\ call[p].pc = "drop"
    /\ \/ MoveToQuarantine("lastgood") \/ NothingThere("lastgood") \/ QuarantineFails("lastgood")
    /\ Go(p, Return("load", "defaults"))

_recover_restore(p) ==
    /\ call[p].pc = "restore"
    /\ \/ Put("primary", call[p].disk) /\ Go(p, Return("load", "runtime"))
          /\ acked' = (IF "primary" \in damaged THEN NoFile ELSE acked)
          /\ UNCHANGED <<quarantine, left>>
       \/ Spend("io") /\ Go(p, Return("load", "defaults")) /\ Untouched

-----------------------------------------------------------------------------
(* save_settings, called by the settings dialog with what the user entered. *)
save_settings(p, cfg) ==
    /\ call[p].pc = "idle"
    /\ Spend("save")
    /\ Go(p, [Return("save", "none") EXCEPT !.pc = "save", !.cfg = cfg])
    /\ Untouched

(* A migrating load returns what it read whether its save succeeded or not. *)
Saved(c, ok) ==
    IF c.op = "load" THEN Return("load", "runtime")
    ELSE Return("save", IF ok THEN "saved" ELSE "failed")

Acknowledged(c) == IF c.op = "save" THEN c.cfg ELSE acked

(* Mutants of _save_judge: the previous file is copied without being judged; or  *)
(* with its plaintext credentials.                                               *)
SaveUnjudged(p) ==
    /\ call[p].pc = "save"
    /\ Go(p, [call[p] EXCEPT !.pc = "write", !.disk = Encoded(call[p].cfg)])
    /\ Put("lastgood", file["primary"])
    /\ UNCHANGED <<quarantine, left, acked>>
SaveKeepsPlain(p) ==
    LET c == [call[p] EXCEPT !.disk = Encoded(call[p].cfg)]
    IN  /\ call[p].pc = "save"
        /\ Go(p, IF Valid("primary")
                   THEN [c EXCEPT !.pc = "snapshot", !.previous = file["primary"]]
                   ELSE [c EXCEPT !.pc = "write"])
        /\ UNCHANGED left /\ Untouched

(* The settings are encoded (without DPAPI nothing is saved), and the file they  *)
(* will replace is read: any I/O error ends the save, a corrupt file goes to     *)
(* quarantine, a plaintext one is not kept.  Settings that fail validation end   *)
(* the save before this step and change nothing.                                 *)
_save_judge(p) ==
    LET c == [call[p] EXCEPT !.disk = Encoded(call[p].cfg)]
    IN  /\ call[p].pc = "save"
        /\ \/ c.disk.form = "dpapi" /\ Spend("dpapi") /\ Go(p, Saved(c, FALSE))
           \/ Spend("io") /\ Go(p, Saved(c, FALSE))
           \/ file["primary"] = Corrupt /\ Go(p, [c EXCEPT !.pc = "discard"])
              /\ UNCHANGED left
           \/ /\ Valid("primary") /\ ~LegacyPlain(file["primary"])
              /\ Go(p, [c EXCEPT !.pc = "snapshot", !.previous = file["primary"]])
              /\ UNCHANGED left
           \/ /\ file["primary"] = NoFile \/ (Valid("primary") /\ LegacyPlain(file["primary"]))
              /\ Go(p, [c EXCEPT !.pc = "write"])
              /\ UNCHANGED left
        /\ Untouched

(* The validated previous configuration becomes the last-known-good one. *)
_save_snapshot(p) ==
    /\ call[p].pc = "snapshot"
    /\ \/ Put("lastgood", call[p].previous) /\ Go(p, [call[p] EXCEPT !.pc = "write"])
          /\ UNCHANGED <<quarantine, left, acked>>
       \/ Spend("io") /\ Go(p, Saved(call[p], FALSE)) /\ Untouched

_save_discard(p) ==
    /\ call[p].pc = "discard"
    /\ \/ /\ MoveToQuarantine("primary") \/ NothingThere("primary")
          /\ Go(p, [call[p] EXCEPT !.pc = "write"])
       \/ QuarantineFails("primary") /\ Go(p, Saved(call[p], FALSE))

(* Mutant of _save_write: a failed replace is reported as success. *)
WriteUnchecked(p) ==
    /\ call[p].pc = "write"
    /\ \/ Put("primary", call[p].disk) /\ UNCHANGED <<quarantine, left>>
       \/ Spend("io") /\ UNCHANGED <<file, quarantine, damaged, twofold>>
    /\ acked' = Acknowledged(call[p])
    /\ Go(p, Saved(call[p], TRUE))

_save_write(p) ==
    /\ call[p].pc = "write"
    /\ \/ /\ Put("primary", call[p].disk)
          /\ acked' = Acknowledged(call[p])
          /\ Go(p, Saved(call[p], TRUE))
          /\ UNCHANGED <<quarantine, left>>
       \/ Spend("io") /\ Go(p, Saved(call[p], FALSE)) /\ Untouched

-----------------------------------------------------------------------------
(* A process is killed, or its machine loses power. *)
Crash(p) ==
    /\ call[p].pc # "idle"
    /\ Spend("crash")
    /\ Go(p, Return("none", "none"))
    /\ Untouched

(* A file is damaged by the disk, an editor or a newer version. *)
Damage(f) ==
    /\ Valid(f)
    /\ Spend("damage")
    /\ file' = [file EXCEPT ![f] = Corrupt]
    /\ damaged' = damaged \cup {f}
    /\ UNCHANGED <<quarantine, call, acked, twofold>>

Step ==
    \/ \E p \in procs :
         \/ \E op \in {"load", "peek"} : load_settings(p, op)
         \/ \E cfg \in Runtimes : save_settings(p, cfg)
         \/ _recover_primary(p) \/ _recover_lastgood(p) \/ _recover_drop(p)
         \/ _recover_restore(p)
         \/ _save_judge(p) \/ _save_snapshot(p) \/ _save_discard(p) \/ _save_write(p)
         \/ Crash(p)
    \/ \E f \in Files : Damage(f)

Next == Step /\ UNCHANGED procs

Spec == Init /\ [][Next]_vars

-----------------------------------------------------------------------------
(* CORRUPTED_CONFIGURATION_RECOVERY.md: what is moved into quarantine is         *)
(* corrupted; a valid configuration, or one that was merely locked, never is, as *)
(* long as one process is at work: a second one may replace the file between the *)
(* judgement and the move.                                                       *)
QuarantineIsCorrupt == Alone => quarantine \subseteq {Corrupt}

(* Once save_settings has told the user True, that configuration is the one on   *)
(* disk, through failed saves, recoveries, migrations and kills, until a later   *)
(* save succeeds, the file is damaged from outside, or a second process moves it *)
(* away.                                                                         *)
AckedIsCurrent ==
    Alone /\ acked # NoFile /\ "primary" \notin damaged =>
        Valid("primary") /\ file["primary"].id = acked.id

(* ATOMIC_CONFIGURATION_WRITES.md: from the moment both generations exist, a     *)
(* valid configuration is on disk at every step, whatever fails or is killed,    *)
(* unless both files were damaged.  This holds for the GUI and the worker        *)
(* together, however their loads, saves and recoveries interleave.               *)
GoodCopyRemains ==
    twofold /\ damaged # Files => \E f \in Files : Valid(f)

(* SECRETS_BOUNDARY.md: on Windows no step makes a plaintext copy of the         *)
(* credentials, in the last-known-good file or, through a recovery from an old   *)
(* one, in the primary.                                                          *)
NoSecondPlainCopy ==
    [][\A f \in Files :
         file'[f] # file[f] /\ file'[f] \in Contents => ~LegacyPlain(file'[f])]_vars

(* CORRUPTED_CONFIGURATION_RECOVERY.md: "a validated last-known-good             *)
(* configuration is restored atomically when available": a governed load does    *)
(* not answer with the defaults while a valid last-known-good file is there.     *)
LastGoodIsRestored ==
    [][\A p \in Procs :
         call'[p] # call[p] /\ call'[p].op = "load" /\ call'[p].result = "defaults"
           => ~Valid("lastgood")]_vars
=============================================================================
