--------------------- MODULE ConfigurationStorageProofs ---------------------
(* Proofs about the settings files, for any processes, configurations, platform, *)
(* initial files and budgets of faults.                                          *)
EXTENDS ConfigurationStorage, TLAPS

USE StorageAssumption

-----------------------------------------------------------------------------
(* Inductive invariants.                                                         *)

RecoverPCs == {"quarantine", "lastgood", "drop", "restore"}
SavePCs == {"save", "snapshot", "discard", "write"}
Calls ==
    [pc : {"idle"} \cup RecoverPCs \cup SavePCs, op : {"none", "load", "peek", "save"},
     cfg : Runtimes \cup {NoFile}, disk : Contents \cup {NoFile},
     previous : Contents \cup {NoFile},
     result : {"none", "defaults", "runtime", "raised", "saved", "failed"}]

StorageTyped ==
    /\ procs \subseteq Procs
    /\ file \in [Files -> Contents \cup {NoFile, Corrupt}]
    /\ call \in [Procs -> Calls]
    /\ left \in [Events -> Nat]
    /\ acked \in Runtimes \cup {NoFile}
    /\ damaged \subseteq Files
    /\ twofold \in BOOLEAN

(* What may be written on a file: no plaintext credentials on Windows. *)
Writable(content) == content \in Contents /\ ~LegacyPlain(content)

(* What a process has in hand is fit for what it is about to do. *)
CallOK(c) ==
    /\ c \in Calls
    /\ c.pc \in RecoverPCs => c.op = "load"
    /\ c.pc \in SavePCs => c.op \in {"load", "save"} /\ c.cfg \in Runtimes
    /\ c.pc \in {"snapshot", "discard", "write"} => c.disk = Encoded(c.cfg)
    /\ c.pc = "snapshot" => Writable(c.previous)
    /\ c.pc = "restore" => Writable(c.disk)

(* A process moves a file away only for damage, its own or an earlier file's; so *)
(* once both files were there, one that was not damaged still is.                *)
Judged ==
    /\ \A f \in Files : file[f] = Corrupt => f \in damaged
    /\ \A p \in procs : /\ call[p].pc \in {"quarantine", "discard"} => "primary" \in damaged
                        /\ call[p].pc = "drop" => "lastgood" \in damaged
    /\ twofold => \A f \in Files \ damaged : Valid(f)

(* One process at work finds the files as it judged them: what it moves away is  *)
(* corrupt, a recovery has a damaged primary, and a migrating load saves what    *)
(* the user saved.                                                               *)
Undisturbed ==
    /\ \A f \in damaged : ~Valid(f)
    /\ \A p \in procs :
         /\ call[p].pc \in {"quarantine", "discard"} => file["primary"] = Corrupt
         /\ call[p].pc = "drop" => file["lastgood"] = Corrupt
         /\ call[p].pc \in RecoverPCs => "primary" \in damaged
         /\ call[p].pc \in SavePCs /\ call[p].op = "load" /\ acked # NoFile
              => call[p].cfg.id = acked.id

StorageInv ==
    /\ StorageTyped /\ \A p \in Procs : CallOK(call[p])
    /\ Judged
    /\ Alone => Undisturbed
    /\ QuarantineIsCorrupt /\ AckedIsCurrent

-----------------------------------------------------------------------------
(* Operators.                                                                    *)

(* _encode_settings_for_disk leaves no plaintext credentials on Windows. *)
LEMMA EncodedWritable ==
    ASSUME NEW cfg \in Runtimes
    PROVE  Writable(Encoded(cfg)) /\ Encoded(cfg).id = cfg.id
  BY DEF Writable, Encoded, Runtimes, Contents, LegacyPlain

LEMMA DecodedRuntime ==
    ASSUME NEW content \in Contents
    PROVE  Decoded(content) \in Runtimes /\ Decoded(content).id = content.id
  BY DEF Decoded, Runtimes, Contents

LEMMA ReturnOK ==
    ASSUME NEW op \in {"none", "load", "peek", "save"},
           NEW result \in {"none", "defaults", "runtime", "raised", "saved", "failed"}
    PROVE  CallOK(Return(op, result)) /\ Return(op, result).pc = "idle"
  BY DEF CallOK, Calls, Return, RecoverPCs, SavePCs

LEMMA SpendTyped ==
    ASSUME StorageInv, NEW k \in Events, Spend(k)
    PROVE  left' \in [Events -> Nat]
  BY DEF StorageInv, StorageTyped, Spend

LEMMA FilesAre == Files = {"primary", "lastgood"} /\ "primary" # "lastgood"
  BY DEF Files

-----------------------------------------------------------------------------
(* Three kinds of step: no file is touched, ...                                  *)
LEMMA GoKeeps ==
    ASSUME StorageInv, UNCHANGED procs, NEW p \in procs, NEW c, Go(p, c), CallOK(c),
           Untouched, left' \in [Events -> Nat],
           c.pc \in {"quarantine", "discard"} => file["primary"] = Corrupt,
           c.pc = "drop" => file["lastgood"] = Corrupt,
           c.pc \in RecoverPCs => c.pc = "quarantine" \/ call[p].pc \in RecoverPCs,
           Alone /\ c.pc \in SavePCs /\ c.op = "load" /\ acked # NoFile
             => c.cfg.id = acked.id
    PROVE  StorageInv'
  <1>0. StorageTyped /\ Judged /\ (Alone => Undisturbed) /\ QuarantineIsCorrupt
        /\ AckedIsCurrent /\ p \in Procs
    BY DEF StorageInv, StorageTyped
  <1>1. UNCHANGED <<file, quarantine, acked, damaged, twofold>>
    BY DEF Untouched
  <1>2. /\ call' = [call EXCEPT ![p] = c] /\ call' \in [Procs -> Calls]
        /\ \A q \in Procs : call'[q] = IF q = p THEN c ELSE call[q]
    BY <1>0 DEF Go, StorageTyped, CallOK
  <1>3. StorageTyped' /\ \A q \in Procs : CallOK(call'[q])
    BY <1>0, <1>1, <1>2 DEF StorageInv, StorageTyped
  <1>4. Judged'
    BY <1>0, <1>1, <1>2, FilesAre DEF Judged, Valid, StorageTyped
  <1>5. (Alone => Undisturbed)'
    <2>1. ASSUME Alone PROVE Undisturbed'
      <3>1. Undisturbed /\ \A q \in procs : q = p
        BY <1>0, <2>1 DEF Alone
      <3>2. c.pc = "quarantine" => "primary" \in damaged
        BY <1>0, FilesAre DEF Judged
      <3> QED BY <1>0, <1>1, <1>2, <2>1, <3>1, <3>2 DEF Undisturbed, Valid
    <2> QED BY <2>1 DEF Alone
  <1>6. QuarantineIsCorrupt' /\ AckedIsCurrent'
    BY <1>0, <1>1 DEF QuarantineIsCorrupt, AckedIsCurrent, Alone, Valid
  <1>7. \A q \in Procs : CallOK(call[q])'
    BY <1>3 DEF CallOK, Writable, LegacyPlain, Encoded
  <1> QED BY <1>3, <1>4, <1>5, <1>6, <1>7 DEF StorageInv

(* ... a file goes to quarantine, ...                                            *)
LEMMA MoveKeeps ==
    ASSUME StorageInv, UNCHANGED procs, NEW p \in procs, NEW c, Go(p, c), CallOK(c),
           NEW f \in Files, MoveToQuarantine(f),
           \/ f = "primary" /\ call[p].pc \in {"quarantine", "discard"}
           \/ f = "lastgood" /\ call[p].pc = "drop",
           \/ c.pc = "idle"
           \/ c.pc = "lastgood" /\ call[p].pc = "quarantine"
           \/ c.pc = "write" /\ call[p].pc = "discard"
                /\ c.op = call[p].op /\ c.cfg = call[p].cfg
    PROVE  StorageInv'
  <1>0. StorageTyped /\ Judged /\ (Alone => Undisturbed) /\ QuarantineIsCorrupt
        /\ AckedIsCurrent /\ p \in Procs
    BY DEF StorageInv, StorageTyped
  <1>1. /\ quarantine' = quarantine \cup {file[f]} /\ file' = [file EXCEPT ![f] = NoFile]
        /\ UNCHANGED <<left, acked, damaged, twofold>>
    BY DEF MoveToQuarantine
  <1>2. /\ call' \in [Procs -> Calls]
        /\ \A q \in Procs : call'[q] = IF q = p THEN c ELSE call[q]
    BY <1>0 DEF Go, StorageTyped, CallOK
  <1>3. f \in damaged
    BY <1>0 DEF Judged
  <1>4. /\ file' \in [Files -> Contents \cup {NoFile, Corrupt}]
        /\ \A g \in Files : file'[g] = IF g = f THEN NoFile ELSE file[g]
    BY <1>0, <1>1 DEF StorageTyped
  <1>5. StorageTyped' /\ \A q \in Procs : CallOK(call'[q])
    BY <1>0, <1>1, <1>2, <1>4 DEF StorageInv, StorageTyped
  <1>6. Judged'
    <2>1. ASSUME NEW g \in Files \ damaged, twofold PROVE Valid(g)'
      BY <1>0, <1>3, <1>4, <2>1 DEF Judged, Valid
    <2>2. \A g \in Files : file'[g] = Corrupt => g \in damaged
      BY <1>0, <1>4 DEF Judged
    <2>3. \A q \in procs :
            /\ call'[q].pc \in {"quarantine", "discard"} => "primary" \in damaged
            /\ call'[q].pc = "drop" => "lastgood" \in damaged
      BY <1>0, <1>2 DEF Judged, StorageTyped
    <2> QED BY <1>1, <2>1, <2>2, <2>3 DEF Judged
  <1>7. (Alone => Undisturbed)'
    <2>1. ASSUME Alone PROVE Undisturbed'
      <3>1. Undisturbed /\ \A q \in procs : q = p
        BY <1>0, <2>1 DEF Alone
      <3>2. \A g \in damaged' : ~Valid(g)'
        BY <1>0, <1>1, <1>4, <3>1 DEF Undisturbed, Valid, StorageTyped
      <3>3. c.pc \in RecoverPCs => "primary" \in damaged
        BY <1>0, <3>1, FilesAre DEF Undisturbed, RecoverPCs
      <3>4. c.pc \in SavePCs /\ c.op = "load" /\ acked # NoFile => c.cfg.id = acked.id
        BY <3>1 DEF Undisturbed, SavePCs
      <3>5. c.pc \notin {"quarantine", "discard", "drop"}
        OBVIOUS
      <3> QED BY <1>1, <1>2, <1>0, <3>1, <3>2, <3>3, <3>4, <3>5 DEF Undisturbed
    <2> QED BY <2>1 DEF Alone
  <1>8. QuarantineIsCorrupt'
    BY <1>0, <1>1 DEF QuarantineIsCorrupt, Alone, Undisturbed
  <1>9. AckedIsCurrent'
    BY <1>0, <1>1, <1>3, <1>4, FilesAre DEF AckedIsCurrent, Alone, Valid
  <1>10. \A q \in Procs : CallOK(call[q])'
    BY <1>5 DEF CallOK, Writable, LegacyPlain, Encoded
  <1> QED BY <1>5, <1>6, <1>7, <1>8, <1>9, <1>10 DEF StorageInv

(* ... or a file is replaced.                                                    *)
LEMMA PutKeeps ==
    ASSUME StorageInv, UNCHANGED procs, NEW p \in procs, NEW c, Go(p, c), CallOK(c),
           NEW f \in Files, NEW content, Writable(content), Put(f, content),
           UNCHANGED <<quarantine, left>>, acked' \in Runtimes \cup {NoFile},
           \/ c.pc = "idle"
           \/ c.pc = "write" /\ call[p].pc = "snapshot" /\ c.op = call[p].op
                /\ c.cfg = call[p].cfg /\ acked' = acked,
           Alone /\ f = "primary" /\ acked' # NoFile => content.id = acked'.id,
           f = "lastgood" => acked' = acked
    PROVE  StorageInv'
  <1>0. StorageTyped /\ Judged /\ (Alone => Undisturbed) /\ QuarantineIsCorrupt
        /\ AckedIsCurrent /\ p \in Procs
    BY DEF StorageInv, StorageTyped
  <1>1. /\ file' = [file EXCEPT ![f] = content]
        /\ damaged' = IF Alone THEN damaged \ {f} ELSE damaged
        /\ twofold' = (twofold \/ \A g \in Files : file'[g] \in Contents)
    BY DEF Put
  <1>2. /\ call' \in [Procs -> Calls]
        /\ \A q \in Procs : call'[q] = IF q = p THEN c ELSE call[q]
    BY <1>0 DEF Go, StorageTyped, CallOK
  <1>3. content \in Contents /\ content # Corrupt /\ content # NoFile
    BY DEF Writable
  <1>4. /\ file' \in [Files -> Contents \cup {NoFile, Corrupt}]
        /\ \A g \in Files : file'[g] = IF g = f THEN content ELSE file[g]
    BY <1>0, <1>1, <1>3 DEF StorageTyped
  <1>5. twofold' \in BOOLEAN /\ damaged' \subseteq Files
        /\ (twofold' => twofold \/ \A g \in Files : file'[g] \in Contents)
    BY <1>0, <1>1 DEF StorageTyped
  <1>6. StorageTyped' /\ \A q \in Procs : CallOK(call'[q])
    BY <1>0, <1>2, <1>4, <1>5 DEF StorageInv, StorageTyped
  <1>7. damaged' = damaged \/ (Alone /\ damaged' = damaged \ {f})
    BY <1>1
  <1>8. Judged'
    <2>1. \A g \in Files : file'[g] = Corrupt => g # f /\ g \in damaged'
      BY <1>0, <1>3, <1>4, <1>7 DEF Judged
    <2>2. ASSUME NEW g \in Files \ damaged', twofold' PROVE Valid(g)'
      BY <1>0, <1>3, <1>4, <1>5, <1>7, <2>2 DEF Judged, Valid
    <2>3. ASSUME NEW q \in procs
          PROVE  /\ call'[q].pc \in {"quarantine", "discard"} => "primary" \in damaged'
                 /\ call'[q].pc = "drop" => "lastgood" \in damaged'
      <3>1. CASE q = p
        BY <1>0, <1>2, <3>1
      <3>2. CASE q # p
        <4>1. ~Alone
          BY <3>2 DEF Alone
        <4> QED BY <1>0, <1>2, <1>7, <3>2, <4>1 DEF Judged, StorageTyped
      <3> QED BY <3>1, <3>2
    <2> QED BY <2>1, <2>2, <2>3 DEF Judged
  <1>9. (Alone => Undisturbed)'
    <2>1. ASSUME Alone PROVE Undisturbed'
      <3>1. Undisturbed /\ damaged' = damaged \ {f} /\ \A q \in procs : q = p
        BY <1>0, <1>1, <2>1 DEF Alone
      <3>2. \A g \in damaged' : ~Valid(g)'
        BY <1>0, <1>4, <3>1 DEF Undisturbed, Valid, StorageTyped
      <3>3. c.pc \in {"idle", "write"} /\ c.pc \notin RecoverPCs
        BY DEF RecoverPCs
      <3>4. c.pc \in SavePCs /\ c.op = "load" /\ acked' # NoFile => c.cfg.id = acked'.id
        BY <3>1 DEF Undisturbed, SavePCs
      <3> QED BY <1>0, <1>2, <3>1, <3>2, <3>3, <3>4 DEF Undisturbed
    <2> QED BY <2>1 DEF Alone
  <1>10. QuarantineIsCorrupt'
    BY <1>0 DEF QuarantineIsCorrupt, Alone
  <1>11. AckedIsCurrent'
    BY <1>0, <1>3, <1>4, <1>7, FilesAre DEF AckedIsCurrent, Alone, Valid
  <1>12. \A q \in Procs : CallOK(call[q])'
    BY <1>6 DEF CallOK, Writable, LegacyPlain, Encoded
  <1> QED BY <1>6, <1>8, <1>9, <1>10, <1>11, <1>12 DEF StorageInv

-----------------------------------------------------------------------------
(* The operations.                                                               *)

LEMMA StorageInit == Init => StorageInv
  <1> SUFFICES ASSUME Init PROVE StorageInv
    OBVIOUS
  <1>1. PICK s \in Scenarios : procs = s.procs /\ file = s.file /\ left = s.left
    BY DEF Init
  <1>2. procs \subseteq Procs /\ file \in [Files -> Contents \cup {NoFile}]
        /\ left \in [Events -> Nat]
    BY <1>1
  <1>3. CallOK(Return("none", "none")) /\ Return("none", "none").pc = "idle"
        /\ \A p \in Procs : call[p] = Return("none", "none")
    BY ReturnOK DEF Init
  <1>4. call \in [Procs -> Calls]
    BY <1>3 DEF Init, CallOK
  <1>5. twofold \in BOOLEAN /\ (twofold => \A f \in Files : Valid(f)) /\ damaged = {}
        /\ acked = NoFile /\ quarantine = {}
    BY DEF Init
  <1>6. StorageTyped
    BY <1>2, <1>4, <1>5 DEF StorageTyped
  <1>7. Judged /\ Undisturbed
    BY <1>2, <1>3, <1>5 DEF Judged, Undisturbed, RecoverPCs, SavePCs
  <1> QED BY <1>3, <1>5, <1>6, <1>7 DEF StorageInv, QuarantineIsCorrupt, AckedIsCurrent

LEMMA LoadKeeps ==
    ASSUME StorageInv, UNCHANGED procs, NEW p \in procs, NEW op \in {"load", "peek"},
           load_settings(p, op)
    PROVE  StorageInv'
  <1> DEFINE q == [Return(op, "none") EXCEPT !.pc = "quarantine"]
             m == [Return(op, "none") EXCEPT !.pc = "save", !.cfg = Decoded(file["primary"])]
  <1>1. Untouched
    BY DEF load_settings
  <1>2. left' \in [Events -> Nat]
    <2>1. "io" \in Events /\ (left' = left \/ Spend("io"))
      BY DEF load_settings, Events
    <2> QED BY <2>1, SpendTyped DEF StorageInv, StorageTyped
  <1>3. \A r \in {"defaults", "runtime"} :
          CallOK(Return(op, r)) /\ Return(op, r).pc = "idle"
    BY ReturnOK
  <1>4. op = "load" => CallOK(q) /\ q.pc = "quarantine"
    BY DEF CallOK, Calls, Return, RecoverPCs, SavePCs
  <1>5. Valid("primary") /\ op = "load" =>
          CallOK(m) /\ m.pc = "save" /\ m.cfg.id = file["primary"].id
    <2>1. Valid("primary") => Decoded(file["primary"]) \in Runtimes
                              /\ Decoded(file["primary"]).id = file["primary"].id
      BY DecodedRuntime DEF Valid
    <2> QED BY <2>1 DEF CallOK, Calls, Return, RecoverPCs, SavePCs
  <1>6. Valid("primary") /\ Alone /\ acked # NoFile => file["primary"].id = acked.id
    <2>1. Valid("primary") /\ Alone => "primary" \notin damaged
      BY FilesAre DEF StorageInv, Undisturbed
    <2> QED BY <2>1 DEF StorageInv, AckedIsCurrent
  <1>7. PICK c : /\ Go(p, c)
                 /\ \/ c \in {Return(op, "defaults"), Return(op, "runtime")}
                    \/ file["primary"] = Corrupt /\ op = "load" /\ c = q
                    \/ Valid("primary") /\ op = "load" /\ c = m
    BY DEF load_settings
  <1> HIDE DEF q, m
  <1>8. /\ CallOK(c) /\ (c.pc \in {"quarantine", "discard"} => file["primary"] = Corrupt)
        /\ c.pc # "drop" /\ (c.pc \in RecoverPCs => c.pc = "quarantine")
        /\ (Alone /\ c.pc \in SavePCs /\ acked # NoFile => c.cfg.id = acked.id)
    BY <1>3, <1>4, <1>5, <1>6, <1>7 DEF RecoverPCs, SavePCs
  <1> QED BY <1>1, <1>2, <1>7, <1>8, GoKeeps

LEMMA SaveCallKeeps ==
    ASSUME StorageInv, UNCHANGED procs, NEW p \in procs, NEW cfg \in Runtimes,
           save_settings(p, cfg)
    PROVE  StorageInv'
  <1> DEFINE c == [Return("save", "none") EXCEPT !.pc = "save", !.cfg = cfg]
  <1>1. CallOK(c) /\ c.pc = "save" /\ c.op = "save"
    BY DEF CallOK, Calls, Return, RecoverPCs, SavePCs
  <1>2. Go(p, c) /\ Untouched /\ Spend("save") /\ "save" \in Events
    BY DEF save_settings, Events
  <1>3. left' \in [Events -> Nat]
    BY <1>2, SpendTyped
  <1> HIDE DEF c
  <1> QED BY <1>1, <1>2, <1>3, GoKeeps DEF RecoverPCs

LEMMA CrashKeeps ==
    ASSUME StorageInv, UNCHANGED procs, NEW p \in procs, Crash(p)
    PROVE  StorageInv'
  <1>1. CallOK(Return("none", "none")) /\ Return("none", "none").pc = "idle"
    BY ReturnOK
  <1>2. Go(p, Return("none", "none")) /\ Untouched /\ Spend("crash") /\ "crash" \in Events
    BY DEF Crash, Events
  <1>3. left' \in [Events -> Nat]
    BY <1>2, SpendTyped
  <1> QED BY <1>1, <1>2, <1>3, GoKeeps DEF RecoverPCs, SavePCs

LEMMA DamageKeeps ==
    ASSUME StorageInv, UNCHANGED procs, NEW f \in Files, Damage(f)
    PROVE  StorageInv'
  <1>0. StorageTyped /\ Judged /\ (Alone => Undisturbed) /\ QuarantineIsCorrupt
        /\ AckedIsCurrent /\ \A p \in Procs : CallOK(call[p])
    BY DEF StorageInv
  <1>1. /\ Valid(f) /\ file' = [file EXCEPT ![f] = Corrupt] /\ damaged' = damaged \cup {f}
        /\ UNCHANGED <<quarantine, call, acked, twofold>>
    BY DEF Damage
  <1>2. left' \in [Events -> Nat]
    <2>1. Spend("damage") /\ "damage" \in Events
      BY DEF Damage, Events
    <2> QED BY <2>1, SpendTyped
  <1>3. /\ file' \in [Files -> Contents \cup {NoFile, Corrupt}]
        /\ \A g \in Files : file'[g] = IF g = f THEN Corrupt ELSE file[g]
    BY <1>0, <1>1 DEF StorageTyped
  <1>4. StorageTyped'
    BY <1>0, <1>1, <1>2, <1>3 DEF StorageTyped
  <1>5. Judged'
    BY <1>0, <1>1, <1>3 DEF Judged, Valid
  <1>6. (Alone => Undisturbed)'
    <2>1. ASSUME Alone PROVE Undisturbed'
      <3>1. Undisturbed
        BY <1>0, <2>1
      <3>2. \A g \in damaged' : ~Valid(g)'
        BY <1>0, <1>1, <1>3, <3>1 DEF Undisturbed, Valid, StorageTyped
      <3>3. \A g \in Files : file[g] = Corrupt => file'[g] = Corrupt
        BY <1>3
      <3> QED BY <1>1, <3>1, <3>2, <3>3, FilesAre DEF Undisturbed
    <2> QED BY <2>1 DEF Alone
  <1>7. QuarantineIsCorrupt' /\ AckedIsCurrent'
    BY <1>0, <1>1, <1>3, FilesAre DEF QuarantineIsCorrupt, AckedIsCurrent, Alone, Valid
  <1>8. \A q \in Procs : CallOK(call[q])'
    BY <1>0, <1>1 DEF CallOK, Writable, LegacyPlain, Encoded
  <1> QED BY <1>4, <1>5, <1>6, <1>7, <1>8 DEF StorageInv

(* What a process at work has in hand. *)
LEMMA InHand ==
    ASSUME StorageInv, NEW p \in procs
    PROVE  /\ p \in Procs /\ CallOK(call[p]) /\ call[p] \in Calls
           /\ call[p].pc \in SavePCs /\ Alone /\ call[p].op = "load" /\ acked # NoFile
                => call[p].cfg.id = acked.id
  BY DEF StorageInv, StorageTyped, CallOK, Undisturbed

LEMMA RecoverPrimaryKeeps ==
    ASSUME StorageInv, UNCHANGED procs, NEW p \in procs, _recover_primary(p)
    PROVE  StorageInv'
  <1> DEFINE c == [call[p] EXCEPT !.pc = "lastgood"]
  <1>1. call[p].pc = "quarantine" /\ CallOK(call[p]) /\ call[p] \in Calls
    BY InHand DEF _recover_primary
  <1>2. CallOK(c) /\ c.pc = "lastgood"
    BY <1>1 DEF CallOK, Calls, RecoverPCs, SavePCs
  <1>3. CallOK(Return("load", "defaults")) /\ Return("load", "defaults").pc = "idle"
    BY ReturnOK
  <1> HIDE DEF c
  <1>4. CASE MoveToQuarantine("primary") /\ Go(p, c)
    BY <1>1, <1>2, <1>4, FilesAre, MoveKeeps
  <1>5. CASE NothingThere("primary") /\ Go(p, c)
    <2>1. Untouched /\ left' = left
      BY <1>5 DEF NothingThere
    <2> QED BY <1>1, <1>2, <1>5, <2>1, GoKeeps
            DEF RecoverPCs, SavePCs, StorageInv, StorageTyped
  <1>6. CASE QuarantineFails("primary") /\ Go(p, Return("load", "defaults"))
    <2>1. Untouched /\ Spend("io") /\ "io" \in Events
      BY <1>6 DEF QuarantineFails, Events
    <2>2. left' \in [Events -> Nat]
      BY <2>1, SpendTyped
    <2> QED BY <1>3, <1>6, <2>1, <2>2, GoKeeps DEF RecoverPCs, SavePCs
  <1> QED BY <1>4, <1>5, <1>6 DEF _recover_primary, c

LEMMA RecoverLastgoodKeeps ==
    ASSUME StorageInv, UNCHANGED procs, NEW p \in procs, _recover_lastgood(p)
    PROVE  StorageInv'
  <1> DEFINE drop == [call[p] EXCEPT !.pc = "drop"]
             back(d) == [call[p] EXCEPT !.pc = "restore", !.disk = d]
             good == file["lastgood"]
  <1>1. call[p].pc = "lastgood" /\ CallOK(call[p]) /\ call[p] \in Calls /\ Untouched
        /\ call[p].op = "load"
    BY InHand DEF _recover_lastgood, CallOK, RecoverPCs
  <1>2. left' \in [Events -> Nat]
    <2>1. left' = left \/ \E k \in {"io", "dpapi"} : Spend(k)
      BY DEF _recover_lastgood
    <2> QED BY <2>1, SpendTyped DEF StorageInv, StorageTyped, Events
  <1>3. \A r \in {"defaults", "raised"} :
          CallOK(Return("load", r)) /\ Return("load", r).pc = "idle"
    BY ReturnOK
  <1>4. CallOK(drop) /\ drop.pc = "drop"
    BY <1>1 DEF CallOK, Calls, RecoverPCs, SavePCs
  <1>5. ASSUME NEW d, Writable(d) PROVE CallOK(back(d)) /\ back(d).pc = "restore"
    BY <1>1, <1>5 DEF CallOK, Calls, RecoverPCs, SavePCs, Writable
  <1>6. Valid("lastgood") => Writable(Encoded(Decoded(good)))
    BY DecodedRuntime, EncodedWritable DEF Valid
  <1>7. Valid("lastgood") /\ ~LegacyPlain(good) => Writable(good)
    BY DEF Valid, Writable
  <1>8. PICK c : /\ Go(p, c)
                 /\ \/ c \in {Return("load", "defaults"), Return("load", "raised")}
                    \/ good = Corrupt /\ c = drop
                    \/ \E d : Writable(d) /\ c = back(d)
    BY <1>6, <1>7 DEF _recover_lastgood
  <1> HIDE DEF drop, back
  <1>9. CallOK(c) /\ c.pc \in {"idle", "drop", "restore"} /\ (c.pc = "drop" => good = Corrupt)
    BY <1>3, <1>4, <1>5, <1>8
  <1> QED BY <1>1, <1>2, <1>8, <1>9, GoKeeps DEF RecoverPCs, SavePCs

LEMMA RecoverDropKeeps ==
    ASSUME StorageInv, UNCHANGED procs, NEW p \in procs, _recover_drop(p)
    PROVE  StorageInv'
  <1> DEFINE c == Return("load", "defaults")
  <1>1. call[p].pc = "drop" /\ Go(p, c)
    BY DEF _recover_drop
  <1>2. CallOK(c) /\ c.pc = "idle"
    BY ReturnOK
  <1> HIDE DEF c
  <1>3. CASE MoveToQuarantine("lastgood")
    BY <1>1, <1>2, <1>3, FilesAre, MoveKeeps
  <1>4. CASE NothingThere("lastgood") \/ QuarantineFails("lastgood")
    <2>1. Untouched /\ (left' = left \/ Spend("io")) /\ "io" \in Events
      BY <1>4 DEF NothingThere, QuarantineFails, Events
    <2>2. left' \in [Events -> Nat]
      BY <2>1, SpendTyped DEF StorageInv, StorageTyped
    <2> QED BY <1>1, <1>2, <2>1, <2>2, GoKeeps DEF RecoverPCs, SavePCs
  <1> QED BY <1>3, <1>4 DEF _recover_drop

LEMMA RecoverRestoreKeeps ==
    ASSUME StorageInv, UNCHANGED procs, NEW p \in procs, _recover_restore(p)
    PROVE  StorageInv'
  <1> DEFINE d == call[p].disk
             c == Return("load", "runtime")
  <1>1. call[p].pc = "restore" /\ Writable(d)
    BY InHand DEF _recover_restore, CallOK
  <1>2. CallOK(c) /\ c.pc = "idle" /\ CallOK(Return("load", "defaults"))
        /\ Return("load", "defaults").pc = "idle"
    BY ReturnOK
  <1> HIDE DEF c
  <1>3. CASE /\ Put("primary", d) /\ Go(p, c) /\ UNCHANGED <<quarantine, left>>
             /\ acked' = (IF "primary" \in damaged THEN NoFile ELSE acked)
    <2>1. Alone => "primary" \in damaged
      BY <1>1 DEF StorageInv, Undisturbed, RecoverPCs
    <2>2. (Alone => acked' = NoFile) /\ acked' \in Runtimes \cup {NoFile}
      BY <1>3, <2>1 DEF StorageInv, StorageTyped
    <2> QED BY <1>1, <1>2, <1>3, <2>2, FilesAre, PutKeeps
  <1>4. CASE Spend("io") /\ Go(p, Return("load", "defaults")) /\ Untouched
    <2>1. left' \in [Events -> Nat]
      BY <1>4, SpendTyped DEF Events
    <2> QED BY <1>2, <1>4, <2>1, GoKeeps DEF RecoverPCs, SavePCs
  <1> QED BY <1>3, <1>4 DEF _recover_restore, c

LEMMA JudgeKeeps ==
    ASSUME StorageInv, UNCHANGED procs, NEW p \in procs, _save_judge(p)
    PROVE  StorageInv'
  <1> DEFINE b == [call[p] EXCEPT !.disk = Encoded(call[p].cfg)]
             at(pc) == [b EXCEPT !.pc = pc]
             snap == [b EXCEPT !.pc = "snapshot", !.previous = file["primary"]]
  <1>1. call[p].pc = "save" /\ CallOK(call[p]) /\ call[p] \in Calls /\ Untouched
    BY InHand DEF _save_judge
  <1>2. /\ call[p].cfg \in Runtimes /\ call[p].op \in {"load", "save"}
        /\ Alone /\ call[p].op = "load" /\ acked # NoFile => call[p].cfg.id = acked.id
    BY <1>1, InHand DEF CallOK, SavePCs
  <1>3. Encoded(call[p].cfg) \in Contents
    BY <1>2, EncodedWritable DEF Writable
  <1>4. /\ b \in Calls /\ b.op = call[p].op /\ b.cfg = call[p].cfg
        /\ b.disk = Encoded(b.cfg)
    BY <1>1, <1>3 DEF Calls
  <1>5. left' \in [Events -> Nat]
    <2>1. left' = left \/ \E k \in {"io", "dpapi"} : Spend(k)
      BY DEF _save_judge
    <2> QED BY <2>1, SpendTyped DEF StorageInv, StorageTyped, Events
  <1>6. PICK c : /\ Go(p, c)
                 /\ \/ c = Saved(b, FALSE)
                    \/ file["primary"] = Corrupt /\ c = at("discard")
                    \/ Valid("primary") /\ ~LegacyPlain(file["primary"]) /\ c = snap
                    \/ c = at("write")
    BY DEF _save_judge
  <1> HIDE DEF b
  <1>7. CallOK(Saved(b, FALSE)) /\ Saved(b, FALSE).pc = "idle"
    BY <1>2, <1>4, ReturnOK DEF Saved
  <1>8. ASSUME NEW pc \in {"discard", "write"}
        PROVE  CallOK(at(pc)) /\ at(pc).pc = pc /\ at(pc).op = b.op /\ at(pc).cfg = b.cfg
    BY <1>2, <1>4, <1>8 DEF CallOK, Calls, RecoverPCs, SavePCs
  <1>9. Valid("primary") /\ ~LegacyPlain(file["primary"]) =>
          CallOK(snap) /\ snap.pc = "snapshot" /\ snap.op = b.op /\ snap.cfg = b.cfg
    BY <1>2, <1>4 DEF CallOK, Calls, RecoverPCs, SavePCs, Writable, Valid
  <1> HIDE DEF at, snap
  <1>10. /\ CallOK(c) /\ c.pc \in {"idle", "discard", "snapshot", "write"}
         /\ c.pc = "discard" => file["primary"] = Corrupt
         /\ c.pc # "idle" => c.op = b.op /\ c.cfg = b.cfg
    BY <1>6, <1>7, <1>8, <1>9
  <1> QED BY <1>1, <1>2, <1>4, <1>5, <1>6, <1>10, GoKeeps DEF RecoverPCs, SavePCs

(* A step of a save that fails. *)
LEMMA SaveFails ==
    ASSUME StorageInv, UNCHANGED procs, NEW p \in procs, call[p].pc \in SavePCs,
           Spend("io"), Go(p, Saved(call[p], FALSE)), Untouched
    PROVE  StorageInv'
  <1>1. CallOK(Saved(call[p], FALSE)) /\ Saved(call[p], FALSE).pc = "idle"
    <2>1. call[p].op \in {"load", "save"}
      BY InHand DEF CallOK
    <2> QED BY <2>1, ReturnOK DEF Saved
  <1>2. left' \in [Events -> Nat]
    BY SpendTyped DEF Events
  <1> QED BY <1>1, <1>2, GoKeeps DEF RecoverPCs, SavePCs

LEMMA SnapshotKeeps ==
    ASSUME StorageInv, UNCHANGED procs, NEW p \in procs, _save_snapshot(p)
    PROVE  StorageInv'
  <1> DEFINE c == [call[p] EXCEPT !.pc = "write"]
             previous == call[p].previous
  <1>1. call[p].pc = "snapshot" /\ CallOK(call[p]) /\ call[p] \in Calls
    BY InHand DEF _save_snapshot
  <1>2. CallOK(c) /\ c.pc = "write" /\ c.op = call[p].op /\ c.cfg = call[p].cfg
    BY <1>1 DEF CallOK, Calls, RecoverPCs, SavePCs
  <1>3. Writable(previous)
    BY <1>1 DEF CallOK
  <1> HIDE DEF c, previous
  <1>4. CASE Put("lastgood", previous) /\ Go(p, c) /\ UNCHANGED <<quarantine, left, acked>>
    BY <1>1, <1>2, <1>3, <1>4, FilesAre, PutKeeps DEF StorageInv, StorageTyped
  <1>5. CASE Spend("io") /\ Go(p, Saved(call[p], FALSE)) /\ Untouched
    BY <1>1, <1>5, SaveFails DEF SavePCs
  <1> QED BY <1>4, <1>5 DEF _save_snapshot, c, previous

LEMMA DiscardKeeps ==
    ASSUME StorageInv, UNCHANGED procs, NEW p \in procs, _save_discard(p)
    PROVE  StorageInv'
  <1> DEFINE c == [call[p] EXCEPT !.pc = "write"]
  <1>1. call[p].pc = "discard" /\ CallOK(call[p]) /\ call[p] \in Calls
    BY InHand DEF _save_discard
  <1>2. CallOK(c) /\ c.pc = "write" /\ c.op = call[p].op /\ c.cfg = call[p].cfg
    BY <1>1 DEF CallOK, Calls, RecoverPCs, SavePCs
  <1> HIDE DEF c
  <1>3. CASE MoveToQuarantine("primary") /\ Go(p, c)
    BY <1>1, <1>2, <1>3, FilesAre, MoveKeeps
  <1>4. CASE NothingThere("primary") /\ Go(p, c)
    <2>1. Untouched /\ left' \in [Events -> Nat]
      BY <1>4 DEF NothingThere, StorageInv, StorageTyped
    <2>2. Alone /\ c.op = "load" /\ acked # NoFile => c.cfg.id = acked.id
      BY <1>1, <1>2, InHand DEF SavePCs
    <2> QED BY <1>2, <1>4, <2>1, <2>2, GoKeeps DEF RecoverPCs, SavePCs
  <1>5. CASE QuarantineFails("primary") /\ Go(p, Saved(call[p], FALSE))
    BY <1>1, <1>5, SaveFails DEF SavePCs, QuarantineFails
  <1> QED BY <1>3, <1>4, <1>5 DEF _save_discard, c

LEMMA WriteKeeps ==
    ASSUME StorageInv, UNCHANGED procs, NEW p \in procs, _save_write(p)
    PROVE  StorageInv'
  <1> DEFINE c == Saved(call[p], TRUE)
             d == call[p].disk
  <1>1. call[p].pc = "write" /\ CallOK(call[p])
    BY InHand DEF _save_write
  <1>2. /\ call[p].op \in {"load", "save"} /\ call[p].cfg \in Runtimes
        /\ d = Encoded(call[p].cfg)
    BY <1>1 DEF CallOK, SavePCs
  <1>3. Writable(d) /\ d.id = call[p].cfg.id
    BY <1>2, EncodedWritable
  <1>4. CallOK(c) /\ c.pc = "idle"
    BY <1>2, ReturnOK DEF Saved
  <1>5. CASE /\ Put("primary", d) /\ acked' = Acknowledged(call[p])
             /\ Go(p, c) /\ UNCHANGED <<quarantine, left>>
    <2>1. acked' = IF call[p].op = "save" THEN call[p].cfg ELSE acked
      BY <1>5 DEF Acknowledged
    <2>2. acked' \in Runtimes \cup {NoFile}
      BY <1>2, <2>1 DEF StorageInv, StorageTyped
    <2>3. Alone /\ acked' # NoFile => d.id = acked'.id
      BY <1>1, <1>2, <1>3, <2>1, InHand DEF SavePCs
    <2> HIDE DEF c, d
    <2> QED BY <1>3, <1>4, <1>5, <2>2, <2>3, FilesAre, PutKeeps
  <1>6. CASE Spend("io") /\ Go(p, Saved(call[p], FALSE)) /\ Untouched
    BY <1>1, <1>6, SaveFails DEF SavePCs
  <1> QED BY <1>5, <1>6 DEF _save_write

LEMMA StorageStep ==
    ASSUME StorageInv, [Next]_vars
    PROVE  StorageInv'
  <1>1. CASE Next
    <2>1. UNCHANGED procs /\ Step
      BY <1>1 DEF Next
    <2> QED BY <2>1, LoadKeeps, SaveCallKeeps, RecoverPrimaryKeeps, RecoverLastgoodKeeps,
            RecoverDropKeeps, RecoverRestoreKeeps, JudgeKeeps, SnapshotKeeps,
            DiscardKeeps, WriteKeeps, CrashKeeps, DamageKeeps DEF Step
  <1>2. CASE UNCHANGED vars
    BY <1>2 DEF vars, StorageInv, StorageTyped, CallOK, Writable, LegacyPlain, Encoded,
         Judged, Undisturbed, Alone, QuarantineIsCorrupt, AckedIsCurrent, Valid
  <1> QED BY <1>1, <1>2

LEMMA StorageInvariant == Spec => []StorageInv
  BY StorageInit, StorageStep, PTL DEF Spec

-----------------------------------------------------------------------------
(* _quarantine_corrupt_file: one process at work moves only corrupt files away. *)
THEOREM OnlyCorruptQuarantined == Spec => []QuarantineIsCorrupt
  <1>1. StorageInv => QuarantineIsCorrupt
    BY DEF StorageInv
  <1> QED BY <1>1, StorageInvariant, PTL

(* save_settings: what it acknowledged is what is on disk, through any number of *)
(* failed saves, migrations, recoveries and kills of the process.                *)
THEOREM AcknowledgedStays == Spec => []AckedIsCurrent
  <1>1. StorageInv => AckedIsCurrent
    BY DEF StorageInv
  <1> QED BY <1>1, StorageInvariant, PTL

(* The two generations of _atomic_write_json: any number of processes, saves,    *)
(* recoveries and kills leave a valid configuration on disk.                     *)
THEOREM GoodCopy == Spec => []GoodCopyRemains
  <1>1. StorageInv => GoodCopyRemains
    BY FilesAre DEF StorageInv, StorageTyped, Judged, GoodCopyRemains
  <1> QED BY <1>1, StorageInvariant, PTL

(* What is written is encoded or was judged, so it holds no plaintext on Windows. *)
LEMMA PutIsWritable ==
    ASSUME StorageInv, Next, NEW f \in Files, file'[f] # file[f], file'[f] \in Contents
    PROVE  ~LegacyPlain(file'[f])
  <1>0. file \in [Files -> Contents \cup {NoFile, Corrupt}]
    BY DEF StorageInv, StorageTyped
  <1>1. ASSUME NEW g \in Files, NEW d, Writable(d), Put(g, d)
        PROVE  ~LegacyPlain(file'[f])
    BY <1>0, <1>1 DEF Put, Writable
  <1>2. ~Untouched
    BY DEF Untouched
  <1>3. \A g \in Files : ~MoveToQuarantine(g) /\ ~Damage(g)
    BY <1>0 DEF MoveToQuarantine, Damage
  <1>4. PICK p \in procs :
          \/ _recover_restore(p) \/ _save_snapshot(p) \/ _save_write(p)
          \/ _recover_primary(p) \/ _recover_drop(p) \/ _save_discard(p)
    BY <1>2, <1>3 DEF Next, Step, load_settings, save_settings, _recover_lastgood,
                      _save_judge, Crash
  <1>5. CallOK(call[p])
    BY InHand
  <1>6. CASE _recover_restore(p)
    BY <1>1, <1>2, <1>5, <1>6, FilesAre DEF _recover_restore, CallOK
  <1>7. CASE _save_snapshot(p)
    BY <1>1, <1>2, <1>5, <1>7, FilesAre DEF _save_snapshot, CallOK
  <1>8. CASE _save_write(p)
    <2>1. Writable(call[p].disk)
      BY <1>5, <1>8, EncodedWritable DEF _save_write, CallOK, SavePCs
    <2> QED BY <1>1, <1>2, <1>8, <2>1, FilesAre DEF _save_write
  <1>9. ~(_recover_primary(p) \/ _recover_drop(p) \/ _save_discard(p))
    BY <1>2, <1>3, FilesAre DEF _recover_primary, _recover_drop, _save_discard,
                                NothingThere, QuarantineFails
  <1> QED BY <1>4, <1>6, <1>7, <1>8, <1>9

(* _encode_settings_for_disk and the judgements of save and recovery: no step    *)
(* writes plaintext credentials on Windows.                                      *)
THEOREM NoPlainCopy == Spec => NoSecondPlainCopy
  <1> DEFINE Encrypted == \A f \in Files :
               file'[f] # file[f] /\ file'[f] \in Contents => ~LegacyPlain(file'[f])
  <1>1. StorageInv /\ [Next]_vars => [Encrypted]_vars
    BY PutIsWritable
  <1>2. [][Encrypted]_vars <=> NoSecondPlainCopy
    BY DEF NoSecondPlainCopy
  <1> QED BY <1>1, <1>2, StorageInvariant, PTL DEF Spec
=============================================================================
