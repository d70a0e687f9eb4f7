------------------------- MODULE LinuxBackendProofs -------------------------
(* Proofs about the Linux backend, for any profiles, desktops, PAC URLs,         *)
(* configurations and budgets of faults.  Launcher processes run one after the   *)
(* other, as they do in the run: the theorems assume Procs = {p}.                *)
EXTENDS LinuxBackend, TLAPS

-----------------------------------------------------------------------------
(* Inductive invariants.                                                         *)

(* A rollback file: the profiles that were there, and all of a desktop or none.  *)
Files == {f \in Payloads : \A n \in DOMAIN f.saved : f.saved[n] # Gone}

(* The steps of a call that has its rollback file on disk and changes things. *)
Working == {"profile", "reapply", "url", "mode", "clear"}
Calls ==
    [pc : {"idle", "save", "sync"} \cup Working,
     op : {"none", "enable", "rollback", "disable", "sync"}, ok : BOOLEAN,
     payload : Files \cup {None}, client : Backends \cup {None},
     todo : SUBSET Profiles, touched : SUBSET Names, active : SUBSET Profiles,
     at : Profiles \cup {None}]

(* What a call has in hand belongs to where it is. *)
CallTyped(c) ==
    /\ c.pc # "idle" => c.payload \in Files
    /\ c.pc \in Working => c.op \in {"enable", "rollback", "disable"}
    /\ c.pc = "save" => c.op = "enable" /\ c.touched = {}
    /\ c.pc = "clear" => Restoring(c) /\ c.ok /\ c.todo = {}
    /\ c.pc \in {"save"} \cup Working =>
         /\ c.todo \subseteq DOMAIN c.payload.saved
         /\ c.touched \subseteq DOMAIN c.payload.saved
         /\ _desktop_backend_matches_payload(c.payload, c.client)
         /\ c.op = "enable" => c.ok /\ SavedProfiles(c.payload) = c.active
    /\ c.pc \in {"url", "mode"} => SavedFields(c.payload) # {}
    /\ c.pc = "mode" => <<c.client, "url">> \in c.touched
    /\ c.pc = "reapply" => c.at \in c.active \cap SavedProfiles(c.payload)

TypeInv ==
    /\ value \in [Names -> Values] /\ device \in [Profiles -> Values \cup {Down}]
    /\ user \in [Names -> Values] /\ applied \subseteq Names /\ drift \subseteq Names
    /\ moved \subseteq Profiles /\ config \in Configs /\ session \in Sessions
    /\ left \in [Events -> Nat] /\ store \in Files \cup {None, Corrupt}
    /\ call \in [Procs -> Calls] /\ \A q \in Procs : CallTyped(call[q])
    /\ \A n \in Names : value[n] = Gone => n \in Profiles
    /\ \A u \in Profiles : value[u] = Gone => device[u] = Down

(* What a restore still has ahead of it. *)
Ahead(c) ==
    c.todo \cup (IF c.pc = "url" THEN Fields(c.client) ELSE {})
           \cup (IF c.pc = "mode" THEN {<<c.client, "mode">>} ELSE {})
(* What enable would roll back. *)
Behind(c) ==
    c.touched \cup (IF c.touched \cap DesktopNames # {} THEN Fields(c.client) ELSE {})

(* A call and the rollback file: it is the one the call works from, and nothing  *)
(* changed is beyond the reach of the restore.                                   *)
CallSafe(c) ==
    /\ c.pc = "save" => store = None
    /\ c.pc \in Working => store = c.payload
    /\ c.pc = "sync" =>
         HasEvidence /\ c.payload.saved = store.saved /\ c.payload.cfg.pac = store.cfg.pac
    /\ c.pc \in Working /\ Restoring(c) /\ c.ok => applied \subseteq Ahead(c)
    /\ c.pc \in Working /\ c.op = "enable" => applied \subseteq Behind(c)

SafeInv ==
    /\ TypeInv
    /\ \A q \in Procs : CallSafe(call[q])
    /\ store = None => applied = {}
    /\ HasEvidence => applied \subseteq DOMAIN store.saved
    /\ \A n \in applied : value[n] # Gone

(* The values: the file holds what the user had, what is not applied is what the *)
(* user had, what is applied is what the file says would be applied.             *)
FileTrue(f) == \A n \in DOMAIN f.saved \ drift : f.saved[n] = user[n]
ValuesTrue ==
    /\ HasEvidence => FileTrue(store)
    /\ \A n \in Names \ (applied \cup drift) : value[n] = user[n]
    /\ HasEvidence => \A n \in applied : value[n] = Desired(n, store.cfg)
    /\ \A q \in Procs : call[q].pc = "save" => FileTrue(call[q].payload)

TruthInv == SafeInv /\ ValuesTrue

FileForeign(f) == \A u \in SavedProfiles(f) : f.saved[u] \notin OwnPacs

(* A device with the launcher's PAC and the call that has it restored. *)
CallDevices(c) ==
    /\ c.pc = "save" => FileForeign(c.payload)
    /\ c.pc \in {"save"} \cup Working =>
         \A u \in Profiles \ (moved \cup c.active) : device[u] = Down
    /\ c.pc \in Working /\ Restoring(c) /\ c.ok =>
         \A u \in Profiles \ moved : device[u] \in OwnPacs =>
            u \in c.todo \/ (c.pc = "reapply" /\ c.at = u)
    /\ c.pc \in Working /\ c.op = "enable" =>
         /\ c.pc \in {"url", "mode"} => c.todo = {}
         /\ \A u \in Profiles \ moved : device[u] \in OwnPacs => u \in c.touched
         /\ \A u \in Profiles \ (moved \cup drift) :
              \/ u \in c.todo \/ (c.pc = "reapply" /\ c.at = u)
              \/ device[u] \in {Down, c.payload.cfg.pac}
         /\ \A n \in DOMAIN c.payload.saved \ drift :
              \/ n \in applied \cup c.todo
              \/ n \in DesktopNames /\ ~(c.pc = "mode" /\ n = <<c.client, "url">>)

DevicesTrue ==
    /\ \A u \in Profiles : value[u] \in OwnPacs => u \in applied
    /\ HasEvidence => FileForeign(store)
    /\ \A u \in Profiles \ moved : device[u] \in OwnPacs =>
         store = Corrupt \/ (HasEvidence /\ u \in DOMAIN store.saved)

DeviceInv == TruthInv /\ DevicesTrue /\ \A q \in Procs : CallDevices(call[q])

-----------------------------------------------------------------------------
(* What a call has in hand.                                                      *)

LEMMA CallIs ==
    ASSUME TypeInv, NEW p, Procs = {p}
    PROVE  /\ p \in Procs /\ call \in [Procs -> Calls]
           /\ call[p] \in Calls /\ CallTyped(call[p])
BY DEF TypeInv

LEMMA CallFields ==
    ASSUME NEW c \in Calls
    PROVE  /\ c.pc \in {"idle", "save", "sync"} \cup Working
           /\ c.op \in {"none", "enable", "rollback", "disable", "sync"}
           /\ c.ok \in BOOLEAN /\ c.payload \in Files \cup {None}
           /\ c.client \in Backends \cup {None} /\ c.todo \subseteq Profiles
           /\ c.touched \subseteq Names /\ c.active \subseteq Profiles
           /\ c.at \in Profiles \cup {None}
BY DEF Calls

LEMMA FileIs ==
    ASSUME NEW f \in Files
    PROVE  /\ f.cfg \in Configs /\ DOMAIN f.saved \subseteq Names
           /\ f.saved \in [DOMAIN f.saved -> Values]
           /\ \A n \in DOMAIN f.saved : f.saved[n] \in Values /\ f.saved[n] # Gone
           /\ f \in Payloads /\ f # None /\ f # Corrupt
<1>1. f \in Payloads /\ \A n \in DOMAIN f.saved : f.saved[n] # Gone
  BY DEF Files
<1>2. PICK N \in SUBSET Names : f.saved \in [N -> Values]
  BY <1>1 DEF Payloads
<1>3. f.cfg \in Configs
  BY <1>1 DEF Payloads
<1> QED BY <1>1, <1>2, <1>3, LinuxAssumption

LEMMA ReturnTyped ==
    ASSUME NEW op \in {"none", "enable", "disable", "sync"}, NEW ok \in BOOLEAN
    PROVE  /\ Return(op, ok) \in Calls /\ CallTyped(Return(op, ok))
           /\ Return(op, ok).pc = "idle" /\ Return(op, ok).op = op /\ Return(op, ok).ok = ok
BY DEF Return, Calls, CallTyped, Working

LEMMA Went ==
    ASSUME TypeInv, NEW p, Procs = {p}, NEW c \in Calls, CallTyped(c), Go(p, c)
    PROVE  /\ call' \in [Procs -> Calls] /\ call'[p] = c
           /\ \A q \in Procs : CallTyped(call'[q])
BY CallIs DEF Go

LEMMA Spent ==
    ASSUME TypeInv, NEW k \in Events, Spend(k)
    PROVE  left' \in [Events -> Nat]
BY DEF TypeInv, Spend

(* Names of the desktop. *)
LEMMA FieldsAre ==
    ASSUME NEW b \in Backends
    PROVE  /\ <<b, "url">> \in DesktopNames /\ <<b, "mode">> \in DesktopNames
           /\ Fields(b) \subseteq DesktopNames /\ Fields(b) \subseteq Names
           /\ Fields(b) = {<<b, "mode">>, <<b, "url">>} /\ <<b, "url">> # <<b, "mode">>
BY DEF Fields, DesktopNames, Names

LEMMA DesiredIs ==
    ASSUME NEW cfg \in Configs, NEW n \in Names
    PROVE  /\ Desired(n, cfg) \in Values \ {Gone}
           /\ n \in Profiles => Desired(n, cfg) = cfg.pac
<1>1. "auto" \in Values \ {Gone} /\ cfg.pac \in Values \ {Gone}
  BY LinuxAssumption DEF Values, Modes
<1>2. n \in Profiles => ~\E b \in Backends : n = <<b, "mode">>
  BY LinuxAssumption DEF DesktopNames, Fields
<1> QED BY <1>1, <1>2 DEF Desired

LEMMA FailedTyped ==
    ASSUME NEW c \in Calls, CallTyped(c), c.pc = "profile"
    PROVE  /\ Failed(c) \in Calls /\ CallTyped(Failed(c))
           /\ Failed(c).pc \in {"profile", "url"} /\ Failed(c).payload = c.payload
           /\ Restoring(Failed(c)) /\ (Restoring(c) => Failed(c).ok = FALSE)
           /\ Failed(c).active = c.active
<1>1. c.touched \cap Profiles \subseteq Profiles
  OBVIOUS
<1>2. CASE Restoring(c)
  <2>1. Failed(c) = [c EXCEPT !.ok = FALSE]
    BY <1>2 DEF Failed
  <2>2. Failed(c) \in Calls
    BY <2>1 DEF Calls
  <2>3. /\ Failed(c).op = c.op /\ Failed(c).todo = c.todo /\ Failed(c).pc = c.pc
        /\ Failed(c).payload = c.payload /\ Failed(c).touched = c.touched
        /\ Failed(c).ok = FALSE
        /\ Failed(c).client = c.client /\ Failed(c).active = c.active
    BY <2>1 DEF Calls
  <2>4. Restoring(Failed(c)) /\ Failed(c).op # "enable"
    BY <1>2, <2>3 DEF Restoring
  <2>5. CallTyped(Failed(c))
    BY <2>3, <2>4 DEF CallTyped, Working
  <2>6. Failed(c).pc \in {"profile", "url"}
    BY <2>3
  <2> QED BY <2>2, <2>3, <2>4, <2>5, <2>6
<1>3. CASE ~Restoring(c)
  <2>1. Failed(c) = RollBack(c)
    BY <1>3 DEF Failed
  <2>2. Failed(c) \in Calls
    BY <2>1, CallFields DEF Calls, RollBack, Working
  <2>3. /\ Failed(c).op = "rollback" /\ Failed(c).todo = c.touched \cap Profiles
        /\ Failed(c).pc = IF c.touched \cap DesktopNames # {} THEN "url" ELSE "profile"
        /\ Failed(c).payload = c.payload /\ Failed(c).touched = c.touched
        /\ Failed(c).client = c.client /\ Failed(c).active = c.active
    BY <2>1 DEF RollBack, Calls
  <2>4. c.touched \subseteq DOMAIN c.payload.saved /\ c.payload \in Files
    BY DEF CallTyped, Working
  <2>5. Failed(c).pc = "url" => SavedFields(c.payload) # {}
    BY <2>3, <2>4 DEF SavedFields
  <2>6. Restoring(Failed(c)) /\ Failed(c).op # "enable" /\ Failed(c).pc \in {"profile", "url"}
    BY <2>3 DEF Restoring
  <2>7. CallTyped(Failed(c))
    BY <2>3, <2>4, <2>5, <2>6 DEF CallTyped, Working
  <2> QED BY <1>3, <2>2, <2>3, <2>6, <2>7
<1> QED BY <1>2, <1>3

-----------------------------------------------------------------------------
(* Types.                                                                        *)

LEMMA TypeInit == Init => TypeInv
<1> SUFFICES ASSUME Init PROVE TypeInv
  OBVIOUS
<1>1. PICK s \in Scenarios :
        /\ value = s.value /\ config = s.config /\ session = s.session /\ left = s.left
        /\ device = [u \in Profiles |-> IF u \in s.up THEN value[u] ELSE Down]
  BY DEF Init
<1>2. Idle \in Calls /\ CallTyped(Idle)
  BY ReturnTyped DEF Idle
<1>3. call \in [Procs -> Calls] /\ \A q \in Procs : CallTyped(call[q])
  BY <1>2 DEF Init
<1>4. Profiles \subseteq Names
  BY DEF Names
<1>5. value \in [Names -> Values] /\ device \in [Profiles -> Values \cup {Down}]
  BY <1>1, <1>4, LinuxAssumption
<1>6. /\ \A n \in Names : value[n] = Gone => n \in Profiles
      /\ \A u \in Profiles : value[u] = Gone => device[u] = Down
  BY <1>1, <1>4, LinuxAssumption
<1> QED BY <1>1, <1>3, <1>5, <1>6, LinuxAssumption DEF Init, TypeInv

(* A step of a call that changes no value. *)
LEMMA TypeCall ==
    ASSUME TypeInv, NEW p, Procs = {p}, UNCHANGED <<world, history>>,
           \E c \in Calls : CallTyped(c) /\ Go(p, c),
           store' \in Files \cup {None, Corrupt}, left' \in [Events -> Nat]
    PROVE  TypeInv'
<1>1. /\ call' \in [Procs -> Calls] /\ \A q \in Procs : CallTyped(call'[q])
  BY Went
<1> QED BY <1>1 DEF TypeInv, world, history

LEMMA EnableTyped ==
    ASSUME TypeInv, NEW p, Procs = {p}, enable(p)
    PROVE  TypeInv'
<1>1. left' \in [Events -> Nat]
  BY Spent DEF enable, Events
<1>2. \E c \in Calls : CallTyped(c) /\ Go(p, c)
  <2>1. CASE Go(p, Return("enable", FALSE)) \/ Go(p, Return("enable", TRUE))
    BY <2>1, ReturnTyped
  <2>2. CASE \E names \in SUBSET Names :
               /\ names = Active \cup (IF session = None THEN {} ELSE Fields(session))
               /\ Go(p, [Return("enable", TRUE) EXCEPT
                          !.pc = "save", !.client = session, !.active = Active,
                          !.payload = [cfg |-> config,
                                       saved |-> [n \in names |-> value[n]]]])
    <3>1. PICK names \in SUBSET Names :
            /\ names = Active \cup (IF session = None THEN {} ELSE Fields(session))
            /\ Go(p, [Return("enable", TRUE) EXCEPT
                          !.pc = "save", !.client = session, !.active = Active,
                          !.payload = [cfg |-> config,
                                       saved |-> [n \in names |-> value[n]]]])
      BY <2>2
    <3> DEFINE f == [cfg |-> config, saved |-> [n \in names |-> value[n]]]
               c == [Return("enable", TRUE) EXCEPT !.pc = "save", !.client = session,
                          !.active = Active, !.payload = f]
    <3>2. session \in Backends \cup {None} /\ Active \subseteq Profiles
      BY LinuxAssumption DEF TypeInv, Active
    <3>3. \A n \in names : value[n] # Gone
      BY <3>1, <3>2, FieldsAre, LinuxAssumption DEF TypeInv, Active
    <3>4. f \in Files
      <4>1. f.saved \in [names -> Values] /\ f.cfg \in Configs
        BY DEF TypeInv
      <4> QED BY <3>3, <4>1 DEF Files, Payloads
    <3>5. SavedProfiles(f) = Active
      BY <3>1, <3>2, FieldsAre, LinuxAssumption DEF SavedProfiles
    <3>6. _desktop_backend_matches_payload(f, session)
      BY <3>1, <3>2, FieldsAre, LinuxAssumption
        DEF SavedFields, _desktop_backend_matches_payload
    <3> HIDE DEF f
    <3>7. /\ c.pc = "save" /\ c.op = "enable" /\ c.ok = TRUE /\ c.payload = f
          /\ c.client = session /\ c.active = Active /\ c.todo = {} /\ c.touched = {}
      BY DEF Return
    <3>8. c \in Calls
      BY <3>2, <3>4 DEF Calls, Return
    <3> HIDE DEF c
    <3>9. CallTyped(c)
      BY <3>4, <3>5, <3>6, <3>7 DEF CallTyped, Working
    <3> QED BY <3>1, <3>8, <3>9 DEF c, f
  <2>3. Active \cup (IF session = None THEN {} ELSE Fields(session)) \in SUBSET Names
    BY FieldsAre, LinuxAssumption DEF TypeInv, Active, Names
  <2> QED BY <2>1, <2>2, <2>3 DEF enable
<1> QED BY <1>1, <1>2, TypeCall DEF enable, TypeInv

LEMMA SaveTyped ==
    ASSUME TypeInv, NEW p, Procs = {p}, _save(p)
    PROVE  TypeInv'
<1> DEFINE d == [call[p] EXCEPT !.pc = "profile", !.todo = call[p].active]
<1>1. call[p] \in Calls /\ CallTyped(call[p]) /\ call[p].pc = "save"
  BY CallIs DEF _save
<1>2. call[p].payload \in Files
  BY <1>1 DEF CallTyped
<1>3. left' \in [Events -> Nat]
  BY Spent DEF _save, Events, TypeInv
<1>4. d \in Calls /\ CallTyped(d)
  <2>1. d \in Calls
    BY <1>1, CallFields DEF Calls, Working
  <2>2. /\ d.pc = "profile" /\ d.op = call[p].op /\ d.ok = call[p].ok
        /\ d.payload = call[p].payload /\ d.client = call[p].client
        /\ d.touched = call[p].touched /\ d.active = call[p].active /\ d.todo = call[p].active
    BY <1>1 DEF Calls
  <2>3. call[p].active \subseteq DOMAIN call[p].payload.saved /\ call[p].op = "enable"
    BY <1>1 DEF CallTyped, SavedProfiles
  <2> HIDE DEF d
  <2> QED BY <1>1, <2>1, <2>2, <2>3 DEF CallTyped, Working
<1>5. \E c \in Calls : CallTyped(c) /\ Go(p, c)
  BY <1>4, ReturnTyped DEF _save
<1>6. store' \in Files \cup {None, Corrupt}
  BY <1>2 DEF _save, TypeInv
<1> QED BY <1>3, <1>5, <1>6, TypeCall DEF _save

(* A value is written, forwards or back. *)
LEMMA WriteTyped ==
    ASSUME TypeInv, NEW c, c.payload \in Files, NEW n \in DOMAIN c.payload.saved, Write(c, n)
    PROVE  /\ value' \in [Names -> Values] /\ applied' \subseteq Names
           /\ n \in Names /\ Target(c, n) \in Values \ {Gone} /\ value'[n] = Target(c, n)
           /\ \A m \in Names \ {n} : value'[m] = value[m]
           /\ \A m \in Names : value'[m] = Gone => value[m] = Gone
<1>1. n \in Names /\ c.payload.cfg \in Configs
      /\ c.payload.saved[n] \in Values /\ c.payload.saved[n] # Gone
  BY FileIs
<1>2. Target(c, n) \in Values \ {Gone}
  BY <1>1, DesiredIs DEF Target
<1> QED BY <1>1, <1>2 DEF TypeInv, Write

(* A step of a call that may write one value. *)
LEMMA TypeWrite ==
    ASSUME TypeInv, NEW p, Procs = {p}, \E c \in Calls : CallTyped(c) /\ Go(p, c),
           UNCHANGED <<device, config, session, store, user, drift, moved>>,
           NEW c, c.payload \in Files, NEW n \in DOMAIN c.payload.saved,
           Write(c, n) \/ UNCHANGED <<value, applied>>, left' \in [Events -> Nat]
    PROVE  TypeInv'
<1>1. /\ call' \in [Procs -> Calls] /\ \A q \in Procs : CallTyped(call'[q])
  BY Went
<1>2. /\ value' \in [Names -> Values] /\ applied' \subseteq Names
      /\ \A m \in Names : value'[m] = Gone => value[m] = Gone
  BY WriteTyped DEF TypeInv
<1>3. Profiles \subseteq Names
  BY DEF Names
<1> QED BY <1>1, <1>2, <1>3 DEF TypeInv

(* What _set_proxy makes of a call: u is taken off the list. *)
Taken(c, u) == [c EXCEPT !.todo = @ \ {u}, !.touched = @ \cup {u}]

LEMMA TakenTyped ==
    ASSUME NEW c \in Calls, CallTyped(c), c.pc = "profile", NEW u \in c.todo
    PROVE  /\ Taken(c, u) \in Calls /\ CallTyped(Taken(c, u)) /\ Taken(c, u).pc = "profile"
           /\ Taken(c, u).todo = c.todo \ {u} /\ Taken(c, u).touched = c.touched \cup {u}
           /\ Taken(c, u).op = c.op /\ Taken(c, u).ok = c.ok
           /\ Taken(c, u).payload = c.payload /\ Taken(c, u).client = c.client
           /\ Taken(c, u).active = c.active
           /\ u \in SavedProfiles(c.payload) /\ c.payload \in Files
<1>1. u \in Profiles /\ u \in DOMAIN c.payload.saved /\ c.payload \in Files
  BY CallFields DEF CallTyped, Working
<1>2. u \in Names
  BY <1>1 DEF Names
<1>3. Taken(c, u) \in Calls
  BY <1>1, <1>2 DEF Calls, Taken
<1>4. /\ Taken(c, u).pc = "profile"
      /\ Taken(c, u).todo = c.todo \ {u} /\ Taken(c, u).touched = c.touched \cup {u}
      /\ Taken(c, u).op = c.op /\ Taken(c, u).ok = c.ok
      /\ Taken(c, u).payload = c.payload /\ Taken(c, u).client = c.client
      /\ Taken(c, u).active = c.active
  BY DEF Calls, Taken
<1>5. CallTyped(Taken(c, u))
  BY <1>1, <1>4 DEF CallTyped, Working, Restoring
<1> QED BY <1>1, <1>3, <1>4, <1>5 DEF SavedProfiles

(* It waits for the device to be reapplied. *)
LEMMA AwaitsTyped ==
    ASSUME NEW c \in Calls, CallTyped(c), c.pc = "profile",
           NEW u \in c.active \cap SavedProfiles(c.payload)
    PROVE  LET d == [c EXCEPT !.pc = "reapply", !.at = u]
           IN  /\ d \in Calls /\ CallTyped(d) /\ d.pc = "reapply" /\ d.at = u
               /\ d.todo = c.todo /\ d.touched = c.touched /\ d.op = c.op /\ d.ok = c.ok
               /\ d.payload = c.payload /\ d.client = c.client /\ d.active = c.active
<1> DEFINE d == [c EXCEPT !.pc = "reapply", !.at = u]
<1>1. d \in Calls
  BY CallFields DEF Calls, Working
<1>2. /\ d.pc = "reapply" /\ d.at = u
      /\ d.todo = c.todo /\ d.touched = c.touched /\ d.op = c.op /\ d.ok = c.ok
      /\ d.payload = c.payload /\ d.client = c.client /\ d.active = c.active
  BY DEF Calls
<1> HIDE DEF d
<1>3. CallTyped(d)
  BY <1>2 DEF CallTyped, Working, Restoring
<1> QED BY <1>1, <1>2, <1>3 DEF d

LEMMA SetProxyTyped ==
    ASSUME TypeInv, NEW p, Procs = {p}, NEW u \in Profiles, _set_proxy(p, u)
    PROVE  TypeInv'
<1> DEFINE c == Taken(call[p], u)
<1>1. call[p] \in Calls /\ CallTyped(call[p])
  BY CallIs
<1>2. call[p].pc = "profile" /\ u \in call[p].todo
  BY <1>1 DEF _set_proxy, Calls
<1>3. /\ c \in Calls /\ CallTyped(c) /\ c.pc = "profile" /\ c.payload = call[p].payload
      /\ u \in SavedProfiles(c.payload) /\ c.payload \in Files
  BY <1>1, <1>2, TakenTyped
<1>4. \E d \in Calls : CallTyped(d) /\ Go(p, d)
  <2>1. Failed(c) \in Calls /\ CallTyped(Failed(c))
    BY <1>3, FailedTyped
  <2>2. u \in c.active => /\ [c EXCEPT !.pc = "reapply", !.at = u] \in Calls
                          /\ CallTyped([c EXCEPT !.pc = "reapply", !.at = u])
    BY <1>3, AwaitsTyped
  <2>3. \/ Go(p, IF u \in c.active THEN [c EXCEPT !.pc = "reapply", !.at = u] ELSE c)
        \/ Go(p, Failed(c))
    BY DEF _set_proxy, Taken
  <2> HIDE DEF c
  <2> QED BY <1>3, <2>1, <2>2, <2>3
<1>5. left' \in [Events -> Nat]
  BY Spent DEF _set_proxy, Events, TypeInv
<1>6. /\ Write(c, u) \/ UNCHANGED <<value, applied>>
      /\ UNCHANGED <<device, config, session, store, user, drift, moved>>
  BY DEF _set_proxy, Taken
<1>7. u \in DOMAIN c.payload.saved
  BY <1>3 DEF SavedProfiles
<1> QED BY <1>3, <1>4, <1>5, <1>6, <1>7, TypeWrite

(* A call that goes on to the profiles, from a device or from the desktop. *)
LEMMA OnwardTyped ==
    ASSUME NEW c \in Calls, CallTyped(c), c.pc \in {"reapply", "mode", "url"},
           NEW d, d \in {[c EXCEPT !.pc = "profile", !.at = None], [c EXCEPT !.pc = "profile"]}
    PROVE  /\ d \in Calls /\ CallTyped(d) /\ d.pc = "profile"
           /\ d.todo = c.todo /\ d.touched = c.touched /\ d.op = c.op /\ d.ok = c.ok
           /\ d.payload = c.payload /\ d.client = c.client /\ d.active = c.active
<1>1. d \in Calls
  BY DEF Calls, Working
<1>2. /\ d.pc = "profile"
      /\ d.todo = c.todo /\ d.touched = c.touched /\ d.op = c.op /\ d.ok = c.ok
      /\ d.payload = c.payload /\ d.client = c.client /\ d.active = c.active
  BY DEF Calls
<1>3. CallTyped(d)
  BY <1>2 DEF CallTyped, Working, Restoring
<1> QED BY <1>1, <1>2, <1>3

LEMMA ReapplyTyped ==
    ASSUME TypeInv, NEW p, Procs = {p}, _reapply(p)
    PROVE  TypeInv'
<1> DEFINE c == [call[p] EXCEPT !.pc = "profile", !.at = None]
           u == call[p].at
<1>1. call[p] \in Calls /\ CallTyped(call[p]) /\ call[p].pc = "reapply"
  BY CallIs DEF _reapply
<1>2. c \in Calls /\ CallTyped(c) /\ c.pc = "profile"
  BY <1>1, OnwardTyped
<1>3. Failed(c) \in Calls /\ CallTyped(Failed(c))
  BY <1>2, FailedTyped
<1>4. u \in Profiles /\ u \in Names
  BY <1>1 DEF CallTyped, SavedProfiles, Names
<1>5. Go(p, c) \/ Go(p, Failed(c))
  BY DEF _reapply
<1>6. /\ call' \in [Procs -> Calls] /\ \A q \in Procs : CallTyped(call'[q])
  <2> HIDE DEF c
  <2> QED BY <1>2, <1>3, <1>5, Went
<1>7. left' \in [Events -> Nat]
  BY Spent DEF _reapply, Events, TypeInv
<1>8. /\ device' \in [Profiles -> Values \cup {Down}] /\ moved' \subseteq Profiles
      /\ \A w \in Profiles : value[w] = Gone => device'[w] = Down
  BY <1>4 DEF _reapply, TypeInv
<1> QED BY <1>6, <1>7, <1>8 DEF _reapply, TypeInv

LEMMA ProfilesDoneTyped ==
    ASSUME TypeInv, NEW p, Procs = {p}, _profiles_done(p)
    PROVE  TypeInv'
<1> DEFINE c == call[p]
<1>1. c \in Calls /\ CallTyped(c) /\ c.pc = "profile"
  BY CallIs DEF _profiles_done
<1>2. \E d \in Calls : CallTyped(d) /\ Go(p, d)
  <2> DEFINE x == [c EXCEPT !.pc = "clear"]
             y == [c EXCEPT !.pc = "url"]
  <2>1. x \in Calls /\ y \in Calls
    BY <1>1 DEF Calls, Working
  <2>2. /\ x.pc = "clear" /\ x.todo = c.todo /\ x.touched = c.touched /\ x.op = c.op
        /\ x.ok = c.ok /\ x.payload = c.payload /\ x.client = c.client /\ x.active = c.active
    BY <1>1 DEF Calls
  <2>3. /\ y.pc = "url" /\ y.todo = c.todo /\ y.touched = c.touched /\ y.op = c.op
        /\ y.ok = c.ok /\ y.payload = c.payload /\ y.client = c.client /\ y.active = c.active
    BY <1>1 DEF Calls
  <2>4. \/ Restoring(c) /\ c.ok /\ c.todo = {} /\ Go(p, x)
        \/ SavedFields(c.payload) # {} /\ Go(p, y)
        \/ \E op \in {"enable", "disable"}, ok \in BOOLEAN : Go(p, Return(op, ok))
    BY <1>1 DEF _profiles_done, Restoring
  <2> HIDE DEF c, x, y
  <2>5. Restoring(c) /\ c.ok /\ c.todo = {} => CallTyped(x)
    BY <1>1, <2>2 DEF CallTyped, Working, Restoring
  <2>6. SavedFields(c.payload) # {} => CallTyped(y)
    BY <1>1, <2>3 DEF CallTyped, Working, Restoring
  <2> QED BY <2>1, <2>4, <2>5, <2>6, ReturnTyped
<1> QED BY <1>2, TypeCall DEF _profiles_done, TypeInv

(* The desktop of a call that is at work on it. *)
LEMMA AtDesktop ==
    ASSUME NEW c \in Calls, CallTyped(c), c.pc \in {"url", "mode"}
    PROVE  /\ c.client \in Backends /\ SavedFields(c.payload) = Fields(c.client)
           /\ <<c.client, "url">> \in DOMAIN c.payload.saved
           /\ <<c.client, "mode">> \in DOMAIN c.payload.saved
           /\ <<c.client, "url">> \in Names /\ <<c.client, "mode">> \in Names
           /\ c.payload \in Files
<1>1. c.client \in Backends /\ SavedFields(c.payload) = Fields(c.client)
  BY CallFields DEF CallTyped, Working, _desktop_backend_matches_payload
<1> QED BY <1>1, FieldsAre DEF CallTyped, SavedFields

(* What _set_url makes of a call: the desktop is touched. *)
Begun(c) == [c EXCEPT !.touched = @ \cup {<<c.client, "url">>}]

LEMMA BegunTyped ==
    ASSUME NEW c \in Calls, CallTyped(c), c.pc = "url"
    PROVE  /\ Begun(c) \in Calls /\ CallTyped(Begun(c)) /\ Begun(c).pc = "url"
           /\ Begun(c).todo = c.todo /\ Begun(c).touched = c.touched \cup {<<c.client, "url">>}
           /\ Begun(c).op = c.op /\ Begun(c).ok = c.ok
           /\ Begun(c).payload = c.payload /\ Begun(c).client = c.client
           /\ Begun(c).active = c.active
<1>1. <<c.client, "url">> \in Names /\ <<c.client, "url">> \in DOMAIN c.payload.saved
  BY AtDesktop
<1>2. Begun(c) \in Calls
  BY <1>1 DEF Calls, Begun
<1>3. /\ Begun(c).pc = "url"
      /\ Begun(c).todo = c.todo /\ Begun(c).touched = c.touched \cup {<<c.client, "url">>}
      /\ Begun(c).op = c.op /\ Begun(c).ok = c.ok
      /\ Begun(c).payload = c.payload /\ Begun(c).client = c.client
      /\ Begun(c).active = c.active
  BY DEF Calls, Begun
<1>4. CallTyped(Begun(c))
  BY <1>1, <1>3 DEF CallTyped, Working, Restoring
<1> QED BY <1>2, <1>3, <1>4

LEMMA ModeTyped ==
    ASSUME NEW c \in Calls, CallTyped(c), c.pc = "url", <<c.client, "url">> \in c.touched
    PROVE  LET d == [c EXCEPT !.pc = "mode"]
           IN  /\ d \in Calls /\ CallTyped(d) /\ d.pc = "mode"
               /\ d.todo = c.todo /\ d.touched = c.touched /\ d.op = c.op /\ d.ok = c.ok
               /\ d.payload = c.payload /\ d.client = c.client /\ d.active = c.active
<1> DEFINE d == [c EXCEPT !.pc = "mode"]
<1>1. d \in Calls
  BY DEF Calls, Working
<1>2. /\ d.pc = "mode"
      /\ d.todo = c.todo /\ d.touched = c.touched /\ d.op = c.op /\ d.ok = c.ok
      /\ d.payload = c.payload /\ d.client = c.client /\ d.active = c.active
  BY DEF Calls
<1> HIDE DEF d
<1>3. CallTyped(d)
  BY <1>2 DEF CallTyped, Working, Restoring
<1> QED BY <1>1, <1>2, <1>3 DEF d

LEMMA SetUrlTyped ==
    ASSUME TypeInv, NEW p, Procs = {p}, _set_url(p)
    PROVE  TypeInv'
<1> DEFINE c == Begun(call[p])
           n == <<call[p].client, "url">>
<1>1. call[p] \in Calls /\ CallTyped(call[p])
  BY CallIs
<1>2. call[p].pc = "url"
  BY <1>1 DEF _set_url, Calls
<1>3. /\ c \in Calls /\ CallTyped(c) /\ c.pc = "url" /\ c.payload = call[p].payload
      /\ c.client = call[p].client /\ n \in c.touched
  BY <1>1, <1>2, BegunTyped
<1>4. \E d \in Calls : CallTyped(d) /\ Go(p, d)
  <2> DEFINE x == [c EXCEPT !.pc = "mode"]
             y == [c EXCEPT !.pc = "profile"]
  <2>1. x \in Calls /\ CallTyped(x)
    BY <1>3, ModeTyped
  <2>2. y \in Calls /\ CallTyped(y) /\ y.pc = "profile"
    BY <1>3, OnwardTyped
  <2>3. Go(p, x) \/ Go(p, Failed(y))
    BY DEF _set_url, Begun
  <2> HIDE DEF x, y
  <2> QED BY <2>1, <2>2, <2>3, FailedTyped
<1>5. left' \in [Events -> Nat]
  BY Spent DEF _set_url, Events, TypeInv
<1>6. /\ Write(c, n) \/ UNCHANGED <<value, applied>>
      /\ UNCHANGED <<device, config, session, store, user, drift, moved>>
  BY DEF _set_url, Begun
<1>7. c.payload \in Files /\ n \in DOMAIN c.payload.saved
  BY <1>1, <1>2, <1>3, AtDesktop
<1> HIDE DEF c, n
<1> QED BY <1>4, <1>5, <1>6, <1>7, TypeWrite

LEMMA SetModeTyped ==
    ASSUME TypeInv, NEW p, Procs = {p}, _set_mode(p)
    PROVE  TypeInv'
<1> DEFINE c == call[p]
           n == <<c.client, "mode">>
<1>1. c \in Calls /\ CallTyped(c) /\ c.pc = "mode"
  BY CallIs DEF _set_mode
<1>2. \E d \in Calls : CallTyped(d) /\ Go(p, d)
  <2> DEFINE y == [c EXCEPT !.pc = "profile"]
  <2>1. y \in Calls /\ CallTyped(y) /\ y.pc = "profile"
    BY <1>1, OnwardTyped
  <2>2. Go(p, y) \/ Go(p, Failed(y)) \/ Go(p, Return("enable", TRUE))
    BY DEF _set_mode
  <2> HIDE DEF y
  <2> QED BY <2>1, <2>2, FailedTyped, ReturnTyped
<1>3. left' \in [Events -> Nat]
  BY Spent DEF _set_mode, Events, TypeInv
<1>4. /\ Write(c, n) \/ UNCHANGED <<value, applied>>
      /\ UNCHANGED <<device, config, session, store, user, drift, moved>>
  BY DEF _set_mode
<1>5. c.payload \in Files /\ n \in DOMAIN c.payload.saved
  BY <1>1, AtDesktop
<1> HIDE DEF c, n
<1> QED BY <1>2, <1>3, <1>4, <1>5, TypeWrite

LEMMA ClearTyped ==
    ASSUME TypeInv, NEW p, Procs = {p}, _clear(p)
    PROVE  TypeInv'
<1>1. \E c \in Calls : CallTyped(c) /\ Go(p, c)
  BY ReturnTyped DEF _clear
<1>2. left' \in [Events -> Nat] /\ store' \in Files \cup {None, Corrupt}
  BY Spent DEF _clear, Events, TypeInv
<1> QED BY <1>1, <1>2, TypeCall DEF _clear

LEMMA RestoreTyped ==
    ASSUME TypeInv, HasEvidence, OwnedOrSaved(store, session),
           NEW S \in SUBSET SavedProfiles(store)
    PROVE  /\ Restore(S) \in Calls /\ CallTyped(Restore(S))
           /\ Restore(S).pc \in {"url", "profile"} /\ Restore(S).op = "disable"
           /\ Restore(S).pc = (IF SavedFields(store) # {} THEN "url" ELSE "profile")
           /\ Restore(S).ok = TRUE /\ Restore(S).todo = S /\ Restore(S).payload = store
           /\ Restore(S).active = Active /\ Restore(S).client = session
           /\ Restore(S).touched = {}
<1>1. store \in Files /\ session \in Backends \cup {None} /\ Active \subseteq Profiles
  BY LinuxAssumption DEF TypeInv, HasEvidence, Active
<1>2. /\ Restore(S).pc = (IF SavedFields(store) # {} THEN "url" ELSE "profile")
      /\ Restore(S).ok = TRUE /\ Restore(S).todo = S /\ Restore(S).payload = store
      /\ Restore(S).active = Active /\ Restore(S).client = session
      /\ Restore(S).touched = {} /\ Restore(S).op = "disable"
  BY DEF Restore, Return
<1>3. Restore(S).pc \in {"url", "profile"}
  BY <1>2
<1>4. Restore(S) \in Calls
  <2>1. S \in SUBSET Profiles
    BY DEF SavedProfiles
  <2> QED BY <1>1, <2>1 DEF Restore, Return, Calls, Working
<1>5. _desktop_backend_matches_payload(store, session)
  BY DEF OwnedOrSaved
<1>6. CallTyped(Restore(S))
  BY <1>1, <1>2, <1>3, <1>5 DEF CallTyped, Working, Restoring, SavedProfiles
<1> QED BY <1>2, <1>3, <1>4, <1>6

LEMMA DisableTyped ==
    ASSUME TypeInv, NEW p, Procs = {p}, disable(p)
    PROVE  TypeInv'
<1> DEFINE S == {u \in SavedProfiles(store) : value[u] # Gone}
<1>1. HasEvidence /\ OwnedOrSaved(store, session)
        => Restore(S) \in Calls /\ CallTyped(Restore(S))
  BY RestoreTyped
<1>2. \E c \in Calls : CallTyped(c) /\ Go(p, c)
  <2>1. \/ \E ok \in BOOLEAN : Go(p, Return("disable", ok))
        \/ HasEvidence /\ OwnedOrSaved(store, session) /\ Go(p, Restore(S))
    BY DEF disable
  <2> QED BY <1>1, <2>1, ReturnTyped
<1>3. left' \in [Events -> Nat]
  BY Spent DEF disable, Events, TypeInv
<1> QED BY <1>2, <1>3, TypeCall DEF disable, TypeInv

LEMMA SyncTyped ==
    ASSUME TypeInv, NEW p, Procs = {p}, sync_no_proxy(p)
    PROVE  TypeInv' /\ call'[p].pc = "sync"
           /\ call'[p].payload.saved = store.saved /\ call'[p].payload.cfg = config
<1> DEFINE f == [store EXCEPT !.cfg = config]
           c == [Return("sync", TRUE) EXCEPT !.pc = "sync", !.payload = f]
<1>1. store \in Files /\ config \in Configs
  BY DEF TypeInv, sync_no_proxy, HasEvidence
<1>2. f \in Files /\ f.saved = store.saved /\ f.cfg = config
  <2>1. store \in Payloads
    BY <1>1, FileIs
  <2>2. f.saved = store.saved /\ f.cfg = config /\ f \in Payloads
    BY <1>1, <2>1 DEF Payloads
  <2> HIDE DEF f
  <2> QED BY <1>1, <2>2 DEF Files
<1> HIDE DEF f
<1>3. c \in Calls
  BY <1>2 DEF Return, Calls
<1>4. c.pc = "sync" /\ c.payload = f /\ Go(p, c)
  BY DEF Return, sync_no_proxy, f
<1> HIDE DEF c
<1>5. CallTyped(c)
  BY <1>2, <1>4 DEF CallTyped, Working
<1>6. call'[p] = c
  BY <1>3, <1>4, <1>5, Went
<1>7. TypeInv'
  BY <1>3, <1>4, <1>5, TypeCall DEF sync_no_proxy, TypeInv
<1> QED BY <1>2, <1>4, <1>6, <1>7

LEMMA SyncSaveTyped ==
    ASSUME TypeInv, NEW p, Procs = {p}, _sync_save(p)
    PROVE  TypeInv'
<1>1. \E c \in Calls : CallTyped(c) /\ Go(p, c)
  BY ReturnTyped DEF _sync_save
<1>2. call[p].payload \in Files
  BY CallIs DEF _sync_save, CallTyped
<1>3. left' \in [Events -> Nat] /\ store' \in Files \cup {None, Corrupt}
  BY <1>2, Spent DEF _sync_save, Events, TypeInv
<1> QED BY <1>1, <1>3, TypeCall DEF _sync_save

LEMMA CrashTyped ==
    ASSUME TypeInv, NEW p, Procs = {p}, Crash(p)
    PROVE  TypeInv'
<1>1. \E c \in Calls : CallTyped(c) /\ Go(p, c)
  BY ReturnTyped DEF Crash, Idle
<1>2. left' \in [Events -> Nat]
  BY Spent DEF Crash, Events
<1> QED BY <1>1, <1>2, TypeCall DEF Crash, TypeInv

(* The steps of the world outside leave the call alone. *)
Outside ==
    \/ \E n \in Names : \E v \in ForeignValues[n] : ForeignWrite(n, v)
    \/ \E u \in Profiles : Link(u) \/ DeleteProfile(u)
    \/ \E c \in Configs : ChangeSettings(c)
    \/ \E s \in Sessions : ChangeSession(s)
    \/ Damage

LEMMA OutsideTyped ==
    ASSUME TypeInv, Outside
    PROVE  TypeInv' /\ call' = call
<1>1. left' \in [Events -> Nat]
  BY Spent DEF Outside, ForeignWrite, Link, DeleteProfile, ChangeSettings, ChangeSession,
     Damage, Events
<1>2. Profiles \subseteq Names
  BY DEF Names
<1>3. ASSUME NEW n \in Names, NEW v \in ForeignValues[n], ForeignWrite(n, v)
      PROVE  TypeInv' /\ call' = call
  <2>1. v \in Values /\ v # Gone
    BY LinuxAssumption
  <2>2. value' \in [Names -> Values] /\ user' \in [Names -> Values]
    BY <1>3, <2>1 DEF ForeignWrite, TypeInv
  <2>3. \A m \in Names : value'[m] = Gone => value[m] = Gone
    BY <1>3, <2>1 DEF ForeignWrite, TypeInv
  <2>4. applied' \subseteq Names /\ drift' \subseteq Names
    BY <1>3 DEF ForeignWrite, TypeInv
  <2> QED BY <1>1, <1>2, <1>3, <2>2, <2>3, <2>4 DEF ForeignWrite, TypeInv
<1>4. ASSUME NEW u \in Profiles, Link(u)
      PROVE  TypeInv' /\ call' = call
  <2>1. device' \in [Profiles -> Values \cup {Down}] /\ moved' \subseteq Profiles
    BY <1>2, <1>4 DEF Link, TypeInv
  <2>2. \A w \in Profiles : value[w] = Gone => device'[w] = Down
    BY <1>4 DEF Link, TypeInv
  <2> QED BY <1>1, <1>4, <2>1, <2>2 DEF Link, TypeInv
<1>5. ASSUME NEW u \in Profiles, DeleteProfile(u)
      PROVE  TypeInv' /\ call' = call
  <2>1. Gone \in Values
    BY DEF Values
  <2>2. value' \in [Names -> Values] /\ user' \in [Names -> Values]
    BY <1>5, <2>1 DEF DeleteProfile, TypeInv
  <2>3. /\ device' \in [Profiles -> Values \cup {Down}] /\ moved' \subseteq Profiles
        /\ applied' \subseteq Names /\ drift' \subseteq Names
    BY <1>2, <1>5 DEF DeleteProfile, TypeInv
  <2>4. /\ \A n \in Names : value'[n] = Gone => n \in Profiles
        /\ \A w \in Profiles : value'[w] = Gone => device'[w] = Down
    BY <1>2, <1>5 DEF DeleteProfile, TypeInv
  <2> QED BY <1>1, <1>5, <2>2, <2>3, <2>4 DEF DeleteProfile, TypeInv
<1>6. CASE (\E c \in Configs : ChangeSettings(c)) \/ (\E s \in Sessions : ChangeSession(s))
  BY <1>1, <1>6 DEF ChangeSettings, ChangeSession, TypeInv, history
<1>7. CASE Damage
  BY <1>1, <1>7 DEF Damage, TypeInv, history, world
<1> QED BY <1>3, <1>4, <1>5, <1>6, <1>7 DEF Outside

LEMMA TypeStep ==
    ASSUME TypeInv, [Next]_vars, NEW p, Procs = {p}
    PROVE  TypeInv'
<1>1. CASE UNCHANGED vars
  BY <1>1 DEF TypeInv, vars, world, history
<1>2. CASE Outside
  BY <1>2, OutsideTyped
<1>3. CASE Step(p) \/ enable(p) \/ disable(p) \/ sync_no_proxy(p) \/ Crash(p)
  BY <1>3, SaveTyped, SetProxyTyped, ReapplyTyped, ProfilesDoneTyped, SetUrlTyped,
     SetModeTyped, ClearTyped, SyncSaveTyped, EnableTyped, DisableTyped, SyncTyped, CrashTyped
     DEF Step
<1> QED BY <1>1, <1>2, <1>3 DEF Next, Outside

-----------------------------------------------------------------------------
(* What each step does to the call.                                              *)

LEMMA EnableEffect ==
    ASSUME TypeInv, NEW p, Procs = {p}, enable(p)
    PROVE  /\ call[p].pc = "idle" /\ UNCHANGED <<world, store, history>>
           /\ \/ /\ call'[p].pc = "idle" /\ call'[p].op = "enable"
                 /\ call'[p].ok = TRUE =>
                      HasEvidence /\ _payload_is_owned_and_active(store, session)
              \/ /\ call'[p].pc = "save" /\ call'[p].op = "enable" /\ store = None
                 /\ call'[p].active = Active /\ call'[p].payload.cfg = config
                 /\ \A n \in DOMAIN call'[p].payload.saved :
                      call'[p].payload.saved[n] = value[n]
<1>1. call \in [Procs -> Calls] /\ p \in Procs
  BY CallIs
<1>2. call[p].pc = "idle" /\ UNCHANGED <<world, store, history>>
  BY DEF enable, Ready
<1>3. CASE Go(p, Return("enable", FALSE))
  <2>1. call'[p] = Return("enable", FALSE)
    BY <1>1, <1>3 DEF Go
  <2>2. Return("enable", FALSE).pc = "idle" /\ Return("enable", FALSE).op = "enable"
        /\ Return("enable", FALSE).ok = FALSE
    BY ReturnTyped
  <2> QED BY <1>2, <2>1, <2>2
<1>4. CASE HasEvidence /\ _payload_is_owned_and_active(store, session)
           /\ Go(p, Return("enable", TRUE))
  <2>1. call'[p] = Return("enable", TRUE)
    BY <1>1, <1>4 DEF Go
  <2>2. Return("enable", TRUE).pc = "idle" /\ Return("enable", TRUE).op = "enable"
    BY ReturnTyped
  <2> QED BY <1>2, <1>4, <2>1, <2>2
<1>5. ASSUME NEW names, store = None,
             Go(p, [Return("enable", TRUE) EXCEPT
                          !.pc = "save", !.client = session, !.active = Active,
                          !.payload = [cfg |-> config,
                                       saved |-> [n \in names |-> value[n]]]])
      PROVE  /\ call'[p].pc = "save" /\ call'[p].op = "enable" /\ store = None
             /\ call'[p].active = Active /\ call'[p].payload.cfg = config
             /\ \A n \in DOMAIN call'[p].payload.saved :
                  call'[p].payload.saved[n] = value[n]
  <2> DEFINE f == [cfg |-> config, saved |-> [n \in names |-> value[n]]]
             c == [Return("enable", TRUE) EXCEPT !.pc = "save", !.client = session,
                          !.active = Active, !.payload = f]
  <2>1. f.cfg = config /\ \A n \in DOMAIN f.saved : f.saved[n] = value[n]
    OBVIOUS
  <2>2. call'[p] = c
    BY <1>1, <1>5 DEF Go
  <2> HIDE DEF f
  <2>3. c.pc = "save" /\ c.op = "enable" /\ c.active = Active /\ c.payload = f
    BY DEF Return
  <2> HIDE DEF c
  <2> QED BY <1>5, <2>1, <2>2, <2>3
<1> QED BY <1>2, <1>3, <1>4, <1>5 DEF enable

LEMMA SaveEffect ==
    ASSUME TypeInv, NEW p, Procs = {p}, _save(p)
    PROVE  /\ call[p].pc = "save" /\ UNCHANGED <<world, history>>
           /\ \/ /\ store' = call[p].payload /\ call'[p].pc = "profile"
                 /\ call'[p].todo = call[p].active /\ call'[p].op = call[p].op
                 /\ call'[p].payload = call[p].payload /\ call'[p].client = call[p].client
                 /\ call'[p].active = call[p].active /\ call'[p].touched = call[p].touched
              \/ UNCHANGED store /\ call'[p].pc = "idle" /\ call'[p].ok = FALSE
<1> DEFINE d == [call[p] EXCEPT !.pc = "profile", !.todo = call[p].active]
<1>1. call \in [Procs -> Calls] /\ p \in Procs /\ call[p] \in Calls
  BY CallIs
<1>2. CASE store' = call[p].payload /\ Go(p, d)
  <2>1. call'[p] = d
    BY <1>1, <1>2 DEF Go
  <2>2. /\ d.op = call[p].op /\ d.payload = call[p].payload /\ d.pc = "profile"
        /\ d.todo = call[p].active /\ d.client = call[p].client
        /\ d.active = call[p].active /\ d.touched = call[p].touched
    BY <1>1 DEF Calls
  <2> HIDE DEF d
  <2> QED BY <1>2, <2>1, <2>2 DEF _save
<1>3. CASE Go(p, Return("enable", FALSE)) /\ UNCHANGED store
  <2>1. call'[p] = Return("enable", FALSE)
    BY <1>1, <1>3 DEF Go
  <2> QED BY <1>3, <2>1, ReturnTyped DEF _save
<1> QED BY <1>2, <1>3 DEF _save

(* A command failed, with T touched by then. *)
Fell(b, c, T) ==
    /\ c.payload = b.payload /\ c.client = b.client /\ c.active = b.active
    /\ c.pc \in {"profile", "url"} /\ c.op \in {"rollback", "disable"}
    /\ b.op # "enable" => c.ok = FALSE
    /\ b.op = "enable" =>
         /\ c.op = "rollback" /\ c.todo = T \cap Profiles
         /\ c.pc = IF T \cap DesktopNames # {} THEN "url" ELSE "profile"

LEMMA FailedFell ==
    ASSUME NEW c \in Calls, CallTyped(c), c.pc = "profile",
           NEW b, b.payload = c.payload, b.client = c.client, b.active = c.active,
           b.op = c.op
    PROVE  Fell(b, Failed(c), c.touched)
<1>1. c.op \in {"enable", "rollback", "disable"}
  BY DEF CallTyped, Working
<1>2. CASE c.op = "enable"
  <2>1. Failed(c) = RollBack(c)
    BY <1>2 DEF Failed, Restoring
  <2>2. /\ Failed(c).op = "rollback" /\ Failed(c).todo = c.touched \cap Profiles
        /\ Failed(c).pc = IF c.touched \cap DesktopNames # {} THEN "url" ELSE "profile"
        /\ Failed(c).client = c.client /\ Failed(c).payload = c.payload
        /\ Failed(c).active = c.active
    BY <2>1 DEF RollBack, Calls
  <2> QED BY <1>2, <2>2 DEF Fell
<1>3. CASE c.op # "enable"
  <2>1. Restoring(c) /\ Failed(c) = [c EXCEPT !.ok = FALSE]
    BY <1>1, <1>3 DEF Failed, Restoring
  <2>2. /\ Failed(c).op = c.op /\ Failed(c).pc = c.pc /\ Failed(c).ok = FALSE
        /\ Failed(c).client = c.client /\ Failed(c).payload = c.payload
        /\ Failed(c).active = c.active
    BY <2>1 DEF Calls
  <2> QED BY <1>1, <1>3, <2>2 DEF Fell
<1> QED BY <1>2, <1>3

(* The call stays the same but for what a command did. *)
Same(b, c) ==
    /\ c.payload = b.payload /\ c.client = b.client /\ c.active = b.active
    /\ c.op = b.op /\ c.ok = b.ok

LEMMA WriteIs ==
    ASSUME NEW b, NEW c, b.op = c.op, b.payload = c.payload, NEW n
    PROVE  Write(b, n) <=> Write(c, n)
BY DEF Write, Target, Restoring

LEMMA SetProxyEffect ==
    ASSUME TypeInv, NEW p, Procs = {p}, NEW u \in Profiles, _set_proxy(p, u)
    PROVE  /\ call[p].pc = "profile" /\ u \in call[p].todo
           /\ UNCHANGED <<device, config, session, store, user, drift, moved>>
           /\ \/ /\ Write(call[p], u) /\ Same(call[p], call'[p]) /\ value[u] # Gone
                 /\ call'[p].todo = call[p].todo \ {u}
                 /\ call'[p].touched = call[p].touched \cup {u}
                 /\ IF u \in call[p].active THEN call'[p].pc = "reapply" /\ call'[p].at = u
                                            ELSE call'[p].pc = "profile"
              \/ /\ Write(call[p], u) \/ UNCHANGED <<value, applied>>
                 /\ Fell(call[p], call'[p], call[p].touched \cup {u})
<1> DEFINE b == call[p]
           c == Taken(b, u)
           e == [c EXCEPT !.pc = "reapply", !.at = u]
<1>1. call \in [Procs -> Calls] /\ b \in Calls /\ CallTyped(b) /\ p \in Procs
  BY CallIs
<1>2. b.pc = "profile" /\ u \in b.todo
  BY <1>1 DEF _set_proxy, Calls
<1>3. /\ c \in Calls /\ CallTyped(c) /\ c.pc = "profile" /\ c.todo = b.todo \ {u}
      /\ c.touched = b.touched \cup {u} /\ c.op = b.op /\ c.ok = b.ok
      /\ c.payload = b.payload /\ c.client = b.client /\ c.active = b.active
      /\ u \in SavedProfiles(c.payload)
  BY <1>1, <1>2, TakenTyped
<1>4. /\ UNCHANGED <<device, config, session, store, user, drift, moved>>
      /\ \/ (Write(c, u) \/ UNCHANGED <<value, applied>>) /\ Go(p, Failed(c))
         \/ value[u] # Gone /\ Write(c, u) /\ Go(p, IF u \in c.active THEN e ELSE c)
  BY DEF _set_proxy, Taken
<1>5. Write(c, u) <=> Write(b, u)
  BY <1>3, WriteIs
<1> HIDE DEF c
<1>6. /\ e.pc = "reapply" /\ e.at = u /\ e.todo = c.todo /\ e.touched = c.touched
      /\ e.op = c.op /\ e.ok = c.ok /\ e.payload = c.payload /\ e.client = c.client
      /\ e.active = c.active
  BY <1>3 DEF Calls
<1>7. CASE Go(p, Failed(c)) /\ (Write(c, u) \/ UNCHANGED <<value, applied>>)
  <2>1. call'[p] = Failed(c)
    BY <1>1, <1>7 DEF Go
  <2>2. Fell(b, Failed(c), c.touched)
    BY <1>3, FailedFell
  <2> QED BY <1>2, <1>3, <1>4, <1>5, <1>7, <2>1, <2>2
<1>8. CASE value[u] # Gone /\ Write(c, u) /\ Go(p, IF u \in c.active THEN e ELSE c)
  <2> HIDE DEF e
  <2>1. call'[p] = IF u \in c.active THEN e ELSE c
    BY <1>1, <1>8 DEF Go
  <2>2. CASE u \in c.active
    BY <1>2, <1>3, <1>4, <1>5, <1>6, <1>8, <2>1, <2>2 DEF Same
  <2>3. CASE u \notin c.active
    BY <1>2, <1>3, <1>4, <1>5, <1>8, <2>1, <2>3 DEF Same
  <2> QED BY <2>2, <2>3
<1> QED BY <1>4, <1>7, <1>8

LEMMA ReapplyEffect ==
    ASSUME TypeInv, NEW p, Procs = {p}, _reapply(p)
    PROVE  /\ call[p].pc = "reapply"
           /\ UNCHANGED <<value, config, session, store, applied, user, drift>>
           /\ \/ /\ Same(call[p], call'[p]) /\ call'[p].pc = "profile"
                 /\ call'[p].todo = call[p].todo /\ call'[p].touched = call[p].touched
                 /\ device' = [device EXCEPT ![call[p].at] = value[call[p].at]]
                 /\ moved' = moved \ {call[p].at}
              \/ Fell(call[p], call'[p], call[p].touched) /\ UNCHANGED <<device, moved>>
<1> DEFINE b == call[p]
           c == [b EXCEPT !.pc = "profile", !.at = None]
<1>1. call \in [Procs -> Calls] /\ b \in Calls /\ CallTyped(b) /\ p \in Procs
      /\ b.pc = "reapply"
  BY CallIs DEF _reapply
<1>2. /\ c \in Calls /\ CallTyped(c) /\ c.pc = "profile"
      /\ c.todo = b.todo /\ c.touched = b.touched /\ c.op = b.op /\ c.ok = b.ok
      /\ c.payload = b.payload /\ c.client = b.client /\ c.active = b.active
  BY <1>1, OnwardTyped
<1>3. /\ UNCHANGED <<value, config, session, store, applied, user, drift>>
      /\ \/ /\ Go(p, c) /\ device' = [device EXCEPT ![b.at] = value[b.at]]
            /\ moved' = moved \ {b.at}
         \/ Go(p, Failed(c)) /\ UNCHANGED <<device, moved>>
  BY DEF _reapply
<1> HIDE DEF c
<1>4. CASE Go(p, c) /\ device' = [device EXCEPT ![b.at] = value[b.at]]
           /\ moved' = moved \ {b.at}
  <2>1. call'[p] = c
    BY <1>1, <1>4 DEF Go
  <2> QED BY <1>1, <1>2, <1>3, <1>4, <2>1 DEF Same
<1>5. CASE Go(p, Failed(c)) /\ UNCHANGED <<device, moved>>
  <2>1. call'[p] = Failed(c)
    BY <1>1, <1>5 DEF Go
  <2>2. Fell(b, Failed(c), c.touched)
    BY <1>2, FailedFell
  <2> QED BY <1>1, <1>2, <1>3, <1>5, <2>1, <2>2
<1> QED BY <1>3, <1>4, <1>5

LEMMA ProfilesDoneEffect ==
    ASSUME TypeInv, NEW p, Procs = {p}, _profiles_done(p)
    PROVE  /\ call[p].pc = "profile" /\ call[p].todo = {}
           /\ UNCHANGED <<world, store, left, history>>
           /\ \/ /\ Restoring(call[p]) /\ call[p].ok /\ Same(call[p], call'[p])
                 /\ call'[p].pc = "clear" /\ call'[p].todo = {}
              \/ /\ call[p].op = "enable" /\ Same(call[p], call'[p])
                 /\ call'[p].pc = "url" /\ call'[p].todo = {}
                 /\ call'[p].touched = call[p].touched
              \/ call'[p].pc = "idle" /\ call'[p].ok = FALSE
              \/ /\ call[p].op = "enable" /\ call'[p].pc = "idle" /\ call'[p].op = "enable"
                 /\ SavedFields(call[p].payload) = {}
<1> DEFINE c == call[p]
           x == [c EXCEPT !.pc = "clear"]
           y == [c EXCEPT !.pc = "url"]
<1>1. call \in [Procs -> Calls] /\ c \in Calls /\ CallTyped(c) /\ p \in Procs
      /\ c.pc = "profile" /\ c.todo = {} /\ UNCHANGED <<world, store, left, history>>
  BY CallIs DEF _profiles_done
<1>2. c.op \in {"enable", "rollback", "disable"}
  BY <1>1 DEF CallTyped, Working
<1>3. \/ Restoring(c) /\ c.ok /\ Go(p, x)
      \/ c.op = "enable" /\ Go(p, y)
      \/ \E op \in {"enable", "disable"} : Go(p, Return(op, FALSE))
      \/ c.op = "enable" /\ SavedFields(c.payload) = {} /\ Go(p, Return("enable", TRUE))
  BY <1>1, <1>2 DEF _profiles_done, Restoring
<1>4. /\ x.pc = "clear" /\ x.todo = c.todo /\ x.op = c.op
      /\ x.ok = c.ok /\ x.payload = c.payload /\ x.client = c.client /\ x.active = c.active
  BY <1>1 DEF Calls
<1>5. /\ y.pc = "url" /\ y.todo = c.todo /\ y.touched = c.touched /\ y.op = c.op
      /\ y.ok = c.ok /\ y.payload = c.payload /\ y.client = c.client /\ y.active = c.active
  BY <1>1 DEF Calls
<1> HIDE DEF x, y
<1>6. CASE Restoring(c) /\ c.ok /\ Go(p, x)
  <2>1. call'[p] = x
    BY <1>1, <1>6 DEF Go
  <2> QED BY <1>1, <1>4, <1>6, <2>1 DEF Same
<1>7. CASE c.op = "enable" /\ Go(p, y)
  <2>1. call'[p] = y
    BY <1>1, <1>7 DEF Go
  <2> QED BY <1>1, <1>5, <1>7, <2>1 DEF Same
<1>8. CASE \E op \in {"enable", "disable"} : Go(p, Return(op, FALSE))
  <2>1. PICK op \in {"enable", "disable"} : call'[p] = Return(op, FALSE)
    BY <1>1, <1>8 DEF Go
  <2> QED BY <1>1, <2>1, ReturnTyped
<1>9. CASE c.op = "enable" /\ SavedFields(c.payload) = {} /\ Go(p, Return("enable", TRUE))
  <2>1. call'[p] = Return("enable", TRUE)
    BY <1>1, <1>9 DEF Go
  <2> QED BY <1>1, <1>9, <2>1, ReturnTyped
<1> QED BY <1>3, <1>6, <1>7, <1>8, <1>9

LEMMA SetUrlEffect ==
    ASSUME TypeInv, NEW p, Procs = {p}, _set_url(p)
    PROVE  LET n == <<call[p].client, "url">>
           IN  /\ call[p].pc = "url"
               /\ UNCHANGED <<device, config, session, store, user, drift, moved>>
               /\ \/ /\ Write(call[p], n) /\ Same(call[p], call'[p]) /\ call'[p].pc = "mode"
                     /\ call'[p].todo = call[p].todo
                     /\ call'[p].touched = call[p].touched \cup {n}
                  \/ /\ Write(call[p], n) \/ UNCHANGED <<value, applied>>
                     /\ Fell(call[p], call'[p], call[p].touched \cup {n})
<1> DEFINE b == call[p]
           n == <<b.client, "url">>
           c == Begun(b)
           x == [c EXCEPT !.pc = "mode"]
           y == [c EXCEPT !.pc = "profile"]
<1>1. call \in [Procs -> Calls] /\ b \in Calls /\ CallTyped(b) /\ p \in Procs
  BY CallIs
<1>2. b.pc = "url"
  BY <1>1 DEF _set_url, Calls
<1>3. /\ c \in Calls /\ CallTyped(c) /\ c.pc = "url" /\ c.todo = b.todo
      /\ c.touched = b.touched \cup {n} /\ c.op = b.op /\ c.ok = b.ok
      /\ c.payload = b.payload /\ c.client = b.client /\ c.active = b.active
  BY <1>1, <1>2, BegunTyped
<1>4. /\ UNCHANGED <<device, config, session, store, user, drift, moved>>
      /\ \/ Write(c, n) /\ Go(p, x)
         \/ (Write(c, n) \/ UNCHANGED <<value, applied>>) /\ Go(p, Failed(y))
  BY DEF _set_url, Begun
<1>5. Write(c, n) <=> Write(b, n)
  BY <1>3, WriteIs
<1> HIDE DEF c
<1>6. /\ x.pc = "mode" /\ x.todo = c.todo /\ x.touched = c.touched /\ x.op = c.op
      /\ x.ok = c.ok /\ x.payload = c.payload /\ x.client = c.client /\ x.active = c.active
  BY <1>3 DEF Calls
<1>7. /\ y \in Calls /\ CallTyped(y) /\ y.pc = "profile" /\ y.touched = c.touched
      /\ y.op = c.op /\ y.payload = c.payload /\ y.client = c.client /\ y.active = c.active
  BY <1>3, OnwardTyped
<1> HIDE DEF x, y
<1>8. CASE Write(c, n) /\ Go(p, x)
  <2>1. call'[p] = x
    BY <1>1, <1>8 DEF Go
  <2> QED BY <1>2, <1>3, <1>4, <1>5, <1>6, <1>8, <2>1 DEF Same
<1>9. CASE (Write(c, n) \/ UNCHANGED <<value, applied>>) /\ Go(p, Failed(y))
  <2>1. call'[p] = Failed(y)
    BY <1>1, <1>9 DEF Go
  <2>2. Fell(b, Failed(y), y.touched)
    BY <1>3, <1>7, FailedFell
  <2> QED BY <1>2, <1>3, <1>4, <1>5, <1>7, <1>9, <2>1, <2>2
<1> QED BY <1>4, <1>8, <1>9

LEMMA SetModeEffect ==
    ASSUME TypeInv, NEW p, Procs = {p}, _set_mode(p)
    PROVE  LET n == <<call[p].client, "mode">>
               url == <<call[p].client, "url">>
           IN  /\ call[p].pc = "mode"
               /\ UNCHANGED <<device, config, session, store, user, drift, moved>>
               /\ \/ /\ Write(call[p], n) /\ Restoring(call[p])
                     /\ Same(call[p], call'[p]) /\ call'[p].pc = "profile"
                     /\ call'[p].todo = call[p].todo
                  \/ /\ Write(call[p], n) /\ call[p].op = "enable"
                     /\ call'[p].pc = "idle" /\ call'[p].op = "enable"
                     /\ value[url] = Target(call[p], url)
                  \/ /\ Write(call[p], n) \/ UNCHANGED <<value, applied>>
                     /\ Fell(call[p], call'[p], call[p].touched)
<1> DEFINE b == call[p]
           n == <<b.client, "mode">>
           url == <<b.client, "url">>
           y == [b EXCEPT !.pc = "profile"]
<1>1. call \in [Procs -> Calls] /\ b \in Calls /\ CallTyped(b) /\ p \in Procs
      /\ b.pc = "mode" /\ b.op \in {"enable", "rollback", "disable"}
  BY CallIs DEF _set_mode, CallTyped, Working
<1>2. /\ y \in Calls /\ CallTyped(y) /\ y.pc = "profile" /\ y.touched = b.touched
      /\ y.op = b.op /\ y.payload = b.payload /\ y.client = b.client /\ y.active = b.active
      /\ y.todo = b.todo /\ y.ok = b.ok
  BY <1>1, OnwardTyped
<1>3. /\ UNCHANGED <<device, config, session, store, user, drift, moved>>
      /\ \/ Write(b, n) /\ Restoring(b) /\ Go(p, y)
         \/ /\ Write(b, n) /\ ~Restoring(b) /\ value[url] = Target(b, url)
            /\ Go(p, Return("enable", TRUE))
         \/ (Write(b, n) \/ UNCHANGED <<value, applied>>) /\ Go(p, Failed(y))
  BY DEF _set_mode
<1> HIDE DEF y
<1>4. CASE Write(b, n) /\ Restoring(b) /\ Go(p, y)
  <2>1. call'[p] = y
    BY <1>1, <1>4 DEF Go
  <2> QED BY <1>1, <1>2, <1>3, <1>4, <2>1 DEF Same
<1>5. CASE Write(b, n) /\ ~Restoring(b) /\ value[url] = Target(b, url)
           /\ Go(p, Return("enable", TRUE))
  <2>1. call'[p] = Return("enable", TRUE)
    BY <1>1, <1>5 DEF Go
  <2>2. b.op = "enable"
    BY <1>1, <1>5 DEF Restoring
  <2> QED BY <1>1, <1>3, <1>5, <2>1, <2>2, ReturnTyped
<1>6. CASE (Write(b, n) \/ UNCHANGED <<value, applied>>) /\ Go(p, Failed(y))
  <2>1. call'[p] = Failed(y)
    BY <1>1, <1>6 DEF Go
  <2>2. Fell(b, Failed(y), y.touched)
    BY <1>2, FailedFell
  <2> QED BY <1>1, <1>2, <1>3, <1>6, <2>1, <2>2
<1> QED BY <1>3, <1>4, <1>5, <1>6

LEMMA ClearEffect ==
    ASSUME TypeInv, NEW p, Procs = {p}, _clear(p)
    PROVE  /\ call[p].pc = "clear" /\ UNCHANGED <<world, history>>
           /\ call'[p].pc = "idle"
           /\ \/ store' = None /\ (call'[p].op = "disable" \/ call'[p].ok = FALSE)
              \/ UNCHANGED store /\ call'[p].ok = FALSE
<1>1. call \in [Procs -> Calls] /\ p \in Procs
  BY CallIs
<1>2. call[p].pc = "clear" /\ UNCHANGED <<world, history>>
  BY DEF _clear
<1>3. \/ store' = None /\ Go(p, Return("disable", TRUE))
      \/ store' = None /\ Go(p, Return("enable", FALSE))
      \/ UNCHANGED store /\ Go(p, Return("disable", FALSE))
      \/ UNCHANGED store /\ Go(p, Return("enable", FALSE))
  BY DEF _clear
<1>4. \A op \in {"enable", "disable"}, ok \in BOOLEAN :
        Go(p, Return(op, ok)) =>
          call'[p].pc = "idle" /\ call'[p].op = op /\ call'[p].ok = ok
  BY <1>1, ReturnTyped DEF Go
<1> QED BY <1>2, <1>3, <1>4

LEMMA DisableEffect ==
    ASSUME TypeInv, NEW p, Procs = {p}, disable(p)
    PROVE  LET S == {u \in SavedProfiles(store) : value[u] # Gone}
           IN  /\ call[p].pc = "idle" /\ UNCHANGED <<world, store, history>>
               /\ \/ /\ call'[p].pc = "idle" /\ call'[p].op = "disable"
                     /\ call'[p].ok = TRUE => store = None
                  \/ /\ HasEvidence /\ OwnedOrSaved(store, session)
                     /\ call'[p].pc = (IF SavedFields(store) # {} THEN "url" ELSE "profile")
                     /\ call'[p].op = "disable" /\ call'[p].todo = S
                     /\ call'[p].payload = store /\ call'[p].active = Active
                     /\ call'[p].client = session
<1> DEFINE S == {u \in SavedProfiles(store) : value[u] # Gone}
<1>1. call \in [Procs -> Calls] /\ p \in Procs
  BY CallIs
<1>2. call[p].pc = "idle" /\ UNCHANGED <<world, store, history>>
  BY DEF disable, Ready
<1>3. \/ store = None /\ Go(p, Return("disable", TRUE))
      \/ Go(p, Return("disable", FALSE))
      \/ HasEvidence /\ OwnedOrSaved(store, session) /\ Go(p, Restore(S))
  BY DEF disable
<1>4. \A ok \in BOOLEAN :
        Go(p, Return("disable", ok)) =>
          call'[p].pc = "idle" /\ call'[p].op = "disable" /\ call'[p].ok = ok
  BY <1>1, ReturnTyped DEF Go
<1>5. CASE HasEvidence /\ OwnedOrSaved(store, session) /\ Go(p, Restore(S))
  <2>1. call'[p] = Restore(S)
    BY <1>1, <1>5 DEF Go
  <2>2. S \in SUBSET SavedProfiles(store)
    OBVIOUS
  <2> HIDE DEF S
  <2>3. /\ Restore(S).pc = (IF SavedFields(store) # {} THEN "url" ELSE "profile")
        /\ Restore(S).op = "disable" /\ Restore(S).todo = S /\ Restore(S).payload = store
        /\ Restore(S).active = Active /\ Restore(S).client = session
    BY <1>5, <2>2, RestoreTyped
  <2> QED BY <1>2, <1>5, <2>1, <2>3 DEF S
<1> QED BY <1>2, <1>3, <1>4, <1>5

LEMMA SyncSaveEffect ==
    ASSUME TypeInv, NEW p, Procs = {p}, _sync_save(p)
    PROVE  /\ call[p].pc = "sync" /\ UNCHANGED <<world, history>>
           /\ call'[p].pc = "idle" /\ call'[p].op = "sync"
           /\ store' = call[p].payload \/ UNCHANGED store
<1>1. call \in [Procs -> Calls] /\ p \in Procs
  BY CallIs
<1>2. call[p].pc = "sync" /\ UNCHANGED <<world, history>>
      /\ (store' = call[p].payload \/ UNCHANGED store)
      /\ \E ok \in BOOLEAN : Go(p, Return("sync", ok))
  BY DEF _sync_save
<1>3. \A ok \in BOOLEAN :
        Go(p, Return("sync", ok)) => call'[p].pc = "idle" /\ call'[p].op = "sync"
  BY <1>1, ReturnTyped DEF Go
<1> QED BY <1>2, <1>3

LEMMA CrashEffect ==
    ASSUME TypeInv, NEW p, Procs = {p}, Crash(p)
    PROVE  /\ call'[p].pc = "idle" /\ call'[p].op = "none"
           /\ UNCHANGED <<world, store, history>>
<1>1. call \in [Procs -> Calls] /\ p \in Procs
  BY CallIs
<1>2. call'[p] = Return("none", FALSE)
  BY <1>1 DEF Crash, Go, Idle
<1> QED BY <1>2, ReturnTyped DEF Crash

-----------------------------------------------------------------------------
(* The rollback file outlives what it is needed for.                             *)

LEMMA SafeInit ==
    ASSUME NEW p, Procs = {p}
    PROVE  Init => SafeInv
BY TypeInit, LinuxAssumption DEF Init, SafeInv, CallSafe, Idle, Return, Working, HasEvidence

LEMMA IdleSafe ==
    ASSUME NEW p, call'[p].pc = "idle"
    PROVE  CallSafe(call[p])'
BY DEF CallSafe, Working

(* The file of a call at work. *)
LEMMA WorkingFile ==
    ASSUME SafeInv, NEW p, Procs = {p}, call[p].pc \in Working
    PROVE  /\ call[p] \in Calls /\ CallTyped(call[p]) /\ CallSafe(call[p])
           /\ store = call[p].payload /\ store \in Files /\ HasEvidence
           /\ applied \subseteq DOMAIN store.saved
           /\ call[p].op \in {"enable", "rollback", "disable"}
<1>1. call[p] \in Calls /\ CallTyped(call[p]) /\ CallSafe(call[p])
  BY CallIs DEF SafeInv
<1>2. store = call[p].payload /\ store \in Files
  BY <1>1 DEF CallSafe, CallTyped, Working
<1>3. HasEvidence
  BY <1>2, FileIs DEF HasEvidence
<1>4. call[p].op \in {"enable", "rollback", "disable"}
  BY <1>1 DEF CallTyped
<1> QED BY <1>1, <1>2, <1>3, <1>4 DEF SafeInv

(* A write by a call at work keeps what does not depend on the call. *)
LEMMA WriteSafe ==
    ASSUME SafeInv, HasEvidence, store \in Files, UNCHANGED store,
           NEW c, c.payload = store, NEW n \in DOMAIN store.saved,
           Write(c, n) \/ UNCHANGED <<value, applied>>
    PROVE  /\ store' = None => applied' = {}
           /\ HasEvidence' => applied' \subseteq DOMAIN store'.saved
           /\ \A m \in applied' : value'[m] # Gone
<1>1. CASE UNCHANGED <<value, applied>>
  BY <1>1 DEF SafeInv, HasEvidence
<1>2. CASE Write(c, n)
  <2>1. /\ Target(c, n) # Gone /\ value'[n] = Target(c, n)
        /\ \A m \in Names \ {n} : value'[m] = value[m]
    BY <1>2, WriteTyped DEF SafeInv
  <2>2. applied' \subseteq applied \cup {n} /\ applied \subseteq Names
    BY <1>2 DEF Write, SafeInv, TypeInv
  <2>3. applied \subseteq DOMAIN store.saved /\ store # None
    BY DEF SafeInv, HasEvidence
  <2> QED BY <2>1, <2>2, <2>3 DEF SafeInv
<1> QED BY <1>1, <1>2

(* What a call touched is rolled back with the whole desktop. *)
Reach(c, T) == T \cup (IF T \cap DesktopNames # {} THEN Fields(c.client) ELSE {})

(* A command of a call at work failed. *)
LEMMA FellSafe ==
    ASSUME SafeInv, NEW p, Procs = {p}, call[p].pc \in Working, UNCHANGED store,
           NEW T, Fell(call[p], call'[p], T), T \subseteq DOMAIN store.saved,
           call[p].op = "enable" => applied' \subseteq Reach(call[p], T)
    PROVE  CallSafe(call[p])'
<1> DEFINE b == call[p]
           c == call'[p]
<1>1. /\ b \in Calls /\ CallTyped(b) /\ store = b.payload /\ store \in Files
      /\ b.op \in {"enable", "rollback", "disable"}
  BY WorkingFile
<1>2. b.op = "enable" => applied' \subseteq Ahead(c)
  <2>1. DOMAIN store.saved \subseteq Profiles \cup DesktopNames
    BY <1>1, FileIs DEF Names
  <2>2. T \cap DesktopNames # {} => T \cap DesktopNames \subseteq Fields(b.client)
    BY <1>1 DEF CallTyped, _desktop_backend_matches_payload, SavedFields
  <2> QED BY <2>1, <2>2 DEF Fell, Ahead, Reach
<1>3. b.op # "enable" => c.ok = FALSE
  BY DEF Fell
<1>4. c.payload = store' /\ c.pc \in {"profile", "url"} /\ c.op # "enable"
  BY <1>1 DEF Fell
<1> QED BY <1>1, <1>2, <1>3, <1>4 DEF CallSafe, Working

LEMMA EnableSafe ==
    ASSUME SafeInv, NEW p, Procs = {p}, enable(p)
    PROVE  SafeInv'
<1>1. TypeInv'
  BY EnableTyped DEF SafeInv
<1>2. /\ UNCHANGED <<world, store, history>>
      /\ call'[p].pc = "idle" \/ (call'[p].pc = "save" /\ store = None)
  BY EnableEffect DEF SafeInv
<1>3. CallSafe(call[p])'
  BY <1>2 DEF CallSafe, Working
<1> QED BY <1>1, <1>2, <1>3 DEF SafeInv, HasEvidence, world, history

LEMMA SaveSafe ==
    ASSUME SafeInv, NEW p, Procs = {p}, _save(p)
    PROVE  SafeInv'
<1>1. TypeInv' /\ call[p].pc = "save" /\ CallTyped(call[p]) /\ UNCHANGED <<world, history>>
  BY SaveTyped, CallIs, SaveEffect DEF SafeInv
<1>2. store = None /\ applied = {} /\ call[p].payload \in Files /\ call[p].op = "enable"
  BY <1>1 DEF SafeInv, CallSafe, CallTyped
<1>3. UNCHANGED <<value, applied>>
  BY <1>1 DEF world, history
<1>4. CASE /\ store' = call[p].payload /\ call'[p].pc = "profile"
           /\ call'[p].op = call[p].op /\ call'[p].payload = call[p].payload
  <2>1. CallSafe(call[p])'
    BY <1>2, <1>3, <1>4 DEF CallSafe, Restoring
  <2> QED BY <1>1, <1>2, <1>3, <1>4, <2>1, FileIs DEF SafeInv
<1>5. CASE UNCHANGED store /\ call'[p].pc = "idle"
  BY <1>1, <1>2, <1>3, <1>5, IdleSafe DEF SafeInv
<1> QED BY <1>4, <1>5, SaveEffect DEF SafeInv

LEMMA SetProxySafe ==
    ASSUME SafeInv, NEW p, Procs = {p}, NEW u \in Profiles, _set_proxy(p, u)
    PROVE  SafeInv'
<1> DEFINE b == call[p]
           c == call'[p]
           T == b.touched \cup {u}
           Onward == /\ Write(b, u) /\ Same(b, c) /\ c.todo = b.todo \ {u} /\ c.touched = T
                     /\ c.pc \in {"reapply", "profile"}
           Back == (Write(b, u) \/ UNCHANGED <<value, applied>>) /\ Fell(b, c, T)
<1>1. TypeInv'
  BY SetProxyTyped DEF SafeInv
<1>2. b.pc = "profile" /\ u \in b.todo /\ UNCHANGED store /\ (Onward \/ Back)
  BY SetProxyEffect DEF SafeInv
<1>3. /\ CallTyped(b) /\ CallSafe(b) /\ store = b.payload /\ store \in Files /\ HasEvidence
      /\ b.op \in {"enable", "rollback", "disable"}
  BY <1>2, WorkingFile DEF Working
<1>4. u \in DOMAIN store.saved /\ T \subseteq DOMAIN store.saved
  BY <1>2, <1>3 DEF CallTyped, Working
<1>5. /\ store' = None => applied' = {}
      /\ HasEvidence' => applied' \subseteq DOMAIN store'.saved
      /\ \A m \in applied' : value'[m] # Gone
  BY <1>2, <1>3, <1>4, WriteSafe
<1>6. b.op = "enable" => applied' \subseteq Reach(b, T)
  <2>1. b.op = "enable" => applied \subseteq Reach(b, b.touched)
    BY <1>2, <1>3 DEF CallSafe, Working, Behind, Reach
  <2>2. Reach(b, b.touched) \cup {u} \subseteq Reach(b, T)
    BY DEF Reach
  <2>3. applied' \subseteq applied \cup {u}
    BY <1>2 DEF Write
  <2> QED BY <2>1, <2>2, <2>3
<1>7. CASE Back
  <2>1. CallSafe(call[p])'
    BY <1>2, <1>4, <1>6, <1>7, FellSafe DEF Working
  <2> QED BY <1>1, <1>5, <2>1 DEF SafeInv
<1>8. CASE Onward
  <2>1. Restoring(b) /\ b.ok => applied' \subseteq c.todo
    BY <1>2, <1>3, <1>8 DEF CallSafe, Working, Write, Ahead
  <2>2. Restoring(c) /\ c.ok => applied' \subseteq Ahead(c)
    BY <1>8, <2>1 DEF Same, Restoring, Ahead
  <2>3. c.op = "enable" => applied' \subseteq Behind(c)
    BY <1>6, <1>8 DEF Same, Behind, Reach
  <2>4. c.payload = store' /\ c.pc \in {"reapply", "profile"}
    BY <1>2, <1>3, <1>8 DEF Same
  <2>5. CallSafe(call[p])'
    BY <2>2, <2>3, <2>4 DEF CallSafe, Working
  <2> QED BY <1>1, <1>5, <2>5 DEF SafeInv
<1> QED BY <1>2, <1>7, <1>8

LEMMA ReapplySafe ==
    ASSUME SafeInv, NEW p, Procs = {p}, _reapply(p)
    PROVE  SafeInv'
<1> DEFINE b == call[p]
           c == call'[p]
<1>1. TypeInv'
  BY ReapplyTyped DEF SafeInv
<1>2. /\ b.pc = "reapply" /\ UNCHANGED <<store, value, applied>>
      /\ \/ Same(b, c) /\ c.pc = "profile" /\ c.todo = b.todo /\ c.touched = b.touched
         \/ Fell(b, c, b.touched)
  BY ReapplyEffect DEF SafeInv
<1>3. /\ CallTyped(b) /\ CallSafe(b) /\ store = b.payload
      /\ b.op \in {"enable", "rollback", "disable"}
  BY <1>2, WorkingFile DEF Working
<1>4. b.op = "enable" => applied' \subseteq Reach(b, b.touched)
  BY <1>2, <1>3 DEF CallSafe, Working, Behind, Reach
<1>5. CASE Fell(b, c, b.touched)
  <2>1. b.touched \subseteq DOMAIN store.saved
    BY <1>2, <1>3 DEF CallTyped, Working
  <2>2. CallSafe(call[p])'
    BY <1>2, <1>4, <1>5, <2>1, FellSafe DEF Working
  <2> QED BY <1>1, <1>2, <2>2 DEF SafeInv, HasEvidence
<1>6. CASE Same(b, c) /\ c.pc = "profile" /\ c.todo = b.todo /\ c.touched = b.touched
  <2>1. Restoring(b) /\ b.ok => applied' \subseteq b.todo
    BY <1>2, <1>3 DEF CallSafe, Working, Ahead
  <2>2. CallSafe(call[p])'
    BY <1>2, <1>3, <1>4, <1>6, <2>1 DEF CallSafe, Working, Same, Restoring, Ahead, Behind, Reach
  <2> QED BY <1>1, <1>2, <2>2 DEF SafeInv, HasEvidence
<1> QED BY <1>2, <1>5, <1>6

LEMMA ProfilesDoneSafe ==
    ASSUME SafeInv, NEW p, Procs = {p}, _profiles_done(p)
    PROVE  SafeInv'
<1> DEFINE b == call[p]
           c == call'[p]
<1>1. TypeInv' /\ b.pc = "profile" /\ b.todo = {} /\ UNCHANGED <<value, store, applied>>
  BY ProfilesDoneTyped, ProfilesDoneEffect DEF SafeInv, world, history
<1>2. CallSafe(b) /\ store = b.payload
  BY <1>1, WorkingFile DEF Working
<1>3. CASE Restoring(b) /\ b.ok /\ Same(b, c) /\ c.pc = "clear" /\ c.todo = {}
  <2>1. applied = {}
    BY <1>1, <1>2, <1>3 DEF CallSafe, Working, Ahead
  <2> QED BY <1>1, <1>2, <1>3, <2>1 DEF SafeInv, HasEvidence, CallSafe, Working, Same
<1>4. CASE /\ b.op = "enable" /\ Same(b, c) /\ c.pc = "url" /\ c.todo = {}
           /\ c.touched = b.touched
  <2>1. applied \subseteq Behind(c)
    BY <1>1, <1>2, <1>4 DEF CallSafe, Working, Behind, Same
  <2>2. c.op = "enable" /\ c.payload = store'
    BY <1>1, <1>2, <1>4 DEF Same
  <2>3. CallSafe(call[p])'
    BY <1>1, <1>4, <2>1, <2>2 DEF CallSafe, Working, Restoring
  <2> QED BY <1>1, <2>3 DEF SafeInv, HasEvidence
<1>5. CASE c.pc = "idle"
  BY <1>1, <1>5, IdleSafe DEF SafeInv, HasEvidence
<1> QED BY <1>3, <1>4, <1>5, ProfilesDoneEffect DEF SafeInv

LEMMA SetUrlSafe ==
    ASSUME SafeInv, NEW p, Procs = {p}, _set_url(p)
    PROVE  SafeInv'
<1> DEFINE b == call[p]
           c == call'[p]
           n == <<b.client, "url">>
           T == b.touched \cup {n}
           Onward == /\ Write(b, n) /\ Same(b, c) /\ c.todo = b.todo /\ c.touched = T
                     /\ c.pc = "mode"
           Back == (Write(b, n) \/ UNCHANGED <<value, applied>>) /\ Fell(b, c, T)
<1>1. TypeInv'
  BY SetUrlTyped DEF SafeInv
<1>2. b.pc = "url" /\ UNCHANGED store /\ (Onward \/ Back)
  BY SetUrlEffect DEF SafeInv
<1>3. /\ b \in Calls /\ CallTyped(b) /\ CallSafe(b) /\ store = b.payload /\ store \in Files
      /\ HasEvidence /\ b.op \in {"enable", "rollback", "disable"}
  BY <1>2, WorkingFile DEF Working
<1>4. n \in DOMAIN store.saved /\ b.client \in Backends
  BY <1>2, <1>3, AtDesktop
<1>5. T \subseteq DOMAIN store.saved /\ n \in DesktopNames
      /\ Fields(b.client) = {n, <<b.client, "mode">>}
  BY <1>2, <1>3, <1>4, FieldsAre DEF CallTyped, Working
<1> HIDE DEF n
<1>6. /\ store' = None => applied' = {}
      /\ HasEvidence' => applied' \subseteq DOMAIN store'.saved
      /\ \A m \in applied' : value'[m] # Gone
  BY <1>2, <1>3, <1>4, WriteSafe
<1>7. b.op = "enable" => applied' \subseteq Reach(b, T)
  <2>1. b.op = "enable" => applied \subseteq Reach(b, b.touched)
    BY <1>2, <1>3 DEF CallSafe, Working, Behind, Reach
  <2>2. Reach(b, b.touched) \cup {n} \subseteq Reach(b, T)
    BY DEF Reach
  <2>3. applied' \subseteq applied \cup {n}
    BY <1>2 DEF Write
  <2> QED BY <2>1, <2>2, <2>3
<1>8. CASE Back
  <2>1. CallSafe(call[p])'
    BY <1>2, <1>5, <1>7, <1>8, FellSafe DEF Working
  <2> QED BY <1>1, <1>6, <2>1 DEF SafeInv
<1>9. CASE Onward
  <2>1. Restoring(b) /\ b.ok => applied' \subseteq b.todo \cup {<<b.client, "mode">>}
    BY <1>2, <1>3, <1>5, <1>9 DEF CallSafe, Working, Write, Ahead
  <2>2. Restoring(c) /\ c.ok => applied' \subseteq Ahead(c)
    BY <1>9, <2>1 DEF Same, Restoring, Ahead
  <2>3. c.op = "enable" => applied' \subseteq Behind(c)
    BY <1>7, <1>9 DEF Same, Behind, Reach
  <2>4. c.payload = store' /\ c.pc = "mode"
    BY <1>2, <1>3, <1>9 DEF Same
  <2>5. CallSafe(call[p])'
    BY <2>2, <2>3, <2>4 DEF CallSafe, Working
  <2> QED BY <1>1, <1>6, <2>5 DEF SafeInv
<1> QED BY <1>2, <1>8, <1>9

LEMMA SetModeSafe ==
    ASSUME SafeInv, NEW p, Procs = {p}, _set_mode(p)
    PROVE  SafeInv'
<1> DEFINE b == call[p]
           c == call'[p]
           n == <<b.client, "mode">>
           Onward == /\ Write(b, n) /\ Restoring(b) /\ Same(b, c) /\ c.todo = b.todo
                     /\ c.pc = "profile"
           Back == (Write(b, n) \/ UNCHANGED <<value, applied>>) /\ Fell(b, c, b.touched)
<1>1. TypeInv'
  BY SetModeTyped DEF SafeInv
<1>2. b.pc = "mode" /\ UNCHANGED store
      /\ (Onward \/ Back \/ (c.pc = "idle" /\ Write(b, n)))
  BY SetModeEffect DEF SafeInv
<1>3. /\ b \in Calls /\ CallTyped(b) /\ CallSafe(b) /\ store = b.payload /\ store \in Files
      /\ HasEvidence /\ b.op \in {"enable", "rollback", "disable"}
  BY <1>2, WorkingFile DEF Working
<1>4. n \in DOMAIN store.saved /\ b.client \in Backends
  BY <1>2, <1>3, AtDesktop
<1>5. b.touched \subseteq DOMAIN store.saved /\ n \in Fields(b.client)
      /\ b.touched \cap DesktopNames # {}
  BY <1>2, <1>3, <1>4, FieldsAre DEF CallTyped, Working
<1> HIDE DEF n
<1>6. /\ store' = None => applied' = {}
      /\ HasEvidence' => applied' \subseteq DOMAIN store'.saved
      /\ \A m \in applied' : value'[m] # Gone
  BY <1>2, <1>3, <1>4, WriteSafe
<1>7. b.op = "enable" => applied' \subseteq Reach(b, b.touched)
  <2>1. b.op = "enable" => applied \subseteq Reach(b, b.touched)
    BY <1>2, <1>3 DEF CallSafe, Working, Behind, Reach
  <2>2. applied' \subseteq applied \cup {n}
    BY <1>2 DEF Write
  <2> QED BY <1>5, <2>1, <2>2 DEF Reach
<1>8. CASE Back
  <2>1. CallSafe(call[p])'
    BY <1>2, <1>5, <1>7, <1>8, FellSafe DEF Working
  <2> QED BY <1>1, <1>6, <2>1 DEF SafeInv
<1>9. CASE Onward
  <2>1. b.ok => applied' \subseteq b.todo
    BY <1>2, <1>3, <1>9 DEF CallSafe, Working, Write, Ahead, n
  <2>2. c.ok => applied' \subseteq Ahead(c)
    BY <1>9, <2>1 DEF Same, Ahead
  <2>3. c.payload = store' /\ c.pc = "profile" /\ c.op # "enable"
    BY <1>2, <1>3, <1>9 DEF Same, Restoring
  <2>4. CallSafe(call[p])'
    BY <2>2, <2>3 DEF CallSafe, Working
  <2> QED BY <1>1, <1>6, <2>4 DEF SafeInv
<1>10. CASE c.pc = "idle"
  BY <1>1, <1>6, <1>10, IdleSafe DEF SafeInv
<1> QED BY <1>2, <1>8, <1>9, <1>10

(* The file goes only when nothing is applied any more. *)
LEMMA ClearSafe ==
    ASSUME SafeInv, NEW p, Procs = {p}, _clear(p)
    PROVE  SafeInv' /\ applied = {} /\ HasEvidence
<1>1. TypeInv' /\ call[p].pc = "clear" /\ call'[p].pc = "idle" /\ UNCHANGED <<value, applied>>
      /\ (store' = None \/ UNCHANGED store)
  BY ClearTyped, ClearEffect DEF SafeInv, world, history
<1>2. CallTyped(call[p]) /\ CallSafe(call[p]) /\ HasEvidence
  BY <1>1, WorkingFile DEF Working
<1>3. applied = {}
  BY <1>1, <1>2 DEF CallTyped, CallSafe, Working, Ahead
<1>4. CallSafe(call[p])'
  BY <1>1, IdleSafe
<1> QED BY <1>1, <1>2, <1>3, <1>4 DEF SafeInv

LEMMA DisableSafe ==
    ASSUME SafeInv, NEW p, Procs = {p}, disable(p)
    PROVE  SafeInv'
<1> DEFINE c == call'[p]
           S == {u \in SavedProfiles(store) : value[u] # Gone}
<1>1. TypeInv' /\ UNCHANGED <<value, store, applied>>
  BY DisableTyped, DisableEffect DEF SafeInv, world, history
<1>2. CASE c.pc = "idle"
  BY <1>1, <1>2, IdleSafe DEF SafeInv, HasEvidence
<1>3. CASE /\ HasEvidence /\ OwnedOrSaved(store, session)
           /\ c.pc = (IF SavedFields(store) # {} THEN "url" ELSE "profile")
           /\ c.op = "disable" /\ c.todo = S /\ c.payload = store /\ c.client = session
  <2>1. applied \subseteq DOMAIN store.saved /\ (\A n \in applied : value[n] # Gone)
        /\ applied \subseteq Profiles \cup DesktopNames
    BY <1>3 DEF SafeInv, TypeInv, Names
  <2>2. SavedFields(store) # {} => SavedFields(store) = Fields(session)
    BY <1>3 DEF OwnedOrSaved, _desktop_backend_matches_payload
  <2>3. applied \subseteq S \cup SavedFields(store)
    BY <2>1 DEF SavedProfiles, SavedFields
  <2> HIDE DEF S
  <2>4. applied \subseteq Ahead(c)
    BY <1>3, <2>2, <2>3 DEF Ahead
  <2>5. c.pc \in {"url", "profile"} /\ c.op # "enable" /\ c.payload = store'
    BY <1>1, <1>3
  <2>6. CallSafe(call[p])'
    BY <1>1, <2>4, <2>5 DEF CallSafe, Working
  <2> QED BY <1>1, <2>6 DEF SafeInv, HasEvidence
<1> QED BY <1>2, <1>3, DisableEffect DEF SafeInv

LEMMA SyncSafe ==
    ASSUME SafeInv, NEW p, Procs = {p}, sync_no_proxy(p)
    PROVE  SafeInv'
<1>1. /\ TypeInv' /\ call'[p].pc = "sync" /\ call'[p].payload.saved = store.saved
      /\ call'[p].payload.cfg = config
  BY SyncTyped DEF SafeInv
<1>2. /\ UNCHANGED <<value, store, applied>> /\ HasEvidence /\ store.cfg.pac = config.pac
  BY DEF sync_no_proxy, world, history
<1>3. CallSafe(call[p])'
  BY <1>1, <1>2 DEF CallSafe, Working, HasEvidence
<1> QED BY <1>1, <1>2, <1>3 DEF SafeInv, HasEvidence

(* sync_no_proxy replaces a file by one with the same originals and URL. *)
LEMMA SyncSaveKeeps ==
    ASSUME SafeInv, NEW p, Procs = {p}, _sync_save(p)
    PROVE  /\ HasEvidence /\ HasEvidence'
           /\ store'.saved = store.saved /\ store'.cfg.pac = store.cfg.pac
<1>1. call[p].pc = "sync" /\ CallTyped(call[p]) /\ CallSafe(call[p])
      /\ (store' = call[p].payload \/ UNCHANGED store)
  BY SyncSaveEffect, CallIs DEF SafeInv
<1>2. call[p].payload \in Files
  BY <1>1 DEF CallTyped
<1> QED BY <1>1, <1>2, FileIs DEF CallSafe, HasEvidence

LEMMA SyncSaveSafe ==
    ASSUME SafeInv, NEW p, Procs = {p}, _sync_save(p)
    PROVE  SafeInv'
<1>1. TypeInv' /\ call'[p].pc = "idle" /\ UNCHANGED <<value, applied>>
  BY SyncSaveTyped, SyncSaveEffect DEF SafeInv, world, history
<1> QED BY <1>1, SyncSaveKeeps, IdleSafe DEF SafeInv, HasEvidence

LEMMA CrashSafe ==
    ASSUME SafeInv, NEW p, Procs = {p}, Crash(p)
    PROVE  SafeInv'
<1>1. TypeInv' /\ call'[p].pc = "idle" /\ UNCHANGED <<value, store, applied>>
  BY CrashTyped, CrashEffect DEF SafeInv, world, history
<1> QED BY <1>1, IdleSafe DEF SafeInv, HasEvidence

LEMMA OutsideSafe ==
    ASSUME SafeInv, NEW p, Procs = {p}, Outside
    PROVE  SafeInv' /\ applied' \subseteq applied
<1>1. TypeInv' /\ call' = call
  BY OutsideTyped DEF SafeInv
<1>2. ASSUME applied' \subseteq applied, UNCHANGED store, \A n \in applied' : value'[n] # Gone
      PROVE  SafeInv'
  <2>1. CallSafe(call[p])'
    BY <1>1, <1>2 DEF SafeInv, CallSafe, HasEvidence, Ahead, Behind, Restoring
  <2> QED BY <1>1, <1>2, <2>1 DEF SafeInv, HasEvidence
<1>3. ASSUME NEW n \in Names, NEW v \in ForeignValues[n], ForeignWrite(n, v)
      PROVE  SafeInv' /\ applied' \subseteq applied
  <2>1. applied' \subseteq applied /\ UNCHANGED store /\ v # Gone
    BY <1>3, LinuxAssumption DEF ForeignWrite
  <2>2. \A m \in Names : value'[m] = Gone => value[m] = Gone
    BY <1>3, <2>1 DEF ForeignWrite, SafeInv, TypeInv
  <2> QED BY <1>2, <2>1, <2>2 DEF SafeInv, TypeInv
<1>4. ASSUME NEW u \in Profiles, Link(u)
      PROVE  SafeInv' /\ applied' \subseteq applied
  BY <1>2, <1>4 DEF Link, SafeInv
<1>5. ASSUME NEW u \in Profiles, DeleteProfile(u)
      PROVE  SafeInv' /\ applied' \subseteq applied
  <2>1. applied' = applied \ {u} /\ UNCHANGED store
    BY <1>5 DEF DeleteProfile
  <2>2. \A m \in Names \ {u} : value'[m] = value[m]
    BY <1>5 DEF DeleteProfile, SafeInv, TypeInv
  <2> QED BY <1>2, <2>1, <2>2 DEF SafeInv, TypeInv
<1>6. CASE (\E c \in Configs : ChangeSettings(c)) \/ (\E s \in Sessions : ChangeSession(s))
  BY <1>2, <1>6 DEF ChangeSettings, ChangeSession, SafeInv, history
<1>7. CASE Damage
  <2>1. call[p].pc = "idle" /\ store' = Corrupt /\ UNCHANGED <<value, applied>>
    BY <1>7 DEF Damage, Ready, world, history
  <2>2. CallSafe(call[p])'
    BY <1>1, <2>1, IdleSafe
  <2> QED BY <1>1, <2>1, <2>2, LinuxAssumption DEF SafeInv, HasEvidence
<1> QED BY <1>3, <1>4, <1>5, <1>6, <1>7 DEF Outside

LEMMA SafeStep ==
    ASSUME SafeInv, [Next]_vars, NEW p, Procs = {p}
    PROVE  SafeInv'
<1>1. CASE UNCHANGED vars
  <2>1. TypeInv'
    BY TypeStep DEF SafeInv
  <2> QED BY <1>1, <2>1
          DEF SafeInv, CallSafe, HasEvidence, Ahead, Behind, Restoring, vars, world, history
<1>2. CASE Outside
  BY <1>2, OutsideSafe
<1>3. CASE Step(p) \/ enable(p) \/ disable(p) \/ sync_no_proxy(p) \/ Crash(p)
  BY <1>3, SaveSafe, SetProxySafe, ReapplySafe, ProfilesDoneSafe, SetUrlSafe,
     SetModeSafe, ClearSafe, SyncSaveSafe, EnableSafe, DisableSafe, SyncSafe, CrashSafe
     DEF Step
<1> QED BY <1>1, <1>2, <1>3 DEF Next, Outside

-----------------------------------------------------------------------------
(* The evidence protocol.                                                        *)

(* What a step does to the rollback file and to what it is needed for. *)
Keeps == UNCHANGED applied /\ (store' = None <=> store = None) /\ (HasEvidence' <=> HasEvidence)
Captures == store = None /\ applied = {} /\ HasEvidence' /\ UNCHANGED applied
Discards == HasEvidence /\ applied = {} /\ store' = None /\ UNCHANGED applied
Spoils == HasEvidence /\ store' = Corrupt /\ UNCHANGED applied
Mutates == \E n \in Names : HasEvidence /\ UNCHANGED store /\ applied' = applied \cup {n}
Reverts == \E n \in Names : UNCHANGED store /\ applied' = applied \ {n}
Effect == Keeps \/ Captures \/ Discards \/ Spoils \/ Mutates \/ Reverts

LEMMA WriteEffect ==
    ASSUME SafeInv, NEW p, Procs = {p}, call[p].pc \in Working, UNCHANGED store,
           NEW n \in Names, Write(call[p], n) \/ UNCHANGED <<value, applied>>
    PROVE  Effect
<1>1. HasEvidence
  BY WorkingFile
<1>2. CASE UNCHANGED <<value, applied>>
  BY <1>2 DEF Effect, Keeps, HasEvidence
<1>3. CASE Write(call[p], n)
  BY <1>1, <1>3 DEF Effect, Mutates, Reverts, Write
<1> QED BY <1>2, <1>3

LEMMA StepEffect ==
    ASSUME SafeInv, [Next]_vars, NEW p, Procs = {p}
    PROVE  Effect
<1>1. CASE UNCHANGED <<store, applied>>
  BY <1>1 DEF Effect, Keeps, HasEvidence
<1>2. CASE _save(p)
  <2>1. call[p].pc = "save" /\ UNCHANGED applied
        /\ (store' = call[p].payload \/ UNCHANGED <<store, applied>>)
    BY <1>2, SaveEffect DEF SafeInv, history
  <2>2. store = None /\ applied = {} /\ call[p].payload \in Files
    BY <2>1, CallIs DEF SafeInv, CallSafe, CallTyped
  <2> QED BY <1>1, <2>1, <2>2, FileIs DEF Effect, Captures, HasEvidence
<1>3. CASE _clear(p)
  <2>1. UNCHANGED applied /\ (store' = None \/ UNCHANGED <<store, applied>>)
    BY <1>3, ClearEffect DEF SafeInv, history
  <2> QED BY <1>1, <1>3, <2>1, ClearSafe DEF Effect, Discards
<1>4. CASE _sync_save(p)
  <2>1. UNCHANGED applied
    BY <1>4, SyncSaveEffect DEF SafeInv, history
  <2> QED BY <1>4, <2>1, SyncSaveKeeps DEF Effect, Keeps, HasEvidence
<1>5. ASSUME NEW u \in Profiles, _set_proxy(p, u)
      PROVE  Effect
  <2>1. /\ call[p].pc \in Working /\ UNCHANGED store
        /\ Write(call[p], u) \/ UNCHANGED <<value, applied>>
    BY <1>5, SetProxyEffect DEF SafeInv, Working
  <2> QED BY <2>1, WriteEffect DEF Names
<1>6. CASE _set_url(p)
  <2>1. /\ call[p].pc = "url" /\ UNCHANGED store
        /\ Write(call[p], <<call[p].client, "url">>) \/ UNCHANGED <<value, applied>>
    BY <1>6, SetUrlEffect DEF SafeInv
  <2>2. <<call[p].client, "url">> \in Names
    BY <2>1, CallIs, AtDesktop DEF SafeInv
  <2> QED BY <2>1, <2>2, WriteEffect DEF Working
<1>7. CASE _set_mode(p)
  <2>1. /\ call[p].pc = "mode" /\ UNCHANGED store
        /\ Write(call[p], <<call[p].client, "mode">>) \/ UNCHANGED <<value, applied>>
    BY <1>7, SetModeEffect DEF SafeInv
  <2>2. <<call[p].client, "mode">> \in Names
    BY <2>1, CallIs, AtDesktop DEF SafeInv
  <2> QED BY <2>1, <2>2, WriteEffect DEF Working
<1>8. CASE Outside
  <2>1. ASSUME NEW n \in Names, NEW v \in ForeignValues[n], ForeignWrite(n, v)
        PROVE  Effect
    BY <2>1 DEF ForeignWrite, Effect, Reverts
  <2>2. ASSUME NEW u \in Profiles, DeleteProfile(u)
        PROVE  Effect
    BY <2>2 DEF DeleteProfile, Effect, Reverts, Names
  <2>3. CASE Damage
    BY <2>3 DEF Damage, Effect, Spoils, history
  <2>4. ASSUME NEW u \in Profiles, Link(u)
        PROVE  Effect
    BY <1>1, <2>4 DEF Link
  <2>5. CASE (\E c \in Configs : ChangeSettings(c)) \/ (\E s \in Sessions : ChangeSession(s))
    BY <1>1, <2>5 DEF ChangeSettings, ChangeSession, history
  <2> QED BY <1>8, <2>1, <2>2, <2>3, <2>4, <2>5 DEF Outside
<1>9. CASE _reapply(p) \/ _profiles_done(p) \/ enable(p) \/ disable(p)
           \/ sync_no_proxy(p) \/ Crash(p)
  BY <1>1, <1>9
     DEF _reapply, _profiles_done, enable, disable, sync_no_proxy, Crash, history
<1>10. CASE UNCHANGED vars
  BY <1>1, <1>10 DEF vars, history
<1> QED BY <1>2, <1>3, <1>4, <1>5, <1>6, <1>7, <1>8, <1>9, <1>10 DEF Next, Step, Outside

(* linux_backend.py implements the evidence protocol with one rollback file for  *)
(* all profiles and the desktop, for any number of profiles and any sequence of  *)
(* failing commands, kills, other writers, deleted profiles and lost sessions:   *)
(* it changes a value only with the file on disk and readable, and removes the   *)
(* file only when nothing it changed is left.                                    *)
THEOREM LinuxImplements ==
    ASSUME NEW p, Procs = {p}
    PROVE  Spec => EvidenceRefines
<1>1. Init => Evidence!EvidenceInit
  BY DEF Init, Evidence!EvidenceInit
<1>2. SafeInv /\ [Next]_vars => [Evidence!EvidenceNext]_(Evidence!evidenceVars)
  <2> SUFFICES ASSUME SafeInv, [Next]_vars
               PROVE  [Evidence!EvidenceNext]_(Evidence!evidenceVars)
    OBVIOUS
  <2>1. Effect /\ None # Corrupt
    BY StepEffect, LinuxAssumption
  <2>2. CASE Keeps
    BY <2>1, <2>2 DEF Keeps, HasEvidence, Evidence!evidenceVars
  <2>3. CASE Captures
    BY <2>1, <2>3 DEF Captures, HasEvidence, Evidence!EvidenceNext, Evidence!Capture
  <2>4. CASE Discards
    BY <2>1, <2>4 DEF Discards, HasEvidence, Evidence!EvidenceNext, Evidence!Discard
  <2>5. CASE Spoils
    BY <2>1, <2>5 DEF Spoils, HasEvidence, Evidence!EvidenceNext, Evidence!Damage
  <2>6. CASE Mutates
    BY <2>1, <2>6 DEF Mutates, HasEvidence, Evidence!EvidenceNext, Evidence!Mutate
  <2>7. CASE Reverts
    BY <2>1, <2>7 DEF Reverts, Evidence!EvidenceNext, Evidence!Revert
  <2> QED BY <2>1, <2>2, <2>3, <2>4, <2>5, <2>6, <2>7 DEF Effect
<1>3. SafeInv /\ [Next]_vars => SafeInv'
  BY SafeStep
<1> QED BY <1>1, <1>2, <1>3, SafeInit, PTL DEF Spec, EvidenceRefines, Evidence!EvidenceSpec

-----------------------------------------------------------------------------
(* What the user had.                                                            *)

LEMMA TruthInit ==
    ASSUME NEW p, Procs = {p}
    PROVE  Init => TruthInv
<1> SUFFICES ASSUME Init PROVE TruthInv
  OBVIOUS
<1>1. SafeInv
  BY SafeInit
<1>2. call[p].pc = "idle" /\ store = None /\ user = value
  BY DEF Init, Idle, Return
<1> QED BY <1>1, <1>2 DEF TruthInv, ValuesTrue, HasEvidence

LEMMA CallTrue ==
    ASSUME TruthInv, SafeInv', NEW p, Procs = {p}, UNCHANGED <<value, store, applied, user, drift>>,
           call'[p].pc # "save" \/ UNCHANGED call
    PROVE  TruthInv'
<1>1. ValuesTrue'
  BY DEF TruthInv, ValuesTrue, FileTrue, HasEvidence
<1> QED BY <1>1 DEF TruthInv

LEMMA WriteTrue ==
    ASSUME TruthInv, SafeInv', NEW p, Procs = {p}, call[p].pc \in Working,
           UNCHANGED <<store, user, drift>>, NEW n \in DOMAIN store.saved,
           Write(call[p], n) \/ UNCHANGED <<value, applied>>, call'[p].pc # "save"
    PROVE  TruthInv'
<1>1. CASE UNCHANGED <<value, applied>>
  BY <1>1, CallTrue
<1>2. CASE Write(call[p], n)
  <2>1. store = call[p].payload /\ store \in Files /\ HasEvidence
    BY WorkingFile DEF TruthInv
  <2>2. /\ value'[n] = Target(call[p], n) /\ n \in Names
        /\ \A m \in Names \ {n} : value'[m] = value[m]
    BY <1>2, <2>1, WriteTyped DEF TruthInv, SafeInv
  <2>3. applied \subseteq Names
    BY DEF TruthInv, SafeInv, TypeInv
  <2>4. (HasEvidence => FileTrue(store))' /\ HasEvidence'
    BY <2>1 DEF TruthInv, ValuesTrue, FileTrue, HasEvidence
  <2>5. CASE Restoring(call[p])
    <3>1. applied' = applied \ {n} /\ value'[n] = store.saved[n]
      BY <1>2, <2>1, <2>2, <2>5 DEF Write, Target
    <3>2. n \notin drift => store.saved[n] = user[n]
      BY <2>1 DEF TruthInv, ValuesTrue, FileTrue
    <3>3. \A m \in Names \ (applied' \cup drift') : value'[m] = user'[m]
      BY <2>2, <3>1, <3>2 DEF TruthInv, ValuesTrue
    <3>4. \A m \in applied' : value'[m] = Desired(m, store'.cfg)
      BY <2>1, <2>2, <2>3, <3>1 DEF TruthInv, ValuesTrue
    <3> QED BY <2>4, <3>3, <3>4 DEF TruthInv, ValuesTrue
  <2>6. CASE ~Restoring(call[p])
    <3>1. applied' = applied \cup {n} /\ value'[n] = Desired(n, store.cfg)
      BY <1>2, <2>1, <2>2, <2>6 DEF Write, Target
    <3>2. \A m \in Names \ (applied' \cup drift') : value'[m] = user'[m]
      BY <2>2, <3>1 DEF TruthInv, ValuesTrue
    <3>3. \A m \in applied' : value'[m] = Desired(m, store'.cfg)
      BY <2>1, <2>2, <2>3, <3>1 DEF TruthInv, ValuesTrue
    <3> QED BY <2>4, <3>2, <3>3 DEF TruthInv, ValuesTrue
  <2> QED BY <2>5, <2>6
<1> QED BY <1>1, <1>2

LEMMA EnableTrue ==
    ASSUME TruthInv, NEW p, Procs = {p}, enable(p)
    PROVE  TruthInv'
<1>1. SafeInv' /\ TypeInv'
  BY EnableSafe DEF TruthInv, SafeInv
<1>2. UNCHANGED <<value, store, applied, user, drift>>
  BY EnableEffect DEF TruthInv, SafeInv, world, history
<1>3. CASE call'[p].pc # "save"
  BY <1>1, <1>2, <1>3, CallTrue
<1>4. CASE call'[p].pc = "save"
  <2>1. /\ store = None /\ applied = {}
        /\ \A n \in DOMAIN call'[p].payload.saved : call'[p].payload.saved[n] = value[n]
    BY <1>4, EnableEffect DEF TruthInv, SafeInv
  <2>2. DOMAIN call'[p].payload.saved \subseteq Names
    <3>1. call'[p].payload \in Files
      BY <1>1, <1>4 DEF TypeInv, CallTyped
    <3> QED BY <3>1, FileIs
  <2>3. FileTrue(call[p].payload)'
    BY <1>2, <2>1, <2>2 DEF FileTrue, TruthInv, ValuesTrue
  <2> QED BY <1>1, <1>2, <2>1, <2>3 DEF TruthInv, ValuesTrue, HasEvidence
<1> QED BY <1>3, <1>4

LEMMA SaveTrue ==
    ASSUME TruthInv, NEW p, Procs = {p}, _save(p)
    PROVE  TruthInv'
<1>1. SafeInv' /\ call[p].pc = "save" /\ UNCHANGED <<value, applied, user, drift>>
      /\ call'[p].pc # "save" /\ (store' = call[p].payload \/ UNCHANGED store)
  BY SaveSafe, SaveEffect DEF TruthInv, SafeInv, world, history
<1>2. FileTrue(call[p].payload) /\ applied = {}
  BY <1>1 DEF TruthInv, ValuesTrue, SafeInv, CallSafe
<1>3. CASE UNCHANGED store
  BY <1>1, <1>3, CallTrue
<1>4. CASE store' = call[p].payload
  <2>1. FileTrue(store)'
    BY <1>1, <1>2, <1>4 DEF FileTrue
  <2> QED BY <1>1, <1>2, <2>1 DEF TruthInv, ValuesTrue
<1> QED BY <1>1, <1>3, <1>4

LEMMA DesiredByPac ==
    ASSUME NEW c, NEW d, c.pac = d.pac, NEW n
    PROVE  Desired(n, c) = Desired(n, d)
BY DEF Desired

LEMMA SyncSaveTrue ==
    ASSUME TruthInv, NEW p, Procs = {p}, _sync_save(p)
    PROVE  TruthInv'
<1>1. SafeInv' /\ call'[p].pc # "save" /\ UNCHANGED <<value, applied, user, drift>>
  BY SyncSaveSafe, SyncSaveEffect DEF TruthInv, SafeInv, world, history
<1>2. /\ HasEvidence /\ store'.saved = store.saved /\ store'.cfg.pac = store.cfg.pac
  BY SyncSaveKeeps DEF TruthInv
<1>3. \A n : Desired(n, store'.cfg) = Desired(n, store.cfg)
  BY <1>2, DesiredByPac
<1>4. FileTrue(store)'
  BY <1>1, <1>2 DEF FileTrue, TruthInv, ValuesTrue
<1> QED BY <1>1, <1>2, <1>3, <1>4 DEF TruthInv, ValuesTrue

LEMMA OutsideTrue ==
    ASSUME TruthInv, NEW p, Procs = {p}, Outside
    PROVE  TruthInv'
<1>1. SafeInv' /\ UNCHANGED call
  BY OutsideSafe, OutsideTyped DEF TruthInv, SafeInv
<1>2. value \in [Names -> Values] /\ user \in [Names -> Values] /\ applied \subseteq Names
  BY DEF TruthInv, SafeInv, TypeInv
<1>2a. call[p].pc = "save" => call[p].payload \in Files /\ FileTrue(call[p].payload)
  BY CallIs DEF TruthInv, SafeInv, CallTyped, ValuesTrue
<1>3. ASSUME NEW n \in Names, NEW v \in ForeignValues[n], ForeignWrite(n, v)
      PROVE  TruthInv'
  <2>1. /\ value'[n] = v /\ user'[n] = v /\ applied' = applied \ {n} /\ UNCHANGED store
        /\ \A m \in Names \ {n} : value'[m] = value[m] /\ user'[m] = user[m]
    BY <1>2, <1>3 DEF ForeignWrite
  <2>2. \A m \in Names \ (applied' \cup drift') : value'[m] = user'[m]
    BY <1>3, <2>1 DEF ForeignWrite, TruthInv, ValuesTrue
  <2>3. HasEvidence' => \A m \in applied' : value'[m] = Desired(m, store'.cfg)
    BY <1>2, <2>1 DEF TruthInv, ValuesTrue, HasEvidence
  <2>4. CASE Pending
    <3>1. drift' = drift \cup {n}
      BY <1>3, <2>4 DEF ForeignWrite
    <3>2. ASSUME NEW f \in Files, FileTrue(f)
          PROVE  \A m \in DOMAIN f.saved \ drift' : f.saved[m] = user'[m]
      BY <2>1, <3>1, <3>2, FileIs DEF FileTrue
    <3>3. HasEvidence' => FileTrue(store)'
      BY <2>1, <3>2 DEF TruthInv, ValuesTrue, SafeInv, TypeInv, HasEvidence, FileTrue
    <3>4. call'[p].pc = "save" => FileTrue(call[p].payload)'
      BY <1>1, <1>2a, <3>2 DEF FileTrue
    <3> QED BY <1>1, <2>2, <2>3, <3>3, <3>4 DEF TruthInv, ValuesTrue
  <2>5. CASE ~Pending
    <3>1. store = None /\ call[p].pc = "idle"
      BY <2>5 DEF Pending, Ready
    <3> QED BY <1>1, <2>1, <2>2, <3>1 DEF TruthInv, ValuesTrue, HasEvidence
  <2> QED BY <2>4, <2>5
<1>4. ASSUME NEW u \in Profiles, DeleteProfile(u)
      PROVE  TruthInv'
  <2>1. /\ applied' = applied \ {u} /\ drift' = drift \cup {u} /\ UNCHANGED store
        /\ \A m \in Names \ {u} : value'[m] = value[m] /\ user'[m] = user[m]
    BY <1>2, <1>4 DEF DeleteProfile
  <2>2. ASSUME NEW f \in Files, FileTrue(f)
        PROVE  \A m \in DOMAIN f.saved \ drift' : f.saved[m] = user'[m]
    BY <2>1, <2>2, FileIs DEF FileTrue
  <2>3. HasEvidence' => FileTrue(store)'
    BY <2>1, <2>2 DEF TruthInv, ValuesTrue, SafeInv, TypeInv, HasEvidence, FileTrue
  <2>4. call'[p].pc = "save" => FileTrue(call[p].payload)'
    BY <1>1, <1>2a, <2>2 DEF FileTrue
  <2>5. \A m \in Names \ (applied' \cup drift') : value'[m] = user'[m]
    BY <2>1 DEF TruthInv, ValuesTrue
  <2>6. HasEvidence' => \A m \in applied' : value'[m] = Desired(m, store'.cfg)
    BY <1>2, <2>1 DEF TruthInv, ValuesTrue, HasEvidence
  <2> QED BY <1>1, <2>3, <2>4, <2>5, <2>6 DEF TruthInv, ValuesTrue
<1>5. ASSUME NEW u \in Profiles, Link(u)
      PROVE  TruthInv'
  BY <1>1, <1>5, CallTrue DEF Link
<1>6. CASE (\E c \in Configs : ChangeSettings(c)) \/ (\E s \in Sessions : ChangeSession(s))
  BY <1>1, <1>6, CallTrue DEF ChangeSettings, ChangeSession, history
<1>7. CASE Damage
  <2>1. store' = Corrupt /\ call[p].pc = "idle" /\ UNCHANGED <<value, applied, user, drift>>
    BY <1>7 DEF Damage, Ready, world, history
  <2> QED BY <1>1, <2>1 DEF TruthInv, ValuesTrue, HasEvidence
<1> QED BY <1>3, <1>4, <1>5, <1>6, <1>7 DEF Outside

LEMMA TruthStep ==
    ASSUME TruthInv, [Next]_vars, NEW p, Procs = {p}
    PROVE  TruthInv'
<1>1. SafeInv' /\ SafeInv /\ TypeInv
  BY SafeStep DEF TruthInv, SafeInv
<1>2. CASE UNCHANGED vars
  BY <1>1, <1>2, CallTrue DEF vars, world, history
<1>3. CASE _reapply(p)
  <2>1. UNCHANGED <<value, store, applied, user, drift>> /\ call'[p].pc # "save"
    BY <1>1, <1>3, ReapplyEffect DEF Fell
  <2> QED BY <1>1, <2>1, CallTrue
<1>4. CASE _profiles_done(p)
  <2>1. UNCHANGED <<value, store, applied, user, drift>> /\ call'[p].pc # "save"
    BY <1>1, <1>4, ProfilesDoneEffect DEF world, history
  <2> QED BY <1>1, <2>1, CallTrue
<1>5. CASE disable(p)
  <2>1. UNCHANGED <<value, store, applied, user, drift>> /\ call'[p].pc # "save"
    BY <1>1, <1>5, DisableEffect DEF world, history
  <2> QED BY <1>1, <2>1, CallTrue
<1>6. CASE sync_no_proxy(p)
  <2>1. call'[p].pc # "save"
    BY <1>1, <1>6, SyncTyped
  <2>2. UNCHANGED <<value, store, applied, user, drift>>
    BY <1>6 DEF sync_no_proxy, world, history
  <2> QED BY <1>1, <2>1, <2>2, CallTrue
<1>7. CASE Crash(p)
  <2>1. UNCHANGED <<value, store, applied, user, drift>> /\ call'[p].pc # "save"
    BY <1>1, <1>7, CrashEffect DEF world, history
  <2> QED BY <1>1, <2>1, CallTrue
<1>8. CASE _clear(p)
  <2>1. UNCHANGED <<value, applied, user, drift>> /\ call'[p].pc # "save"
        /\ (store' = None \/ UNCHANGED store)
    BY <1>1, <1>8, ClearEffect DEF world, history
  <2>2. CASE UNCHANGED store
    BY <1>1, <2>1, <2>2, CallTrue
  <2>3. CASE store' = None
    BY <1>1, <2>1, <2>3 DEF TruthInv, ValuesTrue, HasEvidence
  <2> QED BY <2>1, <2>2, <2>3
<1>9. ASSUME NEW u \in Profiles, _set_proxy(p, u)
      PROVE  TruthInv'
  <2>1. /\ call[p].pc = "profile" /\ u \in call[p].todo /\ UNCHANGED <<store, user, drift>>
        /\ Write(call[p], u) \/ UNCHANGED <<value, applied>>
        /\ call'[p].pc # "save"
    BY <1>1, <1>9, SetProxyEffect DEF Fell
  <2>2. u \in DOMAIN store.saved /\ call[p].pc \in Working
    BY <1>1, <2>1, WorkingFile DEF CallTyped, Working
  <2> QED BY <1>1, <2>1, <2>2, WriteTrue
<1>10. CASE _set_url(p)
  <2>1. /\ call[p].pc = "url" /\ UNCHANGED <<store, user, drift>>
        /\ Write(call[p], <<call[p].client, "url">>) \/ UNCHANGED <<value, applied>>
        /\ call'[p].pc # "save"
    BY <1>1, <1>10, SetUrlEffect DEF Fell
  <2>2. <<call[p].client, "url">> \in DOMAIN store.saved /\ call[p].pc \in Working
    BY <1>1, <2>1, WorkingFile, AtDesktop DEF Working
  <2> QED BY <1>1, <2>1, <2>2, WriteTrue
<1>11. CASE _set_mode(p)
  <2>1. /\ call[p].pc = "mode" /\ UNCHANGED <<store, user, drift>>
        /\ Write(call[p], <<call[p].client, "mode">>) \/ UNCHANGED <<value, applied>>
        /\ call'[p].pc # "save"
    BY <1>1, <1>11, SetModeEffect DEF Fell
  <2>2. <<call[p].client, "mode">> \in DOMAIN store.saved /\ call[p].pc \in Working
    BY <1>1, <2>1, WorkingFile, AtDesktop DEF Working
  <2> QED BY <1>1, <2>1, <2>2, WriteTrue
<1> QED BY <1>2, <1>3, <1>4, <1>5, <1>6, <1>7, <1>8, <1>9, <1>10, <1>11,
           EnableTrue, SaveTrue, SyncSaveTrue, OutsideTrue DEF Next, Step, Outside

LEMMA TruthInvariant ==
    ASSUME NEW p, Procs = {p}
    PROVE  Spec => []TruthInv
<1>1. TruthInv /\ [Next]_vars => TruthInv'
  BY TruthStep
<1> QED BY <1>1, TruthInit, PTL DEF Spec

(* The one rollback file of linux_backend.py holds the original of every value   *)
(* that differs from it, whatever fails or dies: what the user had can be had    *)
(* back, unless the file was damaged or another program wrote the value.         *)
THEOREM OriginalsAreRecoverable ==
    ASSUME NEW p, Procs = {p}
    PROVE  Spec => []OriginalRecoverable
<1>1. TruthInv => OriginalRecoverable
  <2> SUFFICES ASSUME TruthInv, NEW n \in Names \ drift, value[n] # user[n], store # Corrupt
               PROVE  HasEvidence /\ n \in DOMAIN store.saved /\ store.saved[n] = user[n]
    BY DEF OriginalRecoverable
  <2>1. n \in applied
    BY DEF TruthInv, ValuesTrue
  <2>2. HasEvidence /\ n \in DOMAIN store.saved
    BY <2>1 DEF TruthInv, SafeInv, HasEvidence
  <2> QED BY <2>2 DEF TruthInv, ValuesTrue, FileTrue
<1> QED BY <1>1, TruthInvariant, PTL

(* disable never takes what the launcher itself wrote for somebody else's: every *)
(* value of the rollback file is the one saved or the one applied under the      *)
(* configuration in the file, after sync_no_proxy replaced it too.               *)
THEOREM OwnStateIsOwned ==
    ASSUME NEW p, Procs = {p}
    PROVE  Spec => []OwnStateNeverForeign
<1>1. TruthInv => OwnStateNeverForeign
  <2> SUFFICES ASSUME TruthInv, HasEvidence, drift \cap DOMAIN store.saved = {},
                      NEW n \in DOMAIN store.saved
               PROVE  value[n] \in {store.saved[n], Desired(n, store.cfg)}
    BY DEF OwnStateNeverForeign
  <2>1. n \in Names /\ n \notin drift
    <3>1. store \in Files
      BY DEF TruthInv, SafeInv, TypeInv, HasEvidence
    <3> QED BY <3>1, FileIs
  <2>2. store.saved[n] = user[n]
    BY <2>1 DEF TruthInv, ValuesTrue, FileTrue
  <2> QED BY <2>1, <2>2 DEF TruthInv, ValuesTrue
<1> QED BY <1>1, TruthInvariant, PTL

-----------------------------------------------------------------------------
(* What the connections really use.                                              *)

LEMMA NotPacs == Down \notin OwnPacs /\ Gone \notin OwnPacs /\ OwnPacs \subseteq Values
BY LinuxAssumption DEF OwnPacs, Values

LEMMA DeviceInit ==
    ASSUME PacsAreOwn, NEW p, Procs = {p}
    PROVE  Init => DeviceInv
<1> SUFFICES ASSUME Init PROVE DeviceInv
  OBVIOUS
<1>1. TruthInv /\ call[p].pc = "idle" /\ store = None
  BY TruthInit DEF Init, Idle, Return
<1>2. PICK s \in Scenarios :
        value = s.value /\ device = [u \in Profiles |-> IF u \in s.up THEN value[u] ELSE Down]
  BY DEF Init
<1>3. \A u \in Profiles : value[u] \notin OwnPacs /\ device[u] \notin OwnPacs
  BY <1>2, NotPacs DEF PacsAreOwn
<1>4. CallDevices(call[p])
  BY <1>1 DEF CallDevices, Working
<1> QED BY <1>1, <1>3, <1>4 DEF DeviceInv, DevicesTrue, HasEvidence

LEMMA IdleDevices ==
    ASSUME NEW p, call'[p].pc \in {"idle", "sync"}
    PROVE  CallDevices(call[p])'
BY DEF CallDevices, Working

(* A step that leaves values and connections alone. *)
LEMMA StillDevices ==
    ASSUME DevicesTrue, UNCHANGED <<value, device, store, applied, moved>>
    PROVE  DevicesTrue'
BY DEF DevicesTrue, FileForeign, HasEvidence

LEMMA WriteDevices ==
    ASSUME DeviceInv, NEW p, Procs = {p}, call[p].pc \in Working,
           UNCHANGED <<device, store, moved>>, NEW n \in DOMAIN store.saved,
           Write(call[p], n) \/ UNCHANGED <<value, applied>>
    PROVE  DevicesTrue'
<1>1. CASE UNCHANGED <<value, applied>>
  BY <1>1, StillDevices DEF DeviceInv
<1>2. CASE Write(call[p], n)
  <2>1. store = call[p].payload /\ store \in Files /\ HasEvidence
    BY WorkingFile DEF DeviceInv, TruthInv
  <2>2. /\ value'[n] = Target(call[p], n) /\ n \in Names
        /\ \A m \in Names \ {n} : value'[m] = value[m]
    BY <1>2, <2>1, WriteTyped DEF DeviceInv, TruthInv, SafeInv
  <2>3. \A u \in Profiles : value'[u] \in OwnPacs => u \in applied'
    <3> SUFFICES ASSUME NEW u \in Profiles, value'[u] \in OwnPacs
                 PROVE  u \in applied'
      OBVIOUS
    <3>1. CASE u # n
      <4>1. u \in applied
        BY <2>2, <3>1 DEF DeviceInv, DevicesTrue, Names
      <4> QED BY <1>2, <3>1, <4>1 DEF Write
    <3>2. CASE u = n /\ Restoring(call[p])
      <4>1. value'[u] = store.saved[u]
        BY <2>1, <2>2, <3>2 DEF Target
      <4>2. store.saved[u] \notin OwnPacs
        BY <2>1, <3>2 DEF DeviceInv, DevicesTrue, FileForeign, SavedProfiles
      <4> QED BY <4>1, <4>2
    <3>3. CASE u = n /\ ~Restoring(call[p])
      BY <1>2, <3>3 DEF Write
    <3> QED BY <3>1, <3>2, <3>3
  <2> QED BY <2>3 DEF DeviceInv, DevicesTrue, FileForeign, HasEvidence
<1> QED BY <1>1, <1>2

LEMMA FellDevices ==
    ASSUME DeviceInv, NEW p, Procs = {p}, call[p].pc \in Working, UNCHANGED <<device, moved>>,
           NEW T, Fell(call[p], call'[p], T), call[p].touched \subseteq T
    PROVE  CallDevices(call[p])'
<1>1. CallDevices(call[p]) /\ call[p].op \in {"enable", "rollback", "disable"}
  BY WorkingFile DEF DeviceInv, TruthInv
<1>2. call'[p].pc \in {"profile", "url"} /\ call'[p].op # "enable"
      /\ call'[p].active = call[p].active
  BY DEF Fell
<1>3. \A u \in Profiles \ (moved' \cup call'[p].active) : device'[u] = Down
  BY <1>1, <1>2 DEF CallDevices
<1>4. call'[p].ok => \A u \in Profiles \ moved' : device'[u] \in OwnPacs => u \in call'[p].todo
  BY <1>1 DEF CallDevices, Fell
<1> QED BY <1>2, <1>3, <1>4 DEF CallDevices

LEMMA EnableDevices ==
    ASSUME DeviceInv, NEW p, Procs = {p}, enable(p)
    PROVE  DeviceInv'
<1>1. TruthInv' /\ SafeInv /\ TypeInv /\ TypeInv'
  BY EnableTrue DEF DeviceInv, TruthInv, SafeInv
<1>2. UNCHANGED <<value, device, store, applied, moved>>
  BY <1>1, EnableEffect DEF world, history
<1>3. DevicesTrue'
  BY <1>2, StillDevices DEF DeviceInv
<1>4. CASE call'[p].pc = "idle"
  BY <1>1, <1>3, <1>4, IdleDevices DEF DeviceInv
<1>5. CASE call'[p].pc = "save"
  <2>1. /\ store = None /\ call'[p].active = Active
        /\ \A n \in DOMAIN call'[p].payload.saved : call'[p].payload.saved[n] = value[n]
    BY <1>1, <1>5, EnableEffect
  <2>2. applied = {}
    BY <1>1, <2>1 DEF SafeInv
  <2>3. FileForeign(call'[p].payload)
    BY <2>1, <2>2 DEF FileForeign, SavedProfiles, DeviceInv, DevicesTrue
  <2>4. \A u \in Profiles \ Active : device'[u] = Down
    BY <1>2 DEF Active
  <2>5. CallDevices(call[p])'
    BY <1>5, <2>1, <2>3, <2>4 DEF CallDevices, Working, FileForeign, SavedProfiles
  <2> QED BY <1>1, <1>3, <2>5 DEF DeviceInv
<1> QED BY <1>1, <1>4, <1>5, EnableEffect

LEMMA SaveDevices ==
    ASSUME DeviceInv, NEW p, Procs = {p}, _save(p)
    PROVE  DeviceInv'
<1> DEFINE b == call[p]
           c == call'[p]
<1>1. TruthInv' /\ SafeInv /\ TypeInv
  BY SaveTrue DEF DeviceInv, TruthInv, SafeInv
<1>2. b.pc = "save" /\ UNCHANGED <<value, device, applied, moved>>
  BY <1>1, SaveEffect DEF world, history
<1>3. store = None /\ b.payload \in Files /\ CallTyped(b) /\ CallDevices(b)
  BY <1>1, <1>2, CallIs DEF SafeInv, CallSafe, CallTyped, DeviceInv
<1>4. \A u \in Profiles \ moved : device[u] \notin OwnPacs
  BY <1>3, LinuxAssumption DEF DeviceInv, DevicesTrue, HasEvidence
<1>5. CASE UNCHANGED store /\ c.pc = "idle"
  BY <1>1, <1>2, <1>5, IdleDevices, StillDevices DEF DeviceInv
<1>6. CASE /\ store' = b.payload /\ c.pc = "profile" /\ c.todo = b.active /\ c.op = b.op
           /\ c.payload = b.payload /\ c.client = b.client /\ c.active = b.active
  <2>1. FileForeign(b.payload) /\ \A u \in Profiles \ (moved \cup b.active) : device[u] = Down
    BY <1>2, <1>3 DEF CallDevices
  <2>2. DevicesTrue'
    BY <1>2, <1>4, <1>6, <2>1 DEF DeviceInv, DevicesTrue, FileForeign, SavedProfiles
  <2>3. b.op = "enable" /\ SavedProfiles(b.payload) = b.active
    BY <1>2, <1>3 DEF CallTyped
  <2>4. DOMAIN b.payload.saved \subseteq b.active \cup DesktopNames
    BY <1>3, <2>3, FileIs DEF SavedProfiles, Names
  <2>5. CallDevices(call[p])'
    BY <1>2, <1>4, <1>6, <2>1, <2>3, <2>4 DEF CallDevices, Restoring
  <2> QED BY <1>1, <2>2, <2>5 DEF DeviceInv
<1> QED BY <1>1, <1>5, <1>6, SaveEffect

LEMMA SetProxyDevices ==
    ASSUME DeviceInv, NEW p, Procs = {p}, NEW u \in Profiles, _set_proxy(p, u), TruthInv'
    PROVE  DeviceInv'
<1> DEFINE b == call[p]
           c == call'[p]
           T == b.touched \cup {u}
           Onward == /\ Write(b, u) /\ Same(b, c) /\ c.todo = b.todo \ {u} /\ c.touched = T
                     /\ IF u \in b.active THEN c.pc = "reapply" /\ c.at = u
                                          ELSE c.pc = "profile"
           Back == (Write(b, u) \/ UNCHANGED <<value, applied>>) /\ Fell(b, c, T)
<1>1. SafeInv /\ TypeInv
  BY DEF DeviceInv, TruthInv, SafeInv
<1>2. b.pc = "profile" /\ u \in b.todo /\ UNCHANGED <<device, store, drift, moved>>
      /\ (Onward \/ Back)
  BY <1>1, SetProxyEffect
<1>3. /\ CallTyped(b) /\ store = b.payload /\ store \in Files /\ CallDevices(b)
      /\ b.op \in {"enable", "rollback", "disable"}
  BY <1>1, <1>2, WorkingFile DEF Working, DeviceInv
<1>4. u \in DOMAIN store.saved
  BY <1>2, <1>3 DEF CallTyped, Working
<1>5. DevicesTrue'
  BY <1>2, <1>4, WriteDevices DEF Working
<1>6. CASE Back
  <2>1. CallDevices(call[p])'
    BY <1>2, <1>6, FellDevices DEF Working
  <2> QED BY <1>5, <2>1 DEF DeviceInv
<1>7. CASE Onward
  <2>1. /\ c.op = b.op /\ c.ok = b.ok /\ c.payload = b.payload /\ c.active = b.active
        /\ c.client = b.client /\ c.pc \in {"reapply", "profile"}
    BY <1>7 DEF Same
  <2>2. \A w \in Profiles \ (moved \cup b.active) : device[w] = Down
    BY <1>2, <1>3 DEF CallDevices, Working
  <2>3. u \notin moved => device[u] = Down \/ (c.pc = "reapply" /\ c.at = u)
    BY <1>7, <2>2
  <2>4. Restoring(c) /\ c.ok =>
          \A w \in Profiles \ moved' : device'[w] \in OwnPacs =>
             w \in c.todo \/ (c.pc = "reapply" /\ c.at = w)
    <3>1. Restoring(b) /\ b.ok =>
            \A w \in Profiles \ moved : device[w] \in OwnPacs => w \in b.todo
      BY <1>2, <1>3 DEF CallDevices, Working
    <3> QED BY <1>2, <1>7, <2>1, <2>3, <3>1, NotPacs DEF Restoring
  <2>5. c.op = "enable" =>
         /\ \A w \in Profiles \ moved' : device'[w] \in OwnPacs => w \in c.touched
         /\ \A w \in Profiles \ (moved' \cup drift') :
              \/ w \in c.todo \/ (c.pc = "reapply" /\ c.at = w)
              \/ device'[w] \in {Down, c.payload.cfg.pac}
    BY <1>2, <1>3, <1>7, <2>1, <2>3 DEF CallDevices, Working
  <2>6. c.op = "enable" =>
          \A n \in DOMAIN c.payload.saved \ drift' :
              n \in applied' \cup c.todo \/ n \in DesktopNames
    <3>1. b.op = "enable" =>
            \A n \in DOMAIN b.payload.saved \ drift :
              n \in applied \cup b.todo \/ n \in DesktopNames
      BY <1>2, <1>3 DEF CallDevices, Working
    <3>2. b.op = "enable" => applied' = applied \cup {u}
      BY <1>7 DEF Write, Restoring
    <3> QED BY <1>2, <1>7, <2>1, <3>1, <3>2
  <2>7. CallDevices(call[p])'
    BY <1>2, <2>1, <2>2, <2>4, <2>5, <2>6 DEF CallDevices, Working
  <2> QED BY <1>5, <2>7 DEF DeviceInv
<1> QED BY <1>2, <1>6, <1>7

(* reapply: the connection now uses what its profile says, which is the PAC only *)
(* where the launcher wrote it.                                                  *)
LEMMA ReapplyDevices ==
    ASSUME DeviceInv, NEW p, Procs = {p}, _reapply(p), TruthInv'
    PROVE  DeviceInv'
<1> DEFINE b == call[p]
           c == call'[p]
           u == b.at
           Onward == /\ Same(b, c) /\ c.pc = "profile" /\ c.todo = b.todo
                     /\ c.touched = b.touched /\ moved' = moved \ {u}
                     /\ device' = [device EXCEPT ![u] = value[u]]
           Back == Fell(b, c, b.touched) /\ UNCHANGED <<device, moved>>
<1>1. SafeInv /\ TypeInv
  BY DEF DeviceInv, TruthInv, SafeInv
<1>2. b.pc = "reapply" /\ UNCHANGED <<value, store, applied, drift>> /\ (Onward \/ Back)
  BY <1>1, ReapplyEffect
<1>3. /\ CallTyped(b) /\ CallSafe(b) /\ store = b.payload /\ store \in Files /\ CallDevices(b)
      /\ HasEvidence /\ b.op \in {"enable", "rollback", "disable"}
  BY <1>1, <1>2, WorkingFile DEF Working, DeviceInv
<1>4. u \in b.active /\ u \in Profiles /\ u \in DOMAIN store.saved
  BY <1>2, <1>3 DEF CallTyped, SavedProfiles
<1>5. CASE Back
  <2>1. CallDevices(call[p])' /\ DevicesTrue'
    BY <1>2, <1>5, FellDevices, StillDevices DEF Working, DeviceInv
  <2> QED BY <2>1 DEF DeviceInv
<1>6. CASE Onward
  <2>1. /\ c.op = b.op /\ c.ok = b.ok /\ c.payload = b.payload /\ c.active = b.active
        /\ c.client = b.client
    BY <1>6 DEF Same
  <2>2. device'[u] = value[u] /\ \A w \in Profiles \ {u} : device'[w] = device[w]
    BY <1>1, <1>4, <1>6 DEF TypeInv
  <2>3. value[u] \in OwnPacs => u \in applied
    BY <1>4 DEF DeviceInv, DevicesTrue
  <2> HIDE DEF u
  <2>4. DevicesTrue'
    BY <1>2, <1>3, <1>4, <1>6, <2>2 DEF DeviceInv, DevicesTrue, FileForeign, HasEvidence
  <2>5. \A w \in Profiles \ (moved' \cup c.active) : device'[w] = Down
    BY <1>2, <1>3, <1>4, <1>6, <2>1, <2>2 DEF CallDevices, Working
  <2>6. Restoring(c) /\ c.ok =>
          \A w \in Profiles \ moved' : device'[w] \in OwnPacs => w \in c.todo
    <3>1. Restoring(b) /\ b.ok =>
            \A w \in Profiles \ moved : device[w] \in OwnPacs => w \in b.todo \/ u = w
      BY <1>2, <1>3 DEF CallDevices, Working, u
    <3>2. Restoring(b) /\ b.ok => applied \subseteq b.todo
      BY <1>2, <1>3 DEF CallSafe, Working, Ahead
    <3> QED BY <1>6, <2>1, <2>2, <2>3, <3>1, <3>2 DEF Restoring
  <2>7. c.op = "enable" =>
          \A w \in Profiles \ moved' : device'[w] \in OwnPacs => w \in c.touched
    <3>1. b.op = "enable" => \A w \in Profiles \ moved : device[w] \in OwnPacs => w \in b.touched
      BY <1>2, <1>3 DEF CallDevices, Working
    <3>2. b.op = "enable" => applied \subseteq Behind(b)
      BY <1>2, <1>3 DEF CallSafe, Working
    <3>3. b.op = "enable" => applied \cap Profiles \subseteq b.touched
      <4>1. b.touched \cap DesktopNames # {} => b.client \in Backends
        BY <1>1, <1>2, <1>3, CallIs, CallFields
           DEF CallTyped, Working, _desktop_backend_matches_payload, SavedFields
      <4>2. b.client \in Backends => Fields(b.client) \cap Profiles = {}
        BY FieldsAre, LinuxAssumption
      <4> QED BY <3>2, <4>1, <4>2 DEF Behind
    <3> QED BY <1>4, <1>6, <2>1, <2>2, <2>3, <3>1, <3>3
  <2>8. b.op = "enable" /\ u \notin drift =>
          u \in b.todo \/ device'[u] \in {Down, b.payload.cfg.pac}
    <3>1. b.op = "enable" /\ u \notin drift => u \in applied \cup b.todo
      BY <1>2, <1>3, <1>4, LinuxAssumption DEF CallDevices, Working
    <3>2. u \in applied => value[u] = b.payload.cfg.pac
      BY <1>3, <1>4, FileIs, DesiredIs DEF DeviceInv, TruthInv, ValuesTrue
    <3> QED BY <2>2, <3>1, <3>2
  <2>9. c.op = "enable" =>
          \A w \in Profiles \ (moved' \cup drift') :
             w \in c.todo \/ device'[w] \in {Down, c.payload.cfg.pac}
    <3>1. b.op = "enable" =>
            \A w \in Profiles \ (moved \cup drift) :
               w \in b.todo \/ w = u \/ device[w] \in {Down, b.payload.cfg.pac}
      BY <1>2, <1>3 DEF CallDevices, Working, u
    <3> QED BY <1>2, <1>6, <2>1, <2>2, <2>8, <3>1
  <2>10. c.op = "enable" =>
           \A n \in DOMAIN c.payload.saved \ drift' :
              n \in applied' \cup c.todo \/ n \in DesktopNames
    BY <1>2, <1>3, <1>6, <2>1 DEF CallDevices, Working
  <2>11. CallDevices(call[p])'
    BY <1>6, <2>1, <2>5, <2>6, <2>7, <2>9, <2>10 DEF CallDevices
  <2> QED BY <2>4, <2>11 DEF DeviceInv
<1> QED BY <1>2, <1>5, <1>6

(* A step of a call at work that touches no connection and keeps the list. *)
LEMMA SameDevices ==
    ASSUME DeviceInv, NEW p, Procs = {p}, call[p].pc \in Working,
           UNCHANGED <<device, drift, moved>>,
           Same(call[p], call'[p]), call'[p].pc \in {"profile", "url", "mode", "clear"},
           call[p].pc # "reapply", call'[p].todo = call[p].todo,
           call[p].op = "enable" =>
             /\ call'[p].todo = {} /\ call[p].touched \subseteq call'[p].touched
             /\ applied \subseteq applied'
             /\ call'[p].pc = "mode" => <<call[p].client, "url">> \in applied'
    PROVE  CallDevices(call[p])'
<1> DEFINE b == call[p]
           c == call'[p]
<1>1. CallDevices(b)
  BY DEF DeviceInv
<1>2. /\ c.op = b.op /\ c.ok = b.ok /\ c.payload = b.payload /\ c.active = b.active
      /\ c.client = b.client /\ c.todo = b.todo
  BY DEF Same
<1>3. \A w \in Profiles \ (moved' \cup c.active) : device'[w] = Down
  BY <1>1, <1>2 DEF CallDevices
<1>4. Restoring(c) /\ c.ok =>
        \A w \in Profiles \ moved' : device'[w] \in OwnPacs => w \in c.todo
  BY <1>1, <1>2 DEF CallDevices, Restoring
<1>5. c.op = "enable" =>
         /\ \A w \in Profiles \ moved' : device'[w] \in OwnPacs => w \in c.touched
         /\ \A w \in Profiles \ (moved' \cup drift') :
              w \in c.todo \/ device'[w] \in {Down, c.payload.cfg.pac}
  BY <1>1, <1>2 DEF CallDevices
<1>6. c.op = "enable" =>
        \A n \in DOMAIN c.payload.saved \ drift' :
           \/ n \in applied' \cup c.todo
           \/ n \in DesktopNames /\ ~(c.pc = "mode" /\ n = <<c.client, "url">>)
  BY <1>1, <1>2 DEF CallDevices
<1> QED BY <1>2, <1>3, <1>4, <1>5, <1>6 DEF CallDevices, Working

LEMMA ProfilesDoneDevices ==
    ASSUME DeviceInv, NEW p, Procs = {p}, _profiles_done(p), TruthInv'
    PROVE  DeviceInv'
<1> DEFINE b == call[p]
           c == call'[p]
<1>1. TypeInv
  BY DEF DeviceInv, TruthInv, SafeInv
<1>2. b.pc = "profile" /\ b.todo = {}
      /\ UNCHANGED <<value, device, store, applied, drift, moved>>
  BY <1>1, ProfilesDoneEffect DEF world, history
<1>3. DevicesTrue'
  BY <1>2, StillDevices DEF DeviceInv
<1>4. CASE c.pc = "idle"
  BY <1>3, <1>4, IdleDevices DEF DeviceInv
<1>5. CASE Restoring(b) /\ Same(b, c) /\ c.pc = "clear" /\ c.todo = {}
  <2>1. CallDevices(call[p])'
    BY <1>2, <1>5, SameDevices DEF Working, Restoring
  <2> QED BY <1>3, <2>1 DEF DeviceInv
<1>6. CASE b.op = "enable" /\ Same(b, c) /\ c.pc = "url" /\ c.todo = {} /\ c.touched = b.touched
  <2>1. CallDevices(call[p])'
    BY <1>2, <1>6, SameDevices DEF Working
  <2> QED BY <1>3, <2>1 DEF DeviceInv
<1> QED BY <1>1, <1>4, <1>5, <1>6, ProfilesDoneEffect

LEMMA SetUrlDevices ==
    ASSUME DeviceInv, NEW p, Procs = {p}, _set_url(p), TruthInv'
    PROVE  DeviceInv'
<1> DEFINE b == call[p]
           c == call'[p]
           n == <<b.client, "url">>
           T == b.touched \cup {n}
           Onward == /\ Write(b, n) /\ Same(b, c) /\ c.todo = b.todo /\ c.touched = T
                     /\ c.pc = "mode"
           Back == (Write(b, n) \/ UNCHANGED <<value, applied>>) /\ Fell(b, c, T)
<1>1. SafeInv /\ TypeInv
  BY DEF DeviceInv, TruthInv, SafeInv
<1>2. b.pc = "url" /\ UNCHANGED <<device, store, drift, moved>> /\ (Onward \/ Back)
  BY <1>1, SetUrlEffect
<1>3. /\ b \in Calls /\ CallTyped(b) /\ store = b.payload /\ CallDevices(b)
  BY <1>1, <1>2, WorkingFile DEF Working, DeviceInv
<1>4. n \in DOMAIN store.saved
  BY <1>2, <1>3, AtDesktop
<1>5. DevicesTrue'
  BY <1>2, <1>4, WriteDevices DEF Working
<1>6. CASE Back
  <2>1. CallDevices(call[p])'
    BY <1>2, <1>6, FellDevices DEF Working
  <2> QED BY <1>5, <2>1 DEF DeviceInv
<1>7. CASE Onward
  <2>1. b.op = "enable" => applied' = applied \cup {n} /\ c.todo = {}
    BY <1>2, <1>3, <1>7 DEF Write, Restoring, CallDevices, Working
  <2>2. CallDevices(call[p])'
    BY <1>2, <1>7, <2>1, SameDevices DEF Working
  <2> QED BY <1>5, <2>2 DEF DeviceInv
<1> QED BY <1>2, <1>6, <1>7

LEMMA SetModeDevices ==
    ASSUME DeviceInv, NEW p, Procs = {p}, _set_mode(p), TruthInv'
    PROVE  DeviceInv'
<1> DEFINE b == call[p]
           c == call'[p]
           n == <<b.client, "mode">>
<1>1. SafeInv /\ TypeInv
  BY DEF DeviceInv, TruthInv, SafeInv
<1>2. /\ b.pc = "mode" /\ UNCHANGED <<device, store, drift, moved>>
      /\ Write(b, n) \/ UNCHANGED <<value, applied>>
      /\ \/ Restoring(b) /\ Same(b, c) /\ c.todo = b.todo /\ c.pc = "profile"
         \/ c.pc = "idle"
         \/ Fell(b, c, b.touched)
  BY <1>1, SetModeEffect
<1>3. b \in Calls /\ CallTyped(b) /\ store = b.payload
  BY <1>1, <1>2, WorkingFile DEF Working
<1>4. n \in DOMAIN store.saved
  BY <1>2, <1>3, AtDesktop
<1>5. DevicesTrue'
  BY <1>2, <1>4, WriteDevices DEF Working
<1>6. CASE Fell(b, c, b.touched)
  <2>1. CallDevices(call[p])'
    BY <1>2, <1>6, FellDevices DEF Working
  <2> QED BY <1>5, <2>1 DEF DeviceInv
<1>7. CASE Restoring(b) /\ Same(b, c) /\ c.todo = b.todo /\ c.pc = "profile"
  <2>1. CallDevices(call[p])'
    BY <1>2, <1>7, SameDevices DEF Working, Restoring
  <2> QED BY <1>5, <2>1 DEF DeviceInv
<1>8. CASE c.pc = "idle"
  BY <1>5, <1>8, IdleDevices DEF DeviceInv
<1> QED BY <1>2, <1>6, <1>7, <1>8

(* When the file is about to go, no connection uses the launcher's PAC. *)
LEMMA ClearDevices ==
    ASSUME DeviceInv, NEW p, Procs = {p}, _clear(p), TruthInv'
    PROVE  DeviceInv' /\ \A u \in Profiles \ moved' : device'[u] \notin OwnPacs
<1>1. SafeInv /\ TypeInv
  BY DEF DeviceInv, TruthInv, SafeInv
<1>2. /\ call[p].pc = "clear" /\ call'[p].pc = "idle"
      /\ UNCHANGED <<value, device, applied, moved>> /\ (store' = None \/ UNCHANGED store)
  BY <1>1, ClearEffect DEF world, history
<1>3. Restoring(call[p]) /\ call[p].ok /\ call[p].todo = {}
  BY <1>1, <1>2, CallIs DEF CallTyped
<1>4. \A u \in Profiles \ moved : device[u] \notin OwnPacs
  BY <1>2, <1>3 DEF DeviceInv, CallDevices, Working
<1>5. DevicesTrue'
  <2>1. CASE UNCHANGED store
    BY <1>2, <2>1, StillDevices DEF DeviceInv
  <2>2. CASE store' = None
    BY <1>2, <1>4, <2>2 DEF DeviceInv, DevicesTrue, HasEvidence
  <2> QED BY <1>2, <2>1, <2>2
<1> QED BY <1>2, <1>4, <1>5, IdleDevices DEF DeviceInv

LEMMA DisableDevices ==
    ASSUME DeviceInv, NEW p, Procs = {p}, disable(p), TruthInv'
    PROVE  DeviceInv'
<1> DEFINE c == call'[p]
           S == {u \in SavedProfiles(store) : value[u] # Gone}
<1>1. TypeInv
  BY DEF DeviceInv, TruthInv, SafeInv
<1>2. UNCHANGED <<value, device, store, applied, moved>>
  BY <1>1, DisableEffect DEF world, history
<1>3. DevicesTrue'
  BY <1>2, StillDevices DEF DeviceInv
<1>4. CASE c.pc = "idle"
  BY <1>3, <1>4, IdleDevices DEF DeviceInv
<1>5. CASE /\ HasEvidence /\ c.pc = (IF SavedFields(store) # {} THEN "url" ELSE "profile")
           /\ c.op = "disable" /\ c.todo = S /\ c.active = Active
  <2>1. \A u \in Profiles \ c.active : device'[u] = Down
    BY <1>2, <1>5 DEF Active
  <2>2. \A u \in Profiles \ moved' : device'[u] \in OwnPacs => u \in c.todo
    <3>1. \A u \in Profiles \ moved : device[u] \in OwnPacs => u \in DOMAIN store.saved
      BY <1>5 DEF DeviceInv, DevicesTrue, HasEvidence
    <3>2. \A u \in Profiles : value[u] = Gone => device[u] \notin OwnPacs
      BY <1>1, NotPacs DEF TypeInv
    <3> QED BY <1>2, <1>5, <3>1, <3>2 DEF SavedProfiles
  <2> HIDE DEF S
  <2>3. c.pc \in {"url", "profile"}
    BY <1>5
  <2>4. CallDevices(call[p])'
    BY <1>5, <2>1, <2>2, <2>3 DEF CallDevices, Working
  <2> QED BY <1>3, <2>4 DEF DeviceInv
<1> QED BY <1>1, <1>4, <1>5, DisableEffect

LEMMA SyncSaveDevices ==
    ASSUME DeviceInv, NEW p, Procs = {p}, _sync_save(p), TruthInv'
    PROVE  DeviceInv'
<1>1. SafeInv /\ TypeInv
  BY DEF DeviceInv, TruthInv, SafeInv
<1>2. call'[p].pc = "idle" /\ UNCHANGED <<value, device, applied, moved>>
  BY <1>1, SyncSaveEffect DEF world, history
<1>3. HasEvidence /\ HasEvidence' /\ store'.saved = store.saved
  BY <1>1, SyncSaveKeeps
<1>4. DevicesTrue'
  BY <1>2, <1>3 DEF DeviceInv, DevicesTrue, FileForeign, SavedProfiles, HasEvidence
<1> QED BY <1>2, <1>4, IdleDevices DEF DeviceInv

LEMMA OutsideDevices ==
    ASSUME DeviceInv, PacsAreOwn, NEW p, Procs = {p}, Outside, TruthInv'
    PROVE  DeviceInv'
<1>1. SafeInv /\ TypeInv /\ UNCHANGED call /\ CallDevices(call[p])
  BY OutsideTyped DEF DeviceInv, TruthInv, SafeInv
<1>2. Profiles \subseteq Names /\ applied \subseteq Names
  BY <1>1 DEF Names, TypeInv
<1>3. ASSUME NEW n \in Names, NEW v \in ForeignValues[n], ForeignWrite(n, v)
      PROVE  DeviceInv'
  <2>1. /\ value'[n] = v /\ applied' = applied \ {n} /\ UNCHANGED <<device, store, moved>>
        /\ \A m \in Names \ {n} : value'[m] = value[m]
    BY <1>1, <1>3 DEF ForeignWrite, TypeInv
  <2>2. n \in Profiles => v \notin OwnPacs
    BY DEF PacsAreOwn
  <2>3. DevicesTrue'
    BY <1>2, <2>1, <2>2 DEF DeviceInv, DevicesTrue, FileForeign, HasEvidence
  <2>4. CASE Pending
    <3>1. drift' = drift \cup {n}
      BY <1>3, <2>4 DEF ForeignWrite
    <3>2. CallDevices(call[p])'
      BY <1>1, <2>1, <3>1 DEF CallDevices, FileForeign
    <3> QED BY <2>3, <3>2 DEF DeviceInv
  <2>5. CASE ~Pending
    <3>1. call[p].pc = "idle"
      BY <2>5 DEF Pending, Ready
    <3> QED BY <1>1, <2>3, <3>1, IdleDevices DEF DeviceInv
  <2> QED BY <2>4, <2>5
<1>4. ASSUME NEW u \in Profiles, Link(u)
      PROVE  DeviceInv'
  <2>1. /\ device'[u] \in {value[u], Down} /\ UNCHANGED <<value, store, applied, drift>>
        /\ \A w \in Profiles \ {u} : device'[w] = device[w]
    BY <1>1, <1>4 DEF Link, TypeInv
  <2>2. device'[u] \in OwnPacs => store = Corrupt \/ (HasEvidence /\ u \in DOMAIN store.saved)
    <3>1. device'[u] \in OwnPacs => u \in applied
      BY <2>1, NotPacs DEF DeviceInv, DevicesTrue
    <3> QED BY <1>1, <3>1 DEF SafeInv, HasEvidence
  <2>3. DevicesTrue'
    BY <1>4, <2>1, <2>2 DEF DeviceInv, DevicesTrue, FileForeign, HasEvidence, Link
  <2>4. CASE call[p].pc = "idle"
    BY <1>1, <2>3, <2>4, IdleDevices DEF DeviceInv
  <2>5. CASE call[p].pc # "idle"
    <3>1. moved' = moved \cup {u}
      BY <1>4, <2>5 DEF Link, Ready
    <3>2. CallDevices(call[p])'
      BY <1>1, <2>1, <3>1 DEF CallDevices, FileForeign
    <3> QED BY <2>3, <3>2 DEF DeviceInv
  <2> QED BY <2>4, <2>5
<1>5. ASSUME NEW u \in Profiles, DeleteProfile(u)
      PROVE  DeviceInv'
  <2>1. /\ value'[u] = Gone /\ applied' = applied \ {u} /\ UNCHANGED store
        /\ moved' = moved \cup {u} /\ drift' = drift \cup {u}
        /\ \A m \in Names \ {u} : value'[m] = value[m]
        /\ \A w \in Profiles \ {u} : device'[w] = device[w]
    BY <1>1, <1>2, <1>5 DEF DeleteProfile, TypeInv
  <2>2. DevicesTrue'
    BY <1>2, <2>1, NotPacs DEF DeviceInv, DevicesTrue, FileForeign, HasEvidence
  <2>3. CallDevices(call[p])'
    BY <1>1, <2>1 DEF CallDevices, FileForeign
  <2> QED BY <2>2, <2>3 DEF DeviceInv
<1>6. CASE (\E c \in Configs : ChangeSettings(c)) \/ (\E s \in Sessions : ChangeSession(s))
  <2>1. UNCHANGED <<value, device, store, applied, drift, moved>>
    BY <1>6 DEF ChangeSettings, ChangeSession, history
  <2>2. CallDevices(call[p])'
    BY <1>1, <2>1 DEF CallDevices, FileForeign
  <2> QED BY <2>1, <2>2, StillDevices DEF DeviceInv
<1>7. CASE Damage
  <2>1. store' = Corrupt /\ call[p].pc = "idle" /\ UNCHANGED <<value, device, applied, moved>>
    BY <1>7 DEF Damage, Ready, world, history
  <2>2. DevicesTrue'
    BY <2>1 DEF DeviceInv, DevicesTrue, HasEvidence
  <2> QED BY <1>1, <2>1, <2>2, IdleDevices DEF DeviceInv
<1> QED BY <1>3, <1>4, <1>5, <1>6, <1>7 DEF Outside

LEMMA DeviceStep ==
    ASSUME DeviceInv, [Next]_vars, PacsAreOwn, NEW p, Procs = {p}
    PROVE  DeviceInv'
<1>1. TruthInv' /\ TypeInv
  BY TruthStep DEF DeviceInv, TruthInv, SafeInv
<1>2. CASE UNCHANGED vars
  <2>1. UNCHANGED <<value, device, store, applied, drift, moved, call>>
    BY <1>2 DEF vars, world, history
  <2>2. CallDevices(call[p])'
    BY <2>1 DEF CallDevices, FileForeign, DeviceInv
  <2> QED BY <1>1, <2>1, <2>2, StillDevices DEF DeviceInv
<1>3. CASE sync_no_proxy(p)
  <2>1. call'[p].pc = "sync"
    BY <1>1, <1>3, SyncTyped
  <2>2. UNCHANGED <<value, device, store, applied, moved>>
    BY <1>3 DEF sync_no_proxy, world, history
  <2> QED BY <1>1, <2>1, <2>2, StillDevices, IdleDevices DEF DeviceInv
<1>4. CASE Crash(p)
  <2>1. call'[p].pc = "idle" /\ UNCHANGED <<value, device, store, applied, moved>>
    BY <1>1, <1>4, CrashEffect DEF world, history
  <2> QED BY <1>1, <2>1, StillDevices, IdleDevices DEF DeviceInv
<1> QED BY <1>1, <1>2, <1>3, <1>4, SaveDevices, EnableDevices, SetProxyDevices, ReapplyDevices,
           ProfilesDoneDevices, SetUrlDevices, SetModeDevices, ClearDevices, DisableDevices,
           SyncSaveDevices, OutsideDevices DEF Next, Step, Outside

-----------------------------------------------------------------------------
(* What enable and disable report.                                               *)

(* Which steps end a call with success. *)
LEMMA Succeeds ==
    ASSUME TypeInv, [Next]_vars, NEW p, Procs = {p}, NEW op \in {"enable", "disable"},
           Returns(p, op, TRUE)
    PROVE  \/ op = "enable" /\ (enable(p) \/ _profiles_done(p) \/ _set_mode(p))
           \/ op = "disable" /\ (disable(p) \/ _clear(p))
<1>1. /\ call'[p].pc = "idle" /\ call'[p].op = op /\ call'[p].ok = TRUE
      /\ call[p].pc # "idle" \/ call'[p] # call[p]
  BY DEF Returns
<1>2. CASE Outside \/ UNCHANGED vars
  BY <1>1, <1>2, OutsideTyped DEF vars
<1>3. CASE _save(p)
  BY <1>1, <1>3, SaveEffect
<1>4. ~\E u \in Profiles : _set_proxy(p, u)
  BY <1>1, SetProxyEffect DEF Fell
<1>5. CASE _reapply(p) \/ _set_url(p)
  BY <1>1, <1>5, ReapplyEffect, SetUrlEffect DEF Fell
<1>6. CASE _profiles_done(p)
  BY <1>1, <1>6, ProfilesDoneEffect
<1>7. CASE _set_mode(p)
  BY <1>1, <1>7, SetModeEffect DEF Fell
<1>8. CASE _sync_save(p) \/ Crash(p) \/ sync_no_proxy(p)
  BY <1>1, <1>8, SyncSaveEffect, CrashEffect, SyncTyped
<1>9. CASE enable(p)
  BY <1>1, <1>9, EnableEffect
<1>10. CASE disable(p)
  BY <1>1, <1>10, DisableEffect
<1>11. CASE _clear(p)
  BY <1>1, <1>11, ClearEffect
<1> QED BY <1>2, <1>3, <1>4, <1>5, <1>6, <1>7, <1>8, <1>9, <1>10, <1>11 DEF Next, Step, Outside

Restored(p) ==
    Returns(p, "disable", TRUE)
      => /\ applied' = {} /\ store' = None
         /\ \A u \in Profiles \ moved' : device'[u] \notin OwnPacs

LEMMA DisableIsTruthful ==
    ASSUME DeviceInv, [Next]_vars, NEW p, Procs = {p}
    PROVE  Restored(p)
<1> SUFFICES ASSUME Returns(p, "disable", TRUE)
             PROVE  /\ applied' = {} /\ store' = None
                    /\ \A u \in Profiles \ moved' : device'[u] \notin OwnPacs
  BY DEF Restored
<1>1. TruthInv /\ SafeInv /\ TypeInv /\ TruthInv'
  BY TruthStep DEF DeviceInv, TruthInv, SafeInv
<1>2. call'[p].pc = "idle" /\ call'[p].ok = TRUE
  BY DEF Returns
<1>3. disable(p) \/ _clear(p)
  BY <1>1, Succeeds
<1>4. CASE disable(p)
  <2>1. store = None /\ UNCHANGED <<device, store, applied, moved>>
    BY <1>1, <1>2, <1>4, DisableEffect DEF world, history
  <2> QED BY <1>1, <2>1, LinuxAssumption DEF SafeInv, DeviceInv, DevicesTrue, HasEvidence
<1>5. CASE _clear(p)
  <2>1. store' = None /\ UNCHANGED applied
    BY <1>1, <1>2, <1>5, ClearEffect DEF history
  <2> QED BY <1>1, <1>5, <2>1, ClearSafe, ClearDevices
<1> QED BY <1>3, <1>4, <1>5

Enabled(p) ==
    Returns(p, "enable", TRUE)
      => /\ store' \notin {None, Corrupt}
         /\ \A n \in DOMAIN store'.saved \ drift' : value'[n] = Desired(n, store'.cfg)
         /\ call[p].pc # "idle" =>
              \A u \in Profiles \ (moved' \cup drift') : device'[u] \in {Down, store'.cfg.pac}

LEMMA EnableIsTruthful ==
    ASSUME DeviceInv, [Next]_vars, NEW p, Procs = {p}
    PROVE  Enabled(p)
<1> SUFFICES ASSUME Returns(p, "enable", TRUE)
             PROVE  /\ store' \notin {None, Corrupt}
                    /\ \A n \in DOMAIN store'.saved \ drift' :
                         value'[n] = Desired(n, store'.cfg)
                    /\ call[p].pc # "idle" =>
                         \A u \in Profiles \ (moved' \cup drift') :
                            device'[u] \in {Down, store'.cfg.pac}
  BY DEF Enabled
<1> DEFINE b == call[p]
<1>1. TruthInv /\ SafeInv /\ TypeInv
  BY DEF DeviceInv, TruthInv, SafeInv
<1>2. call'[p].pc = "idle" /\ call'[p].ok = TRUE
  BY DEF Returns
<1>3. enable(p) \/ _profiles_done(p) \/ _set_mode(p)
  BY <1>1, Succeeds
<1>4. CASE enable(p)
  <2>1. /\ b.pc = "idle" /\ UNCHANGED <<value, store, drift>>
        /\ HasEvidence /\ _payload_is_owned_and_active(store, session)
    BY <1>1, <1>2, <1>4, EnableEffect DEF world, history
  <2>2. \A n \in DOMAIN store.saved : value[n] \in {Desired(n, store.cfg), Gone}
    BY <2>1 DEF _payload_is_owned_and_active
  <2>3. ASSUME NEW n \in DOMAIN store.saved \ drift
        PROVE  value[n] # Gone
    <3>1. store \in Files
      BY <1>1, <2>1 DEF TypeInv, HasEvidence
    <3>2. n \in Names /\ store.saved[n] # Gone
      BY <3>1, FileIs
    <3>3. store.saved[n] = user[n]
      BY <1>1, <2>1 DEF TruthInv, ValuesTrue, FileTrue
    <3>4. n \notin applied => value[n] = user[n]
      BY <1>1, <3>2 DEF TruthInv, ValuesTrue
    <3> QED BY <1>1, <3>2, <3>3, <3>4 DEF SafeInv
  <2> QED BY <2>1, <2>2, <2>3 DEF HasEvidence
<1>5. CASE _profiles_done(p)
  <2>1. /\ b.pc = "profile" /\ b.todo = {} /\ b.op = "enable"
        /\ SavedFields(b.payload) = {} /\ UNCHANGED <<value, device, store, drift, moved>>
    BY <1>1, <1>2, <1>5, ProfilesDoneEffect DEF world, history
  <2>2. store = b.payload /\ store \in Files /\ HasEvidence /\ CallDevices(b)
    BY <1>1, <2>1, WorkingFile DEF Working, DeviceInv
  <2>3. \A n \in DOMAIN store.saved \ drift : n \in applied
    BY <2>1, <2>2 DEF CallDevices, Working, SavedFields
  <2>4. \A n \in DOMAIN store.saved \ drift : value[n] = Desired(n, store.cfg)
    BY <1>1, <2>2, <2>3 DEF TruthInv, ValuesTrue
  <2>5. \A u \in Profiles \ (moved \cup drift) : device[u] \in {Down, store.cfg.pac}
    BY <2>1, <2>2 DEF CallDevices, Working
  <2> QED BY <2>1, <2>2, <2>4, <2>5 DEF HasEvidence
<1>6. CASE _set_mode(p)
  <2> DEFINE n == <<b.client, "mode">>
             url == <<b.client, "url">>
  <2>1. /\ b.pc = "mode" /\ b.op = "enable" /\ Write(b, n)
        /\ value[url] = Target(b, url) /\ UNCHANGED <<device, store, drift, moved>>
    BY <1>1, <1>2, <1>6, SetModeEffect DEF Fell
  <2>2. /\ b \in Calls /\ CallTyped(b) /\ store = b.payload /\ store \in Files
        /\ HasEvidence /\ CallDevices(b)
    BY <1>1, <2>1, WorkingFile DEF Working, DeviceInv
  <2>3. /\ b.client \in Backends /\ SavedFields(store) = Fields(b.client)
        /\ n \in DOMAIN store.saved /\ url \in DOMAIN store.saved
    BY <2>1, <2>2, AtDesktop
  <2>4. Fields(b.client) = {n, url} /\ n # url
    BY <2>3, FieldsAre
  <2> HIDE DEF n, url
  <2>5. /\ value'[n] = Target(b, n) /\ \A m \in Names \ {n} : value'[m] = value[m]
    BY <1>1, <2>1, <2>2, <2>3, WriteTyped
  <2>6. Target(b, n) = Desired(n, store.cfg) /\ Target(b, url) = Desired(url, store.cfg)
    BY <2>1, <2>2 DEF Target, Restoring
  <2>7. b.todo = {}
    BY <2>1, <2>2 DEF CallDevices, Working
  <2>8. ASSUME NEW m \in DOMAIN store.saved \ drift
        PROVE  value'[m] = Desired(m, store.cfg)
    <3>1. m \in Names
      BY <2>2, FileIs
    <3>2. CASE m = n
      BY <2>5, <2>6, <3>2
    <3>3. CASE m = url
      BY <2>1, <2>4, <2>5, <2>6, <3>1, <3>3
    <3>4. CASE m \notin {n, url}
      <4>1. m \notin DesktopNames
        BY <2>3, <2>4, <3>4 DEF SavedFields
      <4>2. m \in applied
        BY <2>1, <2>2, <2>7, <4>1 DEF CallDevices, Working
      <4>3. value[m] = Desired(m, store.cfg)
        BY <1>1, <2>2, <4>2 DEF TruthInv, ValuesTrue
      <4> QED BY <2>5, <3>1, <3>4, <4>3
    <3> QED BY <3>2, <3>3, <3>4
  <2>9. \A u \in Profiles \ (moved \cup drift) : device[u] \in {Down, store.cfg.pac}
    BY <2>1, <2>2, <2>7 DEF CallDevices, Working
  <2> QED BY <2>1, <2>2, <2>8, <2>9 DEF HasEvidence
<1> QED BY <1>3, <1>4, <1>5, <1>6

(* enable and disable of the Linux backend say True only when it is so: disable  *)
(* left nothing of the launcher's in a profile, the desktop or on a connection,  *)
(* enable has every saved profile and the desktop at the PAC, and the            *)
(* connections too when it did the work.  Nobody else uses the launcher's PAC    *)
(* URLs (PacsAreOwn): they are on a port of the loopback interface it owns.      *)
THEOREM LinuxReturnsAreTruthful ==
    ASSUME PacsAreOwn, NEW w, Procs = {w}
    PROVE  Spec => ReturnsAreTruthful
<1> DEFINE Truthful == \A p \in Procs :
         /\ Returns(p, "disable", TRUE)
              => /\ applied' = {} /\ store' = None
                 /\ \A u \in Profiles \ moved' : device'[u] \notin OwnPacs
         /\ Returns(p, "enable", TRUE)
              => /\ store' \notin {None, Corrupt}
                 /\ \A n \in DOMAIN store'.saved \ drift' :
                      value'[n] = Desired(n, store'.cfg)
                 /\ call[p].pc # "idle" =>
                      \A u \in Profiles \ (moved' \cup drift') :
                        device'[u] \in {Down, store'.cfg.pac}
<1>1. (Init => DeviceInv) /\ (DeviceInv /\ [Next]_vars => DeviceInv')
  BY DeviceInit, DeviceStep
<1>2. DeviceInv /\ [Next]_vars => [Truthful]_vars
  <2> SUFFICES ASSUME DeviceInv, [Next]_vars
               PROVE  Truthful
    OBVIOUS
  <2>1. Restored(w) /\ Enabled(w)
    BY DisableIsTruthful, EnableIsTruthful
  <2> QED BY <2>1 DEF Restored, Enabled
<1>3. [][Truthful]_vars <=> ReturnsAreTruthful
  BY DEF ReturnsAreTruthful
<1> QED BY <1>1, <1>2, <1>3, PTL DEF Spec
=============================================================================
