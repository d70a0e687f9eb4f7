------------------------- MODULE MacosBackendProofs -------------------------
(* Proofs about the macOS backend, for any services, endpoints, configurations   *)
(* and budgets of faults.  Launcher processes run one after the other, as they   *)
(* do in the run: the theorems assume Procs = {p}.                               *)
EXTENDS MacosBackend, SequenceTheorems, TLAPS

-----------------------------------------------------------------------------
(* Scripts.                                                                      *)

Web == {"web", "secure"}
Cmds == [ch : Settings, verb : {"set", "on", "off", "put"}, at : Endpoints]

Has(T, cmd) == \E i \in 1..Len(T) : T[i] = cmd
HasChannel(T, ch) == \E i \in 1..Len(T) : T[i].ch = ch

(* A script of commands from A, in which the endpoint of a channel is set before *)
(* anything else is done to it, and no command of N is the last of its channel.  *)
Fits(T, A, N) ==
    /\ T \in Seq(Cmds)
    /\ \A i \in 1..Len(T) : T[i] \in A
    /\ \A i, j \in 1..Len(T) : i < j /\ T[i].ch = T[j].ch => T[j].verb # "set"
    /\ \A i \in 1..Len(T) : T[i] \in N => \E j \in 1..Len(T) : i < j /\ T[i].ch = T[j].ch

(* What an operation may do to a service whose settings were saved. *)
PointCommands(e) ==
    {Cmd("web", "set", e), Cmd("secure", "set", e), On("web"), On("secure")}
Final(ch, saved) == IF saved[ch].on THEN On(ch) ELSE Off(ch)
BackCommands(saved) ==
    {Cmd(ch, "set", saved[ch].at) : ch \in {c \in Manual \cup {"auto"} : saved[c].at # Empty}}
    \cup {Final(ch, saved) : ch \in Manual \cup {"auto"}}
    \cup {Off("auto"), Cmd("bypass", "put", saved["bypass"].at)}
NotLast(saved) ==
    {Cmd(ch, "set", saved[ch].at) : ch \in Manual \cup {"auto"}}
    \cup (IF saved["auto"].on THEN {Off("auto")} ELSE {})

Allowed(op, saved, cfg) ==
    CASE op = "enable" -> {Off("auto"), Off("socks")} \cup PointCommands(cfg.upstream)
      [] op = "pulse" -> PointCommands(Sentinel)
      [] op = "rearm" -> PointCommands(cfg.upstream)
      [] OTHER -> BackCommands(saved)
Pending(op, saved) == IF op \in {"rollback", "disable"} THEN NotLast(saved) ELSE {}

-----------------------------------------------------------------------------
(* Inductive invariants.                                                         *)

Calls ==
    [pc : {"idle", "save", "run", "clear"},
     op : {"none", "enable", "pulse", "rearm", "refresh", "rollback", "disable", "sync"},
     ok : BOOLEAN, payload : Payloads \cup {None}, todo : SUBSET Services,
     touched : SUBSET Services, at : Services \cup {None}, script : Seq(Cmds)]

Restoring(c) == c.op \in {"rollback", "disable"}

(* What a call has in hand belongs to where it is. *)
CallTyped(c) ==
    /\ c.pc # "idle" =>
         c.payload \in Payloads /\ c.todo \cup c.touched \subseteq DOMAIN c.payload.saved
    /\ c.pc = "save" =>
         /\ c.op = "enable" /\ c.touched = {} /\ c.script = <<>>
         /\ c.todo = DOMAIN c.payload.saved
    /\ c.pc = "run" => c.op \in {"enable", "pulse", "rearm", "rollback", "disable"}
    /\ c.pc = "clear" => Restoring(c) /\ c.script = <<>>
    /\ c.script # <<>> =>
         /\ c.pc = "run" /\ c.at \in DOMAIN c.payload.saved /\ c.at \notin c.todo
         /\ c.at \in c.touched
         /\ Fits(c.script, Allowed(c.op, c.payload.saved[c.at], c.payload.cfg),
                 Pending(c.op, c.payload.saved[c.at]))

TypeInv ==
    /\ value \in [Services -> [Settings -> States]] /\ present \subseteq Services
    /\ user \in [Services -> [Settings -> States]] /\ applied \subseteq Cells
    /\ drift \subseteq Cells /\ armed \in BOOLEAN /\ config \in Configs
    /\ left \in [Events -> Nat] /\ store \in Payloads \cup {None, Corrupt}
    /\ call \in [Procs -> Calls] /\ \A q \in Procs : CallTyped(call[q])

(* The setting of a saved service that no other program wrote meanwhile. *)
Quiet(f, s, ch) == s \in DOMAIN f.saved /\ <<s, ch>> \notin drift

(* What the manual proxies hold once the route is up. *)
Routed(cfg) == [on : {TRUE}, at : {cfg.upstream, Sentinel}]
(* The command of enable that makes a setting owned. *)
Owning(ch, cfg) == IF ch \in Web THEN Cmd(ch, "set", cfg.upstream) ELSE Off(ch)

CallRouted(c) ==
    /\ c.pc = "save" =>
         /\ store = None
         /\ \A s \in Services, ch \in Settings :
              Quiet(c.payload, s, ch) => c.payload.saved[s][ch] = value[s][ch]
    /\ c.pc \in {"run", "clear"} => store = c.payload
    /\ c.pc # "idle" /\ c.op \in {"enable", "rollback", "disable"} => ~armed
    /\ c.pc = "run" /\ c.op = "enable" =>
         \A s \in Services, ch \in Settings : Quiet(c.payload, s, ch) =>
           \/ Owned(ch, value[s][ch], c.payload.saved[s][ch], c.payload.cfg)
           \/ ch # "bypass" /\ s \in c.todo
           \/ ch # "bypass" /\ s = c.at /\ Has(c.script, Owning(ch, c.payload.cfg))
    /\ c.pc = "run" /\ c.op \in {"pulse", "rearm"} =>
         \A s \in Services, ch \in Web : Quiet(c.payload, s, ch) =>
           value[s][ch] \in Routed(c.payload.cfg)

RouteInv ==
    /\ TypeInv
    /\ \A q \in Procs : CallRouted(call[q])
    /\ store = None => ~armed
    /\ NeverDirect

(* What a setting may hold between two commands of the launcher. *)
Between(ch, v, saved, cfg) ==
    CASE ch \in Web ->
           \/ v = saved \/ v \in Routed(cfg)
           \/ saved.at # Empty /\ v = [on |-> TRUE, at |-> saved.at]
           \/ saved = [on |-> FALSE, at |-> Empty] /\ ~v.on
      [] ch \in {"socks", "auto"} ->
           v.at = saved.at /\ (v.on => saved.on \/ saved.at # Empty)
      [] OTHER -> v = saved

CallSafe(c) ==
    /\ c.pc = "run" /\ c.op = "enable" =>
         \A s \in Services, ch \in Settings :
            <<s, ch>> \in applied \ drift => s \in c.touched
    /\ c.pc = "run" /\ c.op = "rollback" /\ c.ok =>
         \A s \in Services, ch \in Settings :
            <<s, ch>> \in applied \ drift =>
              s \in c.todo \/ (s = c.at /\ HasChannel(c.script, ch))
    /\ c.pc = "clear" => applied \subseteq drift
    /\ c.script # <<>> /\ Restoring(c) =>
         \A ch \in Web : Quiet(c.payload, c.at, ch) =>
            LET saved == c.payload.saved[c.at][ch]
            IN  \/ saved.at \in {Empty, value[c.at][ch].at}
                \/ Has(c.script, Cmd(ch, "set", saved.at))

UserEndpoints == \A s \in Services, ch \in Web : EndpointIfOn(user[s][ch])
NothingLeft == store = None => applied \subseteq drift
(* Where the launcher and the others did nothing, the user's setting is in force. *)
UntouchedTrue ==
    \A s \in Services, ch \in Settings : <<s, ch>> \notin applied \cup drift =>
        Restored(ch, value[s][ch], user[s][ch])
(* The rollback file holds what the user had, and knows every setting changed. *)
FileTrue ==
    HasEvidence =>
      /\ \A s \in Services, ch \in Settings : <<s, ch>> \in applied \ drift =>
           s \in DOMAIN store.saved /\ ~Restored(ch, value[s][ch], store.saved[s][ch])
      /\ \A s \in Services, ch \in Settings : Quiet(store, s, ch) =>
           /\ Restored(ch, store.saved[s][ch], user[s][ch])
           /\ Between(ch, value[s][ch], store.saved[s][ch], store.cfg)

SafeInv ==
    /\ RouteInv /\ \A q \in Procs : CallSafe(call[q])
    /\ UserEndpoints /\ NothingLeft /\ UntouchedTrue /\ FileTrue

-----------------------------------------------------------------------------
(* Lemmas about scripts.                                                         *)

(* What is left of a script after a command still fits. *)
LEMMA FitsTail ==
    ASSUME NEW T, NEW A, NEW N, Fits(T, A, N), T # <<>>
    PROVE  /\ Head(T) \in Cmds /\ Head(T) \in A /\ Tail(T) \in Seq(Cmds)
           /\ Fits(Tail(T), A, N)
           /\ \A i \in 1..Len(Tail(T)) : Tail(T)[i].ch = Head(T).ch => Tail(T)[i].verb # "set"
           /\ Head(T) \in N => HasChannel(Tail(T), Head(T).ch)
<1>1. T \in Seq(Cmds) /\ Len(T) \in Nat /\ Len(T) > 0 BY DEF Fits
<1>2. /\ Tail(T) \in Seq(Cmds) /\ Len(Tail(T)) = Len(T) - 1 /\ Head(T) = T[1]
      /\ \A i \in 1..Len(Tail(T)) : Tail(T)[i] = T[i + 1]
  BY <1>1
<1>3. Head(T) \in Cmds /\ Head(T) \in A BY <1>1, <1>2 DEF Fits
<1>4. \A i \in 1..Len(Tail(T)) : Tail(T)[i].ch = Head(T).ch => Tail(T)[i].verb # "set"
  BY <1>1, <1>2 DEF Fits
<1>5. Head(T) \in N => HasChannel(Tail(T), Head(T).ch)
  <2> SUFFICES ASSUME Head(T) \in N PROVE HasChannel(Tail(T), Head(T).ch) OBVIOUS
  <2>1. PICK j \in 1..Len(T) : 1 < j /\ T[1].ch = T[j].ch BY <1>1, <1>2 DEF Fits
  <2>2. j - 1 \in 1..Len(Tail(T)) /\ Tail(T)[j - 1] = T[j] BY <1>1, <1>2, <2>1
  <2> QED BY <1>2, <2>1, <2>2 DEF HasChannel
<1>6. \A i \in 1..Len(Tail(T)) : Tail(T)[i] \in A
  BY <1>1, <1>2 DEF Fits
<1>7. \A i, j \in 1..Len(Tail(T)) :
        i < j /\ Tail(T)[i].ch = Tail(T)[j].ch => Tail(T)[j].verb # "set"
  BY <1>1, <1>2 DEF Fits
<1>8. ASSUME NEW i \in 1..Len(Tail(T)), Tail(T)[i] \in N
      PROVE  \E j \in 1..Len(Tail(T)) : i < j /\ Tail(T)[i].ch = Tail(T)[j].ch
  <2>1. i + 1 \in 1..Len(T) /\ T[i + 1] \in N BY <1>1, <1>2, <1>8
  <2>2. PICK j \in 1..Len(T) : i + 1 < j /\ T[i + 1].ch = T[j].ch BY <2>1 DEF Fits
  <2>3. j - 1 \in 1..Len(Tail(T)) /\ i < j - 1 /\ Tail(T)[j - 1] = T[j]
    BY <1>1, <1>2, <2>2
  <2> QED BY <1>2, <1>8, <2>2, <2>3
<1> QED BY <1>2, <1>3, <1>4, <1>5, <1>6, <1>7, <1>8 DEF Fits

(* A command of a script is the next one or one of the rest. *)
LEMMA HasTail ==
    ASSUME NEW T \in Seq(Cmds), T # <<>>
    PROVE  /\ \A cmd : Has(T, cmd) => cmd = Head(T) \/ Has(Tail(T), cmd)
           /\ \A ch : HasChannel(T, ch) => ch = Head(T).ch \/ HasChannel(Tail(T), ch)
           /\ \A cmd : Has(Tail(T), cmd) => HasChannel(Tail(T), cmd.ch)
<1>1. /\ Tail(T) \in Seq(Cmds) /\ Len(Tail(T)) = Len(T) - 1 /\ Head(T) = T[1]
      /\ Len(T) \in Nat
      /\ \A i \in 1..Len(Tail(T)) : Tail(T)[i] = T[i + 1]
  OBVIOUS
<1>2. ASSUME NEW i \in 1..Len(T), i # 1
      PROVE  i - 1 \in 1..Len(Tail(T)) /\ Tail(T)[i - 1] = T[i]
  BY <1>1, <1>2
<1>3. ASSUME NEW cmd, Has(T, cmd) PROVE cmd = Head(T) \/ Has(Tail(T), cmd)
  BY <1>1, <1>2, <1>3 DEF Has
<1>4. ASSUME NEW ch, HasChannel(T, ch) PROVE ch = Head(T).ch \/ HasChannel(Tail(T), ch)
  BY <1>1, <1>2, <1>4 DEF HasChannel
<1> QED BY <1>3, <1>4 DEF Has, HasChannel

(* Two scripts in a row. *)
LEMMA FitsConcat ==
    ASSUME NEW S, NEW T, NEW A, NEW N, Fits(S, A, N), Fits(T, A, N),
           \A i \in 1..Len(S), j \in 1..Len(T) : S[i].ch = T[j].ch => T[j].verb # "set"
    PROVE  /\ Fits(S \o T, A, N)
           /\ \A cmd : Has(S, cmd) \/ Has(T, cmd) => Has(S \o T, cmd)
           /\ \A ch : HasChannel(S \o T, ch) <=> HasChannel(S, ch) \/ HasChannel(T, ch)
<1> DEFINE U == S \o T
<1>1. S \in Seq(Cmds) /\ T \in Seq(Cmds) /\ Len(S) \in Nat /\ Len(T) \in Nat BY DEF Fits
<1>2. U \in Seq(Cmds) /\ Len(U) = Len(S) + Len(T)
  BY <1>1
<1>3. \A i \in 1..Len(U) : U[i] = IF i <= Len(S) THEN S[i] ELSE T[i - Len(S)]
  BY <1>1, <1>2
<1>4. /\ \A i \in 1..Len(S) : i \in 1..Len(U) /\ U[i] = S[i]
      /\ \A j \in 1..Len(T) : j + Len(S) \in 1..Len(U) /\ U[j + Len(S)] = T[j]
  BY <1>1, <1>2, <1>3
<1>5. \A i \in 1..Len(U) : i > Len(S) => i - Len(S) \in 1..Len(T) /\ U[i] = T[i - Len(S)]
  BY <1>1, <1>2, <1>3
<1>6. \A i \in 1..Len(U) : i <= Len(S) => i \in 1..Len(S) /\ U[i] = S[i]
  BY <1>1, <1>2, <1>3
<1> HIDE DEF U
<1>7. \A i \in 1..Len(U) : U[i] \in A
  BY <1>1, <1>2, <1>5, <1>6 DEF Fits
<1>8. \A i, j \in 1..Len(U) : i < j /\ U[i].ch = U[j].ch => U[j].verb # "set"
  <2> SUFFICES ASSUME NEW i \in 1..Len(U), NEW j \in 1..Len(U), i < j, U[i].ch = U[j].ch
               PROVE  U[j].verb # "set"
    OBVIOUS
  <2>1. CASE j <= Len(S)
    <3>1. i \in 1..Len(S) /\ j \in 1..Len(S) /\ U[i] = S[i] /\ U[j] = S[j]
      BY <1>1, <1>6, <2>1
    <3> QED BY <3>1 DEF Fits
  <2>2. CASE j > Len(S) /\ i <= Len(S)
    <3>1. i \in 1..Len(S) /\ j - Len(S) \in 1..Len(T) /\ U[i] = S[i] /\ U[j] = T[j - Len(S)]
      BY <1>1, <1>5, <1>6, <2>2
    <3> QED BY <3>1
  <2>3. CASE j > Len(S) /\ i > Len(S)
    <3>1. i - Len(S) \in 1..Len(T) /\ j - Len(S) \in 1..Len(T) /\ i - Len(S) < j - Len(S)
          /\ U[i] = T[i - Len(S)] /\ U[j] = T[j - Len(S)]
      BY <1>1, <1>2, <1>5, <2>3
    <3> QED BY <3>1 DEF Fits
  <2> QED BY <1>1, <1>2, <2>1, <2>2, <2>3
<1>9. \A i \in 1..Len(U) : U[i] \in N => \E j \in 1..Len(U) : i < j /\ U[i].ch = U[j].ch
  <2> SUFFICES ASSUME NEW i \in 1..Len(U), U[i] \in N
               PROVE  \E j \in 1..Len(U) : i < j /\ U[i].ch = U[j].ch
    OBVIOUS
  <2>1. CASE i <= Len(S)
    <3>1. i \in 1..Len(S) /\ U[i] = S[i] BY <1>6, <2>1
    <3>2. PICK j \in 1..Len(S) : i < j /\ S[i].ch = S[j].ch BY <3>1 DEF Fits
    <3> QED BY <1>4, <3>1, <3>2
  <2>2. CASE i > Len(S)
    <3>1. i - Len(S) \in 1..Len(T) /\ U[i] = T[i - Len(S)] BY <1>5, <2>2
    <3>2. PICK j \in 1..Len(T) : i - Len(S) < j /\ T[i - Len(S)].ch = T[j].ch
      BY <3>1 DEF Fits
    <3>3. j + Len(S) \in 1..Len(U) /\ i < j + Len(S) /\ U[j + Len(S)] = T[j]
      BY <1>1, <1>2, <1>4, <3>2
    <3> QED BY <3>1, <3>2, <3>3
  <2> QED BY <1>1, <1>2, <2>1, <2>2
<1>10. \A cmd : Has(S, cmd) \/ Has(T, cmd) => Has(U, cmd)
  BY <1>4 DEF Has
<1>11. \A ch : HasChannel(S, ch) \/ HasChannel(T, ch) => HasChannel(U, ch)
  BY <1>4 DEF HasChannel
<1>12. ASSUME NEW ch, HasChannel(U, ch) PROVE HasChannel(S, ch) \/ HasChannel(T, ch)
  <2>1. PICK i \in 1..Len(U) : U[i].ch = ch BY <1>12 DEF HasChannel
  <2>2. CASE i <= Len(S) BY <1>6, <2>1, <2>2 DEF HasChannel
  <2>3. CASE i > Len(S)
    <3>1. i - Len(S) \in 1..Len(T) /\ T[i - Len(S)].ch = ch BY <1>5, <2>1, <2>3
    <3> QED BY <3>1 DEF HasChannel
  <2> QED BY <1>1, <1>2, <2>2, <2>3
<1> QED BY <1>2, <1>7, <1>8, <1>9, <1>10, <1>11, <1>12 DEF Fits, U

LEMMA CommandsTyped ==
    ASSUME NEW ch \in Settings, NEW e \in Endpoints
    PROVE  Cmd(ch, "set", e) \in Cmds /\ Cmd(ch, "put", e) \in Cmds
           /\ On(ch) \in Cmds /\ Off(ch) \in Cmds
BY MacosAssumption DEF Cmd, Cmds, On, Off

LEMMA Join ==
    ASSUME NEW S \in Seq(Cmds), NEW T \in Seq(Cmds)
    PROVE  /\ S \o T \in Seq(Cmds) /\ Len(S \o T) = Len(S) + Len(T)
           /\ \A i \in 1..Len(S \o T) :
                (S \o T)[i] = IF i <= Len(S) THEN S[i] ELSE T[i - Len(S)]
OBVIOUS

LEMMA Singleton ==
    ASSUME NEW x \in Cmds
    PROVE  <<x>> \in Seq(Cmds) /\ Len(<<x>>) = 1 /\ <<x>>[1] = x
OBVIOUS

LEMMA Pair ==
    ASSUME NEW y \in Cmds, NEW x \in Cmds
    PROVE  /\ <<y>> \o <<x>> \in Seq(Cmds) /\ Len(<<y>> \o <<x>>) = 2
           /\ (<<y>> \o <<x>>)[1] = y /\ (<<y>> \o <<x>>)[2] = x
OBVIOUS

LEMMA Nothing == <<>> \in Seq(Cmds) /\ Len(<<>>) = 0
OBVIOUS

(* The script that points web and secure at an endpoint. *)
LEMMA PointAtFits ==
    ASSUME NEW e \in Endpoints
    PROVE  /\ Fits(PointAt(e), PointCommands(e), {})
           /\ \A ch \in Web : Has(PointAt(e), Cmd(ch, "set", e))
<1> DEFINE A == PointCommands(e)
           S == Both("set", e)
           T == Both("on", Empty)
<1>1. /\ Len(S) = 2 /\ S[1] = Cmd("web", "set", e) /\ S[2] = Cmd("secure", "set", e)
      /\ Len(T) = 2 /\ T[1] = On("web") /\ T[2] = On("secure")
  BY DEF Both, On
<1>2. /\ S[1] \in Cmds /\ S[2] \in Cmds /\ T[1] \in Cmds /\ T[2] \in Cmds
  BY <1>1, CommandsTyped DEF Settings, Manual
<1>3. S \in Seq(Cmds) /\ T \in Seq(Cmds)
  BY <1>2 DEF Both
<1>4. S[1] \in A /\ S[2] \in A /\ T[1] \in A /\ T[2] \in A
  BY <1>1 DEF PointCommands
<1>5. S[1].ch # S[2].ch /\ T[1].ch # T[2].ch /\ T[1].verb # "set" /\ T[2].verb # "set"
  BY <1>1 DEF Cmd, On
<1> HIDE DEF S, T, A
<1>6. Fits(S, A, {}) BY <1>1, <1>3, <1>4, <1>5 DEF Fits
<1>7. Fits(T, A, {}) BY <1>1, <1>3, <1>4, <1>5 DEF Fits
<1>8. Has(S, Cmd("web", "set", e)) /\ Has(S, Cmd("secure", "set", e)) BY <1>1 DEF Has
<1>9. \A i \in 1..Len(S), j \in 1..Len(T) : S[i].ch = T[j].ch => T[j].verb # "set"
  BY <1>1, <1>5
<1>10. Fits(S \o T, A, {}) /\ \A ch \in Web : Has(S \o T, Cmd(ch, "set", e))
  BY <1>6, <1>7, <1>8, <1>9, FitsConcat DEF Web
<1> QED BY <1>10 DEF PointAt, S, T, A

LEMMA EnableFits ==
    ASSUME NEW cfg \in Configs, NEW saved
    PROVE  /\ Fits(EnableCommands(cfg), Allowed("enable", saved, cfg), {})
           /\ \A ch \in Settings \ {"bypass"} : Has(EnableCommands(cfg), Owning(ch, cfg))
<1> DEFINE A == Allowed("enable", saved, cfg)
           S == <<Off("auto"), Off("socks")>>
           T == PointAt(cfg.upstream)
<1>1. cfg.upstream \in Endpoints BY MacosAssumption
<1>2. Len(S) = 2 /\ S[1] = Off("auto") /\ S[2] = Off("socks") OBVIOUS
<1>3. S[1] \in Cmds /\ S[2] \in Cmds
  BY <1>1, <1>2, CommandsTyped DEF Settings, Manual
<1>4. S \in Seq(Cmds) BY <1>3
<1>5. S[1].ch = "auto" /\ S[2].ch = "socks" BY <1>2 DEF Off, Cmd
<1>6. S[1] \in A /\ S[2] \in A BY <1>2 DEF Allowed
<1>7. /\ Fits(T, PointCommands(cfg.upstream), {})
      /\ \A ch \in Web : Has(T, Cmd(ch, "set", cfg.upstream))
  BY <1>1, PointAtFits
<1>8. PointCommands(cfg.upstream) \subseteq A BY DEF Allowed
<1>9. \A j \in 1..Len(T) : T[j].ch \in Web
  BY <1>7 DEF Fits, PointCommands, Cmd, On, Web
<1> HIDE DEF S, T, A
<1>10. Fits(S, A, {}) BY <1>2, <1>4, <1>5, <1>6 DEF Fits
<1>11. Fits(T, A, {}) BY <1>7, <1>8 DEF Fits
<1>12. \A i \in 1..Len(S), j \in 1..Len(T) : S[i].ch # T[j].ch
  BY <1>2, <1>5, <1>9 DEF Web
<1>13. Fits(S \o T, A, {}) /\ \A cmd : Has(S, cmd) \/ Has(T, cmd) => Has(S \o T, cmd)
  BY <1>10, <1>11, <1>12, FitsConcat
<1>14. Has(S, Off("auto")) /\ Has(S, Off("socks")) BY <1>2 DEF Has
<1>15. \A ch \in Settings \ {"bypass"} : Has(S \o T, Owning(ch, cfg))
  BY <1>7, <1>13, <1>14 DEF Owning, Web, Settings, Manual
<1> QED BY <1>13, <1>15 DEF EnableCommands, S, T, A

(* The scripts that take one manual proxy back, and the PAC. *)
LEMMA ManualFits ==
    ASSUME NEW saved \in [Settings -> States], NEW ch \in Manual
    PROVE  /\ Fits(RestoreManual(ch, saved[ch]), BackCommands(saved), NotLast(saved))
           /\ \A i \in 1..Len(RestoreManual(ch, saved[ch])) :
                RestoreManual(ch, saved[ch])[i].ch = ch
           /\ HasChannel(RestoreManual(ch, saved[ch]), ch)
           /\ saved[ch].at # Empty
                => Has(RestoreManual(ch, saved[ch]), Cmd(ch, "set", saved[ch].at))
<1> DEFINE R == RestoreManual(ch, saved[ch])
           x == Final(ch, saved)
           y == Cmd(ch, "set", saved[ch].at)
<1>1. ch \in Settings /\ saved[ch] \in States /\ saved[ch].at \in Endpoints
  BY DEF Settings, States
<1>2. x \in Cmds /\ y \in Cmds /\ x.ch = ch /\ y.ch = ch /\ x.verb # "set"
      /\ x.verb \in {"on", "off"} /\ x.at = Empty
  BY <1>1, CommandsTyped DEF Final, On, Off, Cmd
<1>3. x \in BackCommands(saved) /\ (saved[ch].at # Empty => y \in BackCommands(saved))
  BY DEF BackCommands
<1>4. x \notin NotLast(saved)
  BY <1>2 DEF NotLast, Cmd, Off, Manual
<1>5. CASE saved[ch].at = Empty
  <2>1. R = <<x>> BY <1>5 DEF RestoreManual, Final
  <2> HIDE DEF x, y, R
  <2>2. R \in Seq(Cmds) /\ Len(R) = 1 /\ R[1] = x BY <1>2, <2>1
  <2> QED BY <1>2, <1>3, <1>4, <1>5, <2>2 DEF Fits, HasChannel, R
<1>6. CASE saved[ch].at # Empty
  <2>1. R = <<y>> \o <<x>> BY <1>6 DEF RestoreManual, Final
  <2> HIDE DEF x, y, R
  <2>2. R \in Seq(Cmds) /\ Len(R) = 2 /\ R[1] = y /\ R[2] = x
    BY <1>2, <2>1, Pair
  <2>3. /\ \A i \in 1..Len(R) : R[i] \in BackCommands(saved)
        /\ \A i \in 1..Len(R) : R[i].ch = ch
    BY <1>2, <1>3, <1>6, <2>2
  <2>4. /\ \A i, j \in 1..Len(R) : i < j /\ R[i].ch = R[j].ch => R[j].verb # "set"
        /\ \A i \in 1..Len(R) :
             R[i] \in NotLast(saved) => \E j \in 1..Len(R) : i < j /\ R[i].ch = R[j].ch
    BY <1>2, <1>4, <2>2
  <2>5. Fits(R, BackCommands(saved), NotLast(saved)) BY <2>2, <2>3, <2>4 DEF Fits
  <2>6. HasChannel(R, ch) /\ Has(R, y) BY <1>2, <2>2 DEF HasChannel, Has
  <2> QED BY <2>3, <2>5, <2>6 DEF R, y
<1> QED BY <1>5, <1>6

AutoBack(saved) ==
    (IF saved["auto"].at = Empty THEN <<>> ELSE <<Cmd("auto", "set", saved["auto"].at)>>)
    \o <<Off("auto")>> \o (IF saved["auto"].on THEN <<On("auto")>> ELSE <<>>)

LEMMA AutoFits ==
    ASSUME NEW saved \in [Settings -> States]
    PROVE  /\ Fits(AutoBack(saved), BackCommands(saved), NotLast(saved))
           /\ \A i \in 1..Len(AutoBack(saved)) : AutoBack(saved)[i].ch = "auto"
           /\ HasChannel(AutoBack(saved), "auto")
<1> DEFINE R == AutoBack(saved)
           x == Off("auto")
           y == Cmd("auto", "set", saved["auto"].at)
           z == On("auto")
           F == IF saved["auto"].at = Empty THEN <<>> ELSE <<y>>
           G == IF saved["auto"].on THEN <<z>> ELSE <<>>
<1>1. saved["auto"] \in States /\ saved["auto"].at \in Endpoints
      /\ saved["auto"].on \in BOOLEAN
  BY DEF Settings, States
<1>2. /\ x \in Cmds /\ y \in Cmds /\ z \in Cmds
      /\ x.ch = "auto" /\ y.ch = "auto" /\ z.ch = "auto"
      /\ x.verb # "set" /\ z.verb # "set"
  BY <1>1, CommandsTyped DEF On, Off, Cmd, Settings, Manual
<1>3. /\ x \in BackCommands(saved) /\ (saved["auto"].on => z \in BackCommands(saved))
      /\ saved["auto"].at # Empty => y \in BackCommands(saved)
  BY DEF BackCommands, Final, Manual
<1>4. z \notin NotLast(saved) /\ (~saved["auto"].on => x \notin NotLast(saved))
  BY <1>2 DEF NotLast, Cmd, Off, On, Manual
<1>5. /\ R = F \o <<x>> \o G
      /\ F = IF saved["auto"].at = Empty THEN <<>> ELSE <<y>>
      /\ G = IF saved["auto"].on THEN <<z>> ELSE <<>>
  BY DEF AutoBack
<1> HIDE DEF x, y, z, R, F, G
<1>6. \/ R \in Seq(Cmds) /\ Len(R) = 1 /\ R[1] = x /\ ~saved["auto"].on
      \/ R \in Seq(Cmds) /\ Len(R) = 2 /\ R[1] = x /\ R[2] = z /\ saved["auto"].on
      \/ R \in Seq(Cmds) /\ Len(R) = 2 /\ R[1] = y /\ R[2] = x /\ ~saved["auto"].on
         /\ saved["auto"].at # Empty
      \/ R \in Seq(Cmds) /\ Len(R) = 3 /\ R[1] = y /\ R[2] = x /\ R[3] = z /\ saved["auto"].on
         /\ saved["auto"].at # Empty
  <2> DEFINE H == F \o <<x>>
  <2>1. \/ F \in Seq(Cmds) /\ Len(F) = 0
        \/ F \in Seq(Cmds) /\ Len(F) = 1 /\ F[1] = y /\ saved["auto"].at # Empty
    BY <1>2, <1>5, Nothing, Singleton
  <2>2. <<x>> \in Seq(Cmds) /\ Len(<<x>>) = 1 /\ <<x>>[1] = x BY <1>2, Singleton
  <2>3. \/ H \in Seq(Cmds) /\ Len(H) = 1 /\ H[1] = x
        \/ H \in Seq(Cmds) /\ Len(H) = 2 /\ H[1] = y /\ H[2] = x /\ saved["auto"].at # Empty
    BY <2>1, <2>2, Join
  <2>4. \/ G \in Seq(Cmds) /\ Len(G) = 0 /\ ~saved["auto"].on
        \/ G \in Seq(Cmds) /\ Len(G) = 1 /\ G[1] = z /\ saved["auto"].on
    BY <1>2, <1>5, Nothing, Singleton
  <2>5. R = H \o G BY <1>5
  <2> HIDE DEF H
  <2> QED BY <2>3, <2>4, <2>5, Join
<1>7. /\ R \in Seq(Cmds) /\ \A i \in 1..Len(R) : R[i].ch = "auto"
      /\ \A i \in 1..Len(R) : R[i] \in BackCommands(saved)
  BY <1>2, <1>3, <1>6
<1>8. \A i, j \in 1..Len(R) : i < j /\ R[i].ch = R[j].ch => R[j].verb # "set"
  BY <1>2, <1>6
<1>9. \A i \in 1..Len(R) :
         R[i] \in NotLast(saved) => \E j \in 1..Len(R) : i < j /\ R[i].ch = R[j].ch
  <2> SUFFICES ASSUME NEW i \in 1..Len(R), R[i] \in NotLast(saved)
               PROVE  \E j \in 1..Len(R) : i < j
    BY <1>7
  <2>1. R[Len(R)] \notin NotLast(saved) /\ Len(R) \in 1..3
    BY <1>4, <1>6
  <2> QED BY <2>1
<1>10. HasChannel(R, "auto") BY <1>6, <1>7 DEF HasChannel
<1> QED BY <1>7, <1>8, <1>9, <1>10 DEF Fits, R

(* The script that takes a service back covers all of its settings, sets every   *)
(* endpoint of a manual proxy that was saved, and leaves none of its settings    *)
(* half done.                                                                    *)
LEMMA RestoreFits ==
    ASSUME NEW saved \in [Settings -> States]
    PROVE  /\ Fits(RestoreCommands(saved), BackCommands(saved), NotLast(saved))
           /\ \A ch \in Settings : HasChannel(RestoreCommands(saved), ch)
           /\ \A ch \in Web : saved[ch].at # Empty
                => Has(RestoreCommands(saved), Cmd(ch, "set", saved[ch].at))
<1> DEFINE B == BackCommands(saved)
           N == NotLast(saved)
           R1 == RestoreManual("web", saved["web"])
           R2 == RestoreManual("secure", saved["secure"])
           R3 == RestoreManual("socks", saved["socks"])
           x == Cmd("bypass", "put", saved["bypass"].at)
           R4 == <<x>>
           R5 == AutoBack(saved)
           F == IF saved["auto"].at = Empty THEN <<>> ELSE <<Cmd("auto", "set", saved["auto"].at)>>
           G == IF saved["auto"].on THEN <<On("auto")>> ELSE <<>>
<1>1. /\ Fits(R1, B, N) /\ (\A ch : HasChannel(R1, ch) => ch = "web") /\ HasChannel(R1, "web")
      /\ saved["web"].at # Empty => Has(R1, Cmd("web", "set", saved["web"].at))
  BY ManualFits DEF Manual, HasChannel
<1>2. /\ Fits(R2, B, N) /\ (\A ch : HasChannel(R2, ch) => ch = "secure")
      /\ HasChannel(R2, "secure")
      /\ saved["secure"].at # Empty => Has(R2, Cmd("secure", "set", saved["secure"].at))
  BY ManualFits DEF Manual, HasChannel
<1>3. /\ Fits(R3, B, N) /\ (\A ch : HasChannel(R3, ch) => ch = "socks")
      /\ HasChannel(R3, "socks")
  BY ManualFits DEF Manual, HasChannel
<1>4. /\ Fits(R5, B, N) /\ (\A ch : HasChannel(R5, ch) => ch = "auto") /\ HasChannel(R5, "auto")
  BY AutoFits DEF HasChannel
<1>5. Fits(R4, B, N) /\ (\A ch : HasChannel(R4, ch) => ch = "bypass") /\ HasChannel(R4, "bypass")
  <2>1. saved["bypass"].at \in Endpoints BY DEF Settings, States
  <2>2. x \in Cmds BY <2>1, CommandsTyped DEF Settings
  <2>3. x.ch = "bypass" /\ x.verb = "put" BY DEF Cmd
  <2>4. x \in B /\ x \notin N BY <2>3 DEF BackCommands, NotLast, Cmd, Off
  <2>5. R4 \in Seq(Cmds) /\ Len(R4) = 1 /\ R4[1] = x BY <2>2, Singleton
  <2> HIDE DEF x, R4, B, N
  <2> QED BY <2>2, <2>3, <2>4, <2>5 DEF Fits, HasChannel
<1>6. RestoreCommands(saved) = (((((R1 \o R2) \o R3) \o R4) \o F) \o <<Off("auto")>>) \o G
  BY DEF RestoreCommands
<1>7. R5 = (F \o <<Off("auto")>>) \o G BY DEF AutoBack
<1>8. F \in Seq(Cmds) /\ <<Off("auto")>> \in Seq(Cmds) /\ G \in Seq(Cmds)
  <2>1. saved["auto"].at \in Endpoints BY DEF Settings, States
  <2>2. Cmd("auto", "set", saved["auto"].at) \in Cmds /\ Off("auto") \in Cmds
        /\ On("auto") \in Cmds
    BY <2>1, CommandsTyped DEF Settings
  <2> QED BY <2>2, Singleton, Nothing
<1>9. R1 \in Seq(Cmds) /\ R2 \in Seq(Cmds) /\ R3 \in Seq(Cmds) /\ R4 \in Seq(Cmds)
  BY <1>1, <1>2, <1>3, <1>5 DEF Fits
<1> HIDE DEF B, N, R1, R2, R3, R4, R5, F, G
<1>10. RestoreCommands(saved) = ((((R1 \o R2) \o R3) \o R4) \o R5)
  <2> DEFINE S == ((R1 \o R2) \o R3) \o R4
  <2>1. S \in Seq(Cmds) BY <1>9
  <2>2. RestoreCommands(saved) = ((S \o F) \o <<Off("auto")>>) \o G BY <1>6
  <2> HIDE DEF S
  <2>3. ((S \o F) \o <<Off("auto")>>) = S \o (F \o <<Off("auto")>>)
    BY <1>8, <2>1, ConcatAssociative
  <2>4. (S \o (F \o <<Off("auto")>>)) \o G = S \o ((F \o <<Off("auto")>>) \o G)
    BY <1>8, <2>1, ConcatAssociative
  <2> QED BY <1>7, <2>2, <2>3, <2>4 DEF S
<1> DEFINE S2 == R1 \o R2
           S3 == S2 \o R3
           S4 == S3 \o R4
           S5 == S4 \o R5
<1>11. /\ Fits(S2, B, N) /\ (\A ch : HasChannel(S2, ch) => ch \in Web)
       /\ \A cmd : Has(R1, cmd) \/ Has(R2, cmd) => Has(S2, cmd)
       /\ \A ch : HasChannel(S2, ch) <=> HasChannel(R1, ch) \/ HasChannel(R2, ch)
  <2>1. \A i \in 1..Len(R1), j \in 1..Len(R2) : R1[i].ch # R2[j].ch
    BY <1>1, <1>2 DEF HasChannel, Web
  <2> QED BY <1>1, <1>2, <2>1, FitsConcat DEF Web
<1> HIDE DEF S2
<1>12. /\ Fits(S3, B, N) /\ (\A ch : HasChannel(S3, ch) => ch \in Manual)
       /\ \A cmd : Has(S2, cmd) \/ Has(R3, cmd) => Has(S3, cmd)
       /\ \A ch : HasChannel(S3, ch) <=> HasChannel(S2, ch) \/ HasChannel(R3, ch)
  <2>1. \A i \in 1..Len(S2), j \in 1..Len(R3) : S2[i].ch # R3[j].ch
    BY <1>3, <1>11 DEF HasChannel, Web, Manual
  <2> QED BY <1>3, <1>11, <2>1, FitsConcat DEF Web, Manual
<1> HIDE DEF S3
<1>13. /\ Fits(S4, B, N) /\ (\A ch : HasChannel(S4, ch) => ch # "auto")
       /\ \A cmd : Has(S3, cmd) \/ Has(R4, cmd) => Has(S4, cmd)
       /\ \A ch : HasChannel(S4, ch) <=> HasChannel(S3, ch) \/ HasChannel(R4, ch)
  <2>1. \A i \in 1..Len(S3), j \in 1..Len(R4) : S3[i].ch # R4[j].ch
    BY <1>5, <1>12 DEF HasChannel, Manual
  <2> QED BY <1>5, <1>12, <2>1, FitsConcat DEF Manual
<1> HIDE DEF S4
<1>14. /\ Fits(S5, B, N)
       /\ \A cmd : Has(S4, cmd) \/ Has(R5, cmd) => Has(S5, cmd)
       /\ \A ch : HasChannel(S5, ch) <=> HasChannel(S4, ch) \/ HasChannel(R5, ch)
  <2>1. \A i \in 1..Len(S4), j \in 1..Len(R5) : S4[i].ch # R5[j].ch
    BY <1>4, <1>13 DEF HasChannel, Manual
  <2> QED BY <1>4, <1>13, <2>1, FitsConcat DEF Manual
<1>15. RestoreCommands(saved) = S5 BY <1>10 DEF S2, S3, S4
<1> HIDE DEF S5
<1>16. \A ch \in Settings : HasChannel(S5, ch)
  BY <1>1, <1>2, <1>3, <1>4, <1>5, <1>11, <1>12, <1>13, <1>14 DEF Settings, Manual
<1>17. \A ch \in Web : saved[ch].at # Empty => Has(S5, Cmd(ch, "set", saved[ch].at))
  BY <1>1, <1>2, <1>11, <1>12, <1>13, <1>14 DEF Web
<1> QED BY <1>14, <1>15, <1>16, <1>17 DEF B, N

-----------------------------------------------------------------------------
(* Lemmas about the operators of the model.                                      *)

LEMMA RestoredReflexive ==
    ASSUME NEW ch \in Settings, NEW v
    PROVE  Restored(ch, v, v)
BY DEF Restored, Settings, Manual

LEMMA RestoredTransitive ==
    ASSUME NEW ch \in Settings, NEW a \in States, NEW b \in States, NEW c \in States,
           Restored(ch, a, b), Restored(ch, b, c)
    PROVE  Restored(ch, a, c)
<1>1. CASE ch \in Manual BY <1>1 DEF Restored, States
<1>2. CASE ch \notin Manual BY <1>2 DEF Restored, States, Settings, Manual
<1> QED BY <1>1, <1>2

LEMMA PayloadIs ==
    ASSUME NEW f \in Payloads
    PROVE  /\ f.cfg \in Configs /\ DOMAIN f.saved \subseteq Services
           /\ \A s \in DOMAIN f.saved : f.saved[s] \in [Settings -> States]
           /\ \A s \in DOMAIN f.saved, ch \in Settings : f.saved[s][ch] \in States
           /\ f \notin {None, Corrupt}
<1>1. PICK S \in SUBSET Services : f.saved \in [S -> [Settings -> States]]
  BY DEF Payloads
<1>2. f.cfg \in Configs BY DEF Payloads
<1>3. f \notin {None, Corrupt} BY MacosAssumption
<1> QED BY <1>1, <1>2, <1>3

LEMMA CallFields ==
    ASSUME NEW c \in Calls
    PROVE  /\ c.payload \in Payloads \cup {None} /\ c.todo \in SUBSET Services
           /\ c.touched \in SUBSET Services /\ c.at \in Services \cup {None}
           /\ c.script \in Seq(Cmds) /\ c.ok \in BOOLEAN
           /\ c.pc \in {"idle", "save", "run", "clear"}
BY DEF Calls

LEMMA CallIs ==
    ASSUME TypeInv, NEW p, Procs = {p}
    PROVE  call[p] \in Calls /\ CallTyped(call[p])
BY DEF TypeInv

LEMMA ReturnIs ==
    ASSUME NEW op \in {"none", "enable", "refresh", "disable", "sync"}, NEW ok \in BOOLEAN
    PROVE  /\ Return(op, ok) \in Calls /\ CallTyped(Return(op, ok))
           /\ Return(op, ok).pc = "idle" /\ Return(op, ok).op = op /\ Return(op, ok).ok = ok
<1> DEFINE r == Return(op, ok)
<1>1. /\ r.pc = "idle" /\ r.op = op /\ r.ok = ok /\ r.payload = None /\ r.todo = {}
      /\ r.touched = {} /\ r.at = None /\ r.script = <<>>
  BY DEF Return
<1>2. r \in Calls BY Nothing DEF Return, Calls
<1> HIDE DEF r
<1>3. CallTyped(r) BY <1>1 DEF CallTyped
<1> QED BY <1>1, <1>2, <1>3 DEF r

LEMMA Went ==
    ASSUME TypeInv, NEW p, Procs = {p}, NEW c \in Calls, Go(p, c)
    PROVE  call'[p] = c /\ (CallTyped(c) => call' \in [Procs -> Calls]
                              /\ \A q \in Procs : CallTyped(call'[q]))
BY DEF Go, TypeInv

LEMMA Spent ==
    ASSUME TypeInv, NEW k \in Events, Spend(k)
    PROVE  left' \in [Events -> Nat]
BY DEF Spend, TypeInv

(* A setting is written, the others stay. *)
LEMMA Written ==
    ASSUME TypeInv, NEW s \in Services, NEW ch \in Settings, NEW v \in States,
           value' = [value EXCEPT ![s][ch] = v]
    PROVE  /\ value' \in [Services -> [Settings -> States]] /\ value'[s][ch] = v
           /\ \A t \in Services, k \in Settings :
                <<t, k>> # <<s, ch>> => value'[t][k] = value[t][k]
BY DEF TypeInv

LEMMA EffectTyped ==
    ASSUME NEW v \in States, NEW cmd \in Cmds
    PROVE  Effect(v, cmd) \in States
BY DEF Effect, States, Cmds

(* A step of a call that changes no setting. *)
LEMMA TypeCall ==
    ASSUME TypeInv, NEW p, Procs = {p}, UNCHANGED <<world, applied, user, drift>>,
           armed' \in BOOLEAN, NEW c \in Calls, CallTyped(c), Go(p, c),
           store' \in Payloads \cup {None, Corrupt}, left' \in [Events -> Nat]
    PROVE  TypeInv' /\ call'[p] = c
BY Went DEF TypeInv, world

LEMMA Ended ==
    ASSUME TypeInv, NEW p, Procs = {p}, UNCHANGED <<world, applied, user, drift>>,
           armed' \in BOOLEAN, store' \in Payloads \cup {None, Corrupt},
           left' \in [Events -> Nat],
           NEW op \in {"none", "enable", "refresh", "disable", "sync"}, NEW ok \in BOOLEAN,
           Go(p, Return(op, ok))
    PROVE  TypeInv' /\ call'[p].pc = "idle" /\ call'[p].op = op /\ call'[p].ok = ok
<1> DEFINE r == Return(op, ok)
<1>1. r \in Calls /\ CallTyped(r) /\ r.pc = "idle" /\ r.op = op /\ r.ok = ok
  BY ReturnIs
<1> HIDE DEF r
<1>2. TypeInv' /\ call'[p] = r BY <1>1, TypeCall DEF r
<1> QED BY <1>1, <1>2

-----------------------------------------------------------------------------
(* Types, and what each step does to a call.                                     *)

LEMMA TypeInit == Init => TypeInv
<1> SUFFICES ASSUME Init PROVE TypeInv OBVIOUS
<1>1. PICK s \in Scenarios :
        /\ value = s.value /\ config = s.config /\ left = s.left /\ present = s.present
        /\ user = value
  BY DEF Init
<1>2. Idle \in Calls /\ CallTyped(Idle) BY ReturnIs DEF Idle
<1>3. call \in [Procs -> Calls] /\ \A q \in Procs : CallTyped(call[q])
  BY <1>2 DEF Init
<1> QED BY <1>1, <1>3, MacosAssumption DEF Init, TypeInv

LEMMA EnableEffect ==
    ASSUME TypeInv, NEW p, Procs = {p}, enable(p)
    PROVE  /\ TypeInv' /\ call[p].pc = "idle"
           /\ UNCHANGED <<world, store, applied, user, drift>>
           /\ \/ /\ call'[p].pc = "idle" /\ call'[p].op = "enable" /\ call'[p].ok = FALSE
                 /\ UNCHANGED armed
              \/ /\ call'[p].pc = "idle" /\ call'[p].op = "enable" /\ call'[p].ok = TRUE
                 /\ armed' = TRUE /\ HasEvidence /\ _payload_is_owned(store)
              \/ /\ call'[p].pc = "save" /\ call'[p].op = "enable" /\ store = None
                 /\ DOMAIN call'[p].payload.saved = present
                 /\ \A s \in present : call'[p].payload.saved[s] = value[s]
                 /\ call'[p].script = <<>> /\ UNCHANGED armed
<1>1. left' \in [Events -> Nat] BY Spent DEF enable, Events
<1>2. /\ call[p].pc = "idle" /\ UNCHANGED <<world, store, applied, user, drift>>
      /\ store' \in Payloads \cup {None, Corrupt}
  BY DEF enable, Ready, TypeInv
<1>3. CASE Go(p, Return("enable", FALSE)) /\ UNCHANGED armed
  BY <1>1, <1>2, <1>3, Ended DEF TypeInv
<1>4. CASE /\ HasEvidence /\ store.cfg = config /\ _payload_is_owned(store)
           /\ Go(p, Return("enable", TRUE)) /\ armed' = TRUE
  BY <1>1, <1>2, <1>4, Ended
<1> DEFINE f == [cfg |-> config, saved |-> [s \in present |-> value[s]]]
           c == [Return("enable", TRUE) EXCEPT !.pc = "save", !.todo = present, !.payload = f]
<1>5. CASE store = None /\ Go(p, c) /\ UNCHANGED armed
  <2>1. present \subseteq Services /\ value \in [Services -> [Settings -> States]]
    BY DEF TypeInv
  <2>2. f.saved \in [present -> [Settings -> States]] /\ f.cfg \in Configs
    BY <2>1 DEF TypeInv
  <2>3. f \in Payloads BY <2>1, <2>2 DEF Payloads
  <2>4. DOMAIN f.saved = present /\ \A s \in present : f.saved[s] = value[s] OBVIOUS
  <2> HIDE DEF f
  <2>5. /\ c.pc = "save" /\ c.op = "enable" /\ c.payload = f /\ c.todo = present
        /\ c.touched = {} /\ c.script = <<>>
    BY DEF Return
  <2>6. c \in Calls BY <2>1, <2>3, Nothing DEF Calls, Return
  <2> HIDE DEF c
  <2>7. CallTyped(c) BY <2>3, <2>4, <2>5 DEF CallTyped
  <2>8. TypeInv' /\ call'[p] = c BY <1>1, <1>2, <1>5, <2>6, <2>7, TypeCall DEF TypeInv
  <2> QED BY <1>2, <1>5, <2>4, <2>5, <2>8
<1> QED BY <1>3, <1>4, <1>5 DEF enable

LEMMA SaveEffect ==
    ASSUME TypeInv, NEW p, Procs = {p}, _save(p)
    PROVE  /\ TypeInv' /\ call[p].pc = "save" /\ UNCHANGED <<world, history>>
           /\ \/ /\ store' = call[p].payload /\ call'[p].pc = "run"
                 /\ call'[p].op = "enable" /\ call'[p].payload = call[p].payload
                 /\ call'[p].todo = DOMAIN call[p].payload.saved
                 /\ call'[p].script = <<>>
              \/ /\ call'[p].pc = "idle" /\ call'[p].ok = FALSE /\ UNCHANGED store
<1> DEFINE b == call[p]
           d == [b EXCEPT !.pc = "run"]
<1>1. b \in Calls /\ CallTyped(b) /\ b.pc = "save" BY CallIs DEF _save
<1>2. /\ b.payload \in Payloads /\ b.op = "enable" /\ b.touched = {} /\ b.script = <<>>
      /\ b.todo = DOMAIN b.payload.saved
  BY <1>1 DEF CallTyped
<1>3. left' \in [Events -> Nat] BY Spent DEF _save, Events, TypeInv
<1>4. UNCHANGED <<world, history>> /\ armed' \in BOOLEAN BY DEF _save, history, TypeInv
<1>5. CASE store' = b.payload /\ Go(p, d)
  <2>1. d \in Calls BY <1>1, <1>2 DEF Calls
  <2>2. /\ d.pc = "run" /\ d.op = b.op /\ d.payload = b.payload /\ d.todo = b.todo
        /\ d.touched = b.touched /\ d.script = b.script
    BY <1>1 DEF Calls
  <2> HIDE DEF d
  <2>3. CallTyped(d) BY <1>2, <2>2 DEF CallTyped
  <2>4. TypeInv' /\ call'[p] = d
    BY <1>2, <1>3, <1>4, <1>5, <2>1, <2>3, TypeCall DEF history
  <2> QED BY <1>1, <1>2, <1>4, <1>5, <2>2, <2>4
<1>6. CASE Go(p, Return("enable", FALSE)) /\ UNCHANGED store
  BY <1>1, <1>3, <1>4, <1>6, Ended DEF TypeInv, history
<1> QED BY <1>5, <1>6 DEF _save

LEMMA RefreshEffect ==
    ASSUME TypeInv, NEW p, Procs = {p}, refresh(p)
    PROVE  /\ TypeInv' /\ call[p].pc = "idle" /\ UNCHANGED <<world, store, history>>
           /\ \/ /\ call'[p].pc = "idle" /\ call'[p].op = "refresh" /\ call'[p].ok = FALSE
              \/ /\ call'[p].pc = "run" /\ call'[p].op = "pulse" /\ HasEvidence
                 /\ call'[p].payload = store /\ call'[p].script = <<>>
                 /\ _payload_is_owned(store)
<1> DEFINE c == [Return("refresh", TRUE) EXCEPT !.pc = "run", !.op = "pulse",
                    !.payload = store, !.todo = DOMAIN store.saved]
<1>1. left' \in [Events -> Nat] BY Spent DEF refresh, Events
<1>2. /\ call[p].pc = "idle" /\ UNCHANGED <<world, store, history>> /\ armed' \in BOOLEAN
      /\ store' \in Payloads \cup {None, Corrupt}
  BY DEF refresh, Ready, TypeInv, history
<1>3. CASE Go(p, Return("refresh", FALSE))
  BY <1>1, <1>2, <1>3, Ended DEF history
<1>4. CASE HasEvidence /\ _payload_is_owned(store) /\ Go(p, c)
  <2>1. store \in Payloads BY <1>4 DEF TypeInv, HasEvidence
  <2>2. DOMAIN store.saved \subseteq Services BY <2>1, PayloadIs
  <2>3. /\ c.pc = "run" /\ c.op = "pulse" /\ c.payload = store /\ c.todo = DOMAIN store.saved
        /\ c.touched = {} /\ c.script = <<>>
    BY DEF Return
  <2>4. c \in Calls BY <2>1, <2>2, Nothing DEF Calls, Return
  <2> HIDE DEF c
  <2>5. CallTyped(c) BY <2>1, <2>3 DEF CallTyped
  <2>6. TypeInv' /\ call'[p] = c BY <1>1, <1>2, <1>4, <2>4, <2>5, TypeCall DEF history
  <2> QED BY <1>2, <1>4, <2>3, <2>6
<1> QED BY <1>3, <1>4 DEF refresh

LEMMA DisableEffect ==
    ASSUME TypeInv, NEW p, Procs = {p}, disable(p)
    PROVE  /\ TypeInv' /\ call[p].pc = "idle"
           /\ UNCHANGED <<world, store, applied, user, drift>>
           /\ \/ /\ call'[p].pc = "idle" /\ call'[p].op = "disable" /\ UNCHANGED armed
                 /\ call'[p].ok = TRUE => store = None
              \/ /\ call'[p].pc = "run" /\ call'[p].op = "disable" /\ HasEvidence
                 /\ call'[p].payload = store /\ call'[p].script = <<>> /\ armed' = FALSE
<1> DEFINE c == [Return("disable", TRUE) EXCEPT !.pc = "run", !.payload = store,
                      !.todo = ToRestore(store)]
<1>1. left' \in [Events -> Nat] BY Spent DEF disable, Events, TypeInv
<1>2. /\ call[p].pc = "idle" /\ UNCHANGED <<world, store, applied, user, drift>>
      /\ store' \in Payloads \cup {None, Corrupt}
  BY DEF disable, Ready, TypeInv
<1>3. CASE store = None /\ Go(p, Return("disable", TRUE)) /\ UNCHANGED armed
  BY <1>1, <1>2, <1>3, Ended DEF TypeInv
<1>4. CASE Go(p, Return("disable", FALSE)) /\ UNCHANGED armed
  BY <1>1, <1>2, <1>4, Ended DEF TypeInv
<1>5. CASE HasEvidence /\ Go(p, c) /\ armed' = FALSE
  <2>1. store \in Payloads BY <1>5 DEF TypeInv, HasEvidence
  <2>2. DOMAIN store.saved \subseteq Services /\ ToRestore(store) \subseteq DOMAIN store.saved
    BY <2>1, PayloadIs DEF ToRestore
  <2>3. /\ c.pc = "run" /\ c.op = "disable" /\ c.payload = store /\ c.todo = ToRestore(store)
        /\ c.touched = {} /\ c.script = <<>>
    BY DEF Return
  <2>4. c \in Calls BY <2>1, <2>2, Nothing DEF Calls, Return
  <2> HIDE DEF c
  <2>5. CallTyped(c) BY <2>1, <2>2, <2>3 DEF CallTyped
  <2>6. TypeInv' /\ call'[p] = c BY <1>1, <1>2, <1>5, <2>4, <2>5, TypeCall
  <2> QED BY <1>2, <1>5, <2>3, <2>6
<1> QED BY <1>3, <1>4, <1>5 DEF disable

(* A call at its commands. *)
LEMMA Running ==
    ASSUME NEW c \in Calls, CallTyped(c), c.pc \in {"run", "clear"}
    PROVE  /\ c.payload \in Payloads /\ c.payload.cfg \in Configs
           /\ DOMAIN c.payload.saved \subseteq Services
           /\ c.todo \subseteq DOMAIN c.payload.saved /\ c.touched \subseteq DOMAIN c.payload.saved
           /\ c.op \in {"enable", "pulse", "rearm", "rollback", "disable"}
<1>1. c.payload \in Payloads BY DEF CallTyped
<1>2. c.todo \subseteq DOMAIN c.payload.saved /\ c.touched \subseteq DOMAIN c.payload.saved
      /\ c.op \in {"enable", "pulse", "rearm", "rollback", "disable"}
  BY DEF CallTyped, Restoring
<1> QED BY <1>1, <1>2, PayloadIs

LEMMA NextServiceEffect ==
    ASSUME TypeInv, NEW p, Procs = {p}, NEW s \in Services, _next_service(p, s)
    PROVE  /\ TypeInv' /\ call[p].pc = "run" /\ call[p].script = <<>> /\ s \in call[p].todo
           /\ UNCHANGED <<world, store, history>>
           /\ call'[p].pc = "run" /\ call'[p].op = call[p].op /\ call'[p].ok = call[p].ok
           /\ call'[p].payload = call[p].payload /\ call'[p].todo = call[p].todo \ {s}
           /\ call'[p].touched = call[p].touched \cup {s} /\ call'[p].at = s
           /\ call[p].op = "enable" => \A ch \in Settings \ {"bypass"} :
                Has(call'[p].script, Owning(ch, call[p].payload.cfg))
           /\ Restoring(call[p]) =>
                /\ \A ch \in Settings : HasChannel(call'[p].script, ch)
                /\ \A ch \in Web : call[p].payload.saved[s][ch].at # Empty =>
                     Has(call'[p].script, Cmd(ch, "set", call[p].payload.saved[s][ch].at))
<1> DEFINE b == call[p]
           S == CASE b.op = "enable" -> EnableCommands(b.payload.cfg)
                  [] b.op = "pulse" -> PointAt(Sentinel)
                  [] b.op = "rearm" -> PointAt(b.payload.cfg.upstream)
                  [] b.op \in {"rollback", "disable"} -> RestoreCommands(b.payload.saved[s])
           d == [b EXCEPT !.todo = @ \ {s}, !.touched = @ \cup {s}, !.at = s, !.script = S]
           A == Allowed(b.op, b.payload.saved[s], b.payload.cfg)
           N == Pending(b.op, b.payload.saved[s])
<1>1. b \in Calls /\ CallTyped(b) /\ b.pc = "run" /\ b.script = <<>> /\ s \in b.todo
  BY CallIs DEF _next_service
<1>2. /\ b.payload \in Payloads /\ b.payload.cfg \in Configs /\ s \in DOMAIN b.payload.saved
      /\ b.todo \subseteq DOMAIN b.payload.saved /\ b.touched \subseteq DOMAIN b.payload.saved
      /\ b.payload.saved[s] \in [Settings -> States] /\ b.payload.cfg.upstream \in Endpoints
      /\ b.op \in {"enable", "pulse", "rearm", "rollback", "disable"}
  BY <1>1, Running, PayloadIs, MacosAssumption
<1>3. /\ Fits(S, A, N)
      /\ b.op = "enable" => \A ch \in Settings \ {"bypass"} : Has(S, Owning(ch, b.payload.cfg))
      /\ Restoring(b) =>
           /\ \A ch \in Settings : HasChannel(S, ch)
           /\ \A ch \in Web : b.payload.saved[s][ch].at # Empty =>
                Has(S, Cmd(ch, "set", b.payload.saved[s][ch].at))
  <2>1. CASE b.op = "enable"
    <3>1. S = EnableCommands(b.payload.cfg) /\ N = {} /\ ~Restoring(b)
      BY <2>1 DEF Pending, Restoring
    <3> QED BY <1>2, <2>1, <3>1, EnableFits
  <2>2. CASE b.op = "pulse"
    <3>1. S = PointAt(Sentinel) /\ N = {} /\ ~Restoring(b) /\ A = PointCommands(Sentinel)
      BY <2>2 DEF Pending, Restoring, Allowed
    <3> QED BY <1>2, <2>2, <3>1, PointAtFits, MacosAssumption
  <2>3. CASE b.op = "rearm"
    <3>1. /\ S = PointAt(b.payload.cfg.upstream) /\ N = {} /\ ~Restoring(b)
          /\ A = PointCommands(b.payload.cfg.upstream)
      BY <2>3 DEF Pending, Restoring, Allowed
    <3> QED BY <1>2, <2>3, <3>1, PointAtFits
  <2>4. CASE b.op \in {"rollback", "disable"}
    <3>1. /\ S = RestoreCommands(b.payload.saved[s]) /\ N = NotLast(b.payload.saved[s])
          /\ A = BackCommands(b.payload.saved[s]) /\ b.op # "enable"
      BY <2>4 DEF Pending, Allowed
    <3> QED BY <1>2, <3>1, RestoreFits
  <2> QED BY <1>2, <2>1, <2>2, <2>3, <2>4
<1>4. Go(p, d) /\ UNCHANGED <<world, store, left, history>>
  BY DEF _next_service
<1> HIDE DEF S
<1>5. d \in Calls
  BY <1>1, <1>3 DEF Calls, Fits
<1>6. /\ d.pc = "run" /\ d.op = b.op /\ d.ok = b.ok /\ d.payload = b.payload
      /\ d.todo = b.todo \ {s} /\ d.touched = b.touched \cup {s} /\ d.at = s /\ d.script = S
  BY <1>1 DEF Calls
<1> HIDE DEF d, A, N
<1>7. CallTyped(d)
  BY <1>2, <1>3, <1>6 DEF CallTyped, A, N
<1>8. TypeInv' /\ call'[p] = d
  BY <1>4, <1>5, <1>7, TypeCall DEF TypeInv, history
<1> QED BY <1>1, <1>3, <1>4, <1>6, <1>8

(* What a failing command makes of a call. *)
Fell(b, c) ==
    /\ c.pc = "run" /\ c.payload = b.payload /\ c.touched = b.touched /\ c.script = <<>>
    /\ \/ b.op = "enable" /\ c.op = "rollback" /\ c.todo = b.touched
       \/ b.op = "pulse" /\ c.op = "rearm"
       \/ b.op \in {"rearm", "rollback", "disable"} /\ c.op = b.op /\ c.ok = FALSE

LEMMA FailedFell ==
    ASSUME NEW b \in Calls, CallTyped(b), b.pc = "run"
    PROVE  Failed(b) \in Calls /\ CallTyped(Failed(b)) /\ Fell(b, Failed(b))
<1> DEFINE d == Failed(b)
<1>1. /\ b.payload \in Payloads /\ b.todo \subseteq DOMAIN b.payload.saved
      /\ b.touched \subseteq DOMAIN b.payload.saved /\ DOMAIN b.payload.saved \subseteq Services
      /\ b.op \in {"enable", "pulse", "rearm", "rollback", "disable"}
  BY Running
<1>2. d \in Calls
  BY <1>1, CallFields, Nothing DEF Failed, Calls
<1>3. /\ d.pc = "run" /\ d.payload = b.payload /\ d.touched = b.touched /\ d.script = <<>>
      /\ \/ b.op = "enable" /\ d.op = "rollback" /\ d.todo = b.touched
         \/ b.op = "pulse" /\ d.op = "rearm" /\ d.todo = DOMAIN b.payload.saved
         \/ /\ b.op \in {"rearm", "rollback", "disable"} /\ d.op = b.op /\ d.ok = FALSE
            /\ d.todo = b.todo
  BY <1>1 DEF Failed, Calls
<1> HIDE DEF d
<1>4. CallTyped(d) BY <1>1, <1>3 DEF CallTyped
<1>5. Fell(b, d) BY <1>3 DEF Fell
<1> QED BY <1>2, <1>4, <1>5 DEF d

(* The setting and the command a call is at. *)
LEMMA AtCommand ==
    ASSUME TypeInv, NEW p, Procs = {p}, call[p].pc = "run", call[p].script # <<>>
    PROVE  LET b == call[p]
               cmd == Head(b.script)
               saved == b.payload.saved[b.at]
           IN  /\ b.at \in Services /\ b.at \in DOMAIN b.payload.saved
               /\ b.at \in b.touched /\ b.at \notin b.todo
               /\ saved \in [Settings -> States] /\ b.payload.cfg \in Configs
               /\ cmd \in Cmds /\ cmd.ch \in Settings
               /\ cmd \in Allowed(b.op, saved, b.payload.cfg)
               /\ cmd \in Pending(b.op, saved) => HasChannel(Tail(b.script), cmd.ch)
               /\ \A e : ~Has(Tail(b.script), Cmd(cmd.ch, "set", e))
               /\ \A x : Has(b.script, x) => x = cmd \/ Has(Tail(b.script), x)
               /\ \A ch : HasChannel(b.script, ch) => ch = cmd.ch \/ HasChannel(Tail(b.script), ch)
               /\ value[b.at][cmd.ch] \in States
               /\ Effect(value[b.at][cmd.ch], cmd) \in States
               /\ Tail(b.script) \in Seq(Cmds)
               /\ Fits(Tail(b.script), Allowed(b.op, saved, b.payload.cfg), Pending(b.op, saved))
<1> DEFINE b == call[p]
           saved == b.payload.saved[b.at]
           A == Allowed(b.op, saved, b.payload.cfg)
           N == Pending(b.op, saved)
           cmd == Head(b.script)
<1>1. b \in Calls /\ CallTyped(b) BY CallIs
<1>2. /\ b.at \in DOMAIN b.payload.saved /\ b.at \in b.touched /\ b.at \notin b.todo
      /\ Fits(b.script, A, N)
  BY <1>1 DEF CallTyped
<1>3. /\ b.payload.cfg \in Configs /\ b.at \in Services /\ saved \in [Settings -> States]
  BY <1>1, <1>2, Running, PayloadIs
<1>4. b.script \in Seq(Cmds) BY <1>1, CallFields
<1> HIDE DEF A, N
<1>5. /\ cmd \in Cmds /\ cmd \in A /\ Tail(b.script) \in Seq(Cmds) /\ Fits(Tail(b.script), A, N)
      /\ \A i \in 1..Len(Tail(b.script)) :
           Tail(b.script)[i].ch = cmd.ch => Tail(b.script)[i].verb # "set"
      /\ cmd \in N => HasChannel(Tail(b.script), cmd.ch)
  BY <1>2, FitsTail
<1>6. cmd.ch \in Settings BY <1>5 DEF Cmds
<1>7. \A e : ~Has(Tail(b.script), Cmd(cmd.ch, "set", e))
  BY <1>5 DEF Has, Cmd
<1>8. value[b.at][cmd.ch] \in States BY <1>3, <1>6 DEF TypeInv
<1>9. Effect(value[b.at][cmd.ch], cmd) \in States BY <1>5, <1>8, EffectTyped
<1>10. /\ \A x : Has(b.script, x) => x = cmd \/ Has(Tail(b.script), x)
       /\ \A ch : HasChannel(b.script, ch) => ch = cmd.ch \/ HasChannel(Tail(b.script), ch)
  BY <1>4, HasTail
<1> QED BY <1>2, <1>3, <1>5, <1>6, <1>7, <1>8, <1>9, <1>10 DEF A, N

(* One command done on one service. *)
Done(p) ==
    LET b == call[p]
        cmd == Head(b.script)
        cell == <<b.at, cmd.ch>>
        new == Effect(value[b.at][cmd.ch], cmd)
    IN  /\ value' = [value EXCEPT ![b.at][cmd.ch] = new]
        /\ applied' = IF Restored(cmd.ch, new, b.payload.saved[b.at][cmd.ch])
                        THEN applied \ {cell} ELSE applied \cup {cell}
        /\ call'[p].pc = "run" /\ call'[p].op = b.op /\ call'[p].ok = b.ok
        /\ call'[p].payload = b.payload /\ call'[p].todo = b.todo
        /\ call'[p].touched = b.touched /\ call'[p].at = b.at
        /\ call'[p].script = Tail(b.script)

LEMMA CommandEffect ==
    ASSUME TypeInv, NEW p, Procs = {p}, _command(p)
    PROVE  /\ TypeInv' /\ call[p].pc = "run" /\ call[p].script # <<>>
           /\ UNCHANGED <<present, config, store, user, drift, armed>>
           /\ \/ Done(p)
              \/ Fell(call[p], call'[p]) /\ UNCHANGED <<value, applied>>
<1> DEFINE b == call[p]
           d == [b EXCEPT !.script = Tail(@)]
           cmd == Head(b.script)
           new == Effect(value[b.at][cmd.ch], cmd)
           cell == <<b.at, cmd.ch>>
<1>1. b \in Calls /\ CallTyped(b) /\ b.pc = "run" /\ b.script # <<>>
      /\ UNCHANGED <<present, config, store, user, drift, armed>>
  BY CallIs DEF _command
<1>2. /\ b.at \in Services /\ cmd.ch \in Settings /\ new \in States
      /\ Tail(b.script) \in Seq(Cmds)
      /\ Fits(Tail(b.script), Allowed(b.op, b.payload.saved[b.at], b.payload.cfg),
              Pending(b.op, b.payload.saved[b.at]))
  BY <1>1, AtCommand
<1> HIDE DEF new
<1>3. CASE /\ value' = [value EXCEPT ![b.at][cmd.ch] = new]
           /\ applied' = IF Restored(cmd.ch, new, b.payload.saved[b.at][cmd.ch])
                              THEN applied \ {cell} ELSE applied \cup {cell}
           /\ Go(p, d) /\ UNCHANGED left
  <2>1. value' \in [Services -> [Settings -> States]] BY <1>2, <1>3, Written
  <2>2. applied' \subseteq Cells
    <3>1. cell \in Cells /\ applied \subseteq Cells BY <1>2 DEF TypeInv, Cells
    <3> HIDE DEF cell
    <3> QED BY <1>3, <3>1
  <2>3. d \in Calls BY <1>1, <1>2 DEF Calls
  <2>4. /\ d.pc = b.pc /\ d.op = b.op /\ d.ok = b.ok /\ d.payload = b.payload
        /\ d.todo = b.todo /\ d.touched = b.touched /\ d.at = b.at /\ d.script = Tail(b.script)
    BY <1>1 DEF Calls
  <2> HIDE DEF d
  <2>5. CallTyped(d) BY <1>1, <1>2, <2>4 DEF CallTyped
  <2>6. call'[p] = d /\ call' \in [Procs -> Calls] /\ \A q \in Procs : CallTyped(call'[q])
    BY <1>3, <2>3, <2>5, Went
  <2>7. TypeInv' BY <1>1, <1>3, <2>1, <2>2, <2>6 DEF TypeInv
  <2>8. Done(p) BY <1>1, <1>3, <2>4, <2>6 DEF Done, new
  <2> QED BY <1>1, <2>7, <2>8
<1>4. CASE /\ (IF b.at \in present THEN Spend("command") ELSE UNCHANGED left)
           /\ Go(p, Failed(b)) /\ UNCHANGED <<value, applied>>
  <2>1. left' \in [Events -> Nat] BY <1>4, Spent DEF Events, TypeInv
  <2>2. TypeInv' /\ call'[p] = Failed(b)
    BY <1>1, <1>4, <2>1, FailedFell, TypeCall DEF TypeInv, world
  <2> QED BY <1>1, <1>4, <2>2, FailedFell
<1> QED BY <1>3, <1>4 DEF _command, new

LEMMA ServicesDoneEffect ==
    ASSUME TypeInv, NEW p, Procs = {p}, _services_done(p)
    PROVE  LET b == call[p]
           IN  /\ TypeInv' /\ b.pc = "run" /\ b.script = <<>> /\ b.todo = {}
               /\ UNCHANGED <<world, store, applied, user, drift>>
               /\ armed' = (armed \/ b.op = "enable")
               /\ \/ /\ b.op = "enable" /\ call'[p].pc = "idle" /\ call'[p].op = "enable"
                  \/ /\ b.op = "pulse" /\ call'[p].pc = "run" /\ call'[p].op = "rearm"
                     /\ call'[p].payload = b.payload /\ call'[p].script = <<>>
                  \/ /\ b.op = "rearm" /\ call'[p].pc = "idle" /\ call'[p].op = "refresh"
                     /\ call'[p].ok = TRUE => _payload_is_owned(b.payload)
                  \/ /\ b.op = "rollback" /\ b.ok = TRUE /\ call'[p].pc = "clear"
                     /\ call'[p].op = b.op /\ call'[p].payload = b.payload
                     /\ call'[p].script = <<>>
                  \/ /\ b.op = "disable" /\ call'[p].pc = "clear"
                     /\ \A s \in DOMAIN b.payload.saved : ServiceRestored(s, b.payload)
                     /\ call'[p].op = b.op /\ call'[p].payload = b.payload
                     /\ call'[p].script = <<>>
                  \/ /\ b.op \in {"rollback", "disable"} /\ call'[p].pc = "idle"
                     /\ call'[p].ok = FALSE
<1> DEFINE b == call[p]
           restored == \A s \in DOMAIN b.payload.saved : ServiceRestored(s, b.payload)
           d == [b EXCEPT !.op = "rearm", !.todo = DOMAIN b.payload.saved]
           e == [b EXCEPT !.pc = "clear"]
<1>1. b \in Calls /\ CallTyped(b) /\ b.pc = "run" /\ b.script = <<>> /\ b.todo = {}
  BY CallIs DEF _services_done
<1>2. /\ b.payload \in Payloads /\ b.touched \subseteq DOMAIN b.payload.saved
      /\ DOMAIN b.payload.saved \subseteq Services
      /\ b.op \in {"enable", "pulse", "rearm", "rollback", "disable"} /\ b.ok \in BOOLEAN
  BY <1>1, Running, CallFields
<1>3. /\ UNCHANGED <<world, store, left, applied, user, drift>>
      /\ armed' = (armed \/ b.op = "enable") /\ armed' \in BOOLEAN
      /\ left' \in [Events -> Nat] /\ store' \in Payloads \cup {None, Corrupt}
  BY DEF _services_done, TypeInv
<1>4. CASE b.op = "enable"
  <2>1. Go(p, Return("enable", TRUE)) BY <1>4 DEF _services_done
  <2> QED BY <1>1, <1>3, <1>4, <2>1, Ended
<1>5. CASE b.op = "pulse"
  <2>1. Go(p, d) BY <1>5 DEF _services_done
  <2>2. d \in Calls BY <1>1, <1>2 DEF Calls
  <2>3. /\ d.pc = "run" /\ d.op = "rearm" /\ d.payload = b.payload
        /\ d.todo = DOMAIN b.payload.saved /\ d.touched = b.touched /\ d.script = <<>>
    BY <1>1 DEF Calls
  <2> HIDE DEF d
  <2>4. CallTyped(d) BY <1>2, <2>3 DEF CallTyped
  <2>5. TypeInv' /\ call'[p] = d BY <1>3, <2>1, <2>2, <2>4, TypeCall
  <2> QED BY <1>1, <1>3, <1>5, <2>3, <2>5
<1>6. CASE b.op = "rearm"
  <2> DEFINE ok == b.ok /\ _payload_is_owned(b.payload)
  <2>1. Go(p, Return("refresh", ok)) BY <1>6 DEF _services_done
  <2>2. ok \in BOOLEAN /\ (ok = TRUE => _payload_is_owned(b.payload)) OBVIOUS
  <2> HIDE DEF ok
  <2>3. /\ TypeInv' /\ call'[p].pc = "idle" /\ call'[p].op = "refresh" /\ call'[p].ok = ok
    BY <1>3, <2>1, <2>2, Ended
  <2> QED BY <1>1, <1>3, <1>6, <2>2, <2>3
<1>7. CASE b.op \in {"rollback", "disable"}
  <2>1. \/ ((b.op = "rollback" /\ b.ok = TRUE) \/ (b.op = "disable" /\ restored)) /\ Go(p, e)
        \/ b.op = "rollback" /\ Go(p, Return("enable", FALSE))
        \/ b.op = "disable" /\ Go(p, Return("disable", FALSE))
    BY <1>2, <1>7 DEF _services_done
  <2>2. CASE ((b.op = "rollback" /\ b.ok = TRUE) \/ (b.op = "disable" /\ restored)) /\ Go(p, e)
    <3>1. e \in Calls BY <1>1 DEF Calls
    <3>2. /\ e.pc = "clear" /\ e.op = b.op /\ e.payload = b.payload
          /\ e.todo = b.todo /\ e.touched = b.touched /\ e.script = <<>>
      BY <1>1 DEF Calls
    <3> HIDE DEF e
    <3>3. CallTyped(e) BY <1>1, <1>2, <1>7, <3>2 DEF CallTyped, Restoring
    <3>4. TypeInv' /\ call'[p] = e BY <1>3, <2>2, <3>1, <3>3, TypeCall
    <3> QED BY <1>1, <1>3, <2>2, <3>2, <3>4
  <2>3. CASE Go(p, Return("enable", FALSE)) \/ Go(p, Return("disable", FALSE))
    <3>1. TypeInv' /\ call'[p].pc = "idle" /\ call'[p].ok = FALSE
      BY <1>3, <2>3, Ended
    <3> QED BY <1>1, <1>3, <1>7, <3>1
  <2> QED BY <2>1, <2>2, <2>3
<1> QED BY <1>2, <1>4, <1>5, <1>6, <1>7

LEMMA ClearEffect ==
    ASSUME TypeInv, NEW p, Procs = {p}, _clear(p)
    PROVE  /\ TypeInv' /\ call[p].pc = "clear" /\ UNCHANGED <<world, history>>
           /\ call'[p].pc = "idle" /\ call'[p].op \in {"enable", "disable"}
           /\ \/ store' = None /\ call'[p].ok = (call'[p].op = "disable")
              \/ UNCHANGED store /\ call'[p].ok = FALSE
<1> DEFINE op == IF call[p].op = "disable" THEN "disable" ELSE "enable"
<1>1. call[p].pc = "clear" /\ UNCHANGED <<world, history>> /\ armed' \in BOOLEAN
  BY DEF _clear, history, TypeInv
<1>2. left' \in [Events -> Nat] BY Spent DEF _clear, Events, TypeInv
<1>3. \/ store' = None /\ Go(p, Return(op, op = "disable"))
      \/ UNCHANGED store /\ Go(p, Return(op, FALSE))
  BY DEF _clear
<1>4. op \in {"enable", "disable"} OBVIOUS
<1> HIDE DEF op
<1>5. CASE store' = None /\ Go(p, Return(op, op = "disable"))
  <2>1. (op = "disable") \in BOOLEAN OBVIOUS
  <2> QED BY <1>1, <1>2, <1>4, <1>5, <2>1, Ended DEF history
<1>6. CASE UNCHANGED store /\ Go(p, Return(op, FALSE))
  BY <1>1, <1>2, <1>4, <1>6, Ended DEF history, TypeInv
<1> QED BY <1>3, <1>5, <1>6

LEMMA SyncEffect ==
    ASSUME TypeInv, NEW p, Procs = {p}, sync_no_proxy(p)
    PROVE  /\ TypeInv' /\ call[p].pc = "idle" /\ UNCHANGED <<world, history>>
           /\ call'[p].pc = "idle" /\ call'[p].op = "sync"
           /\ store \in Payloads /\ store' \in Payloads /\ store'.saved = store.saved
           /\ store'.cfg.upstream = store.cfg.upstream
<1>1. /\ call[p].pc = "idle" /\ UNCHANGED <<world, history>> /\ armed' \in BOOLEAN
      /\ store \in Payloads /\ store.cfg.upstream = config.upstream /\ config \in Configs
  BY DEF sync_no_proxy, history, TypeInv, Ready, HasEvidence
<1>2. left' \in [Events -> Nat] BY Spent DEF sync_no_proxy, Events, TypeInv
<1>3. CASE store' = [store EXCEPT !.cfg = config] /\ Go(p, Return("sync", TRUE))
  <2>1. store' \in Payloads /\ store'.saved = store.saved /\ store'.cfg = config
    BY <1>1, <1>3 DEF Payloads
  <2> QED BY <1>1, <1>2, <1>3, <2>1, Ended DEF history
<1>4. CASE UNCHANGED store /\ Go(p, Return("sync", FALSE))
  BY <1>1, <1>2, <1>4, Ended DEF history
<1> QED BY <1>3, <1>4 DEF sync_no_proxy

LEMMA CrashEffect ==
    ASSUME TypeInv, NEW p, Procs = {p}, Crash(p)
    PROVE  /\ TypeInv' /\ call'[p].pc = "idle" /\ call'[p].op = "none"
           /\ UNCHANGED <<world, store, history>>
<1>1. left' \in [Events -> Nat] BY Spent DEF Crash, Events
<1>2. UNCHANGED <<world, store, history>> /\ Go(p, Return("none", FALSE)) BY DEF Crash, Idle
<1> QED BY <1>1, <1>2, Ended DEF history, TypeInv

(* Another program or macOS writes a setting. *)
Rewritten(s, ch) ==
    /\ UNCHANGED <<present, config, store, call, armed>>
    /\ value'[s][ch] \in States /\ user'[s][ch] = value'[s][ch]
    /\ \A t \in Services, k \in Settings :
         <<t, k>> # <<s, ch>> => value'[t][k] = value[t][k] /\ user'[t][k] = user[t][k]
    /\ applied' = applied \ {<<s, ch>>}
    /\ \/ drift' = drift \cup {<<s, ch>>}
       \/ store = None /\ (\A p \in Procs : call[p].pc = "idle") /\ drift' = drift \ {<<s, ch>>}

LEMMA OutsideTyped ==
    ASSUME TypeInv, NEW s \in Services, NEW ch \in Settings, NEW v \in States, Outside(s, ch, v),
           left' \in [Events -> Nat]
    PROVE  TypeInv' /\ Rewritten(s, ch) /\ value'[s][ch] = v
<1>1. /\ value' \in [Services -> [Settings -> States]] /\ value'[s][ch] = v
      /\ \A t \in Services, k \in Settings :
           <<t, k>> # <<s, ch>> => value'[t][k] = value[t][k]
  BY Written DEF Outside
<1>2. /\ user' \in [Services -> [Settings -> States]] /\ user'[s][ch] = v
      /\ \A t \in Services, k \in Settings :
           <<t, k>> # <<s, ch>> => user'[t][k] = user[t][k]
  BY DEF TypeInv, Outside
<1>3. <<s, ch>> \in Cells BY DEF Cells
<1>4. applied' \subseteq Cells /\ drift' \subseteq Cells
  BY <1>3 DEF TypeInv, Outside
<1>5. UNCHANGED <<present, config, store, call, armed>> /\ applied' = applied \ {<<s, ch>>}
  BY DEF Outside
<1>6. \/ drift' = drift \cup {<<s, ch>>}
      \/ store = None /\ (\A p \in Procs : call[p].pc = "idle") /\ drift' = drift \ {<<s, ch>>}
  BY DEF Outside, Ready
<1>7. TypeInv' BY <1>1, <1>2, <1>4, <1>5 DEF TypeInv
<1> QED BY <1>1, <1>2, <1>5, <1>6, <1>7 DEF Rewritten

World ==
    \/ \E s \in Services :
         \/ ServiceChange(s)
         \/ \E ch \in Settings :
              SwitchOff(s, ch) \/ \E v \in ForeignValues[ch] : ForeignWrite(s, ch, v)
    \/ \E c \in Configs : ChangeSettings(c)
    \/ Damage

LEMMA WorldEffect ==
    ASSUME TypeInv, World
    PROVE  /\ TypeInv' /\ UNCHANGED call
           /\ \/ \E s \in Services, ch \in Settings :
                   /\ Rewritten(s, ch)
                   /\ value'[s][ch] \in ForeignValues[ch] \/ value'[s][ch].on = FALSE
              \/ UNCHANGED <<value, store, history>>
              \/ /\ UNCHANGED <<value, history>> /\ store' = Corrupt /\ HasEvidence
                 /\ \A p \in Procs : call[p].pc = "idle"
<1>1. ASSUME NEW s \in Services, ServiceChange(s)
      PROVE  TypeInv' /\ UNCHANGED <<call, value, store, history>>
  <2>1. left' \in [Events -> Nat] BY <1>1, Spent DEF ServiceChange, Events
  <2> QED BY <1>1, <2>1 DEF ServiceChange, TypeInv, history
<1>2. ASSUME NEW s \in Services, NEW ch \in Settings, SwitchOff(s, ch)
      PROVE  TypeInv' /\ UNCHANGED call /\ Rewritten(s, ch) /\ value'[s][ch].on = FALSE
  <2> DEFINE v == [value[s][ch] EXCEPT !.on = FALSE]
  <2>1. left' \in [Events -> Nat] BY <1>2, Spent DEF SwitchOff, Events
  <2>2. value[s][ch] \in States BY DEF TypeInv
  <2>4. v \in States /\ v.on = FALSE BY <2>2 DEF States
  <2>3. Outside(s, ch, v) BY <1>2 DEF SwitchOff
  <2> HIDE DEF v
  <2> QED BY <2>1, <2>3, <2>4, OutsideTyped DEF Outside
<1>3. ASSUME NEW s \in Services, NEW ch \in Settings, NEW v \in ForeignValues[ch],
             ForeignWrite(s, ch, v)
      PROVE  TypeInv' /\ UNCHANGED call /\ Rewritten(s, ch) /\ value'[s][ch] \in ForeignValues[ch]
  <2>1. left' \in [Events -> Nat] BY <1>3, Spent DEF ForeignWrite, Events
  <2>2. v \in States BY MacosAssumption
  <2>3. Outside(s, ch, v) BY <1>3 DEF ForeignWrite
  <2> QED BY <2>1, <2>2, <2>3, OutsideTyped DEF Outside
<1>4. ASSUME NEW c \in Configs, ChangeSettings(c)
      PROVE  TypeInv' /\ UNCHANGED <<call, value, store, history>>
  <2>1. left' \in [Events -> Nat] BY <1>4, Spent DEF ChangeSettings, Events
  <2> QED BY <1>4, <2>1 DEF ChangeSettings, TypeInv, history
<1>5. CASE Damage
  <2>1. left' \in [Events -> Nat] BY <1>5, Spent DEF Damage, Events
  <2>2. TypeInv' BY <1>5, <2>1 DEF Damage, TypeInv, world, history
  <2> QED BY <1>5, <2>2 DEF Damage, Ready, world
<1> QED BY <1>1, <1>2, <1>3, <1>4, <1>5 DEF World

LEMMA TypeStep ==
    ASSUME TypeInv, [Next]_vars, NEW p, Procs = {p}
    PROVE  TypeInv'
<1>1. CASE UNCHANGED vars BY <1>1 DEF TypeInv, vars, world, history
<1> QED BY <1>1, EnableEffect, SaveEffect, RefreshEffect, DisableEffect, NextServiceEffect,
           CommandEffect, ServicesDoneEffect, ClearEffect, SyncEffect, CrashEffect, WorldEffect
        DEF Next, Step, World

-----------------------------------------------------------------------------
(* The route holds: RouteInv is inductive.                                       *)

LEMMA OwnedIsRouted ==
    ASSUME NEW ch \in Web, NEW v, NEW saved, NEW cfg, Owned(ch, v, saved, cfg)
    PROVE  v \in Routed(cfg)
<1>1. v = [on |-> TRUE, at |-> cfg.upstream] BY DEF Owned, Web
<1> QED BY <1>1 DEF Routed

(* What is fully owned is routed. *)
LEMMA PayloadRouted ==
    ASSUME NEW f, _payload_is_owned(f)
    PROVE  /\ \A s \in DOMAIN f.saved, ch \in Settings :
                Owned(ch, value[s][ch], f.saved[s][ch], f.cfg)
           /\ \A s \in DOMAIN f.saved, ch \in Web : value[s][ch] \in Routed(f.cfg)
<1>1. \A s \in DOMAIN f.saved, ch \in Settings : Owned(ch, value[s][ch], f.saved[s][ch], f.cfg)
  BY DEF _payload_is_owned, ServiceOwned
<1>2. Web \subseteq Settings BY DEF Web, Settings, Manual
<1> QED BY <1>1, <1>2, OwnedIsRouted

LEMMA NeverDirectIs ==
    NeverDirect <=> (armed /\ HasEvidence =>
      \A s \in DOMAIN store.saved, ch \in Web :
        Quiet(store, s, ch) => value[s][ch] \in Routed(store.cfg))
BY DEF NeverDirect, Quiet, Routed, Web

(* A command that points a proxy at an endpoint leaves a routed one routed. *)
LEMMA PointOne ==
    ASSUME NEW cfg \in Configs, NEW e \in {cfg.upstream, Sentinel}, NEW v \in Routed(cfg),
           NEW cmd \in PointCommands(e)
    PROVE  Effect(v, cmd) \in Routed(cfg) /\ cmd.ch \in Web
<1>1. cmd.ch \in Web /\ cmd.verb \in {"set", "on"} /\ (cmd.verb = "set" => cmd.at = e)
  BY DEF PointCommands, Cmd, On, Web
<1>2. CASE cmd.verb = "set"
  <2>1. Effect(v, cmd) = [on |-> TRUE, at |-> e] BY <1>1, <1>2 DEF Effect
  <2> QED BY <1>1, <2>1 DEF Routed
<1>3. CASE cmd.verb = "on"
  <2>1. Effect(v, cmd) = [v EXCEPT !.on = TRUE] BY <1>3 DEF Effect
  <2> QED BY <1>1, <2>1 DEF Routed
<1> QED BY <1>1, <1>2, <1>3

(* A command of enable on a setting: an owned one stays owned, and the one that  *)
(* takes it over makes it owned.                                                 *)
LEMMA EnableOne ==
    ASSUME NEW cfg \in Configs, NEW saved \in [Settings -> States], NEW v \in States,
           NEW cmd \in Allowed("enable", saved, cfg),
           Owned(cmd.ch, v, saved[cmd.ch], cfg) \/ cmd = Owning(cmd.ch, cfg)
    PROVE  cmd.ch \in Settings \ {"bypass"}
           /\ Owned(cmd.ch, Effect(v, cmd), saved[cmd.ch], cfg)
<1>1. cmd \in {Off("auto"), Off("socks")} \cup PointCommands(cfg.upstream)
  BY DEF Allowed
<1>2. CASE cmd \in {Off("auto"), Off("socks")}
  BY <1>2 DEF Off, Cmd, Owned, Effect, States, Settings, Manual
<1>3. CASE cmd \in PointCommands(cfg.upstream)
  <2>1. cmd.ch \in Web /\ cmd.verb \in {"set", "on"}
        /\ (cmd.verb = "set" => cmd.at = cfg.upstream)
    BY <1>3 DEF PointCommands, Cmd, On, Web
  <2>2. Owning(cmd.ch, cfg).verb = "set" BY <2>1 DEF Owning, Cmd
  <2>3. CASE cmd.verb = "set"
    BY <2>1, <2>3 DEF Effect, Owned, Web, Settings, Manual
  <2>4. CASE cmd.verb = "on"
    <3>1. Owned(cmd.ch, v, saved[cmd.ch], cfg) BY <2>2, <2>4
    <3>2. v = [on |-> TRUE, at |-> cfg.upstream] BY <2>1, <3>1 DEF Owned, Web
    <3>3. Effect(v, cmd) = v BY <2>4, <3>2 DEF Effect
    <3> QED BY <2>1, <3>1, <3>3 DEF Web, Settings, Manual
  <2> QED BY <2>1, <2>3, <2>4
<1> QED BY <1>1, <1>2, <1>3

LEMMA RouteInit ==
    ASSUME Init, NEW p, Procs = {p}
    PROVE  RouteInv
<1>1. TypeInv BY TypeInit
<1>2. call[p].pc = "idle" /\ ~armed BY DEF Init, Idle, Return
<1>3. CallRouted(call[p]) BY <1>2 DEF CallRouted
<1> QED BY <1>1, <1>2, <1>3 DEF RouteInv, NeverDirect

(* An idle call claims nothing. *)
LEMMA IdleRouted ==
    ASSUME NEW p, Procs = {p}, TypeInv', call'[p].pc = "idle", store' = None => ~armed',
           NeverDirect'
    PROVE  RouteInv'
BY DEF RouteInv, CallRouted

LEMMA StillDirect ==
    ASSUME NeverDirect, UNCHANGED <<value, store, drift>>, armed' => armed
    PROVE  NeverDirect'
BY DEF NeverDirect, HasEvidence

LEMMA EnableRouted ==
    ASSUME RouteInv, NEW p, Procs = {p}, enable(p)
    PROVE  RouteInv'
<1>1. TypeInv /\ CallRouted(call[p]) /\ NeverDirect /\ (store = None => ~armed)
  BY DEF RouteInv
<1>2. TypeInv' /\ UNCHANGED <<value, store, drift>> BY <1>1, EnableEffect DEF world
<1>3. CASE call'[p].pc = "idle" /\ UNCHANGED armed
  BY <1>1, <1>2, <1>3, IdleRouted, StillDirect
<1>4. CASE call'[p].pc = "idle" /\ HasEvidence /\ _payload_is_owned(store)
  <2>1. \A s \in DOMAIN store.saved, ch \in Web : value[s][ch] \in Routed(store.cfg)
    BY <1>4, PayloadRouted
  <2>2. NeverDirect' BY <1>2, <2>1 DEF NeverDirect, Web, Routed
  <2> QED BY <1>2, <1>4, <2>2, IdleRouted DEF HasEvidence
<1>5. CASE /\ call'[p].pc = "save" /\ call'[p].op = "enable" /\ store = None
           /\ DOMAIN call'[p].payload.saved = present /\ UNCHANGED armed
           /\ \A s \in present : call'[p].payload.saved[s] = value[s]
  <2>1. CallRouted(call[p])' BY <1>1, <1>2, <1>5 DEF CallRouted, Quiet
  <2>2. NeverDirect' BY <1>1, <1>2, <1>5, StillDirect
  <2> QED BY <1>1, <1>2, <1>5, <2>1, <2>2 DEF RouteInv
<1> QED BY <1>1, <1>3, <1>4, <1>5, EnableEffect

LEMMA SaveRouted ==
    ASSUME RouteInv, NEW p, Procs = {p}, _save(p)
    PROVE  RouteInv'
<1>1. TypeInv /\ CallRouted(call[p]) /\ NeverDirect /\ (store = None => ~armed)
  BY DEF RouteInv
<1>2. TypeInv' /\ UNCHANGED <<value, drift, armed>> /\ call[p].pc = "save"
  BY <1>1, SaveEffect DEF world, history
<1>3. CASE call'[p].pc = "idle" /\ UNCHANGED store
  BY <1>1, <1>2, <1>3, IdleRouted, StillDirect
<1>4. CASE /\ store' = call[p].payload /\ call'[p].pc = "run" /\ call'[p].op = "enable"
           /\ call'[p].payload = call[p].payload
           /\ call'[p].todo = DOMAIN call[p].payload.saved
  <2>1. call[p] \in Calls /\ CallTyped(call[p]) BY <1>1, CallIs
  <2>2. call[p].op = "enable" /\ ~armed
    BY <1>2, <2>1, <1>1 DEF CallTyped, CallRouted
  <2>3. \A s \in Services, ch \in Settings : Quiet(call[p].payload, s, ch) =>
          /\ call[p].payload.saved[s][ch] = value[s][ch] /\ s \in call'[p].todo
    BY <1>1, <1>2, <1>4 DEF CallRouted, Quiet
  <2>4. ASSUME NEW s \in Services, NEW ch \in Settings, Quiet(call[p].payload, s, ch)'
        PROVE  \/ Owned(ch, value'[s][ch], call'[p].payload.saved[s][ch], call'[p].payload.cfg)
               \/ ch # "bypass" /\ s \in call'[p].todo
    <3>1. Quiet(call[p].payload, s, ch) BY <1>2, <1>4, <2>4 DEF Quiet
    <3> QED BY <1>2, <1>4, <2>3, <3>1 DEF Owned, Settings, Manual
  <2>5. CallRouted(call[p])' BY <1>2, <1>4, <2>2, <2>4 DEF CallRouted
  <2> QED BY <1>2, <2>2, <2>5 DEF RouteInv, NeverDirect
<1> QED BY <1>1, <1>3, <1>4, SaveEffect

LEMMA RefreshRouted ==
    ASSUME RouteInv, NEW p, Procs = {p}, refresh(p)
    PROVE  RouteInv'
<1>1. TypeInv /\ NeverDirect /\ (store = None => ~armed) BY DEF RouteInv
<1>2. TypeInv' /\ UNCHANGED <<value, store, drift, armed>>
  BY <1>1, RefreshEffect DEF world, history
<1>3. CASE call'[p].pc = "idle"
  BY <1>1, <1>2, <1>3, IdleRouted, StillDirect
<1>4. CASE /\ call'[p].pc = "run" /\ call'[p].op = "pulse" /\ call'[p].payload = store
           /\ _payload_is_owned(store)
  <2>1. \A s \in DOMAIN store.saved, ch \in Web : value[s][ch] \in Routed(store.cfg)
    BY <1>4, PayloadRouted
  <2>2. CallRouted(call[p])' BY <1>2, <1>4, <2>1 DEF CallRouted, Quiet
  <2> QED BY <1>1, <1>2, <2>2, StillDirect DEF RouteInv
<1> QED BY <1>1, <1>3, <1>4, RefreshEffect

LEMMA DisableRouted ==
    ASSUME RouteInv, NEW p, Procs = {p}, disable(p)
    PROVE  RouteInv'
<1>1. TypeInv /\ NeverDirect /\ (store = None => ~armed) BY DEF RouteInv
<1>2. TypeInv' /\ UNCHANGED <<value, store, drift>> BY <1>1, DisableEffect DEF world
<1>3. CASE call'[p].pc = "idle" /\ UNCHANGED armed
  BY <1>1, <1>2, <1>3, IdleRouted, StillDirect
<1>4. CASE /\ call'[p].pc = "run" /\ call'[p].op = "disable" /\ call'[p].payload = store
           /\ armed' = FALSE
  <2>1. CallRouted(call[p])' BY <1>2, <1>4 DEF CallRouted
  <2> QED BY <1>2, <1>4, <2>1 DEF RouteInv, NeverDirect
<1> QED BY <1>1, <1>3, <1>4, DisableEffect

LEMMA NextServiceRouted ==
    ASSUME RouteInv, NEW p, Procs = {p}, NEW s \in Services, _next_service(p, s)
    PROVE  RouteInv'
<1> DEFINE b == call[p]
           c == call'[p]
<1>1. TypeInv /\ CallRouted(b) /\ NeverDirect /\ (store = None => ~armed)
  BY DEF RouteInv
<1>2. /\ TypeInv' /\ UNCHANGED <<value, store, drift, armed>> /\ b.pc = "run"
      /\ c.pc = "run" /\ c.op = b.op /\ c.payload = b.payload /\ c.todo = b.todo \ {s}
      /\ c.at = s /\ b.script = <<>>
  BY <1>1, NextServiceEffect DEF world, history
<1>3. b.op = "enable" => \A ch \in Settings \ {"bypass"} : Has(c.script, Owning(ch, b.payload.cfg))
  BY <1>1, NextServiceEffect
<1>4. ASSUME b.op = "enable", NEW t \in Services, NEW ch \in Settings, Quiet(b.payload, t, ch)
      PROVE  \/ Owned(ch, value[t][ch], b.payload.saved[t][ch], b.payload.cfg)
             \/ ch # "bypass" /\ t \in c.todo
             \/ ch # "bypass" /\ t = c.at /\ Has(c.script, Owning(ch, b.payload.cfg))
  <2>1. \/ Owned(ch, value[t][ch], b.payload.saved[t][ch], b.payload.cfg)
        \/ ch # "bypass" /\ t \in b.todo
        \/ ch # "bypass" /\ Has(b.script, Owning(ch, b.payload.cfg))
    BY <1>1, <1>2, <1>4 DEF CallRouted
  <2>2. ~Has(b.script, Owning(ch, b.payload.cfg)) BY <1>2, Nothing DEF Has
  <2> QED BY <1>2, <1>3, <1>4, <2>1, <2>2
<1> HIDE DEF b
<1>5. CallRouted(call[p])' BY <1>1, <1>2, <1>4 DEF CallRouted, Quiet
<1> QED BY <1>1, <1>2, <1>5, StillDirect DEF RouteInv, b

(* What one command of a call does to the settings, cell by cell. *)
LEMMA DoneCells ==
    ASSUME TypeInv, NEW p, Procs = {p}, call[p].pc = "run", call[p].script # <<>>, Done(p)
    PROVE  LET b == call[p]
               cmd == Head(b.script)
           IN  /\ value'[b.at][cmd.ch] = Effect(value[b.at][cmd.ch], cmd)
               /\ \A t \in Services, k \in Settings :
                    <<t, k>> # <<b.at, cmd.ch>> => value'[t][k] = value[t][k]
               /\ \A t \in Services, k \in Settings :
                    <<t, k>> # <<b.at, cmd.ch>> => (<<t, k>> \in applied' <=> <<t, k>> \in applied)
               /\ <<b.at, cmd.ch>> \in applied' <=>
                    ~Restored(cmd.ch, value'[b.at][cmd.ch], b.payload.saved[b.at][cmd.ch])
<1> DEFINE b == call[p]
           cmd == Head(b.script)
           new == Effect(value[b.at][cmd.ch], cmd)
           cell == <<b.at, cmd.ch>>
<1>1. b.at \in Services /\ cmd.ch \in Settings /\ new \in States BY AtCommand
<1>2. /\ value' = [value EXCEPT ![b.at][cmd.ch] = new]
      /\ applied' = IF Restored(cmd.ch, new, b.payload.saved[b.at][cmd.ch])
                        THEN applied \ {cell} ELSE applied \cup {cell}
  BY DEF Done
<1> HIDE DEF new
<1>3. /\ value'[b.at][cmd.ch] = new
      /\ \A t \in Services, k \in Settings :
           <<t, k>> # <<b.at, cmd.ch>> => value'[t][k] = value[t][k]
  <2> HIDE DEF b, cmd, cell
  <2>1. PICK s \in Services, ch \in Settings, v \in States :
          s = b.at /\ ch = cmd.ch /\ v = new
    BY <1>1
  <2>2. value' = [value EXCEPT ![s][ch] = v] BY <1>2, <2>1
  <2>3. TypeInv OBVIOUS
  <2>4. /\ value' \in [Services -> [Settings -> States]] /\ value'[s][ch] = v
        /\ \A t \in Services, k \in Settings : <<t, k>> # <<s, ch>> => value'[t][k] = value[t][k]
    BY ONLY <2>2, <2>3, Written
  <2> QED BY <2>1, <2>4
<1> HIDE DEF b, cmd, cell
<1>4. /\ \A x : x # cell => (x \in applied' <=> x \in applied)
      /\ cell \in applied' <=> ~Restored(cmd.ch, new, b.payload.saved[b.at][cmd.ch])
  BY <1>2
<1> QED BY <1>3, <1>4 DEF cell, new, b, cmd

(* enable is at a setting that is owned, or about to be. *)
LEMMA EnableAt ==
    ASSUME RouteInv, NEW p, Procs = {p}, call[p].pc = "run", call[p].op = "enable",
           call[p].script # <<>>,
           Quiet(call[p].payload, call[p].at, Head(call[p].script).ch)
    PROVE  LET b == call[p]
               cmd == Head(b.script)
               saved == b.payload.saved[b.at]
               v == value[b.at][cmd.ch]
           IN  /\ Owned(cmd.ch, v, saved[cmd.ch], b.payload.cfg)
                    \/ cmd = Owning(cmd.ch, b.payload.cfg)
               /\ Owned(cmd.ch, Effect(v, cmd), saved[cmd.ch], b.payload.cfg)
<1> DEFINE b == call[p]
           f == b.payload
           cmd == Head(b.script)
           ch == cmd.ch
<1>1. TypeInv /\ CallRouted(b) BY DEF RouteInv
<1>2. /\ b.at \in Services /\ f.saved[b.at] \in [Settings -> States] /\ f.cfg \in Configs
      /\ cmd \in Allowed("enable", f.saved[b.at], f.cfg) /\ ch \in Settings
      /\ (\A e : ~Has(Tail(b.script), Cmd(ch, "set", e)))
      /\ (\A x : Has(b.script, x) => x = cmd \/ Has(Tail(b.script), x))
      /\ value[b.at][ch] \in States /\ b.at \notin b.todo
  BY <1>1, AtCommand
<1>3. \/ Owned(ch, value[b.at][ch], f.saved[b.at][ch], f.cfg)
      \/ Has(b.script, Owning(ch, f.cfg))
  BY <1>1, <1>2 DEF CallRouted
<1> HIDE DEF b, cmd
<1>4. ch \notin Web => cmd = Owning(ch, f.cfg)
  BY <1>2 DEF Allowed, PointCommands, Owning, Cmd, On, Off, Web
<1>5. Owned(ch, value[b.at][ch], f.saved[b.at][ch], f.cfg) \/ cmd = Owning(ch, f.cfg)
  BY <1>2, <1>3, <1>4 DEF Owning
<1>6. Owned(ch, Effect(value[b.at][ch], cmd), f.saved[b.at][ch], f.cfg)
  BY <1>2, <1>5, EnableOne
<1> QED BY <1>5, <1>6 DEF b, cmd

LEMMA CommandRouted ==
    ASSUME RouteInv, NEW p, Procs = {p}, _command(p)
    PROVE  RouteInv'
<1> DEFINE b == call[p]
           c == call'[p]
           f == b.payload
           cmd == Head(b.script)
<1>1. TypeInv /\ CallRouted(b) /\ NeverDirect /\ (store = None => ~armed) BY DEF RouteInv
<1>2. /\ TypeInv' /\ b.pc = "run" /\ b.script # <<>> /\ UNCHANGED <<store, drift, armed>>
      /\ Done(p) \/ (Fell(b, c) /\ UNCHANGED <<value, applied>>)
  BY <1>1, CommandEffect
<1>3. /\ b \in Calls /\ CallTyped(b) /\ store = f /\ f \in Payloads /\ f.cfg \in Configs
      /\ DOMAIN f.saved \subseteq Services /\ HasEvidence
      /\ b.op \in {"enable", "pulse", "rearm", "rollback", "disable"}
  <2>1. b \in Calls /\ CallTyped(b) BY <1>1, CallIs
  <2>2. store = f BY <1>1, <1>2 DEF CallRouted
  <2>3. /\ f \in Payloads /\ f.cfg \in Configs /\ DOMAIN f.saved \subseteq Services
        /\ b.op \in {"enable", "pulse", "rearm", "rollback", "disable"}
    BY <1>2, <2>1, Running
  <2> QED BY <2>1, <2>2, <2>3, PayloadIs DEF HasEvidence
<1>4. CASE Fell(b, c) /\ UNCHANGED <<value, applied>>
  <2>1. c.pc = "run" /\ c.payload = f /\ c.op # "enable"
        /\ (c.op \in {"rollback", "disable"} => b.op \in {"enable", "rollback", "disable"})
        /\ (c.op \in {"pulse", "rearm"} => b.op \in {"pulse", "rearm"})
    BY <1>4 DEF Fell
  <2>2. CallRouted(call[p])' BY <1>1, <1>2, <1>3, <1>4, <2>1 DEF CallRouted, Quiet
  <2> QED BY <1>1, <1>2, <1>4, <2>2, StillDirect DEF RouteInv
<1>5. CASE Done(p)
  <2>1. /\ c.pc = "run" /\ c.op = b.op /\ c.payload = f /\ c.todo = b.todo /\ c.at = b.at
        /\ c.script = Tail(b.script)
    BY <1>5 DEF Done
  <2>2. /\ b.at \in DOMAIN f.saved /\ f.saved[b.at] \in [Settings -> States]
        /\ cmd \in Allowed(b.op, f.saved[b.at], f.cfg) /\ cmd.ch \in Settings
        /\ (\A e : ~Has(Tail(b.script), Cmd(cmd.ch, "set", e)))
        /\ (\A x : Has(b.script, x) => x = cmd \/ Has(Tail(b.script), x))
        /\ value[b.at][cmd.ch] \in States /\ b.at \in Services
    BY <1>1, <1>2, AtCommand
  <2>3. /\ value'[b.at][cmd.ch] = Effect(value[b.at][cmd.ch], cmd)
        /\ \A t \in Services, k \in Settings :
             <<t, k>> # <<b.at, cmd.ch>> => value'[t][k] = value[t][k]
    BY <1>1, <1>2, <1>5, DoneCells
  <2> HIDE DEF b, f, cmd
  <2>4. CASE b.op = "enable"
    <3>1. ~armed BY <1>1, <1>2, <2>4 DEF CallRouted
    <3>2. ASSUME NEW t \in Services, NEW ch \in Settings, Quiet(f, t, ch)
          PROVE  \/ Owned(ch, value'[t][ch], f.saved[t][ch], f.cfg)
                 \/ ch # "bypass" /\ t \in b.todo
                 \/ ch # "bypass" /\ t = b.at /\ Has(Tail(b.script), Owning(ch, f.cfg))
      <4>1. \/ Owned(ch, value[t][ch], f.saved[t][ch], f.cfg)
            \/ ch # "bypass" /\ t \in b.todo
            \/ ch # "bypass" /\ t = b.at /\ Has(b.script, Owning(ch, f.cfg))
        BY <1>1, <1>2, <2>4, <3>2 DEF CallRouted, f
      <4>2. CASE <<t, ch>> # <<b.at, cmd.ch>>
        <5>1. value'[t][ch] = value[t][ch] BY <2>3, <4>2
        <5>2. t = b.at /\ Has(b.script, Owning(ch, f.cfg))
                => Has(Tail(b.script), Owning(ch, f.cfg))
          <6>1. Owning(ch, f.cfg).ch = ch BY DEF Owning, Cmd, Off
          <6>2. t = b.at => Owning(ch, f.cfg) # cmd BY <4>2, <6>1
          <6> QED BY <2>2, <6>2
        <5> QED BY <4>1, <5>1, <5>2
      <4>3. CASE t = b.at /\ ch = cmd.ch
        <5>1. Owned(cmd.ch, Effect(value[b.at][cmd.ch], cmd), f.saved[b.at][cmd.ch], f.cfg)
          BY <1>2, <2>4, <3>2, <4>3, EnableAt DEF b, f, cmd
        <5> QED BY <2>3, <4>3, <5>1
      <4> QED BY <4>2, <4>3
    <3>3. CallRouted(call[p])' BY <1>2, <1>3, <2>1, <2>4, <3>1, <3>2 DEF CallRouted, Quiet
    <3> QED BY <1>2, <3>1, <3>3 DEF RouteInv, NeverDirect
  <2>5. CASE b.op \in {"pulse", "rearm"}
    <3>1. PICK e \in {f.cfg.upstream, Sentinel} : cmd \in PointCommands(e)
      BY <2>2, <2>5 DEF Allowed
    <3>2. cmd.ch \in Web BY <3>1 DEF PointCommands, Cmd, On, Web
    <3>3. ASSUME NEW t \in Services, NEW ch \in Web, Quiet(f, t, ch)
          PROVE  value'[t][ch] \in Routed(f.cfg)
      <4>1. value[t][ch] \in Routed(f.cfg)
        BY <1>1, <1>2, <2>5, <3>3 DEF CallRouted, f
      <4>2. ch \in Settings BY DEF Web, Settings, Manual
      <4>3. CASE t = b.at /\ ch = cmd.ch
        BY <1>3, <2>3, <3>1, <4>1, <4>3, PointOne
      <4>4. CASE <<t, ch>> # <<b.at, cmd.ch>> BY <2>3, <4>1, <4>2, <4>4
      <4> QED BY <4>3, <4>4
    <3>4. CallRouted(call[p])' BY <1>2, <1>3, <2>1, <2>5, <3>3 DEF CallRouted, Quiet
    <3>5. NeverDirect' BY <1>2, <1>3, <3>3 DEF NeverDirect, Quiet, Routed, Web
    <3> QED BY <1>1, <1>2, <3>4, <3>5 DEF RouteInv
  <2>6. CASE b.op \in {"rollback", "disable"}
    <3>1. ~armed BY <1>1, <1>2, <2>6 DEF CallRouted
    <3>2. CallRouted(call[p])' BY <1>2, <1>3, <2>1, <2>6, <3>1 DEF CallRouted
    <3> QED BY <1>2, <3>1, <3>2 DEF RouteInv, NeverDirect
  <2> QED BY <1>3, <2>4, <2>5, <2>6
<1> QED BY <1>2, <1>4, <1>5

LEMMA ServicesDoneRouted ==
    ASSUME RouteInv, NEW p, Procs = {p}, _services_done(p)
    PROVE  RouteInv'
<1> DEFINE b == call[p]
           c == call'[p]
           f == b.payload
<1>1. TypeInv /\ CallRouted(b) /\ NeverDirect /\ (store = None => ~armed) BY DEF RouteInv
<1>2. /\ TypeInv' /\ b.pc = "run" /\ b.script = <<>> /\ b.todo = {}
      /\ UNCHANGED <<value, store, drift>> /\ armed' = (armed \/ b.op = "enable")
  BY <1>1, ServicesDoneEffect DEF world
<1>3. store = f /\ f \in Payloads /\ HasEvidence /\ DOMAIN f.saved \subseteq Services
  <2>1. b \in Calls /\ CallTyped(b) BY <1>1, CallIs
  <2> QED BY <1>1, <1>2, <2>1, Running, PayloadIs DEF CallRouted, HasEvidence
<1>4. CASE b.op = "enable" /\ c.pc = "idle"
  <2>1. ASSUME NEW s \in DOMAIN f.saved, NEW ch \in Web, Quiet(f, s, ch)
        PROVE  value[s][ch] \in Routed(f.cfg)
    <3>1. s \in Services /\ ch \in Settings BY <1>3 DEF Web, Settings, Manual
    <3>2. ~\E x : Has(b.script, x) BY <1>2, Nothing DEF Has
    <3>3. Owned(ch, value[s][ch], f.saved[s][ch], f.cfg)
      BY <1>1, <1>2, <1>4, <2>1, <3>1, <3>2 DEF CallRouted
    <3> QED BY <3>3, OwnedIsRouted
  <2>2. NeverDirect' BY <1>2, <1>3, <2>1 DEF NeverDirect, Quiet, Routed, Web
  <2> QED BY <1>2, <1>3, <1>4, <2>2, IdleRouted DEF HasEvidence
<1>5. CASE b.op # "enable" /\ c.pc = "idle"
  BY <1>1, <1>2, <1>5, IdleRouted, StillDirect
<1>6. CASE b.op = "pulse" /\ c.pc = "run" /\ c.op = "rearm" /\ c.payload = f
  <2>1. CallRouted(call[p])' BY <1>1, <1>2, <1>6 DEF CallRouted, Quiet
  <2> QED BY <1>1, <1>2, <1>6, <2>1, StillDirect DEF RouteInv
<1>7. CASE b.op \in {"rollback", "disable"} /\ c.pc = "clear" /\ c.op = b.op /\ c.payload = f
  <2>1. CallRouted(call[p])' BY <1>1, <1>2, <1>7 DEF CallRouted
  <2> QED BY <1>1, <1>2, <1>7, <2>1, StillDirect DEF RouteInv
<1> QED BY <1>1, <1>4, <1>5, <1>6, <1>7, ServicesDoneEffect

LEMMA ClearRouted ==
    ASSUME RouteInv, NEW p, Procs = {p}, _clear(p)
    PROVE  RouteInv'
<1>1. TypeInv /\ CallRouted(call[p]) /\ NeverDirect /\ (store = None => ~armed)
  BY DEF RouteInv
<1>2. /\ TypeInv' /\ call[p].pc = "clear" /\ UNCHANGED <<value, drift, armed>>
      /\ call'[p].pc = "idle" /\ (store' = None \/ UNCHANGED store)
  BY <1>1, ClearEffect DEF world, history
<1>3. ~armed
  <2>1. call[p] \in Calls /\ CallTyped(call[p]) BY <1>1, CallIs
  <2>2. call[p].op \in {"rollback", "disable"} BY <1>2, <2>1 DEF CallTyped, Restoring
  <2> QED BY <1>1, <1>2, <2>2 DEF CallRouted
<1>4. NeverDirect' BY <1>2, <1>3 DEF NeverDirect
<1> QED BY <1>2, <1>3, <1>4, IdleRouted

LEMMA SyncRouted ==
    ASSUME RouteInv, NEW p, Procs = {p}, sync_no_proxy(p)
    PROVE  RouteInv'
<1>1. TypeInv /\ NeverDirect BY DEF RouteInv
<1>2. /\ TypeInv' /\ UNCHANGED <<value, drift, armed>> /\ call'[p].pc = "idle"
      /\ store \in Payloads /\ store' \in Payloads /\ store'.saved = store.saved
      /\ store'.cfg.upstream = store.cfg.upstream
  BY <1>1, SyncEffect DEF world, history
<1>3. HasEvidence /\ HasEvidence' BY <1>2, PayloadIs DEF HasEvidence
<1>4. NeverDirect' BY <1>1, <1>2, <1>3 DEF NeverDirect
<1> QED BY <1>2, <1>3, <1>4, IdleRouted DEF HasEvidence

LEMMA WorldRouted ==
    ASSUME RouteInv, NEW p, Procs = {p}, World
    PROVE  RouteInv'
<1>1. TypeInv /\ CallRouted(call[p]) /\ NeverDirect /\ (store = None => ~armed)
  BY DEF RouteInv
<1>2. TypeInv' /\ UNCHANGED call BY <1>1, WorldEffect
<1>3. ASSUME NEW s \in Services, NEW ch \in Settings, Rewritten(s, ch)
      PROVE  RouteInv'
  <2>1. /\ UNCHANGED <<store, call, armed>>
        /\ \A t \in Services, k \in Settings : <<t, k>> # <<s, ch>> => value'[t][k] = value[t][k]
    BY <1>3 DEF Rewritten
  <2>2. CASE drift' = drift \cup {<<s, ch>>}
    <3>1. \A t \in Services, k \in Settings : <<t, k>> \notin drift' =>
            <<t, k>> \notin drift /\ value'[t][k] = value[t][k]
      BY <2>1, <2>2
    <3>2. Web \subseteq Settings BY DEF Web, Settings, Manual
    <3>3. CallRouted(call[p])' BY <1>1, <2>1, <3>1, <3>2 DEF CallRouted, Quiet
    <3>4. NeverDirect'
      <4>1. HasEvidence => DOMAIN store.saved \subseteq Services
        BY <1>1, PayloadIs DEF HasEvidence, TypeInv
      <4>2. HasEvidence' <=> HasEvidence BY <2>1 DEF HasEvidence
      <4>3. ASSUME armed, HasEvidence, NEW t \in DOMAIN store.saved, NEW k \in Web,
                   <<t, k>> \notin drift'
            PROVE  value'[t][k] \in Routed(store.cfg)
        <5>1. t \in Services /\ k \in Settings BY <3>2, <4>1, <4>3
        <5>2. <<t, k>> \notin drift /\ value'[t][k] = value[t][k] BY <3>1, <4>3, <5>1
        <5>3. Quiet(store, t, k) BY <4>3, <5>2 DEF Quiet
        <5> QED BY <1>1, <4>3, <5>2, <5>3, NeverDirectIs
      <4> QED BY <2>1, <4>2, <4>3 DEF NeverDirect, Routed, Web
    <3> QED BY <1>1, <1>2, <2>1, <3>3, <3>4 DEF RouteInv
  <2>3. CASE store = None /\ (\A q \in Procs : call[q].pc = "idle")
    <3>1. call'[p].pc = "idle" /\ ~armed' /\ NeverDirect'
      BY <1>1, <2>1, <2>3 DEF NeverDirect
    <3> QED BY <1>2, <3>1, IdleRouted
  <2> QED BY <1>3, <2>2, <2>3 DEF Rewritten
<1>4. CASE UNCHANGED <<value, store, history>>
  <2>1. CallRouted(call[p])' BY <1>1, <1>2, <1>4 DEF CallRouted, Quiet, history
  <2>2. NeverDirect' BY <1>1, <1>4, StillDirect DEF history
  <2> QED BY <1>1, <1>2, <1>4, <2>1, <2>2 DEF RouteInv, history
<1>5. CASE store' = Corrupt /\ call[p].pc = "idle"
  <2>1. NeverDirect' BY <1>5 DEF NeverDirect, HasEvidence
  <2> QED BY <1>2, <1>5, <2>1, IdleRouted, MacosAssumption
<1> QED BY <1>1, <1>3, <1>4, <1>5, WorldEffect

LEMMA RouteStep ==
    ASSUME RouteInv, [Next]_vars, NEW p, Procs = {p}
    PROVE  RouteInv'
<1>1. TypeInv /\ CallRouted(call[p]) /\ NeverDirect /\ (store = None => ~armed)
  BY DEF RouteInv
<1>2. CASE UNCHANGED vars
  <2>1. UNCHANGED <<value, store, drift, armed, call>> BY <1>2 DEF vars, world, history
  <2>2. CallRouted(call[p])' BY <1>1, <2>1 DEF CallRouted, Quiet
  <2>3. TypeInv' BY <1>1, TypeStep
  <2> QED BY <1>1, <2>1, <2>2, <2>3, StillDirect DEF RouteInv
<1>3. CASE Crash(p)
  <2>1. TypeInv' /\ call'[p].pc = "idle" /\ UNCHANGED <<value, store, drift, armed>>
    BY <1>1, <1>3, CrashEffect DEF world, history
  <2> QED BY <1>1, <2>1, IdleRouted, StillDirect
<1> QED BY <1>2, <1>3, EnableRouted, SaveRouted, RefreshRouted, DisableRouted, NextServiceRouted,
           CommandRouted, ServicesDoneRouted, ClearRouted, SyncRouted, WorldRouted
        DEF Next, Step, World

(* From a successful enable to the next disable both manual proxies of every     *)
(* saved service are on, at the upstream or at the closed port of the pulse,     *)
(* whatever refreshes fail or are killed between two commands, for any number of *)
(* services, upstreams and faults.  Settings others wrote meanwhile are apart.   *)
THEOREM TheRouteIsNeverDirect ==
    ASSUME NEW p, Procs = {p}
    PROVE  Spec => []NeverDirect
<1>1. Init => RouteInv BY RouteInit
<1>2. RouteInv /\ [Next]_vars => RouteInv' BY RouteStep
<1>3. RouteInv => NeverDirect BY DEF RouteInv
<1> QED BY <1>1, <1>2, <1>3, PTL DEF Spec

-----------------------------------------------------------------------------
(* What the user had is in force or in the rollback file: SafeInv is inductive.  *)

LEMMA BetweenReflexive ==
    ASSUME NEW ch \in Settings, NEW v, NEW cfg
    PROVE  Between(ch, v, v, cfg)
BY DEF Between, Settings, Manual, Web

LEMMA Effects ==
    ASSUME NEW v \in States, NEW ch, NEW e
    PROVE  /\ Effect(v, Cmd(ch, "set", e)) = [on |-> TRUE, at |-> e]
           /\ Effect(v, On(ch)) = [on |-> TRUE, at |-> v.at]
           /\ Effect(v, Off(ch)) = [on |-> FALSE, at |-> v.at]
           /\ Effect(v, Cmd(ch, "put", e)) = [on |-> v.on, at |-> e]
<1>1. PICK a \in BOOLEAN, b \in Endpoints : v = [on |-> a, at |-> b] BY DEF States
<1> QED BY <1>1 DEF Effect, Cmd, On, Off

LEMMA ManualIs ==
    ASSUME NEW ch \in Manual, NEW v \in States, NEW w \in States
    PROVE  Restored(ch, v, w) <=>
             v.on = w.on /\ (w = [on |-> FALSE, at |-> Empty] \/ v.at = w.at)
BY DEF Restored, Manual

LEMMA BetweenWeb ==
    ASSUME NEW ch \in Web, NEW v \in States, NEW w \in States, NEW cfg
    PROVE  Between(ch, v, w, cfg) <=>
             \/ v = w \/ v \in Routed(cfg)
             \/ w.at # Empty /\ v = [on |-> TRUE, at |-> w.at]
             \/ w = [on |-> FALSE, at |-> Empty] /\ ~v.on
BY DEF Between, Web

(* A command of a restore keeps a setting between the route and what was saved,  *)
(* and the last one on a setting restores it.                                    *)
LEMMA BackOne ==
    ASSUME NEW saved \in [Settings -> States], NEW cfg \in Configs, NEW u \in States,
           NEW v \in States, NEW cmd \in BackCommands(saved), cmd.ch \in Settings,
           Restored(cmd.ch, saved[cmd.ch], u), cmd.ch \in Web => EndpointIfOn(u),
           Between(cmd.ch, v, saved[cmd.ch], cfg),
           \/ cmd.ch \notin Web \/ saved[cmd.ch].at \in {Empty, v.at}
           \/ cmd = Cmd(cmd.ch, "set", saved[cmd.ch].at)
    PROVE  /\ Between(cmd.ch, Effect(v, cmd), saved[cmd.ch], cfg)
           /\ cmd \notin NotLast(saved) => Restored(cmd.ch, Effect(v, cmd), saved[cmd.ch])
<1> DEFINE ch == cmd.ch
           w == saved[ch]
           new == Effect(v, cmd)
<1>1. w \in States /\ w.on \in BOOLEAN /\ w = [on |-> w.on, at |-> w.at]
  <2>1. w \in States OBVIOUS
  <2> QED BY <2>1 DEF States
<1>2. CASE cmd = Cmd(ch, "set", w.at) /\ ch \in Manual \cup {"auto"}
  <2>1. w.at # Empty
    BY <1>2 DEF BackCommands, Final, Cmd, On, Off, Manual
  <2>2. new = [on |-> TRUE, at |-> w.at] BY <1>2, Effects
  <2>3. cmd \in NotLast(saved) BY <1>2 DEF NotLast
  <2>4. Between(ch, new, w, cfg)
    BY <1>1, <1>2, <2>1, <2>2 DEF Between, Manual, Web
  <2> QED BY <2>3, <2>4
<1>3. CASE cmd = Final(ch, saved) /\ ch \in Manual \cup {"auto"}
  <2>1. new = [on |-> w.on, at |-> v.at] /\ new \in States
    <3>1. CASE w.on
      <4>1. cmd = On(ch) /\ w.on = TRUE BY <1>1, <1>3, <3>1 DEF Final
      <4>2. new = [on |-> TRUE, at |-> v.at] BY <4>1, Effects
      <4>3. v.at \in Endpoints BY DEF States
      <4>4. [on |-> TRUE, at |-> v.at] \in States BY <4>3 DEF States
      <4> HIDE DEF new
      <4> QED BY <4>1, <4>2, <4>4
    <3>2. CASE ~w.on
      <4>1. cmd = Off(ch) /\ w.on = FALSE BY <1>1, <1>3, <3>2 DEF Final
      <4>2. new = [on |-> FALSE, at |-> v.at] BY <4>1, Effects
      <4>3. v.at \in Endpoints BY DEF States
      <4>4. [on |-> FALSE, at |-> v.at] \in States BY <4>3 DEF States
      <4> HIDE DEF new
      <4> QED BY <4>1, <4>2, <4>4
    <3> QED BY <3>1, <3>2
  <2>2. CASE ch \in Web
    <3>1. w.at \in {Empty, v.at}
      BY <1>3, <2>2 DEF Final, On, Off, Cmd
    <3>2. CASE w.at = v.at
      <4>1. new = w BY <1>1, <2>1, <3>2
      <4> QED BY <2>2, <4>1, RestoredReflexive, BetweenReflexive
    <3>3. CASE w.at = Empty
      <4>1. ~w.on
        <5>1. ch \in Manual BY <2>2 DEF Web, Manual
        <5>2. w.on = u.on /\ (u = [on |-> FALSE, at |-> Empty] \/ w.at = u.at)
          BY <5>1, ManualIs
        <5>3. u.on => u.at # Empty BY <2>2 DEF EndpointIfOn
        <5> QED BY <3>3, <5>2, <5>3
      <4>2. w = [on |-> FALSE, at |-> Empty] BY <1>1, <3>3, <4>1
      <4>3. new.on = FALSE /\ w.on = FALSE BY <2>1, <4>2
      <4>4. ch \in Manual BY <2>2 DEF Web, Manual
      <4> HIDE DEF new, w, ch
      <4>5. Between(ch, new, w, cfg) BY <1>1, <2>1, <2>2, <4>2, <4>3, BetweenWeb
      <4>6. Restored(ch, new, w) BY <1>1, <2>1, <4>2, <4>3, <4>4, ManualIs
      <4> QED BY <4>5, <4>6 DEF new, w, ch
    <3> QED BY <3>1, <3>2, <3>3
  <2>3. CASE ch \in {"socks", "auto"}
    <3>1. v.at = w.at BY <2>3 DEF Between, Web
    <3>2. new = w BY <1>1, <2>1, <3>1
    <3> QED BY <3>2, RestoredReflexive, BetweenReflexive
  <2> QED BY <1>3, <2>2, <2>3 DEF Manual, Web
<1>4. CASE cmd = Off("auto")
  <2>1. ch = "auto" BY <1>4 DEF Off, Cmd
  <2>2. new = [on |-> FALSE, at |-> v.at] BY <1>4, Effects
  <2>3. new.on = FALSE /\ new.at = v.at BY <2>2
  <2>4. v.at = w.at BY <2>1 DEF Between, Web
  <2>5. Between(ch, new, w, cfg) BY <2>1, <2>3, <2>4 DEF Between, Web
  <2>6. cmd \notin NotLast(saved) => w.on = FALSE BY <1>1, <1>4, <2>1 DEF NotLast
  <2>7. w.on = FALSE => Restored(ch, new, w) BY <2>1, <2>3 DEF Restored, Manual
  <2> QED BY <2>5, <2>6, <2>7
<1>5. CASE cmd = Cmd("bypass", "put", saved["bypass"].at)
  <2>1. ch = "bypass" BY <1>5 DEF Cmd
  <2>2. v = w BY <2>1 DEF Between, Web
  <2>3. new = [on |-> v.on, at |-> w.at] BY <1>5, <2>1, Effects
  <2>4. new = v BY <1>1, <2>2, <2>3
  <2> QED BY <2>2, <2>4, RestoredReflexive, BetweenReflexive
<1>6. \/ \E k \in Manual \cup {"auto"} : cmd = Cmd(k, "set", saved[k].at)
      \/ \E k \in Manual \cup {"auto"} : cmd = Final(k, saved)
      \/ cmd = Off("auto") \/ cmd = Cmd("bypass", "put", saved["bypass"].at)
  BY DEF BackCommands
<1>7. \A k, e : Cmd(k, "set", e).ch = k /\ Final(k, saved).ch = k
  BY DEF Cmd, Final, On, Off
<1> QED BY <1>2, <1>3, <1>4, <1>5, <1>6, <1>7

(* So do the commands of enable and of the pulse. *)
LEMMA PointBetween ==
    ASSUME NEW saved, NEW cfg \in Configs, NEW v \in States, NEW cmd, NEW op,
           cmd \in Allowed(op, saved, cfg), Between(cmd.ch, v, saved[cmd.ch], cfg),
           \/ op = "enable" /\ Owned(cmd.ch, Effect(v, cmd), saved[cmd.ch], cfg)
           \/ op \in {"pulse", "rearm"} /\ v \in Routed(cfg)
    PROVE  Between(cmd.ch, Effect(v, cmd), saved[cmd.ch], cfg)
<1>1. CASE op = "enable"
  <2>1. CASE cmd \in {Off("auto"), Off("socks")}
    <3>1. cmd.ch \in {"auto", "socks"} BY <2>1 DEF Off, Cmd
    <3>2. Effect(v, cmd) = [on |-> FALSE, at |-> v.at] BY <2>1, Effects
    <3>3. v.at = saved[cmd.ch].at BY <3>1 DEF Between, Web
    <3> QED BY <3>1, <3>2, <3>3 DEF Between, Web
  <2>2. CASE cmd \in PointCommands(cfg.upstream)
    <3>1. cmd.ch \in Web BY <2>2 DEF PointCommands, Cmd, On, Web
    <3>2. Effect(v, cmd) \in Routed(cfg) BY <1>1, <3>1, OwnedIsRouted
    <3>3. Effect(v, cmd) \in Routed(cfg) => Between(cmd.ch, Effect(v, cmd), saved[cmd.ch], cfg)
      BY <3>1 DEF Between, Web
    <3> QED BY <3>2, <3>3
  <2> QED BY <1>1, <2>1, <2>2 DEF Allowed
<1>2. CASE op \in {"pulse", "rearm"}
  <2>1. PICK e \in {cfg.upstream, Sentinel} : cmd \in PointCommands(e)
    BY <1>2 DEF Allowed
  <2>2. v \in Routed(cfg) BY <1>2
  <2>3. Effect(v, cmd) \in Routed(cfg) /\ cmd.ch \in Web BY <2>1, <2>2, PointOne
  <2> QED BY <2>3 DEF Between, Web
<1> QED BY <1>1, <1>2

(* A call that is idle or about to save claims nothing. *)
LEMMA CalmSafe ==
    ASSUME TypeInv', NEW p, Procs = {p}, call'[p].pc \in {"idle", "save"}
    PROVE  CallSafe(call[p])'
<1>1. CallTyped(call[p])' BY DEF TypeInv
<1> QED BY <1>1 DEF CallSafe, CallTyped

LEMMA StillSafe ==
    ASSUME SafeInv, UNCHANGED <<value, store, applied, user, drift>>
    PROVE  (UserEndpoints /\ NothingLeft /\ UntouchedTrue /\ FileTrue)'
BY DEF SafeInv, UserEndpoints, NothingLeft, UntouchedTrue, FileTrue, HasEvidence, Quiet

(* A call at its commands has the rollback file. *)
LEMMA WorkingFile ==
    ASSUME RouteInv, NEW p, Procs = {p}, call[p].pc \in {"run", "clear"}
    PROVE  /\ store = call[p].payload /\ store \in Payloads /\ HasEvidence
           /\ DOMAIN store.saved \subseteq Services
           /\ call[p] \in Calls /\ CallTyped(call[p])
<1>1. TypeInv /\ CallRouted(call[p]) BY DEF RouteInv
<1>2. call[p] \in Calls /\ CallTyped(call[p]) BY <1>1, CallIs
<1> QED BY <1>1, <1>2, Running, PayloadIs DEF CallRouted, HasEvidence

LEMMA SafeInit ==
    ASSUME OnHasEndpoint, Init, NEW p, Procs = {p}
    PROVE  SafeInv
<1>1. RouteInv /\ TypeInv BY RouteInit, TypeInit
<1>2. /\ call[p].pc = "idle" /\ applied = {} /\ drift = {} /\ user = value
      /\ call[p].script = <<>> /\ store = None
  BY DEF Init, Idle, Return
<1>3. CallSafe(call[p]) BY <1>2 DEF CallSafe
<1>4. UserEndpoints BY <1>2 DEF Init, OnHasEndpoint, UserEndpoints, Web
<1>5. UntouchedTrue BY <1>2, RestoredReflexive DEF UntouchedTrue
<1>6. FileTrue BY <1>2 DEF FileTrue, HasEvidence
<1> QED BY <1>1, <1>2, <1>3, <1>4, <1>5, <1>6 DEF SafeInv, NothingLeft

(* Steps that change no setting and keep the rollback file. *)
LEMMA QuietStepSafe ==
    ASSUME SafeInv, NEW p, Procs = {p}, RouteInv',
           UNCHANGED <<value, store, applied, user, drift>>, CallSafe(call[p])'
    PROVE  SafeInv'
BY StillSafe DEF SafeInv

LEMMA SaveSafe ==
    ASSUME SafeInv, RouteInv', NEW p, Procs = {p}, _save(p)
    PROVE  SafeInv'
<1> DEFINE f == call[p].payload
<1>1. RouteInv /\ TypeInv /\ TypeInv' /\ CallRouted(call[p])
      /\ UserEndpoints /\ NothingLeft /\ UntouchedTrue
  BY DEF SafeInv, RouteInv
<1>2. call[p].pc = "save" /\ UNCHANGED <<value, applied, user, drift>>
  BY <1>1, SaveEffect DEF world, history
<1>3. CASE call'[p].pc = "idle" /\ UNCHANGED store
  BY <1>1, <1>2, <1>3, CalmSafe, QuietStepSafe
<1>4. CASE store' = f /\ call'[p].pc = "run" /\ call'[p].op = "enable" /\ call'[p].script = <<>>
  <2>1. call[p] \in Calls /\ CallTyped(call[p]) BY <1>1, CallIs
  <2>2. f \in Payloads BY <1>2, <2>1 DEF CallTyped
  <2>3. applied \subseteq drift BY <1>1, <1>2 DEF CallRouted, NothingLeft
  <2>4. ASSUME NEW s \in Services, NEW ch \in Settings, Quiet(f, s, ch)
        PROVE  /\ Restored(ch, f.saved[s][ch], user[s][ch])
               /\ Between(ch, value[s][ch], f.saved[s][ch], f.cfg)
    <3>1. f.saved[s][ch] = value[s][ch] BY <1>1, <1>2, <2>4 DEF CallRouted
    <3>2. <<s, ch>> \notin applied \cup drift BY <2>3, <2>4 DEF Quiet
    <3> QED BY <1>1, <3>1, <3>2, BetweenReflexive DEF UntouchedTrue
  <2>5. FileTrue' BY <1>2, <1>4, <2>3, <2>4 DEF FileTrue, Quiet
  <2>6. NothingLeft' BY <1>4, <2>2, PayloadIs DEF NothingLeft
  <2>7. CallSafe(call[p])' BY <1>2, <1>4, <2>3 DEF CallSafe
  <2> QED BY <1>1, <1>2, <2>5, <2>6, <2>7 DEF SafeInv, UserEndpoints, UntouchedTrue
<1> QED BY <1>1, <1>3, <1>4, SaveEffect

LEMMA NextServiceSafe ==
    ASSUME SafeInv, RouteInv', NEW p, Procs = {p}, NEW s \in Services, _next_service(p, s)
    PROVE  SafeInv'
<1> DEFINE b == call[p]
           c == call'[p]
<1>1. RouteInv /\ TypeInv /\ CallSafe(b) BY DEF SafeInv, RouteInv
<1>2. /\ UNCHANGED <<value, store, applied, user, drift>> /\ b.pc = "run"
      /\ c.pc = "run" /\ c.op = b.op /\ c.ok = b.ok /\ c.payload = b.payload
      /\ c.todo = b.todo \ {s} /\ c.touched = b.touched \cup {s} /\ c.at = s
      /\ b.script = <<>>
  BY <1>1, NextServiceEffect DEF world, history
<1>3. Restoring(b) =>
        /\ \A ch \in Settings : HasChannel(c.script, ch)
        /\ \A ch \in Web : b.payload.saved[s][ch].at # Empty =>
             Has(c.script, Cmd(ch, "set", b.payload.saved[s][ch].at))
  BY <1>1, NextServiceEffect
<1>4. \A ch : ~HasChannel(b.script, ch) BY <1>2, Nothing DEF HasChannel
<1>5. b.op = "enable" => \A t \in Services, ch \in Settings :
        <<t, ch>> \in applied \ drift => t \in c.touched
  BY <1>1, <1>2 DEF CallSafe
<1>6. b.op = "rollback" /\ b.ok => \A t \in Services, ch \in Settings :
        <<t, ch>> \in applied \ drift => t \in c.todo \/ (t = c.at /\ HasChannel(c.script, ch))
  BY <1>1, <1>2, <1>3, <1>4 DEF CallSafe, Restoring
<1>7. Restoring(b) => \A ch \in Web :
        LET saved == c.payload.saved[c.at][ch]
        IN  saved.at \in {Empty, value[c.at][ch].at} \/ Has(c.script, Cmd(ch, "set", saved.at))
  BY <1>2, <1>3
<1> HIDE DEF b
<1>8. CallSafe(call[p])' BY <1>2, <1>5, <1>6, <1>7 DEF CallSafe, Restoring
<1> QED BY <1>2, <1>8, QuietStepSafe DEF b

(* A call that gives up a command. *)
LEMMA FellSafe ==
    ASSUME SafeInv, RouteInv', NEW p, Procs = {p}, call[p].pc = "run",
           Fell(call[p], call'[p]), UNCHANGED <<value, store, applied, user, drift>>
    PROVE  SafeInv'
<1>1. CallSafe(call[p]) BY DEF SafeInv
<1>2. CallSafe(call[p])' BY <1>1 DEF CallSafe, Fell
<1> QED BY <1>2, QuietStepSafe

(* One command done: what it means for its setting. *)
LEMMA DoneIs ==
    ASSUME SafeInv, NEW p, Procs = {p}, call[p].pc = "run", call[p].script # <<>>, Done(p),
           Quiet(store, call[p].at, Head(call[p].script).ch)
    PROVE  LET b == call[p]
               cmd == Head(b.script)
               saved == store.saved[b.at][cmd.ch]
           IN  /\ Between(cmd.ch, value'[b.at][cmd.ch], saved, store.cfg)
               /\ Restoring(b) /\ ~HasChannel(Tail(b.script), cmd.ch)
                    => Restored(cmd.ch, value'[b.at][cmd.ch], saved)
<1> DEFINE b == call[p]
           f == store
           cmd == Head(b.script)
           ch == cmd.ch
           v == value[b.at][ch]
           saved == f.saved[b.at]
<1>1. /\ RouteInv /\ TypeInv /\ CallRouted(b) /\ CallSafe(b) /\ UserEndpoints /\ FileTrue
  BY DEF SafeInv, RouteInv
<1>2. f = b.payload /\ f \in Payloads /\ HasEvidence /\ b \in Calls /\ CallTyped(b)
  BY <1>1, WorkingFile
<1>3. /\ b.at \in Services /\ saved \in [Settings -> States] /\ f.cfg \in Configs
      /\ cmd \in Allowed(b.op, saved, f.cfg) /\ ch \in Settings
      /\ cmd \in Pending(b.op, saved) => HasChannel(Tail(b.script), ch)
      /\ (\A e : ~Has(Tail(b.script), Cmd(ch, "set", e)))
      /\ (\A x : Has(b.script, x) => x = cmd \/ Has(Tail(b.script), x))
      /\ v \in States
  BY <1>1, <1>2, AtCommand
<1>4. value'[b.at][ch] = Effect(v, cmd) BY <1>1, DoneCells
<1>5. /\ Restored(ch, saved[ch], user[b.at][ch]) /\ Between(ch, v, saved[ch], f.cfg)
  BY <1>1, <1>2, <1>3 DEF FileTrue
<1>6. b.op \in {"enable", "pulse", "rearm", "rollback", "disable"} BY <1>2, Running
<1>7. CASE b.op = "enable"
  <2>1. Owned(ch, Effect(v, cmd), saved[ch], f.cfg)
    BY <1>1, <1>2, <1>7, EnableAt
  <2>2. ~Restoring(b) BY <1>7 DEF Restoring
  <2> HIDE DEF v, cmd, saved, f, b
  <2>3. Between(ch, Effect(v, cmd), saved[ch], f.cfg)
    BY <1>3, <1>5, <1>7, <2>1, PointBetween
  <2> QED BY <1>4, <2>2, <2>3 DEF v, cmd, saved, f, b
<1>8. CASE b.op \in {"pulse", "rearm"}
  <2>1. PICK e : cmd \in PointCommands(e) BY <1>3, <1>8 DEF Allowed
  <2>2. ch \in Web BY <2>1 DEF PointCommands, Cmd, On, Web
  <2>3. v \in Routed(f.cfg) BY <1>1, <1>2, <1>3, <1>8, <2>2 DEF CallRouted
  <2>4. ~Restoring(b) BY <1>8 DEF Restoring
  <2> HIDE DEF v, cmd, saved, f, b
  <2>5. Between(ch, Effect(v, cmd), saved[ch], f.cfg)
    BY <1>3, <1>5, <1>8, <2>3, PointBetween
  <2> QED BY <1>4, <2>4, <2>5 DEF v, cmd, saved, f, b
<1>9. CASE b.op \in {"rollback", "disable"}
  <2>1. cmd \in BackCommands(saved) /\ Pending(b.op, saved) = NotLast(saved) /\ Restoring(b)
    BY <1>3, <1>9 DEF Allowed, Pending, Restoring
  <2>2. ch \in Web => EndpointIfOn(user[b.at][ch]) BY <1>1, <1>3 DEF UserEndpoints
  <2>3. user[b.at][ch] \in States BY <1>1, <1>3 DEF TypeInv
  <2>4. ch \in Web => saved[ch].at \in {Empty, v.at} \/ cmd = Cmd(ch, "set", saved[ch].at)
    <3>1. ch \in Web => saved[ch].at \in {Empty, v.at}
                          \/ Has(b.script, Cmd(ch, "set", saved[ch].at))
      BY <1>1, <1>2, <2>1 DEF CallSafe
    <3> QED BY <1>3, <3>1
  <2> HIDE DEF v, cmd, saved, f, b
  <2>5. /\ Between(ch, Effect(v, cmd), saved[ch], f.cfg)
        /\ cmd \notin NotLast(saved) => Restored(ch, Effect(v, cmd), saved[ch])
    BY <1>3, <1>5, <2>1, <2>2, <2>3, <2>4, BackOne
  <2> QED BY <1>3, <1>4, <2>1, <2>5 DEF v, cmd, saved, f, b
<1> QED BY <1>6, <1>7, <1>8, <1>9

(* One command done: what the call still has to do. *)
LEMMA DoneCall ==
    ASSUME SafeInv, NEW p, Procs = {p}, call[p].pc = "run", call[p].script # <<>>, Done(p),
           UNCHANGED <<store, drift>>
    PROVE  CallSafe(call[p])'
<1> DEFINE b == call[p]
           c == call'[p]
           f == store
           cmd == Head(b.script)
           ch == cmd.ch
           saved == f.saved[b.at]
<1>1. RouteInv /\ TypeInv /\ CallSafe(b) BY DEF SafeInv, RouteInv
<1>2. f = b.payload /\ f \in Payloads BY <1>1, WorkingFile
<1>3. /\ b.at \in Services /\ b.at \in DOMAIN f.saved /\ b.at \in b.touched
      /\ saved \in [Settings -> States] /\ ch \in Settings
      /\ cmd \in Allowed(b.op, saved, f.cfg)
      /\ (\A e : ~Has(Tail(b.script), Cmd(ch, "set", e)))
      /\ (\A x : Has(b.script, x) => x = cmd \/ Has(Tail(b.script), x))
      /\ (\A k : HasChannel(b.script, k) => k = ch \/ HasChannel(Tail(b.script), k))
  BY <1>1, <1>2, AtCommand
<1>4. /\ \A t \in Services, k \in Settings : <<t, k>> # <<b.at, ch>> =>
           value'[t][k] = value[t][k] /\ (<<t, k>> \in applied' <=> <<t, k>> \in applied)
      /\ <<b.at, ch>> \in applied' <=> ~Restored(ch, value'[b.at][ch], saved[ch])
      /\ value'[b.at][ch] = Effect(value[b.at][ch], cmd)
  BY <1>1, <1>2, DoneCells
<1>5. /\ c.pc = "run" /\ c.op = b.op /\ c.ok = b.ok /\ c.payload = f /\ c.todo = b.todo
      /\ c.touched = b.touched /\ c.at = b.at /\ c.script = Tail(b.script)
  BY <1>2 DEF Done
<1>6. Quiet(f, b.at, ch) /\ Restoring(b) /\ ~HasChannel(Tail(b.script), ch)
        => <<b.at, ch>> \notin applied'
  BY <1>4, DoneIs
<1>7. b.op = "enable" => \A t \in Services, k \in Settings :
        <<t, k>> \in applied' \ drift => t \in b.touched
  <2>1. b.op = "enable" => \A t \in Services, k \in Settings :
          <<t, k>> \in applied \ drift => t \in b.touched
    BY <1>1 DEF CallSafe
  <2> HIDE DEF b, cmd
  <2> QED BY <1>3, <1>4, <2>1
<1>8. b.op = "rollback" /\ b.ok => \A t \in Services, k \in Settings :
        <<t, k>> \in applied' \ drift =>
          t \in b.todo \/ (t = b.at /\ HasChannel(Tail(b.script), k))
  <2> SUFFICES ASSUME b.op = "rollback" /\ b.ok, NEW t \in Services, NEW k \in Settings,
                      <<t, k>> \in applied' \ drift
               PROVE  t \in b.todo \/ (t = b.at /\ HasChannel(Tail(b.script), k))
    OBVIOUS
  <2>1. Restoring(b) BY DEF Restoring
  <2>2. <<t, k>> \in applied => t \in b.todo \/ (t = b.at /\ HasChannel(b.script, k))
    BY <1>1 DEF CallSafe
  <2> HIDE DEF b, cmd
  <2>3. CASE t = b.at /\ k = ch
    <3>1. Quiet(f, b.at, ch) BY <1>3, <2>3 DEF Quiet
    <3> QED BY <1>6, <2>1, <2>3, <3>1
  <2>4. CASE <<t, k>> # <<b.at, ch>>
    <3>1. <<t, k>> \in applied BY <1>4, <2>4
    <3> QED BY <1>3, <2>2, <2>4, <3>1
  <2> QED BY <2>3, <2>4
<1>9. Restoring(b) => \A k \in Web : Quiet(f, b.at, k) =>
        saved[k].at \in {Empty, value'[b.at][k].at}
          \/ Has(Tail(b.script), Cmd(k, "set", saved[k].at))
  <2> SUFFICES ASSUME Restoring(b), NEW k \in Web, Quiet(f, b.at, k)
               PROVE  \/ saved[k].at \in {Empty, value'[b.at][k].at}
                      \/ Has(Tail(b.script), Cmd(k, "set", saved[k].at))
    OBVIOUS
  <2>1. \/ saved[k].at \in {Empty, value[b.at][k].at}
        \/ Has(b.script, Cmd(k, "set", saved[k].at))
    BY <1>1, <1>2 DEF CallSafe
  <2>2. k \in Settings BY DEF Web, Settings, Manual
  <2>3. cmd \in BackCommands(saved) BY <1>3 DEF Allowed, Restoring
  <2>4. value[b.at][ch] \in States BY <1>1, <1>3 DEF TypeInv
  <2> HIDE DEF b, cmd, saved
  <2>5. CASE k # ch
    <3>1. value'[b.at][k] = value[b.at][k] BY <1>3, <1>4, <2>2, <2>5
    <3>2. Cmd(k, "set", saved[k].at) # cmd BY <2>5 DEF Cmd
    <3> QED BY <1>3, <2>1, <3>1, <3>2
  <2>6. CASE k = ch
    <3>1. \/ cmd = Cmd(ch, "set", saved[ch].at)
          \/ cmd = Final(ch, saved)
      <4>1. ch \in Web BY <2>6
      <4> QED BY <2>3, <4>1 DEF BackCommands, Cmd, Final, On, Off, Manual, Web
    <3>2. CASE cmd = Cmd(ch, "set", saved[ch].at)
      <4>1. value'[b.at][ch] = [on |-> TRUE, at |-> saved[ch].at]
        <5>1. Effect(value[b.at][ch], Cmd(ch, "set", saved[ch].at))
                = [on |-> TRUE, at |-> saved[ch].at]
          BY DEF Effect, Cmd
        <5> QED BY <1>4, <3>2, <5>1
      <4> QED BY <2>6, <4>1
    <3>3. CASE cmd = Final(ch, saved)
      <4>1. value'[b.at][ch].at = value[b.at][ch].at
        <5>1. cmd = On(ch) \/ cmd = Off(ch) BY <3>3 DEF Final
        <5> QED BY <1>4, <2>4, <5>1, Effects
      <4>2. cmd # Cmd(k, "set", saved[k].at) BY <3>3 DEF Final, On, Off, Cmd
      <4> QED BY <1>3, <2>1, <2>6, <4>1, <4>2
    <3> QED BY <3>1, <3>2, <3>3
  <2> QED BY <2>5, <2>6
<1> HIDE DEF b, cmd, saved
<1> QED BY <1>4, <1>5, <1>7, <1>8, <1>9 DEF CallSafe, Restoring, Quiet, saved

LEMMA CommandSafe ==
    ASSUME SafeInv, RouteInv', NEW p, Procs = {p}, _command(p)
    PROVE  SafeInv'
<1> DEFINE b == call[p]
           cmd == Head(b.script)
           ch == cmd.ch
<1>1. /\ RouteInv /\ TypeInv /\ UserEndpoints /\ UntouchedTrue /\ FileTrue
  BY DEF SafeInv, RouteInv
<1>2. /\ b.pc = "run" /\ b.script # <<>> /\ UNCHANGED <<store, user, drift>>
      /\ Done(p) \/ (Fell(b, call'[p]) /\ UNCHANGED <<value, applied>>)
  BY <1>1, CommandEffect
<1>3. CASE Fell(b, call'[p]) /\ UNCHANGED <<value, applied>>
  BY <1>2, <1>3, FellSafe
<1>4. CASE Done(p)
  <2>1. store = b.payload /\ store \in Payloads /\ HasEvidence BY <1>1, <1>2, WorkingFile
  <2>2. b.at \in Services /\ b.at \in DOMAIN store.saved /\ ch \in Settings
        /\ store.saved[b.at] \in [Settings -> States]
    BY <1>1, <1>2, <2>1, AtCommand
  <2>3. /\ \A t \in Services, k \in Settings : <<t, k>> # <<b.at, ch>> =>
             value'[t][k] = value[t][k] /\ (<<t, k>> \in applied' <=> <<t, k>> \in applied)
        /\ <<b.at, ch>> \in applied' <=> ~Restored(ch, value'[b.at][ch], store.saved[b.at][ch])
    BY <1>1, <1>2, <1>4, <2>1, DoneCells
  <2>4. Quiet(store, b.at, ch) =>
          Between(ch, value'[b.at][ch], store.saved[b.at][ch], store.cfg)
    BY <1>2, <1>4, DoneIs
  <2>5. Quiet(store, b.at, ch) => Restored(ch, store.saved[b.at][ch], user[b.at][ch])
    BY <1>1, <2>1, <2>2 DEF FileTrue
  <2>6. CallSafe(call[p])' BY <1>2, <1>4, DoneCall
  <2>7. TypeInv' BY DEF RouteInv
  <2> HIDE DEF b, cmd
  <2>8. UntouchedTrue'
    <3> SUFFICES ASSUME NEW s \in Services, NEW k \in Settings, <<s, k>> \notin applied' \cup drift
                 PROVE  Restored(k, value'[s][k], user[s][k])
      BY <1>2 DEF UntouchedTrue
    <3>1. CASE s = b.at /\ k = ch
      <4>1. Restored(k, value'[s][k], store.saved[s][k]) BY <2>3, <3>1
      <4>2. Restored(k, store.saved[s][k], user[s][k])
        BY <2>2, <2>5, <3>1 DEF Quiet
      <4>3. value'[s][k] \in States /\ store.saved[s][k] \in States /\ user[s][k] \in States
        BY <1>1, <2>2, <2>7, <3>1 DEF TypeInv
      <4> QED BY <4>1, <4>2, <4>3, RestoredTransitive
    <3>2. CASE <<s, k>> # <<b.at, ch>>
      BY <1>1, <2>3, <3>2 DEF UntouchedTrue
    <3> QED BY <3>1, <3>2
  <2>9. ASSUME NEW s \in Services, NEW k \in Settings, <<s, k>> \in applied' \ drift
        PROVE  s \in DOMAIN store.saved /\ ~Restored(k, value'[s][k], store.saved[s][k])
    <3>1. CASE s = b.at /\ k = ch BY <2>2, <2>3, <2>9, <3>1
    <3>2. CASE <<s, k>> # <<b.at, ch>> BY <1>1, <2>1, <2>3, <2>9, <3>2 DEF FileTrue
    <3> QED BY <3>1, <3>2
  <2>10. ASSUME NEW s \in Services, NEW k \in Settings, Quiet(store, s, k)
         PROVE  /\ Restored(k, store.saved[s][k], user[s][k])
                /\ Between(k, value'[s][k], store.saved[s][k], store.cfg)
    <3>1. CASE s = b.at /\ k = ch BY <2>4, <2>5, <2>10, <3>1
    <3>2. CASE <<s, k>> # <<b.at, ch>> BY <1>1, <2>1, <2>3, <2>10, <3>2 DEF FileTrue
    <3> QED BY <3>1, <3>2
  <2>11. FileTrue' BY <1>2, <2>9, <2>10 DEF FileTrue, Quiet
  <2>12. NothingLeft' /\ UserEndpoints'
    BY <1>1, <1>2, <2>1 DEF NothingLeft, UserEndpoints, HasEvidence
  <2> QED BY <2>6, <2>8, <2>11, <2>12 DEF SafeInv
<1> QED BY <1>2, <1>3, <1>4

LEMMA ServicesDoneSafe ==
    ASSUME SafeInv, RouteInv', NEW p, Procs = {p}, _services_done(p)
    PROVE  SafeInv'
<1> DEFINE b == call[p]
           c == call'[p]
<1>1. RouteInv /\ TypeInv /\ TypeInv' /\ CallSafe(b) /\ FileTrue BY DEF SafeInv, RouteInv
<1>2. /\ b.pc = "run" /\ b.script = <<>> /\ b.todo = {}
      /\ UNCHANGED <<value, store, applied, user, drift>>
  BY <1>1, ServicesDoneEffect DEF world
<1>3. /\ store = b.payload /\ HasEvidence /\ applied \subseteq Services \X Settings
      /\ DOMAIN store.saved \subseteq Services
  BY <1>1, <1>2, WorkingFile DEF TypeInv, Cells
<1>4. CASE c.pc = "idle" BY <1>1, <1>2, <1>4, CalmSafe, QuietStepSafe
<1>5. CASE c.pc = "run" /\ c.op = "rearm" /\ c.script = <<>>
  <2>1. CallSafe(call[p])' BY <1>5 DEF CallSafe
  <2> QED BY <1>2, <2>1, QuietStepSafe
<1>6. CASE /\ c.pc = "clear" /\ c.script = <<>>
           /\ \/ b.op = "rollback" /\ b.ok = TRUE
              \/ /\ b.op = "disable"
                 /\ \A s \in DOMAIN b.payload.saved : ServiceRestored(s, b.payload)
  <2>1. ASSUME NEW s \in Services, NEW ch \in Settings, <<s, ch>> \in applied \ drift
        PROVE  FALSE
    <3>1. CASE b.op = "rollback" /\ b.ok = TRUE
      <4>1. HasChannel(b.script, ch) BY <1>1, <1>2, <2>1, <3>1 DEF CallSafe
      <4> QED BY <1>2, <4>1, Nothing DEF HasChannel
    <3>2. CASE \A t \in DOMAIN b.payload.saved : ServiceRestored(t, b.payload)
      <4>1. s \in DOMAIN store.saved /\ ~Restored(ch, value[s][ch], store.saved[s][ch])
        BY <1>1, <1>3, <2>1 DEF FileTrue
      <4> QED BY <1>3, <3>2, <4>1 DEF ServiceRestored
    <3> QED BY <1>6, <3>1, <3>2
  <2>2. applied \subseteq drift BY <1>3, <2>1
  <2>3. CallSafe(call[p])' BY <1>2, <1>6, <2>2 DEF CallSafe
  <2> QED BY <1>2, <2>3, QuietStepSafe
<1> QED BY <1>1, <1>4, <1>5, <1>6, ServicesDoneEffect

LEMMA ClearSafe ==
    ASSUME SafeInv, RouteInv', NEW p, Procs = {p}, _clear(p)
    PROVE  SafeInv'
<1>1. RouteInv /\ TypeInv /\ TypeInv' /\ CallSafe(call[p]) /\ UserEndpoints /\ UntouchedTrue
  BY DEF SafeInv, RouteInv
<1>2. /\ call[p].pc = "clear" /\ UNCHANGED <<value, applied, user, drift>>
      /\ call'[p].pc = "idle" /\ (store' = None \/ UNCHANGED store)
  BY <1>1, ClearEffect DEF world, history
<1>3. CallSafe(call[p])' BY <1>1, <1>2, CalmSafe
<1>4. CASE UNCHANGED store BY <1>2, <1>3, <1>4, QuietStepSafe
<1>5. CASE store' = None
  <2>1. applied \subseteq drift BY <1>1, <1>2 DEF CallSafe
  <2>2. NothingLeft' BY <1>2, <2>1 DEF NothingLeft
  <2>3. FileTrue' BY <1>5 DEF FileTrue, HasEvidence
  <2> QED BY <1>1, <1>2, <1>3, <2>2, <2>3 DEF SafeInv, UserEndpoints, UntouchedTrue
<1> QED BY <1>2, <1>4, <1>5

LEMMA SyncSafe ==
    ASSUME SafeInv, RouteInv', NEW p, Procs = {p}, sync_no_proxy(p)
    PROVE  SafeInv'
<1>1. RouteInv /\ TypeInv /\ TypeInv' /\ UserEndpoints /\ NothingLeft /\ UntouchedTrue /\ FileTrue
  BY DEF SafeInv, RouteInv
<1>2. /\ UNCHANGED <<value, applied, user, drift>> /\ call'[p].pc = "idle"
      /\ store \in Payloads /\ store' \in Payloads /\ store'.saved = store.saved
      /\ store'.cfg.upstream = store.cfg.upstream
  BY <1>1, SyncEffect DEF world, history
<1>3. CallSafe(call[p])' BY <1>1, <1>2, CalmSafe
<1>4. HasEvidence /\ store' # None BY <1>2, PayloadIs DEF HasEvidence
<1>5. Routed(store'.cfg) = Routed(store.cfg) BY <1>2 DEF Routed
<1>6. \A ch, v, saved : Between(ch, v, saved, store'.cfg) <=> Between(ch, v, saved, store.cfg)
  BY <1>5 DEF Between
<1>7. FileTrue' BY <1>1, <1>2, <1>4, <1>6 DEF FileTrue, Quiet
<1> QED BY <1>1, <1>2, <1>3, <1>4, <1>7 DEF SafeInv, UserEndpoints, NothingLeft, UntouchedTrue

LEMMA WorldSafe ==
    ASSUME OnHasEndpoint, SafeInv, RouteInv', NEW p, Procs = {p}, World
    PROVE  SafeInv'
<1>1. /\ RouteInv /\ TypeInv /\ CallSafe(call[p]) /\ CallTyped(call[p])
      /\ UserEndpoints /\ NothingLeft /\ UntouchedTrue /\ FileTrue
  BY CallIs DEF SafeInv, RouteInv
<1>2. TypeInv' /\ UNCHANGED call BY <1>1, WorldEffect
<1>3. ASSUME NEW s \in Services, NEW ch \in Settings, Rewritten(s, ch),
             value'[s][ch] \in ForeignValues[ch] \/ value'[s][ch].on = FALSE
      PROVE  SafeInv'
  <2>1. /\ UNCHANGED <<store, call>> /\ user'[s][ch] = value'[s][ch]
        /\ \A t \in Services, k \in Settings : <<t, k>> # <<s, ch>> =>
             value'[t][k] = value[t][k] /\ user'[t][k] = user[t][k]
        /\ applied' = applied \ {<<s, ch>>}
    BY <1>3 DEF Rewritten
  <2>2. ch \in Web => EndpointIfOn(user'[s][ch])
    BY <1>3, <2>1 DEF OnHasEndpoint, EndpointIfOn, Web
  <2>3. Web \subseteq Settings BY DEF Web, Settings, Manual
  <2>4. UserEndpoints' BY <1>1, <2>1, <2>2, <2>3 DEF UserEndpoints
  <2>5. \A t \in Services, k \in Settings : <<t, k>> # <<s, ch>> =>
          (<<t, k>> \in applied' <=> <<t, k>> \in applied) /\ (<<t, k>> \in drift' <=> <<t, k>> \in drift)
    BY <1>3, <2>1 DEF Rewritten
  <2>6. <<s, ch>> \notin applied' BY <2>1
  <2>7. ASSUME NEW t \in Services, NEW k \in Settings, <<t, k>> \notin applied' \cup drift'
        PROVE  Restored(k, value'[t][k], user'[t][k])
    <3>1. CASE t = s /\ k = ch BY <2>1, <3>1, RestoredReflexive
    <3>2. CASE <<t, k>> # <<s, ch>>
      BY <1>1, <2>1, <2>5, <2>7, <3>2 DEF UntouchedTrue
    <3> QED BY <3>1, <3>2
  <2>8. UntouchedTrue' BY <2>7 DEF UntouchedTrue
  <2>9. CASE drift' = drift \cup {<<s, ch>>}
    <3>1. NothingLeft' BY <1>1, <2>1, <2>9 DEF NothingLeft
    <3>2. \A t \in Services, k \in Settings : <<t, k>> \notin drift' =>
            /\ <<t, k>> \notin drift /\ value'[t][k] = value[t][k] /\ user'[t][k] = user[t][k]
            /\ <<t, k>> \in applied' => <<t, k>> \in applied
      BY <2>1, <2>5, <2>9
    <3>3. FileTrue' BY <1>1, <2>1, <3>2 DEF FileTrue, HasEvidence, Quiet
    <3>4. CallSafe(call[p])'
      <4> DEFINE c == call[p]
      <4>1. c.pc = "run" /\ c.op = "enable" =>
              \A t \in Services, k \in Settings :
                <<t, k>> \in applied' \ drift' => t \in c.touched
        BY <1>1, <3>2 DEF CallSafe
      <4>2. c.pc = "run" /\ c.op = "rollback" /\ c.ok =>
              \A t \in Services, k \in Settings :
                <<t, k>> \in applied' \ drift' =>
                  t \in c.todo \/ (t = c.at /\ HasChannel(c.script, k))
        BY <1>1, <3>2 DEF CallSafe
      <4>3. c.pc = "clear" => applied' \subseteq drift'
        BY <1>1, <2>1, <2>9 DEF CallSafe
      <4>4. c.script # <<>> => c.at \in Services
        <5>1. c \in Calls BY <1>1, CallIs
        <5> QED BY <1>1, <5>1, Running DEF CallTyped
      <4>5. ASSUME c.script # <<>>, Restoring(c), NEW k \in Web, k \in Settings,
                   c.at \in DOMAIN c.payload.saved, <<c.at, k>> \notin drift'
            PROVE  \/ c.payload.saved[c.at][k].at \in {Empty, value'[c.at][k].at}
                   \/ Has(c.script, Cmd(k, "set", c.payload.saved[c.at][k].at))
        <5>1. <<c.at, k>> \notin drift /\ value'[c.at][k] = value[c.at][k]
          BY <3>2, <4>4, <4>5
        <5>2. Quiet(c.payload, c.at, k) BY <4>5, <5>1 DEF Quiet
        <5> QED BY <1>1, <4>5, <5>1, <5>2 DEF CallSafe
      <4>6. UNCHANGED call BY <2>1
      <4> QED BY <2>3, <4>1, <4>2, <4>3, <4>5, <4>6 DEF CallSafe, Quiet
    <3> QED BY <2>4, <2>8, <3>1, <3>3, <3>4 DEF SafeInv
  <2>10. CASE /\ store = None /\ (\A q \in Procs : call[q].pc = "idle")
              /\ drift' = drift \ {<<s, ch>>}
    <3>1. NothingLeft' BY <1>1, <2>1, <2>10 DEF NothingLeft
    <3>2. FileTrue' BY <2>1, <2>10 DEF FileTrue, HasEvidence
    <3>3. CallSafe(call[p])' BY <1>2, <2>1, <2>10, CalmSafe
    <3> QED BY <2>4, <2>8, <3>1, <3>2, <3>3 DEF SafeInv
  <2> QED BY <1>3, <2>9, <2>10 DEF Rewritten
<1>4. CASE UNCHANGED <<value, store, history>>
  <2>1. CallSafe(call[p])' BY <1>1, <1>2, <1>4 DEF CallSafe, Quiet, history
  <2> QED BY <1>4, <2>1, QuietStepSafe DEF history
<1>5. CASE store' = Corrupt /\ UNCHANGED <<value, history>> /\ call[p].pc = "idle"
  <2>1. CallSafe(call[p])' BY <1>2, <1>5, CalmSafe
  <2>2. FileTrue' /\ NothingLeft'
    BY <1>5, MacosAssumption DEF FileTrue, HasEvidence, NothingLeft
  <2> QED BY <1>1, <1>5, <2>1, <2>2 DEF SafeInv, UserEndpoints, UntouchedTrue, history
<1> QED BY <1>1, <1>3, <1>4, <1>5, WorldEffect

LEMMA SafeStep ==
    ASSUME OnHasEndpoint, SafeInv, [Next]_vars, NEW p, Procs = {p}
    PROVE  SafeInv'
<1>1. RouteInv /\ TypeInv /\ CallSafe(call[p]) BY DEF SafeInv, RouteInv
<1>2. RouteInv' /\ TypeInv' BY <1>1, RouteStep DEF RouteInv
<1>3. CASE UNCHANGED vars
  <2>1. UNCHANGED <<value, store, applied, user, drift, call>>
    BY <1>3 DEF vars, world, history
  <2>2. CallSafe(call[p])' BY <1>1, <2>1 DEF CallSafe, Quiet
  <2> QED BY <1>2, <2>1, <2>2, QuietStepSafe
<1>4. CASE enable(p)
  <2>1. call'[p].pc \in {"idle", "save"} /\ UNCHANGED <<value, store, applied, user, drift>>
    BY <1>1, <1>4, EnableEffect DEF world
  <2> QED BY <1>2, <2>1, CalmSafe, QuietStepSafe
<1>5. CASE refresh(p) \/ disable(p)
  <2>1. /\ UNCHANGED <<value, store, applied, user, drift>>
        /\ \/ call'[p].pc = "idle"
           \/ /\ call'[p].pc = "run" /\ call'[p].op \in {"pulse", "disable"}
              /\ call'[p].script = <<>>
    BY <1>1, <1>5, RefreshEffect, DisableEffect DEF world, history
  <2>2. CallSafe(call[p])'
    <3>1. CASE call'[p].pc = "idle" BY <1>2, <3>1, CalmSafe
    <3>2. CASE call'[p].pc = "run" /\ call'[p].op \in {"pulse", "disable"}
               /\ call'[p].script = <<>>
      BY <3>2 DEF CallSafe
    <3> QED BY <2>1, <3>1, <3>2
  <2> QED BY <1>2, <2>1, <2>2, QuietStepSafe
<1>6. CASE Crash(p)
  <2>1. call'[p].pc = "idle" /\ UNCHANGED <<value, store, applied, user, drift>>
    BY <1>1, <1>6, CrashEffect DEF world, history
  <2> QED BY <1>2, <2>1, CalmSafe, QuietStepSafe
<1> QED BY <1>2, <1>3, <1>4, <1>5, <1>6, SaveSafe, NextServiceSafe, CommandSafe,
           ServicesDoneSafe, ClearSafe, SyncSafe, WorldSafe DEF Next, Step, World

-----------------------------------------------------------------------------
(* What the user had.                                                            *)

LEMMA SafeIsInductive ==
    ASSUME OnHasEndpoint, NEW p, Procs = {p}
    PROVE  (Init => SafeInv) /\ (SafeInv /\ [Next]_vars => SafeInv')
BY SafeInit, SafeStep

(* Whatever macos_backend.py does, with any number of services and any sequence  *)
(* of failing commands, kills, writes of others and services that come and go,   *)
(* a setting of the user is in force or in the rollback file, up to the          *)
(* endpoints networksetup cannot forget, unless the file was damaged or another  *)
(* program wrote that setting meanwhile.  A web proxy that is on has an endpoint *)
(* (OnHasEndpoint), or _restore_service could not put it back.                   *)
THEOREM MacosOriginalsAreRecoverable ==
    ASSUME OnHasEndpoint, NEW p, Procs = {p}
    PROVE  Spec => []OriginalRecoverable
<1>1. (Init => SafeInv) /\ (SafeInv /\ [Next]_vars => SafeInv') BY SafeIsInductive
<1>2. SafeInv => OriginalRecoverable
  <2> SUFFICES ASSUME SafeInv, NEW s \in Services, NEW ch \in Settings, <<s, ch>> \notin drift
               PROVE  \/ Restored(ch, value[s][ch], user[s][ch])
                      \/ store = Corrupt
                      \/ /\ HasEvidence /\ s \in DOMAIN store.saved
                         /\ Restored(ch, store.saved[s][ch], user[s][ch])
    BY DEF OriginalRecoverable
  <2>1. NothingLeft /\ UntouchedTrue /\ FileTrue BY DEF SafeInv
  <2>2. CASE <<s, ch>> \notin applied BY <2>1, <2>2 DEF UntouchedTrue
  <2>3. CASE <<s, ch>> \in applied /\ store # Corrupt
    <3>1. HasEvidence BY <2>1, <2>3 DEF NothingLeft, HasEvidence
    <3>2. s \in DOMAIN store.saved BY <2>1, <2>3, <3>1 DEF FileTrue
    <3> QED BY <2>1, <3>1, <3>2 DEF FileTrue, Quiet
  <2> QED BY <2>2, <2>3
<1> QED BY <1>1, <1>2, PTL DEF Spec

(* A setting between two commands is one that _restore_plan accepts, where       *)
(* nothing was saved as off with an endpoint of its own.                         *)
LEMMA BetweenIsRecoverable ==
    ASSUME NEW ch \in Settings, NEW v \in States, NEW w \in States, NEW cfg,
           Between(ch, v, w, cfg),
           ch \in Manual \cup {"auto"} /\ ~w.on /\ w.at # Empty
             => ch \in Web /\ w.at \in {Sentinel, cfg.upstream}
    PROVE  Recoverable(ch, v, w, cfg)
<1>1. PICK a \in BOOLEAN, e \in Endpoints : v = [on |-> a, at |-> e] BY DEF States
<1>2. PICK b \in BOOLEAN, g \in Endpoints : w = [on |-> b, at |-> g] BY DEF States
<1>3. CASE ch \in Web
  <2>1. ch \in Manual /\ ch \in {"web", "secure"} BY <1>3 DEF Web, Manual
  <2>2. CASE v = w BY <2>2, RestoredReflexive DEF Recoverable
  <2>3. ASSUME v.on = TRUE, v.at \in {Sentinel, cfg.upstream} PROVE Recoverable(ch, v, w, cfg)
    <3>1. v = [on |-> TRUE, at |-> Sentinel] \/ v = [on |-> TRUE, at |-> cfg.upstream]
      BY <1>1, <2>3
    <3> QED BY <2>1, <3>1 DEF Recoverable, Owned
  <2>4. CASE v \in Routed(cfg) BY <2>3, <2>4 DEF Routed
  <2>5. CASE w.at # Empty /\ v = [on |-> TRUE, at |-> w.at]
    <3>1. v.on = TRUE /\ v.at = w.at BY <2>5
    <3>2. CASE w.on = TRUE
      <4>1. Restored(ch, v, w) BY <2>1, <3>1, <3>2, ManualIs
      <4> QED BY <4>1 DEF Recoverable
    <3>3. CASE w.on = FALSE BY <2>1, <2>3, <2>5, <3>1, <3>3
    <3> QED BY <1>2, <3>2, <3>3
  <2>6. CASE w = [on |-> FALSE, at |-> Empty] /\ ~v.on
    <3>1. w.on = FALSE /\ v.on = FALSE BY <1>1, <2>6
    <3>2. Restored(ch, v, w) BY <2>1, <2>6, <3>1, ManualIs
    <3> QED BY <3>2 DEF Recoverable
  <2> QED BY <1>3, <2>2, <2>4, <2>5, <2>6, BetweenWeb
<1>4. CASE ch \in {"socks", "auto"}
  <2>1. v.at = w.at /\ (v.on => w.on \/ w.at # Empty) BY <1>4 DEF Between, Web
  <2>2. v.on \in BOOLEAN /\ w.on \in BOOLEAN BY <1>1, <1>2
  <2>3. CASE ~v.on
    <3>1. Owned(ch, v, w, cfg) BY <1>4, <2>3 DEF Owned
    <3> QED BY <3>1 DEF Recoverable
  <2>4. CASE v.on
    <3>1. w.on BY <1>4, <2>1, <2>4 DEF Manual, Web
    <3>2. v.on = w.on BY <2>2, <2>4, <3>1
    <3>3. Restored(ch, v, w) BY <1>4, <2>1, <3>2 DEF Restored, Manual
    <3> QED BY <3>3 DEF Recoverable
  <2> QED BY <2>3, <2>4
<1>5. CASE ch = "bypass"
  <2>1. v = w BY <1>5 DEF Between, Web
  <2> QED BY <2>1, RestoredReflexive DEF Recoverable
<1> QED BY <1>3, <1>4, <1>5 DEF Settings, Manual, Web

(* Whatever the launcher leaves behind on any number of services, killed or      *)
(* failing between any two commands of enable, refresh, rollback or disable, its *)
(* own _restore_plan accepts, as long as nothing was saved as off with an        *)
(* endpoint of its own and nobody else wrote the saved settings.                 *)
THEOREM MacosOwnStateIsNeverForeign ==
    ASSUME OnHasEndpoint, NEW p, Procs = {p}
    PROVE  Spec => []OwnStateNeverForeign
<1>1. (Init => SafeInv) /\ (SafeInv /\ [Next]_vars => SafeInv') BY SafeIsInductive
<1>2. SafeInv => OwnStateNeverForeign
  <2> SUFFICES ASSUME SafeInv, HasEvidence, NoDrift(store), ~OffWithEndpoint(store),
                      NEW s \in DOMAIN store.saved, NEW ch \in Settings
               PROVE  Recoverable(ch, value[s][ch], store.saved[s][ch], store.cfg)
    BY DEF OwnStateNeverForeign, ServiceRecoverable
  <2>1. TypeInv /\ FileTrue BY DEF SafeInv, RouteInv
  <2>2. store \in Payloads BY <2>1 DEF TypeInv, HasEvidence
  <2>3. s \in Services /\ store.saved[s][ch] \in States BY <2>2, PayloadIs
  <2>4. value[s][ch] \in States BY <2>1, <2>3 DEF TypeInv
  <2>5. Quiet(store, s, ch) BY DEF Quiet, NoDrift
  <2>6. Between(ch, value[s][ch], store.saved[s][ch], store.cfg)
    BY <2>1, <2>3, <2>5 DEF FileTrue
  <2>7. ch \in Manual \cup {"auto"} /\ ~store.saved[s][ch].on /\ store.saved[s][ch].at # Empty
          => ch \in Web /\ store.saved[s][ch].at \in {Sentinel, store.cfg.upstream}
    BY DEF OffWithEndpoint, Web
  <2> QED BY <2>3, <2>4, <2>6, <2>7, BetweenIsRecoverable
<1> QED BY <1>1, <1>2, PTL DEF Spec

-----------------------------------------------------------------------------
(* The evidence protocol.                                                        *)

(* What the rollback file is needed for, and what a step does to both. *)
Dirty == applied \ drift
Keeps == UNCHANGED Dirty /\ (store' = None <=> store = None) /\ (HasEvidence' <=> HasEvidence)
Captures == store = None /\ Dirty = {} /\ HasEvidence' /\ UNCHANGED Dirty
Discards == HasEvidence /\ Dirty = {} /\ store' = None /\ UNCHANGED Dirty
Spoils == HasEvidence /\ store' = Corrupt /\ UNCHANGED Dirty
Mutates == \E n \in Cells : HasEvidence /\ UNCHANGED store /\ Dirty' = Dirty \cup {n}
Reverts == \E n \in Cells : UNCHANGED store /\ Dirty' = Dirty \ {n}
Evolves == Keeps \/ Captures \/ Discards \/ Spoils \/ Mutates \/ Reverts

LEMMA StepEvolves ==
    ASSUME SafeInv, [Next]_vars, NEW p, Procs = {p}
    PROVE  Evolves
<1>1. RouteInv /\ TypeInv /\ NothingLeft /\ CallSafe(call[p]) BY DEF SafeInv, RouteInv
<1>2. CASE UNCHANGED <<store, applied, drift>>
  BY <1>2 DEF Evolves, Keeps, Dirty, HasEvidence
<1>3. CASE UNCHANGED vars BY <1>2, <1>3 DEF vars, history
<1>4. CASE _save(p)
  <2>1. /\ call[p].pc = "save" /\ UNCHANGED <<applied, drift>>
        /\ store' = call[p].payload \/ UNCHANGED store
    BY <1>1, <1>4, SaveEffect DEF history
  <2>2. store = None /\ call[p].payload \in Payloads
    BY <1>1, <2>1, CallIs DEF RouteInv, CallRouted, CallTyped
  <2>3. Dirty = {} /\ UNCHANGED Dirty BY <1>1, <2>1, <2>2 DEF NothingLeft, Dirty
  <2>4. CASE store' = call[p].payload
    BY <2>2, <2>3, <2>4, PayloadIs DEF Evolves, Captures, HasEvidence
  <2> QED BY <1>2, <2>1, <2>4
<1>5. CASE _clear(p)
  <2>1. /\ call[p].pc = "clear" /\ UNCHANGED <<applied, drift>>
        /\ store' = None \/ UNCHANGED store
    BY <1>1, <1>5, ClearEffect DEF history
  <2>2. HasEvidence BY <1>1, <2>1, WorkingFile
  <2>3. Dirty = {} /\ UNCHANGED Dirty BY <1>1, <2>1 DEF CallSafe, Dirty
  <2> QED BY <1>2, <2>1, <2>2, <2>3 DEF Evolves, Discards
<1>6. CASE _command(p)
  <2> DEFINE cell == <<call[p].at, Head(call[p].script).ch>>
  <2>1. /\ call[p].pc = "run" /\ call[p].script # <<>> /\ UNCHANGED <<store, drift>>
        /\ Done(p) \/ UNCHANGED applied
    BY <1>1, <1>6, CommandEffect
  <2>2. HasEvidence BY <1>1, <2>1, WorkingFile
  <2>3. cell \in Cells BY <1>1, <2>1, AtCommand DEF Cells
  <2>4. ASSUME Done(p) PROVE applied' = applied \ {cell} \/ applied' = applied \cup {cell}
    BY <2>4 DEF Done
  <2> HIDE DEF cell
  <2>5. CASE applied' = applied \ {cell}
    <3>1. Dirty' = Dirty \ {cell} BY <2>1, <2>5 DEF Dirty
    <3> QED BY <2>1, <2>3, <3>1 DEF Evolves, Reverts
  <2>6. CASE applied' = applied \cup {cell} /\ cell \notin drift
    <3>1. Dirty' = Dirty \cup {cell} BY <2>1, <2>6 DEF Dirty
    <3> QED BY <2>1, <2>2, <2>3, <3>1 DEF Evolves, Mutates
  <2>7. CASE applied' = applied \cup {cell} /\ cell \in drift
    <3>1. Dirty' = Dirty BY <2>1, <2>7 DEF Dirty
    <3> QED BY <2>1, <3>1 DEF Evolves, Keeps, HasEvidence
  <2> QED BY <1>2, <2>1, <2>4, <2>5, <2>6, <2>7
<1>7. CASE sync_no_proxy(p)
  <2>1. UNCHANGED <<applied, drift>> /\ store \in Payloads /\ store' \in Payloads
    BY <1>1, <1>7, SyncEffect DEF history
  <2> QED BY <2>1, PayloadIs DEF Evolves, Keeps, HasEvidence, Dirty
<1>8. CASE World
  <2>1. ASSUME NEW s \in Services, NEW ch \in Settings, Rewritten(s, ch)
        PROVE  Evolves
    <3>1. /\ UNCHANGED store /\ applied' = applied \ {<<s, ch>>}
          /\ \/ drift' = drift \cup {<<s, ch>>}
             \/ store = None /\ drift' = drift \ {<<s, ch>>}
      BY <2>1 DEF Rewritten
    <3>2. Dirty' = Dirty \ {<<s, ch>>} BY <1>1, <3>1 DEF Dirty, NothingLeft
    <3> QED BY <3>1, <3>2 DEF Evolves, Reverts, Cells
  <2>2. CASE UNCHANGED <<value, history>> /\ store' = Corrupt /\ HasEvidence
    BY <2>2 DEF Evolves, Spoils, Dirty, history
  <2>3. CASE UNCHANGED <<value, store, history>> BY <1>2, <2>3 DEF history
  <2> QED BY <1>1, <1>8, <2>1, <2>2, <2>3, WorldEffect
<1>9. CASE enable(p) \/ refresh(p) \/ disable(p) \/ Crash(p) \/ _services_done(p)
  <2>1. UNCHANGED <<store, applied, drift>>
    BY <1>9 DEF enable, refresh, disable, Crash, _services_done, history
  <2> QED BY <1>2, <2>1
<1>10. ASSUME NEW s \in Services, _next_service(p, s)
       PROVE  Evolves
  BY <1>2, <1>10 DEF _next_service, history
<1> QED BY <1>3, <1>4, <1>5, <1>6, <1>7, <1>8, <1>9, <1>10 DEF Next, Step, World

(* macos_backend.py implements the evidence protocol with one rollback file for  *)
(* any number of services and any sequence of failing commands, kills, other     *)
(* writers and services that come and go: it changes a setting only with the     *)
(* file on disk and readable, and removes the file only when everything it       *)
(* changed is restored, or was taken over by another program.                    *)
THEOREM MacosImplements ==
    ASSUME OnHasEndpoint, NEW p, Procs = {p}
    PROVE  Spec => EvidenceRefines
<1>1. Init => Evidence!EvidenceInit
  BY DEF Init, Evidence!EvidenceInit
<1>2. SafeInv /\ [Next]_vars => [Evidence!EvidenceNext]_(Evidence!evidenceVars)
  <2> SUFFICES ASSUME SafeInv, [Next]_vars
               PROVE  [Evidence!EvidenceNext]_(Evidence!evidenceVars)
    OBVIOUS
  <2>1. Evolves /\ None # Corrupt
    BY StepEvolves, MacosAssumption
  <2>2. CASE Keeps
    BY <2>1, <2>2 DEF Keeps, HasEvidence, Dirty, Evidence!evidenceVars
  <2>3. CASE Captures
    BY <2>1, <2>3 DEF Captures, HasEvidence, Dirty, Evidence!EvidenceNext, Evidence!Capture
  <2>4. CASE Discards
    BY <2>1, <2>4 DEF Discards, HasEvidence, Dirty, Evidence!EvidenceNext, Evidence!Discard
  <2>5. CASE Spoils
    BY <2>1, <2>5 DEF Spoils, HasEvidence, Dirty, Evidence!EvidenceNext, Evidence!Damage
  <2>6. CASE Mutates
    BY <2>1, <2>6 DEF Mutates, HasEvidence, Dirty, Evidence!EvidenceNext, Evidence!Mutate
  <2>7. CASE Reverts
    BY <2>1, <2>7 DEF Reverts, Dirty, Evidence!EvidenceNext, Evidence!Revert
  <2> QED BY <2>1, <2>2, <2>3, <2>4, <2>5, <2>6, <2>7 DEF Evolves
<1>3. (Init => SafeInv) /\ (SafeInv /\ [Next]_vars => SafeInv') BY SafeIsInductive
<1> QED BY <1>1, <1>2, <1>3, PTL DEF Spec, EvidenceRefines, Evidence!EvidenceSpec

-----------------------------------------------------------------------------
(* What the calls report.                                                        *)

InForce ==
    \A s \in DOMAIN store.saved : \A ch \in {c \in Settings : <<s, c>> \notin drift} :
        Owned(ch, value[s][ch], store.saved[s][ch], store.cfg)

(* A call ends with True only by removing the file, or with the route in force. *)
LEMMA EndsTruthfully ==
    ASSUME SafeInv, [Next]_vars, NEW p, Procs = {p},
           call[p].pc # "idle", call'[p].pc = "idle", call'[p].ok = TRUE
    PROVE  \/ call'[p].op \in {"none", "sync"}
           \/ call'[p].op = "disable" /\ applied' \subseteq drift' /\ store' = None
           \/ call'[p].op \in {"enable", "refresh"} /\ InForce'
<1>1. RouteInv /\ TypeInv /\ CallRouted(call[p]) /\ CallSafe(call[p]) BY DEF SafeInv, RouteInv
<1>2. CASE _clear(p)
  <2>1. /\ call[p].pc = "clear" /\ UNCHANGED <<applied, drift>>
        /\ call'[p].op = "disable" /\ store' = None
    BY <1>1, <1>2, ClearEffect DEF history
  <2> QED BY <1>1, <2>1 DEF CallSafe
<1>3. CASE _services_done(p)
  <2>1. /\ call[p].pc = "run" /\ call[p].script = <<>> /\ call[p].todo = {}
        /\ UNCHANGED <<value, store, drift>>
        /\ \/ call[p].op = "enable" /\ call'[p].op = "enable"
           \/ call'[p].op = "refresh" /\ _payload_is_owned(call[p].payload)
    BY <1>1, <1>3, ServicesDoneEffect DEF world
  <2>2. store = call[p].payload /\ DOMAIN store.saved \subseteq Services
    BY <1>1, <2>1, WorkingFile
  <2>3. CASE call[p].op = "enable"
    <3>1. \A x : ~Has(call[p].script, x)
      <4>1. Len(call[p].script) = 0 BY <2>1
      <4> QED BY <4>1 DEF Has
    <3>2. \A s \in Services, ch \in Settings : Quiet(store, s, ch) =>
            Owned(ch, value[s][ch], store.saved[s][ch], store.cfg)
      BY <1>1, <2>1, <2>2, <2>3, <3>1 DEF CallRouted
    <3>3. InForce BY <2>2, <3>2 DEF InForce, Quiet
    <3> QED BY <2>1, <3>3 DEF InForce
  <2>4. CASE _payload_is_owned(call[p].payload)
    <3>1. \A s \in DOMAIN store.saved, ch \in Settings :
            Owned(ch, value[s][ch], store.saved[s][ch], store.cfg)
      BY <2>2, <2>4, PayloadRouted
    <3>2. InForce BY <3>1 DEF InForce
    <3> QED BY <2>1, <3>2 DEF InForce
  <2> QED BY <2>1, <2>3, <2>4
<1>4. CASE _save(p) BY <1>1, <1>4, SaveEffect
<1>5. CASE _command(p) BY <1>1, <1>5, CommandEffect DEF Done, Fell
<1>6. ASSUME NEW s \in Services, _next_service(p, s) PROVE FALSE
  BY <1>1, <1>6, NextServiceEffect
<1>7. CASE Crash(p) BY <1>1, <1>7, CrashEffect
<1>8. CASE enable(p) \/ refresh(p) \/ disable(p) \/ sync_no_proxy(p)
  BY <1>1, <1>8, EnableEffect, RefreshEffect, DisableEffect, SyncEffect
<1>9. CASE World BY <1>1, <1>9, WorldEffect
<1>10. CASE UNCHANGED vars BY <1>10 DEF vars
<1> QED BY <1>2, <1>3, <1>4, <1>5, <1>6, <1>7, <1>8, <1>9, <1>10 DEF Next, Step, World

(* On any number of services and through any failing commands and other writers, *)
(* a disable that worked says True only with the rollback file gone and every    *)
(* setting restored that nobody else wrote meanwhile, and an enable or a refresh *)
(* only with every saved service routed through the upstream.                    *)
THEOREM MacosReturnsAreTruthful ==
    ASSUME OnHasEndpoint, NEW w, Procs = {w}
    PROVE  Spec => ReturnsAreTruthful
<1> DEFINE Truthful == \A p \in Procs :
         /\ Returns(p, "disable", TRUE) => applied' \subseteq drift' /\ store' = None
         /\ Returns(p, "enable", TRUE) \/ Returns(p, "refresh", TRUE)
              => \A s \in DOMAIN store'.saved :
                   \A ch \in {c \in Settings : <<s, c>> \notin drift'} :
                     Owned(ch, value'[s][ch], store'.saved[s][ch], store'.cfg)
<1>1. (Init => SafeInv) /\ (SafeInv /\ [Next]_vars => SafeInv') BY SafeIsInductive
<1>2. SafeInv /\ [Next]_vars => [Truthful]_vars
  <2> SUFFICES ASSUME SafeInv, [Next]_vars
               PROVE  Truthful
    OBVIOUS
  <2>1. Returns(w, "disable", TRUE) => applied' \subseteq drift' /\ store' = None
    BY EndsTruthfully DEF Returns
  <2>2. Returns(w, "enable", TRUE) \/ Returns(w, "refresh", TRUE) => InForce'
    BY EndsTruthfully DEF Returns
  <2> QED BY <2>1, <2>2 DEF InForce
<1>3. [][Truthful]_vars <=> ReturnsAreTruthful
  BY DEF ReturnsAreTruthful
<1> QED BY <1>1, <1>2, <1>3, PTL DEF Spec
=============================================================================
