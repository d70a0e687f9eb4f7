-------------------------- MODULE DataPlaneProofs --------------------------
(* Proofs about the WinDivert session and the local transport, for any           *)
(* connections, ports, exclusions, upstreams, failure limit and scenarios.       *)
EXTENDS DataPlane, TLAPS

USE PortsAssumption, TransportAssumption, DataPlaneAssumption

-----------------------------------------------------------------------------
(* Inductive invariants.                                                         *)

Live(c) == phase[c] # "new" /\ c \notin over

PortTyped ==
    /\ session \in BOOLEAN
    /\ stop_ \in {"no", "set", "shut"} /\ ended \subseteq {"socket", "network"}
    /\ phase \in [Conns -> {"new", "open", "closed"}]
    /\ events \in Seq({"CONNECT", "CLOSE"} \X Conns)
    /\ packets \in Seq(Packets)
    /\ decisions \in [Ports -> Decisions]
    /\ network \in {Receiving} \cup [pc : {"wait", "commit"}, packet : Conns \X {"out"}]
    /\ quota \in [Packets -> Nat]
    /\ sent \in [Conns -> Seq({"Direct", "Proxy"})]
    /\ stray \subseteq Conns /\ over \subseteq Conns /\ tail \subseteq Conns

(* A port has one live connection at a time; ... *)
PortsExclusive ==
    \A c, d \in Conns : Port[c] = Port[d] /\ Live(c) /\ Live(d) => c = d

(* ... the events in the queue are of live connections, a CLOSE the last one;    *)
EventsAreLive ==
    /\ \A c \in Conns, i \in 1..Len(events) : events[i][2] = c =>
         /\ Live(c)
         /\ events[i][1] = "CLOSE" =>
              /\ phase[c] = "closed"
              /\ \A j \in (i + 1)..Len(events) : events[j][2] # c
    /\ \A c \in over : phase[c] = "closed"

(* what the packets say of their connections;                                    *)
PacketsAreOpened ==
    /\ \A c \in Conns : phase[c] = "new" => sent[c] = <<>>
    /\ \A i \in 1..Len(packets) :
         /\ phase[packets[i][1]] # "new"
         /\ packets[i][2] = "back" =>
              \E k \in DOMAIN sent[packets[i][1]] : sent[packets[i][1]][k] = "Direct"
    /\ network # Receiving => phase[network.packet[1]] # "new"

(* how the table bears out what was sent.  The wait of a running session gives   *)
(* up only before the first packet of a live connection, so only the first can   *)
(* go another way;                                                               *)
TableFollows ==
    session => \A c \in Conns : Live(c) =>
       /\ sent[c] # <<>> => decisions[Port[c]] # "None"
       /\ \A i \in DOMAIN sent[c] :
            i > 1 \/ sent[c][i] = "Direct" =>
              sent[c][i] = decisions[Port[c]] \/ (c \in tail /\ i = Len(sent[c]))
       /\ stop_ = "no" /\ network.pc = "commit" /\ network.packet[1] = c => sent[c] = <<>>

(* and a thread whose loop finds stop_ set has its last packet behind it.        *)
LastIsLast ==
    /\ stop_ = "no" => ended = {}
    /\ "network" \in ended => network = Receiving
    /\ session /\ tail # {} => "network" \in ended

PortInv ==
    /\ PortTyped /\ PortsExclusive /\ EventsAreLive /\ PacketsAreOpened /\ TableFollows
    /\ LastIsLast /\ DirectOnlyForExcluded /\ SettledAfterFirst

(* A thread. *)
Threads ==
    [pc : {"none", "read", "direct", "ask", "try", "success", "failure", "record",
           "relay", "done"},
     listener : Listeners, kind : Kinds, todo : SUBSET Indices, report : Statuses,
     next : {"none", "try", "refuse", "relay"}, exit : {"none", "direct", "upstream"}]

(* A thread that tries an upstream, or will once it has published the last       *)
(* failure, has one left; the counts of failures are covered by those lost.      *)
TransportInv ==
    /\ listening \subseteq Listeners /\ stopping \in BOOLEAN
    /\ up \in [Indices -> BOOLEAN] /\ blocked \in [Indices -> BOOLEAN]
    /\ failures \in [Indices -> 0..(UPSTREAM_FAILURE_LIMIT - 1)]
    /\ lost \in [Indices -> 0..UPSTREAM_FAILURE_LIMIT]
    /\ health \in Statuses /\ age \in Ages /\ left \in [Events -> Nat]
    /\ handler \in [Clients -> Threads]
    /\ \A c \in Clients :
         /\ handler[c].pc \in {"try", "success", "failure"} => handler[c].todo # {}
         /\ handler[c].pc = "record" <=> handler[c].next # "none"
         /\ handler[c].next = "try" => handler[c].todo # {}
    /\ \A i \in Indices : failures[i] <= lost[i]
    /\ CooldownIsEarned

-----------------------------------------------------------------------------
(* Sequences.                                                                    *)

LEMMA AppendElements ==
    ASSUME NEW T, NEW s \in Seq(T), NEW e \in T
    PROVE  /\ Append(s, e) \in Seq(T) /\ Len(s) \in Nat /\ Len(Append(s, e)) = Len(s) + 1
           /\ Append(s, e)[Len(s) + 1] = e
           /\ \A i \in 1..Len(s) : Append(s, e)[i] = s[i]
           /\ DOMAIN Append(s, e) = 1..(Len(s) + 1) /\ DOMAIN s = 1..Len(s)
  OBVIOUS

LEMMA TailElements ==
    ASSUME NEW T, NEW s \in Seq(T), s # <<>>
    PROVE  /\ Tail(s) \in Seq(T) /\ Len(s) \in Nat \ {0} /\ Len(Tail(s)) = Len(s) - 1
           /\ Head(s) = s[1] /\ Head(s) \in T
           /\ \A i \in 1..(Len(s) - 1) : Tail(s)[i] = s[i + 1]
  OBVIOUS

-----------------------------------------------------------------------------
(* The session, one action at a time.                                            *)

LEMMA PortInitInv ==
    ASSUME NEW s \in Scenarios, PortInit(s)
    PROVE  PortInv
  <1>1. /\ s.session \in BOOLEAN /\ s.early \subseteq Conns /\ s.quota \in [Packets -> Nat]
        /\ \A c, d \in s.early : c # d => Port[c] # Port[d]
    OBVIOUS
  <1>2. PortTyped
    BY <1>1 DEF PortInit, PortTyped, Decisions, Receiving
  <1>3. PortsExclusive
    BY <1>1 DEF PortInit, PortsExclusive, Live
  <1>4. EventsAreLive /\ PacketsAreOpened /\ TableFollows
    BY <1>1 DEF PortInit, EventsAreLive, PacketsAreOpened, TableFollows, Receiving
  <1>5. LastIsLast /\ DirectOnlyForExcluded /\ SettledAfterFirst
    BY DEF PortInit, LastIsLast, DirectOnlyForExcluded, SettledAfterFirst
  <1> QED BY <1>2, <1>3, <1>4, <1>5 DEF PortInv

LEMMA ConnectKeeps ==
    ASSUME PortInv, NEW c \in Conns, Connect(c)
    PROVE  PortInv'
  <1> DEFINE n == Len(events)
  <1>0. PortTyped /\ PortsExclusive /\ EventsAreLive /\ PacketsAreOpened /\ TableFollows
        /\ LastIsLast /\ DirectOnlyForExcluded /\ SettledAfterFirst
    BY DEF PortInv
  <1>1. /\ phase[c] = "new" /\ session
        /\ UNCHANGED <<session, stop_, ended>>
        /\ \A d \in Sharing(c) : phase[d] # "new" => d \in over
        /\ phase' = [phase EXCEPT ![c] = "open"]
        /\ events' = Append(events, <<"CONNECT", c>>)
        /\ UNCHANGED <<control, packets, decisions, network, quota, sent, stray, over, tail>>
    BY DEF Connect, Diverting, control
  <1>2. /\ events' \in Seq({"CONNECT", "CLOSE"} \X Conns) /\ n \in Nat /\ Len(events') = n + 1
        /\ events'[n + 1] = <<"CONNECT", c>> /\ \A i \in 1..n : events'[i] = events[i]
    <2>1. events \in Seq({"CONNECT", "CLOSE"} \X Conns)
          /\ <<"CONNECT", c>> \in {"CONNECT", "CLOSE"} \X Conns
      BY <1>0 DEF PortTyped
    <2> QED BY <1>1, <2>1, AppendElements
  <1>3. /\ \A d \in Conns \ {c} : phase'[d] = phase[d]
        /\ phase'[c] = "open" /\ c \notin over
    BY <1>0, <1>1 DEF PortTyped, EventsAreLive
  <1>4. \A d \in Conns : Live(d)' <=> Live(d) \/ d = c
    BY <1>1, <1>3 DEF Live
  <1>a. PortTyped'
    BY <1>0, <1>1, <1>2 DEF PortTyped
  <1>b. PortsExclusive'
    BY <1>0, <1>1, <1>3, <1>4 DEF PortsExclusive, Sharing, Live
  <1>c. EventsAreLive'
    <2>1. \A i \in 1..n : events[i][2] \in Conns /\ events[i][2] # c
      BY <1>0, <1>1, <1>2 DEF EventsAreLive, Live, PortTyped
    <2>2. ASSUME NEW d \in Conns, NEW i \in 1..(n + 1), events'[i][2] = d
          PROVE  /\ Live(d)'
                 /\ events'[i][1] = "CLOSE" =>
                      phase'[d] = "closed" /\ \A j \in (i + 1)..(n + 1) : events'[j][2] # d
      <3>1. CASE i = n + 1
        BY <1>2, <1>4, <2>2, <3>1
      <3>2. CASE i \in 1..n
        <4>1. events[i][2] = d /\ d # c /\ Live(d)
              /\ (events[i][1] = "CLOSE" =>
                    phase[d] = "closed" /\ \A j \in (i + 1)..n : events[j][2] # d)
          BY <1>0, <1>2, <2>1, <2>2, <3>2 DEF EventsAreLive
        <4>2. \A j \in (i + 1)..(n + 1) : j \in 1..n \/ j = n + 1
          BY <1>2, <3>2
        <4>3. events'[n + 1][2] = c
          BY <1>2
        <4> QED BY <1>2, <1>3, <1>4, <3>2, <4>1, <4>2, <4>3
      <3> QED BY <1>2, <3>1, <3>2
    <2>3. \A d \in over' : phase'[d] = "closed"
      BY <1>0, <1>1, <1>3 DEF EventsAreLive, PortTyped
    <2> QED BY <1>2, <2>2, <2>3 DEF EventsAreLive
  <1>d. PacketsAreOpened'
    BY <1>0, <1>1, <1>3 DEF PacketsAreOpened, PortTyped, Packets, Receiving
  <1>e. TableFollows'
    BY <1>0, <1>1, <1>3, <1>4 DEF TableFollows, PacketsAreOpened, PortTyped, Receiving
  <1>f. DirectOnlyForExcluded'
    BY <1>0, <1>1, <1>3 DEF DirectOnlyForExcluded
  <1>g. LastIsLast' /\ SettledAfterFirst'
    BY <1>0, <1>1 DEF LastIsLast, SettledAfterFirst
  <1> QED BY <1>a, <1>b, <1>c, <1>d, <1>e, <1>f, <1>g DEF PortInv

(* A packet more in the queue. *)
LEMMA EmitKeeps ==
    ASSUME PortInv, NEW c \in Conns, NEW dir \in {"out", "back"}, Emit(c, dir),
           phase[c] # "new", dir = "back" => \E k \in DOMAIN sent[c] : sent[c][k] = "Direct"
    PROVE  PortInv'
  <1> DEFINE n == Len(packets)
  <1>0. PortTyped /\ PortsExclusive /\ EventsAreLive /\ PacketsAreOpened /\ TableFollows
        /\ LastIsLast /\ DirectOnlyForExcluded /\ SettledAfterFirst
    BY DEF PortInv
  <1>1. /\ quota[<<c, dir>>] > 0 /\ quota' = [quota EXCEPT ![<<c, dir>>] = @ - 1]
        /\ packets' = Append(packets, <<c, dir>>)
        /\ UNCHANGED <<session, stop_, ended, phase, events, decisions, network, sent, stray,
                       over, tail>>
    BY DEF Emit, control
  <1>2. /\ packets' \in Seq(Packets) /\ n \in Nat /\ Len(packets') = n + 1
        /\ packets'[n + 1] = <<c, dir>> /\ \A i \in 1..n : packets'[i] = packets[i]
    <2>1. packets \in Seq(Packets) /\ <<c, dir>> \in Packets
      BY <1>0 DEF PortTyped, Packets
    <2> QED BY <1>1, <2>1, AppendElements
  <1>a. PortTyped'
    <2>1. quota' \in [Packets -> Nat]
      BY <1>0, <1>1 DEF PortTyped, Packets
    <2> QED BY <1>0, <1>1, <1>2, <2>1 DEF PortTyped
  <1>b. PacketsAreOpened'
    <2>1. ASSUME NEW i \in 1..(n + 1)
          PROVE  /\ phase'[packets'[i][1]] # "new"
                 /\ packets'[i][2] = "back" => \E k \in DOMAIN sent'[packets'[i][1]] :
                                                 sent'[packets'[i][1]][k] = "Direct"
      <3>1. CASE i = n + 1
        <4>1. packets'[i][1] = c /\ packets'[i][2] = dir
          BY <1>2, <3>1
        <4> QED BY <1>1, <4>1
      <3>2. CASE i \in 1..n
        <4>1. packets'[i] = packets[i] /\ phase' = phase /\ sent' = sent
          BY <1>1, <1>2, <3>2
        <4>2. /\ phase[packets[i][1]] # "new"
              /\ packets[i][2] = "back" =>
                   \E k \in DOMAIN sent[packets[i][1]] : sent[packets[i][1]][k] = "Direct"
          BY <1>0, <3>2 DEF PacketsAreOpened
        <4> QED BY <4>1, <4>2
      <3> QED BY <1>2, <3>1, <3>2
    <2> QED BY <1>0, <1>1, <1>2, <2>1 DEF PacketsAreOpened, Receiving
  <1>c. PortsExclusive' /\ EventsAreLive' /\ TableFollows'
    BY <1>0, <1>1 DEF PortsExclusive, EventsAreLive, TableFollows, Live
  <1>d. LastIsLast' /\ DirectOnlyForExcluded' /\ SettledAfterFirst'
    BY <1>0, <1>1 DEF LastIsLast, DirectOnlyForExcluded, SettledAfterFirst
  <1> QED BY <1>a, <1>b, <1>c, <1>d DEF PortInv

LEMMA SendKeeps ==
    ASSUME PortInv, NEW c \in Conns, Send(c)
    PROVE  PortInv'
  BY EmitKeeps DEF Send

LEMMA AnswerKeeps ==
    ASSUME PortInv, NEW c \in Conns, Answer(c)
    PROVE  PortInv'
  <1>1. Emit(c, "back") /\ \E k \in DOMAIN sent[c] : sent[c][k] = "Direct"
    BY DEF Answer
  <1>2. sent[c] # <<>>
    BY <1>1
  <1>3. phase[c] # "new"
    BY <1>2 DEF PortInv, PacketsAreOpened
  <1> QED BY <1>1, <1>3, EmitKeeps

LEMMA CloseKeeps ==
    ASSUME PortInv, NEW c \in Conns, Close(c)
    PROVE  PortInv'
  <1> DEFINE n == Len(events)
  <1>0. PortTyped /\ PortsExclusive /\ EventsAreLive /\ PacketsAreOpened /\ TableFollows
        /\ LastIsLast /\ DirectOnlyForExcluded /\ SettledAfterFirst
    BY DEF PortInv
  <1>1. /\ phase[c] = "open"
        /\ UNCHANGED <<session, stop_, ended>>
        /\ phase' = [phase EXCEPT ![c] = "closed"]
        /\ events' = Append(events, <<"CLOSE", c>>)
        /\ UNCHANGED <<control, packets, decisions, network, quota, sent, stray, over, tail>>
    BY DEF Close, control
  <1>2. /\ events' \in Seq({"CONNECT", "CLOSE"} \X Conns) /\ n \in Nat /\ Len(events') = n + 1
        /\ events'[n + 1] = <<"CLOSE", c>> /\ \A i \in 1..n : events'[i] = events[i]
    <2>1. events \in Seq({"CONNECT", "CLOSE"} \X Conns)
          /\ <<"CLOSE", c>> \in {"CONNECT", "CLOSE"} \X Conns
      BY <1>0 DEF PortTyped
    <2> QED BY <1>1, <2>1, AppendElements
  <1>3. /\ \A d \in Conns \ {c} : phase'[d] = phase[d]
        /\ phase'[c] = "closed" /\ c \notin over
    BY <1>0, <1>1 DEF PortTyped, EventsAreLive
  <1>4. \A d \in Conns : /\ Live(d)' <=> Live(d)
                         /\ phase'[d] = "new" <=> phase[d] = "new"
                         /\ phase[d] = "closed" => d # c /\ phase'[d] = "closed"
    BY <1>1, <1>3 DEF Live
  <1>a. PortTyped'
    BY <1>0, <1>1, <1>2 DEF PortTyped
  <1>b. PortsExclusive'
    BY <1>0, <1>4 DEF PortsExclusive
  <1>c. EventsAreLive'
    <2>2. ASSUME NEW d \in Conns, NEW i \in 1..(n + 1), events'[i][2] = d
          PROVE  /\ Live(d)'
                 /\ events'[i][1] = "CLOSE" =>
                      phase'[d] = "closed" /\ \A j \in (i + 1)..(n + 1) : events'[j][2] # d
      <3>1. CASE i = n + 1
        <4>1. d = c /\ Live(c)
          BY <1>1, <1>2, <1>3, <2>2, <3>1 DEF Live
        <4> QED BY <1>2, <1>3, <1>4, <3>1, <4>1
      <3>2. CASE i \in 1..n
        <4>1. events[i][2] = d /\ Live(d)
              /\ (events[i][1] = "CLOSE" =>
                    phase[d] = "closed" /\ \A j \in (i + 1)..n : events[j][2] # d)
          BY <1>0, <1>2, <2>2, <3>2 DEF EventsAreLive
        <4>2. \A j \in (i + 1)..(n + 1) : j \in 1..n \/ j = n + 1
          BY <1>2, <3>2
        <4>3. events'[n + 1][2] = c
          BY <1>2
        <4> QED BY <1>2, <1>4, <3>2, <4>1, <4>2, <4>3
      <3> QED BY <1>2, <3>1, <3>2
    <2>3. \A d \in over' : phase'[d] = "closed"
      BY <1>0, <1>1, <1>4 DEF EventsAreLive, PortTyped
    <2> QED BY <1>2, <2>2, <2>3 DEF EventsAreLive
  <1>d. PacketsAreOpened'
    BY <1>0, <1>1, <1>4 DEF PacketsAreOpened, PortTyped, Packets, Receiving
  <1>e. TableFollows'
    BY <1>0, <1>1, <1>4 DEF TableFollows
  <1>f. DirectOnlyForExcluded'
    BY <1>0, <1>1, <1>4 DEF DirectOnlyForExcluded
  <1>g. LastIsLast' /\ SettledAfterFirst'
    BY <1>0, <1>1 DEF LastIsLast, SettledAfterFirst
  <1> QED BY <1>a, <1>b, <1>c, <1>d, <1>e, <1>f, <1>g DEF PortInv

(* An event is handled: a decision is noted, or forgotten with its connection. *)
LEMMA SocketLoopKeeps ==
    ASSUME PortInv, SocketLoop
    PROVE  PortInv'
  <1> DEFINE n == Len(events)
             c == Head(events)[2]
  <1>0. PortTyped /\ PortsExclusive /\ EventsAreLive /\ PacketsAreOpened /\ TableFollows
        /\ LastIsLast /\ DirectOnlyForExcluded /\ SettledAfterFirst
    BY DEF PortInv
  <1>1. /\ session /\ events # <<>> /\ events' = Tail(events)
        /\ UNCHANGED <<session, stop_, phase, packets, network, quota, sent, stray, tail>>
        /\ Loop("socket")
        /\ \/ /\ Head(events)[1] = "CONNECT"
              /\ \E d \in ProcessPathMatches(c) : ClassifyPort(Port[c], d)
              /\ over' = over
           \/ /\ Head(events)[1] = "CLOSE"
              /\ RemovePortDecision(Port[c])
              /\ over' = over \cup {c}
    BY DEF SocketLoop
  <1>2. /\ events' \in Seq({"CONNECT", "CLOSE"} \X Conns) /\ n \in Nat \ {0}
        /\ Len(events') = n - 1
        /\ Head(events) = events[1] /\ Head(events) \in {"CONNECT", "CLOSE"} \X Conns
        /\ \A i \in 1..(n - 1) : events'[i] = events[i + 1]
    <2>1. events \in Seq({"CONNECT", "CLOSE"} \X Conns)
      BY <1>0 DEF PortTyped
    <2> QED BY <1>1, <2>1, TailElements
  <1>3. c \in Conns /\ Live(c) /\ Port[c] \in Ports
        /\ (Head(events)[1] = "CLOSE" =>
              /\ phase[c] = "closed"
              /\ \A j \in 2..n : events[j][2] # c)
    <2>1. c \in Conns /\ 1 \in 1..n /\ events[1][2] = c
      BY <1>2
    <2>2. 1 + 1 = 2
      OBVIOUS
    <2> QED BY <1>0, <2>1, <2>2 DEF EventsAreLive, Ports
  <1> HIDE DEF c
  <1>6. ended' \subseteq {"socket", "network"} /\ LastIsLast'
    BY <1>0, <1>1 DEF Loop, LastIsLast, PortTyped
  <1>4. ASSUME Head(events)[1] = "CONNECT" PROVE PortInv'
    <2>0. PICK classified \in ProcessPathMatches(c) : ClassifyPort(Port[c], classified)
      BY <1>1, <1>4
    <2>6. classified \in {"Direct", "Proxy"} /\ (classified = "Direct" => c \in Excluded)
      BY <2>0 DEF ProcessPathMatches
    <2>1. over' = over /\ (\A d \in Conns : Live(d)' <=> Live(d))
      BY <1>1, <1>4 DEF Live
    <2>2. decisions' = [decisions EXCEPT ![Port[c]] = IF @ = "None" THEN classified ELSE @]
      BY <2>0 DEF ClassifyPort, Emplace
    <2>3. \A q \in Ports : /\ decisions[q] # "None" => decisions'[q] = decisions[q]
                           /\ q # Port[c] => decisions'[q] = decisions[q]
                           /\ decisions'[q] \in {decisions[q], classified}
      BY <1>0, <1>3, <2>2 DEF PortTyped
    <2>a. PortTyped'
      <3>1. decisions' \in [Ports -> Decisions]
        BY <1>0, <1>3, <2>2, <2>6 DEF PortTyped, Decisions
      <3> QED BY <1>0, <1>1, <1>2, <1>6, <2>1, <3>1 DEF PortTyped
    <2>b. PortsExclusive'
      BY <1>0, <2>1 DEF PortsExclusive
    <2>c. EventsAreLive'
      <3>1. ASSUME NEW d \in Conns, NEW i \in 1..(n - 1), events'[i][2] = d
            PROVE  /\ Live(d)'
                   /\ events'[i][1] = "CLOSE" =>
                        phase'[d] = "closed" /\ \A j \in (i + 1)..(n - 1) : events'[j][2] # d
        <4>1. i + 1 \in 1..n /\ events'[i] = events[i + 1]
          BY <1>2
        <4>2. Live(d) /\ (events[i + 1][1] = "CLOSE" =>
                 phase[d] = "closed" /\ \A j \in ((i + 1) + 1)..n : events[j][2] # d)
          BY <1>0, <3>1, <4>1 DEF EventsAreLive
        <4>3. \A j \in (i + 1)..(n - 1) :
                j + 1 \in ((i + 1) + 1)..n /\ events'[j] = events[j + 1]
          BY <1>2
        <4> QED BY <1>1, <2>1, <4>1, <4>2, <4>3
      <3> QED BY <1>0, <1>1, <1>2, <2>1, <3>1 DEF EventsAreLive
    <2>d. PacketsAreOpened'
      BY <1>0, <1>1 DEF PacketsAreOpened, Receiving
    <2>e. TableFollows'
      <3>1. ASSUME NEW d \in Conns, Live(d)
            PROVE  /\ sent[d] # <<>> => decisions'[Port[d]] # "None"
                   /\ \A i \in DOMAIN sent[d] :
                        i > 1 \/ sent[d][i] = "Direct" =>
                          sent[d][i] = decisions'[Port[d]] \/ (d \in tail /\ i = Len(sent[d]))
                   /\ stop_ = "no" /\ network.pc = "commit" /\ network.packet[1] = d =>
                        sent[d] = <<>>
        <4>1. CASE sent[d] = <<>>
          BY <4>1
        <4>2. CASE sent[d] # <<>>
          <5>1. decisions[Port[d]] # "None" /\ Port[d] \in Ports
            BY <1>0, <1>1, <3>1, <4>2 DEF TableFollows, Ports
          <5>2. decisions'[Port[d]] = decisions[Port[d]]
            BY <2>3, <5>1
          <5> QED BY <1>0, <1>1, <3>1, <5>1, <5>2 DEF TableFollows
        <4> QED BY <4>1, <4>2
      <3> QED BY <1>1, <2>1, <3>1 DEF TableFollows
    <2>f. DirectOnlyForExcluded'
      <3>1. \A q \in Ports : decisions'[q] = "Direct" =>
              \E d \in Excluded : Port[d] = q /\ phase[d] # "new" /\ d \notin over
        BY <1>0, <1>3, <2>3, <2>6 DEF DirectOnlyForExcluded, Live
      <3> QED BY <1>0, <1>1, <2>1, <3>1 DEF DirectOnlyForExcluded
    <2>g. SettledAfterFirst'
      BY <1>0, <1>1 DEF SettledAfterFirst
    <2> QED BY <1>6, <2>a, <2>b, <2>c, <2>d, <2>e, <2>f, <2>g DEF PortInv
  <1>5. ASSUME Head(events)[1] = "CLOSE" PROVE PortInv'
    <2>1. over' = over \cup {c} /\ (\A d \in Conns : Live(d)' <=> Live(d) /\ d # c)
      BY <1>1, <1>5 DEF Live
    <2>2. decisions' = [decisions EXCEPT ![Port[c]] = "None"]
      BY <1>1, <1>5 DEF RemovePortDecision
    <2>3. \A q \in Ports \ {Port[c]} : decisions'[q] = decisions[q]
      BY <1>0, <1>3, <2>2 DEF PortTyped
    <2>4. \A d \in Conns : Live(d)' => Port[d] \in Ports \ {Port[c]}
      BY <1>0, <1>3, <2>1 DEF PortsExclusive, Ports
    <2>a. PortTyped'
      <3>1. decisions' \in [Ports -> Decisions]
        BY <1>0, <1>3, <2>2 DEF PortTyped, Decisions
      <3> QED BY <1>0, <1>1, <1>2, <1>3, <1>6, <2>1, <3>1 DEF PortTyped
    <2>b. PortsExclusive'
      BY <1>0, <2>1 DEF PortsExclusive
    <2>c. EventsAreLive'
      <3>1. ASSUME NEW d \in Conns, NEW i \in 1..(n - 1), events'[i][2] = d
            PROVE  /\ Live(d)'
                   /\ events'[i][1] = "CLOSE" =>
                        phase'[d] = "closed" /\ \A j \in (i + 1)..(n - 1) : events'[j][2] # d
        <4>1. i + 1 \in 1..n /\ i + 1 \in 2..n /\ events'[i] = events[i + 1]
          BY <1>2
        <4>2. Live(d) /\ (events[i + 1][1] = "CLOSE" =>
                 phase[d] = "closed" /\ \A j \in ((i + 1) + 1)..n : events[j][2] # d)
          BY <1>0, <3>1, <4>1 DEF EventsAreLive
        <4>3. ASSUME NEW j \in (i + 1)..(n - 1)
              PROVE  j + 1 \in ((i + 1) + 1)..n /\ events'[j] = events[j + 1]
          <5>1. j \in 1..(n - 1) /\ j + 1 \in ((i + 1) + 1)..n
            BY <1>2, <4>3
          <5> QED BY <1>2, <5>1
        <4>4. d # c
          BY <1>3, <1>5, <3>1, <4>1
        <4> QED BY <1>1, <2>1, <4>1, <4>2, <4>3, <4>4
      <3>2. \A d \in over' : phase'[d] = "closed"
        BY <1>0, <1>1, <1>3, <1>5, <2>1 DEF EventsAreLive
      <3> QED BY <1>2, <3>1, <3>2 DEF EventsAreLive
    <2>d. PacketsAreOpened'
      BY <1>0, <1>1 DEF PacketsAreOpened, Receiving
    <2>e. TableFollows'
      BY <1>0, <1>1, <2>1, <2>3, <2>4 DEF TableFollows
    <2>f. DirectOnlyForExcluded'
      <3>1. ASSUME NEW q \in Ports, decisions'[q] = "Direct"
            PROVE  \E d \in Excluded : Port[d] = q /\ phase'[d] # "new" /\ d \notin over'
        <4>1. q # Port[c] /\ decisions[q] = "Direct"
          BY <1>0, <1>3, <2>2, <2>3, <3>1 DEF PortTyped
        <4> QED BY <1>0, <1>1, <2>1, <4>1 DEF DirectOnlyForExcluded
      <3> QED BY <1>0, <1>1, <3>1 DEF DirectOnlyForExcluded
    <2>g. SettledAfterFirst'
      BY <1>0, <1>1 DEF SettledAfterFirst
    <2> QED BY <1>6, <2>a, <2>b, <2>c, <2>d, <2>e, <2>f, <2>g DEF PortInv
  <1> QED BY <1>1, <1>4, <1>5

(* NetworkLoop takes a packet; an answer finds the port of a direct connection. *)
LEMMA NetworkLoopKeeps ==
    ASSUME PortInv, NetworkLoop
    PROVE  PortInv'
  <1> DEFINE n == Len(packets)
             p == Head(packets)
  <1>0. PortTyped /\ PortsExclusive /\ EventsAreLive /\ PacketsAreOpened /\ TableFollows
        /\ LastIsLast /\ DirectOnlyForExcluded /\ SettledAfterFirst
    BY DEF PortInv
  <1>1. /\ session /\ network = Receiving /\ packets # <<>> /\ packets' = Tail(packets)
        /\ UNCHANGED <<session, stop_, phase, events, decisions, quota, sent, over, tail>>
        /\ "network" \notin ended
        /\ \/ /\ p[2] = "out" /\ network' = [pc |-> "wait", packet |-> p]
              /\ stray' = stray /\ ended' = ended
           \/ /\ p[2] = "back" /\ network' = network /\ Loop("network")
              /\ stray' = IF IsDirectPort(Port[p[1]]) \/ p[1] \in over THEN stray
                          ELSE stray \cup {p[1]}
    BY DEF NetworkLoop
  <1>2. /\ packets' \in Seq(Packets) /\ n \in Nat \ {0} /\ Len(packets') = n - 1
        /\ p = packets[1] /\ p \in Packets /\ 1 \in 1..n
        /\ \A i \in 1..(n - 1) : packets'[i] = packets[i + 1] /\ i + 1 \in 1..n
    <2>1. packets \in Seq(Packets)
      BY <1>0 DEF PortTyped
    <2> QED BY <1>1, <2>1, TailElements
  <1>3. p[1] \in Conns /\ phase[p[1]] # "new"
        /\ (p[2] = "back" => \E k \in DOMAIN sent[p[1]] : sent[p[1]][k] = "Direct")
    BY <1>0, <1>2 DEF PacketsAreOpened, Packets
  <1> HIDE DEF p
  <1>5. tail = {} /\ ended' \subseteq {"socket", "network"} /\ LastIsLast'
    BY <1>0, <1>1 DEF LastIsLast, Loop, PortTyped
  <1>4. stray' = stray
    <2>1. ASSUME p[2] = "back", p[1] \notin over
          PROVE  IsDirectPort(Port[p[1]])
      BY <1>0, <1>1, <1>3, <1>5, <2>1 DEF TableFollows, Live, IsDirectPort
    <2> QED BY <1>1, <2>1
  <1>a. PortTyped'
    <2>1. p[2] = "out" => p \in Conns \X {"out"}
      BY <1>2 DEF Packets
    <2>2. network' \in {Receiving} \cup [pc : {"wait", "commit"}, packet : Conns \X {"out"}]
      BY <1>1, <2>1
    <2> QED BY <1>0, <1>1, <1>2, <1>4, <1>5, <2>2 DEF PortTyped
  <1>b. PacketsAreOpened'
    <2>1. network' # Receiving => phase'[network'.packet[1]] # "new"
      BY <1>1, <1>3
    <2>2. ASSUME NEW i \in 1..(n - 1)
          PROVE  /\ phase'[packets'[i][1]] # "new"
                 /\ packets'[i][2] = "back" => \E k \in DOMAIN sent'[packets'[i][1]] :
                                                 sent'[packets'[i][1]][k] = "Direct"
      <3>1. packets'[i] = packets[i + 1] /\ i + 1 \in 1..n /\ phase' = phase /\ sent' = sent
        BY <1>1, <1>2
      <3>2. /\ phase[packets[i + 1][1]] # "new"
            /\ packets[i + 1][2] = "back" =>
                 \E k \in DOMAIN sent[packets[i + 1][1]] : sent[packets[i + 1][1]][k] = "Direct"
        BY <1>0, <3>1 DEF PacketsAreOpened
      <3> QED BY <3>1, <3>2
    <2>3. \A d \in Conns : phase'[d] = "new" => sent'[d] = <<>>
      BY <1>0, <1>1 DEF PacketsAreOpened
    <2> QED BY <1>2, <2>1, <2>2, <2>3 DEF PacketsAreOpened, Receiving
  <1>c. TableFollows'
    <2>1. network'.pc # "commit"
      BY <1>1 DEF Receiving
    <2> QED BY <1>0, <1>1, <2>1 DEF TableFollows, Live
  <1>d. PortsExclusive' /\ EventsAreLive'
    BY <1>0, <1>1 DEF PortsExclusive, EventsAreLive, Live
  <1>e. DirectOnlyForExcluded' /\ SettledAfterFirst'
    BY <1>0, <1>1, <1>4 DEF DirectOnlyForExcluded, SettledAfterFirst
  <1> QED BY <1>5, <1>a, <1>b, <1>c, <1>d, <1>e DEF PortInv

(* The packet in hand is sent on: the next one of a live connection goes where   *)
(* the table says, or it is the first one, or the last one of all.               *)
LEMMA ForwardKeeps ==
    ASSUME PortInv, session, network # Receiving,
           NEW c, c = network.packet[1], NEW d \in {"Direct", "Proxy"}, Forward(c, d),
           UNCHANGED <<session, stop_, phase, events, packets, quota, stray, over>>,
           decisions' \in [Ports -> Decisions],
           \A q \in Ports : decisions[q] # "None" => decisions'[q] = decisions[q],
           \A q \in Ports : decisions'[q] = "Direct" => decisions[q] = "Direct",
           decisions'[Port[c]] # "None",
           stop_ # "no" => d = "Proxy",
           \/ decisions'[Port[c]] = d
           \/ d = "Proxy" /\ (stop_ # "no" \/ (c \notin over => sent[c] = <<>>))
    PROVE  PortInv'
  <1>0. PortTyped /\ PortsExclusive /\ EventsAreLive /\ PacketsAreOpened /\ TableFollows
        /\ LastIsLast /\ DirectOnlyForExcluded /\ SettledAfterFirst
    BY DEF PortInv
  <1>1. c \in Conns /\ phase[c] # "new" /\ Port[c] \in Ports
    BY <1>0 DEF PortTyped, PacketsAreOpened, Ports
  <1> DEFINE posted == c \notin over /\ stop_ # "shut"
             n == Len(sent[c])
  <1>2. /\ network' = Receiving /\ Loop("network")
        /\ posted => /\ sent' = [sent EXCEPT ![c] = Append(@, d)]
                     /\ tail' = IF stop_ = "no" THEN tail ELSE tail \cup {c}
        /\ ~posted => sent' = sent /\ tail' = tail
    BY DEF Forward
  <1>10. tail = {} /\ tail' \subseteq {c} /\ (tail' # {} => posted /\ stop_ # "no")
    BY <1>0, <1>2 DEF LastIsLast
  <1>11. ended' \subseteq {"socket", "network"} /\ LastIsLast'
    BY <1>0, <1>2, <1>10 DEF LastIsLast, Loop, PortTyped
  <1>3. sent \in [Conns -> Seq({"Direct", "Proxy"})]
    BY <1>0 DEF PortTyped
  <1>4. \A b \in Conns \ {c} : sent'[b] = sent[b]
    BY <1>1, <1>2, <1>3
  <1>5. ~posted => sent' = sent
    BY <1>2
  <1>6. posted => sent'[c] = Append(sent[c], d)
    BY <1>1, <1>2, <1>3
  <1>7. posted =>
          /\ sent'[c] \in Seq({"Direct", "Proxy"}) /\ n \in Nat
          /\ Len(sent'[c]) = n + 1
          /\ DOMAIN sent'[c] = 1..(n + 1) /\ DOMAIN sent[c] = 1..n
          /\ sent'[c][n + 1] = d /\ \A i \in 1..n : sent'[c][i] = sent[c][i]
    <2>1. sent[c] \in Seq({"Direct", "Proxy"})
      BY <1>1, <1>3
    <2>2. /\ Append(sent[c], d) \in Seq({"Direct", "Proxy"}) /\ n \in Nat
          /\ Len(Append(sent[c], d)) = n + 1
          /\ DOMAIN Append(sent[c], d) = 1..(n + 1) /\ DOMAIN sent[c] = 1..n
          /\ Append(sent[c], d)[n + 1] = d
          /\ \A i \in 1..n : Append(sent[c], d)[i] = sent[c][i]
      BY <2>1, AppendElements
    <2> QED BY <1>6, <2>2
  <1>12. posted => c \notin over
    OBVIOUS
  <1> HIDE DEF posted
  <1>8. c \notin over /\ d = "Direct" => c \in Excluded
    <2>1. ASSUME c \notin over, d = "Direct" PROVE c \in Excluded
      <3>1. decisions[Port[c]] = "Direct"
        BY <1>1, <2>1
      <3>2. PICK b \in Excluded : Port[b] = Port[c] /\ phase[b] # "new" /\ b \notin over
        BY <1>0, <1>1, <3>1 DEF DirectOnlyForExcluded
      <3>3. b = c
        BY <1>0, <1>1, <2>1, <3>2 DEF PortsExclusive, Live
      <3> QED BY <3>2, <3>3
    <2> QED BY <2>1
  <1>9. \A b \in Conns : Live(b)' <=> Live(b)
    BY DEF Live
  <1>a. PortTyped'
    <2>1. sent' \in [Conns -> Seq({"Direct", "Proxy"})]
      BY <1>1, <1>2, <1>3, <1>6, <1>7
    <2> QED BY <1>0, <1>1, <1>2, <1>10, <1>11, <2>1 DEF PortTyped
  <1>b. PortsExclusive' /\ EventsAreLive'
    BY <1>0 DEF PortsExclusive, EventsAreLive, Live
  <1>c. PacketsAreOpened'
    <2>1. \A b \in Conns : phase'[b] = "new" => sent'[b] = <<>>
      BY <1>0, <1>1, <1>4 DEF PacketsAreOpened
    <2>2. ASSUME NEW b \in Conns, NEW k \in DOMAIN sent[b], sent[b][k] = "Direct"
          PROVE  k \in DOMAIN sent'[b] /\ sent'[b][k] = "Direct"
      <3>1. CASE b = c /\ posted
        <4>1. k \in 1..n /\ k \in 1..(n + 1) /\ sent[c][k] = "Direct"
          BY <1>7, <2>2, <3>1
        <4> QED BY <1>7, <3>1, <4>1
      <3>2. CASE sent'[b] = sent[b]
        BY <2>2, <3>2
      <3> QED BY <1>4, <1>5, <3>1, <3>2
    <2>3. ASSUME NEW i \in 1..Len(packets)
          PROVE  /\ phase[packets[i][1]] # "new"
                 /\ packets[i][2] = "back" =>
                     \E k \in DOMAIN sent'[packets[i][1]] : sent'[packets[i][1]][k] = "Direct"
      <3>1. packets[i][1] \in Conns
        BY <1>0 DEF PortTyped, Packets
      <3> QED BY <1>0, <2>2, <3>1 DEF PacketsAreOpened
    <2> QED BY <1>2, <2>1, <2>3 DEF PacketsAreOpened, Receiving
  <1>d. TableFollows'
    <2>1. network'.pc # "commit"
      BY <1>2 DEF Receiving
    <2>2. ASSUME NEW b \in Conns, Live(b)
          PROVE  /\ sent'[b] # <<>> => decisions'[Port[b]] # "None"
                 /\ \A i \in DOMAIN sent'[b] :
                      i > 1 \/ sent'[b][i] = "Direct" =>
                        \/ sent'[b][i] = decisions'[Port[b]]
                        \/ b \in tail' /\ i = Len(sent'[b])
      <3>1. CASE b = c /\ posted
        <4>2. ASSUME NEW i \in 1..n, i > 1 \/ sent[c][i] = "Direct"
              PROVE  sent[c][i] = decisions'[Port[c]]
          <5>1. sent[c] # <<>>
            BY <1>1, <1>3, <1>7, <3>1
          <5>2. decisions[Port[c]] # "None"
            BY <1>0, <1>1, <2>2, <3>1, <5>1 DEF TableFollows
          <5>3. decisions'[Port[c]] = decisions[Port[c]]
            BY <1>1, <5>2
          <5> QED BY <1>0, <1>1, <1>7, <1>10, <2>2, <3>1, <4>2, <5>3 DEF TableFollows
        <4>3. n + 1 > 1 \/ d = "Direct" => d = decisions'[Port[c]] \/ c \in tail'
          BY <1>1, <1>2, <1>3, <1>7, <1>12, <3>1
        <4>4. \A i \in 1..(n + 1) : i \in 1..n \/ i = n + 1
          BY <1>7, <3>1
        <4>5. ASSUME NEW i \in DOMAIN sent'[c], i > 1 \/ sent'[c][i] = "Direct"
              PROVE  \/ sent'[c][i] = decisions'[Port[c]]
                     \/ c \in tail' /\ i = Len(sent'[c])
          <5>1. CASE i \in 1..n
            BY <1>7, <3>1, <4>2, <4>5, <5>1
          <5>2. CASE i = n + 1
            BY <1>7, <3>1, <4>3, <4>5, <5>2
          <5> QED BY <1>7, <3>1, <4>4, <5>1, <5>2
        <4>6. decisions'[Port[c]] # "None"
          OBVIOUS
        <4> QED BY <3>1, <4>5, <4>6
      <3>2. CASE sent'[b] = sent[b]
        <4>1. Port[b] \in Ports
          BY DEF Ports
        <4>2. CASE sent[b] = <<>>
          BY <3>2, <4>2
        <4>3. CASE sent[b] # <<>>
          <5>1. decisions'[Port[b]] = decisions[Port[b]]
            BY <1>0, <2>2, <4>1, <4>3 DEF TableFollows
          <5> QED BY <1>0, <1>10, <2>2, <3>2, <4>1, <5>1 DEF TableFollows
        <4> QED BY <4>2, <4>3
      <3> QED BY <1>4, <1>5, <3>1, <3>2
    <2> QED BY <1>9, <2>1, <2>2 DEF TableFollows
  <1>e. DirectOnlyForExcluded'
    <2>1. ASSUME NEW b \in Conns \ Excluded, NEW i \in DOMAIN sent'[b]
          PROVE  sent'[b][i] = "Proxy"
      <3>1. CASE b = c /\ posted
        <4>1. d = "Proxy"
          BY <1>8, <1>12, <3>1
        <4>2. i \in 1..n \/ i = n + 1
          BY <1>7, <3>1
        <4>3. CASE i \in 1..n
          <5>1. sent[c][i] = "Proxy" /\ sent'[c][i] = sent[c][i]
            BY <1>0, <1>1, <1>7, <3>1, <4>3 DEF DirectOnlyForExcluded
          <5> QED BY <3>1, <5>1
        <4>4. CASE i = n + 1
          BY <1>7, <3>1, <4>1, <4>4
        <4> QED BY <4>2, <4>3, <4>4
      <3>2. CASE sent'[b] = sent[b]
        BY <1>0, <3>2 DEF DirectOnlyForExcluded
      <3> QED BY <1>4, <1>5, <3>1, <3>2
    <2> QED BY <1>0, <2>1 DEF DirectOnlyForExcluded
  <1>f. SettledAfterFirst'
    <2>1. ASSUME NEW b \in Conns, NEW i \in 2..Len(sent'[b]), NEW j \in 2..Len(sent'[b])
          PROVE  sent'[b][i] = sent'[b][j] \/ (b \in tail' /\ Len(sent'[b]) \in {i, j})
      <3>1. CASE b = c /\ posted
        <4>1. i > 1 /\ j > 1 /\ i \in DOMAIN sent'[c] /\ j \in DOMAIN sent'[c]
          BY <1>7, <2>1, <3>1
        <4>2. Live(c)' /\ session'
          BY <1>1, <1>12, <3>1 DEF Live
        <4> QED BY <1>1, <1>d, <3>1, <4>1, <4>2 DEF TableFollows
      <3>2. CASE sent'[b] = sent[b]
        BY <1>0, <1>10, <3>2 DEF SettledAfterFirst
      <3> QED BY <1>4, <1>5, <3>1, <3>2
    <2>2. ASSUME NEW b \in tail'
          PROVE  sent'[b][Len(sent'[b])] = "Proxy" /\ tail' = {b}
      BY <1>7, <1>10, <2>2
    <2> QED BY <1>0, <2>1, <2>2 DEF SettledAfterFirst
  <1> QED BY <1>a, <1>b, <1>c, <1>d, <1>e, <1>f, <1>11 DEF PortInv

LEMMA WaitKeeps ==
    ASSUME PortInv, WaitForPortDecision
    PROVE  PortInv'
  <1> DEFINE c == network.packet[1]
             d == decisions[Port[c]]
  <1>1. /\ session /\ network.pc = "wait" /\ d # "None" /\ Forward(c, d)
        /\ UNCHANGED <<session, stop_, phase, events, packets, decisions, quota, stray, over>>
        /\ stop_ = "no"
    BY DEF WaitForPortDecision
  <1>2. network # Receiving
    BY <1>1 DEF Receiving
  <1>3. c \in Conns /\ Port[c] \in Ports /\ decisions \in [Ports -> Decisions]
    BY <1>2 DEF PortInv, PortTyped, Ports
  <1>4. d \in {"Direct", "Proxy"}
    BY <1>1, <1>3 DEF Decisions
  <1> HIDE DEF c
  <1>5. network.packet[1] = c
    BY DEF c
  <1> QED BY <1>1, <1>2, <1>3, <1>4, <1>5, ForwardKeeps

LEMMA TimeoutKeeps ==
    ASSUME PortInv, WaitTimeout
    PROVE  PortInv'
  <1>0. PortTyped /\ PortsExclusive /\ EventsAreLive /\ PacketsAreOpened /\ TableFollows
        /\ LastIsLast /\ DirectOnlyForExcluded /\ SettledAfterFirst
    BY DEF PortInv
  <1>1. /\ session /\ network.pc = "wait"
        /\ stop_ # "no" \/ decisions[Port[network.packet[1]]] = "None"
        /\ network' = [network EXCEPT !.pc = "commit"]
        /\ UNCHANGED <<session, stop_, ended, phase, events, packets, decisions, quota, sent,
                       stray, over, tail>>
    BY DEF WaitTimeout, control
  <1>2. /\ network \in [pc : {"wait", "commit"}, packet : Conns \X {"out"}]
        /\ network # Receiving
    BY <1>0, <1>1 DEF PortTyped, Receiving
  <1>3. /\ network' \in [pc : {"wait", "commit"}, packet : Conns \X {"out"}]
        /\ network'.packet = network.packet
    BY <1>1, <1>2
  <1>a. PortTyped'
    BY <1>0, <1>1, <1>3 DEF PortTyped
  <1>b. PacketsAreOpened'
    BY <1>0, <1>1, <1>2, <1>3 DEF PacketsAreOpened
  <1>c. TableFollows'
    BY <1>0, <1>1, <1>3 DEF TableFollows, Live
  <1>d. PortsExclusive' /\ EventsAreLive'
    BY <1>0, <1>1 DEF PortsExclusive, EventsAreLive, Live
  <1>e. LastIsLast' /\ DirectOnlyForExcluded' /\ SettledAfterFirst'
    BY <1>0, <1>1, <1>2 DEF LastIsLast, DirectOnlyForExcluded, SettledAfterFirst
  <1> QED BY <1>a, <1>b, <1>c, <1>d, <1>e DEF PortInv

LEMMA CommitKeeps ==
    ASSUME PortInv, CommitProxyIfUnknown
    PROVE  PortInv'
  <1> DEFINE c == network.packet[1]
  <1>1. /\ session /\ network.pc = "commit" /\ Emplace(Port[c], "Proxy") /\ Forward(c, "Proxy")
        /\ UNCHANGED <<session, stop_, phase, events, packets, quota, stray, over>>
    BY DEF CommitProxyIfUnknown
  <1>2. network # Receiving
    BY <1>1 DEF Receiving
  <1>3. c \in Conns /\ Port[c] \in Ports /\ decisions \in [Ports -> Decisions]
        /\ phase[c] # "new"
    BY <1>2 DEF PortInv, PortTyped, Ports, PacketsAreOpened
  <1>4. stop_ # "no" \/ (c \notin over => sent[c] = <<>>)
    BY <1>1, <1>3 DEF PortInv, TableFollows, Live
  <1> HIDE DEF c
  <1>5. decisions' = [decisions EXCEPT ![Port[c]] = IF @ = "None" THEN "Proxy" ELSE @]
    BY <1>1 DEF Emplace
  <1>6. /\ decisions' \in [Ports -> Decisions] /\ decisions'[Port[c]] # "None"
        /\ \A q \in Ports : decisions[q] # "None" => decisions'[q] = decisions[q]
        /\ \A q \in Ports : decisions'[q] = "Direct" => decisions[q] = "Direct"
    BY <1>3, <1>5 DEF Decisions
  <1>7. network.packet[1] = c
    BY DEF c
  <1> QED BY <1>1, <1>2, <1>4, <1>6, <1>7, ForwardKeeps

LEMMA LeaveKeeps ==
    ASSUME PortInv, NEW thread \in {"socket", "network"}, Leave(thread)
    PROVE  PortInv'
  <1>0. PortTyped /\ PortsExclusive /\ EventsAreLive /\ PacketsAreOpened /\ TableFollows
        /\ LastIsLast /\ DirectOnlyForExcluded /\ SettledAfterFirst
    BY DEF PortInv
  <1>1. /\ stop_ # "no" /\ ended' = ended \cup {thread}
        /\ thread = "network" => network = Receiving
        /\ UNCHANGED <<session, stop_, phase, events, packets, decisions, network, quota,
                       sent, stray, over, tail>>
    BY DEF Leave, Loop
  <1>a. PortTyped' /\ LastIsLast'
    BY <1>0, <1>1 DEF PortTyped, LastIsLast
  <1>b. PortsExclusive' /\ EventsAreLive' /\ PacketsAreOpened'
    BY <1>0, <1>1 DEF PortsExclusive, EventsAreLive, PacketsAreOpened, Receiving, Live
  <1>d. TableFollows'
    BY <1>0, <1>1 DEF TableFollows, Live
  <1>c. DirectOnlyForExcluded' /\ SettledAfterFirst'
    BY <1>0, <1>1 DEF DirectOnlyForExcluded, SettledAfterFirst
  <1> QED BY <1>a, <1>b, <1>c, <1>d DEF PortInv

(* StopLocked until it joins the threads. *)
LEMMA StopKeeps ==
    ASSUME PortInv, StopLocked \/ ShutDown
    PROVE  PortInv'
  <1>0. PortTyped /\ PortsExclusive /\ EventsAreLive /\ PacketsAreOpened /\ TableFollows
        /\ LastIsLast /\ DirectOnlyForExcluded /\ SettledAfterFirst
    BY DEF PortInv
  <1>1. /\ stop_' \in {"set", "shut"}
        /\ UNCHANGED <<session, ended, phase, events, packets, decisions, network, quota,
                       sent, stray, over, tail>>
    BY DEF StopLocked, ShutDown
  <1>a. PortTyped' /\ LastIsLast'
    BY <1>0, <1>1 DEF PortTyped, LastIsLast
  <1>b. PortsExclusive' /\ EventsAreLive' /\ PacketsAreOpened'
    BY <1>0, <1>1 DEF PortsExclusive, EventsAreLive, PacketsAreOpened, Receiving, Live
  <1>d. TableFollows'
    BY <1>0, <1>1 DEF TableFollows, Live
  <1>c. DirectOnlyForExcluded' /\ SettledAfterFirst'
    BY <1>0, <1>1 DEF DirectOnlyForExcluded, SettledAfterFirst
  <1> QED BY <1>a, <1>b, <1>c, <1>d DEF PortInv

LEMMA JoinKeeps ==
    ASSUME PortInv, Join
    PROVE  PortInv'
  <1>0. PortTyped /\ PortsExclusive /\ EventsAreLive /\ PacketsAreOpened /\ TableFollows
        /\ LastIsLast /\ DirectOnlyForExcluded /\ SettledAfterFirst
    BY DEF PortInv
  <1>1. /\ session' = FALSE /\ stop_' = "no" /\ ended' = {}
        /\ events' = <<>> /\ packets' = <<>> /\ network' = Receiving
        /\ decisions' = [q \in Ports |-> "None"]
        /\ UNCHANGED <<phase, quota, sent, stray, over, tail>>
    BY DEF Join
  <1>a. PortTyped'
    <2>1. decisions' \in [Ports -> Decisions]
      BY <1>1 DEF Decisions
    <2>2. events' \in Seq({"CONNECT", "CLOSE"} \X Conns) /\ packets' \in Seq(Packets)
      BY <1>1
    <2> QED BY <1>0, <1>1, <2>1, <2>2 DEF PortTyped
  <1>b. PortsExclusive' /\ EventsAreLive' /\ PacketsAreOpened' /\ TableFollows' /\ LastIsLast'
    BY <1>0, <1>1 DEF PortsExclusive, EventsAreLive, PacketsAreOpened, TableFollows, Live,
                      LastIsLast, Receiving
  <1>c. DirectOnlyForExcluded' /\ SettledAfterFirst'
    BY <1>0, <1>1 DEF DirectOnlyForExcluded, SettledAfterFirst
  <1> QED BY <1>a, <1>b, <1>c DEF PortInv

LEMMA PortStep ==
    ASSUME PortInv, [PortNext]_portVars
    PROVE  PortInv'
  <1>1. CASE UNCHANGED portVars
    BY <1>1 DEF portVars, control, PortInv, PortTyped, PortsExclusive, EventsAreLive, Live,
         PacketsAreOpened, TableFollows, LastIsLast, DirectOnlyForExcluded,
         SettledAfterFirst, Receiving
  <1>2. CASE PortNext
    BY <1>2, ConnectKeeps, SendKeeps, AnswerKeeps, CloseKeeps, SocketLoopKeeps,
       NetworkLoopKeeps, WaitKeeps, TimeoutKeeps, CommitKeeps, LeaveKeeps, StopKeeps,
       JoinKeeps DEF PortNext, SocketThread, NetworkThread, Stopping
  <1> QED BY <1>1, <1>2

-----------------------------------------------------------------------------
(* The transport.                                                                *)

(* What TransportInv says of one thread. *)
ThreadOK(h) ==
    /\ h \in Threads
    /\ h.pc \in {"try", "success", "failure"} => h.todo # {}
    /\ h.pc = "record" <=> h.next # "none"
    /\ h.next = "try" => h.todo # {}

(* A step of one thread that leaves the counts alone. *)
LEMMA GoKeeps ==
    ASSUME TransportInv, NEW c \in Clients, NEW h, ThreadOK(h), Go(c, h),
           UNCHANGED <<failures, blocked, lost>>,
           listening' \subseteq Listeners, stopping' \in BOOLEAN, up' \in [Indices -> BOOLEAN],
           health' \in Statuses, age' \in Ages, left' \in [Events -> Nat]
    PROVE  TransportInv'
  <1>1. handler' \in [Clients -> Threads]
        /\ \A d \in Clients : handler'[d] = IF d = c THEN h ELSE handler[d]
    BY DEF TransportInv, Go, ThreadOK
  <1> QED BY <1>1 DEF TransportInv, ThreadOK, CooldownIsEarned

LEMMA ThreadsAreOK ==
    ASSUME TransportInv, NEW c \in Clients
    PROVE  ThreadOK(handler[c])
  BY DEF TransportInv, ThreadOK

LEMMA SpendKeeps ==
    ASSUME TransportInv, NEW k \in Events, Spend(k)
    PROVE  left' \in [Events -> Nat]
  BY DEF TransportInv, Spend

LEMMA EndedOK ==
    ASSUME NEW h, h.listener \in Listeners
    PROVE  ThreadOK(Ended(h)) /\ Ended(h).listener = h.listener
  BY DEF ThreadOK, Threads, Ended, NoThread, Kinds, Statuses

LEMMA TransportInitInv ==
    ASSUME NEW s \in Scenarios, TransportInit(s)
    PROVE  TransportInv
  <1>1. NoThread \in Threads /\ NoThread.pc = "none" /\ NoThread.next = "none"
    BY DEF Threads, NoThread, Listeners, Kinds, Statuses
  <1>2. /\ listening \subseteq Listeners /\ stopping \in BOOLEAN
        /\ up \in [Indices -> BOOLEAN] /\ blocked \in [Indices -> BOOLEAN]
        /\ left \in [Events -> Nat] /\ health \in Statuses /\ age \in Ages
    <2>1. listening \subseteq Listeners /\ left \in [Events -> Nat] /\ stopping = FALSE
      BY DEF TransportInit
    <2>2. up \in [Indices -> BOOLEAN]
      <3>1. up = [i \in Indices |-> i \in s.up]
        BY DEF TransportInit
      <3>2. \A i \in Indices : (i \in s.up) \in BOOLEAN
        OBVIOUS
      <3> QED BY <3>1, <3>2, Zenon
    <2>3. blocked \in [Indices -> BOOLEAN]
      BY Zenon DEF TransportInit
    <2>4. health \in Statuses /\ age \in Ages
      BY DEF TransportInit, Statuses, Ages
    <2> QED BY <2>1, <2>2, <2>3, <2>4
  <1>3. /\ failures \in [Indices -> 0..(UPSTREAM_FAILURE_LIMIT - 1)]
        /\ lost \in [Indices -> 0..UPSTREAM_FAILURE_LIMIT]
        /\ \A i \in Indices : failures[i] <= lost[i] /\ ~blocked[i]
    BY DEF TransportInit
  <1>4. handler \in [Clients -> Threads] /\ \A c \in Clients : handler[c] = NoThread
    BY <1>1 DEF TransportInit
  <1> QED BY <1>1, <1>2, <1>3, <1>4 DEF TransportInv, CooldownIsEarned

(* The listeners, the health file's age and the upstreams. *)
LEMMA OutsideKeeps ==
    ASSUME TransportInv,
           start \/ start_direct_listener \/ stop \/ GrowOld
             \/ \E i \in Indices : UpstreamChange(i)
    PROVE  TransportInv' /\ handler' = handler
  <1>1. \E k \in Events : Spend(k)
    BY DEF start, start_direct_listener, stop, GrowOld, UpstreamChange, Events
  <1>2. left' \in [Events -> Nat]
    BY <1>1, SpendKeeps
  <1>3. /\ listening' \subseteq Listeners /\ stopping' \in BOOLEAN /\ age' \in Ages
        /\ up' \in [Indices -> BOOLEAN]
        /\ UNCHANGED <<failures, blocked, lost, health, handler>>
    BY DEF start, start_direct_listener, stop, GrowOld, UpstreamChange, upstreamVars,
           TransportInv, Listeners, Ages
  <1> QED BY <1>2, <1>3 DEF TransportInv, CooldownIsEarned

LEMMA CooldownOverKeeps ==
    ASSUME TransportInv, NEW i \in Indices, CooldownOver(i)
    PROVE  TransportInv' /\ handler' = handler
  <1>1. blocked' \in [Indices -> BOOLEAN] /\ \A j \in Indices : blocked'[j] => blocked[j]
    BY DEF CooldownOver, TransportInv
  <1> QED BY <1>1 DEF CooldownOver, TransportInv, CooldownIsEarned

(* A thread's own steps. *)
LEMMA AcceptKeeps ==
    ASSUME TransportInv, NEW c \in Clients, NEW l \in Listeners, _accept_loop(c, l)
    PROVE  TransportInv'
  <1> DEFINE h == [NoThread EXCEPT !.pc = "read", !.listener = l]
  <1>1. ThreadOK(h)
    BY DEF ThreadOK, Threads, NoThread, Kinds, Statuses
  <1>2. Go(c, h) /\ UNCHANGED <<listening, stopping, up, upstreamVars, health, age, left>>
    BY DEF _accept_loop
  <1> HIDE DEF h
  <1> QED BY <1>1, <1>2, GoKeeps DEF TransportInv, upstreamVars

LEMMA AgainKeeps ==
    ASSUME TransportInv, NEW c \in Clients, Again(c)
    PROVE  TransportInv'
  <1>1. ThreadOK(NoThread)
    BY DEF ThreadOK, Threads, NoThread, Kinds, Statuses, Listeners
  <1>2. Go(c, NoThread) /\ UNCHANGED <<listening, stopping, up, upstreamVars, health, age, left>>
    BY DEF Again
  <1> QED BY <1>1, <1>2, GoKeeps DEF TransportInv, upstreamVars

LEMMA RequestKeeps ==
    ASSUME TransportInv, NEW c \in Clients, NEW kind \in Kinds, _handle_request(c, kind)
    PROVE  TransportInv' /\ \A d \in Clients : handler'[d].listener = handler[d].listener
  <1> DEFINE h == [handler[c] EXCEPT !.kind = kind]
             after == IF kind = "bad" \/ h.listener = "pac" THEN Ended(h)
                      ELSE IF h.listener = "direct" \/ kind = "near"
                        THEN [h EXCEPT !.pc = "direct"]
                      ELSE IF kind = "plain" /\ h.listener = "http"
                        THEN [h EXCEPT !.pc = "try", !.todo = Indices]
                      ELSE [h EXCEPT !.kind = "tunnel", !.pc = "ask"]
  <1>1. ThreadOK(handler[c]) /\ handler[c].pc = "read" /\ handler[c].next = "none"
    BY ThreadsAreOK DEF _handle_request, At, ThreadOK
  <1>2. h \in Threads /\ h.pc = "read" /\ h.next = "none" /\ h.listener = handler[c].listener
    BY <1>1 DEF ThreadOK, Threads
  <1>3. Go(c, after) /\ UNCHANGED <<listening, stopping, up, upstreamVars, health, age>>
    BY DEF _handle_request
  <1>4. left' \in [Events -> Nat]
    <2>1. CASE kind = "tunnel"
      BY <2>1 DEF _handle_request, TransportInv
    <2>2. CASE kind # "tunnel"
      BY <2>2, SpendKeeps DEF _handle_request, Events
    <2> QED BY <2>1, <2>2
  <1> HIDE DEF h
  <1>5. ThreadOK(after) /\ after.listener = handler[c].listener
    <2>1. h.listener \in Listeners
      BY <1>2 DEF Threads
    <2>2. ThreadOK(Ended(h)) /\ Ended(h).listener = h.listener
      BY <2>1, EndedOK
    <2>3. Indices # {}
      <3>1. Upstreams \in Nat \ {0}
        OBVIOUS
      <3>2. 1 \in 1..Upstreams
        BY <3>1
      <3> QED BY <3>2 DEF Indices
    <2>4. ThreadOK([h EXCEPT !.pc = "direct"])
      BY <1>2 DEF ThreadOK, Threads
    <2>5. ThreadOK([h EXCEPT !.pc = "try", !.todo = Indices])
      BY <1>2, <2>3 DEF ThreadOK, Threads
    <2>6. ThreadOK([h EXCEPT !.kind = "tunnel", !.pc = "ask"])
      BY <1>2 DEF ThreadOK, Threads, Kinds
    <2>7. /\ [h EXCEPT !.pc = "direct"].listener = h.listener
          /\ [h EXCEPT !.pc = "try", !.todo = Indices].listener = h.listener
          /\ [h EXCEPT !.kind = "tunnel", !.pc = "ask"].listener = h.listener
      BY <1>2 DEF Threads
    <2> QED BY <1>2, <2>2, <2>4, <2>5, <2>6, <2>7
  <1> HIDE DEF after
  <1>6. TransportInv'
    BY <1>3, <1>4, <1>5, GoKeeps DEF TransportInv, upstreamVars
  <1>7. \A d \in Clients : handler'[d].listener = handler[d].listener
    BY <1>3, <1>5 DEF Go, TransportInv
  <1> QED BY <1>6, <1>7

LEMMA DirectKeeps ==
    ASSUME TransportInv, NEW c \in Clients, _connect_direct(c)
    PROVE  TransportInv' /\ \A d \in Clients : handler'[d].listener = handler[d].listener
  <1> DEFINE h == handler[c]
             relay == [h EXCEPT !.pc = "relay", !.exit = "direct"]
  <1>1. ThreadOK(h) /\ h.pc = "direct" /\ h \in Threads /\ h.next = "none"
    BY ThreadsAreOK DEF _connect_direct, At, ThreadOK
  <1>2. ThreadOK(relay) /\ relay.listener = h.listener
    BY <1>1 DEF ThreadOK, Threads
  <1>3. ThreadOK(Ended(h)) /\ Ended(h).listener = h.listener
    BY <1>1, EndedOK DEF Threads
  <1>4. PICK after \in {relay, Ended(h)} : Go(c, after)
    BY DEF _connect_direct
  <1>5. UNCHANGED <<listening, stopping, up, upstreamVars, health, age, left>>
    BY DEF _connect_direct
  <1>6. ThreadOK(after) /\ after.listener = h.listener
    BY <1>2, <1>3, <1>4
  <1>7. TransportInv'
    BY <1>4, <1>5, <1>6, GoKeeps DEF TransportInv, upstreamVars
  <1> QED BY <1>4, <1>6, <1>7 DEF Go, TransportInv

LEMMA CandidatesKeeps ==
    ASSUME TransportInv, NEW c \in Clients, _candidates(c)
    PROVE  TransportInv' /\ \A d \in Clients : handler'[d].listener = handler[d].listener
  <1> DEFINE h == handler[c]
             open == {i \in Indices : ~blocked[i]}
             try == [h EXCEPT !.pc = "try", !.todo = open]
             none == [h EXCEPT !.pc = "record", !.report = "unavailable", !.next = "refuse"]
  <1>1. ThreadOK(h) /\ h.pc = "ask" /\ h \in Threads /\ h.next = "none"
    BY ThreadsAreOK DEF _candidates, At, ThreadOK
  <1>2. open # {} => ThreadOK(try) /\ try.listener = h.listener
    BY <1>1 DEF ThreadOK, Threads
  <1>3. ThreadOK(none) /\ none.listener = h.listener
    BY <1>1 DEF ThreadOK, Threads, Statuses
  <1>4. PICK after : /\ after = IF open # {} THEN try ELSE none
                     /\ Go(c, after)
    BY DEF _candidates
  <1>5. UNCHANGED <<listening, stopping, up, upstreamVars, health, age, left>>
    BY DEF _candidates
  <1> HIDE DEF try, none, open
  <1>6. ThreadOK(after) /\ after.listener = h.listener
    BY <1>2, <1>3, <1>4
  <1>7. TransportInv'
    BY <1>4, <1>5, <1>6, GoKeeps DEF TransportInv, upstreamVars
  <1> QED BY <1>4, <1>6, <1>7 DEF Go, TransportInv

LEMMA TryKeeps ==
    ASSUME TransportInv, NEW c \in Clients, NEW i \in Indices, _try_upstream(c, i)
    PROVE  TransportInv' /\ \A d \in Clients : handler'[d].listener = handler[d].listener
  <1> DEFINE h == handler[c]
             rest == [h EXCEPT !.todo = @ \ {i}]
             relay == [h EXCEPT !.pc = "relay", !.todo = {}, !.exit = "upstream"]
             tried(pc) == [h EXCEPT !.pc = pc]
  <1>1. /\ ThreadOK(h) /\ h.pc = "try" /\ h \in Threads /\ h.next = "none" /\ i \in h.todo
    BY ThreadsAreOK DEF _try_upstream, At, Turn, ThreadOK
  <1>2. ThreadOK(relay) /\ relay.listener = h.listener
    BY <1>1 DEF ThreadOK, Threads
  <1>3. ASSUME NEW pc \in {"success", "failure"}
        PROVE  ThreadOK(tried(pc)) /\ tried(pc).listener = h.listener
    BY <1>1, <1>3 DEF ThreadOK, Threads
  <1>4. rest \in Threads /\ rest.pc = "try" /\ rest.next = "none" /\ rest.listener = h.listener
    BY <1>1 DEF Threads
  <1>5. (rest.todo # {} => ThreadOK(rest)) /\ ThreadOK(Ended(rest))
        /\ Ended(rest).listener = h.listener
    BY <1>4, EndedOK DEF ThreadOK, Threads
  <1>6. PICK after : /\ Go(c, after)
                     /\ \/ after = relay \/ after \in {tried("success"), tried("failure")}
                        \/ after = Ended(rest)
                        \/ rest.todo # {} /\ after = rest
    BY DEF _try_upstream
  <1>7. UNCHANGED <<listening, stopping, up, upstreamVars, health, age, left>>
    BY DEF _try_upstream
  <1> HIDE DEF rest, relay, tried
  <1>8. ThreadOK(after) /\ after.listener = h.listener
    BY <1>2, <1>3, <1>4, <1>5, <1>6
  <1>9. TransportInv'
    BY <1>6, <1>7, <1>8, GoKeeps DEF TransportInv, upstreamVars
  <1> QED BY <1>6, <1>8, <1>9 DEF Go, TransportInv

(* An outcome is counted. *)
LEMMA CountKeeps ==
    ASSUME TransportInv, NEW c \in Clients, NEW h, ThreadOK(h), Go(c, h),
           UNCHANGED <<listening, stopping, up, health, age, left>>,
           failures' \in [Indices -> 0..(UPSTREAM_FAILURE_LIMIT - 1)],
           lost' \in [Indices -> 0..UPSTREAM_FAILURE_LIMIT],
           blocked' \in [Indices -> BOOLEAN],
           \A i \in Indices : /\ failures'[i] <= lost'[i]
                              /\ blocked'[i] => lost'[i] >= UPSTREAM_FAILURE_LIMIT
    PROVE  TransportInv'
  <1>1. handler' \in [Clients -> Threads]
        /\ \A d \in Clients : handler'[d] = IF d = c THEN h ELSE handler[d]
    BY DEF TransportInv, Go, ThreadOK
  <1> QED BY <1>1 DEF TransportInv, ThreadOK, CooldownIsEarned

LEMMA SuccessKeeps ==
    ASSUME TransportInv, NEW c \in Clients, NEW i \in Indices, _mark_upstream_success(c, i)
    PROVE  TransportInv' /\ \A d \in Clients : handler'[d].listener = handler[d].listener
  <1> DEFINE h == handler[c]
             after == [h EXCEPT !.pc = "record", !.report = "healthy", !.next = "relay"]
  <1>1. ThreadOK(h) /\ h \in Threads
    BY ThreadsAreOK DEF ThreadOK
  <1>2. ThreadOK(after) /\ after.listener = h.listener
    BY <1>1 DEF ThreadOK, Threads, Statuses
  <1>3. /\ Go(c, after) /\ UNCHANGED <<listening, stopping, up, health, age, left>>
        /\ failures' = [failures EXCEPT ![i] = 0]
        /\ blocked' = [blocked EXCEPT ![i] = FALSE]
        /\ lost' = [lost EXCEPT ![i] = 0]
    BY DEF _mark_upstream_success
  <1>4. /\ failures' \in [Indices -> 0..(UPSTREAM_FAILURE_LIMIT - 1)]
        /\ lost' \in [Indices -> 0..UPSTREAM_FAILURE_LIMIT]
        /\ blocked' \in [Indices -> BOOLEAN]
        /\ \A j \in Indices : /\ failures'[j] <= lost'[j]
                              /\ blocked'[j] => lost'[j] >= UPSTREAM_FAILURE_LIMIT
    BY <1>3 DEF TransportInv, CooldownIsEarned
  <1> HIDE DEF after
  <1>5. TransportInv'
    BY <1>2, <1>3, <1>4, CountKeeps
  <1> QED BY <1>2, <1>3, <1>5 DEF Go, TransportInv

LEMMA FailureKeeps ==
    ASSUME TransportInv, NEW c \in Clients, NEW i \in Indices, _mark_upstream_failure(c, i)
    PROVE  TransportInv' /\ \A d \in Clients : handler'[d].listener = handler[d].listener
  <1> DEFINE h == handler[c]
             L == UPSTREAM_FAILURE_LIMIT
             cooling == failures[i] + 1 >= L
             status == IF \A j \in Indices : blocked'[j] THEN "unavailable" ELSE "degraded"
             then == IF h.todo = {i} THEN "refuse" ELSE "try"
             after == [h EXCEPT !.pc = "record", !.todo = @ \ {i}, !.report = status,
                                !.next = then]
  <1>1. ThreadOK(h) /\ h \in Threads /\ i \in h.todo
    BY ThreadsAreOK DEF ThreadOK, _mark_upstream_failure, Turn
  <1>2. /\ Go(c, after) /\ UNCHANGED <<listening, stopping, up, health, age, left>>
        /\ failures' = [failures EXCEPT ![i] = IF cooling THEN 0 ELSE @ + 1]
        /\ blocked' = [blocked EXCEPT ![i] = @ \/ cooling]
        /\ lost' = [lost EXCEPT ![i] = IF @ < L THEN @ + 1 ELSE @]
    BY DEF _mark_upstream_failure
  <1>3. ThreadOK(after) /\ after.listener = h.listener
    <2>1. status \in Statuses /\ then \in {"refuse", "try"} /\ (then = "try" => h.todo \ {i} # {})
      BY <1>1 DEF Statuses
    <2> HIDE DEF status, then
    <2> QED BY <1>1, <2>1 DEF ThreadOK, Threads
  <1>4. /\ L \in Nat \ {0}
        /\ failures \in [Indices -> 0..(L - 1)] /\ lost \in [Indices -> 0..L]
        /\ blocked \in [Indices -> BOOLEAN]
        /\ \A j \in Indices : /\ failures[j] <= lost[j]
                              /\ blocked[j] => lost[j] >= L
    BY DEF TransportInv, CooldownIsEarned
  <1> HIDE DEF L, after
  <1>5. blocked' \in [Indices -> BOOLEAN]
    BY <1>2, <1>4
  <1>6. failures' \in [Indices -> 0..(L - 1)] /\ lost' \in [Indices -> 0..L]
    BY <1>2, <1>4
  <1>7. ASSUME NEW j \in Indices
        PROVE  failures'[j] <= lost'[j] /\ (blocked'[j] => lost'[j] >= L)
    <2>1. CASE j # i
      BY <1>2, <1>4, <2>1
    <2>2. CASE j = i
      <3>1. lost'[i] = IF lost[i] < L THEN lost[i] + 1 ELSE lost[i]
        BY <1>2, <1>4
      <3>2. failures'[i] = IF cooling THEN 0 ELSE failures[i] + 1
        BY <1>2, <1>4
      <3>3. blocked'[i] => blocked[i] \/ cooling
        BY <1>2, <1>4
      <3> QED BY <1>4, <2>2, <3>1, <3>2, <3>3
    <2> QED BY <2>1, <2>2
  <1>8. TransportInv'
    BY <1>2, <1>3, <1>5, <1>6, <1>7, CountKeeps DEF L
  <1> QED BY <1>2, <1>3, <1>8 DEF Go, TransportInv

LEMMA RecordKeeps ==
    ASSUME TransportInv, NEW c \in Clients, _record_health(c)
    PROVE  TransportInv' /\ \A d \in Clients : handler'[d].listener = handler[d].listener
  <1> DEFINE h == handler[c]
             try == [h EXCEPT !.pc = "try", !.report = "unknown", !.next = "none"]
             relay == [h EXCEPT !.pc = "relay", !.exit = "upstream", !.todo = {},
                                !.report = "unknown", !.next = "none"]
  <1>1. ThreadOK(h) /\ h \in Threads /\ h.pc = "record" /\ h.report \in Statuses
        /\ h.next \in {"try", "refuse", "relay"}
    BY ThreadsAreOK DEF ThreadOK, Threads, _record_health, At
  <1>2. (h.next = "try" => ThreadOK(try)) /\ try.listener = h.listener
    BY <1>1 DEF ThreadOK, Threads, Statuses
  <1>3. ThreadOK(relay) /\ relay.listener = h.listener
    BY <1>1 DEF ThreadOK, Threads, Statuses
  <1>4. ThreadOK(Ended(h)) /\ Ended(h).listener = h.listener
    BY <1>1, EndedOK DEF Threads
  <1>5. AfterRecord(h) \in {try, relay, Ended(h)} /\ (AfterRecord(h) = try => h.next = "try"
                                                       \/ try \in {relay, Ended(h)})
    BY <1>1 DEF AfterRecord
  <1> HIDE DEF try, relay
  <1>6. ThreadOK(AfterRecord(h)) /\ AfterRecord(h).listener = h.listener
    BY <1>2, <1>3, <1>4, <1>5
  <1>7. Go(c, AfterRecord(h)) /\ UNCHANGED <<listening, stopping, up, upstreamVars>>
    BY DEF _record_health
  <1>8. health' \in Statuses /\ age' \in Ages
    BY <1>1 DEF _record_health, TransportInv, Ages
  <1>9. left' \in [Events -> Nat]
    <2>1. "write" \in Events
      BY DEF Events
    <2>2. left' = left \/ Spend("write")
      BY DEF _record_health
    <2> QED BY <2>1, <2>2, SpendKeeps DEF TransportInv
  <1>10. TransportInv'
    BY <1>6, <1>7, <1>8, <1>9, GoKeeps DEF TransportInv, upstreamVars
  <1> QED BY <1>6, <1>7, <1>10 DEF Go, TransportInv

LEMMA RelayKeeps ==
    ASSUME TransportInv, NEW c \in Clients, _relay(c)
    PROVE  TransportInv' /\ \A d \in Clients : handler'[d].listener = handler[d].listener
  <1> DEFINE h == handler[c]
  <1>1. ThreadOK(Ended(h)) /\ Ended(h).listener = h.listener
    BY ThreadsAreOK, EndedOK DEF ThreadOK, Threads
  <1>2. Go(c, Ended(h)) /\ UNCHANGED <<listening, stopping, up, upstreamVars, health, age, left>>
    BY DEF _relay
  <1>3. TransportInv'
    BY <1>1, <1>2, GoKeeps DEF TransportInv, upstreamVars
  <1> QED BY <1>1, <1>2, <1>3 DEF Go, TransportInv

(* No step of the transport moves a thread to another listener. *)
LEMMA TransportStep ==
    ASSUME TransportInv, TransportNext
    PROVE  TransportInv' /\ \A d \in Clients : handler'[d].listener = handler[d].listener
  <1>1. CASE start \/ start_direct_listener \/ stop \/ GrowOld
               \/ \E i \in Indices : UpstreamChange(i)
    BY <1>1, OutsideKeeps
  <1>2. ASSUME NEW i \in Indices, CooldownOver(i)
        PROVE  TransportInv' /\ \A d \in Clients : handler'[d].listener = handler[d].listener
    BY <1>2, CooldownOverKeeps
  <1>3. ASSUME NEW c \in Clients, Thread(c)
        PROVE  TransportInv' /\ \A d \in Clients : handler'[d].listener = handler[d].listener
    BY <1>3, RequestKeeps, DirectKeeps, CandidatesKeeps, TryKeeps, SuccessKeeps,
       FailureKeeps, RecordKeeps, RelayKeeps DEF Thread
  <1> QED BY <1>1, <1>2, <1>3 DEF TransportNext

-----------------------------------------------------------------------------
(* The two together.                                                             *)

PlaneInv == PortInv /\ TransportInv

LEMMA PlaneInit == Init => PlaneInv
  BY PortInitInv, TransportInitInv DEF Init, PlaneInv

LEMMA TransportUnchanged ==
    ASSUME TransportInv, UNCHANGED transportVars
    PROVE  TransportInv'
  BY DEF transportVars, TransportInv, CooldownIsEarned

LEMMA ArriveKeeps ==
    ASSUME PlaneInv, NEW c \in Clients, Arrive(c)
    PROVE  TransportInv'
  <1>1. PICK l \in Listeners : _accept_loop(c, l)
    BY DEF Arrive, Listeners
  <1> QED BY <1>1, AcceptKeeps DEF PlaneInv

LEMMA PlaneStep ==
    ASSUME PlaneInv, [Next]_vars
    PROVE  PlaneInv'
  <1>1. CASE PortNext /\ UNCHANGED transportVars
    BY <1>1, PortStep, TransportUnchanged DEF PlaneInv
  <1>2. CASE TransportNext /\ UNCHANGED portVars
    BY <1>2, PortStep, TransportStep DEF PlaneInv
  <1>3. ASSUME NEW c \in Clients, Arrive(c) PROVE PlaneInv'
    BY <1>3, PortStep, ArriveKeeps DEF Arrive, PlaneInv
  <1>4. ASSUME NEW c \in Clients, AskAgain(c) PROVE PlaneInv'
    BY <1>4, PortStep, AgainKeeps DEF AskAgain, PlaneInv
  <1>5. CASE UNCHANGED vars
    BY <1>5, PortStep, TransportUnchanged DEF vars, PlaneInv
  <1> QED BY <1>1, <1>2, <1>3, <1>4, <1>5 DEF Next

LEMMA PlaneInvariant == Spec => []PlaneInv
  BY PlaneInit, PlaneStep, PTL DEF Spec

-----------------------------------------------------------------------------
(* The tables, the queues and the threads of windivert_routing_session.cpp and   *)
(* local_proxy_transport.py are well formed: in particular a count of failures   *)
(* stays below the limit, and a thread that tries an upstream has one to try.    *)
THEOREM PlaneTypeCorrect == Spec => []TypeOK
  <1>1. PortInv => PortTypeOK
    <2> SUFFICES ASSUME PortTyped PROVE PortTypeOK
      BY DEF PortInv
    <2>1. \A i \in DOMAIN events : events[i] \in {"CONNECT", "CLOSE"} \X Conns
      BY DEF PortTyped
    <2>2. \A i \in DOMAIN packets : packets[i] \in Packets
      BY DEF PortTyped
    <2>3. /\ network.pc \in {"recv", "wait", "commit"}
          /\ network.pc # "recv" => network.packet \in Conns \X {"out"}
      BY DEF PortTyped, Receiving
    <2> QED BY <2>1, <2>2, <2>3 DEF PortTyped, PortTypeOK
  <1>2. TransportInv => TransportTypeOK
    BY DEF TransportInv, TransportTypeOK, Threads
  <1>3. PlaneInv => TypeOK
    BY <1>1, <1>2 DEF PlaneInv, TypeOK
  <1> QED BY <1>3, PlaneInvariant, PTL

(* ClassifyPort, RemovePortDecision and the forwarding of NetworkLoop fail        *)
(* closed: a connection of an application that is not excluded is never turned   *)
(* away from the proxy.                                                          *)
THEOREM FailClosed == Spec => []DirectOnlyForExcluded
  <1>1. PlaneInv => DirectOnlyForExcluded
    BY DEF PlaneInv, PortInv
  <1> QED BY <1>1, PlaneInvariant, PTL

(* try_emplace and stop_ of windivert_routing_session.cpp: from the second       *)
(* packet on all packets of a connection go one way, except for the one packet   *)
(* NetworkLoop may send after StopLocked has begun, and no answer bears the      *)
(* wrong port.                                                                   *)
THEOREM Settled == Spec => []SettledAfterFirst
  <1>1. PlaneInv => SettledAfterFirst
    BY DEF PlaneInv, PortInv
  <1> QED BY <1>1, PlaneInvariant, PTL

(* _mark_upstream_failure of local_proxy_transport.py: an upstream is left out   *)
(* only after as many failed attempts as the limit says.                         *)
THEOREM CooldownEarned == Spec => []CooldownIsEarned
  <1>1. PlaneInv => CooldownIsEarned
    BY DEF PlaneInv, TransportInv
  <1> QED BY <1>1, PlaneInvariant, PTL
=============================================================================
