--------------------------- MODULE PortDecisions ---------------------------
(* RoutingSession of windivert_routing_session.cpp: how the packets of excluded  *)
(* applications to the local proxy port are turned to the direct listener.       *)
(*                                                                               *)
(* WinDivert delivers socket events and packets in two queues, each read by one  *)
(* thread: SocketLoop notes a decision for the port of a new connection,         *)
(* NetworkLoop waits a little for it and rewrites ports by it.  Nothing orders   *)
(* one queue against the other.                                                  *)
EXTENDS Naturals, Sequences

CONSTANTS
    Conns,      \* connections of applications to the local proxy port
    Port,       \* the local port of each
    Excluded    \* connections of excluded applications

Ports == {Port[c] : c \in Conns}
Decisions == {"None", "Direct", "Proxy"}
Packets == Conns \X {"out", "back"}

ASSUME PortsAssumption == Excluded \subseteq Conns

VARIABLES
    session,     \* from the success of Apply to the end of StopLocked
    stop_,        \* StopLocked: no, stop_ is set, the driver's handles are shut down
    ended,       \* the threads of the session that have left their loops
    phase,       \* of each connection: new, open, closed
    events,      \* the socket layer's queue
    packets,     \* the network layer's queue
    decisions,   \* port_decisions_
    network,     \* NetworkLoop: the packet in hand and where it is with it
    quota,       \* bound: packets each connection may still send, in each direction
    sent,        \* history: where each connection's packets went
    stray,       \* history: connections that saw a reply from the wrong port
    over,        \* history: connections whose CLOSE event was handled
    tail         \* history: the connection whose packet was decided on after stop_ was set

control == <<session, stop_, ended>>
portVars == <<control, phase, events, packets, decisions, network, quota,
              sent, stray, over, tail>>

Receiving == [pc |-> "recv", packet |-> <<>>]
(* A scenario says whether the session runs, which connections were there before *)
(* it and have no CONNECT event any more, and how many packets there are.        *)
PortInit(s) ==
    /\ session = s.session /\ stop_ = "no" /\ ended = {} /\ quota = s.quota
    /\ phase = [c \in Conns |-> IF c \in s.early THEN "open" ELSE "new"]
    /\ events = <<>> /\ packets = <<>>
    /\ decisions = [q \in Ports |-> "None"]
    /\ network = Receiving
    /\ sent = [c \in Conns |-> <<>>] /\ stray = {} /\ over = {} /\ tail = {}

-----------------------------------------------------------------------------
(* Applications and the direct listener, as the driver shows them until its      *)
(* handles are shut down.                                                        *)

Diverting == session /\ stop_ # "shut"
Sharing(c) == {d \in Conns \ {c} : Port[d] = Port[c]}
Queued(c) == \E i \in DOMAIN packets : packets[i][1] = c

(* A port is used again only after the events and packets of its last connection *)
(* were handled: TIME_WAIT lasts longer than the queues.                         *)
Connect(c) ==
    /\ Diverting /\ phase[c] = "new" /\ quota[<<c, "out">>] > 0
    /\ \A d \in Sharing(c) : phase[d] # "new" =>
         d \in over /\ ~Queued(d) /\ network.packet # <<d, "out">>
    /\ phase' = [phase EXCEPT ![c] = "open"]
    /\ events' = Append(events, <<"CONNECT", c>>)
    /\ UNCHANGED <<control, packets, decisions, network, quota, sent, stray, over, tail>>

Emit(c, dir) ==
    /\ Diverting /\ quota[<<c, dir>>] > 0
    /\ quota' = [quota EXCEPT ![<<c, dir>>] = @ - 1]
    /\ packets' = Append(packets, <<c, dir>>)
    /\ UNCHANGED <<control, phase, events, decisions, network, sent, stray, over, tail>>

(* The application sends; after it closed, the last segments may follow. *)
Send(c) ==
    /\ phase[c] = "open" \/ (phase[c] = "closed" /\ \A d \in Sharing(c) : phase[d] # "open")
    /\ Emit(c, "out")
(* The direct listener answers; the proxy listener's answers are not diverted. *)
Answer(c) == (\E i \in DOMAIN sent[c] : sent[c][i] = "Direct") /\ Emit(c, "back")

Close(c) ==
    /\ Diverting /\ phase[c] = "open"
    /\ phase' = [phase EXCEPT ![c] = "closed"]
    /\ events' = Append(events, <<"CLOSE", c>>)
    /\ UNCHANGED <<control, packets, decisions, network, quota, sent, stray, over, tail>>

-----------------------------------------------------------------------------
(* try_emplace: the first decision stays. *)
Emplace(port, d) ==
    decisions' = [decisions EXCEPT ![port] = IF @ = "None" THEN d ELSE @]

(* Mutant of ClassifyPort: the event overrides a decision taken without it. *)
ClassifyLate(port, d) == decisions' = [decisions EXCEPT ![port] = d]
ClassifyPort(port, d) == Emplace(port, d)

(* Mutant of RemovePortDecision: only decisions for the proxy are dropped. *)
RemoveProxyOnly(port) ==
    decisions' = [decisions EXCEPT ![port] = IF @ = "Direct" THEN @ ELSE "None"]
RemovePortDecision(port) == decisions' = [decisions EXCEPT ![port] = "None"]

(* while (!stop_): what a thread has in hand when stop_ is set is its last.       *)
Loop(thread) == ended' = IF stop_ = "no" THEN ended ELSE ended \cup {thread}
(* WinDivertRecv fails on a handle that was shut down. *)
Leave(thread) ==
    /\ stop_ = "shut" /\ thread \notin ended /\ (thread = "network" => network = Receiving)
    /\ Loop(thread)
    /\ UNCHANGED <<session, stop_, phase, events, packets, decisions, network, quota,
                   sent, stray, over, tail>>

(* The application is excluded if the image of its process can be read and is on *)
(* the list.                                                                     *)
ProcessPathMatches(c) == IF c \in Excluded THEN {"Direct", "Proxy"} ELSE {"Proxy"}

SocketLoop ==
    /\ session /\ "socket" \notin ended /\ events # <<>> /\ events' = Tail(events)
    /\ LET c == Head(events)[2]
       IN  \/ /\ Head(events)[1] = "CONNECT"
              /\ \E d \in ProcessPathMatches(c) : ClassifyPort(Port[c], d)
              /\ UNCHANGED over
           \/ /\ Head(events)[1] = "CLOSE"
              /\ RemovePortDecision(Port[c]) /\ over' = over \cup {c}
    /\ Loop("socket")
    /\ UNCHANGED <<session, stop_, phase, packets, network, quota, sent, stray, tail>>

(* WinDivertSend of the packet in hand, with its destination port rewritten if   *)
(* the decision is Direct; it fails on a handle that was shut down.              *)
Forward(c, d) ==
    /\ network' = Receiving /\ Loop("network")
    /\ IF c \in over \/ stop_ = "shut" THEN UNCHANGED <<sent, tail>>
       ELSE /\ sent' = [sent EXCEPT ![c] = Append(@, d)]
            /\ tail' = IF stop_ = "no" THEN tail ELSE tail \cup {c}

IsDirectPort(port) == decisions[port] = "Direct"

(* NetworkLoop takes the next packet: an answer of the direct listener is sent   *)
(* on at once, with the proxy's port as its source if the port is a direct one.  *)
NetworkLoop ==
    /\ session /\ "network" \notin ended /\ network = Receiving /\ packets # <<>>
    /\ packets' = Tail(packets)
    /\ LET c == Head(packets)[1]
       IN  \/ /\ Head(packets)[2] = "out"
              /\ network' = [pc |-> "wait", packet |-> Head(packets)]
              /\ UNCHANGED <<ended, stray>>
           \/ /\ Head(packets)[2] = "back"
              /\ stray' = IF IsDirectPort(Port[c]) \/ c \in over THEN stray
                          ELSE stray \cup {c}
              /\ Loop("network")
              /\ UNCHANGED network
    /\ UNCHANGED <<session, stop_, phase, events, decisions, quota, sent, over, tail>>

(* WaitForPortDecision finds a decision. *)
WaitForPortDecision ==
    LET c == network.packet[1]
    IN  /\ session /\ network.pc = "wait" /\ stop_ = "no" /\ decisions[Port[c]] # "None"
        /\ Forward(c, decisions[Port[c]])
        /\ UNCHANGED <<session, stop_, phase, events, packets, decisions, quota, stray, over>>

(* Mutant of WaitTimeout: the wait has no timeout. *)
WaitForever == FALSE /\ UNCHANGED portVars
(* It gives up after 100 ms, or at once if the session is being stopped, and     *)
(* releases the lock, ...                                                        *)
WaitTimeout ==
    /\ session /\ network.pc = "wait"
    /\ stop_ # "no" \/ decisions[Port[network.packet[1]]] = "None"
    /\ network' = [network EXCEPT !.pc = "commit"]
    /\ UNCHANGED <<control, phase, events, packets, decisions, quota, sent, stray, over,
                   tail>>

(* ... and this packet goes to the proxy whatever has been decided. *)
CommitProxyIfUnknown ==
    LET c == network.packet[1]
    IN  /\ session /\ network.pc = "commit"
        /\ Emplace(Port[c], "Proxy") /\ Forward(c, "Proxy")
        /\ UNCHANGED <<session, stop_, phase, events, packets, quota, stray, over>>

(* StopLocked sets stop_, ... *)
StopLocked ==
    /\ session /\ stop_ = "no" /\ stop_' = "set"
    /\ UNCHANGED <<session, ended, phase, events, packets, decisions, network, quota,
                   sent, stray, over, tail>>
(* Mutant of ShutDown: the handles stay up until they are closed. *)
NoShutDown == FALSE /\ UNCHANGED portVars
(* ... shuts the driver's handles down so that no thread waits in WinDivertRecv, *)
ShutDown ==
    /\ session /\ stop_ = "set" /\ stop_' = "shut"
    /\ UNCHANGED <<session, ended, phase, events, packets, decisions, network, quota,
                   sent, stray, over, tail>>
(* joins both threads, and forgets the session. *)
Join ==
    /\ session /\ stop_ = "shut" /\ ended = {"socket", "network"}
    /\ session' = FALSE /\ stop_' = "no" /\ ended' = {}
    /\ events' = <<>> /\ packets' = <<>> /\ network' = Receiving
    /\ decisions' = [q \in Ports |-> "None"]
    /\ UNCHANGED <<phase, quota, sent, stray, over, tail>>

SocketThread == SocketLoop \/ Leave("socket")
NetworkThread ==
    NetworkLoop \/ WaitForPortDecision \/ WaitTimeout \/ CommitProxyIfUnknown \/ Leave("network")
Stopping == ShutDown \/ Join

PortNext ==
    \/ \E c \in Conns : Connect(c) \/ Send(c) \/ Answer(c) \/ Close(c)
    \/ SocketThread \/ NetworkThread \/ StopLocked \/ Stopping

-----------------------------------------------------------------------------
(* Correctness.                                                                  *)

(* The table holds decisions, the queues hold events and packets of known        *)
(* connections, and NetworkLoop waits only with an outgoing packet in hand.      *)
PortTypeOK ==
    /\ session \in BOOLEAN
    /\ stop_ \in {"no", "set", "shut"} /\ ended \subseteq {"socket", "network"}
    /\ phase \in [Conns -> {"new", "open", "closed"}]
    /\ \A i \in DOMAIN events : events[i] \in {"CONNECT", "CLOSE"} \X Conns
    /\ \A i \in DOMAIN packets : packets[i] \in Packets
    /\ decisions \in [Ports -> Decisions]
    /\ network.pc \in {"recv", "wait", "commit"}
    /\ network.pc # "recv" => network.packet \in Conns \X {"out"}
    /\ quota \in [Packets -> Nat]
    /\ sent \in [Conns -> Seq({"Direct", "Proxy"})]
    /\ stray \subseteq Conns /\ over \subseteq Conns /\ tail \subseteq Conns

(* Fail closed: whatever the order of events and packets, and however ports are  *)
(* used again, an application that is not excluded is never turned away from the *)
(* proxy, and a decision for the direct listener does not outlive its            *)
(* connection.                                                                   *)
DirectOnlyForExcluded ==
    /\ \A c \in Conns \ Excluded : \A i \in DOMAIN sent[c] : sent[c][i] = "Proxy"
    /\ \A q \in Ports : decisions[q] = "Direct" =>
         \E c \in Excluded : Port[c] = q /\ phase[c] # "new" /\ c \notin over

(* The destination of a connection is settled by the time its first packet is    *)
(* out: all later ones go the same way, and the answers it gets bear the port it *)
(* connected to.  Stopping the session may part one packet of one connection,    *)
(* its last, which goes to the proxy.                                            *)
SettledAfterFirst ==
    /\ \A c \in Conns : \A i, j \in 2..Len(sent[c]) :
         sent[c][i] = sent[c][j] \/ (c \in tail /\ Len(sent[c]) \in {i, j})
    /\ \A c \in tail : sent[c][Len(sent[c])] = "Proxy" /\ tail = {c}
    /\ stray = {}

(* "This also prevents a late SOCKET event from causing a dangerous mid-stream   *)
(* destination rewrite": while the session runs, all packets of a connection go  *)
(* one way.                                                                      *)
OneDestination ==
    \A c \in Conns \ tail : \A i, j \in DOMAIN sent[c] : sent[c][i] = sent[c][j]

(* No packet waits for good: an event that never comes costs 100 ms, not the     *)
(* connections of everybody else.                                                *)
PacketsFlow ==
    session /\ packets # <<>> ~> ~session \/ (packets = <<>> /\ network = Receiving)

(* A stop ends: it joins both threads while it holds the lock of the session, so *)
(* neither may be left waiting for the driver or for a decision.                 *)
StopEnds == stop_ # "no" ~> ~session
=============================================================================
