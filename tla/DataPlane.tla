------------------------------ MODULE DataPlane ------------------------------
(* What happens to the connections of applications: straight to the listeners of *)
(* LocalTransport, or through the WinDivert session of PortDecisions, whose      *)
(* first forwarded packet opens the connection at the listener it is sent to.    *)
EXTENDS PortDecisions, LocalTransport

(* Two connections to the proxy port that are open at once have different local  *)
(* ports.                                                                        *)
ASSUME DataPlaneAssumption ==
    /\ Clients \subseteq Conns
    /\ \A s \in Scenarios :
         /\ s.session \in BOOLEAN /\ s.early \subseteq Conns /\ s.quota \in [Packets -> Nat]
         /\ \A c, d \in s.early : c # d => Port[c] # Port[d]

vars == <<portVars, transportVars>>

Init == \E s \in Scenarios : PortInit(s) /\ TransportInit(s)

(* The SYN reaches a listener. *)
Arrive(c) ==
    /\ \/ /\ session /\ sent[c] # <<>>
          /\ _accept_loop(c, IF sent[c][1] = "Direct" THEN "direct" ELSE "http")
       \/ ~session /\ \E l \in {"http", "socks", "pac"} : _accept_loop(c, l)
    /\ UNCHANGED portVars

(* Without a session the same application asks again and again. *)
AskAgain(c) == ~session /\ Again(c) /\ UNCHANGED portVars

Next ==
    \/ PortNext /\ UNCHANGED transportVars
    \/ TransportNext /\ UNCHANGED portVars
    \/ \E c \in Clients : Arrive(c) \/ AskAgain(c)

Spec == Init /\ [][Next]_vars

(* The two threads of the session and the one that stops it run, every handler   *)
(* thread runs and every connection ends, cooldowns end, and applications keep   *)
(* asking for tunnels.                                                           *)
Fairness ==
    /\ WF_vars(SocketThread /\ UNCHANGED transportVars)
    /\ WF_vars(NetworkThread /\ UNCHANGED transportVars)
    /\ WF_vars(Stopping /\ UNCHANGED transportVars)
    /\ \A c \in Clients : WF_vars((Thread(c) \/ Again(c)) /\ UNCHANGED portVars)
    /\ \A i \in Indices : WF_vars(CooldownOver(i) /\ UNCHANGED portVars)
    /\ SF_vars(/\ \E c \in Clients : _accept_loop(c, "http")
               /\ UNCHANGED portVars)
    /\ SF_vars(/\ \E c \in Clients : /\ handler[c].listener = "http"
                                     /\ _handle_request(c, "tunnel")
               /\ UNCHANGED portVars)
FairSpec == Spec /\ Fairness

-----------------------------------------------------------------------------
(* Correctness.                                                                  *)

(* Both halves are well formed: see PortTypeOK and TransportTypeOK. *)
TypeOK == PortTypeOK /\ TransportTypeOK

StaysOpen == <>[](~session /\ listening # {})

(* A tunnel is served again and again as long as one upstream answers: no        *)
(* sequence of failures, cooldowns and late counts of other threads locks an     *)
(* upstream out for good.                                                        *)
ServiceResumes ==
    StaysOpen /\ <>[](\E i \in Indices : up[i])
      => []<>(\E c \in Clients : handler[c].exit = "upstream" /\ handler[c].kind = "tunnel")

(* When all upstreams answer, what the GUI is told becomes right and stays so,   *)
(* although statuses are published outside the section that computed them and    *)
(* may overtake each other.                                                      *)
HealthCatchesUp ==
    StaysOpen /\ <>[](\A i \in Indices : up[i])
      => <>[](read_transport_health \in {"healthy", "unknown"})
=============================================================================
