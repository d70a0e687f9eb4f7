---------------------------- MODULE MCDataPlane ----------------------------
(* A small instance of DataPlane: an excluded and a plain application that use   *)
(* the same local port one after the other, and one connected since before.      *)
EXTENDS DataPlane

CONSTANTS excluded, plain, early, shared, own

MCPort == [c \in Conns |-> IF c = early THEN own ELSE shared]

Quota(ofExcluded, answers, ofPlain, ofEarly) ==
    [k \in Packets |-> CASE k = <<excluded, "out">> -> ofExcluded
                         [] k = <<excluded, "back">> -> answers
                         [] k = <<plain, "out">> -> ofPlain
                         [] k = <<early, "out">> -> ofEarly
                         [] OTHER -> 0]
NoEvents == [k \in Events |-> 0]

(* Packets and events in every order: the port is used again, or a connection    *)
(* is older than the session.                                                    *)
Routing(quotas, older) ==
    [session |-> TRUE, early |-> older, quota |-> quotas,
     listening |-> {}, up |-> Indices, left |-> NoEvents]
(* Both halves at work. *)
Together ==
    [session |-> TRUE, early |-> {}, quota |-> Quota(1, 0, 1, 0),
     listening |-> {"http", "direct"}, up |-> Indices, left |-> NoEvents]
(* Listeners come and go. *)
Listening ==
    [session |-> FALSE, early |-> {}, quota |-> Quota(0, 0, 0, 0),
     listening |-> {}, up |-> Indices,
     left |-> [NoEvents EXCEPT !["start"] = 2, !["stop"] = 1, !["near"] = 1, !["bad"] = 1,
                               !["write"] = 1, !["age"] = 2]]
(* Clients come again and again while upstreams fail and recover. *)
Serving ==
    [session |-> FALSE, early |-> {}, quota |-> Quota(0, 0, 0, 0),
     listening |-> {"http"}, up |-> {}, left |-> [NoEvents EXCEPT !["up"] = 2]]
MCScenarios ==
    {Routing(Quota(3, 1, 1, 0), {}), Routing(Quota(1, 0, 0, 2), {early}),
     Together, Listening, Serving}
WindowScenarios == {Routing(Quota(2, 0, 0, 0), {})}
=============================================================================
