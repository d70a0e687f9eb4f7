--------------------------- MODULE LocalTransport ---------------------------
(* ProxyCore of local_proxy_transport.py: the listeners, one thread per          *)
(* connection, the upstreams tried in order, the cooldown of those that fail,    *)
(* and the health file the GUI reads.                                            *)
(*                                                                               *)
(* A step is one blocking operation or one critical section of _health_lock:     *)
(* the outcome of an attempt is counted, and published, in sections of their     *)
(* own, so the threads of concurrent connections get between them.  Time is what *)
(* ends a cooldown and ages the health file.                                     *)
EXTENDS Naturals

CONSTANTS
    Clients,                 \* connections to the listeners
    Upstreams,               \* how many upstreams are configured
    UPSTREAM_FAILURE_LIMIT,
    Scenarios                \* initial states, and how often each outside event may happen

Indices == 1..Upstreams
Listeners == {"http", "socks", "pac", "direct"}
Statuses == {"unknown", "healthy", "degraded", "unavailable"}
Ages == {"fresh", "minute", "expired"}
(* What clients ask for: a tunnel (CONNECT, SOCKS5) to a host, a plain request,   *)
(* something for a host host_bypasses_proxy names, or nothing that parses.       *)
Kinds == {"tunnel", "plain", "near", "bad"}
Events == {"start", "up", "write", "stop", "age"} \cup (Kinds \ {"tunnel"})

ASSUME TransportAssumption ==
    /\ Upstreams \in Nat \ {0} /\ UPSTREAM_FAILURE_LIMIT \in Nat \ {0}
    /\ \A s \in Scenarios :
         s.listening \subseteq Listeners /\ s.up \subseteq Indices /\ s.left \in [Events -> Nat]

VARIABLES
    listening,  \* the listeners that accept
    stopping,   \* the _stop event
    up,         \* whether each upstream answers now
    failures,   \* _failures
    blocked,    \* whether _retry_after lies in the future
    health,     \* the status in the health file of this worker, and _health_state
    age,        \* of the health file: under a minute, under HEALTH_TTL_SECONDS, over
    handler,    \* the thread of each connection
    left,       \* what is left of the scenario's budget
    lost        \* history: failed attempts of each upstream counted since its last success

transportVars == <<listening, stopping, up, failures, blocked, health, age, handler,
                   left, lost>>
upstreamVars == <<failures, blocked, lost>>

NoThread == [pc |-> "none", listener |-> "http", kind |-> "tunnel", todo |-> {},
             report |-> "unknown", next |-> "none", exit |-> "none"]

TransportInit(s) ==
    /\ listening = s.listening /\ left = s.left /\ stopping = FALSE
    /\ up = [i \in Indices |-> i \in s.up]
    /\ failures = [i \in Indices |-> 0] /\ blocked = [i \in Indices |-> FALSE]
    /\ lost = [i \in Indices |-> 0]
    /\ health = "unknown" /\ age = "fresh"
    /\ handler = [c \in Clients |-> NoThread]

Spend(k) == left[k] > 0 /\ left' = [left EXCEPT ![k] = @ - 1]
Go(c, h) == handler' = [handler EXCEPT ![c] = h]
At(c, pc) == handler[c].pc = pc
(* The upstreams are tried in their order. *)
Turn(c, i) == i \in handler[c].todo /\ \A j \in handler[c].todo : i <= j
(* The thread closed its client and ended. *)
Ended(h) == [NoThread EXCEPT !.pc = "done", !.listener = h.listener]

-----------------------------------------------------------------------------
(* Listeners.                                                                    *)

(* start binds the three ports or, if one is taken, none; after a stop it sets   *)
(* out with a new stop event.                                                    *)
start ==
    /\ listening = {} /\ Spend("start")
    /\ \/ listening' = {"http", "socks", "pac"} /\ stopping' = FALSE
       \/ UNCHANGED <<listening, stopping>>
    /\ UNCHANGED <<up, upstreamVars, health, age, handler>>

start_direct_listener ==
    /\ listening # {} /\ "direct" \notin listening /\ Spend("start")
    /\ listening' \in {listening, listening \cup {"direct"}}
    /\ UNCHANGED <<stopping, up, upstreamVars, health, age, handler>>

stop ==
    /\ Spend("stop") /\ stopping' = TRUE /\ listening' = {}
    /\ UNCHANGED <<up, upstreamVars, health, age, handler>>

_accept_loop(c, listener) ==
    /\ listener \in listening /\ ~stopping /\ At(c, "none")
    /\ Go(c, [NoThread EXCEPT !.pc = "read", !.listener = listener])
    /\ UNCHANGED <<listening, stopping, up, upstreamVars, health, age, left>>

-----------------------------------------------------------------------------
(* One connection.                                                               *)

(* _read_client_request and the parsing in _handle_http, _handle_direct_http and *)
(* _handle_socks: what the client wants decides how the thread goes on.  The     *)
(* thread of a bad or silent client ends; so does that of a PAC request, which   *)
(* _handle_pac answers.                                                          *)
_handle_request(c, kind) ==
    LET h == [handler[c] EXCEPT !.kind = kind]
    IN  /\ At(c, "read")
        /\ IF kind = "tunnel" THEN UNCHANGED left ELSE Spend(kind)
        /\ Go(c, IF kind = "bad" \/ h.listener = "pac" THEN Ended(h)
                 ELSE IF h.listener = "direct" \/ kind = "near" THEN [h EXCEPT !.pc = "direct"]
                 ELSE IF kind = "plain" /\ h.listener = "http"
                   THEN [h EXCEPT !.pc = "try", !.todo = Indices]
                 ELSE [h EXCEPT !.kind = "tunnel", !.pc = "ask"])
        /\ UNCHANGED <<listening, stopping, up, upstreamVars, health, age>>

(* create_connection to the host itself *)
_connect_direct(c) ==
    /\ At(c, "direct")
    /\ \/ Go(c, [handler[c] EXCEPT !.pc = "relay", !.exit = "direct"])
       \/ Go(c, Ended(handler[c]))
    /\ UNCHANGED <<listening, stopping, up, upstreamVars, health, age, left>>

(* Mutant of _candidates: an upstream that ever failed is out. *)
CandidatesUnfailed(c) ==
    LET open == {i \in Indices : ~blocked[i] /\ failures[i] = 0}
    IN  /\ At(c, "ask")
        /\ Go(c, IF open # {} THEN [handler[c] EXCEPT !.pc = "try", !.todo = open]
                 ELSE [handler[c] EXCEPT !.pc = "record", !.report = "unavailable",
                                         !.next = "refuse"])
        /\ UNCHANGED <<listening, stopping, up, upstreamVars, health, age, left>>

(* _open_upstream_tunnel takes the candidates of this moment. *)
_candidates(c) ==
    LET open == {i \in Indices : ~blocked[i]}
    IN  /\ At(c, "ask")
        /\ Go(c, IF open # {} THEN [handler[c] EXCEPT !.pc = "try", !.todo = open]
                 ELSE [handler[c] EXCEPT !.pc = "record", !.report = "unavailable",
                                         !.next = "refuse"])
        /\ UNCHANGED <<listening, stopping, up, upstreamVars, health, age, left>>

(* One upstream is tried, for up to 15 s.  A plain request takes the first that  *)
(* accepts a connection and knows no cooldown; neither outcome counts.           *)
_try_upstream(c, i) ==
    LET h == handler[c]
        rest == [h EXCEPT !.todo = @ \ {i}]
    IN  /\ At(c, "try") /\ Turn(c, i)
        /\ Go(c, IF h.kind = "plain"
                   THEN IF up[i] THEN [h EXCEPT !.pc = "relay", !.todo = {},
                                                !.exit = "upstream"]
                        ELSE IF rest.todo = {} THEN Ended(rest) ELSE rest
                 ELSE [h EXCEPT !.pc = IF up[i] THEN "success" ELSE "failure"])
        /\ UNCHANGED <<listening, stopping, up, upstreamVars, health, age, left>>

(* Mutant of _mark_upstream_success: the count of failures stays. *)
SuccessKeepsCount(c, i) ==
    /\ At(c, "success") /\ Turn(c, i)
    /\ blocked' = [blocked EXCEPT ![i] = FALSE] /\ UNCHANGED failures
    /\ lost' = [lost EXCEPT ![i] = 0]
    /\ Go(c, [handler[c] EXCEPT !.pc = "record", !.report = "healthy", !.next = "relay"])
    /\ UNCHANGED <<listening, stopping, up, health, age, left>>

_mark_upstream_success(c, i) ==
    /\ At(c, "success") /\ Turn(c, i)
    /\ failures' = [failures EXCEPT ![i] = 0]
    /\ blocked' = [blocked EXCEPT ![i] = FALSE]
    /\ lost' = [lost EXCEPT ![i] = 0]
    /\ Go(c, [handler[c] EXCEPT !.pc = "record", !.report = "healthy", !.next = "relay"])
    /\ UNCHANGED <<listening, stopping, up, health, age, left>>

(* Mutant of _mark_upstream_failure: the count does not begin anew. *)
FailureCountsOn(c, i) ==
    /\ At(c, "failure") /\ Turn(c, i)
    /\ failures' = [failures EXCEPT ![i] = @ + 1]
    /\ blocked' = [blocked EXCEPT ![i] = @ \/ failures'[i] >= UPSTREAM_FAILURE_LIMIT]
    /\ lost' = [lost EXCEPT ![i] = IF @ < UPSTREAM_FAILURE_LIMIT THEN @ + 1 ELSE @]
    /\ Go(c, [handler[c] EXCEPT !.pc = "record", !.todo = @ \ {i}, !.report = "degraded",
                !.next = IF handler[c].todo = {i} THEN "refuse" ELSE "try"])
    /\ UNCHANGED <<listening, stopping, up, health, age, left>>

(* The failure is counted; at the limit the cooldown starts, or starts again,    *)
(* and the count begins anew.                                                    *)
_mark_upstream_failure(c, i) ==
    LET cooling == failures[i] + 1 >= UPSTREAM_FAILURE_LIMIT
    IN  /\ At(c, "failure") /\ Turn(c, i)
        /\ failures' = [failures EXCEPT ![i] = IF cooling THEN 0 ELSE @ + 1]
        /\ blocked' = [blocked EXCEPT ![i] = @ \/ cooling]
        /\ lost' = [lost EXCEPT ![i] = IF @ < UPSTREAM_FAILURE_LIMIT THEN @ + 1 ELSE @]
        /\ Go(c, [handler[c] EXCEPT
                    !.pc = "record", !.todo = @ \ {i},
                    !.report = IF \A j \in Indices : blocked'[j] THEN "unavailable"
                               ELSE "degraded",
                    !.next = IF handler[c].todo = {i} THEN "refuse" ELSE "try"])
        /\ UNCHANGED <<listening, stopping, up, health, age, left>>

AfterRecord(h) ==
    CASE h.next = "try" -> [h EXCEPT !.pc = "try", !.report = "unknown", !.next = "none"]
      [] h.next = "refuse" -> Ended(h)
      [] h.next = "relay" -> [h EXCEPT !.pc = "relay", !.exit = "upstream", !.todo = {},
                                       !.report = "unknown", !.next = "none"]

(* Mutant of _record_health: only the first status of this worker is written. *)
RecordOnce(c) ==
    LET h == handler[c]
    IN  /\ At(c, "record") /\ Go(c, AfterRecord(h))
        /\ IF health = "unknown" THEN health' = h.report /\ age' = "fresh" /\ UNCHANGED left
           ELSE UNCHANGED <<health, age, left>>
        /\ UNCHANGED <<listening, stopping, up, upstreamVars>>

(* The health file is replaced unless it says the same and is under a minute     *)
(* old; a write that fails is passed over.                                       *)
_record_health(c) ==
    LET h == handler[c]
    IN  /\ At(c, "record") /\ Go(c, AfterRecord(h))
        /\ IF health = h.report /\ age = "fresh" THEN UNCHANGED <<health, age, left>>
           ELSE \/ health' = h.report /\ age' = "fresh" /\ UNCHANGED left
                \/ Spend("write") /\ UNCHANGED <<health, age>>
        /\ UNCHANGED <<listening, stopping, up, upstreamVars>>

(* _relay ends: one side closes or fails, 300 s pass without data, or the stop   *)
(* event is seen.                                                                *)
_relay(c) ==
    /\ At(c, "relay") /\ Go(c, Ended(handler[c]))
    /\ UNCHANGED <<listening, stopping, up, upstreamVars, health, age, left>>

-----------------------------------------------------------------------------
(* Time and the upstreams.                                                       *)

CooldownOver(i) ==
    /\ blocked[i] /\ blocked' = [blocked EXCEPT ![i] = FALSE]
    /\ UNCHANGED <<listening, stopping, up, failures, lost, health, age, handler, left>>

GrowOld ==
    /\ health # "unknown" /\ age # "expired" /\ Spend("age")
    /\ age' = IF age = "fresh" THEN "minute" ELSE "expired"
    /\ UNCHANGED <<listening, stopping, up, upstreamVars, health, handler>>

UpstreamChange(i) ==
    /\ Spend("up") /\ up' = [up EXCEPT ![i] = ~@]
    /\ UNCHANGED <<listening, stopping, upstreamVars, health, age, handler>>

(* The same application asks again. *)
Again(c) ==
    /\ At(c, "done") /\ Go(c, NoThread)
    /\ UNCHANGED <<listening, stopping, up, upstreamVars, health, age, left>>

Thread(c) ==
    \/ \E kind \in Kinds : _handle_request(c, kind)
    \/ _connect_direct(c) \/ _candidates(c)
    \/ \E i \in Indices : \/ _try_upstream(c, i)
                          \/ _mark_upstream_success(c, i) \/ _mark_upstream_failure(c, i)
    \/ _record_health(c) \/ _relay(c)

TransportNext ==
    \/ start \/ start_direct_listener \/ stop \/ GrowOld
    \/ \E c \in Clients : Thread(c)
    \/ \E i \in Indices : CooldownOver(i) \/ UpstreamChange(i)

(* read_transport_health: what the GUI is told. *)
read_transport_health == IF age = "expired" THEN "unknown" ELSE health

-----------------------------------------------------------------------------
(* Correctness.                                                                  *)

(* A count of failures stays below UPSTREAM_FAILURE_LIMIT, and a thread that     *)
(* tries an upstream has one to try.                                             *)
TransportTypeOK ==
    /\ listening \subseteq Listeners /\ stopping \in BOOLEAN
    /\ up \in [Indices -> BOOLEAN] /\ blocked \in [Indices -> BOOLEAN]
    /\ failures \in [Indices -> 0..(UPSTREAM_FAILURE_LIMIT - 1)]
    /\ lost \in [Indices -> 0..UPSTREAM_FAILURE_LIMIT]
    /\ health \in Statuses /\ age \in Ages /\ left \in [Events -> Nat]
    /\ \A c \in Clients :
         /\ handler[c].todo \subseteq Indices /\ handler[c].report \in Statuses
         /\ handler[c].pc \in {"try", "success", "failure"} => handler[c].todo # {}
         /\ handler[c].exit \in {"none", "direct", "upstream"}

(* A cooldown is earned: an upstream is left out only after as many failed       *)
(* attempts as the limit says without a success counted between them, however    *)
(* the threads of concurrent connections interleave.                             *)
CooldownIsEarned ==
    \A i \in Indices : blocked[i] => lost[i] >= UPSTREAM_FAILURE_LIMIT
=============================================================================
