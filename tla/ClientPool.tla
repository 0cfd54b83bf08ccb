------------------------------ MODULE ClientPool ------------------------------
(***************************************************************************)
(* RpcClientPool (src/rpc/rpc_client_pool.cpp) with the RpcClient          *)
(* connections it keeps (src/rpc/rpc_client.cpp): concurrent calls that    *)
(* fail over between worker endpoints, a circuit breaker per endpoint and  *)
(* the idle connections.  The frames carry nothing that ties a response to *)
(* a request: the next response on a connection is taken for the answer.   *)
(*                                                                         *)
(* A step is one critical section of an endpoint's mutex, or the end of a  *)
(* network exchange.  cooldown_ms is positive and longer than              *)
(* health_check_timeout_ms, as in the defaults (3000 and 500).             *)
(***************************************************************************)
EXTENDS Integers, Sequences, FiniteSets

CONSTANTS
    Call,           \* calls of RpcClientPool::call, each by a thread of its own
    Endpoint,       \* the endpoints service discovery returns
    Invalid,        \* the ones of them that parseEndpoint refuses
    None,
    Threshold,      \* failure_threshold
    MaxIdle,        \* max_idle_per_endpoint
    MaxFailures     \* bound: where consecutive_failures stops counting

ASSUME PoolAssumption ==
    /\ Invalid \subseteq Endpoint /\ None \notin Endpoint
    /\ Threshold \in Nat \ {0} /\ MaxIdle \in Nat \ {0}
    /\ MaxFailures \in Nat /\ Threshold <= MaxFailures

VARIABLES
    circuit,    \* endpoint: circuit_state
    failures,   \* endpoint: consecutive_failures
    cooling,    \* endpoint: now < unhealthy_until
    probing,    \* endpoint: half_open_probe_in_flight
    idle,       \* endpoint: idle_clients, each the requests it has not read the answer of
    call        \* call: where it is, and its locals

vars == <<circuit, failures, cooling, probing, idle, call>>
breaker == <<circuit, failures, cooling, probing>>

\* new, next (in the loop over the candidates), probe (waiting for HealthCheck), ready (may use the
\* endpoint), sent (waiting for the answer), success and failure (known, not yet recorded), ok, failed.
CallState ==
    [pc : {"new", "next", "probe", "ready", "sent", "success", "failure", "ok", "failed"},
     todo : SUBSET Endpoint, at : Endpoint \cup {None},
     conn : Seq(Call), answer : Call \cup {None}, final : BOOLEAN]
NewCall == [pc |-> "new", todo |-> {}, at |-> None, conn |-> <<>>, answer |-> None, final |-> FALSE]

Init ==
    /\ circuit = [e \in Endpoint |-> "closed"] /\ failures = [e \in Endpoint |-> 0]
    /\ cooling = [e \in Endpoint |-> FALSE] /\ probing = [e \in Endpoint |-> FALSE]
    /\ idle = [e \in Endpoint |-> <<>>]
    /\ call = [c \in Call |-> NewCall]

Becomes(c, pc) == call' = [call EXCEPT ![c].pc = pc]

-----------------------------------------------------------------------------
(* The circuit breaker *)

Reservable(e)      == circuit[e] = "open" /\ ~cooling[e] /\ ~probing[e]
isHealthyEnough(e) == circuit[e] = "closed" \/ Reservable(e)

reserveHalfOpenProbe(e) ==
    /\ Reservable(e)
    /\ circuit' = [circuit EXCEPT ![e] = "half"] /\ probing' = [probing EXCEPT ![e] = TRUE]
    /\ UNCHANGED <<failures, cooling>>

recordSuccess(e) ==
    /\ circuit' = [circuit EXCEPT ![e] = "closed"] /\ failures' = [failures EXCEPT ![e] = 0]
    /\ cooling' = [cooling EXCEPT ![e] = FALSE] /\ probing' = [probing EXCEPT ![e] = FALSE]

Counted(n) == IF n < MaxFailures THEN n + 1 ELSE n

\* Mutants: the count starts over when the circuit opens; reopening does not start the cooldown again.
recordFailure_Resets(e) ==
    LET n == Counted(failures[e])
    IN  IF n >= Threshold
        THEN /\ circuit' = [circuit EXCEPT ![e] = "open"] /\ cooling' = [cooling EXCEPT ![e] = TRUE]
             /\ probing' = [probing EXCEPT ![e] = FALSE] /\ failures' = [failures EXCEPT ![e] = 0]
        ELSE failures' = [failures EXCEPT ![e] = n] /\ UNCHANGED <<circuit, cooling, probing>>
recordFailure_NoCooldown(e) ==
    /\ failures' = [failures EXCEPT ![e] = Counted(@)]
    /\ IF failures'[e] >= Threshold
       THEN /\ circuit' = [circuit EXCEPT ![e] = "open"] /\ probing' = [probing EXCEPT ![e] = FALSE]
            /\ UNCHANGED cooling
       ELSE UNCHANGED <<circuit, cooling, probing>>

recordFailure(e) ==
    /\ failures' = [failures EXCEPT ![e] = Counted(@)]
    /\ IF failures'[e] >= Threshold
       THEN /\ circuit' = [circuit EXCEPT ![e] = "open"] /\ cooling' = [cooling EXCEPT ![e] = TRUE]
            /\ probing' = [probing EXCEPT ![e] = FALSE]
       ELSE UNCHANGED <<circuit, cooling, probing>>

Probers(e) == {c \in Call : call[c].pc = "probe" /\ call[c].at = e}

\* unhealthy_until passes.  A probe that was on its way when it was set has timed out by then.
CooldownEnds(e) ==
    /\ cooling[e] /\ Probers(e) = {}
    /\ cooling' = [cooling EXCEPT ![e] = FALSE]
    /\ UNCHANGED <<circuit, failures, probing, idle, call>>

-----------------------------------------------------------------------------
(* RpcClientPool::call *)

\* orderedCandidates: the endpoints that look healthy now.  Discovery returns them in any order.
Begin(c, E) ==
    /\ call[c].pc = "new"
    /\ LET todo == {e \in E : isHealthyEnough(e)}
       IN  call' = [call EXCEPT ![c].todo = todo, ![c].pc = IF todo = {} THEN "failed" ELSE "next"]
    /\ UNCHANGED <<breaker, idle>>

\* No candidate is left, or the call was cancelled or is out of time.
GiveUp(c) == call[c].pc = "next" /\ Becomes(c, "failed") /\ UNCHANGED <<breaker, idle>>

Usable(e) == circuit[e] = "closed"

\* The next candidate, whose circuit may have changed since Begin looked at it: invalid, reserved for
\* a probe, used as it is, or left out.
TryEndpoint(c) ==
    /\ call[c].pc = "next"
    /\ \E e \in call[c].todo :
         LET at(pc) == call' = [call EXCEPT ![c].todo = @ \ {e}, ![c].at = e, ![c].pc = pc]
         IN  \/ e \in Invalid /\ recordFailure(e) /\ at("next")
             \/ e \notin Invalid /\ reserveHalfOpenProbe(e) /\ at("probe")
             \/ e \notin Invalid /\ Usable(e) /\ at("ready") /\ UNCHANGED breaker
             \/ e \notin Invalid /\ ~Usable(e) /\ ~Reservable(e) /\ at("next") /\ UNCHANGED breaker
    /\ UNCHANGED idle

\* healthCheckEndpoint returns; finishHalfOpenProbe.
EndProbe(c) ==
    /\ call[c].pc = "probe"
    /\ \/ recordSuccess(call[c].at) /\ Becomes(c, "ready")
       \/ recordFailure(call[c].at) /\ Becomes(c, "next")
    /\ UNCHANGED idle

\* borrow the connection released last, or make one; the request is sent.
Send(c) ==
    /\ call[c].pc = "ready"
    /\ LET e == call[c].at  n == Len(idle[e])
           conn == IF n = 0 THEN <<>> ELSE idle[e][n]
       IN  /\ call' = [call EXCEPT ![c].conn = Append(conn, c), ![c].pc = "sent"]
           /\ idle' = [idle EXCEPT ![e] = IF n = 0 THEN @ ELSE SubSeq(@, 1, n - 1)]
    /\ UNCHANGED breaker

\* A connection goes back after a success, if there is room; any other is closed.
release(e, conn, reusable) ==
    idle' = [idle EXCEPT ![e] = IF reusable /\ Len(@) < MaxIdle THEN Append(@, conn) ELSE @]

\* A whole frame has been read: the first one on its way.
Receive(c) ==
    /\ call[c].pc = "sent"
    /\ release(call[c].at, Tail(call[c].conn), TRUE)
    /\ call' = [call EXCEPT ![c].answer = Head(call[c].conn), ![c].conn = <<>>, ![c].pc = "success"]
    /\ UNCHANGED breaker

\* Mutant: a call that fails or runs out of time leaves the connection up and gives it back.
Fail_Keeps(c, final) ==
    /\ call[c].pc = "sent"
    /\ release(call[c].at, call[c].conn, TRUE)
    /\ call' = [call EXCEPT ![c].conn = <<>>, ![c].final = final, ![c].pc = "failure"]
    /\ UNCHANGED breaker

\* disconnect(): no connection, a broken one, a bad frame; or (final) cancelled or out of time.
Fail(c, final) ==
    /\ call[c].pc = "sent"
    /\ release(call[c].at, call[c].conn, FALSE)
    /\ call' = [call EXCEPT ![c].conn = <<>>, ![c].final = final, ![c].pc = "failure"]
    /\ UNCHANGED breaker

\* The result reaches the breaker only now: others may have changed the circuit meanwhile.
Record(c) ==
    /\ \/ call[c].pc = "success" /\ recordSuccess(call[c].at) /\ Becomes(c, "ok")
       \/ /\ call[c].pc = "failure" /\ recordFailure(call[c].at)
          /\ Becomes(c, IF call[c].final THEN "failed" ELSE "next")
    /\ UNCHANGED idle

CallStep(c) ==
    \/ GiveUp(c) \/ TryEndpoint(c) \/ EndProbe(c) \/ Send(c)
    \/ Receive(c) \/ (\E final \in BOOLEAN : Fail(c, final)) \/ Record(c)

Next ==
    \/ \E c \in Call : (\E E \in SUBSET Endpoint : Begin(c, E)) \/ CallStep(c)
    \/ \E e \in Endpoint : CooldownEnds(e)

Spec == Init /\ [][Next]_vars

-----------------------------------------------------------------------------
(* Properties *)

\* The types of the endpoint states and the calls' locals (part of HalfOpenIsDecided).
TypeOK ==
    /\ circuit \in [Endpoint -> {"closed", "open", "half"}] /\ failures \in [Endpoint -> 0..MaxFailures]
    /\ cooling \in [Endpoint -> BOOLEAN] /\ probing \in [Endpoint -> BOOLEAN]
    /\ idle \in [Endpoint -> Seq(Seq(Call))] /\ call \in [Call -> CallState]

\* Half-open lets one HealthCheck through at a time, also when an old call fails or succeeds while
\* the probe is on its way and the circuit moves on (reserveHalfOpenProbe, recordFailure).
SingleProbe == \A e \in Endpoint : Cardinality(Probers(e)) <= 1

\* No endpoint is lost to the pool: a half-open circuit has the probe on its way that will decide it,
\* and a circuit that is not closed counts failures enough for a failed probe to open it again.
HalfOpenIsDecided ==
    TypeOK /\ \A e \in Endpoint :
        /\ circuit[e] = "half" => probing[e] /\ Probers(e) # {}
        /\ circuit[e] = "closed" <=> failures[e] < Threshold
        /\ probing[e] => circuit[e] = "half"

\* A call that succeeds returns the answer to its own request, although connections are shared in turn
\* by calls that fail, time out or are cancelled while their answer is on its way.
AnswerIsOwn == \A c \in Call : call[c].pc \in {"success", "ok"} => call[c].answer = c
=============================================================================
