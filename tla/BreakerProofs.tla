----------------------------- MODULE BreakerProofs -----------------------------
(***************************************************************************)
(* The circuit breaker and the connections of module ClientPool, for any   *)
(* number of calls, endpoints, idle connections and failures.              *)
(***************************************************************************)
EXTENDS ClientPool, TLAPS, FiniteSetTheorems

Probes(c, e) == call[c].pc = "probe" /\ call[c].at = e

\* A call that works on an endpoint has one.
AtEndpoint ==
    \A c \in Call : call[c].pc \in {"probe", "ready", "sent", "success", "failure"} => call[c].at \in Endpoint

\* A half-open circuit is being probed.
HalfIsProbed == \A e \in Endpoint : circuit[e] = "half" => probing[e] /\ \E c \in Call : Probes(c, e)

\* The circuit and the count of failures agree, and a probe is noted in a half-open circuit only.
CountAgrees ==
    \A e \in Endpoint : (circuit[e] = "closed" <=> failures[e] < Threshold) /\ (probing[e] => circuit[e] = "half")

\* No two calls probe an endpoint...
OneProbe == \A c, d \in Call, e \in Endpoint : Probes(c, e) /\ Probes(d, e) => c = d

\* ... because none is on its way when the next one may start: a probe whose circuit was opened
\* under it has ended before the cooldown has.
Rested == \A c \in Call, e \in Endpoint : circuit[e] = "open" /\ ~cooling[e] => ~Probes(c, e)

\* A connection that is kept has nothing on its way; one that is used has its call's request.
Connections ==
    /\ \A e \in Endpoint : \A k \in 1..Len(idle[e]) : idle[e][k] = <<>>
    /\ \A c \in Call : call[c].pc = "sent" => call[c].conn = <<c>>

PoolInv ==
    /\ TypeOK /\ AtEndpoint /\ HalfIsProbed /\ CountAgrees /\ OneProbe /\ Rested
    /\ Connections /\ AnswerIsOwn

-----------------------------------------------------------------------------
(* The breaker *)

BreakerTypes ==
    /\ circuit \in [Endpoint -> {"closed", "open", "half"}] /\ failures \in [Endpoint -> 0..MaxFailures]
    /\ cooling \in [Endpoint -> BOOLEAN] /\ probing \in [Endpoint -> BOOLEAN]

\* What recording any result leaves: a circuit that is closed, or open with a cooldown ahead.
Settles(e) ==
    /\ BreakerTypes' /\ CountAgrees'
    /\ circuit'[e] = "closed" \/ (circuit'[e] = "open" /\ cooling'[e])
    /\ \A f \in Endpoint \ {e} : circuit'[f] = circuit[f] /\ cooling'[f] = cooling[f] /\ probing'[f] = probing[f]

\* Only c's record changes.
OnlyCall(c) == \A d \in Call \ {c} : call'[d] = call[d]

\* recordSuccess settles the circuit.
LEMMA SuccessSettles ==
    ASSUME BreakerTypes, CountAgrees, NEW e \in Endpoint, recordSuccess(e)
    PROVE  Settles(e)
  BY PoolAssumption DEF BreakerTypes, CountAgrees, recordSuccess, Settles

\* recordFailure settles the circuit: below the threshold it was closed, and stays so.
LEMMA FailureSettles ==
    ASSUME BreakerTypes, CountAgrees, NEW e \in Endpoint, recordFailure(e)
    PROVE  Settles(e)
<1>1. failures' \in [Endpoint -> 0..MaxFailures]
  BY PoolAssumption DEF BreakerTypes, recordFailure, Counted
<1>2. failures'[e] >= failures[e] /\ \A f \in Endpoint \ {e} : failures'[f] = failures[f]
  BY PoolAssumption DEF BreakerTypes, recordFailure, Counted
<1>3. CASE failures'[e] >= Threshold
  <2>1. BreakerTypes' /\ circuit'[e] = "open" /\ cooling'[e] /\ ~probing'[e]
    BY <1>1, <1>3 DEF BreakerTypes, recordFailure
  <2>2. \A f \in Endpoint \ {e} : circuit'[f] = circuit[f] /\ cooling'[f] = cooling[f] /\ probing'[f] = probing[f]
    BY <1>3 DEF BreakerTypes, recordFailure
  <2>3. ~(failures'[e] < Threshold)
    BY <1>1, <1>3, PoolAssumption
  <2>4. CountAgrees'
    BY <1>2, <2>1, <2>2, <2>3 DEF CountAgrees
  <2> QED
    BY <2>1, <2>2, <2>4 DEF Settles
<1>4. CASE ~(failures'[e] >= Threshold)
  <2>1. UNCHANGED <<circuit, cooling, probing>>
    BY <1>4 DEF recordFailure
  <2>2. failures[e] < Threshold /\ failures'[e] < Threshold
    BY <1>1, <1>2, <1>4, PoolAssumption DEF BreakerTypes
  <2> QED
    BY <1>1, <1>2, <2>1, <2>2 DEF BreakerTypes, CountAgrees, Settles
<1> QED
  BY <1>3, <1>4

\* A call that records a result for e, its own probe's or another's, leaves every half-open circuit
\* its probe and every circuit that may be probed next without one.
LEMMA SettledProbes ==
    ASSUME HalfIsProbed, OneProbe, Rested, NEW c \in Call, NEW e \in Endpoint, Settles(e), OnlyCall(c),
           call'[c].pc # "probe", \A f \in Endpoint : Probes(c, f) => f = e
    PROVE  HalfIsProbed' /\ OneProbe' /\ Rested'
<1>1. \A d \in Call, f \in Endpoint : Probes(d, f)' => d # c /\ Probes(d, f)
  BY DEF OnlyCall, Probes
<1>2. OneProbe'
  BY <1>1 DEF OneProbe
<1>3. Rested'
  BY <1>1 DEF Rested, Settles
<1>4. \A f \in Endpoint \ {e}, d \in Call : Probes(d, f) => Probes(d, f)'
  BY DEF OnlyCall, Probes
<1>5. HalfIsProbed'
  BY <1>4 DEF HalfIsProbed, Settles
<1> QED
  BY <1>2, <1>3, <1>5

\* A step that leaves the breaker alone, of a call that does not probe.
LEMMA UntouchedBreaker ==
    ASSUME BreakerTypes, CountAgrees, HalfIsProbed, OneProbe, Rested, NEW c \in Call, UNCHANGED breaker,
           OnlyCall(c), call[c].pc # "probe", call'[c].pc # "probe"
    PROVE  BreakerTypes' /\ CountAgrees' /\ HalfIsProbed' /\ OneProbe' /\ Rested'
<1>1. \A d \in Call, f \in Endpoint : Probes(d, f)' <=> Probes(d, f)
  BY DEF OnlyCall, Probes
<1> QED
  BY <1>1 DEF BreakerTypes, CountAgrees, HalfIsProbed, OneProbe, Rested, breaker

\* reserveHalfOpenProbe: the call that starts the probe is the only one.
LEMMA ReservedProbe ==
    ASSUME BreakerTypes, CountAgrees, HalfIsProbed, OneProbe, Rested, NEW c \in Call, NEW e \in Endpoint,
           reserveHalfOpenProbe(e), OnlyCall(c), call[c].pc # "probe", call'[c].pc = "probe", call'[c].at = e
    PROVE  BreakerTypes' /\ CountAgrees' /\ HalfIsProbed' /\ OneProbe' /\ Rested'
<1>1. \A d \in Call : ~Probes(d, e)
  BY DEF Rested, reserveHalfOpenProbe, Reservable
<1>2. \A d \in Call, f \in Endpoint : Probes(d, f)' <=> (Probes(d, f) \/ (d = c /\ f = e))
  BY DEF OnlyCall, Probes
<1>3. /\ circuit'[e] = "half" /\ probing'[e]
      /\ \A f \in Endpoint \ {e} : circuit'[f] = circuit[f] /\ probing'[f] = probing[f]
      /\ cooling' = cooling /\ failures' = failures /\ BreakerTypes'
  BY DEF BreakerTypes, reserveHalfOpenProbe
<1>4. CountAgrees'
  BY <1>3 DEF CountAgrees, reserveHalfOpenProbe, Reservable
<1>5. HalfIsProbed'
  BY <1>2, <1>3 DEF HalfIsProbed
<1>6. OneProbe'
  <2> SUFFICES ASSUME NEW d1 \in Call, NEW d2 \in Call, NEW f \in Endpoint, Probes(d1, f)', Probes(d2, f)'
               PROVE  d1 = d2
    BY DEF OneProbe
  <2>1. CASE f = e
    BY <1>1, <1>2, <2>1
  <2>2. CASE f # e
    BY <1>2, <2>2 DEF OneProbe
  <2> QED
    BY <2>1, <2>2
<1>7. Rested'
  BY <1>2, <1>3 DEF Rested
<1> QED
  BY <1>3, <1>4, <1>5, <1>6, <1>7

-----------------------------------------------------------------------------
(* The calls and their connections *)

CallTypes == call \in [Call -> CallState]

\* The idle connections are typed, and nothing is on its way on them.
IdleEmpty ==
    /\ idle \in [Endpoint -> Seq(Seq(Call))]
    /\ \A e \in Endpoint : \A k \in 1..Len(idle[e]) : idle[e][k] = <<>>

\* What PoolInv says of one call.
CallFine(c) ==
    /\ call[c].pc \in {"probe", "ready", "sent", "success", "failure"} => call[c].at \in Endpoint
    /\ call[c].pc = "sent" => call[c].conn = <<c>>
    /\ call[c].pc \in {"success", "ok"} => call[c].answer = c

\* The invariant, taken apart: the breaker, the calls, the idle connections.
LEMMA Parts ==
    PoolInv => /\ BreakerTypes /\ CountAgrees /\ HalfIsProbed /\ OneProbe /\ Rested
               /\ CallTypes /\ IdleEmpty /\ \A c \in Call : CallFine(c)
  BY DEF PoolInv, TypeOK, BreakerTypes, CallTypes, IdleEmpty, CallFine, AtEndpoint, Connections, AnswerIsOwn

\* The same, to put it together again after a step.
LEMMA Joined ==
    ASSUME BreakerTypes', CountAgrees', HalfIsProbed', OneProbe', Rested', CallTypes', IdleEmpty',
           \A c \in Call : CallFine(c)'
    PROVE  PoolInv'
  BY DEF PoolInv, TypeOK, BreakerTypes, CallTypes, IdleEmpty, CallFine, AtEndpoint, Connections, AnswerIsOwn

\* A step of c alone keeps the other calls' part.
LEMMA OthersFine ==
    ASSUME NEW c \in Call, \A d \in Call : CallFine(d), OnlyCall(c), CallFine(c)'
    PROVE  \A d \in Call : CallFine(d)'
  BY DEF OnlyCall, CallFine

\* Becomes changes c's place and nothing else.
LEMMA BecomesFacts ==
    ASSUME CallTypes, NEW c \in Call, NEW pc \in {"next", "ready", "ok", "failed"}, Becomes(c, pc)
    PROVE  /\ CallTypes' /\ OnlyCall(c)
           /\ call'[c].pc = pc /\ call'[c].at = call[c].at /\ call'[c].answer = call[c].answer
<1>1. call' = [call EXCEPT ![c] = [call[c] EXCEPT !.pc = pc]] /\ call[c] \in CallState
  BY DEF Becomes, CallTypes
<1>2. [call[c] EXCEPT !.pc = pc] \in CallState
  BY <1>1 DEF CallState
<1> QED
  BY <1>1, <1>2 DEF CallTypes, OnlyCall, CallState

\* Begin and GiveUp keep the invariant.
LEMMA BeginStep ==
    ASSUME PoolInv, NEW c \in Call, NEW E \in SUBSET Endpoint, Begin(c, E)
    PROVE  PoolInv'
<1>1. BreakerTypes /\ CountAgrees /\ HalfIsProbed /\ OneProbe /\ Rested /\ CallTypes /\ IdleEmpty
      /\ \A d \in Call : CallFine(d)
  BY Parts
<1> DEFINE todo == {e \in E : isHealthyEnough(e)}
           r == [call[c] EXCEPT !.todo = todo, !.pc = IF todo = {} THEN "failed" ELSE "next"]
<1>2. call' = [call EXCEPT ![c] = r] /\ call[c] \in CallState /\ call[c].pc = "new"
  BY <1>1 DEF Begin, CallTypes
<1>3. todo \in SUBSET Endpoint
  OBVIOUS
<1> HIDE DEF todo
<1>4. r \in CallState /\ r.pc \in {"failed", "next"}
  BY <1>2, <1>3 DEF CallState
<1> HIDE DEF r
<1>5. CallTypes' /\ OnlyCall(c) /\ call'[c].pc \in {"failed", "next"}
  BY <1>1, <1>2, <1>4 DEF CallTypes, OnlyCall
<1>6. \A d \in Call : CallFine(d)'
  BY <1>1, <1>5, OthersFine DEF CallFine
<1>7. BreakerTypes' /\ CountAgrees' /\ HalfIsProbed' /\ OneProbe' /\ Rested'
  BY <1>1, <1>2, <1>5, UntouchedBreaker DEF Begin
<1>8. IdleEmpty'
  BY <1>1 DEF Begin, IdleEmpty
<1> QED
  BY <1>5, <1>6, <1>7, <1>8, Joined

\* A call that gives up leaves the breakers and the connections alone.
LEMMA GiveUpStep ==
    ASSUME PoolInv, NEW c \in Call, GiveUp(c)
    PROVE  PoolInv'
<1>1. BreakerTypes /\ CountAgrees /\ HalfIsProbed /\ OneProbe /\ Rested /\ CallTypes /\ IdleEmpty
      /\ \A d \in Call : CallFine(d)
  BY Parts
<1>2. CallTypes' /\ OnlyCall(c) /\ call'[c].pc = "failed"
  BY <1>1, BecomesFacts DEF GiveUp
<1>3. \A d \in Call : CallFine(d)'
  BY <1>1, <1>2, OthersFine DEF CallFine
<1>4. BreakerTypes' /\ CountAgrees' /\ HalfIsProbed' /\ OneProbe' /\ Rested'
  BY <1>1, <1>2, UntouchedBreaker DEF GiveUp
<1>5. IdleEmpty'
  BY <1>1 DEF GiveUp, IdleEmpty
<1> QED
  BY <1>2, <1>3, <1>4, <1>5, Joined

\* TryEndpoint keeps the invariant, whichever way it goes.
LEMMA TryStep ==
    ASSUME PoolInv, NEW c \in Call, TryEndpoint(c)
    PROVE  PoolInv'
<1>1. BreakerTypes /\ CountAgrees /\ HalfIsProbed /\ OneProbe /\ Rested /\ CallTypes /\ IdleEmpty
      /\ \A d \in Call : CallFine(d)
  BY Parts
<1>2. call[c].pc = "next" /\ call[c] \in CallState
  BY <1>1 DEF TryEndpoint, CallTypes
<1> DEFINE at(e, pc) == call' = [call EXCEPT ![c].todo = @ \ {e}, ![c].at = e, ![c].pc = pc]
<1>3. PICK e \in call[c].todo :
        \/ recordFailure(e) /\ at(e, "next")
        \/ reserveHalfOpenProbe(e) /\ at(e, "probe")
        \/ at(e, "ready") /\ UNCHANGED breaker
        \/ at(e, "next") /\ UNCHANGED breaker
  BY DEF TryEndpoint
<1>4. e \in Endpoint
  BY <1>2 DEF CallState
<1>5. ASSUME NEW pc \in {"next", "probe", "ready"}, at(e, pc)
      PROVE  CallTypes' /\ OnlyCall(c) /\ call'[c].pc = pc /\ call'[c].at = e
  <2> DEFINE r == [call[c] EXCEPT !.todo = @ \ {e}, !.at = e, !.pc = pc]
  <2>1. call' = [call EXCEPT ![c] = r]
    BY <1>1, <1>5 DEF CallTypes
  <2>2. r \in CallState /\ r.pc = pc /\ r.at = e
    BY <1>2, <1>4 DEF CallState
  <2> HIDE DEF r
  <2> QED
    BY <1>1, <2>1, <2>2 DEF CallTypes, OnlyCall
<1>6. CallTypes' /\ OnlyCall(c) /\ call'[c].pc \in {"next", "probe", "ready"} /\ call'[c].at = e
  BY <1>3, <1>5
<1>7. \A d \in Call : CallFine(d)'
  BY <1>1, <1>4, <1>6, OthersFine DEF CallFine
<1>8. BreakerTypes' /\ CountAgrees' /\ HalfIsProbed' /\ OneProbe' /\ Rested'
  <2>1. CASE recordFailure(e) /\ at(e, "next")
    <3>1. Settles(e)
      BY <1>1, <1>4, <2>1, FailureSettles
    <3>2. call'[c].pc # "probe" /\ \A f \in Endpoint : ~Probes(c, f)
      BY <1>2, <1>5, <2>1 DEF Probes
    <3> QED
      BY <1>1, <1>4, <1>6, <3>1, <3>2, SettledProbes DEF Settles
  <2>2. CASE reserveHalfOpenProbe(e) /\ at(e, "probe")
    <3>1. call'[c].pc = "probe" /\ call[c].pc # "probe"
      BY <1>2, <1>5, <2>2
    <3> QED
      BY <1>1, <1>4, <1>6, <2>2, <3>1, ReservedProbe
  <2>3. CASE (at(e, "ready") \/ at(e, "next")) /\ UNCHANGED breaker
    <3>1. call'[c].pc # "probe" /\ call[c].pc # "probe"
      BY <1>2, <1>5, <2>3
    <3> QED
      BY <1>1, <1>6, <2>3, <3>1, UntouchedBreaker
  <2> QED
    BY <1>3, <2>1, <2>2, <2>3
<1>9. IdleEmpty'
  BY <1>1 DEF TryEndpoint, IdleEmpty
<1> QED
  BY <1>6, <1>7, <1>8, <1>9, Joined

\* A result is recorded at the endpoint a call is at, its own probe's included.
LEMMA RecordedStep ==
    ASSUME PoolInv, NEW c \in Call, NEW pc \in {"next", "ready", "ok", "failed"}, Becomes(c, pc), UNCHANGED idle,
           call[c].pc \in {"probe", "success", "failure"}, pc = "ok" => call[c].pc = "success",
           recordSuccess(call[c].at) \/ recordFailure(call[c].at)
    PROVE  PoolInv'
<1>1. BreakerTypes /\ CountAgrees /\ HalfIsProbed /\ OneProbe /\ Rested /\ CallTypes /\ IdleEmpty
      /\ \A d \in Call : CallFine(d)
  BY Parts
<1>2. call[c].at \in Endpoint
  BY <1>1 DEF CallFine
<1>3. /\ CallTypes' /\ OnlyCall(c)
      /\ call'[c].pc = pc /\ call'[c].at = call[c].at /\ call'[c].answer = call[c].answer
  BY <1>1, BecomesFacts
<1>4. \A d \in Call : CallFine(d)'
  <2>1. CallFine(c)'
    BY <1>1, <1>2, <1>3 DEF CallFine
  <2> QED
    BY <1>1, <1>3, <2>1, OthersFine
<1>5. Settles(call[c].at)
  BY <1>1, <1>2, SuccessSettles, FailureSettles
<1>6. HalfIsProbed' /\ OneProbe' /\ Rested'
  <2>1. call'[c].pc # "probe" /\ \A f \in Endpoint : Probes(c, f) => f = call[c].at
    BY <1>3 DEF Probes
  <2> QED
    BY <1>1, <1>2, <1>3, <1>5, <2>1, SettledProbes
<1>7. IdleEmpty'
  BY <1>1 DEF IdleEmpty
<1> QED
  BY <1>3, <1>4, <1>5, <1>6, <1>7, Joined DEF Settles

\* A call's record with another connection, and with it another place, answer or final.
LEMMA Reconnected ==
    ASSUME NEW r \in CallState, NEW conn \in Seq(Call), NEW answer \in Call, NEW final \in BOOLEAN
    PROVE  /\ [r EXCEPT !.conn = conn, !.pc = "sent"] \in CallState
           /\ [r EXCEPT !.answer = answer, !.conn = conn, !.pc = "success"] \in CallState
           /\ [r EXCEPT !.conn = conn, !.final = final, !.pc = "failure"] \in CallState
<1>1. [r EXCEPT !.conn = conn, !.pc = "sent"] \in CallState
  BY DEF CallState
<1>2. [r EXCEPT !.answer = answer, !.conn = conn, !.pc = "success"] \in CallState
  BY DEF CallState
<1>3. [r EXCEPT !.conn = conn, !.final = final, !.pc = "failure"] \in CallState
  BY DEF CallState
<1> QED
  BY <1>1, <1>2, <1>3

\* Send takes a connection with nothing on its way and puts the call's request on it.
LEMMA SendStep ==
    ASSUME PoolInv, NEW c \in Call, Send(c)
    PROVE  PoolInv'
<1>1. BreakerTypes /\ CountAgrees /\ HalfIsProbed /\ OneProbe /\ Rested /\ CallTypes /\ IdleEmpty
      /\ \A d \in Call : CallFine(d)
  BY Parts
<1>2. call[c].pc = "ready" /\ call[c] \in CallState /\ call[c].at \in Endpoint
  BY <1>1 DEF Send, CallTypes, CallFine
<1> DEFINE e == call[c].at
           n == Len(idle[e])
           conn == IF n = 0 THEN <<>> ELSE idle[e][n]
           r == [call[c] EXCEPT !.conn = <<c>>, !.pc = "sent"]
<1>3. idle[e] \in Seq(Seq(Call)) /\ n \in Nat
  BY <1>1, <1>2 DEF IdleEmpty
<1>4. conn = <<>>
  BY <1>1, <1>2, <1>3 DEF IdleEmpty
<1>5. Append(conn, c) = <<c>>
  <2>1. Append(<<>>, c) = <<c>>
    OBVIOUS
  <2> HIDE DEF conn
  <2> QED
    BY <1>4, <2>1
<1>6. call' = [call EXCEPT ![c] = r]
  <2>1. call' = [call EXCEPT ![c].conn = Append(conn, c), ![c].pc = "sent"]
    BY DEF Send
  <2> HIDE DEF conn
  <2> QED
    BY <1>1, <1>5, <2>1 DEF CallTypes
<1>7. r \in CallState /\ r.pc = "sent" /\ r.conn = <<c>> /\ r.at = call[c].at
  <2>1. <<c>> \in Seq(Call)
    OBVIOUS
  <2>2. r \in CallState
    BY <1>2, <2>1, Reconnected
  <2> QED
    BY <1>2, <2>2 DEF CallState
<1>8. CallTypes' /\ OnlyCall(c) /\ call'[c].pc = "sent" /\ call'[c].conn = <<c>> /\ call'[c].at = call[c].at
  <2> HIDE DEF r
  <2> QED
    BY <1>1, <1>6, <1>7 DEF CallTypes, OnlyCall
<1>9. \A d \in Call : CallFine(d)'
  BY <1>1, <1>2, <1>8, OthersFine DEF CallFine
<1>10. BreakerTypes' /\ CountAgrees' /\ HalfIsProbed' /\ OneProbe' /\ Rested'
  BY <1>1, <1>2, <1>8, UntouchedBreaker DEF Send
<1>11. IdleEmpty'
  <2> DEFINE s == IF n = 0 THEN idle[e] ELSE SubSeq(idle[e], 1, n - 1)
  <2>1. idle' = [idle EXCEPT ![e] = s]
    BY DEF Send
  <2>2. s \in Seq(Seq(Call)) /\ \A k \in 1..Len(s) : s[k] = <<>>
    <3>1. CASE n = 0
      BY <1>1, <1>2, <1>3, <3>1 DEF IdleEmpty
    <3>2. CASE n # 0
      BY <1>1, <1>2, <1>3, <3>2 DEF IdleEmpty
    <3> QED
      BY <3>1, <3>2
  <2> HIDE DEF s
  <2> QED
    BY <1>1, <1>2, <2>1, <2>2 DEF IdleEmpty
<1> QED
  BY <1>8, <1>9, <1>10, <1>11, Joined

\* Receive reads the call's own answer, the only one on its way, and leaves the connection empty.
LEMMA ReceiveStep ==
    ASSUME PoolInv, NEW c \in Call, Receive(c)
    PROVE  PoolInv'
<1>1. BreakerTypes /\ CountAgrees /\ HalfIsProbed /\ OneProbe /\ Rested /\ CallTypes /\ IdleEmpty
      /\ \A d \in Call : CallFine(d)
  BY Parts
<1>2. /\ call[c].pc = "sent" /\ call[c] \in CallState /\ call[c].at \in Endpoint
      /\ call[c].conn = <<c>>
  BY <1>1 DEF Receive, CallTypes, CallFine
<1>3. Head(call[c].conn) = c /\ Tail(call[c].conn) = <<>>
  BY <1>2
<1> DEFINE r == [call[c] EXCEPT !.answer = c, !.conn = <<>>, !.pc = "success"]
<1>4. call' = [call EXCEPT ![c] = r]
  BY <1>1, <1>3 DEF Receive, CallTypes
<1>5. r \in CallState /\ r.pc = "success" /\ r.answer = c /\ r.at = call[c].at
  <2>1. <<>> \in Seq(Call)
    OBVIOUS
  <2>2. r \in CallState
    BY <1>2, <2>1, Reconnected
  <2> QED
    BY <1>2, <2>2 DEF CallState
<1>6. CallTypes' /\ OnlyCall(c) /\ call'[c].pc = "success" /\ call'[c].answer = c /\ call'[c].at = call[c].at
  <2> HIDE DEF r
  <2> QED
    BY <1>1, <1>4, <1>5 DEF CallTypes, OnlyCall
<1>7. \A d \in Call : CallFine(d)'
  BY <1>1, <1>2, <1>6, OthersFine DEF CallFine
<1>8. BreakerTypes' /\ CountAgrees' /\ HalfIsProbed' /\ OneProbe' /\ Rested'
  BY <1>1, <1>2, <1>6, UntouchedBreaker DEF Receive
<1>9. IdleEmpty'
  <2> DEFINE q == idle[call[c].at]
             s == IF Len(q) < MaxIdle THEN Append(q, <<>>) ELSE q
  <2>1. idle' = [idle EXCEPT ![call[c].at] = s]
    BY <1>3 DEF Receive, release
  <2>2. q \in Seq(Seq(Call)) /\ \A k \in 1..Len(q) : q[k] = <<>>
    BY <1>1, <1>2 DEF IdleEmpty
  <2> HIDE DEF q
  <2>3. s \in Seq(Seq(Call)) /\ \A k \in 1..Len(s) : s[k] = <<>>
    <3>1. <<>> \in Seq(Call)
      OBVIOUS
    <3> QED
      BY <2>2, <3>1
  <2> HIDE DEF s
  <2> QED
    BY <1>1, <1>2, <2>1, <2>3 DEF IdleEmpty
<1> QED
  BY <1>6, <1>7, <1>8, <1>9, Joined

\* Fail closes the connection, whatever is on its way on it.
LEMMA FailStep ==
    ASSUME PoolInv, NEW c \in Call, NEW final \in BOOLEAN, Fail(c, final)
    PROVE  PoolInv'
<1>1. BreakerTypes /\ CountAgrees /\ HalfIsProbed /\ OneProbe /\ Rested /\ CallTypes /\ IdleEmpty
      /\ \A d \in Call : CallFine(d)
  BY Parts
<1>2. call[c].pc = "sent" /\ call[c] \in CallState /\ call[c].at \in Endpoint
  BY <1>1 DEF Fail, CallTypes, CallFine
<1> DEFINE r == [call[c] EXCEPT !.conn = <<>>, !.final = final, !.pc = "failure"]
<1>3. call' = [call EXCEPT ![c] = r]
  BY <1>1 DEF Fail, CallTypes
<1>4. r \in CallState /\ r.pc = "failure" /\ r.at = call[c].at
  <2>1. <<>> \in Seq(Call)
    OBVIOUS
  <2>2. r \in CallState
    BY <1>2, <2>1, Reconnected
  <2> QED
    BY <1>2, <2>2 DEF CallState
<1>5. CallTypes' /\ OnlyCall(c) /\ call'[c].pc = "failure" /\ call'[c].at = call[c].at
  <2> HIDE DEF r
  <2> QED
    BY <1>1, <1>3, <1>4 DEF CallTypes, OnlyCall
<1>6. \A d \in Call : CallFine(d)'
  BY <1>1, <1>2, <1>5, OthersFine DEF CallFine
<1>7. BreakerTypes' /\ CountAgrees' /\ HalfIsProbed' /\ OneProbe' /\ Rested'
  BY <1>1, <1>2, <1>5, UntouchedBreaker DEF Fail
<1>8. idle' = idle
  BY <1>1, <1>2 DEF Fail, release, IdleEmpty
<1>9. IdleEmpty'
  BY <1>1, <1>8 DEF IdleEmpty
<1> QED
  BY <1>5, <1>6, <1>7, <1>9, Joined

-----------------------------------------------------------------------------
(* The invariant and the theorems *)

\* CooldownEnds keeps the invariant: no probe is on its way when it happens.
LEMMA CooldownStep ==
    ASSUME PoolInv, NEW e \in Endpoint, CooldownEnds(e)
    PROVE  PoolInv'
<1>1. BreakerTypes /\ CountAgrees /\ HalfIsProbed /\ OneProbe /\ Rested /\ CallTypes /\ IdleEmpty
      /\ \A d \in Call : CallFine(d)
  BY Parts
<1>2. UNCHANGED <<circuit, failures, probing, idle, call>>
  BY DEF CooldownEnds
<1>3. BreakerTypes' /\ \A f \in Endpoint \ {e} : cooling'[f] = cooling[f]
  BY <1>1, <1>2 DEF CooldownEnds, BreakerTypes
<1>4. \A d \in Call : ~Probes(d, e)
  BY DEF CooldownEnds, Probers, Probes
<1>5. \A d \in Call, f \in Endpoint : Probes(d, f)' <=> Probes(d, f)
  BY <1>2 DEF Probes
<1>6. CountAgrees' /\ HalfIsProbed' /\ OneProbe'
  BY <1>1, <1>2, <1>5 DEF CountAgrees, HalfIsProbed, OneProbe
<1>7. Rested'
  BY <1>1, <1>2, <1>3, <1>4, <1>5 DEF Rested
<1>8. CallTypes' /\ IdleEmpty' /\ \A d \in Call : CallFine(d)'
  BY <1>1, <1>2 DEF CallTypes, IdleEmpty, CallFine
<1> QED
  BY <1>3, <1>6, <1>7, <1>8, Joined

\* The pool starts in the invariant.
LEMMA PoolStart == Init => PoolInv
<1> SUFFICES ASSUME Init PROVE PoolInv
  OBVIOUS
<1>1. NewCall \in CallState
  <2>1. <<>> \in Seq(Call)
    OBVIOUS
  <2> QED
    BY <2>1 DEF NewCall, CallState
<1>2. \A c \in Call : call[c] = NewCall
  BY DEF Init
<1>3. \A c \in Call : call[c].pc = "new"
  BY <1>2 DEF NewCall
<1>4. TypeOK
  <2>1. call \in [Call -> CallState]
    BY <1>1 DEF Init
  <2>2. idle \in [Endpoint -> Seq(Seq(Call))]
    BY DEF Init
  <2> QED
    BY <2>1, <2>2, PoolAssumption DEF Init, TypeOK
<1>5. CountAgrees /\ HalfIsProbed
  BY PoolAssumption DEF Init, CountAgrees, HalfIsProbed
<1>6. AtEndpoint /\ OneProbe /\ Rested /\ AnswerIsOwn
  BY <1>3 DEF AtEndpoint, OneProbe, Rested, AnswerIsOwn, Probes
<1>7. Connections
  BY <1>3 DEF Init, Connections
<1> QED
  BY <1>4, <1>5, <1>6, <1>7 DEF PoolInv

\* Every step keeps the invariant.
LEMMA PoolKeeps == PoolInv /\ [Next]_vars => PoolInv'
<1> SUFFICES ASSUME PoolInv, [Next]_vars PROVE PoolInv'
  OBVIOUS
<1>1. ASSUME NEW c \in Call, NEW E \in SUBSET Endpoint, Begin(c, E) PROVE PoolInv'
  BY <1>1, BeginStep
<1>2. ASSUME NEW c \in Call, GiveUp(c) PROVE PoolInv'
  BY <1>2, GiveUpStep
<1>3. ASSUME NEW c \in Call, TryEndpoint(c) PROVE PoolInv'
  BY <1>3, TryStep
<1>4. ASSUME NEW c \in Call, EndProbe(c) PROVE PoolInv'
  BY <1>4, RecordedStep DEF EndProbe
<1>5. ASSUME NEW c \in Call, Send(c) PROVE PoolInv'
  BY <1>5, SendStep
<1>6. ASSUME NEW c \in Call, Receive(c) PROVE PoolInv'
  BY <1>6, ReceiveStep
<1>7. ASSUME NEW c \in Call, NEW final \in BOOLEAN, Fail(c, final) PROVE PoolInv'
  BY <1>7, FailStep
<1>8. ASSUME NEW c \in Call, Record(c) PROVE PoolInv'
  <2>1. CASE call[c].final
    BY <1>8, <2>1, RecordedStep DEF Record
  <2>2. CASE ~call[c].final
    BY <1>8, <2>2, RecordedStep DEF Record
  <2> QED
    BY <2>1, <2>2
<1>9. ASSUME NEW e \in Endpoint, CooldownEnds(e) PROVE PoolInv'
  BY <1>9, CooldownStep
<1>10. CASE UNCHANGED vars
  BY <1>10 DEF vars, PoolInv, TypeOK, AtEndpoint, HalfIsProbed, CountAgrees, OneProbe, Rested,
               Connections, AnswerIsOwn, Probes
<1> QED
  BY <1>1, <1>2, <1>3, <1>4, <1>5, <1>6, <1>7, <1>8, <1>9, <1>10 DEF Next, CallStep

\* SingleProbe, for any number of calls and any thresholds: reserveHalfOpenProbe lets one HealthCheck of
\* an endpoint through at a time, whatever the other calls record meanwhile.
THEOREM OneProbeAtATime == Spec => []SingleProbe
<1>1. PoolInv => SingleProbe
  <2> SUFFICES ASSUME PoolInv, NEW e \in Endpoint PROVE Cardinality(Probers(e)) <= 1
    BY DEF SingleProbe
  <2>1. CASE Probers(e) = {}
    BY <2>1, FS_EmptySet
  <2>2. ASSUME NEW c \in Probers(e) PROVE Probers(e) = {c}
    BY <2>2 DEF PoolInv, OneProbe, Probers, Probes
  <2>3. ASSUME NEW c \in Probers(e) PROVE Cardinality(Probers(e)) = 1
    <3>1. Probers(e) = {c}
      BY <2>2, <2>3
    <3> QED
      BY <3>1, FS_Singleton
  <2> QED
    BY <2>1, <2>3
<1> QED
  BY <1>1, PoolStart, PoolKeeps, PTL DEF Spec

\* HalfOpenIsDecided: a half-open circuit always has the probe on its way that will decide it, so that
\* finishHalfOpenProbe closes it or opens it again and no endpoint stays half-open for ever unprobed.
THEOREM NoEndpointIsLost == Spec => []HalfOpenIsDecided
<1>1. PoolInv => HalfOpenIsDecided
  BY DEF PoolInv, HalfOpenIsDecided, HalfIsProbed, CountAgrees, Probers, Probes
<1> QED
  BY <1>1, PoolStart, PoolKeeps, PTL DEF Spec

\* AnswerIsOwn: although frames carry no request id, RpcClient::call never returns another call's answer,
\* because only a connection that has read its answer goes back to idle_clients.
THEOREM AnswersAreOwn == Spec => []AnswerIsOwn
<1>1. PoolInv => AnswerIsOwn
  BY DEF PoolInv
<1> QED
  BY <1>1, PoolStart, PoolKeeps, PTL DEF Spec
=============================================================================
