---------------------------- MODULE ServiceRegistry ----------------------------
(***************************************************************************)
(* The service registry that RedisClient keeps (src/redis/redis_client.cpp)*)
(* and the processes that enter themselves in it: ServerApp and WorkerApp  *)
(* (src/app), from the moment their socket listens to the end of cleanup().*)
(* A worker registers one service for itself and one per handler; a server *)
(* only "rpc".  Every Redis operation is a script, so it is one step.      *)
(***************************************************************************)
EXTENDS Integers, FiniteSets

CONSTANTS
    Process,    \* processes, each with an endpoint of its own that it keeps when it is restarted
    Service,    \* the services each of them registers
    Features,   \* what may go wrong: "crash", "redis" (failed calls), "lapse" (heartbeats come late)
    MaxFaults   \* bound: crashes and failed calls

ASSUME RegistryAssumption == Features \subseteq {"crash", "redis", "lapse"} /\ MaxFaults \in Nat

VARIABLES
    member,     \* service: the set services:<name>
    alive,      \* service: the endpoints whose key services:<name>:<endpoint> has not expired
    main,       \* process: its main thread
    stopping,   \* process: stopping_
    regd,       \* process: registered_services_
    beat,       \* process: the services the heartbeat thread has still to refresh in this round
    hb,         \* process: the heartbeat thread
    faults

vars == <<member, alive, main, stopping, regd, beat, hb, faults>>
redis == <<member, alive>>

Fault(kind) == kind \in Features /\ faults < MaxFaults /\ faults' = faults + 1
NoFault     == UNCHANGED faults

Init ==
    /\ member = [s \in Service |-> {}] /\ alive = [s \in Service |-> {}]
    /\ main = [p \in Process |-> "down"] /\ stopping = [p \in Process |-> FALSE]
    /\ regd = [p \in Process |-> {}] /\ beat = [p \in Process |-> {}] /\ hb = [p \in Process |-> "off"]
    /\ faults = 0

-----------------------------------------------------------------------------
(* RedisClient *)

registerService(s, p) ==
    /\ alive' = [alive EXCEPT ![s] = @ \cup {p}]
    /\ member' = [member EXCEPT ![s] = @ \cup {p}]

heartbeat(s, p) == registerService(s, p)

unregisterService(s, p) ==
    /\ alive' = [alive EXCEPT ![s] = @ \ {p}]
    /\ member' = [member EXCEPT ![s] = @ \ {p}]

\* The members whose key is there are returned, the others are removed.
discoverServices(s) ==
    /\ member' = [member EXCEPT ![s] = @ \cap alive[s]]
    /\ UNCHANGED <<alive, main, stopping, regd, beat, hb, faults>>

Discoverable(s) == member[s] \cap alive[s]

\* Mutant: SET without EX.
ExpireKey_Never(s, p) == FALSE /\ UNCHANGED vars

\* A running process refreshes its keys every 5 seconds of the 30 they live.
ExpireKey(s, p) ==
    /\ p \in alive[s] /\ (main[p] # "down" => "lapse" \in Features)
    /\ alive' = [alive EXCEPT ![s] = @ \ {p}]
    /\ UNCHANGED <<member, main, stopping, regd, beat, hb, faults>>

-----------------------------------------------------------------------------
(* ServerApp / WorkerApp *)

\* TcpServer::start calls the hook once the socket listens.
Listen(p) ==
    /\ main[p] = "down" /\ main' = [main EXCEPT ![p] = "registering"]
    /\ UNCHANGED <<redis, stopping, regd, beat, hb, faults>>

\* registerServices: one service after the other.  A call that fails may have been carried out.
RegisterNext(p) ==
    /\ main[p] = "registering"
    /\ \E s \in Service \ regd[p] :
         \/ NoFault /\ registerService(s, p) /\ regd' = [regd EXCEPT ![p] = @ \cup {s}] /\ UNCHANGED main
         \/ /\ Fault("redis") /\ (registerService(s, p) \/ UNCHANGED redis)
            /\ main' = [main EXCEPT ![p] = "undo"] /\ UNCHANGED regd
    /\ UNCHANGED <<stopping, beat, hb>>

\* startHeartbeat, startSignalThread; the loop runs.
Run(p) ==
    /\ main[p] = "registering" /\ regd[p] = Service
    /\ main' = [main EXCEPT ![p] = "up"] /\ hb' = [hb EXCEPT ![p] = "waiting"]
    /\ UNCHANGED <<redis, stopping, regd, beat, faults>>

\* The heartbeat thread: a round over all services, whatever comes of each call.
BeginBeat(p) ==
    /\ hb[p] = "waiting" /\ ~stopping[p]
    /\ hb' = [hb EXCEPT ![p] = "beating"] /\ beat' = [beat EXCEPT ![p] = regd[p]]
    /\ UNCHANGED <<redis, main, stopping, regd, faults>>

\* Mutant: the thread ends when a call fails.
BeatNext_GivesUp(p) ==
    /\ hb[p] = "beating"
    /\ \E s \in beat[p] :
         \/ NoFault /\ heartbeat(s, p) /\ beat' = [beat EXCEPT ![p] = @ \ {s}] /\ UNCHANGED hb
         \/ Fault("redis") /\ UNCHANGED redis /\ beat' = [beat EXCEPT ![p] = {}] /\ hb' = [hb EXCEPT ![p] = "over"]
    /\ UNCHANGED <<main, stopping, regd>>

BeatNext(p) ==
    /\ hb[p] = "beating"
    /\ \E s \in beat[p] :
         /\ \/ NoFault /\ heartbeat(s, p)
            \/ Fault("redis") /\ (heartbeat(s, p) \/ UNCHANGED redis)
         /\ beat' = [beat EXCEPT ![p] = @ \ {s}]
    /\ UNCHANGED <<main, stopping, regd, hb>>

EndBeat(p) ==
    /\ \/ hb[p] = "beating" /\ beat[p] = {} /\ hb' = [hb EXCEPT ![p] = "waiting"]
       \/ hb[p] = "waiting" /\ stopping[p] /\ hb' = [hb EXCEPT ![p] = "over"]
    /\ UNCHANGED <<redis, main, stopping, regd, beat, faults>>

\* A signal: stop(), which ends the server's loop.
Stop(p) ==
    /\ main[p] = "up" /\ ~stopping[p] /\ stopping' = [stopping EXCEPT ![p] = TRUE]
    /\ UNCHANGED <<redis, main, regd, beat, hb, faults>>

\* Mutant: cleanup() does not wait for the heartbeat thread.
Joined_Skipped(p) == TRUE

Joined(p) == hb[p] = "over"    \* heartbeat_thread_.join()

\* The loop has ended and the socket is closed; the heartbeat thread is joined.
CloseServer(p) ==
    /\ main[p] = "up" /\ stopping[p] /\ main' = [main EXCEPT ![p] = "closed"]
    /\ UNCHANGED <<redis, stopping, regd, beat, hb, faults>>

JoinHeartbeat(p) ==
    /\ main[p] = "closed" /\ Joined(p) /\ main' = [main EXCEPT ![p] = "undo"]
    /\ UNCHANGED <<redis, stopping, regd, beat, hb, faults>>

\* What was registered is taken out: cleanup(), and registerServices when it gives up.
UnregisterNext(p) ==
    /\ main[p] = "undo"
    /\ \E s \in regd[p] :
         /\ (NoFault /\ unregisterService(s, p)) \/ (Fault("redis") /\ UNCHANGED redis)
         /\ regd' = [regd EXCEPT ![p] = @ \ {s}]
    /\ UNCHANGED <<main, stopping, beat, hb>>

Ends(p) ==
    /\ main' = [main EXCEPT ![p] = "down"] /\ stopping' = [stopping EXCEPT ![p] = FALSE]
    /\ regd' = [regd EXCEPT ![p] = {}] /\ beat' = [beat EXCEPT ![p] = {}] /\ hb' = [hb EXCEPT ![p] = "off"]
    /\ UNCHANGED redis

Exit(p) == main[p] = "undo" /\ regd[p] = {} /\ Ends(p) /\ NoFault

Crash(p) == main[p] # "down" /\ Fault("crash") /\ Ends(p)

-----------------------------------------------------------------------------

MainStep(p) ==
    RegisterNext(p) \/ Run(p) \/ CloseServer(p) \/ JoinHeartbeat(p) \/ UnregisterNext(p) \/ Exit(p)

BeatStep(p) == BeginBeat(p) \/ BeatNext(p) \/ EndBeat(p)

Next ==
    \/ \E p \in Process : Listen(p) \/ MainStep(p) \/ BeatStep(p) \/ Stop(p) \/ Crash(p)
    \/ \E s \in Service : discoverServices(s) \/ \E p \in Process : ExpireKey(s, p)

Spec == Init /\ [][Next]_vars

\* The threads of a process run and its heartbeat has a timed wait; Redis expires keys.  Nothing makes
\* a process start, stop or crash, or anybody look a service up.
FairSpec ==
    /\ Spec
    /\ \A p \in Process : /\ WF_vars(MainStep(p)) /\ WF_vars(BeatStep(p))
                          /\ \A s \in Service : WF_vars(main[p] = "down" /\ ExpireKey(s, p))

-----------------------------------------------------------------------------
(* Properties *)

\* The types of the registry and of the processes' state (part of LeftIsForgotten).
TypeOK ==
    /\ member \in [Service -> SUBSET Process] /\ alive \in [Service -> SUBSET Process]
    /\ main \in [Process -> {"down", "registering", "up", "closed", "undo"}]
    /\ stopping \in [Process -> BOOLEAN] /\ regd \in [Process -> SUBSET Service]
    /\ beat \in [Process -> SUBSET Service] /\ hb \in [Process -> {"off", "waiting", "beating", "over"}]
    /\ faults \in 0..MaxFaults
    /\ \A p \in Process : beat[p] \subseteq regd[p]

\* A process that has left in good order is in no service any more: no heartbeat that was on its way
\* when cleanup() unregistered it enters it again, and no service is forgotten.
LeftIsForgotten ==
    TypeOK /\ \A p \in Process, s \in Service :
        main[p] = "down" /\ faults = 0 => p \notin alive[s] \cup member[s]

\* A running process can be found again, although its keys expired, somebody pruned it from the set
\* and its heartbeats failed for a while.
RunningIsFound ==
    \A p \in Process, s \in Service :
        main[p] = "up" ~> p \in Discoverable(s) \/ main[p] # "up"

\* A process that is gone, by a crash or a failed clean-up, is not offered to callers for ever.
GoneIsNotFound ==
    \A p \in Process, s \in Service :
        main[p] = "down" ~> p \notin Discoverable(s) \/ main[p] # "down"
=============================================================================
