------------------------------- MODULE RpcServer -------------------------------
(***************************************************************************)
(* TcpServer (src/net/tcp_server.cpp) over EpollLoop                       *)
(* (src/net/epoll_loop.cpp): one loop thread that accepts connections and  *)
(* runs a coroutine for each, an executor whose threads run the requests   *)
(* and wake the coroutine through an eventfd, and a thread that stops the  *)
(* server while all of this goes on.  The executor is a ThreadPool, seen   *)
(* through what it promises: bounded, refusing once it stops, and drained. *)
(*                                                                         *)
(* A step of a coroutine ends where the stop flag, the executor or the     *)
(* socket is looked at again.  Bytes are whole frames.                     *)
(***************************************************************************)
EXTENDS Integers, Sequences, FiniteSets, Functions

CONSTANTS
    Conn,           \* client connections, numbered in the order they come
    None,
    MaxConns,       \* max_connections_
    MaxPending,     \* max_pending_requests of the executor
    Threads,        \* max_threads of the executor
    MaxInputs       \* bound: frames and ends of stream of the clients, all together

ASSUME ServerAssumption ==
    /\ Conn \subseteq Nat /\ None \notin Conn
    /\ MaxConns \in Nat \ {0} /\ MaxPending \in Nat \ {0} /\ Threads \in Nat \ {0} /\ MaxInputs \in Nat

VARIABLES
    conn,       \* connection: the coroutine that serves it and the client's side
    loop,       \* the loop thread: wait (in epoll_wait), busy with its events, drain or over
    ready,      \* the events it has still to handle: new connections, coroutines to resume
    cur,        \* the connection whose coroutine runs on the loop thread
    flag,       \* stop_requested_
    wake,       \* wake_fd_ is readable
    active,     \* active_connections_
    queue,      \* the executor's queue: <<connection, frame number>>
    running,    \* requests its threads are working on
    served,     \* requests whose result is there
    stopper     \* TcpServer::stop: run, flagged, woken, draining, stopped

vars == <<conn, loop, ready, cur, flag, wake, active, queue, running, served, stopper>>
executor == <<queue, running, served>>

\* Suspended in rwait (EPOLLIN), dwait (completion eventfd), wwait or, with room again, wready
\* (EPOLLOUT).  sent, read and begun
\* count frames: written by the client, in read_buffer so far, decoded.  answers: what was sent back.
Kinds == {"result", "unavailable", "exhausted", "interrupted"}
ConnState ==
    [pc : {"out", "pending", "top", "rwait", "read", "decode", "registered", "dwait", "answer",
           "wwait", "wready", "written", "closed"},
     sent : 0..MaxInputs, read : 0..MaxInputs, begun : 0..MaxInputs, eof : BOOLEAN,
     reply : Kinds, answers : Seq(Kinds)]
NewConn == [pc |-> "out", sent |-> 0, read |-> 0, begun |-> 0, eof |-> FALSE, reply |-> "result", answers |-> <<>>]

Suspended == {c \in Conn : conn[c].pc \in {"rwait", "dwait", "wwait", "wready"}}
Open      == {c \in Conn : conn[c].pc \notin {"out", "pending", "closed"}}
Job(c)    == <<c, conn[c].begun>>

Init ==
    /\ conn = [c \in Conn |-> NewConn] /\ loop = "busy" /\ ready = {} /\ cur = None
    /\ flag = FALSE /\ wake = FALSE /\ active = 0 /\ stopper = "run"
    /\ queue = <<>> /\ running = {} /\ served = {}

-----------------------------------------------------------------------------
(* The clients *)

Inputs == FoldFunctionOnSet(+, 0, [c \in Conn |-> conn[c].sent + IF conn[c].eof THEN 1 ELSE 0], Conn)

ClientStep(c) ==
    /\ \/ /\ conn[c].pc = "out" /\ \A d \in Conn : d < c => conn[d].pc # "out"
          /\ conn' = [conn EXCEPT ![c].pc = "pending"]
       \/ /\ conn[c].pc \notin {"out", "closed"} /\ ~conn[c].eof /\ Inputs < MaxInputs
          /\ conn' \in {[conn EXCEPT ![c].sent = @ + 1], [conn EXCEPT ![c].eof = TRUE]}
    /\ UNCHANGED <<loop, ready, cur, flag, wake, active, executor, stopper>>

\* A client reads what has been sent to it, or is gone: its socket takes bytes again.
ClientReads(c) ==
    /\ conn[c].pc = "wwait" /\ conn' = [conn EXCEPT ![c].pc = "wready"]
    /\ UNCHANGED <<loop, ready, cur, flag, wake, active, executor, stopper>>

-----------------------------------------------------------------------------
(* EpollLoop::run and handleAccept *)

\* All events of the last epoll_wait are handled.
LoopTop ==
    /\ loop = "busy" /\ cur = None /\ ready = {}
    /\ IF flag THEN loop' = "drain" /\ ready' = Suspended ELSE loop' = "wait" /\ UNCHANGED ready
    /\ UNCHANGED <<conn, cur, flag, wake, active, executor, stopper>>

IsReady(c) ==
    \/ conn[c].pc \in {"pending", "wready"}
    \/ conn[c].pc = "rwait" /\ (conn[c].sent > conn[c].read \/ conn[c].eof)
    \/ conn[c].pc = "dwait" /\ Job(c) \in served

\* epoll_wait returns what is ready.  The wake-up has no other effect.
Poll ==
    /\ loop = "wait" /\ (wake \/ \E c \in Conn : IsReady(c))
    /\ loop' = "busy" /\ ready' = {c \in Conn : IsReady(c)} /\ wake' = FALSE
    /\ UNCHANGED <<conn, cur, flag, active, executor, stopper>>

\* A new connection: at the limit it is closed, else its coroutine starts at once.
Accept(c) ==
    /\ loop = "busy" /\ cur = None /\ c \in ready /\ conn[c].pc = "pending" /\ ready' = ready \ {c}
    /\ \/ flag /\ UNCHANGED <<conn, cur, active>>
       \/ ~flag /\ active >= MaxConns /\ conn' = [conn EXCEPT ![c].pc = "closed"] /\ UNCHANGED <<cur, active>>
       \/ ~flag /\ active < MaxConns /\ conn' = [conn EXCEPT ![c].pc = "top"] /\ cur' = c /\ active' = active + 1
    /\ UNCHANGED <<loop, flag, wake, executor, stopper>>

\* Mutant: a request that the shutdown interrupts is reported as refused.
Resumed_Refused(c) ==
    CASE conn[c].pc = "rwait" -> [conn EXCEPT ![c].pc = "read"]
      [] conn[c].pc \in {"wwait", "wready"} -> [conn EXCEPT ![c].pc = "written"]
      [] conn[c].pc = "dwait" -> [conn EXCEPT ![c].pc = "answer",
                                              ![c].reply = IF Job(c) \in served THEN "result" ELSE "exhausted"]

\* Where a coroutine goes on, its descriptor being ready or the loop giving up on it.
Resumed(c) ==
    CASE conn[c].pc = "rwait" -> [conn EXCEPT ![c].pc = "read"]
      [] conn[c].pc \in {"wwait", "wready"} -> [conn EXCEPT ![c].pc = "written"]
      [] conn[c].pc = "dwait" -> [conn EXCEPT ![c].pc = "answer",
                                              ![c].reply = IF Job(c) \in served THEN "result" ELSE "interrupted"]

\* A callback of run(), or of resumePendingCoroutines.
Resume(c) ==
    /\ loop \in {"busy", "drain"} /\ cur = None /\ c \in ready \cap Suspended
    /\ conn' = Resumed(c) /\ cur' = c /\ ready' = ready \ {c}
    /\ UNCHANGED <<loop, flag, wake, active, executor, stopper>>

RunReturns ==
    /\ loop = "drain" /\ cur = None /\ ready = {} /\ loop' = "over"
    /\ UNCHANGED <<conn, ready, cur, flag, wake, active, executor, stopper>>

-----------------------------------------------------------------------------
(* clientHandler, on the loop thread *)

Yield == cur' = None /\ UNCHANGED loop   \* the coroutine suspends or ends

\* ClientConnectionGuard.
Close(c) == conn' = [conn EXCEPT ![c].pc = "closed"] /\ active' = active - 1 /\ Yield

Goes(c, pc) == conn' = [conn EXCEPT ![c].pc = pc] /\ UNCHANGED <<loop, cur, active>>

\* Mutant: addCoroutine accepts descriptors after stop().
Await_Always(c, pc) == conn' = [conn EXCEPT ![c].pc = pc] /\ Yield /\ UNCHANGED active

\* SocketAwaitable: a stopping loop takes no registration (and epoll_ctl may fail): the connection is closed.
Await(c, pc) ==
    \/ Close(c)
    \/ ~flag /\ conn' = [conn EXCEPT ![c].pc = pc] /\ Yield /\ UNCHANGED active

\* The loop stops, the stream ends or fails; a chunk of what has arrived.
Read(c) ==
    \/ (flag \/ conn[c].eof) /\ Close(c)
    \/ \E n \in (conn[c].read + 1)..conn[c].sent :
           ~flag /\ conn' = [conn EXCEPT ![c].read = n, ![c].pc = "decode"] /\ UNCHANGED <<loop, cur, active>>

\* tryDecodeFrame: nothing whole is left; a malformed or oversized frame; a request, whose
\* completion eventfd is registered, or cannot be.
Decode(c) ==
    \/ conn[c].begun = conn[c].read /\ Goes(c, "top")
    \/ conn[c].begun < conn[c].read /\ Close(c)
    \/ /\ conn[c].begun < conn[c].read
       /\ \E pc \in {"answer"} \cup (IF flag THEN {} ELSE {"registered"}) :
             conn' = [conn EXCEPT ![c].begun = @ + 1, ![c].pc = pc, ![c].reply = "unavailable"]
       /\ UNCHANGED <<loop, cur, active>>

Executing == stopper \in {"run", "flagged", "woken"}   \* executor_ is not stopping

\* executor_->enqueue.
Enqueue(c) ==
    IF Executing /\ Len(queue) < MaxPending
    THEN queue' = Append(queue, Job(c)) /\ conn' = [conn EXCEPT ![c].pc = "dwait"] /\ Yield /\ UNCHANGED active
    ELSE conn' = [conn EXCEPT ![c].pc = "answer", ![c].reply = "exhausted"] /\ UNCHANGED <<queue, loop, cur, active>>

\* Mutant: after an answer the next frame is only looked for when more bytes arrive.
Sends_Once(c) ==
    \/ /\ conn' = [conn EXCEPT ![c].answers = Append(@, conn[c].reply), ![c].pc = "top"]
       /\ UNCHANGED <<loop, cur, active>>
    \/ conn[c].eof /\ Close(c)

\* What is left of the response is sent, or the client is gone.
Sends(c) ==
    \/ /\ conn' = [conn EXCEPT ![c].answers = Append(@, conn[c].reply), ![c].pc = "decode"]
       /\ UNCHANGED <<loop, cur, active>>
    \/ conn[c].eof /\ Close(c)

\* The response, which may find the socket full: as often as it takes, here once.
Answer(c) == Sends(c) \/ Await(c, "wwait")

HandlerStep(c) ==
    /\ cur = c
    /\ \/ conn[c].pc = "top" /\ Await(c, "rwait") /\ UNCHANGED queue
       \/ conn[c].pc = "read" /\ Read(c) /\ UNCHANGED queue
       \/ conn[c].pc = "decode" /\ Decode(c) /\ UNCHANGED queue
       \/ conn[c].pc = "registered" /\ Enqueue(c)
       \/ conn[c].pc = "answer" /\ Answer(c) /\ UNCHANGED queue
       \/ conn[c].pc = "written" /\ (IF flag THEN Close(c) ELSE Sends(c)) /\ UNCHANGED queue
    /\ UNCHANGED <<ready, flag, wake, running, served, stopper>>

-----------------------------------------------------------------------------
(* The executor, and TcpServer::stop *)

RunRequest ==
    /\ queue # <<>> /\ Cardinality(running) < Threads
    /\ running' = running \cup {Head(queue)} /\ queue' = Tail(queue)
    /\ UNCHANGED <<conn, loop, ready, cur, flag, wake, active, served, stopper>>

\* The result is stored and the eventfd written.
EndRequest(j) ==
    /\ j \in running /\ running' = running \ {j} /\ served' = served \cup {j}
    /\ UNCHANGED <<conn, loop, ready, cur, flag, wake, active, queue, stopper>>

\* Mutant: the loop is not woken.
StopStep_NoWake ==
    /\ \/ stopper = "run" /\ flag' = TRUE /\ stopper' = "flagged" /\ UNCHANGED wake
       \/ stopper = "flagged" /\ stopper' = "woken" /\ UNCHANGED <<flag, wake>>
       \/ stopper = "woken" /\ stopper' = "draining" /\ UNCHANGED <<flag, wake>>
       \/ stopper = "draining" /\ queue = <<>> /\ running = {} /\ stopper' = "stopped" /\ UNCHANGED <<flag, wake>>
    /\ UNCHANGED <<conn, loop, ready, cur, active, executor>>

\* The flag, the wake-up, then the executor, which runs what it has accepted.
StopStep ==
    /\ \/ stopper = "run" /\ flag' = TRUE /\ stopper' = "flagged" /\ UNCHANGED wake
       \/ stopper = "flagged" /\ wake' = TRUE /\ stopper' = "woken" /\ UNCHANGED flag
       \/ stopper = "woken" /\ stopper' = "draining" /\ UNCHANGED <<flag, wake>>
       \/ stopper = "draining" /\ queue = <<>> /\ running = {} /\ stopper' = "stopped" /\ UNCHANGED <<flag, wake>>
    /\ UNCHANGED <<conn, loop, ready, cur, active, executor>>

-----------------------------------------------------------------------------

LoopStep ==
    \/ LoopTop \/ Poll \/ RunReturns
    \/ \E c \in Conn : Accept(c) \/ Resume(c) \/ HandlerStep(c)

EndSome == \E j \in running : EndRequest(j)

Next ==
    \/ \E c \in Conn : ClientStep(c) \/ ClientReads(c)
    \/ LoopStep \/ RunRequest \/ EndSome \/ StopStep

Spec == Init /\ [][Next]_vars

\* The threads run, a request ends, and a stop that has begun goes on.  Nothing makes a client send or
\* the server stop.  A client reads its answers: one that does not holds its connection, for a write
\* has no time-out.
FairSpec ==
    /\ Spec
    /\ WF_vars(LoopStep) /\ WF_vars(RunRequest) /\ WF_vars(EndSome) /\ WF_vars(stopper # "run" /\ StopStep)
    /\ \A c \in Conn : WF_vars(ClientReads(c))

-----------------------------------------------------------------------------
(* Properties *)

\* The types of the server's state; a coroutine runs only while the loop thread is busy with it (part of NothingLeaks).
TypeOK ==
    /\ conn \in [Conn -> ConnState] /\ ready \subseteq Conn /\ cur \in Conn \cup {None} /\ active \in 0..MaxConns
    /\ loop \in {"wait", "busy", "drain", "over"}
    /\ flag \in BOOLEAN /\ wake \in BOOLEAN /\ stopper \in {"run", "flagged", "woken", "draining", "stopped"}
    /\ queue \in Seq(Conn \X (1..MaxInputs)) /\ Len(queue) <= MaxPending
    /\ running \subseteq Conn \X (1..MaxInputs) /\ served \subseteq Conn \X (1..MaxInputs)

\* When run() has returned no coroutine is left suspended, its connection open and its frame leaked,
\* whatever was being read, executed or written when stop() was called.
NothingLeaks == TypeOK /\ active = Cardinality(Open) /\ (loop = "over" => Open = {})

\* A client that is told that its request was refused may send it again: a request answered with
\* RESOURCE_EXHAUSTED or "Event loop is stopping" never reaches an executor thread, and an answer
\* that is a result comes after the request was executed.
RefusedIsNotRun ==
    \A c \in Conn : \A k \in 1..Len(conn[c].answers) :
        CASE conn[c].answers[k] = "result" -> <<c, k>> \in served
          [] conn[c].answers[k] \in {"unavailable", "exhausted"} ->
                <<c, k>> \notin served \cup running \cup {queue[i] : i \in 1..Len(queue)}
          [] OTHER -> TRUE

\* A frame on an accepted connection is answered or the connection ends: no frame stays in a buffer, and
\* no coroutine waits for a completion that is not coming.
FramesAreAnswered ==
    \A c \in Conn :
        c \in Open /\ conn[c].sent > 0 ~> Len(conn[c].answers) = conn[c].sent \/ conn[c].pc = "closed"

\* A stop ends the loop and returns, also when no client ever sends anything again.
StopEnds == stopper = "flagged" ~> stopper = "stopped" /\ loop = "over"
=============================================================================
