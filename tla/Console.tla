--------------------------------- MODULE Console ---------------------------------
(***************************************************************************)
(* The Qt client (client/mainwindow.cpp): its connection, the frames it    *)
(* cuts out of the byte stream (include/corpcron/rpc/protocol.hpp), and    *)
(* the paged task list.  All slots run in the GUI thread, one at a time;   *)
(* the server answers the requests of a connection in their order.         *)
(*                                                                         *)
(* A byte is known by where it comes from: <<connection, frame, position>>.*)
(* The history list is paged by the same code on variables of its own.     *)
(***************************************************************************)
EXTENDS Integers, Sequences, FiniteSets

CONSTANTS
    MaxConns,       \* bound: connections made
    MaxRequests,    \* bound: on the requests of the n-th connection and n
    Totals          \* the numbers of tasks a list may find

VARIABLES
    sock,           \* the state of the QTcpSocket
    conn,           \* connections made so far
    requests,       \* sent, not yet answered
    sent,           \* the frames the server sent on this connection
    coming,           \* the bytes of them that have not come yet
    recvBuffer,
    reading,        \* onReadyRead is in its loop
    got,            \* the frames it handled on this connection
    offset, total,  \* tasksPageOffset_, tasksTotal_
    table,          \* the offset of the page in the table
    failed          \* the last answer to a list request was an error

consoleVars == <<sock, conn, requests, sent, coming, recvBuffer, reading, got, offset, total, table, failed>>

limit == 1          \* the page size

\* protocol.hpp; the largest frame stands for 4 MiB.
kHeaderSize   == 8
kSerialIdSize == 4
kMaxFrameSize == 6

Bytes(k, f) == [i \in 1..(4 + f.len) |-> <<conn, k, i>>]

-----------------------------------------------------------------------------
(* Frames *)

\* The length at the head of the buffer: of a frame, if the first four bytes are the length
\* field of one, and anything else otherwise.
TotalLen(buf) ==
    IF \A i \in 1..4 : buf[i] = <<conn, buf[1][2], i>> THEN {sent[buf[1][2]].len} ELSE {3, 4, 6, 7}

tryDecodeFrame(buf, len) ==
    CASE Len(buf) < kHeaderSize -> "Incomplete"
      [] len < kSerialIdSize    -> "Malformed"
      [] len > kMaxFrameSize    -> "TooLarge"
      [] Len(buf) < 4 + len     -> "Incomplete"
      [] OTHER                  -> "Complete"

\* The frame that some bytes are, if they are one from its first byte to its last.
FrameOf(bytes) ==
    IF \A i \in 1..Len(bytes) : bytes[i] = <<conn, bytes[1][2], i>> THEN bytes[1][2] ELSE 0

-----------------------------------------------------------------------------
(* The socket *)

\* sendFrame: only when connected; a write that is not complete aborts the connection.
sendFrame(r) ==
    \/ /\ sock = "on" /\ Len(requests) + Len(sent) + conn < MaxRequests
       /\ requests' = Append(requests, r) /\ UNCHANGED sock
    \/ sock = "on" /\ sock' = "off" /\ UNCHANGED requests
    \/ sock # "on" /\ UNCHANGED <<sock, requests>>

List == [op |-> "list", offset |-> offset']

\* Mutant: the buffer is not cleared.
onConnect_KeepsBuffer ==
    /\ ~reading /\ sock = "off" /\ conn < MaxConns
    /\ sock' = "connecting"
    /\ conn' = conn + 1
    /\ requests' = <<>> /\ sent' = <<>> /\ coming' = <<>> /\ got' = <<>>
    /\ UNCHANGED <<recvBuffer, reading, offset, total, table, failed>>

\* The connect button: the old connection, and what is left of it, are gone.
onConnect ==
    /\ ~reading /\ sock = "off" /\ conn < MaxConns
    /\ recvBuffer' = <<>>
    /\ sock' = "connecting"
    /\ conn' = conn + 1
    /\ requests' = <<>> /\ sent' = <<>> /\ coming' = <<>> /\ got' = <<>>
    /\ UNCHANGED <<reading, offset, total, table, failed>>

onSocketConnected ==
    /\ ~reading /\ sock = "connecting"
    /\ sock' = "on"
    /\ UNCHANGED offset
    /\ requests' = <<List>>
    /\ UNCHANGED <<conn, sent, coming, recvBuffer, reading, got, total, table, failed>>

\* An error, the disconnect button, the server closing, the end of a close.
onSocketDisconnected ==
    /\ ~reading
    /\ sock # "off"
    /\ sock' \in (IF sock = "on" THEN {"closing", "off"} ELSE {"off"})
    /\ UNCHANGED <<conn, requests, sent, coming, recvBuffer, reading, got, offset, total, table, failed>>

\* What the server may answer: a page or the success of a change, an error, no frame at all.
Answers(r) ==
    LET frame(kind, n, len) == [kind |-> kind, op |-> r.op, offset |-> r.offset, total |-> n, len |-> len]
    IN  (IF r.op = "list" THEN {frame("page", n, 6) : n \in Totals} ELSE {frame("done", 0, 4)})
        \cup {frame("error", 0, 4), frame("bad", 0, 3), frame("bad", 0, 7)}

Answer ==
    /\ sock = "on" /\ requests # <<>>
    /\ \E f \in Answers(Head(requests)) :
        /\ sent' = Append(sent, f)
        /\ coming' = coming \o Bytes(Len(sent) + 1, f)
    /\ requests' = Tail(requests)
    /\ UNCHANGED <<sock, conn, recvBuffer, reading, got, offset, total, table, failed>>

-----------------------------------------------------------------------------
(* onReadyRead: some more bytes, then frame by frame.  A QTcpSocket that is   *)
(* closing reads no more.                                                     *)

onReadyRead ==
    /\ ~reading /\ sock = "on"
    /\ \E n \in 1..Len(coming) :
        /\ recvBuffer' = recvBuffer \o SubSeq(coming, 1, n)
        /\ coming' = SubSeq(coming, n + 1, Len(coming))
    /\ reading' = TRUE
    /\ UNCHANGED <<sock, conn, requests, sent, got, offset, total, table, failed>>

\* The page of an answer is the page from now on, whatever was asked for meanwhile.
populateTasks(f) ==
    offset' = f.offset /\ total' = f.total /\ table' = f.offset /\ failed' = FALSE

\* The success of a change asks for the list again.
handleFrame(k) ==
    IF k = 0 THEN UNCHANGED <<sock, requests, offset, total, table, failed>>
    ELSE LET f == sent[k]
         IN  \/ f.kind = "page" /\ populateTasks(f) /\ UNCHANGED <<sock, requests>>
             \/ f.kind = "error" /\ failed' = (failed \/ f.op = "list") /\ UNCHANGED <<sock, requests, offset, total, table>>
             \/ f.kind = "done" /\ UNCHANGED <<offset, total, table, failed>> /\ sendFrame(List)

ReadFrame ==
    /\ reading
    /\ \E len \in (IF Len(recvBuffer) < kHeaderSize THEN {0} ELSE TotalLen(recvBuffer)) :
        CASE tryDecodeFrame(recvBuffer, len) = "Incomplete" ->
                /\ reading' = FALSE
                /\ UNCHANGED <<sock, requests, recvBuffer, got, offset, total, table, failed>>
          [] tryDecodeFrame(recvBuffer, len) \in {"Malformed", "TooLarge"} ->
                /\ reading' = FALSE
                /\ recvBuffer' = <<>>
                /\ sock' = IF sock = "on" THEN "closing" ELSE sock
                /\ UNCHANGED <<requests, got, offset, total, table, failed>>
          [] OTHER ->
                LET k == FrameOf(SubSeq(recvBuffer, 1, 4 + len))
                IN  /\ handleFrame(k)
                    /\ got' = Append(got, k)
                    /\ recvBuffer' = SubSeq(recvBuffer, 4 + len + 1, Len(recvBuffer))
                    /\ UNCHANGED reading
    /\ UNCHANGED <<conn, sent, coming>>

-----------------------------------------------------------------------------
(* The user and the timer *)

\* onRefreshTasks, from a page.
Turn(to) ==
    /\ ~reading
    /\ offset' = to
    /\ sendFrame(List)
    /\ UNCHANGED <<conn, sent, coming, recvBuffer, reading, got, total, table, failed>>

\* Mutant: the list is not asked for again.
onTaskFilterChanged_Only ==
    /\ ~reading
    /\ offset' = 0
    /\ UNCHANGED <<sock, conn, requests, sent, coming, recvBuffer, reading, got, total, table, failed>>

\* The buttons are enabled when connected and when there is such a page; the filter always is.
\* The refresh button does what the timer does.
onPrevTasksPage     == sock = "on" /\ offset > 0 /\ Turn(IF offset > limit THEN offset - limit ELSE 0)
onNextTasksPage     == sock = "on" /\ offset + limit < total /\ Turn(offset + limit)
onTaskFilterChanged == Turn(0)
onAutoRefreshTick   == sock = "on" /\ Turn(offset)

\* Submitting, updating, enabling, cancelling, deleting or running a task.
Change ==
    /\ ~reading /\ sock = "on"
    /\ sendFrame([op |-> "change", offset |-> 0])
    /\ UNCHANGED <<conn, sent, coming, recvBuffer, reading, got, offset, total, table, failed>>

ConsoleInit ==
    /\ sock = "off" /\ conn = 0 /\ requests = <<>> /\ sent = <<>> /\ coming = <<>>
    /\ recvBuffer = <<>> /\ reading = FALSE /\ got = <<>>
    /\ offset = 0 /\ total = 0 /\ table = 0 /\ failed = FALSE

ConsoleNext ==
    \/ onConnect \/ onSocketConnected \/ onSocketDisconnected \/ Answer \/ onReadyRead \/ ReadFrame
    \/ onPrevTasksPage \/ onNextTasksPage \/ onTaskFilterChanged \/ onAutoRefreshTick \/ Change

-----------------------------------------------------------------------------

\* However the bytes come in, and however often the user reconnects, the frames that are
\* handled are the frames the server sent on this connection: whole, each once, in order.
FramesAreWhole == \A k \in 1..Len(got) : got[k] = k

\* When every request on a connection has been answered, the page in the table is the one
\* that the next request, and the page buttons, start from, unless the last answer was an
\* error: answers to earlier requests leave no other page behind.
PagesAgree ==
    /\ sock = "on" /\ ~reading /\ ~failed
    /\ requests = <<>> /\ coming = <<>> /\ recvBuffer = <<>>
    => table = offset
=============================================================================
