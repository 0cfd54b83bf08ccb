--------------------------- MODULE ThreadPoolProofs ---------------------------
(***************************************************************************)
(* The counters and the orderly stop of module ThreadPool, for any number  *)
(* of callers, tasks and worker threads and any sizes of the pool.         *)
(***************************************************************************)
EXTENDS ThreadPool, TLAPS, FiniteSetTheorems

\* A task that waits to run is in the queue, and one that runs has a thread.
FatesHeld ==
    /\ \A t \in Task : fate[t] = "queued" => \E k \in 1..Len(tasks) : tasks[k] = t
    /\ \A t \in Task : fate[t] = "running" => \E w \in Thread : thread[w] = [pc |-> "run", task |-> t]

\* A pool that stops keeps a thread for what is left in the queue.
QueueServed == stopping /\ tasks # <<>> => Working # {}

\* A pool that has stopped has nothing left, and stop() returns only from such a pool.
StoppedClean ==
    /\ \A c \in Caller : caller[c] = "back" => stopped
    /\ \A c \in Caller : caller[c] = "joining" => stopping
    /\ stopped => /\ stopping /\ tasks = <<>>
                  /\ \A t \in Task : fate[t] \in {"new", "refused", "ran"}
                  /\ \A w \in Thread : thread[w].pc = "absent"

DrainInv == ThreadsAccounted /\ FatesHeld /\ QueueServed /\ StoppedClean

-----------------------------------------------------------------------------
(* Counting threads *)

Busy == {"top", "wait", "run"}

ThreadTypes == thread \in [Thread -> ThreadState]

\* The sets of threads are finite and their sizes natural numbers.
LEMMA FiniteThreads ==
    /\ IsFiniteSet(Working) /\ Cardinality(Working) \in Nat
    /\ IsFiniteSet(At("wait")) /\ Cardinality(At("wait")) \in Nat
<1>1. Working \in SUBSET Thread /\ At("wait") \in SUBSET Thread
  BY DEF Working, At
<1> QED
  BY <1>1, PoolAssumption, FS_Subset, FS_CardinalityType

\* In gives a thread state.
LEMMA InTypes == \A pc \in {"absent", "top", "wait", "leaving", "finished"} :
                    In(pc) \in ThreadState /\ In(pc).pc = pc
  BY DEF In, ThreadState

\* One thread changes what it does: the sets gain it, lose it or stay.
LEMMA ThreadMoves ==
    ASSUME ThreadTypes, NEW w \in Thread, NEW r \in ThreadState, thread' = [thread EXCEPT ![w] = r]
    PROVE  /\ ThreadTypes' /\ thread'[w] = r /\ \A v \in Thread \ {w} : thread'[v] = thread[v]
           /\ Working' = IF r.pc \in Busy THEN Working \cup {w} ELSE Working \ {w}
           /\ At("wait")' = IF r.pc = "wait" THEN At("wait") \cup {w} ELSE At("wait") \ {w}
<1>1. ThreadTypes' /\ thread'[w] = r /\ \A v \in Thread \ {w} : thread'[v] = thread[v]
  BY DEF ThreadTypes
<1>2. Working' = IF r.pc \in Busy THEN Working \cup {w} ELSE Working \ {w}
  BY <1>1 DEF Working, At, Busy
<1>3. At("wait")' = IF r.pc = "wait" THEN At("wait") \cup {w} ELSE At("wait") \ {w}
  BY <1>1 DEF At
<1> QED
  BY <1>1, <1>2, <1>3

\* ... and so do their sizes.
LEMMA SizesMove ==
    ASSUME ThreadTypes, NEW w \in Thread, NEW r \in ThreadState, thread' = [thread EXCEPT ![w] = r],
           thread[w].pc \in Busy
    PROVE  /\ r.pc \in Busy => Cardinality(Working)' = Cardinality(Working)
           /\ r.pc \notin Busy => Cardinality(Working)' = Cardinality(Working) - 1
           /\ r.pc = "wait" /\ thread[w].pc # "wait" => Cardinality(At("wait"))' = Cardinality(At("wait")) + 1
           /\ r.pc # "wait" /\ thread[w].pc # "wait" => Cardinality(At("wait"))' = Cardinality(At("wait"))
           /\ r.pc # "wait" /\ thread[w].pc = "wait" => Cardinality(At("wait"))' = Cardinality(At("wait")) - 1
<1>1. w \in Working /\ (w \in At("wait") <=> thread[w].pc = "wait")
  BY DEF Working, At, Busy
<1>2. /\ Cardinality(Working \cup {w}) = Cardinality(Working)
      /\ Cardinality(Working \ {w}) = Cardinality(Working) - 1
  BY <1>1, FiniteThreads, FS_AddElement, FS_RemoveElement
<1>3. /\ w \in At("wait") => Cardinality(At("wait") \ {w}) = Cardinality(At("wait")) - 1
      /\ w \notin At("wait") => /\ Cardinality(At("wait") \cup {w}) = Cardinality(At("wait")) + 1
                                /\ Cardinality(At("wait") \ {w}) = Cardinality(At("wait"))
  BY FiniteThreads, FS_AddElement, FS_RemoveElement
<1> QED
  BY <1>1, <1>2, <1>3, ThreadMoves

\* A pool with threads to count has a thread that works.
LEMMA SomeoneWorks == ASSUME Cardinality(Working) > 0 PROVE Working # {}
  BY FiniteThreads, FS_EmptySet

\* What is left of the types.
OtherTypes ==
    /\ tasks \in Seq(Task) /\ (MaxPending > 0 => Len(tasks) <= MaxPending)
    /\ fate \in [Task -> {"new", "refused", "queued", "running", "ran"}]
    /\ faults \in 0..MaxFaults
    /\ stopping \in BOOLEAN /\ stopped \in BOOLEAN /\ lifecycle \in Caller \cup {None}
    /\ caller \in [Caller -> {"idle", "adjusting", "joining", "back"}]

\* The counters are right and within their bounds.
Sizes ==
    /\ current_threads = Cardinality(Working) /\ idle_count = Cardinality(At("wait"))
    /\ current_threads <= MaxThreads
    /\ ~stopping => InitThreads <= current_threads

\* The invariant taken apart...
LEMMA Parts == DrainInv => /\ OtherTypes /\ ThreadTypes /\ Sizes /\ FatesHeld /\ QueueServed /\ StoppedClean
                           /\ idle_count \in Nat /\ current_threads \in Nat
  BY DEF DrainInv, ThreadsAccounted, TypeOK, OtherTypes, ThreadTypes, Sizes

\* ... and put together again after a step.
LEMMA Joined ==
    ASSUME OtherTypes', ThreadTypes', Sizes', FatesHeld', QueueServed', StoppedClean'
    PROVE  DrainInv'
<1>1. Cardinality(Working)' \in Nat /\ Cardinality(At("wait"))' \in Nat
  <2>1. Working' \in SUBSET Thread /\ At("wait")' \in SUBSET Thread
    BY DEF Working, At
  <2> QED
    BY <2>1, PoolAssumption, FS_Subset, FS_CardinalityType
<1>2. idle_count' \in Nat /\ current_threads' \in Nat
  BY <1>1 DEF Sizes
<1> QED
  BY <1>2 DEF DrainInv, ThreadsAccounted, TypeOK, OtherTypes, ThreadTypes, Sizes

-----------------------------------------------------------------------------
(* The worker threads *)

others == <<stopping, stopped, lifecycle, caller, faults>>

\* A pool that has stopped has no thread that takes a step.
LEMMA NotStopped ==
    ASSUME StoppedClean, NEW w \in Thread, thread[w].pc # "absent"
    PROVE  ~stopped
  BY DEF StoppedClean

\* A thread takes the first task, from the top of the loop or from its wait.
LEMMA TakeStep ==
    ASSUME DrainInv, NEW w \in Thread, thread[w].pc \in {"top", "wait"}, tasks # <<>>, Take(w), UNCHANGED others,
           idle_count' = IF thread[w].pc = "wait" THEN idle_count - 1 ELSE idle_count
    PROVE  DrainInv'
<1>1. /\ OtherTypes /\ ThreadTypes /\ Sizes /\ FatesHeld /\ QueueServed /\ StoppedClean
      /\ idle_count \in Nat /\ current_threads \in Nat
  BY Parts
<1> DEFINE r == [pc |-> "run", task |-> Head(tasks)]
<1>2. tasks \in Seq(Task) /\ Len(tasks) > 0 /\ Head(tasks) \in Task /\ Head(tasks) = tasks[1]
  BY <1>1 DEF OtherTypes
<1>3. r \in ThreadState /\ r.pc \in Busy /\ r.pc # "wait"
  BY <1>2 DEF ThreadState, Busy
<1>4. thread' = [thread EXCEPT ![w] = r] /\ thread[w].pc \in Busy
  BY DEF Take, Busy
<1> HIDE DEF r
<1>5. ThreadTypes' /\ thread'[w] = r /\ \A v \in Thread \ {w} : thread'[v] = thread[v]
  BY <1>1, <1>3, <1>4, ThreadMoves
<1>6. Sizes'
  <2>1. /\ Cardinality(Working)' = Cardinality(Working)
        /\ Cardinality(At("wait"))' = IF thread[w].pc = "wait" THEN Cardinality(At("wait")) - 1
                                                               ELSE Cardinality(At("wait"))
    BY <1>1, <1>3, <1>4, SizesMove
  <2> QED
    BY <1>1, <2>1 DEF Sizes, Take, others
<1>7. tasks' \in Seq(Task) /\ Len(tasks') = Len(tasks) - 1 /\ \A k \in 2..Len(tasks) : tasks'[k - 1] = tasks[k]
  BY <1>2 DEF Take
<1>8. /\ fate' \in [Task -> {"new", "refused", "queued", "running", "ran"}]
      /\ fate'[Head(tasks)] = "running" /\ \A t \in Task \ {Head(tasks)} : fate'[t] = fate[t]
  BY <1>1, <1>2 DEF OtherTypes, Take
<1>9. OtherTypes'
  BY <1>1, <1>7, <1>8, PoolAssumption DEF OtherTypes, others
<1>10. FatesHeld'
  <2>1. ASSUME NEW t \in Task, fate'[t] = "queued" PROVE \E k \in 1..Len(tasks') : tasks'[k] = t
    <3>1. t # Head(tasks) /\ fate[t] = "queued"
      BY <1>8, <2>1
    <3>2. PICK k \in 1..Len(tasks) : tasks[k] = t
      BY <1>1, <3>1 DEF FatesHeld
    <3>3. k \in 2..Len(tasks)
      BY <1>2, <3>1, <3>2
    <3>4. k - 1 \in 1..Len(tasks') /\ tasks'[k - 1] = t
      BY <1>2, <1>7, <3>2, <3>3
    <3> QED
      BY <3>4
  <2>2. ASSUME NEW t \in Task, fate'[t] = "running" PROVE \E v \in Thread : thread'[v] = [pc |-> "run", task |-> t]
    <3>1. CASE t = Head(tasks)
      BY <1>5, <3>1 DEF r
    <3>2. CASE t # Head(tasks)
      <4>1. PICK v \in Thread : thread[v] = [pc |-> "run", task |-> t]
        BY <1>1, <1>8, <2>2, <3>2 DEF FatesHeld
      <4>2. v # w
        BY <4>1
      <4> QED
        BY <1>5, <4>1, <4>2
    <3> QED
      BY <3>1, <3>2
  <2> QED
    BY <2>1, <2>2 DEF FatesHeld
<1>11. QueueServed'
  <2>1. w \in Working'
    BY <1>3, <1>5 DEF Working, At, Busy
  <2> QED
    BY <2>1 DEF QueueServed
<1>12. StoppedClean'
  BY <1>1, NotStopped DEF StoppedClean, others
<1> QED
  BY <1>5, <1>6, <1>9, <1>10, <1>11, <1>12, Joined

\* A thread leaves when nothing is queued and the pool stops or has threads to spare.
LEMMA LeaveStep ==
    ASSUME DrainInv, NEW w \in Thread, thread[w].pc \in {"top", "wait"}, tasks = <<>>, Leave(w), UNCHANGED others,
           stopping \/ current_threads > InitThreads,
           idle_count' = IF thread[w].pc = "wait" THEN idle_count - 1 ELSE idle_count
    PROVE  DrainInv'
<1>1. /\ OtherTypes /\ ThreadTypes /\ Sizes /\ FatesHeld /\ QueueServed /\ StoppedClean
      /\ idle_count \in Nat /\ current_threads \in Nat
  BY Parts
<1>2. In("leaving") \in ThreadState /\ In("leaving").pc = "leaving"
  BY InTypes
<1>3. thread' = [thread EXCEPT ![w] = In("leaving")] /\ thread[w].pc \in Busy /\ "leaving" \notin Busy
  BY DEF Leave, Busy
<1>4. ThreadTypes' /\ \A v \in Thread \ {w} : thread'[v] = thread[v]
  BY <1>1, <1>2, <1>3, ThreadMoves
<1>5. Sizes'
  <2>1. /\ Cardinality(Working)' = Cardinality(Working) - 1
        /\ Cardinality(At("wait"))' = IF thread[w].pc = "wait" THEN Cardinality(At("wait")) - 1
                                                               ELSE Cardinality(At("wait"))
    BY <1>1, <1>2, <1>3, SizesMove
  <2>2. current_threads' = Cardinality(Working)' /\ idle_count' = Cardinality(At("wait"))'
    BY <1>1, <2>1 DEF Sizes, Leave
  <2>3. current_threads' <= MaxThreads /\ (~stopping' => InitThreads <= current_threads')
    BY <1>1, PoolAssumption DEF Sizes, Leave, others
  <2> QED
    BY <2>2, <2>3 DEF Sizes
<1>6. OtherTypes'
  BY <1>1 DEF OtherTypes, Leave, others
<1>7. FatesHeld'
  BY <1>1, <1>4 DEF FatesHeld, Leave
<1>8. QueueServed'
  BY DEF QueueServed, Leave
<1>9. StoppedClean'
  BY <1>1, NotStopped DEF StoppedClean, others
<1> QED
  BY <1>4, <1>5, <1>6, <1>7, <1>8, <1>9, Joined

\* A thread starts to wait, or goes back to the top of the loop.
LEMMA WaitStep ==
    ASSUME DrainInv, NEW w \in Thread, UNCHANGED <<tasks, fate, current_threads, others>>,
           \/ /\ thread[w].pc = "top" /\ idle_count' = idle_count + 1
              /\ thread' = [thread EXCEPT ![w] = In("wait")]
           \/ /\ thread[w].pc = "wait" /\ idle_count' = idle_count - 1
              /\ thread' = [thread EXCEPT ![w] = In("top")]
    PROVE  DrainInv'
<1>1. /\ OtherTypes /\ ThreadTypes /\ Sizes /\ FatesHeld /\ QueueServed /\ StoppedClean
      /\ idle_count \in Nat /\ current_threads \in Nat
  BY Parts
<1>2. PICK pc \in {"top", "wait"} :
        /\ thread[w].pc \in {"top", "wait"} /\ thread[w].pc # pc
        /\ thread' = [thread EXCEPT ![w] = In(pc)]
        /\ idle_count' = IF pc = "wait" THEN idle_count + 1 ELSE idle_count - 1
  OBVIOUS
<1>3. In(pc) \in ThreadState /\ In(pc).pc = pc /\ pc \in Busy /\ thread[w].pc \in Busy
  BY <1>2, InTypes DEF Busy
<1>4. ThreadTypes' /\ thread'[w] = In(pc) /\ \A v \in Thread \ {w} : thread'[v] = thread[v]
  BY <1>1, <1>2, <1>3, ThreadMoves
<1>5. Sizes'
  <2>1. /\ Cardinality(Working)' = Cardinality(Working)
        /\ Cardinality(At("wait"))' = IF pc = "wait" THEN Cardinality(At("wait")) + 1 ELSE Cardinality(At("wait")) - 1
    BY <1>1, <1>2, <1>3, SizesMove
  <2> QED
    BY <1>1, <1>2, <2>1 DEF Sizes, others
<1>6. OtherTypes'
  BY <1>1 DEF OtherTypes, others
<1>7. FatesHeld'
  <2>1. ASSUME NEW t \in Task, fate[t] = "running" PROVE \E v \in Thread : thread'[v] = [pc |-> "run", task |-> t]
    <3>1. PICK v \in Thread : thread[v] = [pc |-> "run", task |-> t]
      BY <1>1, <2>1 DEF FatesHeld
    <3>2. v # w
      BY <1>2, <3>1
    <3> QED
      BY <1>4, <3>1, <3>2
  <2> QED
    BY <1>1, <2>1 DEF FatesHeld
<1>8. QueueServed'
  <2>1. w \in Working'
    BY <1>2, <1>3, <1>4 DEF Working, At, Busy
  <2> QED
    BY <2>1 DEF QueueServed
<1>9. StoppedClean'
  BY <1>1, <1>2, NotStopped DEF StoppedClean, others
<1> QED
  BY <1>4, <1>5, <1>6, <1>7, <1>8, <1>9, Joined

\* A task ends.
LEMMA RanStep ==
    ASSUME DrainInv, NEW w \in Thread, Ran(w)
    PROVE  DrainInv'
<1>1. /\ OtherTypes /\ ThreadTypes /\ Sizes /\ FatesHeld /\ QueueServed /\ StoppedClean
      /\ idle_count \in Nat /\ current_threads \in Nat
  BY Parts
<1>2. In("top") \in ThreadState /\ In("top").pc = "top"
  BY InTypes
<1>3. thread' = [thread EXCEPT ![w] = In("top")] /\ thread[w].pc = "run" /\ thread[w].pc \in Busy /\ "top" \in Busy
  BY DEF Ran, Busy
<1>4. ThreadTypes' /\ thread'[w] = In("top") /\ \A v \in Thread \ {w} : thread'[v] = thread[v]
  BY <1>1, <1>2, <1>3, ThreadMoves
<1>5. Sizes'
  <2>1. Cardinality(Working)' = Cardinality(Working) /\ Cardinality(At("wait"))' = Cardinality(At("wait"))
    BY <1>1, <1>2, <1>3, SizesMove
  <2> QED
    BY <1>1, <2>1 DEF Sizes, Ran
<1>6. /\ fate' \in [Task -> {"new", "refused", "queued", "running", "ran"}]
      /\ \A t \in Task : fate'[t] = fate[t] \/ fate'[t] = "ran"
      /\ thread[w].task \in Task => fate'[thread[w].task] = "ran"
  BY <1>1 DEF OtherTypes, Ran
<1>7. OtherTypes'
  BY <1>1, <1>6 DEF OtherTypes, Ran
<1>8. FatesHeld'
  <2>1. ASSUME NEW t \in Task, fate'[t] = "running" PROVE \E v \in Thread : thread'[v] = [pc |-> "run", task |-> t]
    <3>1. fate[t] = "running" /\ t # thread[w].task
      BY <1>6, <2>1
    <3>2. PICK v \in Thread : thread[v] = [pc |-> "run", task |-> t]
      BY <1>1, <3>1 DEF FatesHeld
    <3>3. v # w
      BY <3>1, <3>2
    <3> QED
      BY <1>4, <3>2, <3>3
  <2>2. ASSUME NEW t \in Task, fate'[t] = "queued" PROVE \E k \in 1..Len(tasks') : tasks'[k] = t
    BY <1>1, <1>6, <2>2 DEF FatesHeld, Ran
  <2> QED
    BY <2>1, <2>2 DEF FatesHeld
<1>9. QueueServed'
  <2>1. w \in Working'
    BY <1>2, <1>4 DEF Working, At, Busy
  <2> QED
    BY <2>1 DEF QueueServed
<1>10. StoppedClean'
  BY <1>1, <1>3, NotStopped DEF StoppedClean, Ran
<1> QED
  BY <1>4, <1>5, <1>7, <1>8, <1>9, <1>10, Joined

\* A thread that left the loop sets its flag: nobody counted it any more.
LEMMA FinishStep ==
    ASSUME DrainInv, NEW w \in Thread, Finish(w)
    PROVE  DrainInv'
<1>1. /\ OtherTypes /\ ThreadTypes /\ Sizes /\ FatesHeld /\ QueueServed /\ StoppedClean
      /\ idle_count \in Nat /\ current_threads \in Nat
  BY Parts
<1>2. In("finished") \in ThreadState /\ In("finished").pc = "finished"
  BY InTypes
<1>3. thread' = [thread EXCEPT ![w] = In("finished")] /\ thread[w].pc = "leaving" /\ "finished" \notin Busy
  BY DEF Finish, Busy
<1>4. /\ ThreadTypes' /\ \A v \in Thread \ {w} : thread'[v] = thread[v]
      /\ Working' = Working \ {w} /\ At("wait")' = At("wait") \ {w}
  BY <1>1, <1>2, <1>3, ThreadMoves
<1>5. Working' = Working /\ At("wait")' = At("wait")
  BY <1>3, <1>4 DEF Working, At
<1>6. Sizes'
  BY <1>1, <1>5 DEF Sizes, Finish
<1>7. OtherTypes'
  BY <1>1 DEF OtherTypes, Finish
<1>8. FatesHeld'
  <2>1. ASSUME NEW t \in Task, fate[t] = "running" PROVE \E v \in Thread : thread'[v] = [pc |-> "run", task |-> t]
    <3>1. PICK v \in Thread : thread[v] = [pc |-> "run", task |-> t]
      BY <1>1, <2>1 DEF FatesHeld
    <3>2. v # w
      BY <1>3, <3>1
    <3> QED
      BY <1>4, <3>1, <3>2
  <2> QED
    BY <1>1, <2>1 DEF FatesHeld, Finish
<1>9. QueueServed'
  BY <1>1, <1>5 DEF QueueServed, Finish
<1>10. StoppedClean'
  BY <1>1, <1>3, NotStopped DEF StoppedClean, Finish
<1> QED
  BY <1>4, <1>6, <1>7, <1>8, <1>9, <1>10, Joined

-----------------------------------------------------------------------------
(* The callers *)

\* enqueue: a task is refused, or goes to the end of the queue of a pool that does not stop.
LEMMA EnqueueStep ==
    ASSUME DrainInv, NEW c \in Caller, NEW t \in Task, enqueue(c, t)
    PROVE  DrainInv'
<1>1. /\ OtherTypes /\ ThreadTypes /\ Sizes /\ FatesHeld /\ QueueServed /\ StoppedClean
      /\ idle_count \in Nat /\ current_threads \in Nat
  BY Parts
<1>2. UNCHANGED <<thread, idle_count, current_threads, stopping, stopped, lifecycle, faults>> /\ fate[t] = "new"
  BY DEF enqueue
<1>3. ThreadTypes' /\ Sizes'
  BY <1>1, <1>2 DEF ThreadTypes, Sizes, Working, At
<1>4. CASE Refuses /\ fate' = [fate EXCEPT ![t] = "refused"] /\ UNCHANGED <<tasks, caller>>
  <2>1. OtherTypes'
    BY <1>1, <1>2, <1>4 DEF OtherTypes
  <2>2. fate'[t] = "refused" /\ \A u \in Task \ {t} : fate'[u] = fate[u]
    BY <1>1, <1>4 DEF OtherTypes
  <2>3. FatesHeld'
    BY <1>1, <1>2, <1>4, <2>2 DEF FatesHeld
  <2>4. QueueServed'
    BY <1>1, <1>2, <1>4 DEF QueueServed, Working, At
  <2>5. StoppedClean'
    BY <1>1, <1>2, <1>4, <2>2 DEF StoppedClean
  <2> QED
    BY <1>3, <2>1, <2>3, <2>4, <2>5, Joined
<1>5. CASE /\ ~Refuses /\ fate' = [fate EXCEPT ![t] = "queued"]
           /\ tasks' = Append(tasks, t) /\ caller' = [caller EXCEPT ![c] = "adjusting"]
  <2>1. tasks' \in Seq(Task) /\ Len(tasks') = Len(tasks) + 1 /\ tasks'[Len(tasks) + 1] = t
        /\ \A k \in 1..Len(tasks) : tasks'[k] = tasks[k]
    BY <1>1, <1>5 DEF OtherTypes
  <2>2. ~stopping /\ (MaxPending > 0 => Len(tasks) < MaxPending)
    BY <1>1, <1>5, PoolAssumption DEF Refuses, OtherTypes
  <2>3. fate'[t] = "queued" /\ \A u \in Task \ {t} : fate'[u] = fate[u]
    BY <1>1, <1>5 DEF OtherTypes
  <2>4. OtherTypes'
    <3>1. MaxPending > 0 => Len(tasks') <= MaxPending
      BY <1>1, <2>1, <2>2, PoolAssumption DEF OtherTypes
    <3> QED
      BY <1>1, <1>2, <1>5, <2>1, <3>1 DEF OtherTypes
  <2>5. FatesHeld'
    <3>1. ASSUME NEW u \in Task, fate'[u] = "queued" PROVE \E k \in 1..Len(tasks') : tasks'[k] = u
      <4>1. Len(tasks) \in Nat
        BY <1>1 DEF OtherTypes
      <4>2. CASE u = t
        BY <2>1, <4>1, <4>2
      <4>3. CASE u # t
        <5>1. PICK k \in 1..Len(tasks) : tasks[k] = u
          BY <1>1, <2>3, <3>1, <4>3 DEF FatesHeld
        <5> QED
          BY <2>1, <4>1, <5>1
      <4> QED
        BY <4>2, <4>3
    <3>2. ASSUME NEW u \in Task, fate'[u] = "running" PROVE \E v \in Thread : thread'[v] = [pc |-> "run", task |-> u]
      BY <1>1, <1>2, <2>3, <3>2 DEF FatesHeld
    <3> QED
      BY <3>1, <3>2 DEF FatesHeld
  <2>6. QueueServed'
    BY <1>2, <2>2 DEF QueueServed
  <2>7. StoppedClean'
    BY <1>1, <1>2, <1>5, <2>2 DEF StoppedClean, OtherTypes
  <2> QED
    BY <1>3, <2>4, <2>5, <2>6, <2>7, Joined
<1> QED
  BY <1>4, <1>5 DEF enqueue

\* adjustPoolSize never asks for more threads than MaxThreads leaves room for.
LEMMA WantedFits ==
    ASSUME current_threads \in Nat, current_threads <= MaxThreads
    PROVE  Wanted \in Nat /\ current_threads + Wanted <= MaxThreads
<1> DEFINE S == {MaxThreads, current_threads + 2}
<1>1. \E x \in S : \A y \in S : x <= y
  BY PoolAssumption
<1>2. Min(S) \in S /\ \A y \in S : Min(S) <= y
  BY <1>1 DEF Min
<1>3. CASE Len(tasks) > Backlog /\ current_threads < MaxThreads
  <2>1. Wanted = Min(S) - current_threads
    BY <1>3 DEF Wanted
  <2>2. current_threads <= Min(S) /\ Min(S) <= MaxThreads /\ Min(S) \in Nat
    BY <1>2, <1>3, PoolAssumption
  <2> HIDE DEF S
  <2> QED
    BY <2>1, <2>2, PoolAssumption
<1>4. CASE ~(Len(tasks) > Backlog /\ current_threads < MaxThreads)
  BY <1>4, PoolAssumption DEF Wanted
<1> QED
  BY <1>3, <1>4

\* adjustPoolSize reaps the finished threads and adds new ones, all of them counted.
LEMMA AdjustStep ==
    ASSUME DrainInv, NEW c \in Caller, adjustPoolSize(c)
    PROVE  DrainInv'
<1>1. /\ OtherTypes /\ ThreadTypes /\ Sizes /\ FatesHeld /\ QueueServed /\ StoppedClean
      /\ idle_count \in Nat /\ current_threads \in Nat
  BY Parts
<1>2. UNCHANGED <<tasks, fate, idle_count, stopping, stopped, lifecycle>> /\ caller' = [caller EXCEPT ![c] = "idle"]
  BY DEF adjustPoolSize
<1>3. CASE stopping /\ UNCHANGED <<thread, current_threads, faults>>
  <2>1. OtherTypes' /\ ThreadTypes'
    BY <1>1, <1>2, <1>3 DEF OtherTypes, ThreadTypes
  <2>2. Sizes' /\ QueueServed'
    BY <1>1, <1>2, <1>3 DEF Sizes, QueueServed, Working, At
  <2>3. FatesHeld' /\ StoppedClean'
    BY <1>1, <1>2, <1>3 DEF FatesHeld, StoppedClean, OtherTypes
  <2> QED
    BY <2>1, <2>2, <2>3, Joined
<1>4. ASSUME ~stopping,
             NEW W \in SUBSET (At("absent") \cup At("finished")),
             \/ Cardinality(W) = Wanted /\ UNCHANGED faults
             \/ Cardinality(W) < Wanted /\ faults < MaxFaults /\ faults' = faults + 1,
             thread' = [w \in Thread |-> IF w \in W THEN In("top")
                                         ELSE IF w \in At("absent") \cup At("finished") THEN In("absent") ELSE thread[w]],
             current_threads' = current_threads + Cardinality(W)
      PROVE  DrainInv'
  <2>1. W \in SUBSET Thread /\ W \cap Working = {}
    BY <1>4 DEF At, Working
  <2>2. IsFiniteSet(W) /\ Cardinality(W) \in Nat
    BY <2>1, PoolAssumption, FS_Subset, FS_CardinalityType
  <2>3. ThreadTypes'
    BY <1>1, <1>4, InTypes DEF ThreadTypes
  <2>4. Working' = Working \cup W /\ At("wait")' = At("wait")
    <3>1. \A w \in Thread : thread'[w].pc = IF w \in W THEN "top"
                                            ELSE IF thread[w].pc \in {"absent", "finished"} THEN "absent" ELSE thread[w].pc
      BY <1>4, InTypes DEF At
    <3>2. \A w \in W : w \in Thread /\ thread[w].pc \in {"absent", "finished"}
      BY <1>4 DEF At
    <3>3. Working' = Working \cup W
      BY <3>1, <3>2 DEF Working, At
    <3>4. At("wait")' = At("wait")
      BY <3>1, <3>2 DEF At
    <3> QED
      BY <3>3, <3>4
  <2>5. Cardinality(Working)' = Cardinality(Working) + Cardinality(W)
    <3>1. Cardinality(Working \cap W) = 0
      BY <2>1, FS_EmptySet
    <3>2. Cardinality(Working \cup W) = Cardinality(Working) + Cardinality(W) - Cardinality(Working \cap W)
      BY <2>2, FiniteThreads, FS_Union
    <3>3. Cardinality(Working \cup W) = Cardinality(Working) + Cardinality(W)
      BY <2>2, <3>1, <3>2, FiniteThreads
    <3> QED
      BY <2>4, <3>3
  <2>6. Sizes'
    <3>1. current_threads <= MaxThreads
      BY <1>1 DEF Sizes
    <3>2. Wanted \in Nat /\ current_threads + Wanted <= MaxThreads
      BY <1>1, <3>1, WantedFits
    <3>3. current_threads' <= MaxThreads /\ (~stopping' => InitThreads <= current_threads')
      BY <1>1, <1>2, <1>4, <2>2, <3>2, PoolAssumption DEF Sizes
    <3> QED
      BY <1>1, <1>2, <1>4, <2>4, <2>5, <3>3 DEF Sizes
  <2>7. OtherTypes'
    <3>1. faults' \in 0..MaxFaults
      BY <1>1, <1>4, PoolAssumption DEF OtherTypes
    <3> QED
      BY <1>1, <1>2, <3>1 DEF OtherTypes
  <2>8. FatesHeld'
    <3>1. ASSUME NEW v \in Thread, NEW t \in Task, thread[v] = [pc |-> "run", task |-> t] PROVE thread'[v] = thread[v]
      BY <1>4, <3>1 DEF At
    <3> QED
      BY <1>1, <1>2, <3>1 DEF FatesHeld
  <2>9. QueueServed'
    BY <1>2, <1>4 DEF QueueServed
  <2>10. StoppedClean'
    BY <1>1, <1>2, <1>4 DEF StoppedClean, OtherTypes
  <2> QED
    BY <2>3, <2>6, <2>7, <2>8, <2>9, <2>10, Joined
<1> QED
  BY <1>3, <1>4 DEF adjustPoolSize

\* stop: the pool that begins to stop has a thread for what is queued.
LEMMA StopStep ==
    ASSUME DrainInv, NEW c \in Caller, stop(c)
    PROVE  DrainInv'
<1>1. /\ OtherTypes /\ ThreadTypes /\ Sizes /\ FatesHeld /\ QueueServed /\ StoppedClean
      /\ idle_count \in Nat /\ current_threads \in Nat
  BY Parts
<1>2. UNCHANGED <<tasks, fate, thread, idle_count, current_threads, stopped, faults>>
  BY DEF stop
<1>3. ThreadTypes' /\ FatesHeld' /\ Working' = Working /\ At("wait")' = At("wait")
  BY <1>1, <1>2 DEF ThreadTypes, FatesHeld, Working, At
<1>4. CASE stopped /\ caller' = [caller EXCEPT ![c] = "back"] /\ UNCHANGED <<stopping, lifecycle>>
  <2>1. OtherTypes' /\ Sizes' /\ QueueServed'
    BY <1>1, <1>2, <1>3, <1>4 DEF OtherTypes, Sizes, QueueServed
  <2>2. StoppedClean'
    BY <1>1, <1>2, <1>4 DEF StoppedClean, OtherTypes
  <2> QED
    BY <1>3, <2>1, <2>2, Joined
<1>5. CASE ~stopped /\ stopping' = TRUE /\ lifecycle' = c /\ caller' = [caller EXCEPT ![c] = "joining"]
  <2>1. OtherTypes' /\ Sizes'
    BY <1>1, <1>2, <1>3, <1>5 DEF OtherTypes, Sizes
  <2>2. QueueServed'
    <3>1. CASE stopping
      BY <1>1, <1>2, <1>3, <3>1 DEF QueueServed
    <3>2. CASE ~stopping
      <4>1. Cardinality(Working) > 0
        BY <1>1, <3>2, PoolAssumption, FiniteThreads DEF Sizes
      <4> QED
        BY <1>3, <4>1, SomeoneWorks DEF QueueServed
    <3> QED
      BY <3>1, <3>2
  <2>3. StoppedClean'
    BY <1>1, <1>2, <1>5 DEF StoppedClean, OtherTypes
  <2> QED
    BY <1>3, <2>1, <2>2, <2>3, Joined
<1> QED
  BY <1>4, <1>5 DEF stop

\* stop returns from a pool without threads, hence without tasks.
LEMMA ReturnsStep ==
    ASSUME DrainInv, NEW c \in Caller, StopReturns(c)
    PROVE  DrainInv'
<1>1. /\ OtherTypes /\ ThreadTypes /\ Sizes /\ FatesHeld /\ QueueServed /\ StoppedClean
      /\ idle_count \in Nat /\ current_threads \in Nat
  BY Parts
<1>2. /\ UNCHANGED <<tasks, fate, idle_count, current_threads, stopping, faults>>
      /\ stopped' = TRUE /\ lifecycle' = None /\ caller' = [caller EXCEPT ![c] = "back"]
      /\ \A w \in Thread : thread[w].pc \in {"absent", "finished"}
  BY DEF StopReturns
<1>3. stopping
  BY <1>1 DEF StopReturns, StoppedClean
<1>4. ThreadTypes' /\ \A w \in Thread : thread'[w].pc = "absent"
  BY InTypes DEF StopReturns, ThreadTypes
<1>5. Working = {} /\ At("wait") = {}
  BY <1>2 DEF Working, At
<1>6. Working' = {} /\ At("wait")' = {}
  BY <1>4 DEF Working, At
<1>7. Sizes'
  BY <1>1, <1>2, <1>5, <1>6 DEF Sizes
<1>8. tasks = <<>>
  BY <1>1, <1>3, <1>5 DEF QueueServed
<1>9. \A t \in Task : fate[t] # "queued" /\ fate[t] # "running"
  <2>1. ASSUME NEW t \in Task, fate[t] = "queued" PROVE FALSE
    BY <1>1, <1>8, <2>1 DEF FatesHeld
  <2>2. ASSUME NEW t \in Task, fate[t] = "running" PROVE FALSE
    <3>1. PICK w \in Thread : thread[w] = [pc |-> "run", task |-> t]
      BY <1>1, <2>2 DEF FatesHeld
    <3> QED
      BY <1>2, <3>1
  <2> QED
    BY <2>1, <2>2
<1>10. OtherTypes'
  BY <1>1, <1>2 DEF OtherTypes
<1>11. FatesHeld' /\ QueueServed'
  BY <1>2, <1>8, <1>9 DEF FatesHeld, QueueServed
<1>12. StoppedClean'
  <2>1. \A t \in Task : fate'[t] \in {"new", "refused", "ran"}
    BY <1>1, <1>2, <1>9 DEF OtherTypes
  <2> QED
    BY <1>1, <1>2, <1>3, <1>4, <1>8, <2>1 DEF StoppedClean
<1> QED
  BY <1>4, <1>7, <1>10, <1>11, <1>12, Joined

-----------------------------------------------------------------------------
(* The invariant and the theorems *)

\* The constructor starts InitThreads threads.
LEMMA PoolStart == Init => DrainInv
<1> SUFFICES ASSUME Init PROVE DrainInv
  OBVIOUS
<1>1. PICK W \in kSubset(InitThreads, Thread) : thread = [w \in Thread |-> In(IF w \in W THEN "top" ELSE "absent")]
  BY DEF Init
<1>2. W \in SUBSET Thread /\ Cardinality(W) = InitThreads
  BY DEF kSubset
<1>3. ThreadTypes /\ \A w \in Thread : thread[w].pc = IF w \in W THEN "top" ELSE "absent"
  BY <1>1, InTypes DEF ThreadTypes
<1>4. Working = W /\ At("wait") = {}
  BY <1>2, <1>3 DEF Working, At
<1>5. ThreadsAccounted
  <2>1. tasks \in Seq(Task) /\ (MaxPending > 0 => Len(tasks) <= MaxPending)
    <3>1. tasks = <<>> /\ <<>> \in Seq(Task) /\ Len(<<>>) = 0
      BY DEF Init
    <3> QED
      BY <3>1, PoolAssumption
  <2>2. /\ fate \in [Task -> {"new", "refused", "queued", "running", "ran"}]
        /\ caller \in [Caller -> {"idle", "adjusting", "joining", "back"}]
    BY DEF Init
  <2>3. /\ idle_count = 0 /\ current_threads = InitThreads /\ faults = 0
        /\ stopping = FALSE /\ stopped = FALSE /\ lifecycle = None
    BY DEF Init
  <2>4. TypeOK
    <3>1. stopping \in BOOLEAN /\ stopped \in BOOLEAN /\ lifecycle \in Caller \cup {None}
      BY <2>3
    <3>2. idle_count \in Nat /\ current_threads \in Nat /\ faults \in 0..MaxFaults
      BY <2>3, PoolAssumption
    <3> QED
      BY <1>3, <2>1, <2>2, <3>1, <3>2 DEF TypeOK, ThreadTypes
  <2>5. current_threads = Cardinality(Working) /\ idle_count = Cardinality(At("wait"))
    BY <1>2, <1>4, <2>3, FS_EmptySet
  <2> QED
    BY <2>3, <2>4, <2>5, PoolAssumption DEF ThreadsAccounted
<1>6. FatesHeld /\ QueueServed /\ StoppedClean
  BY DEF Init, FatesHeld, QueueServed, StoppedClean
<1> QED
  BY <1>5, <1>6 DEF DrainInv

\* Every step of a worker thread keeps the invariant.
LEMMA WorkerKeeps == ASSUME DrainInv, NEW w \in Thread, WorkerStep(w) PROVE DrainInv'
<1>1. CASE LoopTop(w)
  <2>1. CASE Go(w) /\ UNCHANGED idle_count
    BY <1>1, <2>1, TakeStep, LeaveStep DEF LoopTop, Go, others
  <2>2. CASE ~(Go(w) /\ UNCHANGED idle_count)
    BY <1>1, <2>2, WaitStep DEF LoopTop, others
  <2> QED
    BY <2>1, <2>2
<1>2. CASE Wake(w)
  <2>1. CASE Go(w)
    BY <1>2, <2>1, TakeStep, LeaveStep DEF Wake, Go, others
  <2>2. CASE tasks = <<>> /\ Surplus(idle_count - 1) /\ Leave(w)
    BY <1>2, <2>2, LeaveStep DEF Wake, Surplus, others
  <2>3. CASE thread' = [thread EXCEPT ![w] = In("top")] /\ UNCHANGED <<tasks, fate, current_threads>>
    BY <1>2, <2>3, WaitStep DEF Wake, others
  <2> QED
    BY <1>2, <2>1, <2>2, <2>3 DEF Wake
<1> QED
  BY <1>1, <1>2, RanStep, FinishStep DEF WorkerStep

\* Every step keeps the invariant.
LEMMA PoolKeeps == DrainInv /\ [Next]_vars => DrainInv'
<1> SUFFICES ASSUME DrainInv, [Next]_vars PROVE DrainInv'
  OBVIOUS
<1>1. CASE UNCHANGED vars
  BY <1>1 DEF vars, DrainInv, ThreadsAccounted, TypeOK, FatesHeld, QueueServed, StoppedClean, Working, At
<1>2. CASE Next
  BY <1>2, EnqueueStep, AdjustStep, StopStep, ReturnsStep, WorkerKeeps DEF Next
<1> QED
  BY <1>1, <1>2

\* ThreadsAccounted: idle_count_ and current_threads_, by which adjustPoolSize and the idle timeout decide,
\* are the numbers of threads that wait and that work, and stay between the pool's limits.
THEOREM CountersAreTrue == Spec => []ThreadsAccounted
<1>1. DrainInv => ThreadsAccounted
  BY DEF DrainInv
<1> QED
  BY <1>1, PoolStart, PoolKeeps, PTL DEF Spec

\* StopDrains: once DynamicThreadPool::stop has returned to anyone, every accepted task has run and no thread
\* of the pool is left.
THEOREM StoppedIsDrained == Spec => []StopDrains
<1>1. DrainInv => StopDrains
  BY DEF DrainInv, StoppedClean, StopDrains
<1> QED
  BY <1>1, PoolStart, PoolKeeps, PTL DEF Spec
=============================================================================
