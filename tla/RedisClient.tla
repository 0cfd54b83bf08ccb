------------------------------ MODULE RedisClient ------------------------------
(***************************************************************************)
(* RedisClient (src/redis/redis_client.cpp) below the level of module      *)
(* Scheduler: the connection slots the threads of a process share, the     *)
(* command that is sent a second time on a new connection when no reply    *)
(* comes, and the task lock built on it.  A command whose reply does not   *)
(* come may have been carried out, may be lost, or may still be carried    *)
(* out, after the second one or much later.  The key is one task's lock.   *)
(***************************************************************************)
EXTENDS Naturals, FiniteSets

CONSTANTS
    Client,         \* the threads that take the lock
    Slots,          \* of a process, pool_size: slots are 0..Slots - 1
    MaxLocks,       \* bound: acquisitions of a thread
    MaxDrops,       \* bound: replies that do not come in time
    Free            \* no holder, no value, no reply

\* A pool_size of zero is made one; what is free is no thread, no value and no reply.
ASSUME RedisConstants ==
    /\ Slots \in Nat \ {0}
    /\ Free \notin Client
    /\ Free \notin Client \X Nat
    /\ Free \notin {"OK", "nil", "0", "1"}

VARIABLES
    th,             \* the command each thread is in, and whether it holds the lock
    next,           \* next_slot_
    mutex,          \* of each slot: the thread inside
    ctx,            \* of each slot: [conn, err], the redisContext; conn 0: null
    conns,          \* connections made so far
    wire,           \* commands on their way to Redis
    reply,          \* replies on their way back, by connection
    key,            \* Redis: the value of the lock
    lapsed,         \* the values that expired since they were set
    drops

redisVars == <<th, next, mutex, ctx, conns, wire, reply, key, lapsed, drops>>

Slot == 0..(Slots - 1)
Idle == [pc |-> "out", op |-> "none", n |-> 0, slot |-> 0, tries |-> 0, held |-> FALSE]

\* lock_value: the node and the execution, another one for every acquisition.
Value(t) == <<t, th[t].n>>

-----------------------------------------------------------------------------
(* Redis: the scripts *)

\* Mutant: unlock deletes the key without looking at its value.
Script_AnyValue(op, val) ==
    CASE op = "lock"   -> [key |-> IF key = Free THEN val ELSE key, res |-> IF key = Free THEN "OK" ELSE "nil"]
      [] op = "renew"  -> [key |-> key, res |-> IF key = val THEN "1" ELSE "0"]
      [] op = "unlock" -> [key |-> Free, res |-> IF key = Free THEN "0" ELSE "1"]

Script(op, val) ==
    CASE op = "lock"   -> [key |-> IF key = Free THEN val ELSE key, res |-> IF key = Free THEN "OK" ELSE "nil"]
      [] op = "renew"  -> [key |-> key, res |-> IF key = val THEN "1" ELSE "0"]
      [] op = "unlock" -> [key |-> IF key = val THEN Free ELSE key, res |-> IF key = val THEN "1" ELSE "0"]

\* A script runs; its reply goes to a connection that is still open.
Execute(p) ==
    /\ wire' = wire \ {p}
    /\ key' = Script(p.op, p.val).key
    /\ lapsed' = IF p.op = "lock" /\ key = Free THEN lapsed \ {p.val} ELSE lapsed
    /\ reply' = IF \E s \in Slot : ctx[s].conn = p.conn
                THEN reply \cup {[conn |-> p.conn, op |-> p.op, val |-> p.val, res |-> Script(p.op, p.val).res]}
                ELSE reply
    /\ UNCHANGED <<th, next, mutex, ctx, conns, drops>>

\* A command on a connection that was closed may never be carried out.
Vanish(p) ==
    /\ \A s \in Slot : ctx[s].conn # p.conn
    /\ wire' = wire \ {p}
    /\ UNCHANGED <<th, next, mutex, ctx, conns, reply, key, lapsed, drops>>

\* The key's time to live ends before it is renewed.
Expire ==
    /\ key # Free
    /\ key' = Free
    /\ lapsed' = lapsed \cup {key}
    /\ UNCHANGED <<th, next, mutex, ctx, conns, wire, reply, drops>>

-----------------------------------------------------------------------------
(* RedisClient::command *)

\* The call returns: the slot is free again, and the caller acts on the reply.  lock() starts
\* over until its time is up; a renewal that fails gives the lease up.
After(t, res) ==
    LET x == th[t]
        out == [x EXCEPT !.pc = "out", !.op = "none", !.slot = 0, !.tries = 0]
    IN  CASE x.op = "lock" /\ res = "OK"  -> {[out EXCEPT !.held = TRUE]}
          [] x.op = "lock" /\ res # "OK"  -> {out, [out EXCEPT !.op = "lock"]}
          [] x.op = "renew" /\ res = "1"  -> {out}
          [] x.op = "renew" /\ res # "1"  -> {[out EXCEPT !.held = FALSE, !.op = "unlock"]}
          [] OTHER                        -> {out}

Returns(t, res) ==
    /\ \E x \in After(t, res) : th' = [th EXCEPT ![t] = x]
    /\ mutex' = [mutex EXCEPT ![th[t].slot] = Free]

\* Mutant: the second try goes out on the old connection.
Connected_Keeps(s) ==
    /\ IF ctx[s].conn = 0 THEN conns' = conns + 1 ELSE UNCHANGED conns
    /\ ctx' = [ctx EXCEPT ![s] = [conn |-> IF ctx[s].conn = 0 THEN conns + 1 ELSE ctx[s].conn, err |-> FALSE]]
    /\ UNCHANGED reply

\* connectSlotLocked: the old context is freed, a reply still on its way goes with it.
Connected(s) ==
    /\ conns' = conns + 1
    /\ ctx' = [ctx EXCEPT ![s] = [conn |-> conns + 1, err |-> FALSE]]
    /\ reply' = {r \in reply : r.conn # ctx[s].conn}
NotConnected(s) ==
    /\ drops < MaxDrops
    /\ drops' = drops + 1
    /\ ctx' = [ctx EXCEPT ![s] = [conn |-> 0, err |-> FALSE]]
    /\ reply' = {r \in reply : r.conn # ctx[s].conn}
    /\ UNCHANGED conns

\* redisvCommand on the slot's context.
Sent(t, tries) ==
    /\ wire' = wire \cup {[conn |-> ctx'[th[t].slot].conn, op |-> th[t].op, val |-> Value(t)]}
    /\ th' = [th EXCEPT ![t] = [@ EXCEPT !.pc = "sent", !.tries = tries]]

\* pickSlot.
Begin(t, op, n, held) ==
    /\ th' = [th EXCEPT ![t] = [pc |-> "mutex", op |-> op, n |-> n, slot |-> next % Slots, tries |-> 0, held |-> held]]
    /\ next' = (next + 1) % Slots

\* A thread takes the lock, with a value of its own, tries again, keeps the lock, gives it back.
Command(t) ==
    /\ th[t].pc = "out"
    /\ \/ /\ th[t].op = "none" /\ ~th[t].held /\ th[t].n < MaxLocks
          /\ Begin(t, "lock", th[t].n + 1, FALSE)
       \/ th[t].op = "lock" /\ Begin(t, "lock", th[t].n, FALSE)
       \/ th[t].op = "none" /\ th[t].held /\ Begin(t, "renew", th[t].n, TRUE)
       \/ th[t].op = "none" /\ th[t].held /\ Begin(t, "unlock", th[t].n, FALSE)
       \/ th[t].op = "unlock" /\ Begin(t, "unlock", th[t].n, FALSE)
    /\ UNCHANGED <<mutex, ctx, conns, wire, reply, key, lapsed, drops>>

\* The slot's mutex, a connection if there is none, the command.  A context an earlier command
\* left in error fails at once, which makes this the second try.
Enter(t) ==
    LET s == th[t].slot
    IN  /\ th[t].pc = "mutex" /\ mutex[s] = Free
        /\ \/ /\ ctx[s].conn # 0 /\ ~ctx[s].err
              /\ mutex' = [mutex EXCEPT ![s] = t]
              /\ UNCHANGED <<ctx, conns, reply, drops>>
              /\ Sent(t, 1)
           \/ /\ ctx[s].conn = 0 \/ ctx[s].err
              /\ Connected(s)
              /\ mutex' = [mutex EXCEPT ![s] = t]
              /\ UNCHANGED drops
              /\ Sent(t, IF ctx[s].err THEN 2 ELSE 1)
           \/ /\ ctx[s].conn = 0 \/ ctx[s].err
              /\ NotConnected(s)
              /\ Returns(t, Free)
              /\ UNCHANGED wire
        /\ UNCHANGED <<next, key, lapsed>>

GetReply(t) ==
    /\ th[t].pc = "sent"
    /\ \E r \in reply :
        /\ r.conn = ctx[th[t].slot].conn
        /\ Returns(t, r.res)
        /\ reply' = reply \ {r}
    /\ UNCHANGED <<next, ctx, conns, wire, key, lapsed, drops>>

\* No reply: the command is sent again on a new connection, once.
NoReply(t) ==
    LET s == th[t].slot
    IN  /\ th[t].pc = "sent"
        /\ drops < MaxDrops
        /\ \/ /\ th[t].tries = 1
              /\ Connected(s)
              /\ drops' = drops + 1
              /\ UNCHANGED mutex
              /\ Sent(t, 2)
           \/ /\ th[t].tries = 1
              /\ NotConnected(s)
              /\ Returns(t, Free)
              /\ UNCHANGED wire
           \/ /\ th[t].tries = 2
              /\ ctx' = [ctx EXCEPT ![s].err = TRUE]
              /\ drops' = drops + 1
              /\ Returns(t, Free)
              /\ UNCHANGED <<conns, wire, reply>>
        /\ UNCHANGED <<next, key, lapsed>>

RedisInit ==
    /\ th = [t \in Client |-> Idle]
    /\ next = 0
    /\ mutex = [s \in Slot |-> Free]
    /\ ctx = [s \in Slot |-> [conn |-> s + 1, err |-> FALSE]]
    /\ conns = Slots
    /\ wire = {}
    /\ reply = {}
    /\ key = Free
    /\ lapsed = {}
    /\ drops = 0

RedisNext ==
    \/ \E p \in wire : Execute(p) \/ Vanish(p)
    \/ Expire
    \/ \E t \in Client : Command(t) \/ Enter(t) \/ GetReply(t) \/ NoReply(t)

RedisSpec == RedisInit /\ [][RedisNext]_redisVars

-----------------------------------------------------------------------------

\* Whoever lock() told that it has the lock has it, until it unlocks or the key expires:
\* commands that are carried out twice, or long after their caller gave up, take it from
\* no one and give it to no one else.
HeldIsOwned == \A t \in Client : th[t].held /\ Value(t) \notin lapsed => key = Value(t)

\* A reply is the reply to the command that is waiting for it: none is left over on the
\* connection from a command that gave up.
ReplyIsOwn ==
    \A t \in Client, r \in reply :
        th[t].pc = "sent" /\ r.conn = ctx[th[t].slot].conn => r.op = th[t].op /\ r.val = Value(t)
=============================================================================
