------------------------------ MODULE RedisProofs ------------------------------
(***************************************************************************)
(* What RedisClient promises the others: the task lock of module           *)
(* RedisClient, for any number of threads, slots, acquisitions and lost    *)
(* replies; and the orderly leaving of module ServiceRegistry, for any     *)
(* number of processes and services and any features.                      *)
(***************************************************************************)
EXTENDS RedisClient, ServiceRegistry, TLAPS


Op    == {"lock", "renew", "unlock"}
Owner == Client \X Nat
State == [pc : {"out", "mutex", "sent"}, op : Op \cup {"none"}, n : Nat, slot : Slot, tries : Nat, held : BOOLEAN]

\* The types of the threads, the slots, the messages and the key.
RedisTypeOK ==
    /\ th \in [Client -> State]
    /\ next \in Slot
    /\ mutex \in [Slot -> Client \cup {Free}]
    /\ ctx \in [Slot -> [conn : Nat, err : BOOLEAN]]
    /\ conns \in Nat
    /\ wire \subseteq [conn : Nat, op : Op, val : Owner]
    /\ reply \subseteq [conn : Nat, op : Op, val : Owner, res : {"OK", "nil", "0", "1"}]
    /\ key \in Owner \cup {Free}
    /\ lapsed \subseteq Owner
    /\ drops \in Nat

\* A thread that waits for a reply is inside its slot, which is connected.
Inside ==
    \A t \in Client :
        /\ th[t].pc # "out" => th[t].op # "none"
        /\ th[t].pc = "sent" => mutex[th[t].slot] = t /\ ctx[th[t].slot].conn # 0

\* No connection is used twice, by two slots or by one after another.
OwnConnections ==
    /\ \A s \in Slot : ctx[s].conn <= conns
    /\ \A s, u \in Slot : ctx[s].conn = ctx[u].conn /\ ctx[s].conn # 0 => s = u
    /\ \A p \in wire : p.conn # 0 /\ p.conn <= conns
    /\ \A r \in reply : r.conn # 0 /\ r.conn <= conns

\* A connection carries one command or one reply at a time...
OneEach ==
    /\ \A p, q \in wire : p.conn = q.conn => p = q
    /\ \A p, q \in reply : p.conn = q.conn => p = q
    /\ \A p \in wire, r \in reply : p.conn # r.conn

\* ... and nothing, when its slot is free and it did not fail.
Quiet ==
    \A s \in Slot : mutex[s] = Free /\ ~ctx[s].err /\ ctx[s].conn # 0 =>
        /\ \A p \in wire : p.conn # ctx[s].conn
        /\ \A r \in reply : r.conn # ctx[s].conn

\* The command on the connection a thread waits at is its own.
CommandIsOwn ==
    \A t \in Client, p \in wire :
        th[t].pc = "sent" /\ p.conn = ctx[th[t].slot].conn => p.op = th[t].op /\ p.val = Value(t)

\* A thread that unlocks holds nothing, and a value it unlocked it never locks again: values on
\* their way are not newer than their thread.
Unlocking ==
    /\ \A t \in Client : th[t].op = "unlock" => ~th[t].held
    /\ \A t \in Client, p \in wire : p.val[1] = t => p.val[2] <= th[t].n
    /\ \A t \in Client, p \in wire :
        p.op = "unlock" /\ p.val = Value(t) => ~th[t].held /\ th[t].op \in {"none", "unlock"}

\* A granted lock is in place until it lapses, also while the reply is on its way.
Granted ==
    \A t \in Client, r \in reply :
        th[t].pc = "sent" /\ r.conn = ctx[th[t].slot].conn /\ r.op = "lock" /\ r.res = "OK"
            /\ Value(t) \notin lapsed => key = Value(t)

RedisInv ==
    /\ RedisTypeOK /\ Inside /\ OwnConnections /\ OneEach /\ Quiet
    /\ CommandIsOwn /\ ReplyIsOwn /\ Unlocking /\ Granted /\ HeldIsOwned

-----------------------------------------------------------------------------

\* Redis carries out a command: the reply goes to the thread that waits on its connection, if that
\* is still open; only a key that is free is set, and only the value that matches is deleted.
LEMMA ExecuteStep ==
    ASSUME RedisInv, NEW p \in wire, Execute(p)
    PROVE  RedisInv'
<1> DEFINE res == Script(p.op, p.val).res
<1>1. /\ p \in [conn : Nat, op : Op, val : Owner]
      /\ p.conn \in Nat /\ p.op \in Op /\ p.val \in Owner
  BY DEF RedisInv, RedisTypeOK, State
<1>2. /\ res \in {"OK", "nil", "0", "1"}
      /\ res = "OK" => p.op = "lock" /\ key = Free
  BY <1>1 DEF Script, Op
<1>3. /\ key = Free => key' = IF p.op = "lock" THEN p.val ELSE Free
      /\ key # Free => key' = IF p.op = "unlock" /\ key = p.val THEN Free ELSE key
      /\ lapsed' = IF p.op = "lock" /\ key = Free THEN lapsed \ {p.val} ELSE lapsed
  BY <1>1 DEF Execute, Script, Op
<1>4. \A r \in reply' : r \in reply \/
        /\ r = [conn |-> p.conn, op |-> p.op, val |-> p.val, res |-> res]
        /\ r.conn = p.conn /\ r.op = p.op /\ r.val = p.val /\ r.res = res
  BY DEF Execute
<1>5. wire' = wire \ {p} /\ UNCHANGED <<th, next, mutex, ctx, conns, drops>>
  BY DEF Execute
<1>6. \A t \in Client : Value(t)' = Value(t) /\ Value(t) \in Owner
  BY <1>5 DEF Value, Owner, RedisInv, RedisTypeOK, State
<1> HIDE DEF res
<1>7. RedisTypeOK'
  <2>1. key' \in Owner \cup {Free} /\ lapsed' \subseteq Owner
    BY <1>1, <1>3 DEF RedisInv, RedisTypeOK, State
  <2>2. reply' \subseteq [conn : Nat, op : Op, val : Owner, res : {"OK", "nil", "0", "1"}]
    BY <1>1, <1>2, <1>4 DEF RedisInv, RedisTypeOK, State
  <2> QED
    BY <1>5, <2>1, <2>2 DEF RedisInv, RedisTypeOK, State
<1>8. Inside'
  BY <1>5 DEF RedisInv, Inside
<1>9. OwnConnections'
  BY <1>4, <1>5 DEF RedisInv, OwnConnections
<1>10. OneEach'
  BY <1>4, <1>5 DEF RedisInv, OneEach
<1>11. Quiet'
  BY <1>4, <1>5 DEF RedisInv, Quiet
<1>12. CommandIsOwn' /\ ReplyIsOwn'
  BY <1>4, <1>5, <1>6 DEF RedisInv, CommandIsOwn, ReplyIsOwn
<1>13. Unlocking'
  BY <1>5, <1>6 DEF RedisInv, Unlocking
<1>14. Granted'
  <2> SUFFICES ASSUME NEW t \in Client, NEW r \in reply', th[t].pc = "sent", r.conn = ctx[th[t].slot].conn,
                      r.op = "lock", r.res = "OK", Value(t) \notin lapsed'
               PROVE  key' = Value(t)
    BY <1>5, <1>6 DEF Granted
  <2>1. CASE r \in reply
    <3>1. th[t].op = "lock"
      BY <2>1 DEF RedisInv, ReplyIsOwn
    <3>2. ~(p.op = "unlock" /\ p.val = Value(t))
      BY <3>1 DEF RedisInv, Unlocking
    <3>3. Value(t) \notin lapsed => key = Value(t)
      BY <2>1 DEF RedisInv, Granted
    <3>4. Value(t) # Free
      BY <1>6, RedisConstants DEF Owner
    <3> QED
      BY <1>3, <3>2, <3>3, <3>4
  <2>2. CASE r \notin reply
    <3>1. r.conn = p.conn /\ r.op = p.op /\ r.res = res
      BY <1>4, <2>2
    <3>2. p.val = Value(t) /\ p.op = "lock" /\ key = Free
      BY <1>2, <3>1 DEF RedisInv, CommandIsOwn
    <3> QED
      BY <1>3, <3>2
  <2> QED
    BY <2>1, <2>2
<1>15. HeldIsOwned'
  <2> SUFFICES ASSUME NEW t \in Client, th[t].held, Value(t) \notin lapsed'
               PROVE  key' = Value(t)
    BY <1>5, <1>6 DEF HeldIsOwned
  <2>1. ~(p.op = "unlock" /\ p.val = Value(t))
    BY DEF RedisInv, Unlocking
  <2>2. Value(t) \notin lapsed => key = Value(t)
    BY DEF RedisInv, HeldIsOwned
  <2>3. Value(t) # Free
    BY <1>6, RedisConstants DEF Owner
  <2> QED
    BY <1>3, <2>1, <2>2, <2>3
<1> QED
  BY <1>7, <1>8, <1>9, <1>10, <1>11, <1>12, <1>13, <1>14, <1>15 DEF RedisInv

\* A command on a closed connection is lost.
LEMMA VanishStep ==
    ASSUME RedisInv, NEW p \in wire, Vanish(p)
    PROVE  RedisInv'
<1>1. wire' \subseteq wire /\ UNCHANGED <<th, next, mutex, ctx, conns, reply, key, lapsed, drops>>
  BY DEF Vanish
<1>2. \A t \in Client : Value(t)' = Value(t)
  BY <1>1 DEF Value
<1>3. (RedisTypeOK /\ Inside /\ OwnConnections)'
  BY <1>1 DEF RedisInv, RedisTypeOK, State, Inside, OwnConnections
<1>4. (OneEach /\ Quiet)'
  BY <1>1 DEF RedisInv, OneEach, Quiet
<1>5. (CommandIsOwn /\ ReplyIsOwn)'
  BY <1>1, <1>2 DEF RedisInv, CommandIsOwn, ReplyIsOwn
<1>6. (Unlocking /\ Granted /\ HeldIsOwned)'
  BY <1>1, <1>2 DEF RedisInv, Unlocking, Granted, HeldIsOwned
<1> QED
  BY <1>3, <1>4, <1>5, <1>6 DEF RedisInv

\* The key expires: the value it had has lapsed.
LEMMA ExpireStep ==
    ASSUME RedisInv, Expire
    PROVE  RedisInv'
<1>1. /\ key # Free /\ key' = Free /\ lapsed' = lapsed \cup {key}
      /\ UNCHANGED <<th, next, mutex, ctx, conns, wire, reply, drops>>
  BY DEF Expire
<1>2. \A t \in Client : Value(t)' = Value(t)
  BY <1>1 DEF Value
<1>3. (RedisTypeOK /\ Inside /\ OwnConnections)'
  BY <1>1 DEF RedisInv, RedisTypeOK, State, Inside, OwnConnections
<1>4. (OneEach /\ Quiet)'
  BY <1>1 DEF RedisInv, OneEach, Quiet
<1>5. (CommandIsOwn /\ ReplyIsOwn /\ Unlocking)'
  BY <1>1, <1>2 DEF RedisInv, CommandIsOwn, ReplyIsOwn, Unlocking
<1>6. (Granted /\ HeldIsOwned)'
  BY <1>1, <1>2 DEF RedisInv, Granted, HeldIsOwned
<1> QED
  BY <1>3, <1>4, <1>5, <1>6 DEF RedisInv

-----------------------------------------------------------------------------

\* A thread begins a command: it takes a new value to lock with, and gives up what it unlocks.
LEMMA CommandStep ==
    ASSUME RedisInv, NEW t \in Client, Command(t)
    PROVE  RedisInv'
<1>1. PICK op \in Op, n \in {th[t].n, th[t].n + 1}, held \in BOOLEAN :
        /\ Begin(t, op, n, held)
        /\ held => th[t].held /\ op # "unlock" /\ n = th[t].n
        /\ op = "lock" => n = th[t].n + 1 \/ th[t].op = "lock"
        /\ op = "renew" => th[t].held
  BY DEF Command, Op
<1>2. UNCHANGED <<mutex, ctx, conns, wire, reply, key, lapsed, drops>>
  BY DEF Command
<1>3. next % Slots \in Slot /\ next' \in Slot
  BY <1>1, RedisConstants DEF RedisInv, RedisTypeOK, State, Slot, Begin
<1>4. /\ th'[t].pc = "mutex" /\ th'[t].op = op /\ th'[t].n = n /\ th'[t].held = held
      /\ \A u \in Client : u # t => th'[u] = th[u]
  BY <1>1 DEF RedisInv, RedisTypeOK, State, Begin
<1>5. RedisTypeOK'
  <2>1. n \in Nat
    BY <1>1 DEF RedisInv, RedisTypeOK, State
  <2>2. th' \in [Client -> State]
    BY <1>1, <1>3, <2>1 DEF RedisInv, RedisTypeOK, State, Begin
  <2> QED
    BY <1>2, <1>3, <2>2 DEF RedisInv, RedisTypeOK, State
<1>6. Inside'
  BY <1>2, <1>4 DEF RedisInv, Inside, Op
<1>7. (OwnConnections /\ OneEach /\ Quiet)'
  BY <1>2 DEF RedisInv, OwnConnections, OneEach, Quiet
<1>8. \A u \in Client : u # t => Value(u)' = Value(u)
  BY <1>4 DEF Value
<1>9. (CommandIsOwn /\ ReplyIsOwn /\ Granted)'
  BY <1>2, <1>4, <1>8 DEF RedisInv, CommandIsOwn, ReplyIsOwn, Granted
<1>10. HeldIsOwned'
  <2>1. th'[t].held => th[t].held /\ Value(t)' = Value(t)
    BY <1>1, <1>4 DEF Value
  <2> QED
    BY <1>2, <1>4, <1>8, <2>1 DEF RedisInv, HeldIsOwned
<1>11. Unlocking'
  <2>1. \A u \in Client : th'[u].op = "unlock" => ~th'[u].held
    BY <1>1, <1>4 DEF RedisInv, Unlocking
  <2>2. \A u \in Client, p \in wire' : p.val[1] = u => p.val[2] <= th'[u].n
    <3> SUFFICES ASSUME NEW u \in Client, NEW p \in wire, p.val[1] = u
                 PROVE  p.val[2] <= th'[u].n
      BY <1>2
    <3>1. p.val[2] <= th[u].n /\ p.val[2] \in Nat /\ th[u].n \in Nat
      BY DEF RedisInv, RedisTypeOK, State, Unlocking, Owner
    <3> QED
      BY <1>4, <3>1
  <2>3. ASSUME NEW u \in Client, NEW p \in wire, p.op = "unlock", p.val = Value(u)'
        PROVE  ~th'[u].held /\ th'[u].op \in {"none", "unlock"}
    <3>1. CASE u # t
      BY <1>4, <1>8, <2>3, <3>1 DEF RedisInv, Unlocking
    <3>2. CASE u = t
      <4>1. p.val[1] = t /\ p.val[2] = th'[t].n
        BY <2>3, <3>2 DEF Value
      <4>2. p.val[2] <= th[t].n /\ th[t].n \in Nat
        BY <4>1 DEF RedisInv, RedisTypeOK, State, Unlocking
      <4>3. n = th[t].n
        BY <1>1, <1>4, <4>1, <4>2
      <4>4. ~th[t].held /\ th[t].op \in {"none", "unlock"}
        BY <1>4, <2>3, <3>2, <4>3 DEF RedisInv, Unlocking, Value
      <4>5. op = "unlock" /\ ~held
        BY <1>1, <4>2, <4>3, <4>4 DEF Op
      <4> QED
        BY <1>4, <3>2, <4>5
    <3> QED
      BY <3>1, <3>2
  <2> QED
    BY <1>2, <2>1, <2>2, <2>3 DEF Unlocking
<1> QED
  BY <1>5, <1>6, <1>7, <1>9, <1>10, <1>11 DEF RedisInv

\* What the caller makes of a reply, or of none: it holds the lock if it was told so, or held it
\* before, and it goes on to unlock only what it has given up.
LEMMA AfterFacts ==
    ASSUME RedisInv, NEW t \in Client, NEW res, NEW x \in After(t, res)
    PROVE  /\ x \in State
           /\ x.pc = "out" /\ x.n = th[t].n
           /\ x.held => th[t].held \/ (th[t].op = "lock" /\ res = "OK")
           /\ x.op = "unlock" => ~x.held
           /\ ~th[t].held /\ th[t].op \in {"none", "unlock"} => ~x.held /\ x.op = "none"
<1>1. th[t] \in State
  BY DEF RedisInv, RedisTypeOK, State
<1>2. 0 \in Slot /\ 0 \in Nat
  BY RedisConstants DEF Slot
<1> QED
  BY ZenonT(60), <1>1, <1>2 DEF After, Op, State

\* A command returns, and its slot is free: with a reply, and nothing is left on the connection; with
\* none, and the connection is closed or marked as failed.
LEMMA ReturnStep ==
    ASSUME RedisInv, NEW t \in Client, NEW res, Returns(t, res), NEW s \in Slot, s = th[t].slot,
           mutex[s] \in {t, Free}, wire' = wire, reply' \subseteq reply,
           UNCHANGED <<next, conns, key, lapsed>>, drops' \in Nat,
           ctx' \in [Slot -> [conn : Nat, err : BOOLEAN]],
           \A u \in Slot : u # s => ctx'[u] = ctx[u],
           ctx'[s].conn \in {0, ctx[s].conn},
           ctx'[s].conn # 0 /\ ~ctx'[s].err =>
               /\ \A p \in wire : p.conn # ctx[s].conn
               /\ \A r \in reply' : r.conn # ctx[s].conn,
           th[t].op = "lock" /\ res = "OK" /\ Value(t) \notin lapsed => key = Value(t)
    PROVE  RedisInv'
<1>1. PICK x \in After(t, res) : th' = [th EXCEPT ![t] = x]
  BY DEF Returns
<1>2. /\ x \in State
      /\ x.pc = "out" /\ x.n = th[t].n
      /\ x.held => th[t].held \/ (th[t].op = "lock" /\ res = "OK")
      /\ x.op = "unlock" => ~x.held
      /\ ~th[t].held /\ th[t].op \in {"none", "unlock"} => ~x.held /\ x.op = "none"
  BY SMTT(60), AfterFacts
<1>3. th'[t] = x /\ \A u \in Client : u # t => th'[u] = th[u]
  BY <1>1 DEF RedisInv, RedisTypeOK, State
<1>4. mutex' = [mutex EXCEPT ![s] = Free]
  BY DEF Returns
<1>5. mutex'[s] = Free /\ \A u \in Slot : u # s => mutex'[u] = mutex[u]
  BY <1>4 DEF RedisInv, RedisTypeOK, State
<1>6. \A u \in Client : Value(u)' = Value(u)
  BY <1>2, <1>3 DEF Value
<1>7. ASSUME NEW u \in Client, th'[u].pc = "sent"
      PROVE  u # t /\ th'[u] = th[u] /\ th[u].slot \in Slot /\ th[u].slot # s
  <2>1. u # t /\ th'[u] = th[u]
    BY <1>2, <1>3, <1>7
  <2>2. mutex[th[u].slot] = u /\ th[u].slot \in Slot /\ u # Free
    BY <1>7, <2>1, RedisConstants DEF RedisInv, RedisTypeOK, State, Inside
  <2> QED
    BY <2>1, <2>2
<1>8. RedisTypeOK'
  <2>1. th' \in [Client -> State]
    BY <1>1, <1>2 DEF RedisInv, RedisTypeOK, State
  <2>2. mutex' \in [Slot -> Client \cup {Free}]
    BY <1>4 DEF RedisInv, RedisTypeOK, State
  <2> QED
    BY <2>1, <2>2 DEF RedisInv, RedisTypeOK, State
<1>9. Inside'
  <2>1. \A u \in Client : th'[u].pc # "out" => th'[u].op # "none"
    BY <1>2, <1>3 DEF RedisInv, Inside
  <2>2. \A u \in Client : th'[u].pc = "sent" => mutex'[th'[u].slot] = u /\ ctx'[th'[u].slot].conn # 0
    <3> SUFFICES ASSUME NEW u \in Client, th'[u].pc = "sent"
                 PROVE  mutex'[th'[u].slot] = u /\ ctx'[th'[u].slot].conn # 0
      OBVIOUS
    <3>1. th'[u] = th[u] /\ th[u].slot \in Slot /\ th[u].slot # s
      BY <1>7
    <3>2. mutex[th[u].slot] = u /\ ctx[th[u].slot].conn # 0
      BY <3>1 DEF RedisInv, Inside
    <3> QED
      BY <1>5, <3>1, <3>2
  <2> QED
    BY <2>1, <2>2 DEF Inside
<1>10. OwnConnections'
  <2>1. \A u \in Slot : ctx'[u].conn = 0 \/ ctx'[u].conn = ctx[u].conn
    OBVIOUS
  <2>2. conns \in Nat
    BY DEF RedisInv, RedisTypeOK, State
  <2> QED
    BY SMTT(60), <2>1, <2>2 DEF RedisInv, OwnConnections
<1>11. OneEach'
  BY DEF RedisInv, OneEach
<1>12. Quiet'
  BY SMTT(60), <1>5 DEF RedisInv, Quiet
<1>13. (CommandIsOwn /\ ReplyIsOwn)'
  BY SMTT(120), <1>6, <1>7 DEF RedisInv, CommandIsOwn, ReplyIsOwn
<1>14. Unlocking'
  BY <1>2, <1>3, <1>6 DEF RedisInv, Unlocking
<1>15. Granted'
  BY SMTT(120), <1>6, <1>7 DEF RedisInv, Granted
<1>16. HeldIsOwned'
  BY <1>2, <1>3, <1>6 DEF RedisInv, HeldIsOwned
<1> QED
  BY <1>8, <1>9, <1>10, <1>11, <1>12, <1>13, <1>14, <1>15, <1>16 DEF RedisInv


-----------------------------------------------------------------------------

\* A command is sent on a connection that is new or has nothing on its way.
LEMMA SendStep ==
    ASSUME RedisInv, NEW t \in Client, th[t].pc # "out", NEW k \in Nat, Sent(t, k), NEW s \in Slot, s = th[t].slot,
           mutex[s] \in {t, Free}, mutex' = [mutex EXCEPT ![s] = t],
           UNCHANGED <<next, key, lapsed>>, drops' \in Nat, reply' \subseteq reply,
           NEW c \in Nat \ {0}, ctx' = [ctx EXCEPT ![s] = [conn |-> c, err |-> FALSE]],
           \/ c = ctx[s].conn /\ conns' = conns
           \/ c = conns + 1 /\ conns' = conns + 1,
           \A p \in wire : p.conn # c,
           \A r \in reply' : r.conn # c
    PROVE  RedisInv'
<1> DEFINE p == [conn |-> c, op |-> th[t].op, val |-> Value(t)]
<1>1. /\ th' = [th EXCEPT ![t] = [@ EXCEPT !.pc = "sent", !.tries = k]]
      /\ wire' = wire \cup {p}
  BY DEF Sent, RedisInv, RedisTypeOK, State
<1>2. /\ th'[t].pc = "sent" /\ th'[t].op = th[t].op /\ th'[t].n = th[t].n /\ th'[t].slot = s
      /\ th'[t].held = th[t].held
      /\ \A u \in Client : u # t => th'[u] = th[u]
  BY <1>1 DEF RedisInv, RedisTypeOK, State
<1>3. \A u \in Client : Value(u)' = Value(u) /\ Value(u) \in Owner /\ Value(u)[1] = u /\ Value(u)[2] = th[u].n
  BY <1>2 DEF Value, Owner, RedisInv, RedisTypeOK, State
<1>4. p \in [conn : Nat, op : Op, val : Owner]
  BY <1>3 DEF RedisInv, RedisTypeOK, State, Inside
<1>5. /\ p.conn = c /\ p.op = th[t].op /\ p.val = Value(t)
      /\ \A q \in wire' : q \in wire \/ q = p
  BY <1>1
<1> HIDE DEF p
<1>6. /\ ctx'[s].conn = c /\ ctx'[s].err = FALSE /\ mutex'[s] = t
      /\ \A u \in Slot : u # s => ctx'[u] = ctx[u] /\ mutex'[u] = mutex[u]
  BY DEF RedisInv, RedisTypeOK, State
<1>7. \A u \in Slot : u # s => ctx[u].conn # c
  BY DEF RedisInv, RedisTypeOK, State, OwnConnections
<1>8. ASSUME NEW u \in Client, u # t, th'[u].pc = "sent"
      PROVE  th'[u] = th[u] /\ th[u].slot \in Slot /\ th[u].slot # s
  <2>1. th'[u] = th[u]
    BY <1>2, <1>8
  <2>2. mutex[th[u].slot] = u /\ th[u].slot \in Slot /\ u # Free
    BY <1>8, <2>1, RedisConstants DEF RedisInv, RedisTypeOK, State, Inside
  <2> QED
    BY <1>8, <2>1, <2>2
<1>9. RedisTypeOK'
  <2>1. th' \in [Client -> State]
    <3>1. th \in [Client -> State] /\ th[t] \in State
      BY DEF RedisInv, RedisTypeOK, State
    <3>2. [th[t] EXCEPT !.pc = "sent", !.tries = k] \in State
      BY <3>1 DEF State
    <3>3. th' = [th EXCEPT ![t] = [th[t] EXCEPT !.pc = "sent", !.tries = k]]
      BY <1>1
    <3> QED
      BY <3>1, <3>2, <3>3
  <2>2. mutex' \in [Slot -> Client \cup {Free}] /\ ctx' \in [Slot -> [conn : Nat, err : BOOLEAN]]
    BY DEF RedisInv, RedisTypeOK, State
  <2>3. conns' \in Nat /\ wire' \subseteq [conn : Nat, op : Op, val : Owner]
    BY <1>1, <1>4 DEF RedisInv, RedisTypeOK, State
  <2> QED
    BY <2>1, <2>2, <2>3 DEF RedisInv, RedisTypeOK, State
<1>10. Inside'
  <2>1. \A u \in Client : th'[u].pc # "out" => th'[u].op # "none"
    BY <1>2 DEF RedisInv, Inside
  <2>2. \A u \in Client : th'[u].pc = "sent" => mutex'[th'[u].slot] = u /\ ctx'[th'[u].slot].conn # 0
    BY SMTT(120), <1>2, <1>6, <1>8 DEF RedisInv, Inside
  <2> QED
    BY <2>1, <2>2 DEF Inside
<1>11. OwnConnections'
  <2>1. conns \in Nat /\ conns' \in Nat /\ conns <= conns' /\ c <= conns'
    BY DEF RedisInv, RedisTypeOK, State, OwnConnections
  <2>2. \A u \in Slot : ctx'[u].conn <= conns'
    BY <1>6, <2>1 DEF RedisInv, RedisTypeOK, State, OwnConnections
  <2>3. \A u, v \in Slot : ctx'[u].conn = ctx'[v].conn /\ ctx'[u].conn # 0 => u = v
    BY SMTT(60), <1>6, <1>7 DEF RedisInv, OwnConnections
  <2>4. \A q \in wire' : q.conn # 0 /\ q.conn <= conns'
    BY <1>5, <2>1 DEF RedisInv, RedisTypeOK, State, OwnConnections
  <2>5. \A r \in reply' : r.conn # 0 /\ r.conn <= conns'
    BY <2>1 DEF RedisInv, RedisTypeOK, State, OwnConnections
  <2> QED
    BY <2>2, <2>3, <2>4, <2>5 DEF OwnConnections
<1>12. OneEach'
  BY <1>5 DEF RedisInv, OneEach
<1>13. Quiet'
  <2>1. t # Free
    BY RedisConstants
  <2> QED
    BY SMTT(120), <1>5, <1>6, <1>7, <2>1 DEF RedisInv, Quiet
<1>14. (CommandIsOwn /\ ReplyIsOwn)'
  <2>1. CommandIsOwn'
    BY SMTT(120), <1>2, <1>3, <1>5, <1>6, <1>7, <1>8 DEF RedisInv, CommandIsOwn
  <2>2. ReplyIsOwn'
    <3> SUFFICES ASSUME NEW u \in Client, NEW r \in reply', th'[u].pc = "sent", r.conn = ctx'[th'[u].slot].conn
                 PROVE  r.op = th'[u].op /\ r.val = Value(u)'
      BY DEF ReplyIsOwn
    <3>1. r \in reply /\ u # t
      BY <1>2, <1>6
    <3>2. th'[u] = th[u] /\ th[u].slot \in Slot /\ th[u].slot # s
      BY <1>8, <3>1
    <3>3. r.conn = ctx[th[u].slot].conn
      BY <1>6, <3>2
    <3> QED
      BY <1>3, <3>1, <3>2, <3>3 DEF RedisInv, ReplyIsOwn
  <2> QED
    BY <2>1, <2>2
<1>15. Unlocking'
  <2>1. \A u \in Client : th'[u].op = "unlock" => ~th'[u].held
    BY <1>2 DEF RedisInv, Unlocking
  <2>2. th[t].n \in Nat /\ th[t].op # "none"
    BY DEF RedisInv, RedisTypeOK, State, Inside
  <2>3. \A u \in Client, q \in wire' : q.val[1] = u => q.val[2] <= th'[u].n
    BY SMTT(120), <1>2, <1>3, <1>5, <2>2 DEF RedisInv, Unlocking
  <2>4. \A u \in Client, q \in wire' :
            q.op = "unlock" /\ q.val = Value(u) => ~th'[u].held /\ th'[u].op \in {"none", "unlock"}
    <3>1. SUFFICES ASSUME NEW u \in Client, NEW q \in wire', q.op = "unlock", q.val = Value(u)
                   PROVE  ~th'[u].held /\ th'[u].op \in {"none", "unlock"}
      OBVIOUS
    <3>2. CASE q \in wire
      <4>1. ~th[u].held /\ th[u].op \in {"none", "unlock"}
        BY <3>1, <3>2 DEF RedisInv, Unlocking
      <4> QED
        BY <1>2, <4>1
    <3>3. CASE q = p
      <4>1. u = t /\ th[t].op = "unlock"
        BY <1>3, <1>5, <3>1, <3>3
      <4> QED
        BY <1>2, <2>1, <4>1
    <3> QED
      BY <1>5, <3>2, <3>3
  <2> QED
    BY ZenonT(60), <1>3, <2>1, <2>3, <2>4 DEF Unlocking
<1>16. Granted'
  <2>1. SUFFICES ASSUME NEW u \in Client, NEW r \in reply', th'[u].pc = "sent",
                        r.conn = ctx'[th'[u].slot].conn, r.op = "lock", r.res = "OK",
                        Value(u)' \notin lapsed'
                 PROVE  key' = Value(u)'
    BY DEF Granted
  <2>2. r \in reply /\ r.conn # c
    BY <1>3
  <2>3. u # t
    BY <1>2, <1>6, <2>1, <2>2
  <2>4. th[u].pc = "sent" /\ r.conn = ctx[th[u].slot].conn /\ Value(u)' = Value(u)
    <3>1. th'[u] = th[u] /\ th[u].slot \in Slot /\ th[u].slot # s
      BY <1>8, <2>1, <2>3
    <3> QED
      BY <1>3, <1>6, <2>1, <3>1
  <2> QED
    BY ZenonT(60), <1>3, <2>1, <2>2, <2>4 DEF RedisInv, Granted
<1>17. HeldIsOwned'
  BY ZenonT(60), <1>2, <1>3 DEF RedisInv, HeldIsOwned
<1> QED
  BY <1>9, <1>10, <1>11, <1>12, <1>13, <1>14, <1>15, <1>16, <1>17 DEF RedisInv

\* A command is sent on a new connection: it carries a number no other one had.
LEMMA FreshStep ==
    ASSUME RedisInv, NEW t \in Client, th[t].pc # "out", NEW k \in Nat, Sent(t, k), Connected(th[t].slot),
           mutex[th[t].slot] \in {t, Free}, mutex' = [mutex EXCEPT ![th[t].slot] = t],
           UNCHANGED <<next, key, lapsed>>, drops' \in Nat
    PROVE  RedisInv'
<1>1. th[t].slot \in Slot /\ conns \in Nat
  BY DEF RedisInv, RedisTypeOK, State
<1>2. /\ conns' = conns + 1 /\ reply' \subseteq reply
      /\ ctx' = [ctx EXCEPT ![th[t].slot] = [conn |-> conns + 1, err |-> FALSE]]
  BY DEF Connected
<1>3. /\ \A p \in wire : p.conn # conns + 1
      /\ \A r \in reply' : r.conn # conns + 1
  BY <1>1, <1>2 DEF RedisInv, RedisTypeOK, State, OwnConnections
<1>4. conns + 1 \in Nat \ {0}
  BY <1>1
<1> QED
  BY <1>1, <1>2, <1>3, <1>4, SendStep

\* A command returns because no connection could be made.
LEMMA ClosedStep ==
    ASSUME RedisInv, NEW t \in Client, NotConnected(th[t].slot), Returns(t, Free), wire' = wire,
           mutex[th[t].slot] \in {t, Free}, UNCHANGED <<next, key, lapsed>>
    PROVE  RedisInv'
<1>1. th[t].slot \in Slot /\ drops' \in Nat
  BY DEF RedisInv, RedisTypeOK, State, NotConnected
<1>2. /\ ctx' = [ctx EXCEPT ![th[t].slot] = [conn |-> 0, err |-> FALSE]]
      /\ reply' \subseteq reply /\ UNCHANGED conns
  BY DEF NotConnected
<1>3. /\ ctx' \in [Slot -> [conn : Nat, err : BOOLEAN]]
      /\ ctx'[th[t].slot].conn = 0
      /\ \A u \in Slot : u # th[t].slot => ctx'[u] = ctx[u]
  BY <1>1, <1>2 DEF RedisInv, RedisTypeOK, State
<1>4. Free # "OK"
  BY RedisConstants
<1> QED
  BY SMTT(120), <1>1, <1>2, <1>3, <1>4, ReturnStep

-----------------------------------------------------------------------------

\* The mutex of a slot: the connection behind it is quiet, or it is replaced.
LEMMA EnterStep ==
    ASSUME RedisInv, NEW t \in Client, Enter(t)
    PROVE  RedisInv'
<1> DEFINE s == th[t].slot
<1>1. /\ s \in Slot /\ th[t].pc = "mutex" /\ mutex[s] = Free
      /\ UNCHANGED <<next, key, lapsed>>
  BY DEF Enter, RedisInv, RedisTypeOK, State
<1>2. ctx[s] \in [conn : Nat, err : BOOLEAN] /\ conns \in Nat /\ drops \in Nat
  BY <1>1 DEF RedisInv, RedisTypeOK, State
<1>3. CASE /\ ctx[s].conn # 0 /\ ~ctx[s].err
           /\ mutex' = [mutex EXCEPT ![s] = t]
           /\ UNCHANGED <<ctx, conns, reply, drops>>
           /\ Sent(t, 1)
  <2>1. ctx' = [ctx EXCEPT ![s] = [conn |-> ctx[s].conn, err |-> FALSE]]
    BY <1>1, <1>2, <1>3 DEF RedisInv, RedisTypeOK, State
  <2>2. /\ \A p \in wire : p.conn # ctx[s].conn
        /\ \A r \in reply' : r.conn # ctx[s].conn
    BY <1>1, <1>3 DEF RedisInv, Quiet
  <2>3. ctx[s].conn \in Nat \ {0}
    BY <1>2, <1>3
  <2> HIDE DEF s
  <2> QED
    BY ZenonT(60), <1>1, <1>2, <1>3, <2>1, <2>2, <2>3, SendStep DEF s
<1>4. CASE /\ Connected(s)
           /\ mutex' = [mutex EXCEPT ![s] = t]
           /\ UNCHANGED drops
           /\ Sent(t, IF ctx[s].err THEN 2 ELSE 1)
  BY <1>1, <1>2, <1>4, FreshStep
<1>5. CASE NotConnected(s) /\ Returns(t, Free) /\ UNCHANGED wire
  BY <1>1, <1>5, ClosedStep
<1> QED
  BY <1>3, <1>4, <1>5 DEF Enter

\* The reply is the only thing on the connection, and a granted lock is in place.
LEMMA GetReplyStep ==
    ASSUME RedisInv, NEW t \in Client, GetReply(t)
    PROVE  RedisInv'
<1> DEFINE s == th[t].slot
<1>1. PICK r \in reply : r.conn = ctx[s].conn /\ Returns(t, r.res) /\ reply' = reply \ {r}
  BY DEF GetReply
<1>2. /\ th[t].pc = "sent" /\ UNCHANGED <<next, ctx, conns, wire, key, lapsed, drops>>
      /\ s \in Slot /\ mutex[s] = t /\ drops' \in Nat
      /\ ctx' \in [Slot -> [conn : Nat, err : BOOLEAN]]
  BY DEF GetReply, RedisInv, RedisTypeOK, State, Inside
<1>3. /\ \A p \in wire : p.conn # ctx[s].conn
      /\ \A q \in reply' : q.conn # ctx[s].conn
  BY <1>1 DEF RedisInv, OneEach
<1>4. th[t].op = "lock" /\ r.res = "OK" /\ Value(t) \notin lapsed => key = Value(t)
  BY <1>1, <1>2 DEF RedisInv, ReplyIsOwn, Granted
<1>5. /\ reply' \subseteq reply /\ wire' = wire /\ UNCHANGED <<next, conns, key, lapsed>>
      /\ \A u \in Slot : u # s => ctx'[u] = ctx[u]
      /\ ctx'[s].conn \in {0, ctx[s].conn}
  BY <1>1, <1>2
<1> QED
  BY <1>1, <1>2, <1>3, <1>4, <1>5, ReturnStep

\* No reply: the connection is given up with whatever may still come on it.
LEMMA NoReplyStep ==
    ASSUME RedisInv, NEW t \in Client, NoReply(t)
    PROVE  RedisInv'
<1> DEFINE s == th[t].slot
<1>1. /\ th[t].pc = "sent" /\ UNCHANGED <<next, key, lapsed>>
      /\ s \in Slot /\ mutex[s] = t /\ drops \in Nat
      /\ ctx \in [Slot -> [conn : Nat, err : BOOLEAN]]
  BY DEF NoReply, RedisInv, RedisTypeOK, State, Inside
<1>2. CASE Connected(s) /\ drops' = drops + 1 /\ UNCHANGED mutex /\ Sent(t, 2)
  <2>1. mutex' = [mutex EXCEPT ![s] = t]
    BY <1>1, <1>2 DEF RedisInv, RedisTypeOK, State
  <2>2. drops' \in Nat
    BY <1>1, <1>2
  <2> QED
    BY <1>1, <1>2, <2>1, <2>2, FreshStep
<1>3. CASE NotConnected(s) /\ Returns(t, Free) /\ UNCHANGED wire
  BY <1>1, <1>3, ClosedStep
<1>4. CASE /\ ctx' = [ctx EXCEPT ![s].err = TRUE]
           /\ drops' = drops + 1
           /\ Returns(t, Free)
           /\ UNCHANGED <<conns, wire, reply>>
  <2>1. /\ ctx' \in [Slot -> [conn : Nat, err : BOOLEAN]]
        /\ ctx'[s].conn = ctx[s].conn /\ ctx'[s].err
        /\ \A u \in Slot : u # s => ctx'[u] = ctx[u]
    BY <1>1, <1>4
  <2>2. drops' \in Nat /\ Free # "OK"
    BY <1>1, <1>4, RedisConstants
  <2>3. /\ mutex[s] \in {t, Free} /\ wire' = wire /\ reply' \subseteq reply
        /\ UNCHANGED <<next, conns, key, lapsed>> /\ Returns(t, Free)
        /\ ctx'[s].conn \in {0, ctx[s].conn}
        /\ ~(ctx'[s].conn # 0 /\ ~ctx'[s].err)
    BY <1>1, <1>4, <2>1
  <2> QED
    BY SMTT(120), <1>1, <2>1, <2>2, <2>3, ReturnStep
<1> QED
  BY <1>2, <1>3, <1>4 DEF NoReply

\* The constructor and connect().
LEMMA RedisStart == RedisInit => RedisInv
<1> SUFFICES ASSUME RedisInit PROVE RedisInv
  OBVIOUS
<1>1. 0 \in Slot /\ Slots \in Nat /\ \A s \in Slot : s \in Nat /\ s + 1 <= Slots
  BY RedisConstants DEF Slot
<1>2. RedisTypeOK
  BY <1>1 DEF RedisInit, RedisTypeOK, State, Idle
<1>3. Inside /\ Quiet /\ OneEach
  BY DEF RedisInit, Idle, Inside, Quiet, OneEach
<1>4. OwnConnections
  BY <1>1 DEF RedisInit, OwnConnections
<1>5. CommandIsOwn /\ ReplyIsOwn /\ Unlocking /\ Granted /\ HeldIsOwned
  BY DEF RedisInit, Idle, CommandIsOwn, ReplyIsOwn, Unlocking, Granted, HeldIsOwned
<1> QED
  BY <1>2, <1>3, <1>4, <1>5 DEF RedisInv

\* Every step of the threads and of Redis keeps the invariant.
LEMMA RedisKeeps == RedisInv /\ [RedisNext]_redisVars => RedisInv'
<1> SUFFICES ASSUME RedisInv, [RedisNext]_redisVars PROVE RedisInv'
  OBVIOUS
<1>1. CASE UNCHANGED redisVars
  <2>1. \A t \in Client : Value(t)' = Value(t)
    BY <1>1 DEF redisVars, Value
  <2>2. (RedisTypeOK /\ Inside /\ OwnConnections /\ OneEach /\ Quiet)'
    BY <1>1 DEF redisVars, RedisInv, RedisTypeOK, State, Inside, OwnConnections, OneEach, Quiet
  <2>3. (CommandIsOwn /\ ReplyIsOwn /\ Unlocking /\ Granted /\ HeldIsOwned)'
    BY ZenonT(60), <1>1, <2>1 DEF redisVars, RedisInv, CommandIsOwn, ReplyIsOwn, Unlocking, Granted, HeldIsOwned
  <2> QED
    BY <2>2, <2>3 DEF RedisInv
<1>2. CASE \E p \in wire : Execute(p) \/ Vanish(p)
  BY <1>2, ExecuteStep, VanishStep
<1>3. CASE Expire
  BY <1>3, ExpireStep
<1>4. CASE \E t \in Client : Command(t) \/ Enter(t) \/ GetReply(t) \/ NoReply(t)
  BY <1>4, CommandStep, EnterStep, GetReplyStep, NoReplyStep
<1> QED
  BY <1>1, <1>2, <1>3, <1>4 DEF RedisNext

\* RedisClient::lock: whoever was told that it has the lock has it until it unlocks or the key
\* expires, although commands are repeated, lost, or carried out long after their thread gave up.
THEOREM LockIsExclusive == RedisSpec => []HeldIsOwned
<1>1. RedisInv => HeldIsOwned
  BY DEF RedisInv
<1> QED
  BY <1>1, RedisStart, RedisKeeps, PTL DEF RedisSpec

\* RedisClient::command: no reply reaches another command than its own.
THEOREM RepliesAreOwn == RedisSpec => []ReplyIsOwn
<1>1. RedisInv => ReplyIsOwn
  BY DEF RedisInv
<1> QED
  BY <1>1, RedisStart, RedisKeeps, PTL DEF RedisSpec

-----------------------------------------------------------------------------
(* The service registry *)

\* As long as nothing failed, what Redis knows of a process is what the process knows it registered.
Listed == faults = 0 => \A p \in Process, s \in Service : p \in alive[s] \cup member[s] => s \in regd[p]

\* The heartbeat thread lives between startHeartbeat and its join, and has a round to do only while it beats.
BeatsInside ==
    \A p \in Process : /\ hb[p] \in {"waiting", "beating"} => main[p] \in {"up", "closed"}
                       /\ hb[p] # "beating" => beat[p] = {}

\* A process that is down has nothing registered in its memory.
DownIsEmpty == \A p \in Process : main[p] = "down" => regd[p] = {}

RegistryInv == TypeOK /\ Listed /\ BeatsInside /\ DownIsEmpty

-----------------------------------------------------------------------------

\* A failed call counts.
LEMMA Faults ==
    ASSUME faults \in 0..MaxFaults, NEW kind, Fault(kind)
    PROVE  faults' \in 0..MaxFaults /\ faults' # 0
  BY RegistryAssumption DEF Fault

\* What the scripts leave in Redis: at most one endpoint more, in one service.
LEMMA RegisterTypes ==
    ASSUME TypeOK, NEW s \in Service, NEW p \in Process, registerService(s, p) \/ unregisterService(s, p)
    PROVE  /\ member' \in [Service -> SUBSET Process] /\ alive' \in [Service -> SUBSET Process]
           /\ \A t \in Service, q \in Process :
                 q \in alive'[t] \cup member'[t] => q \in alive[t] \cup member[t] \/ (t = s /\ q = p)
  BY DEF TypeOK, registerService, unregisterService

\* Looking a service up and the expiry of a key only take endpoints away.
LEMMA PruneStep ==
    ASSUME RegistryInv, NEW s \in Service, discoverServices(s) \/ \E p \in Process : ExpireKey(s, p)
    PROVE  RegistryInv'
<1>1. UNCHANGED <<main, stopping, regd, beat, hb, faults>>
  BY DEF discoverServices, ExpireKey
<1>2. /\ member' \in [Service -> SUBSET Process] /\ alive' \in [Service -> SUBSET Process]
      /\ \A t \in Service : alive'[t] \subseteq alive[t] /\ member'[t] \subseteq member[t]
  BY DEF RegistryInv, TypeOK, discoverServices, ExpireKey
<1>3. TypeOK'
  BY <1>1, <1>2 DEF RegistryInv, TypeOK
<1>4. Listed' /\ BeatsInside' /\ DownIsEmpty'
  BY <1>1, <1>2 DEF RegistryInv, Listed, BeatsInside, DownIsEmpty
<1> QED
  BY <1>3, <1>4 DEF RegistryInv

\* Steps that change neither Redis nor what is registered: where the threads of a process are.
LEMMA PlaceStep ==
    ASSUME RegistryInv, NEW p \in Process,
           Listen(p) \/ Run(p) \/ BeginBeat(p) \/ EndBeat(p) \/ Stop(p) \/ CloseServer(p) \/ JoinHeartbeat(p)
    PROVE  RegistryInv'
<1>1. UNCHANGED <<redis, regd, faults>>
  BY DEF Listen, Run, BeginBeat, EndBeat, Stop, CloseServer, JoinHeartbeat
<1>2. Listed'
  BY <1>1 DEF RegistryInv, Listed, redis
<1>3. CASE Listen(p)
  BY <1>1, <1>2, <1>3 DEF Listen, RegistryInv, TypeOK, BeatsInside, DownIsEmpty, redis
<1>4. CASE Run(p)
  BY <1>1, <1>2, <1>4 DEF Run, RegistryInv, TypeOK, BeatsInside, DownIsEmpty, redis
<1>5. CASE BeginBeat(p)
  BY <1>1, <1>2, <1>5 DEF BeginBeat, RegistryInv, TypeOK, BeatsInside, DownIsEmpty, redis
<1>6. CASE EndBeat(p)
  BY SMTT(30), <1>1, <1>2, <1>6 DEF EndBeat, RegistryInv, TypeOK, BeatsInside, DownIsEmpty, redis
<1>7. CASE Stop(p)
  BY <1>1, <1>2, <1>7 DEF Stop, RegistryInv, TypeOK, BeatsInside, DownIsEmpty, redis
<1>8. CASE CloseServer(p)
  BY <1>1, <1>2, <1>8 DEF CloseServer, RegistryInv, TypeOK, BeatsInside, DownIsEmpty, redis
<1>9. CASE JoinHeartbeat(p)
  BY <1>1, <1>2, <1>9 DEF JoinHeartbeat, Joined, RegistryInv, TypeOK, BeatsInside, DownIsEmpty, redis
<1> QED
  BY <1>3, <1>4, <1>5, <1>6, <1>7, <1>8, <1>9

\* registerServices: a service that Redis has is noted, unless the call failed.
LEMMA RegisterStep ==
    ASSUME RegistryInv, NEW p \in Process, RegisterNext(p)
    PROVE  RegistryInv'
<1>1. PICK s \in Service \ regd[p] :
        \/ NoFault /\ registerService(s, p) /\ regd' = [regd EXCEPT ![p] = @ \cup {s}] /\ UNCHANGED main
        \/ /\ Fault("redis") /\ (registerService(s, p) \/ UNCHANGED redis)
           /\ main' = [main EXCEPT ![p] = "undo"] /\ UNCHANGED regd
  BY DEF RegisterNext
<1>2. TypeOK /\ Listed /\ BeatsInside /\ DownIsEmpty /\ main[p] = "registering" /\ UNCHANGED <<stopping, beat, hb>>
  BY DEF RegistryInv, RegisterNext
<1>3. CASE NoFault /\ registerService(s, p) /\ regd' = [regd EXCEPT ![p] = @ \cup {s}] /\ UNCHANGED main
  <2>1. TypeOK'
    BY <1>2, <1>3, RegisterTypes DEF TypeOK, NoFault
  <2>2. Listed'
    BY <1>2, <1>3, RegisterTypes DEF TypeOK, Listed, NoFault
  <2>3. BeatsInside' /\ DownIsEmpty'
    BY <1>2, <1>3 DEF TypeOK, BeatsInside, DownIsEmpty
  <2> QED
    BY <2>1, <2>2, <2>3 DEF RegistryInv
<1>4. CASE /\ Fault("redis") /\ (registerService(s, p) \/ UNCHANGED redis)
           /\ main' = [main EXCEPT ![p] = "undo"] /\ UNCHANGED regd
  <2>1. faults' \in 0..MaxFaults /\ faults' # 0
    BY <1>2, <1>4, Faults DEF TypeOK
  <2>2. member' \in [Service -> SUBSET Process] /\ alive' \in [Service -> SUBSET Process]
    BY <1>2, <1>4, RegisterTypes DEF TypeOK, redis
  <2>3. TypeOK' /\ BeatsInside' /\ DownIsEmpty'
    BY <1>2, <1>4, <2>1, <2>2 DEF TypeOK, BeatsInside, DownIsEmpty
  <2> QED
    BY <2>1, <2>3 DEF RegistryInv, Listed
<1> QED
  BY <1>1, <1>3, <1>4

\* A heartbeat enters only what the process still has registered: it is joined before that shrinks.
LEMMA BeatStepKeeps ==
    ASSUME RegistryInv, NEW p \in Process, BeatNext(p)
    PROVE  RegistryInv'
<1>1. PICK s \in beat[p] :
        /\ \/ NoFault /\ heartbeat(s, p)
           \/ Fault("redis") /\ (heartbeat(s, p) \/ UNCHANGED redis)
        /\ beat' = [beat EXCEPT ![p] = @ \ {s}]
  BY DEF BeatNext
<1>2. TypeOK /\ Listed /\ BeatsInside /\ DownIsEmpty /\ hb[p] = "beating" /\ UNCHANGED <<main, stopping, regd, hb>>
  BY DEF RegistryInv, BeatNext
<1>3. s \in Service /\ s \in regd[p]
  BY <1>2 DEF TypeOK
<1>4. BeatsInside' /\ DownIsEmpty'
  BY <1>1, <1>2 DEF TypeOK, BeatsInside, DownIsEmpty
<1>5. CASE NoFault /\ heartbeat(s, p)
  <2>1. TypeOK'
    BY <1>1, <1>2, <1>3, <1>5, RegisterTypes DEF TypeOK, NoFault, heartbeat
  <2>2. Listed'
    BY <1>2, <1>3, <1>5, RegisterTypes DEF Listed, NoFault, heartbeat
  <2> QED
    BY <1>4, <2>1, <2>2 DEF RegistryInv
<1>6. CASE Fault("redis") /\ (heartbeat(s, p) \/ UNCHANGED redis)
  <2>1. faults' \in 0..MaxFaults /\ faults' # 0
    BY <1>2, <1>6, Faults DEF TypeOK
  <2>2. member' \in [Service -> SUBSET Process] /\ alive' \in [Service -> SUBSET Process]
    BY <1>2, <1>3, <1>6, RegisterTypes DEF TypeOK, redis, heartbeat
  <2>3. TypeOK'
    BY <1>1, <1>2, <2>1, <2>2 DEF TypeOK
  <2> QED
    BY <1>4, <2>1, <2>3 DEF RegistryInv, Listed
<1> QED
  BY <1>1, <1>5, <1>6

\* cleanup() and the roll-back take out of Redis what they forget, while no heartbeat is under way.
LEMMA UnregisterStep ==
    ASSUME RegistryInv, NEW p \in Process, UnregisterNext(p)
    PROVE  RegistryInv'
<1>1. PICK s \in regd[p] :
        /\ (NoFault /\ unregisterService(s, p)) \/ (Fault("redis") /\ UNCHANGED redis)
        /\ regd' = [regd EXCEPT ![p] = @ \ {s}]
  BY DEF UnregisterNext
<1>2. TypeOK /\ Listed /\ BeatsInside /\ DownIsEmpty /\ main[p] = "undo" /\ UNCHANGED <<main, stopping, beat, hb>>
  BY DEF RegistryInv, UnregisterNext
<1>3. s \in Service /\ beat[p] = {}
  BY <1>2 DEF TypeOK, BeatsInside
<1>4. BeatsInside' /\ DownIsEmpty'
  BY <1>1, <1>2 DEF TypeOK, BeatsInside, DownIsEmpty
<1>5. CASE NoFault /\ unregisterService(s, p)
  <2>1. TypeOK'
    BY <1>1, <1>2, <1>3, <1>5, RegisterTypes DEF TypeOK, NoFault
  <2>2. \A t \in Service, q \in Process : q \in alive'[t] \cup member'[t] => q \in alive[t] \cup member[t] /\ ~(t = s /\ q = p)
    BY <1>2, <1>3, <1>5 DEF TypeOK, unregisterService
  <2>3. Listed'
    BY <1>1, <1>2, <1>5, <2>2 DEF TypeOK, Listed, NoFault
  <2> QED
    BY <1>4, <2>1, <2>3 DEF RegistryInv
<1>6. CASE Fault("redis") /\ UNCHANGED redis
  <2>1. faults' \in 0..MaxFaults /\ faults' # 0
    BY <1>2, <1>6, Faults DEF TypeOK
  <2>2. TypeOK'
    BY <1>1, <1>2, <1>3, <1>6, <2>1 DEF TypeOK, redis
  <2> QED
    BY <1>4, <2>1, <2>2 DEF RegistryInv, Listed
<1> QED
  BY <1>1, <1>5, <1>6

\* A process ends, in good order or not.
LEMMA EndStep ==
    ASSUME RegistryInv, NEW p \in Process, Exit(p) \/ Crash(p)
    PROVE  RegistryInv'
<1>1. TypeOK /\ Listed /\ BeatsInside /\ DownIsEmpty /\ Ends(p)
  BY DEF RegistryInv, Exit, Crash
<1>2. faults' \in 0..MaxFaults
  BY <1>1, Faults DEF TypeOK, Exit, Crash, NoFault
<1>3. TypeOK'
  BY <1>1, <1>2 DEF TypeOK, Ends, redis
<1>4. BeatsInside' /\ DownIsEmpty'
  BY <1>1 DEF TypeOK, BeatsInside, DownIsEmpty, Ends
<1>5. Listed'
  <2>1. CASE Exit(p)
    BY <1>1, <2>1 DEF TypeOK, Listed, Exit, Ends, NoFault, redis
  <2>2. CASE Crash(p)
    BY <1>1, <2>2, Faults DEF TypeOK, Listed, Crash
  <2> QED
    BY <2>1, <2>2
<1> QED
  BY <1>3, <1>4, <1>5 DEF RegistryInv

-----------------------------------------------------------------------------

\* LeftIsForgotten: after cleanup() (or the roll-back of registerServices) in which nothing failed, no service
\* key and no service set in Redis holds the endpoint, although a heartbeat was under way when stop() came.
THEOREM LeavingIsClean == Spec => []LeftIsForgotten
<1>1. Init => RegistryInv
  BY RegistryAssumption DEF Init, RegistryInv, TypeOK, Listed, BeatsInside, DownIsEmpty
<1>2. RegistryInv /\ [Next]_vars => RegistryInv'
  <2> SUFFICES ASSUME RegistryInv, [Next]_vars PROVE RegistryInv'
    OBVIOUS
  <2>1. CASE UNCHANGED vars
    BY <2>1 DEF vars, RegistryInv, TypeOK, Listed, BeatsInside, DownIsEmpty
  <2>2. CASE Next
    BY <2>2, PruneStep, PlaceStep, RegisterStep, BeatStepKeeps, UnregisterStep, EndStep DEF Next, MainStep, BeatStep
  <2> QED
    BY <2>1, <2>2
<1>3. RegistryInv => LeftIsForgotten
  BY DEF RegistryInv, Listed, DownIsEmpty, LeftIsForgotten
<1> QED
  BY <1>1, <1>2, <1>3, PTL DEF Spec
=============================================================================
