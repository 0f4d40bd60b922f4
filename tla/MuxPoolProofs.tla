--------------------------- MODULE MuxPoolProofs ---------------------------
(***************************************************************************)
(* Proofs about the two components that share MUX_CLIENT: MuxPool, for     *)
(* every set of tasks and of connections, and DnsForward, for every set of *)
(* lookups, sessions and questions.                                        *)
(*                                                                         *)
(* StreamsOnlyAfterAuth and NoLiveOverwrite are not inductive.  They rest  *)
(* on what the write guard protects from the second check to the install:  *)
(* no other task is creating (OnlyHolderCreates), no driver empties        *)
(* MUX_CLIENT, so a connection that is being set up cannot be gone         *)
(* (CreatorInv), and the dead client found by the check stays dead         *)
(* (HolderInv).  All of it holds although tasks and drivers may be dropped *)
(* with their runtime at any await.                                        *)
(*                                                                         *)
(* OrphanStays needs that a driver is in the queue only while it waits     *)
(* there, and once (ClearInv): a dropped one will not be served.           *)
(*                                                                         *)
(* NoStaleAnswer needs that an entry is as old as its answer (AgesOK), the *)
(* types of DnsForward that the queue holds exactly those who wait         *)
(* (LineOK): who joins it cannot be in it.                                 *)
(***************************************************************************)
EXTENDS MuxPool, DnsForward, SequenceTheorems, TLAPS

\* A connection in MUX_CLIENT is authenticated, and its driver has not run to
\* its end: it is still there, or was dropped.
SlotInv == slot # None => authed[slot] /\ conn[slot] \notin {"unborn", "gone"}

\* So is the one a task is about to install; before that it may still wait
\* for the answer to its challenge.
CreatorInv ==
  \A t \in Tasks :
    /\ pc[t] \in {"auth", "install"} =>
         mine[t] # None /\ conn[mine[t]] \notin {"unborn", "gone"}
    /\ pc[t] = "install" => authed[mine[t]]

\* While a task holds the write guard MUX_CLIENT has no live client.
HolderInv == holder # None => ~HasLive

IInv ==
  /\ TypeOK
  /\ OnlyHolderCreates
  /\ SlotInv
  /\ CreatorInv
  /\ StreamsOnlyAfterAuth
  /\ HolderInv

\* A driver whose request is in a queue q waits for the lock, and it is there
\* once.
Once(q, k) ==
  \A i \in 1 .. Len(q) : q[i].who \in Conns =>
    /\ k[q[i].who] = "queued"
    /\ \A j \in 1 .. Len(q) : q[j].who = q[i].who => j = i

ClearInv == Once(queue, conn)

\* v holds requests of q, the j-th of them the g[j]-th of q.
Sublist(v, q, g) ==
  /\ \A j \in 1 .. Len(v) : g[j] \in 1 .. Len(q) /\ v[j] = q[g[j]]
  /\ \A i, j \in 1 .. Len(v) : g[i] = g[j] => i = j

\* v is the queue q without its i-th request.
Without(q, i, v) ==
  /\ Len(v) = Len(q) - 1
  /\ \A j \in 1 .. Len(v) : v[j] = q[IF j < i THEN j ELSE j + 1]

-----------------------------------------------------------------------------
\* The queue of the RwLock stays a sequence of requests.
LEMMA QueueTyped ==
  ASSUME TypeOK, NEW kind, NEW who, [kind |-> kind, who |-> who] \in Request,
         Enqueue(kind, who)
  PROVE  queue' \in Seq(Request)
  BY AppendProperties DEF TypeOK, Enqueue

\* A granted request leaves the queue, and nobody held the lock.
LEMMA GrantedTyped ==
  ASSUME TypeOK, NEW kind, NEW who, Granted(kind, who)
  PROVE  queue' \in Seq(Request) /\ holder = None
  BY DEF TypeOK, Granted

\* A queue from which the i-th request was taken: what is left of it.
LEMMA TakenOut ==
  ASSUME NEW q \in Seq(Request), NEW i \in 1 .. Len(q)
  PROVE  LET v == SubSeq(q, 1, i - 1) \o SubSeq(q, i + 1, Len(q))
         IN  v \in Seq(Request) /\ Without(q, i, v)
<1> DEFINE a == SubSeq(q, 1, i - 1)
           b == SubSeq(q, i + 1, Len(q))
           v == a \o b
<1>1. Len(q) \in Nat /\ \A j \in 1 .. Len(q) : q[j] \in Request
  OBVIOUS
<1>2. /\ a \in Seq(Request) /\ Len(a) = i - 1
      /\ \A j \in 1 .. i - 1 : a[j] = q[j]
  <2>1. \A j \in 1 .. i - 1 : q[j] \in Request
    BY <1>1
  <2>2. /\ a \in Seq(Request) /\ Len(a) = IF 1 <= i - 1 THEN (i - 1) - 1 + 1 ELSE 0
        /\ \A j \in 1 .. (i - 1) - 1 + 1 : a[j] = q[1 + j - 1]
    BY <2>1, SubSeqProperties
  <2> QED BY <1>1, <2>2
<1>3. /\ b \in Seq(Request) /\ Len(b) = Len(q) - i
      /\ \A j \in 1 .. Len(q) - i : b[j] = q[j + i]
  <2>1. \A j \in i + 1 .. Len(q) : q[j] \in Request
    BY <1>1
  <2>2. /\ b \in Seq(Request)
        /\ Len(b) = IF i + 1 <= Len(q) THEN Len(q) - (i + 1) + 1 ELSE 0
        /\ \A j \in 1 .. Len(q) - (i + 1) + 1 : b[j] = q[(i + 1) + j - 1]
    BY <1>1, <2>1, SubSeqProperties
  <2>3. \A j \in 1 .. Len(q) - i : (i + 1) + j - 1 = j + i /\ j \in 1 .. Len(q) - (i + 1) + 1
    BY <1>1
  <2> QED BY <1>1, <2>2, <2>3
<1> HIDE DEF a, b
<1>4. /\ v \in Seq(Request) /\ Len(v) = Len(a) + Len(b)
      /\ \A j \in 1 .. Len(a) + Len(b) :
           v[j] = IF j <= Len(a) THEN a[j] ELSE b[j - Len(a)]
  BY <1>2, <1>3, ConcatProperties
<1> HIDE DEF v
<1>5. Len(v) = Len(q) - 1
  BY <1>1, <1>2, <1>3, <1>4
<1>6. ASSUME NEW j \in 1 .. Len(v)
      PROVE  v[j] = q[IF j < i THEN j ELSE j + 1]
  <2>1. CASE j < i
    <3>1. j \in 1 .. i - 1 /\ j <= Len(a)
      BY <1>2, <2>1
    <3> QED BY <1>2, <1>4, <2>1, <3>1, <1>5
  <2>2. CASE ~(j < i)
    <3>1. j - (i - 1) \in 1 .. Len(q) - i /\ ~(j <= Len(a)) /\ (j - (i - 1)) + i = j + 1
      BY <1>1, <1>2, <1>5, <2>2
    <3>2. v[j] = b[j - (i - 1)]
      BY <1>2, <1>4, <3>1
    <3>3. b[j - (i - 1)] = q[j + 1]
      BY <1>3, <3>1
    <3> QED BY <2>2, <3>2, <3>3
  <2> QED BY <2>1, <2>2
<1> QED BY <1>4, <1>5, <1>6 DEF v, a, b, Without

\* What a withdrawal leaves is a queue.
LEMMA WithdrawTyped ==
  ASSUME TypeOK, NEW who, Withdraws(who)
  PROVE  queue' \in Seq(Request)
<1>1. PICK i \in 1 .. Len(queue) :
        queue' = SubSeq(queue, 1, i - 1) \o SubSeq(queue, i + 1, Len(queue))
  BY DEF Withdraws
<1> QED BY <1>1, TakenOut DEF TypeOK

\* Every step keeps the types.
LEMMA TypeStep == TypeOK /\ [Next]_vars => TypeOK'
<1> SUFFICES ASSUME TypeOK, [Next]_vars
             PROVE  TypeOK'
  OBVIOUS
<1> USE DEF TypeOK, PC, Creating, ConnState, Driven, Undriven
<1>1. ASSUME NEW t \in Tasks, FastPath(t)
      PROVE  TypeOK'
  BY <1>1 DEF FastPath, TakeSlot, Goto
<1>2. ASSUME NEW t \in Tasks, AskLookup(t)
      PROVE  TypeOK'
  BY <1>2, QueueTyped DEF AskLookup, Goto, Request
<1>3. ASSUME NEW t \in Tasks, Finish(t)
      PROVE  TypeOK'
  BY <1>3 DEF Finish
<1>4. ASSUME NEW t \in Tasks, AskRead(t)
      PROVE  TypeOK'
  BY <1>4, QueueTyped DEF AskRead, Goto, Request
<1>5. ASSUME NEW t \in Tasks, CheckUnderRead(t)
      PROVE  TypeOK'
  BY <1>5, GrantedTyped DEF CheckUnderRead, TakeSlot, Goto
<1>6. ASSUME NEW t \in Tasks, AskWrite(t)
      PROVE  TypeOK'
  BY <1>6, QueueTyped DEF AskWrite, Goto, Request
<1>7. ASSUME NEW t \in Tasks, CheckUnderWrite(t)
      PROVE  TypeOK'
  BY <1>7, GrantedTyped DEF CheckUnderWrite, TakeSlot, Goto
<1>8. ASSUME NEW t \in Tasks, Install(t)
      PROVE  TypeOK'
  BY <1>8 DEF Install, Goto
<1>9. ASSUME NEW t \in Tasks, Lookup(t)
      PROVE  TypeOK'
  BY <1>9, GrantedTyped DEF Lookup, TakeSlot, Goto
<1>10. ASSUME NEW t \in Tasks, DialEnds(t)
       PROVE  TypeOK'
  <2>1. ASSUME DialFails(t) PROVE TypeOK'
    BY <2>1 DEF DialFails, Goto
  <2>2. ASSUME NEW c \in Conns, DialOk(t, c) PROVE TypeOK'
    BY <2>2 DEF DialOk
  <2> QED BY <1>10, <2>1, <2>2 DEF DialEnds
<1>11. ASSUME NEW t \in Tasks, AuthEnds(t)
       PROVE  TypeOK'
  <2>1. ASSUME AuthOk(t) PROVE TypeOK'
    BY <2>1 DEF AuthOk, Goto
  <2>2. ASSUME AuthFails(t) PROVE TypeOK'
    BY <2>2 DEF AuthFails
  <2> QED BY <1>11, <2>1, <2>2 DEF AuthEnds
<1>12. ASSUME NEW c \in Conns, ConnDies(c)
       PROVE  TypeOK'
  BY <1>12 DEF ConnDies
<1>13. ASSUME NEW c \in Conns, Driver(c)
       PROVE  TypeOK'
  <2>1. ASSUME DriverFlags(c) PROVE TypeOK'
    BY <2>1 DEF DriverFlags
  <2>2. ASSUME DriverAsks(c) PROVE TypeOK'
    BY <2>2, QueueTyped DEF DriverAsks, Request
  <2>3. ASSUME DriverClears(c) PROVE TypeOK'
    BY <2>3, GrantedTyped DEF DriverClears
  <2> QED BY <1>13, <2>1, <2>2, <2>3 DEF Driver
<1>14. ASSUME NEW t \in Tasks, WaiterDropped(t)
       PROVE  TypeOK'
  BY <1>14, WithdrawTyped DEF WaiterDropped, Goto
<1>15. ASSUME NEW c \in Conns, DriverDropped(c)
       PROVE  TypeOK'
  BY <1>15, WithdrawTyped DEF DriverDropped
<1>16. CASE UNCHANGED vars
  BY <1>16 DEF vars
<1> QED
  BY <1>1, <1>2, <1>3, <1>4, <1>5, <1>6, <1>7, <1>8, <1>9, <1>10, <1>11,
     <1>12, <1>13, <1>14, <1>15, <1>16 DEF Next, Progress

\* TypeOK: every variable of the pool keeps its type, the queue of the lock
\* and its requests included.
THEOREM TypeCorrect == Spec => []TypeOK
<1>1. Init => TypeOK
  BY DEF Init, TypeOK, PC, ConnState, Driven, Undriven
<1> QED
  BY <1>1, TypeStep, PTL DEF Spec

-----------------------------------------------------------------------------
\* Every step keeps the strengthened invariant; one step of the proof per
\* action, with one case per conjunct that the action can disturb.
LEMMA InvStep == IInv /\ [Next]_vars => IInv'
<1> SUFFICES ASSUME IInv, [Next]_vars
             PROVE  IInv'
  OBVIOUS
<1>t. TypeOK /\ TypeOK'
  BY TypeStep DEF IInv
<1> DEFINE Others == /\ OnlyHolderCreates' /\ SlotInv' /\ CreatorInv'
                     /\ StreamsOnlyAfterAuth' /\ HolderInv'
<1> SUFFICES Others
  BY <1>t DEF IInv
<1> USE DEF OnlyHolderCreates, SlotInv, CreatorInv, StreamsOnlyAfterAuth,
            HolderInv, HasLive, IsAlive, Creating, TypeOK
<1> USE NoneIsFresh
\* Steps that leave the lock alone and take nothing.
<1>1. ASSUME NEW t \in Tasks, AskLookup(t) \/ AskRead(t) \/ AskWrite(t)
      PROVE  Others
  BY <1>1, <1>t DEF IInv, AskLookup, AskRead, AskWrite, Goto
<1>2. ASSUME NEW t \in Tasks, FastPath(t)
      PROVE  Others
  BY <1>2, <1>t DEF IInv, FastPath, TakeSlot, Goto
<1>3. ASSUME NEW t \in Tasks, Finish(t)
      PROVE  Others
  BY <1>3, <1>t DEF IInv, Finish
\* Steps under the read guard: the lock was free, so nobody is creating.
<1>4. ASSUME NEW t \in Tasks, CheckUnderRead(t)
      PROVE  Others
  BY <1>4, <1>t, GrantedTyped DEF IInv, CheckUnderRead, TakeSlot, Goto
<1>5. ASSUME NEW t \in Tasks, Lookup(t)
      PROVE  Others
  BY <1>5, <1>t, GrantedTyped DEF IInv, Lookup, TakeSlot, Goto
\* Steps under the write guard.
<1>6. ASSUME NEW t \in Tasks, CheckUnderWrite(t)
      PROVE  Others
  <2>1. holder = None
    BY <1>6, GrantedTyped DEF CheckUnderWrite, IInv
  <2>2. CASE HasLive /\ TakeSlot(t) /\ UNCHANGED holder
    BY <1>6, <1>t, <2>1, <2>2 DEF IInv, CheckUnderWrite, TakeSlot
  <2>3. CASE ~HasLive /\ Goto(t, "dial") /\ holder' = t
    BY <1>6, <1>t, <2>1, <2>3 DEF IInv, CheckUnderWrite, Goto
  <2> QED BY <1>6, <2>2, <2>3 DEF CheckUnderWrite
<1>7. ASSUME NEW t \in Tasks, DialFails(t)
      PROVE  Others
  BY <1>7, <1>t DEF IInv, DialFails, Goto
<1>8. ASSUME NEW t \in Tasks, NEW c \in Conns, DialOk(t, c)
      PROVE  Others
  BY <1>8, <1>t DEF IInv, DialOk, Unused
<1>9. ASSUME NEW t \in Tasks, AuthOk(t)
      PROVE  Others
  BY <1>9, <1>t DEF IInv, AuthOk, Goto
<1>10. ASSUME NEW t \in Tasks, AuthFails(t)
       PROVE  Others
  BY <1>10, <1>t DEF IInv, AuthFails
<1>11. ASSUME NEW t \in Tasks, Install(t)
       PROVE  Others
  BY <1>11, <1>t DEF IInv, Install, Goto
\* Steps of a connection and its driver.
<1>12. ASSUME NEW c \in Conns, ConnDies(c) \/ DriverFlags(c) \/ DriverAsks(c)
       PROVE  Others
  BY <1>12, <1>t DEF IInv, ConnDies, DriverFlags, DriverAsks
<1>13. ASSUME NEW c \in Conns, DriverClears(c)
       PROVE  Others
  BY <1>13, <1>t, GrantedTyped DEF IInv, DriverClears
<1>14. ASSUME NEW t \in Tasks, WaiterDropped(t)
       PROVE  Others
  BY <1>14, <1>t DEF IInv, WaiterDropped, Goto
<1>15. ASSUME NEW c \in Conns, DriverDropped(c)
       PROVE  Others
  BY <1>15, <1>t DEF IInv, DriverDropped
<1>16. CASE UNCHANGED vars
  BY <1>16, <1>t DEF IInv, vars
<1> QED
  BY <1>1, <1>2, <1>3, <1>4, <1>5, <1>6, <1>7, <1>8, <1>9, <1>10, <1>11,
     <1>12, <1>13, <1>14, <1>15, <1>16
  DEF Next, Progress, DialEnds, AuthEnds, Driver

LEMMA Invariance == Spec => []IInv
<1>1. Init => IInv
  BY NoneIsFresh DEF Init, IInv, TypeOK, PC, ConnState, Driven, Undriven, OnlyHolderCreates,
     Creating, SlotInv, CreatorInv, StreamsOnlyAfterAuth, HolderInv
<1> QED
  BY <1>1, InvStep, PTL DEF Spec

\* OnlyHolderCreates: the write guard covers the whole of a creation.
THEOREM CreationIsExclusive == Spec => []OnlyHolderCreates
<1>1. IInv => OnlyHolderCreates
  BY DEF IInv
<1> QED
  BY <1>1, Invariance, PTL

\* StreamsOnlyAfterAuth: no task uses a connection before the server accepted
\* its challenge.
THEOREM StreamsAreAuthenticated == Spec => []StreamsOnlyAfterAuth
<1>1. IInv => StreamsOnlyAfterAuth
  BY DEF IInv
<1> QED
  BY <1>1, Invariance, PTL

\* SlotHasDriver: what is in MUX_CLIENT has its driver, unless the driver was
\* dropped with its runtime.
THEOREM NoDriverEndsBeside == Spec => []SlotHasDriver
<1>1. IInv => SlotHasDriver
  BY DEF IInv, SlotInv, SlotHasDriver, TypeOK, ConnState
<1> QED
  BY <1>1, Invariance, PTL

\* NoLiveOverwrite: the only step that puts a connection into MUX_CLIENT is
\* an install, and its task holds the write guard.
THEOREM DoubleCheckedLocking == Spec => NoLiveOverwrite
<1>1. IInv /\ [Next]_vars => [slot' # slot /\ slot' # None => ~HasLive]_vars
  <2> SUFFICES ASSUME IInv, [Next]_vars, slot' # slot, slot' # None
               PROVE  ~HasLive
    OBVIOUS
  <2>1. PICK t \in Tasks : Install(t)
    BY DEF Next, vars, Progress, DialEnds, AuthEnds, Driver, FastPath,
       AskLookup, Finish, AskRead, CheckUnderRead, AskWrite, CheckUnderWrite,
       Lookup, DialFails, DialOk, AuthOk, AuthFails, ConnDies, DriverFlags,
       DriverAsks, DriverClears, WaiterDropped, DriverDropped
  <2>2. holder = t /\ t # None
    BY <2>1, NoneIsFresh DEF IInv, OnlyHolderCreates, Install, Creating
  <2> QED
    BY <2>2 DEF IInv, HolderInv
<1> QED
  BY <1>1, Invariance, PTL DEF Spec, NoLiveOverwrite

-----------------------------------------------------------------------------
\* The queue after a step: every request in it was there before, in another
\* place, and no two have come to the same place from one.
LEMMA OnceKept ==
  ASSUME NEW q, NEW v, NEW k, NEW g, Once(q, k),
         Sublist(v, q, g)
  PROVE  Once(v, k)
<1> SUFFICES ASSUME NEW i \in 1 .. Len(v), v[i].who \in Conns
             PROVE  /\ k[v[i].who] = "queued"
                    /\ \A j \in 1 .. Len(v) : v[j].who = v[i].who => j = i
  BY DEF Once
<1>1. g[i] \in 1 .. Len(q) /\ v[i] = q[g[i]]
  BY DEF Sublist
<1>2. k[v[i].who] = "queued"
  BY <1>1 DEF Once
<1>3. ASSUME NEW j \in 1 .. Len(v), v[j].who = v[i].who
      PROVE  j = i
  <2>1. g[j] \in 1 .. Len(q) /\ v[j] = q[g[j]]
    BY DEF Sublist
  <2>2. g[j] = g[i]
    BY <1>1, <1>3, <2>1 DEF Once
  <2> QED BY <2>2 DEF Sublist
<1> QED BY <1>2, <1>3

\* A request is served, or withdrawn: the others keep their order.
LEMMA OnceLess ==
  ASSUME NEW q \in Seq(Request), NEW k, Once(q, k), NEW i \in 1 .. Len(q), NEW v,
         Without(q, i, v)
  PROVE  /\ Once(v, k)
         /\ q[i].who \in Conns => \A j \in 1 .. Len(v) : v[j].who # q[i].who
<1> DEFINE g == [j \in 1 .. Len(v) |-> IF j < i THEN j ELSE j + 1]
<1>1. /\ \A j \in 1 .. Len(v) : g[j] \in 1 .. Len(q) /\ g[j] # i /\ v[j] = q[g[j]]
      /\ \A m, n \in 1 .. Len(v) : g[m] = g[n] => m = n
  <2>1. Len(q) \in Nat
    OBVIOUS
  <2> QED BY <2>1 DEF Without
<1> HIDE DEF g
<1>2. Once(v, k)
  <2>1. Sublist(v, q, g)
    BY <1>1 DEF Sublist
  <2> QED BY <2>1, OnceKept
<1>3. ASSUME q[i].who \in Conns, NEW j \in 1 .. Len(v), v[j].who = q[i].who
      PROVE  FALSE
  <2>1. g[j] \in 1 .. Len(q) /\ g[j] # i /\ q[g[j]].who = q[i].who
    BY <1>1, <1>3
  <2> QED BY <1>3, <2>1 DEF Once
<1> QED BY <1>2, <1>3

\* A connection changes that has no request in the queue.
LEMMA OnceElse ==
  ASSUME NEW q, NEW k, Once(q, k), NEW c, NEW x,
         \A i \in 1 .. Len(q) : q[i].who \in Conns => q[i].who # c
  PROVE  Once(q, [k EXCEPT ![c] = x])
BY DEF Once

\* Every step keeps ClearInv.
LEMMA ClearStep == TypeOK /\ ClearInv /\ [Next]_vars => ClearInv'
<1> SUFFICES ASSUME TypeOK, ClearInv, [Next]_vars
             PROVE  ClearInv'
  OBVIOUS
<1>q. /\ queue \in Seq(Request) /\ Len(queue) \in Nat /\ conn \in [Conns -> ConnState]
      /\ \A i \in 1 .. Len(queue) : queue[i].who \in Tasks \cup Conns
  <2>1. queue \in Seq(Request) /\ conn \in [Conns -> ConnState]
    BY DEF TypeOK
  <2>2. \A i \in 1 .. Len(queue) : queue[i] \in Request
    BY <2>1
  <2> QED BY <2>1, <2>2 DEF Request
\* Nobody waits: the queue and the connections are as they were.
<1>1. CASE UNCHANGED <<queue, conn>>
  BY <1>1 DEF ClearInv, Once
\* A task queues up.
<1>2. ASSUME NEW t \in Tasks, NEW kind, Enqueue(kind, t), UNCHANGED conn
      PROVE  ClearInv'
  <2>1. t \notin Conns
    BY NoneIsFresh
  <2>2. /\ Len(queue') = Len(queue) + 1 /\ queue'[Len(queue) + 1].who = t
        /\ \A i \in 1 .. Len(queue) : queue'[i] = queue[i]
    BY <1>2, <1>q DEF Enqueue
  <2>3. \A i \in 1 .. Len(queue') : i \in 1 .. Len(queue) \/ i = Len(queue) + 1
    BY <1>q, <2>2
  <2> QED BY <1>2, <2>1, <2>2, <2>3 DEF ClearInv, Once
\* The head is served.
<1>3. ASSUME NEW kind, NEW who, Granted(kind, who)
      PROVE  /\ Once(queue', conn)
             /\ who \in Conns => \A j \in 1 .. Len(queue') : queue'[j].who # who
  <2>0. queue \in Seq(Request) /\ 1 \in 1 .. Len(queue)
    BY <1>3, <1>q DEF Granted
  <2>1. /\ queue[1].who = who /\ queue' = Tail(queue)
        /\ Len(queue') = Len(queue) - 1
        /\ \A j \in 1 .. Len(queue') : queue'[j] = queue[j + 1]
    BY <1>3, <1>q DEF Granted
  <2>2. \A j \in 1 .. Len(queue') : (IF j < 1 THEN j ELSE j + 1) = j + 1
    BY <1>q, <2>1
  <2>3. Without(queue, 1, queue')
    BY <2>1, <2>2 DEF Without
  <2>4. Once(queue, conn)
    BY DEF ClearInv
  <2>5. /\ Once(queue', conn)
        /\ queue[1].who \in Conns => \A j \in 1 .. Len(queue') : queue'[j].who # queue[1].who
    BY <2>0, <2>3, <2>4, OnceLess
  <2> QED BY <2>1, <2>5
\* A request is withdrawn.
<1>4. ASSUME NEW who, Withdraws(who)
      PROVE  /\ Once(queue', conn)
             /\ who \in Conns => \A j \in 1 .. Len(queue') : queue'[j].who # who
  <2>1. PICK i \in 1 .. Len(queue) :
          /\ queue[i].who = who
          /\ queue' = SubSeq(queue, 1, i - 1) \o SubSeq(queue, i + 1, Len(queue))
    BY <1>4 DEF Withdraws
  <2>2. Without(queue, i, queue')
    BY <1>q, <2>1, TakenOut
  <2>3. Once(queue, conn) /\ queue \in Seq(Request)
    BY <1>q DEF ClearInv
  <2>4. /\ Once(queue', conn)
        /\ queue[i].who \in Conns => \A j \in 1 .. Len(queue') : queue'[j].who # queue[i].who
    BY <2>2, <2>3, OnceLess
  <2> QED BY <2>1, <2>4
\* A connection that does not wait changes.
<1>5. ASSUME NEW c \in Conns, NEW x, conn[c] # "queued", UNCHANGED queue,
             conn' = [conn EXCEPT ![c] = x]
      PROVE  ClearInv'
  <2>1. \A i \in 1 .. Len(queue) : queue[i].who \in Conns => queue[i].who # c
    BY <1>5 DEF ClearInv, Once
  <2> QED BY <1>5, <2>1, OnceElse DEF ClearInv
<1>6. ASSUME NEW t \in Tasks,
             \/ FastPath(t) \/ Finish(t) \/ Install(t) \/ DialFails(t)
             \/ AuthEnds(t)
      PROVE  ClearInv'
  BY <1>6, <1>1 DEF FastPath, Finish, Install, DialFails, AuthEnds, AuthOk, AuthFails
<1>7. ASSUME NEW t \in Tasks, AskLookup(t) \/ AskRead(t) \/ AskWrite(t)
      PROVE  ClearInv'
  BY <1>7, <1>2 DEF AskLookup, AskRead, AskWrite
<1>8. ASSUME NEW t \in Tasks, CheckUnderRead(t) \/ CheckUnderWrite(t) \/ Lookup(t)
      PROVE  ClearInv'
  BY <1>8, <1>3 DEF CheckUnderRead, CheckUnderWrite, Lookup, ClearInv
<1>9. ASSUME NEW t \in Tasks, NEW c \in Conns, DialOk(t, c)
      PROVE  ClearInv'
  BY <1>9, <1>5 DEF DialOk, Unused, Undriven
<1>10. ASSUME NEW t \in Tasks, WaiterDropped(t)
       PROVE  ClearInv'
  BY <1>10, <1>4 DEF WaiterDropped, ClearInv
<1>11. ASSUME NEW c \in Conns, ConnDies(c) \/ DriverFlags(c)
       PROVE  ClearInv'
  BY <1>11, <1>5 DEF ConnDies, DriverFlags
<1>12. ASSUME NEW c \in Conns, DriverAsks(c)
       PROVE  ClearInv'
  <2>1. \A i \in 1 .. Len(queue) : queue[i].who \in Conns => queue[i].who # c
    BY <1>12 DEF DriverAsks, ClearInv, Once
  <2>2. /\ Len(queue') = Len(queue) + 1 /\ queue'[Len(queue) + 1].who = c
        /\ \A i \in 1 .. Len(queue) : queue'[i] = queue[i]
    BY <1>12, <1>q DEF DriverAsks, Enqueue
  <2>3. \A i \in 1 .. Len(queue') : i \in 1 .. Len(queue) \/ i = Len(queue) + 1
    BY <1>q, <2>2
  <2>4. conn'[c] = "queued" /\ \A d \in Conns \ {c} : conn'[d] = conn[d]
    BY <1>12, <1>q DEF DriverAsks
  <2> QED BY <2>1, <2>2, <2>3, <2>4 DEF ClearInv, Once
<1>13. ASSUME NEW c \in Conns, DriverClears(c)
       PROVE  ClearInv'
  <2>1. Once(queue', conn) /\ \A j \in 1 .. Len(queue') : queue'[j].who # c
    BY <1>13, <1>3 DEF DriverClears
  <2> QED BY <1>13, <2>1, OnceElse DEF DriverClears, ClearInv
<1>14. ASSUME NEW c \in Conns, DriverDropped(c)
       PROVE  ClearInv'
  <2>1. CASE conn[c] \in {"up", "down"} /\ conn' = [conn EXCEPT ![c] = "orphaned"]
             /\ UNCHANGED queue
    BY <2>1, <1>5
  <2>2. CASE conn' = [conn EXCEPT ![c] = "closed"] /\ Withdraws(c)
    <3>1. Once(queue', conn) /\ \A j \in 1 .. Len(queue') : queue'[j].who # c
      BY <2>2, <1>4
    <3> QED BY <2>2, <3>1, OnceElse DEF ClearInv
  <2> QED BY <1>14, <2>1, <2>2 DEF DriverDropped
<1>15. CASE UNCHANGED vars
  BY <1>15, <1>1 DEF vars
<1> QED
  BY <1>6, <1>7, <1>8, <1>9, <1>10, <1>11, <1>12, <1>13, <1>14, <1>15
  DEF Next, Progress, DialEnds, Driver

\* OrphanStays: a client whose driver was dropped before it stored is_closed is
\* replaced by no creation, since it counts as alive; only the driver of some
\* other connection can take it out of MUX_CLIENT.
THEOREM OrphansAreKept == Spec => OrphanStays
<1>1. Init => ClearInv
  BY DEF Init, ClearInv, Once
<1>2. Spec => []ClearInv
  BY <1>1, ClearStep, TypeCorrect, PTL DEF Spec
<1>3. IInv /\ ClearInv /\ [Next]_vars =>
        [slot # None /\ conn[slot] = "orphaned" /\ slot' # slot =>
           \E c \in Conns \ {slot} : DriverClears(c)]_vars
  <2> SUFFICES ASSUME IInv, ClearInv, [Next]_vars,
                      slot # None, conn[slot] = "orphaned", slot' # slot
               PROVE  \E c \in Conns \ {slot} : DriverClears(c)
    OBVIOUS
  <2>1. (\E t \in Tasks : Install(t)) \/ (\E c \in Conns : DriverClears(c))
    BY DEF Next, vars, Progress, DialEnds, AuthEnds, Driver, FastPath,
       AskLookup, Finish, AskRead, CheckUnderRead, AskWrite, CheckUnderWrite,
       Lookup, DialFails, DialOk, AuthOk, AuthFails, ConnDies, DriverFlags,
       DriverAsks, WaiterDropped, DriverDropped
  <2>2. ASSUME NEW t \in Tasks, Install(t) PROVE FALSE
    <3>1. holder = t /\ t # None
      BY <2>2, NoneIsFresh DEF IInv, OnlyHolderCreates, Install, Creating
    <3> QED BY <3>1 DEF IInv, HolderInv, HasLive, IsAlive
  <2>3. ASSUME NEW c \in Conns, DriverClears(c) PROVE c # slot
    <3>1. queue \in Seq(Request) /\ queue # <<>> /\ Head(queue).who = c
      BY <2>3 DEF IInv, TypeOK, DriverClears, Granted
    <3>2. 1 \in 1 .. Len(queue) /\ queue[1].who = c
      BY <3>1
    <3> QED BY <3>2 DEF ClearInv, Once
  <2> QED BY <2>1, <2>2, <2>3
<1> QED
  BY <1>2, <1>3, Invariance, PTL DEF Spec, OrphanStays

-----------------------------------------------------------------------------
(* DnsForward: the invariant.                                              *)

\* A lookup and a session.
LookType ==
  [at : {"idle", "start", "lock", "head", "data", "tcp", "udp", "answered", "failed"},
   q : Questions, dial : BOOLEAN, timer : 0 .. Timeout, age : 0 .. Ttl]
SessType ==
  [at : {"idle", "read", "write", "resolve", "connect"}, timer : 0 .. Patience]

\* Who is in a queue, and a queue that holds nobody twice.
InLine(w, x) == \E i \in 1 .. Len(w) : w[i] = x
Distinct(w) == \A i, j \in 1 .. Len(w) : w[i] = w[j] => i = j

\* The tasks that wait for MUX_CLIENT, and the sessions that hold it.
Waiters ==
  {l \in Lookups : look[l].at = "lock"} \cup
  {s \in Sessions : sess[s].at \in {"read", "write"}}
Holders == {s \in Sessions : sess[s].at \in {"resolve", "connect"}}

\* The queue of MUX_CLIENT holds exactly those who wait, each once.
LineOK ==
  /\ waiting \in Seq(Lookups \cup Sessions)
  /\ Distinct(waiting)
  /\ \A x \in Lookups \cup Sessions : InLine(waiting, x) <=> x \in Waiters

\* One session at a time resolves or connects.
OneHolder == \A s, t \in Holders : s = t

\* An entry is as old as its answer: a hit does not make it younger.
AgesOK ==
  /\ \A q \in Questions : cache[q].made = cache[q].saved
  /\ NoStaleAnswer

LookOK == look \in [Lookups -> LookType]
SessOK == sess \in [Sessions -> SessType]
CacheOK == cache \in [Questions -> [saved : 0 .. Ttl, made : 0 .. Ttl]]
ClientOK == client \in {"none", "alive"}

\* The inductive invariant: the types in four parts, and the three above.
DnsInv ==
  LookOK /\ SessOK /\ CacheOK /\ ClientOK /\ LineOK /\ OneHolder /\ AgesOK

LEMMA DnsTypes == DnsInv => DnsTypeOK
BY DEF DnsInv, DnsTypeOK, LookOK, SessOK, CacheOK, ClientOK, LineOK, LookType, SessType, Distinct

-----------------------------------------------------------------------------
\* Joining and leaving a queue that holds nobody twice.
LEMMA LineAppend ==
  ASSUME NEW S, NEW w \in Seq(S), Distinct(w), NEW x \in S, ~InLine(w, x)
  PROVE  /\ Append(w, x) \in Seq(S) /\ Distinct(Append(w, x))
         /\ \A y : InLine(Append(w, x), y) <=> InLine(w, y) \/ y = x
<1> DEFINE v == Append(w, x)
<1>1. /\ v \in Seq(S) /\ Len(w) \in Nat /\ Len(v) = Len(w) + 1 /\ v[Len(w) + 1] = x
      /\ \A i \in 1 .. Len(w) : v[i] = w[i]
  OBVIOUS
<1> HIDE DEF v
<1>2. Distinct(v)
  <2> SUFFICES ASSUME NEW i \in 1 .. Len(v), NEW j \in 1 .. Len(v), v[i] = v[j]
               PROVE  i = j
    BY DEF Distinct
  <2>1. (i \in 1 .. Len(w) \/ i = Len(w) + 1) /\ (j \in 1 .. Len(w) \/ j = Len(w) + 1)
    BY <1>1
  <2> QED BY <1>1, <2>1 DEF Distinct, InLine
<1>3. ASSUME NEW y
      PROVE  InLine(v, y) <=> InLine(w, y) \/ y = x
  <2>1. \A i : i \in 1 .. Len(v) <=> i \in 1 .. Len(w) \/ i = Len(w) + 1
    BY <1>1
  <2> QED BY <1>1, <2>1 DEF InLine
<1> QED BY <1>1, <1>2, <1>3 DEF v

LEMMA LineTail ==
  ASSUME NEW S, NEW w \in Seq(S), Distinct(w), w # <<>>
  PROVE  /\ Tail(w) \in Seq(S) /\ Distinct(Tail(w)) /\ Head(w) \in S
         /\ InLine(w, Head(w))
         /\ \A y : InLine(Tail(w), y) <=> InLine(w, y) /\ y # Head(w)
<1> DEFINE v == Tail(w)
<1>1. /\ v \in Seq(S) /\ Len(w) \in Nat \ {0} /\ Len(v) = Len(w) - 1
      /\ Head(w) = w[1] /\ Head(w) \in S
      /\ \A i \in 1 .. Len(v) : v[i] = w[i + 1]
  OBVIOUS
<1> HIDE DEF v
<1>2. Distinct(v)
  <2> SUFFICES ASSUME NEW i \in 1 .. Len(v), NEW j \in 1 .. Len(v), v[i] = v[j]
               PROVE  i = j
    BY DEF Distinct
  <2>1. i + 1 \in 1 .. Len(w) /\ j + 1 \in 1 .. Len(w) /\ w[i + 1] = w[j + 1]
    BY <1>1
  <2>2. i + 1 = j + 1
    BY <2>1 DEF Distinct
  <2> QED BY <2>2
<1>3. ASSUME NEW y
      PROVE  InLine(v, y) <=> InLine(w, y) /\ y # Head(w)
  <2>1. ASSUME InLine(v, y) PROVE InLine(w, y) /\ y # Head(w)
    <3>1. PICK i \in 1 .. Len(v) : v[i] = y
      BY <2>1 DEF InLine
    <3>2. i + 1 \in 1 .. Len(w) /\ w[i + 1] = y /\ 1 \in 1 .. Len(w) /\ i + 1 # 1
      BY <1>1, <3>1
    <3> QED BY <1>1, <3>2 DEF InLine, Distinct
  <2>2. ASSUME InLine(w, y), y # Head(w) PROVE InLine(v, y)
    <3>1. PICK i \in 1 .. Len(w) : w[i] = y
      BY <2>2 DEF InLine
    <3>2. i - 1 \in 1 .. Len(v) /\ w[(i - 1) + 1] = y
      BY <1>1, <2>2, <3>1
    <3>3. v[i - 1] = w[(i - 1) + 1]
      BY <1>1, <3>2
    <3> QED BY <3>2, <3>3 DEF InLine
  <2> QED BY <2>1, <2>2
<1>4. InLine(w, Head(w))
  BY <1>1 DEF InLine
<1> QED BY <1>1, <1>2, <1>3, <1>4 DEF v

LEMMA DnsInitInv == DnsInit => DnsInv
<1> SUFFICES ASSUME DnsInit PROVE DnsInv
  OBVIOUS
<1> USE DnsAssumption DEF DnsInit
<1>1. LookOK /\ SessOK /\ CacheOK /\ ClientOK
  BY DEF LookOK, SessOK, CacheOK, ClientOK, LookType, SessType, Idle, NoEntry
<1>2. Waiters = {} /\ Holders = {}
  BY DEF Waiters, Holders, Idle
<1>3. LineOK
  BY <1>2 DEF LineOK, Distinct, InLine
<1>4. OneHolder /\ AgesOK
  BY <1>2 DEF OneHolder, AgesOK, NoStaleAnswer, Idle, NoEntry
<1> QED BY <1>1, <1>3, <1>4 DEF DnsInv

-----------------------------------------------------------------------------
(* DnsForward: what the parts of an action do.                             *)

LEMMA LookPut ==
  ASSUME LookOK, NEW l \in Lookups, NEW r \in LookType, look' = [look EXCEPT ![l] = r]
  PROVE  LookOK' /\ look'[l] = r /\ \A k \in Lookups \ {l} : look'[k] = look[k]
BY DEF LookOK

LEMMA LookFields ==
  ASSUME LookOK, NEW l \in Lookups
  PROVE  /\ look[l] \in LookType
         /\ look[l].at \in {"idle", "start", "lock", "head", "data", "tcp", "udp",
                            "answered", "failed"}
         /\ look[l].q \in Questions /\ look[l].dial \in BOOLEAN
         /\ look[l].timer \in 0 .. Timeout /\ look[l].age \in 0 .. Ttl
BY DEF LookOK, LookType

LEMMA SessFields ==
  ASSUME SessOK, NEW s \in Sessions
  PROVE  /\ sess[s].at \in {"idle", "read", "write", "resolve", "connect"}
         /\ sess[s].timer \in 0 .. Patience
BY DEF SessOK, SessType

LEMMA GoesPut ==
  ASSUME LookOK, NEW l \in Lookups,
         NEW place \in {"lock", "head", "data", "tcp", "udp", "failed"},
         NEW t \in 0 .. Timeout, Goes(l, place, t)
  PROVE  /\ LookOK' /\ look'[l].at = place
         /\ \A k \in Lookups \ {l} : look'[k] = look[k]
<1> DEFINE r == [look[l] EXCEPT !.at = place, !.timer = t]
<1>1. look' = [look EXCEPT ![l] = r]
  BY DEF Goes, LookOK
<1>2. r \in LookType /\ r.at = place
  BY LookFields DEF LookType
<1> HIDE DEF r
<1> QED BY <1>1, <1>2, LookPut

LEMMA AnswersPut ==
  ASSUME LookOK, SessOK, NEW l \in Lookups, NEW age \in 0 .. Ttl, Answers(l, age)
  PROVE  /\ LookOK' /\ look'[l].at = "answered" /\ look'[l].age = age
         /\ \A k \in Lookups \ {l} : look'[k] = look[k]
         /\ SessOK'
         /\ \A s \in Sessions :
              sess'[s] = sess[s] \/ (sess[s].at = "resolve" /\ sess'[s].at = "connect")
<1> DEFINE r == [look[l] EXCEPT !.at = "answered", !.age = age, !.dial = FALSE, !.timer = 0]
<1>1. look' = [look EXCEPT ![l] = r]
  BY DEF Answers
<1>2. r \in LookType /\ r.at = "answered" /\ r.age = age
  <2>1. look[l] \in LookType /\ 0 \in 0 .. Timeout
    BY LookFields, DnsAssumption
  <2> QED BY <2>1 DEF LookType
<1> HIDE DEF r
<1>3. \A s \in Sessions :
        sess'[s] = IF look[l].dial /\ sess[s].at = "resolve"
                   THEN [at |-> "connect", timer |-> RoundTrip] ELSE sess[s]
  BY DEF Answers
<1>4. [at |-> "connect", timer |-> RoundTrip] \in SessType
  BY DnsAssumption DEF SessType, RoundTrip
<1>5. SessOK'
  BY <1>3, <1>4 DEF Answers, SessOK
<1>6. \A s \in Sessions :
        sess'[s] = sess[s] \/ (sess[s].at = "resolve" /\ sess'[s].at = "connect")
  BY <1>3
<1>7. /\ LookOK' /\ look'[l] = r
      /\ \A k \in Lookups \ {l} : look'[k] = look[k]
  BY <1>1, <1>2, LookPut
<1> QED BY <1>2, <1>5, <1>6, <1>7

LEMMA SessionAtPut ==
  ASSUME SessOK, NEW s \in Sessions,
         NEW place \in {"idle", "read", "write", "resolve", "connect"},
         NEW t \in 0 .. Patience, SessionAt(s, place, t)
  PROVE  /\ SessOK' /\ sess'[s].at = place
         /\ \A r \in Sessions \ {s} : sess'[r] = sess[r]
<1>1. [at |-> place, timer |-> t] \in SessType
  BY DEF SessType
<1> QED BY <1>1 DEF SessOK, SessionAt

\* The queue stays in order when nobody joins or leaves it.
LEMMA LineSame ==
  ASSUME LineOK, UNCHANGED waiting, Waiters' = Waiters
  PROVE  LineOK'
BY DEF LineOK

LEMMA LineJoin ==
  ASSUME LineOK, NEW x \in Lookups \cup Sessions, x \notin Waiters,
         waiting' = Append(waiting, x), Waiters' = Waiters \cup {x}
  PROVE  LineOK'
<1>1. /\ Append(waiting, x) \in Seq(Lookups \cup Sessions) /\ Distinct(Append(waiting, x))
      /\ \A y : InLine(Append(waiting, x), y) <=> InLine(waiting, y) \/ y = x
  BY LineAppend DEF LineOK
<1> QED BY <1>1 DEF LineOK

LEMMA LineLeave ==
  ASSUME LineOK, NEW x, Grantable(x), waiting' = Tail(waiting), Waiters' = Waiters \ {x}
  PROVE  LineOK'
<1>1. /\ Tail(waiting) \in Seq(Lookups \cup Sessions) /\ Distinct(Tail(waiting))
      /\ \A y : InLine(Tail(waiting), y) <=> InLine(waiting, y) /\ y # x
  BY LineTail DEF LineOK, Grantable
<1> QED BY <1>1 DEF LineOK

LEMMA LineRejoin ==
  ASSUME LineOK, NEW x \in Lookups \cup Sessions, Grantable(x),
         waiting' = Append(Tail(waiting), x), Waiters' = Waiters, x \in Waiters
  PROVE  LineOK'
<1> DEFINE w == Tail(waiting)
<1>1. /\ w \in Seq(Lookups \cup Sessions) /\ Distinct(w)
      /\ \A y : InLine(w, y) <=> InLine(waiting, y) /\ y # x
  BY LineTail DEF LineOK, Grantable
<1> HIDE DEF w
<1>2. /\ Append(w, x) \in Seq(Lookups \cup Sessions) /\ Distinct(Append(w, x))
      /\ \A y : InLine(Append(w, x), y) <=> InLine(w, y) \/ y = x
  BY <1>1, LineAppend
<1> QED BY <1>1, <1>2 DEF LineOK, w

\* A lookup that neither waited for the lock nor does so now.
LEMMA LookStep ==
  ASSUME DnsInv, NEW l \in Lookups, LookOK', SessOK', CacheOK', UNCHANGED <<waiting, client>>,
         look[l].at # "lock", look'[l].at # "lock",
         \A k \in Lookups \ {l} : look'[k] = look[k],
         \A s \in Sessions :
           sess'[s] = sess[s] \/ (sess[s].at = "resolve" /\ sess'[s].at = "connect"),
         \A q \in Questions : cache'[q].made = cache'[q].saved,
         look'[l].at = "answered" => look'[l].age < Ttl
  PROVE  DnsInv'
<1>1. Waiters' = Waiters /\ Holders' \subseteq Holders
  BY DEF Waiters, Holders
<1>2. LineOK' /\ OneHolder'
  BY <1>1, LineSame DEF DnsInv, OneHolder
<1>3. AgesOK'
  BY DEF DnsInv, AgesOK, NoStaleAnswer
<1> QED BY <1>2, <1>3 DEF DnsInv, ClientOK

\* A lookup that goes on or gives up.
LEMMA GoesStep ==
  ASSUME DnsInv, NEW l \in Lookups, look[l].at # "lock",
         NEW place \in {"head", "data", "tcp", "udp", "failed"},
         NEW t \in 0 .. Timeout, Goes(l, place, t), UNCHANGED <<sess, waiting, client, cache>>
  PROVE  DnsInv'
<1>1. /\ LookOK' /\ look'[l].at = place
      /\ \A k \in Lookups \ {l} : look'[k] = look[k]
  BY GoesPut DEF DnsInv
<1>2. SessOK' /\ CacheOK'
  BY DEF DnsInv, SessOK, CacheOK
<1>3. \A q \in Questions : cache'[q].made = cache'[q].saved
  BY DEF DnsInv, AgesOK
<1> QED BY <1>1, <1>2, <1>3, LookStep

\* An answer is saved at age 0.
LEMMA SaveStep ==
  ASSUME DnsInv, NEW l \in Lookups, look[l].at # "lock", Save(l), UNCHANGED <<waiting, client>>
  PROVE  DnsInv'
<1>0. 0 \in 0 .. Ttl /\ 0 < Ttl
  BY DnsAssumption
<1>1. /\ LookOK' /\ look'[l].at = "answered" /\ look'[l].age = 0
      /\ \A k \in Lookups \ {l} : look'[k] = look[k]
      /\ SessOK'
      /\ \A s \in Sessions :
           sess'[s] = sess[s] \/ (sess[s].at = "resolve" /\ sess'[s].at = "connect")
  BY <1>0, AnswersPut DEF DnsInv, Save
<1>2. /\ CacheOK'
      /\ \A q \in Questions : cache'[q].made = cache'[q].saved
  BY <1>0, LookFields DEF DnsInv, AgesOK, CacheOK, Save
<1> QED BY <1>0, <1>1, <1>2, LookStep

-----------------------------------------------------------------------------
(* DnsForward: the actions of a lookup.                                    *)

LEMMA DnsAsk ==
  ASSUME DnsInv, NEW l \in Lookups, NEW q \in Questions, Ask(l, q)
  PROVE  DnsInv'
<1>1. Start(q, FALSE) \in LookType /\ Start(q, FALSE).at = "start"
  BY DnsAssumption DEF Start, LookType
<1>2. /\ LookOK' /\ look'[l].at = "start"
      /\ \A k \in Lookups \ {l} : look'[k] = look[k]
  BY <1>1, LookPut DEF DnsInv, Ask
<1>3. /\ SessOK' /\ CacheOK' /\ look[l].at # "lock"
      /\ \A p \in Questions : cache'[p].made = cache'[p].saved
  BY DEF DnsInv, SessOK, CacheOK, AgesOK, Ask
<1> QED BY <1>2, <1>3, LookStep DEF Ask

LEMMA DnsCacheHit ==
  ASSUME DnsInv, NEW l \in Lookups, CacheHit(l)
  PROVE  DnsInv'
<1> DEFINE age == cache[look[l].q].made
<1>1. age \in 0 .. Ttl /\ age < Ttl
  BY LookFields DEF DnsInv, CacheOK, AgesOK, CacheHit, Fresh
<1>2. Answers(l, age)
  BY DEF CacheHit
<1> HIDE DEF age
<1>3. /\ LookOK' /\ look'[l].at = "answered" /\ look'[l].age = age
      /\ \A k \in Lookups \ {l} : look'[k] = look[k]
      /\ SessOK'
      /\ \A s \in Sessions :
           sess'[s] = sess[s] \/ (sess[s].at = "resolve" /\ sess'[s].at = "connect")
  BY <1>1, <1>2, AnswersPut DEF DnsInv
<1>4. /\ CacheOK' /\ look[l].at # "lock"
      /\ \A q \in Questions : cache'[q].made = cache'[q].saved
  BY DEF DnsInv, CacheOK, AgesOK, CacheHit
<1> QED BY <1>1, <1>3, <1>4, LookStep DEF CacheHit

LEMMA DnsWaitForLock ==
  ASSUME DnsInv, NEW l \in Lookups, WaitForLock(l)
  PROVE  DnsInv'
<1>1. /\ LookOK' /\ look'[l].at = "lock"
      /\ \A k \in Lookups \ {l} : look'[k] = look[k]
  BY GoesPut, DnsAssumption DEF DnsInv, WaitForLock
<1>2. /\ UNCHANGED <<sess, client, cache>> /\ waiting' = Append(waiting, l)
      /\ look[l].at = "start"
  BY DEF WaitForLock
<1>3. l \notin Waiters /\ Waiters' = Waiters \cup {l} /\ Holders' = Holders
  BY <1>1, <1>2, DnsAssumption DEF Waiters, Holders
<1>4. LineOK'
  BY <1>2, <1>3, LineJoin DEF DnsInv
<1>5. AgesOK'
  BY <1>1, <1>2 DEF DnsInv, AgesOK, NoStaleAnswer
<1> QED BY <1>1, <1>2, <1>3, <1>4, <1>5
        DEF DnsInv, SessOK, CacheOK, ClientOK, OneHolder

LEMMA DnsGetActiveClient ==
  ASSUME DnsInv, NEW l \in Lookups, GetActiveClient(l)
  PROVE  DnsInv'
<1>1. /\ LookOK' /\ look'[l].at \in {"head", "tcp", "failed"}
      /\ \A k \in Lookups \ {l} : look'[k] = look[k]
  <2>1. Timeout \in 0 .. Timeout /\ 0 \in 0 .. Timeout
    BY DnsAssumption
  <2>2. CASE Goes(l, "head", 0)
    BY <2>1, <2>2, GoesPut DEF DnsInv
  <2>3. CASE Goes(l, "tcp", Timeout)
    BY <2>1, <2>3, GoesPut DEF DnsInv
  <2>4. CASE Goes(l, "failed", 0)
    BY <2>1, <2>4, GoesPut DEF DnsInv
  <2> QED BY <2>2, <2>3, <2>4 DEF GetActiveClient, Fails
<1>2. /\ UNCHANGED <<sess, client, cache>> /\ waiting' = Tail(waiting)
      /\ look[l].at = "lock" /\ Grantable(l)
  BY DEF GetActiveClient
<1>3. Waiters' = Waiters \ {l} /\ Holders' = Holders
  BY <1>1, <1>2, DnsAssumption DEF Waiters, Holders
<1>4. LineOK'
  BY <1>2, <1>3, LineLeave DEF DnsInv
<1>5. AgesOK'
  BY <1>1, <1>2 DEF DnsInv, AgesOK, NoStaleAnswer
<1> QED BY <1>1, <1>2, <1>3, <1>4, <1>5
        DEF DnsInv, SessOK, CacheOK, ClientOK, OneHolder

LEMMA DnsLookup ==
  ASSUME DnsInv, NEW l \in Lookups, LookupRuns(l) \/ Answered(l)
  PROVE  DnsInv'
<1>1. Timeout \in 0 .. Timeout /\ 0 \in 0 .. Timeout
  BY DnsAssumption
<1>2. CASE CacheHit(l) \/ WaitForLock(l) \/ GetActiveClient(l)
  BY <1>2, DnsCacheHit, DnsWaitForLock, DnsGetActiveClient
<1>3. CASE HeadArrives(l)
  BY <1>1, <1>3, GoesStep DEF HeadArrives
<1>4. CASE MuxFails(l)
  BY <1>1, <1>4, GoesStep DEF MuxFails
<1>5. CASE TcpFails(l)
  BY <1>1, <1>5, GoesStep DEF TcpFails
<1>6. CASE UdpFails(l)
  BY <1>1, <1>6, GoesStep DEF UdpFails, Fails
<1>7. CASE DataArrives(l)
  BY <1>7, SaveStep DEF DataArrives
<1>8. CASE TcpAnswers(l)
  BY <1>8, SaveStep DEF TcpAnswers
<1>9. CASE UdpAnswers(l)
  BY <1>9, SaveStep DEF UdpAnswers
<1> QED BY <1>2, <1>3, <1>4, <1>5, <1>6, <1>7, <1>8, <1>9 DEF LookupRuns, Answered

-----------------------------------------------------------------------------
(* DnsForward: the actions of a session.                                   *)

\* A session that holds the lock or is at rest, before and after.
LEMMA SessionStep ==
  ASSUME DnsInv, NEW s \in Sessions,
         NEW place \in {"idle", "read", "write", "resolve", "connect"},
         NEW t \in 0 .. Patience, SessionAt(s, place, t),
         LineOK', LookOK', ClientOK',
         \A l \in Lookups : look'[l].at = "answered" =>
            look[l].at = "answered" /\ look'[l].age = look[l].age,
         UNCHANGED cache,
         place \in {"resolve", "connect"} => Holders \subseteq {s}
  PROVE  DnsInv'
<1>1. /\ SessOK' /\ sess'[s].at = place
      /\ \A r \in Sessions \ {s} : sess'[r] = sess[r]
  BY SessionAtPut DEF DnsInv
<1>2. OneHolder'
  <2>1. CASE place \in {"resolve", "connect"}
    <3>1. Holders' \subseteq {s}
      BY <1>1, <2>1 DEF Holders
    <3> QED BY <3>1 DEF OneHolder
  <2>2. CASE place \notin {"resolve", "connect"}
    <3>1. Holders' \subseteq Holders
      BY <1>1, <2>2 DEF Holders
    <3> QED BY <3>1 DEF DnsInv, OneHolder
  <2> QED BY <2>1, <2>2
<1>3. AgesOK'
  BY DEF DnsInv, AgesOK, NoStaleAnswer
<1> QED BY <1>1, <1>2, <1>3 DEF DnsInv, CacheOK

\* What a session's move does to the queue's owners.
LEMMA SessionWaiters ==
  ASSUME SessOK, NEW s \in Sessions, UNCHANGED look,
         NEW place \in {"idle", "read", "write", "resolve", "connect"},
         NEW t \in 0 .. Patience, SessionAt(s, place, t)
  PROVE  /\ place \in {"read", "write"} => Waiters' = Waiters \cup {s}
         /\ place \notin {"read", "write"} => Waiters' = Waiters \ {s}
BY SessionAtPut, DnsAssumption DEF Waiters

LEMMA DnsArrives ==
  ASSUME DnsInv, NEW s \in Sessions, Arrives(s)
  PROVE  DnsInv'
<1>1. /\ SessionAt(s, "read", 0) /\ waiting' = Append(waiting, s) /\ sess[s].at = "idle"
      /\ UNCHANGED <<look, client, cache>> /\ 0 \in 0 .. Patience
  BY DnsAssumption DEF Arrives
<1>2. s \notin Waiters
  BY <1>1, DnsAssumption DEF Waiters
<1>3. LineOK'
  BY <1>1, <1>2, LineJoin, SessionWaiters DEF DnsInv
<1> QED BY <1>1, <1>3, SessionStep DEF DnsInv, LookOK, ClientOK

LEMMA DnsReadLocked ==
  ASSUME DnsInv, NEW s \in Sessions, ReadLocked(s)
  PROVE  DnsInv'
<1>1. /\ sess[s].at = "read" /\ Grantable(s) /\ UNCHANGED <<look, client, cache>>
      /\ 0 \in 0 .. Patience
  BY DnsAssumption DEF ReadLocked
<1>2. s \in Waiters
  BY <1>1 DEF Waiters
<1>3. CASE SessionAt(s, "idle", 0) /\ waiting' = Tail(waiting)
  <2>1. LineOK'
    BY <1>1, <1>3, LineLeave, SessionWaiters DEF DnsInv
  <2> QED BY <1>1, <1>3, <2>1, SessionStep DEF DnsInv, LookOK, ClientOK
<1>4. CASE SessionAt(s, "write", 0) /\ waiting' = Append(Tail(waiting), s)
  <2>1. Waiters' = Waiters
    <3>1. SessOK
      BY DEF DnsInv
    <3>2. Waiters' = Waiters \cup {s}
      BY <1>1, <1>4, <3>1, SessionWaiters
    <3> QED BY <1>2, <3>2
  <2>2. LineOK'
    BY <1>1, <1>2, <1>4, <2>1, LineRejoin DEF DnsInv
  <2> QED BY <1>1, <1>4, <2>2, SessionStep DEF DnsInv, LookOK, ClientOK
<1> QED BY <1>3, <1>4 DEF ReadLocked

LEMMA DnsResolve ==
  ASSUME DnsInv, NEW s \in Sessions, Resolve(s)
  PROVE  DnsInv'
<1>1. /\ sess[s].at = "write" /\ Grantable(s) /\ waiting' = Tail(waiting)
      /\ UNCHANGED <<client, cache>>
  BY DEF Resolve
<1>2. Patience \in 0 .. Patience /\ RoundTrip \in 0 .. Patience
  BY DnsAssumption DEF RoundTrip
<1>3. Holders = {}
  BY <1>1 DEF Grantable, Held, Holders
<1>4. CASE SessionAt(s, "connect", RoundTrip) /\ UNCHANGED look
  <2>1. LineOK'
    BY <1>1, <1>2, <1>4, LineLeave, SessionWaiters DEF DnsInv
  <2> QED BY <1>1, <1>2, <1>3, <1>4, <2>1, SessionStep DEF DnsInv, LookOK, ClientOK
<1>5. ASSUME NEW l \in Lookups, Free(l), look' = [look EXCEPT ![l] = Start(Server, TRUE)],
             SessionAt(s, "resolve", Patience)
      PROVE  DnsInv'
  <2>1. Start(Server, TRUE) \in LookType /\ Start(Server, TRUE).at = "start"
    BY DnsAssumption DEF Start, LookType
  <2>2. /\ LookOK' /\ look'[l].at = "start"
        /\ \A k \in Lookups \ {l} : look'[k] = look[k]
    BY <1>5, <2>1, LookPut DEF DnsInv
  <2>3. /\ sess'[s].at = "resolve"
        /\ \A r \in Sessions \ {s} : sess'[r] = sess[r]
    BY <1>2, <1>5, SessionAtPut DEF DnsInv
  <2>4. Waiters' = Waiters \ {s}
    <3>1. look[l].at # "lock" /\ s \notin Lookups
      BY <1>5, DnsAssumption DEF Free
    <3>2. \A k \in Lookups : look'[k].at = "lock" <=> look[k].at = "lock"
      BY <2>2, <3>1
    <3> QED BY <2>3, <3>1, <3>2 DEF Waiters
  <2>5. LineOK'
    BY <1>1, <2>4, LineLeave DEF DnsInv
  <2>6. ClientOK' /\ UNCHANGED cache
    BY <1>1 DEF DnsInv, ClientOK
  <2>7. \A k \in Lookups : look'[k].at = "answered" =>
          look[k].at = "answered" /\ look'[k].age = look[k].age
    BY <2>2
  <2> QED BY <1>2, <1>3, <1>5, <2>2, <2>5, <2>6, <2>7, SessionStep
<1> QED BY <1>4, <1>5 DEF Resolve

LEMMA DnsAlreadyThere ==
  ASSUME DnsInv, NEW s \in Sessions, AlreadyThere(s)
  PROVE  DnsInv'
<1>1. /\ SessionAt(s, "idle", 0) /\ waiting' = Tail(waiting) /\ Grantable(s)
      /\ UNCHANGED <<look, client, cache>> /\ 0 \in 0 .. Patience
  BY DnsAssumption DEF AlreadyThere
<1>2. LineOK'
  BY <1>1, LineLeave, SessionWaiters DEF DnsInv
<1> QED BY <1>1, <1>2, SessionStep DEF DnsInv, LookOK, ClientOK

LEMMA DnsGivesUp ==
  ASSUME DnsInv, NEW s \in Sessions, GivesUp(s)
  PROVE  DnsInv'
<1>1. /\ SessionAt(s, "idle", 0) /\ sess[s].at = "resolve"
      /\ look' = [l \in Lookups |-> [look[l] EXCEPT !.dial = FALSE]]
      /\ UNCHANGED <<waiting, client, cache>> /\ 0 \in 0 .. Patience
  BY DnsAssumption DEF GivesUp
<1>2. \A l \in Lookups : /\ [look[l] EXCEPT !.dial = FALSE] \in LookType
                         /\ look'[l].at = look[l].at /\ look'[l].age = look[l].age
  <2> SUFFICES ASSUME NEW l \in Lookups
               PROVE  /\ [look[l] EXCEPT !.dial = FALSE] \in LookType
                      /\ look'[l].at = look[l].at /\ look'[l].age = look[l].age
    OBVIOUS
  <2>1. look[l] \in LookType
    BY LookFields DEF DnsInv
  <2> QED BY <1>1, <2>1 DEF LookType
<1>3. LookOK'
  BY <1>1, <1>2 DEF LookOK
<1>4. /\ sess'[s].at = "idle"
      /\ \A r \in Sessions \ {s} : sess'[r] = sess[r]
  BY <1>1, SessionAtPut DEF DnsInv
<1>5. Waiters' = Waiters
  BY <1>1, <1>2, <1>4 DEF Waiters
<1>6. LineOK'
  BY <1>1, <1>5, LineSame DEF DnsInv
<1> QED BY <1>1, <1>2, <1>3, <1>6, SessionStep DEF DnsInv, ClientOK

LEMMA DnsConnectEnds ==
  ASSUME DnsInv, NEW s \in Sessions, Connects(s) \/ ConnectFails(s)
  PROVE  DnsInv'
<1>1. /\ SessionAt(s, "idle", 0) /\ sess[s].at = "connect"
      /\ UNCHANGED <<look, waiting, cache>> /\ 0 \in 0 .. Patience
  BY DnsAssumption DEF Connects, ConnectFails
<1>2. ClientOK'
  BY DEF DnsInv, ClientOK, Connects, ConnectFails
<1>3. s \notin Waiters
  BY <1>1, DnsAssumption DEF Waiters
<1>4. Waiters' = Waiters
  BY <1>1, <1>3, SessionWaiters DEF DnsInv
<1>5. LineOK'
  BY <1>1, <1>4, LineSame DEF DnsInv
<1> QED BY <1>1, <1>2, <1>5, SessionStep DEF DnsInv, LookOK

LEMMA DnsClientDies == ASSUME DnsInv, ClientDies PROVE DnsInv'
<1>1. Waiters' = Waiters /\ Holders' = Holders
  BY DEF ClientDies, Waiters, Holders
<1> QED BY <1>1, LineSame
        DEF DnsInv, ClientDies, LookOK, SessOK, CacheOK, ClientOK, OneHolder, AgesOK,
            NoStaleAnswer

-----------------------------------------------------------------------------
(* DnsForward: a tick, and the theorems.                                   *)

LEMMA DnsTick == ASSUME DnsInv, Tick PROVE DnsInv'
<1>1. \A l \in Lookups :
        /\ Later(look[l]) \in LookType
        /\ Later(look[l]).at = "lock" <=> look[l].at = "lock"
        /\ Later(look[l]).at # "answered"
  <2> SUFFICES ASSUME NEW l \in Lookups
               PROVE  /\ Later(look[l]) \in LookType
                      /\ Later(look[l]).at = "lock" <=> look[l].at = "lock"
                      /\ Later(look[l]).at # "answered"
    OBVIOUS
  <2>1. /\ look[l] \in LookType
        /\ look[l].at \in {"idle", "start", "lock", "head", "data", "tcp", "udp",
                           "answered", "failed"}
        /\ Less(look[l].timer) \in 0 .. Timeout
    BY LookFields, DnsAssumption DEF DnsInv, Less
  <2> QED BY <2>1 DEF Later, LookType
<1>2. \A s \in Sessions :
        Later(sess[s]) \in SessType /\ Later(sess[s]).at = sess[s].at
  <2> SUFFICES ASSUME NEW s \in Sessions
               PROVE  Later(sess[s]) \in SessType /\ Later(sess[s]).at = sess[s].at
    OBVIOUS
  <2>1. /\ sess[s] \in SessType
        /\ sess[s].at \in {"idle", "read", "write", "resolve", "connect"}
        /\ Less(sess[s].timer) \in 0 .. Patience
    BY SessFields, DnsAssumption DEF DnsInv, Less, SessOK
  <2> QED BY <2>1 DEF Later, SessType
<1>3. LookOK' /\ SessOK'
  BY <1>1, <1>2 DEF Tick, LookOK, SessOK
<1>4. CacheOK' /\ \A q \in Questions : cache'[q].made = cache'[q].saved
  BY DnsAssumption DEF DnsInv, Tick, CacheOK, AgesOK, More
<1>5. Waiters' = Waiters /\ Holders' = Holders
  BY <1>1, <1>2 DEF Tick, Waiters, Holders
<1>6. LineOK'
  BY <1>5, LineSame DEF DnsInv, Tick
<1>7. NoStaleAnswer'
  BY <1>1 DEF Tick, NoStaleAnswer
<1> QED BY <1>3, <1>4, <1>5, <1>6, <1>7 DEF DnsInv, Tick, ClientOK, OneHolder, AgesOK

\* Every step keeps the invariant.
LEMMA DnsStep == DnsInv /\ [DnsNext]_dnsVars => DnsInv'
<1> SUFFICES ASSUME DnsInv, [DnsNext]_dnsVars PROVE DnsInv'
  OBVIOUS
<1>1. CASE UNCHANGED dnsVars
  <2>1. UNCHANGED <<look, sess, waiting, client, cache>>
    BY <1>1 DEF dnsVars
  <2>2. Waiters' = Waiters /\ Holders' = Holders
    BY <2>1 DEF Waiters, Holders
  <2> QED BY <2>1, <2>2, LineSame
          DEF DnsInv, LookOK, SessOK, CacheOK, ClientOK, OneHolder, AgesOK, NoStaleAnswer
<1>2. ASSUME NEW l \in Lookups,
             LookupRuns(l) \/ Answered(l) \/ \E q \in Questions : Ask(l, q)
      PROVE  DnsInv'
  BY <1>2, DnsLookup, DnsAsk
<1>3. ASSUME NEW s \in Sessions, SessionRuns(s) \/ Arrives(s)
      PROVE  DnsInv'
  BY <1>3, DnsReadLocked, DnsResolve, DnsAlreadyThere, DnsGivesUp, DnsConnectEnds, DnsArrives
     DEF SessionRuns
<1>4. CASE ClientDies \/ Tick
  BY <1>4, DnsClientDies, DnsTick
<1> QED BY <1>1, <1>2, <1>3, <1>4 DEF DnsNext

\* The invariant holds for every set of lookups, sessions and questions and
\* all durations.
THEOREM DnsInvariant == DnsSpec => []DnsInv
BY DnsInitInv, DnsStep, PTL DEF DnsSpec

\* The variables have their types, and nobody is twice in the queue.
THEOREM DnsTypeCorrect == DnsSpec => []DnsTypeOK
BY DnsInvariant, DnsTypes, PTL

\* No lookup hands out an answer as old as the Ttl (DNS_CACHE and its check in
\* forward_dns_query).
THEOREM AnswersFresh == DnsSpec => []NoStaleAnswer
<1>1. DnsInv => NoStaleAnswer
  BY DEF DnsInv, AgesOK
<1> QED BY <1>1, DnsInvariant, PTL

\* Who waits for MUX_CLIENT is in its queue exactly once, nobody else is, and at
\* most one session dials (get_mux_client resolves and connects under the write
\* lock).
THEOREM QueuedOnce == DnsSpec => [](LineOK /\ OneHolder)
<1>1. DnsInv => LineOK /\ OneHolder
  BY DEF DnsInv
<1> QED BY <1>1, DnsInvariant, PTL
=============================================================================
