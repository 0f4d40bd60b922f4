------------------------------- MODULE MuxPool -------------------------------
(***************************************************************************)
(* The client's one shared multiplexer: the global MUX_CLIENT of           *)
(* src/src/inbound.rs behind a tokio RwLock, the tasks that fetch or       *)
(* create it (get_mux_client for TUN sessions, get_active_mux_client for   *)
(* DNS lookups) and the driver task of each HTTP/2 connection, which       *)
(* empties the global when its connection ends.                            *)
(*                                                                         *)
(* tokio's RwLock is fair: requests are served in the order they queued.   *)
(* The sections run under a read guard, and the driver's section under the *)
(* write guard, contain no await, so each is one step; the creation of a   *)
(* connection awaits under the write guard and is many.                    *)
(*                                                                         *)
(* MUX_CLIENT is a static and outlives the tokio runtime, which the        *)
(* embedding APIs build at each start and drop at the end of each tunnel.  *)
(* Dropping it drops its tasks and drivers, each at the await where it is, *)
(* one after the other while others may still run, those of the next       *)
(* start's runtime among them. So each may be dropped at any time here,    *)
(* and none has to be.                                                     *)
(***************************************************************************)
EXTENDS Naturals, Sequences

CONSTANTS
  Tasks,    \* tasks that want the multiplexer, one per TUN connection or lookup
  Conns,    \* connections that can exist at the same time
  None      \* Option::None

ASSUME NoneIsFresh == None \notin Tasks \cup Conns /\ Tasks \cap Conns = {}

VARIABLES
  slot,     \* MUX_CLIENT: a connection or None
  holder,   \* the task that awaits under the write guard, or None
  queue,    \* requests waiting for the RwLock, oldest first
  pc,       \* where each task is
  mine,     \* the connection each task holds an Arc of, or None
  conn,     \* where each connection and its driver task are
  authed    \* whether the server accepted each connection's challenge

vars == <<slot, holder, queue, pc, mine, conn, authed>>

Creating == {"dial", "auth", "install"}

PC == {"idle", "slow", "waitRead", "wantWrite", "waitWrite", "waitLookup",
       "using"} \cup Creating

\* "up": the transport works; "down": it ended but the driver has not run;
\* "flagged": is_closed is set; "queued": the driver waits for the write
\* lock; "gone": it has emptied MUX_CLIENT and ended.
Driven == {"up", "down", "flagged", "queued"}

\* The driver was dropped with its runtime, and the transport with it:
\* "orphaned" before is_closed was stored, "closed" after that.
Undriven == {"orphaned", "closed"}

ConnState == {"unborn", "gone"} \cup Driven \cup Undriven

Request == [kind : {"read", "write", "lookup"}, who : Tasks]
             \cup [kind : {"clear"}, who : Conns]

TypeOK ==
  /\ slot \in Conns \cup {None}
  /\ holder \in Tasks \cup {None}
  /\ queue \in Seq(Request)
  /\ pc \in [Tasks -> PC]
  /\ mine \in [Tasks -> Conns \cup {None}]
  /\ conn \in [Conns -> ConnState]
  /\ authed \in [Conns -> BOOLEAN]

Init ==
  /\ slot = None
  /\ holder = None
  /\ queue = <<>>
  /\ pc = [t \in Tasks |-> "idle"]
  /\ mine = [t \in Tasks |-> None]
  /\ conn = [c \in Conns |-> "unborn"]
  /\ authed = [c \in Conns |-> FALSE]

-----------------------------------------------------------------------------
\* MuxClient::is_alive: the flag, which lags behind the transport, and which
\* nobody stores any more once the driver is orphaned.
IsAlive(c) == conn[c] \in {"up", "down", "orphaned"}

HasLive == slot # None /\ IsAlive(slot)

\* No writer holds the lock or has queued for it: readers get in at once.
LockFree ==
  /\ holder = None
  /\ \A i \in 1 .. Len(queue) : queue[i].kind \in {"read", "lookup"}

Enqueue(kind, who) == queue' = Append(queue, [kind |-> kind, who |-> who])

\* Faulty variant of Granted: the newest request is served first.
GrantedNewest(kind, who) ==
  /\ holder = None
  /\ queue # <<>>
  /\ queue[Len(queue)] = [kind |-> kind, who |-> who]
  /\ queue' = SubSeq(queue, 1, Len(queue) - 1)

\* The RwLock serves the request at the head of its queue.
Granted(kind, who) ==
  /\ holder = None
  /\ queue # <<>>
  /\ Head(queue) = [kind |-> kind, who |-> who]
  /\ queue' = Tail(queue)

\* A dropped future leaves the queue, wherever in it.
Withdraws(who) ==
  \E i \in 1 .. Len(queue) :
    /\ queue[i].who = who
    /\ queue' = SubSeq(queue, 1, i - 1) \o SubSeq(queue, i + 1, Len(queue))

\* The task clones the Arc in MUX_CLIENT and is done with the lock.
TakeSlot(t) ==
  /\ pc' = [pc EXCEPT ![t] = "using"]
  /\ mine' = [mine EXCEPT ![t] = slot]

Goto(t, l) ==
  /\ pc' = [pc EXCEPT ![t] = l]
  /\ UNCHANGED mine

-----------------------------------------------------------------------------
\* get_mux_client

\* 1. try_read: succeeds only when the lock is free at once.
FastPath(t) ==
  /\ pc[t] = "idle"
  /\ \/ LockFree /\ HasLive /\ TakeSlot(t)
     \/ ~(LockFree /\ HasLive) /\ Goto(t, "slow")
  /\ UNCHANGED <<slot, holder, queue, conn, authed>>

\* 2. read().await, and the check under the read guard.
AskRead(t) ==
  /\ pc[t] = "slow"
  /\ Goto(t, "waitRead")
  /\ Enqueue("read", t)
  /\ UNCHANGED <<slot, holder, conn, authed>>

CheckUnderRead(t) ==
  /\ Granted("read", t)
  /\ \/ HasLive /\ TakeSlot(t)
     \/ ~HasLive /\ Goto(t, "wantWrite")
  /\ UNCHANGED <<slot, holder, conn, authed>>

\* 3. write().await, and the second check under the write guard.
AskWrite(t) ==
  /\ pc[t] = "wantWrite"
  /\ Goto(t, "waitWrite")
  /\ Enqueue("write", t)
  /\ UNCHANGED <<slot, holder, conn, authed>>

\* Faulty variant: no second check.
DialUnchecked(t) ==
  /\ Granted("write", t)
  /\ Goto(t, "dial")
  /\ holder' = t
  /\ UNCHANGED <<slot, conn, authed>>

CheckUnderWrite(t) ==
  /\ Granted("write", t)
  /\ \/ HasLive /\ TakeSlot(t) /\ UNCHANGED holder
     \/ ~HasLive /\ Goto(t, "dial") /\ holder' = t
  /\ UNCHANGED <<slot, conn, authed>>

\* Name lookup, TCP connect (15 s), TLS, the HTTP/2 preface exchange or the
\* HTTP/2 handshake failed: None is returned and the guard is dropped.  The
\* same when the task is dropped here; so with AuthFails and Finish.
DialFails(t) ==
  /\ pc[t] = "dial"
  /\ Goto(t, "idle")
  /\ holder' = None
  /\ UNCHANGED <<slot, queue, conn, authed>>

\* A connection no task, no driver and no static refers to any more.
Unused(c) ==
  /\ conn[c] \in {"unborn", "gone"} \cup Undriven
  /\ slot # c
  /\ \A t \in Tasks : mine[t] # c

\* Faulty variant of DialOk: MUX_CLIENT is set before the authentication.
InstallEarly(t, c) ==
  /\ pc[t] = "dial"
  /\ Unused(c)
  /\ conn' = [conn EXCEPT ![c] = "up"]
  /\ authed' = [authed EXCEPT ![c] = FALSE]
  /\ pc' = [pc EXCEPT ![t] = "auth"]
  /\ mine' = [mine EXCEPT ![t] = c]
  /\ slot' = c
  /\ UNCHANGED <<holder, queue>>

\* The connection stands; its driver task is spawned.
DialOk(t, c) ==
  /\ pc[t] = "dial"
  /\ Unused(c)
  /\ conn' = [conn EXCEPT ![c] = "up"]
  /\ authed' = [authed EXCEPT ![c] = FALSE]
  /\ pc' = [pc EXCEPT ![t] = "auth"]
  /\ mine' = [mine EXCEPT ![t] = c]
  /\ UNCHANGED <<slot, holder, queue>>

\* The server's answer to the challenge verifies (it may have arrived just
\* before the connection ended) ...
AuthOk(t) ==
  /\ pc[t] = "auth"
  /\ authed' = [authed EXCEPT ![mine[t]] = TRUE]
  /\ Goto(t, "install")
  /\ UNCHANGED <<slot, holder, queue, conn>>

\* ... or it is a refusal or an HTTP/2 error: the client is dropped.
AuthFails(t) ==
  /\ pc[t] = "auth"
  /\ pc' = [pc EXCEPT ![t] = "idle"]
  /\ mine' = [mine EXCEPT ![t] = None]
  /\ holder' = None
  /\ UNCHANGED <<slot, queue, conn, authed>>

\* *write_guard = Some(client), and the guard is dropped on return.
Install(t) ==
  /\ pc[t] = "install"
  /\ slot' = mine[t]
  /\ holder' = None
  /\ Goto(t, "using")
  /\ UNCHANGED <<queue, conn, authed>>

\* The session or lookup ends and drops its Arc.
Finish(t) ==
  /\ pc[t] = "using"
  /\ pc' = [pc EXCEPT ![t] = "idle"]
  /\ mine' = [mine EXCEPT ![t] = None]
  /\ UNCHANGED <<slot, holder, queue, conn, authed>>

-----------------------------------------------------------------------------
\* get_active_mux_client: takes whatever MUX_CLIENT holds, alive or not.
AskLookup(t) ==
  /\ pc[t] = "idle"
  /\ Goto(t, "waitLookup")
  /\ Enqueue("lookup", t)
  /\ UNCHANGED <<slot, holder, conn, authed>>

Lookup(t) ==
  /\ Granted("lookup", t)
  /\ \/ slot # None /\ TakeSlot(t)
     \/ slot = None /\ Goto(t, "idle")
  /\ UNCHANGED <<slot, holder, conn, authed>>

-----------------------------------------------------------------------------
\* The connection and its driver task

\* The transport fails, or the server closes the connection.
ConnDies(c) ==
  /\ conn[c] = "up"
  /\ conn' = [conn EXCEPT ![c] = "down"]
  /\ UNCHANGED <<slot, holder, queue, pc, mine, authed>>

\* The last handle is dropped: h2 winds the connection up by itself.
Abandoned(c) ==
  /\ slot # c
  /\ \A t \in Tasks : mine[t] # c
  /\ ConnDies(c)

\* Faulty variant of DriverFlags: the driver only stores the flag.
FlagOnly(c) ==
  /\ conn[c] = "down"
  /\ conn' = [conn EXCEPT ![c] = "gone"]
  /\ UNCHANGED <<slot, holder, queue, pc, mine, authed>>

\* connection.await returned: is_closed is stored ...
DriverFlags(c) ==
  /\ conn[c] = "down"
  /\ conn' = [conn EXCEPT ![c] = "flagged"]
  /\ UNCHANGED <<slot, holder, queue, pc, mine, authed>>

\* ... the write lock is requested ...
DriverAsks(c) ==
  /\ conn[c] = "flagged"
  /\ conn' = [conn EXCEPT ![c] = "queued"]
  /\ Enqueue("clear", c)
  /\ UNCHANGED <<slot, holder, pc, mine, authed>>

\* ... and MUX_CLIENT is set to None, whatever it holds by then.
DriverClears(c) ==
  /\ Granted("clear", c)
  /\ slot' = None
  /\ conn' = [conn EXCEPT ![c] = "gone"]
  /\ UNCHANGED <<holder, pc, mine, authed>>

-----------------------------------------------------------------------------
\* The runtime is dropped

\* A task that waits for the lock is dropped: its request is withdrawn.
WaiterDropped(t) ==
  /\ pc[t] \in {"waitRead", "waitWrite", "waitLookup"}
  /\ Withdraws(t)
  /\ Goto(t, "idle")
  /\ UNCHANGED <<slot, holder, conn, authed>>

\* A driver is dropped, at connection.await or at write().await.  MUX_CLIENT
\* keeps what it holds.
DriverDropped(c) ==
  /\ \/ /\ conn[c] \in {"up", "down"}
        /\ conn' = [conn EXCEPT ![c] = "orphaned"]
        /\ UNCHANGED queue
     \/ /\ conn[c] = "queued"
        /\ conn' = [conn EXCEPT ![c] = "closed"]
        /\ Withdraws(c)
  /\ UNCHANGED <<slot, holder, pc, mine, authed>>

-----------------------------------------------------------------------------
\* What a task does while the runtime polls it, the peer's answers apart.
Progress(t) ==
  \/ AskRead(t) \/ CheckUnderRead(t)
  \/ AskWrite(t) \/ CheckUnderWrite(t)
  \/ Install(t)
  \/ Lookup(t)

\* How a dial or an authentication ends: by the server or the network.
DialEnds(t) == DialFails(t) \/ (\E c \in Conns : DialOk(t, c))
AuthEnds(t) == AuthOk(t) \/ AuthFails(t)

Driver(c) == DriverFlags(c) \/ DriverAsks(c) \/ DriverClears(c)

Next ==
  \/ \E t \in Tasks : \/ FastPath(t) \/ AskLookup(t) \/ Finish(t)
                      \/ Progress(t) \/ DialEnds(t) \/ AuthEnds(t)
                      \/ WaiterDropped(t)
  \/ \E c \in Conns : ConnDies(c) \/ Driver(c) \/ DriverDropped(c)

Spec == Init /\ [][Next]_vars

\* The runtime polls every task that can step for as long as it has not
\* dropped it, and h2 winds up a connection nobody holds.
RuntimeFairness ==
  /\ \A t \in Tasks : WF_vars(Progress(t))
  /\ \A c \in Conns : WF_vars(Driver(c)) /\ WF_vars(Abandoned(c))

\* An assumption on the other side, not on this code: only the TCP connect
\* has a timeout, the name lookup, TLS, the preface exchange and the wait for
\* the answer to the challenge have none.
PeerAnswers == \A t \in Tasks : WF_vars(DialEnds(t)) /\ WF_vars(AuthEnds(t))

FairSpec == Spec /\ RuntimeFairness /\ PeerAnswers

-----------------------------------------------------------------------------
\* At most one task at a time is past the second check and not yet done with
\* it: the write guard of get_mux_client covers dial, authentication and
\* install, on the success path and on every early return.
OnlyHolderCreates == \A t \in Tasks : pc[t] \in Creating <=> holder = t

\* No task opens a stream on a connection whose challenge the server has not
\* accepted, although the connection exists, and its driver runs, from before
\* the challenge is sent, and although lookups take what MUX_CLIENT holds
\* without any check.
StreamsOnlyAfterAuth ==
  \A t \in Tasks : pc[t] = "using" => mine[t] # None /\ authed[mine[t]]

\* Double-checked locking: a task that saw no live client under the read
\* guard does not replace the one another task installed meanwhile.
NoLiveOverwrite == [][slot' # slot /\ slot' # None => ~HasLive]_vars

\* What is in MUX_CLIENT still has the driver that will empty it, also when
\* it died while its creator held the write guard, or it lost the driver with
\* its runtime: no driver has run to its end beside it.
SlotHasDriver == slot # None => conn[slot] \in Driven \cup Undriven

\* A dead connection leaves MUX_CLIENT for as long as its driver's runtime is
\* not dropped: the driver or a replacement takes it out.  Nothing is claimed
\* of one whose driver is dropped.
DrivenDeadLeaves ==
  \A c \in Conns :
    slot = c /\ conn[c] \in Driven \ {"up"} ~> slot # c \/ conn[c] \in Undriven

\* No creation replaces a client that lost its driver before is_closed was
\* stored, although it is dead: it counts as alive, and from the next start on
\* every session gets it, unless the driver of another connection happens to
\* empty MUX_CLIENT.
OrphanStays ==
  [][slot # None /\ conn[slot] = "orphaned" /\ slot' # slot =>
       \E c \in Conns \ {slot} : DriverClears(c)]_vars

\* Every call of get_mux_client and get_active_mux_client returns, with a
\* client or without, or is dropped with its runtime: no reader, writer or
\* driver waits for ever for another.
EveryCallReturns == \A t \in Tasks : pc[t] # "idle" ~> pc[t] \in {"idle", "using"}

\* "One TLS connection for all streams": the connections that streams use
\* are not two at a time while both their transports work.
OneConnection ==
  \A s, t \in Tasks :
    /\ pc[s] = "using" /\ conn[mine[s]] = "up"
    /\ pc[t] = "using" /\ conn[mine[t]] = "up"
    => mine[s] = mine[t]
=============================================================================
