----------------------------- MODULE DnsForward ------------------------------
(***************************************************************************)
(* DNS interception on the client (tun_device.rs) and what it shares with  *)
(* the dialling of the multiplexer connection (inbound.rs).                *)
(*                                                                         *)
(* Every UDP packet to port 53 that the TUN device reads becomes a lookup: *)
(* a hit in DNS_CACHE, or MUX_CLIENT.read(), a stream to the server, DNS   *)
(* over TCP through the TUN, DNS over UDP past it, and a save in the cache.*)
(* get_mux_client resolves the server's name while it holds the write lock *)
(* of MUX_CLIENT. The system's resolver sends that query through the TUN   *)
(* as well: its lookup waits for the lock that waits for the lookup, until *)
(* the resolver gives up.                                                  *)
(*                                                                         *)
(* Time is counted in ticks; code that runs without waiting takes none.    *)
(* MuxPool models the lock's other users. A client whose connection died   *)
(* but is still in the slot only adds an open_stream that fails. The UDP   *)
(* socket of the last fallback is taken to send past the TUN.              *)
(* The names that MuxPool has too bear the prefix Dns here: the proofs     *)
(* extend both.                                                            *)
(***************************************************************************)
EXTENDS Integers, Sequences

CONSTANTS
  Lookups,    \* tasks that forward_dns_query runs in
  Sessions,   \* TCP sessions that call get_mux_client
  Questions,  \* payload[2..] of the queries; the id before it is put back
  Server,     \* the question for the server's own name
  Ttl,        \* 60 seconds
  Timeout,    \* 2 seconds
  Patience    \* after which the system's resolver gives up

ASSUME DnsAssumption ==
  /\ Server \in Questions /\ Lookups \cap Sessions = {}
  /\ Ttl \in Nat \ {0} /\ Timeout \in Nat \ {0} /\ Patience \in Nat \ {0}

VARIABLES
  look,    \* look[l]: the task, its query and what it answered
  sess,    \* sess[s]: the session's progress through get_mux_client
  waiting, \* waiting for MUX_CLIENT, first come first served
  client,  \* "none", or a client that is "alive"
  cache    \* cache[q]: ticks since the save, and since the resolver's answer

dnsVars == <<look, sess, waiting, client, cache>>

RoundTrip == 1  \* a connection takes at least that long

\* An entry too old to be served is as good as none.
NoEntry == [saved |-> Ttl, made |-> Ttl]
Idle == [at |-> "idle", q |-> Server, dial |-> FALSE, timer |-> 0, age |-> 0]

DnsInit ==
  /\ look = [l \in Lookups |-> Idle]
  /\ sess = [s \in Sessions |-> [at |-> "idle", timer |-> 0]]
  /\ waiting = <<>>
  /\ client = "none"
  /\ cache = [q \in Questions |-> NoEntry]

Free(l) == look[l].at \in {"idle", "answered", "failed"}
Held == \E s \in Sessions : sess[s].at \in {"resolve", "connect"}
Grantable(x) == waiting # <<>> /\ Head(waiting) = x /\ ~Held

Goes(l, place, t) == look' = [look EXCEPT ![l].at = place, ![l].timer = t]

-----------------------------------------------------------------------------
(* The cache.                                                              *)

Fresh(q) == cache[q].saved < Ttl

\* A lookup ends with a response of some age. The reply to the resolver that a
\* dial waits for lets the dial go on.
Answers(l, age) ==
  /\ look' = [look EXCEPT ![l] = [@ EXCEPT !.at = "answered", !.age = age,
                                           !.dial = FALSE, !.timer = 0]]
  /\ sess' = [s \in Sessions |->
               IF look[l].dial /\ sess[s].at = "resolve"
               THEN [at |-> "connect", timer |-> RoundTrip] ELSE sess[s]]

\* A packet to port 53 spawns a lookup.
Start(q, dial) == [at |-> "start", q |-> q, dial |-> dial, timer |-> 0, age |-> 0]

\* Bound: a task serves one query per tick.
Ask(l, q) ==
  /\ look[l].at = "idle"
  /\ look' = [look EXCEPT ![l] = Start(q, FALSE)]
  /\ UNCHANGED <<sess, waiting, client, cache>>

\* Faulty variant: a hit keeps the entry young.
CacheHitRefreshes(l) ==
  /\ look[l].at = "start" /\ Fresh(look[l].q)
  /\ Answers(l, cache[look[l].q].made)
  /\ cache' = [cache EXCEPT ![look[l].q].saved = 0]
  /\ UNCHANGED <<waiting, client>>

\* The response is the stored one under the query's own id.
CacheHit(l) ==
  /\ look[l].at = "start" /\ Fresh(look[l].q)
  /\ Answers(l, cache[look[l].q].made)
  /\ UNCHANGED <<waiting, client, cache>>

\* A response from one of the three ways: saved, then returned. It is the reply
\* to this query: a stream, a connection and a socket serve one query each.
Save(l) ==
  /\ Answers(l, 0)
  /\ cache' = [cache EXCEPT ![look[l].q] = [saved |-> 0, made |-> 0]]

\* Nothing is sent back: the resolver has to give up.
Fails(l) == Goes(l, "failed", 0)

-----------------------------------------------------------------------------
(* forward_dns_query after a miss.                                         *)

\* Faulty variant: the client is asked for while a lookup may still hit.
WaitForLockFirst(l) ==
  /\ look[l].at = "start"
  /\ Held \/ ~Fresh(look[l].q)
  /\ Goes(l, "lock", 0) /\ waiting' = Append(waiting, l)
  /\ UNCHANGED <<sess, client, cache>>

WaitForLock(l) ==
  /\ look[l].at = "start" /\ ~Fresh(look[l].q)
  /\ Goes(l, "lock", 0) /\ waiting' = Append(waiting, l)
  /\ UNCHANGED <<sess, client, cache>>

\* get_active_mux_client; with a client, open_stream and the query, or an end
\* without any fallback, if DNS_SERVER is not an address.
GetActiveClient(l) ==
  /\ look[l].at = "lock" /\ Grantable(l)
  /\ waiting' = Tail(waiting)
  /\ \/ client = "alive" /\ (Goes(l, "head", 0) \/ Fails(l))
     \/ client = "none" /\ Goes(l, "tcp", Timeout)
  /\ UNCHANGED <<sess, client, cache>>

\* response_future, which has no timeout, and then at most 2 seconds for the
\* first data.
HeadArrives(l) ==
  /\ look[l].at = "head" /\ client = "alive"
  /\ Goes(l, "data", Timeout)
  /\ UNCHANGED <<sess, waiting, client, cache>>

DataArrives(l) ==
  /\ look[l].at = "data" /\ client = "alive"
  /\ Save(l)
  /\ UNCHANGED <<waiting, client>>

\* Faulty variant: the wait for data has no timeout either.
MuxFailsOnReset(l) ==
  /\ look[l].at \in {"head", "data"} /\ client = "none"
  /\ Goes(l, "tcp", Timeout)
  /\ UNCHANGED <<sess, waiting, client, cache>>

\* The stream could not be opened or written, was refused or reset, or the
\* wait for data is over.
MuxFails(l) ==
  /\ look[l].at \in {"head", "data"}
  /\ Goes(l, "tcp", Timeout)
  /\ UNCHANGED <<sess, waiting, client, cache>>

\* DNS over TCP is one more session through the TUN: it is answered over the
\* client's connection.
TcpAnswers(l) ==
  /\ look[l].at = "tcp" /\ client = "alive"
  /\ Save(l)
  /\ UNCHANGED <<waiting, client>>

TcpFails(l) ==
  /\ look[l].at = "tcp"
  /\ Goes(l, "udp", Timeout)
  /\ UNCHANGED <<sess, waiting, client, cache>>

UdpAnswers(l) ==
  /\ look[l].at = "udp"
  /\ Save(l)
  /\ UNCHANGED <<waiting, client>>

UdpFails(l) ==
  /\ look[l].at = "udp"
  /\ Fails(l)
  /\ UNCHANGED <<sess, waiting, client, cache>>

-----------------------------------------------------------------------------
(* get_mux_client.                                                         *)

SessionAt(s, place, t) == sess' = [sess EXCEPT ![s] = [at |-> place, timer |-> t]]

\* A session asks: a client at hand, or in line for the read lock.
Arrives(s) ==
  /\ sess[s].at = "idle" /\ client = "none"
  /\ SessionAt(s, "read", 0) /\ waiting' = Append(waiting, s)
  /\ UNCHANGED <<look, client, cache>>

\* Faulty variant: the write lock is asked for under the read guard.
ReadLockedNested(s) ==
  /\ sess[s].at = "read" /\ Grantable(s)
  /\ IF client = "alive"
     THEN SessionAt(s, "idle", 0) /\ waiting' = Tail(waiting)
     ELSE SessionAt(s, "write", 0) /\ waiting' = Append(waiting, s)
  /\ UNCHANGED <<look, client, cache>>

ReadLocked(s) ==
  /\ sess[s].at = "read" /\ Grantable(s)
  /\ IF client = "alive"
     THEN SessionAt(s, "idle", 0) /\ waiting' = Tail(waiting)
     ELSE SessionAt(s, "write", 0) /\ waiting' = Append(Tail(waiting), s)
  /\ UNCHANGED <<look, client, cache>>

\* Write lock, double check, lookup_host. The name is an address or known to
\* the system's own cache, or its query reaches the TUN (bound: when a task is
\* left for it).
Resolve(s) ==
  /\ sess[s].at = "write" /\ Grantable(s) /\ client = "none"
  /\ waiting' = Tail(waiting)
  /\ \/ SessionAt(s, "connect", RoundTrip) /\ UNCHANGED look
     \/ \E l \in Lookups :
          /\ Free(l) /\ look' = [look EXCEPT ![l] = Start(Server, TRUE)]
          /\ SessionAt(s, "resolve", Patience)
  /\ UNCHANGED <<client, cache>>

AlreadyThere(s) ==
  /\ sess[s].at = "write" /\ Grantable(s) /\ client = "alive"
  /\ SessionAt(s, "idle", 0) /\ waiting' = Tail(waiting)
  /\ UNCHANGED <<look, client, cache>>

\* The resolver gives up: get_mux_client returns None and drops the guard. A
\* later reply finds nobody.
GivesUp(s) ==
  /\ sess[s].at = "resolve" /\ sess[s].timer = 0
  /\ SessionAt(s, "idle", 0)
  /\ look' = [l \in Lookups |-> [look[l] EXCEPT !.dial = FALSE]]
  /\ UNCHANGED <<waiting, client, cache>>

\* TCP, TLS, preface, HTTP/2 and the challenge.
Connects(s) ==
  /\ sess[s].at = "connect" /\ sess[s].timer = 0
  /\ SessionAt(s, "idle", 0) /\ client' = "alive"
  /\ UNCHANGED <<look, waiting, cache>>

ConnectFails(s) ==
  /\ sess[s].at = "connect" /\ sess[s].timer = 0
  /\ SessionAt(s, "idle", 0)
  /\ UNCHANGED <<look, waiting, client, cache>>

\* is_closed is set and the slot cleared.
ClientDies ==
  /\ client = "alive" /\ client' = "none"
  /\ UNCHANGED <<look, sess, waiting, cache>>

-----------------------------------------------------------------------------
(* A tick passes when only the network is waited for.                      *)

Less(t) == IF t = 0 THEN 0 ELSE t - 1
More(t) == IF t = Ttl THEN Ttl ELSE t + 1

Due(x) == x.at \in {"start", "data", "tcp", "udp", "resolve", "connect"} /\ x.timer = 0
Later(x) == [x EXCEPT !.timer = Less(@), !.at = IF @ \in {"answered", "failed"} THEN "idle" ELSE @]
Tick ==
  /\ waiting = <<>> \/ Held
  /\ \A l \in Lookups : ~Due(look[l])
  /\ \A s \in Sessions : ~Due(sess[s])
  /\ look' = [l \in Lookups |-> Later(look[l])]
  /\ sess' = [s \in Sessions |-> Later(sess[s])]
  /\ cache' = [q \in Questions |-> [saved |-> More(cache[q].saved), made |-> More(cache[q].made)]]
  /\ UNCHANGED <<waiting, client>>

LookupRuns(l) ==
  \/ CacheHit(l) \/ WaitForLock(l) \/ GetActiveClient(l)
  \/ HeadArrives(l) \/ MuxFails(l) \/ TcpFails(l) \/ UdpFails(l)

Answered(l) == DataArrives(l) \/ TcpAnswers(l) \/ UdpAnswers(l)

SessionRuns(s) ==
  \/ ReadLocked(s) \/ Resolve(s) \/ AlreadyThere(s) \/ GivesUp(s)
  \/ Connects(s) \/ ConnectFails(s)

DnsNext ==
  \/ \E l \in Lookups :
       LookupRuns(l) \/ Answered(l) \/ \E q \in Questions : Ask(l, q)
  \/ \E s \in Sessions : SessionRuns(s) \/ Arrives(s)
  \/ ClientDies \/ Tick

DnsSpec == DnsInit /\ [][DnsNext]_dnsVars

\* Tasks run and time passes. What waits without a timeout ends because the
\* server answers each stream at once or the connection ends, and a step of a
\* dial because the server answers or the transport fails. No resolver has to
\* answer, except that the query for the server's name gets an answer past the
\* TUN if it is tried again and again, and so does a connection.
DnsFairSpec ==
  /\ DnsSpec /\ WF_dnsVars(Tick)
  /\ \A l \in Lookups : WF_dnsVars(LookupRuns(l)) /\ SF_dnsVars(look[l].q = Server /\ UdpAnswers(l))
  /\ \A s \in Sessions : WF_dnsVars(SessionRuns(s)) /\ SF_dnsVars(Connects(s))

-----------------------------------------------------------------------------
(* Properties.                                                             *)

\* The variables have their types; who waits for the lock is in its queue once.
DnsTypeOK ==
  /\ look \in [Lookups -> [at : {"idle", "start", "lock", "head", "data", "tcp", "udp",
                                 "answered", "failed"},
                           q : Questions, dial : BOOLEAN,
                           timer : 0 .. Timeout, age : 0 .. Ttl]]
  /\ sess \in [Sessions -> [at : {"idle", "read", "write", "resolve", "connect"},
                            timer : 0 .. Patience]]
  /\ waiting \in Seq(Lookups \cup Sessions)
  /\ \A i, j \in 1 .. Len(waiting) : waiting[i] = waiting[j] => i = j
  /\ client \in {"none", "alive"}
  /\ cache \in [Questions -> [saved : 0 .. Ttl, made : 0 .. Ttl]]

\* No response is handed out 60 seconds after the resolver gave it, however
\* often it has been asked for meanwhile.
NoStaleAnswer ==
  \A l \in Lookups : look[l].at = "answered" => look[l].age < Ttl

\* Every lookup ends, although the lock of the client and the answer to its
\* stream are waited for without a timeout: a dial that waits for a lookup ends
\* when the resolver gives up.
EveryLookupEnds ==
  \A l \in Lookups : look[l].at = "start" ~> look[l].at \in {"answered", "failed"}

\* The cache is what breaks the circle: dials whose query finds the server's
\* name in the cache get through, while they hold the lock that a lookup waits
\* for.
CachedNameReconnects ==
  []<>(\E l \in Lookups : look[l].dial /\ look[l].at = "start" /\ Fresh(Server))
    => []<>(client = "alive")
=============================================================================
