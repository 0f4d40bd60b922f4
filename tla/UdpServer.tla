------------------------------ MODULE UdpServer ------------------------------
(***************************************************************************)
(* The session table of the Hidekey UDP server (outbound_udp.rs) with the  *)
(* upload direction, and the client's handshake (handle_hidekey_udp in     *)
(* inbound.rs). UdpLink models the download direction.                     *)
(*                                                                         *)
(* One receive loop serves all clients: it finds a session by the source   *)
(* address, and while it connects a session to its target it serves nobody.*)
(* Tasks per session: the relay, which reads the target and removes the    *)
(* session from the table when the target closes, and the writer, fed by a *)
(* channel whose sender is in the table.                                   *)
(*                                                                         *)
(* A shared secret is the pair of the client's key pair (its gen) and the  *)
(* server's (its handshake h). Which datagrams open under their key is     *)
(* UdpLink's subject; here all of them may. That is more than the present  *)
(* build does: the two ends label the keys of the handshake differently,   *)
(* so that its datagrams do not open there. Datagrams are lost, delayed,   *)
(* duplicated and reordered: all that were ever sent may be received.      *)
(***************************************************************************)
EXTENDS Integers, Sequences

CONSTANTS
  Addrs,    \* client addresses
  MaxGen,   \* bound: client sessions that use one address, one after another
  MaxHs,    \* bound: handshakes the server answers
  Payloads, \* bound: chunks a client session uploads
  ChanCap   \* capacity of the writer's channel, 256

ASSUME UdpServerAssumption ==
  /\ Addrs # {}
  /\ MaxGen \in Nat /\ MaxHs \in Nat /\ Payloads \in Nat /\ ChanCap \in Nat \ {0}

Handshakes == 1 .. MaxHs

VARIABLES
  clients, \* clients[a]: progress, key pair, secret and chunks sent
  net,     \* datagrams sent to the server
  replies, \* ServerResponses sent, by address
  table,   \* sessions
  loop,    \* what the receive loop is at, and for which session
  hs,      \* number of handshakes answered
  owner,   \* history: owner[h], the address handshake h was for
  relay,   \* relay[h]: tcp_to_udp_relay
  writer,  \* writer[h]: udp_to_tcp_writer
  chan,    \* chan[h]: its channel
  early    \* history: early[h], relay h ended before its session was inserted

clientVars == <<clients, net, replies>>
tasks == <<relay, writer, chan, early>>
vars == <<clients, net, replies, table, loop, hs, owner, tasks>>

None == [st |-> "none", gen |-> 0, h |-> 0]
Pending(gen, h) == [st |-> "pending", gen |-> gen, h |-> h]
Established(gen, h) == [st |-> "established", gen |-> gen, h |-> h]
Receiving == [at |-> "recv", gen |-> 0, h |-> 0]

Init ==
  /\ clients = [a \in Addrs |-> [at |-> "off", gen |-> 0, h |-> 0, sent |-> 0]]
  /\ net = {} /\ replies = {}
  /\ table = [a \in Addrs |-> None]
  /\ loop = Receiving
  /\ hs = 0
  /\ owner = [h \in Handshakes |-> CHOOSE a \in Addrs : TRUE]
  /\ relay = [h \in Handshakes |-> "none"]
  /\ writer = [h \in Handshakes |-> "none"]
  /\ chan = [h \in Handshakes |-> <<>>]
  /\ early = [h \in Handshakes |-> FALSE]

-----------------------------------------------------------------------------
(* Client: one session at a time from one address.                         *)

Datagram(a, kind, gen, h, n) == [addr |-> a, kind |-> kind, gen |-> gen, h |-> h, n |-> n]

BuildChallenge(a, gen) == Datagram(a, "challenge", gen, 0, 0)

\* A fresh key pair; the challenge is sent once and never again.
SendChallenge(a) ==
  /\ clients[a].at = "off" /\ clients[a].gen < MaxGen
  /\ LET gen == clients[a].gen + 1
     IN  /\ clients' = [clients EXCEPT ![a] = [at |-> "wait", gen |-> gen, h |-> 0, sent |-> 0]]
         /\ net' = net \cup {BuildChallenge(a, gen)}
  /\ UNCHANGED <<replies, table, loop, hs, owner, tasks>>

\* The response's MAC does not cover the challenge: an answer to an earlier
\* one gives a session as well, with a secret the server does not have.
ProcessResponse(a, r) == [clients[a] EXCEPT !.at = "relay", !.h = r.h]

\* The target follows as the first sealed datagram.
ReceiveResponse(a) ==
  /\ clients[a].at = "wait"
  /\ \E r \in replies :
       /\ r.addr = a
       /\ clients' = [clients EXCEPT ![a] = ProcessResponse(a, r)]
       /\ net' = net \cup {Datagram(a, "target", clients[a].gen, r.h, 0)}
  /\ UNCHANGED <<replies, table, loop, hs, owner, tasks>>

\* Ten seconds without a response, or the first datagram was no response.
HandshakeFails(a) ==
  /\ clients[a].at = "wait"
  /\ clients' = [clients EXCEPT ![a].at = "off"]
  /\ UNCHANGED <<net, replies, table, loop, hs, owner, tasks>>

\* tun_to_udp.
Upload(a) ==
  /\ clients[a].at = "relay" /\ clients[a].sent < Payloads
  /\ clients' = [clients EXCEPT ![a].sent = @ + 1]
  /\ net' = net \cup {Datagram(a, "data", clients[a].gen, clients[a].h, clients[a].sent + 1)}
  /\ UNCHANGED <<replies, table, loop, hs, owner, tasks>>

\* Both loops have ended: the app has closed and the socket failed.
ClientEnds(a) ==
  /\ clients[a].at = "relay"
  /\ clients' = [clients EXCEPT ![a].at = "off"]
  /\ UNCHANGED <<net, replies, table, loop, hs, owner, tasks>>

-----------------------------------------------------------------------------
(* The receive loop. A datagram that does not open changes nothing.        *)

Opens(entry, d) == d.kind # "challenge" /\ d.gen = entry.gen /\ d.h = entry.h

\* Faulty variant: an unbounded channel.
PassAllOn(d) ==
  LET entry == table[d.addr]
      h == entry.h
  IN  /\ loop.at = "recv" /\ d \in net
      /\ entry.st = "established" /\ Opens(entry, d)
      /\ writer[h] = "running" /\ Len(chan[h]) <= ChanCap
      /\ chan' = [chan EXCEPT ![h] = Append(@, d.n)]
      /\ UNCHANGED <<clientVars, table, loop, hs, owner, relay, writer, early>>

\* Established: the payload goes to the writer, or is dropped when its channel
\* is full or closed. Nothing filters duplicates here.
PassOn(d) ==
  LET entry == table[d.addr]
      h == entry.h
  IN  /\ loop.at = "recv" /\ d \in net
      /\ entry.st = "established" /\ Opens(entry, d)
      /\ writer[h] = "running" /\ Len(chan[h]) < ChanCap
      /\ chan' = [chan EXCEPT ![h] = Append(@, d.n)]
      /\ UNCHANGED <<clientVars, table, loop, hs, owner, relay, writer, early>>

\* Pending, and the payload parses as a target: connect. Data that arrives
\* before the target may parse as one.
StartConnect(d) ==
  LET entry == table[d.addr]
  IN  /\ loop.at = "recv" /\ d \in net
      /\ entry.st = "pending" /\ Opens(entry, d)
      /\ loop' = [at |-> "connect", gen |-> entry.gen, h |-> entry.h]
      /\ UNCHANGED <<clientVars, table, hs, owner, tasks>>

\* Pending, and it does not parse.
RejectTarget(d) ==
  LET entry == table[d.addr]
  IN  /\ loop.at = "recv" /\ d \in net
      /\ entry.st = "pending" /\ Opens(entry, d) /\ d.kind = "data"
      /\ table' = [table EXCEPT ![d.addr] = None]
      /\ UNCHANGED <<clientVars, loop, hs, owner, tasks>>

\* Any challenge with a right MAC: a fresh key pair of the server's, the keys
\* of a Pending session and the response.
ProcessChallenge(d) ==
  /\ hs' = hs + 1 /\ owner' = [owner EXCEPT ![hs + 1] = d.addr]
  /\ replies' = replies \cup {[addr |-> d.addr, h |-> hs + 1]}
  /\ table' = [table EXCEPT ![d.addr] = Pending(d.gen, hs + 1)]

\* Faulty variant: a challenge of a known address starts over, so that a client
\* whose session is stuck can come back.
AnswerAnyChallenge(d) ==
  /\ loop.at = "recv" /\ d \in net
  /\ d.kind = "challenge" /\ hs < MaxHs
  /\ ProcessChallenge(d)
  /\ UNCHANGED <<clients, net, loop, tasks>>

\* Unknown address and a valid challenge, a replayed one included.
AnswerChallenge(d) ==
  /\ loop.at = "recv" /\ d \in net
  /\ d.kind = "challenge" /\ table[d.addr].st = "none" /\ hs < MaxHs
  /\ ProcessChallenge(d)
  /\ UNCHANGED <<clients, net, loop, tasks>>

\* The target accepts: both tasks are spawned before the session is inserted.
Connected ==
  /\ loop.at = "connect"
  /\ relay' = [relay EXCEPT ![loop.h] = "running"]
  /\ writer' = [writer EXCEPT ![loop.h] = "running"]
  /\ loop' = [loop EXCEPT !.at = "insert"]
  /\ UNCHANGED <<clientVars, table, hs, owner, chan, early>>

\* The target refuses, or 15 seconds are over.
Unconnected ==
  /\ loop.at = "connect"
  /\ table' = [table EXCEPT ![owner[loop.h]] = None]
  /\ loop' = Receiving
  /\ UNCHANGED <<clientVars, hs, owner, tasks>>

Refused == Unconnected

ConnectTimesOut == Unconnected

\* Faulty variant: a session that exists keeps its state.
InsertIfAbsent ==
  /\ loop.at = "insert"
  /\ table' = [table EXCEPT ![owner[loop.h]] =
                 IF @.st = "none" THEN Established(loop.gen, loop.h) ELSE @]
  /\ loop' = Receiving
  /\ UNCHANGED <<clientVars, hs, owner, tasks>>

Insert ==
  /\ loop.at = "insert"
  /\ table' = [table EXCEPT ![owner[loop.h]] = Established(loop.gen, loop.h)]
  /\ loop' = Receiving
  /\ UNCHANGED <<clientVars, hs, owner, tasks>>

-----------------------------------------------------------------------------
(* Tasks.                                                                  *)

\* Faulty variant: the session is removed only by what follows.
RelayLeavesEntry(h) ==
  /\ relay[h] = "running"
  /\ relay' = [relay EXCEPT ![h] = "ended"]
  /\ UNCHANGED <<clientVars, table, loop, hs, owner, writer, chan, early>>

\* End of file or an error of the target: whatever session the address has is
\* removed.
RelayEnds(h) ==
  /\ relay[h] = "running"
  /\ relay' = [relay EXCEPT ![h] = "ended"]
  /\ table' = [table EXCEPT ![owner[h]] = None]
  /\ early' = [early EXCEPT ![h] = loop.at = "insert" /\ loop.h = h]
  /\ UNCHANGED <<clientVars, loop, hs, owner, writer, chan>>

HasSender(h) ==
  \/ loop.at = "insert" /\ loop.h = h
  \/ table[owner[h]] \in {Established(gen, h) : gen \in 1 .. MaxGen}

WriterWrites(h) ==
  /\ writer[h] = "running" /\ chan[h] # <<>>
  /\ chan' = [chan EXCEPT ![h] = Tail(@)]
  /\ UNCHANGED <<clientVars, table, loop, hs, owner, relay, writer, early>>

\* A write fails, or the channel is empty and its sender gone.
WriterEnds(h) ==
  /\ writer[h] = "running"
  /\ chan[h] # <<>> \/ ~HasSender(h)
  /\ writer' = [writer EXCEPT ![h] = "ended"]
  /\ chan' = [chan EXCEPT ![h] = <<>>]
  /\ UNCHANGED <<clientVars, table, loop, hs, owner, relay, early>>

-----------------------------------------------------------------------------
ClientStep(a) ==
  \/ SendChallenge(a) \/ ReceiveResponse(a) \/ HandshakeFails(a)
  \/ Upload(a) \/ ClientEnds(a)

Receive(d) == PassOn(d) \/ StartConnect(d) \/ RejectTarget(d) \/ AnswerChallenge(d)

WriterStep(h) == WriterWrites(h) \/ WriterEnds(h)

Next ==
  \/ \E a \in Addrs : ClientStep(a)
  \/ \E d \in net : Receive(d)
  \/ Connected \/ Refused \/ ConnectTimesOut \/ Insert
  \/ \E h \in Handshakes : RelayEnds(h) \/ WriterStep(h)

Spec == Init /\ [][Next]_vars

\* Timers fire and tasks run; the target owes nothing.
FairSpec ==
  /\ Spec /\ WF_vars(ConnectTimesOut) /\ WF_vars(Insert)
  /\ \A h \in Handshakes : WF_vars(WriterStep(h))

-----------------------------------------------------------------------------
(* Properties.                                                             *)

Gens == 0 .. MaxGen
Hs == 0 .. MaxHs

\* The variables have their types; a session that is connected has a channel of
\* at most its capacity, and only sessions that were answered have tasks.
TypeOK ==
  /\ clients \in [Addrs -> [at : {"off", "wait", "relay"}, gen : Gens, h : Hs, sent : 0 .. Payloads]]
  /\ net \subseteq [addr : Addrs, kind : {"challenge", "target", "data"}, gen : Gens, h : Hs,
                    n : 0 .. Payloads]
  /\ replies \subseteq [addr : Addrs, h : Handshakes]
  /\ table \in [Addrs -> [st : {"none", "pending", "established"}, gen : Gens, h : Hs]]
  /\ loop \in [at : {"recv", "connect", "insert"}, gen : Gens, h : Hs]
  /\ hs \in Hs
  /\ owner \in [Handshakes -> Addrs]
  /\ relay \in [Handshakes -> {"none", "running", "ended"}]
  /\ writer \in [Handshakes -> {"none", "running", "ended"}]
  /\ chan \in [Handshakes -> Seq(0 .. Payloads)]
  /\ \A h \in Handshakes : Len(chan[h]) <= ChanCap /\ (h > hs => relay[h] = "none")
  /\ early \in [Handshakes -> BOOLEAN]

\* tcp_to_udp_relay removes by address, not by session: still it never removes
\* the session of a later handshake.
RemovesOwnSession ==
  [][\A h \in Handshakes :
       relay[h] = "running" /\ relay'[h] = "ended" =>
         table[owner[h]].st = "none" \/ table[owner[h]].h = h]_vars

\* A repeated target datagram opens no second connection: an address has one
\* relay at most.
OneRelayPerAddr ==
  \A h, k \in Handshakes :
    relay[h] = "running" /\ relay[k] = "running" /\ owner[h] = owner[k] => h = k

\* "TCP closed -> remove from table", except when the target closes between the
\* spawn of the relay and the insert: then the session stays for ever, and its
\* address is deaf to new handshakes.
ClosedLeavesTable ==
  \A a \in Addrs :
    table[a].st = "established" /\ relay[table[a].h] = "ended" => early[table[a].h]
=============================================================================
