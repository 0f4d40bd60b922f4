--------------------------- MODULE UdpServerProofs ---------------------------
(***************************************************************************)
(* Proofs about UdpServer, for any number of addresses, handshakes and     *)
(* payloads.                                                               *)
(*                                                                         *)
(* tcp_to_udp_relay and the receive loop both change the table by address  *)
(* alone. What saves the sessions of others is that the loop serves nobody *)
(* while it connects: an address it is at work for keeps its Pending entry *)
(* (LoopOwns), so a relay that runs is the one its address's entry names,  *)
(* or the one about to be inserted (RelayNamed).                           *)
(***************************************************************************)
EXTENDS UdpServer, TLAPS

\* An entry is for the address its handshake was for.
EntryOwned ==
  \A a \in Addrs : table[a].st # "none" => table[a].h \in 1 .. hs /\ owner[table[a].h] = a

\* The entry the receive loop is at work for waits for it, or has been taken
\* out by its own relay.
LoopOwns ==
  loop.at # "recv" =>
    /\ loop.h \in 1 .. hs
    /\ \/ table[owner[loop.h]].st = "pending" /\ table[owner[loop.h]].h = loop.h
       \/ loop.at = "insert" /\ table[owner[loop.h]].st = "none" /\ relay[loop.h] = "ended"

RelayNamed ==
  \A h \in Handshakes : relay[h] = "running" =>
    \/ loop.at = "insert" /\ loop.h = h
    \/ table[owner[h]].st = "established" /\ table[owner[h]].h = h

EarlyKnown ==
  loop.at = "insert" /\ relay[loop.h] = "ended" => early[loop.h]

IInv == TypeOK /\ EntryOwned /\ LoopOwns /\ RelayNamed /\ EarlyKnown /\ ClosedLeavesTable

LEMMA Bounds ==
  /\ Addrs # {} /\ MaxGen \in Nat /\ MaxHs \in Nat /\ Payloads \in Nat /\ ChanCap \in Nat \ {0}
  /\ Handshakes = 1 .. MaxHs
BY UdpServerAssumption DEF Handshakes

LEMMA InitIInv == Init => IInv
<1> SUFFICES ASSUME Init PROVE IInv
  OBVIOUS
<1>1. (CHOOSE a \in Addrs : TRUE) \in Addrs
  BY Bounds
<1>2. TypeOK
  <2>1. 0 \in Gens /\ 0 \in Hs /\ 0 \in 0 .. Payloads /\ 0 \in 0 .. MaxHs
    BY Bounds DEF Gens, Hs
  <2>2. /\ clients \in [Addrs -> [at : {"off", "wait", "relay"}, gen : Gens, h : Hs, sent : 0 .. Payloads]]
        /\ table \in [Addrs -> [st : {"none", "pending", "established"}, gen : Gens, h : Hs]]
        /\ loop \in [at : {"recv", "connect", "insert"}, gen : Gens, h : Hs]
    BY <2>1 DEF Init, None, Receiving
  <2>3. /\ owner \in [Handshakes -> Addrs]
        /\ relay \in [Handshakes -> {"none", "running", "ended"}]
        /\ writer \in [Handshakes -> {"none", "running", "ended"}]
        /\ early \in [Handshakes -> BOOLEAN]
    BY <1>1 DEF Init
  <2>4. <<>> \in Seq(0 .. Payloads) /\ Len(<<>>) <= ChanCap
    BY Bounds
  <2>5. /\ chan \in [Handshakes -> Seq(0 .. Payloads)]
        /\ \A h \in Handshakes : Len(chan[h]) <= ChanCap /\ (h > hs => relay[h] = "none")
    BY <2>4 DEF Init
  <2> QED
    BY <2>1, <2>2, <2>3, <2>5 DEF Init, TypeOK
<1>3. EntryOwned /\ LoopOwns /\ RelayNamed /\ EarlyKnown /\ ClosedLeavesTable
  BY DEF Init, EntryOwned, LoopOwns, RelayNamed, EarlyKnown, ClosedLeavesTable, None, Receiving
<1> QED
  BY <1>2, <1>3 DEF IInv

\* An entry's session exists and is its address's.
LEMMA EntrySession ==
  ASSUME IInv, NEW a \in Addrs, table[a].st # "none"
  PROVE  table[a].h \in Handshakes /\ owner[table[a].h] = a
<1>1. table[a].h \in 1 .. hs /\ owner[table[a].h] = a
  BY DEF IInv, EntryOwned
<1>2. hs \in 0 .. MaxHs
  BY DEF IInv, TypeOK, Hs
<1> QED
  BY <1>1, <1>2, Bounds

\* A client's record keeps its type when one field changes.
LEMMA ClientRecord ==
  ASSUME NEW At, NEW G, NEW H, NEW S, NEW x \in [at : At, gen : G, h : H, sent : S]
  PROVE  /\ \A v \in At : [x EXCEPT !.at = v] \in [at : At, gen : G, h : H, sent : S]
         /\ \A v \in H : [x EXCEPT !.h = v] \in [at : At, gen : G, h : H, sent : S]
         /\ \A v \in S : [x EXCEPT !.sent = v] \in [at : At, gen : G, h : H, sent : S]
OBVIOUS

\* What the client does, and what the network carries, is nobody's session.
LEMMA ClientSteps ==
  ASSUME IInv, NEW a \in Addrs, ClientStep(a)
  PROVE  IInv'
<1> USE DEF IInv
<1>1. UNCHANGED <<replies, table, loop, hs, owner, relay, writer, chan, early>>
  BY DEF ClientStep, SendChallenge, ReceiveResponse, HandshakeFails, Upload, ClientEnds, tasks
<1>2. /\ clients' \in [Addrs -> [at : {"off", "wait", "relay"}, gen : Gens, h : Hs, sent : 0 .. Payloads]]
      /\ net' \subseteq [addr : Addrs, kind : {"challenge", "target", "data"}, gen : Gens, h : Hs,
                         n : 0 .. Payloads]
  <2>7. /\ clients[a].gen \in 0 .. MaxGen /\ clients[a].h \in 0 .. MaxHs
        /\ clients[a].sent \in 0 .. Payloads
    BY DEF TypeOK, Gens, Hs
  <2>8. 0 \in 0 .. MaxHs /\ 0 \in 0 .. Payloads
    BY Bounds
  <2>1. /\ clients[a].gen \in 0 .. MaxGen /\ clients[a].h \in 0 .. MaxHs
        /\ clients[a].sent \in 0 .. Payloads /\ 0 \in 0 .. MaxHs /\ 0 \in 0 .. Payloads
    BY <2>7, <2>8
  <2>6. clients[a] \in [at : {"off", "wait", "relay"}, gen : Gens, h : Hs, sent : 0 .. Payloads]
    BY DEF TypeOK
  <2>2. CASE SendChallenge(a)
    <3>1. PICK gen : gen = clients[a].gen + 1
      OBVIOUS
    <3>2. gen \in 0 .. MaxGen
      BY <2>1, <2>2, <3>1, Bounds DEF SendChallenge
    <3>3. /\ clients' = [clients EXCEPT ![a] = [at |-> "wait", gen |-> gen, h |-> 0, sent |-> 0]]
          /\ net' = net \cup {BuildChallenge(a, gen)}
      BY <2>2, <3>1 DEF SendChallenge
    <3> QED
      BY <2>1, <3>2, <3>3 DEF TypeOK, BuildChallenge, Datagram, Gens, Hs
  <2>3. CASE ReceiveResponse(a)
    <3>1. PICK r \in replies :
            /\ clients' = [clients EXCEPT ![a] = ProcessResponse(a, r)]
            /\ net' = net \cup {Datagram(a, "target", clients[a].gen, r.h, 0)}
      BY <2>3 DEF ReceiveResponse
    <3>2. r.h \in 0 .. MaxHs
      BY Bounds DEF TypeOK
    <3>3. PICK p : p = [clients[a] EXCEPT !.at = "relay", !.h = r.h]
      OBVIOUS
    <3>6. PICK q : q = [clients[a] EXCEPT !.at = "relay"]
      OBVIOUS
    <3>7. q \in [at : {"off", "wait", "relay"}, gen : Gens, h : Hs, sent : 0 .. Payloads]
      BY <2>6, <3>6, ClientRecord
    <3>8. p = [q EXCEPT !.h = r.h]
      BY <2>6, <3>3, <3>6
    <3>4. p \in [at : {"off", "wait", "relay"}, gen : Gens, h : Hs, sent : 0 .. Payloads]
      BY <3>2, <3>7, <3>8, ClientRecord DEF Hs
    <3>5. clients' = [clients EXCEPT ![a] = p]
      BY <3>1, <3>3 DEF ProcessResponse
    <3> QED
      <4>1. clients' \in [Addrs -> [at : {"off", "wait", "relay"}, gen : Gens, h : Hs, sent : 0 .. Payloads]]
        BY <3>4, <3>5 DEF TypeOK
      <4>2. Datagram(a, "target", clients[a].gen, r.h, 0) \in
              [addr : Addrs, kind : {"challenge", "target", "data"}, gen : Gens, h : Hs, n : 0 .. Payloads]
        BY <2>1, <3>2 DEF Datagram, Gens, Hs
      <4> QED
        BY <3>1, <4>1, <4>2 DEF TypeOK
  <2>4. CASE HandshakeFails(a) \/ ClientEnds(a)
    <3>1. PICK p : p = [clients[a] EXCEPT !.at = "off"]
      OBVIOUS
    <3>2. p \in [at : {"off", "wait", "relay"}, gen : Gens, h : Hs, sent : 0 .. Payloads]
      BY <2>6, <3>1, ClientRecord
    <3>3. clients' = [clients EXCEPT ![a] = p] /\ UNCHANGED net
      BY <2>4, <3>1 DEF HandshakeFails, ClientEnds, TypeOK
    <3> QED
      BY <3>2, <3>3 DEF TypeOK
  <2>5. CASE Upload(a)
    <3>1. PICK n : n = clients[a].sent + 1
      OBVIOUS
    <3>2. n \in 0 .. Payloads
      <4>1. clients[a].sent < Payloads
        BY <2>5 DEF Upload
      <4>2. clients[a].sent \in 0 .. Payloads /\ Payloads \in Nat
        BY <2>1, Bounds
      <4> QED
        BY <3>1, <4>1, <4>2
    <3>3. /\ clients' = [clients EXCEPT ![a].sent = n]
          /\ net' = net \cup {Datagram(a, "data", clients[a].gen, clients[a].h, n)}
      BY <2>5, <3>1 DEF Upload, TypeOK
    <3>4. PICK p : p = [clients[a] EXCEPT !.sent = n]
      OBVIOUS
    <3>5. p \in [at : {"off", "wait", "relay"}, gen : Gens, h : Hs, sent : 0 .. Payloads]
      BY <2>6, <3>2, <3>4, ClientRecord
    <3>6. clients' = [clients EXCEPT ![a] = p]
      BY <3>3, <3>4 DEF TypeOK
    <3> QED
      <4>1. clients' \in [Addrs -> [at : {"off", "wait", "relay"}, gen : Gens, h : Hs, sent : 0 .. Payloads]]
        BY <3>5, <3>6 DEF TypeOK
      <4>2. Datagram(a, "data", clients[a].gen, clients[a].h, n) \in
              [addr : Addrs, kind : {"challenge", "target", "data"}, gen : Gens, h : Hs, n : 0 .. Payloads]
        BY <2>1, <3>2 DEF Datagram, Gens, Hs
      <4> QED
        BY <3>3, <4>1, <4>2 DEF TypeOK
  <2> QED
    BY <2>2, <2>3, <2>4, <2>5 DEF ClientStep
<1> QED
  BY <1>1, <1>2 DEF TypeOK, EntryOwned, LoopOwns, RelayNamed, EarlyKnown, ClosedLeavesTable

\* A payload on its way to the target.
LEMMA ChannelSteps ==
  ASSUME IInv, UNCHANGED <<clientVars, table, loop, hs, owner, relay, early>>,
         NEW h \in Handshakes,
         NEW s \in Seq(0 .. Payloads), Len(s) <= ChanCap, chan' = [chan EXCEPT ![h] = s],
         writer' \in [Handshakes -> {"none", "running", "ended"}]
  PROVE  IInv'
<1> USE DEF IInv
<1>1. TypeOK'
  <2>1. chan' \in [Handshakes -> Seq(0 .. Payloads)]
    BY DEF TypeOK
  <2>2. \A k \in Handshakes : chan'[k] = s \/ chan'[k] = chan[k]
    BY DEF TypeOK
  <2> QED
    BY <2>1, <2>2 DEF TypeOK, clientVars
<1> QED
  BY <1>1 DEF EntryOwned, LoopOwns, RelayNamed, EarlyKnown, ClosedLeavesTable

LEMMA TailShorter ==
  ASSUME NEW S, NEW s \in Seq(S), s # <<>>
  PROVE  Tail(s) \in Seq(S) /\ Len(Tail(s)) = Len(s) - 1 /\ Len(s) \in Nat
OBVIOUS

LEMMA WriterSteps ==
  ASSUME IInv, NEW h \in Handshakes, WriterStep(h)
  PROVE  IInv'
<1>1. chan[h] \in Seq(0 .. Payloads) /\ Len(chan[h]) <= ChanCap
  BY DEF IInv, TypeOK
<1>2. CASE WriterWrites(h)
  <2>1. chan[h] # <<>> /\ chan' = [chan EXCEPT ![h] = Tail(chan[h])]
    BY <1>2 DEF WriterWrites
  <2>2. Tail(chan[h]) \in Seq(0 .. Payloads) /\ Len(Tail(chan[h])) <= ChanCap
    <3>1. PICK s \in Seq(0 .. Payloads) : s = chan[h] /\ s # <<>> /\ Len(s) <= ChanCap
      BY <1>1, <2>1
    <3>2. Tail(s) \in Seq(0 .. Payloads) /\ Len(Tail(s)) = Len(s) - 1 /\ Len(s) \in Nat
      BY <3>1, TailShorter
    <3> QED
      BY <3>1, <3>2, Bounds
  <2>3. UNCHANGED <<clientVars, table, loop, hs, owner, relay, writer, early>>
    BY <1>2 DEF WriterWrites
  <2>4. writer' \in [Handshakes -> {"none", "running", "ended"}]
    BY <2>3 DEF IInv, TypeOK
  <2> QED
    BY <2>1, <2>2, <2>3, <2>4, ChannelSteps
<1>3. CASE WriterEnds(h)
  <2>1. <<>> \in Seq(0 .. Payloads) /\ Len(<<>>) <= ChanCap
    BY Bounds
  <2>2. /\ writer' = [writer EXCEPT ![h] = "ended"] /\ chan' = [chan EXCEPT ![h] = <<>>]
        /\ UNCHANGED <<clientVars, table, loop, hs, owner, relay, early>>
    BY <1>3 DEF WriterEnds
  <2>3. writer' \in [Handshakes -> {"none", "running", "ended"}]
    BY <2>2 DEF IInv, TypeOK
  <2> QED
    BY <2>1, <2>2, <2>3, ChannelSteps
<1> QED
  BY <1>2, <1>3 DEF WriterStep

LEMMA ReceiveSteps ==
  ASSUME IInv, NEW d \in net, Receive(d)
  PROVE  IInv'
<1>1. /\ d.addr \in Addrs /\ d.gen \in Gens /\ d.n \in 0 .. Payloads
  BY DEF IInv, TypeOK
<1>2. loop.at = "recv"
  BY DEF Receive, PassOn, StartConnect, RejectTarget, AnswerChallenge
<1>3. CASE PassOn(d)
  <2>1. PICK h : h = table[d.addr].h
    OBVIOUS
  <2>2. /\ table[d.addr].st = "established" /\ Len(chan[h]) < ChanCap
        /\ chan' = [chan EXCEPT ![h] = Append(chan[h], d.n)]
        /\ UNCHANGED <<clientVars, table, loop, hs, owner, relay, writer, early>>
    BY <1>3, <2>1 DEF PassOn
  <2>3. h \in Handshakes
    BY <1>1, <2>1, <2>2, EntrySession
  <2>4. Append(chan[h], d.n) \in Seq(0 .. Payloads) /\ Len(Append(chan[h], d.n)) <= ChanCap
    <3>1. chan[h] \in Seq(0 .. Payloads)
      BY <2>3 DEF IInv, TypeOK
    <3> QED
      BY <1>1, <2>2, <3>1, Bounds
  <2>5. writer' \in [Handshakes -> {"none", "running", "ended"}]
    BY <2>2 DEF IInv, TypeOK
  <2> QED
    BY <2>2, <2>3, <2>4, <2>5, ChannelSteps
<1>4. CASE StartConnect(d)
  <2>1. PICK entry : entry = table[d.addr]
    OBVIOUS
  <2>2. /\ entry.st = "pending" /\ loop' = [at |-> "connect", gen |-> entry.gen, h |-> entry.h]
        /\ UNCHANGED <<clientVars, table, hs, owner, tasks>>
    BY <1>4, <2>1 DEF StartConnect
  <2>3. entry.h \in 1 .. hs /\ owner[entry.h] = d.addr /\ entry.gen \in Gens /\ entry.h \in Hs
    BY <1>1, <2>1, <2>2 DEF IInv, EntryOwned, TypeOK
  <2>4. loop'.at = "connect" /\ loop'.h = entry.h
    BY <2>2
  <2>5. TypeOK'
    BY <2>2, <2>3 DEF IInv, TypeOK, clientVars, tasks
  <2>6. EntryOwned'
    BY <2>2 DEF IInv, EntryOwned
  <2>7. LoopOwns'
    BY <2>1, <2>2, <2>3, <2>4 DEF LoopOwns
  <2>8. RelayNamed'
    BY <1>2, <2>2 DEF IInv, RelayNamed, tasks
  <2>9. EarlyKnown' /\ ClosedLeavesTable'
    BY <2>2, <2>4 DEF IInv, EarlyKnown, ClosedLeavesTable, tasks
  <2> QED
    BY <2>5, <2>6, <2>7, <2>8, <2>9 DEF IInv
<1>5. CASE RejectTarget(d)
  <2>1. /\ table[d.addr].st = "pending" /\ table' = [table EXCEPT ![d.addr] = None]
        /\ UNCHANGED <<clientVars, loop, hs, owner, tasks>>
    BY <1>5 DEF RejectTarget
  <2>2. \A a \in Addrs : table'[a] = IF a = d.addr THEN None ELSE table[a]
    BY <2>1 DEF IInv, TypeOK
  <2>3. None \in [st : {"none", "pending", "established"}, gen : Gens, h : Hs] /\ None.st = "none"
    BY Bounds DEF None, Gens, Hs
  <2>4. TypeOK'
    BY <2>1, <2>3 DEF IInv, TypeOK, clientVars, tasks
  <2>5. EntryOwned' /\ LoopOwns' /\ EarlyKnown'
    BY <1>2, <2>1, <2>2, <2>3 DEF IInv, EntryOwned, LoopOwns, EarlyKnown
  <2>6. RelayNamed'
    BY <1>2, <2>1, <2>2 DEF IInv, RelayNamed, TypeOK, tasks
  <2>7. ClosedLeavesTable'
    BY <2>1, <2>2, <2>3 DEF IInv, ClosedLeavesTable, tasks
  <2> QED
    BY <2>4, <2>5, <2>6, <2>7 DEF IInv
<1>6. CASE AnswerChallenge(d)
  <2>1. PICK new : new = hs + 1
    OBVIOUS
  <2>2. /\ table[d.addr].st = "none" /\ hs < MaxHs
        /\ hs' = new /\ owner' = [owner EXCEPT ![new] = d.addr]
        /\ replies' = replies \cup {[addr |-> d.addr, h |-> new]}
        /\ table' = [table EXCEPT ![d.addr] = Pending(d.gen, new)]
        /\ UNCHANGED <<clients, net, loop, tasks>>
    BY <1>6, <2>1 DEF AnswerChallenge, ProcessChallenge
  <2>3. hs \in 0 .. MaxHs /\ new \in Handshakes /\ new \in Hs /\ new > hs
    BY <2>1, <2>2, Bounds DEF IInv, TypeOK, Hs
  <2>4. /\ \A a \in Addrs : table'[a] = IF a = d.addr THEN Pending(d.gen, new) ELSE table[a]
        /\ \A h \in Handshakes : owner'[h] = IF h = new THEN d.addr ELSE owner[h]
    BY <2>2 DEF IInv, TypeOK
  <2>5. Pending(d.gen, new) \in [st : {"none", "pending", "established"}, gen : Gens, h : Hs]
        /\ Pending(d.gen, new).st = "pending" /\ Pending(d.gen, new).h = new
    BY <1>1, <2>3 DEF Pending
  <2>6. TypeOK'
    <3>1. replies' \subseteq [addr : Addrs, h : Handshakes]
      BY <1>1, <2>2, <2>3 DEF IInv, TypeOK
    <3>2. table' \in [Addrs -> [st : {"none", "pending", "established"}, gen : Gens, h : Hs]]
          /\ owner' \in [Handshakes -> Addrs]
      BY <1>1, <2>2, <2>5 DEF IInv, TypeOK
    <3>3. \A h \in Handshakes : h > hs' => relay[h] = "none"
      BY <2>2, <2>3, Bounds DEF IInv, TypeOK
    <3> QED
      BY <2>2, <2>3, <3>1, <3>2, <3>3 DEF IInv, TypeOK, tasks
  <2>7. EntryOwned'
    <3> SUFFICES ASSUME NEW a \in Addrs, table'[a].st # "none"
                 PROVE  table'[a].h \in 1 .. hs' /\ owner'[table'[a].h] = a
      BY DEF EntryOwned
    <3>1. CASE a = d.addr
      BY <2>1, <2>2, <2>3, <2>4, <2>5, <3>1, Bounds
    <3>2. CASE a # d.addr
      <4>1. table'[a] = table[a] /\ table[a].h \in 1 .. hs /\ owner[table[a].h] = a
        BY <2>4, <3>2 DEF IInv, EntryOwned
      <4>2. table[a].h \in Handshakes /\ table[a].h # new
        BY <2>3, <4>1, Bounds
      <4> QED
        BY <2>1, <2>2, <2>3, <2>4, <4>1, <4>2
    <3> QED
      BY <3>1, <3>2
  <2>8. LoopOwns' /\ EarlyKnown'
    BY <1>2, <2>2 DEF LoopOwns, EarlyKnown
  <2>9. RelayNamed'
    <3> SUFFICES ASSUME NEW h \in Handshakes, relay[h] = "running"
                 PROVE  table'[owner'[h]].st = "established" /\ table'[owner'[h]].h = h
      BY <2>2 DEF RelayNamed, tasks
    <3>1. table[owner[h]].st = "established" /\ table[owner[h]].h = h /\ owner[h] \in Addrs
      BY <1>2 DEF IInv, RelayNamed, TypeOK
    <3>2. h # new
      <4>1. relay[new] = "none"
        BY <2>3 DEF IInv, TypeOK
      <4> QED
        BY <4>1
    <3>3. owner[h] # d.addr
      BY <2>2, <3>1
    <3> QED
      BY <2>4, <3>1, <3>2, <3>3
  <2>10. ClosedLeavesTable'
    BY <2>2, <2>4, <2>5 DEF IInv, ClosedLeavesTable, tasks
  <2> QED
    BY <2>6, <2>7, <2>8, <2>9, <2>10 DEF IInv
<1> QED
  BY <1>3, <1>4, <1>5, <1>6 DEF Receive

LEMMA LoopSteps ==
  ASSUME IInv, Connected \/ Refused \/ ConnectTimesOut \/ Insert
  PROVE  IInv'
<1>1. PICK k : k = loop.h
  OBVIOUS
<1>2. PICK a : a = owner[k]
  OBVIOUS
<1>3. loop.at # "recv"
  BY DEF Connected, Refused, ConnectTimesOut, Unconnected, Insert
<1>4. /\ k \in 1 .. hs /\ k \in Handshakes /\ a \in Addrs
      /\ \/ table[a].st = "pending" /\ table[a].h = k
         \/ loop.at = "insert" /\ table[a].st = "none" /\ relay[k] = "ended"
  BY <1>1, <1>2, <1>3, Bounds DEF IInv, LoopOwns, TypeOK, Hs
<1>5. CASE Connected
  <2>1. /\ loop.at = "connect" /\ relay' = [relay EXCEPT ![k] = "running"]
        /\ writer' = [writer EXCEPT ![k] = "running"] /\ loop' = [loop EXCEPT !.at = "insert"]
        /\ UNCHANGED <<clientVars, table, hs, owner, chan, early>>
    BY <1>1, <1>5 DEF Connected
  <2>2. loop'.at = "insert" /\ loop'.h = k /\ loop' \in [at : {"recv", "connect", "insert"}, gen : Gens, h : Hs]
    BY <1>1, <2>1 DEF IInv, TypeOK
  <2>3. relay'[k] = "running" /\ \A h \in Handshakes : h # k => relay'[h] = relay[h]
    BY <1>4, <2>1 DEF IInv, TypeOK
  <2>4. TypeOK'
    <3>1. \A h \in Handshakes : h > hs => relay'[h] = "none"
      <4>1. hs \in Nat /\ ~(k > hs)
        BY <1>4, Bounds DEF IInv, TypeOK, Hs
      <4> QED
        BY <2>3, <4>1 DEF IInv, TypeOK
    <3>2. relay' \in [Handshakes -> {"none", "running", "ended"}]
          /\ writer' \in [Handshakes -> {"none", "running", "ended"}]
      BY <2>1 DEF IInv, TypeOK
    <3> QED
      BY <2>1, <2>2, <3>1, <3>2 DEF IInv, TypeOK, clientVars
  <2>5. EntryOwned' /\ LoopOwns' /\ EarlyKnown'
    BY <1>2, <1>4, <2>1, <2>2, <2>3 DEF IInv, EntryOwned, LoopOwns, EarlyKnown
  <2>6. RelayNamed'
    BY <2>1, <2>2, <2>3 DEF IInv, RelayNamed
  <2>7. ClosedLeavesTable'
    <3> SUFFICES ASSUME NEW b \in Addrs, table[b].st = "established", relay'[table[b].h] = "ended"
                 PROVE  early[table[b].h]
      BY <2>1 DEF ClosedLeavesTable
    <3>1. table[b].h \in Handshakes
      BY Bounds DEF IInv, EntryOwned, TypeOK, Hs
    <3>2. relay[table[b].h] = "ended"
      BY <2>3, <3>1
    <3> QED
      BY <3>2 DEF IInv, ClosedLeavesTable
  <2> QED
    BY <2>4, <2>5, <2>6, <2>7 DEF IInv
<1>6. CASE Unconnected
  <2>1. /\ loop.at = "connect" /\ table' = [table EXCEPT ![a] = None] /\ loop' = Receiving
        /\ UNCHANGED <<clientVars, hs, owner, tasks>>
    BY <1>1, <1>2, <1>6 DEF Unconnected
  <2>2. \A b \in Addrs : table'[b] = IF b = a THEN None ELSE table[b]
    BY <2>1 DEF IInv, TypeOK
  <2>3. None \in [st : {"none", "pending", "established"}, gen : Gens, h : Hs] /\ None.st = "none"
        /\ Receiving \in [at : {"recv", "connect", "insert"}, gen : Gens, h : Hs] /\ Receiving.at = "recv"
    BY Bounds DEF None, Receiving, Gens, Hs
  <2>4. TypeOK'
    BY <2>1, <2>3 DEF IInv, TypeOK, clientVars, tasks
  <2>5. EntryOwned' /\ LoopOwns' /\ EarlyKnown'
    BY <2>1, <2>2, <2>3 DEF IInv, EntryOwned, LoopOwns, EarlyKnown
  <2>6. RelayNamed'
    BY <1>4, <2>1, <2>2 DEF IInv, RelayNamed, TypeOK, tasks
  <2>7. ClosedLeavesTable'
    BY <2>1, <2>2, <2>3 DEF IInv, ClosedLeavesTable, tasks
  <2> QED
    BY <2>4, <2>5, <2>6, <2>7 DEF IInv
<1>7. CASE Insert
  <2>1. PICK new : new = Established(loop.gen, k)
    OBVIOUS
  <2>2. /\ loop.at = "insert" /\ table' = [table EXCEPT ![a] = new] /\ loop' = Receiving
        /\ UNCHANGED <<clientVars, hs, owner, tasks>>
    BY <1>1, <1>2, <1>7, <2>1 DEF Insert
  <2>3. \A b \in Addrs : table'[b] = IF b = a THEN new ELSE table[b]
    BY <2>2 DEF IInv, TypeOK
  <2>4. new \in [st : {"none", "pending", "established"}, gen : Gens, h : Hs]
        /\ new.st = "established" /\ new.h = k
    BY <1>1, <2>1 DEF Established, IInv, TypeOK
  <2>5. Receiving \in [at : {"recv", "connect", "insert"}, gen : Gens, h : Hs] /\ Receiving.at = "recv"
    BY Bounds DEF Receiving, Gens, Hs
  <2>6. TypeOK'
    BY <2>2, <2>4, <2>5 DEF IInv, TypeOK, clientVars, tasks
  <2>7. EntryOwned' /\ LoopOwns' /\ EarlyKnown'
    BY <1>2, <1>4, <2>2, <2>3, <2>4, <2>5 DEF IInv, EntryOwned, LoopOwns, EarlyKnown
  <2>8. RelayNamed'
    <3> SUFFICES ASSUME NEW h \in Handshakes, relay[h] = "running"
                 PROVE  table'[owner[h]].st = "established" /\ table'[owner[h]].h = h
      BY <2>2 DEF RelayNamed, tasks
    <3>1. owner[h] \in Addrs
      BY DEF IInv, TypeOK
    <3>2. CASE h = k
      BY <1>2, <2>3, <2>4, <3>1, <3>2
    <3>3. CASE h # k
      <4>1. table[owner[h]].st = "established" /\ table[owner[h]].h = h
        BY <1>1, <3>3 DEF IInv, RelayNamed
      <4>2. owner[h] # a
        BY <1>4, <4>1
      <4> QED
        BY <2>3, <3>1, <4>1, <4>2
    <3> QED
      BY <3>2, <3>3
  <2>9. ClosedLeavesTable'
    BY <1>1, <2>2, <2>3, <2>4 DEF IInv, ClosedLeavesTable, EarlyKnown, tasks
  <2> QED
    BY <2>6, <2>7, <2>8, <2>9 DEF IInv
<1> QED
  BY <1>5, <1>6, <1>7 DEF Refused, ConnectTimesOut

\* The entry a relay takes out is its own, or there is none.
LEMMA RelayTakesOwn ==
  ASSUME IInv, NEW h \in Handshakes, relay[h] = "running"
  PROVE  /\ owner[h] \in Addrs
         /\ table[owner[h]].st = "none" \/ table[owner[h]].h = h
BY DEF IInv, RelayNamed, LoopOwns, TypeOK

LEMMA RelaySteps ==
  ASSUME IInv, NEW h \in Handshakes, RelayEnds(h)
  PROVE  IInv'
<1>1. PICK a : a = owner[h]
  OBVIOUS
<1>2. /\ relay[h] = "running" /\ relay' = [relay EXCEPT ![h] = "ended"]
      /\ table' = [table EXCEPT ![a] = None]
      /\ early' = [early EXCEPT ![h] = (loop.at = "insert" /\ loop.h = h)]
      /\ UNCHANGED <<clientVars, loop, hs, owner, writer, chan>>
  BY <1>1 DEF RelayEnds
<1>3. a \in Addrs /\ (table[a].st = "none" \/ table[a].h = h)
  BY <1>1, <1>2, RelayTakesOwn
<1>4. /\ \A b \in Addrs : table'[b] = IF b = a THEN None ELSE table[b]
      /\ \A k \in Handshakes : relay'[k] = IF k = h THEN "ended" ELSE relay[k]
      /\ \A k \in Handshakes : k # h => early'[k] = early[k]
      /\ loop.at = "insert" /\ loop.h = h => early'[h]
  BY <1>2 DEF IInv, TypeOK
<1>5. None \in [st : {"none", "pending", "established"}, gen : Gens, h : Hs] /\ None.st = "none"
  BY Bounds DEF None, Gens, Hs
<1>6. TypeOK'
  <2>1. relay' \in [Handshakes -> {"none", "running", "ended"}]
        /\ table' \in [Addrs -> [st : {"none", "pending", "established"}, gen : Gens, h : Hs]]
    BY <1>2, <1>5 DEF IInv, TypeOK
  <2>2. early' \in [Handshakes -> BOOLEAN]
    BY <1>2 DEF IInv, TypeOK
  <2>3. \A k \in Handshakes : k > hs => relay'[k] = "none"
    <3>1. ~(h > hs)
      BY <1>2 DEF IInv, TypeOK
    <3> QED
      BY <1>4, <3>1 DEF IInv, TypeOK
  <2> QED
    BY <1>2, <2>1, <2>2, <2>3 DEF IInv, TypeOK, clientVars
<1>7. EntryOwned'
  BY <1>2, <1>4, <1>5 DEF IInv, EntryOwned
<1>8. ASSUME loop.at # "recv"
      PROVE  loop.h \in Handshakes /\ ((loop.at = "insert" /\ loop.h = h) \/ owner[loop.h] # a)
  <2>1. loop.h \in 1 .. hs /\ loop.h \in Handshakes
    BY <1>8, Bounds DEF IInv, LoopOwns, TypeOK, Hs
  <2>2. CASE loop.at = "insert" /\ loop.h = h
    BY <2>1, <2>2
  <2>3. CASE ~(loop.at = "insert" /\ loop.h = h)
    <3>1. table[a].st = "established" /\ table[a].h = h
      BY <1>1, <1>2, <2>3 DEF IInv, RelayNamed
    <3> QED
      BY <1>8, <2>1, <3>1 DEF IInv, LoopOwns
  <2> QED
    BY <2>2, <2>3
<1>9. LoopOwns'
  <2> SUFFICES ASSUME loop.at # "recv"
               PROVE  /\ loop.h \in 1 .. hs
                      /\ \/ table'[owner[loop.h]].st = "pending" /\ table'[owner[loop.h]].h = loop.h
                         \/ loop.at = "insert" /\ table'[owner[loop.h]].st = "none" /\ relay'[loop.h] = "ended"
    BY <1>2 DEF LoopOwns
  <2>1. loop.h \in Handshakes /\ owner[loop.h] \in Addrs
    BY <1>8 DEF IInv, TypeOK
  <2>2. CASE loop.at = "insert" /\ loop.h = h
    BY <1>1, <1>3, <1>4, <1>5, <2>2 DEF IInv, LoopOwns
  <2>3. CASE owner[loop.h] # a
    BY <1>4, <2>1, <2>3 DEF IInv, LoopOwns
  <2> QED
    BY <1>8, <2>2, <2>3
<1>10. RelayNamed'
  <2> SUFFICES ASSUME NEW k \in Handshakes, relay'[k] = "running"
               PROVE  \/ loop.at = "insert" /\ loop.h = k
                      \/ table'[owner[k]].st = "established" /\ table'[owner[k]].h = k
    BY <1>2 DEF RelayNamed
  <2>1. k # h /\ relay[k] = "running" /\ owner[k] \in Addrs
    BY <1>4 DEF IInv, TypeOK
  <2>2. CASE table[owner[k]].st = "established" /\ table[owner[k]].h = k
    <3>1. owner[k] # a
      BY <1>3, <2>1, <2>2
    <3> QED
      BY <1>4, <2>1, <2>2, <3>1
  <2> QED
    BY <2>1, <2>2 DEF IInv, RelayNamed
<1>11. EarlyKnown'
  <2> SUFFICES ASSUME loop.at = "insert", relay'[loop.h] = "ended"
               PROVE  early'[loop.h]
    BY <1>2 DEF EarlyKnown
  <2>1. loop.h \in Handshakes
    BY <1>8
  <2> QED
    BY <1>4, <2>1 DEF IInv, EarlyKnown
<1>12. ClosedLeavesTable'
  <2> SUFFICES ASSUME NEW b \in Addrs, table'[b].st = "established", relay'[table'[b].h] = "ended"
               PROVE  early'[table'[b].h]
    BY DEF ClosedLeavesTable
  <2>1. b # a /\ table'[b] = table[b]
    BY <1>4, <1>5
  <2>2. table[b].h \in Handshakes /\ owner[table[b].h] = b
    BY <2>1, EntrySession
  <2>3. table[b].h # h
    BY <1>1, <2>1, <2>2
  <2> QED
    BY <1>4, <2>1, <2>2, <2>3 DEF IInv, ClosedLeavesTable
<1> QED
  BY <1>6, <1>7, <1>9, <1>10, <1>11, <1>12 DEF IInv

LEMMA StepIInv == IInv /\ [Next]_vars => IInv'
<1> SUFFICES ASSUME IInv, [Next]_vars PROVE IInv'
  OBVIOUS
<1>1. CASE Next
  BY <1>1, ClientSteps, ReceiveSteps, LoopSteps, RelaySteps, WriterSteps DEF Next
<1>2. CASE UNCHANGED vars
  BY <1>2 DEF vars, clientVars, tasks, IInv, TypeOK, EntryOwned, LoopOwns, RelayNamed, EarlyKnown,
              ClosedLeavesTable
<1> QED
  BY <1>1, <1>2

\* The strengthening of the invariants below.
THEOREM InvHolds == Spec => []IInv
BY InitIInv, StepIInv, PTL DEF Spec

\* Type correctness: among other things a session's channel stays within its
\* capacity, and no task runs for a handshake that was not answered.
THEOREM TypeCorrect == Spec => []TypeOK
<1>1. IInv => TypeOK
  BY DEF IInv
<1> QED
  BY <1>1, InvHolds, PTL

\* However target datagrams are repeated, and challenges of old sessions
\* replayed, an address has one relay.
THEOREM RelaysAreUnique == Spec => []OneRelayPerAddr
<1>1. ASSUME IInv, NEW h \in Handshakes, NEW k \in Handshakes,
             relay[h] = "running", relay[k] = "running", owner[h] = owner[k]
      PROVE  h = k
  BY <1>1 DEF IInv, RelayNamed, LoopOwns
<1>2. IInv => OneRelayPerAddr
  BY <1>1 DEF OneRelayPerAddr
<1> QED
  BY <1>2, InvHolds, PTL

\* A session whose target has closed is in the table only when the target
\* closed before the session was inserted.
THEOREM DeadSessionsLeave == Spec => []ClosedLeavesTable
<1>1. IInv => ClosedLeavesTable
  BY DEF IInv
<1> QED
  BY <1>1, InvHolds, PTL

\* A relay that ends removes by address, and it removes its own session.
THEOREM RelaysRemoveTheirOwn == Spec => RemovesOwnSession
<1>1. IInv /\ [Next]_vars => [\A h \in Handshakes :
         relay[h] = "running" /\ relay'[h] = "ended" =>
           table[owner[h]].st = "none" \/ table[owner[h]].h = h]_vars
  BY RelayTakesOwn
<1> QED
  BY <1>1, InvHolds, PTL DEF Spec, RemovesOwnSession
=============================================================================
