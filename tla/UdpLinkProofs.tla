--------------------------- MODULE UdpLinkProofs ---------------------------
(***************************************************************************)
(* Proofs about ReplayWindow and UdpLink, for every id space, window,      *)
(* chunk size and number of datagrams.                                     *)
(*                                                                         *)
(* Everything rests on WindowExact, which relates the mask of the code to  *)
(* the history of accepted ids.  From it follows that the filter forgets   *)
(* nothing it needs (AcceptsExactly), that it implements the replay filter *)
(* with unbounded memory (FilterSpec), and, since a serial number belongs  *)
(* to one datagram only (NetInv), that no datagram is written twice.       *)
(***************************************************************************)
EXTENDS UdpLink, TLAPS

\* Bit b of the mask w says that id (highest - b) is in acc; nothing in acc
\* is above highest, and highest itself is in acc unless it is still 0.
Exact(w, acc) ==
  /\ \A b \in 0 .. WINDOW - 1 :
       b \in w.bits <=> b <= w.highest /\ w.highest - b \in acc
  /\ \A a \in acc : a <= w.highest
  /\ w.highest = 0 \/ w.highest \in acc

Windows == [highest : Nat, bits : SUBSET (0 .. WINDOW - 1)]

WindowExact == Exact(rx, accepted)

\* A serial number names one datagram, and none is ahead of sent.
NetInv ==
  /\ \A d \in net : d.serial <= sent
  /\ \A d, e \in net : d.serial = e.serial => d = e

\* What was written to the TUN stream was let through by accept_rx.
WriteInv ==
  \A s \in Serials :
    /\ writes[s] <= 1
    /\ writes[s] = 1 => \E d \in net : d.serial = s /\ d.id \in accepted

IInv == TypeOK /\ WindowExact /\ NetInv /\ WriteInv

-----------------------------------------------------------------------------
\* The mask alone: its verdict is that of a memory of every accepted id.
LEMMA AcceptsIsExact ==
  ASSUME NEW w \in Windows, NEW acc \in SUBSET Nat, Exact(w, acc), NEW id \in Nat
  PROVE  Accepts(w, id) <=> id \notin acc /\ \A a \in acc : a < id + WINDOW
<1> USE WindowIsPositive DEF Windows
<1>1. CASE id > w.highest
  BY <1>1 DEF Exact, Accepts
<1>2. CASE id <= w.highest
  <2>1. w.highest - id \in Nat
    BY <1>2
  <2>2. w.highest - id < WINDOW =>
          (w.highest - id \in w.bits <=> id \in acc)
    <3> SUFFICES ASSUME w.highest - id < WINDOW
                 PROVE  w.highest - id \in w.bits <=> id \in acc
      OBVIOUS
    <3> DEFINE b == w.highest - id
    <3>1. b \in 0 .. WINDOW - 1 /\ b <= w.highest /\ w.highest - b = id
      BY <2>1
    <3> QED BY <3>1 DEF Exact
  <2>3. w.highest - id < WINDOW <=> \A a \in acc : a < id + WINDOW
    BY <1>2 DEF Exact
  <2> QED BY <1>2, <2>2, <2>3 DEF Accepts
<1> QED BY <1>1, <1>2

\* accept_rx leaves a refused id's window alone, and keeps it exact.
LEMMA SlideIsExact ==
  ASSUME NEW w \in Windows, NEW acc \in SUBSET Nat, Exact(w, acc), NEW id \in Nat
  PROVE  /\ ~Accepts(w, id) => Slide(w, id) = w
         /\ Accepts(w, id) => /\ Slide(w, id) \in Windows
                              /\ Slide(w, id).highest \in {id, w.highest}
                              /\ Exact(Slide(w, id), acc \cup {id})
<1> USE WindowIsPositive DEF Windows
<1>1. CASE id > w.highest
  <2> DEFINE n == id - w.highest
             bits == {0} \cup (IF n >= WINDOW THEN {} ELSE ShiftLeft(w.bits, n))
  <2>1. Slide(w, id) = [highest |-> id, bits |-> bits] /\ Accepts(w, id)
    BY <1>1 DEF Slide, Accepts
  <2>2. n \in Nat /\ n > 0
    BY <1>1
  <2>3. bits \in SUBSET (0 .. WINDOW - 1)
    BY DEF ShiftLeft
  <2>4. ASSUME NEW b \in 0 .. WINDOW - 1
        PROVE  b \in bits <=> b <= id /\ id - b \in acc \cup {id}
    <3>1. CASE b = 0
      BY <3>1
    <3>2. CASE b > 0 /\ b < n
      <4>1. b \notin bits
        BY <3>2, <2>2 DEF ShiftLeft
      <4>2. id - b > w.highest /\ id - b # id
        BY <3>2, <2>2
      <4> QED BY <4>1, <4>2 DEF Exact
    <3>3. CASE b >= n
      <4>1. b \in bits <=> b - n \in w.bits
        BY <3>3, <2>2 DEF ShiftLeft
      <4>2. b - n \in 0 .. WINDOW - 1 /\ w.highest - (b - n) = id - b
        BY <3>3, <2>2
      <4>3. b - n \in w.bits <=> b - n <= w.highest /\ id - b \in acc
        BY <4>2 DEF Exact
      <4>4. id - b # id /\ (b - n <= w.highest <=> b <= id)
        BY <3>3, <2>2
      <4> QED BY <4>1, <4>3, <4>4
    <3> QED BY <3>1, <3>2, <3>3, <2>2
  <2>5. \A a \in acc \cup {id} : a <= id
    BY <1>1 DEF Exact
  <2> HIDE DEF bits
  <2> QED BY <2>1, <2>3, <2>4, <2>5 DEF Exact
<1>2. CASE id <= w.highest /\ Accepts(w, id)
  <2> DEFINE c == w.highest - id
  <2>1. Slide(w, id) = [w EXCEPT !.bits = @ \cup {c}]
    BY <1>2 DEF Slide
  <2>2. c \in 0 .. WINDOW - 1
    BY <1>2 DEF Accepts
  <2>3. ASSUME NEW b \in 0 .. WINDOW - 1
        PROVE  b \in w.bits \cup {c} <=>
                 b <= w.highest /\ w.highest - b \in acc \cup {id}
    <3>1. b = c <=> w.highest - b = id
      BY <1>2
    <3> QED BY <3>1, <1>2 DEF Exact
  <2>4. \A a \in acc \cup {id} : a <= w.highest
    BY <1>2 DEF Exact
  <2> HIDE DEF c
  <2> QED BY <1>2, <2>1, <2>2, <2>3, <2>4 DEF Exact
<1>3. CASE ~Accepts(w, id)
  <2>1. id <= w.highest
    BY <1>3 DEF Accepts
  <2> QED BY <1>3, <2>1 DEF Slide
<1> QED BY <1>1, <1>2, <1>3

-----------------------------------------------------------------------------
\* An id of a datagram is a natural number, and so are all accepted ones.
LEMMA IdsAreNat == Ids \subseteq Nat
  BY IdSpaceIsPositive DEF Ids

\* A received datagram leaves a window of the right type.
LEMMA RxTyped ==
  ASSUME TypeOK, WindowExact, NEW id \in Ids
  PROVE  Slide(rx, id) \in [highest : Ids, bits : SUBSET (0 .. WINDOW - 1)]
<1>1. rx \in Windows /\ accepted \in SUBSET Nat /\ id \in Nat
  BY IdsAreNat DEF TypeOK, Windows
<1>2. CASE Accepts(rx, id)
  <2>1. /\ Slide(rx, id) \in Windows
        /\ Slide(rx, id).highest \in {id, rx.highest}
    BY <1>1, <1>2, SlideIsExact DEF WindowExact
  <2>2. Slide(rx, id).highest \in Ids
    BY <2>1 DEF TypeOK
  <2> QED BY <2>1, <2>2 DEF Windows
<1>3. CASE ~Accepts(rx, id)
  BY <1>1, <1>3, SlideIsExact DEF WindowExact, TypeOK
<1> QED BY <1>2, <1>3

\* Every step keeps the types.
LEMMA TypeStep == TypeOK /\ WindowExact /\ [Next]_vars => TypeOK'
<1> SUFFICES ASSUME TypeOK, WindowExact, [Next]_vars
             PROVE  TypeOK'
  OBVIOUS
<1> USE ReadSizesArePositive, MaxPacketsIsNat DEF TypeOK, Datagram
<1>0. ChunkLen \in Nat /\ ChunkLen <= rest
  BY DEF ChunkLen, CHUNK, MAX_UDP_PAYLOAD, HEADER_SIZE, ENCRYPT_OVERHEAD, TAG_SIZE
<1>1. ASSUME NEW n \in ReadSizes, RelayRead(n)
      PROVE  TypeOK'
  BY <1>1 DEF RelayRead, receiverVars
<1>2. CASE RelaySend
  <2>1. (tx_counter + 1) % IdSpace \in Ids
    BY IdSpaceIsPositive DEF Ids
  <2>2. sent + 1 \in Serials
    BY <1>2 DEF RelaySend, Serials
  <2>3. rest - ChunkLen \in Nat
    BY <1>0
  <2> QED BY <1>2, <2>1, <2>2, <2>3 DEF RelaySend, receiverVars, Serials
<1>3. CASE RelaySkip
  BY <1>3, <1>0 DEF RelaySkip, receiverVars
<1>4. CASE RelayClose
  BY <1>4 DEF RelayClose, receiverVars
<1>5. ASSUME NEW d \in net, Receive(d)
      PROVE  TypeOK'
  BY <1>5, RxTyped DEF Receive, senderVars
<1>6. CASE ClientClose
  BY <1>6 DEF ClientClose, senderVars
<1>7. CASE UNCHANGED vars
  BY <1>7 DEF vars
<1> QED BY <1>1, <1>2, <1>3, <1>4, <1>5, <1>6, <1>7 DEF Next

\* Steps that leave the receiver alone only ever add a datagram with a new
\* serial number.
LEMMA SenderStep ==
  ASSUME IInv, UNCHANGED receiverVars,
         \/ UNCHANGED <<net, sent>>
         \/ RelaySend
  PROVE  WindowExact' /\ NetInv' /\ WriteInv'
<1>1. WindowExact'
  BY DEF IInv, WindowExact, receiverVars
<1>2. NetInv'
  BY MaxPacketsIsNat DEF IInv, NetInv, RelaySend, TypeOK, Datagram, Serials
<1>3. net \subseteq net'
  BY DEF RelaySend
<1>4. WriteInv'
  BY <1>3 DEF IInv, WriteInv, receiverVars
<1> QED BY <1>1, <1>2, <1>4

\* An accepted datagram was not written before: its id would be known.
LEMMA AcceptedIsUnwritten ==
  ASSUME IInv, NEW d \in net, Accepts(rx, d.id)
  PROVE  writes[d.serial] = 0
<1>1. rx \in Windows /\ accepted \in SUBSET Nat /\ d.id \in Nat /\ d.serial \in Serials
  BY IdsAreNat DEF IInv, TypeOK, Windows, Datagram
<1>2. d.id \notin accepted
  BY <1>1, AcceptsIsExact DEF IInv, WindowExact
<1>3. writes[d.serial] # 1
  BY <1>1, <1>2 DEF IInv, WriteInv, NetInv
<1>4. writes[d.serial] \in Nat /\ writes[d.serial] <= 1
  BY <1>1 DEF IInv, TypeOK, WriteInv
<1> QED BY <1>3, <1>4

\* A received datagram.
LEMMA ReceiveStep ==
  ASSUME IInv, NEW d \in net, Receive(d)
  PROVE  WindowExact' /\ NetInv' /\ WriteInv'
<1>1. rx \in Windows /\ accepted \in SUBSET Nat /\ d.id \in Nat /\ d.serial \in Serials
  BY IdsAreNat DEF IInv, TypeOK, Windows, Datagram
<1>2. NetInv'
  BY DEF IInv, NetInv, Receive, senderVars
<1>3. CASE ~Accepts(rx, d.id)
  <2>1. rx' = rx /\ UNCHANGED <<accepted, writes, net>>
    BY <1>1, <1>3, SlideIsExact DEF IInv, WindowExact, Receive, senderVars
  <2> QED BY <2>1, <1>2 DEF IInv, WindowExact, WriteInv
<1>4. CASE Accepts(rx, d.id)
  <2>1. /\ rx' = Slide(rx, d.id) /\ accepted' = accepted \cup {d.id}
        /\ net' = net
        /\ \/ writes' = [writes EXCEPT ![d.serial] = @ + 1]
           \/ writes' = writes
    BY <1>4 DEF Receive, senderVars
  <2>2. WindowExact'
    BY <1>1, <1>4, <2>1, SlideIsExact DEF IInv, WindowExact
  <2>3. WriteInv'
    <3> SUFFICES ASSUME NEW s \in Serials
                 PROVE  /\ writes'[s] <= 1
                        /\ writes'[s] = 1 =>
                             \E e \in net : e.serial = s /\ e.id \in accepted'
      BY <2>1 DEF WriteInv
    <3>1. writes[d.serial] = 0
      BY <1>4, AcceptedIsUnwritten
    <3>2. CASE s = d.serial
      BY <1>1, <2>1, <3>1, <3>2 DEF IInv, TypeOK
    <3>3. CASE s # d.serial
      <4>1. writes'[s] = writes[s]
        BY <1>1, <2>1, <3>3 DEF IInv, TypeOK
      <4> QED BY <2>1, <4>1 DEF IInv, WriteInv
    <3> QED BY <3>2, <3>3
  <2> QED BY <1>2, <2>2, <2>3
<1> QED BY <1>3, <1>4

LEMMA InvStep == IInv /\ [Next]_vars => IInv'
<1> SUFFICES ASSUME IInv, [Next]_vars
             PROVE  IInv'
  OBVIOUS
<1>t. TypeOK'
  BY TypeStep DEF IInv
<1> SUFFICES WindowExact' /\ NetInv' /\ WriteInv'
  BY <1>t DEF IInv
<1>1. ASSUME NEW n \in ReadSizes, RelayRead(n)
      PROVE  UNCHANGED receiverVars /\ UNCHANGED <<net, sent>>
  BY <1>1 DEF RelayRead, receiverVars
<1>2. CASE RelaySend
  BY <1>2, SenderStep DEF RelaySend
<1>3. CASE RelaySkip \/ RelayClose
  BY <1>3, SenderStep DEF RelaySkip, RelayClose
<1>4. ASSUME NEW d \in net, Receive(d)
      PROVE  WindowExact' /\ NetInv' /\ WriteInv'
  BY <1>4, ReceiveStep
<1>5. CASE ClientClose
  BY <1>5 DEF ClientClose, senderVars, IInv, WindowExact, NetInv, WriteInv
<1>6. CASE UNCHANGED vars
  BY <1>6, SenderStep DEF vars, receiverVars
<1> QED BY <1>1, <1>2, <1>3, <1>4, <1>5, <1>6, SenderStep DEF Next

LEMMA Invariance == Spec => []IInv
<1>1. Init => IInv
  BY WindowIsPositive, IdSpaceIsPositive, MaxPacketsIsNat
  DEF Init, IInv, TypeOK, WindowExact, Exact, NetInv, WriteInv, NewWindow, Ids,
      Serials, Datagram
<1> QED
  BY <1>1, InvStep, PTL DEF Spec

\* TypeOK: the ids stay in the id space and the mask in its word.
THEOREM TypeCorrect == Spec => []TypeOK
<1>1. IInv => TypeOK
  BY DEF IInv
<1> QED BY <1>1, Invariance, PTL

\* AtMostOnce: no datagram is written to the TUN stream twice, however often
\* and in whatever order the network delivers.
THEOREM DuplicatesAreDropped == Spec => []AtMostOnce
<1>1. IInv => AtMostOnce
  BY DEF IInv, WriteInv, AtMostOnce
<1> QED BY <1>1, Invariance, PTL

\* AcceptsExactly: the verdict of accept_rx is that of a filter that never
\* forgets.
THEOREM WindowLosesNothing == Spec => []AcceptsExactly
<1>1. IInv => AcceptsExactly
  <2> SUFFICES ASSUME IInv, NEW id \in Ids
               PROVE  Accepts(rx, id) <=> Filter!MayAccept(id)
    BY DEF AcceptsExactly
  <2>1. rx \in Windows /\ accepted \in SUBSET Nat /\ id \in Nat
    BY IdsAreNat DEF IInv, TypeOK, Windows
  <2> QED
    BY <2>1, AcceptsIsExact DEF IInv, WindowExact, Filter!MayAccept, Filter!Recent
<1> QED BY <1>1, Invariance, PTL

\* FilterSpec: the client's filter implements AntiReplay.
THEOREM ImplementsAntiReplay == Spec => FilterSpec
<1>1. Init => Filter!Init
  BY DEF Init, Filter!Init
<1>2. IInv /\ [Next]_vars => [Filter!Next]_<<accepted, passed>>
  <2> SUFFICES ASSUME IInv, [Next]_vars
               PROVE  Filter!Next \/ UNCHANGED <<accepted, passed>>
    OBVIOUS
  <2>1. ASSUME NEW d \in net, Receive(d), Accepts(rx, d.id)
        PROVE  Filter!Next
    <3>1. rx \in Windows /\ accepted \in SUBSET Nat /\ d.id \in Ids /\ d.id \in Nat
      BY IdsAreNat DEF IInv, TypeOK, Windows, Datagram
    <3>2. Filter!MayAccept(d.id)
      BY <2>1, <3>1, AcceptsIsExact
      DEF IInv, WindowExact, Filter!MayAccept, Filter!Recent
    <3>3. Filter!Accept(d.id)
      BY <2>1, <3>2 DEF Receive, Filter!Accept
    <3> QED BY <3>1, <3>3 DEF Filter!Next
  <2>2. ASSUME NEW d \in net, Receive(d), ~Accepts(rx, d.id)
        PROVE  UNCHANGED <<accepted, passed>>
    BY <2>2 DEF Receive
  <2> QED
    BY <2>1, <2>2 DEF Next, vars, RelayRead, RelaySend, RelaySkip, RelayClose,
       ClientClose, receiverVars
<1> QED
  BY <1>1, <1>2, Invariance, PTL DEF Spec, FilterSpec, Filter!Spec
=============================================================================
