-------------------------- MODULE SealedRelayProofs --------------------------
(***************************************************************************)
(* Proofs about SealedRelay, for every number of chunks, batch and         *)
(* capacity.                                                               *)
(*                                                                         *)
(* The k-th packet an end seals carries the counter k, so no nonce         *)
(* repeats. The same counter is why chunks arrive in order. There is a     *)
(* plan f, known only afterwards: f[k] chunks were sealed before packet k. *)
(* A packet under way carries the chunks from f[k] + 1 to f[k + 1]; an end *)
(* opens only the packet its own counter names, and what it has delivered  *)
(* is the first f[counter] chunks. Nothing need be known of what select!   *)
(* cancels or of how the framing is lost: units disappear from the wire,   *)
(* and every conjunct survives that.                                       *)
(*                                                                         *)
(* What the preface leaves behind is a question of the handshake alone:    *)
(* for every pair of phases that the two ends can be in, ToClient and      *)
(* ToServer name the frames under way, one by one. The types need both,    *)
(* the plan for the chunks and the handshake for the capacity.             *)
(***************************************************************************)
EXTENDS SealedRelay, SequenceTheorems, TLAPS

Elements(s) == {s[i] : i \in 1 .. Len(s)}

\* Chunks a + 1 to b.
Run(a, b) == [i \in 1 .. b - a |-> a + i]

PlainUnits ==
  [part : {"body"}, kind : Prefaces \cup {"junk", "challenge", "response"}]
SealedUnits ==
  [part : {"body"}, kind : {"target", "data"}, counter : Nat,
   seq : 0 .. RtpMod - 1, chunks : Seq(Nat), fits : BOOLEAN]
AnyUnit == {HEAD} \cup PlainUnits \cup SealedUnits

CipherTypes ==
  /\ tx \in [Sides -> [counter : Nat, seq : 0 .. RtpMod - 1]]
  /\ sealed \in [Sides -> Seq(Nat \X (0 .. RtpMod - 1))]

\* The nonces of an end are numbered.
Numbered ==
  \A side \in Sides :
    /\ Len(sealed[side]) = tx[side].counter
    /\ \A i \in 1 .. Len(sealed[side]) : sealed[side][i][1] = i - 1

-----------------------------------------------------------------------------
(* Nonces.                                                                 *)

LEMMA AdvanceNumbers ==
  ASSUME CipherTypes, Numbered, NEW side \in Sides, Advance(side)
  PROVE  CipherTypes' /\ Numbered'
<1> DEFINE counter == tx[side].counter
           seq == tx[side].seq
<1>1. counter \in Nat /\ seq \in 0 .. RtpMod - 1 /\ RtpMod \in Nat \ {0}
  BY RelayAssumption DEF CipherTypes
<1>2. NextSeq(seq) \in 0 .. RtpMod - 1
  BY <1>1 DEF NextSeq
<1>3. tx' = [tx EXCEPT ![side] = [counter |-> counter + 1, seq |-> NextSeq(seq)]]
  BY DEF Advance
<1>4. sealed' = [sealed EXCEPT ![side] = Append(@, <<counter, seq>>)]
  BY DEF Advance, Nonce
<1>5. sealed[side] \in Seq(Nat \X (0 .. RtpMod - 1)) /\ <<counter, seq>> \in Nat \X (0 .. RtpMod - 1)
  BY <1>1 DEF CipherTypes
<1>6. CipherTypes'
  <2>1. [counter |-> counter + 1, seq |-> NextSeq(seq)] \in [counter : Nat, seq : 0 .. RtpMod - 1]
    BY <1>1, <1>2
  <2>2. Append(sealed[side], <<counter, seq>>) \in Seq(Nat \X (0 .. RtpMod - 1))
    BY <1>5
  <2> HIDE DEF counter, seq
  <2> QED
    BY <1>3, <1>4, <2>1, <2>2 DEF CipherTypes
<1>7. tx'[side].counter = counter + 1 /\ sealed'[side] = Append(sealed[side], <<counter, seq>>)
  BY <1>3, <1>4 DEF CipherTypes
<1>8. Len(sealed[side]) = counter /\ \A i \in 1 .. Len(sealed[side]) : sealed[side][i][1] = i - 1
  BY DEF Numbered
<1>9. /\ Len(sealed'[side]) = counter + 1
      /\ \A i \in 1 .. Len(sealed'[side]) : sealed'[side][i][1] = i - 1
  <2>1. Len(sealed'[side]) = counter + 1
    BY <1>5, <1>7, <1>8
  <2>2. \A i \in 1 .. counter : sealed'[side][i] = sealed[side][i]
    BY <1>5, <1>7, <1>8
  <2>3. sealed'[side][counter + 1] = <<counter, seq>>
    BY <1>5, <1>7, <1>8
  <2>4. sealed'[side][counter + 1][1] = counter + 1 - 1
    BY <1>1, <2>3
  <2> HIDE DEF counter, seq
  <2>5. ASSUME NEW i \in 1 .. Len(sealed'[side])
        PROVE  sealed'[side][i][1] = i - 1
    <3>1. i \in 1 .. counter \/ i = counter + 1
      BY <1>1, <2>1
    <3>2. CASE i \in 1 .. counter
      <4>1. i \in 1 .. Len(sealed[side])
        BY <1>8, <3>2
      <4>2. sealed[side][i][1] = i - 1
        BY <1>8, <4>1
      <4>3. sealed'[side][i] = sealed[side][i]
        BY <2>2, <3>2
      <4> QED
        BY <4>2, <4>3
    <3>3. CASE i = counter + 1
      BY <1>1, <2>3, <3>3
    <3> QED
      BY <3>1, <3>2, <3>3
  <2> QED
    BY <2>1, <2>5
<1>10. \A s \in Sides : s # side => tx'[s] = tx[s] /\ sealed'[s] = sealed[s]
  BY <1>3, <1>4 DEF CipherTypes
<1>11. ASSUME NEW s \in Sides
       PROVE  /\ Len(sealed'[s]) = tx'[s].counter
              /\ \A i \in 1 .. Len(sealed'[s]) : sealed'[s][i][1] = i - 1
  <2>1. CASE s = side
    BY <1>7, <1>9, <2>1
  <2>2. CASE s # side
    BY <1>10, <2>2 DEF Numbered
  <2> QED
    BY <2>1, <2>2
<1> QED
  BY <1>6, <1>11 DEF Numbered

\* Every step seals with its own number, or does not seal.
LEMMA WhoSeals ==
  ASSUME Next
  PROVE  (\E side \in Sides : Advance(side)) \/ UNCHANGED <<tx, sealed>>
<1> USE DEF ciphers, Sides
<1>1. CASE Connect \/ ConnectFails \/ HeadersRead \/ ResponseRead
  BY <1>1 DEF Connect, ConnectFails, HeadersRead, ResponseRead
<1>2. CASE ServerStep
  BY <1>2 DEF ServerStep, PrefaceRead, ServerHandshake, PeerMatched, NoPeerMatches, TargetRead,
              TargetConnects, TargetRefuses
<1>3. ASSUME NEW side \in Sides, SideStep(side) \/ Produce(side) \/ Close(side)
      PROVE  Advance(side) \/ UNCHANGED <<tx, sealed>>
  BY <1>3 DEF SideStep, Produce, Close, SettingsRead, JunkRead, HandshakeEof, TakeLocal, LocalEnds,
              Send, RecvHead, RecvBody, RecvGarbage, RecvEof, Deliver
<1> QED
  BY <1>1, <1>2, <1>3 DEF Next

LEMMA InitNumbered == Init => CipherTypes /\ Numbered
<1> SUFFICES ASSUME Init PROVE CipherTypes /\ Numbered
  OBVIOUS
<1>1. tx \in [Sides -> [counter : {0}, seq : 0 .. RtpMod - 1]] /\ sealed = [side \in Sides |-> <<>>]
  BY DEF Init
<1>2. \A side \in Sides : tx[side] \in [counter : {0}, seq : 0 .. RtpMod - 1]
  BY <1>1
<1>3. \A side \in Sides : tx[side].counter = 0 /\ tx[side] \in [counter : Nat, seq : 0 .. RtpMod - 1]
  BY <1>2
<1>4. CipherTypes
  BY <1>1, <1>3 DEF CipherTypes
<1> QED
  BY <1>1, <1>3, <1>4 DEF Numbered

LEMMA StepNumbered == CipherTypes /\ Numbered /\ [Next]_vars => (CipherTypes /\ Numbered)'
<1> SUFFICES ASSUME CipherTypes, Numbered, [Next]_vars
             PROVE  (CipherTypes /\ Numbered)'
  OBVIOUS
<1>1. CASE UNCHANGED <<tx, sealed>>
  BY <1>1 DEF CipherTypes, Numbered
<1>2. CASE \E side \in Sides : Advance(side)
  BY <1>2, AdvanceNumbers
<1> QED
  BY <1>1, <1>2, WhoSeals DEF vars, ciphers

\* No nonce repeats under one key, at whatever number the RTP sequence starts
\* and however often it wraps.
THEOREM NoncesAreUnique == Spec => []NonceOnce
<1>1. CipherTypes /\ Numbered => NonceOnce
  <2> SUFFICES ASSUME CipherTypes, Numbered, NEW side \in Sides,
                      NEW i \in 1 .. Len(sealed[side]), NEW j \in 1 .. Len(sealed[side]),
                      sealed[side][i] = sealed[side][j]
               PROVE  i = j
    BY DEF NonceOnce
  <2>1. sealed[side][i][1] = i - 1 /\ sealed[side][j][1] = j - 1
    BY DEF Numbered
  <2> QED
    BY <2>1
<1> QED
  BY <1>1, InitNumbered, StepNumbered, PTL DEF Spec

-----------------------------------------------------------------------------
(* Sequences.                                                              *)

LEMMA TailElements ==
  ASSUME NEW S, NEW s \in Seq(S), s # <<>>
  PROVE  /\ Head(s) \in Elements(s) /\ Head(s) \in S
         /\ Tail(s) \in Seq(S)
         /\ Elements(Tail(s)) \subseteq Elements(s)
<1>1. Head(s) = s[1] /\ 1 \in 1 .. Len(s) /\ s[1] \in S
  OBVIOUS
<1>2. Tail(s) \in Seq(S) /\ Len(Tail(s)) = Len(s) - 1 /\ Len(s) \in Nat
  OBVIOUS
<1>3. \A i \in 1 .. Len(Tail(s)) : Tail(s)[i] = s[i + 1] /\ i + 1 \in 1 .. Len(s)
  BY <1>2
<1> QED
  BY <1>1, <1>2, <1>3 DEF Elements

LEMMA ConcatElements ==
  ASSUME NEW S, NEW s \in Seq(S), NEW t \in Seq(S)
  PROVE  /\ s \o t \in Seq(S)
         /\ Elements(s \o t) \subseteq Elements(s) \cup Elements(t)
<1>1. s \o t \in Seq(S) /\ Len(s \o t) = Len(s) + Len(t) /\ Len(s) \in Nat /\ Len(t) \in Nat
  OBVIOUS
<1>2. ASSUME NEW i \in 1 .. Len(s \o t)
      PROVE  (s \o t)[i] \in Elements(s) \cup Elements(t)
  <2>1. CASE i <= Len(s)
    <3>1. (s \o t)[i] = s[i] /\ i \in 1 .. Len(s)
      BY <1>1, <2>1
    <3> QED
      BY <3>1 DEF Elements
  <2>2. CASE i > Len(s)
    <3>1. (s \o t)[i] = t[i - Len(s)] /\ i - Len(s) \in 1 .. Len(t)
      BY <1>1, <2>2
    <3> QED
      BY <3>1 DEF Elements
  <2> QED
    BY <1>1, <2>1, <2>2
<1> QED
  BY <1>1, <1>2 DEF Elements

LEMMA SuffixElements ==
  ASSUME NEW S, NEW s \in Seq(S), NEW m \in Nat \ {0}
  PROVE  /\ SubSeq(s, m, Len(s)) \in Seq(S)
         /\ Elements(SubSeq(s, m, Len(s))) \subseteq Elements(s)
<1> DEFINE t == SubSeq(s, m, Len(s))
<1>1. t \in Seq(S) /\ Len(s) \in Nat
  OBVIOUS
<1>2. \A i \in 1 .. Len(t) : t[i] = s[m + i - 1] /\ m + i - 1 \in 1 .. Len(s)
  BY <1>1
<1> QED
  BY <1>1, <1>2 DEF Elements

LEMMA AppendElements ==
  ASSUME NEW S, NEW s \in Seq(S), NEW u \in S
  PROVE  /\ Append(s, u) \in Seq(S)
         /\ Elements(Append(s, u)) \subseteq Elements(s) \cup {u}
<1>1. Append(s, u) \in Seq(S) /\ Len(Append(s, u)) = Len(s) + 1 /\ Len(s) \in Nat
  OBVIOUS
<1>2. \A i \in 1 .. Len(s) + 1 : Append(s, u)[i] = IF i = Len(s) + 1 THEN u ELSE s[i]
  OBVIOUS
<1>3. \A i \in 1 .. Len(s) + 1 : i = Len(s) + 1 \/ i \in 1 .. Len(s)
  BY <1>1
<1> QED
  BY <1>1, <1>2, <1>3 DEF Elements

LEMMA FrameElements ==
  ASSUME NEW u \in AnyUnit
  PROVE  Frame(u) \in Seq(AnyUnit) /\ Elements(Frame(u)) = {HEAD, u} /\ Frame(u) # <<>>
<1>1. HEAD \in AnyUnit
  BY DEF AnyUnit
<1>2. Len(Frame(u)) = 2 /\ Frame(u)[1] = HEAD /\ Frame(u)[2] = u
  BY DEF Frame
<1>3. Frame(u) \in Seq(AnyUnit)
  BY <1>1 DEF Frame
<1>4. Elements(Frame(u)) = {HEAD, u}
  <2>1. 1 .. Len(Frame(u)) = {1, 2}
    BY <1>2
  <2>2. \A v : v \in Elements(Frame(u)) <=> v = Frame(u)[1] \/ v = Frame(u)[2]
    BY <2>1 DEF Elements
  <2> QED
    BY <1>2, <2>2
<1> QED
  BY <1>2, <1>3, <1>4

\* Chunks in order, appended, cut and taken on.
LEMMA RunTypes ==
  ASSUME NEW a \in Nat, NEW b \in Nat, a <= b
  PROVE  Run(a, b) \in Seq(Nat) /\ Len(Run(a, b)) = b - a
BY DEF Run

LEMMA RunAppend ==
  ASSUME NEW a \in Nat, NEW b \in Nat, a <= b
  PROVE  Append(Run(a, b), b + 1) = Run(a, b + 1)
<1>1. Run(a, b) \in Seq(Nat) /\ Len(Run(a, b)) = b - a
  BY RunTypes
<1>2. Run(a, b + 1) \in Seq(Nat) /\ Len(Run(a, b + 1)) = b + 1 - a
  <2>1. b + 1 \in Nat /\ a <= b + 1
    OBVIOUS
  <2> QED
    BY <2>1, RunTypes
<1>3. Append(Run(a, b), b + 1) \in Seq(Nat) /\ Len(Append(Run(a, b), b + 1)) = b - a + 1
  BY <1>1
<1>4. \A i \in 1 .. b - a + 1 : Append(Run(a, b), b + 1)[i] = a + i
  <2>1. \A i \in 1 .. b - a : Append(Run(a, b), b + 1)[i] = Run(a, b)[i] /\ Run(a, b)[i] = a + i
    BY <1>1 DEF Run
  <2>2. Append(Run(a, b), b + 1)[b - a + 1] = b + 1
    BY <1>1
  <2> DEFINE s == Append(Run(a, b), b + 1)
  <2>3. \A i \in 1 .. b - a : s[i] = a + i
    BY <2>1
  <2>4. s[b - a + 1] = b + 1
    BY <2>2
  <2> HIDE DEF s
  <2>5. \A i \in 1 .. b - a + 1 : i \in 1 .. b - a \/ i = b - a + 1
    OBVIOUS
  <2>6. a + (b - a + 1) = b + 1
    OBVIOUS
  <2>7. \A i \in 1 .. b - a + 1 : s[i] = a + i
    BY <2>3, <2>4, <2>5, <2>6
  <2> QED
    BY <2>7 DEF s
<1>5. \A i \in 1 .. b - a + 1 : Run(a, b + 1)[i] = a + i
  BY DEF Run
<1> QED
  <2> DEFINE s == Append(Run(a, b), b + 1)
             t == Run(a, b + 1)
  <2>1. s \in Seq(Nat) /\ t \in Seq(Nat) /\ Len(s) = b - a + 1 /\ Len(t) = b - a + 1
    BY <1>2, <1>3
  <2>2. \A i \in 1 .. b - a + 1 : s[i] = t[i]
    BY <1>4, <1>5
  <2> HIDE DEF s, t
  <2>3. Len(s) = Len(t) /\ \A i \in 1 .. Len(s) : s[i] = t[i]
    BY <2>1, <2>2
  <2>4. s = t
    BY <2>1, <2>3, SeqEqual
  <2> QED
    BY <2>4 DEF s, t

LEMMA RunConcat ==
  ASSUME NEW a \in Nat, NEW b \in Nat, NEW c \in Nat, a <= b, b <= c
  PROVE  Run(a, b) \o Run(b, c) = Run(a, c)
<1>1. Run(a, b) \in Seq(Nat) /\ Len(Run(a, b)) = b - a
  BY RunTypes
<1>2. Run(b, c) \in Seq(Nat) /\ Len(Run(b, c)) = c - b
  BY RunTypes
<1>3. Run(a, c) \in Seq(Nat) /\ Len(Run(a, c)) = c - a
  <2>1. a <= c
    OBVIOUS
  <2> QED
    BY <2>1, RunTypes
<1> DEFINE s == Run(a, b) \o Run(b, c)
<1>4. /\ s \in Seq(Nat) /\ Len(s) = c - a
      /\ \A i \in 1 .. c - a : s[i] = IF i <= b - a THEN Run(a, b)[i] ELSE Run(b, c)[i - (b - a)]
  <2>1. /\ s \in Seq(Nat) /\ Len(s) = Len(Run(a, b)) + Len(Run(b, c))
        /\ \A i \in 1 .. Len(Run(a, b)) + Len(Run(b, c)) :
             s[i] = IF i <= Len(Run(a, b)) THEN Run(a, b)[i] ELSE Run(b, c)[i - Len(Run(a, b))]
    BY <1>1, <1>2, ConcatProperties
  <2>2. Len(Run(a, b)) + Len(Run(b, c)) = c - a
    BY <1>1, <1>2
  <2> HIDE DEF s
  <2> QED
    BY <1>1, <2>1, <2>2
<1> HIDE DEF s
<1>5. ASSUME NEW i \in 1 .. c - a
      PROVE  s[i] = Run(a, c)[i]
  <2>1. Run(a, c)[i] = a + i
    BY DEF Run
  <2>2. CASE i <= b - a
    <3>1. Run(a, b)[i] = a + i
      BY <2>2 DEF Run
    <3> QED
      BY <1>4, <2>1, <2>2, <3>1
  <2>3. CASE ~(i <= b - a)
    <3>1. i - (b - a) \in 1 .. c - b
      BY <2>3
    <3>2. Run(b, c)[i - (b - a)] = b + (i - (b - a))
      BY <3>1 DEF Run
    <3>3. b + (i - (b - a)) = a + i
      OBVIOUS
    <3> QED
      BY <1>4, <2>1, <2>3, <3>2, <3>3
  <2> QED
    BY <2>2, <2>3
<1>6. s = Run(a, c)
  BY <1>3, <1>4, <1>5, SeqEqual
<1> QED
  BY <1>6 DEF s

LEMMA RunCut ==
  ASSUME NEW a \in Nat, NEW b \in Nat, a <= b, NEW n \in 0 .. b - a
  PROVE  /\ SubSeq(Run(a, b), 1, n) = Run(a, a + n)
         /\ SubSeq(Run(a, b), n + 1, Len(Run(a, b))) = Run(a + n, b)
<1>1. Run(a, b) \in Seq(Nat) /\ Len(Run(a, b)) = b - a
  BY RunTypes
<1>2. a + n \in Nat /\ a <= a + n /\ a + n <= b
  OBVIOUS
<1>3. Run(a, a + n) \in Seq(Nat) /\ Len(Run(a, a + n)) = n
  BY <1>2, RunTypes
<1>4. Run(a + n, b) \in Seq(Nat) /\ Len(Run(a + n, b)) = b - a - n
  BY <1>2, RunTypes
<1>5. \A i \in 1 .. b - a : Run(a, b)[i] = a + i
  BY DEF Run
<1>6. SubSeq(Run(a, b), 1, n) = Run(a, a + n)
  <2>1. SubSeq(Run(a, b), 1, n) \in Seq(Nat) /\ Len(SubSeq(Run(a, b), 1, n)) = n
    BY <1>1
  <2>2. \A i \in 1 .. n : SubSeq(Run(a, b), 1, n)[i] = a + i
    BY <1>1, <1>5
  <2>3. \A i \in 1 .. n : Run(a, a + n)[i] = a + i
    BY DEF Run
  <2> QED
    BY <1>3, <2>1, <2>2, <2>3, SeqEqual
<1>7. SubSeq(Run(a, b), n + 1, b - a) = Run(a + n, b)
  <2>1. SubSeq(Run(a, b), n + 1, b - a) \in Seq(Nat) /\ Len(SubSeq(Run(a, b), n + 1, b - a)) = b - a - n
    BY <1>1
  <2>2. \A i \in 1 .. b - a - n : SubSeq(Run(a, b), n + 1, b - a)[i] = a + n + i
    BY <1>1, <1>5
  <2>3. \A i \in 1 .. b - a - n : Run(a + n, b)[i] = a + n + i
    BY DEF Run
  <2> QED
    BY <1>4, <2>1, <2>2, <2>3, SeqEqual
<1> QED
  BY <1>1, <1>6, <1>7

-----------------------------------------------------------------------------
(* The invariant.                                                          *)

PhaseNames == Prefaces \cup {"start", "junk", "challenge", "response", "target",
                             "connect", "relay", "ended"}

Types ==
  /\ phase \in [Sides -> PhaseNames]
  /\ wire \in [Sides -> Seq(AnyUnit)]
  /\ held \in [Sides -> Seq(AnyUnit)]
  /\ task \in [Sides -> {"select", "send", "deliver"}]
  /\ rx \in [Sides -> Nat]
  /\ inbox \in [Sides -> Seq(Nat)]
  /\ made \in [Sides -> Nat]
  /\ delivered \in [Sides -> Seq(Nat)]

\* A branch body has something to do, and runs only in the relay.
Busy ==
  /\ \A side \in Sides :
       /\ task[side] # "select" => held[side] # <<>>
       /\ phase[side] \notin {"relay", "ended"} => task[side] = "select"
  /\ phase["client"] = "start" => phase["server"] = "start"

\* A packet that follows the plan g of the end that sealed it.
Planned(side, g, u) ==
  /\ u.counter < tx[side].counter
  /\ u.chunks = Run(g[u.counter], g[u.counter + 1])
  /\ u.kind = "target" => u.chunks = <<>>

Grows(g, k) == \A i, j \in 0 .. k : i <= j => g[i] <= g[j]

\* What the sending end has, and what is under way.
SenderFollows(side, g) ==
  LET k == tx[side].counter
  IN  /\ Grows(g, k)
      /\ g[k] <= made[side] /\ inbox[side] = Run(g[k], made[side])
      /\ \A u \in Elements(wire[side]) : IsSealed(u) => Planned(side, g, u)
      /\ task[side] = "send" => \A u \in Elements(held[side]) : IsSealed(u) => Planned(side, g, u)

\* What the receiving end has delivered, and what it is about to.
ReceiverFollows(side, g) ==
  /\ rx[side] <= tx[Other(side)].counter
  /\ task[side] # "deliver" => delivered[side] = Run(0, g[rx[side]])
  /\ task[side] = "deliver" =>
       /\ rx[side] > 0 /\ delivered[side] = Run(0, g[rx[side] - 1])
       /\ held[side][1].chunks = Run(g[rx[side] - 1], g[rx[side]])

Follows(side, g) == SenderFollows(side, g) /\ ReceiverFollows(Other(side), g)

Plans == [Nat -> Nat]

Order == \A side \in Sides : \E g \in Plans : Follows(side, g)

IInv == CipherTypes /\ Types /\ Busy /\ Order

\* The unit next on the wire, and what is left of it, are of the right kind.
LEMMA UnitTypes ==
  ASSUME NEW u \in AnyUnit
  PROVE  IsSealed(u) => /\ u \in SealedUnits /\ u.counter \in Nat /\ u.chunks \in Seq(Nat)
                        /\ u # HEAD
<1>1. u \in PlainUnits => ~IsSealed(u)
  BY DEF PlainUnits, IsSealed, Prefaces
<1>2. u = HEAD => ~IsSealed(u)
  BY DEF HEAD, IsSealed
<1>3. u \in SealedUnits => u.counter \in Nat /\ u.chunks \in Seq(Nat)
  BY DEF SealedUnits
<1> QED
  BY <1>1, <1>2, <1>3 DEF AnyUnit

\* What an end seals is a unit, and no part of the handshake is a sealed one.
LEMMA SealedTypes ==
  ASSUME CipherTypes, NEW side \in Sides, NEW kind \in {"target", "data"},
         NEW chunks \in Seq(Nat), NEW fits \in BOOLEAN
  PROVE  /\ Sealed(side, kind, chunks, fits) \in AnyUnit
         /\ IsSealed(Sealed(side, kind, chunks, fits))
<1>1. tx[side].counter \in Nat /\ tx[side].seq \in 0 .. RtpMod - 1
  BY DEF CipherTypes
<1> QED
  BY <1>1 DEF Sealed, IsSealed, AnyUnit, SealedUnits

PlainKinds == Prefaces \cup {"junk", "challenge", "response"}

LEMMA PlainTypes ==
  ASSUME NEW kind \in PlainKinds
  PROVE  Plain(kind) \in AnyUnit /\ ~IsSealed(Plain(kind)) /\ ~IsSealed(HEAD)
BY DEF PlainKinds, Plain, AnyUnit, PlainUnits, IsSealed, Prefaces, HEAD

Unsealed(s) == s \in Seq(AnyUnit) /\ \A u \in Elements(s) : ~IsSealed(u)

LEMMA FrameUnsealed ==
  ASSUME NEW kind \in PlainKinds
  PROVE  Unsealed(Frame(Plain(kind)))
BY PlainTypes, FrameElements DEF Unsealed

LEMMA ConcatUnsealed ==
  ASSUME NEW s, NEW t, Unsealed(s), Unsealed(t)
  PROVE  Unsealed(s \o t)
<1>1. s \o t \in Seq(AnyUnit) /\ Elements(s \o t) \subseteq Elements(s) \cup Elements(t)
  BY ConcatElements DEF Unsealed
<1> QED
  BY <1>1 DEF Unsealed

LEMMA PrefacesUnsealed ==
  /\ Unsealed(ClientPreface)
  /\ Unsealed(ServerPreface)
  /\ Unsealed(Frame(Plain("junk")) \o Frame(Plain("challenge")))
  /\ Unsealed(Frame(Plain("junk")) \o Frame(Plain("response")))
<1>1. \A kind \in PlainKinds : Unsealed(Frame(Plain(kind)))
  BY FrameUnsealed
<1>2. {"preface", "settings", "headers", "junk", "challenge", "response"} \subseteq PlainKinds
  BY DEF PlainKinds, Prefaces
<1>3. Unsealed(<<Plain("preface")>>)
  <2>1. Plain("preface") \in AnyUnit /\ ~IsSealed(Plain("preface"))
    BY <1>2, PlainTypes
  <2>2. <<Plain("preface")>> \in Seq(AnyUnit) /\ Elements(<<Plain("preface")>>) = {Plain("preface")}
    BY <2>1 DEF Elements
  <2> QED
    BY <2>1, <2>2 DEF Unsealed
<1>4. Unsealed(ClientPreface)
  <2>1. Unsealed(<<Plain("preface")>> \o Frame(Plain("settings")))
    BY <1>1, <1>2, <1>3, ConcatUnsealed
  <2> QED
    BY <1>1, <1>2, <2>1, ConcatUnsealed DEF ClientPreface
<1>5. Unsealed(ServerPreface)
  <2>1. Unsealed(Frame(Plain("settings")) \o Frame(Plain("settings")))
    BY <1>1, <1>2, ConcatUnsealed
  <2> QED
    BY <1>1, <1>2, <2>1, ConcatUnsealed DEF ServerPreface
<1> QED
  BY <1>1, <1>2, <1>4, <1>5, ConcatUnsealed

-----------------------------------------------------------------------------
(* Steps that only lose what is under way, or add to it what is not sealed. *)

Loses(s, t) == t \in Seq(AnyUnit) /\ \A u \in Elements(t) : IsSealed(u) => u \in Elements(s)

WireLoses == wire' \in [Sides -> Seq(AnyUnit)] /\ \A side \in Sides : Loses(wire[side], wire'[side])

Quiet == WireLoses /\ UNCHANGED <<task, held, tx, rx, inbox, made, delivered, sealed>>

LEMMA LosesSelf ==
  ASSUME NEW s \in Seq(AnyUnit)
  PROVE  Loses(s, s)
BY DEF Loses

LEMMA LosesTail ==
  ASSUME NEW s \in Seq(AnyUnit), s # <<>>
  PROVE  Loses(s, Tail(s))
BY TailElements DEF Loses

LEMMA LosesFrame ==
  ASSUME NEW s \in Seq(AnyUnit)
  PROVE  Loses(s, SubSeq(s, 3, Len(s)))
<1>1. /\ SubSeq(s, 3, Len(s)) \in Seq(AnyUnit)
      /\ Elements(SubSeq(s, 3, Len(s))) \subseteq Elements(s)
  <2>1. 3 \in Nat \ {0}
    OBVIOUS
  <2> QED
    BY <2>1, SuffixElements
<1> QED
  BY <1>1 DEF Loses

LEMMA LosesUnsealed ==
  ASSUME NEW s \in Seq(AnyUnit), NEW t, Unsealed(t)
  PROVE  Loses(s, t) /\ Loses(s, s \o t)
<1>1. s \o t \in Seq(AnyUnit) /\ Elements(s \o t) \subseteq Elements(s) \cup Elements(t)
  BY ConcatElements DEF Unsealed
<1> QED
  BY <1>1 DEF Loses, Unsealed

\* One direction changes.
LEMMA OneWire ==
  ASSUME Types, NEW side \in Sides, NEW t, Loses(wire[side], t), wire' = [wire EXCEPT ![side] = t]
  PROVE  WireLoses
<1>1. wire' \in [Sides -> Seq(AnyUnit)]
  BY DEF Types, Loses
<1>2. \A s \in Sides : wire'[s] = IF s = side THEN t ELSE wire[s]
  BY DEF Types
<1>3. \A s \in Sides : Loses(wire[s], wire[s])
  BY LosesSelf DEF Types
<1> QED
  BY <1>1, <1>2, <1>3 DEF WireLoses

\* Both change.
LEMMA TwoWires ==
  ASSUME Types, NEW t, Loses(wire["client"], t), NEW v, Loses(wire["server"], v),
         wire' = [client |-> t, server |-> v]
  PROVE  WireLoses
<1>1. t \in Seq(AnyUnit) /\ v \in Seq(AnyUnit)
  BY DEF Loses
<1>2. wire' \in [Sides -> Seq(AnyUnit)]
  BY <1>1 DEF Sides
<1>3. wire'["client"] = t /\ wire'["server"] = v
  OBVIOUS
<1> QED
  BY <1>2, <1>3 DEF WireLoses, Sides

LEMMA NoWire ==
  ASSUME Types, UNCHANGED wire
  PROVE  WireLoses
BY LosesSelf DEF Types, WireLoses

LEMMA WireTypes ==
  ASSUME Types, NEW side \in Sides
  PROVE  /\ Other(side) \in Sides /\ wire[Other(side)] \in Seq(AnyUnit)
         /\ Incoming(side) = wire[Other(side)]
         /\ Loses(Incoming(side), Consumed(side))
         /\ Incoming(side) # <<>> => Loses(Incoming(side), Tail(Incoming(side)))
<1>1. Other(side) \in Sides /\ wire[Other(side)] \in Seq(AnyUnit)
  BY DEF Types, Sides, Other
<1> QED
  BY <1>1, LosesFrame, LosesTail DEF Incoming, Consumed

LEMMA ConsumesOne ==
  ASSUME Types, NEW side \in Sides, wire' = [wire EXCEPT ![Other(side)] = Consumed(side)]
  PROVE  WireLoses
BY WireTypes, OneWire

LEMMA TakesOne ==
  ASSUME Types, NEW side \in Sides, Incoming(side) # <<>>, wire' = [wire EXCEPT ![Other(side)] = Tail(@)]
  PROVE  WireLoses
<1>1. wire' = [wire EXCEPT ![Other(side)] = Tail(Incoming(side))]
  BY WireTypes DEF Types
<1> QED
  BY <1>1, WireTypes, OneWire

LEMMA ConcatUnits ==
  \A s, t, u \in Seq(AnyUnit) : (s \o t) \o u = s \o (t \o u)
<1> SUFFICES ASSUME NEW s \in Seq(AnyUnit), NEW t \in Seq(AnyUnit), NEW u \in Seq(AnyUnit)
             PROVE  (s \o t) \o u = s \o (t \o u)
  OBVIOUS
<1> QED
  BY ConcatAssociative, SMTT(20)

\* Both ends' handshake, and the ends of the relay.
LEMMA QuietSteps ==
  ASSUME Types, NEW side \in Sides,
         \/ Connect \/ ConnectFails \/ PrefaceRead \/ ServerHandshake \/ HeadersRead
         \/ PeerMatched \/ NoPeerMatches \/ TargetConnects \/ TargetRefuses
         \/ SettingsRead(side) \/ JunkRead(side) \/ HandshakeEof(side) \/ Close(side)
         \/ LocalEnds(side) \/ RecvHead(side) \/ RecvGarbage(side) \/ RecvEof(side)
  PROVE  Quiet
<1>1. UNCHANGED <<task, held, tx, rx, inbox, made, delivered, sealed>>
  BY DEF Connect, ConnectFails, PrefaceRead, ServerHandshake, HeadersRead, PeerMatched, NoPeerMatches,
         TargetConnects, TargetRefuses, SettingsRead, JunkRead, HandshakeEof, Close, LocalEnds,
         RecvHead, RecvGarbage, RecvEof, ciphers, local
<1>2. wire["client"] \in Seq(AnyUnit) /\ wire["server"] \in Seq(AnyUnit)
  BY DEF Types, Sides
<1>3. "client" \in Sides /\ "server" \in Sides /\ Other("server") = "client" /\ Other("client") = "server"
  BY DEF Sides, Other
<1>4. Loses(wire["client"], Consumed("server")) /\ Loses(wire["server"], Consumed("client"))
  BY <1>3, WireTypes
<1>5. CASE UNCHANGED wire
  BY <1>1, <1>5, NoWire DEF Quiet
<1>6. CASE Connect
  <2>1. Loses(wire["client"], ClientPreface)
    BY <1>2, PrefacesUnsealed, LosesUnsealed
  <2>2. wire' = [wire EXCEPT !["client"] = ClientPreface]
    BY <1>6 DEF Connect
  <2> HIDE DEF Quiet
  <2>3. WireLoses
    BY <1>3, <2>1, <2>2, OneWire
  <2> QED
    BY <1>1, <2>3 DEF Quiet
<1>7. CASE PrefaceRead
  <2>1. WireLoses
    BY <1>3, <1>7, TakesOne DEF PrefaceRead
  <2> QED
    BY <1>1, <2>1 DEF Quiet
<1>8. CASE SettingsRead(side) \/ JunkRead(side)
  <2>1. WireLoses
    BY <1>8, ConsumesOne DEF SettingsRead, JunkRead
  <2> QED
    BY <1>1, <2>1 DEF Quiet
<1>9. CASE RecvHead(side) \/ RecvGarbage(side)
  <2>1. WireLoses
    BY <1>9, TakesOne DEF RecvHead, RecvGarbage, Recv
  <2> QED
    BY <1>1, <2>1 DEF Quiet
<1>10. CASE ServerHandshake
  <2>1. Loses(wire["server"], wire["server"] \o ServerPreface)
    BY <1>2, PrefacesUnsealed, LosesUnsealed
  <2>2. wire' = [client |-> Consumed("server"), server |-> wire["server"] \o ServerPreface]
    BY <1>10 DEF ServerHandshake
  <2>3. WireLoses
    BY <1>4, <2>1, <2>2, TwoWires
  <2> QED
    BY <1>1, <2>3 DEF Quiet
<1>11. CASE PeerMatched
  <2> DEFINE more == Frame(Plain("junk")) \o Frame(Plain("response"))
             v == wire["server"] \o Frame(Plain("junk")) \o Frame(Plain("response"))
  <2>1. v = wire["server"] \o more
    <3>1. Frame(Plain("junk")) \in Seq(AnyUnit) /\ Frame(Plain("response")) \in Seq(AnyUnit)
      BY FrameUnsealed DEF Unsealed, PlainKinds
    <3> QED
      BY <1>2, <3>1, ConcatUnits
  <2>2. Loses(wire["server"], v)
    BY <1>2, <2>1, PrefacesUnsealed, LosesUnsealed
  <2>3. wire' = [client |-> Consumed("server"), server |-> v]
    BY <1>11 DEF PeerMatched
  <2> HIDE DEF v
  <2>4. WireLoses
    BY <1>4, <2>2, <2>3, TwoWires
  <2> QED
    BY <1>1, <2>4 DEF Quiet
<1>12. CASE HeadersRead
  <2>1. CASE wire' = [wire EXCEPT !["server"] = Consumed("client")]
    <3>1. WireLoses
      BY <1>3, <2>1, ConsumesOne
    <3> QED
      BY <1>1, <3>1 DEF Quiet
  <2>2. CASE wire' = [server |-> Consumed("client"),
                      client |-> wire["client"] \o Frame(Plain("junk")) \o Frame(Plain("challenge"))]
    <3> DEFINE more == Frame(Plain("junk")) \o Frame(Plain("challenge"))
               v == wire["client"] \o Frame(Plain("junk")) \o Frame(Plain("challenge"))
    <3>1. v = wire["client"] \o more
      <4>1. Frame(Plain("junk")) \in Seq(AnyUnit) /\ Frame(Plain("challenge")) \in Seq(AnyUnit)
        BY FrameUnsealed DEF Unsealed, PlainKinds
      <4> QED
        BY <1>2, <4>1, ConcatUnits
    <3>2. Loses(wire["client"], v)
      BY <1>2, <3>1, PrefacesUnsealed, LosesUnsealed
    <3> HIDE DEF v
    <3>3. wire' = [client |-> v, server |-> Consumed("client")]
      BY <2>2 DEF v
    <3>4. WireLoses
      BY <1>4, <3>2, <3>3, TwoWires
    <3> QED
      BY <1>1, <3>4 DEF Quiet
  <2> QED
    BY <1>12, <2>1, <2>2 DEF HeadersRead
<1> QED
  BY <1>5, <1>6, <1>7, <1>8, <1>9, <1>10, <1>11, <1>12
     DEF ConnectFails, NoPeerMatches, TargetConnects, TargetRefuses, HandshakeEof, Close, LocalEnds, RecvEof

-----------------------------------------------------------------------------
(* What each end's part of the plan needs to survive.                      *)

KeepsSender(side) ==
  /\ Loses(wire[side], wire'[side])
  /\ tx'[side] = tx[side] /\ inbox'[side] = inbox[side] /\ made'[side] = made[side]
  /\ task'[side] = "send" => task[side] = "send" /\ held'[side] = held[side]

KeepsReceiver(side) ==
  /\ rx'[side] = rx[side] /\ delivered'[side] = delivered[side]
  /\ task'[side] = "deliver" <=> task[side] = "deliver"
  /\ task[side] = "deliver" => held'[side] = held[side]

LEMMA SenderCarried ==
  ASSUME NEW side \in Sides, NEW g \in Plans, SenderFollows(side, g), KeepsSender(side)
  PROVE  SenderFollows(side, g)'
<1>1. \A u \in Elements(wire'[side]) : IsSealed(u) => Planned(side, g, u)
  BY DEF KeepsSender, Loses, SenderFollows
<1>2. task'[side] = "send" => \A u \in Elements(held'[side]) : IsSealed(u) => Planned(side, g, u)
  BY DEF KeepsSender, SenderFollows
<1>3. \A u : Planned(side, g, u) => Planned(side, g, u)'
  BY DEF Planned, KeepsSender
<1> QED
  BY <1>1, <1>2, <1>3 DEF KeepsSender, SenderFollows

\* The other end may have sealed more, by a longer plan.
LEMMA ReceiverCarried ==
  ASSUME NEW side \in Sides, NEW g \in Plans, NEW h \in Plans, ReceiverFollows(side, g), KeepsReceiver(side),
         CipherTypes, Types, tx'[Other(side)].counter \in Nat,
         tx[Other(side)].counter <= tx'[Other(side)].counter,
         \A i \in 0 .. tx[Other(side)].counter : h[i] = g[i]
  PROVE  ReceiverFollows(side, h)'
<1>1. rx[side] \in Nat /\ tx[Other(side)].counter \in Nat
  BY DEF Types, CipherTypes, Sides, Other
<1>2. rx[side] <= tx[Other(side)].counter
  BY DEF ReceiverFollows
<1>3. h[rx[side]] = g[rx[side]] /\ (rx[side] > 0 => h[rx[side] - 1] = g[rx[side] - 1])
  BY <1>1, <1>2
<1>4. rx'[side] <= tx'[Other(side)].counter
  BY <1>1, <1>2 DEF KeepsReceiver
<1> QED
  BY <1>3, <1>4 DEF ReceiverFollows, KeepsReceiver

LEMMA OtherSides ==
  \A side \in Sides : Other(side) \in Sides /\ Other(side) # side /\ Other(Other(side)) = side
BY DEF Sides, Other

\* A direction in which nothing is sealed, sent or opened.
LEMMA DirectionCarried ==
  ASSUME CipherTypes, Types, NEW side \in Sides, NEW g \in Plans, Follows(side, g),
         KeepsSender(side), KeepsReceiver(Other(side))
  PROVE  Follows(side, g)'
<1>1. SenderFollows(side, g)'
  BY SenderCarried DEF Follows
<1>2. tx'[side].counter \in Nat /\ tx[side].counter <= tx'[side].counter /\ Other(Other(side)) = side
      /\ Other(side) \in Sides
  BY OtherSides DEF KeepsSender, CipherTypes
<1>3. ReceiverFollows(Other(side), g)'
  BY <1>2, ReceiverCarried DEF Follows
<1> QED
  BY <1>1, <1>3 DEF Follows

\* Sealing n chunks makes the plan longer and leaves what was planned alone.
Longer(g, k, n) == [g EXCEPT ![k + 1] = g[k] + n]

LEMMA LongerPlan ==
  ASSUME NEW g \in Plans, NEW k \in Nat, NEW n \in Nat, Grows(g, k)
  PROVE  /\ Longer(g, k, n) \in Plans
         /\ Grows(Longer(g, k, n), k + 1)
         /\ \A i \in 0 .. k : Longer(g, k, n)[i] = g[i]
         /\ Longer(g, k, n)[k + 1] = g[k] + n
<1> DEFINE h == Longer(g, k, n)
<1>1. g[k] \in Nat /\ g[k] + n \in Nat /\ k + 1 \in Nat
  BY DEF Plans
<1>2. h \in Plans
  BY <1>1 DEF Longer, Plans
<1>3. \A i \in Nat : h[i] = IF i = k + 1 THEN g[k] + n ELSE g[i]
  BY <1>1 DEF Longer, Plans
<1>4. \A i \in 0 .. k : h[i] = g[i] /\ h[i] <= h[k + 1]
  <2> TAKE i \in 0 .. k
  <2>1. h[i] = g[i] /\ h[k + 1] = g[k] + n
    BY <1>1, <1>3
  <2>2. g[i] <= g[k] /\ g[i] \in Nat
    BY DEF Grows, Plans
  <2> HIDE DEF h
  <2> QED
    BY <1>1, <2>1, <2>2
<1> HIDE DEF h
<1>5. ASSUME NEW i \in 0 .. k + 1, NEW j \in 0 .. k + 1, i <= j
      PROVE  h[i] <= h[j]
  <2>1. CASE j \in 0 .. k
    <3>1. i \in 0 .. k
      BY <1>5, <2>1
    <3> QED
      BY <1>4, <1>5, <2>1, <3>1 DEF Grows
  <2>2. CASE j = k + 1
    <3>1. h[j] = h[k + 1] /\ h[k + 1] \in Nat
      BY <1>1, <1>2, <2>2 DEF Plans
    <3>2. CASE i \in 0 .. k
      BY <1>4, <3>1, <3>2
    <3>3. CASE i = k + 1
      BY <2>2, <3>1, <3>3
    <3> QED
      BY <3>2, <3>3
  <2> QED
    BY <2>1, <2>2
<1>6. h[k + 1] = g[k] + n
  BY <1>1, <1>3
<1> QED
  BY <1>2, <1>4, <1>5, <1>6 DEF Grows, h

LEMMA PlannedCarried ==
  ASSUME CipherTypes, NEW side \in Sides, NEW g \in Plans, NEW h \in Plans, NEW u \in AnyUnit,
         IsSealed(u), Planned(side, g, u),
         \A i \in 0 .. tx[side].counter : h[i] = g[i],
         tx'[side].counter = tx[side].counter + 1
  PROVE  Planned(side, h, u)'
<1>1. u.counter \in Nat /\ tx[side].counter \in Nat /\ u.counter < tx[side].counter
  BY UnitTypes DEF CipherTypes, Planned
<1>2. u.counter \in 0 .. tx[side].counter /\ u.counter + 1 \in 0 .. tx[side].counter
  BY <1>1
<1>3. u.counter < tx'[side].counter
  BY <1>1
<1> QED
  BY <1>2, <1>3 DEF Planned

-----------------------------------------------------------------------------
(* Sealing.                                                                *)

LEMMA EmptyRun ==
  ASSUME NEW a \in Nat
  PROVE  Run(a, a) = <<>>
BY DEF Run

\* An end seals its next n chunks into v.
LEMMA SealsNext ==
  ASSUME CipherTypes, CipherTypes', Types, NEW side \in Sides, NEW g \in Plans, Follows(side, g),
         NEW n \in Nat, g[tx[side].counter] + n <= made[side],
         Advance(side), KeepsReceiver(Other(side)),
         made'[side] = made[side], inbox'[side] = Run(g[tx[side].counter] + n, made[side]),
         NEW v, v.counter = tx[side].counter,
         v.chunks = Run(g[tx[side].counter], g[tx[side].counter] + n),
         v.kind = "target" => v.chunks = <<>>,
         \A u \in Elements(wire'[side]) : IsSealed(u) => u \in Elements(wire[side]) \/ u = v,
         task'[side] = "send" =>
           \A u \in Elements(held'[side]) : IsSealed(u) => u = v
  PROVE  \E h \in Plans : Follows(side, h)'
<1>1. PICK k \in Nat : k = tx[side].counter
  BY DEF CipherTypes
<1>2. tx'[side].counter = k + 1
  BY <1>1 DEF Advance, CipherTypes
<1>3. PICK h \in Plans : /\ Grows(h, k + 1) /\ h[k + 1] = g[k] + n
                         /\ \A i \in 0 .. k : h[i] = g[i]
  <2>1. Grows(g, k)
    BY <1>1 DEF Follows, SenderFollows
  <2> QED
    BY <2>1, LongerPlan
<1>4. Planned(side, h, v)'
  <2>1. k < k + 1 /\ k \in 0 .. k
    OBVIOUS
  <2>2. v.chunks = Run(h[k], h[k + 1])
    BY <1>1, <1>3, <2>1
  <2> QED
    BY <1>1, <1>2, <2>1, <2>2 DEF Planned
<1>5. \A u \in AnyUnit : IsSealed(u) /\ Planned(side, g, u) => Planned(side, h, u)'
  BY <1>1, <1>2, <1>3, PlannedCarried
<1>6. \A u \in Elements(wire[side]) : u \in AnyUnit
  BY ElementOfSeq DEF Types, Elements
<1>7. \A u \in Elements(wire'[side]) : IsSealed(u) => Planned(side, h, u)'
  BY <1>4, <1>5, <1>6 DEF Follows, SenderFollows
<1>8. task'[side] = "send" => \A u \in Elements(held'[side]) : IsSealed(u) => Planned(side, h, u)'
  BY <1>4
<1>9. h[k + 1] <= made'[side] /\ inbox'[side] = Run(h[k + 1], made'[side])
  BY <1>1, <1>3
<1>10. SenderFollows(side, h)'
  BY <1>2, <1>3, <1>7, <1>8, <1>9 DEF SenderFollows
<1>11. ReceiverFollows(Other(side), h)'
  <2>1. tx'[side].counter \in Nat /\ tx[side].counter <= tx'[side].counter
    BY <1>1, <1>2
  <2>2. \A i \in 0 .. tx[side].counter : h[i] = g[i]
    BY <1>1, <1>3
  <2>3. ReceiverFollows(Other(side), g)
    BY DEF Follows
  <2> QED
    BY <2>1, <2>2, <2>3, OtherSides, ReceiverCarried
<1> QED
  BY <1>10, <1>11 DEF Follows

\* The client's first packet carries the target.
LEMMA ResponseReadOrder ==
  ASSUME CipherTypes, CipherTypes', Types, Busy, Order, ResponseRead
  PROVE  Order'
<1>1. "client" \in Sides /\ "server" \in Sides /\ Other("client") = "server" /\ Other("server") = "client"
  BY DEF Sides, Other
<1>2. PICK v : v = Sealed("client", "target", <<>>, TRUE)
  OBVIOUS
<1>3. v \in AnyUnit /\ IsSealed(v) /\ v.counter = tx["client"].counter /\ v.chunks = <<>>
  <2>1. <<>> \in Seq(Nat) /\ TRUE \in BOOLEAN /\ "target" \in {"target", "data"}
    OBVIOUS
  <2>2. v \in AnyUnit /\ IsSealed(v)
    BY <1>1, <1>2, <2>1, SealedTypes
  <2> QED
    BY <1>2, <2>2 DEF Sealed
<1>4. wire' = [server |-> Consumed("client"), client |-> wire["client"] \o Frame(v)]
  BY <1>2 DEF ResponseRead
<1>5. Advance("client") /\ UNCHANGED <<rx, task, held, inbox, made, delivered>>
  BY DEF ResponseRead, local
<1>6. wire'["client"] = wire["client"] \o Frame(v) /\ wire'["server"] = Consumed("client")
  BY <1>4
<1>7. \E h \in Plans : Follows("client", h)'
  <2>1. PICK g \in Plans : Follows("client", g)
    BY <1>1 DEF Order
  <2> DEFINE a == g[tx["client"].counter]
  <2>2. a \in Nat /\ made["client"] \in Nat /\ a <= made["client"] /\ inbox["client"] = Run(a, made["client"])
    BY <1>1, <2>1 DEF Follows, SenderFollows, Types, Plans, CipherTypes
  <2>3. v.chunks = Run(a, a + 0) /\ a + 0 <= made["client"] /\ inbox'["client"] = Run(a + 0, made["client"])
    BY <1>3, <1>5, <2>2, EmptyRun
  <2>4. \A u \in Elements(wire'["client"]) : IsSealed(u) => u \in Elements(wire["client"]) \/ u = v
    <3>1. Frame(v) \in Seq(AnyUnit) /\ Elements(Frame(v)) = {HEAD, v} /\ ~IsSealed(HEAD)
      BY <1>3, FrameElements DEF HEAD, IsSealed
    <3>2. wire["client"] \in Seq(AnyUnit)
      BY <1>1 DEF Types
    <3> QED
      BY <1>6, <3>1, <3>2, ConcatElements
  <2>5. task'["client"] # "send"
    BY <1>1, <1>5 DEF ResponseRead, Reads, Busy
  <2>6. KeepsReceiver("server")
    BY <1>5 DEF KeepsReceiver
  <2> HIDE DEF a
  <2> QED
    BY <1>1, <1>3, <1>5, <2>1, <2>3, <2>4, <2>5, <2>6, SealsNext DEF a
<1>8. \E h \in Plans : Follows("server", h)'
  <2>1. PICK g \in Plans : Follows("server", g)
    BY <1>1 DEF Order
  <2>2. KeepsReceiver("client")
    BY <1>5 DEF KeepsReceiver
  <2>3. KeepsSender("server")
    <3>1. Loses(wire["server"], wire'["server"])
      BY <1>1, <1>6, WireTypes
    <3>2. tx'["server"] = tx["server"]
      BY <1>1, <1>5 DEF Advance, CipherTypes
    <3> QED
      BY <1>5, <3>1, <3>2 DEF KeepsSender
  <2> QED
    BY <1>1, <2>1, <2>2, <2>3, DirectionCarried
<1> QED
  BY <1>7, <1>8 DEF Order, Sides

\* An end takes what waits, up to a batch.
LEMMA TakeLocalOrder ==
  ASSUME CipherTypes, CipherTypes', Types, Order, NEW side \in Sides, TakeLocal(side)
  PROVE  Order'
<1>1. Other(side) \in Sides /\ Other(side) # side /\ Other(Other(side)) = side
  BY OtherSides
<1>2. /\ task[side] = "select" /\ task' = [task EXCEPT ![side] = "send"]
      /\ Advance(side) /\ UNCHANGED <<wire, rx, made, delivered>>
  BY DEF TakeLocal, Selects
<1>3. \A s \in Sides : s # side => /\ task'[s] = task[s] /\ held'[s] = held[s]
                                   /\ inbox'[s] = inbox[s] /\ tx'[s] = tx[s]
  BY DEF TakeLocal, Types, Advance, CipherTypes
<1>4. \E h \in Plans : Follows(side, h)'
  <2>1. PICK g \in Plans : Follows(side, g)
    BY DEF Order
  <2>2. PICK a \in Nat : a = g[tx[side].counter]
    BY DEF Plans, CipherTypes
  <2>3. PICK b \in Nat : b = made[side]
    BY DEF Types
  <2>4. a <= b /\ inbox[side] = Run(a, b)
    BY <2>1, <2>2, <2>3 DEF Follows, SenderFollows
  <2>5. Len(inbox[side]) = b - a
    BY <2>4, RunTypes
  <2>6. PICK n \in 0 .. b - a, fits \in BOOLEAN :
          /\ held' = [held EXCEPT ![side] = Frame(Sealed(side, "data", SubSeq(inbox[side], 1, n), fits))]
          /\ inbox' = [inbox EXCEPT ![side] = SubSeq(@, n + 1, Len(@))]
    <3> DEFINE n == IF Len(inbox[side]) < Batch(side) THEN Len(inbox[side]) ELSE Batch(side)
    <3>1. Batch(side) \in Nat
      BY RelayAssumption DEF Batch
    <3>2. n \in 0 .. b - a
      BY <2>4, <2>5, <3>1
    <3>3. \E fits \in BOOLEAN :
             /\ held' = [held EXCEPT ![side] = Frame(Sealed(side, "data", SubSeq(inbox[side], 1, n), fits))]
             /\ inbox' = [inbox EXCEPT ![side] = SubSeq(@, n + 1, Len(@))]
      BY DEF TakeLocal, LengthFits
    <3> HIDE DEF n
    <3> QED
      BY <3>2, <3>3
  <2>7. SubSeq(inbox[side], 1, n) = Run(a, a + n) /\ SubSeq(inbox[side], n + 1, Len(inbox[side])) = Run(a + n, b)
    <3>1. /\ SubSeq(Run(a, b), 1, n) = Run(a, a + n)
          /\ SubSeq(Run(a, b), n + 1, Len(Run(a, b))) = Run(a + n, b)
      BY <2>4, RunCut
    <3> QED
      BY <2>4, <3>1, Zenon
  <2>8. PICK v : v = Sealed(side, "data", Run(a, a + n), fits)
    OBVIOUS
  <2>9. v \in AnyUnit /\ IsSealed(v) /\ v.counter = tx[side].counter /\ v.chunks = Run(a, a + n) /\ v.kind = "data"
    <3>1. Run(a, a + n) \in Seq(Nat)
      <4>1. a + n \in Nat /\ a <= a + n
        OBVIOUS
      <4> QED
        BY <4>1, RunTypes
    <3>2. v \in AnyUnit /\ IsSealed(v)
      BY <2>8, <3>1, SealedTypes
    <3> QED
      BY <2>8, <3>2 DEF Sealed
  <2>10. held'[side] = Frame(v) /\ inbox'[side] = Run(a + n, made[side])
    BY <2>3, <2>6, <2>7, <2>8 DEF Types
  <2>11. \A u \in Elements(held'[side]) : IsSealed(u) => u = v
    <3>1. Elements(Frame(v)) = {HEAD, v} /\ ~IsSealed(HEAD)
      BY <2>9, FrameElements DEF HEAD, IsSealed
    <3> QED
      BY <2>10, <3>1
  <2>12. KeepsReceiver(Other(side))
    BY <1>1, <1>2, <1>3 DEF KeepsReceiver
  <2>13. n \in Nat /\ a + n <= made[side] /\ made'[side] = made[side]
    BY <1>2, <2>3, <2>4
  <2>14. \A u \in Elements(wire'[side]) : IsSealed(u) => u \in Elements(wire[side]) \/ u = v
    BY <1>2
  <2> QED
    BY <1>2, <2>1, <2>2, <2>9, <2>10, <2>11, <2>12, <2>13, <2>14, SealsNext
<1>5. \E h \in Plans : Follows(Other(side), h)'
  <2>1. PICK g \in Plans : Follows(Other(side), g)
    BY <1>1 DEF Order
  <2>2. Loses(wire[Other(side)], wire'[Other(side)])
    BY <1>1, <1>2, LosesSelf DEF Types
  <2>3. KeepsSender(Other(side))
    BY <1>1, <1>2, <1>3, <2>2 DEF KeepsSender
  <2>4. KeepsReceiver(side)
    BY <1>2 DEF KeepsReceiver, Types
  <2> QED
    BY <1>1, <2>1, <2>3, <2>4, DirectionCarried
<1> QED
  BY <1>1, <1>4, <1>5 DEF Order, Sides

-----------------------------------------------------------------------------
(* Sending.                                                                *)

LEMMA SendOrder ==
  ASSUME CipherTypes, Types, Busy, Order, NEW side \in Sides, Send(side)
  PROVE  Order'
<1>1. Other(side) \in Sides /\ Other(side) # side /\ Other(Other(side)) = side
  BY OtherSides
<1>2. task[side] = "send" /\ held[side] # <<>> /\ held[side] \in Seq(AnyUnit) /\ wire[side] \in Seq(AnyUnit)
  BY DEF Send, Busy, Types
<1>3. UNCHANGED <<tx, rx, inbox, made, delivered>>
  BY DEF Send, ciphers, local
<1>4. CASE UNCHANGED <<wire, held, task>>
  <2>1. \A s \in Sides : KeepsSender(s) /\ KeepsReceiver(s)
    BY <1>3, <1>4, LosesSelf DEF KeepsSender, KeepsReceiver, Types
  <2> QED
    BY <2>1, DirectionCarried, OtherSides DEF Order
<1>5. CASE Sends(side)
  <2>1. /\ wire' = [wire EXCEPT ![side] = Append(@, Head(held[side]))]
        /\ held' = [held EXCEPT ![side] = Tail(@)]
        /\ task' = [task EXCEPT ![side] = IF Len(held[side]) = 1 THEN "select" ELSE @]
    BY <1>5 DEF Sends
  <2>2. /\ wire'[side] = Append(wire[side], Head(held[side])) /\ held'[side] = Tail(held[side])
        /\ \A s \in Sides : s # side => wire'[s] = wire[s] /\ held'[s] = held[s] /\ task'[s] = task[s]
    BY <2>1 DEF Types
  <2>3. task'[side] # "deliver"
    BY <1>2, <2>1 DEF Types
  <2>4. ASSUME NEW g \in Plans, Follows(side, g)
        PROVE  Follows(side, g)'
    <3>1. Head(held[side]) \in Elements(held[side]) /\ Head(held[side]) \in AnyUnit
          /\ Elements(Tail(held[side])) \subseteq Elements(held[side])
      BY <1>2, TailElements
    <3>2. Elements(wire'[side]) \subseteq Elements(wire[side]) \cup {Head(held[side])}
      BY <1>2, <2>2, <3>1, AppendElements
    <3>3. \A u \in Elements(wire'[side]) \cup Elements(held'[side]) : IsSealed(u) => Planned(side, g, u)
      BY <1>2, <2>2, <2>4, <3>1, <3>2 DEF Follows, SenderFollows
    <3>4. \A u : Planned(side, g, u) => Planned(side, g, u)'
      BY <1>3 DEF Planned
    <3>5. SenderFollows(side, g)'
      BY <1>3, <2>4, <3>3, <3>4 DEF Follows, SenderFollows
    <3>6. ReceiverFollows(Other(side), g)'
      BY <1>1, <1>3, <2>2, <2>4 DEF Follows, ReceiverFollows
    <3> QED
      BY <3>5, <3>6 DEF Follows
  <2>5. Loses(wire[Other(side)], wire'[Other(side)])
    BY <1>1, <2>2, LosesSelf DEF Types
  <2>6. KeepsSender(Other(side)) /\ KeepsReceiver(side)
    BY <1>1, <1>2, <1>3, <2>2, <2>3, <2>5 DEF KeepsSender, KeepsReceiver
  <2>7. \A g \in Plans : Follows(Other(side), g) => Follows(Other(side), g)'
    BY <1>1, <2>6, DirectionCarried
  <2> QED
    BY <1>1, <2>4, <2>7 DEF Order, Sides
<1> QED
  BY <1>4, <1>5 DEF Send, SendFails

-----------------------------------------------------------------------------
(* Opening and delivering.                                                 *)

\* What an end opens is the packet its counter names, and carries the chunks
\* that follow the ones delivered.
LEMMA OpensNext ==
  ASSUME CipherTypes, Types, NEW side \in Sides, NEW g \in Plans, Follows(Other(side), g),
         NEW body \in Elements(Incoming(side)), Opens(side, body)
  PROVE  /\ body \in AnyUnit /\ IsSealed(body)
         /\ rx[side] + 1 <= tx[Other(side)].counter
         /\ body.chunks = Run(g[rx[side]], g[rx[side] + 1])
         /\ body.kind = "target" => g[rx[side] + 1] = g[rx[side]]
<1>1. Other(side) \in Sides /\ Incoming(side) = wire[Other(side)] /\ wire[Other(side)] \in Seq(AnyUnit)
  BY WireTypes
<1>2. body \in AnyUnit
  BY <1>1, ElementOfSeq DEF Elements
<1>3. IsSealed(body) /\ body.counter = rx[side]
  BY DEF Opens, Unpacks
<1>4. Planned(Other(side), g, body)
  BY <1>1, <1>3 DEF Follows, SenderFollows
<1>5. rx[side] \in Nat /\ tx[Other(side)].counter \in Nat /\ rx[side] < tx[Other(side)].counter
  BY <1>1, <1>3, <1>4 DEF Types, CipherTypes, Planned
<1>6. body.chunks = Run(g[rx[side]], g[rx[side] + 1])
  BY <1>3, <1>4 DEF Planned
<1>7. ASSUME body.kind = "target"
      PROVE  g[rx[side] + 1] = g[rx[side]]
  <2>1. g[rx[side]] \in Nat /\ g[rx[side] + 1] \in Nat
    BY <1>5 DEF Plans
  <2>2. g[rx[side]] <= g[rx[side] + 1]
    <3>1. Grows(g, tx[Other(side)].counter)
      BY DEF Follows, SenderFollows
    <3>2. rx[side] \in 0 .. tx[Other(side)].counter /\ rx[side] + 1 \in 0 .. tx[Other(side)].counter
      BY <1>5
    <3> QED
      BY <1>5, <3>1, <3>2 DEF Grows
  <2>3. Run(g[rx[side]], g[rx[side] + 1]) = <<>>
    BY <1>4, <1>6, <1>7 DEF Planned
  <2>4. Len(Run(g[rx[side]], g[rx[side] + 1])) = g[rx[side] + 1] - g[rx[side]]
    BY <2>1, <2>2, RunTypes
  <2> QED
    BY <2>1, <2>3, <2>4
<1> QED
  BY <1>2, <1>3, <1>5, <1>6, <1>7

LEMMA RecvBodyOrder ==
  ASSUME CipherTypes, Types, Order, NEW side \in Sides, RecvBody(side)
  PROVE  Order'
<1>1. Other(side) \in Sides /\ Other(side) # side /\ Other(Other(side)) = side
  BY OtherSides
<1>2. /\ task[side] = "select" /\ Incoming(side) # <<>>
      /\ wire' = [wire EXCEPT ![Other(side)] = Tail(@)]
      /\ UNCHANGED <<tx, inbox, made, delivered>>
  BY DEF RecvBody, Recv, Selects, local
<1>3. WireLoses
  BY <1>2, TakesOne
<1>4. PICK body : body = Head(Incoming(side))
  OBVIOUS
<1>5. \/ /\ Opens(side, body)
         /\ rx' = [rx EXCEPT ![side] = @ + 1]
         /\ held' = [held EXCEPT ![side] = <<body>>]
         /\ task' = [task EXCEPT ![side] = "deliver"]
      \/ UNCHANGED <<rx, held, task>>
  BY <1>4 DEF RecvBody
<1>6. /\ task'[side] # "send"
      /\ \A s \in Sides : s # side => rx'[s] = rx[s] /\ held'[s] = held[s] /\ task'[s] = task[s]
  BY <1>2, <1>5 DEF Types
<1>7. \A g \in Plans : Follows(side, g) => Follows(side, g)'
  <2>1. KeepsSender(side) /\ KeepsReceiver(Other(side))
    BY <1>1, <1>2, <1>3, <1>6 DEF KeepsSender, KeepsReceiver, WireLoses
  <2> QED
    BY <2>1, DirectionCarried
<1>8. KeepsSender(Other(side))
  BY <1>1, <1>2, <1>3, <1>6 DEF KeepsSender, WireLoses
<1>9. ASSUME NEW g \in Plans, Follows(Other(side), g)
      PROVE  Follows(Other(side), g)'
  <2>1. CASE UNCHANGED <<rx, held, task>>
    <3>1. KeepsReceiver(side)
      BY <1>2, <2>1 DEF KeepsReceiver
    <3> QED
      BY <1>1, <1>8, <1>9, <3>1, DirectionCarried
  <2>2. CASE /\ Opens(side, body)
             /\ rx' = [rx EXCEPT ![side] = @ + 1]
             /\ held' = [held EXCEPT ![side] = <<body>>]
             /\ task' = [task EXCEPT ![side] = "deliver"]
    <3>1. body \in Elements(Incoming(side))
      BY <1>2, <1>4, WireTypes, TailElements
    <3>2. rx[side] + 1 <= tx[Other(side)].counter /\ body.chunks = Run(g[rx[side]], g[rx[side] + 1])
      BY <1>9, <2>2, <3>1, OpensNext
    <3>3. rx[side] \in Nat /\ rx'[side] = rx[side] + 1 /\ task'[side] = "deliver" /\ held'[side][1] = body
      BY <2>2 DEF Types
    <3>4. delivered'[side] = Run(0, g[rx[side]])
      BY <1>1, <1>2, <1>9 DEF Follows, ReceiverFollows
    <3>5. ReceiverFollows(side, g)'
      <4>1. rx'[side] > 0 /\ rx'[side] - 1 = rx[side]
        BY <3>3
      <4>2. rx'[side] <= tx'[Other(side)].counter
        BY <1>2, <3>2, <3>3
      <4> QED
        BY <3>2, <3>3, <3>4, <4>1, <4>2 DEF ReceiverFollows
    <3>6. SenderFollows(Other(side), g)'
      BY <1>1, <1>8, <1>9, SenderCarried DEF Follows
    <3> QED
      BY <1>1, <3>5, <3>6 DEF Follows
  <2> QED
    BY <1>5, <2>1, <2>2
<1> QED
  BY <1>1, <1>7, <1>9 DEF Order, Sides

LEMMA DeliverOrder ==
  ASSUME CipherTypes, Types, Order, NEW side \in Sides, Deliver(side)
  PROVE  Order'
<1>1. Other(side) \in Sides /\ Other(side) # side /\ Other(Other(side)) = side
  BY OtherSides
<1>2. task[side] = "deliver" /\ UNCHANGED <<wire, tx, rx, inbox, made>>
  BY DEF Deliver, ciphers, local
<1>3. \/ /\ delivered' = [delivered EXCEPT ![side] = @ \o held[side][1].chunks]
         /\ task' = [task EXCEPT ![side] = "select"]
         /\ held' = [held EXCEPT ![side] = <<>>]
      \/ UNCHANGED <<task, held, delivered>>
  BY DEF Deliver
<1>4. /\ task'[side] # "send"
      /\ \A s \in Sides : s # side => delivered'[s] = delivered[s] /\ held'[s] = held[s] /\ task'[s] = task[s]
  BY <1>2, <1>3 DEF Types
<1>5. \A s \in Sides : KeepsSender(s)
  BY <1>2, <1>4, LosesSelf DEF KeepsSender, Types
<1>6. \A g \in Plans : Follows(side, g) => Follows(side, g)'
  <2>1. KeepsReceiver(Other(side))
    BY <1>1, <1>2, <1>4 DEF KeepsReceiver
  <2> QED
    BY <1>5, <2>1, DirectionCarried
<1>7. ASSUME NEW g \in Plans, Follows(Other(side), g)
      PROVE  Follows(Other(side), g)'
  <2>1. CASE UNCHANGED <<task, held, delivered>>
    <3>1. KeepsReceiver(side)
      BY <1>2, <2>1 DEF KeepsReceiver
    <3> QED
      BY <1>1, <1>5, <1>7, <3>1, DirectionCarried
  <2>2. CASE /\ delivered' = [delivered EXCEPT ![side] = @ \o held[side][1].chunks]
             /\ task' = [task EXCEPT ![side] = "select"]
    <3>1. /\ rx[side] \in Nat /\ rx[side] > 0 /\ rx[side] <= tx[Other(side)].counter
          /\ tx[Other(side)].counter \in Nat
          /\ delivered[side] = Run(0, g[rx[side] - 1])
          /\ held[side][1].chunks = Run(g[rx[side] - 1], g[rx[side]])
      BY <1>1, <1>2, <1>7 DEF Follows, ReceiverFollows, Types, CipherTypes
    <3>2. rx[side] - 1 \in 0 .. tx[Other(side)].counter /\ rx[side] \in 0 .. tx[Other(side)].counter
      BY <3>1
    <3>3. g[rx[side] - 1] \in Nat /\ g[rx[side]] \in Nat /\ g[rx[side] - 1] <= g[rx[side]]
      <4>1. Grows(g, tx[Other(side)].counter)
        BY <1>7 DEF Follows, SenderFollows
      <4> QED
        BY <3>1, <3>2, <4>1 DEF Grows, Plans
    <3>4. delivered'[side] = Run(0, g[rx[side]]) /\ task'[side] = "select"
      <4>1. 0 \in Nat /\ 0 <= g[rx[side] - 1]
        BY <3>3
      <4>2. Run(0, g[rx[side] - 1]) \o Run(g[rx[side] - 1], g[rx[side]]) = Run(0, g[rx[side]])
        BY <3>3, <4>1, RunConcat
      <4> QED
        BY <2>2, <3>1, <4>2 DEF Types
    <3>5. ReceiverFollows(side, g)'
      BY <1>2, <3>1, <3>4 DEF ReceiverFollows
    <3>6. SenderFollows(Other(side), g)'
      BY <1>1, <1>5, <1>7, SenderCarried DEF Follows
    <3> QED
      BY <1>1, <3>5, <3>6 DEF Follows
  <2> QED
    BY <1>3, <2>1, <2>2
<1> QED
  BY <1>1, <1>6, <1>7 DEF Order, Sides

LEMMA TargetReadOrder ==
  ASSUME CipherTypes, Types, Busy, Order, TargetRead
  PROVE  Order'
<1>1. "client" \in Sides /\ "server" \in Sides /\ Other("client") = "server" /\ Other("server") = "client"
  BY DEF Sides, Other
<1>2. /\ task["server"] = "select" /\ wire' = [wire EXCEPT !["client"] = Consumed("server")]
      /\ rx' = [rx EXCEPT !["server"] = @ + 1]
      /\ UNCHANGED <<task, held, tx, inbox, made, delivered>>
  BY DEF TargetRead, Reads, Busy, Sides, local
<1>3. PICK body : body = Incoming("server")[2]
  OBVIOUS
<1>4. Opens("server", body) /\ body.kind = "target" /\ body \in Elements(Incoming("server"))
  <2>1. wire["client"] \in Seq(AnyUnit) /\ Incoming("server") = wire["client"]
    BY <1>1 DEF Types, Incoming
  <2>2. Len(Incoming("server")) > 1 /\ Opens("server", body) /\ body.kind = "target"
    BY <1>3 DEF TargetRead, Reads
  <2>3. 2 \in 1 .. Len(Incoming("server"))
    BY <2>1, <2>2
  <2> QED
    BY <1>3, <2>2, <2>3 DEF Elements
<1>5. WireLoses
  BY <1>1, <1>2, ConsumesOne
<1>6. \A s \in Sides : KeepsSender(s)
  BY <1>2, <1>5 DEF KeepsSender, WireLoses
<1>7. KeepsReceiver("client")
  BY <1>1, <1>2 DEF KeepsReceiver, Types
<1>8. \A g \in Plans : Follows("server", g) => Follows("server", g)'
  BY <1>1, <1>6, <1>7, DirectionCarried
<1>9. ASSUME NEW g \in Plans, Follows("client", g)
      PROVE  Follows("client", g)'
  <2>1. /\ rx["server"] + 1 <= tx["client"].counter
        /\ g[rx["server"] + 1] = g[rx["server"]]
    BY <1>1, <1>4, <1>9, OpensNext
  <2>2. rx["server"] \in Nat /\ rx'["server"] = rx["server"] + 1
    BY <1>1, <1>2 DEF Types
  <2>3. delivered["server"] = Run(0, g[rx["server"]])
    BY <1>1, <1>2, <1>9 DEF Follows, ReceiverFollows
  <2>4. ReceiverFollows("server", g)'
    BY <1>1, <1>2, <2>1, <2>2, <2>3 DEF ReceiverFollows
  <2>5. SenderFollows("client", g)'
    BY <1>1, <1>6, <1>9, SenderCarried DEF Follows
  <2> QED
    BY <1>1, <2>4, <2>5 DEF Follows
<1> QED
  BY <1>8, <1>9 DEF Order, Sides

\* The local end hands over its next chunk.
LEMMA ProduceOrder ==
  ASSUME CipherTypes, Types, Order, NEW side \in Sides, Produce(side)
  PROVE  Order'
<1>1. Other(side) \in Sides /\ Other(side) # side /\ Other(Other(side)) = side
  BY OtherSides
<1>2. /\ made' = [made EXCEPT ![side] = @ + 1]
      /\ inbox' = [inbox EXCEPT ![side] = Append(@, made[side] + 1)]
      /\ UNCHANGED <<wire, task, held, tx, rx, delivered>>
  BY DEF Produce, ciphers
<1>3. \A s \in Sides : KeepsReceiver(s)
  BY <1>2 DEF KeepsReceiver
<1>4. ASSUME NEW g \in Plans, Follows(side, g)
      PROVE  Follows(side, g)'
  <2>1. PICK a \in Nat : a = g[tx[side].counter]
    BY DEF Plans, CipherTypes
  <2>2. PICK b \in Nat : b = made[side]
    BY DEF Types
  <2>3. a <= b /\ inbox[side] = Run(a, b)
    BY <1>4, <2>1, <2>2 DEF Follows, SenderFollows
  <2>4. made'[side] = b + 1 /\ inbox'[side] = Run(a, b + 1)
    BY <1>2, <2>2, <2>3, RunAppend DEF Types
  <2>5. \A u : Planned(side, g, u) => Planned(side, g, u)'
    BY <1>2 DEF Planned
  <2>6. SenderFollows(side, g)'
    BY <1>2, <1>4, <2>1, <2>3, <2>4, <2>5 DEF Follows, SenderFollows
  <2>7. ReceiverFollows(Other(side), g)'
    BY <1>2, <1>4 DEF Follows, ReceiverFollows
  <2> QED
    BY <2>6, <2>7 DEF Follows
<1>5. KeepsSender(Other(side))
  BY <1>1, <1>2, LosesSelf DEF KeepsSender, Types
<1>6. \A g \in Plans : Follows(Other(side), g) => Follows(Other(side), g)'
  BY <1>1, <1>3, <1>5, DirectionCarried
<1> QED
  BY <1>1, <1>4, <1>6 DEF Order, Sides

LEMMA QuietOrder ==
  ASSUME CipherTypes, Types, Order, Quiet
  PROVE  Order'
<1>1. \A side \in Sides : KeepsSender(side) /\ KeepsReceiver(side)
  BY DEF Quiet, WireLoses, KeepsSender, KeepsReceiver
<1> QED
  BY <1>1, DirectionCarried, OtherSides DEF Order

\* Every step is quiet or one of the seven that carry chunks on.
LEMMA StepKinds ==
  ASSUME Types, Next
  PROVE  \/ Quiet
         \/ ResponseRead
         \/ TargetRead
         \/ \E side \in Sides :
              TakeLocal(side) \/ Send(side) \/ RecvBody(side) \/ Deliver(side) \/ Produce(side)
<1>1. "client" \in Sides
  BY DEF Sides
<1>2. CASE Connect \/ ConnectFails \/ HeadersRead
  BY <1>1, <1>2, QuietSteps
<1>3. CASE ServerStep
  BY <1>1, <1>3, QuietSteps DEF ServerStep
<1>4. CASE ResponseRead
  BY <1>4
<1>5. ASSUME NEW side \in Sides, SideStep(side) \/ Produce(side) \/ Close(side)
      PROVE  \/ Quiet
             \/ TakeLocal(side) \/ Send(side) \/ RecvBody(side) \/ Deliver(side) \/ Produce(side)
  BY <1>5, QuietSteps DEF SideStep
<1> QED
  BY <1>2, <1>3, <1>4, <1>5 DEF Next

LEMMA OrderKept ==
  ASSUME CipherTypes, CipherTypes', Types, Busy, Order, Next
  PROVE  Order'
BY StepKinds, QuietOrder, ResponseReadOrder, TargetReadOrder, TakeLocalOrder, SendOrder, RecvBodyOrder,
   DeliverOrder, ProduceOrder

-----------------------------------------------------------------------------
(* Phases.                                                                 *)

\* An end leaves the relay only to end, and the server starts with the client.
LEMMA PhaseKept ==
  ASSUME Types, Busy, Next
  PROVE  /\ phase' \in [Sides -> PhaseNames]
         /\ phase'["client"] = "start" => phase'["server"] = "start"
         /\ \A s \in Sides : phase'[s] \notin {"relay", "ended"} => phase[s] \notin {"relay", "ended"}
<1> DEFINE Good == /\ phase' \in [Sides -> PhaseNames]
                   /\ phase'["client"] = "start" => phase'["server"] = "start"
                   /\ \A s \in Sides : phase'[s] \notin {"relay", "ended"} => phase[s] \notin {"relay", "ended"}
<1> SUFFICES Good
  OBVIOUS
<1>1. phase \in [Sides -> PhaseNames] /\ (phase["client"] = "start" => phase["server"] = "start")
  BY DEF Types, Busy
<1>2. CASE UNCHANGED phase
  BY <1>1, <1>2
<1>3. ASSUME NEW side \in Sides, NEW p \in PhaseNames \ {"start"},
             phase' = [phase EXCEPT ![side] = p],
             side = "server" => phase["server"] # "start",
             p # "ended" => phase[side] \notin {"relay", "ended"}
      PROVE  Good
  <2>1. phase'[side] = p /\ \A s \in Sides : s # side => phase'[s] = phase[s]
    BY <1>1, <1>3
  <2>2. phase' \in [Sides -> PhaseNames]
    BY <1>1, <1>3
  <2>3. phase'["client"] = "start" => phase'["server"] = "start"
    BY <1>1, <1>3, <2>1 DEF Sides
  <2>4. \A s \in Sides : phase'[s] \notin {"relay", "ended"} => phase[s] \notin {"relay", "ended"}
    BY <1>3, <2>1
  <2> QED
    BY <2>2, <2>3, <2>4
<1> HIDE DEF Good
<1> DEFINE Later == {"settings", "headers", "junk", "challenge", "response", "target", "connect", "relay", "ended"}
<1>4. Later \subseteq PhaseNames \ {"start"}
  BY DEF PhaseNames, Prefaces
<1>5. "client" \in Sides /\ "server" \in Sides
  BY DEF Sides
<1>6. ASSUME NEW p \in Later, phase' = [phase EXCEPT !["client"] = p],
              p # "ended" => phase["client"] \notin {"relay", "ended"}
       PROVE  Good
  <2>1. "client" \in Sides /\ ("client" = "server" => phase["server"] # "start")
    BY <1>5
  <2> QED
    BY <1>3, <1>4, <1>6, <2>1
<1>7. ASSUME NEW p \in Later, phase' = [phase EXCEPT !["server"] = p],
              phase["server"] # "start",
              p # "ended" => phase["server"] \notin {"relay", "ended"}
       PROVE  Good
  <2>1. "server" \in Sides /\ ("server" = "server" => phase["server"] # "start")
    BY <1>5, <1>7
  <2> QED
    BY <1>3, <1>4, <1>7, <2>1
<1>8. CASE Connect
  <2>1. phase' = [client |-> "settings", server |-> "preface"] /\ phase["client"] = "start"
    BY <1>8 DEF Connect
  <2>2. phase["server"] = "start"
    BY <1>1, <2>1
  <2>3. phase' \in [Sides -> PhaseNames]
    BY <2>1 DEF Sides, PhaseNames, Prefaces
  <2>4. phase'["client"] = "settings"
    BY <2>1
  <2> QED
    BY <2>1, <2>2, <2>3, <2>4 DEF Good, Sides
<1>9. CASE ConnectFails
  BY <1>9, <1>6 DEF ConnectFails
<1>10. CASE ServerStep
  <2>1. CASE PrefaceRead
    BY <2>1, <1>7 DEF PrefaceRead
  <2>2. CASE ServerHandshake
    BY <2>2, <1>7 DEF ServerHandshake, Reads
  <2>3. CASE PeerMatched
    BY <2>3, <1>7 DEF PeerMatched, Reads
  <2>4. CASE NoPeerMatches
    BY <2>4, <1>7 DEF NoPeerMatches, Reads, Ends
  <2>5. CASE TargetRead
    BY <2>5, <1>7 DEF TargetRead, Reads
  <2>6. CASE TargetConnects
    BY <2>6, <1>7 DEF TargetConnects
  <2>7. CASE TargetRefuses
    BY <2>7, <1>7 DEF TargetRefuses, Ends
  <2> QED
    BY <1>10, <2>1, <2>2, <2>3, <2>4, <2>5, <2>6, <2>7 DEF ServerStep
<1>11. CASE HeadersRead
  <2>1. CASE UNCHANGED phase
    BY <1>2, <2>1 DEF Good
  <2>2. CASE phase' = [phase EXCEPT !["client"] = "junk"]
    <3>1. phase["client"] = "headers"
      BY <1>11 DEF HeadersRead, Reads
    <3> QED
      BY <1>6, <2>2, <3>1
  <2> QED
    BY <1>11, <2>1, <2>2 DEF HeadersRead
<1>12. CASE ResponseRead
  BY <1>12, <1>6 DEF ResponseRead, Reads
<1>13. ASSUME NEW side \in Sides, SideStep(side) \/ Produce(side) \/ Close(side)
       PROVE  Good
  <2>1. CASE SettingsRead(side)
    BY <1>3, <1>4, <2>1 DEF SettingsRead, Reads
  <2>2. CASE JunkRead(side)
    BY <1>3, <1>4, <2>2 DEF JunkRead, Reads
  <2>3. ASSUME Ends(side), phase[side] # "start"
        PROVE  Good
    BY <1>3, <1>4, <2>3 DEF Ends
  <2>4. CASE HandshakeEof(side)
    BY <2>3, <2>4 DEF HandshakeEof
  <2>5. CASE LocalEnds(side) \/ RecvEof(side) \/ TakeLocal(side)
    BY <1>2, <2>3, <2>5 DEF LocalEnds, RecvEof, TakeLocal, Selects, Good
  <2>6. CASE Send(side) \/ Deliver(side)
    BY <1>2, <2>3, <2>6 DEF Send, Sends, SendFails, Deliver, Good
  <2>7. CASE RecvHead(side) \/ RecvBody(side) \/ RecvGarbage(side)
    BY <1>2, <2>3, <2>7 DEF RecvHead, RecvBody, RecvGarbage, Recv, Selects, Good
  <2>8. CASE Produce(side) \/ Close(side)
    BY <1>2, <2>8 DEF Produce, Close, Good
  <2> QED
    BY <1>13, <2>1, <2>2, <2>4, <2>5, <2>6, <2>7, <2>8 DEF SideStep
<1> QED
  BY <1>8, <1>9, <1>10, <1>11, <1>12, <1>13 DEF Next, Good

-----------------------------------------------------------------------------
(* Types, and that a branch body has something to do.                      *)

\* What every step owes besides its phase.
Rest ==
  /\ wire' \in [Sides -> Seq(AnyUnit)]
  /\ held' \in [Sides -> Seq(AnyUnit)]
  /\ task' \in [Sides -> {"select", "send", "deliver"}]
  /\ rx' \in [Sides -> Nat]
  /\ inbox' \in [Sides -> Seq(Nat)]
  /\ made' \in [Sides -> Nat]
  /\ delivered' \in [Sides -> Seq(Nat)]
  /\ \A s \in Sides : task'[s] # "select" => held'[s] # <<>>
  /\ \A s \in Sides : task'[s] # "select" => task[s] # "select" \/ phase[s] = "relay"

LEMMA RestQuiet ==
  ASSUME Types, Busy, Quiet
  PROVE  Rest
BY DEF Types, Busy, Quiet, WireLoses, Rest

LEMMA RestResponseRead ==
  ASSUME CipherTypes, Types, Busy, ResponseRead
  PROVE  Rest
<1>1. UNCHANGED <<rx, task, held, inbox, made, delivered>>
  BY DEF ResponseRead, local
<1>2. PICK v : v = Sealed("client", "target", <<>>, TRUE)
  OBVIOUS
<1>3. v \in AnyUnit
  <2>1. <<>> \in Seq(Nat) /\ TRUE \in BOOLEAN /\ "target" \in {"target", "data"} /\ "client" \in Sides
    BY DEF Sides
  <2> QED
    BY <1>2, <2>1, SealedTypes
<1>4. wire' = [server |-> Consumed("client"), client |-> wire["client"] \o Frame(v)]
  BY <1>2 DEF ResponseRead
<1>5. Consumed("client") \in Seq(AnyUnit)
  <2>1. "client" \in Sides
    BY DEF Sides
  <2> QED
    BY <2>1, WireTypes DEF Loses
<1>6. wire["client"] \o Frame(v) \in Seq(AnyUnit)
  <2>1. wire["client"] \in Seq(AnyUnit) /\ Frame(v) \in Seq(AnyUnit)
    BY <1>3, FrameElements DEF Types, Sides
  <2> QED
    BY <2>1, ConcatElements
<1>7. wire' \in [Sides -> Seq(AnyUnit)]
  <2>1. PICK c, t \in Seq(AnyUnit) : wire' = [server |-> c, client |-> t]
    BY <1>4, <1>5, <1>6
  <2> QED
    BY <2>1 DEF Sides
<1> QED
  BY <1>1, <1>7 DEF Types, Busy, Rest

LEMMA RestTargetRead ==
  ASSUME Types, Busy, TargetRead
  PROVE  Rest
<1>1. "server" \in Sides /\ Other("server") = "client"
  BY DEF Sides, Other
<1>2. /\ wire' = [wire EXCEPT !["client"] = Consumed("server")]
      /\ rx' = [rx EXCEPT !["server"] = @ + 1]
      /\ UNCHANGED <<task, held, inbox, made, delivered>>
  BY DEF TargetRead, local
<1>3. WireLoses
  BY <1>1, <1>2, ConsumesOne
<1>4. rx' \in [Sides -> Nat]
  BY <1>1, <1>2 DEF Types
<1> QED
  BY <1>2, <1>3, <1>4 DEF Types, Busy, WireLoses, Rest

LEMMA RestTakeLocal ==
  ASSUME CipherTypes, Types, Busy, NEW side \in Sides, TakeLocal(side)
  PROVE  Rest
<1>1. /\ phase[side] = "relay" /\ task' = [task EXCEPT ![side] = "send"]
      /\ UNCHANGED <<wire, rx, made, delivered>>
  BY DEF TakeLocal, Selects
<1> DEFINE n == IF Len(inbox[side]) < Batch(side) THEN Len(inbox[side]) ELSE Batch(side)
<1>2. PICK fits \in BOOLEAN :
        /\ held' = [held EXCEPT ![side] = Frame(Sealed(side, "data", SubSeq(inbox[side], 1, n), fits))]
        /\ inbox' = [inbox EXCEPT ![side] = SubSeq(@, n + 1, Len(@))]
  BY DEF TakeLocal, LengthFits
<1>3. inbox[side] \in Seq(Nat) /\ n \in Nat /\ n <= Len(inbox[side])
  BY RelayAssumption DEF Types, Batch
<1> HIDE DEF n
<1>4. SubSeq(inbox[side], 1, n) \in Seq(Nat) /\ SubSeq(inbox[side], n + 1, Len(inbox[side])) \in Seq(Nat)
  <2>1. n + 1 \in Nat \ {0}
    BY <1>3
  <2> QED
    BY <1>3, <2>1, SuffixElements
<1>5. Sealed(side, "data", SubSeq(inbox[side], 1, n), fits) \in AnyUnit
  BY <1>4, SealedTypes
<1>6. PICK frame : /\ frame \in Seq(AnyUnit) /\ frame # <<>>
                   /\ held' = [held EXCEPT ![side] = frame]
  BY <1>2, <1>5, FrameElements
<1>7. held' \in [Sides -> Seq(AnyUnit)] /\ inbox' \in [Sides -> Seq(Nat)]
  <2>1. held' \in [Sides -> Seq(AnyUnit)]
    BY <1>6 DEF Types
  <2>2. PICK rest \in Seq(Nat) : inbox' = [inbox EXCEPT ![side] = rest]
    BY <1>2, <1>4 DEF Types
  <2>3. inbox' \in [Sides -> Seq(Nat)]
    BY <2>2 DEF Types
  <2> QED BY <2>1, <2>3
<1>8. \A s \in Sides : task'[s] # "select" => held'[s] # <<>> /\ (task[s] # "select" \/ phase[s] = "relay")
  BY <1>1, <1>6 DEF Types, Busy
<1> QED
  BY <1>1, <1>7, <1>8 DEF Types, Rest

LEMMA RestSend ==
  ASSUME Types, Busy, NEW side \in Sides, Send(side)
  PROVE  Rest
<1>1. UNCHANGED <<rx, inbox, made, delivered>> /\ phase[side] = "relay" /\ task[side] = "send"
  BY DEF Send, ciphers, local
<1>2. CASE UNCHANGED <<wire, held, task>>
  BY <1>1, <1>2 DEF Types, Busy, Rest
<1>3. CASE Sends(side)
  <2>1. /\ wire' = [wire EXCEPT ![side] = Append(@, Head(held[side]))]
        /\ held' = [held EXCEPT ![side] = Tail(@)]
        /\ task' = [task EXCEPT ![side] = IF Len(held[side]) = 1 THEN "select" ELSE @]
    BY <1>3 DEF Sends
  <2>2. held[side] \in Seq(AnyUnit) /\ held[side] # <<>> /\ wire[side] \in Seq(AnyUnit)
    BY <1>1 DEF Types, Busy
  <2>3. /\ Head(held[side]) \in AnyUnit /\ Tail(held[side]) \in Seq(AnyUnit)
        /\ Append(wire[side], Head(held[side])) \in Seq(AnyUnit)
    BY <2>2, TailElements, AppendElements
  <2>4. wire' \in [Sides -> Seq(AnyUnit)] /\ held' \in [Sides -> Seq(AnyUnit)]
        /\ task' \in [Sides -> {"select", "send", "deliver"}]
    BY <2>1, <2>3 DEF Types
  <2>5. Len(held[side]) # 1 => Tail(held[side]) # <<>>
    <3>1. Len(Tail(held[side])) = Len(held[side]) - 1 /\ Len(held[side]) \in Nat
      BY <2>2
    <3>2. Tail(held[side]) = <<>> <=> Len(Tail(held[side])) = 0
      BY <2>3, EmptySeq
    <3> QED
      BY <3>1, <3>2
  <2>6. task'[side] # "select" => held'[side] # <<>>
    BY <2>1, <2>5 DEF Types
  <2>7. \A s \in Sides : task'[s] # "select" => held'[s] # <<>> /\ (task[s] # "select" \/ phase[s] = "relay")
    BY <1>1, <2>1, <2>6 DEF Types, Busy
  <2> QED
    BY <1>1, <2>4, <2>7 DEF Types, Rest
<1> QED
  BY <1>2, <1>3 DEF Send, SendFails

LEMMA RestRecvBody ==
  ASSUME Types, Busy, NEW side \in Sides, RecvBody(side)
  PROVE  Rest
<1>1. /\ phase[side] = "relay" /\ Incoming(side) # <<>>
      /\ wire' = [wire EXCEPT ![Other(side)] = Tail(@)]
      /\ UNCHANGED <<inbox, made, delivered>>
  BY DEF RecvBody, Recv, Selects, local
<1>2. WireLoses
  BY <1>1, TakesOne
<1>3. PICK body : body = Head(Incoming(side))
  OBVIOUS
<1>4. body \in AnyUnit
  BY <1>1, <1>3, WireTypes, TailElements
<1>5. \/ /\ rx' = [rx EXCEPT ![side] = @ + 1]
         /\ held' = [held EXCEPT ![side] = <<body>>]
         /\ task' = [task EXCEPT ![side] = "deliver"]
      \/ UNCHANGED <<rx, held, task>>
  BY <1>3 DEF RecvBody
<1>6. CASE UNCHANGED <<rx, held, task>>
  BY <1>1, <1>2, <1>6 DEF Types, Busy, WireLoses, Rest
<1>7. CASE /\ rx' = [rx EXCEPT ![side] = @ + 1]
           /\ held' = [held EXCEPT ![side] = <<body>>]
           /\ task' = [task EXCEPT ![side] = "deliver"]
  <2>1. <<body>> \in Seq(AnyUnit) /\ <<body>> # <<>>
    BY <1>4
  <2>2. rx' \in [Sides -> Nat] /\ held' \in [Sides -> Seq(AnyUnit)]
        /\ task' \in [Sides -> {"select", "send", "deliver"}]
    BY <1>7, <2>1 DEF Types
  <2>3. \A s \in Sides : task'[s] # "select" => held'[s] # <<>> /\ (task[s] # "select" \/ phase[s] = "relay")
    BY <1>1, <1>7, <2>1 DEF Types, Busy
  <2> QED
    BY <1>1, <1>2, <2>2, <2>3 DEF Types, WireLoses, Rest
<1> QED
  BY <1>5, <1>6, <1>7

LEMMA RestDeliver ==
  ASSUME CipherTypes, Types, Busy, Order, NEW side \in Sides, Deliver(side)
  PROVE  Rest
<1>1. task[side] = "deliver" /\ UNCHANGED <<wire, rx, inbox, made>>
  BY DEF Deliver, ciphers, local
<1>2. CASE UNCHANGED <<task, held, delivered>>
  BY <1>1, <1>2 DEF Types, Busy, Rest
<1>3. CASE /\ delivered' = [delivered EXCEPT ![side] = @ \o held[side][1].chunks]
           /\ task' = [task EXCEPT ![side] = "select"]
           /\ held' = [held EXCEPT ![side] = <<>>]
  <2>1. held[side][1].chunks \in Seq(Nat)
    <3>1. Other(side) \in Sides /\ Other(Other(side)) = side
      BY OtherSides
    <3>2. PICK g \in Plans : Follows(Other(side), g)
      BY <3>1 DEF Order
    <3>3. held[side][1].chunks = Run(g[rx[side] - 1], g[rx[side]]) /\ rx[side] > 0
          /\ rx[side] <= tx[Other(side)].counter
      BY <1>1, <3>1, <3>2 DEF Follows, ReceiverFollows
    <3>4. rx[side] \in Nat /\ tx[Other(side)].counter \in Nat
      BY <3>1 DEF Types, CipherTypes
    <3>5. rx[side] - 1 \in 0 .. tx[Other(side)].counter /\ rx[side] \in 0 .. tx[Other(side)].counter
      BY <3>3, <3>4
    <3>6. g[rx[side] - 1] \in Nat /\ g[rx[side]] \in Nat /\ g[rx[side] - 1] <= g[rx[side]]
      <4>1. Grows(g, tx[Other(side)].counter)
        BY <3>2 DEF Follows, SenderFollows
      <4> QED
        BY <3>4, <3>5, <4>1 DEF Grows, Plans
    <3> QED
      BY <3>3, <3>6, RunTypes
  <2>2. delivered[side] \o held[side][1].chunks \in Seq(Nat)
    <3>1. delivered[side] \in Seq(Nat)
      BY DEF Types
    <3> QED
      BY <2>1, <3>1, ConcatElements
  <2>3. delivered' \in [Sides -> Seq(Nat)]
    BY <1>3, <2>2 DEF Types
  <2>4. held' \in [Sides -> Seq(AnyUnit)] /\ task' \in [Sides -> {"select", "send", "deliver"}]
    BY <1>3 DEF Types
  <2>5. \A s \in Sides : task'[s] # "select" => held'[s] # <<>> /\ task[s] # "select"
    BY <1>3 DEF Types, Busy
  <2> QED
    BY <1>1, <2>3, <2>4, <2>5 DEF Types, Rest
<1> QED
  BY <1>2, <1>3 DEF Deliver

LEMMA RestProduce ==
  ASSUME Types, Busy, NEW side \in Sides, Produce(side)
  PROVE  Rest
<1>1. /\ made' = [made EXCEPT ![side] = @ + 1]
      /\ inbox' = [inbox EXCEPT ![side] = Append(@, made[side] + 1)]
      /\ UNCHANGED <<wire, task, held, rx, delivered>>
  BY DEF Produce, ciphers
<1>2. made[side] + 1 \in Nat
  BY DEF Types
<1>3. Append(inbox[side], made[side] + 1) \in Seq(Nat)
  BY <1>2, AppendElements DEF Types
<1>4. made' \in [Sides -> Nat] /\ inbox' \in [Sides -> Seq(Nat)]
  BY <1>1, <1>2, <1>3 DEF Types
<1> QED
  BY <1>1, <1>4 DEF Types, Busy, Rest

LEMMA TypesKept ==
  ASSUME CipherTypes, Types, Busy, Order, Next
  PROVE  Types' /\ Busy'
<1>1. Rest
  BY StepKinds, RestQuiet, RestResponseRead, RestTargetRead, RestTakeLocal, RestSend, RestRecvBody,
     RestDeliver, RestProduce
<1>2. Types'
  BY <1>1, PhaseKept DEF Rest, Types
<1>3. \A s \in Sides : phase'[s] \notin {"relay", "ended"} => task'[s] = "select"
  BY <1>1, PhaseKept DEF Rest, Busy
<1> QED
  BY <1>1, <1>2, <1>3, PhaseKept DEF Rest, Busy

-----------------------------------------------------------------------------
(* The theorem.                                                            *)

LEMMA InitHolds == Init => IInv
<1> SUFFICES ASSUME Init PROVE IInv
  OBVIOUS
<1>1. CipherTypes
  BY InitNumbered
<1>2. Types
  <2>1. "start" \in PhaseNames /\ <<>> \in Seq(AnyUnit) /\ <<>> \in Seq(Nat)
    BY DEF PhaseNames
  <2> QED
    BY <2>1 DEF Init, Types
<1>3. Busy
  BY DEF Init, Busy, Sides
<1>4. ASSUME NEW side \in Sides
      PROVE  \E g \in Plans : Follows(side, g)
  <2>1. PICK g : g = [n \in Nat |-> 0]
    OBVIOUS
  <2>2. g \in Plans /\ g[0] = 0 /\ Run(0, 0) = <<>>
    BY <2>1, EmptyRun DEF Plans
  <2>3. tx[side].counter = 0 /\ rx[Other(side)] = 0 /\ wire[side] = <<>> /\ task[side] = "select"
        /\ task[Other(side)] = "select" /\ inbox[side] = <<>> /\ made[side] = 0
        /\ delivered[Other(side)] = <<>> /\ tx[Other(Other(side))].counter = 0
    <3>1. Other(side) \in Sides /\ Other(Other(side)) = side
      BY OtherSides
    <3> QED
      BY <3>1 DEF Init
  <2>4. Grows(g, 0)
    BY <2>1 DEF Grows
  <2>5. Elements(<<>>) = {}
    BY DEF Elements
  <2>6. SenderFollows(side, g) /\ ReceiverFollows(Other(side), g)
    BY <2>2, <2>3, <2>4, <2>5 DEF SenderFollows, ReceiverFollows
  <2> QED
    BY <2>2, <2>6 DEF Follows
<1> QED
  BY <1>1, <1>2, <1>3, <1>4 DEF IInv, Order

LEMMA Inductive == IInv /\ Numbered /\ [Next]_vars => IInv'
<1> SUFFICES ASSUME IInv, Numbered, [Next]_vars PROVE IInv'
  OBVIOUS
<1>1. CASE Next
  <2>1. CipherTypes'
    BY StepNumbered DEF IInv
  <2> QED
    BY <1>1, <2>1, OrderKept, TypesKept DEF IInv
<1>2. CASE UNCHANGED vars
  BY <1>2 DEF vars, ciphers, local, IInv, CipherTypes, Types, Busy, Order, Follows, SenderFollows,
              ReceiverFollows, Planned
<1> QED
  BY <1>1, <1>2

LEMMA OrderGives ==
  ASSUME IInv
  PROVE  DeliveredInOrder
<1> SUFFICES ASSUME NEW side \in Sides
             PROVE  /\ delivered[side] = [i \in 1 .. Len(delivered[side]) |-> i]
                    /\ Len(delivered[side]) <= made[Other(side)]
  BY DEF DeliveredInOrder
<1>1. Other(side) \in Sides /\ Other(Other(side)) = side
  BY OtherSides
<1>2. PICK g \in Plans : Follows(Other(side), g)
  BY <1>1 DEF IInv, Order
<1>3. PICK k \in Nat : k = tx[Other(side)].counter
  BY <1>1 DEF IInv, CipherTypes
<1>4. PICK d \in 0 .. k : delivered[side] = Run(0, g[d])
  <2>1. rx[side] \in Nat /\ rx[side] <= k
    BY <1>1, <1>2, <1>3 DEF IInv, Types, Follows, ReceiverFollows
  <2>2. CASE task[side] # "deliver"
    BY <1>1, <1>2, <2>1, <2>2 DEF Follows, ReceiverFollows
  <2>3. CASE task[side] = "deliver"
    <3>1. rx[side] > 0 /\ delivered[side] = Run(0, g[rx[side] - 1])
      BY <1>1, <1>2, <2>3 DEF Follows, ReceiverFollows
    <3>2. rx[side] - 1 \in 0 .. k
      BY <2>1, <3>1
    <3> QED
      BY <3>1, <3>2
  <2> QED
    BY <2>2, <2>3
<1>5. PICK n \in Nat : n = g[d]
  BY DEF Plans
<1>6. n <= made[Other(side)]
  <2>1. Grows(g, k) /\ g[k] <= made[Other(side)]
    BY <1>2, <1>3 DEF Follows, SenderFollows
  <2>2. g[d] <= g[k]
    BY <2>1 DEF Grows
  <2>3. g[k] \in Nat /\ made[Other(side)] \in Nat
    BY <1>1 DEF IInv, Types, Plans
  <2> QED
    BY <1>5, <2>1, <2>2, <2>3
<1>7. delivered[side] = [i \in 1 .. n |-> i] /\ Len(delivered[side]) = n
  <2>1. Run(0, n) = [i \in 1 .. n |-> i]
    BY DEF Run
  <2>2. Len(Run(0, n)) = n
    BY RunTypes
  <2> QED
    BY <1>4, <1>5, <2>1, <2>2
<1> QED
  BY <1>6, <1>7

\* Whatever select! cancels and however the framing is lost, what an end has
\* written is a beginning of what the other end read.
THEOREM ChunksInOrder == Spec => []DeliveredInOrder
<1>1. Init => IInv /\ Numbered
  BY InitHolds, InitNumbered
<1>2. IInv /\ Numbered /\ [Next]_vars => (IInv /\ Numbered)'
  BY Inductive, StepNumbered DEF IInv
<1>3. IInv /\ Numbered => DeliveredInOrder
  BY OrderGives
<1> QED
  BY <1>1, <1>2, <1>3, PTL DEF Spec

-----------------------------------------------------------------------------
(* The handshake. At each pair of phases what is under way in either       *)
(* direction is known frame by frame, until both ends relay; from then on  *)
(* only that nothing of the preface is among it.                           *)

\* Nothing of the preface is among the units.
Clean(s) == \A u \in Elements(s) : u \notin {Plain(kind) : kind \in Prefaces}

\* What is left of a handshake, frame by frame.
One(w, k) == Len(w) = 2 /\ w[1] = HEAD /\ w[2] = Plain(k)
Two(w, k, m) ==
  Len(w) = 4 /\ w[1] = HEAD /\ w[2] = Plain(k) /\ w[3] = HEAD /\ w[4] = Plain(m)
Three(w, k, m, n) ==
  /\ Len(w) = 6 /\ w[1] = HEAD /\ w[2] = Plain(k) /\ w[3] = HEAD /\ w[4] = Plain(m)
  /\ w[5] = HEAD /\ w[6] = Plain(n)
Prefaced(w, k, m, n) ==
  /\ Len(w) = 5 /\ w[1] = Plain(k)
  /\ w[2] = HEAD /\ w[3] = Plain(m) /\ w[4] = HEAD /\ w[5] = Plain(n)

\* What the server has sent, by the step the client is at and where the server
\* may then be.
ToClient(pc, ps, w) ==
  /\ pc = "start" => w = <<>> /\ ps = "start"
  /\ pc = "settings" =>
       \/ w = <<>> /\ ps \in {"preface", "settings", "headers", "ended"}
       \/ Three(w, "settings", "settings", "headers") /\ ps \in {"junk", "ended"}
  /\ pc = "headers" =>
       (Two(w, "settings", "headers") \/ One(w, "headers")) /\ ps \in {"junk", "ended"}
  /\ pc = "junk" =>
       \/ w = <<>> /\ ps \in {"junk", "challenge", "ended"}
       \/ Two(w, "junk", "response") /\ ps \in {"target", "ended"}
  /\ pc = "response" => One(w, "response") /\ ps \in {"target", "ended"}
  /\ pc = "relay" =>
       Clean(w) /\ Len(w) <= WireCap /\ ps \in {"target", "connect", "relay", "ended"}

\* The same in the other direction.
ToServer(ps, pc, w) ==
  /\ ps = "start" => w = <<>> /\ pc \in {"start", "ended"}
  /\ ps = "preface" =>
       Prefaced(w, "preface", "settings", "headers")
       /\ pc \in {"settings", "ended"}
  /\ ps = "settings" => Two(w, "settings", "headers") /\ pc \in {"settings", "ended"}
  /\ ps = "headers" => One(w, "headers") /\ pc \in {"settings", "ended"}
  /\ ps = "junk" =>
       \/ w = <<>> /\ pc \in {"settings", "headers", "ended"}
       \/ Two(w, "junk", "challenge") /\ pc \in {"junk", "ended"}
  /\ ps = "challenge" => One(w, "challenge") /\ pc \in {"junk", "ended"}
  /\ ps = "target" =>
       \/ w = <<>> /\ pc \in {"junk", "response", "ended"}
       \/ Clean(w) /\ (Len(w) <= WireCap \/ Len(w) <= 2) /\ pc \in {"relay", "ended"}
  /\ ps \in {"connect", "relay"} =>
       Clean(w) /\ Len(w) <= WireCap /\ pc \in {"relay", "ended"}

Hand(pc, ps, wc, ws) ==
  /\ pc \in {"start", "settings", "headers", "junk", "response", "relay", "ended"}
  /\ ps \in {"start", "preface", "settings", "headers", "junk", "challenge", "target",
             "connect", "relay", "ended"}
  /\ ToClient(pc, ps, ws)
  /\ ToServer(ps, pc, wc)

Handshake == Hand(phase["client"], phase["server"], wire["client"], wire["server"])

\* What a branch body works on.
Shape ==
  \A side \in Sides :
    /\ task[side] = "select" => held[side] = <<>>
    /\ task[side] = "deliver" => Len(held[side]) = 1 /\ IsSealed(held[side][1])
    /\ task[side] = "send" => Clean(held[side])

\* One frame of the handshake.
LEMMA FrameShape ==
  ASSUME NEW k \in PlainKinds
  PROVE  Frame(Plain(k)) \in Seq(AnyUnit) /\ One(Frame(Plain(k)), k)
<1>1. Plain(k) \in AnyUnit /\ HEAD \in AnyUnit
  BY PlainTypes DEF AnyUnit
<1> QED BY <1>1 DEF Frame, One

\* A frame joins what is under way.
Joined(s, k, t) ==
  /\ t \in Seq(AnyUnit) /\ Len(t) = Len(s) + 2
  /\ \A i \in 1 .. Len(s) : t[i] = s[i]
  /\ t[Len(s) + 1] = HEAD /\ t[Len(s) + 2] = Plain(k)

\* What Joined says, of concatenation.
LEMMA JoinFrame ==
  ASSUME NEW s \in Seq(AnyUnit), NEW k \in PlainKinds, NEW t, t = s \o Frame(Plain(k))
  PROVE  Joined(s, k, t)
<1>1. PICK f : f = Frame(Plain(k))
  OBVIOUS
<1>2. f \in Seq(AnyUnit) /\ Len(f) = 2 /\ f[1] = HEAD /\ f[2] = Plain(k)
  BY <1>1, FrameShape DEF One
<1>3. /\ t \in Seq(AnyUnit) /\ Len(t) = Len(s) + Len(f)
      /\ \A i \in 1 .. Len(s) + Len(f) :
           t[i] = IF i <= Len(s) THEN s[i] ELSE f[i - Len(s)]
  BY <1>1, <1>2, ConcatProperties
<1>4. Len(s) \in Nat
  OBVIOUS
<1>5. t[Len(s) + 1] = f[1] /\ t[Len(s) + 2] = f[2]
  BY <1>2, <1>3, <1>4
<1>6. \A i \in 1 .. Len(s) : t[i] = s[i]
  BY <1>2, <1>3, <1>4
<1> QED BY <1>2, <1>3, <1>5, <1>6 DEF Joined

\* The kinds of frame that the two handshakes use.
LEMMA HandshakeKinds ==
  /\ "preface" \in PlainKinds /\ "settings" \in PlainKinds /\ "headers" \in PlainKinds
  /\ "junk" \in PlainKinds /\ "challenge" \in PlainKinds /\ "response" \in PlainKinds
BY DEF PlainKinds, Prefaces

\* The three things that are written at once.
LEMMA TwoFrames ==
  ASSUME NEW k \in PlainKinds, NEW m \in PlainKinds, NEW w, w = <<>>
  PROVE  /\ (w \o Frame(Plain(k))) \o Frame(Plain(m)) \in Seq(AnyUnit)
         /\ Two((w \o Frame(Plain(k))) \o Frame(Plain(m)), k, m)
<1>1. PICK s : s = w \o Frame(Plain(k))
  OBVIOUS
<1>2. s \in Seq(AnyUnit) /\ Len(s) = 2 /\ s[1] = HEAD /\ s[2] = Plain(k)
  <2>1. w \in Seq(AnyUnit) /\ Len(w) = 0
    BY EmptySeq
  <2>2. Joined(w, k, s)
    BY <1>1, <2>1, JoinFrame
  <2> QED BY <2>1, <2>2 DEF Joined
<1>3. PICK t : t = s \o Frame(Plain(m))
  OBVIOUS
<1>4. /\ t \in Seq(AnyUnit) /\ Len(t) = 4 /\ t[3] = HEAD /\ t[4] = Plain(m)
      /\ t[1] = s[1] /\ t[2] = s[2]
  <2>1. Joined(s, m, t)
    BY <1>2, <1>3, JoinFrame
  <2> QED BY <1>2, <2>1 DEF Joined
<1> QED BY <1>1, <1>2, <1>3, <1>4 DEF Two

\* What the client writes first.
LEMMA ClientPrefaceShape ==
  ClientPreface \in Seq(AnyUnit) /\ Prefaced(ClientPreface, "preface", "settings", "headers")
<1>1. PICK r : r = <<Plain("preface")>>
  OBVIOUS
<1>2. r \in Seq(AnyUnit) /\ Len(r) = 1 /\ r[1] = Plain("preface")
  BY <1>1, HandshakeKinds, PlainTypes
<1>3. PICK s : s = r \o Frame(Plain("settings"))
  OBVIOUS
<1>4. s \in Seq(AnyUnit) /\ Len(s) = 3 /\ s[1] = r[1] /\ s[2] = HEAD /\ s[3] = Plain("settings")
  <2>1. Joined(r, "settings", s)
    BY <1>2, <1>3, HandshakeKinds, JoinFrame
  <2> QED BY <1>2, <2>1 DEF Joined
<1>5. PICK t : t = s \o Frame(Plain("headers"))
  OBVIOUS
<1>6. /\ t \in Seq(AnyUnit) /\ Len(t) = 5 /\ t[4] = HEAD /\ t[5] = Plain("headers")
      /\ t[1] = s[1] /\ t[2] = s[2] /\ t[3] = s[3]
  <2>1. Joined(s, "headers", t)
    BY <1>4, <1>5, HandshakeKinds, JoinFrame
  <2> QED BY <1>4, <2>1 DEF Joined
<1> QED BY <1>1, <1>2, <1>3, <1>4, <1>5, <1>6 DEF ClientPreface, Prefaced

\* What the server answers.
LEMMA ServerPrefaceShape ==
  ServerPreface \in Seq(AnyUnit) /\ Three(ServerPreface, "settings", "settings", "headers")
<1>1. PICK r : r = Frame(Plain("settings"))
  OBVIOUS
<1>2. r \in Seq(AnyUnit) /\ Len(r) = 2 /\ r[1] = HEAD /\ r[2] = Plain("settings")
  BY <1>1, HandshakeKinds, FrameShape DEF One
<1>3. PICK s : s = r \o Frame(Plain("settings"))
  OBVIOUS
<1>4. /\ s \in Seq(AnyUnit) /\ Len(s) = 4 /\ s[3] = HEAD /\ s[4] = Plain("settings")
      /\ s[1] = r[1] /\ s[2] = r[2]
  <2>1. Joined(r, "settings", s)
    BY <1>2, <1>3, HandshakeKinds, JoinFrame
  <2> QED BY <1>2, <2>1 DEF Joined
<1>5. PICK t : t = s \o Frame(Plain("headers"))
  OBVIOUS
<1>6. /\ t \in Seq(AnyUnit) /\ Len(t) = 6 /\ t[5] = HEAD /\ t[6] = Plain("headers")
      /\ t[1] = s[1] /\ t[2] = s[2] /\ t[3] = s[3] /\ t[4] = s[4]
  <2>1. Joined(s, "headers", t)
    BY <1>4, <1>5, HandshakeKinds, JoinFrame
  <2> QED BY <1>4, <2>1 DEF Joined
<1> QED BY <1>1, <1>2, <1>3, <1>4, <1>5, <1>6 DEF ServerPreface, Three

\* Reading a frame takes the first of them.
LEMMA AfterFrame ==
  ASSUME NEW w \in Seq(AnyUnit), Len(w) > 1, NEW v, v = SubSeq(w, 3, Len(w))
  PROVE  /\ v \in Seq(AnyUnit) /\ Len(v) = Len(w) - 2
         /\ \A i \in 1 .. Len(v) : v[i] = w[i + 2]
         /\ Clean(w) => Clean(v)
         /\ Len(w) = 2 => v = <<>>
<1>1. Len(w) \in Nat
  OBVIOUS
<1>2. /\ v \in Seq(AnyUnit) /\ Len(v) = Len(w) - 2
      /\ \A i \in 1 .. Len(v) : v[i] = w[i + 2] /\ i + 2 \in 1 .. Len(w)
  <2>1. \A i \in 3 .. Len(w) : w[i] \in AnyUnit
    BY <1>1
  <2>2. PICK n \in Nat : n = Len(w)
    BY <1>1
  <2>4. /\ v \in Seq(AnyUnit)
        /\ Len(v) = IF 3 <= n THEN n - 3 + 1 ELSE 0
        /\ \A i \in 1 .. n - 3 + 1 : v[i] = w[3 + i - 1]
    BY <2>1, <2>2, SubSeqProperties
  <2>3. Len(v) = n - 2
    BY <2>2, <2>4
  <2> QED BY <2>2, <2>3, <2>4
<1>3. \A i \in 1 .. Len(v) : v[i] = w[i + 2] /\ i + 2 \in 1 .. Len(w)
  BY <1>2
<1>4. Clean(w) => Clean(v)
  BY <1>3 DEF Clean, Elements
<1>5. Len(w) = 2 => v = <<>>
  BY <1>2
<1> QED BY <1>2, <1>3, <1>4, <1>5

\* v is w without its first frame.
Sheds(w, v) ==
  /\ \A k : One(w, k) => v = <<>> /\ w[2].kind = k
  /\ \A k, m : Two(w, k, m) => One(v, m) /\ w[2].kind = k
  /\ \A k, m, n : Three(w, k, m, n) => Two(v, m, n) /\ w[2].kind = k

\* Reading a frame takes the first frame of each shape.
LEMMA AfterShapes ==
  ASSUME NEW w \in Seq(AnyUnit), Len(w) > 1, NEW v, v = SubSeq(w, 3, Len(w))
  PROVE  Sheds(w, v)
<1>1. /\ v \in Seq(AnyUnit) /\ Len(v) = Len(w) - 2
      /\ \A i \in 1 .. Len(v) : v[i] = w[i + 2]
      /\ Len(w) = 2 => v = <<>>
  BY AfterFrame
<1>2. \A k : Plain(k).kind = k
  BY DEF Plain
<1>3. ASSUME NEW k, One(w, k) PROVE v = <<>> /\ w[2].kind = k
  BY <1>1, <1>2, <1>3 DEF One
<1>4. ASSUME NEW k, NEW m, Two(w, k, m) PROVE One(v, m) /\ w[2].kind = k
  <2>1. Len(v) = 2 /\ 1 \in 1 .. 2 /\ 2 \in 1 .. 2
    BY <1>1, <1>4 DEF Two
  <2>2. v[1] = w[3] /\ v[2] = w[4]
    BY <1>1, <2>1
  <2> QED BY <1>2, <1>4, <2>1, <2>2 DEF One, Two
<1>5. ASSUME NEW k, NEW m, NEW n, Three(w, k, m, n) PROVE Two(v, m, n) /\ w[2].kind = k
  <2>1. Len(v) = 4
    BY <1>1, <1>5 DEF Three
  <2>2. v[1] = w[3] /\ v[2] = w[4] /\ v[3] = w[5] /\ v[4] = w[6]
    BY <1>1, <2>1
  <2> QED BY <1>2, <1>5, <2>1, <2>2 DEF Two, Three
<1> QED BY <1>3, <1>4, <1>5 DEF Sheds

\* Reading the preface leaves the client's two frames.
LEMMA AfterPreface ==
  ASSUME NEW w \in Seq(AnyUnit), Prefaced(w, "preface", "settings", "headers")
  PROVE  w # <<>> /\ Tail(w) \in Seq(AnyUnit) /\ Two(Tail(w), "settings", "headers")
<1>1. w # <<>> /\ Len(w) = 5
  <2>1. Len(w) = 5
    BY DEF Prefaced
  <2>2. w = <<>> => Len(w) = 0
    BY EmptySeq
  <2> QED BY <2>1, <2>2
<1>2. /\ Tail(w) \in Seq(AnyUnit) /\ Len(Tail(w)) = Len(w) - 1
      /\ \A i \in 1 .. Len(Tail(w)) : Tail(w)[i] = w[i + 1]
  BY <1>1, HeadTailProperties
<1> DEFINE v == Tail(w)
<1> HIDE DEF v
<1>3. Len(v) = 4 /\ \A i \in 1 .. 4 : v[i] = w[i + 1]
  BY <1>1, <1>2 DEF v
<1>4. v[1] = w[2] /\ v[2] = w[3] /\ v[3] = w[4] /\ v[4] = w[5]
  BY <1>3
<1>5. Two(v, "settings", "headers")
  BY <1>3, <1>4 DEF Prefaced, Two
<1> QED BY <1>1, <1>2, <1>5 DEF v

-----------------------------------------------------------------------------
(* What an end's step does to the handshake.                               *)

\* An end that goes leaves what is under way.
LEMMA HandEnds ==
  ASSUME NEW pc, NEW ps, NEW wc, NEW ws, Hand(pc, ps, wc, ws)
  PROVE  /\ Hand("ended", ps, wc, ws)
         /\ ps # "start" => Hand(pc, "ended", wc, ws)
BY DEF Hand, ToClient, ToServer

\* An end that relays reads one unit.
LEMMA HandRelayReads ==
  ASSUME NEW pc, NEW ps, NEW wc \in Seq(AnyUnit), NEW ws \in Seq(AnyUnit), Hand(pc, ps, wc, ws)
  PROVE  /\ pc = "relay" /\ ws # <<>> => Hand(pc, ps, wc, Tail(ws))
         /\ ps = "relay" /\ wc # <<>> => Hand(pc, ps, Tail(wc), ws)
<1>1. ASSUME NEW w \in Seq(AnyUnit), w # <<>>, Clean(w), Len(w) <= WireCap
      PROVE  Clean(Tail(w)) /\ Len(Tail(w)) <= WireCap
  <2>1. Elements(Tail(w)) \subseteq Elements(w)
    BY <1>1, TailElements
  <2>2. Len(Tail(w)) = Len(w) - 1 /\ Len(w) \in Nat
    BY <1>1
  <2> QED BY <1>1, <2>1, <2>2, RelayAssumption DEF Clean
<1>2. ASSUME pc = "relay", ws # <<>> PROVE Hand(pc, ps, wc, Tail(ws))
  <2>1. Clean(Tail(ws)) /\ Len(Tail(ws)) <= WireCap
    BY <1>1, <1>2 DEF Hand, ToClient
  <2> QED BY <1>2, <2>1 DEF Hand, ToClient
<1>3. ASSUME ps = "relay", wc # <<>> PROVE Hand(pc, ps, Tail(wc), ws)
  <2>1. Clean(Tail(wc)) /\ Len(Tail(wc)) <= WireCap
    BY <1>1, <1>3 DEF Hand, ToServer
  <2> QED BY <1>3, <2>1 DEF Hand, ToServer
<1> QED BY <1>2, <1>3

\* An end that relays sends one unit, not of the preface.
LEMMA HandRelaySends ==
  ASSUME NEW pc, NEW ps, NEW wc \in Seq(AnyUnit), NEW ws \in Seq(AnyUnit), Hand(pc, ps, wc, ws),
         NEW u \in AnyUnit, u \notin {Plain(kind) : kind \in Prefaces}
  PROVE  /\ pc = "relay" /\ Len(wc) < WireCap => Hand(pc, ps, Append(wc, u), ws)
         /\ ps = "relay" /\ Len(ws) < WireCap => Hand(pc, ps, wc, Append(ws, u))
<1>1. ASSUME NEW w \in Seq(AnyUnit), Len(w) < WireCap
      PROVE  /\ Clean(w) => Clean(Append(w, u))
             /\ Len(Append(w, u)) <= WireCap
  <2>1. Elements(Append(w, u)) \subseteq Elements(w) \cup {u}
    BY AppendElements
  <2>2. Len(Append(w, u)) = Len(w) + 1 /\ Len(w) \in Nat
    OBVIOUS
  <2> QED BY <1>1, <2>1, <2>2, RelayAssumption DEF Clean
<1>2. ASSUME pc = "relay", Len(wc) < WireCap PROVE Hand(pc, ps, Append(wc, u), ws)
  <2>1. ps \in {"target", "connect", "relay", "ended"}
    BY <1>2 DEF Hand, ToClient
  <2>2. ps # "ended" => Clean(wc)
    BY <1>2, <2>1 DEF Hand, ToServer
  <2>3. Len(Append(wc, u)) <= WireCap /\ (ps # "ended" => Clean(Append(wc, u)))
    BY <1>1, <1>2, <2>2
  <2> QED BY <1>2, <2>1, <2>3 DEF Hand, ToServer
<1>3. ASSUME ps = "relay", Len(ws) < WireCap PROVE Hand(pc, ps, wc, Append(ws, u))
  <2>1. pc \in {"relay", "ended"}
    BY <1>3 DEF Hand, ToServer
  <2>2. pc # "ended" => Clean(ws)
    BY <1>3, <2>1 DEF Hand, ToClient
  <2>3. Len(Append(ws, u)) <= WireCap /\ (pc # "ended" => Clean(Append(ws, u)))
    BY <1>1, <1>3, <2>2
  <2> QED BY <1>3, <2>1, <2>3 DEF Hand, ToClient
<1> QED BY <1>2, <1>3

\* The client reads a frame of the handshake.
LEMMA HandClientReads ==
  ASSUME NEW pc, NEW ps, NEW wc \in Seq(AnyUnit), NEW ws \in Seq(AnyUnit), Hand(pc, ps, wc, ws),
         Len(ws) > 1, NEW v, Sheds(ws, v)
  PROVE  /\ pc = "settings" => Hand("headers", ps, wc, v)
         /\ pc = "headers" /\ ws[2].kind = "settings" => Hand("headers", ps, wc, v)
         /\ pc = "headers" /\ ws[2].kind = "headers" =>
              \A w : (ps = "junk" /\ wc = <<>> => Two(w, "junk", "challenge"))
                       => Hand("junk", ps, w, v) /\ (ps # "ended" => ps = "junk" /\ wc = <<>>)
         /\ pc = "junk" => Hand("response", ps, wc, v)
         /\ pc = "response" =>
              /\ ps # "ended" => ps = "target" /\ wc = <<>>
              /\ \A w : (ps = "target" => Clean(w) /\ Len(w) <= 2) => Hand("relay", ps, w, v)
<1>1. /\ \A k : One(ws, k) => v = <<>> /\ ws[2].kind = k
      /\ \A k, m : Two(ws, k, m) => One(v, m) /\ ws[2].kind = k
      /\ \A k, m, n : Three(ws, k, m, n) => Two(v, m, n) /\ ws[2].kind = k
  BY DEF Sheds
<1>0. ws # <<>>
  BY EmptySeq
<1>2. ASSUME pc = "settings" PROVE Hand("headers", ps, wc, v)
  <2>1. Three(ws, "settings", "settings", "headers") /\ ps \in {"junk", "ended"}
    BY <1>0, <1>2 DEF Hand, ToClient
  <2>2. Two(v, "settings", "headers")
    BY <1>1, <2>1
  <2>3. ps = "junk" => wc = <<>>
    BY <1>2 DEF Hand, ToServer
  <2> QED BY <2>1, <2>2, <2>3 DEF Hand, ToClient, ToServer
<1>3. ASSUME pc = "headers"
      PROVE  ps \in {"junk", "ended"} /\ (ps = "junk" => wc = <<>>)
             /\ (Two(ws, "settings", "headers") \/ One(ws, "headers"))
  BY <1>3 DEF Hand, ToClient, ToServer
<1>4. ASSUME pc = "headers", ws[2].kind = "settings" PROVE Hand("headers", ps, wc, v)
  <2>1. One(v, "headers")
    BY <1>1, <1>3, <1>4
  <2> QED BY <1>3, <1>4, <2>1 DEF Hand, ToClient, ToServer
<1>5. ASSUME pc = "headers", ws[2].kind = "headers", NEW w,
             ps = "junk" /\ wc = <<>> => Two(w, "junk", "challenge")
      PROVE  Hand("junk", ps, w, v) /\ (ps # "ended" => ps = "junk" /\ wc = <<>>)
  <2>1. v = <<>>
    BY <1>1, <1>3, <1>5
  <2>2. ps # "ended" => ps = "junk" /\ wc = <<>> /\ Two(w, "junk", "challenge")
    BY <1>3, <1>5
  <2> QED BY <1>3, <1>5, <2>1, <2>2 DEF Hand, ToClient, ToServer
<1>6. ASSUME pc = "junk" PROVE Hand("response", ps, wc, v)
  <2>1. Two(ws, "junk", "response") /\ ps \in {"target", "ended"}
    BY <1>0, <1>6 DEF Hand, ToClient
  <2>2. One(v, "response")
    BY <1>1, <2>1
  <2>3. ps = "target" => wc = <<>>
    BY <1>6 DEF Hand, ToServer
  <2> QED BY <2>1, <2>2, <2>3 DEF Hand, ToClient, ToServer
<1>7. ASSUME pc = "response"
      PROVE  /\ ps # "ended" => ps = "target" /\ wc = <<>>
             /\ \A w : (ps = "target" => Clean(w) /\ Len(w) <= 2) => Hand("relay", ps, w, v)
  <2>1. One(ws, "response") /\ ps \in {"target", "ended"}
    BY <1>7 DEF Hand, ToClient
  <2>2. v = <<>> /\ Clean(v) /\ Len(v) <= WireCap
    <3>1. v = <<>>
      BY <1>1, <2>1
    <3>2. Len(<<>>) = 0 /\ Elements(<<>>) = {}
      BY EmptySeq DEF Elements
    <3> QED BY <3>1, <3>2, RelayAssumption DEF Clean
  <2>3. ps = "target" => wc = <<>>
    BY <1>7 DEF Hand, ToServer
  <2>4. ASSUME NEW w, ps = "target" => Clean(w) /\ Len(w) <= 2
        PROVE  Hand("relay", ps, w, v)
    <3>1. ToClient("relay", ps, v)
      BY <2>1, <2>2 DEF ToClient
    <3>2. ToServer(ps, "relay", w)
      BY <2>1, <2>4 DEF ToServer
    <3> QED BY <2>1, <3>1, <3>2 DEF Hand
  <2> QED BY <2>1, <2>3, <2>4
<1> QED BY <1>2, <1>4, <1>5, <1>6, <1>7

\* The server reads a frame of the handshake.
LEMMA HandServerReads ==
  ASSUME NEW pc, NEW ps, NEW wc \in Seq(AnyUnit), NEW ws \in Seq(AnyUnit), Hand(pc, ps, wc, ws),
         Len(wc) > 1, NEW v, Sheds(wc, v),
         Clean(wc) => Clean(v),
         Len(v) \in Nat, Len(v) = Len(wc) - 2
  PROVE  /\ ps = "settings" => Hand(pc, "headers", v, ws)
         /\ ps = "headers" =>
              /\ pc # "ended" => ws = <<>>
              /\ \A w : (pc # "ended" => Three(w, "settings", "settings", "headers"))
                       => Hand(pc, "junk", v, w)
         /\ ps = "junk" => Hand(pc, "challenge", v, ws)
         /\ ps = "challenge" =>
              /\ pc # "ended" => ws = <<>>
              /\ \A w : (pc # "ended" => Two(w, "junk", "response")) => Hand(pc, "target", v, w)
         /\ ps = "target" => Hand(pc, "connect", v, ws)
<1>1. /\ \A k : One(wc, k) => v = <<>> /\ wc[2].kind = k
      /\ \A k, m : Two(wc, k, m) => One(v, m) /\ wc[2].kind = k
  BY DEF Sheds
<1>0. wc # <<>>
  BY EmptySeq
<1>2. ASSUME ps = "settings" PROVE Hand(pc, "headers", v, ws)
  <2>1. One(v, "headers") /\ pc \in {"settings", "ended"}
    BY <1>1, <1>2 DEF Hand, ToServer
  <2>2. pc = "settings" => ws = <<>>
    BY <1>2 DEF Hand, ToClient
  <2> QED BY <2>1, <2>2 DEF Hand, ToClient, ToServer
<1>3. ASSUME ps = "headers"
      PROVE  /\ pc # "ended" => ws = <<>>
             /\ \A w : (pc # "ended" => Three(w, "settings", "settings", "headers"))
                      => Hand(pc, "junk", v, w)
  <2>1. v = <<>> /\ pc \in {"settings", "ended"}
    BY <1>1, <1>3 DEF Hand, ToServer
  <2>2. pc = "settings" => ws = <<>>
    BY <1>3 DEF Hand, ToClient
  <2> QED BY <2>1, <2>2 DEF Hand, ToClient, ToServer
<1>4. ASSUME ps = "junk" PROVE Hand(pc, "challenge", v, ws)
  <2>1. Two(wc, "junk", "challenge") /\ pc \in {"junk", "ended"}
    BY <1>0, <1>4 DEF Hand, ToServer
  <2>2. One(v, "challenge")
    BY <1>1, <2>1
  <2>3. pc = "junk" => ws = <<>>
    BY <1>4 DEF Hand, ToClient
  <2> QED BY <2>1, <2>2, <2>3 DEF Hand, ToClient, ToServer
<1>5. ASSUME ps = "challenge"
      PROVE  /\ pc # "ended" => ws = <<>>
             /\ \A w : (pc # "ended" => Two(w, "junk", "response")) => Hand(pc, "target", v, w)
  <2>1. v = <<>> /\ pc \in {"junk", "ended"}
    BY <1>1, <1>5 DEF Hand, ToServer
  <2>2. pc = "junk" => ws = <<>>
    BY <1>5 DEF Hand, ToClient
  <2> QED BY <2>1, <2>2 DEF Hand, ToClient, ToServer
<1>6. ASSUME ps = "target" PROVE Hand(pc, "connect", v, ws)
  <2>1. /\ Clean(wc) /\ (Len(wc) <= WireCap \/ Len(wc) <= 2)
        /\ pc \in {"relay", "ended"}
    BY <1>0, <1>6 DEF Hand, ToServer
  <2>2. Clean(v) /\ Len(v) <= WireCap
    BY <2>1, RelayAssumption
  <2>3. pc = "relay" => Clean(ws) /\ Len(ws) <= WireCap
    BY <1>6 DEF Hand, ToClient
  <2> QED BY <2>1, <2>2, <2>3 DEF Hand, ToClient, ToServer
<1> QED BY <1>2, <1>3, <1>4, <1>5, <1>6

-----------------------------------------------------------------------------
(* The steps.                                                              *)

\* The two sides.
LEMMA BothSides ==
  /\ "client" \in Sides /\ "server" \in Sides /\ "client" # "server"
  /\ Other("client") = "server" /\ Other("server") = "client"
  /\ \A s \in Sides : s = "client" \/ s = "server"
BY DEF Sides, Other

\* Any end's Ends, after what it read.
LEMMA EndsKeeps ==
  ASSUME Types, NEW side \in Sides, side = "server" => phase["server"] # "start",
         phase' = [phase EXCEPT ![side] = "ended"],
         Hand(phase["client"], phase["server"], wire'["client"], wire'["server"])
  PROVE  Handshake'
<1>1. CASE side = "client"
  <2>1. phase'["client"] = "ended" /\ phase'["server"] = phase["server"]
    BY <1>1, BothSides DEF Types
  <2>2. Hand("ended", phase["server"], wire'["client"], wire'["server"])
    BY HandEnds
  <2> QED BY <2>1, <2>2 DEF Handshake
<1>2. CASE side = "server"
  <2>1. phase'["server"] = "ended" /\ phase'["client"] = phase["client"]
    BY <1>2, BothSides DEF Types
  <2>2. Hand(phase["client"], "ended", wire'["client"], wire'["server"])
    BY <1>2, HandEnds
  <2> QED BY <2>1, <2>2 DEF Handshake
<1> QED BY <1>1, <1>2, BothSides

\* recv_data takes a unit.
LEMMA RelayReads ==
  ASSUME Types, Handshake, NEW side \in Sides, phase[side] = "relay", Incoming(side) # <<>>,
         wire' = [wire EXCEPT ![Other(side)] = Tail(@)]
  PROVE  Hand(phase["client"], phase["server"], wire'["client"], wire'["server"])
<1>1. wire["client"] \in Seq(AnyUnit) /\ wire["server"] \in Seq(AnyUnit)
  BY BothSides DEF Types
<1>2. CASE side = "client"
  <2>1. wire'["server"] = Tail(wire["server"]) /\ wire'["client"] = wire["client"]
    BY <1>2, BothSides DEF Types
  <2>2. wire["server"] # <<>>
    BY <1>2, BothSides DEF Incoming
  <2> QED BY <1>1, <1>2, <2>1, <2>2, HandRelayReads DEF Handshake
<1>3. CASE side = "server"
  <2>1. wire'["client"] = Tail(wire["client"]) /\ wire'["server"] = wire["server"]
    BY <1>3, BothSides DEF Types
  <2>2. wire["client"] # <<>>
    BY <1>3, BothSides DEF Incoming
  <2> QED BY <1>1, <1>3, <2>1, <2>2, HandRelayReads DEF Handshake
<1> QED BY <1>2, <1>3, BothSides

\* A unit sent, or the write fails.
LEMMA HandSend ==
  ASSUME Types, Busy, Handshake, Shape, NEW side \in Sides, Send(side)
  PROVE  Handshake'
<1>1. phase[side] = "relay" /\ task[side] = "send"
  BY DEF Send
<1>2. CASE SendFails(side)
  BY <1>1, <1>2, EndsKeeps DEF SendFails, Ends, Handshake
<1>3. CASE Len(wire[side]) < WireCap /\ Sends(side)
  <2>1. held[side] \in Seq(AnyUnit) /\ held[side] # <<>> /\ Clean(held[side])
    BY <1>1 DEF Types, Busy, Shape
  <2>2. PICK u : u = Head(held[side])
    OBVIOUS
  <2>3. u \in AnyUnit /\ u \notin {Plain(kind) : kind \in Prefaces}
    BY <2>1, <2>2, TailElements DEF Clean
  <2>4. wire' = [wire EXCEPT ![side] = Append(@, u)] /\ phase' = phase
    BY <1>3, <2>2 DEF Sends
  <2>5. wire["client"] \in Seq(AnyUnit) /\ wire["server"] \in Seq(AnyUnit)
    BY BothSides DEF Types
  <2>6. CASE side = "client"
    <3>1. wire'["client"] = Append(wire["client"], u) /\ wire'["server"] = wire["server"]
      BY <2>4, <2>6, BothSides DEF Types
    <3> QED BY <1>1, <1>3, <2>3, <2>4, <2>5, <2>6, <3>1, HandRelaySends DEF Handshake
  <2>7. CASE side = "server"
    <3>1. wire'["server"] = Append(wire["server"], u) /\ wire'["client"] = wire["client"]
      BY <2>4, <2>7, BothSides DEF Types
    <3> QED BY <1>1, <1>3, <2>3, <2>4, <2>5, <2>7, <3>1, HandRelaySends DEF Handshake
  <2> QED BY <2>6, <2>7, BothSides
<1> QED BY <1>2, <1>3 DEF Send

\* The three outcomes of recv_data.
LEMMA HandReceives ==
  ASSUME Types, Handshake, NEW side \in Sides, RecvHead(side) \/ RecvBody(side) \/ RecvGarbage(side)
  PROVE  Handshake'
<1>1. /\ phase[side] = "relay"
      /\ Hand(phase["client"], phase["server"], wire'["client"], wire'["server"])
  BY RelayReads DEF RecvHead, RecvBody, RecvGarbage, Recv, Selects
<1>2. Ends(side) \/ UNCHANGED phase
  BY DEF RecvHead, RecvBody, RecvGarbage
<1> QED BY <1>1, <1>2, EndsKeeps DEF Ends, Handshake

\* Steps that leave the wire alone.
LEMMA HandStays ==
  ASSUME Types, Handshake, NEW side \in Sides,
         \/ ConnectFails \/ NoPeerMatches \/ TargetConnects \/ TargetRefuses
         \/ HandshakeEof(side) \/ TakeLocal(side) \/ LocalEnds(side) \/ RecvEof(side)
         \/ Deliver(side) \/ Produce(side) \/ Close(side)
  PROVE  Handshake'
<1>1. UNCHANGED wire
  BY DEF ConnectFails, NoPeerMatches, TargetConnects, TargetRefuses, HandshakeEof, TakeLocal,
         LocalEnds, RecvEof, Deliver, Produce, Close
<1>2. CASE UNCHANGED phase
  BY <1>1, <1>2 DEF Handshake
<1>3. ASSUME NEW s \in Sides, phase' = [phase EXCEPT ![s] = "ended"],
             s = "server" => phase["server"] # "start"
      PROVE  Handshake'
  BY <1>1, <1>3, EndsKeeps DEF Handshake
<1>4. CASE ConnectFails
  BY <1>3, <1>4, BothSides DEF ConnectFails
<1>5. CASE NoPeerMatches \/ TargetRefuses
  BY <1>3, <1>5, BothSides DEF NoPeerMatches, TargetRefuses, Reads, Ends
<1>6. CASE TargetConnects
  <2>1. phase["server"] = "connect" /\ phase'["server"] = "relay" /\ phase'["client"] = phase["client"]
    BY <1>6, BothSides DEF TargetConnects, Types
  <2> QED BY <1>1, <2>1 DEF Handshake, Hand, ToClient, ToServer
<1>7. CASE HandshakeEof(side) \/ LocalEnds(side) \/ RecvEof(side)
  BY <1>3, <1>7 DEF HandshakeEof, LocalEnds, RecvEof, Selects, Ends
<1>8. CASE Deliver(side)
  BY <1>2, <1>3, <1>8 DEF Deliver, Ends
<1> QED BY <1>2, <1>4, <1>5, <1>6, <1>7, <1>8 DEF TakeLocal, Produce, Close

\* The client's preface goes out.
LEMMA HandConnect ==
  ASSUME Types, Handshake, Connect
  PROVE  Handshake'
<1>1. phase["client"] = "start" /\ phase' = [client |-> "settings", server |-> "preface"]
  BY DEF Connect
<1>2. wire["server"] = <<>>
  BY <1>1 DEF Handshake, Hand, ToClient
<1>3. wire'["client"] = ClientPreface /\ wire'["server"] = wire["server"]
  BY BothSides DEF Connect, Types
<1>4. phase'["client"] = "settings" /\ phase'["server"] = "preface"
  BY <1>1
<1>5. Hand("settings", "preface", ClientPreface, <<>>)
  BY ClientPrefaceShape DEF Hand, ToClient, ToServer
<1> QED BY <1>2, <1>3, <1>4, <1>5 DEF Handshake

\* The server reads the first unit of it.
LEMMA HandPrefaceRead ==
  ASSUME Types, Handshake, PrefaceRead
  PROVE  Handshake'
<1>1. phase["server"] = "preface" /\ phase'["server"] = "settings" /\ phase'["client"] = phase["client"]
  BY BothSides DEF PrefaceRead, Types
<1>2. wire'["client"] = Tail(wire["client"]) /\ wire'["server"] = wire["server"]
  BY BothSides DEF PrefaceRead, Types
<1>3. /\ Prefaced(wire["client"], "preface", "settings", "headers")
      /\ phase["client"] \in {"settings", "ended"}
  BY <1>1 DEF Handshake, Hand, ToServer
<1>4. Two(Tail(wire["client"]), "settings", "headers")
  BY <1>3, BothSides, AfterPreface DEF Types
<1>5. phase["client"] = "settings" => wire["server"] = <<>>
  BY <1>1 DEF Handshake, Hand, ToClient
<1> QED BY <1>1, <1>2, <1>3, <1>4, <1>5 DEF Handshake, Hand, ToClient, ToServer

\* The frame read, whichever of the two directions it came in.
LEMMA ReadShapes ==
  ASSUME Types, NEW side \in Sides, Len(Incoming(side)) > 1
  PROVE  /\ Sheds(Incoming(side), Consumed(side))
         /\ Clean(Incoming(side)) => Clean(Consumed(side))
         /\ Len(Consumed(side)) \in Nat /\ Len(Consumed(side)) = Len(Incoming(side)) - 2
<1>1. PICK w \in Seq(AnyUnit) : w = Incoming(side)
  BY WireTypes
<1>2. PICK v : v = SubSeq(w, 3, Len(w))
  OBVIOUS
<1>3. v = Consumed(side) /\ Len(w) > 1
  BY <1>1, <1>2 DEF Consumed
<1>4. Sheds(w, v) /\ v \in Seq(AnyUnit) /\ Len(v) = Len(w) - 2 /\ (Clean(w) => Clean(v))
  BY <1>2, <1>3, AfterFrame, AfterShapes
<1> QED BY <1>1, <1>3, <1>4

\* The client takes one frame; v is left.
LEMMA ClientTakes ==
  ASSUME Types, Handshake, Len(Incoming("client")) > 1
  PROVE  /\ Incoming("client") = wire["server"]
         /\ wire["client"] \in Seq(AnyUnit) /\ wire["server"] \in Seq(AnyUnit)
         /\ Len(wire["server"]) > 1 /\ Sheds(wire["server"], Consumed("client"))
         /\ Hand(phase["client"], phase["server"], wire["client"], wire["server"])
BY BothSides, ReadShapes DEF Types, Handshake, Incoming

\* The server takes one frame.
LEMMA ServerTakes ==
  ASSUME Types, Handshake, Len(Incoming("server")) > 1
  PROVE  /\ Incoming("server") = wire["client"]
         /\ wire["client"] \in Seq(AnyUnit) /\ wire["server"] \in Seq(AnyUnit)
         /\ Len(wire["client"]) > 1 /\ Sheds(wire["client"], Consumed("server"))
         /\ Clean(wire["client"]) => Clean(Consumed("server"))
         /\ Len(Consumed("server")) \in Nat /\ Len(Consumed("server")) = Len(wire["client"]) - 2
         /\ Hand(phase["client"], phase["server"], wire["client"], wire["server"])
BY BothSides, ReadShapes DEF Types, Handshake, Incoming

\* SETTINGS, at either end.
LEMMA HandSettingsRead ==
  ASSUME Types, Handshake, NEW side \in Sides, SettingsRead(side)
  PROVE  Handshake'
<1>1. CASE side = "client"
  <2>1. /\ phase["client"] = "settings" /\ Len(Incoming("client")) > 1
        /\ phase'["client"] = "headers" /\ phase'["server"] = phase["server"]
        /\ wire'["server"] = Consumed("client") /\ wire'["client"] = wire["client"]
    BY <1>1, BothSides DEF SettingsRead, Reads, Types
  <2>2. Hand("headers", phase["server"], wire["client"], Consumed("client"))
    BY <2>1, ClientTakes, HandClientReads
  <2> QED BY <2>1, <2>2 DEF Handshake
<1>2. CASE side = "server"
  <2>1. /\ phase["server"] = "settings" /\ Len(Incoming("server")) > 1
        /\ phase'["server"] = "headers" /\ phase'["client"] = phase["client"]
        /\ wire'["client"] = Consumed("server") /\ wire'["server"] = wire["server"]
    BY <1>2, BothSides DEF SettingsRead, Reads, Types
  <2>2. Hand(phase["client"], "headers", Consumed("server"), wire["server"])
    BY <2>1, ServerTakes, HandServerReads
  <2> QED BY <2>1, <2>2 DEF Handshake
<1> QED BY <1>1, <1>2, BothSides

\* Junk, at either end.
LEMMA HandJunkRead ==
  ASSUME Types, Handshake, NEW side \in Sides, JunkRead(side)
  PROVE  Handshake'
<1>1. CASE side = "client"
  <2>1. /\ phase["client"] = "junk" /\ Len(Incoming("client")) > 1
        /\ phase'["client"] = "response" /\ phase'["server"] = phase["server"]
        /\ wire'["server"] = Consumed("client") /\ wire'["client"] = wire["client"]
    BY <1>1, BothSides DEF JunkRead, Reads, Types
  <2>2. Hand("response", phase["server"], wire["client"], Consumed("client"))
    BY <2>1, ClientTakes, HandClientReads
  <2> QED BY <2>1, <2>2 DEF Handshake
<1>2. CASE side = "server"
  <2>1. /\ phase["server"] = "junk" /\ Len(Incoming("server")) > 1
        /\ phase'["server"] = "challenge" /\ phase'["client"] = phase["client"]
        /\ wire'["client"] = Consumed("server") /\ wire'["server"] = wire["server"]
    BY <1>2, BothSides DEF JunkRead, Reads, Types
  <2>2. Hand(phase["client"], "challenge", Consumed("server"), wire["server"])
    BY <2>1, ServerTakes, HandServerReads
  <2> QED BY <2>1, <2>2 DEF Handshake
<1> QED BY <1>1, <1>2, BothSides

\* The server answers the client's HEADERS.
LEMMA HandServerHandshake ==
  ASSUME Types, Handshake, ServerHandshake
  PROVE  Handshake'
<1>1. /\ phase["server"] = "headers" /\ Len(Incoming("server")) > 1
      /\ phase'["server"] = "junk" /\ phase'["client"] = phase["client"]
  BY BothSides DEF ServerHandshake, Reads, Types
<1>2. wire'["client"] = Consumed("server") /\ wire'["server"] = wire["server"] \o ServerPreface
  BY DEF ServerHandshake
<1>3. /\ phase["client"] # "ended" => wire["server"] = <<>>
      /\ \A w : (phase["client"] # "ended" => Three(w, "settings", "settings", "headers"))
                  => Hand(phase["client"], "junk", Consumed("server"), w)
  BY <1>1, ServerTakes, HandServerReads
<1>4. phase["client"] # "ended" => wire'["server"] = ServerPreface
  BY <1>2, <1>3, ServerPrefaceShape, ConcatEmptySeq
<1>5. phase["client"] # "ended" => Three(wire'["server"], "settings", "settings", "headers")
  BY <1>4, ServerPrefaceShape
<1>6. Hand(phase["client"], "junk", Consumed("server"), wire'["server"])
  BY <1>3, <1>5
<1> QED BY <1>1, <1>2, <1>6 DEF Handshake

\* The client skips the acknowledgement, or has the HEADERS.
LEMMA HandHeadersRead ==
  ASSUME Types, Handshake, HeadersRead
  PROVE  Handshake'
<1>1. phase["client"] = "headers" /\ Len(Incoming("client")) > 1
  BY DEF HeadersRead, Reads
<1>2. Incoming("client") = wire["server"]
  BY <1>1, ClientTakes
<1>3. CASE /\ wire["server"][2].kind = "settings"
           /\ wire' = [wire EXCEPT !["server"] = Consumed("client")] /\ UNCHANGED phase
  <2>1. Hand("headers", phase["server"], wire["client"], Consumed("client"))
    BY <1>1, <1>3, ClientTakes, HandClientReads
  <2>2. wire'["server"] = Consumed("client") /\ wire'["client"] = wire["client"]
    BY <1>3, BothSides DEF Types
  <2> QED BY <1>1, <1>3, <2>1, <2>2 DEF Handshake
<1>4. CASE /\ wire["server"][2].kind = "headers"
           /\ phase' = [phase EXCEPT !["client"] = "junk"]
           /\ wire' = [server |-> Consumed("client"),
                       client |-> wire["client"] \o Frame(Plain("junk")) \o Frame(Plain("challenge"))]
  <2>1. \A w : (phase["server"] = "junk" /\ wire["client"] = <<>> => Two(w, "junk", "challenge"))
                 => Hand("junk", phase["server"], w, Consumed("client"))
    <3>1. /\ wire["client"] \in Seq(AnyUnit) /\ wire["server"] \in Seq(AnyUnit)
          /\ Len(wire["server"]) > 1 /\ Sheds(wire["server"], Consumed("client"))
          /\ Hand("headers", phase["server"], wire["client"], wire["server"])
      BY <1>1, ClientTakes
    <3> QED BY <1>4, <3>1, HandClientReads
  <2>2. /\ wire'["server"] = Consumed("client")
        /\ wire'["client"] = wire["client"] \o Frame(Plain("junk")) \o Frame(Plain("challenge"))
    BY <1>4
  <2>3. wire["client"] = <<>> => Two(wire'["client"], "junk", "challenge")
    BY <2>2, TwoFrames, HandshakeKinds
  <2>4. Hand("junk", phase["server"], wire'["client"], Consumed("client"))
    BY <2>1, <2>3
  <2>5. phase'["client"] = "junk" /\ phase'["server"] = phase["server"]
    BY <1>4, BothSides DEF Types
  <2> QED BY <2>2, <2>4, <2>5 DEF Handshake
<1> QED BY <1>2, <1>3, <1>4 DEF HeadersRead, Reads

\* The server answers the challenge.
LEMMA HandPeerMatched ==
  ASSUME Types, Handshake, PeerMatched
  PROVE  Handshake'
<1>1. /\ phase["server"] = "challenge" /\ Len(Incoming("server")) > 1
      /\ phase'["server"] = "target" /\ phase'["client"] = phase["client"]
  BY BothSides DEF PeerMatched, Reads, Types
<1>2. /\ wire'["client"] = Consumed("server")
      /\ wire'["server"] = wire["server"] \o Frame(Plain("junk")) \o Frame(Plain("response"))
  BY DEF PeerMatched
<1>3. /\ phase["client"] # "ended" => wire["server"] = <<>>
      /\ \A w : (phase["client"] # "ended" => Two(w, "junk", "response"))
                  => Hand(phase["client"], "target", Consumed("server"), w)
  BY <1>1, ServerTakes, HandServerReads
<1>4. phase["client"] # "ended" => Two(wire'["server"], "junk", "response")
  BY <1>2, <1>3, TwoFrames, HandshakeKinds
<1>5. Hand(phase["client"], "target", Consumed("server"), wire'["server"])
  BY <1>3, <1>4
<1> QED BY <1>1, <1>2, <1>5 DEF Handshake

\* The server opens the target.
LEMMA HandTargetRead ==
  ASSUME Types, Handshake, TargetRead
  PROVE  Handshake'
<1>1. /\ phase["server"] = "target" /\ Len(Incoming("server")) > 1
      /\ phase'["server"] = "connect" /\ phase'["client"] = phase["client"]
      /\ wire'["client"] = Consumed("server") /\ wire'["server"] = wire["server"]
  BY BothSides DEF TargetRead, Reads, Types
<1>2. Hand(phase["client"], "connect", Consumed("server"), wire["server"])
  BY <1>1, ServerTakes, HandServerReads
<1> QED BY <1>1, <1>2 DEF Handshake

\* A sealed frame holds nothing of the preface.
LEMMA SealedFrameClean ==
  ASSUME CipherTypes, NEW side \in Sides, NEW kind \in {"target", "data"},
         NEW chunks \in Seq(Nat), NEW fits \in BOOLEAN
  PROVE  LET f == Frame(Sealed(side, kind, chunks, fits))
         IN  f \in Seq(AnyUnit) /\ Len(f) = 2 /\ Clean(f)
<1>1. PICK u : u = Sealed(side, kind, chunks, fits)
  OBVIOUS
<1>2. u \in AnyUnit /\ IsSealed(u)
  BY <1>1, SealedTypes
<1>3. \A k \in Prefaces : ~IsSealed(Plain(k)) /\ HEAD # Plain(k)
  <2>1. \A k \in Prefaces : k \in PlainKinds
    BY DEF PlainKinds
  <2>2. \A k \in Prefaces : HEAD # Plain(k)
    BY DEF HEAD, Plain
  <2> QED BY <2>1, <2>2, PlainTypes
<1>4. Frame(u) \in Seq(AnyUnit) /\ Elements(Frame(u)) = {HEAD, u}
  BY <1>2, FrameElements
<1>5. Clean(Frame(u))
  BY <1>2, <1>3, <1>4 DEF Clean
<1>6. Len(Frame(u)) = 2
  BY DEF Frame
<1> QED BY <1>1, <1>4, <1>5, <1>6

\* The client sends the target and relays.
LEMMA HandResponseRead ==
  ASSUME CipherTypes, Types, Handshake, ResponseRead
  PROVE  Handshake'
<1>1. /\ phase["client"] = "response" /\ Len(Incoming("client")) > 1
      /\ phase'["client"] = "relay" /\ phase'["server"] = phase["server"]
  BY BothSides DEF ResponseRead, Reads, Types
<1>2. PICK f : f = Frame(Sealed("client", "target", <<>>, TRUE))
  OBVIOUS
<1>3. wire'["server"] = Consumed("client") /\ wire'["client"] = wire["client"] \o f
  BY <1>2 DEF ResponseRead
<1>4. f \in Seq(AnyUnit) /\ Len(f) = 2 /\ Clean(f)
  <2>1. <<>> \in Seq(Nat) /\ TRUE \in BOOLEAN /\ "target" \in {"target", "data"}
    OBVIOUS
  <2> QED BY <1>2, <2>1, BothSides, SealedFrameClean
<1>5. /\ phase["server"] # "ended" => phase["server"] = "target" /\ wire["client"] = <<>>
      /\ \A w : (phase["server"] = "target" => Clean(w) /\ Len(w) <= 2)
                  => Hand("relay", phase["server"], w, Consumed("client"))
  <2>1. /\ wire["client"] \in Seq(AnyUnit) /\ wire["server"] \in Seq(AnyUnit)
        /\ Len(wire["server"]) > 1 /\ Sheds(wire["server"], Consumed("client"))
        /\ Hand("response", phase["server"], wire["client"], wire["server"])
    BY <1>1, ClientTakes
  <2> QED BY <2>1, HandClientReads
<1>6. phase["server"] = "target" => wire'["client"] = f
  BY <1>3, <1>4, <1>5, ConcatEmptySeq
<1>7. phase["server"] = "target" => Clean(wire'["client"]) /\ Len(wire'["client"]) <= 2
  <2>1. Clean(f) /\ Len(f) <= 2
    BY <1>4
  <2> QED BY <1>6, <2>1, Zenon
<1>8. Hand("relay", phase["server"], wire'["client"], Consumed("client"))
  BY <1>5, <1>7
<1> QED BY <1>1, <1>3, <1>8 DEF Handshake

\* Every step keeps the handshake's order.
LEMMA HandshakeKept ==
  ASSUME CipherTypes, Types, Busy, Handshake, Shape, Next
  PROVE  Handshake'
<1>1. CASE ServerStep
  BY <1>1, HandPrefaceRead, HandServerHandshake, HandPeerMatched, HandTargetRead, HandStays, BothSides
     DEF ServerStep
<1>2. CASE Connect \/ ConnectFails \/ HeadersRead \/ ResponseRead
  BY <1>2, HandConnect, HandHeadersRead, HandResponseRead, HandStays, BothSides
<1>3. ASSUME NEW side \in Sides, SideStep(side) \/ Produce(side) \/ Close(side)
      PROVE  Handshake'
  BY <1>3, HandSettingsRead, HandJunkRead, HandSend, HandReceives, HandStays DEF SideStep
<1> QED BY <1>1, <1>2, <1>3 DEF Next

-----------------------------------------------------------------------------
(* Branch bodies, and what is only counted.                                *)

\* Every step leaves each branch body what it works on.
LEMMA ShapeKept ==
  ASSUME CipherTypes, Types, Busy, Shape, Next
  PROVE  Shape'
<1>1. CASE UNCHANGED <<task, held>>
  BY <1>1 DEF Shape, Clean, IsSealed, Elements
<1>2. ASSUME NEW side \in Sides, NEW t, NEW h,
             task' = [task EXCEPT ![side] = t], held' = [held EXCEPT ![side] = h],
             t = "select" => h = <<>>,
             t = "deliver" => Len(h) = 1 /\ IsSealed(h[1]),
             t = "send" => Clean(h)
      PROVE  Shape'
  <2>1. /\ task'[side] = t /\ held'[side] = h
        /\ \A s \in Sides : s # side => task'[s] = task[s] /\ held'[s] = held[s]
    BY <1>2 DEF Types
  <2> QED BY <1>2, <2>1 DEF Shape, Clean, IsSealed, Elements
<1>3. ASSUME NEW side \in Sides, TakeLocal(side) PROVE Shape'
  <2> DEFINE n == IF Len(inbox[side]) < Batch(side) THEN Len(inbox[side]) ELSE Batch(side)
  <2>1. PICK fits \in BOOLEAN :
          held' = [held EXCEPT ![side] = Frame(Sealed(side, "data", SubSeq(inbox[side], 1, n), fits))]
    BY <1>3 DEF TakeLocal, LengthFits
  <2>2. inbox[side] \in Seq(Nat) /\ n \in Nat /\ n <= Len(inbox[side])
    BY RelayAssumption DEF Types, Batch
  <2> HIDE DEF n
  <2>3. SubSeq(inbox[side], 1, n) \in Seq(Nat) /\ "data" \in {"target", "data"}
    BY <2>2
  <2>4. PICK f : f = Frame(Sealed(side, "data", SubSeq(inbox[side], 1, n), fits))
    OBVIOUS
  <2>5. Clean(f)
    BY <2>3, <2>4, SealedFrameClean
  <2>6. task' = [task EXCEPT ![side] = "send"]
    BY <1>3 DEF TakeLocal
  <2> QED BY <1>2, <2>1, <2>4, <2>5, <2>6
<1>4. ASSUME NEW side \in Sides, Send(side) PROVE Shape'
  <2>1. task[side] = "send" /\ held[side] \in Seq(AnyUnit) /\ held[side] # <<>> /\ Clean(held[side])
    BY <1>4 DEF Send, Types, Busy, Shape
  <2>2. CASE UNCHANGED <<task, held>>
    BY <1>1, <2>2
  <2>3. CASE Sends(side)
    <3>1. PICK h : h = Tail(held[side])
      OBVIOUS
    <3>2. PICK t : t = IF Len(held[side]) = 1 THEN "select" ELSE task[side]
      OBVIOUS
    <3>3. task' = [task EXCEPT ![side] = t] /\ held' = [held EXCEPT ![side] = h]
      BY <2>3, <3>1, <3>2 DEF Sends, Types
    <3>4. Elements(h) \subseteq Elements(held[side])
      BY <2>1, <3>1, TailElements
    <3>5. Clean(h)
      BY <2>1, <3>4 DEF Clean
    <3>6. Len(held[side]) = 1 => h = <<>>
      BY <2>1, <3>1, HeadTailProperties, EmptySeq
    <3>7. t \in {"select", "send"} /\ (t = "select" => h = <<>>)
      BY <2>1, <3>2, <3>6
    <3> QED BY <1>2, <3>3, <3>5, <3>7
  <2> QED BY <1>4, <2>2, <2>3 DEF Send, SendFails
<1>5. ASSUME NEW side \in Sides, RecvBody(side) PROVE Shape'
  <2>1. PICK body : body = Head(Incoming(side))
    OBVIOUS
  <2>2. CASE UNCHANGED <<task, held>>
    BY <1>1, <2>2
  <2>3. CASE /\ Opens(side, body)
             /\ held' = [held EXCEPT ![side] = <<body>>] /\ task' = [task EXCEPT ![side] = "deliver"]
    <3>1. PICK h : h = <<body>>
      OBVIOUS
    <3>2. Len(h) = 1 /\ IsSealed(h[1])
      BY <2>3, <3>1 DEF Opens, Unpacks
    <3> QED BY <1>2, <2>3, <3>1, <3>2
  <2> QED BY <1>5, <2>1, <2>2, <2>3 DEF RecvBody
<1>6. ASSUME NEW side \in Sides, Deliver(side) PROVE Shape'
  BY <1>1, <1>2, <1>6 DEF Deliver
<1>7. CASE Quiet \/ ResponseRead \/ TargetRead \/ \E side \in Sides : Produce(side)
  BY <1>1, <1>7 DEF Quiet, ResponseRead, TargetRead, Produce
<1> QED BY <1>3, <1>4, <1>5, <1>6, <1>7, StepKinds

\* The server counts the session while its handler runs.
Counted == active = IF phase["server"] \in Uncounted THEN 0 ELSE 1

Small ==
  /\ reading \in [Sides -> {"head", "body", "skip"}]
  /\ closed \in [Sides -> BOOLEAN]
  /\ made \in [Sides -> 0 .. Chunks]
  /\ Counted

\* The server's part of active_connections.
LEMMA CountKept ==
  ASSUME Types, Busy, Counted, Next
  PROVE  Counted'
<1>1. CASE active' = active /\ (phase'["server"] \in Uncounted <=> phase["server"] \in Uncounted)
  BY <1>1 DEF Counted, Uncounted
<1>2. ASSUME active' = active, NEW p, phase' = [phase EXCEPT !["client"] = p]
      PROVE  Counted'
  BY <1>1, <1>2, BothSides DEF Types
<1>3. ASSUME active' = active, NEW p, phase' = [phase EXCEPT !["server"] = p],
             p \in Uncounted <=> phase["server"] \in Uncounted
      PROVE  Counted'
  BY <1>1, <1>3, BothSides DEF Types
<1>4. ASSUME NEW side \in Sides, Ends(side) PROVE Counted'
  <2>1. CASE side = "client"
    BY <1>2, <1>4, <2>1, BothSides DEF Ends
  <2>2. CASE side = "server"
    <3>1. phase'["server"] = "ended"
      BY <1>4, <2>2, BothSides DEF Ends, Types
    <3>2. active' = 0
      BY <1>4, <2>2 DEF Ends, Counted
    <3> QED BY <3>1, <3>2 DEF Counted, Uncounted
  <2> QED BY <2>1, <2>2, BothSides
<1>5. CASE Connect
  <2>1. phase["server"] = "start" /\ phase'["server"] = "preface" /\ active' = active
    BY <1>5 DEF Connect, Busy, Stays
  <2> QED BY <1>1, <2>1 DEF Uncounted
<1>6. CASE ConnectFails \/ HeadersRead \/ ResponseRead
  BY <1>1, <1>2, <1>6 DEF ConnectFails, HeadersRead, ResponseRead, Stays
<1>7. CASE PrefaceRead
  BY <1>3, <1>7 DEF PrefaceRead, Stays, Uncounted
<1>8. CASE ServerHandshake
  <2>1. phase["server"] = "headers" /\ phase'["server"] = "junk" /\ active' = active + 1
    BY <1>8, BothSides DEF ServerHandshake, Reads, Types
  <2> QED BY <2>1 DEF Counted, Uncounted
<1>9. CASE PeerMatched
  BY <1>3, <1>9 DEF PeerMatched, Reads, Stays, Uncounted
<1>10. CASE TargetRead \/ TargetConnects
  BY <1>3, <1>10 DEF TargetRead, TargetConnects, Reads, Stays, Uncounted
<1>11. CASE NoPeerMatches \/ TargetRefuses
  BY <1>4, <1>11, BothSides DEF NoPeerMatches, TargetRefuses
<1>12. ASSUME NEW side \in Sides, SettingsRead(side) \/ JunkRead(side) PROVE Counted'
  <2>1. CASE side = "client"
    BY <1>2, <1>12, <2>1 DEF SettingsRead, JunkRead, Stays
  <2>2. CASE side = "server"
    BY <1>3, <1>12, <2>2 DEF SettingsRead, JunkRead, Reads, Stays, Uncounted
  <2> QED BY <2>1, <2>2, BothSides
<1>13. ASSUME NEW side \in Sides, SideStep(side) \/ Produce(side) \/ Close(side) PROVE Counted'
  <2>1. Ends(side) \/ (active' = active /\ phase' = phase) \/ SettingsRead(side) \/ JunkRead(side)
    BY <1>13 DEF SideStep, Produce, Close, HandshakeEof, TakeLocal, LocalEnds, Send, Sends, SendFails,
                 RecvHead, RecvBody, RecvGarbage, RecvEof, Deliver, Stays
  <2> QED BY <1>1, <1>4, <1>12, <2>1
<1> QED BY <1>5, <1>6, <1>7, <1>8, <1>9, <1>10, <1>11, <1>13 DEF Next, ServerStep

\* The rest of the types.
LEMMA SmallKept ==
  ASSUME Types, Busy, Small, Next
  PROVE  Small'
<1>1. Counted'
  BY CountKept DEF Small
<1>2. reading \in [Sides -> {"head", "body", "skip"}] /\ closed \in [Sides -> BOOLEAN]
      /\ made \in [Sides -> 0 .. Chunks] /\ Chunks \in Nat
  BY RelayAssumption DEF Small
<1>3. CASE UNCHANGED <<reading, closed, made>>
  BY <1>1, <1>2, <1>3 DEF Small
<1>4. ASSUME NEW side \in Sides, NEW r \in {"head", "body", "skip"},
             reading' = [reading EXCEPT ![side] = r], UNCHANGED <<closed, made>>
      PROVE  Small'
  BY <1>1, <1>2, <1>4 DEF Small
<1>5. CASE Connect \/ ConnectFails \/ HeadersRead \/ ResponseRead \/ ServerStep
  BY <1>3, <1>5 DEF Connect, ConnectFails, HeadersRead, ResponseRead, ServerStep, PrefaceRead,
       ServerHandshake, PeerMatched, NoPeerMatches, TargetRead, TargetConnects, TargetRefuses, local
<1>6. ASSUME NEW side \in Sides,
             \/ SettingsRead(side) \/ JunkRead(side) \/ HandshakeEof(side) \/ LocalEnds(side)
             \/ Send(side) \/ RecvEof(side) \/ Deliver(side)
      PROVE  Small'
  BY <1>3, <1>6 DEF SettingsRead, JunkRead, HandshakeEof, LocalEnds, Send, RecvEof, Deliver, local
<1>7. ASSUME NEW side \in Sides, TakeLocal(side) \/ RecvHead(side) \/ RecvBody(side) \/ RecvGarbage(side)
      PROVE  Small'
  <2>1. UNCHANGED <<closed, made>>
    BY <1>7 DEF TakeLocal, RecvHead, RecvBody, RecvGarbage, local
  <2>2. \/ UNCHANGED reading
        \/ \E r \in {"head", "body", "skip"} : reading' = [reading EXCEPT ![side] = r]
    BY <1>7 DEF TakeLocal, RecvHead, RecvBody, RecvGarbage
  <2> QED BY <1>3, <1>4, <2>1, <2>2
<1>8. ASSUME NEW side \in Sides, Produce(side) PROVE Small'
  <2>1. made[side] + 1 \in 0 .. Chunks
    BY <1>2, <1>8 DEF Produce
  <2>2. made' \in [Sides -> 0 .. Chunks]
    BY <1>2, <1>8, <2>1 DEF Produce
  <2> QED BY <1>1, <1>2, <1>8, <2>2 DEF Produce, Small
<1>9. ASSUME NEW side \in Sides, Close(side) PROVE Small'
  BY <1>1, <1>2, <1>9 DEF Close, Small
<1> QED BY <1>5, <1>6, <1>7, <1>8, <1>9 DEF Next, SideStep

-----------------------------------------------------------------------------
(* What the invariants give.                                               *)

\* A run of chunks that were made.
LEMMA RunBound ==
  ASSUME NEW a \in Nat, NEW b \in Nat, a <= b, b <= Chunks
  PROVE  Run(a, b) \in Seq(1 .. Chunks)
<1>1. Chunks \in Nat
  BY RelayAssumption
<1>2. Run(a, b) \in Seq(Nat) /\ Len(Run(a, b)) = b - a
  BY RunTypes
<1>3. \A i \in 1 .. b - a : Run(a, b)[i] \in 1 .. Chunks
  BY <1>1 DEF Run
<1> QED BY <1>1, <1>3 DEF Run

\* The chunks of a plan are among those the end has made.
LEMMA PlanBound ==
  ASSUME CipherTypes, Small, NEW side \in Sides, NEW g \in Plans, SenderFollows(side, g),
         NEW i \in Nat, NEW j \in Nat, i <= j, j <= tx[side].counter
  PROVE  Run(g[i], g[j]) \in Seq(1 .. Chunks)
<1>1. tx[side].counter \in Nat /\ made[side] \in Nat /\ made[side] <= Chunks /\ Chunks \in Nat
  BY RelayAssumption DEF CipherTypes, Small
<1>2. Grows(g, tx[side].counter) /\ g[tx[side].counter] <= made[side]
  BY DEF SenderFollows
<1>3. g[i] <= g[j] /\ g[j] <= g[tx[side].counter]
  BY <1>1, <1>2 DEF Grows
<1>4. g[i] \in Nat /\ g[j] \in Nat /\ g[tx[side].counter] \in Nat
  BY <1>1 DEF Plans
<1>5. g[j] <= Chunks
  BY <1>1, <1>2, <1>3, <1>4
<1> QED BY <1>3, <1>4, <1>5, RunBound

\* A unit whose chunks were made is one of the model's units.
LEMMA WholeUnit ==
  ASSUME NEW u \in AnyUnit, IsSealed(u) => u.chunks \in Seq(1 .. Chunks)
  PROVE  u \in Units
<1>1. CASE u \in SealedUnits
  <2>1. u.part = "body" /\ u.kind \in {"target", "data"}
    BY <1>1 DEF SealedUnits
  <2>2. u.chunks \in Seq(1 .. Chunks)
    BY <2>1 DEF IsSealed
  <2> QED BY <1>1, <2>2 DEF SealedUnits, Units, Bodies
<1>2. CASE u \in PlainUnits
  BY <1>2 DEF PlainUnits, Units, Bodies
<1>3. CASE u = HEAD
  BY <1>3 DEF Units
<1> QED BY <1>1, <1>2, <1>3 DEF AnyUnit

\* And a sequence of them.
LEMMA WholeUnits ==
  ASSUME NEW s \in Seq(AnyUnit), \A u \in Elements(s) : IsSealed(u) => u.chunks \in Seq(1 .. Chunks)
  PROVE  s \in Seq(Units)
<1>1. \A i \in 1 .. Len(s) : s[i] \in Elements(s) /\ s[i] \in AnyUnit
  BY DEF Elements
<1>2. \A i \in 1 .. Len(s) : s[i] \in Units
  BY <1>1, WholeUnit
<1> QED BY <1>2

\* A packet under way carries chunks its end has made.
LEMMA PlannedChunks ==
  ASSUME CipherTypes, Small, NEW side \in Sides, NEW g \in Plans, SenderFollows(side, g),
         NEW u \in AnyUnit, IsSealed(u), Planned(side, g, u)
  PROVE  u.chunks \in Seq(1 .. Chunks)
<1>1. PICK c \in Nat : c = u.counter
  BY UnitTypes
<1>2. c + 1 \in Nat /\ c <= c + 1 /\ c + 1 <= tx[side].counter
  BY <1>1 DEF Planned, CipherTypes
<1>3. Run(g[c], g[c + 1]) \in Seq(1 .. Chunks)
  BY <1>1, <1>2, PlanBound
<1> QED BY <1>1, <1>3 DEF Planned

\* All that is sent, held, queued and delivered is chunks that were made.
LEMMA ChunkTypes ==
  ASSUME IInv, Shape, Small, NEW side \in Sides
  PROVE  /\ wire[side] \in Seq(Units)
         /\ held[side] \in Seq(Units)
         /\ inbox[side] \in Seq(1 .. Chunks)
         /\ delivered[side] \in Seq(1 .. Chunks)
<1>1. PICK g \in Plans : Follows(side, g)
  BY DEF IInv, Order
<1>2. PICK o : o = Other(side)
  OBVIOUS
<1>3. o \in Sides /\ Other(o) = side
  BY <1>2, OtherSides
<1>4. PICK h \in Plans : Follows(o, h)
  BY <1>3 DEF IInv, Order
<1>5. SenderFollows(side, g) /\ SenderFollows(o, h) /\ ReceiverFollows(side, h)
  BY <1>1, <1>3, <1>4 DEF Follows
<1>6. /\ CipherTypes /\ wire[side] \in Seq(AnyUnit) /\ held[side] \in Seq(AnyUnit)
      /\ rx[side] \in Nat /\ tx[side].counter \in Nat /\ tx[o].counter \in Nat
  BY <1>3 DEF IInv, Types, CipherTypes
<1>7. wire[side] \in Seq(Units)
  <2>1. \A u \in Elements(wire[side]) : u \in AnyUnit
    BY <1>6 DEF Elements
  <2>2. \A u \in Elements(wire[side]) : IsSealed(u) => Planned(side, g, u)
    BY <1>5 DEF SenderFollows
  <2> QED BY <1>5, <1>6, <2>1, <2>2, PlannedChunks, WholeUnits
<1>8. inbox[side] \in Seq(1 .. Chunks)
  <2>1. PICK a \in Nat : a = g[tx[side].counter]
    BY <1>6 DEF Plans
  <2>2. inbox[side] = Run(a, made[side]) /\ a <= made[side]
    BY <1>5, <2>1 DEF SenderFollows
  <2>3. made[side] \in Nat /\ made[side] <= Chunks
    BY RelayAssumption DEF Small
  <2> QED BY <2>1, <2>2, <2>3, RunBound
<1>9. rx[side] <= tx[o].counter
  BY <1>2, <1>5 DEF ReceiverFollows
<1>10. PICK d \in Nat : d <= tx[o].counter /\ delivered[side] = Run(0, h[d])
  <2>1. CASE task[side] # "deliver"
    BY <1>5, <1>6, <1>9, <2>1 DEF ReceiverFollows
  <2>2. CASE task[side] = "deliver"
    <3>1. rx[side] > 0 /\ delivered[side] = Run(0, h[rx[side] - 1])
      BY <1>5, <2>2 DEF ReceiverFollows
    <3>2. rx[side] - 1 \in Nat /\ rx[side] - 1 <= tx[o].counter
      BY <1>6, <1>9, <3>1
    <3> QED BY <3>1, <3>2
  <2> QED BY <2>1, <2>2
<1>11. delivered[side] \in Seq(1 .. Chunks)
  <2>1. made[o] \in Nat /\ made[o] <= Chunks /\ Chunks \in Nat
    BY <1>3, RelayAssumption DEF Small
  <2>2. Grows(h, tx[o].counter) /\ h[tx[o].counter] <= made[o]
    BY <1>5 DEF SenderFollows
  <2>3. h[d] \in Nat /\ h[tx[o].counter] \in Nat
    BY <1>6, <1>10 DEF Plans
  <2>4. h[d] <= h[tx[o].counter]
    BY <1>6, <1>10, <2>2 DEF Grows
  <2>5. h[d] <= Chunks /\ 0 <= h[d] /\ 0 \in Nat
    BY <2>1, <2>2, <2>3, <2>4
  <2> QED BY <1>10, <2>3, <2>5, RunBound
<1>12. held[side] \in Seq(Units)
  <2>1. CASE task[side] = "select"
    BY <2>1, EmptySeq DEF Shape
  <2>2. CASE task[side] = "send"
    <3>1. \A u \in Elements(held[side]) : u \in AnyUnit
      BY <1>6 DEF Elements
    <3>2. \A u \in Elements(held[side]) : IsSealed(u) => Planned(side, g, u)
      BY <1>5, <2>2 DEF SenderFollows
    <3> QED BY <1>5, <1>6, <3>1, <3>2, PlannedChunks, WholeUnits
  <2>3. CASE task[side] = "deliver"
    <3>1. rx[side] > 0 /\ held[side][1].chunks = Run(h[rx[side] - 1], h[rx[side]])
      BY <1>5, <2>3 DEF ReceiverFollows
    <3>2. rx[side] - 1 \in Nat /\ rx[side] - 1 <= rx[side]
      BY <1>6, <3>1
    <3>6. Run(h[rx[side] - 1], h[rx[side]]) \in Seq(1 .. Chunks)
      <4>1. CipherTypes /\ Small /\ o \in Sides /\ SenderFollows(o, h)
        BY <1>3, <1>5, <1>6
      <4> QED BY <1>6, <1>9, <3>2, <4>1, PlanBound
    <3>3. held[side][1].chunks \in Seq(1 .. Chunks)
      BY <3>1, <3>6
    <3>4. Len(held[side]) = 1
      BY <2>3 DEF Shape
    <3>5. \A u \in Elements(held[side]) : u = held[side][1]
      BY <3>4 DEF Elements
    <3> QED BY <1>6, <3>3, <3>5, WholeUnits
  <2> QED BY <2>1, <2>2, <2>3 DEF IInv, Types
<1> QED BY <1>7, <1>8, <1>11, <1>12

\* The types, from the four invariants.
LEMMA TypesGiven ==
  ASSUME IInv, Handshake, Shape, Small
  PROVE  TypeOK
<1>1. /\ wire \in [Sides -> Seq(Units)] /\ held \in [Sides -> Seq(Units)]
      /\ inbox \in [Sides -> Seq(1 .. Chunks)] /\ delivered \in [Sides -> Seq(1 .. Chunks)]
  BY ChunkTypes DEF IInv, Types
<1>2. \A side \in Sides : Len(wire[side]) <= WireCap \/ phase[Other(side)] # "relay"
  <2>1. Len(wire["client"]) <= WireCap \/ phase["server"] # "relay"
    BY DEF Handshake, Hand, ToServer
  <2>2. Len(wire["server"]) <= WireCap \/ phase["client"] # "relay"
    BY DEF Handshake, Hand, ToClient
  <2> QED BY <2>1, <2>2, BothSides
<1>3. /\ phase \in [Sides -> Prefaces \cup {"start", "junk", "challenge", "response", "target",
                              "connect", "relay", "ended"}]
      /\ task \in [Sides -> {"select", "send", "deliver"}] /\ rx \in [Sides -> Nat]
  BY DEF IInv, Types, PhaseNames
<1>4. /\ tx \in [Sides -> [counter : Nat, seq : 0 .. RtpMod - 1]]
      /\ sealed \in [Sides -> Seq(Nat \X (0 .. RtpMod - 1))]
  BY DEF IInv, CipherTypes
<1> QED BY <1>1, <1>2, <1>3, <1>4 DEF TypeOK, Small, Counted

\* Nothing of the preface is left for an end that is through with it.
LEMMA ShapesClean ==
  ASSUME NEW w, NEW k \in {"junk", "challenge", "response"},
         NEW m \in {"junk", "challenge", "response"}
  PROVE  One(w, k) \/ Two(w, k, m) \/ w = <<>> => Clean(w)
<1>1. \A p \in Prefaces : HEAD # Plain(p) /\ Plain(k) # Plain(p) /\ Plain(m) # Plain(p)
  BY DEF HEAD, Plain, Prefaces
<1>2. ASSUME One(w, k) PROVE Clean(w)
  <2>1. \A u \in Elements(w) : u = HEAD \/ u = Plain(k)
    BY <1>2 DEF One, Elements
  <2> QED BY <1>1, <2>1 DEF Clean
<1>3. ASSUME Two(w, k, m) PROVE Clean(w)
  <2>1. \A u \in Elements(w) : u = HEAD \/ u = Plain(k) \/ u = Plain(m)
    BY <1>3 DEF Two, Elements
  <2> QED BY <1>1, <2>1 DEF Clean
<1>4. ASSUME w = <<>> PROVE Clean(w)
  BY <1>4 DEF Clean, Elements
<1> QED BY <1>2, <1>3, <1>4

\* PrefaceConsumed, from the handshake alone.
LEMMA PrefaceGone ==
  ASSUME Handshake
  PROVE  PrefaceConsumed
<1>1. phase["client"] \notin Prefaces \cup {"start", "ended"} => Clean(wire["server"])
  BY ShapesClean DEF Handshake, Hand, ToClient, Prefaces
<1>2. phase["server"] \notin Prefaces \cup {"start", "ended"} => Clean(wire["client"])
  BY ShapesClean DEF Handshake, Hand, ToServer, Prefaces
<1>3. \A side \in Sides : phase[side] \notin Prefaces \cup {"start", "ended"} => Clean(Incoming(side))
  BY <1>1, <1>2, BothSides DEF Incoming
<1> QED BY <1>3 DEF PrefaceConsumed, Clean, Elements

\* Initially nothing is under way.
LEMMA InitSession == Init => Handshake /\ Shape /\ Small
<1> SUFFICES ASSUME Init PROVE Handshake /\ Shape /\ Small
  OBVIOUS
<1>1. /\ phase["client"] = "start" /\ phase["server"] = "start"
      /\ wire["client"] = <<>> /\ wire["server"] = <<>>
  BY BothSides DEF Init
<1>2. Handshake
  BY <1>1 DEF Handshake, Hand, ToClient, ToServer
<1>3. Shape
  BY DEF Init, Shape
<1>4. Small
  BY <1>1, RelayAssumption DEF Init, Small, Counted, Uncounted
<1> QED BY <1>2, <1>3, <1>4

\* The inductive invariant of a session: the plan, the handshake, the branch
\* bodies and the counts.
SessionInv == IInv /\ Numbered /\ Handshake /\ Shape /\ Small

\* Every step keeps the four invariants together.
LEMMA SessionKept == SessionInv /\ [Next]_vars => SessionInv'
<1> SUFFICES ASSUME SessionInv, [Next]_vars PROVE SessionInv'
  OBVIOUS
<1>1. IInv' /\ Numbered'
  BY Inductive, StepNumbered DEF SessionInv, IInv
<1>2. CASE Next
  BY <1>1, <1>2, HandshakeKept, ShapeKept, SmallKept DEF SessionInv, IInv
<1>3. CASE UNCHANGED vars
  BY <1>1, <1>3 DEF SessionInv, Handshake, Shape, Clean, IsSealed, Elements, Small, Counted, vars, local
<1> QED BY <1>2, <1>3

\* The invariant holds for all numbers of chunks and all capacities.
THEOREM SessionInvariant == Spec => []SessionInv
<1>1. Init => SessionInv
  BY InitHolds, InitNumbered, InitSession DEF SessionInv
<1> QED BY <1>1, SessionKept, PTL DEF Spec

\* The variables have their types, at most WireCap units are under way to an
\* end that relays, and the server counts the session while its handler runs.
THEOREM TypeCorrect == Spec => []TypeOK
<1>1. SessionInv => TypeOK
  BY TypesGiven DEF SessionInv
<1> QED BY <1>1, SessionInvariant, PTL

\* An end that is through with the HTTP/2 preface finds nothing of it left
\* (read_any_frame_until_headers leaves the stream clean).
THEOREM PrefaceIsConsumed == Spec => []PrefaceConsumed
<1>1. SessionInv => PrefaceConsumed
  BY PrefaceGone DEF SessionInv
<1> QED BY <1>1, SessionInvariant, PTL
=============================================================================
