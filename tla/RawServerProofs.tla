--------------------------- MODULE RawServerProofs ---------------------------
(***************************************************************************)
(* Proofs about RawServer, for every set of connections and every bound.   *)
(*                                                                         *)
(* The count is a cardinality: a step moves no connection across the       *)
(* border of the counted set, except Dispatch, which adds one, and         *)
(* SubtractActive, which takes one out. Because the counter is exact, the  *)
(* test in dec_active_connections always sees a positive number and the    *)
(* subtraction never wraps. An answer is whole because the download task   *)
(* has read all there is to read when it ends; for its type one has to     *)
(* know that a chunk in hand has been counted by the target (InHand).      *)
(***************************************************************************)
EXTENDS RawServer, FiniteSetTheorems, TLAPS

Serving == {c \in Conns : Counted(c)}

\* A chunk that the download task holds is one the target has sent.
InHand == \A c \in Conns : down[c] = "write" => Passed(c) < made[c]

\* The types of the variables, without the bounds that need InHand.
Types ==
  /\ alt \in BOOLEAN
  /\ at \in [Conns -> Handshake \cup {"off", "deaf", "accepted", "connect", "relay",
                                      "uncount", "subtract", "gone"}]
  /\ client \in [Conns -> Ends]
  /\ target \in [Conns -> Ends \cup {"none"}]
  /\ input \in [Conns -> Seq({"good", "bad"})]
  /\ sent \in [Conns -> Nat]
  /\ made \in [Conns -> Nat]
  /\ output \in [Conns -> Nat]
  /\ got \in [Conns -> Nat]
  /\ up \in [Conns -> {"none", "run", "done"}]
  /\ down \in [Conns -> {"none", "read", "write", "done"}]

\* The bounds.
Bounds ==
  \A c \in Conns :
    /\ Len(input[c]) <= Buffer /\ sent[c] <= Frames[c]
    /\ made[c] <= Chunks /\ output[c] <= Buffer /\ Passed(c) <= made[c]

IInv == Types /\ Bounds /\ InHand /\ ActiveExact /\ AnswerWhole

-----------------------------------------------------------------------------
(* The counter.                                                            *)

LEMMA SmallMod ==
  ASSUME NEW a \in Nat, NEW b \in Nat \ {0}, a < b
  PROVE  a % b = a
OBVIOUS

LEMMA ServingFinite ==
  /\ IsFiniteSet(Serving)
  /\ Cardinality(Serving) \in Nat
  /\ Cardinality(Serving) < Wrap
<1>1. IsFiniteSet(Conns) /\ Serving \in SUBSET Conns
  BY RawServerAssumption DEF Serving
<1>2. IsFiniteSet(Serving) /\ Cardinality(Serving) <= Cardinality(Conns)
  BY <1>1, FS_Subset
<1>3. Cardinality(Serving) \in Nat /\ Cardinality(Conns) \in Nat
  BY <1>1, <1>2, FS_CardinalityType
<1> QED
  BY <1>2, <1>3, RawServerAssumption

\* The same after a step.
LEMMA ServingFiniteNext ==
  /\ IsFiniteSet(Serving')
  /\ Cardinality(Serving') \in Nat
  /\ Cardinality(Serving') < Wrap
<1>1. IsFiniteSet(Conns) /\ Serving' \in SUBSET Conns
  BY RawServerAssumption DEF Serving
<1>2. IsFiniteSet(Serving') /\ Cardinality(Serving') <= Cardinality(Conns)
  BY <1>1, FS_Subset
<1>3. Cardinality(Serving') \in Nat /\ Cardinality(Conns) \in Nat
  BY <1>1, <1>2, FS_CardinalityType
<1> QED
  BY <1>2, <1>3, RawServerAssumption

\* A connection that is dispatched is counted from then on.
LEMMA DispatchCounts ==
  ASSUME Types, ActiveExact, NEW c \in Conns, Dispatch(c)
  PROVE  ActiveExact'
<1>1. Serving' = Serving \cup {c} /\ c \notin Serving
  BY DEF Types, Dispatch, Serving, Counted, Handshake
<1>2. Cardinality(Serving') = Cardinality(Serving) + 1
  BY <1>1, ServingFinite, FS_AddElement
<1>3. active' = (Cardinality(Serving) + 1) % Wrap
  BY DEF ActiveExact, Dispatch, Serving
<1>4. active' = Cardinality(Serving')
  BY <1>2, <1>3, ServingFinite, ServingFiniteNext, SmallMod, RawServerAssumption
<1> QED
  BY <1>4 DEF ActiveExact, Serving

\* The test of dec_active_connections sees a positive counter, so its
\* connection stays counted until the subtraction.
LEMMA LoadKeepsCounted ==
  ASSUME Types, ActiveExact, NEW c \in Conns, LoadActive(c)
  PROVE  ActiveExact'
<1>1. c \in Serving
  BY DEF LoadActive, Serving, Counted
<1>2. Cardinality(Serving) # 0
  BY <1>1, ServingFinite, FS_EmptySet
<1>3. active > 0
  BY <1>2, ServingFinite DEF ActiveExact, Serving
<1>4. Serving' = Serving
  BY <1>3 DEF Types, LoadActive, Goes, Serving, Counted, Handshake
<1>5. active' = active
  BY DEF LoadActive
<1> QED
  BY <1>4, <1>5 DEF ActiveExact, Serving

\* The subtraction does not wrap, whatever other decrements came between.
LEMMA SubtractUncounts ==
  ASSUME Types, ActiveExact, NEW c \in Conns, SubtractActive(c)
  PROVE  ActiveExact'
<1>1. Serving' = Serving \ {c} /\ c \in Serving
  BY DEF Types, SubtractActive, Goes, Serving, Counted, Handshake
<1>2. Cardinality(Serving') = Cardinality(Serving) - 1
  BY <1>1, ServingFinite, FS_RemoveElement
<1>3. active' = (Cardinality(Serving) - 1) % Wrap
  BY DEF ActiveExact, SubtractActive, Serving
<1>4. active' = Cardinality(Serving')
  BY <1>2, <1>3, ServingFinite, ServingFiniteNext, SmallMod, RawServerAssumption
<1> QED
  BY <1>4 DEF ActiveExact, Serving

-----------------------------------------------------------------------------
(* The other steps.                                                        *)

\* Every step that is neither a listener's nor the handler's leaves `at' alone.
LEMMA OthersKeepPlace ==
  ASSUME Types, ActiveExact, UNCHANGED <<at, active>>
  PROVE  ActiveExact'
BY DEF ActiveExact, Counted

\* Steps of the handler inside the counted part.
LEMMA HandlerKeepsCounted ==
  ASSUME Types, ActiveExact, NEW c \in Conns, NEW place \in Handshake \cup {"connect", "relay", "uncount"},
         Counted(c), Goes(c, place), UNCHANGED active
  PROVE  ActiveExact'
<1>1. Serving' = Serving
  BY DEF Types, Goes, Serving, Counted, Handshake
<1> QED
  BY <1>1 DEF ActiveExact, Serving

\* Connections come, dispatched ones stay, and one leaves the count by the
\* subtraction only.
LEMMA CountKept ==
  ASSUME Types, ActiveExact, Next
  PROVE  ActiveExact'
<1>1. CASE AltAcceptFails
  BY <1>1, OthersKeepPlace DEF AltAcceptFails
<1> SUFFICES ASSUME NEW c \in Conns,
                    \/ ClientSends(c) \/ ClientCloses(c) \/ ClientReads(c)
                    \/ TargetSends(c) \/ TargetCloses(c) \/ Connects(c)
                    \/ HandlerStep(c) \/ UploadStep(c) \/ DownloadStep(c)
             PROVE  ActiveExact'
  BY <1>1 DEF Next
<1>2. CASE \/ ClientSends(c) \/ ClientCloses(c) \/ ClientReads(c)
           \/ TargetSends(c) \/ TargetCloses(c) \/ UploadStep(c) \/ DownloadStep(c)
  BY <1>2, OthersKeepPlace
     DEF ClientSends, ClientCloses, ClientReads, TargetSends, TargetCloses,
         UploadStep, UploadFrame, UploadEnds, DownloadStep, DownloadRead, DownloadWrite
<1>3. CASE Connects(c)
  <2>1. Serving' = Serving
    BY <1>3 DEF Types, Connects, Serving, Counted, Handshake
  <2> QED
    BY <1>3, <2>1 DEF Connects, ActiveExact, Serving
<1>4. CASE HandshakeStep(c) \/ HandshakeEnds(c) \/ TargetConnects(c) \/ TargetRefuses(c) \/ JoinTasks(c)
  <2>1. Counted(c) /\ UNCHANGED active
    BY <1>4 DEF HandshakeStep, HandshakeEnds, TargetConnects, TargetRefuses, JoinTasks,
                Counted, Handshake
  <2>2. \E place \in Handshake \cup {"connect", "relay", "uncount"} : Goes(c, place)
    BY <1>4 DEF HandshakeStep, HandshakeEnds, TargetConnects, TargetRefuses, JoinTasks, Handshake
  <2> QED
    BY <2>1, <2>2, HandlerKeepsCounted
<1>5. CASE Dispatch(c)
  BY <1>5, DispatchCounts
<1>6. CASE LoadActive(c)
  BY <1>6, LoadKeepsCounted
<1>7. CASE SubtractActive(c)
  BY <1>7, SubtractUncounts
<1> QED
  BY <1>2, <1>3, <1>4, <1>5, <1>6, <1>7 DEF HandlerStep

\* Reading a frame leaves a shorter sequence of frames.
LEMMA InputKept ==
  ASSUME Types, NEW c \in Conns, (\E frame \in {"good", "bad"} : Takes(c, frame)) \/ AtEnd(c)
  PROVE  /\ input' \in [Conns -> Seq({"good", "bad"})]
         /\ \A d \in Conns : Len(input'[d]) <= Len(input[d])
<1>1. CASE AtEnd(c)
  BY <1>1 DEF AtEnd, Types
<1>2. CASE \E frame \in {"good", "bad"} : Takes(c, frame)
  <2>1. input[c] \in Seq({"good", "bad"}) /\ input[c] # <<>> /\ input' = [input EXCEPT ![c] = Tail(@)]
    BY <1>2 DEF Types, Takes
  <2>2. Tail(input[c]) \in Seq({"good", "bad"}) /\ Len(Tail(input[c])) = Len(input[c]) - 1
    BY <2>1
  <2>3. \A d \in Conns : input'[d] = IF d = c THEN Tail(input[c]) ELSE input[d]
    BY <2>1 DEF Types
  <2>4. \A d \in Conns : Len(input[d]) \in Nat /\ input[d] \in Seq({"good", "bad"})
    BY DEF Types
  <2>5. input' \in [Conns -> Seq({"good", "bad"})]
    BY <2>1, <2>2 DEF Types
  <2> QED
    BY <2>2, <2>3, <2>4, <2>5
<1> QED
  BY <1>1, <1>2

\* Every step keeps the types.
LEMMA TypesKept ==
  ASSUME Types, Next
  PROVE  Types'
<1>1. CASE AltAcceptFails
  BY <1>1 DEF AltAcceptFails, Types, ends, upload, download
<1> SUFFICES ASSUME NEW c \in Conns,
                    \/ ClientSends(c) \/ ClientCloses(c) \/ ClientReads(c)
                    \/ TargetSends(c) \/ TargetCloses(c) \/ Connects(c)
                    \/ HandlerStep(c) \/ UploadStep(c) \/ DownloadStep(c)
             PROVE  Types'
  BY <1>1 DEF Next
<1> USE DEF ends, upload, download
<1>2. CASE ClientSends(c)
  BY <1>2 DEF ClientSends, Types
<1>3. CASE ClientCloses(c) \/ TargetCloses(c)
  BY <1>3 DEF ClientCloses, TargetCloses, Types, Ends
<1>4. CASE ClientReads(c)
  <2>1. output[c] \in Nat /\ output[c] - 1 \in Nat /\ got[c] + 1 \in Nat
    BY <1>4 DEF ClientReads, Types
  <2> QED
    BY <1>4, <2>1 DEF ClientReads, Types
<1>11. CASE TargetSends(c)
  BY <1>11 DEF TargetSends, Types
<1>5. CASE Connects(c) \/ Dispatch(c) \/ LoadActive(c) \/ SubtractActive(c) \/ TargetRefuses(c) \/ JoinTasks(c)
  <2>1. \E place \in {"accepted", "deaf", "junk", "subtract", "gone", "uncount"} : Goes(c, place)
    BY <1>5 DEF Connects, Dispatch, LoadActive, SubtractActive, TargetRefuses, JoinTasks, Goes
  <2>2. at' \in [Conns -> Handshake \cup {"off", "deaf", "accepted", "connect", "relay",
                                          "uncount", "subtract", "gone"}]
    BY <2>1 DEF Types, Goes, Handshake
  <2> QED
    BY <1>5, <2>2 DEF Connects, Dispatch, LoadActive, SubtractActive, TargetRefuses, JoinTasks, Types
<1>6. CASE HandshakeStep(c)
  <2>1. input' \in [Conns -> Seq({"good", "bad"})]
    BY <1>6, InputKept DEF HandshakeStep
  <2>2. \E place \in {"challenge", "target", "connect"} : Goes(c, place)
    BY <1>6 DEF HandshakeStep
  <2>3. at' \in [Conns -> Handshake \cup {"off", "deaf", "accepted", "connect", "relay",
                                          "uncount", "subtract", "gone"}]
    BY <2>2 DEF Types, Goes, Handshake
  <2> QED
    BY <1>6, <2>1, <2>3 DEF HandshakeStep, Types
<1>7. CASE HandshakeEnds(c)
  <2>1. input' \in [Conns -> Seq({"good", "bad"})]
    BY <1>7, InputKept DEF HandshakeEnds
  <2>2. at' \in [Conns -> Handshake \cup {"off", "deaf", "accepted", "connect", "relay",
                                          "uncount", "subtract", "gone"}]
    BY <1>7 DEF HandshakeEnds, Types, Goes, Handshake
  <2> QED
    BY <1>7, <2>1, <2>2 DEF HandshakeEnds, Types
<1>8. CASE TargetConnects(c)
  BY <1>8 DEF TargetConnects, Goes, Types, Ends
<1>9. CASE UploadStep(c)
  <2>1. input' \in [Conns -> Seq({"good", "bad"})]
    BY <1>9, InputKept DEF UploadStep, UploadFrame, UploadEnds
  <2>2. up' \in [Conns -> {"none", "run", "done"}]
    BY <1>9 DEF UploadStep, UploadFrame, UploadEnds, Types
  <2> QED
    BY <1>9, <2>1, <2>2 DEF UploadStep, UploadFrame, UploadEnds, Types
<1>10. CASE DownloadStep(c)
  <2>1. down' \in [Conns -> {"none", "read", "write", "done"}]
    BY <1>10 DEF DownloadStep, DownloadRead, DownloadWrite, Types
  <2>2. UNCHANGED output \/ output' = [output EXCEPT ![c] = @ + 1]
    BY <1>10 DEF DownloadStep, DownloadRead, DownloadWrite
  <2>4. output \in [Conns -> Nat] /\ output[c] + 1 \in Nat
    BY DEF Types
  <2>3. output' \in [Conns -> Nat]
    BY <2>2, <2>4
  <2> QED
    BY <1>10, <2>1, <2>3 DEF DownloadStep, DownloadRead, DownloadWrite, Types
<1> QED
  BY <1>11, <1>2, <1>3, <1>4, <1>5, <1>6, <1>7, <1>8, <1>9, <1>10 DEF HandlerStep

\* Every step keeps the bounds: what is read was written, and what is passed
\* on was sent.
LEMMA BoundsKept ==
  ASSUME Types, Types', Bounds, InHand, Next
  PROVE  Bounds'
<1>1. CASE AltAcceptFails
  BY <1>1 DEF AltAcceptFails, Bounds, Passed, upload, download
<1> SUFFICES ASSUME NEW c \in Conns,
                    \/ ClientSends(c) \/ ClientCloses(c) \/ ClientReads(c)
                    \/ TargetSends(c) \/ TargetCloses(c) \/ Connects(c)
                    \/ HandlerStep(c) \/ UploadStep(c) \/ DownloadStep(c)
             PROVE  Bounds'
  BY <1>1 DEF Next
<1> USE DEF upload, download
<1>2. CASE UNCHANGED <<upload, download>>
  BY <1>2 DEF Bounds, Passed
<1>3. CASE ClientSends(c)
  <2>1. \E frame \in {"good", "bad"} : input' = [input EXCEPT ![c] = Append(@, frame)]
    BY <1>3 DEF ClientSends
  <2>2. Len(input[c]) < Buffer /\ sent[c] < Frames[c]
    BY <1>3 DEF ClientSends
  <2>3. input[c] \in Seq({"good", "bad"}) /\ sent[c] \in Nat /\ Frames[c] \in Nat /\ Buffer \in Nat
    BY RawServerAssumption DEF Types
  <2>4. Len(input'[c]) = Len(input[c]) + 1 /\ Len(input[c]) \in Nat
    BY <2>1, <2>3 DEF Types
  <2>5. Len(input'[c]) <= Buffer
    BY <2>2, <2>3, <2>4
  <2>6. sent'[c] = sent[c] + 1 /\ UNCHANGED <<made, output, got>>
    BY <1>3 DEF ClientSends, Types
  <2>7. sent'[c] <= Frames[c]
    BY <2>2, <2>3, <2>6
  <2>8. \A d \in Conns : d # c => input'[d] = input[d] /\ sent'[d] = sent[d]
    BY <1>3, <2>1 DEF ClientSends, Types
  <2> QED
    BY <2>5, <2>6, <2>7, <2>8 DEF Bounds, Passed
<1>4. CASE HandshakeStep(c) \/ HandshakeEnds(c) \/ UploadStep(c)
  <2>1. (\E frame \in {"good", "bad"} : Takes(c, frame)) \/ AtEnd(c)
    BY <1>4 DEF HandshakeStep, HandshakeEnds, UploadStep, UploadFrame, UploadEnds
  <2>4. \A d \in Conns : Len(input'[d]) <= Len(input[d])
    BY <2>1, InputKept
  <2>5. \A d \in Conns : input[d] \in Seq({"good", "bad"}) /\ input'[d] \in Seq({"good", "bad"})
    BY DEF Types
  <2>2. \A d \in Conns : Len(input'[d]) <= Len(input[d]) /\ Len(input'[d]) \in Nat /\ Len(input[d]) \in Nat
    BY <2>4, <2>5
  <2>3. UNCHANGED <<sent, made, output, got>>
    BY <1>4 DEF HandshakeStep, HandshakeEnds, UploadStep, UploadFrame, UploadEnds
  <2> QED
    BY <2>2, <2>3, RawServerAssumption DEF Bounds, Passed
<1>5. CASE ClientReads(c)
  <2>4. output' = [output EXCEPT ![c] = @ - 1] /\ got' = [got EXCEPT ![c] = @ + 1]
    BY <1>5 DEF ClientReads
  <2>5. \A d \in Conns : output[d] \in Nat /\ got[d] \in Nat
    BY DEF Types
  <2>6. \A d \in Conns : /\ output'[d] = IF d = c THEN output[d] - 1 ELSE output[d]
                         /\ got'[d] = IF d = c THEN got[d] + 1 ELSE got[d]
    BY <2>4 DEF Types
  <2>1. \A d \in Conns : output'[d] <= output[d] /\ Passed(d)' = Passed(d)
    BY <2>5, <2>6 DEF Passed
  <2>2. UNCHANGED <<input, sent, made>>
    BY <1>5 DEF ClientReads
  <2>3. \A d \in Conns : output[d] \in Nat /\ output'[d] \in Nat
    BY DEF Types
  <2> QED
    BY <2>1, <2>2, <2>3, RawServerAssumption DEF Bounds
<1>6. CASE TargetSends(c)
  <2>1. made[c] < Chunks /\ made' = [made EXCEPT ![c] = @ + 1] /\ UNCHANGED <<input, sent, output, got>>
    BY <1>6 DEF TargetSends
  <2>4. \A d \in Conns : made[d] \in Nat /\ got[d] \in Nat /\ output[d] \in Nat
    BY DEF Types
  <2>5. \A d \in Conns : made'[d] = IF d = c THEN made[d] + 1 ELSE made[d]
    BY <2>1 DEF Types
  <2>2. \A d \in Conns : made[d] <= made'[d] /\ made'[d] <= Chunks
    BY <2>1, <2>4, <2>5, RawServerAssumption DEF Bounds
  <2>3. \A d \in Conns : Passed(d) \in Nat /\ made[d] \in Nat /\ made'[d] \in Nat
    BY <2>4, <2>5 DEF Passed
  <2> QED
    BY <2>1, <2>2, <2>3, RawServerAssumption DEF Bounds, Passed
<1>7. CASE TargetConnects(c) \/ DownloadRead(c)
  BY <1>7 DEF TargetConnects, DownloadRead, Bounds, Passed
<1>8. CASE DownloadWrite(c)
  <2>1. UNCHANGED <<input, sent, made, got>>
    BY <1>8 DEF DownloadWrite
  <2>2. CASE UNCHANGED output
    BY <2>1, <2>2 DEF Bounds, Passed
  <2>3. CASE output[c] < Buffer /\ output' = [output EXCEPT ![c] = @ + 1]
    <3>1. Passed(c) < made[c]
      BY <1>8 DEF DownloadWrite, InHand
    <3>2. output'[c] = output[c] + 1 /\ output'[c] <= Buffer
      BY <2>3, RawServerAssumption DEF Types
    <3>3. Passed(c)' <= made[c]
      BY <2>1, <3>1, <3>2 DEF Types, Passed
    <3>4. \A d \in Conns : d # c => output'[d] = output[d]
      BY <2>3 DEF Types
    <3> QED
      BY <2>1, <3>2, <3>3, <3>4 DEF Bounds, Passed
  <2> QED
    BY <1>8, <2>2, <2>3 DEF DownloadWrite
<1> QED
  BY <1>2, <1>3, <1>4, <1>5, <1>6, <1>7, <1>8
     DEF ClientCloses, TargetCloses, Connects, HandlerStep, Dispatch, TargetRefuses, JoinTasks,
         LoadActive, SubtractActive, DownloadStep

\* A chunk in hand stays one that was sent: only this task passes chunks on.
LEMMA InHandKept ==
  ASSUME Types, Bounds, InHand, Next
  PROVE  InHand'
<1>1. CASE UNCHANGED download
  BY <1>1 DEF InHand, Passed, download
<1> SUFFICES ASSUME NEW c \in Conns,
                    ClientReads(c) \/ TargetSends(c) \/ TargetConnects(c) \/ DownloadStep(c)
             PROVE  InHand'
  BY <1>1 DEF Next, AltAcceptFails, ClientSends, ClientCloses, TargetCloses, Connects, HandlerStep,
              Dispatch, HandshakeStep, HandshakeEnds, TargetRefuses, JoinTasks, LoadActive,
              SubtractActive, UploadStep, UploadFrame, UploadEnds
<1>2. CASE ClientReads(c)
  <2>1. \A d \in Conns : Passed(d)' = Passed(d)
    BY <1>2 DEF ClientReads, Types, Passed
  <2> QED
    BY <1>2, <2>1 DEF ClientReads, InHand
<1>3. CASE TargetSends(c)
  <2>1. \A d \in Conns : made[d] <= made'[d] /\ made[d] \in Nat /\ made'[d] \in Nat
    BY <1>3 DEF TargetSends, Types
  <2>2. \A d \in Conns : Passed(d)' = Passed(d) /\ Passed(d) \in Nat
    BY <1>3 DEF TargetSends, Passed, Types
  <2> QED
    BY <1>3, <2>1, <2>2 DEF TargetSends, InHand
<1>4. CASE TargetConnects(c)
  BY <1>4 DEF TargetConnects, InHand, Passed, Types
<1>5. CASE DownloadRead(c)
  BY <1>5 DEF DownloadRead, InHand, Passed, Types
<1>6. CASE DownloadWrite(c)
  <2>1. down'[c] # "write"
    BY <1>6 DEF DownloadWrite, Types
  <2>2. \A d \in Conns : d # c => down'[d] = down[d] /\ output'[d] = output[d]
    BY <1>6 DEF DownloadWrite, Types
  <2> QED
    BY <1>6, <2>1, <2>2 DEF DownloadWrite, InHand, Passed
<1> QED
  BY <1>2, <1>3, <1>4, <1>5, <1>6 DEF DownloadStep

-----------------------------------------------------------------------------
(* The answer.                                                             *)

\* The download task ends only at the end of what the target sent, or when one
\* of the two sides has gone; and nobody who has closed comes back.
LEMMA AnswerKept ==
  ASSUME Types, AnswerWhole, Next
  PROVE  AnswerWhole'
<1>1. CASE UNCHANGED <<ends, download>>
  BY <1>1 DEF AnswerWhole, Passed, ends, download
<1> SUFFICES ASSUME NEW c \in Conns,
                    \/ ClientCloses(c) \/ ClientReads(c) \/ TargetSends(c) \/ TargetCloses(c)
                    \/ TargetConnects(c) \/ DownloadStep(c)
             PROVE  AnswerWhole'
  BY <1>1 DEF Next, AltAcceptFails, ClientSends, Connects, HandlerStep, Dispatch, HandshakeStep,
              HandshakeEnds, TargetRefuses, JoinTasks, LoadActive, SubtractActive, UploadStep,
              UploadFrame, UploadEnds
<1> USE DEF ends, download
<1>2. CASE ClientCloses(c)
  <2>1. \A d \in Conns : client'[d] # "gone" => client[d] # "gone"
    BY <1>2 DEF ClientCloses, Types
  <2> QED
    BY <1>2, <2>1 DEF ClientCloses, AnswerWhole, Passed
<1>3. CASE TargetCloses(c)
  <2>1. \A d \in Conns : target'[d] # "gone" =>
          target'[d] = target[d] \/ (target[d] = "open" /\ target'[d] = "half")
    BY <1>3 DEF TargetCloses, Types
  <2> QED
    BY <1>3, <2>1 DEF TargetCloses, AnswerWhole, Passed
<1>4. CASE ClientReads(c)
  <2>1. output' = [output EXCEPT ![c] = @ - 1] /\ got' = [got EXCEPT ![c] = @ + 1]
    BY <1>4 DEF ClientReads
  <2>2. \A d \in Conns : output[d] \in Nat /\ got[d] \in Nat
    BY DEF Types
  <2>3. \A d \in Conns : /\ output'[d] = IF d = c THEN output[d] - 1 ELSE output[d]
                         /\ got'[d] = IF d = c THEN got[d] + 1 ELSE got[d]
    BY <2>1 DEF Types
  <2>4. \A d \in Conns : Passed(d)' = Passed(d)
    BY <2>2, <2>3 DEF Passed
  <2> QED
    BY <1>4, <2>4 DEF ClientReads, AnswerWhole
<1>5. CASE TargetSends(c)
  <2>1. \A d \in Conns : d # c => made'[d] = made[d]
    BY <1>5 DEF TargetSends, Types
  <2>2. target[c] = "open"
    BY <1>5 DEF TargetSends
  <2> QED
    BY <1>5, <2>1, <2>2 DEF TargetSends, AnswerWhole, Passed
<1>6. CASE TargetConnects(c)
  <2>1. \A d \in Conns : IF d = c THEN down'[d] = "read" ELSE down'[d] = down[d] /\ target'[d] = target[d]
    BY <1>6 DEF TargetConnects, Types
  <2> QED
    BY <1>6, <2>1 DEF TargetConnects, AnswerWhole, Passed
<1>7. CASE DownloadRead(c)
  <2>1. \A d \in Conns : d # c => down'[d] = down[d]
    BY <1>7 DEF DownloadRead, Types
  <2>2. down'[c] = "done" => target[c] = "gone" \/ (target[c] = "half" /\ Passed(c) = made[c])
    BY <1>7 DEF DownloadRead, Types
  <2> QED
    BY <1>7, <2>1, <2>2 DEF DownloadRead, AnswerWhole, Passed
<1>8. CASE DownloadWrite(c)
  <2>1. \A d \in Conns : d # c => down'[d] = down[d] /\ output'[d] = output[d]
    BY <1>8 DEF DownloadWrite, Types
  <2>2. down'[c] = "done" => client[c] = "gone"
    BY <1>8 DEF DownloadWrite, Types
  <2> QED
    BY <1>8, <2>1, <2>2 DEF DownloadWrite, AnswerWhole, Passed
<1> QED
  BY <1>2, <1>3, <1>4, <1>5, <1>6, <1>7, <1>8 DEF DownloadStep

-----------------------------------------------------------------------------
(* The theorems.                                                           *)

LEMMA InitIInv == Init => IInv
<1> SUFFICES ASSUME Init PROVE IInv
  OBVIOUS
<1>1. Types
  BY DEF Init, Types, Ends
<1>2. Bounds /\ InHand /\ AnswerWhole
  BY RawServerAssumption DEF Init, Bounds, InHand, AnswerWhole, Passed
<1>3. Serving = {}
  BY DEF Init, Serving, Counted, Handshake
<1>4. ActiveExact
  BY <1>3, FS_EmptySet DEF Init, ActiveExact, Serving
<1> QED
  BY <1>1, <1>2, <1>4 DEF IInv

LEMMA StepIInv == IInv /\ [Next]_vars => IInv'
<1>1. ASSUME IInv, UNCHANGED vars
      PROVE  IInv'
  BY <1>1 DEF IInv, Types, Bounds, InHand, ActiveExact, Counted, AnswerWhole, Passed,
              vars, ends, upload, download
<1>2. ASSUME IInv, Next
      PROVE  IInv'
  <2>1. Types'
    BY <1>2, TypesKept DEF IInv
  <2> QED
    BY <1>2, <2>1, BoundsKept, InHandKept, CountKept, AnswerKept DEF IInv
<1> QED
  BY <1>1, <1>2

\* The strengthening of the invariants below.
THEOREM InvHolds == Spec => []IInv
BY InitIInv, StepIInv, PTL DEF Spec

\* Type correctness. That active_connections is below 2^64 is a fact about the
\* number of connections.
THEOREM TypeCorrect == Spec => []TypeOK
<1>1. IInv => TypeOK
  <2> SUFFICES ASSUME IInv PROVE TypeOK
    OBVIOUS
  <2>1. active \in 0 .. Wrap - 1
    BY ServingFinite, RawServerAssumption DEF IInv, ActiveExact, Serving
  <2>2. \A c \in Conns : made[c] \in 0 .. Chunks /\ output[c] \in 0 .. Buffer
    BY RawServerAssumption DEF IInv, Types, Bounds
  <2>3. made \in [Conns -> 0 .. Chunks] /\ output \in [Conns -> 0 .. Buffer]
    BY <2>2 DEF IInv, Types
  <2> QED
    BY <2>1, <2>3 DEF IInv, Types, Bounds, TypeOK
<1> QED
  BY <1>1, InvHolds, PTL

\* active_connections is exact: the hand-written decrements on the handler's
\* return paths, each a load and a subtraction, neither lose a connection nor
\* wrap the counter, however many connections end together.
THEOREM ActiveIsExact == Spec => []ActiveExact
<1>1. IInv => ActiveExact
  BY DEF IInv
<1> QED
  BY <1>1, InvHolds, PTL

\* The two relay tasks are joined, not selected: while both sides are there, the
\* download task ends only behind the target's last chunk, also when the client
\* half-closed before.  Nothing is said of a client or target that is gone.
THEOREM AnswersAreWhole == Spec => []AnswerWhole
<1>1. IInv => AnswerWhole
  BY DEF IInv
<1> QED
  BY <1>1, InvHolds, PTL
=============================================================================
