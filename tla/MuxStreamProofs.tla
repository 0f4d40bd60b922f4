-------------------------- MODULE MuxStreamProofs --------------------------
(***************************************************************************)
(* Proofs about the two components that carry a TCP stream: MuxStream, for *)
(* every window, sink buffer and amount of data, and NetTcp, for every     *)
(* capacity of its buffers and queues.                                     *)
(*                                                                         *)
(* BacklogBounded follows from Flow, the order of the seven positions of a *)
(* direction and the credit that is out.  EofMeansComplete needs to know   *)
(* who can end the upload and why (Complete, Finished) and how the states  *)
(* of the two sides go together (Phases).                                  *)
(*                                                                         *)
(* NoLostWakeup is inductive together with the types. FinBehindData rests  *)
(* on FinInv: a FIN is sent over an empty send_buffer only, which nothing  *)
(* can fill afterwards.                                                    *)
(***************************************************************************)
EXTENDS MuxStream, NetTcp, TLAPS

\* The positions of direction d, from the source to the sink's owner; the
\* credit a sender has spent is within the window.
FlowOf(d) ==
  /\ drained[d] <= written[d] /\ written[d] <= recvd[d]
  /\ recvd[d] <= sent[d] /\ sent[d] <= taken[d] /\ taken[d] <= produced[d]
  /\ released[d] <= written[d]
  /\ sent[d] - released[d] <= Window

Flow == \A d \in Dirs : FlowOf(d)

\* How the client's state, its upload task and the stream go together, and
\* who can have reset the stream.
Phases ==
  /\ client = "opening" => sender.up = "off"
  /\ client = "relay" => sender.up # "off"
  /\ client = "ended" => sender.up # "read"
  /\ ended => sender.up = "done"
  /\ reset = "client" => client = "ended"
  /\ reset = "server" /\ server # "failed" => receiver.up = "done"
  /\ server \in {"none", "connecting", "failed"} =>
       receiver.up = "off" /\ sender.down = "off"
  /\ receiver.down = "done" =>
       client = "ended" \/ conn = "down" \/ broken["app"] \/ reset = "server"

\* What ends an undisturbed upload ends it with all its data in the stream.
Complete ==
  Undisturbed /\ sender.up # "off" /\ server # "failed"
  /\ (sender.up = "done" \/ receiver.up = "done")
    => closed["up"] /\ sent["up"] = produced["up"]

\* A finished server upload has written what the stream carried, and no more
\* can follow.
Finished ==
  Undisturbed /\ receiver.up = "done" =>
    /\ written["up"] = sent["up"]
    /\ sender.up # "read"
    /\ client # "opening"

IInv == TypeOK /\ Flow /\ Phases /\ Complete /\ Finished

-----------------------------------------------------------------------------
\* Steps of the tasks and the ends that move data.
DataStep(d) ==
  \/ Produce(d)
  \/ Drain(d)
  \/ \E n \in 1 .. MaxUnits : SenderReads(d, n)
  \/ SenderSends(d)
  \/ \E n \in 1 .. MaxUnits : ReceiverTakes(d, n)
  \/ ReceiverWrites(d)

\* The other steps leave all positions alone.
LEMMA ControlStep ==
  [Next]_vars => (\E d \in Dirs : DataStep(d)) \/ UNCHANGED counters
BY DEF Next, vars, DataStep, Sender, Receiver, Close, Break, Opening, Ending,
       Accept, Connect, ConnectFails, Opened, OpenFails, SenderEof, SenderStops,
       ReceiverFails, ReceiverEnds, ClientEnds, ServerEnds, ServerResets,
       ConnDown

\* Types and positions, step by step.
LEMMA FlowStep ==
  TypeOK /\ Flow /\ [Next]_vars => Flow'
<1> SUFFICES ASSUME TypeOK, Flow, [Next]_vars
             PROVE  Flow'
  OBVIOUS
<1> USE WindowIsPositive, MaxUnitsIsNat DEF TypeOK, Flow, FlowOf, Units, Plus
<1>1. ASSUME NEW d \in Dirs, Produce(d)
      PROVE  Flow'
  BY <1>1 DEF Produce
<1>2. ASSUME NEW d \in Dirs, Drain(d)
      PROVE  Flow'
  BY <1>2 DEF Drain
<1>3. ASSUME NEW d \in Dirs, NEW n \in 1 .. MaxUnits, SenderReads(d, n)
      PROVE  Flow'
  BY <1>3 DEF SenderReads
<1>4. ASSUME NEW d \in Dirs, SenderSends(d)
      PROVE  Flow'
  BY <1>4 DEF SenderSends, Credit
<1>5. ASSUME NEW d \in Dirs, NEW n \in 1 .. MaxUnits, ReceiverTakes(d, n)
      PROVE  Flow'
  BY <1>5 DEF ReceiverTakes
<1>6. ASSUME NEW d \in Dirs, ReceiverWrites(d)
      PROVE  Flow'
  BY <1>6 DEF ReceiverWrites
<1>7. CASE UNCHANGED counters
  BY <1>7 DEF counters
<1> QED
  BY <1>1, <1>2, <1>3, <1>4, <1>5, <1>6, <1>7, ControlStep DEF DataStep

LEMMA TypeStep ==
  TypeOK /\ Flow /\ [Next]_vars => TypeOK'
<1> SUFFICES ASSUME TypeOK, Flow, [Next]_vars
             PROVE  TypeOK'
  OBVIOUS
<1> USE WindowIsPositive, MaxUnitsIsNat
        DEF TypeOK, Units, Plus, counters, ends, stream, tasks
<1>1. ASSUME NEW d \in Dirs, Produce(d)
      PROVE  TypeOK'
  BY <1>1 DEF Produce
<1>2. ASSUME NEW d \in Dirs, Drain(d)
      PROVE  TypeOK'
  <2>1. drained[d] + 1 \in Units
    BY <1>2 DEF Drain
  <2> QED BY <1>2, <2>1 DEF Drain
<1>3. ASSUME NEW d \in Dirs, NEW n \in 1 .. MaxUnits, SenderReads(d, n)
      PROVE  TypeOK'
  <2>1. taken[d] + n \in Units
    BY <1>3 DEF SenderReads
  <2> QED BY <1>3, <2>1 DEF SenderReads
<1>4. ASSUME NEW d \in Dirs, SenderSends(d)
      PROVE  TypeOK'
  <2> DEFINE n == IF Credit(d) < taken[d] - sent[d]
                    THEN Credit(d) ELSE taken[d] - sent[d]
  <2>1. sent[d] + n \in Units
    BY <1>4 DEF SenderSends, Credit, Flow, FlowOf
  <2>2. sent' = [sent EXCEPT ![d] = sent[d] + n]
    BY <1>4 DEF SenderSends
  <2> HIDE DEF n
  <2> QED BY <1>4, <2>1, <2>2 DEF SenderSends
<1>5. ASSUME NEW d \in Dirs, NEW n \in 1 .. MaxUnits, ReceiverTakes(d, n)
      PROVE  TypeOK'
  <2>1. recvd[d] + n \in Units
    BY <1>5 DEF ReceiverTakes
  <2> QED BY <1>5, <2>1 DEF ReceiverTakes
<1>6. ASSUME NEW d \in Dirs, ReceiverWrites(d)
      PROVE  TypeOK'
  <2>1. written[d] + 1 \in Units
    BY <1>6 DEF ReceiverWrites
  <2> QED BY <1>6, <2>1 DEF ReceiverWrites
<1>7. CASE Opening
  <2>1. CASE Accept \/ Connect \/ ConnectFails
    BY <2>1 DEF Accept, Connect, ConnectFails
  <2>2. CASE Opened \/ OpenFails
    BY <2>2 DEF Opened, OpenFails
  <2> QED
    BY <1>7, <2>1, <2>2 DEF Opening
<1>8. CASE Ending
  BY <1>8 DEF Ending, ClientEnds, ServerEnds, ServerResets
<1>9. ASSUME NEW d \in Dirs,
             Close(d) \/ SenderEof(d) \/ SenderStops(d)
             \/ ReceiverFails(d) \/ ReceiverEnds(d)
      PROVE  TypeOK'
  <2>1. CASE Close(d)
    BY <2>1 DEF Close
  <2>2. CASE SenderEof(d)
    BY <2>2 DEF SenderEof
  <2>3. CASE SenderStops(d)
    BY <2>3 DEF SenderStops
  <2>4. CASE ReceiverFails(d)
    BY <2>4 DEF ReceiverFails
  <2>5. CASE ReceiverEnds(d)
    BY <2>5 DEF ReceiverEnds
  <2> QED
    BY <1>9, <2>1, <2>2, <2>3, <2>4, <2>5
<1>10. CASE ConnDown \/ \E e \in Ends : Break(e)
  <2>1. CASE ConnDown
    BY <2>1 DEF ConnDown
  <2>2. ASSUME NEW e \in Ends, Break(e)
        PROVE  TypeOK'
    BY <2>2 DEF Break
  <2> QED
    BY <1>10, <2>1, <2>2
<1>11. CASE UNCHANGED vars
  BY <1>11 DEF vars
<1> QED
  BY <1>1, <1>2, <1>3, <1>4, <1>5, <1>6, <1>7, <1>8, <1>9, <1>10, <1>11
  DEF Next, Sender, Receiver

\* What a step that moves data leaves alone.
LEMMA DataFrame ==
  ASSUME NEW d \in Dirs, DataStep(d)
  PROVE  UNCHANGED <<tasks, ends, stream>>
  BY DEF DataStep, Produce, Drain, SenderReads, SenderSends, ReceiverTakes,
         ReceiverWrites

LEMMA PhasesStep ==
  TypeOK /\ Phases /\ [Next]_vars => Phases'
<1> SUFFICES ASSUME TypeOK, Phases, [Next]_vars
             PROVE  Phases'
  OBVIOUS
<1> USE DEF Phases, TypeOK, Dirs, Ends, tasks, ends, stream
<1>1. ASSUME NEW d \in Dirs, DataStep(d)
      PROVE  Phases'
  BY <1>1, DataFrame
<1>2. CASE Accept
  BY <1>2 DEF Accept
<1>3. CASE Connect
  BY <1>3 DEF Connect
<1>4. CASE ConnectFails
  BY <1>4 DEF ConnectFails
<1>5. CASE Opened
  BY <1>5 DEF Opened
<1>6. CASE OpenFails
  BY <1>6 DEF OpenFails
<1>7. ASSUME NEW d \in Dirs, SenderEof(d)
      PROVE  Phases'
  BY <1>7 DEF SenderEof
<1>8. ASSUME NEW d \in Dirs, SenderStops(d)
      PROVE  Phases'
  BY <1>8 DEF SenderStops
<1>9. ASSUME NEW d \in Dirs, ReceiverFails(d)
      PROVE  Phases'
  BY <1>9 DEF ReceiverFails, Sink
<1>10. ASSUME NEW d \in Dirs, ReceiverEnds(d)
       PROVE  Phases'
  BY <1>10 DEF ReceiverEnds
<1>11. CASE ClientEnds
  BY <1>11 DEF ClientEnds
<1>12. CASE ServerEnds
  BY <1>12 DEF ServerEnds
<1>13. CASE ServerResets
  BY <1>13 DEF ServerResets
<1>14. CASE ConnDown
  BY <1>14 DEF ConnDown
<1>15. ASSUME NEW d \in Dirs, Close(d)
       PROVE  Phases'
  BY <1>15 DEF Close
<1>16. ASSUME NEW e \in Ends, Break(e)
       PROVE  Phases'
  BY <1>16 DEF Break
<1>17. CASE UNCHANGED vars
  BY <1>17 DEF vars
<1> QED
  BY <1>1, <1>2, <1>3, <1>4, <1>5, <1>6, <1>7, <1>8, <1>9, <1>10, <1>11,
     <1>12, <1>13, <1>14, <1>15, <1>16, <1>17
  DEF Next, Sender, Receiver, Opening, Ending, DataStep

-----------------------------------------------------------------------------
\* The upload stays complete and finished: an undisturbed step was taken from
\* an undisturbed state.
LEMMA UploadStep ==
  IInv /\ [Next]_vars => Complete' /\ Finished'
<1> SUFFICES ASSUME IInv, [Next]_vars
             PROVE  Complete' /\ Finished'
  OBVIOUS
<1> USE DEF Complete, Finished, Undisturbed, Dirs, Ends, tasks, ends, stream
<1>t. TypeOK /\ Phases /\ FlowOf("up")
  BY DEF IInv, Flow
\* Data: the app writes and the client sends only before their ends.
<1>1. ASSUME NEW d \in Dirs, DataStep(d)
      PROVE  Complete' /\ Finished'
  <2>1. UNCHANGED <<tasks, ends, stream>>
    BY <1>1, DataFrame
  <2>2. CASE d = "down"
    <3>1. /\ produced'["up"] = produced["up"]
          /\ sent'["up"] = sent["up"]
          /\ written'["up"] = written["up"]
      BY <1>1, <2>2, <1>t
      DEF TypeOK, DataStep, Produce, Drain, SenderReads, SenderSends,
          ReceiverTakes, ReceiverWrites, Plus
    <3> QED BY <2>1, <3>1 DEF IInv
  <2>3. CASE d = "up"
    <3>1. closed["up"] => produced'["up"] = produced["up"]
      BY <1>1, <2>3, <1>t
      DEF TypeOK, DataStep, Produce, Drain, SenderReads, SenderSends,
          ReceiverTakes, ReceiverWrites, Plus
    <3>2. sender.up # "read" => sent'["up"] = sent["up"]
      BY <1>1, <2>3, <1>t
      DEF TypeOK, DataStep, Produce, Drain, SenderReads, SenderSends,
          ReceiverTakes, ReceiverWrites, Plus
    <3>3. receiver.up = "done" => written'["up"] = written["up"]
      BY <1>1, <2>3, <1>t
      DEF TypeOK, DataStep, Produce, Drain, SenderReads, SenderSends,
          ReceiverTakes, ReceiverWrites, Plus
    <3> QED BY <2>1, <3>1, <3>2, <3>3 DEF IInv
  <2> QED BY <2>2, <2>3
\* Control: who ends the upload.
<1>2. CASE Accept \/ Connect
  BY <1>2, <1>t DEF IInv, Accept, Connect, counters, TypeOK, Phases
<1>3. CASE ConnectFails
  BY <1>3, <1>t DEF IInv, ConnectFails, counters, TypeOK, Phases
<1>4. CASE Opened
  BY <1>4, <1>t DEF IInv, Opened, counters, TypeOK, Phases
<1>5. CASE OpenFails
  BY <1>5, <1>t DEF IInv, OpenFails, counters, TypeOK, Phases
<1>6. ASSUME NEW d \in Dirs, SenderEof(d)
      PROVE  Complete' /\ Finished'
  BY <1>6, <1>t DEF IInv, SenderEof, counters, TypeOK, Source
<1>7. ASSUME NEW d \in Dirs, SenderStops(d)
      PROVE  Complete' /\ Finished'
  BY <1>7, <1>t DEF IInv, SenderStops, SendFails, counters, TypeOK, Phases
<1>8. ASSUME NEW d \in Dirs, ReceiverFails(d)
      PROVE  Complete' /\ Finished'
  BY <1>8, <1>t DEF IInv, ReceiverFails, counters, TypeOK, Sink
<1>9. ASSUME NEW d \in Dirs, ReceiverEnds(d)
      PROVE  Complete' /\ Finished'
  <2>1. UNCHANGED <<client, server, responded, sender, counters, ends, stream>>
    BY <1>9 DEF ReceiverEnds
  <2>2. CASE d = "down"
    <3>1. receiver'.up = receiver.up
      BY <1>9, <2>2, <1>t DEF ReceiverEnds, TypeOK
    <3> QED BY <2>1, <3>1 DEF IInv, counters
  <2>3. CASE d = "up"
    <3>1. conn = "up" => /\ ended \/ reset = "client"
                         /\ written["up"] = sent["up"]
      BY <1>9, <2>3 DEF ReceiverEnds
    <3>2. conn = "up" => sender.up # "read" /\ client # "opening"
      BY <3>1, <1>t DEF Phases, TypeOK
    <3>3. sender.up \in {"off", "read", "done"}
      BY <1>t DEF TypeOK
    <3> QED BY <2>1, <3>1, <3>2, <3>3 DEF IInv, counters
  <2> QED BY <2>2, <2>3
<1>10. CASE ClientEnds
  BY <1>10, <1>t DEF IInv, ClientEnds, counters, TypeOK, Phases
<1>11. CASE ServerEnds \/ ServerResets
  BY <1>11, <1>t DEF IInv, ServerEnds, ServerResets, counters, TypeOK
<1>12. CASE ConnDown \/ \E e \in Ends : Break(e)
  BY <1>12, <1>t DEF IInv, ConnDown, Break, counters, TypeOK
<1>13. ASSUME NEW d \in Dirs, Close(d)
       PROVE  Complete' /\ Finished'
  BY <1>13, <1>t DEF IInv, Close, counters, TypeOK
<1>14. CASE UNCHANGED vars
  BY <1>14 DEF IInv, vars, counters
<1> QED
  BY <1>1, <1>2, <1>3, <1>4, <1>5, <1>6, <1>7, <1>8, <1>9, <1>10, <1>11,
     <1>12, <1>13, <1>14
  DEF Next, Sender, Receiver, Opening, Ending, DataStep

LEMMA Invariance == Spec => []IInv
<1>1. Init => IInv
  <2> SUFFICES ASSUME Init
               PROVE  IInv
    OBVIOUS
  <2>1. TypeOK
    <3>1. Zero \in [Dirs -> Units]
      BY MaxUnitsIsNat DEF Zero, Units
    <3>2. /\ sender \in [Dirs -> {"off", "read", "done"}]
          /\ receiver \in [Dirs -> {"off", "recv", "done"}]
      BY DEF Init
    <3>3. closed \in [Dirs -> BOOLEAN] /\ broken \in [Ends -> BOOLEAN]
      BY DEF Init
    <3> QED BY <3>1, <3>2, <3>3 DEF Init, TypeOK
  <2>2. Flow
    BY WindowIsPositive DEF Init, Flow, FlowOf, Zero
  <2>3. sender.up = "off" /\ receiver.up = "off" /\ sender.down = "off"
        /\ receiver.down = "off"
    BY DEF Init, Dirs
  <2> QED
    BY <2>1, <2>2, <2>3 DEF Init, IInv, Phases, Complete, Finished
<1>2. IInv /\ [Next]_vars => IInv'
  BY TypeStep, FlowStep, PhasesStep, UploadStep DEF IInv
<1> QED
  BY <1>1, <1>2, PTL DEF Spec

\* TypeOK: no position runs ahead of what the source produced.
THEOREM TypeCorrect == Spec => []TypeOK
<1>1. IInv => TypeOK
  BY DEF IInv
<1> QED BY <1>1, Invariance, PTL

\* BacklogBounded: releasing the credit only after the write bounds what is
\* on its way to a sink by the window.
THEOREM BackpressureHolds == Spec => []BacklogBounded
<1>1. IInv => BacklogBounded
  BY WindowIsPositive, MaxUnitsIsNat
  DEF IInv, TypeOK, Flow, FlowOf, BacklogBounded, Units
<1> QED BY <1>1, Invariance, PTL

\* EofMeansComplete: the target of an undisturbed session sees its end of
\* file behind all the app sent.
THEOREM UploadsAreWhole == Spec => []EofMeansComplete
<1>1. IInv => EofMeansComplete
  BY DEF IInv, Complete, Finished, Phases, EofMeansComplete, TargetSeesEof, Undisturbed
<1> QED BY <1>1, Invariance, PTL

-----------------------------------------------------------------------------
(* NetTcp: the invariant.                                                  *)

\* Once the socket has sent or answered a FIN send_buffer is empty and can no
\* longer be filled, and a FIN that the device has seen came with all data.
FinInv ==
  /\ \/ tcp \in {"finWait1", "finWait2", "closing", "timeWait", "lastAck"}
     \/ down.fin
     => SendBuffer = 0 /\ control.send_state \in {"closing", "closed"}
  /\ down.fin => down.got = down.queued

\* The inductive invariant.
NetInv == NetTypeOK /\ NoLostWakeup /\ FinInv

\* NetTypeOK in four parts.
UpOK ==
  /\ up \in [rcvd : 0 .. NetUnits, moved : Nat, read : Nat, fin : BOOLEAN]
  /\ up.read <= up.moved /\ up.moved <= up.rcvd
  /\ RecvBuffer <= RingCap /\ SockRx <= SockCap

DownOK ==
  /\ down \in [written : 0 .. NetUnits, queued : Nat, got : Nat, acked : Nat, fin : BOOLEAN]
  /\ down.acked <= down.got /\ down.got <= down.queued /\ down.queued <= down.written
  /\ SendBuffer <= RingCap /\ SockTx <= SockCap

PlacesOK ==
  /\ tcp \in TcpStates \cup {"none"}
  /\ control \in [recv_state : HalfStates \ {"closing"}, send_state : HalfStates,
                  recv_waker : BOOLEAN, send_waker : BOOLEAN]
  /\ reader \in {"ready", "parked", "eof"}
  /\ writer \in {"ready", "waitRoom", "waitClosed"}
  /\ dropped \in BOOLEAN
  /\ loop \in {"poll", "visit", "rest", "sleep", "gone"}
  /\ permit \in BOOLEAN /\ avail \in BOOLEAN

FramesOK ==
  /\ in_buf \in Seq({"syn", "seg", "rst"}) /\ Len(in_buf) <= QueueCap
  /\ out_buf \in 0 .. OutCap

LEMMA NetTypeParts ==
  /\ NetTypeOK <=> UpOK /\ DownOK /\ PlacesOK /\ FramesOK
  /\ NetTypeOK' <=> (UpOK /\ DownOK /\ PlacesOK /\ FramesOK)'
BY DEF NetTypeOK, UpOK, DownOK, PlacesOK, FramesOK

\* The unchanged part of a step keeps its types.
LEMMA UpSame == ASSUME UpOK, UNCHANGED up PROVE UpOK'
BY DEF UpOK, RecvBuffer, SockRx

LEMMA DownSame == ASSUME DownOK, UNCHANGED down PROVE DownOK'
BY DEF DownOK, SendBuffer, SockTx

LEMMA FramesSame == ASSUME FramesOK, UNCHANGED <<in_buf, out_buf>> PROVE FramesOK'
BY DEF FramesOK

LEMMA WakeupSame ==
  ASSUME NoLostWakeup, UNCHANGED <<control, sides, up, down>> PROVE NoLostWakeup'
BY DEF NoLostWakeup, sides, RecvBuffer, SendBuffer

LEMMA FinSame ==
  ASSUME FinInv, UNCHANGED <<tcp, down, control>> PROVE FinInv'
BY DEF FinInv, SendBuffer

-----------------------------------------------------------------------------
(* NetTcp: the first state, the device and the poll loop.                  *)

LEMMA NetInitInv == NetInit => NetInv
<1> SUFFICES ASSUME NetInit PROVE NetInv
  OBVIOUS
<1> USE SizesAssumption DEF NetInit
<1>1. UpOK
  BY DEF UpOK, RecvBuffer, SockRx
<1>2. DownOK
  BY DEF DownOK, SendBuffer, SockTx
<1>3. PlacesOK
  BY DEF PlacesOK, TcpStates, HalfStates
<1>4. FramesOK
  BY DEF FramesOK
<1>5. NoLostWakeup
  BY DEF NoLostWakeup
<1>6. FinInv
  BY DEF FinInv, SendBuffer
<1> QED BY <1>1, <1>2, <1>3, <1>4, <1>5, <1>6, NetTypeParts DEF NetInv

LEMMA NetDelivered ==
  ASSUME NetInv, Delivered
  PROVE  NetInv'
<1>0. UpOK /\ DownOK /\ PlacesOK /\ FramesOK
  BY NetTypeParts DEF NetInv
<1>1. PICK n \in Least(down.got + 1, down.queued) .. down.queued :
        down' = [down EXCEPT !.got = n, !.fin = @ \/ (n = down.queued /\ SendsFin)]
  BY DEF Delivered
<1>2. n \in Nat /\ down.got <= n /\ n <= down.queued
  BY <1>0 DEF Least, DownOK
<1>d. /\ down' \in [written : 0 .. NetUnits, queued : Nat, got : Nat, acked : Nat, fin : BOOLEAN]
      /\ down'.written = down.written /\ down'.queued = down.queued
      /\ down'.acked = down.acked /\ down'.got = n
      /\ down'.fin = (down.fin \/ (n = down.queued /\ SendsFin))
  <2> DEFINE b == n = down.queued /\ SendsFin
  <2>1. b \in BOOLEAN
    OBVIOUS
  <2> HIDE DEF b
  <2>2. down' = [down EXCEPT !.got = n, !.fin = down.fin \/ b]
    BY <1>1 DEF b
  <2>3. (down.fin \/ b) \in BOOLEAN
    BY <1>0, <2>1 DEF DownOK
  <2>4. PICK c \in BOOLEAN : c = (down.fin \/ b)
    BY <2>3
  <2>5. down' = [down EXCEPT !.got = n, !.fin = c]
    BY <2>2, <2>4
  <2> QED BY <1>0, <1>2, <2>4, <2>5 DEF DownOK, b
<1>3. DownOK'
  BY <1>0, <1>d, <1>2 DEF DownOK, SendBuffer, SockTx
<1>4. UpOK'
  BY <1>0, UpSame DEF Delivered
<1>5. PlacesOK'
  BY <1>0 DEF Delivered, PlacesOK, sides
<1>6. FramesOK'
  <2>1. out_buf - 1 \in 0 .. OutCap
    BY <1>0, SizesAssumption DEF Delivered, FramesOK
  <2> QED BY <1>0, <2>1 DEF Delivered, FramesOK
<1>7. NoLostWakeup'
  BY <1>0, <1>d DEF Delivered, NetInv, NoLostWakeup, sides, RecvBuffer, SendBuffer, DownOK
<1>8. FinInv'
  <2>1. SendBuffer' = SendBuffer
    BY <1>d DEF SendBuffer
  <2> QED BY <1>0, <1>d, <1>2, <2>1 DEF Delivered, NetInv, FinInv, DownOK, SendsFin
<1> QED BY <1>3, <1>4, <1>5, <1>6, <1>7, <1>8, NetTypeParts DEF NetInv

LEMMA NetHandlePacket ==
  ASSUME NetInv, NEW frame \in {"syn", "seg", "rst"}, HandlePacket(frame)
  PROVE  NetInv'
<1>0. UpOK /\ DownOK /\ PlacesOK /\ FramesOK
  BY NetTypeParts DEF NetInv
<1>1. UpOK' /\ DownOK'
  BY <1>0, UpSame, DownSame DEF HandlePacket
<1>2. PlacesOK'
  BY <1>0 DEF HandlePacket, PlacesOK, TcpStates, sides
<1>3. FramesOK'
  <2>1. in_buf \in Seq({"syn", "seg", "rst"}) /\ Len(in_buf) < QueueCap /\ QueueCap \in Nat
    BY <1>0, SizesAssumption DEF HandlePacket, FramesOK
  <2>2. in_buf' = Append(in_buf, frame) /\ out_buf' = out_buf
    BY DEF HandlePacket
  <2> QED BY <1>0, <2>1, <2>2 DEF FramesOK
<1>4. NoLostWakeup'
  BY WakeupSame DEF HandlePacket, NetInv
<1>5. FinInv'
  BY DEF HandlePacket, NetInv, FinInv, SendBuffer
<1> QED BY <1>1, <1>2, <1>3, <1>4, <1>5, NetTypeParts DEF NetInv

\* A segment changes neither ring buffer, and no FIN starts here.
LEMMA NetSegment ==
  ASSUME NetInv, Segment
  PROVE  /\ UpOK' /\ DownOK'
         /\ tcp' \in TcpStates \cup {"none"}
         /\ RecvBuffer' = RecvBuffer /\ SendBuffer' = SendBuffer
         /\ down'.fin = down.fin /\ down'.got = down.got /\ down'.queued = down.queued
         /\ tcp' \in {"finWait1", "finWait2", "closing", "timeWait", "lastAck"}
              => tcp \in {"finWait1", "finWait2", "closing", "timeWait", "lastAck"}
<1>0. UpOK /\ DownOK /\ PlacesOK
  BY NetTypeParts DEF NetInv
<1>1. PICK n \in up.rcvd .. NetUnits, a \in down.acked .. down.got, finIn \in BOOLEAN :
        /\ n - up.moved <= SockCap
        /\ up' = [up EXCEPT !.rcvd = n, !.fin = finIn \/ @]
        /\ down' = [down EXCEPT !.acked = a]
  BY DEF Segment
<1>2. /\ n \in 0 .. NetUnits /\ up.rcvd <= n
      /\ a \in Nat /\ down.acked <= a /\ a <= down.got
  BY <1>0, SizesAssumption DEF UpOK, DownOK
<1>3. /\ down' \in [written : 0 .. NetUnits, queued : Nat, got : Nat, acked : Nat, fin : BOOLEAN]
      /\ down'.written = down.written /\ down'.queued = down.queued
      /\ down'.got = down.got /\ down'.fin = down.fin /\ down'.acked = a
  BY <1>0, <1>1, <1>2 DEF DownOK
<1>4. /\ up' \in [rcvd : 0 .. NetUnits, moved : Nat, read : Nat, fin : BOOLEAN]
      /\ up'.rcvd = n /\ up'.moved = up.moved /\ up'.read = up.read
  <2>1. PICK c \in BOOLEAN : c = (finIn \/ up.fin)
    BY <1>0 DEF UpOK
  <2>2. up' = [up EXCEPT !.rcvd = n, !.fin = c]
    BY <1>1, <2>1
  <2> QED BY <1>0, <1>2, <2>2 DEF UpOK
<1>5. DownOK'
  BY <1>0, <1>2, <1>3, SizesAssumption DEF DownOK, SendBuffer, SockTx
<1>6. UpOK'
  BY <1>0, <1>1, <1>2, <1>4, SizesAssumption DEF UpOK, RecvBuffer, SockRx
<1>7. RecvBuffer' = RecvBuffer /\ SendBuffer' = SendBuffer
  BY <1>3, <1>4 DEF RecvBuffer, SendBuffer
<1>8. /\ tcp' \in TcpStates \cup {"none"}
      /\ tcp' \in {"finWait1", "finWait2", "closing", "timeWait", "lastAck"}
           => tcp \in {"finWait1", "finWait2", "closing", "timeWait", "lastAck"}
  BY <1>0 DEF Segment, PlacesOK, TcpStates
<1> QED BY <1>3, <1>5, <1>6, <1>7, <1>8

\* A frame of the ingress queue that is no segment touches no buffer.
LEMMA NetReceive ==
  ASSUME NetInv, Receive
  PROVE  NetInv'
<1>0. UpOK /\ DownOK /\ PlacesOK /\ FramesOK
  BY NetTypeParts DEF NetInv
<1>1. Answer(Head(in_buf))
  BY DEF Receive
<1>2. /\ UpOK' /\ DownOK'
      /\ tcp' \in TcpStates \cup {"none"}
      /\ RecvBuffer' = RecvBuffer /\ SendBuffer' = SendBuffer
      /\ down'.fin = down.fin /\ down'.got = down.got /\ down'.queued = down.queued
      /\ tcp' \in {"finWait1", "finWait2", "closing", "timeWait", "lastAck"}
           => tcp \in {"finWait1", "finWait2", "closing", "timeWait", "lastAck"}
  <2>1. CASE Segment
    BY <2>1, NetSegment
  <2>2. CASE UNCHANGED <<up, down>>
    <3>1. /\ tcp' \in TcpStates \cup {"none"}
          /\ tcp' \in {"finWait1", "finWait2", "closing", "timeWait", "lastAck"}
               => tcp \in {"finWait1", "finWait2", "closing", "timeWait", "lastAck"}
          \/ Segment
      BY <1>0, <1>1 DEF Answer, PlacesOK, TcpStates
    <3>2. UpOK' /\ DownOK'
      BY <1>0, <2>2, UpSame, DownSame
    <3>3. RecvBuffer' = RecvBuffer /\ SendBuffer' = SendBuffer
      BY <2>2 DEF RecvBuffer, SendBuffer
    <3> QED BY <2>1, <2>2, <3>1, <3>2, <3>3
  <2> QED BY <1>1, <2>1, <2>2 DEF Answer
<1>3. PlacesOK'
  BY <1>0, <1>2 DEF Receive, PlacesOK, sides
<1>4. FramesOK'
  <2>1. in_buf \in Seq({"syn", "seg", "rst"}) /\ in_buf # <<>> /\ in_buf' = Tail(in_buf)
    BY <1>0 DEF Receive, FramesOK
  <2>2. in_buf' \in Seq({"syn", "seg", "rst"}) /\ Len(in_buf') = Len(in_buf) - 1
    BY <2>1
  <2> QED BY <1>0, <2>2, SizesAssumption DEF Receive, FramesOK
<1>5. NoLostWakeup'
  BY <1>2 DEF Receive, NetInv, NoLostWakeup, sides
<1>6. FinInv'
  BY <1>2 DEF Receive, NetInv, FinInv
<1> QED BY <1>2, <1>3, <1>4, <1>5, <1>6, NetTypeParts DEF NetInv

\* Steps of the poll loop that move frames or the loop itself only.
LEMMA NetLoopOnly ==
  ASSUME NetInv,
         \/ ReceiveDrops \/ Transmit \/ Expire
         \/ VisitNone \/ Rest \/ Notified \/ TimesOut \/ RunnerExits
  PROVE  NetInv'
<1>0. UpOK /\ DownOK /\ PlacesOK /\ FramesOK
  BY NetTypeParts DEF NetInv
<1>1. UNCHANGED <<up, down, control, sides>>
  BY DEF ReceiveDrops, Transmit, Expire, VisitNone, Rest, Notified, TimesOut, RunnerExits
<1>2. UpOK' /\ DownOK' /\ NoLostWakeup'
  BY <1>0, <1>1, UpSame, DownSame, WakeupSame DEF NetInv
<1>3. PlacesOK'
  <2>1. tcp' = tcp \/ tcp' = "closed"
    BY DEF ReceiveDrops, Transmit, Expire, VisitNone, Rest, Notified, TimesOut, RunnerExits
  <2>2. /\ loop' \in {"poll", "visit", "rest", "sleep", "gone"}
        /\ permit' \in BOOLEAN /\ avail' \in BOOLEAN
    BY <1>0 DEF ReceiveDrops, Transmit, Expire, VisitNone, Rest, Notified, TimesOut,
       RunnerExits, PlacesOK
  <2> QED BY <1>0, <1>1, <2>1, <2>2 DEF PlacesOK, TcpStates, sides
<1>4. FramesOK'
  <2>1. CASE ReceiveDrops
    <3>1. in_buf \in Seq({"syn", "seg", "rst"}) /\ in_buf # <<>> /\ in_buf' = Tail(in_buf)
      BY <1>0, <2>1 DEF ReceiveDrops, FramesOK
    <3>2. in_buf' \in Seq({"syn", "seg", "rst"}) /\ Len(in_buf') = Len(in_buf) - 1
      BY <3>1
    <3> QED BY <1>0, <2>1, <3>2, SizesAssumption DEF ReceiveDrops, FramesOK
  <2>2. CASE Transmit
    <3>1. out_buf' \in 0 .. OutCap
      BY <1>0, <2>2, SizesAssumption DEF Transmit, FramesOK
    <3> QED BY <1>0, <2>2, <3>1 DEF Transmit, FramesOK
  <2>3. CASE UNCHANGED <<in_buf, out_buf>>
    BY <1>0, <2>3, FramesSame
  <2> QED BY <2>1, <2>2, <2>3 DEF Expire, VisitNone, Rest, Notified, TimesOut, RunnerExits
<1>5. tcp' = tcp \/ tcp = "timeWait"
  BY DEF ReceiveDrops, Transmit, Expire, VisitNone, Rest, Notified, TimesOut, RunnerExits
<1>6. FinInv'
  BY <1>1, <1>5 DEF NetInv, FinInv, SendBuffer
<1> QED BY <1>2, <1>3, <1>4, <1>6, NetTypeParts DEF NetInv

\* Both wakers are taken, so nobody stays parked on a closed connection.
LEMMA NetVisitClosed ==
  ASSUME NetInv, VisitClosed
  PROVE  NetInv'
<1>0. UpOK /\ DownOK /\ PlacesOK /\ FramesOK
  BY NetTypeParts DEF NetInv
<1>1. UpOK' /\ DownOK' /\ FramesOK'
  BY <1>0, UpSame, DownSame, FramesSame DEF VisitClosed
<1>2. PlacesOK'
  BY <1>0 DEF VisitClosed, PlacesOK, HalfStates, WakeReader, WakeWriter
<1>3. NoLostWakeup'
  BY <1>0 DEF VisitClosed, NetInv, NoLostWakeup, PlacesOK, WakeReader, WakeWriter
<1>4. FinInv'
  BY DEF VisitClosed, NetInv, FinInv, SendBuffer
<1> QED BY <1>1, <1>2, <1>3, <1>4, NetTypeParts DEF NetInv

\* A visit that moves nothing wakes nobody; one that does wakes who waits for
\* it. The socket is shut only over an empty send_buffer.
LEMMA NetVisit ==
  ASSUME NetInv, Visit
  PROVE  NetInv'
<1>0. UpOK /\ DownOK /\ PlacesOK /\ FramesOK
  BY NetTypeParts DEF NetInv
<1> DEFINE state == IF Shuts THEN Closing(tcp) ELSE tcp
           out == MovedOut(state)
           wakeIn == MovedIn > 0 \/ ReadHalfEnds(state)
           wakeOut == out > 0
<1>1. /\ tcp' = state
      /\ up' = [up EXCEPT !.moved = @ + MovedIn]
      /\ down' = [down EXCEPT !.queued = @ + out]
      /\ control' =
           [recv_state |-> IF ReadHalfEnds(state) THEN "closed" ELSE control.recv_state,
            send_state |-> IF Shuts THEN "closing" ELSE control.send_state,
            recv_waker |-> control.recv_waker /\ ~wakeIn,
            send_waker |-> control.send_waker /\ ~wakeOut]
      /\ reader' = WakeReader(wakeIn /\ control.recv_waker)
      /\ writer' = WakeWriter(wakeOut /\ control.send_waker)
      /\ loop' = "rest"
      /\ UNCHANGED <<dropped, permit, avail, in_buf, out_buf>>
      /\ tcp \notin {"none", "closed"}
  BY DEF Visit
<1>2. /\ MovedIn \in Nat /\ MovedIn <= SockRx /\ MovedIn <= RingCap - RecvBuffer
  BY <1>0, SizesAssumption DEF MovedIn, Least, UpOK, SockRx, RecvBuffer
<1>3. /\ out \in Nat /\ out <= SendBuffer /\ out <= SockCap - SockTx
      /\ state \notin {"established", "closeWait"} => out = 0
  BY <1>0, SizesAssumption DEF MovedOut, Least, DownOK, SendBuffer, SockTx
<1>4. /\ state \in TcpStates
      /\ state \in {"finWait1", "finWait2", "closing", "timeWait", "lastAck"}
           => \/ Shuts
              \/ tcp \in {"finWait1", "finWait2", "closing", "timeWait", "lastAck"}
  BY <1>0, <1>1 DEF Closing, PlacesOK, TcpStates
<1> HIDE DEF state, out, wakeIn, wakeOut
<1>5. /\ up' \in [rcvd : 0 .. NetUnits, moved : Nat, read : Nat, fin : BOOLEAN]
      /\ up'.rcvd = up.rcvd /\ up'.moved = up.moved + MovedIn /\ up'.read = up.read
  BY <1>0, <1>1, <1>2 DEF UpOK
<1>6. /\ down' \in [written : 0 .. NetUnits, queued : Nat, got : Nat, acked : Nat, fin : BOOLEAN]
      /\ down'.written = down.written /\ down'.queued = down.queued + out
      /\ down'.got = down.got /\ down'.fin = down.fin /\ down'.acked = down.acked
  BY <1>0, <1>1, <1>3 DEF DownOK
<1>7. UpOK' /\ RecvBuffer' = RecvBuffer + MovedIn
  BY <1>0, <1>2, <1>5, SizesAssumption DEF UpOK, RecvBuffer, SockRx
<1>8. DownOK' /\ SendBuffer' = SendBuffer - out
  BY <1>0, <1>3, <1>6, SizesAssumption DEF DownOK, SendBuffer, SockTx
<1>9. FramesOK'
  BY <1>0, <1>1, FramesSame
<1>10. /\ control'.recv_state = (IF ReadHalfEnds(state) THEN "closed" ELSE control.recv_state)
       /\ control'.send_state = (IF Shuts THEN "closing" ELSE control.send_state)
       /\ control'.recv_waker = (control.recv_waker /\ ~wakeIn)
       /\ control'.send_waker = (control.send_waker /\ ~wakeOut)
  BY <1>1
<1>11. PlacesOK'
  <2>1. reader' \in {"ready", "parked", "eof"} /\ writer' \in {"ready", "waitRoom", "waitClosed"}
    BY <1>0, <1>1 DEF PlacesOK, WakeReader, WakeWriter
  <2>2. control' \in [recv_state : HalfStates \ {"closing"}, send_state : HalfStates,
                      recv_waker : BOOLEAN, send_waker : BOOLEAN]
    <3>1. PICK w \in BOOLEAN, v \in BOOLEAN :
            w = (control.recv_waker /\ ~wakeIn) /\ v = (control.send_waker /\ ~wakeOut)
      BY <1>0 DEF PlacesOK
    <3>2. PICK r \in HalfStates \ {"closing"}, s \in HalfStates :
            /\ r = (IF ReadHalfEnds(state) THEN "closed" ELSE control.recv_state)
            /\ s = (IF Shuts THEN "closing" ELSE control.send_state)
      BY <1>0 DEF PlacesOK, HalfStates
    <3>3. control' = [recv_state |-> r, send_state |-> s, recv_waker |-> w, send_waker |-> v]
      BY <1>1, <3>1, <3>2
    <3> QED BY <3>3
  <2> QED BY <1>0, <1>1, <1>4, <2>1, <2>2 DEF PlacesOK
<1>12. NoLostWakeup'
  <2> SUFFICES ASSUME ~dropped
               PROVE  /\ reader' = "parked" =>
                           /\ control'.recv_waker
                           /\ RecvBuffer' = 0 /\ control'.recv_state # "closed"
                      /\ writer' = "waitRoom" =>
                           /\ control'.send_waker
                           /\ SendBuffer' = RingCap /\ control'.send_state # "closed"
                      /\ writer' = "waitClosed" =>
                           control'.send_waker /\ control'.send_state # "closed"
    BY <1>1 DEF NoLostWakeup
  <2>1. ASSUME reader' = "parked"
        PROVE  /\ control'.recv_waker
               /\ RecvBuffer' = 0 /\ control'.recv_state # "closed"
    <3>1. reader = "parked" /\ control.recv_waker /\ RecvBuffer = 0
          /\ control.recv_state # "closed"
      BY <1>1, <2>1 DEF NetInv, NoLostWakeup, WakeReader
    <3>2. ~wakeIn
      BY <1>1, <2>1, <3>1 DEF WakeReader
    <3>3. MovedIn = 0 /\ ~ReadHalfEnds(state)
      BY <1>2, <3>2 DEF wakeIn
    <3>4. RecvBuffer' = 0
      BY <1>7, <3>1, <3>3
    <3>5. control'.recv_waker /\ control'.recv_state # "closed"
      BY <1>10, <3>1, <3>2, <3>3, Zenon
    <3> QED BY <3>4, <3>5
  <2>2. ASSUME writer' \in {"waitRoom", "waitClosed"}
        PROVE  /\ writer' = writer /\ control'.send_waker /\ out = 0
               /\ control'.send_state # "closed"
    <3>1. writer' = writer /\ control.send_waker /\ control.send_state # "closed"
      BY <1>1, <2>2 DEF NetInv, NoLostWakeup, WakeWriter
    <3>2. ~wakeOut
      BY <1>1, <2>2, <3>1 DEF WakeWriter
    <3>3. out = 0
      BY <1>3, <3>2 DEF wakeOut
    <3> QED BY <1>10, <3>1, <3>2, <3>3
  <2>3. ASSUME writer' = "waitRoom"
        PROVE  SendBuffer' = RingCap
    <3>1. SendBuffer = RingCap /\ out = 0
      BY <2>2, <2>3 DEF NetInv, NoLostWakeup
    <3> QED BY <1>8, <3>1, SizesAssumption
  <2> QED BY <2>1, <2>2, <2>3
<1>13. FinInv'
  <2>1. ASSUME tcp' \in {"finWait1", "finWait2", "closing", "timeWait", "lastAck"} \/ down'.fin
        PROVE  SendBuffer' = 0 /\ control'.send_state \in {"closing", "closed"} /\ out = 0
    <3>1. SendBuffer = 0 /\ (Shuts \/ control.send_state \in {"closing", "closed"})
      BY <1>1, <1>4, <1>6, <2>1 DEF NetInv, FinInv, Shuts
    <3>2. out = 0
      BY <1>3, <3>1
    <3> QED BY <1>8, <1>10, <3>1, <3>2
  <2>2. ASSUME down'.fin PROVE down'.got = down'.queued
    BY <1>0, <1>6, <2>1, <2>2 DEF NetInv, FinInv, DownOK
  <2> QED BY <2>1, <2>2 DEF FinInv
<1> QED BY <1>7, <1>8, <1>9, <1>11, <1>12, <1>13, NetTypeParts DEF NetInv

-----------------------------------------------------------------------------
(* NetTcp: the stream.                                                     *)

LEMMA NetPollRead ==
  ASSUME NetInv, PollRead
  PROVE  NetInv'
<1>0. UpOK /\ DownOK /\ PlacesOK /\ FramesOK
  BY NetTypeParts DEF NetInv
<1>1. DownOK' /\ FramesOK'
  BY <1>0, DownSame, FramesSame DEF PollRead
<1>2. CASE RecvBuffer > 0
  <2>1. PICK n \in 1 .. RecvBuffer : up' = [up EXCEPT !.read = @ + n]
    BY <1>2, <1>0 DEF PollRead
  <2>2. /\ up' \in [rcvd : 0 .. NetUnits, moved : Nat, read : Nat, fin : BOOLEAN]
        /\ up'.rcvd = up.rcvd /\ up'.moved = up.moved /\ up'.read = up.read + n
        /\ n \in Nat \ {0} /\ n <= RecvBuffer
    BY <1>0, <2>1 DEF UpOK, RecvBuffer
  <2>3. UpOK'
    BY <1>0, <2>2, SizesAssumption DEF UpOK, RecvBuffer, SockRx
  <2>u. UNCHANGED <<tcp, control, reader, writer, dropped, loop, avail>> /\ permit' = TRUE
    BY <1>2 DEF PollRead
  <2>4. PlacesOK'
    BY <1>0, <2>u DEF PlacesOK
  <2>5. NoLostWakeup'
    BY <1>2 DEF PollRead, NetInv, NoLostWakeup, SendBuffer
  <2>6. FinInv'
    BY <1>2, FinSame DEF PollRead, NetInv
  <2> QED BY <1>1, <2>3, <2>4, <2>5, <2>6, NetTypeParts DEF NetInv
<1>3. CASE ~(RecvBuffer > 0)
  <2>1. UNCHANGED <<up, permit>>
    BY <1>3 DEF PollRead
  <2>2. UpOK'
    BY <1>0, <2>1, UpSame
  <2>u. /\ UNCHANGED <<tcp, writer, dropped, loop, permit, avail>>
        /\ \/ reader' = "eof" /\ control' = control
           \/ reader' = "parked" /\ control' = [control EXCEPT !.recv_waker = TRUE]
    BY <1>3 DEF PollRead
  <2>v. control' \in [recv_state : HalfStates \ {"closing"}, send_state : HalfStates,
                      recv_waker : BOOLEAN, send_waker : BOOLEAN]
    BY <1>0, <2>u DEF PlacesOK
  <2>3. PlacesOK'
    BY <1>0, <2>u, <2>v DEF PlacesOK
  <2>4. NoLostWakeup'
    <3>1. /\ control'.send_waker = control.send_waker
          /\ control'.send_state = control.send_state
          /\ control'.recv_state = control.recv_state
      BY <1>0, <1>3 DEF PollRead, PlacesOK
    <3>2. reader' = "parked" =>
            control'.recv_waker /\ RecvBuffer = 0 /\ control.recv_state # "closed"
      BY <1>0, <1>3 DEF PollRead, PlacesOK
    <3>3. RecvBuffer' = RecvBuffer /\ SendBuffer' = SendBuffer
      BY <2>1 DEF PollRead, RecvBuffer, SendBuffer
    <3> QED BY <3>1, <3>2, <3>3 DEF PollRead, NetInv, NoLostWakeup
  <2>5. FinInv'
    <3>1. control'.send_state = control.send_state
      BY <1>0, <1>3 DEF PollRead, PlacesOK
    <3> QED BY <3>1 DEF PollRead, NetInv, FinInv, SendBuffer
  <2> QED BY <1>1, <2>2, <2>3, <2>4, <2>5, NetTypeParts DEF NetInv
<1> QED BY <1>2, <1>3

LEMMA NetPollWrite ==
  ASSUME NetInv, PollWrite
  PROVE  NetInv'
<1>0. UpOK /\ DownOK /\ PlacesOK /\ FramesOK
  BY NetTypeParts DEF NetInv
<1>1. UpOK' /\ FramesOK'
  BY <1>0, UpSame, FramesSame DEF PollWrite
<1>n. control.send_state = "normal" /\ writer = "ready"
  BY DEF PollWrite
\* No FIN has been sent while the stream can be written to.
<1>f. /\ tcp \notin {"finWait1", "finWait2", "closing", "timeWait", "lastAck"}
      /\ ~down.fin
  BY <1>n DEF NetInv, FinInv
<1>2. CASE SendBuffer < RingCap
  <2>1. PICK n \in 1 .. Least(RingCap - SendBuffer, NetUnits - down.written) :
          down' = [down EXCEPT !.written = @ + n]
    BY <1>2, <1>0, SizesAssumption DEF PollWrite, DownOK, SendBuffer
  <2>2. n \in Nat /\ n <= RingCap - SendBuffer /\ n <= NetUnits - down.written
    BY <1>0, <2>1, SizesAssumption DEF Least, DownOK, SendBuffer
  <2>3. /\ down' \in [written : 0 .. NetUnits, queued : Nat, got : Nat, acked : Nat, fin : BOOLEAN]
        /\ down'.written = down.written + n /\ down'.queued = down.queued
        /\ down'.got = down.got /\ down'.fin = down.fin /\ down'.acked = down.acked
    BY <1>0, <2>1, <2>2, SizesAssumption DEF DownOK
  <2>4. DownOK'
    BY <1>0, <2>2, <2>3, SizesAssumption DEF DownOK, SendBuffer, SockTx
  <2>5. UNCHANGED <<control, writer, reader, dropped, tcp, up>>
    BY <1>0, <1>2, SizesAssumption DEF PollWrite, DownOK, SendBuffer
  <2>6. PlacesOK'
    BY <1>0, <2>5, <1>2 DEF PollWrite, PlacesOK
  <2>7. NoLostWakeup'
    BY <1>n, <2>5 DEF NetInv, NoLostWakeup, RecvBuffer
  <2>8. FinInv'
    BY <1>f, <2>3, <2>5 DEF FinInv
  <2> QED BY <1>1, <2>4, <2>6, <2>7, <2>8, NetTypeParts DEF NetInv
<1>3. CASE ~(SendBuffer < RingCap)
  <2>1. /\ UNCHANGED <<down, permit>> /\ writer' = "waitRoom"
        /\ SendBuffer = RingCap
        /\ control' = [control EXCEPT !.send_waker = TRUE]
    BY <1>3 DEF PollWrite
  <2>2. DownOK'
    BY <1>0, <2>1, DownSame
  <2>3. /\ control'.send_waker
        /\ control'.send_state = control.send_state
        /\ control'.recv_state = control.recv_state
        /\ control'.recv_waker = control.recv_waker
        /\ control' \in [recv_state : HalfStates \ {"closing"}, send_state : HalfStates,
                         recv_waker : BOOLEAN, send_waker : BOOLEAN]
    BY <1>0, <2>1 DEF PlacesOK
  <2>4. PlacesOK'
    BY <1>0, <2>1, <2>3 DEF PollWrite, PlacesOK
  <2>5. RecvBuffer' = RecvBuffer /\ SendBuffer' = SendBuffer
    BY <2>1 DEF PollWrite, RecvBuffer, SendBuffer
  <2>6. NoLostWakeup'
    BY <1>n, <2>1, <2>3, <2>5 DEF PollWrite, NetInv, NoLostWakeup
  <2>7. FinInv'
    BY <1>f, <2>1 DEF PollWrite, FinInv
  <2> QED BY <1>1, <2>2, <2>4, <2>6, <2>7, NetTypeParts DEF NetInv
<1> QED BY <1>2, <1>3

\* Shutting and dropping change the states of the halves only.
LEMMA NetShutOrDrop ==
  ASSUME NetInv, PollShutdown \/ Drop
  PROVE  NetInv'
<1>0. UpOK /\ DownOK /\ PlacesOK /\ FramesOK
  BY NetTypeParts DEF NetInv
<1>1. UNCHANGED <<tcp, up, down, reader, loop, avail, in_buf, out_buf>> /\ permit' = TRUE
  BY DEF PollShutdown, Drop
<1>2. UpOK' /\ DownOK' /\ FramesOK'
  BY <1>0, <1>1, UpSame, DownSame, FramesSame
<1>3. /\ control'.send_state \in {"close", control.send_state}
      /\ control.send_state # "normal" => control'.send_state = control.send_state
      /\ control'.recv_waker = control.recv_waker
      /\ PollShutdown => /\ control'.recv_state = control.recv_state /\ control'.send_waker
                         /\ control.send_state # "closed" /\ dropped' = dropped
      /\ Drop => dropped'
      /\ control' \in [recv_state : HalfStates \ {"closing"}, send_state : HalfStates,
                       recv_waker : BOOLEAN, send_waker : BOOLEAN]
  <2>0. /\ control \in [recv_state : HalfStates \ {"closing"}, send_state : HalfStates,
                        recv_waker : BOOLEAN, send_waker : BOOLEAN]
        /\ "close" \in HalfStates \ {"closing"}
    BY <1>0 DEF PlacesOK, HalfStates
  <2>1. CASE PollShutdown
    <3>1. /\ control' = [control EXCEPT
                   !.send_state = IF @ = "normal" THEN "close" ELSE @,
                   !.send_waker = TRUE]
          /\ control.send_state # "closed" /\ dropped' = dropped /\ ~Drop
      <4>1. ~Drop
        BY <2>1, <1>0 DEF PollShutdown, Drop, PlacesOK, HandedOut
      <4> QED BY <2>1, <4>1 DEF PollShutdown
    <3> QED BY <2>0, <3>1
  <2>2. CASE Drop
    <3>1. /\ control' = [control EXCEPT
                   !.recv_state = IF @ = "normal" THEN "close" ELSE @,
                   !.send_state = IF @ = "normal" THEN "close" ELSE @]
          /\ dropped' /\ ~PollShutdown
      BY <2>2 DEF PollShutdown, Drop, HandedOut
    <3> QED BY <2>0, <3>1
  <2> QED BY <2>1, <2>2
<1>w. writer' \in {writer, "waitClosed"} /\ dropped' \in {dropped, TRUE}
  BY DEF PollShutdown, Drop
<1>4. PlacesOK'
  BY <1>0, <1>1, <1>3, <1>w DEF PlacesOK
<1>5. RecvBuffer' = RecvBuffer /\ SendBuffer' = SendBuffer
  BY <1>1 DEF RecvBuffer, SendBuffer
<1>6. NoLostWakeup'
  <2>1. CASE Drop
    BY <1>3, <2>1 DEF NoLostWakeup
  <2>2. CASE PollShutdown
    BY <1>1, <1>3, <1>5, <2>2 DEF PollShutdown, NetInv, NoLostWakeup
  <2> QED BY <2>1, <2>2
<1>7. FinInv'
  BY <1>1, <1>3, <1>5 DEF NetInv, FinInv
<1> QED BY <1>2, <1>4, <1>6, <1>7, NetTypeParts DEF NetInv

\* Every step of the connection keeps the invariant.
LEMMA NetStep == NetInv /\ [NetNext]_netVars => NetInv'
<1> SUFFICES ASSUME NetInv, [NetNext]_netVars PROVE NetInv'
  OBVIOUS
<1>1. CASE UNCHANGED netVars
  <2>1. UNCHANGED <<tcp, up, down, control, sides, loop, permit, avail, in_buf, out_buf>>
    BY <1>1 DEF netVars
  <2>2. UpOK' /\ DownOK' /\ FramesOK' /\ NoLostWakeup' /\ FinInv'
    BY <2>1, NetTypeParts, UpSame, DownSame, FramesSame, WakeupSame, FinSame DEF NetInv
  <2>3. PlacesOK'
    BY <2>1, NetTypeParts DEF NetInv, PlacesOK, sides
  <2> QED BY <2>2, <2>3, NetTypeParts DEF NetInv
<1>2. CASE Delivered
  BY <1>2, NetDelivered
<1>3. CASE \E frame \in {"syn", "seg", "rst"} : HandlePacket(frame)
  BY <1>3, NetHandlePacket
<1>4. CASE LoopStep \/ RunnerExits
  BY <1>4, NetReceive, NetLoopOnly, NetVisitClosed, NetVisit DEF LoopStep
<1>5. CASE PollRead \/ PollWrite \/ PollShutdown \/ Drop
  BY <1>5, NetPollRead, NetPollWrite, NetShutOrDrop
<1> QED BY <1>1, <1>2, <1>3, <1>4, <1>5 DEF NetNext

\* The invariant holds for every size of the buffers and queues.
THEOREM NetInvariant == NetSpec => []NetInv
BY NetInitInv, NetStep, PTL DEF NetSpec

\* The variables have their types: no ring, no socket buffer and no queue holds
\* more than its capacity, and nothing is delivered before it was put in.
THEOREM NetTypeCorrect == NetSpec => []NetTypeOK
<1>1. NetInv => NetTypeOK
  BY DEF NetInv
<1> QED BY <1>1, NetInvariant, PTL

\* No task stays parked over a state that it waits for: poll_read, poll_write
\* and poll_shutdown against handle_socket.
THEOREM WakeupsKept == NetSpec => []NoLostWakeup
<1>1. NetInv => NoLostWakeup
  BY DEF NetInv
<1> QED BY <1>1, NetInvariant, PTL

\* The end of the download reaches the device only behind its last byte.
THEOREM FinLast == NetSpec => []FinBehindData
<1>1. NetInv => FinBehindData
  <2> SUFFICES ASSUME NetInv, down.fin PROVE down.got = down.written
    BY DEF FinBehindData
  <2>1. SendBuffer = 0 /\ down.got = down.queued
    BY DEF NetInv, FinInv
  <2> QED BY <2>1, NetTypeParts DEF NetInv, DownOK, SendBuffer
<1> QED BY <1>1, NetInvariant, PTL
=============================================================================
