----------------------------- MODULE MuxStream -----------------------------
(***************************************************************************)
(* One proxied TCP connection inside the multiplexer:                      *)
(*   handle_mux_session  (client, src/src/inbound.rs) opens an HTTP/2      *)
(*     stream and relays between it and the TUN connection of the app;     *)
(*   the stream task of run_mux_server  (server, src/src/hidekey/mux.rs)   *)
(*     connects to the target and relays between the stream and the target.*)
(*                                                                         *)
(* Both directions run the same two loops: a sender reads its source and   *)
(* spends flow-control credit (send_bytes), a receiver writes its sink and *)
(* gives credit back.  Bytes are abstracted to units; since an HTTP/2      *)
(* stream and a TCP connection keep their order, a position in the byte    *)
(* stream is a count of units.                                             *)
(*                                                                         *)
(* The h2 library is external: a stream delivers in order, and when one    *)
(* side drops its last handle of a stream that it has not ended, the other *)
(* side sees a reset behind the data already sent.                         *)
(***************************************************************************)
EXTENDS Naturals

CONSTANTS
  Window,       \* initial_window_size of a stream, in units
  SinkBuffer,   \* units a TUN connection or a target socket buffers
  MaxUnits      \* bound: units each source produces

ASSUME WindowIsPositive == Window \in Nat \ {0}
ASSUME SinkBufferIsPositive == SinkBuffer \in Nat \ {0}
ASSUME MaxUnitsIsNat == MaxUnits \in Nat

Dirs == {"up", "down"}
Ends == {"app", "target"}

Source == [up |-> "app", down |-> "target"]
Sink == [up |-> "target", down |-> "app"]

VARIABLES
  client,     \* handle_mux_session: "opening", "relay" or "ended"
  server,     \* the server's task: "none", "connecting", "relay", "ended"
              \* or "failed" (the target refused)
  responded,  \* whether the server sent its 200
  sender,     \* per direction: "off", "read" or "done"
  receiver,   \* per direction: "off", "recv" or "done"
  produced,   \* units the source wrote
  taken,      \* units the sender read
  sent,       \* units the sender gave to the stream
  recvd,      \* units the receiver took from the stream
  written,    \* units the receiver wrote to its sink
  released,   \* units of credit the receiver gave back
  drained,    \* units the sink's owner consumed
  closed,     \* whether the source ended its half of the connection
  broken,     \* whether an end reset its connection
  ended,      \* whether the client sent END_STREAM
  reset,      \* who reset the stream: "none", "client" or "server"
  conn        \* the HTTP/2 connection: "up" or "down"

counters == <<produced, taken, sent, recvd, written, released, drained>>
ends == <<closed, broken>>
stream == <<ended, reset, conn>>
tasks == <<client, server, responded, sender, receiver>>
vars == <<tasks, counters, ends, stream>>

Units == 0 .. MaxUnits

TypeOK ==
  /\ client \in {"opening", "relay", "ended"}
  /\ server \in {"none", "connecting", "relay", "ended", "failed"}
  /\ responded \in BOOLEAN
  /\ sender \in [Dirs -> {"off", "read", "done"}]
  /\ receiver \in [Dirs -> {"off", "recv", "done"}]
  /\ produced \in [Dirs -> Units] /\ taken \in [Dirs -> Units]
  /\ sent \in [Dirs -> Units] /\ recvd \in [Dirs -> Units]
  /\ written \in [Dirs -> Units] /\ released \in [Dirs -> Units]
  /\ drained \in [Dirs -> Units]
  /\ closed \in [Dirs -> BOOLEAN]
  /\ broken \in [Ends -> BOOLEAN]
  /\ ended \in BOOLEAN
  /\ reset \in {"none", "client", "server"}
  /\ conn \in {"up", "down"}

Zero == [d \in Dirs |-> 0]

Init ==
  /\ client = "opening"
  /\ server = "none"
  /\ responded = FALSE
  /\ sender = [d \in Dirs |-> "off"]
  /\ receiver = [d \in Dirs |-> "off"]
  /\ produced = Zero /\ taken = Zero /\ sent = Zero /\ recvd = Zero
  /\ written = Zero /\ released = Zero /\ drained = Zero
  /\ closed = [d \in Dirs |-> FALSE]
  /\ broken = [e \in Ends |-> FALSE]
  /\ ended = FALSE
  /\ reset = "none"
  /\ conn = "up"

Plus(f, d, n) == [f EXCEPT ![d] = @ + n]

-----------------------------------------------------------------------------
\* The app and the target

Produce(d) ==
  /\ ~closed[d] /\ ~broken[Source[d]]
  /\ produced[d] < MaxUnits
  /\ produced' = Plus(produced, d, 1)
  /\ UNCHANGED <<taken, sent, recvd, written, released, drained,
                 tasks, ends, stream>>

Close(d) ==
  /\ ~closed[d]
  /\ closed' = [closed EXCEPT ![d] = TRUE]
  /\ UNCHANGED <<broken, tasks, counters, stream>>

Break(e) ==
  /\ ~broken[e]
  /\ broken' = [broken EXCEPT ![e] = TRUE]
  /\ UNCHANGED <<closed, tasks, counters, stream>>

Drain(d) ==
  /\ drained[d] < written[d]
  /\ ~broken[Sink[d]]
  /\ drained' = Plus(drained, d, 1)
  /\ UNCHANGED <<produced, taken, sent, recvd, written, released,
                 tasks, ends, stream>>

-----------------------------------------------------------------------------
\* Opening the stream

\* The server takes the request, answers 200 before it knows whether the
\* target can be reached, and spawns the stream's task.
Accept ==
  /\ server = "none" /\ conn = "up"
  /\ server' = "connecting"
  /\ responded' = TRUE
  /\ UNCHANGED <<client, sender, receiver, counters, ends, stream>>

\* TcpStream::connect succeeded: the relay is counted and its tasks start.
Connect ==
  /\ server = "connecting"
  /\ server' = "relay"
  /\ sender' = [sender EXCEPT !.down = "read"]
  /\ receiver' = [receiver EXCEPT !.up = "recv"]
  /\ UNCHANGED <<client, responded, counters, ends, stream>>

\* It failed: the task returns and drops both halves of the stream.
ConnectFails ==
  /\ server = "connecting"
  /\ server' = "failed"
  /\ reset' = IF reset = "none" THEN "server" ELSE reset
  /\ UNCHANGED <<client, responded, sender, receiver, counters, ends,
                 ended, conn>>

\* The client sees the 200 and starts its two relay tasks.
Opened ==
  /\ client = "opening" /\ responded
  /\ client' = "relay"
  /\ sender' = [sender EXCEPT !.up = "read"]
  /\ receiver' = [receiver EXCEPT !.down = "recv"]
  /\ UNCHANGED <<server, responded, counters, ends, stream>>

\* No stream, an error or no answer within 15 s: handle_mux_session returns.
OpenFails ==
  /\ client = "opening"
  /\ client' = "ended"
  /\ reset' = IF reset = "none" THEN "client" ELSE reset
  /\ UNCHANGED <<server, responded, sender, receiver, counters, ends,
                 ended, conn>>

-----------------------------------------------------------------------------
\* The sender of direction d: the client's upload task ("up"), the server's
\* download task ("down")

\* The other side's reset, or the end of the connection, makes sends fail.
SendFails(d) ==
  \/ conn = "down"
  \/ reset = IF d = "up" THEN "server" ELSE "client"

Credit(d) == Window - (sent[d] - released[d])

\* read_buf returned n units.
SenderReads(d, n) ==
  /\ sender[d] = "read" /\ taken[d] = sent[d]
  /\ taken[d] + n <= produced[d]
  /\ taken' = Plus(taken, d, n)
  /\ UNCHANGED <<produced, sent, recvd, written, released, drained,
                 tasks, ends, stream>>

\* send_bytes: as much as the credit allows, again until nothing is left.
SenderSends(d) ==
  /\ sender[d] = "read" /\ taken[d] > sent[d]
  /\ ~SendFails(d)
  /\ Credit(d) > 0
  /\ sent' = Plus(sent, d, IF Credit(d) < taken[d] - sent[d]
                             THEN Credit(d) ELSE taken[d] - sent[d])
  /\ UNCHANGED <<produced, taken, recvd, written, released, drained,
                 tasks, ends, stream>>

\* The source is at its end, or it failed: the client ends the stream, the
\* server only leaves its loop.
SenderEof(d) ==
  /\ sender[d] = "read" /\ taken[d] = sent[d]
  /\ \/ closed[d] /\ taken[d] = produced[d]
     \/ broken[Source[d]]
  /\ sender' = [sender EXCEPT ![d] = "done"]
  /\ ended' = (ended \/ d = "up")
  /\ UNCHANGED <<client, server, responded, receiver, counters, ends,
                 reset, conn>>

\* send_bytes returned an error.
SenderStops(d) ==
  /\ sender[d] = "read" /\ taken[d] > sent[d]
  /\ SendFails(d)
  /\ sender' = [sender EXCEPT ![d] = "done"]
  /\ UNCHANGED <<client, server, responded, receiver, counters, ends, stream>>

-----------------------------------------------------------------------------
\* The receiver of direction d: the server's upload task ("up"), the client's
\* download task ("down")

\* Faulty variant of ReceiverTakes: the credit is given back before the write.
ReleasesEarly(d, n) ==
  /\ receiver[d] = "recv" /\ written[d] = recvd[d]
  /\ recvd[d] + n <= sent[d]
  /\ recvd' = Plus(recvd, d, n)
  /\ released' = Plus(released, d, n)
  /\ UNCHANGED <<produced, taken, sent, written, drained, tasks, ends, stream>>

\* recv_stream.data() returned n units.
ReceiverTakes(d, n) ==
  /\ receiver[d] = "recv" /\ written[d] = recvd[d]
  /\ recvd[d] + n <= sent[d]
  /\ recvd' = Plus(recvd, d, n)
  /\ UNCHANGED <<produced, taken, sent, written, released, drained,
                 tasks, ends, stream>>

\* Faulty variant of ReceiverWrites: one unit of credit too many.
ReleasesTooMuch(d) ==
  /\ receiver[d] = "recv" /\ written[d] < recvd[d]
  /\ ~broken[Sink[d]]
  /\ written[d] - drained[d] < SinkBuffer
  /\ written' = Plus(written, d, 1)
  /\ released' = IF written[d] + 1 = recvd[d]
                   THEN [released EXCEPT ![d] = recvd[d] + 1] ELSE released
  /\ UNCHANGED <<produced, taken, sent, recvd, drained, tasks, ends, stream>>

\* write_all got one more unit out; once the last one is, the credit for all
\* of them is given back.
ReceiverWrites(d) ==
  /\ receiver[d] = "recv" /\ written[d] < recvd[d]
  /\ ~broken[Sink[d]]
  /\ written[d] - drained[d] < SinkBuffer
  /\ written' = Plus(written, d, 1)
  /\ released' = IF written[d] + 1 = recvd[d]
                   THEN [released EXCEPT ![d] = recvd[d]] ELSE released
  /\ UNCHANGED <<produced, taken, sent, recvd, drained, tasks, ends, stream>>

\* write_all failed.
ReceiverFails(d) ==
  /\ receiver[d] = "recv" /\ written[d] < recvd[d]
  /\ broken[Sink[d]]
  /\ receiver' = [receiver EXCEPT ![d] = "done"]
  /\ UNCHANGED <<client, server, responded, sender, counters, ends, stream>>

\* data() returned None or an error: the stream ended or was reset behind
\* its last unit, or the connection is gone, with whatever it carried.
ReceiverEnds(d) ==
  /\ receiver[d] = "recv" /\ written[d] = recvd[d]
  /\ \/ conn = "down"
     \/ /\ recvd[d] = sent[d]
        /\ IF d = "up" THEN ended \/ reset = "client" ELSE reset = "server"
  /\ receiver' = [receiver EXCEPT ![d] = "done"]
  /\ UNCHANGED <<client, server, responded, sender, counters, ends, stream>>

-----------------------------------------------------------------------------
\* How a session ends

\* The client: whichever task ends first, both are aborted, and the stream
\* and the TUN connection are dropped.
ClientEnds ==
  /\ client = "relay"
  /\ sender.up = "done" \/ receiver.down = "done"
  /\ client' = "ended"
  /\ sender' = [sender EXCEPT !.up = "done"]
  /\ receiver' = [receiver EXCEPT !.down = "done"]
  /\ reset' = IF reset = "none" THEN "client" ELSE reset
  /\ UNCHANGED <<server, responded, counters, ends, ended, conn>>

\* Faulty variants of ServerEnds: the other task is aborted, as on the
\* client; the relay waits for both tasks.
ServerAborts ==
  /\ server = "relay"
  /\ sender.down = "done" \/ receiver.up = "done"
  /\ server' = "ended"
  /\ sender' = [sender EXCEPT !.down = "done"]
  /\ receiver' = [receiver EXCEPT !.up = "done"]
  /\ UNCHANGED <<client, responded, counters, ends, stream>>

ServerJoins ==
  /\ server = "relay"
  /\ sender.down = "done" /\ receiver.up = "done"
  /\ server' = "ended"
  /\ UNCHANGED <<client, responded, sender, receiver, counters, ends, stream>>

\* The server: whichever task ends first, the relay is uncounted; the other
\* task runs on, detached.
ServerEnds ==
  /\ server = "relay"
  /\ sender.down = "done" \/ receiver.up = "done"
  /\ server' = "ended"
  /\ UNCHANGED <<client, responded, sender, receiver, counters, ends, stream>>

\* With both of the server's tasks over no handle of the stream is left.
ServerResets ==
  /\ sender.down = "done" /\ receiver.up = "done"
  /\ reset = "none"
  /\ reset' = "server"
  /\ UNCHANGED <<tasks, counters, ends, ended, conn>>

ConnDown ==
  /\ conn = "up"
  /\ conn' = "down"
  /\ UNCHANGED <<tasks, counters, ends, ended, reset>>

Sender(d) ==
  \/ \E n \in 1 .. MaxUnits : SenderReads(d, n)
  \/ SenderSends(d)
  \/ SenderEof(d)
  \/ SenderStops(d)

Receiver(d) ==
  \/ \E n \in 1 .. MaxUnits : ReceiverTakes(d, n)
  \/ ReceiverWrites(d)
  \/ ReceiverFails(d)
  \/ ReceiverEnds(d)

Opening == Accept \/ Connect \/ ConnectFails \/ Opened \/ OpenFails

Ending == ClientEnds \/ ServerEnds \/ ServerResets

Next ==
  \/ \E d \in Dirs :
       Produce(d) \/ Close(d) \/ Drain(d) \/ Sender(d) \/ Receiver(d)
  \/ \E e \in Ends : Break(e)
  \/ Opening
  \/ Ending
  \/ ConnDown

Spec == Init /\ [][Next]_vars

\* The runtimes of both sides poll their tasks and h2 delivers; a connect to
\* the target ends, and the client's wait for the 200 has a timeout.
RuntimeFairness ==
  /\ \A d \in Dirs : WF_vars(Sender(d)) /\ WF_vars(Receiver(d))
  /\ WF_vars(Accept) /\ WF_vars(Connect \/ ConnectFails)
  /\ WF_vars(Opened \/ OpenFails)
  /\ WF_vars(ClientEnds) /\ WF_vars(ServerEnds) /\ WF_vars(ServerResets)

\* An assumption on the app and the target: they read what they are sent.
EndsRead == \A d \in Dirs : WF_vars(Drain(d))

FairSpec == Spec /\ RuntimeFairness /\ EndsRead

-----------------------------------------------------------------------------
\* "Write to TUN FIRST, then release H2 flow control": what a sender has put
\* in flight and the sink's connection has not taken never exceeds the
\* window, so a slow app or target holds up its peer and no buffer grows.
BacklogBounded == \A d \in Dirs : sent[d] - written[d] <= Window

\* The target's connection of a finished upload was closed by the server.
TargetSeesEof == receiver.up = "done"

Undisturbed == conn = "up" /\ ~broken["app"] /\ ~broken["target"]

\* The target of an opened session sees the end of the upload only after all
\* the app sent, also when the target ended its own half long before: the
\* server's detached upload task outlives the relay it was part of, and the
\* client's reset does not overtake the data.
EofMeansComplete ==
  TargetSeesEof /\ Undisturbed /\ sender.up # "off" =>
    closed["up"] /\ written["up"] = produced["up"]

\* When the app closes or its session ends, the server's relay is uncounted
\* and the upload half of its target connection is closed.
RelayWindsUp ==
  (client = "ended" \/ (client = "relay" /\ closed["up"])) /\ server = "relay"
    ~> server = "ended" /\ receiver.up = "done"
=============================================================================
