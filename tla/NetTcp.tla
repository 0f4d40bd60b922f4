------------------------------- MODULE NetTcp -------------------------------
(***************************************************************************)
(* One TCP connection through the user-space stack (netstack-smoltcp):     *)
(* the task that runs handle_packet and handle_socket under one select!,   *)
(* the TcpStream whose halves are read, written and shut down from other   *)
(* tasks, and the device behind the TUN interface.                         *)
(*                                                                         *)
(* TCP itself is smoltcp's and the device's business and is external: a    *)
(* segment brings its receiver any part of what the sender has that the    *)
(* receiver lacks, so that loss and retransmission need no sequence        *)
(* numbers here. What is the crate's own is the two ring buffers, their    *)
(* states and wakers, and when the poll loop runs and sleeps.              *)
(* The names that MuxStream has too bear the prefix Net here: the proofs   *)
(* extend both.                                                            *)
(***************************************************************************)
EXTENDS Integers, Sequences

CONSTANTS
  NetUnits,   \* units each end has to send at most
  RingCap,    \* capacity of send_buffer and of recv_buffer
  SockCap,    \* capacity of each of smoltcp's two socket buffers
  OutCap,     \* capacity of stack_tx, the frames on their way to the TUN
  QueueCap    \* bound: frames in the ingress queue (unbounded in the code)

ASSUME SizesAssumption ==
  /\ NetUnits \in Nat
  /\ RingCap \in Nat \ {0}
  /\ SockCap \in Nat \ {0}
  /\ OutCap \in Nat \ {0}
  /\ QueueCap \in Nat \ {0}

VARIABLES
  tcp,      \* TcpState of the smoltcp socket, "none" before and after
  up,       \* device to stream: [rcvd, moved, read, fin]
  down,     \* stream to device: [written, queued, got, acked, fin]
  control,  \* TcpSocketControl: the two states and the two wakers
  reader,   \* the task that reads: "ready", "parked" or "eof"
  writer,   \* the task that writes: "ready", "waitRoom" or "waitClosed"
  dropped,  \* has the TcpStream been dropped?
  loop,     \* handle_socket: "poll", "visit", "rest", "sleep" or "gone"
  permit,   \* the permit of the Notify
  avail,    \* iface_ingress_tx_avail
  in_buf,   \* frames handed to the interface
  out_buf   \* frames queued for the TUN

sides == <<reader, writer, dropped>>
netVars == <<tcp, up, down, control, sides, loop, permit, avail, in_buf, out_buf>>

TcpStates == {"listen", "synReceived", "established", "finWait1", "finWait2",
              "closing", "timeWait", "closeWait", "lastAck", "closed"}
HalfStates == {"normal", "close", "closing", "closed"}

-----------------------------------------------------------------------------
(* What lies where.                                                        *)

Least(a, b) == IF a <= b THEN a ELSE b

RecvBuffer == up.moved - up.read
SendBuffer == down.written - down.queued
SockRx == up.rcvd - up.moved
SockTx == down.queued - down.acked

CanSend == tcp \in {"established", "closeWait"} /\ SockTx < SockCap

\* Has smoltcp something to say: SYN|ACK, data or a FIN without an answer?
Owes ==
  \/ tcp = "synReceived"
  \/ tcp # "none" /\ SockTx > 0
  \/ tcp \in {"finWait1", "closing", "lastAck"}

NetInit ==
  /\ tcp = "none"
  /\ up = [rcvd |-> 0, moved |-> 0, read |-> 0, fin |-> FALSE]
  /\ down = [written |-> 0, queued |-> 0, got |-> 0, acked |-> 0, fin |-> FALSE]
  /\ control = [recv_state |-> "normal", send_state |-> "normal",
                recv_waker |-> FALSE, send_waker |-> FALSE]
  /\ reader = "ready" /\ writer = "ready" /\ dropped = FALSE
  /\ loop = "sleep" /\ permit = FALSE /\ avail = FALSE
  /\ in_buf = <<>> /\ out_buf = 0

-----------------------------------------------------------------------------
(* The device.                                                             *)

\* stack -> TUN -> device. A frame from the socket brings the device data it
\* lacks, and the FIN once it has all data.
SendsFin == tcp \in {"finWait1", "closing", "lastAck"}
Delivered ==
  /\ out_buf > 0
  /\ out_buf' = out_buf - 1
  /\ \E n \in Least(down.got + 1, down.queued) .. down.queued :
       down' = [down EXCEPT !.got = n,
                            !.fin = @ \/ (n = down.queued /\ SendsFin)]
  /\ UNCHANGED <<tcp, up, control, sides, loop, permit, avail, in_buf>>

\* handle_packet for one frame of the device. It shares a task with
\* handle_socket, so it runs only while that one awaits. A SYN creates the
\* socket and hands out the stream. One SYN is enough here: a repeated one
\* creates a second socket and a second stream, which stay in Listen.
HandlePacket(frame) ==
  /\ loop = "sleep"
  /\ Len(in_buf) < QueueCap
  /\ \/ /\ frame = "syn" /\ tcp = "none" /\ control.recv_state = "normal"
        /\ tcp' = "listen"
     \/ /\ frame \in {"seg", "rst"} /\ tcp \notin {"none", "listen"}
        /\ UNCHANGED tcp
  /\ in_buf' = Append(in_buf, frame)
  /\ avail' = TRUE
  /\ permit' = TRUE
  /\ UNCHANGED <<up, down, control, sides, loop, out_buf>>

-----------------------------------------------------------------------------
(* iface.poll over VirtualDevice.                                          *)

\* A segment carries data into the room there is, an acknowledgement, and
\* maybe the FIN. What the device has not sent yet leaves no trace here, so
\* its data appears when it arrives.
Segment ==
  /\ \E n \in up.rcvd .. NetUnits, a \in down.acked .. down.got, finIn \in BOOLEAN :
       /\ n - up.moved <= SockCap
       /\ n > up.rcvd \/ finIn =>
            tcp \in {"synReceived", "established", "finWait1", "finWait2"}
       /\ up' = [up EXCEPT !.rcvd = n, !.fin = finIn \/ @]
       /\ down' = [down EXCEPT !.acked = a]
       /\ LET finAcked == down.fin /\ a = down.queued
          IN  tcp' = (
                CASE tcp \in {"synReceived", "established"} ->
                       IF finIn THEN "closeWait" ELSE "established"
                  [] tcp = "finWait1" ->
                       (CASE finIn /\ finAcked -> "timeWait"
                          [] finIn -> "closing"
                          [] finAcked -> "finWait2"
                          [] OTHER -> tcp)
                  [] tcp = "finWait2" -> IF finIn THEN "timeWait" ELSE tcp
                  [] tcp = "closing" -> IF finAcked THEN "timeWait" ELSE tcp
                  [] tcp = "lastAck" -> IF finAcked THEN "closed" ELSE tcp
                  [] OTHER -> tcp)

\* A reset in SynReceived puts a listening socket back to Listen.
Answer(frame) ==
  \/ frame = "syn" /\ tcp' = (IF tcp = "listen" THEN "synReceived" ELSE tcp)
     /\ UNCHANGED <<up, down>>
  \/ frame = "rst"
     /\ tcp' = (CASE tcp = "synReceived" -> "listen"
                  [] tcp \in {"none", "listen"} -> tcp
                  [] OTHER -> "closed")
     /\ UNCHANGED <<up, down>>
  \/ frame = "seg" /\ tcp \notin {"none", "listen", "closed"} /\ Segment
  \/ frame = "seg" /\ tcp \in {"none", "listen", "closed"}
     /\ UNCHANGED <<tcp, up, down>>

\* receive takes the frame first and looks for room for the reply second.
Receive ==
  /\ loop = "poll" /\ in_buf # <<>> /\ out_buf < OutCap
  /\ Answer(Head(in_buf))
  /\ in_buf' = Tail(in_buf)
  /\ UNCHANGED <<control, sides, loop, permit, avail, out_buf>>

ReceiveDrops ==
  /\ loop = "poll" /\ in_buf # <<>> /\ out_buf = OutCap
  /\ in_buf' = Tail(in_buf)
  /\ avail' = FALSE
  /\ loop' = "visit"
  /\ UNCHANGED <<tcp, up, down, control, sides, permit, out_buf>>

\* Nothing left to take: transmit what there is to say, if there is room.
Transmit ==
  /\ loop = "poll" /\ in_buf = <<>>
  /\ avail' = FALSE
  /\ out_buf' = IF Owes /\ out_buf < OutCap THEN out_buf + 1 ELSE out_buf
  /\ loop' = "visit"
  /\ UNCHANGED <<tcp, up, down, control, sides, permit, in_buf>>

\* TIME-WAIT runs out; the socket's own time-out looks like a reset.
Expire ==
  /\ loop = "poll" /\ tcp = "timeWait"
  /\ tcp' = "closed"
  /\ UNCHANGED <<up, down, control, sides, loop, permit, avail, in_buf, out_buf>>

-----------------------------------------------------------------------------
(* handle_socket: the visit of the socket, under control's lock.           *)

\* wake() makes a parked task ready.
WakeReader(wake) == IF wake /\ reader = "parked" THEN "ready" ELSE reader
WakeWriter(wake) ==
  IF wake /\ writer \in {"waitRoom", "waitClosed"} THEN "ready" ELSE writer

\* Faulty variant: only the reader is woken when the connection is closed.
VisitClosedReader ==
  /\ loop = "visit" /\ tcp = "closed"
  /\ control' = [control EXCEPT !.recv_state = "closed", !.send_state = "closed",
                               !.recv_waker = FALSE]
  /\ reader' = WakeReader(control.recv_waker)
  /\ tcp' = "none"
  /\ loop' = "rest"
  /\ UNCHANGED <<up, down, writer, dropped, permit, avail, in_buf, out_buf>>

VisitClosed ==
  /\ loop = "visit" /\ tcp = "closed"
  /\ control' = [recv_state |-> "closed", send_state |-> "closed",
                 recv_waker |-> FALSE, send_waker |-> FALSE]
  /\ reader' = WakeReader(control.recv_waker)
  /\ writer' = WakeWriter(control.send_waker)
  /\ tcp' = "none"
  /\ loop' = "rest"
  /\ UNCHANGED <<up, down, dropped, permit, avail, in_buf, out_buf>>

\* Faulty variant: closes while send_buffer still holds data.
ShutsEarly == control.send_state = "close"

\* SHUT_WR waits until send_buffer is empty.
Shuts == control.send_state = "close" /\ SendBuffer = 0

Closing(state) ==
  CASE state = "listen" -> "closed"
    [] state \in {"synReceived", "established"} -> "finWait1"
    [] state = "closeWait" -> "lastAck"
    [] OTHER -> state

\* Faulty variants: recv_buffer is not asked whether it is full; a half-closed
\* connection is not written to.
MovedInAll == SockRx
MovedOutEstablished(state) ==
  IF state = "established" THEN Least(SendBuffer, SockCap - SockTx) ELSE 0

\* What one visit moves from the socket to recv_buffer, and from send_buffer
\* to the socket.
MovedIn == Least(SockRx, RingCap - RecvBuffer)
MovedOut(state) ==
  IF state \in {"established", "closeWait"}
  THEN Least(SendBuffer, SockCap - SockTx) ELSE 0

\* The read half ends when the peer's FIN is in and nothing is left in the
\* socket; it is left to VisitClosed when the stream has given up reading.
ReadHalfEnds(state) ==
  /\ control.recv_state = "normal"
  /\ SockRx = MovedIn
  /\ state \in {"closing", "timeWait", "closeWait", "lastAck"}

Visit ==
  /\ loop = "visit" /\ tcp \notin {"none", "closed"}
  /\ LET state == IF Shuts THEN Closing(tcp) ELSE tcp
         out == MovedOut(state)
         wake_receiver == MovedIn > 0 \/ ReadHalfEnds(state)
         wake_sender == out > 0
     IN  /\ tcp' = state
         /\ up' = [up EXCEPT !.moved = @ + MovedIn]
         /\ down' = [down EXCEPT !.queued = @ + out]
         /\ control' =
              [recv_state |-> IF ReadHalfEnds(state) THEN "closed" ELSE control.recv_state,
               send_state |-> IF Shuts THEN "closing" ELSE control.send_state,
               recv_waker |-> control.recv_waker /\ ~wake_receiver,
               send_waker |-> control.send_waker /\ ~wake_sender]
         /\ reader' = WakeReader(wake_receiver /\ control.recv_waker)
         /\ writer' = WakeWriter(wake_sender /\ control.send_waker)
  /\ loop' = "rest"
  /\ UNCHANGED <<dropped, permit, avail, in_buf, out_buf>>

VisitNone ==
  /\ loop = "visit" /\ tcp = "none"
  /\ loop' = "rest"
  /\ UNCHANGED <<tcp, up, down, control, sides, permit, avail, in_buf, out_buf>>

\* poll_delay is zero while smoltcp has something it has not sent.
Rest ==
  /\ loop = "rest"
  /\ loop' \in (IF avail THEN {"poll"}
                ELSE IF Owes THEN {"poll", "sleep"} ELSE {"sleep"})
  /\ UNCHANGED <<tcp, up, down, control, sides, permit, avail, in_buf, out_buf>>

\* notified() consumes the permit; time-out leaves it.
Notified ==
  /\ loop = "sleep" /\ permit
  /\ permit' = FALSE
  /\ loop' = "poll"
  /\ UNCHANGED <<tcp, up, down, control, sides, avail, in_buf, out_buf>>

TimesOut ==
  /\ loop = "sleep"
  /\ loop' = "poll"
  /\ UNCHANGED <<tcp, up, down, control, sides, permit, avail, in_buf, out_buf>>

\* The stack is dropped: handle_packet returns and select! drops
\* handle_socket with all sockets. Nobody wakes a parked task any more.
RunnerExits ==
  /\ loop = "sleep"
  /\ loop' = "gone"
  /\ UNCHANGED <<tcp, up, down, control, sides, permit, avail, in_buf, out_buf>>

-----------------------------------------------------------------------------
(* TcpStream.                                                              *)

HandedOut == ~dropped /\ (tcp # "none" \/ control.recv_state = "closed")

PollRead ==
  /\ HandedOut /\ reader = "ready"
  /\ \/ /\ RecvBuffer > 0
        /\ \E n \in 1 .. RecvBuffer : up' = [up EXCEPT !.read = @ + n]
        /\ permit' = TRUE
        /\ UNCHANGED <<control, reader>>
     \/ /\ RecvBuffer = 0 /\ control.recv_state = "closed"
        /\ reader' = "eof"
        /\ UNCHANGED <<up, control, permit>>
     \/ /\ RecvBuffer = 0 /\ control.recv_state # "closed"
        /\ control' = [control EXCEPT !.recv_waker = TRUE]
        /\ reader' = "parked"
        /\ UNCHANGED <<up, permit>>
  /\ UNCHANGED <<tcp, down, writer, dropped, loop, avail, in_buf, out_buf>>

PollWrite ==
  /\ HandedOut /\ writer = "ready" /\ control.send_state = "normal"
  /\ down.written < NetUnits
  /\ \/ /\ SendBuffer < RingCap
        /\ \E n \in 1 .. Least(RingCap - SendBuffer, NetUnits - down.written) :
             down' = [down EXCEPT !.written = @ + n]
        /\ permit' = TRUE
        /\ UNCHANGED <<control, writer>>
     \/ /\ SendBuffer = RingCap
        /\ control' = [control EXCEPT !.send_waker = TRUE]
        /\ writer' = "waitRoom"
        /\ UNCHANGED <<down, permit>>
  /\ UNCHANGED <<tcp, up, reader, dropped, loop, avail, in_buf, out_buf>>

\* Pending until the whole connection is closed, also when only the write
\* half is shut.
PollShutdown ==
  /\ HandedOut /\ writer = "ready" /\ control.send_state # "closed"
  /\ control' = [control EXCEPT
                   !.send_state = IF @ = "normal" THEN "close" ELSE @,
                   !.send_waker = TRUE]
  /\ writer' = "waitClosed"
  /\ permit' = TRUE
  /\ UNCHANGED <<tcp, up, down, reader, dropped, loop, avail, in_buf, out_buf>>

Drop ==
  /\ HandedOut
  /\ dropped' = TRUE
  /\ control' = [control EXCEPT
                   !.recv_state = IF @ = "normal" THEN "close" ELSE @,
                   !.send_state = IF @ = "normal" THEN "close" ELSE @]
  /\ permit' = TRUE
  /\ UNCHANGED <<tcp, up, down, reader, writer, loop, avail, in_buf, out_buf>>

-----------------------------------------------------------------------------
LoopStep ==
  \/ Receive \/ ReceiveDrops \/ Transmit \/ Expire
  \/ VisitClosed \/ Visit \/ VisitNone \/ Rest \/ Notified \/ TimesOut

NetNext ==
  \/ Delivered
  \/ \E frame \in {"syn", "seg", "rst"} : HandlePacket(frame)
  \/ LoopStep \/ RunnerExits
  \/ PollRead \/ PollWrite \/ PollShutdown \/ Drop

NetSpec == NetInit /\ [][NetNext]_netVars

(* Fairness. tokio runs a task that can run, and the poll loop always can:  *)
(* its sleep has a time-out, and it does sleep, because smoltcp has         *)
(* something to send now only until it is sent. The device's side is an     *)
(* assumption: what is queued for it arrives, also while the loop sleeps    *)
(* over new frames, so that not every reply finds the queue full, and what  *)
(* arrived is acknowledged in the end, however often a frame is lost.       *)
ReceiveAck == Receive /\ Head(in_buf) = "seg" /\ down'.acked = down.got

Fairness ==
  /\ WF_netVars(LoopStep)
  /\ SF_netVars(Rest /\ loop' = "sleep")
  /\ SF_netVars(Delivered /\ loop = "sleep" /\ in_buf # <<>>)
  /\ SF_netVars(HandlePacket("seg"))
  /\ SF_netVars(ReceiveAck)

NetFairSpec == NetSpec /\ Fairness

-----------------------------------------------------------------------------
(* Properties.                                                             *)

\* The variables have their types: the counters are ordered, so no buffer
\* holds more than its capacity and nothing is delivered before it was put
\* in (TcpSocketControl's rings between smoltcp's buffers and the stream).
NetTypeOK ==
  /\ tcp \in TcpStates \cup {"none"}
  /\ up \in [rcvd : 0 .. NetUnits, moved : Nat, read : Nat, fin : BOOLEAN]
  /\ up.read <= up.moved /\ up.moved <= up.rcvd
  /\ RecvBuffer <= RingCap /\ SockRx <= SockCap
  /\ down \in [written : 0 .. NetUnits, queued : Nat, got : Nat, acked : Nat, fin : BOOLEAN]
  /\ down.acked <= down.got /\ down.got <= down.queued /\ down.queued <= down.written
  /\ SendBuffer <= RingCap /\ SockTx <= SockCap
  /\ control \in [recv_state : HalfStates \ {"closing"}, send_state : HalfStates,
                  recv_waker : BOOLEAN, send_waker : BOOLEAN]
  /\ reader \in {"ready", "parked", "eof"}
  /\ writer \in {"ready", "waitRoom", "waitClosed"}
  /\ dropped \in BOOLEAN
  /\ loop \in {"poll", "visit", "rest", "sleep", "gone"}
  /\ permit \in BOOLEAN /\ avail \in BOOLEAN
  /\ in_buf \in Seq({"syn", "seg", "rst"}) /\ Len(in_buf) <= QueueCap
  /\ out_buf \in 0 .. OutCap

\* No wake-up is lost: a parked task has its waker registered, and what it
\* waits for has not happened yet. poll_read, poll_write and poll_shutdown
\* register under the lock under which handle_socket changes the state.
NoLostWakeup ==
  ~dropped =>
    /\ reader = "parked" =>
         /\ control.recv_waker
         /\ RecvBuffer = 0 /\ control.recv_state # "closed"
    /\ writer = "waitRoom" =>
         /\ control.send_waker
         /\ SendBuffer = RingCap /\ control.send_state # "closed"
    /\ writer = "waitClosed" =>
         control.send_waker /\ control.send_state # "closed"

\* The device sees the end of the download only behind its last byte: shutting
\* or dropping the stream while send_buffer is full loses nothing (the SHUT_WR
\* comment of handle_socket).
FinBehindData == down.fin => down.got = down.written

\* A stream that is shut down or dropped gets its end of file, and all data
\* before it, to a device that keeps acknowledging, unless the connection is
\* reset, was never established, or the stack is gone.
ShutdownCompletes ==
  control.send_state = "close"
    ~> down.fin \/ tcp \in {"none", "closed", "listen", "synReceived"} \/ loop = "gone"
=============================================================================
