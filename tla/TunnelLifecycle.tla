--------------------------- MODULE TunnelLifecycle ---------------------------
(***************************************************************************)
(* The embedding interfaces, c_api.rs and jni_wrapper.rs: start, stop and  *)
(* restart of the tunnel around one global flag, the threads and tasks of  *)
(* each start, and the file descriptors they own. The two files hold the   *)
(* same loop; where they differ the model lets either happen.              *)
(*                                                                         *)
(* A task runs until it awaits. Every await, and every call after which    *)
(* another thread may see the difference, ends a step.                     *)
(***************************************************************************)
EXTENDS Integers, Sequences, FiniteSetsExt

CONSTANTS
  Starts,    \* bound: calls of start that reach the thread, 1 .. Starts
  Fds,       \* bound: descriptor numbers, 1 .. Fds
  TunCap     \* capacity of tun_tx, the packets between reader and stack

ASSUME BoundsAssumption ==
  Starts \in Nat \ {0} /\ Fds \in Nat /\ TunCap \in Nat \ {0}

Tunnels == 1 .. Starts
Numbers == 1 .. Fds

VARIABLES
  stop_requested,  \* STOP_REQUESTED
  phase,    \* phase[t]: where the thread of start t is
  reader,   \* reader[t]: the task that reads the TUN
  pipe,     \* pipe[t]: the task that feeds the stack, "none", "runs", "done"
  queue,    \* queue[t]: packets in tun_tx
  writer,   \* writer[t]: the task that writes the TUN
  notified, \* notified[t]: the permit of stop_r
  raw,      \* raw[t]: the number in raw_fd, 0 before start t and after its end
  fd,       \* fd[n]: what descriptor n is, <<t, role>> for one of tunnel t
  device    \* has the TUN a packet to read?

tasks == <<reader, pipe, queue, writer, notified>>
vars == <<stop_requested, phase, tasks, raw, fd, device>>

Nobodys == <<0, "free">>

Phases == {"unused", "loading", "building", "spawned", "select", "returned", "gone"}
Alive(t) == phase[t] \notin {"unused", "returned", "gone"}

Init ==
  /\ stop_requested = FALSE
  /\ phase = [t \in Tunnels |-> "unused"]
  /\ reader = [t \in Tunnels |-> "none"]
  /\ pipe = [t \in Tunnels |-> "none"]
  /\ queue = [t \in Tunnels |-> 0]
  /\ writer = [t \in Tunnels |-> "none"]
  /\ notified = [t \in Tunnels |-> FALSE]
  /\ raw = [t \in Tunnels |-> 0]
  /\ fd = [n \in Numbers |-> Nobodys]
  /\ device = FALSE

-----------------------------------------------------------------------------
(* Descriptors. A new one gets the lowest free number.                     *)

Free == {n \in Numbers : fd[n] = Nobodys}
Opened(use) == [fd EXCEPT ![Min(Free)] = use]
Closed(uses) == [n \in Numbers |-> IF fd[n] \in uses THEN Nobodys ELSE fd[n]]

PacketArrives ==
  /\ ~device /\ device' = TRUE
  /\ UNCHANGED <<stop_requested, phase, tasks, raw, fd>>

-----------------------------------------------------------------------------
(* The calls of the application.                                           *)

\* start clears the flag, copies the descriptor and leaves the rest to a new
\* thread. It returns 1 before the URL was looked at.
Start(t) ==
  /\ phase[t] = "unused" /\ \A s \in 1 .. t - 1 : phase[s] # "unused"
  /\ Free # {}
  /\ stop_requested' = FALSE
  /\ raw' = [raw EXCEPT ![t] = Min(Free)]
  /\ fd' = Opened(<<t, "raw">>)
  /\ phase' = [phase EXCEPT ![t] = "loading"]
  /\ UNCHANGED <<tasks, device>>

\* A start that returns 0 (no URL, or dup fails) has cleared the flag too.
StartRefused ==
  /\ stop_requested' = FALSE
  /\ UNCHANGED <<phase, tasks, raw, fd, device>>

Stop ==
  /\ stop_requested' = TRUE
  /\ UNCHANGED <<phase, tasks, raw, fd, device>>

-----------------------------------------------------------------------------
(* run_c_vpn_loop and run_vpn_loop up to the select!.                      *)

\* Faulty variant: an invalid configuration returns without the close.
SetupFailsOpen(t) ==
  /\ phase[t] \in {"loading", "building"}
  /\ phase' = [phase EXCEPT ![t] = "returned"]
  /\ UNCHANGED <<stop_requested, tasks, raw, fd, device>>

\* The URL does not load or is invalid; the runtime, the descriptor's flags
\* or the stack cannot be set up: close and return.
SetupFails(t) ==
  /\ phase[t] \in {"loading", "building"}
  /\ fd' = Closed({<<t, "raw">>})
  /\ phase' = [phase EXCEPT ![t] = "returned"]
  /\ UNCHANGED <<stop_requested, tasks, raw, device>>

Loaded(t) ==
  /\ phase[t] = "loading"
  /\ phase' = [phase EXCEPT ![t] = "building"]
  /\ UNCHANGED <<stop_requested, tasks, raw, fd, device>>

\* The stack is there; reader and pipe are spawned.
Built(t) ==
  /\ phase[t] = "building"
  /\ phase' = [phase EXCEPT ![t] = "spawned"]
  /\ reader' = [reader EXCEPT ![t] = "spawned"]
  /\ pipe' = [pipe EXCEPT ![t] = "runs"]
  /\ UNCHANGED <<stop_requested, queue, writer, notified, raw, fd, device>>

\* dup for the writer copies whatever the number stands for by now: the
\* reader may have ended and closed it.
DupWriter(t) ==
  /\ phase[t] = "spawned"
  /\ phase' = [phase EXCEPT ![t] = "select"]
  /\ \/ /\ fd[raw[t]] # Nobodys /\ Free # {}
        /\ fd' = Opened(<<t, IF fd[raw[t]] = <<t, "raw">> THEN "write" ELSE "stray">>)
        /\ writer' = [writer EXCEPT ![t] = "runs"]
     \/ /\ fd[raw[t]] = Nobodys \/ Free = {}
        /\ UNCHANGED <<fd, writer>>
  /\ UNCHANGED <<stop_requested, reader, pipe, queue, notified, raw, device>>

-----------------------------------------------------------------------------
(* The reader: TUN -> tun_tx.                                              *)

ReaderTo(t, from, to) ==
  /\ reader[t] = from
  /\ reader' = [reader EXCEPT ![t] = to]

\* From its first poll on a File owns the descriptor.
ReaderStarts(t) ==
  /\ ReaderTo(t, "spawned", "check")
  /\ UNCHANGED <<stop_requested, phase, pipe, queue, writer, notified, raw, fd, device>>

ReaderChecks(t) ==
  /\ ReaderTo(t, "check", IF stop_requested THEN "break" ELSE "read")
  /\ UNCHANGED <<stop_requested, phase, pipe, queue, writer, notified, raw, fd, device>>

\* A packet; or none, which a descriptor with O_NONBLOCK reports as an error;
\* or end of file or another error.
ReaderReads(t) ==
  /\ \/ device /\ ReaderTo(t, "read", "send") /\ device' = FALSE
     \/ ReaderTo(t, "read", "break") /\ UNCHANGED device
  /\ UNCHANGED <<stop_requested, phase, pipe, queue, writer, notified, raw, fd>>

\* 200 ms pass before the blocking pool has done the read. Its result is kept
\* in the File for the next one.
ReadTimesOut(t) ==
  /\ ReaderTo(t, "read", "check")
  /\ UNCHANGED <<stop_requested, phase, pipe, queue, writer, notified, raw, fd, device>>

\* Faulty variant: does not wait for room.
ReaderSendsUnbounded(t) ==
  /\ ReaderTo(t, "send", "check")
  /\ queue' = [queue EXCEPT ![t] = @ + 1]
  /\ UNCHANGED <<stop_requested, phase, pipe, writer, notified, raw, fd, device>>

ReaderSends(t) ==
  /\ \/ /\ pipe[t] = "runs" /\ queue[t] < TunCap
        /\ ReaderTo(t, "send", "check")
        /\ queue' = [queue EXCEPT ![t] = @ + 1]
     \/ /\ pipe[t] = "done"
        /\ ReaderTo(t, "send", "break")
        /\ UNCHANGED queue
  /\ UNCHANGED <<stop_requested, phase, pipe, writer, notified, raw, fd, device>>

\* Faulty variant: wakes whoever waits now, as notify_waiters does.
ReaderNotifiesWaiters(t) ==
  /\ ReaderTo(t, "break", "closing")
  /\ notified' = [notified EXCEPT ![t] = phase[t] = "select"]
  /\ UNCHANGED <<stop_requested, phase, pipe, queue, writer, raw, fd, device>>

\* notify_one leaves a permit if nobody waits yet.
ReaderNotifies(t) ==
  /\ ReaderTo(t, "break", "closing")
  /\ notified' = [notified EXCEPT ![t] = TRUE]
  /\ UNCHANGED <<stop_requested, phase, pipe, queue, writer, raw, fd, device>>

ReaderCloses(t) ==
  /\ ReaderTo(t, "closing", "done")
  /\ fd' = Closed({<<t, "raw">>})
  /\ UNCHANGED <<stop_requested, phase, pipe, queue, writer, notified, raw, device>>

-----------------------------------------------------------------------------
(* The other tasks, the end of the loop and of its runtime.                *)

\* The stack takes a packet, or refuses it: c_api goes on, the JNI loop ends.
PipeTakes(t) ==
  /\ pipe[t] = "runs" /\ queue[t] > 0
  /\ queue' = [queue EXCEPT ![t] = @ - 1]
  /\ \/ UNCHANGED pipe
     \/ pipe' = [pipe EXCEPT ![t] = "done"]
  /\ UNCHANGED <<stop_requested, phase, reader, writer, notified, raw, fd, device>>

\* tun_tx is gone with the reader.
PipeEnds(t) ==
  /\ pipe[t] = "runs" /\ queue[t] = 0
  /\ reader[t] = "done"
  /\ pipe' = [pipe EXCEPT ![t] = "done"]
  /\ UNCHANGED <<stop_requested, phase, reader, queue, writer, notified, raw, fd, device>>

\* A packet from the stack finds the flag set or cannot be written.
WriterEnds(t) ==
  /\ writer[t] = "runs"
  /\ writer' = [writer EXCEPT ![t] = "done"]
  /\ fd' = Closed({<<t, "write">>, <<t, "stray">>})
  /\ UNCHANGED <<stop_requested, phase, reader, pipe, queue, notified, raw, device>>

\* Faulty variant: closes raw_fd, which is the reader's by now.
SelectEndsCloses(t) ==
  /\ phase[t] = "select"
  /\ notified[t] \/ (pipe[t] = "done" /\ writer[t] = "done")
  /\ phase' = [phase EXCEPT ![t] = "returned"]
  /\ fd' = Closed({<<t, "raw">>})
  /\ UNCHANGED <<stop_requested, tasks, raw, device>>

\* stop_w.notified(), or start_inbound returns: its listener ends with the
\* stack, whose halves pipe and writer hold.
SelectEnds(t) ==
  /\ phase[t] = "select"
  /\ notified[t] \/ (pipe[t] = "done" /\ writer[t] = "done")
  /\ phase' = [phase EXCEPT ![t] = "returned"]
  /\ UNCHANGED <<stop_requested, tasks, raw, fd, device>>

\* The runtime drops its tasks, and with them the Files. A task that was never
\* polled has only the number: the writer's may stay open for ever.
RuntimeDrops(t) ==
  /\ phase[t] = "returned"
  /\ phase' = [phase EXCEPT ![t] = "gone"]
  /\ \E dropped \in SUBSET {<<t, "write">>, <<t, "stray">>} :
       fd' = Closed(dropped \cup (IF reader[t] \in {"none", "spawned"} THEN {} ELSE {<<t, "raw">>}))
  /\ reader' = [reader EXCEPT ![t] = "done"]
  /\ pipe' = [pipe EXCEPT ![t] = "done"]
  /\ queue' = [queue EXCEPT ![t] = 0]
  /\ writer' = [writer EXCEPT ![t] = "done"]
  /\ notified' = [notified EXCEPT ![t] = TRUE]
  /\ raw' = [raw EXCEPT ![t] = 0]
  /\ UNCHANGED <<stop_requested, device>>

-----------------------------------------------------------------------------
ReaderStep(t) ==
  \/ ReaderStarts(t) \/ ReaderChecks(t) \/ ReaderReads(t) \/ ReadTimesOut(t)
  \/ ReaderSends(t) \/ ReaderNotifies(t) \/ ReaderCloses(t)

ThreadStep(t) ==
  \/ SetupFails(t) \/ Loaded(t) \/ Built(t) \/ DupWriter(t)
  \/ SelectEnds(t) \/ RuntimeDrops(t)

Next ==
  \/ PacketArrives \/ StartRefused \/ Stop
  \/ \E t \in Tunnels :
       \/ Start(t) \/ ThreadStep(t) \/ ReaderStep(t)
       \/ PipeTakes(t) \/ PipeEnds(t) \/ WriterEnds(t)

Spec == Init /\ [][Next]_vars

\* Threads and tasks that can run do; loading a URL ends. Nothing makes the
\* application call, or the device or the stack bring a packet.
FairSpec ==
  /\ Spec
  /\ \A t \in Tunnels :
       /\ WF_vars(ThreadStep(t)) /\ WF_vars(ReaderStep(t))
       /\ WF_vars(PipeTakes(t)) /\ WF_vars(PipeEnds(t))

-----------------------------------------------------------------------------
(* Properties.                                                             *)

\* The variables have their types; a tunnel's number is known once it started.
TypeOK ==
  /\ stop_requested \in BOOLEAN /\ device \in BOOLEAN
  /\ phase \in [Tunnels -> Phases]
  /\ reader \in [Tunnels -> {"none", "spawned", "check", "read", "send", "break",
                             "closing", "done"}]
  /\ pipe \in [Tunnels -> {"none", "runs", "done"}]
  /\ queue \in [Tunnels -> 0 .. TunCap]
  /\ writer \in [Tunnels -> {"none", "runs", "done"}]
  /\ notified \in [Tunnels -> BOOLEAN]
  /\ raw \in [Tunnels -> 0 .. Fds]
  /\ fd \in [Numbers -> {Nobodys} \cup (Tunnels \X {"raw", "write", "stray"})]

\* Until its File is closed the reader's number is its own: nothing closes it
\* twice, or closes what another file has become (raw_fd is passed from start
\* to the thread to the reader as a bare number).
ReaderOwnsItsFd ==
  \A t \in Tunnels :
    \/ phase[t] \in {"loading", "building"}
    \/ reader[t] \notin {"none", "done"}
    => fd[raw[t]] = <<t, "raw">>

\* A tunnel that has come to its end has given its copy of the descriptor
\* back, on whatever path it ended: the system takes the device down only when
\* the last copy is closed.
FdReturned ==
  \A t \in Tunnels, n \in Numbers : phase[t] = "gone" => fd[n] # <<t, "raw">>

\* Once stop was called and start not again, every tunnel ends, also those
\* that had not read the URL yet and those whose device never runs dry.
StopEndsAll == []<>~stop_requested \/ <>[](\A t \in Tunnels : ~Alive(t))
=============================================================================
