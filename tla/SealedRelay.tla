----------------------------- MODULE SealedRelay -----------------------------
(***************************************************************************)
(* One session of the sealed relay over HTTP/2 DATA frames: the client's   *)
(* handle_hidekey_connection (inbound.rs) against the server's             *)
(* handle_hidekey_h2 (outbound.rs), from the HTTP/2 preface to the end of  *)
(* both select! loops, over h2_obfs, HideCipher, stego and framing.        *)
(*                                                                         *)
(* A frame is two units on the wire, its HTTP/2 header and its payload:    *)
(* recv_data is two read_exact, and select! drops it between them when the *)
(* other branch is ready first. What it had read is lost, and the next     *)
(* call takes a payload for a header. A payload is what HideCipher sealed: *)
(* chunks, and the nonce's counter and RTP sequence number. Keys are those *)
(* of the two directions, which both ends derive from one shared secret.   *)
(***************************************************************************)
EXTENDS Integers, Sequences

CONSTANTS
  Chunks,      \* bound: chunks each end has to send
  InboxCap,    \* capacity of upload_tx, and of the target's socket
  BatchMax,    \* chunks the client seals into one frame at most
  FrameLimit,  \* full chunks whose packet length still fits a u16
  WireCap,     \* units under way in one direction at most
  RtpMod       \* values of the RTP sequence number

ASSUME RelayAssumption ==
  /\ Chunks \in Nat /\ InboxCap \in Nat \ {0} /\ BatchMax \in Nat \ {0}
  /\ FrameLimit \in Nat \ {0} /\ WireCap \in Nat \ {0} /\ RtpMod \in Nat \ {0}

Sides == {"client", "server"}
Other(side) == IF side = "client" THEN "server" ELSE "client"

VARIABLES
  phase,     \* phase[side]: step of the handshake, "relay" or "ended"
  wire,      \* wire[side]: units that side has sent and the other not read
  task,      \* task[side]: "select", or the branch body under way
  reading,   \* reading[side]: what recv_data expects next
  held,      \* held[side]: units to send, or the opened body
  tx,        \* tx[side]: [counter, seq] of the cipher that seals
  rx,        \* rx[side]: counter of the cipher that opens
  inbox,     \* inbox[side]: chunks the local end has handed over
  made,      \* made[side]: chunks the local end has produced
  closed,    \* closed[side]: has the local end closed?
  delivered, \* delivered[side]: chunks written to the local end
  sealed,    \* history: sealed[side], the nonces used under its key
  active     \* active_connections, as far as this session counts

local == <<inbox, made, closed>>
ciphers == <<tx, rx, sealed>>
vars == <<phase, wire, task, reading, held, ciphers, local, delivered, active>>

Init ==
  /\ phase = [side \in Sides |-> "start"]
  /\ wire = [side \in Sides |-> <<>>]
  /\ task = [side \in Sides |-> "select"]
  /\ reading = [side \in Sides |-> "head"]
  /\ held = [side \in Sides |-> <<>>]
  /\ tx \in [Sides -> [counter : {0}, seq : 0 .. RtpMod - 1]]
  /\ rx = [side \in Sides |-> 0]
  /\ inbox = [side \in Sides |-> <<>>]
  /\ made = [side \in Sides |-> 0]
  /\ closed = [side \in Sides |-> FALSE]
  /\ delivered = [side \in Sides |-> <<>>]
  /\ sealed = [side \in Sides |-> <<>>]
  /\ active = 0

-----------------------------------------------------------------------------
(* Frames and ciphers.                                                     *)

HEAD == [part |-> "head"]
Frame(body) == <<HEAD, body>>
Plain(kind) == [part |-> "body", kind |-> kind]

\* What looks like an HTTP/2 session to the network. The acknowledgement of
\* the settings is a SETTINGS frame too.
ClientPreface ==
  <<Plain("preface")>> \o Frame(Plain("settings")) \o Frame(Plain("headers"))
ServerPreface ==
  Frame(Plain("settings")) \o Frame(Plain("settings")) \o Frame(Plain("headers"))

\* The length prefix holds the packet's length modulo 2^16. Chunks may be
\* short, so more of them than FrameLimit may fit a packet.
LengthFits(n) == IF n > FrameLimit THEN BOOLEAN ELSE {TRUE}

\* seal: the nonce is direction, counter, sequence number and key.
Sealed(side, kind, chunks, fits) ==
  [part |-> "body", kind |-> kind, counter |-> tx[side].counter,
   seq |-> tx[side].seq, chunks |-> chunks, fits |-> fits]
Nonce(side) == <<tx[side].counter, tx[side].seq>>

NextSeq(seq) == (seq + 1) % RtpMod

\* Faulty variant: the counter is not advanced.
AdvanceSeqOnly(side) ==
  /\ tx' = [tx EXCEPT ![side].seq = NextSeq(@)]
  /\ sealed' = [sealed EXCEPT ![side] = Append(@, Nonce(side))]

Advance(side) ==
  /\ tx' = [tx EXCEPT ![side] = [counter |-> @.counter + 1, seq |-> NextSeq(@.seq)]]
  /\ sealed' = [sealed EXCEPT ![side] = Append(@, Nonce(side))]

IsSealed(unit) == unit.part = "body" /\ unit.kind \in {"target", "data"}

\* A whole packet with its RTP header: neither a part of the handshake nor what
\* a wrong length cut off.
Unpacks(body) == IsSealed(body) /\ body.fits

\* Faulty variant: the nonce to open with is made of what came with the
\* packet alone.
OpensAny(side, body) == Unpacks(body)

\* open takes the sequence number from the packet and the counter from its own
\* state.
Opens(side, body) == Unpacks(body) /\ body.counter = rx[side]

-----------------------------------------------------------------------------
(* Ends. Returning drops the stream: the other end reads what is under way *)
(* and then the end of the stream, and its writes fail.                    *)

Running(side) == phase[side] \notin {"start", "ended"}

\* Phases of a server's connection outside of handle_hidekey_h2.
Uncounted == {"start", "preface", "settings", "headers", "ended"}

Ends(side) ==
  /\ phase' = [phase EXCEPT ![side] = "ended"]
  /\ active' = IF side = "server" /\ phase[side] \notin Uncounted THEN active - 1 ELSE active

Stays == UNCHANGED active

Incoming(side) == wire[Other(side)]
Eof(side) == Incoming(side) = <<>> /\ phase[Other(side)] = "ended"

-----------------------------------------------------------------------------
(* Handshake. Nothing is cancelled here, so a frame is read in one step.   *)

\* TCP and TLS; the client writes its preface at once.
Connect ==
  /\ phase["client"] = "start"
  /\ phase' = [client |-> "settings", server |-> "preface"]
  /\ wire' = [wire EXCEPT !["client"] = ClientPreface]
  /\ Stays /\ UNCHANGED <<task, reading, held, ciphers, local, delivered>>

ConnectFails ==
  /\ phase["client"] = "start"
  /\ phase' = [phase EXCEPT !["client"] = "ended"]
  /\ UNCHANGED <<wire, task, reading, held, ciphers, local, delivered, active>>

\* read_h2_frame and its kin: a whole frame, in the phase that waits for it.
Reads(side, at, kind) ==
  /\ phase[side] = at
  /\ Len(Incoming(side)) > 1 /\ Incoming(side)[2].kind = kind

Consumed(side) == SubSeq(Incoming(side), 3, Len(Incoming(side)))

PrefaceRead ==
  /\ phase["server"] = "preface" /\ Incoming("server") # <<>>
  /\ phase' = [phase EXCEPT !["server"] = "settings"]
  /\ wire' = [wire EXCEPT !["client"] = Tail(@)]
  /\ Stays /\ UNCHANGED <<task, reading, held, ciphers, local, delivered>>

\* read_frame_type for SETTINGS.
SettingsRead(side) ==
  /\ Reads(side, "settings", "settings")
  /\ phase' = [phase EXCEPT ![side] = "headers"]
  /\ wire' = [wire EXCEPT ![Other(side)] = Consumed(side)]
  /\ Stays /\ UNCHANGED <<task, reading, held, ciphers, local, delivered>>

\* The server has the client's HEADERS: it answers, counts the connection and
\* waits for the junk.
ServerHandshake ==
  /\ Reads("server", "headers", "headers")
  /\ phase' = [phase EXCEPT !["server"] = "junk"]
  /\ wire' = [client |-> Consumed("server"), server |-> wire["server"] \o ServerPreface]
  /\ active' = active + 1
  /\ UNCHANGED <<task, reading, held, ciphers, local, delivered>>

\* Faulty variant: any frame ends the client's handshake.
HeadersReadAny ==
  /\ phase["client"] = "headers" /\ Incoming("client") # <<>>
  /\ phase' = [phase EXCEPT !["client"] = "junk"]
  /\ wire' = [server |-> Consumed("client"),
              client |-> wire["client"] \o Frame(Plain("junk")) \o Frame(Plain("challenge"))]
  /\ Stays /\ UNCHANGED <<task, reading, held, ciphers, local, delivered>>

\* read_any_frame_until_headers discards the acknowledgement; after HEADERS the
\* client sends junk and challenge.
HeadersRead ==
  /\ \/ /\ Reads("client", "headers", "settings")
        /\ wire' = [wire EXCEPT !["server"] = Consumed("client")]
        /\ UNCHANGED phase
     \/ /\ Reads("client", "headers", "headers")
        /\ phase' = [phase EXCEPT !["client"] = "junk"]
        /\ wire' = [server |-> Consumed("client"),
                    client |-> wire["client"] \o Frame(Plain("junk")) \o Frame(Plain("challenge"))]
  /\ Stays /\ UNCHANGED <<task, reading, held, ciphers, local, delivered>>

JunkRead(side) ==
  /\ Reads(side, "junk", "junk")
  /\ phase' = [phase EXCEPT ![side] = IF side = "server" THEN "challenge" ELSE "response"]
  /\ wire' = [wire EXCEPT ![Other(side)] = Consumed(side)]
  /\ Stays /\ UNCHANGED <<task, reading, held, ciphers, local, delivered>>

\* The MAC of the challenge is right for one of the active peers, or for none:
\* silent drop.
PeerMatched ==
  /\ Reads("server", "challenge", "challenge")
  /\ phase' = [phase EXCEPT !["server"] = "target"]
  /\ wire' = [client |-> Consumed("server"),
              server |-> wire["server"] \o Frame(Plain("junk")) \o Frame(Plain("response"))]
  /\ Stays /\ UNCHANGED <<task, reading, held, ciphers, local, delivered>>

NoPeerMatches ==
  /\ Reads("server", "challenge", "challenge")
  /\ Ends("server")
  /\ UNCHANGED <<wire, task, reading, held, ciphers, local, delivered>>

\* The server's MAC is right, as it knows the key; the client sends the target
\* as its first sealed frame.  Its returns on a response of another length or
\* with another MAC need a server that is not this one, and are not here.
ResponseRead ==
  /\ Reads("client", "response", "response")
  /\ phase' = [phase EXCEPT !["client"] = "relay"]
  /\ wire' = [server |-> Consumed("client"),
              client |-> wire["client"] \o Frame(Sealed("client", "target", <<>>, TRUE))]
  /\ Advance("client") /\ UNCHANGED rx
  /\ Stays /\ UNCHANGED <<task, reading, held, local, delivered>>

TargetRead ==
  /\ Reads("server", "target", "target")
  /\ Opens("server", Incoming("server")[2])
  /\ rx' = [rx EXCEPT !["server"] = @ + 1]
  /\ phase' = [phase EXCEPT !["server"] = "connect"]
  /\ wire' = [wire EXCEPT !["client"] = Consumed("server")]
  /\ Stays /\ UNCHANGED <<task, reading, held, tx, sealed, local, delivered>>

TargetConnects ==
  /\ phase["server"] = "connect"
  /\ phase' = [phase EXCEPT !["server"] = "relay"]
  /\ Stays /\ UNCHANGED <<wire, task, reading, held, ciphers, local, delivered>>

TargetRefuses ==
  /\ phase["server"] = "connect"
  /\ Ends("server")
  /\ UNCHANGED <<wire, task, reading, held, ciphers, local, delivered>>

\* The stream ends before the frame is there.
HandshakeEof(side) ==
  /\ phase[side] \in {"preface", "settings", "headers", "junk", "challenge", "response", "target"}
  /\ Eof(side)
  /\ Ends(side)
  /\ UNCHANGED <<wire, task, reading, held, ciphers, local, delivered>>

-----------------------------------------------------------------------------
(* The local ends: the TUN stream of the client, the target of the server. *)

Produce(side) ==
  /\ phase[side] = "relay" /\ ~closed[side]
  /\ made[side] < Chunks /\ Len(inbox[side]) < InboxCap
  /\ made' = [made EXCEPT ![side] = @ + 1]
  /\ inbox' = [inbox EXCEPT ![side] = Append(@, made[side] + 1)]
  /\ UNCHANGED <<phase, wire, task, reading, held, ciphers, closed, delivered, active>>

Close(side) ==
  /\ phase[side] = "relay" /\ ~closed[side]
  /\ closed' = [closed EXCEPT ![side] = TRUE]
  /\ UNCHANGED <<phase, wire, task, reading, held, ciphers, inbox, made, delivered, active>>

-----------------------------------------------------------------------------
(* The select! loops.                                                      *)

Selects(side) == phase[side] = "relay" /\ task[side] = "select"

Batch(side) == IF side = "client" THEN BatchMax ELSE 1

\* The local branch is ready first and recv_data is dropped. The client takes
\* what waits in the channel, up to a batch.
TakeLocal(side) ==
  /\ Selects(side) /\ inbox[side] # <<>>
  /\ LET n == IF Len(inbox[side]) < Batch(side) THEN Len(inbox[side]) ELSE Batch(side)
     IN  /\ \E fits \in LengthFits(n) :
              held' = [held EXCEPT ![side] =
                            Frame(Sealed(side, "data", SubSeq(inbox[side], 1, n), fits))]
         /\ inbox' = [inbox EXCEPT ![side] = SubSeq(@, n + 1, Len(@))]
  /\ Advance(side)
  /\ task' = [task EXCEPT ![side] = "send"]
  /\ reading' = [reading EXCEPT ![side] = "head"]
  /\ UNCHANGED <<phase, wire, rx, made, closed, delivered, active>>

\* Upload channel closed, or the target's end of file.
LocalEnds(side) ==
  /\ Selects(side) /\ inbox[side] = <<>> /\ closed[side]
  /\ Ends(side)
  /\ UNCHANGED <<wire, task, reading, held, ciphers, local, delivered>>

\* What is left to send goes on; the last unit ends the branch.
Sends(side) ==
  /\ wire' = [wire EXCEPT ![side] = Append(@, Head(held[side]))]
  /\ held' = [held EXCEPT ![side] = Tail(@)]
  /\ task' = [task EXCEPT ![side] = IF Len(held[side]) = 1 THEN "select" ELSE @]
  /\ Stays /\ UNCHANGED phase

SendFails(side) ==
  /\ phase[Other(side)] = "ended"
  /\ Ends(side)
  /\ UNCHANGED <<wire, held, task>>

\* Faulty variant: the frame is queued, however full the connection is.
SendQueues(side) ==
  /\ phase[side] = "relay" /\ task[side] = "send"
  /\ Sends(side) \/ SendFails(side)
  /\ UNCHANGED <<reading, ciphers, local, delivered>>

\* write_all of a frame, as the connection takes it. Neither end reads
\* meanwhile. What the network still takes after the other end has gone is
\* lost; sooner or later the write fails.
Send(side) ==
  /\ phase[side] = "relay" /\ task[side] = "send"
  /\ \/ Len(wire[side]) < WireCap /\ Sends(side)
     \/ SendFails(side)
  /\ UNCHANGED <<reading, ciphers, local, delivered>>

\* recv_data, one read_exact further.
Recv(side) ==
  /\ Selects(side) /\ Incoming(side) # <<>>
  /\ wire' = [wire EXCEPT ![Other(side)] = Tail(@)]

RecvHead(side) ==
  /\ reading[side] = "head" /\ Recv(side) /\ Head(Incoming(side)) = HEAD
  /\ reading' = [reading EXCEPT ![side] = "body"]
  /\ Stays /\ UNCHANGED <<phase, task, held, ciphers, local, delivered>>

\* A frame: open it and go on to deliver it, or end.
RecvBody(side) ==
  /\ reading[side] = "body" /\ Recv(side)
  /\ LET body == Head(Incoming(side))
     IN  IF Opens(side, body)
         THEN /\ rx' = [rx EXCEPT ![side] = @ + 1]
              /\ held' = [held EXCEPT ![side] = <<body>>]
              /\ task' = [task EXCEPT ![side] = "deliver"]
              /\ reading' = [reading EXCEPT ![side] = "head"]
              /\ Stays /\ UNCHANGED phase
         ELSE Ends(side) /\ UNCHANGED <<rx, held, task, reading>>
  /\ UNCHANGED <<tx, sealed, local, delivered>>

\* Sealed bytes taken for a header, with any type and length: a short or long
\* run is skipped, or taken for DATA that does not open.
RecvGarbage(side) ==
  /\ Recv(side)
  /\ \/ reading[side] = "skip"
     \/ reading[side] = "head" /\ Head(Incoming(side)) # HEAD
  /\ \/ /\ \E next \in {"head", "skip"} : reading' = [reading EXCEPT ![side] = next]
        /\ Stays /\ UNCHANGED phase
     \/ Ends(side) /\ UNCHANGED reading
  /\ UNCHANGED <<task, held, ciphers, local, delivered>>

\* Faulty variant: the end of the stream is one more event of the loop.
RecvEofIgnored(side) ==
  /\ Selects(side) /\ Eof(side) /\ reading[side] = "head" /\ closed[side]
  /\ Ends(side)
  /\ UNCHANGED <<wire, task, reading, held, ciphers, local, delivered>>

RecvEof(side) ==
  /\ Selects(side) /\ Eof(side)
  /\ Ends(side)
  /\ UNCHANGED <<wire, task, reading, held, ciphers, local, delivered>>

Deliver(side) ==
  /\ phase[side] = "relay" /\ task[side] = "deliver"
  /\ \/ /\ delivered' = [delivered EXCEPT ![side] = @ \o held[side][1].chunks]
        /\ task' = [task EXCEPT ![side] = "select"]
        /\ held' = [held EXCEPT ![side] = <<>>]
        /\ Stays /\ UNCHANGED phase
     \/ Ends(side) /\ UNCHANGED <<task, held, delivered>>
  /\ UNCHANGED <<wire, reading, ciphers, local>>

-----------------------------------------------------------------------------
ServerStep ==
  \/ PrefaceRead \/ ServerHandshake \/ PeerMatched \/ NoPeerMatches \/ TargetRead \/ TargetConnects \/ TargetRefuses

SideStep(side) ==
  \/ SettingsRead(side) \/ JunkRead(side) \/ HandshakeEof(side)
  \/ TakeLocal(side) \/ LocalEnds(side) \/ Send(side)
  \/ RecvHead(side) \/ RecvBody(side) \/ RecvGarbage(side) \/ RecvEof(side)
  \/ Deliver(side)

Next ==
  \/ Connect \/ ConnectFails \/ ServerStep \/ HeadersRead \/ ResponseRead
  \/ \E side \in Sides : SideStep(side) \/ Produce(side) \/ Close(side)

Spec == Init /\ [][Next]_vars

\* Each end runs when it can; connecting to the target and writing to the
\* local ends succeed or fail. The local ends owe nothing.
FairSpec ==
  /\ Spec
  /\ WF_vars(ServerStep) /\ WF_vars(HeadersRead) /\ WF_vars(ResponseRead)
  /\ \A side \in Sides : WF_vars(SideStep(side))

-----------------------------------------------------------------------------
(* Properties.                                                             *)

Prefaces == {"preface", "settings", "headers"}
Bodies == [part : {"body"}, kind : Prefaces \cup {"junk", "challenge", "response"}]
  \cup [part : {"body"}, kind : {"target", "data"}, counter : Nat,
        seq : 0 .. RtpMod - 1, chunks : Seq(1 .. Chunks), fits : BOOLEAN]
Units == {HEAD} \cup Bodies

\* The variables have their types, no more units are under way than the
\* connection holds once the handshake is over, and the server counts the
\* session exactly while its handler runs.
TypeOK ==
  /\ phase \in [Sides -> Prefaces \cup {"start", "junk", "challenge", "response", "target",
                          "connect", "relay", "ended"}]
  /\ wire \in [Sides -> Seq(Units)]
  /\ \A side \in Sides :
       Len(wire[side]) <= WireCap \/ phase[Other(side)] # "relay"
  /\ task \in [Sides -> {"select", "send", "deliver"}]
  /\ reading \in [Sides -> {"head", "body", "skip"}]
  /\ held \in [Sides -> Seq(Units)]
  /\ tx \in [Sides -> [counter : Nat, seq : 0 .. RtpMod - 1]]
  /\ rx \in [Sides -> Nat]
  /\ inbox \in [Sides -> Seq(1 .. Chunks)]
  /\ made \in [Sides -> 0 .. Chunks]
  /\ closed \in [Sides -> BOOLEAN]
  /\ delivered \in [Sides -> Seq(1 .. Chunks)]
  /\ sealed \in [Sides -> Seq(Nat \X (0 .. RtpMod - 1))]
  /\ active = IF phase["server"] \in Uncounted THEN 0 ELSE 1

\* What an end writes is a beginning of what the other end read: whatever
\* select! cancels and however the framing is lost, no chunk is skipped,
\* repeated or reordered. The counter in the nonce is what ensures it.
DeliveredInOrder ==
  \A side \in Sides :
    /\ delivered[side] = [i \in 1 .. Len(delivered[side]) |-> i]
    /\ Len(delivered[side]) <= made[Other(side)]

\* No nonce is used twice under one key, also after the RTP sequence number
\* has wrapped (2^16), as long as the counter has not (2^32).
NonceOnce ==
  \A side \in Sides : \A i, j \in 1 .. Len(sealed[side]) :
    sealed[side][i] = sealed[side][j] => i = j

\* Once an end is through with the preface it has nothing of it left to read:
\* "MUST read and discard all frames until HEADERS to leave the stream clean".
PrefaceConsumed ==
  \A side \in Sides : phase[side] \notin Prefaces \cup {"start", "ended"} =>
    \A i \in 1 .. Len(Incoming(side)) :
      Incoming(side)[i] \notin {Plain(kind) : kind \in Prefaces}

\* When one end is gone the other ends too, from every step of the handshake
\* and also from the middle of a write.
OneEndsBoth ==
  \A side \in Sides : phase[side] = "ended" ~> ~Running(Other(side))
=============================================================================
