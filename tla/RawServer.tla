------------------------------ MODULE RawServer -------------------------------
(***************************************************************************)
(* The Hidekey server without a certificate (outbound.rs): its two         *)
(* listeners, the handler of each connection from the junk to the target,  *)
(* the two relay tasks it spawns and joins, and active_connections, which  *)
(* every return path of the handler decrements by hand and in two steps    *)
(* (stats.rs).                                                             *)
(*                                                                         *)
(* The client and the target are external: each sends, half-closes and     *)
(* leaves as it likes. A frame of the client is "good" when it has the     *)
(* length, the MAC and the content that the handler expects next.          *)
(***************************************************************************)
EXTENDS Integers, Sequences, FiniteSets

CONSTANTS
  Conns,    \* connections
  Frames,   \* bound: Frames[c], frames client c sends, handshake included
  Chunks,   \* bound: chunks a target sends
  Buffer,   \* frames or chunks on their way between two sockets
  Wrap      \* values of active_connections, 2^64

ASSUME RawServerAssumption ==
  /\ Frames \in [Conns -> Nat] /\ Chunks \in Nat /\ Buffer \in Nat \ {0}
  /\ IsFiniteSet(Conns) /\ Wrap \in Nat /\ Cardinality(Conns) < Wrap

VARIABLES
  alt,     \* does the secondary listener still accept?
  at,      \* at[c]: where the connection's handler is
  client,  \* client[c]: "open", "half" (has closed its writing half) or "gone"
  input,   \* input[c]: frames of the client that the server has not read
  sent,    \* sent[c]: frames the client has sent
  up,      \* up[c]: the task client -> target
  target,  \* target[c]: as client[c], "none" before it is connected
  made,    \* made[c]: chunks the target has sent
  down,    \* down[c]: the task target -> client
  output,  \* output[c]: chunks the client has not read
  got,     \* got[c]: chunks the client has read
  active   \* active_connections

upload == <<input, sent, up>>
download == <<made, down, output, got>>
ends == <<client, target>>
vars == <<alt, at, ends, upload, download, active>>

Init ==
  /\ alt = TRUE
  /\ at = [c \in Conns |-> "off"]
  /\ client = [c \in Conns |-> "open"]
  /\ input = [c \in Conns |-> <<>>]
  /\ sent = [c \in Conns |-> 0]
  /\ up = [c \in Conns |-> "none"]
  /\ target = [c \in Conns |-> "none"]
  /\ made = [c \in Conns |-> 0]
  /\ down = [c \in Conns |-> "none"]
  /\ output = [c \in Conns |-> 0]
  /\ got = [c \in Conns |-> 0]
  /\ active = 0

Handshake == {"junk", "challenge", "target"}
Counted(c) == at[c] \in Handshake \cup {"connect", "relay", "uncount", "subtract"}

-----------------------------------------------------------------------------
(* The outside world.                                                      *)

ClientSends(c) ==
  /\ client[c] = "open" /\ at[c] # "off"
  /\ sent[c] < Frames[c] /\ Len(input[c]) < Buffer
  /\ \E frame \in {"good", "bad"} : input' = [input EXCEPT ![c] = Append(@, frame)]
  /\ sent' = [sent EXCEPT ![c] = @ + 1]
  /\ UNCHANGED <<alt, at, ends, up, download, active>>

ClientCloses(c) ==
  /\ at[c] # "off"
  /\ \/ client[c] = "open" /\ client' = [client EXCEPT ![c] = "half"]
     \/ client[c] # "gone" /\ client' = [client EXCEPT ![c] = "gone"]
  /\ UNCHANGED <<alt, at, target, upload, download, active>>

ClientReads(c) ==
  /\ client[c] # "gone" /\ output[c] > 0
  /\ output' = [output EXCEPT ![c] = @ - 1]
  /\ got' = [got EXCEPT ![c] = @ + 1]
  /\ UNCHANGED <<alt, at, ends, upload, made, down, active>>

TargetSends(c) ==
  /\ target[c] = "open" /\ made[c] < Chunks
  /\ made' = [made EXCEPT ![c] = @ + 1]
  /\ UNCHANGED <<alt, at, ends, upload, down, output, got, active>>

TargetCloses(c) ==
  /\ \/ target[c] = "open" /\ target' = [target EXCEPT ![c] = "half"]
     \/ target[c] \in {"open", "half"} /\ target' = [target EXCEPT ![c] = "gone"]
  /\ UNCHANGED <<alt, at, client, upload, download, active>>

-----------------------------------------------------------------------------
(* Listeners.                                                              *)

\* The main listener logs an error and goes on; the secondary one ends.
AltAcceptFails ==
  /\ alt /\ alt' = FALSE
  /\ UNCHANGED <<at, ends, upload, download, active>>

Connects(c) ==
  /\ at[c] = "off"
  /\ \E port \in {"main", "alt"} :
       at' = [at EXCEPT ![c] = IF port = "main" \/ alt THEN "accepted" ELSE "deaf"]
  /\ UNCHANGED <<alt, ends, upload, download, active>>

\* dispatch_connection without an acceptor; the handler counts itself first.
Dispatch(c) ==
  /\ at[c] = "accepted"
  /\ at' = [at EXCEPT ![c] = "junk"]
  /\ active' = (active + 1) % Wrap
  /\ UNCHANGED <<alt, ends, upload, download>>

-----------------------------------------------------------------------------
(* handle_hidekey_connection up to the relay.                              *)

Goes(c, place) == at' = [at EXCEPT ![c] = place]

\* The next read_exact has its frame, or finds the stream at its end. A client
\* that is gone may have reset the connection, and what it sent is lost.
Takes(c, frame) == input[c] # <<>> /\ Head(input[c]) = frame /\ input' = [input EXCEPT ![c] = Tail(@)]
AtEnd(c) ==
  /\ client[c] = "gone" \/ (client[c] = "half" /\ input[c] = <<>>)
  /\ UNCHANGED input

\* Junk of 16 to 128 bytes; a challenge that one of the active peers' keys
\* verifies, and the response; the target, sealed.
HandshakeStep(c) ==
  /\ \/ at[c] = "junk" /\ Takes(c, "good") /\ Goes(c, "challenge")
     \/ at[c] = "challenge" /\ Takes(c, "good") /\ Goes(c, "target")
     \/ at[c] = "target" /\ Takes(c, "good") /\ Goes(c, "connect")
  /\ UNCHANGED <<alt, ends, sent, up, download, active>>

\* Faulty variant: one return path forgets to count down.
HandshakeEndsCounted(c) ==
  /\ at[c] \in Handshake
  /\ Takes(c, "bad") \/ AtEnd(c)
  /\ Goes(c, IF at[c] = "target" THEN "gone" ELSE "uncount")
  /\ UNCHANGED <<alt, ends, sent, up, download, active>>

\* A wrong length, no peer, a MAC mismatch, an unknown command or address; end
\* of file; or the response cannot be written.
HandshakeEnds(c) ==
  /\ at[c] \in Handshake
  /\ Takes(c, "bad") \/ AtEnd(c)
  /\ Goes(c, "uncount")
  /\ UNCHANGED <<alt, ends, sent, up, download, active>>

TargetConnects(c) ==
  /\ at[c] = "connect"
  /\ Goes(c, "relay")
  /\ target' = [target EXCEPT ![c] = "open"]
  /\ up' = [up EXCEPT ![c] = "run"]
  /\ down' = [down EXCEPT ![c] = "read"]
  /\ UNCHANGED <<alt, client, input, sent, made, output, got, active>>

TargetRefuses(c) ==
  /\ at[c] = "connect"
  /\ Goes(c, "uncount")
  /\ UNCHANGED <<alt, ends, upload, download, active>>

-----------------------------------------------------------------------------
(* The relay.                                                              *)

\* A frame that opens is written to the target. Sooner or later a write to a
\* target that has gone fails.
UploadFrame(c) ==
  /\ up[c] = "run" /\ Takes(c, "good")
  /\ \/ UNCHANGED up
     \/ target[c] = "gone" /\ up' = [up EXCEPT ![c] = "done"]
  /\ UNCHANGED <<alt, at, ends, sent, download, active>>

\* Faulty variant: end of file is one more frame without content.
UploadSpins(c) ==
  /\ up[c] = "run"
  /\ Takes(c, "bad")
  /\ up' = [up EXCEPT ![c] = "done"]
  /\ UNCHANGED <<alt, at, ends, sent, download, active>>

\* End of file, an empty frame, or one that does not open. target_writer is
\* dropped: the target sees the end of the upload.
UploadEnds(c) ==
  /\ up[c] = "run"
  /\ Takes(c, "bad") \/ AtEnd(c)
  /\ up' = [up EXCEPT ![c] = "done"]
  /\ UNCHANGED <<alt, at, ends, sent, download, active>>

Passed(c) == got[c] + output[c]

DownloadRead(c) ==
  /\ down[c] = "read"
  /\ \/ Passed(c) < made[c] /\ down' = [down EXCEPT ![c] = "write"]
     \/ /\ target[c] = "gone" \/ (target[c] = "half" /\ Passed(c) = made[c])
        /\ down' = [down EXCEPT ![c] = "done"]
  /\ UNCHANGED <<alt, at, ends, upload, made, output, got, active>>

\* Faulty variant: chunks are queued, however slow the client is.
DownloadQueues(c) ==
  /\ down[c] = "write"
  /\ output' = [output EXCEPT ![c] = @ + 1]
  /\ down' = [down EXCEPT ![c] = "read"]
  /\ UNCHANGED <<alt, at, ends, upload, made, got, active>>

\* The write waits for room. What the network still takes for a client that
\* has gone is lost; sooner or later the write fails.
DownloadWrite(c) ==
  /\ down[c] = "write"
  /\ \/ /\ output[c] < Buffer
        /\ output' = [output EXCEPT ![c] = @ + 1]
        /\ down' = [down EXCEPT ![c] = "read"]
     \/ /\ client[c] = "gone"
        /\ down' = [down EXCEPT ![c] = "done"] /\ UNCHANGED output
  /\ UNCHANGED <<alt, at, ends, upload, made, got, active>>

\* Faulty variant: the first task to end takes the other with it.
SelectTasks(c) ==
  /\ at[c] = "relay" /\ (up[c] = "done" \/ down[c] = "done")
  /\ Goes(c, "uncount")
  /\ up' = [up EXCEPT ![c] = "done"] /\ down' = [down EXCEPT ![c] = "done"]
  /\ UNCHANGED <<alt, ends, input, sent, made, output, got, active>>

JoinTasks(c) ==
  /\ at[c] = "relay" /\ up[c] = "done" /\ down[c] = "done"
  /\ Goes(c, "uncount")
  /\ UNCHANGED <<alt, ends, upload, download, active>>

-----------------------------------------------------------------------------
(* dec_active_connections: a load and a subtraction.                       *)

LoadActive(c) ==
  /\ at[c] = "uncount"
  /\ Goes(c, IF active > 0 THEN "subtract" ELSE "gone")
  /\ UNCHANGED <<alt, ends, upload, download, active>>

SubtractActive(c) ==
  /\ at[c] = "subtract"
  /\ active' = (active - 1) % Wrap
  /\ Goes(c, "gone")
  /\ UNCHANGED <<alt, ends, upload, download>>

-----------------------------------------------------------------------------
HandlerStep(c) ==
  \/ Dispatch(c) \/ HandshakeStep(c) \/ HandshakeEnds(c)
  \/ TargetConnects(c) \/ TargetRefuses(c)
  \/ JoinTasks(c) \/ LoadActive(c) \/ SubtractActive(c)

UploadStep(c) == UploadFrame(c) \/ UploadEnds(c)
DownloadStep(c) == DownloadRead(c) \/ DownloadWrite(c)

Next ==
  \/ AltAcceptFails
  \/ \E c \in Conns :
       \/ ClientSends(c) \/ ClientCloses(c) \/ ClientReads(c)
       \/ TargetSends(c) \/ TargetCloses(c) \/ Connects(c)
       \/ HandlerStep(c) \/ UploadStep(c) \/ DownloadStep(c)

Spec == Init /\ [][Next]_vars

\* Tasks run and a connect to a target ends; a client and a target that have
\* not gone read what they are sent. No client and no target has to send or to close.
FairSpec ==
  /\ Spec
  /\ \A c \in Conns :
       /\ WF_vars(HandlerStep(c)) /\ WF_vars(UploadStep(c)) /\ WF_vars(DownloadStep(c))
       /\ WF_vars(ClientReads(c))

-----------------------------------------------------------------------------
(* Properties.                                                             *)

Ends == {"open", "half", "gone"}

\* The variables have their types: what is under way fits its buffer, and
\* nothing is passed on that was not sent.
TypeOK ==
  /\ alt \in BOOLEAN
  /\ at \in [Conns -> Handshake \cup {"off", "deaf", "accepted", "connect", "relay",
                                      "uncount", "subtract", "gone"}]
  /\ client \in [Conns -> Ends]
  /\ target \in [Conns -> Ends \cup {"none"}]
  /\ input \in [Conns -> Seq({"good", "bad"})]
  /\ sent \in [Conns -> Nat]
  /\ made \in [Conns -> 0 .. Chunks]
  /\ output \in [Conns -> 0 .. Buffer]
  /\ got \in [Conns -> Nat]
  /\ \A c \in Conns :
       /\ Len(input[c]) <= Buffer /\ sent[c] <= Frames[c]
       /\ Passed(c) <= made[c]
  /\ up \in [Conns -> {"none", "run", "done"}]
  /\ down \in [Conns -> {"none", "read", "write", "done"}]
  /\ active \in 0 .. Wrap - 1

\* active_connections is the number of connections being served: each of the
\* handler's returns counts down once, and however the two steps of several
\* decrements interleave, the counter does not wrap and none is left out.
ActiveExact == active = Cardinality({c \in Conns : Counted(c)})

\* Each direction runs to its own end, whatever becomes of the other: while
\* both sides are there, the download task ends only behind the target's last
\* chunk, and a client that has closed its half still gets the whole answer.
AnswerWhole ==
  \A c \in Conns :
    down[c] = "done" /\ client[c] # "gone" /\ target[c] # "gone" =>
      target[c] = "half" /\ Passed(c) = made[c]

\* A client that leaves during the handshake, and a relay both sides of which
\* have closed at least a half, end and are counted no longer.
LeftIsUncounted ==
  \A c \in Conns :
    /\ at[c] \in Handshake /\ client[c] # "open" ~> at[c] \notin Handshake
    /\ client[c] # "open" /\ target[c] \in {"half", "gone"} ~> ~Counted(c)
=============================================================================
