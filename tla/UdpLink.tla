------------------------------- MODULE UdpLink -------------------------------
(***************************************************************************)
(* The download direction of the Hidekey UDP transport:                    *)
(*   tcp_to_udp_relay  (server, src/src/outbound_udp.rs) reads the target, *)
(*     cuts what it read into chunks, encodes each one and sends it;       *)
(*   the network loses, delays, reorders and duplicates datagrams;         *)
(*   udp_to_tun        (client, src/src/inbound.rs) decodes a datagram,    *)
(*     filters its id with UdpSessionCounter and writes the TUN stream.    *)
(*                                                                         *)
(* Payload bytes are abstracted to lengths, a datagram to its serial (the  *)
(* history of how many were sent before it) and its packet id.             *)
(***************************************************************************)
EXTENDS ReplayWindow

CONSTANTS
  IdSpace,      \* 2^32 in the code: packet_id and tx_counter are u32
  ReadSizes,    \* how many bytes one read of the target may return (<= 8192)
  MaxPackets    \* bound: datagrams the relay sends

ASSUME IdSpaceIsPositive == IdSpace \in Nat \ {0}
ASSUME ReadSizesArePositive == ReadSizes \subseteq Nat \ {0}
ASSUME MaxPacketsIsNat == MaxPackets \in Nat

Ids == 0 .. IdSpace - 1
Serials == 1 .. MaxPackets

HEADER_SIZE == 4
TAG_SIZE == 16
ENCRYPT_OVERHEAD == 4 + 2 + TAG_SIZE
MAX_UDP_PAYLOAD == 1400
PAD_MAX == 512

\* What the relay takes for the largest payload of one datagram: room for
\* the header, the AEAD overhead and the smallest padding (16).
CHUNK == MAX_UDP_PAYLOAD - HEADER_SIZE - ENCRYPT_OVERHEAD - 16

\* The size test of encode_packet, which asks for the largest padding.
Encodable(len) == 6 + len + TAG_SIZE + HEADER_SIZE + PAD_MAX <= MAX_UDP_PAYLOAD

VARIABLES
  opens,      \* ids whose datagrams decode_packet can open (see Init)
  relay,      \* "open" until tcp_to_udp_relay sees EOF or an error
  rest,       \* bytes of read_buf the relay has still to cut into chunks
  tx_counter, \* the relay's next packet id
  sent,       \* history: how many datagrams the relay sent
  net,        \* every datagram ever sent; delivery never removes one
  client,     \* "open" until udp_to_tun stops
  rx,         \* udp_to_tun's UdpSessionCounter, receive half
  accepted,   \* history: ids accept_rx let through
  passed,     \* history: how many datagrams accept_rx let through
  writes      \* history: writes[s] times datagram s went to the TUN stream

vars == <<opens, relay, rest, tx_counter, sent, net,
          client, rx, accepted, passed, writes>>

senderVars == <<relay, rest, tx_counter, sent, net>>
receiverVars == <<client, rx, accepted, passed, writes>>

Datagram == [serial : Serials, id : Ids]

TypeOK ==
  /\ opens \in SUBSET Ids
  /\ relay \in {"open", "closed"}
  /\ rest \in Nat
  /\ tx_counter \in Ids
  /\ sent \in 0 .. MaxPackets
  /\ net \in SUBSET Datagram
  /\ client \in {"open", "closed"}
  /\ rx \in [highest : Ids, bits : SUBSET (0 .. WINDOW - 1)]
  /\ accepted \in SUBSET Ids
  /\ passed \in Nat
  /\ writes \in [Serials -> Nat]

\* decode_packet builds its nonce from the first four ciphertext bytes and
\* the key.  They give back the packet id only when the key stream under
\* that id's nonce begins with the key's own first four bytes: for a given
\* key this is so for an arbitrary set of ids, and all others fail the tag.
Init ==
  /\ opens \in SUBSET Ids
  /\ relay = "open"
  /\ rest = 0
  /\ tx_counter = 0
  /\ sent = 0
  /\ net = {}
  /\ client = "open"
  /\ rx = NewWindow
  /\ accepted = {}
  /\ passed = 0
  /\ writes = [s \in Serials |-> 0]

-----------------------------------------------------------------------------
\* Server: tcp_read.read returned n > 0 bytes.
RelayRead(n) ==
  /\ relay = "open"
  /\ rest = 0
  /\ rest' = n
  /\ UNCHANGED <<relay, tx_counter, sent, net, opens, receiverVars>>

\* The chunk the relay's inner loop is at.
ChunkLen == IF rest < CHUNK THEN rest ELSE CHUNK

\* encode_packet returned Ok: the datagram leaves and the id advances on u32.
RelaySend ==
  /\ rest > 0
  /\ Encodable(ChunkLen)
  /\ sent < MaxPackets
  /\ sent' = sent + 1
  /\ net' = net \cup {[serial |-> sent + 1, id |-> tx_counter]}
  /\ tx_counter' = (tx_counter + 1) % IdSpace
  /\ rest' = rest - ChunkLen
  /\ UNCHANGED <<relay, opens, receiverVars>>

\* encode_packet returned Err: the error is logged, the chunk is skipped and
\* the id is not used up.
RelaySkip ==
  /\ rest > 0
  /\ ~Encodable(ChunkLen)
  /\ rest' = rest - ChunkLen
  /\ UNCHANGED <<relay, tx_counter, sent, net, opens, receiverVars>>

\* EOF or a read error ends the relay.
RelayClose ==
  /\ relay = "open"
  /\ rest = 0
  /\ relay' = "closed"
  /\ UNCHANGED <<rest, tx_counter, sent, net, opens, receiverVars>>

-----------------------------------------------------------------------------
\* Client: a datagram arrives that opens.  accept_rx decides; the payload of
\* an accepted one is written, and a failed write ends the loop.
Receive(d) ==
  /\ client = "open"
  /\ d.id \in opens
  /\ rx' = Slide(rx, d.id)
  /\ \/ /\ ~Accepts(rx, d.id)
        /\ UNCHANGED <<client, accepted, passed, writes>>
     \/ /\ Accepts(rx, d.id)
        /\ accepted' = accepted \cup {d.id}
        /\ passed' = passed + 1
        /\ \/ /\ writes' = [writes EXCEPT ![d.serial] = @ + 1]
              /\ UNCHANGED client
           \/ /\ client' = "closed"
              /\ UNCHANGED writes
  /\ UNCHANGED <<opens, senderVars>>

\* A socket error ends udp_to_tun.  (A datagram that does not open is only
\* logged: a stuttering step.)
ClientClose ==
  /\ client = "open"
  /\ client' = "closed"
  /\ UNCHANGED <<rx, accepted, passed, writes, opens, senderVars>>

Next ==
  \/ \E n \in ReadSizes : RelayRead(n)
  \/ RelaySend
  \/ RelaySkip
  \/ RelayClose
  \/ \E d \in net : Receive(d)
  \/ ClientClose

Spec == Init /\ [][Next]_vars

-----------------------------------------------------------------------------
\* A datagram the network duplicates is written to the TUN stream at most
\* once, also after the ids have wrapped: udp_to_tun drops what accept_rx
\* refuses before it reaches write_all.
AtMostOnce == \A s \in Serials : writes[s] <= 1

Filter == INSTANCE AntiReplay WITH Id <- Ids, seen <- accepted

\* The 64-bit mask is as good as a memory of every accepted id: accept_rx
\* refuses exactly the ids it accepted before and those that trail the
\* newest accepted id by WINDOW or more.
AcceptsExactly == \A id \in Ids : Accepts(rx, id) <=> Filter!MayAccept(id)

\* The client's filter implements the replay filter with unbounded memory.
FilterSpec == Filter!Spec
=============================================================================
