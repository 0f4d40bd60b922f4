---------------------------- MODULE ReplayWindow ----------------------------
(***************************************************************************)
(* The receive half of UdpSessionCounter (src/src/hidekey/udp_obfs.rs): a  *)
(* sliding bitmask that decides whether a packet id is fresh.              *)
(*                                                                         *)
(* rx_window: u64 is the set of the positions of its one bits: b \in bits  *)
(* means that packet (highest - b) was received.  Only operators live      *)
(* here; UdpLink.tla runs them.                                            *)
(***************************************************************************)
EXTENDS Naturals

CONSTANT WINDOW     \* 64 in the code, the width of rx_window

ASSUME WindowIsPositive == WINDOW \in Nat \ {0}

\* UdpSessionCounter::new, receive half.
NewWindow == [highest |-> 0, bits |-> {}]

\* rx_window << n on a word of WINDOW bits: what leaves the word is lost.
ShiftLeft(bits, n) == {b \in 0 .. WINDOW - 1 : b >= n /\ b - n \in bits}

\* Faulty variant of Accepts: one id too many behind the highest.
AcceptsOneMore(w, id) ==
  \/ id > w.highest
  \/ /\ w.highest - id <= WINDOW
     /\ w.highest - id \notin w.bits

\* The verdict of accept_rx: a new highest id, or one whose bit is in the
\* window and still clear.
Accepts(w, id) ==
  \/ id > w.highest
  \/ /\ w.highest - id < WINDOW
     /\ w.highest - id \notin w.bits

\* Faulty variants of Slide: a new highest id forgets all older ones; an
\* accepted older id is not marked.
SlideForgets(w, id) ==
  CASE id > w.highest -> [highest |-> id, bits |-> {0}]
    [] id <= w.highest /\ Accepts(w, id) ->
         [w EXCEPT !.bits = @ \cup {w.highest - id}]
    [] OTHER -> w

SlideUnmarked(w, id) ==
  CASE id > w.highest ->
         [highest |-> id,
          bits    |-> {0} \cup (IF id - w.highest >= WINDOW
                                  THEN {}
                                  ELSE ShiftLeft(w.bits, id - w.highest))]
    [] OTHER -> w

\* The counter accept_rx leaves behind: an id above the highest shifts the
\* window (or empties it), an accepted older one sets its bit, and a refused
\* one changes nothing.
Slide(w, id) ==
  CASE id > w.highest ->
         [highest |-> id,
          bits    |-> {0} \cup (IF id - w.highest >= WINDOW
                                  THEN {}
                                  ELSE ShiftLeft(w.bits, id - w.highest))]
    [] id <= w.highest /\ Accepts(w, id) ->
         [w EXCEPT !.bits = @ \cup {w.highest - id}]
    [] OTHER -> w
=============================================================================
