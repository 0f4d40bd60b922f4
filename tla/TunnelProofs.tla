----------------------------- MODULE TunnelProofs -----------------------------
(***************************************************************************)
(* Proofs about TunnelLifecycle, for any number of starts and descriptors. *)
(*                                                                         *)
(* raw_fd is a bare number that three owners pass on. That it names the    *)
(* tunnel's own file as long as one of them uses it (Owns) holds because a *)
(* new descriptor gets a number that is free, and because whoever closes   *)
(* the number is its last owner. That it is always closed needs to know    *)
(* that the loop cannot return while the reader has not been polled        *)
(* (Unpolled): only a reader that ran leaves a permit, or ends the pipe.   *)
(***************************************************************************)
EXTENDS TunnelLifecycle, FiniteSetTheorems, TLAPS

Owner(t) == phase[t] \in {"loading", "building"} \/ reader[t] \notin {"none", "done"}

Owns == \A t \in Tunnels : Owner(t) => raw[t] \in Numbers /\ fd[raw[t]] = <<t, "raw">>

\* What a reader that was never polled cannot have done.
Unpolled ==
  \A t \in Tunnels :
    /\ reader[t] \in {"none", "spawned"} => ~notified[t] /\ queue[t] = 0 /\ pipe[t] # "done"
    /\ phase[t] \in {"unused", "loading", "building"} => reader[t] = "none"
    /\ phase[t] = "returned" => reader[t] # "spawned"

Returned(t) == phase[t] = "gone" \/ (phase[t] = "returned" /\ reader[t] = "none")

NoneLeft == \A t \in Tunnels, n \in Numbers : Returned(t) => fd[n] # <<t, "raw">>

IInv == TypeOK /\ Owns /\ Unpolled /\ NoneLeft

-----------------------------------------------------------------------------
(* Descriptors.                                                            *)

\* A set of numbers that has a member has a least one: among the sets of what
\* is below a member, one has no other below it.
LEMMA MinIn ==
  ASSUME NEW S \in SUBSET Nat, S # {}
  PROVE  Min(S) \in S
<1> DEFINE below(n) == {k \in S : k < n}
           family == {below(n) : n \in S}
<1>1. \A n \in S : below(n) \in FiniteSubsetsOf(Nat)
  <2> TAKE n \in S
  <2>1. n \in Nat /\ below(n) \in SUBSET Nat /\ \A k \in below(n) : k < n
    OBVIOUS
  <2> HIDE DEF below
  <2>2. \A k \in below(n) : k <= n
    BY <2>1
  <2> QED
    BY <2>1, <2>2, FS_BoundedSetOfNaturals DEF FiniteSubsetsOf
<1>2. PICK s \in family : \A t \in family : ~(<<t, s>> \in StrictSubsetOrdering(Nat))
  <2>1. family \subseteq FiniteSubsetsOf(Nat) /\ family # {}
    BY <1>1
  <2>2. IsWellFoundedOn(StrictSubsetOrdering(Nat), FiniteSubsetsOf(Nat))
    BY FS_StrictSubsetOrderingWellFounded
  <2> HIDE DEF family
  <2> QED
    BY <2>1, <2>2, WFMin
<1>3. PICK n \in S : s = below(n)
  BY <1>2
<1>4. ASSUME NEW m \in S, m < n
      PROVE  FALSE
  <2>4. below(m) \in family
    BY <1>4
  <2>5. m \in Nat /\ n \in Nat /\ S \subseteq Nat
    BY <1>4
  <2>6. \A k \in S : k < m => k < n
    BY <1>4, <2>5
  <2>7. \A k : k \in below(m) => k \in below(n)
    BY <2>6
  <2>8. m \in below(n) /\ m \notin below(m)
    BY <1>4, <2>5
  <2>1. below(m) \subseteq below(n) /\ m \in below(n) /\ m \notin below(m)
    BY <2>7, <2>8
  <2>2. below(m) \in SUBSET Nat /\ below(n) \in SUBSET Nat
    OBVIOUS
  <2> HIDE DEF below
  <2>3. <<below(m), below(n)>> \in StrictSubsetOrdering(Nat)
    BY <2>1, <2>2 DEF StrictSubsetOrdering
  <2> QED
    BY <1>2, <1>3, <2>1, <2>3, <2>4
<1>5. \A m \in S : n <= m
  BY <1>4
<1> QED
  BY <1>5 DEF Min

\* The kernel's choice is a number nobody uses.
LEMMA OpenedFree ==
  ASSUME Free # {}
  PROVE  Min(Free) \in Numbers /\ fd[Min(Free)] = Nobodys
<1>1. Free \in SUBSET Nat
  BY BoundsAssumption DEF Free, Numbers
<1>2. Min(Free) \in Free
  BY <1>1, MinIn
<1> QED
  BY <1>2 DEF Free

Uses == {Nobodys} \cup (Tunnels \X {"raw", "write", "stray"})

\* Opening leaves every other descriptor what it is.
LEMMA OpenedTyped ==
  ASSUME TypeOK, Free # {}, NEW use \in Uses, fd' = Opened(use)
  PROVE  /\ fd' \in [Numbers -> Uses]
         /\ \A n \in Numbers : fd[n] # Nobodys => fd'[n] = fd[n]
         /\ \A n \in Numbers : fd'[n] = fd[n] \/ fd'[n] = use
         /\ fd'[Min(Free)] = use
<1>1. Min(Free) \in Numbers /\ fd[Min(Free)] = Nobodys
  BY OpenedFree
<1>2. fd \in [Numbers -> Uses]
  BY DEF TypeOK, Uses
<1> HIDE DEF Uses
<1> QED
  BY <1>1, <1>2 DEF Opened

\* Closing leaves all other uses alone, and none of its own.
LEMMA ClosedTyped ==
  ASSUME TypeOK, NEW uses, Nobodys \notin uses, fd' = Closed(uses)
  PROVE  /\ fd' \in [Numbers -> Uses]
         /\ \A n \in Numbers : fd[n] \notin uses => fd'[n] = fd[n]
         /\ \A n \in Numbers : fd'[n] \notin uses
         /\ \A n \in Numbers : fd'[n] = fd[n] \/ fd'[n] = Nobodys
<1>1. fd \in [Numbers -> Uses]
  BY DEF TypeOK, Uses
<1>2. Nobodys \in Uses
  BY DEF Uses
<1> HIDE DEF Uses
<1> QED
  BY <1>1, <1>2 DEF Closed

\* Nobody's and a tunnel's descriptors differ, and those of two tunnels do.
LEMMA UsesDiffer ==
  /\ \A t \in Tunnels, role \in {"raw", "write", "stray"} : Nobodys # <<t, role>>
  /\ \A s, t \in Tunnels, role \in {"raw", "write", "stray"} :
       <<s, "raw">> = <<t, role>> => s = t /\ role = "raw"
BY BoundsAssumption DEF Nobodys, Tunnels

-----------------------------------------------------------------------------
(* What each step does to the descriptors.                                 *)

LEMMA StartOpens ==
  ASSUME TypeOK, NEW t \in Tunnels, Start(t)
  PROVE  /\ fd' \in [Numbers -> Uses]
         /\ \A n \in Numbers : fd[n] # Nobodys => fd'[n] = fd[n]
         /\ \A n \in Numbers : fd'[n] = fd[n] \/ fd'[n] = <<t, "raw">>
         /\ raw'[t] \in Numbers /\ fd'[raw'[t]] = <<t, "raw">>
<1>1. <<t, "raw">> \in Uses /\ Free # {} /\ fd' = Opened(<<t, "raw">>)
  BY DEF Start, Uses
<1>2. raw'[t] = Min(Free)
  BY DEF Start, TypeOK
<1> QED
  BY <1>1, <1>2, OpenedTyped, OpenedFree

LEMMA DupOpens ==
  ASSUME TypeOK, NEW t \in Tunnels, DupWriter(t)
  PROVE  /\ fd' \in [Numbers -> Uses]
         /\ \A n \in Numbers : fd[n] # Nobodys => fd'[n] = fd[n]
         /\ \A n \in Numbers : \/ fd'[n] = fd[n]
                               \/ fd'[n] \in {<<t, "write">>, <<t, "stray">>}
<1>1. CASE UNCHANGED fd
  BY <1>1 DEF TypeOK, Uses
<1>2. CASE Free # {} /\ \E role \in {"write", "stray"} : fd' = Opened(<<t, role>>)
  <2>1. PICK role \in {"write", "stray"} : fd' = Opened(<<t, role>>)
    BY <1>2
  <2>2. <<t, role>> \in Uses
    BY DEF Uses
  <2> QED
    BY <1>2, <2>1, <2>2, OpenedTyped
<1> QED
  BY <1>1, <1>2 DEF DupWriter

\* Whoever closes, closes descriptors of its own tunnel.
Closes(t, uses) == uses \subseteq {<<t, "raw">>, <<t, "write">>, <<t, "stray">>} /\ fd' = Closed(uses)

LEMMA ClosesOwn ==
  ASSUME TypeOK, NEW t \in Tunnels, NEW uses, Closes(t, uses)
  PROVE  /\ fd' \in [Numbers -> Uses]
         /\ \A s \in Tunnels, n \in Numbers :
              <<s, "raw">> \notin uses /\ fd[n] = <<s, "raw">> => fd'[n] = fd[n]
         /\ \A n \in Numbers : fd'[n] \notin uses
         /\ \A n \in Numbers : fd'[n] = fd[n] \/ fd'[n] = Nobodys
<1>1. Nobodys \notin uses
  BY UsesDiffer DEF Closes
<1> QED
  BY <1>1, ClosedTyped DEF Closes

LEMMA OneCloses ==
  ASSUME NEW t \in Tunnels, SetupFails(t) \/ ReaderCloses(t)
  PROVE  Closes(t, {<<t, "raw">>})
BY DEF SetupFails, ReaderCloses, Closes

LEMMA WriterCloses ==
  ASSUME NEW t \in Tunnels, WriterEnds(t)
  PROVE  Closes(t, {<<t, "write">>, <<t, "stray">>})
BY DEF WriterEnds, Closes

\* With the runtime goes every reader that was polled, and its File.
LEMMA RuntimeCloses ==
  ASSUME NEW t \in Tunnels, RuntimeDrops(t)
  PROVE  \E uses : /\ Closes(t, uses)
                   /\ reader[t] \notin {"none", "spawned"} => <<t, "raw">> \in uses
<1>1. PICK dropped \in SUBSET {<<t, "write">>, <<t, "stray">>} :
        fd' = Closed(dropped \cup (IF reader[t] \in {"none", "spawned"} THEN {} ELSE {<<t, "raw">>}))
  BY DEF RuntimeDrops
<1> DEFINE uses == dropped \cup (IF reader[t] \in {"none", "spawned"} THEN {} ELSE {<<t, "raw">>})
<1>2. Closes(t, uses) /\ (reader[t] \notin {"none", "spawned"} => <<t, "raw">> \in uses)
  BY <1>1 DEF Closes
<1> QED
  BY <1>2

LEMMA SomeoneCloses ==
  ASSUME NEW t \in Tunnels, SetupFails(t) \/ RuntimeDrops(t) \/ ReaderCloses(t) \/ WriterEnds(t)
  PROVE  \E uses : Closes(t, uses)
<1>1. CASE SetupFails(t) \/ ReaderCloses(t)
  <2>1. Closes(t, {<<t, "raw">>})
    BY <1>1, OneCloses
  <2> QED
    BY <2>1
<1>2. CASE WriterEnds(t)
  <2>1. Closes(t, {<<t, "write">>, <<t, "stray">>})
    BY <1>2, WriterCloses
  <2> QED
    BY <2>1
<1>3. CASE RuntimeDrops(t)
  <2>1. PICK uses : Closes(t, uses)
    BY <1>3, RuntimeCloses
  <2> QED
    BY <2>1
<1> QED
  BY <1>1, <1>2, <1>3

-----------------------------------------------------------------------------
(* The types.                                                              *)

ReaderStates == {"none", "spawned", "check", "read", "send", "break", "closing", "done"}

LEMMA FdTyped ==
  ASSUME TypeOK, Next
  PROVE  fd' \in [Numbers -> Uses]
<1>1. CASE UNCHANGED fd
  BY <1>1 DEF TypeOK, Uses
<1>2. ASSUME NEW t \in Tunnels,
             \/ Start(t) \/ SetupFails(t) \/ DupWriter(t) \/ RuntimeDrops(t)
             \/ ReaderCloses(t) \/ WriterEnds(t)
      PROVE  fd' \in [Numbers -> Uses]
  <2>1. CASE Start(t) \/ DupWriter(t)
    BY <2>1, StartOpens, DupOpens
  <2>2. CASE SetupFails(t) \/ RuntimeDrops(t) \/ ReaderCloses(t) \/ WriterEnds(t)
    <3>1. PICK uses : Closes(t, uses)
      BY <2>2, SomeoneCloses
    <3> QED
      BY <3>1, ClosesOwn
  <2> QED
    BY <1>2, <2>1, <2>2
<1> QED
  BY <1>1, <1>2 DEF Next, PacketArrives, StartRefused, Stop, ThreadStep, ReaderStep, Loaded, Built,
     SelectEnds, ReaderStarts, ReaderChecks, ReaderReads, ReadTimesOut, ReaderSends, ReaderNotifies,
     PipeTakes, PipeEnds

\* Every step keeps the types.
LEMMA TypesKept ==
  ASSUME TypeOK, Next
  PROVE  TypeOK'
<1> USE FdTyped DEF Uses
<1>1. CASE PacketArrives \/ StartRefused \/ Stop
  BY <1>1 DEF PacketArrives, StartRefused, Stop, TypeOK, tasks
<1> SUFFICES ASSUME NEW t \in Tunnels,
                    \/ Start(t) \/ ThreadStep(t) \/ ReaderStep(t)
                    \/ PipeTakes(t) \/ PipeEnds(t) \/ WriterEnds(t)
             PROVE  TypeOK'
  BY <1>1 DEF Next
<1> USE DEF tasks, Phases
<1>2. CASE Start(t)
  <2>1. Min(Free) \in 0 .. Fds
    BY <1>2, OpenedFree, BoundsAssumption DEF Start, Numbers
  <2> QED
    BY <1>2, <2>1 DEF Start, TypeOK
<1>3. CASE SetupFails(t) \/ Loaded(t) \/ SelectEnds(t)
  BY <1>3 DEF SetupFails, Loaded, SelectEnds, TypeOK
<1>4. CASE Built(t)
  BY <1>4 DEF Built, TypeOK
<1>5. CASE DupWriter(t)
  <2>1. writer' \in [Tunnels -> {"none", "runs", "done"}]
    BY <1>5 DEF DupWriter, TypeOK
  <2> QED
    BY <1>5, <2>1 DEF DupWriter, TypeOK
<1>6. CASE RuntimeDrops(t)
  <2>1. /\ phase' = [phase EXCEPT ![t] = "gone"]
        /\ reader' = [reader EXCEPT ![t] = "done"]
        /\ pipe' = [pipe EXCEPT ![t] = "done"]
        /\ queue' = [queue EXCEPT ![t] = 0]
        /\ writer' = [writer EXCEPT ![t] = "done"]
        /\ notified' = [notified EXCEPT ![t] = TRUE]
        /\ raw' = [raw EXCEPT ![t] = 0]
        /\ UNCHANGED <<stop_requested, device>>
    BY <1>6 DEF RuntimeDrops
  <2>2. 0 \in 0 .. TunCap /\ 0 \in 0 .. Fds
    BY BoundsAssumption
  <2> QED
    BY <2>1, <2>2 DEF TypeOK
<1>7. CASE ReaderStep(t)
  <2>1. \E from, to \in ReaderStates : ReaderTo(t, from, to)
    BY <1>7 DEF ReaderStep, ReaderStarts, ReaderChecks, ReaderReads, ReadTimesOut, ReaderSends,
                ReaderNotifies, ReaderCloses, ReaderStates
  <2>2. reader' \in [Tunnels -> ReaderStates]
    BY <2>1 DEF ReaderTo, TypeOK, ReaderStates
  <2>3. queue' \in [Tunnels -> 0 .. TunCap]
    <3>1. UNCHANGED queue \/ (queue[t] < TunCap /\ queue' = [queue EXCEPT ![t] = @ + 1])
      BY <1>7 DEF ReaderStep, ReaderStarts, ReaderChecks, ReaderReads, ReadTimesOut, ReaderSends,
                  ReaderNotifies, ReaderCloses
    <3>2. queue \in [Tunnels -> 0 .. TunCap]
      BY DEF TypeOK
    <3>3. queue[t] < TunCap => queue[t] + 1 \in 0 .. TunCap
      BY <3>2, BoundsAssumption
    <3> QED
      BY <3>1, <3>2, <3>3
  <2>4. notified' \in [Tunnels -> BOOLEAN] /\ device' \in BOOLEAN
    BY <1>7 DEF ReaderStep, ReaderStarts, ReaderChecks, ReaderReads, ReadTimesOut, ReaderSends,
                ReaderNotifies, ReaderCloses, TypeOK
  <2>5. UNCHANGED <<stop_requested, phase, pipe, writer, raw>>
    BY <1>7 DEF ReaderStep, ReaderStarts, ReaderChecks, ReaderReads, ReadTimesOut, ReaderSends,
                ReaderNotifies, ReaderCloses
  <2> QED
    BY <2>2, <2>3, <2>4, <2>5 DEF TypeOK, ReaderStates
<1>8. CASE PipeTakes(t) \/ PipeEnds(t)
  <2>1. UNCHANGED queue \/ (queue[t] > 0 /\ queue' = [queue EXCEPT ![t] = @ - 1])
    BY <1>8 DEF PipeTakes, PipeEnds
  <2>2. queue \in [Tunnels -> 0 .. TunCap]
    BY DEF TypeOK
  <2>3. queue[t] > 0 => queue[t] - 1 \in 0 .. TunCap
    BY <2>2, BoundsAssumption
  <2>4. queue' \in [Tunnels -> 0 .. TunCap]
    BY <2>1, <2>2, <2>3
  <2>5. pipe' \in [Tunnels -> {"none", "runs", "done"}]
    BY <1>8 DEF PipeTakes, PipeEnds, TypeOK
  <2> QED
    BY <1>8, <2>4, <2>5 DEF PipeTakes, PipeEnds, TypeOK
<1>9. CASE WriterEnds(t)
  BY <1>9 DEF WriterEnds, TypeOK
<1> QED
  BY <1>2, <1>3, <1>4, <1>5, <1>6, <1>7, <1>8, <1>9 DEF ThreadStep

-----------------------------------------------------------------------------
(* The reader that was never polled.                                       *)

LEMMA UnpolledKept ==
  ASSUME TypeOK, Unpolled, Next
  PROVE  Unpolled'
<1>1. CASE PacketArrives \/ StartRefused \/ Stop
  BY <1>1 DEF PacketArrives, StartRefused, Stop, Unpolled, tasks
<1> SUFFICES ASSUME NEW t \in Tunnels,
                    \/ Start(t) \/ ThreadStep(t) \/ ReaderStep(t)
                    \/ PipeTakes(t) \/ PipeEnds(t) \/ WriterEnds(t)
             PROVE  Unpolled'
  BY <1>1 DEF Next
<1> USE DEF tasks
<1>2. CASE Start(t) \/ SetupFails(t) \/ Loaded(t) \/ DupWriter(t)
  BY <1>2 DEF Start, SetupFails, Loaded, DupWriter, TypeOK, Unpolled
<1>3. CASE Built(t)
  BY <1>3 DEF Built, TypeOK, Unpolled
<1>4. CASE SelectEnds(t)
  <2>1. reader[t] # "spawned"
    BY <1>4 DEF SelectEnds, Unpolled
  <2> QED
    BY <1>4, <2>1 DEF SelectEnds, TypeOK, Unpolled
<1>5. CASE RuntimeDrops(t)
  <2>1. /\ phase' = [phase EXCEPT ![t] = "gone"]
        /\ reader' = [reader EXCEPT ![t] = "done"]
        /\ \A s \in Tunnels : s # t => /\ pipe'[s] = pipe[s] /\ queue'[s] = queue[s]
                                       /\ notified'[s] = notified[s]
    BY <1>5 DEF RuntimeDrops, TypeOK
  <2> QED
    BY <2>1 DEF TypeOK, Unpolled
<1>6. CASE ReaderStep(t)
  <2>1. reader[t] # "none" /\ reader'[t] \notin {"none", "spawned"}
    BY <1>6 DEF ReaderStep, ReaderStarts, ReaderChecks, ReaderReads, ReadTimesOut, ReaderSends,
                ReaderNotifies, ReaderCloses, ReaderTo, TypeOK
  <2>2. \A s \in Tunnels : s # t => /\ reader'[s] = reader[s] /\ queue'[s] = queue[s]
                                    /\ notified'[s] = notified[s]
    BY <1>6 DEF ReaderStep, ReaderStarts, ReaderChecks, ReaderReads, ReadTimesOut, ReaderSends,
                ReaderNotifies, ReaderCloses, ReaderTo, TypeOK
  <2>3. UNCHANGED <<phase, pipe>>
    BY <1>6 DEF ReaderStep, ReaderStarts, ReaderChecks, ReaderReads, ReadTimesOut, ReaderSends,
                ReaderNotifies, ReaderCloses
  <2> QED
    BY <2>1, <2>2, <2>3 DEF Unpolled
<1>7. CASE PipeTakes(t) \/ PipeEnds(t)
  <2>1. reader[t] \notin {"none", "spawned"}
    BY <1>7 DEF PipeTakes, PipeEnds, Unpolled, TypeOK
  <2>2. \A s \in Tunnels : s # t => queue'[s] = queue[s] /\ pipe'[s] = pipe[s]
    BY <1>7 DEF PipeTakes, PipeEnds, TypeOK
  <2> QED
    BY <1>7, <2>1, <2>2 DEF PipeTakes, PipeEnds, Unpolled
<1>8. CASE WriterEnds(t)
  BY <1>8 DEF WriterEnds, Unpolled
<1> QED
  BY <1>2, <1>3, <1>4, <1>5, <1>6, <1>7, <1>8 DEF ThreadStep

-----------------------------------------------------------------------------
(* The owner of the number.                                                *)

\* A step that keeps a tunnel's files keeps the names of those who go on owning
\* them.
LEMMA OwnsCarried ==
  ASSUME Owns, NEW t \in Tunnels, Owner(t), raw'[t] = raw[t],
         \A n \in Numbers : fd[n] = <<t, "raw">> => fd'[n] = fd[n]
  PROVE  raw'[t] \in Numbers /\ fd'[raw'[t]] = <<t, "raw">>
BY DEF Owns

LEMMA OwnsKept ==
  ASSUME TypeOK, Unpolled, Owns, Next
  PROVE  Owns'
<1>1. CASE UNCHANGED <<phase, reader, raw, fd>>
  BY <1>1 DEF Owns, Owner
<1> SUFFICES ASSUME NEW t \in Tunnels,
                    Start(t) \/ ThreadStep(t) \/ ReaderStep(t) \/ WriterEnds(t)
             PROVE  Owns'
  BY <1>1 DEF Next, PacketArrives, StartRefused, Stop, PipeTakes, PipeEnds, tasks
<1>2. CASE Start(t)
  <2>1. \A s \in Tunnels : s # t => (Owner(s)' <=> Owner(s)) /\ raw'[s] = raw[s]
    BY <1>2 DEF Start, Owner, TypeOK, tasks
  <2>2. \A s \in Tunnels, n \in Numbers : fd[n] = <<s, "raw">> => fd'[n] = fd[n]
    BY <1>2, StartOpens, UsesDiffer
  <2>3. \A s \in Tunnels : s # t /\ Owner(s)' => raw'[s] \in Numbers /\ fd'[raw'[s]] = <<s, "raw">>
    BY <2>1, <2>2, OwnsCarried
  <2> QED
    BY <1>2, <2>3, StartOpens DEF Owns
<1>3. CASE DupWriter(t)
  <2>1. \A s \in Tunnels : (Owner(s)' => Owner(s)) /\ raw'[s] = raw[s]
    BY <1>3 DEF DupWriter, Owner, TypeOK
  <2>2. \A s \in Tunnels, n \in Numbers : fd[n] = <<s, "raw">> => fd'[n] = fd[n]
    BY <1>3, DupOpens, UsesDiffer
  <2> QED
    BY <2>1, <2>2, OwnsCarried DEF Owns
<1>4. CASE Loaded(t) \/ Built(t) \/ SelectEnds(t)
  <2>1. \A s \in Tunnels : Owner(s)' => Owner(s)
    BY <1>4 DEF Loaded, Built, SelectEnds, Owner, TypeOK, tasks
  <2> QED
    BY <1>4, <2>1 DEF Loaded, Built, SelectEnds, Owns
<1>5. CASE SetupFails(t) \/ ReaderCloses(t) \/ RuntimeDrops(t)
  <2>1. PICK uses : Closes(t, uses)
    BY <1>5, SomeoneCloses
  <2>2. ~Owner(t)'
    <3>1. CASE SetupFails(t)
      BY <3>1 DEF SetupFails, Owner, TypeOK, Unpolled, tasks
    <3>2. CASE ReaderCloses(t)
      BY <3>2 DEF ReaderCloses, ReaderTo, Owner, TypeOK, Unpolled
    <3>3. CASE RuntimeDrops(t)
      BY <3>3 DEF RuntimeDrops, Owner, TypeOK
    <3> QED
      BY <1>5, <3>1, <3>2, <3>3
  <2>3. \A s \in Tunnels : s # t => (Owner(s)' <=> Owner(s)) /\ raw'[s] = raw[s]
    BY <1>5 DEF SetupFails, ReaderCloses, ReaderTo, RuntimeDrops, Owner, TypeOK, tasks
  <2>4. \A s \in Tunnels : s # t => <<s, "raw">> \notin uses
    BY <2>1, UsesDiffer DEF Closes
  <2>5. \A s \in Tunnels, n \in Numbers : s # t /\ fd[n] = <<s, "raw">> => fd'[n] = fd[n]
    BY <2>1, <2>4, ClosesOwn
  <2> QED
    BY <2>2, <2>3, <2>5, OwnsCarried DEF Owns
<1>6. CASE ReaderStep(t) /\ ~ReaderCloses(t)
  <2>1. \A s \in Tunnels : Owner(s)' => Owner(s)
    BY <1>6 DEF ReaderStep, ReaderStarts, ReaderChecks, ReaderReads, ReadTimesOut, ReaderSends,
                ReaderNotifies, ReaderTo, Owner, TypeOK
  <2> QED
    BY <1>6, <2>1 DEF ReaderStep, ReaderStarts, ReaderChecks, ReaderReads, ReadTimesOut, ReaderSends,
                      ReaderNotifies, Owns
<1>7. CASE WriterEnds(t)
  <2>1. Closes(t, {<<t, "write">>, <<t, "stray">>})
    BY <1>7, WriterCloses
  <2>2. \A s \in Tunnels : <<s, "raw">> \notin {<<t, "write">>, <<t, "stray">>}
    BY UsesDiffer
  <2>3. \A s \in Tunnels, n \in Numbers : fd[n] = <<s, "raw">> => fd'[n] = fd[n]
    BY <2>1, <2>2, ClosesOwn
  <2>4. \A s \in Tunnels : (Owner(s)' => Owner(s)) /\ raw'[s] = raw[s]
    BY <1>7 DEF WriterEnds, Owner
  <2> QED
    BY <2>3, <2>4, OwnsCarried DEF Owns
<1> QED
  BY <1>2, <1>3, <1>4, <1>5, <1>6, <1>7 DEF ThreadStep

-----------------------------------------------------------------------------
(* The descriptor is given back.                                           *)

LEMMA NoneLeftKept ==
  ASSUME TypeOK, Unpolled, NoneLeft, Next
  PROVE  NoneLeft'
<1>1. CASE UNCHANGED <<phase, reader, fd>>
  BY <1>1 DEF NoneLeft, Returned
<1> SUFFICES ASSUME NEW t \in Tunnels,
                    Start(t) \/ ThreadStep(t) \/ ReaderStep(t) \/ WriterEnds(t)
             PROVE  NoneLeft'
  BY <1>1 DEF Next, PacketArrives, StartRefused, Stop, PipeTakes, PipeEnds, tasks
<1>2. CASE Start(t)
  <2>1. \A s \in Tunnels : Returned(s)' => Returned(s) /\ s # t
    BY <1>2 DEF Start, Returned, TypeOK, tasks
  <2>2. \A s \in Tunnels, n \in Numbers : s # t /\ fd'[n] = <<s, "raw">> => fd[n] = <<s, "raw">>
    BY <1>2, StartOpens, UsesDiffer
  <2> QED
    BY <2>1, <2>2 DEF NoneLeft
<1>3. CASE DupWriter(t)
  <2>1. \A s \in Tunnels : Returned(s)' => Returned(s)
    BY <1>3 DEF DupWriter, Returned, TypeOK
  <2>2. \A s \in Tunnels, n \in Numbers : fd'[n] = <<s, "raw">> => fd[n] = <<s, "raw">>
    BY <1>3, DupOpens, UsesDiffer
  <2> QED
    BY <2>1, <2>2 DEF NoneLeft
<1>4. CASE Loaded(t) \/ Built(t) \/ SelectEnds(t)
  <2>1. \A s \in Tunnels : Returned(s)' => Returned(s)
    BY <1>4 DEF Loaded, Built, SelectEnds, Returned, TypeOK, tasks, Unpolled
  <2> QED
    BY <1>4, <2>1 DEF Loaded, Built, SelectEnds, NoneLeft
<1>5. CASE SetupFails(t) \/ RuntimeDrops(t)
  <2>1. PICK uses : Closes(t, uses) /\ (<<t, "raw">> \in uses \/ Returned(t))
    <3>1. CASE SetupFails(t)
      BY <3>1, OneCloses
    <3>2. CASE RuntimeDrops(t)
      <4>1. reader[t] \in {"none", "spawned"} => Returned(t)
        BY <3>2 DEF RuntimeDrops, Unpolled, Returned
      <4> QED
        BY <3>2, <4>1, RuntimeCloses
    <3> QED
      BY <1>5, <3>1, <3>2
  <2>2. \A s \in Tunnels : Returned(s)' /\ s # t => Returned(s)
    BY <1>5 DEF SetupFails, RuntimeDrops, Returned, TypeOK, tasks
  <2>3. \A s \in Tunnels, n \in Numbers : fd'[n] = <<s, "raw">> => fd[n] = <<s, "raw">> /\ <<s, "raw">> \notin uses
    BY <2>1, ClosesOwn, UsesDiffer
  <2> QED
    BY <2>1, <2>2, <2>3 DEF NoneLeft
<1>6. CASE ReaderStep(t) /\ ~ReaderCloses(t)
  <2>1. \A s \in Tunnels : Returned(s)' => Returned(s)
    BY <1>6 DEF ReaderStep, ReaderStarts, ReaderChecks, ReaderReads, ReadTimesOut, ReaderSends,
                ReaderNotifies, ReaderTo, Returned, TypeOK
  <2> QED
    BY <1>6, <2>1 DEF ReaderStep, ReaderStarts, ReaderChecks, ReaderReads, ReadTimesOut, ReaderSends,
                      ReaderNotifies, NoneLeft
<1>7. CASE ReaderCloses(t) \/ WriterEnds(t)
  <2>1. PICK uses : Closes(t, uses)
    BY <1>7, SomeoneCloses
  <2>2. \A s \in Tunnels : Returned(s)' => Returned(s)
    BY <1>7 DEF ReaderCloses, ReaderTo, WriterEnds, Returned, TypeOK
  <2>3. \A s \in Tunnels, n \in Numbers : fd'[n] = <<s, "raw">> => fd[n] = <<s, "raw">>
    BY <2>1, ClosesOwn, UsesDiffer
  <2> QED
    BY <2>2, <2>3 DEF NoneLeft
<1> QED
  BY <1>2, <1>3, <1>4, <1>5, <1>6, <1>7 DEF ThreadStep

-----------------------------------------------------------------------------
(* The theorems.                                                           *)

LEMMA InitIInv == Init => IInv
<1> SUFFICES ASSUME Init PROVE IInv
  OBVIOUS
<1>1. TypeOK
  <2>1. 0 \in 0 .. TunCap /\ 0 \in 0 .. Fds
    BY BoundsAssumption
  <2>2. fd \in [Numbers -> {Nobodys} \cup (Tunnels \X {"raw", "write", "stray"})]
    BY DEF Init
  <2> QED
    BY <2>1, <2>2 DEF Init, TypeOK, Phases
<1>2. Owns /\ Unpolled /\ NoneLeft
  BY DEF Init, Owns, Owner, Unpolled, NoneLeft, Returned
<1> QED
  BY <1>1, <1>2 DEF IInv

LEMMA StepIInv == IInv /\ [Next]_vars => IInv'
<1>1. ASSUME IInv, UNCHANGED vars
      PROVE  IInv'
  <2>1. TypeOK'
    BY <1>1 DEF IInv, TypeOK, vars, tasks
  <2>2. Owns' /\ Unpolled' /\ NoneLeft'
    BY <1>1 DEF IInv, Owns, Owner, Unpolled, NoneLeft, Returned, vars, tasks
  <2> QED
    BY <2>1, <2>2 DEF IInv
<1>2. ASSUME IInv, Next
      PROVE  IInv'
  BY <1>2, TypesKept, UnpolledKept, OwnsKept, NoneLeftKept DEF IInv
<1> QED
  BY <1>1, <1>2

\* The strengthening of the invariants below.
THEOREM InvHolds == Spec => []IInv
BY InitIInv, StepIInv, PTL DEF Spec

\* Type correctness: among other things the packets between reader and stack
\* never exceed their channel.
THEOREM TypeCorrect == Spec => []TypeOK
<1>1. IInv => TypeOK
  BY DEF IInv
<1> QED
  BY <1>1, InvHolds, PTL

\* raw_fd is passed from start to the thread to the reader as a bare number, and
\* until its File is closed it names the tunnel's own copy of the TUN: no
\* interleaving of starts, stops and failures closes it twice or closes what
\* another file has become.
THEOREM ReadersOwnTheirFd == Spec => []ReaderOwnsItsFd
<1>1. IInv => ReaderOwnsItsFd
  BY DEF IInv, Owns, Owner, ReaderOwnsItsFd
<1> QED
  BY <1>1, InvHolds, PTL

\* Whatever path a tunnel's thread ended on, its copy of the TUN is closed.
THEOREM DescriptorsReturned == Spec => []FdReturned
<1>1. IInv => FdReturned
  BY DEF IInv, NoneLeft, Returned, FdReturned
<1> QED
  BY <1>1, InvHolds, PTL
=============================================================================
