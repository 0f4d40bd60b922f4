-------------------------- MODULE PeerStoreProofs --------------------------
(***************************************************************************)
(* Proofs about PeerStore, for every set of peers and any number of        *)
(* requests in flight.                                                     *)
(*                                                                         *)
(* StoreInv follows a peer nobody deletes through the three stores and     *)
(* says what a half-done request knows of it; LockInv what toggle's guard  *)
(* protects; BirthInv that an id is created once, by one request; QuietInv *)
(* between which two steps of a request the stores differ.                 *)
(***************************************************************************)
EXTENDS PeerStore, TLAPS

LockInv ==
  /\ \A r \in Requests :
       At(r, "toggle", "store") \/ At(r, "toggle", "flush") => lock = r
  /\ lock # None => req[lock].op = "toggle" /\ req[lock].pc \in {"store", "flush"}
  /\ lock # None => mem[req[lock].peer] # "absent"

BirthInv ==
  /\ \A r \in Requests : req[r].op = "create" =>
       req[r].peer \in born /\ req[r].peer \notin created
  /\ \A q, r \in Requests :
       req[q].op = "create" /\ req[r].op = "create" /\ req[q].peer = req[r].peer
         => q = r
  /\ created \subseteq born
  /\ deleted \subseteq created
  /\ \A r \in Requests : req[r].op = "delete" => req[r].peer \in doomed

StoreInv ==
  \A p \in Peers \ doomed :
    /\ p \in created => disk[p] # "absent"
    /\ disk[p] # "absent" => db[p] # "absent"
    /\ mem[p] # "absent" => db[p] # "absent"
    /\ \A r \in Requests : req[r].op = "create" /\ req[r].peer = p =>
         /\ req[r].pc = "flush" => db[p] # "absent"
         /\ req[r].pc = "lock" => disk[p] # "absent"

IInv == TypeOK /\ LockInv /\ BirthInv /\ StoreInv

\* A create of p that has stored its record and not yet registered it, and a
\* toggle of p that has flipped it and not yet stored it, are where the map
\* and the database differ; a request that has stored and not yet flushed is
\* where the database and the disk do.
Unsettled(r) ==
  \/ At(r, "create", "flush") \/ At(r, "create", "lock")
  \/ At(r, "toggle", "store")

QuietInv ==
  /\ \A p \in Peers \ born :
       mem[p] = "absent" /\ db[p] = "absent" /\ disk[p] = "absent"
  /\ \A p \in Peers \ (doomed \cup torn) :
       /\ \A r \in Requests : req[r].op = "create" /\ req[r].peer = p =>
            /\ mem[p] = "absent"
            /\ Unsettled(r) => db[p] = "active"
       /\ (\A r \in Requests : req[r].peer = p => ~Unsettled(r))
            => mem[p] = db[p]
       /\ (\A r \in Requests : req[r].peer = p => req[r].pc # "flush")
            => db[p] = disk[p]

-----------------------------------------------------------------------------
\* What the type of a request says: an idle one has no operation.
LEMMA RequestTyped ==
  ASSUME TypeOK, NEW r \in Requests
  PROVE  /\ req[r] # Idle => req[r] \in Request
         /\ req[r].pc # "idle" => req[r] \in Request
         /\ req[r].op # "none" => req[r] \in Request
  BY DEF TypeOK, Idle

LEMMA TypeStep == TypeOK /\ [Next]_vars => TypeOK'
<1> SUFFICES ASSUME TypeOK, [Next]_vars
             PROVE  TypeOK'
  OBVIOUS
<1> USE DEF TypeOK, Request, Record, stores, history, Goto, Answer, At
<1>1. ASSUME NEW r \in Requests, NEW p \in Peers, StartCreate(r, p)
      PROVE  TypeOK'
  BY <1>1 DEF StartCreate
<1>2. ASSUME NEW r \in Requests, NEW p \in Peers, StartDelete(r, p)
      PROVE  TypeOK'
  BY <1>2 DEF StartDelete
<1>3. ASSUME NEW r \in Requests, NEW p \in Peers, StartToggle(r, p)
      PROVE  TypeOK'
  BY <1>3 DEF StartToggle
<1>4. ASSUME NEW r \in Requests, Store(r)
      PROVE  TypeOK'
  <2>1. req[r] \in Request
    BY <1>4, RequestTyped DEF Store
  <2>2. Stored(r) \in Record
    BY <2>1 DEF Stored
  <2> QED BY <1>4, <2>1, <2>2 DEF Store
<1>5. ASSUME NEW r \in Requests, Flush(r)
      PROVE  TypeOK'
  <2>1. req[r] \in Request
    BY <1>5, RequestTyped DEF Flush
  <2> QED BY <1>5, <2>1 DEF Flush
<1>6. ASSUME NEW r \in Requests, FlushToggle(r)
      PROVE  TypeOK'
  BY <1>6 DEF FlushToggle
<1>7. ASSUME NEW r \in Requests, StorageFails(r)
      PROVE  TypeOK'
  <2>1. req[r] \in Request
    BY <1>7, RequestTyped DEF StorageFails
  <2> QED BY <1>7, <2>1 DEF StorageFails
<1>8. ASSUME NEW r \in Requests, Register(r) \/ Unregister(r)
      PROVE  TypeOK'
  <2>1. req[r] \in Request
    BY <1>8, RequestTyped DEF Register, Unregister
  <2> QED BY <1>8, <2>1 DEF Register, Unregister
<1>9. ASSUME NEW r \in Requests, Toggle(r)
      PROVE  TypeOK'
  <2>1. req[r] \in Request
    BY <1>9, RequestTyped DEF Toggle
  <2>2. Flip(mem[req[r].peer]) \in Record
    BY DEF Flip
  <2> QED BY <1>9, <2>1, <2>2 DEF Toggle
<1>10. ASSUME NEW r \in Requests, ToggleNotFound(r)
       PROVE  TypeOK'
  BY <1>10 DEF ToggleNotFound
<1>11. ASSUME NEW r \in Requests, Disconnect(r)
       PROVE  TypeOK'
  <2>1. req[r] \in Request
    BY <1>11, RequestTyped DEF Disconnect
  <2> QED BY <1>11, <2>1 DEF Disconnect
<1>12. CASE BackgroundFlush
  BY <1>12 DEF BackgroundFlush
<1>13. CASE Restart
  <2>1. \A q \in Requests : req[q] # Idle => req[q].peer \in Peers
    BY RequestTyped
  <2> QED BY <1>13, <2>1 DEF Restart
<1>14. CASE UNCHANGED vars
  BY <1>14 DEF vars
<1> QED
  BY <1>1, <1>2, <1>3, <1>4, <1>5, <1>6, <1>7, <1>8, <1>9, <1>10, <1>11,
     <1>12, <1>13, <1>14 DEF Next, Handle

-----------------------------------------------------------------------------
\* Toggle's guard: who half-done toggles are, and that nobody else changes
\* the map under it.
LEMMA LockStep == TypeOK /\ LockInv /\ [Next]_vars => LockInv'
<1> SUFFICES ASSUME TypeOK, LockInv, [Next]_vars
             PROVE  LockInv'
  OBVIOUS
<1>0. /\ lock \in Requests \cup {None}
      /\ \A r \in Requests : req[r] \in Request \cup {Idle}
      /\ req \in [Requests -> Request \cup {Idle}]
      /\ mem \in [Peers -> Record]
  BY DEF TypeOK
<1> USE NoneIsFresh, <1>0
    DEF LockInv, Idle, Request, Record, stores, history, Goto, Answer, At
<1>1. ASSUME NEW r \in Requests, NEW p \in Peers,
             StartCreate(r, p) \/ StartDelete(r, p) \/ StartToggle(r, p)
      PROVE  LockInv'
  BY <1>1 DEF StartCreate, StartDelete, StartToggle
<1>2. ASSUME NEW r \in Requests, Store(r)
      PROVE  LockInv'
  BY <1>2 DEF Store
<1>3. ASSUME NEW r \in Requests, Flush(r)
      PROVE  LockInv'
  BY <1>3 DEF Flush
<1>4. ASSUME NEW r \in Requests, FlushToggle(r)
      PROVE  LockInv'
  BY <1>4 DEF FlushToggle
<1>5. ASSUME NEW r \in Requests, StorageFails(r)
      PROVE  LockInv'
  BY <1>5 DEF StorageFails
<1>6. ASSUME NEW r \in Requests, Register(r) \/ Unregister(r)
      PROVE  LockInv'
  BY <1>6 DEF Register, Unregister
<1>7. ASSUME NEW r \in Requests, Toggle(r)
      PROVE  LockInv'
  BY <1>7 DEF Toggle, Flip
<1>8. ASSUME NEW r \in Requests, ToggleNotFound(r) \/ Disconnect(r)
      PROVE  LockInv'
  BY <1>8 DEF ToggleNotFound, Disconnect
<1>9. CASE BackgroundFlush \/ UNCHANGED vars
  BY <1>9 DEF BackgroundFlush, vars
<1>10. CASE Restart
  BY <1>10 DEF Restart
<1> QED
  BY <1>1, <1>2, <1>3, <1>4, <1>5, <1>6, <1>7, <1>8, <1>9, <1>10
  DEF Next, Handle

\* An id is drawn once, answered 201 once, and only by the request it was
\* drawn for.
LEMMA BirthStep == TypeOK /\ BirthInv /\ [Next]_vars => BirthInv'
<1> SUFFICES ASSUME TypeOK, BirthInv, [Next]_vars
             PROVE  BirthInv'
  OBVIOUS
<1>0. /\ \A r \in Requests : req[r] \in Request \cup {Idle}
      /\ req \in [Requests -> Request \cup {Idle}]
  BY DEF TypeOK
<1> USE <1>0 DEF BirthInv, Idle, Request, history, Goto, Answer, At
<1>1. ASSUME NEW r \in Requests, NEW p \in Peers, StartCreate(r, p)
      PROVE  BirthInv'
  BY <1>1 DEF StartCreate
<1>2. ASSUME NEW r \in Requests, NEW p \in Peers,
             StartDelete(r, p) \/ StartToggle(r, p)
      PROVE  BirthInv'
  BY <1>2 DEF StartDelete, StartToggle
<1>3. ASSUME NEW r \in Requests, Store(r) \/ Flush(r) \/ FlushToggle(r)
      PROVE  BirthInv'
  BY <1>3 DEF Store, Flush, FlushToggle
<1>4. ASSUME NEW r \in Requests, StorageFails(r)
      PROVE  BirthInv'
  BY <1>4 DEF StorageFails
<1>5. ASSUME NEW r \in Requests, Register(r)
      PROVE  BirthInv'
  BY <1>5 DEF Register
<1>6. ASSUME NEW r \in Requests, Unregister(r)
      PROVE  BirthInv'
  BY <1>6 DEF Unregister
<1>7. ASSUME NEW r \in Requests, Toggle(r) \/ ToggleNotFound(r) \/ Disconnect(r)
      PROVE  BirthInv'
  BY <1>7 DEF Toggle, ToggleNotFound, Disconnect
<1>8. CASE BackgroundFlush \/ Restart \/ UNCHANGED vars
  BY <1>8 DEF BackgroundFlush, Restart, vars
<1> QED
  BY <1>1, <1>2, <1>3, <1>4, <1>5, <1>6, <1>7, <1>8 DEF Next, Handle

-----------------------------------------------------------------------------
\* The three stores of a peer nobody deletes.
LEMMA StoreStep == IInv /\ [Next]_vars => StoreInv'
<1> SUFFICES ASSUME IInv, [Next]_vars,
                    NEW p \in Peers, p \notin doomed'
             PROVE  /\ p \in created' => disk'[p] # "absent"
                    /\ disk'[p] # "absent" => db'[p] # "absent"
                    /\ mem'[p] # "absent" => db'[p] # "absent"
                    /\ \A q \in Requests :
                         req'[q].op = "create" /\ req'[q].peer = p =>
                           /\ req'[q].pc = "flush" => db'[p] # "absent"
                           /\ req'[q].pc = "lock" => disk'[p] # "absent"
  BY DEF StoreInv
<1> DEFINE Goal == /\ p \in created' => disk'[p] # "absent"
                   /\ disk'[p] # "absent" => db'[p] # "absent"
                   /\ mem'[p] # "absent" => db'[p] # "absent"
                   /\ \A q \in Requests :
                        req'[q].op = "create" /\ req'[q].peer = p =>
                          /\ req'[q].pc = "flush" => db'[p] # "absent"
                          /\ req'[q].pc = "lock" => disk'[p] # "absent"
<1>a. p \notin doomed
  BY DEF Next, vars, Handle, StartCreate, StartDelete, StartToggle, Store, Flush,
         FlushToggle, StorageFails, Register, Unregister, Toggle, ToggleNotFound,
         Disconnect, BackgroundFlush, Restart, history
<1>b. /\ p \in created => disk[p] # "absent"
      /\ disk[p] # "absent" => db[p] # "absent"
      /\ mem[p] # "absent" => db[p] # "absent"
      /\ \A q \in Requests :
           req[q].op = "create" /\ req[q].peer = p =>
             /\ req[q].pc = "flush" => db[p] # "absent"
             /\ req[q].pc = "lock" => disk[p] # "absent"
  BY <1>a DEF IInv, StoreInv
<1>c. /\ \A r \in Requests : req[r] \in Request \cup {Idle}
      /\ req \in [Requests -> Request \cup {Idle}]
      /\ db \in [Peers -> Record]
      /\ disk \in [Peers -> Record]
      /\ mem \in [Peers -> Record]
  BY DEF IInv, TypeOK
<1> USE <1>a, <1>b, <1>c DEF Idle, Request, Record, stores, history, Goto, Answer, At
<1>1. ASSUME NEW r \in Requests, NEW n \in Peers, StartCreate(r, n)
      PROVE  Goal
  BY <1>1 DEF StartCreate
<1>2. ASSUME NEW r \in Requests, NEW n \in Peers,
             StartDelete(r, n) \/ StartToggle(r, n)
      PROVE  Goal
  BY <1>2 DEF StartDelete, StartToggle
<1>3. ASSUME NEW r \in Requests, Store(r)
      PROVE  Goal
  \* What a request stores for p is not "absent": it is no delete, and a
  \* toggle holds the guard under which its peer stays in the map.
  <2>1. req[r] \in Request
    BY <1>3 DEF Store
  <2>2. req[r].op = "delete" => req[r].peer # p
    BY DEF IInv, BirthInv
  <2>3. req[r].op = "toggle" => mem[req[r].peer] # "absent"
    BY <1>3, <2>1, NoneIsFresh DEF Store, IInv, LockInv
  <2>4. req[r].peer = p => Stored(r) # "absent"
    BY <2>1, <2>2, <2>3 DEF Stored
  <2> QED BY <1>3, <2>1, <2>4 DEF Store
<1>4. ASSUME NEW r \in Requests, Flush(r)
      PROVE  Goal
  BY <1>4 DEF Flush
<1>5. ASSUME NEW r \in Requests, FlushToggle(r)
      PROVE  Goal
  BY <1>5 DEF FlushToggle
<1>6. ASSUME NEW r \in Requests, StorageFails(r)
      PROVE  Goal
  BY <1>6 DEF StorageFails
<1>7. ASSUME NEW r \in Requests, Register(r)
      PROVE  Goal
  BY <1>7 DEF Register
<1>8. ASSUME NEW r \in Requests, Unregister(r)
      PROVE  Goal
  BY <1>8 DEF Unregister
<1>9. ASSUME NEW r \in Requests, Toggle(r)
      PROVE  Goal
  BY <1>9 DEF Toggle
<1>10. ASSUME NEW r \in Requests, ToggleNotFound(r) \/ Disconnect(r)
       PROVE  Goal
  BY <1>10 DEF ToggleNotFound, Disconnect
<1>11. CASE BackgroundFlush
  BY <1>11 DEF BackgroundFlush
<1>12. CASE Restart
  BY <1>12 DEF Restart
<1>13. CASE UNCHANGED vars
  BY <1>13 DEF vars
<1> QED
  BY <1>1, <1>2, <1>3, <1>4, <1>5, <1>6, <1>7, <1>8, <1>9, <1>10, <1>11,
     <1>12, <1>13 DEF Next, Handle

-----------------------------------------------------------------------------
\* The ids nobody has drawn are in no store.
LEMMA UnbornStep ==
  ASSUME IInv, QuietInv, [Next]_vars, NEW p \in Peers, p \notin born'
  PROVE  mem'[p] = "absent" /\ db'[p] = "absent" /\ disk'[p] = "absent"
<1>1. p \notin born
  BY DEF Next, vars, Handle, StartCreate, StartDelete, StartToggle, Store, Flush,
         FlushToggle, StorageFails, Register, Unregister, Toggle, ToggleNotFound,
         Disconnect, BackgroundFlush, Restart, history
<1>2. /\ mem[p] = "absent" /\ db[p] = "absent" /\ disk[p] = "absent"
      /\ \A r \in Requests : req[r].op = "create" => req[r].peer # p
      /\ p \notin created
  BY <1>1 DEF QuietInv, IInv, BirthInv
<1>3. /\ \A r \in Requests : req[r] \in Request \cup {Idle}
      /\ db \in [Peers -> Record]
      /\ mem \in [Peers -> Record]
  BY DEF IInv, TypeOK
<1>4. ASSUME NEW r \in Requests, Store(r)
      PROVE  mem'[p] = "absent" /\ db'[p] = "absent" /\ disk'[p] = "absent"
  <2>1. req[r] \in Request
    BY <1>3, <1>4 DEF Store, Idle
  <2>2. req[r].op = "toggle" => mem[req[r].peer] # "absent"
    BY <1>4, <2>1, NoneIsFresh DEF Store, IInv, LockInv, Request, At
  <2>3. req[r].peer = p => Stored(r) = "absent"
    BY <1>2, <2>1, <2>2 DEF Stored, Request
  <2> QED BY <1>2, <1>3, <1>4, <2>3 DEF Store
<1>5. ASSUME NEW r \in Requests, Register(r) \/ Unregister(r) \/ Toggle(r)
      PROVE  mem'[p] = "absent" /\ db'[p] = "absent" /\ disk'[p] = "absent"
  BY <1>2, <1>3, <1>5 DEF Register, Unregister, Toggle, At
<1>6. CASE BackgroundFlush \/ Restart
  BY <1>2, <1>6 DEF BackgroundFlush, Restart
<1> QED
  BY <1>2, <1>4, <1>5, <1>6
  DEF Next, vars, Handle, StartCreate, StartDelete, StartToggle, Flush,
      FlushToggle, StorageFails, ToggleNotFound, Disconnect, stores

\* Where the stores of a peer may differ, for a peer whose requests all came
\* to their end.
LEMMA QuietStep == IInv /\ QuietInv /\ [Next]_vars => QuietInv'
<1> SUFFICES ASSUME IInv, QuietInv, [Next]_vars,
                    NEW p \in Peers, p \notin doomed', p \notin torn'
             PROVE  /\ \A q \in Requests : req'[q].op = "create" /\ req'[q].peer = p =>
                         /\ mem'[p] = "absent"
                         /\ Unsettled(q)' => db'[p] = "active"
                    /\ (\A q \in Requests : req'[q].peer = p => ~Unsettled(q)')
                         => mem'[p] = db'[p]
                    /\ (\A q \in Requests : req'[q].peer = p => req'[q].pc # "flush")
                         => db'[p] = disk'[p]
  BY UnbornStep DEF QuietInv
<1> DEFINE Goal ==
      /\ \A q \in Requests : req'[q].op = "create" /\ req'[q].peer = p =>
           /\ mem'[p] = "absent"
           /\ Unsettled(q)' => db'[p] = "active"
      /\ (\A q \in Requests : req'[q].peer = p => ~Unsettled(q)')
           => mem'[p] = db'[p]
      /\ (\A q \in Requests : req'[q].peer = p => req'[q].pc # "flush")
           => db'[p] = disk'[p]
<1>a. p \notin doomed /\ p \notin torn
  BY DEF Next, vars, Handle, StartCreate, StartDelete, StartToggle, Store, Flush,
         FlushToggle, StorageFails, Register, Unregister, Toggle, ToggleNotFound,
         Disconnect, BackgroundFlush, Restart, history
<1>b. /\ \A r \in Requests : req[r].op = "create" /\ req[r].peer = p =>
           /\ mem[p] = "absent"
           /\ Unsettled(r) => db[p] = "active"
      /\ (\A r \in Requests : req[r].peer = p => ~Unsettled(r)) => mem[p] = db[p]
      /\ (\A r \in Requests : req[r].peer = p => req[r].pc # "flush")
           => db[p] = disk[p]
  BY <1>a DEF QuietInv
<1>c. /\ \A r \in Requests : req[r] \in Request \cup {Idle}
      /\ req \in [Requests -> Request \cup {Idle}]
      /\ db \in [Peers -> Record]
      /\ disk \in [Peers -> Record]
      /\ mem \in [Peers -> Record]
  BY DEF IInv, TypeOK
<1>d. \A r \in Requests : req[r].op = "delete" => req[r].peer # p
  BY <1>a DEF IInv, BirthInv
<1>e. \A r \in Requests :
        At(r, "toggle", "store") => mem[req[r].peer] # "absent"
  BY NoneIsFresh DEF IInv, LockInv
<1> USE <1>a, <1>b, <1>c, <1>d
    DEF Unsettled, Idle, Request, Record, stores, history, Goto, Answer, At
<1>1. ASSUME NEW r \in Requests, NEW n \in Peers, StartCreate(r, n)
      PROVE  Goal
  <2>1. n = p => mem[p] = "absent"
    BY <1>1 DEF StartCreate, QuietInv
  <2> QED BY <1>1, <2>1 DEF StartCreate
<1>2. ASSUME NEW r \in Requests, NEW n \in Peers,
             StartDelete(r, n) \/ StartToggle(r, n)
      PROVE  Goal
  BY <1>2 DEF StartDelete, StartToggle
<1>3. ASSUME NEW r \in Requests, Store(r)
      PROVE  Goal
  <2>1. req[r] \in Request
    BY <1>3 DEF Store
  <2>2. req[r].op = "create" => Stored(r) = "active"
    BY DEF Stored
  <2>3. req[r].op = "toggle" =>
          Stored(r) = mem[req[r].peer] /\ mem[req[r].peer] # "absent"
    BY <1>3, <1>e DEF Stored, Store
  <2> QED BY <1>3, <2>1, <2>2, <2>3, <1>d DEF Store
<1>4. ASSUME NEW r \in Requests, Flush(r)
      PROVE  Goal
  BY <1>4 DEF Flush
<1>5. ASSUME NEW r \in Requests, FlushToggle(r)
      PROVE  Goal
  BY <1>5 DEF FlushToggle
<1>6. ASSUME NEW r \in Requests, StorageFails(r)
      PROVE  Goal
  BY <1>6 DEF StorageFails
<1>7. ASSUME NEW r \in Requests, Register(r)
      PROVE  Goal
  <2>1. \A q \in Requests : q # r /\ req[q].op = "create" => req[q].peer # req[r].peer
    BY <1>7 DEF Register, IInv, BirthInv
  <2> QED BY <1>7, <2>1 DEF Register
<1>8. ASSUME NEW r \in Requests, Unregister(r)
      PROVE  Goal
  BY <1>8 DEF Unregister
<1>9. ASSUME NEW r \in Requests, Toggle(r)
      PROVE  Goal
  BY <1>9 DEF Toggle
<1>10. ASSUME NEW r \in Requests, ToggleNotFound(r) \/ Disconnect(r)
       PROVE  Goal
  BY <1>10 DEF ToggleNotFound, Disconnect
<1>11. CASE BackgroundFlush
  BY <1>11 DEF BackgroundFlush
<1>12. CASE Restart
  BY <1>12 DEF Restart
<1>13. CASE UNCHANGED vars
  BY <1>13 DEF vars
<1> QED
  BY <1>1, <1>2, <1>3, <1>4, <1>5, <1>6, <1>7, <1>8, <1>9, <1>10, <1>11,
     <1>12, <1>13 DEF Next, Handle

-----------------------------------------------------------------------------
LEMMA Invariance == Spec => []IInv
<1>1. Init => IInv
  BY NoneIsFresh
  DEF Init, IInv, TypeOK, LockInv, BirthInv, StoreInv, Empty, Idle, Record, At
<1>2. IInv /\ [Next]_vars => IInv'
  BY TypeStep, LockStep, BirthStep, StoreStep DEF IInv
<1> QED BY <1>1, <1>2, PTL DEF Spec

\* The variables keep their types: create_peer, delete_peer and toggle_peer
\* leave no request, record or lock owner of any other kind.
THEOREM TypeCorrect == Spec => []TypeOK
<1>1. IInv => TypeOK
  BY DEF IInv
<1> QED BY <1>1, Invariance, PTL

\* A 201 of create_peer outlives every crash until somebody asks to delete
\* the peer.
THEOREM CreationIsDurable == Spec => []CreatedSurvives
<1>1. IInv => CreatedSurvives
  BY DEF IInv, TypeOK, BirthInv, StoreInv, CreatedSurvives
<1> QED BY <1>1, Invariance, PTL

\* A peer that connections are authenticated with is in the database, unless
\* its deletion was asked for.
THEOREM MapIsBacked == Spec => []ServedIsStored
<1>1. IInv => ServedIsStored
  BY DEF IInv, StoreInv, ServedIsStored
<1> QED BY <1>1, Invariance, PTL

\* Once its requests all came to their end, the map, the database and the disk
\* agree on a peer nobody deletes.
THEOREM StoresAgree == Spec => []AgreeWhenQuiet
<1>1. Init => QuietInv
  BY DEF Init, QuietInv, Empty, Idle, At, Unsettled
<1>2. IInv /\ QuietInv /\ [Next]_vars => QuietInv'
  BY QuietStep
<1>3. IInv /\ QuietInv => AgreeWhenQuiet
  BY DEF QuietInv, AgreeWhenQuiet
<1> QED BY <1>1, <1>2, <1>3, Invariance, PTL DEF Spec

\* Between restarts a deletion answered 200 is final in the map: only
\* create_peer adds an entry, and it never draws an id again.
THEOREM DeletionHolds == Spec => DeletedUntilRestart
<1>1. IInv /\ [Next]_vars =>
        [Restart \/ \A p \in deleted : mem[p] = "absent" => mem'[p] = "absent"]_vars
  <2> SUFFICES ASSUME IInv, [Next]_vars, ~Restart,
                      NEW p \in deleted, mem[p] = "absent"
               PROVE  mem'[p] = "absent"
    OBVIOUS
  <2>1. p \in Peers /\ p \in created
    BY DEF IInv, TypeOK, BirthInv
  <2>2. mem \in [Peers -> Record]
    BY DEF IInv, TypeOK
  <2>3. ASSUME NEW r \in Requests, Register(r)
        PROVE  mem'[p] = "absent"
    <3>1. req[r].peer # p
      BY <2>1, <2>3 DEF Register, At, IInv, BirthInv
    <3> QED BY <2>1, <2>2, <2>3, <3>1 DEF Register
  <2>4. ASSUME NEW r \in Requests, Unregister(r) \/ Toggle(r)
        PROVE  mem'[p] = "absent"
    BY <2>1, <2>2, <2>4 DEF Unregister, Toggle
  <2>5. CASE UNCHANGED mem
    BY <2>5
  <2> QED
    BY <2>3, <2>4, <2>5
    DEF Next, vars, Handle, StartCreate, StartDelete, StartToggle, Store, Flush,
        FlushToggle, StorageFails, ToggleNotFound, Disconnect, BackgroundFlush,
        stores
<1> QED BY <1>1, Invariance, PTL DEF Spec, DeletedUntilRestart
=============================================================================
