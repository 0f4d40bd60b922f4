----------------------------- MODULE PeerStore -----------------------------
(***************************************************************************)
(* The server's peers, kept twice: in the sled database (src/src/hideui/   *)
(* db.rs) and in the map in memory from which connections are              *)
(* authenticated (AppState::peers).  create_peer, delete_peer and          *)
(* toggle_peer (src/src/hideui/handlers.rs) change both, each in its own   *)
(* order, and HideUiServer::new loads the map from the database.           *)
(*                                                                         *)
(* Handlers run in parallel.  Only the map is under a lock; the write      *)
(* guard of create and delete covers one map operation (a single step), the*)
(* one of toggle also its two database calls.  A handler whose client      *)
(* disconnects is dropped at its await.                                    *)
(***************************************************************************)
EXTENDS Naturals

CONSTANTS
  Peers,      \* peer ids; create_peer draws a fresh one each time
  Requests,   \* requests that can be in flight at the same time
  None        \* no request, no peer

ASSUME NoneIsFresh == None \notin Requests \cup Peers

VARIABLES
  db,         \* sled's tree: per peer "absent", "active" or "inactive"
  disk,       \* what of it a crash leaves
  mem,        \* the map
  lock,       \* the toggle that holds the write guard, or None
  req,        \* per request: its operation, peer and position
  born,       \* history: ids create_peer has drawn
  created,    \* history: ids whose creation was answered 201
  doomed,     \* history: ids a delete_peer was started for
  deleted,    \* history: ids whose deletion was answered 200 after their
              \* creation was answered 201
  torn        \* history: ids of a request that failed half way, was dropped
              \* at its await or was in flight at a crash

stores == <<db, disk, mem>>
history == <<born, created, doomed, deleted, torn>>
vars == <<stores, lock, req, history>>

Record == {"absent", "active", "inactive"}

Idle == [op |-> "none", peer |-> None, pc |-> "idle"]

Request == [op : {"create", "delete", "toggle"}, peer : Peers,
            pc : {"store", "flush", "lock"}]

TypeOK ==
  /\ db \in [Peers -> Record]
  /\ disk \in [Peers -> Record]
  /\ mem \in [Peers -> Record]
  /\ lock \in Requests \cup {None}
  /\ req \in [Requests -> Request \cup {Idle}]
  /\ born \in SUBSET Peers
  /\ created \in SUBSET Peers
  /\ doomed \in SUBSET Peers
  /\ deleted \in SUBSET Peers
  /\ torn \in SUBSET Peers

Empty == [p \in Peers |-> "absent"]

Init ==
  /\ db = Empty /\ disk = Empty /\ mem = Empty
  /\ lock = None
  /\ req = [r \in Requests |-> Idle]
  /\ born = {} /\ created = {} /\ doomed = {} /\ deleted = {} /\ torn = {}

At(r, op, pc) == req[r].op = op /\ req[r].pc = pc

Goto(r, pc) == req' = [req EXCEPT ![r].pc = pc]

Answer(r) == req' = [req EXCEPT ![r] = Idle]

Flip(record) == IF record = "active" THEN "inactive" ELSE "active"

-----------------------------------------------------------------------------
\* A request arrives

StartCreate(r, p) ==
  /\ req[r] = Idle
  /\ p \notin born
  /\ req' = [req EXCEPT ![r] = [op |-> "create", peer |-> p, pc |-> "store"]]
  /\ born' = born \cup {p}
  /\ UNCHANGED <<stores, lock, created, doomed, deleted, torn>>

\* The panel knows an id from the answer to its creation or from list_peers,
\* which reads the database.
Known(p) == p \in created \/ db[p] # "absent"

StartDelete(r, p) ==
  /\ req[r] = Idle
  /\ Known(p)
  /\ req' = [req EXCEPT ![r] = [op |-> "delete", peer |-> p, pc |-> "store"]]
  /\ doomed' = doomed \cup {p}
  /\ UNCHANGED <<stores, lock, born, created, deleted, torn>>

StartToggle(r, p) ==
  /\ req[r] = Idle
  /\ Known(p)
  /\ req' = [req EXCEPT ![r] = [op |-> "toggle", peer |-> p, pc |-> "lock"]]
  /\ UNCHANGED <<stores, lock, history>>

-----------------------------------------------------------------------------
\* The database: save_peer and delete_peer are an insert or a remove, and a
\* flush.

\* Faulty variant of Stored: toggle saves the record as it was.
StoredBeforeFlip(r) ==
  CASE req[r].op = "create" -> "active"
    [] req[r].op = "delete" -> "absent"
    [] req[r].op = "toggle" -> Flip(mem[req[r].peer])

\* What the insert or remove of r leaves for its peer.
Stored(r) ==
  CASE req[r].op = "create" -> "active"
    [] req[r].op = "delete" -> "absent"
    [] req[r].op = "toggle" -> mem[req[r].peer]

Store(r) ==
  /\ req[r].pc = "store"
  /\ db' = [db EXCEPT ![req[r].peer] = Stored(r)]
  /\ Goto(r, "flush")
  /\ UNCHANGED <<disk, mem, lock, history>>

\* Faulty variant of Flush: none.
FlushSkipped(r) ==
  /\ At(r, "create", "flush") \/ At(r, "delete", "flush")
  /\ Goto(r, "lock")
  /\ UNCHANGED <<stores, lock, history>>

\* The flush of create and delete: they go on to ask for the map's lock.
Flush(r) ==
  /\ At(r, "create", "flush") \/ At(r, "delete", "flush")
  /\ disk' = db
  /\ Goto(r, "lock")
  /\ UNCHANGED <<db, mem, lock, history>>

\* The flush of toggle: its last step; 200 and the guard is dropped.
FlushToggle(r) ==
  /\ At(r, "toggle", "flush")
  /\ disk' = db
  /\ lock' = None
  /\ Answer(r)
  /\ UNCHANGED <<db, mem, history>>

\* Faulty variant of StorageFails: create_peer logs the error and goes on.
StorageFailsIgnored(r) ==
  /\ req[r].pc \in {"store", "flush"}
  /\ lock' = IF lock = r THEN None ELSE lock
  /\ IF req[r].op = "create" THEN Goto(r, "lock") ELSE Answer(r)
  /\ torn' = torn \cup {req[r].peer}
  /\ UNCHANGED <<stores, born, created, doomed, deleted>>

\* An error of the insert or the flush is answered 500 at once; what was
\* changed before it stays.
StorageFails(r) ==
  /\ req[r].pc \in {"store", "flush"}
  /\ lock' = IF lock = r THEN None ELSE lock
  /\ Answer(r)
  /\ torn' = torn \cup {req[r].peer}
  /\ UNCHANGED <<stores, born, created, doomed, deleted>>

\* sled flushes by itself from time to time.
BackgroundFlush ==
  /\ disk # db
  /\ disk' = db
  /\ UNCHANGED <<db, mem, lock, req, history>>

-----------------------------------------------------------------------------
\* The map

\* create_peer inserts its peer and answers 201.
Register(r) ==
  /\ At(r, "create", "lock") /\ lock = None
  /\ mem' = [mem EXCEPT ![req[r].peer] = "active"]
  /\ created' = created \cup {req[r].peer}
  /\ Answer(r)
  /\ UNCHANGED <<db, disk, lock, born, doomed, deleted, torn>>

\* delete_peer removes its peer and answers 200.
Unregister(r) ==
  /\ At(r, "delete", "lock") /\ lock = None
  /\ mem' = [mem EXCEPT ![req[r].peer] = "absent"]
  /\ deleted' = deleted \cup ({req[r].peer} \cap created)
  /\ Answer(r)
  /\ UNCHANGED <<db, disk, lock, born, created, doomed, torn>>

\* Faulty variant of Toggle: a peer that is not in the map is put there.
ToggleUpserts(r) ==
  /\ At(r, "toggle", "lock") /\ lock = None
  /\ mem' = [mem EXCEPT ![req[r].peer] = Flip(@)]
  /\ lock' = r
  /\ Goto(r, "store")
  /\ UNCHANGED <<db, disk, history>>

\* toggle_peer flips its peer and keeps the guard ...
Toggle(r) ==
  /\ At(r, "toggle", "lock") /\ lock = None
  /\ mem[req[r].peer] # "absent"
  /\ mem' = [mem EXCEPT ![req[r].peer] = Flip(@)]
  /\ lock' = r
  /\ Goto(r, "store")
  /\ UNCHANGED <<db, disk, history>>

\* ... or answers 404.
ToggleNotFound(r) ==
  /\ At(r, "toggle", "lock") /\ lock = None
  /\ mem[req[r].peer] = "absent"
  /\ Answer(r)
  /\ UNCHANGED <<stores, lock, history>>

\* The client is gone while its handler waits for the lock.
Disconnect(r) ==
  /\ req[r].pc = "lock"
  /\ Answer(r)
  /\ torn' = IF req[r].op = "toggle" THEN torn ELSE torn \cup {req[r].peer}
  /\ UNCHANGED <<stores, lock, born, created, doomed, deleted>>

-----------------------------------------------------------------------------
\* The process dies and HideUiServer::new loads the map.
Restart ==
  /\ db' = disk
  /\ mem' = disk
  /\ lock' = None
  /\ req' = [r \in Requests |-> Idle]
  /\ torn' = torn \cup {req[r].peer : r \in {q \in Requests : req[q] # Idle}}
  /\ UNCHANGED <<disk, born, created, doomed, deleted>>

Handle(r) ==
  \/ Store(r) \/ Flush(r) \/ FlushToggle(r) \/ StorageFails(r)
  \/ Register(r) \/ Unregister(r) \/ Toggle(r) \/ ToggleNotFound(r)

Next ==
  \/ \E r \in Requests :
       \/ \E p \in Peers : StartCreate(r, p) \/ StartDelete(r, p) \/ StartToggle(r, p)
       \/ Handle(r)
       \/ Disconnect(r)
  \/ BackgroundFlush
  \/ Restart

Spec == Init /\ [][Next]_vars

-----------------------------------------------------------------------------
\* A peer whose creation was answered 201 survives every crash until somebody
\* asks to delete it, whatever toggles of it fail or are cut short.
CreatedSurvives == \A p \in created \ doomed : disk[p] # "absent"

\* A peer that connections are authenticated with is in the database too,
\* unless its deletion was asked for: also a peer whose saves failed half way
\* or whose handlers were dropped.
ServedIsStored == \A p \in Peers \ doomed : mem[p] # "absent" => db[p] # "absent"

\* Once nothing is in flight for a peer nobody deletes and whose requests all
\* came to their end, the map, the database and the disk agree on it.
AgreeWhenQuiet ==
  \A p \in Peers \ (doomed \cup torn) :
    (\A r \in Requests : req[r].peer # p) => mem[p] = db[p] /\ db[p] = disk[p]

\* A deletion answered 200 takes effect at once: until the next restart no
\* toggle in flight puts the peer back into the map.
DeletedUntilRestart ==
  [][Restart \/ \A p \in deleted : mem[p] = "absent" => mem'[p] = "absent"]_vars

\* "Peer deleted successfully": the peer does not come back into the database.
DeletedStaysDeleted == \A p \in deleted : db[p] = "absent"
=============================================================================
