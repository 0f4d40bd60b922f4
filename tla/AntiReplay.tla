----------------------------- MODULE AntiReplay -----------------------------
(***************************************************************************)
(* What a replay filter promises, without a window: it remembers every id  *)
(* it let through, lets no id through twice, and gives up only on ids that *)
(* trail the newest one by WINDOW or more.                                 *)
(***************************************************************************)
EXTENDS Naturals

CONSTANTS Id,       \* packet ids
          WINDOW    \* how far an id may trail the newest accepted one

VARIABLES
  seen,     \* every id let through so far
  passed    \* how many packets were let through

\* No accepted id is WINDOW or more ahead of id.
Recent(id) == \A s \in seen : s < id + WINDOW

MayAccept(id) == id \notin seen /\ Recent(id)

Init ==
  /\ seen = {}
  /\ passed = 0

Accept(id) ==
  /\ MayAccept(id)
  /\ seen' = seen \cup {id}
  /\ passed' = passed + 1

Next == \E id \in Id : Accept(id)

Spec == Init /\ [][Next]_<<seen, passed>>
=============================================================================
