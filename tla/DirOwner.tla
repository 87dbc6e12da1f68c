------------------------------ MODULE DirOwner ------------------------------
(***************************************************************************)
(* What the lock of a data directory promises (README: two MySqweel        *)
(* processes cannot open the directory concurrently): at any time at most  *)
(* one opener runs an embedded Lux server on the directory.                *)
(***************************************************************************)
CONSTANTS Threads, NoThread

VARIABLE owner

Init == owner = NoThread

Open(t) == owner = NoThread /\ owner' = t
Close == owner # NoThread /\ owner' = NoThread

Next == Close \/ \E t \in Threads : Open(t)

Spec == Init /\ [][Next]_owner
=============================================================================
