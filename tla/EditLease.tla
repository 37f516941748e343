------------------------------ MODULE EditLease ------------------------------
(***************************************************************************)
(* What the edit lock promises, whatever the backend: each slug has at     *)
(* most one holder, nobody takes a running lease from another user, and a  *)
(* lease that is not renewed runs out after TTL.                           *)
(***************************************************************************)
EXTENDS Naturals

CONSTANTS Slugs, Users, NoOne, TTL

VARIABLE lease

Free == [owner |-> NoOne, left |-> 0]

Init == lease = [s \in Slugs |-> Free]

\* A user takes a free slug or renews the lease it has.
Take(s, u) ==
    /\ lease[s].owner \in {NoOne, u}
    /\ lease' = [lease EXCEPT ![s] = [owner |-> u, left |-> TTL]]

GiveUp(s) ==
    /\ lease[s].owner # NoOne
    /\ lease' = [lease EXCEPT ![s] = Free]

\* Time passes for every lease at once; one that runs out is free.
Pass ==
    lease' = [s \in Slugs |-> IF lease[s].left <= 1 THEN Free
                              ELSE [lease[s] EXCEPT !.left = @ - 1]]

Next ==
    \/ \E s \in Slugs, u \in Users : Take(s, u)
    \/ \E s \in Slugs : GiveUp(s)
    \/ Pass

Spec == Init /\ [][Next]_lease
=============================================================================
