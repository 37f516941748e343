--------------------------- MODULE MCContentLocks ---------------------------
(* Small instances of ContentLocks for TLC. *)
EXTENDS ContentLocks, TLC

CONSTANTS alice, bob, a1, b1

MCUsers  == {alice, bob}

\* One tab each; closing a tab and opening it again makes the same user's second
\* acquire.
MCTabs2  == {a1, b1}
MCUserOf2 == a1 :> alice @@ b1 :> bob
=============================================================================
