----------------------------- MODULE MCAccounts -----------------------------
(* A small instance of Accounts for TLC. *)
EXTENDS Accounts, TLC

CONSTANTS ada, bob, r1, r2, s1, s2, l1, l2

\* Resets; suspensions that are lifted; invitations and erasure.
MCMixes == {{"login", "issue", "reset"},
            {"login", "suspend", "restore", "erase"},
            {"login", "invite", "accept", "delete"}}

MCSymmetry == Permutations({ada, bob}) \cup Permutations({r1, r2})
              \cup Permutations({s1, s2}) \cup Permutations({l1, l2})
=============================================================================
