------------------------------ MODULE MCStores ------------------------------
(***************************************************************************)
(* The stores of Stores in one run of TLC: each behaviour is one of a      *)
(* single store, named by `store', and the variables of the others stay as *)
(* they begin.                                                             *)
(***************************************************************************)
EXTENDS Stores, TLC

CONSTANTS c1, c2, c3

MCDomainOf == [p \in Providers |-> "newsletter"]

\* Two clients of one user and one of another.
MCUserOf == [c \in {c1, c2, "b1"} |-> IF c = "b1" THEN "bob" ELSE "alice"]

\* Two migrations, of which the first can be undone.
MCWritten   == {[of |-> 1, down |-> FALSE], [of |-> 1, down |-> TRUE], [of |-> 2, down |-> FALSE]}
MCTolerant  == {[of |-> 1, down |-> FALSE], [of |-> 1, down |-> TRUE], [of |-> 2, down |-> TRUE]}
MCCommented == {[of |-> 2, down |-> FALSE]}

VARIABLE store

\* Both backends of the store that moves; one of the others.
MCInit ==
    /\ store \in {"integrations", "integrations_d1", "locks", "schema", "messages", "limits",
                  "registry"}
    /\ StoresInit
    /\ store = "schema"   \/ mgBackend = "sqlite"
    /\ store = "messages" \/ flBackend = "sqlite"
    /\ store = "limits"   \/ rlBackend = "sqlite"
    /\ store = "registry" \/ (rtBackend = "sqlite" /\ \A p \in RtPaths : rtSeeds[p] = 0)

MCNext ==
    /\ UNCHANGED store
    /\ \/ store = "integrations"    /\ InIntegrations
       \/ store = "integrations_d1" /\ InD1
       \/ store = "locks"           /\ InLocks
       \/ store = "schema"          /\ InSchema
       \/ store = "messages"        /\ InMessages
       \/ store = "limits"          /\ InLimits
       \/ store = "registry"        /\ InRegistry

\* Two requests of each store do the same things.
MCSymmetry == Permutations({c1, c2})

MCSpec == MCInit /\ [][MCNext]_<<store, storesVars>>
=============================================================================
