--------------------------- MODULE MCIntegrations ---------------------------
(* Small instances of Integrations for TLC. *)
EXTENDS Integrations, TLC

CONSTANTS c1, c2, c3

MCDomainOf == [p \in Providers |-> IF p = 3 THEN "search" ELSE "newsletter"]
=============================================================================
