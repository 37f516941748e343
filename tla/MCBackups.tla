------------------------------ MODULE MCBackups ------------------------------
(* The backup of a whole project with the list the command line uses. *)
EXTENDS Backups

MCInclude == DefaultEntries
MCEntries == {DefaultEntries[i] : i \in 1..Len(DefaultEntries)} \cup {".data"}
=============================================================================
