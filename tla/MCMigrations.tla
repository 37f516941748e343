---------------------------- MODULE MCMigrations ----------------------------
(***************************************************************************)
(* A project with two migrations for the run of MigrateOnlyAdds.  The      *)
(* first has a companion down file; the second begins with a comment and   *)
(* cannot be run twice.                                                    *)
(***************************************************************************)
EXTENDS Migrations, TLC
CONSTANTS p, q
MCWritten == {Up(1), Down(1), Up(2)}
MCTolerant == {Up(1), Down(1), Down(2)}
MCCommented == {Up(2)}
=============================================================================
