----------------------------- MODULE MCContent -----------------------------
(***************************************************************************)
(* Small instances of Content for the runs that refute what a comment, a   *)
(* test or the API's description says: one draft form, one or two users.   *)
(***************************************************************************)
EXTENDS Content

CONSTANTS ann, bob

MCDraft == {[status |-> "draft", sched |-> 0]}
=============================================================================
