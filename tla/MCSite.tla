------------------------------- MODULE MCSite -------------------------------
(***************************************************************************)
(* The parts of Site in one run of TLC: each behaviour is one of a single  *)
(* part, named by `part', and the variables of the others stay as they     *)
(* begin.                                                                  *)
(***************************************************************************)
EXTENDS Site, TLC

CONSTANTS ann, bob

MCDraft == {[status |-> "draft", sched |-> 0]}

\* Only the content store has these two users.
MCSymmetry == Permutations({ann, bob})

\* An editor may do everything with posts, or edit what is their own, but nothing while
\* away from the desk: a deny on an attribute that is absent.
Action(ns, verb) == [ns |-> ns, verb |-> verb]
MCAlways  == [op |-> "always"]
IsOwner == [op |-> "same", left |-> "resource_owner", right |-> "user_id"]
OnDesk  == [op |-> "in", left |-> "user_team", values |-> {"desk"}]
Away    == [op |-> "not", of |-> OnDesk]

MCConditions == {IsOwner, OnDesk, Away}
MCPolicies ==
    {[effect |-> "allow", action |-> Action("posts", "*"),    condition |-> MCAlways],
     [effect |-> "allow", action |-> Action("posts", "edit"), condition |-> IsOwner],
     [effect |-> "deny",  action |-> Action("*", "*"),        condition |-> Away]}
MCActions ==
    {Action("posts", "edit"), Action("posts", "delete"), Action("pages", "edit")}

\* Three attachments, of which two share a name on WordPress.
MCWpName == [a \in 1..3 |-> IF a = 3 THEN 2 ELSE a]

\* A list that holds the database, as a caller of the library may give.
MCInclude == <<"src", ".data">>

VARIABLE part

Parts == {"content", "access", "media", "imports", "backups"}

\* All beginnings of the part that moves; one of each of the others.
MCInit ==
    /\ part \in Parts
    /\ SiteInit
    /\ part = "content" \/ (backend = "sqlite" /\ \A s \in Slugs : record[s] = NoRecord)
    /\ part = "media"   \/ mdBackend = "sqlite"
    /\ part = "imports" \/ imKind = "wix"

MCNext ==
    /\ UNCHANGED part
    /\ \/ part = "content" /\ InContent
       \/ part = "access"  /\ InAccess
       \/ part = "media"   /\ InMedia
       \/ part = "imports" /\ InImports
       \/ part = "backups" /\ InBackups

MCSpec == MCInit /\ [][MCNext]_<<part, siteVars>>
=============================================================================
