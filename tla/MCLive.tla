------------------------------- MODULE MCLive -------------------------------
(***************************************************************************)
(* What must eventually happen, in one run of TLC: each behaviour is one   *)
(* of the edit lock on an unreliable network, or of the content store with *)
(* its cron job, as `half' says; the other half stays as it begins.        *)
(***************************************************************************)
EXTENDS ContentLocks, TLC

CONSTANTS alice, bob, a1, b1

MCUsers   == {alice, bob}
MCTabs2   == {a1, b1}
MCUserOf2 == a1 :> alice @@ b1 :> bob

VARIABLES half, backend, record, over, terms, revs, page, req, now, edits, settled

\* A draft, and a post that is published although it is scheduled too: the form of
\* the editor sends any status with any date.
Site == INSTANCE Content WITH
        Slugs <- {"post"}, SeedSets <- {{}, {"post"}}, Users <- {"ann", "bob"},
        Statuses <- {"draft", "published"},
        Forms <- {[status |-> "draft", sched |-> 0], [status |-> "published", sched |-> 2]},
        Backends <- {"sqlite", "d1"}, MaxEdit <- 1, MaxNow <- 2

siteVars == <<backend, record, over, terms, revs, page, req, now, edits, settled>>
allVars  == <<half, vars, siteVars>>

\* Both backends of the site when it moves; one site when it does not.
MCInit ==
    /\ half \in {"locks", "site"}
    /\ Init /\ Site!Init
    /\ half = "locks" => backend = "sqlite" /\ record["post"] = Site!NoRecord

MCNext ==
    /\ UNCHANGED half
    /\ \/ half = "locks" /\ Next /\ UNCHANGED siteVars
       \/ half = "site"  /\ Site!Next /\ UNCHANGED vars

\* The fairness of each half, where that half moves: ContentLocks!Fairness and
\* Content!Fairness.
LocksFair ==
    /\ WF_vars(half = "locks" /\ Tick)
    /\ WF_vars(half = "locks" /\ \E m \in msgs : Serve(m))
    /\ WF_vars(half = "locks" /\ \E m \in msgs : Receive(m))
    /\ \A t \in Tabs : WF_vars(half = "locks" /\ Heartbeat(t))

SiteFair ==
    /\ WF_siteVars(half = "site" /\ Site!Tick)
    /\ \A u \in {"ann", "bob"} : WF_siteVars(half = "site" /\ Site!Statement(u))
    /\ SF_siteVars(half = "site" /\ Site!RunScheduled)

MCSpec == MCInit /\ [][MCNext]_allVars /\ LocksFair /\ SiteFair

-----------------------------------------------------------------------------
\* content-scheduling.ts: a publication that is scheduled for a second of the clock
\* takes place, or is cancelled, moved or overwritten.
ScheduleRuns == Site!ScheduleRuns
=============================================================================
