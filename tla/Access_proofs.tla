---------------------------- MODULE Access_proofs ----------------------------
(***************************************************************************)
(* Decisions by torn snapshots, for any users, roles, policies, conditions *)
(* and changes.  The argument: each of the parts a request has read is the *)
(* part of something that stood in the tables while it loaded, so what     *)
(* stood all the while is in every part, and what is in a part stood at    *)
(* some moment.  What a condition computes is never looked into.           *)
(***************************************************************************)
EXTENDS Access, TLAPS

\* What the constants are.
Constants == MaxChange \in Nat

Loading(r) == req[r].at \in {"begun", "reads"}

\* A request that loads has seen what stands in the tables now.
Witnessed == \A r \in Requests : Loading(r) => Standings(req[r].user) \in seen[r]

\* A part that was read is a part of something seen.
PartsSeen(r) ==
    /\ "rolePolicies" \notin req[r].left => \E s \in seen[r] : req[r].roles = s.roles
    /\ "direct" \notin req[r].left => \E s \in seen[r] : req[r].direct = s.direct
    /\ "attributes" \notin req[r].left => \E s \in seen[r] : req[r].team = s.team

Snapshot(r) ==
    /\ req[r].at = "begun" => req[r].roles = {} /\ req[r].direct = {} /\ ~req[r].known
    /\ req[r].at = "reads" => req[r].known /\ PartsSeen(r)
    /\ req[r].at = "ready" /\ req[r].known => req[r].left = {} /\ PartsSeen(r)
    /\ req[r].at = "ready" /\ ~req[r].known =>
         req[r].roles = {} /\ req[r].direct = {} /\ \E s \in seen[r] : ~s.active

Snapshots == \A r \in Requests : Snapshot(r)

AccessInv == TypeOK /\ Witnessed /\ Snapshots

-----------------------------------------------------------------------------
LEMMA StandingsTyped ==
    ASSUME TypeOK, NEW u \in Users
    PROVE  Standings(u) \in Standing
  BY DEF TypeOK, Standings, Standing

LEMMA IdleTyped ==
    ASSUME NEW u \in Users
    PROVE  Idle(u) \in Request /\ Idle(u).at = "idle" /\ Idle(u).user = u
  BY DEF Idle, Request

LEMMA AccessInit == ASSUME Constants PROVE Init => AccessInv
<1> SUFFICES ASSUME Init PROVE AccessInv
  OBVIOUS
<1>1. \A r \in Requests : \E u \in Users : req[r] = Idle(u)
  BY DEF Init
<1>2. req \in [Requests -> Request]
  BY <1>1, IdleTyped DEF Init
<1>3. changes \in 0..MaxChange
  BY DEF Init, Constants
<1>4. TypeOK
  BY <1>2, <1>3 DEF Init, TypeOK
<1>5. \A r \in Requests : req[r].at = "idle"
  BY <1>1, IdleTyped
<1> QED
  BY <1>4, <1>5 DEF AccessInv, Witnessed, Snapshots, Snapshot, Loading

\* The tables keep their types; rows of a role or an account that goes, go with it.
TablesOK ==
    /\ account \in [Users -> {"active", "suspended", "gone"}]
    /\ roles \subseteq Roles
    /\ rolePolicies \subseteq roles \X Policies
    /\ userRoles \subseteq {u \in Users : account[u] # "gone"} \X roles
    /\ direct \subseteq {u \in Users : account[u] # "gone"} \X Policies
    /\ team \in [Users -> Teams \cup {Missing}]

LEMMA RolesTyped ==
    ASSUME TablesOK, NEW r \in Roles, CreateRole(r) \/ DeleteRole(r)
    PROVE  TablesOK'
  BY DEF TablesOK, CreateRole, DeleteRole

LEMMA RolePoliciesTyped ==
    ASSUME TablesOK, NEW r \in Roles, NEW p \in Policies,
           AddRolePolicy(r, p) \/ RemoveRolePolicy(r, p)
    PROVE  TablesOK'
  BY DEF TablesOK, AddRolePolicy, RemoveRolePolicy

LEMMA AssignmentsTyped ==
    ASSUME TablesOK, NEW u \in Users, NEW r \in Roles, AssignRole(u, r) \/ RevokeRole(u, r)
    PROVE  TablesOK'
  BY DEF TablesOK, AssignRole, RevokeRole

LEMMA GrantsTyped ==
    ASSUME TablesOK, NEW u \in Users, NEW p \in Policies,
           AddDirectGrant(u, p) \/ RemoveDirectGrant(u, p)
    PROVE  TablesOK'
  BY DEF TablesOK, AddDirectGrant, RemoveDirectGrant

LEMMA AccountsTyped ==
    ASSUME TablesOK, NEW u \in Users,
           \/ Erase(u) \/ \E state \in {"active", "suspended"} : SetActive(u, state)
           \/ \E t \in Teams \cup {Missing} : SetTeam(u, t)
    PROVE  TablesOK'
<1>1. CASE \E t \in Teams \cup {Missing} : SetTeam(u, t)
  BY <1>1 DEF TablesOK, SetTeam
<1>2. CASE \E state \in {"active", "suspended"} : SetActive(u, state)
  BY <1>2 DEF TablesOK, SetActive
<1>3. CASE Erase(u)
  BY <1>3 DEF TablesOK, Erase
<1> QED
  BY <1>1, <1>2, <1>3

\* A change of the tables adds what stands now to what loading requests have seen.
LEMMA AccessChange ==
    ASSUME Constants, AccessInv, TablesOK', Change
    PROVE  AccessInv'
<1>0. TypeOK /\ req' = req /\ Witness
  BY DEF AccessInv, Change
<1>1. \A r \in Requests :
        seen'[r] = IF Loading(r) THEN seen[r] \cup {Standings(req[r].user)'} ELSE seen[r]
  BY <1>0 DEF Witness, Loading
<1>2. \A u \in Users : Standings(u)' \in Standing
  BY DEF TablesOK, Standings, Standing
<1>3. TypeOK'
  <2>1. changes' \in 0..MaxChange
    BY <1>0 DEF Change, TypeOK, Constants
  <2>2. \A r \in Requests : req[r].user \in Users
    BY <1>0 DEF TypeOK, Request
  <2>3. \A r \in Requests : Standings(req[r].user)' \in Standing
    BY <1>0, <1>2, <2>2 DEF Standings
  <2>4. seen' \in [Requests -> SUBSET Standing]
    BY <1>0, <1>1, <2>3 DEF TypeOK, Witness
  <2> QED
    BY <1>0, <2>1, <2>4 DEF TypeOK, TablesOK
<1>4. Witnessed'
  BY <1>0, <1>1 DEF Witnessed, Loading
<1>5. \A r \in Requests : seen[r] \subseteq seen'[r]
  BY <1>1
<1>6. Snapshots'
  BY <1>0, <1>5 DEF AccessInv, Snapshots, Snapshot, PartsSeen
<1> QED
  BY <1>3, <1>4, <1>6 DEF AccessInv

LEMMA AccessManage == ASSUME Constants, AccessInv, Manage PROVE AccessInv'
<1>1. TablesOK
  BY DEF AccessInv, TypeOK, TablesOK
<1>2. TablesOK'
  BY <1>1, RolesTyped, RolePoliciesTyped, AssignmentsTyped, GrantsTyped, AccountsTyped DEF Manage
<1>3. Change
  BY DEF Manage, CreateRole, DeleteRole, AddRolePolicy, RemoveRolePolicy, AssignRole, RevokeRole,
         AddDirectGrant, RemoveDirectGrant, SetTeam, Erase, SetActive
<1> QED
  BY <1>2, <1>3, AccessChange

-----------------------------------------------------------------------------
\* A step of one request: its own entries change, to what the invariant asks of them.
LEMMA Loads ==
    ASSUME AccessInv, NEW r \in Requests, NEW q \in Request, NEW S \in SUBSET Standing,
           req' = [req EXCEPT ![r] = q], seen' = [seen EXCEPT ![r] = S],
           UNCHANGED <<tables, changes>>,
           q.at \in {"begun", "reads"} => Standings(q.user) \in S,
           Snapshot(r)'
    PROVE  AccessInv'
<1>0. TypeOK /\ Witnessed /\ Snapshots
  BY DEF AccessInv
<1>1. req' \in [Requests -> Request] /\ seen' \in [Requests -> SUBSET Standing]
  BY <1>0 DEF TypeOK
<1>2. TypeOK'
  BY <1>0, <1>1 DEF TypeOK, tables
<1>3. /\ req'[r] = q /\ seen'[r] = S
      /\ \A o \in Requests \ {r} : req'[o] = req[o] /\ seen'[o] = seen[o]
  BY <1>0 DEF TypeOK
<1>4. \A u : Standings(u)' = Standings(u)
  BY DEF Standings, tables
<1>5. Witnessed'
  BY <1>0, <1>3, <1>4 DEF Witnessed, Loading
<1>6. Snapshots'
  <2> SUFFICES ASSUME NEW o \in Requests PROVE Snapshot(o)'
    BY DEF Snapshots
  <2>1. CASE o = r
    BY <2>1
  <2>2. CASE o # r
    BY <1>0, <1>3, <2>2 DEF Snapshots, Snapshot, PartsSeen
  <2> QED
    BY <2>1, <2>2
<1> QED
  BY <1>2, <1>5, <1>6 DEF AccessInv

LEMMA AccessBegin ==
    ASSUME AccessInv, NEW r \in Requests, NEW u \in Users, Begin(r, u)
    PROVE  AccessInv'
<1> DEFINE q == [Idle(u) EXCEPT !.at = "begun", !.admin = u \in Admins]
<1>0. TypeOK
  BY DEF AccessInv
<1>1. /\ q \in Request /\ q.at = "begun" /\ q.user = u
      /\ q.roles = {} /\ q.direct = {} /\ ~q.known
  <2> DEFINE b == u \in Admins
  <2>1. b \in BOOLEAN
    OBVIOUS
  <2>2. q = [Idle(u) EXCEPT !.at = "begun", !.admin = b]
    OBVIOUS
  <2> HIDE DEF b, q
  <2> QED
    BY <2>1, <2>2 DEF Idle, Request
<1>2. {Standings(u)} \in SUBSET Standing
  BY <1>0, StandingsTyped
<1>3. req' = [req EXCEPT ![r] = q] /\ seen' = [seen EXCEPT ![r] = {Standings(u)}]
  BY DEF Begin
<1>4. req'[r] = q
  BY <1>0, <1>3 DEF TypeOK
<1> HIDE DEF q
<1>5. Snapshot(r)'
  BY <1>1, <1>4 DEF Snapshot
<1> QED
  BY <1>1, <1>2, <1>3, <1>5, Loads DEF Begin

\* seen stays as it is: the form Loads asks for.
LEMMA SeenStays ==
    ASSUME TypeOK, NEW r \in Requests, UNCHANGED seen
    PROVE  seen[r] \in SUBSET Standing /\ seen' = [seen EXCEPT ![r] = seen[r]]
  BY DEF TypeOK

LEMMA AccessReadAccount ==
    ASSUME AccessInv, NEW r \in Requests, ReadAccount(r)
    PROVE  AccessInv'
<1> DEFINE q == IF account[req[r].user] = "active"
                  THEN [req[r] EXCEPT !.at = "reads", !.known = TRUE, !.left = Parts]
                  ELSE [req[r] EXCEPT !.at = "ready"]
<1>0. TypeOK /\ Witnessed /\ Snapshots /\ req[r] \in Request
  BY DEF AccessInv, TypeOK
<1>1. q \in Request /\ q.user = req[r].user
  BY <1>0 DEF Request, Parts
<1>2. req' = [req EXCEPT ![r] = q] /\ req'[r] = q
  BY <1>0 DEF ReadAccount, TypeOK
<1>3. Standings(req[r].user) \in seen[r]
  BY <1>0 DEF ReadAccount, Witnessed, Loading
<1>4. Snapshot(r)'
  <2>1. CASE account[req[r].user] = "active"
    <3>1. q.at = "reads" /\ q.known /\ q.left = Parts
      BY <1>0, <2>1 DEF Request
    <3> QED
      BY <1>2, <3>1 DEF Snapshot, PartsSeen, Parts
  <2>2. CASE account[req[r].user] # "active"
    <3>1. q.at = "ready" /\ q.known = req[r].known /\ q.roles = req[r].roles
          /\ q.direct = req[r].direct
      BY <1>0, <2>2 DEF Request
    <3>2. req[r].roles = {} /\ req[r].direct = {} /\ ~req[r].known
      BY <1>0 DEF Snapshots, Snapshot, ReadAccount
    <3>3. ~Standings(req[r].user).active
      BY <2>2 DEF Standings
    <3>4. \E s \in seen'[r] : ~s.active
      BY <1>3, <3>3 DEF ReadAccount
    <3> HIDE DEF q
    <3> QED
      BY <1>2, <3>1, <3>2, <3>4 DEF Snapshot
  <2> QED
    BY <2>1, <2>2
<1> HIDE DEF q
<1> QED
  BY <1>0, <1>1, <1>2, <1>3, <1>4, Loads, SeenStays DEF ReadAccount

LEMMA EndedTyped ==
    ASSUME NEW q \in Request, NEW part \in Parts, part \in q.left
    PROVE  /\ Ended(q, part) \in Request
           /\ Ended(q, part).left = q.left \ {part}
           /\ Ended(q, part).at = "ready" => Ended(q, part).left = {}
           /\ Ended(q, part).at \in {"reads", "ready"}
           /\ Ended(q, part).user = q.user /\ Ended(q, part).known = q.known
           /\ Ended(q, part).roles = q.roles /\ Ended(q, part).direct = q.direct
           /\ Ended(q, part).team = q.team
  BY DEF Ended, Request, Parts

\* One part is read: q is the request after it.
LEMMA AccessReads ==
    ASSUME AccessInv, NEW r \in Requests, NEW part \in Parts, NEW q \in Request,
           req[r].at = "reads", part \in req[r].left,
           req' = [req EXCEPT ![r] = q], UNCHANGED <<tables, changes, seen>>,
           q.left = req[r].left \ {part}, q.at = "ready" => q.left = {},
           q.at \in {"reads", "ready"}, q.user = req[r].user, q.known = req[r].known,
           q.roles = IF part = "rolePolicies" THEN Standings(q.user).roles ELSE req[r].roles,
           q.direct = IF part = "direct" THEN Standings(q.user).direct ELSE req[r].direct,
           q.team = IF part = "attributes" THEN Standings(q.user).team ELSE req[r].team
    PROVE  AccessInv'
<1>0. TypeOK /\ Witnessed /\ Snapshots
  BY DEF AccessInv
<1>1. Standings(q.user) \in seen[r]
  BY <1>0 DEF Witnessed, Loading
<1>2. req[r].known /\ PartsSeen(r)
  BY <1>0 DEF Snapshots, Snapshot
<1>3. req'[r] = q /\ seen' = seen
  BY <1>0 DEF TypeOK
<1>4. PartsSeen(r)'
  <2>1. "rolePolicies" \notin q.left => \E s \in seen[r] : q.roles = s.roles
    BY <1>1, <1>2 DEF PartsSeen
  <2>2. "direct" \notin q.left => \E s \in seen[r] : q.direct = s.direct
    BY <1>1, <1>2 DEF PartsSeen
  <2>3. "attributes" \notin q.left => \E s \in seen[r] : q.team = s.team
    BY <1>1, <1>2 DEF PartsSeen
  <2> QED
    BY <1>3, <2>1, <2>2, <2>3 DEF PartsSeen
<1>5. Snapshot(r)'
  BY <1>2, <1>3, <1>4 DEF Snapshot
<1> QED
  BY <1>0, <1>1, <1>5, Loads, SeenStays

LEMMA AccessReadRolePolicies ==
    ASSUME AccessInv, NEW r \in Requests, ReadRolePolicies(r)
    PROVE  AccessInv'
<1> DEFINE e == Ended(req[r], "rolePolicies")
           q == [e EXCEPT !.roles = Standings(req[r].user).roles]
<1>0. TypeOK /\ req[r] \in Request /\ "rolePolicies" \in Parts
  BY DEF AccessInv, TypeOK, Parts
<1>1. Standings(req[r].user) \in Standing
  BY <1>0, StandingsTyped DEF Request
<1>2. /\ e \in Request /\ e.left = req[r].left \ {"rolePolicies"}
      /\ e.at = "ready" => e.left = {}
      /\ e.at \in {"reads", "ready"} /\ e.user = req[r].user /\ e.known = req[r].known
      /\ e.direct = req[r].direct /\ e.team = req[r].team
  BY <1>0, EndedTyped DEF ReadRolePolicies
<1>3. req' = [req EXCEPT ![r] = q]
  BY <1>0 DEF ReadRolePolicies, TypeOK
<1> HIDE DEF e
<1>4. /\ q \in Request /\ q.roles = Standings(req[r].user).roles
      /\ q.left = e.left /\ q.at = e.at /\ q.user = e.user /\ q.known = e.known
      /\ q.direct = e.direct /\ q.team = e.team
  BY <1>1, <1>2 DEF Request, Standing
<1> HIDE DEF q
<1>5. /\ req[r].at = "reads" /\ "rolePolicies" \in req[r].left
      /\ UNCHANGED <<tables, changes, seen>>
  BY DEF ReadRolePolicies
<1>6. /\ q.left = req[r].left \ {"rolePolicies"}
      /\ q.at = "ready" => q.left = {}
      /\ q.at \in {"reads", "ready"} /\ q.user = req[r].user /\ q.known = req[r].known
      /\ q.roles = IF "rolePolicies" = "rolePolicies" THEN Standings(q.user).roles ELSE req[r].roles
      /\ q.direct = IF "rolePolicies" = "direct" THEN Standings(q.user).direct ELSE req[r].direct
      /\ q.team = IF "rolePolicies" = "attributes" THEN Standings(q.user).team ELSE req[r].team
  BY <1>2, <1>4
<1> QED
  BY <1>0, <1>3, <1>4, <1>5, <1>6, AccessReads

LEMMA AccessReadDirect ==
    ASSUME AccessInv, NEW r \in Requests, ReadDirect(r)
    PROVE  AccessInv'
<1> DEFINE e == Ended(req[r], "direct")
           q == [e EXCEPT !.direct = Standings(req[r].user).direct]
<1>0. TypeOK /\ req[r] \in Request /\ "direct" \in Parts
  BY DEF AccessInv, TypeOK, Parts
<1>1. Standings(req[r].user) \in Standing
  BY <1>0, StandingsTyped DEF Request
<1>2. /\ e \in Request /\ e.left = req[r].left \ {"direct"}
      /\ e.at = "ready" => e.left = {}
      /\ e.at \in {"reads", "ready"} /\ e.user = req[r].user /\ e.known = req[r].known
      /\ e.roles = req[r].roles /\ e.team = req[r].team
  BY <1>0, EndedTyped DEF ReadDirect
<1>3. req' = [req EXCEPT ![r] = q]
  BY <1>0 DEF ReadDirect, TypeOK
<1> HIDE DEF e
<1>4. /\ q \in Request /\ q.direct = Standings(req[r].user).direct
      /\ q.left = e.left /\ q.at = e.at /\ q.user = e.user /\ q.known = e.known
      /\ q.roles = e.roles /\ q.team = e.team
  BY <1>1, <1>2 DEF Request, Standing
<1> HIDE DEF q
<1>5. /\ req[r].at = "reads" /\ "direct" \in req[r].left
      /\ UNCHANGED <<tables, changes, seen>>
  BY DEF ReadDirect
<1>6. /\ q.left = req[r].left \ {"direct"}
      /\ q.at = "ready" => q.left = {}
      /\ q.at \in {"reads", "ready"} /\ q.user = req[r].user /\ q.known = req[r].known
      /\ q.roles = IF "direct" = "rolePolicies" THEN Standings(q.user).roles ELSE req[r].roles
      /\ q.direct = IF "direct" = "direct" THEN Standings(q.user).direct ELSE req[r].direct
      /\ q.team = IF "direct" = "attributes" THEN Standings(q.user).team ELSE req[r].team
  BY <1>2, <1>4
<1> QED
  BY <1>0, <1>3, <1>4, <1>5, <1>6, AccessReads

LEMMA AccessReadAttributes ==
    ASSUME AccessInv, NEW r \in Requests, ReadAttributes(r)
    PROVE  AccessInv'
<1> DEFINE e == Ended(req[r], "attributes")
           q == [e EXCEPT !.team = team[req[r].user]]
<1>0. TypeOK /\ req[r] \in Request /\ "attributes" \in Parts
  BY DEF AccessInv, TypeOK, Parts
<1>1. /\ Standings(req[r].user) \in Standing
      /\ team[req[r].user] = Standings(req[r].user).team
  BY <1>0, StandingsTyped DEF Request, Standings
<1>2. /\ e \in Request /\ e.left = req[r].left \ {"attributes"}
      /\ e.at = "ready" => e.left = {}
      /\ e.at \in {"reads", "ready"} /\ e.user = req[r].user /\ e.known = req[r].known
      /\ e.roles = req[r].roles /\ e.direct = req[r].direct
  BY <1>0, EndedTyped DEF ReadAttributes
<1>3. req' = [req EXCEPT ![r] = q]
  BY <1>0 DEF ReadAttributes, TypeOK
<1> HIDE DEF e
<1>4. /\ q \in Request /\ q.team = Standings(req[r].user).team
      /\ q.left = e.left /\ q.at = e.at /\ q.user = e.user /\ q.known = e.known
      /\ q.roles = e.roles /\ q.direct = e.direct
  BY <1>1, <1>2 DEF Request, Standing
<1> HIDE DEF q
<1>5. /\ req[r].at = "reads" /\ "attributes" \in req[r].left
      /\ UNCHANGED <<tables, changes, seen>>
  BY DEF ReadAttributes
<1>6. /\ q.left = req[r].left \ {"attributes"}
      /\ q.at = "ready" => q.left = {}
      /\ q.at \in {"reads", "ready"} /\ q.user = req[r].user /\ q.known = req[r].known
      /\ q.roles = IF "attributes" = "rolePolicies" THEN Standings(q.user).roles ELSE req[r].roles
      /\ q.direct = IF "attributes" = "direct" THEN Standings(q.user).direct ELSE req[r].direct
      /\ q.team = IF "attributes" = "attributes" THEN Standings(q.user).team ELSE req[r].team
  BY <1>2, <1>4
<1> QED
  BY <1>0, <1>3, <1>4, <1>5, <1>6, AccessReads

LEMMA AccessEnd ==
    ASSUME AccessInv, NEW r \in Requests, End(r)
    PROVE  AccessInv'
<1> DEFINE q == Idle(req[r].user)
<1>0. TypeOK /\ req[r].user \in Users
  BY DEF AccessInv, TypeOK, Request
<1>1. q \in Request /\ q.at = "idle"
  BY <1>0, IdleTyped
<1>2. req' = [req EXCEPT ![r] = q] /\ req'[r] = q
  BY <1>0 DEF End, TypeOK
<1> HIDE DEF q
<1>3. Snapshot(r)'
  BY <1>1, <1>2 DEF Snapshot
<1>4. {} \in SUBSET Standing
  OBVIOUS
<1> QED
  BY <1>1, <1>2, <1>3, <1>4, Loads DEF End

LEMMA AccessStep == ASSUME Constants, AccessInv, [Next]_vars PROVE AccessInv'
<1>1. CASE Manage
  BY <1>1, AccessManage
<1>2. ASSUME NEW r \in Requests, Load(r) PROVE AccessInv'
  BY <1>2, AccessBegin, AccessReadAccount, AccessReadRolePolicies, AccessReadDirect,
     AccessReadAttributes, AccessEnd DEF Load
<1>3. CASE UNCHANGED vars
  BY <1>3 DEF vars, tables, AccessInv, TypeOK, Witnessed, Snapshots, Snapshot, Loading,
              PartsSeen, Standings
<1> QED
  BY <1>1, <1>2, <1>3 DEF Next

\* What a request has read stood in the tables while it loaded, whatever changes in
\* between (getAccessContext over D1).
THEOREM AccessHold == ASSUME Constants PROVE Spec => []AccessInv
<1>1. Init => AccessInv
  BY AccessInit
<1>2. AccessInv /\ [Next]_vars => AccessInv'
  BY AccessStep
<1> QED
  BY <1>1, <1>2, PTL DEF Spec

-----------------------------------------------------------------------------
\* What the policies of a ready request are, and where they stood.
LEMMA ReadyPolicies ==
    ASSUME AccessInv, NEW r \in Requests, req[r].at = "ready", req[r].known
    PROVE  /\ req[r].roles \cup req[r].direct \subseteq Policies
           /\ \E s \in seen[r] : req[r].roles = s.roles
           /\ \E s \in seen[r] : req[r].direct = s.direct
           /\ \E s \in seen[r] : req[r].team = s.team
<1>1. Snapshot(r) /\ req[r] \in Request
  BY DEF AccessInv, Snapshots, TypeOK
<1> QED
  BY <1>1 DEF Snapshot, PartsSeen, Request

\* A policy of the snapshot that is in force there was so while the request loaded.
LEMMA SnapshotSometime ==
    ASSUME AccessInv, NEW r \in Requests, req[r].at = "ready", req[r].known,
           NEW p \in req[r].roles \cup req[r].direct, NEW a, NEW o,
           InForce(p, a, Binding(req[r].user, req[r].team, o))
    PROVE  p \in Policies /\ Sometime(r, p, a, o)
<1>1. p \in Policies
  BY ReadyPolicies
<1>2. \E s \in seen[r] : p \in s.roles \cup s.direct
  BY ReadyPolicies
<1>3. \E t \in seen[r] : req[r].team = t.team
  BY ReadyPolicies
<1> QED
  BY <1>1, <1>2, <1>3 DEF Sometime

\* A policy that was in force throughout is in the snapshot and in force there.
LEMMA ThroughoutSnapshot ==
    ASSUME AccessInv, NEW r \in Requests, req[r].at = "ready", req[r].known,
           NEW p, NEW a, NEW o, Throughout(r, p, a, o)
    PROVE  /\ p \in req[r].roles \cup req[r].direct
           /\ InForce(p, a, Binding(req[r].user, req[r].team, o))
<1>1. p \in req[r].roles \cup req[r].direct
  BY ReadyPolicies DEF Throughout
<1>2. PICK t \in seen[r] : req[r].team = t.team
  BY ReadyPolicies
<1> QED
  BY <1>1, <1>2 DEF Throughout

LEMMA InvGrantedOnly == ASSUME AccessInv PROVE AllowedWasGranted
<1> SUFFICES ASSUME NEW r \in Requests, NEW a \in Actions, NEW o \in Owners \cup {Missing},
                    req[r].at = "ready", ~req[r].admin, Can(r, a, o)
             PROVE  /\ \E p \in Policies : p.effect = "allow" /\ Sometime(r, p, a, o)
                    /\ ~\E p \in Policies : p.effect = "deny" /\ Throughout(r, p, a, o)
  BY DEF AllowedWasGranted
<1>1. Decides(req[r].roles \cup req[r].direct, a, Binding(req[r].user, req[r].team, o))
  BY DEF Can
<1>2. req[r].known
  BY <1>1 DEF AccessInv, Snapshots, Snapshot, Decides
<1>3. \E p \in Policies : p.effect = "allow" /\ Sometime(r, p, a, o)
  BY <1>1, <1>2, SnapshotSometime DEF Decides
<1>4. ~\E p \in Policies : p.effect = "deny" /\ Throughout(r, p, a, o)
  BY <1>1, <1>2, ThroughoutSnapshot DEF Decides
<1> QED
  BY <1>3, <1>4

LEMMA InvRefused == ASSUME AccessInv PROVE RefusedWithReason
<1> SUFFICES ASSUME NEW r \in Requests, NEW a \in Actions, NEW o \in Owners \cup {Missing},
                    req[r].at = "ready", ~Can(r, a, o)
             PROVE  \/ \E s \in seen[r] : ~s.active
                    \/ \E p \in Policies : p.effect = "deny" /\ Sometime(r, p, a, o)
                    \/ ~\E p \in Policies : p.effect = "allow" /\ Throughout(r, p, a, o)
  BY DEF RefusedWithReason
<1>1. ~Decides(req[r].roles \cup req[r].direct, a, Binding(req[r].user, req[r].team, o))
  BY DEF Can
<1>2. CASE ~req[r].known
  BY <1>2 DEF AccessInv, Snapshots, Snapshot
<1>3. ASSUME req[r].known, NEW p \in req[r].roles \cup req[r].direct, p.effect = "deny",
             InForce(p, a, Binding(req[r].user, req[r].team, o))
      PROVE  \E d \in Policies : d.effect = "deny" /\ Sometime(r, d, a, o)
  BY <1>3, SnapshotSometime
<1>4. ASSUME req[r].known,
             ~\E p \in req[r].roles \cup req[r].direct :
                p.effect = "allow" /\ InForce(p, a, Binding(req[r].user, req[r].team, o))
      PROVE  ~\E p \in Policies : p.effect = "allow" /\ Throughout(r, p, a, o)
  BY <1>4, ThroughoutSnapshot
<1> QED
  BY <1>1, <1>2, <1>3, <1>4 DEF Decides

\* "DENY beats ALLOW; default is deny" (evaluator.ts), for a snapshot read in pieces:
\* what a request may do was allowed by some policy that stood while it loaded, and no
\* policy that denied it throughout was missed.
THEOREM GrantedOnly == ASSUME Constants PROVE Spec => []AllowedWasGranted
<1>1. AccessInv => AllowedWasGranted
  BY InvGrantedOnly
<1> QED
  BY <1>1, AccessHold, PTL

\* What a request is refused (evaluator.ts) was denied or not granted at some moment of
\* its load, or its account was not active.
THEOREM RefusedOnlyWithReason == ASSUME Constants PROVE Spec => []RefusedWithReason
<1>1. AccessInv => RefusedWithReason
  BY InvRefused
<1> QED
  BY <1>1, AccessHold, PTL
=============================================================================
