------------------------------- MODULE Access --------------------------------
(***************************************************************************)
(* Access control on D1 (access/, runtime-actions-access.ts): roles with   *)
(* policies, grants to single users, and attributes, changed by one        *)
(* statement each while requests load what they decide by.  A load reads   *)
(* the account and then, all at once and in no particular order, three     *)
(* tables; the request decides by that snapshot until it ends.             *)
(***************************************************************************)
EXTENDS Naturals

CONSTANTS
    Users, Admins,  \* admin_users, and those with is_admin
    Roles,          \* the ids createRole gives out
    Policies,       \* the rows that can be added: effect, action pattern, condition
    Conditions,     \* the condition trees of the policies and all their subtrees
    Always,         \* condition_json is null
    Actions,        \* of the action registry: <<namespace, verb>>
    Owners,         \* resource.ownerId of what is asked about
    Teams,          \* values of user.attributes.team
    Missing,        \* undefined: resolvePath found nothing
    Requests,
    MaxChange       \* bound on changes to the tables

VARIABLES
    account,        \* admin_users: "active", "suspended" or "gone"
    roles,          \* access_roles
    rolePolicies,   \* access_role_policies: <<role, policy>>
    userRoles,      \* access_user_roles: <<user, role>>
    direct,         \* access_user_policies: <<user, policy>>
    team,           \* access_user_attributes: the user's team
    req,            \* each request and the snapshot it has
    changes,
    seen            \* history: what stood in the tables for the user of a request,
                    \* at each moment from its begin to its last read

tables == <<account, roles, rolePolicies, userRoles, direct, team>>
vars == <<tables, req, changes, seen>>

Parts == {"attributes", "rolePolicies", "direct"}

\* What the tables grant a user at a moment.
Standing == [active : BOOLEAN, roles : SUBSET Policies, direct : SUBSET Policies,
             team : Teams \cup {Missing}]

Standings(u) ==
    [active |-> account[u] = "active",
     roles  |-> {p \in Policies : \E r \in Roles : <<u, r>> \in userRoles
                                                   /\ <<r, p>> \in rolePolicies},
     direct |-> {p \in Policies : <<u, p>> \in direct},
     team   |-> team[u]]

\* known: the account was found active.  left: the reads still awaited.
Request == [at : {"idle", "begun", "reads", "ready"}, user : Users,
            admin : BOOLEAN, known : BOOLEAN, left : SUBSET Parts,
            roles : SUBSET Policies, direct : SUBSET Policies, team : Teams \cup {Missing}]
Idle(u) == [at |-> "idle", user |-> u, admin |-> FALSE, known |-> FALSE, left |-> {},
            roles |-> {}, direct |-> {}, team |-> Missing]

TypeOK ==
    /\ account \in [Users -> {"active", "suspended", "gone"}]
    /\ roles \subseteq Roles
    /\ rolePolicies \subseteq roles \X Policies
    /\ userRoles \subseteq {u \in Users : account[u] # "gone"} \X roles
    /\ direct \subseteq {u \in Users : account[u] # "gone"} \X Policies
    /\ team \in [Users -> Teams \cup {Missing}]
    /\ req \in [Requests -> Request]
    /\ changes \in 0..MaxChange
    /\ seen \in [Requests -> SUBSET Standing]

-----------------------------------------------------------------------------
(* Decisions: evaluator.ts and condition-evaluator.ts *)

\* actionMatches: an exact action, "namespace:*" or "*", which is ["*", "*"] here.
Matches(pattern, a) ==
    /\ pattern.ns   \in {"*", a.ns}
    /\ pattern.verb \in {"*", a.verb}

\* The paths a condition can look at: BindingContext.
Binding(u, t, owner) == [user_id |-> u, user_team |-> t, resource_owner |-> owner]

\* evaluateCondition.  in: stringEquals, stringIn and the other tests of one value, by
\* the values that pass; same: stringEquals with ${path}.  A missing left operand fails
\* the test itself, not what stands around it.
Satisfied(c, b) ==
    LET holds[d \in Conditions] ==
          CASE d.op = "in"     -> b[d.left] # Missing /\ b[d.left] \in d.values
            [] d.op = "same"   -> b[d.left] # Missing /\ b[d.left] = b[d.right]
            [] d.op = "exists" -> b[d.left] # Missing
            [] d.op = "not"    -> ~holds[d.of]
            [] d.op = "anyOf"  -> \E e \in d.of : holds[e]
            [] d.op = "allOf"  -> \A e \in d.of : holds[e]
    IN  holds[c]

\* Policy p speaks of action a in context b.
InForce(p, a, b) ==
    Matches(p.action, a) /\ (p.condition = Always \/ Satisfied(p.condition, b))

\* Mutant: the deny of highest priority is looked at only when nothing allows.
Decides_allowFirst(policies, a, b) ==
    \E p \in policies : p.effect = "allow" /\ InForce(p, a, b)

\* evaluate, for a subject that is no admin: deny over allow, deny by default.
Decides(policies, a, b) ==
    /\ \E p \in policies : p.effect = "allow" /\ InForce(p, a, b)
    /\ \A p \in policies : p.effect = "deny" => ~InForce(p, a, b)

\* engine.can with the snapshot of request r.
Can(r, a, owner) ==
    \/ req[r].admin
    \/ Decides(req[r].roles \cup req[r].direct, a,
               Binding(req[r].user, req[r].team, owner))

-----------------------------------------------------------------------------
(* Management: each handler is one statement, from any request *)

\* What a request that is loading now sees in the tables from here on.
Witness ==
    seen' = [r \in Requests |->
               IF req'[r].at \in {"begun", "reads"}
                 THEN seen[r] \cup {Standings(req[r].user)'} ELSE seen[r]]

Change ==
    /\ changes < MaxChange
    /\ changes' = changes + 1
    /\ UNCHANGED req
    /\ Witness

\* randomUUID: a row that is added is a new one.
Unused(p) ==
    /\ \A r \in Roles : <<r, p>> \notin rolePolicies
    /\ \A u \in Users : <<u, p>> \notin direct

CreateRole(r) ==
    /\ r \notin roles
    /\ roles' = roles \cup {r}
    /\ UNCHANGED <<account, rolePolicies, userRoles, direct, team>>
    /\ Change

\* Mutant: the assignments of the role are left behind.
DeleteRole_leaves(r) ==
    /\ r \in roles
    /\ roles' = roles \ {r}
    /\ rolePolicies' = {x \in rolePolicies : x[1] # r}
    /\ UNCHANGED <<account, userRoles, direct, team>>
    /\ Change

\* The policies and the assignments of the role go with it: ON DELETE CASCADE.
DeleteRole(r) ==
    /\ r \in roles
    /\ roles' = roles \ {r}
    /\ rolePolicies' = {x \in rolePolicies : x[1] # r}
    /\ userRoles' = {x \in userRoles : x[2] # r}
    /\ UNCHANGED <<account, direct, team>>
    /\ Change

AddRolePolicy(r, p) ==
    /\ r \in roles /\ Unused(p)
    /\ rolePolicies' = rolePolicies \cup {<<r, p>>}
    /\ UNCHANGED <<account, roles, userRoles, direct, team>>
    /\ Change

RemoveRolePolicy(r, p) ==
    /\ <<r, p>> \in rolePolicies
    /\ rolePolicies' = rolePolicies \ {<<r, p>>}
    /\ UNCHANGED <<account, roles, userRoles, direct, team>>
    /\ Change

\* INSERT OR IGNORE, with foreign keys to the account and the role.
AssignRole(u, r) ==
    /\ account[u] # "gone" /\ r \in roles /\ <<u, r>> \notin userRoles
    /\ userRoles' = userRoles \cup {<<u, r>>}
    /\ UNCHANGED <<account, roles, rolePolicies, direct, team>>
    /\ Change

RevokeRole(u, r) ==
    /\ <<u, r>> \in userRoles
    /\ userRoles' = userRoles \ {<<u, r>>}
    /\ UNCHANGED <<account, roles, rolePolicies, direct, team>>
    /\ Change

AddDirectGrant(u, p) ==
    /\ account[u] # "gone" /\ Unused(p)
    /\ direct' = direct \cup {<<u, p>>}
    /\ UNCHANGED <<account, roles, rolePolicies, userRoles, team>>
    /\ Change

RemoveDirectGrant(u, p) ==
    /\ <<u, p>> \in direct
    /\ direct' = direct \ {<<u, p>>}
    /\ UNCHANGED <<account, roles, rolePolicies, userRoles, team>>
    /\ Change

\* setUserAttribute, and deleteUserAttribute for Missing.
SetTeam(u, t) ==
    /\ account[u] # "gone" /\ t # team[u]
    /\ team' = [team EXCEPT ![u] = t]
    /\ UNCHANGED <<account, roles, rolePolicies, userRoles, direct>>
    /\ Change

\* User administration, see Accounts: active is set, or the row is deleted and what
\* refers to it with it.
SetActive(u, state) ==
    /\ account[u] # "gone" /\ account[u] # state /\ state \in {"active", "suspended"}
    /\ account' = [account EXCEPT ![u] = state]
    /\ UNCHANGED <<roles, rolePolicies, userRoles, direct, team>>
    /\ Change

Erase(u) ==
    /\ account[u] # "gone"
    /\ account' = [account EXCEPT ![u] = "gone"]
    /\ userRoles' = {x \in userRoles : x[1] # u}
    /\ direct' = {x \in direct : x[1] # u}
    /\ team' = [team EXCEPT ![u] = Missing]
    /\ UNCHANGED <<roles, rolePolicies>>
    /\ Change

-----------------------------------------------------------------------------
(* getAccessContext *)

\* A request with a session of u asks for its access for the first time; is_admin of
\* an account never changes, so the session's flag is the account's.
Begin(r, u) ==
    /\ req[r].at = "idle" /\ account[u] = "active"
    /\ req' = [req EXCEPT ![r] = [Idle(u) EXCEPT !.at = "begun", !.admin = u \in Admins]]
    /\ seen' = [seen EXCEPT ![r] = {Standings(u)}]
    /\ UNCHANGED <<tables, changes>>

\* The account is read; without an active row the snapshot is adminOnlySnapshot.
ReadAccount(r) ==
    /\ req[r].at = "begun"
    /\ req' = [req EXCEPT ![r] =
                 IF account[req[r].user] = "active"
                   THEN [@ EXCEPT !.at = "reads", !.known = TRUE, !.left = Parts]
                   ELSE [@ EXCEPT !.at = "ready"]]
    /\ UNCHANGED <<tables, changes, seen>>

\* Mutant: the request goes on when the first read has ended.
Ended_race(q, part) == [q EXCEPT !.left = @ \ {part}, !.at = "ready"]

\* One of the reads of Promise.all ends; after the last one the snapshot is complete.
Ended(q, part) ==
    [q EXCEPT !.left = @ \ {part}, !.at = IF q.left = {part} THEN "ready" ELSE "reads"]

ReadRolePolicies(r) ==
    /\ req[r].at = "reads" /\ "rolePolicies" \in req[r].left
    /\ req' = [req EXCEPT ![r] = [Ended(@, "rolePolicies") EXCEPT
                 !.roles = Standings(req[r].user).roles]]
    /\ UNCHANGED <<tables, changes, seen>>

ReadDirect(r) ==
    /\ req[r].at = "reads" /\ "direct" \in req[r].left
    /\ req' = [req EXCEPT ![r] = [Ended(@, "direct") EXCEPT
                 !.direct = Standings(req[r].user).direct]]
    /\ UNCHANGED <<tables, changes, seen>>

ReadAttributes(r) ==
    /\ req[r].at = "reads" /\ "attributes" \in req[r].left
    /\ req' = [req EXCEPT ![r] = [Ended(@, "attributes") EXCEPT
                 !.team = team[req[r].user]]]
    /\ UNCHANGED <<tables, changes, seen>>

\* The response is sent, or a read fails and the request with it.
End(r) ==
    /\ req[r].at # "idle"
    /\ req' = [req EXCEPT ![r] = Idle(req[r].user)]
    /\ seen' = [seen EXCEPT ![r] = {}]
    /\ UNCHANGED <<tables, changes>>

-----------------------------------------------------------------------------
Init ==
    /\ account = [u \in Users |-> "active"]
    /\ roles = {} /\ rolePolicies = {} /\ userRoles = {} /\ direct = {}
    /\ team = [u \in Users |-> Missing]
    /\ req \in [Requests -> {Idle(u) : u \in Users}]
    /\ changes = 0
    /\ seen = [r \in Requests |-> {}]

Manage ==
    \/ \E r \in Roles : CreateRole(r) \/ DeleteRole(r)
    \/ \E r \in Roles, p \in Policies : AddRolePolicy(r, p) \/ RemoveRolePolicy(r, p)
    \/ \E u \in Users, r \in Roles : AssignRole(u, r) \/ RevokeRole(u, r)
    \/ \E u \in Users, p \in Policies : AddDirectGrant(u, p) \/ RemoveDirectGrant(u, p)
    \/ \E u \in Users, t \in Teams \cup {Missing} : SetTeam(u, t)
    \/ \E u \in Users : Erase(u) \/ SetActive(u, "active") \/ SetActive(u, "suspended")

Load(r) ==
    \/ \E u \in Users : Begin(r, u)
    \/ ReadAccount(r) \/ ReadRolePolicies(r) \/ ReadDirect(r) \/ ReadAttributes(r)
    \/ End(r)

Next == Manage \/ \E r \in Requests : Load(r)

Spec == Init /\ [][Next]_vars

-----------------------------------------------------------------------------
(* Properties *)

\* What was in force for request r at some moment of its load, and at all of them.
Sometime(r, p, a, owner) ==
    \E s, t \in seen[r] : /\ p \in s.roles \cup s.direct
                          /\ InForce(p, a, Binding(req[r].user, t.team, owner))
Throughout(r, p, a, owner) ==
    /\ (\A s \in seen[r] : p \in s.roles) \/ (\A s \in seen[r] : p \in s.direct)
    /\ \A s \in seen[r] : InForce(p, a, Binding(req[r].user, s.team, owner))

\* "DENY beats ALLOW; default is deny", for a snapshot read in pieces while the tables
\* change: what a request may do some policy allowed it while it loaded, and no policy
\* that denied it throughout was missed.
AllowedWasGranted ==
    \A r \in Requests, a \in Actions, o \in Owners \cup {Missing} :
      req[r].at = "ready" /\ ~req[r].admin /\ Can(r, a, o) =>
        /\ \E p \in Policies : p.effect = "allow" /\ Sometime(r, p, a, o)
        /\ ~\E p \in Policies : p.effect = "deny" /\ Throughout(r, p, a, o)

\* What a request is refused was denied or not granted while it loaded, or its account
\* was not active: a torn snapshot never hides a policy that stood all the while.
RefusedWithReason ==
    \A r \in Requests, a \in Actions, o \in Owners \cup {Missing} :
      req[r].at = "ready" /\ ~Can(r, a, o) =>
        \/ \E s \in seen[r] : ~s.active
        \/ \E p \in Policies : p.effect = "deny" /\ Sometime(r, p, a, o)
        \/ ~\E p \in Policies : p.effect = "allow" /\ Throughout(r, p, a, o)
=============================================================================
