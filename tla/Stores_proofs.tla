---------------------------- MODULE Stores_proofs ----------------------------
(***************************************************************************)
(* What is proved of the stores of Stores, for every number of requests,   *)
(* keys, paths, migrations and tokens and every bound, whatever the other  *)
(* stores do meanwhile: the types of all of them, and of each the property *)
(* its callers rely on.  A section for each store has the invariant, which *)
(* its initial states satisfy and its steps keep; the last section puts    *)
(* them together.                                                          *)
(***************************************************************************)
EXTENDS Stores, Sequences, FiniteSetTheorems, WellFoundedInduction, TLAPS

-----------------------------------------------------------------------------
(* The edit lock on D1 *)

LockRows     == [owner : LkUsers \cup {LkNoOne}, token : LkTokens \cup {LkNoToken},
                 left : 0..LkTTL]
LockRequests == [at : {"idle", "expire", "select", "upsert"}, slug : LkSlugs]
LockGrants   == [slug : LkSlugs, token : LkTokens \cup {LkNoToken}, left : 0..LkTTL]

LEMMA LockDefaults ==
    Locks!NoRow \in LockRows /\ Locks!Idle \in LockRequests /\ Locks!NoGrant \in LockGrants
BY LocksAssumption
   DEF Locks!NoRow, LockRows, Locks!Idle, LockRequests, Locks!NoGrant, LockGrants

LEMMA LockTypeInit ==
    ASSUME Locks!Init
    PROVE  Locks!TypeOK
BY LockDefaults DEF Locks!Init, Locks!TypeOK, LockRows, LockRequests, LockGrants

\* A minute less.
LEMMA LockMinute ==
    ASSUME NEW n \in 0..LkTTL
    PROVE  (IF n = 0 THEN 0 ELSE n - 1) \in 0..LkTTL
BY LocksAssumption

LEMMA LockTypeStep ==
    ASSUME Locks!TypeOK, [Locks!Next]_lkVars
    PROVE  Locks!TypeOK'
<1> USE DEF LockRows, LockRequests, LockGrants
<1>1. ASSUME NEW c \in LkClients, NEW s \in LkSlugs, Locks!Begin(c, s)
      PROVE  Locks!TypeOK'
  BY <1>1 DEF Locks!Begin, Locks!TypeOK
<1>2. ASSUME NEW c \in LkClients, Locks!ExpireStale(c)
      PROVE  Locks!TypeOK'
  BY <1>2, LockDefaults DEF Locks!ExpireStale, Locks!TypeOK
<1>3. ASSUME NEW c \in LkClients, Locks!Select(c)
      PROVE  Locks!TypeOK'
  BY <1>3, LockDefaults DEF Locks!Select, Locks!TypeOK
<1>4. ASSUME NEW c \in LkClients, Locks!Upsert(c)
      PROVE  Locks!TypeOK'
  <2>1. PICK token \in LkTokens :
          /\ lkLocks' = [lkLocks EXCEPT ![lkReq[c].slug] =
                         [owner |-> LkUserOf[c], token |-> token, left |-> LkTTL]]
          /\ lkGrant' = [lkGrant EXCEPT ![c] =
                         [slug |-> lkReq[c].slug, token |-> token, left |-> LkTTL]]
    BY <1>4 DEF Locks!Upsert
  <2>2. /\ [owner |-> LkUserOf[c], token |-> token, left |-> LkTTL] \in LockRows
        /\ [slug |-> lkReq[c].slug, token |-> token, left |-> LkTTL] \in LockGrants
    BY LocksAssumption DEF Locks!TypeOK
  <2>3. lkReq' \in [LkClients -> LockRequests] /\ lkRaced' \subseteq LkClients
    BY <1>4, LockDefaults DEF Locks!Upsert, Locks!TypeOK
  <2> QED
    BY <2>1, <2>2, <2>3 DEF Locks!TypeOK
<1>5. ASSUME NEW c \in LkClients, Locks!Die(c)
      PROVE  Locks!TypeOK'
  BY <1>5, LockDefaults DEF Locks!Die, Locks!TypeOK
<1>6. ASSUME NEW c \in LkClients, Locks!Refresh(c)
      PROVE  Locks!TypeOK'
  <2>1. /\ \A r \in LockRows : [r EXCEPT !.left = LkTTL] \in LockRows
        /\ \A g \in LockGrants : [g EXCEPT !.left = LkTTL] \in LockGrants
    BY LocksAssumption
  <2>2. lkLocks' \in [LkSlugs -> LockRows] /\ lkGrant' \in [LkClients -> LockGrants]
    <3>1. /\ lkLocks \in [LkSlugs -> LockRows] /\ lkGrant \in [LkClients -> LockGrants]
          /\ lkGrant[c].slug \in LkSlugs
      BY DEF Locks!TypeOK
    <3>2. CASE UNCHANGED <<lkLocks, lkGrant>>
      BY <3>1, <3>2
    <3>3. CASE ~UNCHANGED <<lkLocks, lkGrant>>
      <4> DEFINE row == [lkLocks[lkGrant[c].slug] EXCEPT !.left = LkTTL]
                 told == [lkGrant[c] EXCEPT !.left = LkTTL]
      <4>1. /\ lkLocks' = [lkLocks EXCEPT ![lkGrant[c].slug] = row]
            /\ lkGrant' = [lkGrant EXCEPT ![c] = told]
        BY <1>6, <3>1, <3>3 DEF Locks!Refresh
      <4>2. row \in LockRows /\ told \in LockGrants
        BY <2>1, <3>1
      <4> HIDE DEF row, told
      <4> QED
        BY <3>1, <4>1, <4>2
    <3> QED
      BY <3>2, <3>3
  <2> QED
    BY <1>6, <2>2 DEF Locks!Refresh, Locks!TypeOK
<1>7. ASSUME NEW c \in LkClients, Locks!Release(c)
      PROVE  Locks!TypeOK'
  <2>1. lkLocks' \in [LkSlugs -> LockRows] /\ lkGrant' \in [LkClients -> LockGrants]
    BY <1>7, LockDefaults DEF Locks!Release, Locks!TypeOK
  <2> QED
    BY <1>7, <2>1 DEF Locks!Release, Locks!TypeOK
<1>8. CASE Locks!Tick
  <2>1. \A s \in LkSlugs : lkLocks'[s] \in LockRows
    BY <1>8, LockMinute DEF Locks!Tick, Locks!TypeOK
  <2>2. \A c \in LkClients : lkGrant'[c] \in LockGrants
    BY <1>8, LockMinute DEF Locks!Tick, Locks!TypeOK
  <2> QED
    BY <1>8, <2>1, <2>2 DEF Locks!Tick, Locks!TypeOK
<1>9. CASE UNCHANGED lkVars
  BY <1>9 DEF lkVars, Locks!TypeOK
<1> QED
  BY <1>1, <1>2, <1>3, <1>4, <1>5, <1>6, <1>7, <1>8, <1>9 DEF Locks!Next

-----------------------------------------------------------------------------
(* What a request that is past its SELECT knows *)

\* The row is free or the client's own, unless another upsert came in between.
ReadHolds ==
    \A c \in LkClients :
        lkReq[c].at = "upsert" /\ c \notin lkRaced
            => lkLocks[lkReq[c].slug].owner \in {LkNoOne, LkUserOf[c]}

\* No row gets a new owner, and no request passes its SELECT or is forgiven a race.
LEMMA LockReadKept ==
    ASSUME Locks!TypeOK, ReadHolds, NEW c \in LkClients,
           lkReq'[c].at = "upsert" => lkReq'[c] = lkReq[c],
           c \in lkRaced => c \in lkRaced',
           \A s \in LkSlugs : lkLocks'[s].owner \in {LkNoOne, lkLocks[s].owner}
    PROVE  lkReq'[c].at = "upsert" /\ c \notin lkRaced'
             => lkLocks'[lkReq'[c].slug].owner \in {LkNoOne, LkUserOf[c]}
BY DEF Locks!TypeOK, ReadHolds

\* Only an upsert gives a row an owner.
LEMMA LockOwnersKept ==
    ASSUME Locks!TypeOK, NEW c \in LkClients,
           Locks!ExpireStale(c) \/ Locks!Refresh(c) \/ Locks!Release(c)
    PROVE  \A s \in LkSlugs : lkLocks'[s].owner \in {LkNoOne, lkLocks[s].owner}
<1>1. CASE Locks!ExpireStale(c)
  BY <1>1 DEF Locks!ExpireStale, Locks!NoRow
<1>2. CASE Locks!Refresh(c)
  BY <1>2 DEF Locks!Refresh, Locks!TypeOK
<1>3. CASE Locks!Release(c)
  BY <1>3 DEF Locks!Release, Locks!TypeOK, Locks!NoRow
<1> QED
  BY <1>1, <1>2, <1>3

LEMMA LockReadStep ==
    ASSUME Locks!TypeOK, ReadHolds, [Locks!Next]_lkVars
    PROVE  ReadHolds'
<1>1. ASSUME NEW c \in LkClients, NEW s \in LkSlugs, Locks!Begin(c, s)
      PROVE  ReadHolds'
  BY <1>1 DEF Locks!Begin, Locks!TypeOK, ReadHolds
<1>2. ASSUME NEW c \in LkClients, Locks!ExpireStale(c)
      PROVE  ReadHolds'
  <2>1. \A s \in LkSlugs : lkLocks'[s].owner \in {LkNoOne, lkLocks[s].owner}
    BY <1>2, LockOwnersKept
  <2>2. \A d \in LkClients : lkReq'[d].at = "upsert" => lkReq'[d] = lkReq[d]
    BY <1>2 DEF Locks!ExpireStale, Locks!TypeOK
  <2> QED
    BY <1>2, <2>1, <2>2, LockReadKept DEF Locks!ExpireStale, ReadHolds
<1>3. ASSUME NEW c \in LkClients, Locks!Select(c)
      PROVE  ReadHolds'
  <2>1. /\ lkLocks' = lkLocks /\ lkRaced' = lkRaced
        /\ \A d \in LkClients \ {c} : lkReq'[d] = lkReq[d]
    BY <1>3 DEF Locks!Select, Locks!TypeOK
  <2>2. CASE lkLocks[lkReq[c].slug].owner \in {LkNoOne, LkUserOf[c]}
    <3>1. lkReq'[c].slug = lkReq[c].slug
      BY <1>3, <2>2 DEF Locks!Select, Locks!TypeOK
    <3> QED
      BY <2>1, <2>2, <3>1 DEF ReadHolds
  <2>3. CASE lkLocks[lkReq[c].slug].owner \notin {LkNoOne, LkUserOf[c]}
    <3>1. lkReq'[c].at = "idle"
      BY <1>3, <2>3 DEF Locks!Select, Locks!TypeOK, Locks!Idle
    <3> QED
      BY <2>1, <3>1 DEF ReadHolds
  <2> QED
    BY <2>2, <2>3
<1>4. ASSUME NEW c \in LkClients, Locks!Upsert(c)
      PROVE  ReadHolds'
  <2>1. \A s \in LkSlugs \ {lkReq[c].slug} : lkLocks'[s] = lkLocks[s]
    BY <1>4 DEF Locks!Upsert, Locks!TypeOK
  <2>2. lkReq'[c].at = "idle" /\ \A d \in LkClients \ {c} : lkReq'[d] = lkReq[d]
    BY <1>4 DEF Locks!Upsert, Locks!TypeOK, Locks!Idle
  <2>3. \A d \in LkClients \ {c} :
          d \in lkRaced' <=>
            d \in lkRaced \/ (lkReq[d].at = "upsert" /\ lkReq[d].slug = lkReq[c].slug)
    BY <1>4 DEF Locks!Upsert, Locks!TypeOK
  <2>4. ASSUME NEW d \in LkClients \ {c}, lkReq[d].at = "upsert", d \notin lkRaced'
        PROVE  lkLocks'[lkReq[d].slug].owner \in {LkNoOne, LkUserOf[d]}
    BY <2>1, <2>3, <2>4 DEF ReadHolds, Locks!TypeOK
  <2> QED
    BY <2>2, <2>4 DEF ReadHolds
<1>5. ASSUME NEW c \in LkClients, Locks!Die(c)
      PROVE  ReadHolds'
  BY <1>5 DEF Locks!Die, Locks!TypeOK, Locks!Idle, ReadHolds
<1>6. ASSUME NEW c \in LkClients, Locks!Refresh(c) \/ Locks!Release(c)
      PROVE  ReadHolds'
  <2>1. \A s \in LkSlugs : lkLocks'[s].owner \in {LkNoOne, lkLocks[s].owner}
    BY <1>6, LockOwnersKept
  <2> QED
    BY <1>6, <2>1, LockReadKept DEF Locks!Refresh, Locks!Release, ReadHolds
<1>7. CASE Locks!Tick
  <2>1. \A s \in LkSlugs : lkLocks'[s].owner = lkLocks[s].owner
    BY <1>7 DEF Locks!Tick, Locks!TypeOK
  <2> QED
    BY <1>7, <2>1, LockReadKept DEF Locks!Tick, ReadHolds
<1>8. CASE UNCHANGED lkVars
  BY <1>8 DEF lkVars, ReadHolds
<1> QED
  BY <1>1, <1>2, <1>3, <1>4, <1>5, <1>6, <1>7, <1>8 DEF Locks!Next

-----------------------------------------------------------------------------
(* Who can take a running lock *)

\* The step of a lock that passes from one user to another while it runs.
Steals(s) == Locks!Live(lkLocks[s]) /\ lkLocks'[s].owner \notin {LkNoOne, lkLocks[s].owner}

LEMMA LockStealStep ==
    ASSUME Locks!TypeOK, ReadHolds, NEW s \in LkSlugs, Steals(s), [Locks!Next]_lkVars
    PROVE  \E c \in lkRaced :
             lkReq[c] = [at |-> "upsert", slug |-> s] /\ lkLocks'[s].owner = LkUserOf[c]
<1>1. ASSUME NEW c \in LkClients, Locks!Upsert(c)
      PROVE  \E d \in lkRaced :
               lkReq[d] = [at |-> "upsert", slug |-> s] /\ lkLocks'[s].owner = LkUserOf[d]
  <2>1. lkReq[c].slug = s
    BY <1>1 DEF Locks!Upsert, Locks!TypeOK, Steals
  <2>2. lkLocks'[s].owner = LkUserOf[c]
    BY <1>1, <2>1 DEF Locks!Upsert, Locks!TypeOK
  <2>3. lkReq[c].at = "upsert" /\ c \in lkRaced
    BY <1>1, <2>1, <2>2 DEF Locks!Upsert, ReadHolds, Steals, Locks!Live
  <2>4. lkReq[c] = [at |-> "upsert", slug |-> s]
    BY <2>1, <2>3 DEF Locks!TypeOK
  <2> QED
    BY <2>2, <2>3, <2>4
<1>2. ASSUME NEW c \in LkClients, Locks!Release(c) \/ Locks!Refresh(c) \/ Locks!ExpireStale(c)
      PROVE  FALSE
  BY <1>2, LockOwnersKept DEF Steals
<1>3. CASE Locks!Tick
  BY <1>3 DEF Locks!Tick, Locks!TypeOK, Steals
<1>4. ASSUME lkLocks' = lkLocks
      PROVE  FALSE
  BY <1>4 DEF Steals
<1> QED
  BY <1>1, <1>2, <1>3, <1>4 DEF Locks!Next, Locks!Begin, Locks!Select, Locks!Die, lkVars

LEMMA LocksInit == Locks!Init => Locks!TypeOK /\ ReadHolds
<1>1. Locks!Idle.at = "idle"
  BY DEF Locks!Idle
<1>2. Locks!Init => ReadHolds
  BY <1>1 DEF Locks!Init, ReadHolds
<1> QED
  BY <1>2, LockTypeInit

LEMMA LocksStep ==
    ASSUME Locks!TypeOK, ReadHolds, [Locks!Next]_lkVars
    PROVE  Locks!TypeOK' /\ ReadHolds'
BY LockTypeStep, LockReadStep

-----------------------------------------------------------------------------
(* The schema *)

SchemaRow == [name : Schema!Name, back : BOOLEAN]
SchemaCmd == [op : {"idle", "migrate", "rollback"}, at : {"exec", "record"},
              todo : SUBSET Schema!Name, stale : SUBSET Schema!Name]

\* What a command is about fits its name, and only a migration that can be undone has
\* a script to go back by.
Fits(k) ==
    /\ k.op = "idle" => k.at = "exec" /\ k.todo = {} /\ k.stale = {}
    /\ k.op = "migrate" => k.todo # {} /\ k.todo \subseteq Schema!File
    /\ k.op = "rollback"
         => \E n \in Schema!Name :
              /\ k.todo = {n}
              /\ k.at = "exec" => n \in Schema!File /\ ~n.down
CommandsFit == \A c \in MgCommands : Fits(mgCommand[c])
RowsBack ==
    \A i \in DOMAIN mgTable :
        mgTable[i].back => mgTable[i].name \in Schema!File /\ ~mgTable[i].name.down

\* On D1 a command is never between the statements and the record, so that the record is
\* right whenever no statement is dropped.
BatchesWhole ==
    mgBackend = "d1" =>
        /\ \A c \in MgCommands :
             /\ mgCommand[c].at = "exec"
             /\ mgCommand[c].op = "migrate" => \A f \in mgCommand[c].todo : ~f.down
        /\ \A m \in Schema!Migration :
             Schema!Up(m) \notin MgCommented /\ Schema!Down(m) \notin MgCommented
               => mgEffect[m] = IF Schema!Recorded(Schema!Up(m)) THEN {1, 2} ELSE {}

\* On SQLite: as far as a command knows the table, the table is as it believes.
Knows(k) ==
    \A f \in k.todo \ k.stale :
        /\ k.op = "migrate" => ~Schema!Recorded(f)
        /\ k.op = "rollback" => Schema!Recorded(f)
TableKnown == mgBackend = "sqlite" => \A c \in MgCommands : Knows(mgCommand[c])

\* Command c has run the script of migration m, nobody came between, and the record is next.
Awaits(c, op, m) ==
    /\ mgCommand[c].op = op /\ mgCommand[c].at = "record"
    /\ Schema!First(mgCommand[c].todo) = Schema!Up(m)
    /\ Schema!Up(m) \notin mgCommand[c].stale

\* The record of m is right, or a command is about to set it right.
Agrees(m) ==
    /\ \A c \in MgCommands : Awaits(c, "migrate", m) => mgEffect[m] = {1, 2}
    /\ \/ mgEffect[m] = IF Schema!Recorded(Schema!Up(m)) THEN {1, 2} ELSE {}
       \/ /\ ~Schema!Recorded(Schema!Up(m)) /\ mgEffect[m] = {1, 2}
          /\ \E c \in MgCommands : Awaits(c, "migrate", m)
       \/ /\ Schema!Recorded(Schema!Up(m)) /\ mgEffect[m] = {}
          /\ \E c \in MgCommands : Awaits(c, "rollback", m)
Agreement == mgBackend = "sqlite" => \A m \in Schema!Migration \ mgHurt : Agrees(m)

SchemaInv == /\ Schema!TypeOK
             /\ CommandsFit /\ RowsBack /\ BatchesWhole /\ TableKnown /\ Agreement

LEMMA Files ==
    /\ \A m \in Schema!Migration :
         /\ Schema!Up(m) \in Schema!File /\ Schema!Down(m) \in Schema!File
         /\ Schema!Up(m).of = m /\ ~Schema!Up(m).down
         /\ Schema!Down(m).of = m /\ Schema!Down(m).down
    /\ \A f \in Schema!File :
         /\ f.of \in Schema!Migration /\ f.of \in Nat /\ f.of > 0 /\ f.down \in BOOLEAN
         /\ f = [of |-> f.of, down |-> f.down]
         /\ f = IF f.down THEN Schema!Down(f.of) ELSE Schema!Up(f.of)
    /\ Schema!Baseline \notin Schema!File
    /\ Schema!Baseline.of = 0
    /\ Schema!File \subseteq Schema!Name /\ Schema!Baseline \in Schema!Name
    /\ \A n \in Schema!Name \ Schema!File : n = Schema!Baseline
<1>1. \A m \in Schema!Migration :
         /\ Schema!Up(m) \in Schema!File /\ Schema!Down(m) \in Schema!File
         /\ Schema!Up(m).of = m /\ ~Schema!Up(m).down
         /\ Schema!Down(m).of = m /\ Schema!Down(m).down
  BY DEF Schema!File, Schema!Up, Schema!Down
<1>2. \A f \in Schema!File :
         /\ f.of \in Schema!Migration /\ f.of \in Nat /\ f.of > 0 /\ f.down \in BOOLEAN
         /\ f = [of |-> f.of, down |-> f.down]
  BY SchemaAssumption DEF Schema!File, Schema!Migration
<1>3. \A f \in Schema!File : f = IF f.down THEN Schema!Down(f.of) ELSE Schema!Up(f.of)
  BY <1>2 DEF Schema!Up, Schema!Down, Schema!File
<1>4. Schema!Baseline.of = 0
  BY DEF Schema!Baseline
<1>5. Schema!Baseline \notin Schema!File
  BY <1>2, <1>4
<1> QED
  BY <1>1, <1>2, <1>3, <1>4, <1>5 DEF Schema!Name

\* A directory listing begins somewhere.
LEMMA FirstOf ==
    ASSUME NEW F \in SUBSET Schema!File, F # {}
    PROVE  Schema!First(F) \in F
<1> DEFINE numbers == {f.of : f \in F}
<1>1. numbers \subseteq Nat /\ numbers # {}
  BY Files
<1>2. PICK n \in numbers : \A k \in numbers : ~(k < n)
  <2> DEFINE less == {ss \in Nat \X Nat : ss[1] < ss[2]}
  <2> HIDE DEF numbers
  <2>1. IsWellFoundedOn(less, Nat)
    BY NatLessThanWellFounded DEF OpToRel
  <2> HIDE DEF less
  <2>2. \E n \in numbers : \A k \in numbers : <<k, n>> \notin less
    BY <1>1, <2>1, WFMin
  <2> QED BY <1>1, <2>2 DEF less
<1>3. \A f \in F : n <= f.of
  BY <1>1, <1>2
<1>4. \E f \in F : \A g \in F \ {f} : Schema!Before(f, g)
  <2>1. PICK a \in F : a.of = n
    OBVIOUS
  <2>2. CASE \E d \in F : d.of = n /\ d.down
    <3>1. PICK d \in F : d.of = n /\ d.down
      BY <2>2
    <3>2. \A g \in F \ {d} : Schema!Before(d, g)
      <4> TAKE g \in F \ {d}
      <4>1. CASE g.of = n
        <5>1. ~g.down
          BY <3>1, <4>1, Files
        <5> QED BY <3>1, <4>1, <5>1 DEF Schema!Before
      <4>2. CASE g.of # n
        BY <1>3, <3>1, <4>2, Files DEF Schema!Before
      <4> QED BY <4>1, <4>2
    <3> QED BY <3>2
  <2>3. CASE ~\E d \in F : d.of = n /\ d.down
    <3>1. \A g \in F \ {a} : Schema!Before(a, g)
      <4> TAKE g \in F \ {a}
      <4>1. g.of # n
        BY <2>1, <2>3, Files
      <4> QED BY <1>3, <2>1, <4>1, Files DEF Schema!Before
    <3> QED BY <3>1
  <2> QED BY <2>2, <2>3
<1> QED
  BY <1>4 DEF Schema!First

LEMMA FirstOne == ASSUME NEW n PROVE Schema!First({n}) = n
BY DEF Schema!First

\* What a command is at.
LEMMA AtOne ==
    ASSUME CommandsFit, NEW c \in MgCommands
    PROVE  /\ mgCommand[c].op = "migrate"
                => /\ Schema!Current(c) \in mgCommand[c].todo /\ Schema!Current(c) \in Schema!File
                   /\ Schema!Script(c) = Schema!Current(c)
           /\ mgCommand[c].op = "rollback"
                => /\ Schema!Current(c) \in Schema!Name
                   /\ mgCommand[c].todo = {Schema!Current(c)}
                   /\ Schema!Script(c) = Schema!Down(Schema!Current(c).of)
                   /\ mgCommand[c].at = "exec"
                        => Schema!Current(c) \in Schema!File /\ ~Schema!Current(c).down
<1>1. ASSUME mgCommand[c].op = "migrate"
      PROVE  Schema!Current(c) \in mgCommand[c].todo
  BY <1>1, FirstOf DEF CommandsFit, Fits, Schema!Current
<1>2. ASSUME mgCommand[c].op = "rollback"
      PROVE  /\ Schema!Current(c) \in Schema!Name
             /\ mgCommand[c].todo = {Schema!Current(c)}
             /\ mgCommand[c].at = "exec"
                  => Schema!Current(c) \in Schema!File /\ ~Schema!Current(c).down
  <2>1. PICK n \in Schema!Name : /\ mgCommand[c].todo = {n}
                                 /\ mgCommand[c].at = "exec" => n \in Schema!File /\ ~n.down
    <3>1. Fits(mgCommand[c])
      BY DEF CommandsFit
    <3> QED BY <1>2, <3>1 DEF Fits
  <2> QED BY <2>1, FirstOne DEF Schema!Current
<1> QED
  BY <1>1, <1>2 DEF CommandsFit, Fits, Schema!Script

-----------------------------------------------------------------------------
(* The table *)

\* The INSERT of a name that is not there.
LEMMA RowAdded ==
    ASSUME Schema!TypeOK, NEW row \in SchemaRow, ~Schema!Recorded(row.name),
           mgTable' = Append(mgTable, row)
    PROVE  /\ mgTable' \in Seq(SchemaRow)
           /\ \A i, j \in DOMAIN mgTable' : mgTable'[i].name = mgTable'[j].name => i = j
           /\ \A f : Schema!Recorded(f)' <=> Schema!Recorded(f) \/ f = row.name
           /\ RowsBack /\ (row.back => row.name \in Schema!File /\ ~row.name.down) => RowsBack'
<1>1. mgTable \in Seq(SchemaRow)
  BY DEF Schema!TypeOK, SchemaRow
<1>2. /\ mgTable' \in Seq(SchemaRow)
      /\ Len(mgTable) \in Nat
      /\ DOMAIN mgTable = 1..Len(mgTable) /\ DOMAIN mgTable' = 1..(Len(mgTable) + 1)
      /\ \A i \in 1..Len(mgTable) : mgTable'[i] = mgTable[i]
      /\ mgTable'[Len(mgTable) + 1] = row
  BY <1>1
<1>3. \A i, j \in DOMAIN mgTable : mgTable[i].name = mgTable[j].name => i = j
  BY DEF Schema!TypeOK
<1>4. \A i \in 1..Len(mgTable) : mgTable[i].name # row.name
  BY <1>2 DEF Schema!Recorded
<1>5. \A i, j \in DOMAIN mgTable' : mgTable'[i].name = mgTable'[j].name => i = j
  <2> TAKE i, j \in DOMAIN mgTable'
  <2> HAVE mgTable'[i].name = mgTable'[j].name
  <2>1. CASE i \in 1..Len(mgTable) /\ j \in 1..Len(mgTable)
    BY <1>2, <1>3, <2>1
  <2>2. CASE i = Len(mgTable) + 1 \/ j = Len(mgTable) + 1
    BY <1>2, <1>4, <2>2
  <2> QED BY <1>2, <2>1, <2>2
<1>6. \A f : Schema!Recorded(f)' <=> Schema!Recorded(f) \/ f = row.name
  <2> TAKE f
  <2>1. ASSUME Schema!Recorded(f) PROVE Schema!Recorded(f)'
    BY <1>2, <2>1 DEF Schema!Recorded
  <2>2. ASSUME f = row.name PROVE Schema!Recorded(f)'
    <3>1. Len(mgTable) + 1 \in DOMAIN mgTable'
      BY <1>2
    <3> QED BY <1>2, <2>2, <3>1 DEF Schema!Recorded
  <2>3. ASSUME Schema!Recorded(f)' PROVE Schema!Recorded(f) \/ f = row.name
    <3>1. PICK i \in 1..(Len(mgTable) + 1) : mgTable'[i].name = f
      BY <1>2, <2>3 DEF Schema!Recorded
    <3>2. i \in 1..Len(mgTable) \/ i = Len(mgTable) + 1
      BY <1>2
    <3> QED BY <1>2, <3>1, <3>2 DEF Schema!Recorded
  <2> QED BY <2>1, <2>2, <2>3
<1>7. RowsBack /\ (row.back => row.name \in Schema!File /\ ~row.name.down) => RowsBack'
  <2>1. \A i \in DOMAIN mgTable' : i \in 1..Len(mgTable) \/ i = Len(mgTable) + 1
    BY <1>2
  <2>2. /\ Schema!File' = Schema!File
    BY DEF Schema!File, Schema!Migration
  <2> QED BY <1>2, <2>1, <2>2 DEF RowsBack
<1> QED
  BY <1>2, <1>5, <1>6, <1>7

\* The DELETE of a name.
LEMMA RowGone ==
    ASSUME Schema!TypeOK, NEW n, mgTable' = Schema!Without(n)
    PROVE  /\ mgTable' \in Seq(SchemaRow)
           /\ \A i, j \in DOMAIN mgTable' : mgTable'[i].name = mgTable'[j].name => i = j
           /\ \A f : Schema!Recorded(f)' <=> Schema!Recorded(f) /\ f # n
           /\ RowsBack => RowsBack'
<1>1. /\ mgTable \in Seq(SchemaRow)
      /\ \A i, j \in DOMAIN mgTable : mgTable[i].name = mgTable[j].name => i = j
  BY DEF Schema!TypeOK, SchemaRow
<1>2. CASE ~Schema!Recorded(n)
  <2>1. mgTable' = mgTable
    BY <1>2 DEF Schema!Without
  <2>2. \A f : Schema!Recorded(f)' <=> Schema!Recorded(f)
    BY <2>1 DEF Schema!Recorded
  <2>3. RowsBack => RowsBack'
    BY <2>1 DEF RowsBack
  <2> QED BY <1>1, <1>2, <2>1, <2>2, <2>3
<1>3. CASE Schema!Recorded(n)
  <2> DEFINE gone == CHOOSE i \in DOMAIN mgTable : mgTable[i].name = n
  <2>1. gone \in DOMAIN mgTable /\ mgTable[gone].name = n
    BY <1>3 DEF Schema!Recorded
  <2>2. mgTable' = [i \in 1..Len(mgTable) - 1 |->
                      IF i < gone THEN mgTable[i] ELSE mgTable[i + 1]]
    BY <1>3 DEF Schema!Without
  <2> HIDE DEF gone
  <2>3. /\ Len(mgTable) \in Nat /\ DOMAIN mgTable = 1..Len(mgTable)
        /\ gone \in 1..Len(mgTable) /\ Len(mgTable) - 1 \in Nat
        /\ DOMAIN mgTable' = 1..Len(mgTable) - 1
        /\ \A i \in 1..Len(mgTable) : mgTable[i] \in SchemaRow
    BY <1>1, <2>1, <2>2
  \* Where a row of the new table comes from, and where a row of the old one goes.
  <2> DEFINE from(i) == IF i < gone THEN i ELSE i + 1
             to(j) == IF j < gone THEN j ELSE j - 1
  <2>4. \A i \in 1..Len(mgTable) - 1 :
          /\ from(i) \in 1..Len(mgTable) /\ from(i) # gone
          /\ mgTable'[i] = mgTable[from(i)]
    BY <2>2, <2>3
  <2>5. \A j \in 1..Len(mgTable) : j # gone =>
          to(j) \in 1..Len(mgTable) - 1 /\ from(to(j)) = j
    BY <2>3
  <2>6. \A i, j \in 1..Len(mgTable) - 1 : from(i) = from(j) => i = j
    BY <2>3
  <2> HIDE DEF from, to
  <2>7. mgTable' \in Seq(SchemaRow)
    <3>1. \A i \in 1..Len(mgTable) - 1 : mgTable'[i] \in SchemaRow
      BY <2>3, <2>4
    <3>2. mgTable' = [i \in 1..Len(mgTable) - 1 |-> mgTable'[i]]
      BY <2>2
    <3>3. mgTable' \in [1..Len(mgTable) - 1 -> SchemaRow]
      BY <3>1, <3>2
    <3> QED BY <2>3, <3>3
  <2>8. \A i, j \in DOMAIN mgTable' : mgTable'[i].name = mgTable'[j].name => i = j
    BY <1>1, <2>3, <2>4, <2>6
  <2>9. \A f : Schema!Recorded(f)' <=> Schema!Recorded(f) /\ f # n
    <3> TAKE f
    <3>1. ASSUME Schema!Recorded(f), f # n PROVE Schema!Recorded(f)'
      <4>1. PICK j \in 1..Len(mgTable) : mgTable[j].name = f
        BY <2>3, <3>1 DEF Schema!Recorded
      <4>2. j # gone
        BY <2>1, <3>1, <4>1
      <4>3. to(j) \in DOMAIN mgTable' /\ mgTable'[to(j)] = mgTable[j]
        BY <2>3, <2>4, <2>5, <4>2
      <4> QED BY <4>1, <4>3 DEF Schema!Recorded
    <3>2. ASSUME Schema!Recorded(f)' PROVE Schema!Recorded(f) /\ f # n
      <4>1. PICK i \in 1..Len(mgTable) - 1 : mgTable'[i].name = f
        BY <2>3, <3>2 DEF Schema!Recorded
      <4>2. from(i) \in DOMAIN mgTable /\ mgTable[from(i)].name = f /\ from(i) # gone
        BY <2>3, <2>4, <4>1
      <4> QED BY <1>1, <2>1, <4>2 DEF Schema!Recorded
    <3> QED BY <3>1, <3>2
  <2>10. RowsBack => RowsBack'
    <3>2. Schema!File' = Schema!File
      BY DEF Schema!File, Schema!Migration
    <3> QED BY <2>3, <2>4, <3>2 DEF RowsBack
  <2> QED BY <2>7, <2>8, <2>9, <2>10
<1> QED
  BY <1>2, <1>3

-----------------------------------------------------------------------------
(* The files *)

\* What the statements of a file leave of its migration.
LEMMA Ran ==
    ASSUME Schema!TypeOK, NEW f \in Schema!File
    PROVE  /\ \A n \in 0..2 : Schema!After(f, n) \in SUBSET {1, 2}
           /\ Schema!After(f, 0) = mgEffect[f.of]
           /\ mgBackend = "sqlite" \/ f \notin MgCommented
                => Schema!After(f, 2) = IF f.down THEN {} ELSE {1, 2}
<1>1. mgEffect[f.of] \in SUBSET {1, 2}
  BY Files DEF Schema!TypeOK
<1>2. \A i \in 1..2 : Schema!Statements(f)[i] \in {1, 2}
  BY DEF Schema!Statements
<1>3. ASSUME NEW n \in 0..2 PROVE Schema!After(f, n) \in SUBSET {1, 2}
  BY <1>1, <1>2 DEF Schema!After
<1>4. Schema!After(f, 0) = mgEffect[f.of]
  BY <1>1 DEF Schema!After
<1>5. ASSUME mgBackend = "sqlite" \/ f \notin MgCommented
      PROVE  Schema!After(f, 2) = IF f.down THEN {} ELSE {1, 2}
  <2>1. {Schema!Statements(f)[i] : i \in {j \in 1..2 : ~Schema!Dropped(f, j)}} = {1, 2}
    <3>1. {j \in 1..2 : ~Schema!Dropped(f, j)} = {1, 2}
      BY <1>5 DEF Schema!Dropped
    <3>2. {Schema!Statements(f)[1], Schema!Statements(f)[2]} = {1, 2}
      BY DEF Schema!Statements
    <3> QED BY <3>1, <3>2
  <2> QED BY <1>1, <2>1 DEF Schema!After
<1> QED
  BY <1>3, <1>4, <1>5

-----------------------------------------------------------------------------
(* The commands *)

\* Command c goes on with next; the others no longer know the records of K.
Goes(c, next, K) ==
    /\ mgCommand' \in [MgCommands -> SchemaCmd]
    /\ mgCommand'[c] = next
    /\ \A d \in MgCommands \ {c} :
         /\ mgCommand'[d].op = mgCommand[d].op /\ mgCommand'[d].at = mgCommand[d].at
         /\ mgCommand'[d].todo = mgCommand[d].todo
         /\ mgCommand'[d].stale = IF mgCommand[d].op = "idle" THEN {} ELSE mgCommand[d].stale \cup K

LEMMA GoesAlone ==
    ASSUME Schema!TypeOK, CommandsFit, NEW c \in MgCommands, NEW next \in SchemaCmd,
           mgCommand' = [mgCommand EXCEPT ![c] = next]
    PROVE  Goes(c, next, {})
BY DEF Goes, Schema!TypeOK, SchemaCmd, CommandsFit, Fits

LEMMA GoesOn ==
    ASSUME Schema!TypeOK, CommandsFit, NEW c \in MgCommands, NEW next \in SchemaCmd,
           NEW f \in Schema!Name, Schema!Proceed(c, next, f)
    PROVE  Goes(c, next, {f})
<1>1. ASSUME NEW d \in MgCommands \ {c}, mgCommand[d].op = "idle"
      PROVE  mgCommand'[d] \in SchemaCmd /\ mgCommand'[d].op = mgCommand[d].op
             /\ mgCommand'[d].at = mgCommand[d].at /\ mgCommand'[d].todo = mgCommand[d].todo
             /\ mgCommand'[d].stale = {}
  BY <1>1 DEF Schema!Proceed, Schema!Idle, CommandsFit, Fits, SchemaCmd
<1>2. ASSUME NEW d \in MgCommands \ {c}, mgCommand[d].op # "idle"
      PROVE  mgCommand'[d] \in SchemaCmd /\ mgCommand'[d].op = mgCommand[d].op
             /\ mgCommand'[d].at = mgCommand[d].at /\ mgCommand'[d].todo = mgCommand[d].todo
             /\ mgCommand'[d].stale = mgCommand[d].stale \cup {f}
  <2>1. mgCommand'[d] = [mgCommand[d] EXCEPT !.stale = @ \cup {f}]
    BY <1>2 DEF Schema!Proceed
  <2>2. mgCommand[d] \in SchemaCmd
    BY DEF Schema!TypeOK, SchemaCmd
  <2> QED BY <2>1, <2>2 DEF SchemaCmd
<1>3. mgCommand'[c] = next /\ mgCommand' = [d \in MgCommands |-> mgCommand'[d]]
  BY DEF Schema!Proceed
<1>4. \A d \in MgCommands : mgCommand'[d] \in SchemaCmd
  BY <1>1, <1>2, <1>3
<1>5. mgCommand' \in [MgCommands -> SchemaCmd]
  BY <1>3, <1>4
<1> QED
  BY <1>1, <1>2, <1>3, <1>5 DEF Goes

LEMMA FitKept ==
    ASSUME CommandsFit, NEW c \in MgCommands, NEW next, NEW K, Goes(c, next, K), Fits(next)
    PROVE  CommandsFit'
<1>1. ASSUME NEW d \in MgCommands PROVE Fits(mgCommand'[d])
  BY <1>1 DEF Goes, CommandsFit, Fits
<1>2. ASSUME NEW k PROVE Fits(k)' <=> Fits(k)
  BY DEF Fits, Schema!File, Schema!Name, Schema!Baseline, Schema!Migration
<1>3. \A d \in MgCommands : Fits(mgCommand[d])'
  BY <1>1 DEF Fits, Schema!File, Schema!Name, Schema!Baseline, Schema!Migration
<1> QED
  BY <1>3 DEF CommandsFit

LEMMA KnownKept ==
    ASSUME TableKnown, CommandsFit, NEW c \in MgCommands, NEW next, NEW K, Goes(c, next, K),
           mgBackend' = mgBackend,
           \A f : f \notin K /\ Schema!Recorded(f) => Schema!Recorded(f)',
           \A f \in Schema!File : f \notin K /\ Schema!Recorded(f)' => Schema!Recorded(f),
           mgBackend = "sqlite" =>
             \A f \in next.todo \ next.stale :
               /\ next.op = "migrate" => ~Schema!Recorded(f)'
               /\ next.op = "rollback" => Schema!Recorded(f)'
    PROVE  TableKnown'
<1> SUFFICES ASSUME mgBackend = "sqlite", NEW d \in MgCommands,
                    NEW f, f \in mgCommand'[d].todo, f \notin mgCommand'[d].stale
             PROVE  /\ mgCommand'[d].op = "migrate" => ~Schema!Recorded(f)'
                    /\ mgCommand'[d].op = "rollback" => Schema!Recorded(f)'
  BY DEF TableKnown, Knows
<1>1. CASE d = c
  BY <1>1 DEF Goes
<1>2. CASE d # c
  <2>1. CASE mgCommand[d].op = "idle"
    BY <1>2, <2>1 DEF Goes
  <2>2. CASE mgCommand[d].op # "idle"
    <3>1. /\ f \in mgCommand[d].todo /\ f \notin mgCommand[d].stale /\ f \notin K
          /\ mgCommand'[d].op = mgCommand[d].op
      BY <1>2, <2>2 DEF Goes
    <3>2. /\ mgCommand[d].op = "migrate" => ~Schema!Recorded(f) /\ f \in Schema!File
          /\ mgCommand[d].op = "rollback" => Schema!Recorded(f)
      <4>1. Knows(mgCommand[d]) /\ Fits(mgCommand[d])
        BY DEF TableKnown, CommandsFit
      <4>2. mgCommand[d].op = "migrate" => mgCommand[d].todo \subseteq Schema!File
        BY <4>1 DEF Fits
      <4> QED BY <3>1, <4>1, <4>2 DEF Knows
    <3> QED BY <3>1, <3>2
  <2> QED BY <2>1, <2>2
<1> QED
  BY <1>1, <1>2

\* A step that is not about migration m.
LEMMA AgreesKept ==
    ASSUME CommandsFit, NEW c \in MgCommands, NEW next, NEW K, Goes(c, next, K),
           NEW m \in Schema!Migration, Agrees(m),
           Schema!Up(m) \notin K, mgEffect'[m] = mgEffect[m],
           Schema!Recorded(Schema!Up(m))' <=> Schema!Recorded(Schema!Up(m)),
           ~Awaits(c, "migrate", m), ~Awaits(c, "rollback", m), ~Awaits(c, "migrate", m)'
    PROVE  Agrees(m)'
<1>0. Schema!Up(m)' = Schema!Up(m)
  BY DEF Schema!Up
<1>1. ASSUME NEW d \in MgCommands, d # c, NEW op \in {"migrate", "rollback"}
      PROVE  Awaits(d, op, m)' <=> Awaits(d, op, m)
  <2>1. mgCommand[d].op # "idle" => mgCommand'[d].stale = mgCommand[d].stale \cup K
    BY <1>1 DEF Goes
  <2>2. /\ mgCommand'[d].op = mgCommand[d].op /\ mgCommand'[d].at = mgCommand[d].at
        /\ mgCommand'[d].todo = mgCommand[d].todo
    BY <1>1 DEF Goes
  <2>3. Schema!First(mgCommand[d].todo)' = Schema!First(mgCommand[d].todo)
    BY <2>2 DEF Schema!First, Schema!Before
  <2> QED BY <1>0, <2>1, <2>2, <2>3 DEF Awaits
<1> QED
  BY <1>0, <1>1 DEF Agrees

LEMMA IdleFits ==
    Schema!Idle \in SchemaCmd /\ Fits(Schema!Idle) /\ Schema!Idle.op = "idle"
    /\ Schema!Idle.at = "exec" /\ Schema!Idle.todo = {} /\ Schema!Idle.stale = {}
BY DEF Schema!Idle, SchemaCmd, Fits

\* A command that migrates goes on to the next file.
LEMMA RestFits ==
    ASSUME Schema!TypeOK, CommandsFit, NEW c \in MgCommands, mgCommand[c].op = "migrate"
    PROVE  /\ Schema!Rest(c) \in SchemaCmd /\ Fits(Schema!Rest(c))
           /\ Schema!Rest(c).at = "exec" /\ Schema!Rest(c).op \in {"idle", "migrate"}
           /\ Schema!Rest(c).todo \subseteq mgCommand[c].todo \ {Schema!Current(c)}
           /\ Schema!Rest(c).op = "migrate" => Schema!Rest(c).stale = mgCommand[c].stale
<1> DEFINE left == mgCommand[c].todo \ {Schema!Current(c)}
<1>1. mgCommand[c] \in SchemaCmd /\ mgCommand[c].todo \subseteq Schema!File
  BY DEF Schema!TypeOK, SchemaCmd, CommandsFit, Fits
<1>2. CASE left = {}
  <2>1. Schema!Rest(c) = Schema!Idle
    BY <1>2 DEF Schema!Rest
  <2> QED BY <2>1, IdleFits
<1>3. CASE left # {}
  <2>1. Schema!Rest(c) = [mgCommand[c] EXCEPT !.at = "exec", !.todo = left]
    BY <1>3 DEF Schema!Rest
  <2>2. left \subseteq Schema!Name /\ left \subseteq Schema!File
    BY <1>1, Files
  <2> HIDE DEF left
  <2>3. /\ Schema!Rest(c) \in SchemaCmd /\ Schema!Rest(c).at = "exec"
        /\ Schema!Rest(c).op = "migrate" /\ Schema!Rest(c).todo = left
        /\ Schema!Rest(c).stale = mgCommand[c].stale
    BY <1>1, <2>1, <2>2 DEF SchemaCmd
  <2>4. Fits(Schema!Rest(c))
    BY <1>3, <2>2, <2>3 DEF Fits
  <2> QED BY <2>3, <2>4 DEF left
<1> QED
  BY <1>2, <1>3

LEMMA SchemaInit == Schema!Init => SchemaInv
<1> SUFFICES ASSUME Schema!Init PROVE SchemaInv
  OBVIOUS
<1>1. mgTable = <<>> /\ DOMAIN mgTable = {} /\ \A f : ~Schema!Recorded(f)
  BY DEF Schema!Init, Schema!Recorded
<1>2. Schema!TypeOK
  BY <1>1, IdleFits DEF Schema!Init, Schema!TypeOK, SchemaCmd
<1>3. CommandsFit /\ \A c \in MgCommands : mgCommand[c] = Schema!Idle
  BY IdleFits DEF Schema!Init, CommandsFit
<1>4. RowsBack
  BY <1>1 DEF RowsBack
<1>5. BatchesWhole
  BY <1>1, <1>3, IdleFits DEF Schema!Init, BatchesWhole
<1>6. TableKnown
  BY <1>3, IdleFits DEF TableKnown, Knows
<1>7. Agreement
  BY <1>1, <1>3, IdleFits DEF Schema!Init, Agreement, Agrees, Awaits
<1> QED
  BY <1>2, <1>3, <1>4, <1>5, <1>6, <1>7 DEF SchemaInv

\* What the parts of the invariant say in the next state, their constants being rigid.
LEMMA SchemaNextTime ==
    ASSUME mgBackend' \in {"sqlite", "d1"}, mgFiles' \subseteq Schema!File,
           mgTable' \in Seq(SchemaRow),
           \A i, j \in DOMAIN mgTable' : mgTable'[i].name = mgTable'[j].name => i = j,
           mgEffect' \in [Schema!Migration -> SUBSET {1, 2}],
           mgCommand' \in [MgCommands -> SchemaCmd],
           mgHurt' \subseteq Schema!Migration
    PROVE  Schema!TypeOK'
BY DEF Schema!TypeOK, SchemaRow, SchemaCmd, Schema!Name, Schema!File, Schema!Migration,
       Schema!Baseline

LEMMA SchemaNow ==
    ASSUME Schema!TypeOK
    PROVE  /\ mgBackend \in {"sqlite", "d1"} /\ mgFiles \subseteq Schema!File
           /\ mgTable \in Seq(SchemaRow)
           /\ \A i, j \in DOMAIN mgTable : mgTable[i].name = mgTable[j].name => i = j
           /\ mgEffect \in [Schema!Migration -> SUBSET {1, 2}]
           /\ mgCommand \in [MgCommands -> SchemaCmd]
           /\ mgHurt \subseteq Schema!Migration
BY DEF Schema!TypeOK, SchemaRow, SchemaCmd

LEMMA SameTable ==
    ASSUME mgTable' = mgTable
    PROVE  (\A f : Schema!Recorded(f)' <=> Schema!Recorded(f)) /\ (RowsBack => RowsBack')
<1>1. Schema!File' = Schema!File
  BY DEF Schema!File, Schema!Migration
<1> QED
  BY <1>1 DEF Schema!Recorded, RowsBack

\* On D1, a step that leaves record and effect of every migration alone, or sets them
\* right together.
LEMMA BatchesKept ==
    ASSUME BatchesWhole, NEW c \in MgCommands, NEW next, NEW K, Goes(c, next, K),
           mgBackend' = mgBackend,
           mgBackend = "d1" =>
             /\ next.at = "exec"
             /\ next.op = "migrate" => \A f \in next.todo : ~f.down
             /\ \A m \in Schema!Migration :
                  Schema!Up(m) \notin MgCommented /\ Schema!Down(m) \notin MgCommented =>
                    \/ /\ mgEffect'[m] = mgEffect[m]
                       /\ Schema!Recorded(Schema!Up(m))' <=> Schema!Recorded(Schema!Up(m))
                    \/ mgEffect'[m] = IF Schema!Recorded(Schema!Up(m))' THEN {1, 2} ELSE {}
    PROVE  BatchesWhole'
<1> SUFFICES ASSUME mgBackend = "d1" PROVE BatchesWhole'
  BY DEF BatchesWhole
<1>1. ASSUME NEW d \in MgCommands
      PROVE  /\ mgCommand'[d].at = "exec"
             /\ mgCommand'[d].op = "migrate" => \A f \in mgCommand'[d].todo : ~f.down
  BY <1>1 DEF BatchesWhole, Goes
<1>2. Schema!Migration' = Schema!Migration
  BY DEF Schema!Migration
<1>3. \A m : Schema!Up(m)' = Schema!Up(m) /\ Schema!Down(m)' = Schema!Down(m)
  BY DEF Schema!Up, Schema!Down
<1>4. ASSUME NEW m \in Schema!Migration,
             Schema!Up(m) \notin MgCommented, Schema!Down(m) \notin MgCommented
      PROVE  mgEffect'[m] = IF Schema!Recorded(Schema!Up(m))' THEN {1, 2} ELSE {}
  BY <1>4 DEF BatchesWhole
<1> QED
  BY <1>1, <1>2, <1>3, <1>4 DEF BatchesWhole

-----------------------------------------------------------------------------
(* The steps *)

\* A command that has just read the table, or ends without having come to its record.
LEMMA SchemaQuiet ==
    ASSUME SchemaInv, NEW c \in MgCommands, NEW next \in SchemaCmd, Fits(next),
           mgCommand' = [mgCommand EXCEPT ![c] = next],
           ~(next.op = "migrate" /\ next.at = "record"),
           mgBackend = "d1" =>
             next.at = "exec" /\ (next.op = "migrate" => \A f \in next.todo : ~f.down),
           mgBackend = "sqlite" =>
             \A f \in next.todo \ next.stale :
               /\ next.op = "migrate" => ~Schema!Recorded(f)
               /\ next.op = "rollback" => Schema!Recorded(f),
           mgHurt' \in SUBSET Schema!Migration, mgHurt \subseteq mgHurt',
           \A m \in Schema!Migration \ mgHurt' :
               ~Awaits(c, "migrate", m) /\ ~Awaits(c, "rollback", m),
           \A m \in Schema!Migration \ mgHurt' : mgEffect'[m] = mgEffect[m],
           mgEffect' \in [Schema!Migration -> SUBSET {1, 2}],
           mgBackend = "d1" => mgEffect' = mgEffect,
           UNCHANGED <<mgBackend, mgFiles, mgTable>>
    PROVE  SchemaInv'
<1>0. Schema!TypeOK /\ CommandsFit /\ RowsBack /\ BatchesWhole /\ TableKnown /\ Agreement
  BY DEF SchemaInv
<1>1. Goes(c, next, {})
  BY <1>0, GoesAlone
<1>2. Schema!TypeOK'
  BY <1>0, <1>1, SchemaNow, SchemaNextTime DEF Goes
<1>3. CommandsFit'
  BY <1>0, <1>1, FitKept
<1>4. RowsBack' /\ \A f : Schema!Recorded(f)' <=> Schema!Recorded(f)
  BY <1>0, SameTable
<1>5. TableKnown'
  BY <1>0, <1>1, <1>4, KnownKept
<1>6. BatchesWhole'
  BY <1>0, <1>1, <1>4, BatchesKept
<1>7. Agreement'
  <2> SUFFICES ASSUME mgBackend = "sqlite", NEW m \in Schema!Migration, m \notin mgHurt'
               PROVE  Agrees(m)'
    BY DEF Agreement, Schema!Migration
  <2>1. Agrees(m)
    BY <1>0 DEF Agreement
  <2>2. ~Awaits(c, "migrate", m)'
    BY <1>1 DEF Awaits, Goes
  <2> QED BY <1>0, <1>1, <1>4, <2>1, <2>2, AgreesKept
<1> QED
  BY <1>2, <1>3, <1>4, <1>5, <1>6, <1>7 DEF SchemaInv

LEMMA SchemaBegin ==
    ASSUME SchemaInv, NEW c \in MgCommands,
           Schema!BeginMigrate(c) \/ Schema!BeginRollback(c)
    PROVE  SchemaInv'
<1>0. Schema!TypeOK /\ CommandsFit /\ RowsBack
  BY DEF SchemaInv
<1>1. mgCommand[c].op = "idle"
  BY DEF Schema!BeginMigrate, Schema!BeginRollback
<1>2. \A m : ~Awaits(c, "migrate", m) /\ ~Awaits(c, "rollback", m)
  BY <1>1 DEF Awaits
<1>3. CASE Schema!BeginMigrate(c)
  <2> DEFINE next == [Schema!Idle EXCEPT !.op = "migrate", !.todo = Schema!Pending]
  <2>1. /\ Schema!Pending # {} /\ Schema!Pending \subseteq Schema!File
        /\ \A f \in Schema!Pending : ~Schema!Recorded(f) /\ (mgBackend = "d1" => ~f.down)
    BY <1>0, <1>3 DEF Schema!Pending, Schema!TypeOK, Schema!BeginMigrate
  <2>2. /\ next.op = "migrate" /\ next.at = "exec" /\ next.todo = Schema!Pending
        /\ next.stale = {} /\ next \in SchemaCmd
    BY <2>1, Files DEF Schema!Idle, SchemaCmd
  <2>3. mgCommand' = [mgCommand EXCEPT ![c] = next]
        /\ UNCHANGED <<mgBackend, mgFiles, mgTable, mgEffect, mgHurt>>
    BY <1>3 DEF Schema!BeginMigrate
  <2> HIDE DEF next
  <2>4. Fits(next)
    BY <2>1, <2>2 DEF Fits
  <2> QED BY <1>0, <1>2, <2>1, <2>2, <2>3, <2>4, SchemaNow, SchemaQuiet
<1>4. CASE Schema!BeginRollback(c)
  <2> DEFINE last == mgTable[Len(mgTable)]
             b == last.back
             next == [Schema!Idle EXCEPT !.op = "rollback", !.todo = {last.name},
                                         !.at = IF b THEN "exec" ELSE "record"]
  <2>1. Len(mgTable) \in DOMAIN mgTable /\ last \in SchemaRow /\ Schema!Recorded(last.name)
    <3>1. mgTable \in Seq(SchemaRow) /\ mgTable # <<>>
      BY <1>0, <1>4, SchemaNow DEF Schema!BeginRollback
    <3>2. Len(mgTable) \in DOMAIN mgTable /\ last \in SchemaRow
      BY <3>1
    <3> QED BY <3>2 DEF Schema!Recorded
  <2>2. /\ b \/ mgBackend = "sqlite"
        /\ mgCommand' = [mgCommand EXCEPT ![c] = next]
        /\ UNCHANGED <<mgBackend, mgFiles, mgTable, mgEffect, mgHurt>>
    BY <1>4 DEF Schema!BeginRollback
  <2>3. b => last.name \in Schema!File /\ ~last.name.down
    BY <1>0, <2>1 DEF RowsBack
  <2>4. b \in BOOLEAN /\ last.name \in Schema!Name
    BY <2>1 DEF SchemaRow
  <2> HIDE DEF b
  <2>5. /\ next.op = "rollback" /\ next.at = (IF b THEN "exec" ELSE "record")
        /\ next.todo = {last.name} /\ next.stale = {} /\ next \in SchemaCmd
    BY <2>4 DEF Schema!Idle, SchemaCmd
  <2> HIDE DEF next
  <2>6. Fits(next)
    BY <2>3, <2>4, <2>5 DEF Fits
  <2>7. mgBackend # "sqlite" => next.at = "exec"
    BY <2>2, <2>5
  <2> QED BY <1>0, <1>2, <2>1, <2>2, <2>5, <2>6, <2>7, SchemaNow, SchemaQuiet
<1> QED
  BY <1>3, <1>4

\* Killed, or stopped by an error.
LEMMA SchemaCut ==
    ASSUME SchemaInv, NEW c \in MgCommands, Schema!CutExec(c) \/ Schema!CutRecord(c)
    PROVE  SchemaInv'
<1>0. Schema!TypeOK /\ CommandsFit /\ TableKnown
  BY DEF SchemaInv
<1>1. /\ mgCommand' = [mgCommand EXCEPT ![c] = Schema!Idle]
      /\ mgCommand[c].op # "idle"
      /\ UNCHANGED <<mgBackend, mgFiles, mgTable>>
  BY DEF Schema!CutExec, Schema!CutRecord, Schema!Stop
<1>2. CASE Schema!CutExec(c)
  <2>1. Schema!Script(c) \in Schema!File
    <3>1. mgCommand[c].op \in {"migrate", "rollback"} /\ mgCommand[c].at = "exec"
      BY <1>0, <1>2, SchemaNow DEF Schema!CutExec, SchemaCmd
    <3> QED BY <1>0, <3>1, AtOne, Files
  <2>2. PICK n \in IF mgBackend = "d1" THEN {0} ELSE {0, 1} :
          /\ mgEffect' = [mgEffect EXCEPT ![Schema!Script(c).of] = Schema!After(Schema!Script(c), n)]
          /\ mgHurt' = IF mgEffect' # mgEffect THEN mgHurt \cup {Schema!Script(c).of} ELSE mgHurt
    BY <1>2 DEF Schema!CutExec
  <2>3. Schema!Script(c).of \in Schema!Migration
    BY <2>1, Files
  <2>4. mgEffect' \in [Schema!Migration -> SUBSET {1, 2}]
    BY <1>0, <2>1, <2>2, <2>3, Ran, SchemaNow
  <2>5. mgBackend = "d1" => mgEffect' = mgEffect
    BY <1>0, <2>1, <2>2, <2>3, Ran, SchemaNow
  <2>6. mgHurt' \in SUBSET Schema!Migration /\ mgHurt \subseteq mgHurt'
    BY <1>0, <2>2, <2>3, SchemaNow
  <2>7. \A m \in Schema!Migration \ mgHurt' : mgEffect'[m] = mgEffect[m]
    BY <1>0, <2>2, <2>3, SchemaNow
  <2>8. \A m : ~Awaits(c, "migrate", m) /\ ~Awaits(c, "rollback", m)
    BY <1>2 DEF Schema!CutExec, Awaits
  <2> QED BY <1>0, <1>1, <2>4, <2>5, <2>6, <2>7, <2>8, IdleFits, SchemaQuiet
<1>3. CASE Schema!CutRecord(c)
  <2>1. /\ mgEffect' = mgEffect
        /\ mgHurt' = IF Schema!Recorded(Schema!Current(c)) = (mgCommand[c].op = "rollback")
                       THEN mgHurt \cup ({Schema!Current(c).of} \cap Schema!Migration) ELSE mgHurt
    BY <1>3 DEF Schema!CutRecord
  <2>2. mgHurt' \in SUBSET Schema!Migration /\ mgHurt \subseteq mgHurt'
    BY <1>0, <2>1, SchemaNow
  <2>3. ASSUME NEW m \in Schema!Migration \ mgHurt', mgBackend = "sqlite",
               Awaits(c, "migrate", m) \/ Awaits(c, "rollback", m)
        PROVE  FALSE
    <3>1. Schema!Current(c) = Schema!Up(m) /\ Schema!Current(c).of = m
      BY <2>3, Files DEF Awaits, Schema!Current
    <3>2. Schema!Current(c) \in mgCommand[c].todo
      BY <1>0, <2>3, AtOne DEF Awaits
    <3>3. Schema!Current(c) \notin mgCommand[c].stale
      BY <2>3, <3>1 DEF Awaits
    <3>4. Schema!Recorded(Schema!Current(c)) = (mgCommand[c].op = "rollback")
      BY <1>0, <2>3, <3>2, <3>3 DEF TableKnown, Knows, Awaits, Schema!Recorded
    <3> QED BY <2>1, <3>1, <3>4
  <2>4. mgBackend # "sqlite" => mgCommand[c].at = "exec"
    BY <1>0, SchemaNow DEF SchemaInv, BatchesWhole
  <2>5. mgBackend = "sqlite"
    BY <1>3, <2>4 DEF Schema!CutRecord
  <2> QED BY <1>0, <1>1, <2>1, <2>2, <2>3, <2>5, IdleFits, SchemaNow, SchemaQuiet
<1> QED
  BY <1>2, <1>3

\* SQLite, the script of the current file.
LEMMA SchemaExec ==
    ASSUME SchemaInv, NEW c \in MgCommands, Schema!Exec(c)
    PROVE  SchemaInv'
<1>0. /\ Schema!TypeOK /\ CommandsFit /\ RowsBack /\ BatchesWhole /\ TableKnown /\ Agreement
      /\ mgBackend = "sqlite" /\ mgBackend' = mgBackend
  BY DEF SchemaInv, Schema!Exec
<1> DEFINE f == Schema!Script(c)
           at == Schema!Current(c)
           next == [mgCommand[c] EXCEPT !.at = "record"]
<1>1. /\ mgCommand[c] \in SchemaCmd /\ mgCommand[c].op \in {"migrate", "rollback"}
      /\ mgCommand[c].at = "exec"
  BY <1>0, SchemaNow DEF Schema!Exec, SchemaCmd
<1>2. /\ f \in Schema!File /\ at \in Schema!File /\ at \in mgCommand[c].todo
      /\ f.of \in Schema!Migration
      /\ mgCommand[c].op = "migrate" => f = at
      /\ mgCommand[c].op = "rollback" => f = Schema!Down(at.of) /\ ~at.down
  BY <1>0, <1>1, AtOne, Files
<1>3. /\ mgEffect' = [mgEffect EXCEPT ![f.of] = IF f.down THEN {} ELSE {1, 2}]
      /\ mgCommand' = [mgCommand EXCEPT ![c] = next]
      /\ mgHurt' = IF \/ at \in mgCommand[c].stale
                      \/ mgCommand[c].op = "migrate" /\ f.down /\ mgEffect' # mgEffect
                   THEN mgHurt \cup {f.of} ELSE mgHurt
      /\ UNCHANGED <<mgFiles, mgTable>>
  <2>1. Schema!After(f, 2) = IF f.down THEN {} ELSE {1, 2}
    BY <1>0, <1>2, Ran
  <2> QED BY <1>1, <2>1 DEF Schema!Exec
<1>4. /\ next \in SchemaCmd /\ next.op = mgCommand[c].op /\ next.at = "record"
      /\ next.todo = mgCommand[c].todo /\ next.stale = mgCommand[c].stale
  BY <1>1 DEF SchemaCmd
<1> HIDE DEF next
<1>5. Fits(next)
  <2>1. Fits(mgCommand[c])
    BY <1>0 DEF CommandsFit
  <2> QED BY <1>1, <1>4, <2>1 DEF Fits
<1>6. Goes(c, next, {})
  BY <1>0, <1>3, <1>4, GoesAlone
<1>7. Schema!TypeOK'
  <2>1. mgEffect' \in [Schema!Migration -> SUBSET {1, 2}]
    BY <1>0, <1>3, SchemaNow
  <2>2. mgHurt' \subseteq Schema!Migration
    BY <1>0, <1>2, <1>3, SchemaNow
  <2> QED BY <1>0, <1>3, <1>6, <2>1, <2>2, SchemaNow, SchemaNextTime DEF Goes
<1>8. CommandsFit'
  BY <1>0, <1>5, <1>6, FitKept
<1>9. RowsBack' /\ \A g : Schema!Recorded(g)' <=> Schema!Recorded(g)
  BY <1>0, <1>3, SameTable
<1>10. TableKnown'
  <2>1. \A g \in next.todo \ next.stale :
          /\ next.op = "migrate" => ~Schema!Recorded(g)'
          /\ next.op = "rollback" => Schema!Recorded(g)'
    BY <1>0, <1>4, <1>9 DEF TableKnown, Knows
  <2> QED BY <1>0, <1>6, <1>9, <2>1, KnownKept
<1>11. BatchesWhole'
  BY <1>0 DEF BatchesWhole
<1>12. Agreement'
  <2> SUFFICES ASSUME NEW m \in Schema!Migration, m \notin mgHurt'
               PROVE  Agrees(m)'
    BY DEF Agreement, Schema!Migration
  <2>1. Agrees(m) /\ m \notin mgHurt
    BY <1>0, <1>3 DEF Agreement
  <2>2. ~Awaits(c, "migrate", m) /\ ~Awaits(c, "rollback", m)
    BY <1>1 DEF Awaits
  <2>3. Schema!Up(m)' = Schema!Up(m)
    BY DEF Schema!Up
  <2>4. ASSUME NEW op, op = mgCommand[c].op
        PROVE  Awaits(c, op, m)' <=> at = Schema!Up(m) /\ at \notin mgCommand[c].stale
    <3>1. /\ mgCommand'[c].op = mgCommand[c].op /\ mgCommand'[c].at = "record"
          /\ mgCommand'[c].todo = mgCommand[c].todo /\ mgCommand'[c].stale = mgCommand[c].stale
      BY <1>4, <1>6 DEF Goes
    <3>2. Schema!First(mgCommand[c].todo)' = Schema!First(mgCommand[c].todo)
      BY <3>1 DEF Schema!First, Schema!Before
    <3> QED BY <2>3, <2>4, <3>1, <3>2 DEF Awaits, Schema!Current
  <2>5. CASE at # Schema!Up(m)
    <3>1. ~Awaits(c, "migrate", m)'
      <4>1. mgCommand'[c].op = mgCommand[c].op
        BY <1>4, <1>6 DEF Goes
      <4>2. Awaits(c, "migrate", m)' => mgCommand[c].op = "migrate"
        BY <4>1 DEF Awaits
      <4> QED BY <2>4, <2>5, <4>2
    <3>2. mgEffect'[m] = mgEffect[m]
      <4>1. CASE f.of # m
        BY <1>0, <1>3, <4>1, SchemaNow
      <4>2. CASE f.of = m
        <5>1. mgCommand[c].op = "migrate" /\ f.down
          BY <1>1, <1>2, <2>5, <4>2, Files
        <5> QED BY <1>3, <4>2, <5>1
      <4> QED BY <4>1, <4>2
    <3> QED BY <1>0, <1>6, <1>9, <2>1, <2>2, <3>1, <3>2, AgreesKept
  <2>6. CASE at = Schema!Up(m)
    <3>1. at \notin mgCommand[c].stale /\ f.of = m /\ at.of = m /\ ~at.down
      BY <1>1, <1>2, <1>3, <2>6, Files
    <3>2. ASSUME NEW op, op = mgCommand[c].op PROVE Awaits(c, op, m)'
      BY <2>4, <2>6, <3>1, <3>2
    <3>3. CASE mgCommand[c].op = "migrate"
      <4>1. mgEffect'[m] = {1, 2} /\ ~Schema!Recorded(Schema!Up(m))'
        <5>1. f = at
          BY <1>2, <3>3
        <5>2. ~Schema!Recorded(at)
          BY <1>0, <1>2, <3>1, <3>3 DEF TableKnown, Knows
        <5> QED BY <1>0, <1>2, <1>3, <1>9, <2>3, <2>6, <3>1, <5>1, <5>2, SchemaNow
      <4> QED BY <2>3, <3>2, <3>3, <4>1 DEF Agrees
    <3>4. CASE mgCommand[c].op = "rollback"
      <4>1. mgEffect'[m] = {} /\ Schema!Recorded(Schema!Up(m)) /\ Schema!Recorded(Schema!Up(m))'
        <5>1. f.down
          BY <1>2, <3>4, Files
        <5>2. Schema!Recorded(at)
          BY <1>0, <1>2, <3>1, <3>4 DEF TableKnown, Knows
        <5> QED BY <1>0, <1>2, <1>3, <1>9, <2>3, <2>6, <3>1, <5>1, <5>2, SchemaNow
      \* Nobody else who knows the table is about to record it.
      <4>2. ASSUME NEW d \in MgCommands PROVE ~Awaits(d, "migrate", m)'
        <5>1. CASE d = c
          BY <1>4, <1>6, <3>4, <5>1 DEF Awaits, Goes
        <5>2. CASE d # c
          <6> SUFFICES ASSUME Awaits(d, "migrate", m)' PROVE FALSE
            OBVIOUS
          <6>1. /\ mgCommand[d].op = "migrate"
                /\ mgCommand'[d].todo = mgCommand[d].todo
                /\ mgCommand'[d].stale = mgCommand[d].stale
            BY <1>6, <5>2 DEF Awaits, Goes
          <6>2. Schema!First(mgCommand[d].todo)' = Schema!First(mgCommand[d].todo)
            BY <6>1 DEF Schema!First, Schema!Before
          <6>3. Schema!Up(m) \in mgCommand[d].todo /\ Schema!Up(m) \notin mgCommand[d].stale
            BY <1>0, <2>3, <6>1, <6>2, AtOne DEF Awaits, Schema!Current
          <6>4. ~Schema!Recorded(Schema!Up(m))
            BY <1>0, <6>1, <6>3 DEF TableKnown, Knows
          <6> QED BY <4>1, <6>4
        <5> QED BY <5>1, <5>2
      <4> QED BY <2>3, <3>2, <3>4, <4>1, <4>2 DEF Agrees
    <3> QED BY <1>1, <3>3, <3>4
  <2> QED BY <2>5, <2>6
<1> QED
  BY <1>7, <1>8, <1>9, <1>10, <1>11, <1>12 DEF SchemaInv

\* SQLite, the record is written or deleted: the others no longer know it.
LEMMA SchemaRecord ==
    ASSUME SchemaInv, NEW c \in MgCommands, Schema!Record(c) \/ Schema!Delete(c)
    PROVE  SchemaInv'
<1> DEFINE next == IF mgCommand[c].op = "migrate" THEN Schema!Rest(c) ELSE Schema!Idle
<1>0. /\ Schema!TypeOK /\ CommandsFit /\ RowsBack /\ BatchesWhole /\ TableKnown /\ Agreement
      /\ mgBackend = "sqlite" /\ mgCommand[c].at = "record"
      /\ mgCommand[c].op \in {"migrate", "rollback"}
      /\ UNCHANGED <<mgBackend, mgFiles, mgEffect>>
  BY DEF SchemaInv, Schema!Record, Schema!Delete
<1>1. PICK f \in Schema!Name :
        /\ f = Schema!Current(c) /\ f \in mgCommand[c].todo
        /\ mgCommand[c].op = "migrate" => f \in Schema!File
  BY <1>0, AtOne, Files
<1>2. Schema!Proceed(c, next, f)
  <2>1. CASE Schema!Record(c)
    BY <1>1, <2>1 DEF Schema!Record
  <2>2. CASE Schema!Delete(c)
    BY <1>1, <2>2 DEF Schema!Delete
  <2> QED BY <2>1, <2>2
<1>3. /\ next \in SchemaCmd /\ Fits(next) /\ next.at = "exec" /\ next.op \in {"idle", "migrate"}
      /\ next.todo \subseteq mgCommand[c].todo \ {f}
      /\ next.op = "migrate" => /\ mgCommand[c].op = "migrate"
                               /\ next.stale = mgCommand[c].stale
  BY <1>0, <1>1, RestFits, IdleFits
<1> HIDE DEF next
<1>4. Goes(c, next, {f})
  BY <1>0, <1>1, <1>2, <1>3, GoesOn
\* The table.
<1>5. /\ mgTable' \in Seq(SchemaRow)
      /\ \A i, j \in DOMAIN mgTable' : mgTable'[i].name = mgTable'[j].name => i = j
      /\ \A g : g # f => (Schema!Recorded(g)' <=> Schema!Recorded(g))
      /\ Schema!Recorded(f)' <=> mgCommand[c].op = "migrate"
      /\ RowsBack'
  <2>1. CASE Schema!Record(c)
    <3> DEFINE row == [name |-> f, back |-> ~f.down /\ Schema!Down(f.of) \in mgFiles]
    <3>1. /\ ~Schema!Recorded(f) /\ mgTable' = Append(mgTable, row)
          /\ mgCommand[c].op = "migrate"
      BY <1>1, <2>1 DEF Schema!Record
    <3>2. row.name = f /\ (row.back => ~f.down)
      OBVIOUS
    <3>3. row \in SchemaRow
      <4>1. (~f.down /\ Schema!Down(f.of) \in mgFiles) \in BOOLEAN
        OBVIOUS
      <4> QED BY <1>1, <4>1 DEF SchemaRow
    <3> HIDE DEF row
    <3> QED BY <1>0, <1>1, <3>1, <3>2, <3>3, RowAdded
  <2>2. CASE Schema!Delete(c)
    <3>1. mgTable' = Schema!Without(f) /\ mgCommand[c].op = "rollback"
      BY <1>1, <2>2 DEF Schema!Delete
    <3> QED BY <1>0, <3>1, RowGone
  <2> QED BY <2>1, <2>2
<1>6. mgHurt \subseteq mgHurt' /\ mgHurt' \subseteq Schema!Migration
  <2>1. CASE Schema!Record(c)
    <3>1. f.of \in Schema!Migration
      BY <1>1, <2>1, Files DEF Schema!Record
    <3> QED BY <1>0, <1>1, <2>1, <3>1, SchemaNow DEF Schema!Record
  <2>2. CASE Schema!Delete(c)
    <3>1. f # Schema!Baseline => f.of \in Schema!Migration
      BY <1>1, Files
    <3> QED BY <1>0, <1>1, <2>2, <3>1, SchemaNow DEF Schema!Delete
  <2> QED BY <2>1, <2>2
<1>7. Schema!TypeOK'
  BY <1>0, <1>4, <1>5, <1>6, SchemaNow, SchemaNextTime DEF Goes
<1>8. CommandsFit'
  BY <1>0, <1>3, <1>4, FitKept
<1>9. TableKnown'
  <2>1. ASSUME NEW g \in next.todo \ next.stale, next.op = "migrate"
        PROVE  ~Schema!Recorded(g)'
    BY <1>0, <1>3, <1>5, <2>1 DEF TableKnown, Knows
  <2> QED BY <1>0, <1>3, <1>4, <1>5, <2>1, KnownKept
<1>10. BatchesWhole'
  BY <1>0 DEF BatchesWhole
<1>11. Agreement'
  <2> SUFFICES ASSUME NEW m \in Schema!Migration, m \notin mgHurt'
               PROVE  Agrees(m)'
    BY DEF Agreement, Schema!Migration
  <2>1. Agrees(m)
    BY <1>0, <1>6 DEF Agreement
  <2>2. Schema!Up(m)' = Schema!Up(m)
    BY DEF Schema!Up
  <2>3. ~Awaits(c, "migrate", m)'
    BY <1>3, <1>4 DEF Awaits, Goes
  <2>4. CASE f # Schema!Up(m)
    <3>1. ~Awaits(c, "migrate", m) /\ ~Awaits(c, "rollback", m)
      BY <1>1, <2>4 DEF Awaits, Schema!Current
    <3> QED BY <1>0, <1>4, <1>5, <2>1, <2>3, <2>4, <3>1, AgreesKept
  <2>5. CASE f = Schema!Up(m)
    <3>1. f \notin mgCommand[c].stale /\ f.of = m /\ ~f.down /\ f # Schema!Baseline
      <4>1. f.of = m /\ ~f.down /\ f # Schema!Baseline
        BY <2>5, Files
      <4> QED BY <1>1, <4>1 DEF Schema!Record, Schema!Delete
    <3>2. mgEffect'[m] = IF Schema!Recorded(Schema!Up(m))' THEN {1, 2} ELSE {}
      <4>1. CASE Schema!Record(c)
        <5>1. Awaits(c, "migrate", m)
          BY <1>0, <1>1, <2>5, <3>1, <4>1 DEF Awaits, Schema!Record, Schema!Current
        <5>2. mgEffect[m] = {1, 2}
          BY <2>1, <5>1 DEF Agrees
        <5>3. Schema!Recorded(f)'
          BY <1>5, <4>1 DEF Schema!Record
        <5> QED BY <1>0, <2>2, <2>5, <5>2, <5>3
      <4>2. CASE Schema!Delete(c)
        <5>1. mgEffect[m] = {}
          BY <1>1, <3>1, <4>2 DEF Schema!Delete
        <5>2. ~Schema!Recorded(f)'
          BY <1>5, <4>2 DEF Schema!Delete
        <5> QED BY <1>0, <2>2, <2>5, <5>1, <5>2
      <4> QED BY <4>1, <4>2
    <3>3. ASSUME NEW d \in MgCommands PROVE ~Awaits(d, "migrate", m)'
      <4>1. CASE d = c
        BY <2>3, <4>1
      <4>2. CASE d # c
        <5>1. mgCommand'[d].op = "migrate" => f \in mgCommand'[d].stale
          BY <1>4, <4>2 DEF Goes
        <5> QED BY <2>2, <2>5, <5>1 DEF Awaits
      <4> QED BY <4>1, <4>2
    <3> QED BY <2>2, <3>2, <3>3 DEF Agrees
  <2> QED BY <2>4, <2>5
<1> QED
  BY <1>5, <1>7, <1>8, <1>9, <1>10, <1>11 DEF SchemaInv

\* D1, a script and its record in one batch.
LEMMA SchemaBatch ==
    ASSUME SchemaInv, NEW c \in MgCommands, Schema!Batch(c) \/ Schema!BatchBack(c)
    PROVE  SchemaInv'
<1> DEFINE next == IF mgCommand[c].op = "migrate" THEN Schema!Rest(c) ELSE Schema!Idle
<1>0. /\ Schema!TypeOK /\ CommandsFit /\ RowsBack /\ BatchesWhole /\ TableKnown
      /\ mgBackend = "d1" /\ mgCommand[c].op \in {"migrate", "rollback"}
      /\ UNCHANGED <<mgBackend, mgFiles, mgHurt>>
  BY DEF SchemaInv, Schema!Batch, Schema!BatchBack
<1>1. PICK f \in Schema!File :
        /\ f = Schema!Current(c) /\ f \in mgCommand[c].todo /\ ~f.down
        /\ Schema!Script(c) = IF mgCommand[c].op = "migrate" THEN f ELSE Schema!Down(f.of)
  <2>1. mgCommand[c].at = "exec"
    BY <1>0 DEF BatchesWhole
  <2>2. CASE mgCommand[c].op = "migrate"
    BY <1>0, <2>2, AtOne DEF BatchesWhole
  <2>3. CASE mgCommand[c].op = "rollback"
    BY <1>0, <2>1, <2>3, AtOne
  <2> QED BY <1>0, <2>2, <2>3
<1>2. /\ f.of \in Schema!Migration /\ f = Schema!Up(f.of)
      /\ Schema!Down(f.of) \in Schema!File /\ Schema!Down(f.of).down
      /\ Schema!Down(f.of).of = f.of
  BY <1>1, Files
<1>3. Schema!Proceed(c, next, f)
  <2>1. CASE Schema!Batch(c)
    BY <1>1, <2>1 DEF Schema!Batch
  <2>2. CASE Schema!BatchBack(c)
    BY <1>1, <2>2 DEF Schema!BatchBack
  <2> QED BY <2>1, <2>2
<1>4. /\ next \in SchemaCmd /\ Fits(next) /\ next.at = "exec" /\ next.op \in {"idle", "migrate"}
      /\ next.todo \subseteq mgCommand[c].todo
      /\ next.op = "migrate" => mgCommand[c].op = "migrate"
  BY <1>0, RestFits, IdleFits
<1> HIDE DEF next
<1>5. f \in Schema!Name
  BY Files
<1>6. Goes(c, next, {f})
  BY <1>0, <1>3, <1>4, <1>5, GoesOn
<1>7. /\ mgTable' \in Seq(SchemaRow)
      /\ \A i, j \in DOMAIN mgTable' : mgTable'[i].name = mgTable'[j].name => i = j
      /\ \A g : g # f => (Schema!Recorded(g)' <=> Schema!Recorded(g))
      /\ Schema!Recorded(f)' <=> mgCommand[c].op = "migrate"
      /\ RowsBack'
  <2>1. CASE Schema!Batch(c)
    <3> DEFINE row == [name |-> f, back |-> Schema!Down(f.of) \in mgFiles]
    <3>1. /\ ~Schema!Recorded(f) /\ mgTable' = Append(mgTable, row)
          /\ mgCommand[c].op = "migrate"
      BY <1>1, <2>1 DEF Schema!Batch
    <3>2. row.name = f /\ (row.back => ~f.down)
      BY <1>1
    <3>3. row \in SchemaRow
      <4>1. (Schema!Down(f.of) \in mgFiles) \in BOOLEAN
        OBVIOUS
      <4> QED BY <1>5, <4>1 DEF SchemaRow
    <3> HIDE DEF row
    <3> QED BY <1>0, <1>1, <3>1, <3>2, <3>3, RowAdded
  <2>2. CASE Schema!BatchBack(c)
    <3>1. mgTable' = Schema!Without(f) /\ mgCommand[c].op = "rollback"
      BY <1>1, <2>2 DEF Schema!BatchBack
    <3> QED BY <1>0, <3>1, RowGone
  <2> QED BY <2>1, <2>2
<1>8. /\ mgEffect' \in [Schema!Migration -> SUBSET {1, 2}]
      /\ \A m \in Schema!Migration : m # f.of => mgEffect'[m] = mgEffect[m]
      /\ f \notin MgCommented /\ Schema!Down(f.of) \notin MgCommented
           => mgEffect'[f.of] = IF mgCommand[c].op = "migrate" THEN {1, 2} ELSE {}
  <2>1. CASE Schema!Batch(c)
    <3>1. mgEffect' = [mgEffect EXCEPT ![f.of] = Schema!After(f, 2)]
          /\ mgCommand[c].op = "migrate"
      BY <1>1, <2>1 DEF Schema!Batch
    <3>2. /\ Schema!After(f, 2) \in SUBSET {1, 2}
          /\ f \notin MgCommented => Schema!After(f, 2) = {1, 2}
      BY <1>0, <1>1, Ran
    <3> QED BY <1>0, <1>2, <3>1, <3>2, SchemaNow
  <2>2. CASE Schema!BatchBack(c)
    <3>0. mgCommand[c].op = "rollback"
      BY <2>2 DEF Schema!BatchBack
    <3>1. mgEffect' = [mgEffect EXCEPT ![f.of] = Schema!After(Schema!Down(f.of), 2)]
      BY <1>1, <1>2, <2>2, <3>0 DEF Schema!BatchBack
    <3>2. /\ Schema!After(Schema!Down(f.of), 2) \in SUBSET {1, 2}
          /\ Schema!Down(f.of) \notin MgCommented => Schema!After(Schema!Down(f.of), 2) = {}
      BY <1>0, <1>2, Ran
    <3> QED BY <1>0, <1>2, <3>0, <3>1, <3>2, SchemaNow
  <2> QED BY <2>1, <2>2
<1>9. Schema!TypeOK'
  BY <1>0, <1>6, <1>7, <1>8, SchemaNow, SchemaNextTime DEF Goes
<1>10. CommandsFit'
  BY <1>0, <1>4, <1>6, FitKept
<1>11. TableKnown' /\ Agreement'
  BY <1>0 DEF TableKnown, Agreement
<1>12. BatchesWhole'
  <2>1. ASSUME next.op = "migrate" PROVE \A g \in next.todo : ~g.down
    BY <1>0, <1>4, <2>1 DEF BatchesWhole
  <2>2. ASSUME NEW m \in Schema!Migration,
               Schema!Up(m) \notin MgCommented, Schema!Down(m) \notin MgCommented
        PROVE  \/ /\ mgEffect'[m] = mgEffect[m]
                  /\ Schema!Recorded(Schema!Up(m))' <=> Schema!Recorded(Schema!Up(m))
               \/ mgEffect'[m] = IF Schema!Recorded(Schema!Up(m))' THEN {1, 2} ELSE {}
    <3>0. Schema!Up(m)' = Schema!Up(m)
      BY DEF Schema!Up
    <3>1. CASE m = f.of
      <4>1. Schema!Up(m) = f
        BY <1>2, <3>1
      <4>2. Schema!Recorded(Schema!Up(m))' <=> mgCommand[c].op = "migrate"
        BY <1>7, <3>0, <4>1
      <4> QED BY <1>8, <2>2, <3>1, <4>1, <4>2
    <3>2. CASE m # f.of
      <4>1. Schema!Up(m) # f
        BY <3>2, Files
      <4> QED BY <1>7, <1>8, <3>0, <3>2, <4>1
    <3> QED BY <3>1, <3>2
  <2> QED BY <1>0, <1>4, <1>6, <2>1, <2>2, BatchesKept
<1> QED
  BY <1>7, <1>9, <1>10, <1>11, <1>12 DEF SchemaInv

\* The site starts, or a developer adds a file: no command moves.
LEMMA SchemaAround ==
    ASSUME SchemaInv, Schema!Boot \/ (\E f \in MgWritten : Schema!AddFile(f))
                      \/ UNCHANGED mgVars
    PROVE  SchemaInv'
<1>0. /\ Schema!TypeOK /\ CommandsFit /\ RowsBack /\ BatchesWhole /\ TableKnown /\ Agreement
      /\ UNCHANGED <<mgBackend, mgEffect, mgCommand, mgHurt>>
  BY DEF SchemaInv, Schema!Boot, Schema!AddFile, mgVars
<1>1. mgFiles' \subseteq Schema!File
  <2>1. MgWritten \subseteq Schema!File
    BY SchemaAssumption DEF Schema!File, Schema!Migration
  <2> QED BY <1>0, <2>1, SchemaNow DEF Schema!Boot, Schema!AddFile, mgVars
<1>2. /\ mgTable' \in Seq(SchemaRow)
      /\ \A i, j \in DOMAIN mgTable' : mgTable'[i].name = mgTable'[j].name => i = j
      /\ \A g \in Schema!File : Schema!Recorded(g)' <=> Schema!Recorded(g)
      /\ \A g : Schema!Recorded(g) => Schema!Recorded(g)'
      /\ RowsBack'
  <2>1. CASE Schema!Boot
    <3> DEFINE row == [name |-> Schema!Baseline, back |-> FALSE]
    <3>1. mgTable' = Append(mgTable, row) /\ ~Schema!Recorded(Schema!Baseline)
      BY <2>1 DEF Schema!Boot
    <3>2. row \in SchemaRow /\ row.name = Schema!Baseline /\ ~row.back
      BY Files DEF SchemaRow
    <3> HIDE DEF row
    <3> QED BY <1>0, <3>1, <3>2, Files, RowAdded
  <2>2. CASE mgTable' = mgTable
    BY <1>0, <2>2, SchemaNow, SameTable
  <2> QED BY <2>1, <2>2 DEF Schema!AddFile, mgVars
<1>3. Schema!TypeOK'
  BY <1>0, <1>1, <1>2, SchemaNow, SchemaNextTime
<1>4. /\ Schema!Migration' = Schema!Migration /\ Schema!File' = Schema!File
      /\ Schema!Name' = Schema!Name
      /\ \A m : Schema!Up(m)' = Schema!Up(m) /\ Schema!Down(m)' = Schema!Down(m)
  BY DEF Schema!Migration, Schema!File, Schema!Up, Schema!Down, Schema!Name, Schema!Baseline
<1>5. CommandsFit'
  BY <1>0, <1>4 DEF CommandsFit, Fits
<1>6. ASSUME NEW m \in Schema!Migration
      PROVE  Schema!Recorded(Schema!Up(m))' <=> Schema!Recorded(Schema!Up(m))
  BY <1>2, <1>4, Files
<1>7. BatchesWhole'
  BY <1>0, <1>4, <1>6 DEF BatchesWhole
<1>8. TableKnown'
  <2> SUFFICES ASSUME mgBackend = "sqlite", NEW c \in MgCommands,
                      NEW f \in mgCommand[c].todo \ mgCommand[c].stale
               PROVE  /\ mgCommand[c].op = "migrate" => ~Schema!Recorded(f)'
                      /\ mgCommand[c].op = "rollback" => Schema!Recorded(f)'
    BY <1>0 DEF TableKnown, Knows
  <2>1. Knows(mgCommand[c]) /\ Fits(mgCommand[c])
    BY <1>0 DEF TableKnown, CommandsFit
  <2>2. mgCommand[c].op = "migrate" => f \in Schema!File
    BY <2>1 DEF Fits
  <2> QED BY <1>2, <2>1, <2>2 DEF Knows
<1>9. Agreement'
  <2> SUFFICES ASSUME mgBackend = "sqlite", NEW m \in Schema!Migration, m \notin mgHurt
               PROVE  Agrees(m)'
    BY <1>0, <1>4 DEF Agreement
  <2>1. Agrees(m)
    BY <1>0 DEF Agreement
  <2>2. ASSUME NEW c \in MgCommands, NEW op PROVE Awaits(c, op, m)' <=> Awaits(c, op, m)
    <3>1. Schema!First(mgCommand[c].todo)' = Schema!First(mgCommand[c].todo)
      BY <1>0 DEF Schema!First, Schema!Before
    <3> QED BY <1>0, <1>4, <3>1 DEF Awaits
  <2> QED BY <1>0, <1>4, <1>6, <2>1, <2>2 DEF Agrees
<1> QED
  BY <1>2, <1>3, <1>5, <1>7, <1>8, <1>9 DEF SchemaInv

LEMMA SchemaStep ==
    ASSUME SchemaInv, [Schema!Next]_mgVars
    PROVE  SchemaInv'
<1>1. ASSUME NEW c \in MgCommands,
             \/ Schema!BeginMigrate(c) \/ Schema!BeginRollback(c)
             \/ Schema!Exec(c) \/ Schema!Record(c) \/ Schema!Delete(c) \/ Schema!Batch(c)
             \/ Schema!BatchBack(c) \/ Schema!CutExec(c) \/ Schema!CutRecord(c)
      PROVE  SchemaInv'
  BY <1>1, SchemaBegin, SchemaExec, SchemaRecord, SchemaBatch, SchemaCut
<1> QED
  BY <1>1, SchemaAround DEF Schema!Next

\* A migration whose record is about to be set right has a command at it.
LEMMA SchemaRecords == SchemaInv => Schema!RecordedIffInForce
<1> SUFFICES ASSUME SchemaInv, NEW m \in Schema!Migration, m \notin mgHurt,
                    ~Schema!Between(m),
                    mgBackend = "d1" => {Schema!Up(m), Schema!Down(m)} \cap MgCommented = {}
             PROVE  mgEffect[m] = IF Schema!Recorded(Schema!Up(m)) THEN {1, 2} ELSE {}
  BY DEF Schema!RecordedIffInForce
<1>1. CASE mgBackend = "d1"
  BY <1>1 DEF SchemaInv, BatchesWhole
<1>2. CASE mgBackend = "sqlite"
  <2>1. Agrees(m)
    BY <1>2 DEF SchemaInv, Agreement
  <2>2. ASSUME NEW c \in MgCommands PROVE ~Awaits(c, "migrate", m) /\ ~Awaits(c, "rollback", m)
    BY Files DEF Awaits, Schema!Between, Schema!Current
  <2> QED BY <2>1, <2>2 DEF Agrees
<1> QED
  BY <1>1, <1>2, SchemaNow DEF SchemaInv

-----------------------------------------------------------------------------
(* Flash messages *)

\* What a request of Flash may wait for.
FlashReq == [at : {"idle", "insert", "delete"}, id : FlIds, time : 0..Messages!None,
             overlap : BOOLEAN]

\* What no step gives up, each with the one it needs: on SQLite nothing waits; an id a
\* request waits with was handed out; while its row is yet to be inserted nobody else
\* has the id and nothing was shown of it.
SqliteAwaitsNothing == flBackend = "sqlite" => \A r \in FlRequests : flReq[r].at = "idle"
WaitsWithUsed == \A r \in FlRequests : flReq[r].at # "idle" => flReq[r].id \in flUsed
InsertsAlone ==
    \A r, q \in FlRequests :
        flReq[r].at = "insert" /\ flReq[q].at # "idle" /\ flReq[q].id = flReq[r].id => q = r
InsertsUnseen == \A r \in FlRequests : flReq[r].at = "insert" => flReq[r].id \notin flShown

FlashInv == /\ Messages!TypeOK
            /\ SqliteAwaitsNothing /\ WaitsWithUsed /\ InsertsAlone /\ InsertsUnseen
            /\ Messages!GoneOnceShown

LEMMA FlashDefaults ==
    /\ Messages!None \in Nat
    /\ Messages!Idle \in FlashReq
    /\ Messages!Idle.at = "idle"
    /\ \A n \in 0..FlMaxNow : n + FlTTL \in 0..Messages!None /\ n + FlTTL < Messages!None
<1>1. (CHOOSE i \in FlIds : TRUE) \in FlIds
  BY MessagesAssumption
<1> QED
  BY <1>1, MessagesAssumption DEF Messages!None, Messages!Idle, FlashReq

LEMMA FlashTypeInit == Messages!Init => Messages!TypeOK
BY FlashDefaults, MessagesAssumption DEF Messages!Init, Messages!TypeOK, FlashReq

LEMMA FlashTypeStep ==
    ASSUME Messages!TypeOK, WaitsWithUsed, [Messages!Next]_flVars
    PROVE  Messages!TypeOK'
<1> USE FlashDefaults, MessagesAssumption DEF Messages!TypeOK, FlashReq
<1>0. Messages!Swept \in [FlIds -> 0..Messages!None]
  BY DEF Messages!Swept
<1>1. ASSUME NEW i \in FlIds, Messages!Put(i)
      PROVE  Messages!TypeOK'
  BY <1>0, <1>1 DEF Messages!Put
<1>2. ASSUME NEW i \in FlIds, Messages!Consume(i)
      PROVE  Messages!TypeOK'
  BY <1>2 DEF Messages!Consume, Messages!Return, Messages!Known
<1>3. ASSUME NEW r \in FlRequests, NEW i \in FlIds, Messages!Sweep(r, i)
      PROVE  Messages!TypeOK'
  BY <1>0, <1>3 DEF Messages!Sweep, Messages!Await
<1>4. ASSUME NEW r \in FlRequests, NEW i \in FlIds, Messages!Select(r, i)
      PROVE  Messages!TypeOK'
  BY <1>4 DEF Messages!Select, Messages!Await
<1>5. ASSUME NEW r \in FlRequests, Messages!Insert(r)
      PROVE  Messages!TypeOK'
  BY <1>5 DEF Messages!Insert
<1>7. ASSUME NEW r \in FlRequests, Messages!Die(r)
      PROVE  Messages!TypeOK'
  BY <1>7 DEF Messages!Die
<1>8. CASE Messages!Tick
  BY <1>8 DEF Messages!Tick
<1>9. CASE UNCHANGED flVars
  BY <1>9 DEF flVars
<1>6. ASSUME NEW r \in FlRequests, Messages!Delete(r)
      PROVE  Messages!TypeOK'
  <2>1. flReq[r].id \in FlIds
    OBVIOUS
  <2>2. flReq' \in [FlRequests -> FlashReq]
    BY <1>6 DEF Messages!Delete
  <2>3. flRows' \in [FlIds -> 0..Messages!None]
    BY <1>6 DEF Messages!Delete
  <2>4. CASE flShown' = flShown
    BY <1>6, <2>2, <2>3, <2>4 DEF Messages!Delete
  <2>5. CASE flShown' # flShown
    BY <1>6, <2>1, <2>2, <2>3, <2>5 DEF Messages!Delete, Messages!Return, WaitsWithUsed
  <2> QED
    BY <2>4, <2>5
<1> QED
  BY <1>1, <1>2, <1>3, <1>4, <1>5, <1>6, <1>7, <1>8, <1>9 DEF Messages!Next

LEMMA FlashInitInv == Messages!Init => FlashInv
BY FlashDefaults, FlashTypeInit, MessagesAssumption
   DEF Messages!Init, FlashInv, SqliteAwaitsNothing, WaitsWithUsed, InsertsAlone, InsertsUnseen,
       Messages!GoneOnceShown

\* One step of Flash keeps the invariant, action by action.
LEMMA FlashStep ==
    ASSUME FlashInv, [Messages!Next]_flVars
    PROVE  FlashInv'
<1>t. Messages!TypeOK /\ Messages!TypeOK'
  BY FlashTypeStep DEF FlashInv
<1> SUFFICES /\ SqliteAwaitsNothing' /\ WaitsWithUsed' /\ InsertsAlone' /\ InsertsUnseen'
             /\ Messages!GoneOnceShown'
  BY <1>t DEF FlashInv
<1> USE <1>t, FlashDefaults, MessagesAssumption
    DEF FlashInv, Messages!TypeOK, SqliteAwaitsNothing, WaitsWithUsed, InsertsAlone,
        InsertsUnseen, Messages!GoneOnceShown, FlashReq
<1>0. \A i \in FlIds : flRows[i] = Messages!None => Messages!Swept[i] = Messages!None
  BY DEF Messages!Swept
<1>1. ASSUME NEW i \in FlIds, Messages!Put(i)
      PROVE  FlashInv'
  BY <1>0, <1>1 DEF Messages!Put, Messages!Swept
<1>2. ASSUME NEW i \in FlIds, Messages!Consume(i)
      PROVE  FlashInv'
  BY <1>2 DEF Messages!Consume, Messages!Return, Messages!Known
<1>3. ASSUME NEW r \in FlRequests, NEW i \in FlIds, Messages!Sweep(r, i)
      PROVE  FlashInv'
  BY <1>0, <1>3 DEF Messages!Sweep, Messages!Await, Messages!Swept
<1>4. ASSUME NEW r \in FlRequests, NEW i \in FlIds, Messages!Select(r, i)
      PROVE  FlashInv'
  BY <1>4 DEF Messages!Select, Messages!Await, Messages!Known
<1>5. ASSUME NEW r \in FlRequests, Messages!Insert(r)
      PROVE  FlashInv'
  BY <1>5 DEF Messages!Insert
<1>6. ASSUME NEW r \in FlRequests, Messages!Delete(r)
      PROVE  FlashInv'
  BY <1>6 DEF Messages!Delete, Messages!Return
<1>7. ASSUME NEW r \in FlRequests, Messages!Die(r)
      PROVE  FlashInv'
  BY <1>7 DEF Messages!Die
<1>8. CASE Messages!Tick
  BY <1>8 DEF Messages!Tick
<1>9. CASE UNCHANGED flVars
  BY <1>9 DEF flVars
<1> QED
  BY <1>1, <1>2, <1>3, <1>4, <1>5, <1>6, <1>7, <1>8, <1>9 DEF Messages!Next

-----------------------------------------------------------------------------
(* Rate limits *)

LimitReq == [at : {"idle", "guess", "verified", "reset", "count"}, key : Limits!Keys,
             seen : 0..RlMaxNow, since : 0..RlMaxNow, stale : BOOLEAN]

\* On SQLite no request stands between reading a window and writing it.
SqliteReadsAndWrites ==
    rlBackend = "sqlite" => \A r \in RlRequests : rlReq[r].at \notin {"reset", "count"}

\* What a request does fits the kind of its key, and its clock has passed.
KindsFit ==
    \A r \in RlRequests :
        /\ rlReq[r].at = "guess" => rlReq[r].key \in RlLogins
        /\ rlReq[r].at = "verified" => rlReq[r].key \in RlNonces
        /\ rlReq[r].at = "count" => rlReq[r].key \notin RlNonces
        /\ rlReq[r].at # "idle" /\ rlReq[r].key \in RlNonces => rlReq[r].since <= RlWindow
        /\ rlReq[r].seen <= rlNow

\* Where nobody raced the row says how often the key was used.
Counted == \A k \in Limits!Keys \ rlRaced : rlUsed[k] = rlWindows[k].count

\* A form: the row is within the limit, and below it for a request that goes on to count.
FormsWithin == \A k \in RlForms \ rlRaced : rlWindows[k].count <= RlMax
FormsNext ==
    \A r \in RlRequests :
        rlReq[r].at = "count" /\ ~rlReq[r].stale /\ rlReq[r].key \in RlForms
            => rlWindows[rlReq[r].key].count < RlMax

\* A nonce that was claimed has a row, and no older one; and who is to begin its window
\* anew has found it without a row or over.
NonceClaimed ==
    \A n \in RlNonces :
        rlFirstUse[n] # Limits!Never
            => rlWindows[n].count # 0 /\ rlFirstUse[n] <= rlWindows[n].start
NonceOver ==
    \A r \in RlRequests :
        rlReq[r].at = "reset" /\ ~rlReq[r].stale /\ rlReq[r].key \in RlNonces
            => \/ rlWindows[rlReq[r].key].count = 0
               \/ rlReq[r].seen - rlWindows[rlReq[r].key].start > RlWindow

WindowInv == /\ Limits!TypeOK
             /\ SqliteReadsAndWrites /\ KindsFit /\ Counted
             /\ FormsWithin /\ FormsNext /\ NonceClaimed /\ NonceOver

LEMMA LimitDefaults ==
    /\ Limits!Idle \in LimitReq
    /\ Limits!Idle.at = "idle" /\ Limits!Idle.seen = 0 /\ Limits!Idle.since = 0
    /\ ~Limits!Idle.stale
    /\ Limits!Never \in Nat /\ \A n \in 0..RlMaxNow : n < Limits!Never /\ n \in 0..Limits!Never
<1>1. (CHOOSE k \in Limits!Keys : TRUE) \in Limits!Keys
  BY LimitsAssumption DEF Limits!Keys
<1> QED
  BY <1>1, LimitsAssumption DEF Limits!Idle, LimitReq, Limits!Never

LEMMA LimitInit == Limits!Init => WindowInv
BY LimitDefaults, LimitsAssumption
   DEF Limits!Init, WindowInv, Limits!TypeOK, LimitReq, SqliteReadsAndWrites, KindsFit, Counted,
       FormsWithin, FormsNext, NonceClaimed, NonceOver, Limits!Keys

\* The claim of a key, by a clock that has passed: the earliest one is kept.
LEMMA LimitAccept ==
    ASSUME Limits!TypeOK, NEW k \in Limits!Keys, NEW t \in 0..RlMaxNow, Limits!Accept(k, t)
    PROVE  /\ rlFirstUse' \in [RlNonces -> 0..Limits!Never]
           /\ \A n \in RlNonces : n # k => rlFirstUse'[n] = rlFirstUse[n]
           /\ k \in RlNonces => rlFirstUse'[k] <= t /\ rlFirstUse'[k] <= rlFirstUse[k]
BY LimitDefaults, LimitsAssumption DEF Limits!TypeOK, Limits!Accept, Limits!Never

\* What writing a window makes of it.
LEMMA LimitReset ==
    ASSUME Limits!TypeOK, NEW k \in Limits!Keys, NEW t \in 0..RlMaxNow, NEW stale \in BOOLEAN,
           Limits!Reset(k, t, stale)
    PROVE  /\ rlWindows' \in [Limits!Keys -> [count : Nat, start : 0..RlMaxNow]]
           /\ rlUsed' \in [Limits!Keys -> Nat]
           /\ rlRaced' \subseteq Limits!Keys
           /\ rlWindows'[k].count = 1 /\ rlWindows'[k].start = t
           /\ ~stale => rlUsed'[k] = 1 /\ rlRaced' = rlRaced \ {k}
           /\ stale => rlRaced' = rlRaced \cup {k}
           /\ \A l \in Limits!Keys : l # k => rlWindows'[l] = rlWindows[l] /\ rlUsed'[l] = rlUsed[l]
BY DEF Limits!TypeOK, Limits!Reset

LEMMA LimitIncrement ==
    ASSUME Limits!TypeOK, NEW k \in Limits!Keys, NEW stale \in BOOLEAN,
           Limits!Increment(k, stale)
    PROVE  /\ rlWindows' \in [Limits!Keys -> [count : Nat, start : 0..RlMaxNow]]
           /\ rlUsed' \in [Limits!Keys -> Nat]
           /\ rlRaced' \subseteq Limits!Keys
           /\ rlWindows'[k].count = rlWindows[k].count + 1
           /\ rlWindows'[k].start = rlWindows[k].start
           /\ rlUsed'[k] = rlUsed[k] + 1
           /\ ~stale => rlRaced' = rlRaced
           /\ stale => rlRaced' = rlRaced \cup {k}
           /\ \A l \in Limits!Keys : l # k => rlWindows'[l] = rlWindows[l] /\ rlUsed'[l] = rlUsed[l]
BY DEF Limits!TypeOK, Limits!Increment


\* SQLite: a window is read and written in one step.  Only a login counts what it did not
\* ask about just before.
LEMMA LimitTake ==
    ASSUME WindowInv, NEW r \in RlRequests, NEW k \in Limits!Keys, Limits!Take(r, k),
           k \in RlLogins \/ Limits!Free(k)
    PROVE  WindowInv'
<1>1. Limits!TypeOK /\ rlNow \in 0..RlMaxNow /\ Limits!Accept(k, rlNow)
  BY DEF WindowInv, Limits!TypeOK, Limits!Take
<1>2. /\ rlFirstUse' \in [RlNonces -> 0..Limits!Never]
      /\ \A n \in RlNonces : n # k => rlFirstUse'[n] = rlFirstUse[n]
      /\ k \in RlNonces => rlFirstUse'[k] <= rlNow /\ rlFirstUse'[k] <= rlFirstUse[k]
  BY <1>1, LimitAccept
<1>3. /\ rlReq' \in [RlRequests -> LimitReq]
      /\ rlReq' = [rlReq EXCEPT ![r] = Limits!Idle]
      /\ rlBackend' = rlBackend /\ rlNow' = rlNow /\ rlBackend = "sqlite"
  BY LimitDefaults DEF WindowInv, Limits!TypeOK, Limits!Take, LimitReq
<1>4. SqliteReadsAndWrites' /\ KindsFit' /\ FormsNext' /\ NonceOver'
  BY <1>3, LimitDefaults
     DEF WindowInv, Limits!TypeOK, SqliteReadsAndWrites, KindsFit, FormsNext, NonceOver
<1>5. CASE Limits!Over(k)
  <2>1. Limits!Reset(k, rlNow, FALSE)
    BY <1>5 DEF Limits!Take
  <2>2. /\ rlWindows' \in [Limits!Keys -> [count : Nat, start : 0..RlMaxNow]]
        /\ rlUsed' \in [Limits!Keys -> Nat]
        /\ rlRaced' = rlRaced \ {k} /\ rlRaced' \subseteq Limits!Keys
        /\ rlWindows'[k].count = 1 /\ rlWindows'[k].start = rlNow /\ rlUsed'[k] = 1
        /\ \A l \in Limits!Keys : l # k => rlWindows'[l] = rlWindows[l] /\ rlUsed'[l] = rlUsed[l]
    BY <1>1, <2>1, LimitReset
  <2>3. Limits!TypeOK'
    BY <1>1, <1>2, <1>3, <2>2 DEF Limits!TypeOK, LimitReq
  <2>4. Counted'
    BY <2>2 DEF WindowInv, Counted
  <2>5. FormsWithin'
    <3> SUFFICES ASSUME NEW l \in RlForms, l \notin rlRaced'
                 PROVE  rlWindows'[l].count <= RlMax
      BY DEF FormsWithin
    <3>1. CASE l = k
      BY <2>2, <3>1, LimitsAssumption
    <3>2. CASE l # k
      BY <2>2, <3>2 DEF WindowInv, FormsWithin, Limits!Keys
    <3> QED
      BY <3>1, <3>2
  <2>6. NonceClaimed'
    <3> SUFFICES ASSUME NEW n \in RlNonces, rlFirstUse'[n] # Limits!Never
                 PROVE  rlWindows'[n].count # 0 /\ rlFirstUse'[n] <= rlWindows'[n].start
      BY DEF NonceClaimed, Limits!Never
    <3>1. CASE n = k
      BY <1>2, <2>2, <3>1
    <3>2. CASE n # k
      BY <1>2, <2>2, <3>2 DEF WindowInv, NonceClaimed, Limits!Keys
    <3> QED
      BY <3>1, <3>2
  <2> QED
    BY <1>4, <2>3, <2>4, <2>5, <2>6 DEF WindowInv
<1>6. CASE ~Limits!Over(k)
  <2>1. Limits!Increment(k, FALSE)
    BY <1>6 DEF Limits!Take
  <2>2. /\ rlWindows' \in [Limits!Keys -> [count : Nat, start : 0..RlMaxNow]]
        /\ rlUsed' \in [Limits!Keys -> Nat]
        /\ rlRaced' = rlRaced /\ rlRaced' \subseteq Limits!Keys
        /\ rlWindows'[k].count = rlWindows[k].count + 1
        /\ rlWindows'[k].start = rlWindows[k].start /\ rlUsed'[k] = rlUsed[k] + 1
        /\ \A l \in Limits!Keys : l # k => rlWindows'[l] = rlWindows[l] /\ rlUsed'[l] = rlUsed[l]
    BY <1>1, <2>1, LimitIncrement
  <2>3. Limits!TypeOK'
    BY <1>1, <1>2, <1>3, <2>2 DEF Limits!TypeOK, LimitReq
  <2>4. k \notin RlNonces
    BY <1>1, <1>6, LimitsAssumption
       DEF Limits!Free, Limits!Over, Limits!Limit, Limits!TypeOK
  <2>5. k \in RlForms => rlWindows[k].count < RlMax
    BY <1>6, LimitsAssumption DEF Limits!Free, Limits!Limit
  <2>6. Counted'
    BY <2>2 DEF WindowInv, Counted
  <2>7. FormsWithin'
    BY <1>1, <2>2, <2>5, LimitsAssumption
       DEF WindowInv, FormsWithin, Limits!Keys, Limits!TypeOK
  <2>8. NonceClaimed'
    BY <1>2, <2>2, <2>4 DEF WindowInv, NonceClaimed, Limits!Keys, Limits!Never
  <2> QED
    BY <1>4, <2>3, <2>6, <2>7, <2>8 DEF WindowInv
<1> QED
  BY <1>5, <1>6

\* D1: the window is judged; nothing is written.
LEMMA LimitRead ==
    ASSUME WindowInv, NEW r \in RlRequests, NEW k \in Limits!Keys, Limits!Read(r, k),
           k \in RlLogins \/ Limits!Free(k),
           k \in RlNonces => rlReq[r].since <= RlWindow
    PROVE  WindowInv'
<1> DEFINE at == IF Limits!Over(k) THEN "reset" ELSE "count"
           next == [Limits!Idle EXCEPT !.at = at, !.key = k, !.seen = rlNow,
                                       !.since = rlReq[r].since]
<1>1. /\ next \in LimitReq /\ next.at = at /\ next.key = k /\ next.seen = rlNow
      /\ next.since = rlReq[r].since /\ ~next.stale
  BY LimitDefaults DEF WindowInv, Limits!TypeOK, LimitReq
<1>2. /\ rlReq' = [rlReq EXCEPT ![r] = next]
      /\ rlBackend = "d1"
      /\ UNCHANGED <<rlBackend, rlNow, rlWindows, rlUsed, rlRaced, rlFirstUse>>
  BY DEF Limits!Read
<1>3. /\ Limits!Over(k) => rlWindows[k].count = 0 \/ rlNow - rlWindows[k].start > RlWindow
      /\ ~Limits!Over(k) => k \notin RlNonces
      /\ ~Limits!Over(k) /\ k \in RlForms => rlWindows[k].count < RlMax
  BY LimitsAssumption
     DEF Limits!Free, Limits!Over, Limits!Limit, WindowInv, Limits!TypeOK
<1>4. at \in {"reset", "count"} /\ (at = "reset" => Limits!Over(k)) /\ (at = "count" => ~Limits!Over(k))
  OBVIOUS
<1> HIDE DEF next, at
<1>5. Limits!TypeOK'
  BY <1>1, <1>2 DEF WindowInv, Limits!TypeOK, LimitReq
<1>6. SqliteReadsAndWrites' /\ Counted' /\ FormsWithin' /\ NonceClaimed'
  BY <1>2 DEF WindowInv, SqliteReadsAndWrites, Counted, FormsWithin, NonceClaimed
<1>7. KindsFit'
  BY <1>1, <1>2, <1>3, <1>4 DEF WindowInv, Limits!TypeOK, KindsFit
<1>8. FormsNext' /\ NonceOver'
  BY <1>1, <1>2, <1>3, <1>4 DEF WindowInv, Limits!TypeOK, FormsNext, NonceOver
<1> QED
  BY <1>5, <1>6, <1>7, <1>8 DEF WindowInv

\* D1: the window is written, whatever it is by now; who has read it before is stale.
LEMMA LimitWrite ==
    ASSUME WindowInv, NEW r \in RlRequests, Limits!Write(r)
    PROVE  WindowInv'
<1>1. PICK k \in Limits!Keys, stale \in BOOLEAN, t \in 0..RlMaxNow :
         k = rlReq[r].key /\ stale = rlReq[r].stale /\ t = rlReq[r].seen
  BY DEF WindowInv, Limits!TypeOK
<1>2. /\ Limits!TypeOK /\ Limits!Accept(k, t)
      /\ rlBackend' = rlBackend /\ rlNow' = rlNow
      /\ \/ rlReq[r].at = "reset" /\ Limits!Reset(k, t, stale)
         \/ rlReq[r].at = "count" /\ Limits!Increment(k, stale)
      /\ rlReq' = [q \in RlRequests |->
                     IF q = r THEN Limits!Idle
                     ELSE IF rlReq[q].key = k /\ rlReq[q].at \in {"reset", "count"}
                            THEN [rlReq[q] EXCEPT !.stale = TRUE] ELSE rlReq[q]]
  BY <1>1 DEF WindowInv, Limits!Write
<1>3. /\ rlFirstUse' \in [RlNonces -> 0..Limits!Never]
      /\ \A n \in RlNonces : n # k => rlFirstUse'[n] = rlFirstUse[n]
      /\ k \in RlNonces => rlFirstUse'[k] <= t /\ rlFirstUse'[k] <= rlFirstUse[k]
  BY <1>2, LimitAccept
<1>4. /\ rlReq' \in [RlRequests -> LimitReq]
      /\ rlReq'[r] = Limits!Idle
      /\ \A q \in RlRequests : q # r =>
           /\ rlReq'[q].at = rlReq[q].at /\ rlReq'[q].key = rlReq[q].key
           /\ rlReq'[q].seen = rlReq[q].seen /\ rlReq'[q].since = rlReq[q].since
           /\ rlReq[q].stale => rlReq'[q].stale
           /\ rlReq[q].key = k /\ rlReq[q].at \in {"reset", "count"} => rlReq'[q].stale
  BY <1>2, LimitDefaults DEF Limits!TypeOK, LimitReq
<1>5. SqliteReadsAndWrites' /\ KindsFit'
  BY <1>2, <1>4, LimitDefaults, LimitsAssumption
     DEF WindowInv, SqliteReadsAndWrites, KindsFit, Limits!TypeOK
<1>6. CASE rlReq[r].at = "reset" /\ Limits!Reset(k, t, stale)
  <2>1. /\ rlWindows' \in [Limits!Keys -> [count : Nat, start : 0..RlMaxNow]]
        /\ rlUsed' \in [Limits!Keys -> Nat]
        /\ rlRaced' \subseteq Limits!Keys
        /\ rlWindows'[k].count = 1 /\ rlWindows'[k].start = t
        /\ ~stale => rlUsed'[k] = 1 /\ rlRaced' = rlRaced \ {k}
        /\ stale => rlRaced' = rlRaced \cup {k}
        /\ \A l \in Limits!Keys : l # k => rlWindows'[l] = rlWindows[l] /\ rlUsed'[l] = rlUsed[l]
    BY <1>2, <1>6, LimitReset
  <2>2. Limits!TypeOK'
    BY <1>2, <1>3, <1>4, <2>1 DEF Limits!TypeOK, LimitReq
  <2>3. Counted'
    BY <2>1 DEF WindowInv, Counted
  <2>4. FormsWithin'
    BY <2>1, LimitsAssumption DEF WindowInv, FormsWithin, Limits!Keys
  <2>5. NonceClaimed'
    BY <1>2, <1>3, <2>1, <2>2 DEF WindowInv, NonceClaimed, Limits!Keys, Limits!TypeOK
  <2>6. FormsNext' /\ NonceOver'
    BY <1>2, <1>4, <2>1, LimitDefaults DEF WindowInv, FormsNext, NonceOver, Limits!TypeOK
  <2> QED
    BY <1>5, <2>2, <2>3, <2>4, <2>5, <2>6 DEF WindowInv
<1>7. CASE rlReq[r].at = "count" /\ Limits!Increment(k, stale)
  <2>1. /\ rlWindows' \in [Limits!Keys -> [count : Nat, start : 0..RlMaxNow]]
        /\ rlUsed' \in [Limits!Keys -> Nat]
        /\ rlRaced' \subseteq Limits!Keys
        /\ rlWindows'[k].count = rlWindows[k].count + 1
        /\ rlWindows'[k].start = rlWindows[k].start /\ rlUsed'[k] = rlUsed[k] + 1
        /\ ~stale => rlRaced' = rlRaced
        /\ stale => rlRaced' = rlRaced \cup {k}
        /\ \A l \in Limits!Keys : l # k => rlWindows'[l] = rlWindows[l] /\ rlUsed'[l] = rlUsed[l]
    BY <1>2, <1>7, LimitIncrement
  <2>2. Limits!TypeOK'
    BY <1>2, <1>3, <1>4, <2>1 DEF Limits!TypeOK, LimitReq
  <2>3. k \notin RlNonces /\ (~stale /\ k \in RlForms => rlWindows[k].count < RlMax)
    BY <1>1, <1>7 DEF WindowInv, KindsFit, FormsNext
  <2>4. Counted'
    BY <2>1 DEF WindowInv, Counted
  <2>5. FormsWithin'
    BY <1>2, <2>1, <2>3, LimitsAssumption
       DEF WindowInv, FormsWithin, Limits!Keys, Limits!TypeOK
  <2>6. NonceClaimed'
    BY <1>3, <2>1, <2>3 DEF WindowInv, NonceClaimed, Limits!Keys, Limits!Never
  <2>7. FormsNext' /\ NonceOver'
    BY <1>2, <1>4, <2>1, LimitDefaults DEF WindowInv, FormsNext, NonceOver, Limits!TypeOK
  <2> QED
    BY <1>5, <2>2, <2>4, <2>5, <2>6, <2>7 DEF WindowInv
<1> QED
  BY <1>2, <1>6, <1>7

\* A request moves on without a window being read or written.
LEMMA LimitGoto ==
    ASSUME WindowInv, NEW r \in RlRequests, NEW next \in LimitReq,
           next.at \in {"idle", "guess", "verified"}, next.seen = 0,
           next.at = "guess" => next.key \in RlLogins,
           next.at = "verified" => next.key \in RlNonces /\ next.since <= RlWindow,
           rlReq' = [rlReq EXCEPT ![r] = next],
           UNCHANGED <<rlBackend, rlNow, rlWindows, rlUsed, rlRaced, rlFirstUse>>
    PROVE  WindowInv'
BY LimitsAssumption
   DEF WindowInv, Limits!TypeOK, LimitReq, SqliteReadsAndWrites, KindsFit, Counted, FormsWithin,
       FormsNext, NonceClaimed, NonceOver

\* One step of RateLimits keeps the invariant of the windows, action by action.
LEMMA LimitStep ==
    ASSUME WindowInv, [Limits!Next]_rlVars
    PROVE  WindowInv'
<1>t. Limits!TypeOK
  BY DEF WindowInv
<1>1. ASSUME NEW r \in RlRequests, NEW k \in RlForms, Limits!Check(r, k)
      PROVE  WindowInv'
  BY <1>1, LimitTake, LimitRead, LimitsAssumption DEF Limits!Check, Limits!Keys
<1>2. ASSUME NEW r \in RlRequests, NEW k \in RlLogins, Limits!PeekLogin(r, k)
      PROVE  WindowInv'
  <2> DEFINE next == [Limits!Idle EXCEPT !.at = "guess", !.key = k, !.since = rlNow]
  <2>1. next \in LimitReq /\ next.at = "guess" /\ next.seen = 0 /\ next.key \in RlLogins
    BY <1>t, LimitDefaults DEF LimitReq, Limits!Keys, Limits!TypeOK
  <2>2. /\ rlReq' = [rlReq EXCEPT ![r] = next]
        /\ UNCHANGED <<rlBackend, rlNow, rlWindows, rlUsed, rlRaced, rlFirstUse>>
    BY <1>2 DEF Limits!PeekLogin, Limits!Goto
  <2> HIDE DEF next
  <2> QED
    BY <2>1, <2>2, LimitGoto
<1>3. ASSUME NEW r \in RlRequests, NEW n \in RlNonces, Limits!VerifyState(r, n)
      PROVE  WindowInv'
  <2> DEFINE next == [Limits!Idle EXCEPT !.at = "verified", !.key = n, !.since = rlNow]
  <2>1. /\ next \in LimitReq /\ next.at = "verified" /\ next.seen = 0 /\ next.key \in RlNonces
        /\ next.since <= RlWindow
    BY <1>t, <1>3, LimitDefaults DEF LimitReq, Limits!Keys, Limits!TypeOK, Limits!VerifyState
  <2>2. /\ rlReq' = [rlReq EXCEPT ![r] = next]
        /\ UNCHANGED <<rlBackend, rlNow, rlWindows, rlUsed, rlRaced, rlFirstUse>>
    BY <1>3 DEF Limits!VerifyState, Limits!Goto
  <2> HIDE DEF next
  <2> QED
    BY <2>1, <2>2, LimitGoto
<1>4. ASSUME NEW r \in RlRequests, Limits!Fail(r)
      PROVE  WindowInv'
  <2>1. rlReq[r].key \in Limits!Keys /\ rlReq[r].key \in RlLogins /\ rlReq[r].key \notin RlNonces
    BY <1>4, LimitsAssumption DEF WindowInv, KindsFit, Limits!Fail, Limits!Keys
  <2> QED
    BY <1>4, <2>1, LimitTake, LimitRead DEF Limits!Fail
<1>5. ASSUME NEW r \in RlRequests, Limits!ClaimNonce(r)
      PROVE  WindowInv'
  <2>1. rlReq[r].key \in Limits!Keys /\ rlReq[r].since <= RlWindow
    BY <1>5 DEF WindowInv, KindsFit, Limits!ClaimNonce, Limits!Keys
  <2> QED
    BY <1>5, <2>1, LimitTake, LimitRead DEF Limits!ClaimNonce
<1>6. ASSUME NEW r \in RlRequests, Limits!Write(r)
      PROVE  WindowInv'
  BY <1>6, LimitWrite
<1>7. ASSUME NEW r \in RlRequests, Limits!End(r)
      PROVE  WindowInv'
  BY <1>7, LimitGoto, LimitDefaults DEF Limits!End
<1>8. CASE Limits!Tick
  BY <1>8, LimitsAssumption
     DEF WindowInv, Limits!TypeOK, LimitReq, SqliteReadsAndWrites, KindsFit, Counted,
         FormsWithin, FormsNext, NonceClaimed, NonceOver, Limits!Tick
<1>9. CASE UNCHANGED rlVars
  BY <1>9
     DEF WindowInv, Limits!TypeOK, SqliteReadsAndWrites, KindsFit, Counted, FormsWithin,
         FormsNext, NonceClaimed, NonceOver, rlVars
<1> QED
  BY <1>1, <1>2, <1>3, <1>4, <1>5, <1>6, <1>7, <1>8, <1>9 DEF Limits!Next

\* The step in which a nonce is accepted again.
LEMMA NonceTakenAgain ==
    ASSUME WindowInv, NEW r \in RlRequests, NEW n \in RlNonces,
           rlFirstUse[n] # Limits!Never, rlReq[r].key = n, rlReq[r].at # "idle",
           ~rlReq[r].stale,
           \/ Limits!ClaimNonce(r) /\ Limits!Take(r, n)
           \/ Limits!Write(r)
    PROVE  rlNow - rlReq[r].since > rlFirstUse[n]
<1>1. /\ rlWindows[n].count # 0 /\ rlFirstUse[n] <= rlWindows[n].start
      /\ rlReq[r].since <= RlWindow
      /\ rlReq[r].seen <= rlNow
  BY DEF WindowInv, NonceClaimed, KindsFit
<1>2. /\ rlWindows[n].count \in Nat /\ rlWindows[n].start \in Nat /\ rlNow \in Nat
      /\ rlReq[r].seen \in Nat /\ rlReq[r].since \in Nat /\ rlFirstUse[n] \in Nat
      /\ RlWindow \in Nat
  BY LimitsAssumption, LimitDefaults DEF WindowInv, Limits!TypeOK, Limits!Keys
<1>3. rlNow - rlWindows[n].start > RlWindow
  <2>1. CASE Limits!ClaimNonce(r)
    BY <1>1, <1>2, <2>1 DEF Limits!ClaimNonce, Limits!Free, Limits!Over, Limits!Limit
  <2>2. CASE Limits!Write(r)
    <3>1. rlReq[r].at = "reset"
      BY <2>2 DEF Limits!Write, WindowInv, KindsFit
    <3>2. rlReq[r].seen - rlWindows[n].start > RlWindow
      BY <1>1, <3>1 DEF WindowInv, NonceOver
    <3> QED
      BY <1>1, <1>2, <3>2
  <2> QED
    BY <2>1, <2>2
<1> QED
  BY <1>1, <1>2, <1>3

\* Which steps use a nonce: the claims on SQLite and the writes on D1; a request that ends
\* in another way leaves it alone.
LEMMA NonceSteps ==
    ASSUME WindowInv, [Limits!Next]_rlVars, NEW n \in RlNonces, NEW r \in RlRequests,
           rlUsed'[n] # rlUsed[n] \/ rlWindows'[n] # rlWindows[n],
           rlReq[r].key = n, rlReq[r].at # "idle", rlReq'[r] = Limits!Idle
    PROVE  \/ Limits!ClaimNonce(r) /\ Limits!Take(r, n)
           \/ Limits!Write(r)
<1>t. /\ rlReq \in [RlRequests -> LimitReq] /\ Limits!Idle.at = "idle"
      /\ n \in Limits!Keys /\ n \notin RlForms /\ n \notin RlLogins
      /\ rlWindows \in [Limits!Keys -> [count : Nat, start : 0..RlMaxNow]]
      /\ rlUsed \in [Limits!Keys -> Nat]
  BY LimitDefaults, LimitsAssumption DEF WindowInv, Limits!TypeOK, LimitReq, Limits!Keys
<1>0. ASSUME NEW k \in Limits!Keys, k # n, NEW q \in RlRequests, Limits!Take(q, k) \/ Limits!Read(q, k)
      PROVE  FALSE
  BY <1>0, <1>t DEF Limits!Take, Limits!Read, Limits!Reset, Limits!Increment
<1>1. ASSUME NEW q \in RlRequests, NEW k \in RlForms, Limits!Check(q, k)
      PROVE  FALSE
  BY <1>0, <1>1, <1>t DEF Limits!Check, Limits!Keys
<1>2. ASSUME NEW q \in RlRequests, NEW k \in RlLogins, Limits!PeekLogin(q, k)
      PROVE  FALSE
  BY <1>2 DEF Limits!PeekLogin
<1>3. ASSUME NEW q \in RlRequests, NEW k \in RlNonces, Limits!VerifyState(q, k)
      PROVE  FALSE
  BY <1>3 DEF Limits!VerifyState
<1>4. ASSUME NEW q \in RlRequests, Limits!Fail(q)
      PROVE  FALSE
  <2>1. rlReq[q].key \in Limits!Keys /\ rlReq[q].key # n
    BY <1>4, <1>t DEF Limits!Fail, WindowInv, KindsFit, Limits!Keys
  <2> QED
    BY <1>0, <1>4, <2>1 DEF Limits!Fail
<1>5. ASSUME NEW q \in RlRequests, Limits!ClaimNonce(q)
      PROVE  Limits!ClaimNonce(r) /\ Limits!Take(r, n)
  <2>1. rlReq[q].key \in Limits!Keys
    BY <1>t DEF LimitReq
  <2>2. rlReq[q].key = n
    BY <1>0, <1>5, <2>1 DEF Limits!ClaimNonce
  <2>3. Limits!Take(q, n)
    BY <1>5, <2>2 DEF Limits!ClaimNonce, Limits!Read
  <2>4. q = r
    BY <1>t, <2>3 DEF Limits!Take, LimitReq
  <2> QED
    BY <1>5, <2>3, <2>4
<1>6. ASSUME NEW q \in RlRequests, Limits!Write(q)
      PROVE  Limits!Write(r)
  <2>1. q # r => rlReq'[r].at = rlReq[r].at
    BY <1>6, <1>t DEF Limits!Write, LimitReq
  <2> QED
    BY <1>6, <1>t, <2>1
<1>7. ASSUME NEW q \in RlRequests, Limits!End(q)
      PROVE  FALSE
  BY <1>7 DEF Limits!End
<1>8. CASE Limits!Tick
  BY <1>8 DEF Limits!Tick
<1>9. CASE UNCHANGED rlVars
  BY <1>9 DEF rlVars
<1> QED
  BY <1>1, <1>2, <1>3, <1>4, <1>5, <1>6, <1>7, <1>8, <1>9 DEF Limits!Next

\* Logins: who may still add to the count of a login, and the most there can be.
Guessing(l) ==
    {r \in RlRequests : rlReq[r].at \in {"guess", "reset", "count"} /\ rlReq[r].key = l}
Most == RlMax - 1 + Cardinality(RlRequests)

\* Where nobody raced the row is within the bound, and so it will be when all who guess
\* have failed, unless the window is over; nor does one who goes on to count pass it.
LoginWithin(l) ==
    l \notin rlRaced =>
        /\ rlWindows[l].count <= Most
        /\ Limits!Over(l) \/ rlWindows[l].count + Cardinality(Guessing(l)) <= Most
        /\ \A r \in RlRequests :
             rlReq[r].at = "count" /\ ~rlReq[r].stale /\ rlReq[r].key = l
                 => rlWindows[l].count + 1 <= Most

LoginInv == \A l \in RlLogins : LoginWithin(l)

LEMMA GuessingSize ==
    ASSUME NEW l
    PROVE  /\ Most \in Nat /\ Cardinality(RlRequests) \in Nat
           /\ Most = RlMax - 1 + Cardinality(RlRequests)
           /\ IsFiniteSet(Guessing(l)) /\ Cardinality(Guessing(l)) \in Nat
           /\ \A S \in SUBSET Guessing(l) : Cardinality(S) \in Nat /\ Cardinality(S) <= Cardinality(Guessing(l))
           /\ \A S \in SUBSET RlRequests : Cardinality(S) \in Nat /\ Cardinality(S) <= Cardinality(RlRequests)
           /\ \A r \in Guessing(l) :
                Cardinality(Guessing(l) \ {r}) = Cardinality(Guessing(l)) - 1
           /\ \A r \in RlRequests : \A S \in SUBSET (RlRequests \ {r}) :
                Cardinality(S) <= Cardinality(RlRequests) - 1
<1>1. IsFiniteSet(RlRequests) /\ RlMax \in Nat \ {0}
  BY LimitsAssumption
<1>2. Guessing(l) \in SUBSET RlRequests
  BY DEF Guessing
<1>3. IsFiniteSet(Guessing(l)) /\ Cardinality(Guessing(l)) \in Nat /\ Cardinality(RlRequests) \in Nat
  BY <1>1, <1>2, FS_Subset, FS_CardinalityType
<1>4. \A S \in SUBSET Guessing(l) :
        Cardinality(S) \in Nat /\ Cardinality(S) <= Cardinality(Guessing(l))
  BY <1>3, FS_Subset, FS_CardinalityType
<1>5. \A S \in SUBSET RlRequests :
        Cardinality(S) \in Nat /\ Cardinality(S) <= Cardinality(RlRequests)
  BY <1>1, FS_Subset, FS_CardinalityType
<1>6. \A r \in Guessing(l) : Cardinality(Guessing(l) \ {r}) = Cardinality(Guessing(l)) - 1
  BY <1>3, FS_RemoveElement
<1>7. ASSUME NEW r \in RlRequests, NEW S \in SUBSET (RlRequests \ {r})
      PROVE  Cardinality(S) <= Cardinality(RlRequests) - 1
  <2>1. /\ IsFiniteSet(RlRequests \ {r})
        /\ Cardinality(RlRequests \ {r}) = Cardinality(RlRequests) - 1
    BY <1>1, FS_RemoveElement
  <2> QED
    BY <2>1, FS_Subset
<1> QED
  BY <1>1, <1>3, <1>4, <1>5, <1>6, <1>7 DEF Most

\* A step that leaves the window alone and lets nobody begin to guess.
LEMMA LoginUntouched ==
    ASSUME NEW l \in RlLogins, LoginWithin(l), WindowInv,
           rlWindows'[l] = rlWindows[l], l \in rlRaced => l \in rlRaced',
           rlNow' \in Nat, rlNow <= rlNow',
           \A r \in RlRequests : r \in Guessing(l)' => r \in Guessing(l),
           \A r \in RlRequests :
               rlReq'[r].at = "count" /\ ~rlReq'[r].stale /\ rlReq'[r].key = l
                   => rlReq[r].at = "count" /\ ~rlReq[r].stale /\ rlReq[r].key = l
    PROVE  LoginWithin(l)'
<1>1. /\ rlWindows[l].count \in Nat /\ rlWindows[l].start \in Nat /\ rlNow \in Nat
      /\ RlWindow \in Nat
  BY LimitsAssumption DEF WindowInv, Limits!TypeOK, Limits!Keys
<1>2. Guessing(l)' \in SUBSET Guessing(l)
  BY DEF Guessing
<1>3. PICK m \in Nat : m = Cardinality(Guessing(l)) /\ Cardinality(Guessing(l)') \in Nat
                       /\ Cardinality(Guessing(l)') <= m
  BY <1>2, GuessingSize
<1>4. Most \in Nat /\ Most' = Most
  BY GuessingSize DEF Most
<1>5. Limits!Over(l) => Limits!Over(l)'
  BY <1>1 DEF Limits!Over
<1> QED
  BY <1>1, <1>3, <1>4, <1>5 DEF LoginWithin

\* A window that is begun anew: whoever still guesses, it is not all of them.
LEMMA LoginBegun ==
    ASSUME NEW l \in RlLogins, NEW r \in RlRequests,
           rlWindows'[l].count = 1, r \notin Guessing(l)',
           \A q \in RlRequests : ~(rlReq'[q].at = "count" /\ ~rlReq'[q].stale /\ rlReq'[q].key = l)
    PROVE  LoginWithin(l)'
<1>1. Guessing(l)' \in SUBSET (RlRequests \ {r})
  BY DEF Guessing
<1>2. /\ Cardinality(Guessing(l)') \in Nat
      /\ Cardinality(Guessing(l)') <= Cardinality(RlRequests) - 1
      /\ Cardinality(RlRequests) \in Nat /\ Cardinality(RlRequests) >= 1
  <2>1. /\ Guessing(l)' \in SUBSET RlRequests /\ {r} \in SUBSET RlRequests
        /\ Cardinality({r}) = 1
    BY <1>1, FS_Singleton
  <2> QED
    BY <1>1, <2>1, GuessingSize
<1>3. Most' = RlMax - 1 + Cardinality(RlRequests) /\ RlMax \in Nat \ {0}
  BY LimitsAssumption DEF Most
<1> QED
  BY <1>2, <1>3 DEF LoginWithin

\* One more failure in the window, of one who guessed.
LEMMA LoginCounted ==
    ASSUME NEW l \in RlLogins, NEW r \in RlRequests, LoginWithin(l), WindowInv,
           l \notin rlRaced, r \in Guessing(l),
           ~Limits!Over(l) \/ (rlReq[r].at = "count" /\ ~rlReq[r].stale),
           rlWindows'[l].count = rlWindows[l].count + 1,
           rlWindows'[l].start = rlWindows[l].start, rlNow' = rlNow,
           \A q \in RlRequests : q \in Guessing(l)' <=> (q \in Guessing(l) /\ q # r),
           \A q \in RlRequests : ~(rlReq'[q].at = "count" /\ ~rlReq'[q].stale /\ rlReq'[q].key = l)
    PROVE  LoginWithin(l)'
<1>1. /\ rlWindows[l].count \in Nat /\ rlWindows[l].start \in Nat /\ rlNow \in Nat
      /\ RlWindow \in Nat
  BY LimitsAssumption DEF WindowInv, Limits!TypeOK, Limits!Keys
<1>2. Guessing(l)' = Guessing(l) \ {r}
  BY DEF Guessing
<1>3. PICK m \in Nat : /\ m = Cardinality(Guessing(l)) /\ m >= 1
                       /\ Cardinality(Guessing(l)') = m - 1
  <2>1. {r} \in SUBSET Guessing(l) /\ Cardinality({r}) = 1
    BY FS_Singleton
  <2> QED
    BY <1>2, <2>1, GuessingSize
<1>4. Most \in Nat /\ Most' = Most
  BY GuessingSize DEF Most
<1>5. Most = RlMax - 1 + Cardinality(RlRequests) /\ RlMax \in Nat \ {0} /\ Cardinality(RlRequests) \in Nat
      /\ m <= Cardinality(RlRequests)
  <2>1. Guessing(l) \in SUBSET RlRequests
    BY DEF Guessing
  <2> QED
    BY <1>3, <2>1, LimitsAssumption, GuessingSize
<1>6. rlWindows[l].count + 1 <= Most
  BY <1>1, <1>3, <1>4 DEF LoginWithin, Guessing
<1>7. Limits!Over(l)' \/ rlWindows[l].count + m <= Most
  <2>1. CASE rlWindows[l].count = 0
    BY <1>1, <1>3, <1>5, <2>1
  <2>2. CASE rlWindows[l].count # 0
    BY <1>1, <1>3, <2>2 DEF LoginWithin, Limits!Over
  <2> QED
    BY <2>1, <2>2
<1> QED
  BY <1>1, <1>3, <1>4, <1>6, <1>7 DEF LoginWithin

\* A login is judged on SQLite and counted at once, or on D1 and counted later.
LEMMA LoginTake ==
    ASSUME WindowInv, LoginInv, NEW l \in RlLogins, NEW r \in RlRequests,
           NEW k \in Limits!Keys, Limits!Take(r, k), k = l => r \in Guessing(l)
    PROVE  LoginWithin(l)'
<1>t. /\ rlReq \in [RlRequests -> LimitReq] /\ Limits!Idle.at = "idle"
      /\ rlWindows \in [Limits!Keys -> [count : Nat, start : 0..RlMaxNow]]
      /\ rlNow \in Nat /\ l \in Limits!Keys /\ rlRaced \subseteq Limits!Keys
      /\ rlBackend = "sqlite" /\ Limits!TypeOK
  BY LimitDefaults, LimitsAssumption
     DEF WindowInv, Limits!TypeOK, LimitReq, Limits!Keys, Limits!Take
<1>1. rlReq' = [rlReq EXCEPT ![r] = Limits!Idle] /\ rlNow' = rlNow
  BY DEF Limits!Take
<1>2. \A q \in RlRequests : ~(rlReq'[q].at = "count" /\ ~rlReq'[q].stale /\ rlReq'[q].key = l)
  BY <1>1, <1>t DEF WindowInv, SqliteReadsAndWrites
<1>3. \A q \in RlRequests : q \in Guessing(l)' <=> (q \in Guessing(l) /\ q # r)
  BY <1>1, <1>t DEF Guessing
<1>4. CASE Limits!Over(k)
  <2>1. /\ rlWindows'[k].count = 1 /\ rlRaced' = rlRaced \ {k}
        /\ \A m \in Limits!Keys : m # k => rlWindows'[m] = rlWindows[m]
    <3>1. Limits!Reset(k, rlNow, FALSE) /\ rlNow \in 0..RlMaxNow
      BY <1>4 DEF Limits!Take, WindowInv, Limits!TypeOK
    <3> QED
      BY <1>t, <3>1, LimitReset
  <2>2. CASE k = l
    BY <1>2, <1>3, <2>1, <2>2, LoginBegun
  <2>3. CASE k # l
    BY <1>1, <1>2, <1>3, <1>t, <2>1, <2>3, LoginUntouched DEF LoginInv
  <2> QED
    BY <2>2, <2>3
<1>5. CASE ~Limits!Over(k)
  <2>1. /\ rlWindows'[k].count = rlWindows[k].count + 1
        /\ rlWindows'[k].start = rlWindows[k].start /\ rlRaced' = rlRaced
        /\ \A m \in Limits!Keys : m # k => rlWindows'[m] = rlWindows[m]
    <3>1. Limits!Increment(k, FALSE)
      BY <1>5 DEF Limits!Take
    <3> QED
      BY <1>t, <3>1, LimitIncrement
  <2>2. CASE k = l
    <3>1. CASE l \in rlRaced
      BY <2>1, <3>1 DEF LoginWithin
    <3>2. CASE l \notin rlRaced
      BY <1>1, <1>2, <1>3, <1>5, <2>1, <2>2, <3>2, LoginCounted DEF LoginInv
    <3> QED
      BY <3>1, <3>2
  <2>3. CASE k # l
    BY <1>1, <1>2, <1>3, <1>t, <2>1, <2>3, LoginUntouched DEF LoginInv
  <2> QED
    BY <2>2, <2>3
<1> QED
  BY <1>4, <1>5

LEMMA LoginRead ==
    ASSUME WindowInv, LoginInv, NEW l \in RlLogins, NEW r \in RlRequests,
           NEW k \in Limits!Keys, Limits!Read(r, k), k = l => r \in Guessing(l)
    PROVE  LoginWithin(l)'
<1>t. /\ rlReq \in [RlRequests -> LimitReq]
      /\ rlNow \in Nat /\ l \in Limits!Keys
      /\ rlWindows \in [Limits!Keys -> [count : Nat, start : 0..RlMaxNow]]
  BY LimitsAssumption DEF WindowInv, Limits!TypeOK, LimitReq, Limits!Keys
<1> DEFINE at == IF Limits!Over(k) THEN "reset" ELSE "count"
           next == [Limits!Idle EXCEPT !.at = at, !.key = k, !.seen = rlNow,
                                       !.since = rlReq[r].since]
<1>1. next.at = at /\ next.key = k /\ ~next.stale
  BY LimitDefaults DEF LimitReq
<1>2. /\ rlReq' = [rlReq EXCEPT ![r] = next]
      /\ UNCHANGED <<rlNow, rlWindows, rlRaced>>
  BY DEF Limits!Read
<1>3. at \in {"reset", "count"} /\ (at = "count" => ~Limits!Over(k))
  OBVIOUS
<1> HIDE DEF next, at
<1>4. \A q \in RlRequests : q \in Guessing(l)' => q \in Guessing(l)
  BY <1>1, <1>2, <1>t DEF Guessing
<1>5. CASE k # l
  BY <1>1, <1>2, <1>4, <1>5, <1>t, LoginUntouched DEF LoginInv
<1>6. CASE k = l /\ l \notin rlRaced
  <2>1. Guessing(l)' = Guessing(l)
    BY <1>1, <1>2, <1>3, <1>6, <1>t DEF Guessing
  <2>2. Limits!Over(l)' = Limits!Over(l) /\ Most' = Most
    BY <1>2 DEF Limits!Over, Most
  <2>3. Cardinality(Guessing(l)) >= 1 /\ Cardinality(Guessing(l)) \in Nat /\ Most \in Nat
    <3>1. {r} \in SUBSET Guessing(l) /\ Cardinality({r}) = 1
      BY <1>6, FS_Singleton
    <3> QED
      BY <3>1, GuessingSize
  <2>4. at = "count" => rlWindows[l].count + 1 <= Most
    BY <1>3, <1>6, <1>t, <2>3 DEF LoginInv, LoginWithin
  <2>5. \A q \in RlRequests :
          rlReq'[q].at = "count" /\ ~rlReq'[q].stale /\ rlReq'[q].key = l
              => rlWindows[l].count + 1 <= Most
    BY <1>1, <1>2, <1>6, <1>t, <2>4 DEF LoginInv, LoginWithin
  <2> QED
    BY <1>2, <2>1, <2>2, <2>5 DEF LoginInv, LoginWithin
<1>7. CASE l \in rlRaced
  BY <1>2, <1>7 DEF LoginWithin
<1> QED
  BY <1>5, <1>6, <1>7

LEMMA LoginWrite ==
    ASSUME WindowInv, LoginInv, NEW l \in RlLogins, NEW r \in RlRequests, Limits!Write(r)
    PROVE  LoginWithin(l)'
<1>1. PICK k \in Limits!Keys, stale \in BOOLEAN, t \in 0..RlMaxNow :
         k = rlReq[r].key /\ stale = rlReq[r].stale /\ t = rlReq[r].seen
  BY DEF WindowInv, Limits!TypeOK
<1>t. /\ rlReq \in [RlRequests -> LimitReq] /\ Limits!Idle.at = "idle"
      /\ rlNow \in Nat /\ l \in Limits!Keys /\ Limits!TypeOK
  BY LimitDefaults, LimitsAssumption DEF WindowInv, Limits!TypeOK, LimitReq, Limits!Keys
<1>2. /\ rlNow' = rlNow
      /\ \/ rlReq[r].at = "reset" /\ Limits!Reset(k, t, stale)
         \/ rlReq[r].at = "count" /\ Limits!Increment(k, stale)
      /\ rlReq' = [q \in RlRequests |->
                     IF q = r THEN Limits!Idle
                     ELSE IF rlReq[q].key = k /\ rlReq[q].at \in {"reset", "count"}
                            THEN [rlReq[q] EXCEPT !.stale = TRUE] ELSE rlReq[q]]
  BY <1>1 DEF Limits!Write
<1>3. /\ rlReq'[r].at = "idle"
      /\ \A q \in RlRequests : q # r =>
           /\ rlReq'[q].at = rlReq[q].at /\ rlReq'[q].key = rlReq[q].key
           /\ rlReq[q].stale => rlReq'[q].stale
           /\ rlReq[q].key = k /\ rlReq[q].at \in {"reset", "count"} => rlReq'[q].stale
  BY <1>2, <1>t DEF LimitReq
<1>4. \A q \in RlRequests : q \in Guessing(l)' <=> (q \in Guessing(l) /\ q # r)
  BY <1>3 DEF Guessing
<1>5. CASE k # l
  <2>1. rlWindows'[l] = rlWindows[l] /\ (l \in rlRaced => l \in rlRaced')
    BY <1>2, <1>5, <1>t, LimitReset, LimitIncrement
  <2> QED
    BY <1>2, <1>3, <1>4, <1>t, <2>1, LoginUntouched DEF LoginInv
<1>6. CASE k = l /\ stale
  <2>1. l \in rlRaced'
    BY <1>2, <1>6, <1>t, LimitReset, LimitIncrement
  <2> QED
    BY <2>1 DEF LoginWithin
<1>7. CASE k = l /\ ~stale
  <2>1. \A q \in RlRequests : ~(rlReq'[q].at = "count" /\ ~rlReq'[q].stale /\ rlReq'[q].key = l)
    BY <1>3, <1>7
  <2>2. CASE Limits!Reset(k, t, stale)
    <3>1. rlWindows'[l].count = 1 /\ r \notin Guessing(l)'
      BY <1>4, <1>7, <1>t, <2>2, LimitReset
    <3> QED
      BY <2>1, <3>1, LoginBegun
  <2>3. CASE rlReq[r].at = "count" /\ Limits!Increment(k, stale)
    <3>1. /\ rlWindows'[l].count = rlWindows[l].count + 1
          /\ rlWindows'[l].start = rlWindows[l].start /\ rlRaced' = rlRaced
      BY <1>7, <1>t, <2>3, LimitIncrement
    <3>2. CASE l \in rlRaced
      BY <3>1, <3>2 DEF LoginWithin
    <3>3. CASE l \notin rlRaced
      <4>1. r \in Guessing(l) /\ ~rlReq[r].stale
        BY <1>1, <1>7, <2>3 DEF Guessing
      <4> QED
        BY <1>2, <1>4, <2>1, <2>3, <3>1, <3>3, <4>1, LoginCounted DEF LoginInv
    <3> QED
      BY <3>2, <3>3
  <2> QED
    BY <1>2, <2>2, <2>3
<1> QED
  BY <1>5, <1>6, <1>7

LEMMA LoginStep ==
    ASSUME WindowInv, LoginInv, [Limits!Next]_rlVars
    PROVE  LoginInv'
<1> SUFFICES ASSUME NEW l \in RlLogins
             PROVE  LoginWithin(l)'
  BY DEF LoginInv
<1>t. /\ rlReq \in [RlRequests -> LimitReq] /\ Limits!Idle.at = "idle" /\ ~Limits!Idle.stale
      /\ rlNow \in Nat /\ l \in Limits!Keys /\ l \notin RlForms /\ l \notin RlNonces
      /\ rlWindows \in [Limits!Keys -> [count : Nat, start : 0..RlMaxNow]]
  BY LimitDefaults, LimitsAssumption DEF WindowInv, Limits!TypeOK, LimitReq, Limits!Keys
<1>0. ASSUME NEW r \in RlRequests, NEW at \in {"idle", "verified"}, rlReq'[r].at = at,
             \A q \in RlRequests : q # r => rlReq'[q] = rlReq[q],
             UNCHANGED <<rlNow, rlWindows, rlRaced>>
      PROVE  LoginWithin(l)'
  BY <1>0, <1>t, LoginUntouched DEF LoginInv, Guessing
<1>1. ASSUME NEW r \in RlRequests, NEW k \in RlForms, Limits!Check(r, k)
      PROVE  LoginWithin(l)'
  BY <1>1, <1>t, LoginTake, LoginRead DEF Limits!Check, Limits!Keys
<1>2. ASSUME NEW r \in RlRequests, NEW k \in RlLogins, Limits!PeekLogin(r, k)
      PROVE  LoginWithin(l)'
  <2> DEFINE next == [Limits!Idle EXCEPT !.at = "guess", !.key = k, !.since = rlNow]
  <2>1. next.at = "guess" /\ next.key = k
    BY LimitDefaults DEF LimitReq
  <2>2. /\ rlReq' = [rlReq EXCEPT ![r] = next] /\ Limits!Free(k)
        /\ UNCHANGED <<rlNow, rlWindows, rlRaced>>
    BY <1>2 DEF Limits!PeekLogin, Limits!Goto
  <2> HIDE DEF next
  <2>3. CASE k # l
    BY <1>t, <2>1, <2>2, <2>3, LoginUntouched DEF LoginInv, Guessing
  <2>4. CASE k = l
    <3>1. Guessing(l)' \in SUBSET RlRequests /\ Limits!Over(l)' = Limits!Over(l) /\ Most' = Most
      BY <2>2 DEF Guessing, Limits!Over, Most
    <3>2. /\ Cardinality(Guessing(l)') \in Nat /\ Cardinality(RlRequests) \in Nat
          /\ Cardinality(Guessing(l)') <= Cardinality(RlRequests)
          /\ Most = RlMax - 1 + Cardinality(RlRequests)
      BY <3>1, GuessingSize
    <3>3. Limits!Over(l) \/ rlWindows[l].count <= RlMax - 1
      BY <1>t, <2>2, <2>4, LimitsAssumption DEF Limits!Free, Limits!Limit
    <3>4. Limits!Over(l) \/ rlWindows[l].count + Cardinality(Guessing(l)') <= Most
      BY <1>t, <3>2, <3>3, LimitsAssumption
    <3>5. \A q \in RlRequests : rlReq'[q].at = "count" => rlReq'[q] = rlReq[q]
      BY <1>t, <2>1, <2>2
    <3> QED
      BY <2>2, <3>1, <3>4, <3>5 DEF LoginInv, LoginWithin
  <2> QED
    BY <2>3, <2>4
<1>3. ASSUME NEW r \in RlRequests, NEW n \in RlNonces, Limits!VerifyState(r, n)
      PROVE  LoginWithin(l)'
  <2>1. rlReq'[r].at = "verified"
    BY <1>3, <1>t, LimitDefaults DEF Limits!VerifyState, Limits!Goto, LimitReq
  <2>2. /\ UNCHANGED <<rlNow, rlWindows, rlRaced>>
        /\ \A q \in RlRequests : q # r => rlReq'[q] = rlReq[q]
    BY <1>3, <1>t DEF Limits!VerifyState, Limits!Goto
  <2> QED
    BY <1>0, <2>1, <2>2
<1>4. ASSUME NEW r \in RlRequests, Limits!Fail(r)
      PROVE  LoginWithin(l)'
  <2>1. rlReq[r].key \in Limits!Keys /\ (rlReq[r].key = l => r \in Guessing(l))
    BY <1>4, <1>t DEF Limits!Fail, Guessing, LimitReq
  <2> QED
    BY <1>4, <2>1, LoginTake, LoginRead DEF Limits!Fail
<1>5. ASSUME NEW r \in RlRequests, Limits!ClaimNonce(r)
      PROVE  LoginWithin(l)'
  <2>1. rlReq[r].key \in Limits!Keys /\ rlReq[r].key # l
    BY <1>5, <1>t DEF Limits!ClaimNonce, WindowInv, KindsFit, LimitReq
  <2> QED
    BY <1>5, <2>1, LoginTake, LoginRead DEF Limits!ClaimNonce
<1>6. ASSUME NEW r \in RlRequests, Limits!Write(r)
      PROVE  LoginWithin(l)'
  BY <1>6, LoginWrite
<1>7. ASSUME NEW r \in RlRequests, Limits!End(r)
      PROVE  LoginWithin(l)'
  <2>1. /\ rlReq'[r].at = "idle" /\ UNCHANGED <<rlNow, rlWindows, rlRaced>>
        /\ \A q \in RlRequests : q # r => rlReq'[q] = rlReq[q]
    BY <1>7, <1>t DEF Limits!End
  <2> QED
    BY <1>0, <2>1
<1>8. CASE Limits!Tick
  BY <1>8, <1>t, LoginUntouched DEF Limits!Tick, LoginInv, Guessing
<1>9. CASE UNCHANGED rlVars
  BY <1>9, <1>t, LoginUntouched DEF rlVars, LoginInv, Guessing
<1> QED
  BY <1>1, <1>2, <1>3, <1>4, <1>5, <1>6, <1>7, <1>8, <1>9 DEF Limits!Next

LEMMA LimitsStep ==
    ASSUME WindowInv /\ LoginInv, [Limits!Next]_rlVars
    PROVE  (WindowInv /\ LoginInv)'
BY LimitStep, LoginStep

LEMMA LoginInit == Limits!Init => LoginInv
<1> SUFFICES ASSUME Limits!Init, NEW l \in RlLogins
             PROVE  LoginWithin(l)
  BY DEF LoginInv
<1>1. rlWindows[l].count = 0 /\ \A r \in RlRequests : rlReq[r].at = "idle"
  BY LimitDefaults DEF Limits!Init, Limits!Keys
<1>2. Limits!Over(l) /\ Most \in Nat
  BY <1>1, GuessingSize DEF Limits!Over
<1> QED
  BY <1>1, <1>2 DEF LoginWithin

LEMMA LimitsHold ==
    ASSUME WindowInv, LoginInv
    PROVE  Limits!LimitHolds
<1>1. \A k \in (RlForms \cup RlLogins) \ rlRaced : rlUsed[k] = rlWindows[k].count
  BY DEF WindowInv, Counted, Limits!Keys
<1>2. Limits!Cardinality(RlRequests) = Cardinality(RlRequests)
  BY DEF Limits!Cardinality, Cardinality
<1> QED
  BY <1>1, <1>2 DEF Limits!LimitHolds, WindowInv, FormsWithin, LoginInv, LoginWithin, Most

-----------------------------------------------------------------------------
(* The route registry *)

RouteReq == [at : {"idle", "group", "variant", "update", "revision"}, path : RtPaths,
             text : 0..RtMaxText, late : BOOLEAN]
RouteStart == [at : {"up", "down", "failed", "next", "variant", "revision"},
               todo : SUBSET RtPaths, path : RtPaths]

\* A start runs alone, and on SQLite only.
StartsAlone ==
    /\ rtStart.at # "up" => \A r \in RtRequests : rtReq[r].at = "idle"
    /\ rtBackend = "d1" => rtStart.at = "up"

\* What a request is at fits the row it will write.
RequestsFit ==
    \A r \in RtRequests :
        /\ rtReq[r].at # "idle" => rtReq[r].text # 0
        /\ rtReq[r].at = "variant" => rtGroups[rtReq[r].path] # "none"
        /\ rtReq[r].at \in {"update", "revision"} => rtShown[rtReq[r].path] # 0
        /\ rtReq[r].at = "revision" /\ ~rtReq[r].late => rtShown[rtReq[r].path] = rtReq[r].text

\* So does what a start is at.
StartFits ==
    /\ rtStart.at \in {"next", "variant", "revision"} =>
         \A p \in rtStart.todo : rtSeeds[p] # 0
    /\ rtStart.at \in {"variant", "revision"} =>
         rtSeeds[rtStart.path] # 0 /\ rtGroups[rtStart.path] # "none"
    /\ rtStart.at = "revision" =>
         rtStart.path \in RtSystem /\ rtShown[rtStart.path] = rtSeeds[rtStart.path]

\* A text without its revision is of a request that is about to add it and that nobody
\* has overtaken.
RevisedOrAbout ==
    \A p \in RtPaths \ rtTorn :
        \/ rtShown[p] = rtNewest[p]
        \/ \E r \in RtRequests : rtReq[r].at = "revision" /\ rtReq[r].path = p /\ ~rtReq[r].late

\* A group without a variant is of a request or a start that is about to insert it, or was
\* left by one that was cut off.
GroupsOwned ==
    \A p \in RtPaths :
        rtGroups[p] # "none" /\ rtShown[p] = 0 =>
            \/ p \in rtHalved
            \/ \E r \in RtRequests : rtReq[r].at = "variant" /\ rtReq[r].path = p
            \/ rtStart.at = "variant" /\ rtStart.path = p

RouteInv == /\ Registry!TypeOK
            /\ StartsAlone /\ RequestsFit /\ StartFits /\ RevisedOrAbout /\ GroupsOwned
            /\ Registry!RefusedLate /\ Registry!StartFailsOnTaken

LEMMA RouteDefaults ==
    /\ Registry!Idle \in RouteReq
    /\ Registry!Idle.at = "idle" /\ Registry!Idle.text = 0 /\ ~Registry!Idle.late
    /\ Registry!Running \in RouteStart
    /\ Registry!Running.at = "up" /\ Registry!Running.todo = {}
<1>1. (CHOOSE p \in RtPaths : TRUE) \in RtPaths
  BY RegistryAssumption
<1>2. Registry!Idle \in RouteReq /\ Registry!Idle.at = "idle" /\ Registry!Idle.text = 0
      /\ ~Registry!Idle.late
  BY <1>1, RegistryAssumption DEF Registry!Idle, RouteReq
<1>3. Registry!Running \in RouteStart /\ Registry!Running.at = "up" /\ Registry!Running.todo = {}
  BY <1>2 DEF Registry!Running, RouteStart, RouteReq
<1> QED
  BY <1>2, <1>3

LEMMA RouteInit == Registry!Init => RouteInv
BY RouteDefaults, RegistryAssumption
   DEF Registry!Init, RouteInv, Registry!TypeOK, RouteReq, RouteStart, StartsAlone, RequestsFit,
       StartFits, RevisedOrAbout, GroupsOwned, Registry!RefusedLate, Registry!StartFailsOnTaken

\* Request r goes on, and tells those it passes.
LEMMA RouteOvertake ==
    ASSUME Registry!TypeOK, NEW r \in RtRequests, NEW next \in RouteReq, NEW passed,
           Registry!Overtake(r, next, passed)
    PROVE  /\ rtReq' \in [RtRequests -> RouteReq]
           /\ rtReq'[r] = next
           /\ \A q \in RtRequests : q # r =>
                /\ rtReq'[q].at = rtReq[q].at /\ rtReq'[q].path = rtReq[q].path
                /\ rtReq'[q].text = rtReq[q].text
                /\ rtReq[q].late => rtReq'[q].late
                /\ rtReq'[q].late =>
                     rtReq[q].late \/ (rtReq[q].path = rtReq[r].path /\ rtReq[q].at \in passed)
                /\ rtReq[q].path = rtReq[r].path /\ rtReq[q].at \in passed => rtReq'[q].late
BY DEF Registry!TypeOK, RouteReq, Registry!Overtake

\* A request writes its text: it is about to add the revision.
LEMMA RouteWrite ==
    ASSUME Registry!TypeOK, RequestsFit, NEW r \in RtRequests, rtReq[r].at \in {"variant", "update"},
           Registry!Write(r)
    PROVE  /\ rtReq' \in [RtRequests -> RouteReq]
           /\ rtReq'[r].at = "revision" /\ ~rtReq'[r].late
           /\ rtReq'[r].path = rtReq[r].path /\ rtReq'[r].text = rtReq[r].text
           /\ \A q \in RtRequests : q # r =>
                /\ rtReq'[q].at = rtReq[q].at /\ rtReq'[q].path = rtReq[q].path
                /\ rtReq'[q].text = rtReq[q].text
                /\ rtReq[q].late => rtReq'[q].late
                /\ rtReq[q].path # rtReq[r].path => rtReq'[q].late = rtReq[q].late
                /\ rtReq[q].at # "revision" => rtReq'[q].late = rtReq[q].late
                /\ rtReq[q].path = rtReq[r].path /\ rtReq[q].at = "revision" => rtReq'[q].late
           /\ rtShown' \in [RtPaths -> 0..RtMaxText]
           /\ rtShown'[rtReq[r].path] = rtReq[r].text /\ rtReq[r].text # 0
           /\ \A p \in RtPaths : p # rtReq[r].path => rtShown'[p] = rtShown[p]
<1> DEFINE next == [rtReq[r] EXCEPT !.at = "revision", !.late = FALSE]
<1>1. /\ next \in RouteReq /\ next.at = "revision" /\ ~next.late
      /\ next.path = rtReq[r].path /\ next.text = rtReq[r].text
  BY DEF Registry!TypeOK, RouteReq
<1>2. Registry!Overtake(r, next, {"revision"})
  BY DEF Registry!Write
<1> HIDE DEF next
<1>3. rtReq[r].text # 0 /\ rtReq[r].text \in 0..RtMaxText /\ rtReq[r].path \in RtPaths
  BY DEF RequestsFit, Registry!TypeOK
<1>4. /\ rtShown' \in [RtPaths -> 0..RtMaxText]
      /\ rtShown'[rtReq[r].path] = rtReq[r].text
      /\ \A p \in RtPaths : p # rtReq[r].path => rtShown'[p] = rtShown[p]
  BY <1>3 DEF Registry!Write, Registry!TypeOK
<1>5. \A q \in RtRequests : q # r => rtReq'[q].late \in BOOLEAN /\ rtReq[q].late \in BOOLEAN
  BY <1>1, <1>2, RouteOvertake DEF Registry!TypeOK, RouteReq
<1> QED
  BY <1>1, <1>2, <1>3, <1>4, <1>5, RouteOvertake

\* What writing a text keeps, for a new row and for one that is there.
LEMMA RouteText ==
    ASSUME RouteInv, NEW r \in RtRequests, rtReq[r].at \in {"variant", "update"},
           rtGroups[rtReq[r].path] # "none", Registry!Write(r), rtStart.at = "up",
           UNCHANGED <<rtBackend, rtSeeds, rtGroups, rtNewest, rtBaseline, rtStart, rtHalved>>,
           rtTorn' = rtTorn \ {rtReq[r].path}
    PROVE  RouteInv'
<1>1. /\ rtReq' \in [RtRequests -> RouteReq]
      /\ rtReq'[r].at = "revision" /\ ~rtReq'[r].late
      /\ rtReq'[r].path = rtReq[r].path /\ rtReq'[r].text = rtReq[r].text
      /\ \A q \in RtRequests : q # r =>
           /\ rtReq'[q].at = rtReq[q].at /\ rtReq'[q].path = rtReq[q].path
           /\ rtReq'[q].text = rtReq[q].text
           /\ rtReq[q].late => rtReq'[q].late
           /\ rtReq[q].path # rtReq[r].path => rtReq'[q].late = rtReq[q].late
           /\ rtReq[q].at # "revision" => rtReq'[q].late = rtReq[q].late
           /\ rtReq[q].path = rtReq[r].path /\ rtReq[q].at = "revision" => rtReq'[q].late
      /\ rtShown' \in [RtPaths -> 0..RtMaxText]
      /\ rtShown'[rtReq[r].path] = rtReq[r].text /\ rtReq[r].text # 0
      /\ \A p \in RtPaths : p # rtReq[r].path => rtShown'[p] = rtShown[p]
  BY RouteWrite DEF RouteInv
<1>2. Registry!TypeOK'
  BY <1>1 DEF RouteInv, Registry!TypeOK, RouteReq
<1>3. StartsAlone' /\ Registry!StartFailsOnTaken' /\ StartFits'
  BY DEF RouteInv, StartsAlone, Registry!StartFailsOnTaken, StartFits
<1>4. RequestsFit'
  BY <1>1 DEF RouteInv, RequestsFit, Registry!TypeOK
<1>5. RevisedOrAbout'
  BY <1>1 DEF RouteInv, RevisedOrAbout, Registry!TypeOK
<1>6. GroupsOwned'
  <2> SUFFICES ASSUME NEW p \in RtPaths, rtGroups[p] # "none", rtShown'[p] = 0, p \notin rtHalved
               PROVE  \E q \in RtRequests : rtReq'[q].at = "variant" /\ rtReq'[q].path = p
    BY DEF GroupsOwned
  <2>1. p # rtReq[r].path /\ rtShown[p] = 0
    BY <1>1
  <2>2. PICK q \in RtRequests : rtReq[q].at = "variant" /\ rtReq[q].path = p
    BY <2>1 DEF RouteInv, GroupsOwned
  <2> QED
    BY <1>1, <2>1, <2>2
<1>7. Registry!RefusedLate'
  BY <1>1 DEF RouteInv, Registry!RefusedLate, Registry!TypeOK
<1> QED
  BY <1>2, <1>3, <1>4, <1>5, <1>6, <1>7 DEF RouteInv

LEMMA RouteStep ==
    ASSUME RouteInv, [Registry!Next]_rtVars
    PROVE  RouteInv'
<1> USE DEF RouteInv
<1>1. ASSUME NEW r \in RtRequests, NEW p \in RtPaths, NEW t \in 1..RtMaxText, Registry!BeginCreate(r, p, t)
      PROVE  RouteInv'
  <2>1. Registry!TypeOK'
    BY <1>1, RouteDefaults, RegistryAssumption
       DEF Registry!TypeOK, RouteReq, RouteStart, RequestsFit, StartFits,
           Registry!BeginCreate, Registry!Begin, Registry!At, Registry!MayRun,
           Registry!Taken
  <2>2. StartsAlone' /\ StartFits' /\ Registry!StartFailsOnTaken'
    BY <1>1, RouteDefaults, RegistryAssumption
       DEF StartsAlone, StartFits, Registry!StartFailsOnTaken, Registry!TypeOK,
           RouteStart, Registry!BeginCreate, Registry!Begin, Registry!At,
           Registry!MayRun, Registry!Taken
  <2>3. RequestsFit' /\ RevisedOrAbout'
    BY <1>1, RouteDefaults, RegistryAssumption
       DEF RequestsFit, RevisedOrAbout, StartsAlone, StartFits, Registry!TypeOK,
           Registry!BeginCreate, Registry!Begin, Registry!At, Registry!MayRun,
           Registry!Taken
  <2>4. GroupsOwned' /\ Registry!RefusedLate'
    BY <1>1, RouteDefaults, RegistryAssumption
       DEF GroupsOwned, Registry!RefusedLate, RequestsFit, StartsAlone, StartFits,
           Registry!TypeOK,
           Registry!BeginCreate, Registry!Begin, Registry!At, Registry!MayRun, Registry!Taken
  <2> QED
    BY <2>1, <2>2, <2>3, <2>4
<1>2. ASSUME NEW r \in RtRequests, NEW p \in RtPaths, NEW t \in 1..RtMaxText, Registry!BeginSave(r, p, t)
      PROVE  RouteInv'
  <2>1. Registry!TypeOK'
    BY <1>2, RouteDefaults, RegistryAssumption
       DEF Registry!TypeOK, RouteReq, RouteStart, RequestsFit, StartFits,
           Registry!BeginSave, Registry!Begin, Registry!At, Registry!MayRun
  <2>2. StartsAlone' /\ StartFits' /\ Registry!StartFailsOnTaken'
    BY <1>2, RouteDefaults, RegistryAssumption
       DEF StartsAlone, StartFits, Registry!StartFailsOnTaken, Registry!TypeOK,
           RouteStart, Registry!BeginSave, Registry!Begin, Registry!At,
           Registry!MayRun
  <2>3. RequestsFit' /\ RevisedOrAbout'
    BY <1>2, RouteDefaults, RegistryAssumption
       DEF RequestsFit, RevisedOrAbout, StartsAlone, StartFits, Registry!TypeOK,
           Registry!BeginSave, Registry!Begin, Registry!At, Registry!MayRun
  <2>4. GroupsOwned' /\ Registry!RefusedLate'
    BY <1>2, RouteDefaults, RegistryAssumption
       DEF GroupsOwned, Registry!RefusedLate, RequestsFit, StartsAlone, StartFits,
           Registry!TypeOK,
           Registry!BeginSave, Registry!Begin, Registry!At, Registry!MayRun
  <2> QED
    BY <2>1, <2>2, <2>3, <2>4
<1>3. ASSUME NEW r \in RtRequests, Registry!InsertGroup(r)
      PROVE  RouteInv'
  <2>0. rtReq[r].at = "group" /\ rtStart.at = "up" /\ rtReq[r].path \in RtPaths /\ rtReq[r] \in RouteReq
    BY <1>3 DEF Registry!InsertGroup, Registry!At, Registry!MayRun, Registry!TypeOK, RouteReq
  <2>00. UNCHANGED <<rtBackend, rtSeeds, rtShown, rtNewest, rtBaseline, rtStart, rtTorn, rtHalved>>
    BY <1>3 DEF Registry!InsertGroup
  <2>a. CASE rtGroups[rtReq[r].path] = "none"
    <3> DEFINE next == [rtReq[r] EXCEPT !.at = "variant", !.late = FALSE]
    <3>1. /\ next \in RouteReq /\ next.at = "variant" /\ next.path = rtReq[r].path
          /\ next.text = rtReq[r].text
      BY <2>0 DEF RouteReq
    <3>2. rtGroups' = [rtGroups EXCEPT ![rtReq[r].path] = "admin"]
          /\ Registry!Overtake(r, next, {"group"})
      BY <1>3, <2>a DEF Registry!InsertGroup
    <3> HIDE DEF next
    <3>3. /\ rtReq' \in [RtRequests -> RouteReq]
          /\ rtReq'[r] = next
          /\ \A q \in RtRequests : q # r =>
               /\ rtReq'[q].at = rtReq[q].at /\ rtReq'[q].path = rtReq[q].path
               /\ rtReq'[q].text = rtReq[q].text
               /\ rtReq[q].late => rtReq'[q].late
               /\ rtReq'[q].late =>
                    rtReq[q].late \/ (rtReq[q].path = rtReq[r].path /\ rtReq[q].at \in {"group"})
               /\ rtReq[q].path = rtReq[r].path /\ rtReq[q].at \in {"group"} => rtReq'[q].late
      BY <3>1, <3>2, RouteOvertake
    <3>4. /\ rtGroups' \in [RtPaths -> {"none", "seed", "admin"}]
          /\ rtGroups'[rtReq[r].path] = "admin"
          /\ \A p \in RtPaths : p # rtReq[r].path => rtGroups'[p] = rtGroups[p]
      BY <2>0, <3>2 DEF Registry!TypeOK
    <3>5. Registry!TypeOK'
      BY <2>00, <3>3, <3>4 DEF Registry!TypeOK, RouteReq
    <3>6. StartsAlone' /\ StartFits' /\ Registry!StartFailsOnTaken'
      BY <2>0, <2>00, <3>4 DEF StartsAlone, StartFits, Registry!StartFailsOnTaken, Registry!TypeOK
    <3>7. RequestsFit' /\ RevisedOrAbout'
      BY <2>0, <2>00, <3>1, <3>3, <3>4 DEF RequestsFit, RevisedOrAbout, Registry!TypeOK
    <3>8. GroupsOwned' /\ Registry!RefusedLate'
      BY <2>0, <2>00, <3>1, <3>3, <3>4 DEF GroupsOwned, Registry!RefusedLate, Registry!TypeOK
    <3> QED
      BY <3>5, <3>6, <3>7, <3>8
  <2>b. CASE rtGroups[rtReq[r].path] # "none"
    <3>1. rtReq' = [rtReq EXCEPT ![r] = Registry!Idle] /\ rtGroups' = rtGroups
      BY <1>3, <2>b DEF Registry!InsertGroup
    <3>2. Registry!TypeOK'
      BY <2>00, <3>1, RouteDefaults DEF Registry!TypeOK, RouteReq
    <3>3. StartsAlone' /\ StartFits' /\ Registry!StartFailsOnTaken'
      BY <2>0, <2>00, <3>1 DEF StartsAlone, StartFits, Registry!StartFailsOnTaken
    <3>4. RequestsFit' /\ RevisedOrAbout'
      BY <2>0, <2>00, <3>1, RouteDefaults DEF RequestsFit, RevisedOrAbout, Registry!TypeOK
    <3>5. GroupsOwned' /\ Registry!RefusedLate'
      BY <2>0, <2>00, <3>1, RouteDefaults DEF GroupsOwned, Registry!RefusedLate, Registry!TypeOK
    <3> QED
      BY <3>2, <3>3, <3>4, <3>5
  <2> QED
    BY <2>a, <2>b
<1>4. ASSUME NEW r \in RtRequests, Registry!InsertVariant(r)
      PROVE  RouteInv'
  <2>0. /\ rtReq[r].at = "variant" /\ Registry!Write(r)
        /\ UNCHANGED <<rtBackend, rtSeeds, rtGroups, rtNewest, rtBaseline, rtStart, rtHalved>>
        /\ rtTorn' = rtTorn \ {rtReq[r].path}
        /\ rtStart.at = "up"
    BY <1>4 DEF Registry!InsertVariant, Registry!At, Registry!MayRun, Registry!Write
  <2>1. rtGroups[rtReq[r].path] # "none"
    BY <2>0 DEF Registry!TypeOK, RequestsFit
  <2> QED
    BY <2>0, <2>1, RouteText
<1>5. ASSUME NEW r \in RtRequests, Registry!Update(r)
      PROVE  RouteInv'
  <2>0. /\ rtReq[r].at = "update" /\ Registry!Write(r)
        /\ UNCHANGED <<rtBackend, rtSeeds, rtGroups, rtNewest, rtBaseline, rtStart, rtHalved>>
        /\ rtTorn' = rtTorn \ {rtReq[r].path}
        /\ rtStart.at = "up"
    BY <1>5 DEF Registry!Update, Registry!At, Registry!MayRun, Registry!Write
  <2>1. rtGroups[rtReq[r].path] # "none"
    BY <2>0 DEF Registry!TypeOK, RequestsFit
  <2> QED
    BY <2>0, <2>1, RouteText
<1>6. ASSUME NEW r \in RtRequests, Registry!Revise(r)
      PROVE  RouteInv'
  <2>1. Registry!TypeOK'
    BY <1>6, RouteDefaults, RegistryAssumption
       DEF Registry!TypeOK, RouteReq, RouteStart, RequestsFit, StartFits,
           Registry!Revise, Registry!At, Registry!MayRun
  <2>2. StartsAlone' /\ StartFits' /\ Registry!StartFailsOnTaken'
    BY <1>6, RouteDefaults, RegistryAssumption
       DEF StartsAlone, StartFits, Registry!StartFailsOnTaken, Registry!TypeOK,
           RouteStart, Registry!Revise, Registry!At, Registry!MayRun
  <2>3. RequestsFit' /\ RevisedOrAbout'
    BY <1>6, RouteDefaults, RegistryAssumption
       DEF RequestsFit, RevisedOrAbout, StartsAlone, StartFits, Registry!TypeOK,
           Registry!Revise, Registry!At, Registry!MayRun
  <2>4. GroupsOwned' /\ Registry!RefusedLate'
    BY <1>6, RouteDefaults, RegistryAssumption
       DEF GroupsOwned, Registry!RefusedLate, RequestsFit, StartsAlone, StartFits,
           Registry!TypeOK,
           Registry!Revise, Registry!At, Registry!MayRun
  <2> QED
    BY <2>1, <2>2, <2>3, <2>4
<1>7. ASSUME NEW r \in RtRequests, Registry!Die(r)
      PROVE  RouteInv'
  <2>1. Registry!TypeOK'
    BY <1>7, RouteDefaults, RegistryAssumption
       DEF Registry!TypeOK, RouteReq, RouteStart, RequestsFit, StartFits,
           Registry!Die, Registry!Unrevised, Registry!Halved
  <2>2. StartsAlone' /\ StartFits' /\ Registry!StartFailsOnTaken'
    BY <1>7, RouteDefaults, RegistryAssumption
       DEF StartsAlone, StartFits, Registry!StartFailsOnTaken, Registry!TypeOK,
           RouteStart, Registry!Die, Registry!Unrevised, Registry!Halved
  <2>3. RequestsFit' /\ RevisedOrAbout'
    BY <1>7, RouteDefaults, RegistryAssumption
       DEF RequestsFit, RevisedOrAbout, StartsAlone, StartFits, Registry!TypeOK,
           Registry!Die, Registry!Unrevised, Registry!Halved
  <2>4. GroupsOwned' /\ Registry!RefusedLate'
    BY <1>7, RouteDefaults, RegistryAssumption
       DEF GroupsOwned, Registry!RefusedLate, RequestsFit, StartsAlone, StartFits,
           Registry!TypeOK,
           Registry!Die, Registry!Unrevised, Registry!Halved
  <2> QED
    BY <2>1, <2>2, <2>3, <2>4
<1>8. ASSUME NEW p \in RtPaths, NEW t \in 0..RtMaxText, Registry!Deploy(p, t)
      PROVE  RouteInv'
  <2>1. Registry!TypeOK'
    BY <1>8, RouteDefaults, RegistryAssumption
       DEF Registry!TypeOK, RouteReq, RouteStart, RequestsFit, StartFits,
           Registry!Deploy
  <2>2. StartsAlone' /\ StartFits' /\ Registry!StartFailsOnTaken'
    BY <1>8, RouteDefaults, RegistryAssumption
       DEF StartsAlone, StartFits, Registry!StartFailsOnTaken, Registry!TypeOK,
           RouteStart, Registry!Deploy
  <2>3. RequestsFit' /\ RevisedOrAbout'
    BY <1>8, RouteDefaults, RegistryAssumption
       DEF RequestsFit, RevisedOrAbout, StartsAlone, StartFits, Registry!TypeOK,
           Registry!Deploy
  <2>4. GroupsOwned' /\ Registry!RefusedLate'
    BY <1>8, RouteDefaults, RegistryAssumption
       DEF GroupsOwned, Registry!RefusedLate, RequestsFit, StartsAlone, StartFits,
           Registry!TypeOK,
           Registry!Deploy
  <2> QED
    BY <2>1, <2>2, <2>3, <2>4
<1>9. ASSUME NEW p \in RtPaths, Registry!SeedGroup(p)
      PROVE  RouteInv'
  <2>1. Registry!TypeOK'
    BY <1>9, RouteDefaults, RegistryAssumption
       DEF Registry!TypeOK, RouteReq, RouteStart, RequestsFit, StartFits,
           Registry!SeedGroup
  <2>2. StartsAlone' /\ StartFits' /\ Registry!StartFailsOnTaken'
    BY <1>9, RouteDefaults, RegistryAssumption
       DEF StartsAlone, StartFits, Registry!StartFailsOnTaken, Registry!TypeOK,
           RouteStart, Registry!SeedGroup
  <2>3. RequestsFit' /\ RevisedOrAbout'
    BY <1>9, RouteDefaults, RegistryAssumption
       DEF RequestsFit, RevisedOrAbout, StartsAlone, StartFits, Registry!TypeOK,
           Registry!SeedGroup
  <2>4. GroupsOwned' /\ Registry!RefusedLate'
    BY <1>9, RouteDefaults, RegistryAssumption
       DEF GroupsOwned, Registry!RefusedLate, RequestsFit, StartsAlone, StartFits,
           Registry!TypeOK,
           Registry!SeedGroup
  <2> QED
    BY <2>1, <2>2, <2>3, <2>4
<1>10. CASE Registry!Kill
  <2>1. Registry!TypeOK'
    BY <1>10, RouteDefaults, RegistryAssumption
       DEF Registry!TypeOK, RouteReq, RouteStart, RequestsFit, StartFits,
           Registry!Kill, Registry!Unrevised, Registry!Halved
  <2>2. StartsAlone' /\ StartFits' /\ Registry!StartFailsOnTaken'
    BY <1>10, RouteDefaults, RegistryAssumption
       DEF StartsAlone, StartFits, Registry!StartFailsOnTaken, Registry!TypeOK,
           RouteStart, Registry!Kill, Registry!Unrevised, Registry!Halved
  <2>3. RequestsFit' /\ RevisedOrAbout'
    BY <1>10, RouteDefaults, RegistryAssumption
       DEF RequestsFit, RevisedOrAbout, StartsAlone, StartFits, Registry!TypeOK,
           Registry!Kill, Registry!Unrevised, Registry!Halved
  <2>4. GroupsOwned' /\ Registry!RefusedLate'
    BY <1>10, RouteDefaults, RegistryAssumption
       DEF GroupsOwned, Registry!RefusedLate, RequestsFit, StartsAlone, StartFits,
           Registry!TypeOK,
           Registry!Kill, Registry!Unrevised, Registry!Halved
  <2> QED
    BY <2>1, <2>2, <2>3, <2>4
<1>11. CASE Registry!Seed
  <2>1. Registry!TypeOK'
    BY <1>11, RouteDefaults, RegistryAssumption
       DEF Registry!TypeOK, RouteReq, RouteStart, RequestsFit, StartFits,
           Registry!Seed
  <2>2. StartsAlone' /\ StartFits' /\ Registry!StartFailsOnTaken'
    BY <1>11, RouteDefaults, RegistryAssumption
       DEF StartsAlone, StartFits, Registry!StartFailsOnTaken, Registry!TypeOK,
           RouteStart, Registry!Seed
  <2>3. RequestsFit' /\ RevisedOrAbout'
    BY <1>11, RouteDefaults, RegistryAssumption
       DEF RequestsFit, RevisedOrAbout, StartsAlone, StartFits, Registry!TypeOK,
           Registry!Seed
  <2>4. GroupsOwned' /\ Registry!RefusedLate'
    BY <1>11, RouteDefaults, RegistryAssumption
       DEF GroupsOwned, Registry!RefusedLate, RequestsFit, StartsAlone, StartFits,
           Registry!TypeOK,
           Registry!Seed
  <2> QED
    BY <2>1, <2>2, <2>3, <2>4
<1>12. CASE Registry!SeedVariant
  <2>1. Registry!TypeOK'
    BY <1>12, RouteDefaults, RegistryAssumption
       DEF Registry!TypeOK, RouteReq, RouteStart, RequestsFit, StartFits,
           Registry!SeedVariant
  <2>2. StartsAlone' /\ StartFits' /\ Registry!StartFailsOnTaken'
    BY <1>12, RouteDefaults, RegistryAssumption
       DEF StartsAlone, StartFits, Registry!StartFailsOnTaken, Registry!TypeOK,
           RouteStart, Registry!SeedVariant
  <2>3. RequestsFit' /\ RevisedOrAbout'
    BY <1>12, RouteDefaults, RegistryAssumption
       DEF RequestsFit, RevisedOrAbout, StartsAlone, StartFits, Registry!TypeOK,
           Registry!SeedVariant
  <2>4. GroupsOwned' /\ Registry!RefusedLate'
    BY <1>12, RouteDefaults, RegistryAssumption
       DEF GroupsOwned, Registry!RefusedLate, RequestsFit, StartsAlone, StartFits,
           Registry!TypeOK,
           Registry!SeedVariant
  <2> QED
    BY <2>1, <2>2, <2>3, <2>4
<1>13. CASE Registry!SeedRevision
  <2>1. Registry!TypeOK'
    BY <1>13, RouteDefaults, RegistryAssumption
       DEF Registry!TypeOK, RouteReq, RouteStart, RequestsFit, StartFits,
           Registry!SeedRevision
  <2>2. StartsAlone' /\ StartFits' /\ Registry!StartFailsOnTaken'
    BY <1>13, RouteDefaults, RegistryAssumption
       DEF StartsAlone, StartFits, Registry!StartFailsOnTaken, Registry!TypeOK,
           RouteStart, Registry!SeedRevision
  <2>3. RequestsFit' /\ RevisedOrAbout'
    BY <1>13, RouteDefaults, RegistryAssumption
       DEF RequestsFit, RevisedOrAbout, StartsAlone, StartFits, Registry!TypeOK,
           Registry!SeedRevision
  <2>4. GroupsOwned' /\ Registry!RefusedLate'
    BY <1>13, RouteDefaults, RegistryAssumption
       DEF GroupsOwned, Registry!RefusedLate, RequestsFit, StartsAlone, StartFits,
           Registry!TypeOK,
           Registry!SeedRevision
  <2> QED
    BY <2>1, <2>2, <2>3, <2>4
<1>14. CASE Registry!Started
  <2>1. Registry!TypeOK'
    BY <1>14, RouteDefaults, RegistryAssumption
       DEF Registry!TypeOK, RouteReq, RouteStart, RequestsFit, StartFits,
           Registry!Started
  <2>2. StartsAlone' /\ StartFits' /\ Registry!StartFailsOnTaken'
    BY <1>14, RouteDefaults, RegistryAssumption
       DEF StartsAlone, StartFits, Registry!StartFailsOnTaken, Registry!TypeOK,
           RouteStart, Registry!Started
  <2>3. RequestsFit' /\ RevisedOrAbout'
    BY <1>14, RouteDefaults, RegistryAssumption
       DEF RequestsFit, RevisedOrAbout, StartsAlone, StartFits, Registry!TypeOK,
           Registry!Started
  <2>4. GroupsOwned' /\ Registry!RefusedLate'
    BY <1>14, RouteDefaults, RegistryAssumption
       DEF GroupsOwned, Registry!RefusedLate, RequestsFit, StartsAlone, StartFits,
           Registry!TypeOK,
           Registry!Started
  <2> QED
    BY <2>1, <2>2, <2>3, <2>4
<1>15. CASE UNCHANGED rtVars
  BY <1>15
     DEF rtVars, Registry!TypeOK, StartsAlone, RequestsFit, StartFits, RevisedOrAbout,
         GroupsOwned, Registry!RefusedLate, Registry!StartFailsOnTaken
<1> QED
  BY <1>1, <1>2, <1>3, <1>4, <1>5, <1>6, <1>7, <1>8, <1>9, <1>10, <1>11, <1>12, <1>13, <1>14,
     <1>15 DEF Registry!Next, Registry!Texts

LEMMA RouteRevised ==
    ASSUME RouteInv
    PROVE  Registry!NewestIsShown
BY DEF RouteInv, RevisedOrAbout, Registry!NewestIsShown

-----------------------------------------------------------------------------
(* Integrations on D1 *)

\* The proofs of the integrations, about the store on D1.
D1Proofs == INSTANCE Integrations_proofs WITH
        status <- d1Status, secret <- d1Secret, req <- d1Req, env <- d1Env, latest <- d1Latest

LEMMA D1Same ==
    /\ D1!Init <=> D1Proofs!Init
    /\ D1!Next1 <=> D1Proofs!Next1
    /\ D1!TypeOK1 <=> D1Proofs!TypeOK1
    /\ D1!ConnectedHasSecret <=> D1Proofs!ConnectedHasSecret
    /\ D1!LatestCredentialsKept <=> D1Proofs!LatestCredentialsKept
<1> USE DEF D1!NoRoot, D1Proofs!NoRoot, D1!NoRow, D1Proofs!NoRow, D1!NoSecret, D1Proofs!NoSecret,
     D1!Idle, D1Proofs!Idle, D1!StatusRow, D1Proofs!StatusRow, D1!SecretRow, D1Proofs!SecretRow,
     D1!Request, D1Proofs!Request, D1!Request1, D1Proofs!Request1
<1>1. D1!Init <=> D1Proofs!Init
  BY DEF D1!Init, D1Proofs!Init
<1>2. /\ D1!TypeOK1 <=> D1Proofs!TypeOK1
      /\ D1!ConnectedHasSecret <=> D1Proofs!ConnectedHasSecret
      /\ D1!LatestCredentialsKept <=> D1Proofs!LatestCredentialsKept
  BY DEF D1!TypeOK1, D1Proofs!TypeOK1, D1!ConnectedHasSecret, D1Proofs!ConnectedHasSecret,
         D1!LatestCredentialsKept, D1Proofs!LatestCredentialsKept
<1>3. D1!Next1 <=> D1Proofs!Next1
  BY DEF D1!Next1, D1Proofs!Next1, D1!Await, D1Proofs!Await, D1!Done, D1Proofs!Done,
         D1!ConnectBatch, D1Proofs!ConnectBatch, D1!CountActive, D1Proofs!CountActive,
         D1!MarkActive, D1Proofs!MarkActive, D1!ClearActive, D1Proofs!ClearActive,
         D1!Reverified1, D1Proofs!Reverified1, D1!FindSecret, D1Proofs!FindSecret,
         D1!WorkerDies, D1Proofs!WorkerDies, D1!Reading, D1Proofs!Reading,
         D1!SealsInUse, D1Proofs!SealsInUse, D1!NewSeal, D1Proofs!NewSeal,
         D1!Sealed, D1Proofs!Sealed, D1!ConnectedIn, D1Proofs!ConnectedIn,
         D1!ActiveIn, D1Proofs!ActiveIn, D1!Disconnect, D1Proofs!Disconnect,
         D1!Begin, D1Proofs!Begin, D1!ConnectRejected, D1Proofs!ConnectRejected,
         D1!Connected, D1Proofs!Connected, D1!Reverified, D1Proofs!Reverified,
         D1!EndRead, D1Proofs!EndRead, D1!EndReadReseal, D1Proofs!EndReadReseal,
         D1!Rotate, D1Proofs!Rotate
<1> QED
  BY <1>1, <1>2, <1>3

LEMMA D1StoreInit == D1!Init => D1Proofs!D1Inv
BY ConstantsAssumption, D1Same, D1Proofs!D1Init

LEMMA D1StoreStep == ASSUME D1Proofs!D1Inv, [D1!Next1]_d1Vars PROVE D1Proofs!D1Inv'
BY ConstantsAssumption, D1Same, D1Proofs!D1Step DEF D1Proofs!vars, d1Vars

-----------------------------------------------------------------------------
(* All stores together *)

StoresInv == /\ D1Proofs!D1Inv
             /\ Locks!TypeOK /\ ReadHolds
             /\ SchemaInv
             /\ FlashInv
             /\ WindowInv /\ LoginInv
             /\ RouteInv

\* What the whole does is, to each store, a step of its own or none.
LEMMA StoresMove ==
    ASSUME [StoresNext]_storesVars
    PROVE  /\ [D1!Next1]_d1Vars /\ [Locks!Next]_lkVars /\ [Schema!Next]_mgVars
           /\ [Messages!Next]_flVars /\ [Limits!Next]_rlVars /\ [Registry!Next]_rtVars
<1> USE DEF StoresNext, InIntegrations, InD1, InLocks, InSchema, InMessages, InLimits,
            InRegistry, storesVars
<1>1. [D1!Next1]_d1Vars
  OBVIOUS
<1>2. [Locks!Next]_lkVars
  OBVIOUS
<1>3. [Schema!Next]_mgVars
  OBVIOUS
<1>4. [Messages!Next]_flVars
  OBVIOUS
<1>5. [Limits!Next]_rlVars
  OBVIOUS
<1>6. [Registry!Next]_rtVars
  OBVIOUS
<1> QED
  BY <1>1, <1>2, <1>3, <1>4, <1>5, <1>6

\* The invariant of every store, whatever the others do: what each section proves of a
\* store's own steps holds of the deployment that runs them all.
THEOREM StoresHold == StoresSpec => []StoresInv
<1>1. StoresInit => StoresInv
  BY D1StoreInit, LocksInit, SchemaInit, FlashInitInv, LimitInit, LoginInit, RouteInit
     DEF StoresInit, StoresInv
<1>2. StoresInv /\ [StoresNext]_storesVars => StoresInv'
  <2> SUFFICES ASSUME StoresInv, [StoresNext]_storesVars
               PROVE  StoresInv'
    OBVIOUS
  <2>1. D1Proofs!D1Inv'
    BY StoresMove, D1StoreStep DEF StoresInv
  <2>2. Locks!TypeOK' /\ ReadHolds'
    BY StoresMove, LocksStep DEF StoresInv
  <2>3. SchemaInv'
    BY StoresMove, SchemaStep DEF StoresInv
  <2>4. FlashInv'
    BY StoresMove, FlashStep DEF StoresInv
  <2>5. WindowInv' /\ LoginInv'
    BY StoresMove, LimitStep, LoginStep DEF StoresInv
  <2>6. RouteInv'
    BY StoresMove, RouteStep DEF StoresInv
  <2> QED BY <2>1, <2>2, <2>3, <2>4, <2>5, <2>6 DEF StoresInv
<1> QED
  BY <1>1, <1>2, PTL DEF StoresSpec

\* The tables, requests and commands of the stores are of their types.
THEOREM StoresTyped == StoresSpec => []StoresTypeOK
<1>1. StoresInv => StoresTypeOK
  BY D1Same DEF StoresInv, StoresTypeOK, D1Proofs!D1Inv, SchemaInv, FlashInv, WindowInv, RouteInv
<1> QED
  BY <1>1, StoresHold, PTL

\* "We never want a window where it shows 'connected' while the secret is still missing
\* (or, worse, vice-versa)" (integrations-d1.ts), whatever the other stores do.
THEOREM ConnectedHasSecretHolds == StoresSpec => []ConnectedHasSecret
<1>1. StoresInv => ConnectedHasSecret
  BY D1Same DEF StoresInv, ConnectedHasSecret, D1Proofs!D1Inv, D1Proofs!RowsTogether,
     D1Proofs!ConnectedHasSecret, D1Proofs!NoRow
<1> QED
  BY <1>1, StoresHold, PTL

\* On D1 the guarded reseal of a read neither clobbers what was connected since the read
\* began nor revives what was disconnected.
THEOREM LatestCredentialsKeptOnD1 == StoresSpec => []LatestCredentialsKeptD1
<1>1. StoresInv => LatestCredentialsKeptD1
  BY D1Same DEF StoresInv, LatestCredentialsKeptD1, D1Proofs!D1Inv, D1Proofs!Sealing
<1> QED
  BY <1>1, StoresHold, PTL

\* acquireLock on D1 awaits three statements one by one, yet a running lock is taken
\* from another user only by a request that overlapped its grant: for any number of
\* clients, deaths and expiries.
THEOREM StealsOverlap == StoresSpec => StealOnlyByOverlap
<1>1. StoresInv /\ [StoresNext]_storesVars =>
        [\A s \in LkSlugs :
           /\ Locks!Live(lkLocks[s])
           /\ lkLocks'[s].owner \notin {LkNoOne, lkLocks[s].owner}
           => \E c \in lkRaced : lkReq[c] = [at |-> "upsert", slug |-> s]
                                 /\ lkLocks'[s].owner = LkUserOf[c]]_(Locks!vars)
  BY StoresMove, LockStealStep DEF Steals, StoresInv
<1> QED
  BY <1>1, StoresHold, PTL DEF StoresSpec, StealOnlyByOverlap, Locks!StealOnlyByOverlap

\* "Applied migrations are recorded in schema_migrations so they are never re-run"
\* (OPERATIONS.md): for any number of migrations and commands, with kills between any two
\* statements on SQLite, the table says of a migration whether it is in force.
THEOREM RecordsAgree == StoresSpec => []RecordedIffInForce
<1>1. StoresInv => RecordedIffInForce
  BY SchemaRecords DEF StoresInv, RecordedIffInForce
<1> QED
  BY <1>1, StoresHold, PTL

\* A flash message is shown once: what was shown is not in the table any more, though on
\* D1 it is read and deleted by two statements.
THEOREM MessagesGoOnce == StoresSpec => []GoneOnceShown
<1>1. StoresInv => GoneOnceShown
  BY DEF StoresInv, FlashInv, GoneOnceShown
<1> QED
  BY <1>1, StoresHold, PTL

\* In a window no more than Max requests pass a form's limit, and no more than Max - 1
\* wrong passwords are tried besides those being verified at once, the overlaps of D1
\* apart: for any number of requests, keys and windows.
THEOREM LimitsAllowNoMore == StoresSpec => []LimitHolds
<1>1. StoresInv => LimitHolds
  BY LimitsHold DEF StoresInv, LimitHolds
<1> QED
  BY <1>1, StoresHold, PTL

\* An OAuth state is accepted a second time only by a request that overlapped the first
\* claim on D1, or took longer to claim it than the flow had taken until its first use.
THEOREM StatesUsedOnce == StoresSpec => StateUsedOnce
<1>1. StoresInv /\ [StoresNext]_storesVars =>
        [\A n \in RlNonces, r \in RlRequests :
           /\ rlFirstUse[n] # Limits!Never
           /\ rlUsed'[n] # rlUsed[n] \/ rlWindows'[n] # rlWindows[n]
           /\ rlReq[r].key = n /\ rlReq[r].at # "idle" /\ rlReq'[r] = Limits!Idle
           => \/ rlReq[r].stale
              \/ rlNow - rlReq[r].since > rlFirstUse[n]]_(Limits!vars)
  BY StoresMove, NonceSteps, NonceTakenAgain DEF StoresInv
<1> QED
  BY <1>1, StoresHold, PTL DEF StoresSpec, StateUsedOnce, Limits!StateUsedOnce

\* The newest revision of a route is what the site shows, except while a save is between
\* the two, and where saves were cut off there or overtook each other.
THEOREM RoutesShowNewest == StoresSpec => []NewestIsShown
<1>1. StoresInv => NewestIsShown
  BY RouteRevised DEF StoresInv, NewestIsShown
<1> QED
  BY <1>1, StoresHold, PTL

\* A path that was found free is refused by the database only to the later of two
\* creations that overlapped on D1, or over the remains of one that was cut off.
THEOREM RoutesRefuseFirst == StoresSpec => []RefusedLate
<1>1. StoresInv => RefusedLate
  BY DEF StoresInv, RouteInv, RefusedLate
<1> QED
  BY <1>1, StoresHold, PTL

\* A start fails only over a page that was created in the admin panel where the site's
\* code has a route by now.
THEOREM StartsFailOnTaken == StoresSpec => []StartFailsOnTaken
<1>1. StoresInv => StartFailsOnTaken
  BY DEF StoresInv, RouteInv, StartFailsOnTaken
<1> QED
  BY <1>1, StoresHold, PTL
=============================================================================
