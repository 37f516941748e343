------------------------- MODULE Integrations_proofs -------------------------
(***************************************************************************)
(* Theorems about connected integrations: a resealing read never undoes    *)
(* what an admin has connected or disconnected since, on SQLite and on D1; *)
(* on SQLite no request locks a stored secret out of the configured root   *)
(* secrets; on D1 no status row loses its secret.                          *)
(***************************************************************************)
EXTENDS IntegrationsD1, TLAPS

-----------------------------------------------------------------------------
(* What both backends share: the tables, the reads and the sealing *)

Env == [current : 1..MaxRoot, previous : 0..MaxRoot, confirmed : BOOLEAN]

TablesOK ==
    /\ status \in [Providers -> StatusRow]
    /\ secret \in [Providers -> SecretRow]
    /\ env \in Env
    /\ latest \in [Providers -> Fields \cup {NoFields}]

\* A handler that awaits the opening of a record has read one.
ReadsOK ==
    \A c \in Requests : req[c].op = "read" =>
        req[c].provider \in Providers /\ req[c].row \in SecretRow

Sealing == RowShape /\ SealFixesFields /\ LatestCredentialsKept

\* A new ciphertext is one that is neither stored nor awaited.
LEMMA NewSealIsNew ==
    ASSUME \E fresh \in Seals : fresh \notin SealsInUse
    PROVE  /\ NewSeal \in Seals /\ NewSeal \notin SealsInUse
           /\ NewSeal # NoSeal
  BY ConstantsAssumption DEF NewSeal

\* What is sealed is a record, under the current root.
LEMMA SealedType ==
    ASSUME TablesOK, NEW fields \in Fields \cup {NoFields},
           \E fresh \in Seals : fresh \notin SealsInUse
    PROVE  /\ Sealed(fields) \in SecretRow
           /\ Sealed(fields).seal = NewSeal
           /\ Sealed(fields).fields = fields
           /\ Sealed(fields).root = env.current
<1>1. NewSeal \in Seals
  BY NewSealIsNew
<1> HIDE DEF NewSeal
<1> QED
  BY <1>1 DEF Sealed, SecretRow, TablesOK, Env

\* Marking a provider active keeps the table well typed.
LEMMA MarkType ==
    ASSUME NEW st \in [Providers -> StatusRow], NEW p \in Providers
    PROVE  MarkIfNone(st, p) \in [Providers -> StatusRow]
<1>1. \A r \in StatusRow : [r EXCEPT !.active = TRUE] \in StatusRow
  BY DEF StatusRow
<1> QED
  BY <1>1 DEF MarkIfNone

\* The kinds of request a handler may await, told by op.
LEMMA ReadingType ==
    ASSUME TypeOK, NEW c \in Requests
    PROVE  /\ req[c].op \in {"connect", "reverify"} => req[c].provider \in Providers
           /\ req[c].op = "read" =>
                req[c].provider \in Providers /\ req[c].row \in SecretRow
  BY DEF TypeOK, Request, Idle

LEMMA TypedParts == TypeOK => TablesOK /\ ReadsOK
  BY ReadingType DEF TypeOK, TablesOK, Env, ReadsOK

\* The status row after the upsert of connect is well typed.
LEMMA ConnectedType ==
    ASSUME TablesOK, NEW p \in Providers
    PROVE  Connected(p) \in [Providers -> StatusRow]
<1>1. \A r \in StatusRow : [r EXCEPT !.state = "connected"] \in StatusRow
  BY DEF StatusRow
<1> QED
  BY <1>1 DEF TablesOK, Connected

\* No handler, a registered connect or a reverification: all are requests.
LEMMA RequestForms ==
    /\ Idle \in Request
    /\ \A op \in {"connect", "reverify"}, p \in Providers :
         [op |-> op, provider |-> p] \in Request
    /\ \A p \in Providers, row \in SecretRow :
         [op |-> "read", provider |-> p, row |-> row] \in Request
  BY DEF Request, Idle

\* The empty tables satisfy the invariant.
LEMMA SecretsInit == Init => SecretsInv
<1> SUFFICES ASSUME Init PROVE SecretsInv
  OBVIOUS
<1>1. NoRow \in StatusRow /\ NoSecret \in SecretRow
  BY ConstantsAssumption DEF NoRow, StatusRow, NoSecret, SecretRow, NoRoot
<1>2. TypeOK
  BY <1>1, RequestForms, ConstantsAssumption DEF Init, TypeOK, NoRoot
<1>3. RowShape /\ LatestCredentialsKept
  BY DEF Init, RowShape, LatestCredentialsKept, NoSecret
<1>4. SealFixesFields
  BY DEF Init, SealFixesFields, Idle
<1> QED
  BY <1>2, <1>3, <1>4 DEF SecretsInv

\* Requests end, tables that the invariant speaks of stay.
LEMMA SealingKept ==
    ASSUME Sealing, UNCHANGED <<secret, latest>>,
           \A c \in Requests : req'[c] = Idle \/ req'[c] = req[c] \/ req'[c].op # "read"
    PROVE  Sealing'
<1>1. RowShape' /\ LatestCredentialsKept'
  BY DEF Sealing, RowShape, LatestCredentialsKept
<1>2. SealFixesFields'
  BY DEF Sealing, SealFixesFields, Idle
<1> QED
  BY <1>1, <1>2 DEF Sealing

\* A record sealed anew replaces the one of a provider; no read waits with it.
LEMMA SealingReplaced ==
    ASSUME TablesOK, ReadsOK, Sealing, NEW p \in Providers,
           NEW fields \in Fields \cup {NoFields},
           \E fresh \in Seals : fresh \notin SealsInUse,
           secret' = [secret EXCEPT ![p] = Sealed(fields)],
           latest' = [latest EXCEPT ![p] = fields],
           \A c \in Requests : req'[c] = Idle \/ req'[c] = req[c] \/ req'[c].op # "read"
    PROVE  Sealing'
<1>1. /\ Sealed(fields).seal = NewSeal /\ Sealed(fields).fields = fields
      /\ NewSeal # NoSeal /\ NewSeal \notin SealsInUse
      /\ Sealed(fields).root # NoRoot
  BY NewSealIsNew, SealedType DEF TablesOK, Env, NoRoot
<1>2. \A q \in Providers : /\ secret'[q] = IF q = p THEN Sealed(fields) ELSE secret[q]
                           /\ latest'[q] = IF q = p THEN fields ELSE latest[q]
  BY DEF TablesOK
<1> HIDE DEF NewSeal
<1>3. RowShape' /\ LatestCredentialsKept'
  BY <1>1, <1>2 DEF Sealing, RowShape, LatestCredentialsKept
<1>4. SealFixesFields'
  <2> SUFFICES ASSUME NEW c \in Requests, req'[c].op = "read"
      PROVE /\ req'[c].row.seal # NoSeal
            /\ secret'[req'[c].provider].seal = req'[c].row.seal =>
                  secret'[req'[c].provider] = req'[c].row
    BY DEF SealFixesFields
  <2>1. req'[c] = req[c] /\ req[c].op = "read"
    BY DEF Idle
  <2>2. req[c].provider \in Providers
    BY <2>1 DEF ReadsOK
  <2>3. req[c].row.seal \in SealsInUse
    BY <2>1 DEF SealsInUse, Reading
  <2> QED
    BY <1>1, <1>2, <2>1, <2>2, <2>3 DEF Sealing, SealFixesFields
<1> QED
  BY <1>3, <1>4 DEF Sealing

\* A read begins with the record that is stored.
LEMMA SealingRead ==
    ASSUME Sealing, NEW p \in Providers, secret[p] # NoSecret, UNCHANGED <<secret, latest>>,
           \A d \in Requests :
             \/ req'[d] = [op |-> "read", provider |-> p, row |-> secret[p]]
             \/ req'[d] = req[d]
    PROVE  Sealing'
<1>1. RowShape' /\ LatestCredentialsKept'
  BY DEF Sealing, RowShape, LatestCredentialsKept
<1>2. secret[p].seal # NoSeal
  BY DEF Sealing, RowShape
<1>3. SealFixesFields'
  BY <1>2 DEF Sealing, SealFixesFields
<1> QED
  BY <1>1, <1>3 DEF Sealing

\* Nothing is stored for a provider any more, and no read waits with nothing.
LEMMA SealingDropped ==
    ASSUME TablesOK, ReadsOK, Sealing, NEW p \in Providers, Disconnect(p)
    PROVE  Sealing'
<1>1. \A q \in Providers : /\ secret'[q] = IF q = p THEN NoSecret ELSE secret[q]
                           /\ latest'[q] = IF q = p THEN NoFields ELSE latest[q]
  BY DEF Disconnect, TablesOK
<1>2. RowShape' /\ LatestCredentialsKept'
  BY <1>1 DEF Sealing, RowShape, LatestCredentialsKept, NoSecret
<1>3. SealFixesFields'
  BY <1>1 DEF Sealing, SealFixesFields, Disconnect, NoSecret, ReadsOK
<1> QED
  BY <1>2, <1>3 DEF Sealing

\* The guarded reseal: the row is still the one that was read, or stays.
LEMMA SealingResealed ==
    ASSUME TablesOK, ReadsOK, Sealing, NEW c \in Requests, EndReadReseal(c),
           \A d \in Requests : req'[d] = Idle \/ req'[d] = req[d]
    PROVE  /\ Sealing'
           /\ secret' \in [Providers -> SecretRow]
           /\ \A q \in Providers : secret'[q] = NoSecret <=> secret[q] = NoSecret
<1> DEFINE p == req[c].provider
           row == req[c].row
<1>1. /\ p \in Providers /\ row \in SecretRow /\ row.fields \in Fields \cup {NoFields}
      /\ row.seal # NoSeal
  BY DEF ReadsOK, EndReadReseal, SecretRow, Sealing, SealFixesFields
<1>2. \E fresh \in Seals : fresh \notin SealsInUse
  BY DEF EndReadReseal
<1>3. CASE secret[p].seal = row.seal /\ secret[p].kid = row.kid
  <2>1. secret[p] = row
    BY <1>3 DEF Sealing, SealFixesFields, EndReadReseal
  <2>2. latest[p] = row.fields
    BY <1>1, <2>1 DEF Sealing, LatestCredentialsKept
  <2>3. latest' = [latest EXCEPT ![p] = row.fields]
    BY <2>2 DEF EndReadReseal, TablesOK
  <2>4. secret' = [secret EXCEPT ![p] = Sealed(row.fields)]
    BY <1>3 DEF EndReadReseal
  <2>5. Sealed(row.fields) \in SecretRow /\ Sealed(row.fields).seal # NoSeal
    BY <1>1, <1>2, SealedType, NewSealIsNew
  <2>6. Sealing'
    BY <1>1, <1>2, <2>3, <2>4, SealingReplaced
  <2>7. secret[p] # NoSecret /\ Sealed(row.fields) # NoSecret
    BY <1>1, <2>1, <2>5 DEF NoSecret
  <2> QED
    BY <1>1, <2>4, <2>5, <2>6, <2>7 DEF TablesOK
<1>4. CASE ~(secret[p].seal = row.seal /\ secret[p].kid = row.kid)
  <2>1. UNCHANGED <<secret, latest>>
    BY <1>4 DEF EndReadReseal
  <2> QED
    BY <2>1, SealingKept DEF TablesOK
<1> QED
  BY <1>3, <1>4

-----------------------------------------------------------------------------
(* SQLite *)

LEMMA SecretsParts == SecretsInv <=> TypeOK /\ Sealing
  BY DEF SecretsInv, Sealing

LEMMA SecretsKept ==
    ASSUME SecretsInv, TypeOK', UNCHANGED <<secret, latest>>,
           \A c \in Requests : req'[c] = Idle \/ req'[c] = req[c] \/ req'[c].op # "read"
    PROVE  SecretsInv'
<1>1. Sealing'
  BY SecretsParts, SealingKept
<1> QED
  BY <1>1 DEF SecretsInv, Sealing

\* Every step keeps the invariant; the reseal of a read is the case that needs
\* its guard.
LEMMA SecretsStep == SecretsInv /\ [Next]_vars => SecretsInv'
<1> SUFFICES ASSUME SecretsInv, [Next]_vars PROVE SecretsInv'
  OBVIOUS
<1>0. TypeOK
  BY DEF SecretsInv
<1>1. ASSUME NEW p \in Providers, SetActive(p) PROVE SecretsInv'
  <2>1. \A r \in StatusRow, b \in BOOLEAN : [r EXCEPT !.active = b] \in StatusRow
    BY DEF StatusRow
  <2>2. TypeOK'
    BY <1>0, <1>1, <2>1 DEF SetActive, TypeOK
  <2> QED
    BY <1>1, <2>2, SecretsKept DEF SetActive
<1>1k. ASSUME NEW p \in Providers, SetActiveKilled(p) PROVE SecretsInv'
  <2>1. \A r \in StatusRow, b \in BOOLEAN : [r EXCEPT !.active = b] \in StatusRow
    BY DEF StatusRow
  <2>2. TypeOK'
    BY <1>0, <1>1k, <2>1, RequestForms DEF SetActiveKilled, TypeOK
  <2>3. \A c \in Requests : req'[c] = Idle
    BY <1>1k DEF SetActiveKilled
  <2> QED
    BY <1>1k, <2>2, <2>3, SecretsKept DEF SetActiveKilled
<1>2. ASSUME NEW p \in Providers, Disconnect(p) PROVE SecretsInv'
  <2>1. NoRow \in StatusRow /\ NoSecret \in SecretRow
    BY ConstantsAssumption DEF NoRow, StatusRow, NoSecret, SecretRow, NoRoot
  <2>2. TypeOK'
    BY <1>0, <1>2, <2>1 DEF Disconnect, TypeOK
  <2>3. Sealing'
    BY <1>0, <1>2, TypedParts, SecretsParts, SealingDropped
  <2> QED
    BY <2>2, <2>3 DEF SecretsInv, Sealing
<1>3. ASSUME NEW c \in Requests, NEW p \in Providers, NEW op \in {"connect", "reverify"},
             Begin(c, op, p)
      PROVE  SecretsInv'
  <2>1. TypeOK'
    BY <1>0, <1>3, RequestForms DEF Begin, TypeOK
  <2>2. \A d \in Requests : req'[d] = req[d] \/ req'[d].op # "read"
    BY <1>0, <1>3 DEF Begin, TypeOK
  <2> QED
    BY <1>3, <2>1, <2>2, SecretsKept DEF Begin
<1>4. ASSUME NEW c \in Requests, NEW p \in Providers, BeginRead(c, p) PROVE SecretsInv'
  <2>1. TypeOK'
    BY <1>0, <1>4, RequestForms DEF BeginRead, TypeOK
  <2>2. \A d \in Requests :
          \/ req'[d] = [op |-> "read", provider |-> p, row |-> secret[p]]
          \/ req'[d] = req[d]
    BY <1>0, <1>4 DEF BeginRead, TypeOK
  <2>3. Sealing'
    BY <1>4, <2>2, SecretsParts, SealingRead DEF BeginRead
  <2> QED
    BY <2>1, <2>3 DEF SecretsInv, Sealing
<1>5. ASSUME NEW c \in Requests, NEW fields \in Fields, ConnectWrite(c, fields)
      PROVE  SecretsInv'
  <2> DEFINE p == req[c].provider
  <2>1. p \in Providers
    BY <1>0, <1>5, ReadingType DEF ConnectWrite
  <2>2. Sealed(fields) \in SecretRow
    BY <1>0, <1>5, TypedParts, SealedType DEF ConnectWrite
  <2>3. status' \in [Providers -> StatusRow]
    BY <1>0, <1>5, <2>1, TypedParts, ConnectedType, MarkType DEF ConnectWrite
  <2>4. TypeOK'
    BY <1>0, <1>5, <2>1, <2>2, <2>3, RequestForms DEF ConnectWrite, TypeOK
  <2>5. \A d \in Requests : req'[d] = Idle \/ req'[d] = req[d]
    BY <1>0, <1>5 DEF ConnectWrite, TypeOK
  <2>6. /\ \E fresh \in Seals : fresh \notin SealsInUse
        /\ secret' = [secret EXCEPT ![p] = Sealed(fields)]
        /\ latest' = [latest EXCEPT ![p] = fields]
    BY <1>5 DEF ConnectWrite
  <2>7. Sealing'
    BY <1>0, <2>1, <2>5, <2>6, TypedParts, SecretsParts, SealingReplaced
  <2> QED
    BY <2>4, <2>7 DEF SecretsInv, Sealing
<1>6. ASSUME NEW c \in Requests, NEW fields \in Fields, ConnectKilled(c, fields)
      PROVE  SecretsInv'
  <2> DEFINE p == req[c].provider
  <2>1. p \in Providers
    BY <1>0, <1>6, ReadingType DEF ConnectKilled
  <2>2. status' \in [Providers -> StatusRow]
    BY <1>0, <1>6, <2>1, TypedParts, ConnectedType DEF ConnectKilled
  <2>3. \A d \in Requests : req'[d] = Idle
    BY <1>6 DEF ConnectKilled
  <2>4. req' \in [Requests -> Request] /\ env' = env
    BY <1>6, RequestForms DEF ConnectKilled
  <2>5. CASE UNCHANGED <<secret, latest>>
    <3>1. TypeOK'
      BY <1>0, <2>2, <2>4, <2>5 DEF TypeOK
    <3> QED
      BY <2>3, <2>5, <3>1, SecretsKept
  <2>6. CASE /\ secret' = [secret EXCEPT ![p] = Sealed(fields)]
             /\ latest' = [latest EXCEPT ![p] = fields]
    <3>1. Sealed(fields) \in SecretRow
      BY <1>0, <1>6, TypedParts, SealedType DEF ConnectKilled
    <3>2. TypeOK'
      BY <1>0, <2>1, <2>2, <2>4, <2>6, <3>1 DEF TypeOK
    <3>3. \E fresh \in Seals : fresh \notin SealsInUse
      BY <1>6 DEF ConnectKilled
    <3>4. Sealing'
      BY <1>0, <2>1, <2>3, <2>6, <3>3, TypedParts, SecretsParts, SealingReplaced
    <3> QED
      BY <3>2, <3>4 DEF SecretsInv, Sealing
  <2> QED
    BY <1>6, <2>5, <2>6 DEF ConnectKilled
<1>7. ASSUME NEW c \in Requests, NEW state \in {"connected", "error"}, Reverified(c, state)
      PROVE  SecretsInv'
  <2>1. req[c].provider \in Providers
    BY <1>0, <1>7, ReadingType DEF Reverified
  <2>2. \A r \in StatusRow : [r EXCEPT !.state = state] \in StatusRow
    BY DEF StatusRow
  <2>3. TypeOK'
    BY <1>0, <1>7, <2>1, <2>2, RequestForms DEF Reverified, TypeOK
  <2>4. \A d \in Requests : req'[d] = Idle \/ req'[d] = req[d]
    BY <1>0, <1>7 DEF Reverified, TypeOK
  <2> QED
    BY <1>7, <2>3, <2>4, SecretsKept DEF Reverified
<1>8. ASSUME NEW c \in Requests, ConnectRejected(c) \/ EndRead(c) PROVE SecretsInv'
  <2>1. TypeOK'
    BY <1>0, <1>8, RequestForms DEF ConnectRejected, EndRead, TypeOK
  <2>2. \A d \in Requests : req'[d] = Idle \/ req'[d] = req[d]
    BY <1>0, <1>8 DEF ConnectRejected, EndRead, TypeOK
  <2> QED
    BY <1>8, <2>1, <2>2, SecretsKept DEF ConnectRejected, EndRead
<1>9. ASSUME NEW c \in Requests, EndReadReseal(c) PROVE SecretsInv'
  <2>1. \A d \in Requests : req'[d] = Idle \/ req'[d] = req[d]
    BY <1>0, <1>9 DEF EndReadReseal, TypeOK
  <2>2. Sealing' /\ secret' \in [Providers -> SecretRow]
    BY <1>0, <1>9, <2>1, TypedParts, SecretsParts, SealingResealed
  <2>3. TypeOK'
    BY <1>0, <1>9, <2>2, RequestForms DEF EndReadReseal, TypeOK
  <2> QED
    BY <2>2, <2>3 DEF SecretsInv, Sealing
<1>10. ASSUME Rotate \/ RotationScript \/ UnsetPrevious PROVE SecretsInv'
  <2>t1. /\ \A e \in Env, b \in BOOLEAN : [e EXCEPT !.confirmed = b] \in Env
         /\ \A e \in Env : [e EXCEPT !.previous = 0] \in Env
    BY ConstantsAssumption DEF Env
  <2>t2. env \in Env /\ MaxRoot \in Nat
    BY <1>0, ConstantsAssumption DEF TypeOK, Env
  <2>t3. ASSUME Rotate PROVE env' \in Env
    BY <2>t2, <2>t3 DEF Rotate, Env
  <2>t4. env' \in Env
    BY <1>10, <2>t1, <2>t2, <2>t3 DEF RotationScript, UnsetPrevious, NoRoot
  <2>1. TypeOK'
    BY <1>0, <1>10, <2>t4, RequestForms DEF Rotate, RotationScript, UnsetPrevious, TypeOK, Env
  <2>2. \A d \in Requests : req'[d] = Idle \/ req'[d] = req[d]
    BY <1>0, <1>10 DEF Rotate, RotationScript, UnsetPrevious, TypeOK
  <2> QED
    BY <1>10, <2>1, <2>2, SecretsKept DEF Rotate, RotationScript, UnsetPrevious
<1>11. CASE UNCHANGED vars
  <2>1. TypeOK'
    BY <1>0, <1>11 DEF vars, TypeOK
  <2> QED
    BY <1>11, <2>1, SecretsKept DEF vars
<1> QED
  BY <1>1, <1>1k, <1>2, <1>3, <1>4, <1>5, <1>6, <1>7, <1>8, <1>9, <1>10, <1>11 DEF Next

\* The tables and requests stay well typed and no ciphertext changes its
\* content, for any number of providers, requests and rotations.
THEOREM SecretsInvariant == Spec => []SecretsInv
  BY SecretsInit, SecretsStep, PTL DEF Spec

\* A read that reseals after a rotation never brings back credentials that an
\* admin has replaced or disconnected in the meantime.
THEOREM ReadNeverClobbers == Spec => []LatestCredentialsKept
<1>1. SecretsInv => LatestCredentialsKept
  BY DEF SecretsInv
<1> QED
  BY <1>1, SecretsInvariant, PTL

\* What a step may do to the roots that open a stored secret.
LEMMA LocksOutStep ==
    ASSUME SecretsInv, [Next]_vars, NEW p \in Providers, Opens(p), ~Opens(p)'
    PROVE  env.previous # NoRoot /\ env.previous' = NoRoot
<1>0. TypeOK
  BY DEF SecretsInv
<1>1. secret'[p] # NoSecret /\ secret'[p].root \notin {env'.current, env'.previous}
  BY DEF Opens
<1>2. CASE UNCHANGED <<secret, env>>
  BY <1>1, <1>2 DEF Opens
<1>3. ASSUME NEW q \in Providers, Disconnect(q) PROVE FALSE
  BY <1>0, <1>1, <1>3 DEF Disconnect, Opens, TypeOK
<1>4. ASSUME NEW q \in Providers, NEW fields \in Fields \cup {NoFields},
             \E fresh \in Seals : fresh \notin SealsInUse,
             secret' = [secret EXCEPT ![q] = Sealed(fields)], env' = env
      PROVE  FALSE
  <2>1. Sealed(fields).root = env.current
    BY <1>0, <1>4, TypedParts, SealedType
  <2> QED
    BY <1>0, <1>1, <1>4, <2>1 DEF Opens, TypeOK
<1>5. ASSUME NEW c \in Requests, NEW fields \in Fields,
             ConnectWrite(c, fields) \/ ConnectKilled(c, fields)
      PROVE  FALSE
  <2>1. req[c].provider \in Providers
    BY <1>0, <1>5, ReadingType DEF ConnectWrite, ConnectKilled
  <2> QED
    BY <1>2, <1>4, <1>5, <2>1 DEF ConnectWrite, ConnectKilled, Opens
<1>6. ASSUME NEW c \in Requests, EndReadReseal(c) PROVE FALSE
  <2>1. req[c].provider \in Providers /\ req[c].row.fields \in Fields \cup {NoFields}
    BY <1>0, <1>6, ReadingType DEF EndReadReseal, SecretRow
  <2> QED
    BY <1>1, <1>4, <1>6, <2>1 DEF EndReadReseal, Opens
<1>7. ASSUME Rotate PROVE FALSE
  <2>1. /\ secret' = secret /\ env'.current = env.current + 1
        /\ env'.previous = env.current
    BY <1>7 DEF Rotate
  <2>2. secret[p].root \in {env.current, env.previous}
    BY <1>1, <2>1 DEF Opens
  <2>3. secret[p].root = NoRoot
    BY <1>1, <1>7, <2>1, <2>2 DEF Rotate
  <2> QED
    BY <1>1, <2>1, <2>3 DEF SecretsInv, RowShape
<1>8. ASSUME RotationScript PROVE FALSE
  BY <1>0, <1>1, <1>8 DEF RotationScript, Opens, TypeOK
<1>9. ASSUME UnsetPrevious PROVE env.previous # NoRoot /\ env.previous' = NoRoot
  BY <1>0, <1>1, <1>9 DEF UnsetPrevious, Opens, TypeOK
<1> QED
  BY <1>1, <1>2, <1>3, <1>5, <1>6, <1>7, <1>8, <1>9
     DEF Next, vars, SetActive, SetActiveKilled, Begin, BeginRead, Reverified, ConnectRejected, EndRead

\* Requests and the first step of a rotation never lock a stored secret out:
\* only unsetting the previous root can.
THEOREM OnlyUnsetLocksSecretsOut == Spec => OnlyUnsetLocksOut
<1>1. SecretsInv /\ [Next]_vars =>
        [\A p \in Providers : Opens(p) /\ ~Opens(p)' =>
            env.previous # NoRoot /\ env.previous' = NoRoot]_vars
  BY LocksOutStep
<1> QED
  BY <1>1, SecretsInvariant, PTL DEF Spec, OnlyUnsetLocksOut

\* The rows, secrets and requests of the SQLite store are of their types.
THEOREM IntegrationsTyped == Spec => []TypeOK
<1>1. SecretsInv => TypeOK
  BY DEF SecretsInv
<1> QED
  BY <1>1, SecretsInvariant, PTL

-----------------------------------------------------------------------------
(* Cloudflare D1 *)

\* A provider has a row and a secret, or neither: the batch of connect and the cascade
\* of disconnect are atomic, and no other statement makes a row.
RowsTogether ==
    \A p \in Providers :
        /\ status[p].state = "none" => status[p] = NoRow
        /\ secret[p] = NoSecret <=> status[p] = NoRow

D1Inv == TypeOK1 /\ Sealing /\ RowsTogether

LEMMA RequestForms1 ==
    /\ Idle \in Request1
    /\ \A op \in {"connect", "reverify", "count", "mark"}, p \in Providers :
         [op |-> op, provider |-> p] \in Request1
    /\ \A p \in Providers, row \in SecretRow :
         [op |-> "read", provider |-> p, row |-> row] \in Request1
  BY DEF Request1, Request, Idle

LEMMA TypedParts1 ==
    ASSUME TypeOK1
    PROVE  /\ TablesOK /\ ReadsOK
           /\ \A c \in Requests : req[c] # Idle => req[c].provider \in Providers
<1>1. \A c \in Requests : req[c] # Idle => req[c].provider \in Providers
  BY DEF TypeOK1, Request1, Request
<1>2. ReadsOK
  BY DEF TypeOK1, Request1, Request, Idle, ReadsOK
<1> QED
  BY <1>1, <1>2 DEF TypeOK1, TablesOK, Env

\* Steps that leave the secrets alone and keep every row that has one.
LEMMA StatusStep ==
    ASSUME D1Inv, UNCHANGED <<secret, latest>>, env' \in Env,
           req' \in [Requests -> Request1],
           \A c \in Requests : req'[c] = Idle \/ req'[c] = req[c] \/ req'[c].op # "read",
           status' \in [Providers -> StatusRow],
           \A p \in Providers :
             /\ status[p] = NoRow => status'[p] = NoRow
             /\ status[p] # NoRow => status'[p].state # "none"
    PROVE  D1Inv'
<1>1. TypeOK1'
  BY DEF D1Inv, TypeOK1, Env
<1>2. Sealing'
  BY SealingKept DEF D1Inv
<1>3. RowsTogether'
  BY DEF D1Inv, RowsTogether, NoRow
<1> QED
  BY <1>1, <1>2, <1>3 DEF D1Inv

\* Steps of a handler that write no table.
LEMMA HandlerStep ==
    ASSUME D1Inv, UNCHANGED <<status, secret, latest>>, env' \in Env,
           req' \in [Requests -> Request1],
           \A c \in Requests : req'[c] = Idle \/ req'[c] = req[c] \/ req'[c].op # "read"
    PROVE  D1Inv'
<1>1. /\ status' \in [Providers -> StatusRow]
      /\ \A p \in Providers : status[p] # NoRow => status[p].state # "none"
  BY DEF D1Inv, TypeOK1, RowsTogether
<1> QED
  BY <1>1, StatusStep

LEMMA ConnectBatchKeeps ==
    ASSUME D1Inv, NEW c \in Requests, NEW fields \in Fields, ConnectBatch(c, fields)
    PROVE  D1Inv'
<1> DEFINE p == req[c].provider
<1>0. TypeOK1 /\ TablesOK /\ ReadsOK /\ Sealing /\ RowsTogether
  BY TypedParts1 DEF D1Inv
<1>1. PICK q \in Providers : q = p
  BY <1>0, TypedParts1 DEF ConnectBatch, Idle
<1>2. /\ \E fresh \in Seals : fresh \notin SealsInUse
      /\ status' = [status EXCEPT ![q].state = "connected"]
      /\ secret' = [secret EXCEPT ![q] = Sealed(fields)]
      /\ latest' = [latest EXCEPT ![q] = fields]
      /\ req' = [req EXCEPT ![c] = [op |-> "count", provider |-> q]]
      /\ env' = env
  BY <1>1 DEF ConnectBatch, Connected, Await
<1>3. /\ Sealed(fields) \in SecretRow /\ Sealed(fields).seal # NoSeal
  BY <1>0, <1>2, SealedType, NewSealIsNew
<1>4. \A x \in Providers : status'[x] = IF x = q THEN [status[q] EXCEPT !.state = "connected"]
                                        ELSE status[x]
  BY <1>0, <1>2 DEF TypeOK1
<1>5. status' \in [Providers -> StatusRow] /\ status'[q].state = "connected"
  <2> DEFINE row == [status[q] EXCEPT !.state = "connected"]
  <2>1. row \in StatusRow /\ row.state = "connected"
    BY <1>0 DEF TypeOK1, StatusRow
  <2>2. status' = [status EXCEPT ![q] = row]
    BY <1>2
  <2> HIDE DEF row
  <2> QED
    BY <1>0, <2>1, <2>2 DEF TypeOK1
<1>6. TypeOK1'
  BY <1>0, <1>2, <1>3, <1>5, RequestForms1 DEF TypeOK1
<1>7. Sealing'
  <2>1. \A d \in Requests : req'[d] = req[d] \/ req'[d].op # "read"
    BY <1>0, <1>2 DEF TypeOK1
  <2> QED
    BY <1>0, <1>2, <2>1, SealingReplaced
<1>8. RowsTogether'
  <2>1. Sealed(fields) # NoSecret
    BY <1>3 DEF NoSecret
  <2>2. status'[q].state # "none" /\ status'[q] # NoRow
    BY <1>5 DEF NoRow
  <2>3. \A x \in Providers : secret'[x] = IF x = q THEN Sealed(fields) ELSE secret[x]
    BY <1>0, <1>2 DEF TypeOK1
  <2> QED
    BY <1>0, <1>4, <2>1, <2>2, <2>3 DEF RowsTogether
<1> QED
  BY <1>6, <1>7, <1>8 DEF D1Inv

\* The statement changes the row of a provider that has one, or none.
LEMMA RowStep ==
    ASSUME D1Inv, NEW c \in Requests, NEW p \in Providers, NEW row \in StatusRow,
           row.state # "none",
           status' = status \/ (status[p] # NoRow /\ status' = [status EXCEPT ![p] = row]),
           req' = [req EXCEPT ![c] = Idle], UNCHANGED <<secret, env, latest>>
    PROVE  D1Inv'
<1>1. /\ status \in [Providers -> StatusRow]
      /\ \A x \in Providers : status[x] # NoRow => status[x].state # "none"
  BY DEF D1Inv, TypeOK1, RowsTogether
<1>2. /\ status' \in [Providers -> StatusRow]
      /\ \A x \in Providers : /\ status[x] = NoRow => status'[x] = NoRow
                             /\ status[x] # NoRow => status'[x].state # "none"
  BY <1>1
<1>3. /\ env' \in Env /\ req' \in [Requests -> Request1]
      /\ \A d \in Requests : req'[d] = Idle \/ req'[d] = req[d]
  BY RequestForms1 DEF D1Inv, TypeOK1, Env
<1> QED
  BY <1>2, <1>3, StatusStep

LEMMA StatusStatements ==
    ASSUME D1Inv, NEW c \in Requests,
           \/ MarkActive(c)
           \/ \E p \in Providers : ClearActive(c, p)
           \/ \E x \in {"connected", "error"} : Reverified1(c, x)
    PROVE  D1Inv'
<1>0. /\ TypeOK1 /\ env \in Env /\ status \in [Providers -> StatusRow]
      /\ \A p \in Providers : status[p] # NoRow => status[p].state # "none"
  BY TypedParts1 DEF D1Inv, TablesOK, RowsTogether
<1>1. CASE MarkActive(c)
  <2>1. PICK p \in Providers : p = req[c].provider
    BY <1>0, <1>1, TypedParts1 DEF MarkActive, Idle
  <2> DEFINE row == [status[p] EXCEPT !.active = TRUE]
  <2>2. /\ status' = IF status[p].state = "connected" THEN [status EXCEPT ![p] = row] ELSE status
        /\ req' = [req EXCEPT ![c] = Idle]
        /\ UNCHANGED <<secret, env, latest>>
    BY <1>1, <2>1 DEF MarkActive, Done
  <2>3. row \in StatusRow /\ row.state = status[p].state
    BY <1>0 DEF StatusRow
  <2> HIDE DEF row
  <2>4. CASE status[p].state = "connected"
    <3>1. status[p] # NoRow /\ row.state # "none"
      BY <2>3, <2>4 DEF NoRow
    <3> QED
      BY <2>2, <2>3, <2>4, <3>1, RowStep
  <2>5. CASE status[p].state # "connected"
    BY <1>0, <2>2, <2>5, RequestForms1, HandlerStep DEF TypeOK1
  <2> QED
    BY <2>4, <2>5
<1>2. ASSUME NEW p \in Providers, ClearActive(c, p) PROVE D1Inv'
  <2>1. /\ status' = [x \in Providers |-> IF DomainOf[x] = DomainOf[p]
                       THEN [status[x] EXCEPT !.active = FALSE] ELSE status[x]]
        /\ req' = [req EXCEPT ![c] = [op |-> "mark", provider |-> p]]
        /\ UNCHANGED <<secret, env, latest>>
    BY <1>2 DEF ClearActive, Await
  <2>2. ASSUME NEW x \in Providers
        PROVE  /\ status'[x] \in StatusRow
               /\ status[x] = NoRow => status'[x] = NoRow
               /\ status[x] # NoRow => status'[x].state # "none"
    <3> DEFINE row == [status[x] EXCEPT !.active = FALSE]
    <3>1. row \in StatusRow /\ row.state = status[x].state /\ row.active = FALSE
      BY <1>0 DEF StatusRow
    <3>2. status[x] = NoRow => row = NoRow
      <4>1. \A r, q \in StatusRow : r.state = q.state /\ r.active = q.active => r = q
        BY DEF StatusRow
      <4>2. NoRow \in StatusRow /\ NoRow.active = FALSE
        BY DEF NoRow, StatusRow
      <4> HIDE DEF row
      <4> QED
        BY <3>1, <4>1, <4>2
    <3>3. status'[x] = row \/ status'[x] = status[x]
      BY <2>1
    <3> HIDE DEF row
    <3> QED
      BY <1>0, <3>1, <3>2, <3>3
  <2>3. status' \in [Providers -> StatusRow]
    BY <2>1, <2>2
  <2>4. /\ req' \in [Requests -> Request1]
        /\ \A d \in Requests : req'[d] = req[d] \/ req'[d].op # "read"
    BY <1>0, <2>1, RequestForms1 DEF TypeOK1
  <2> QED
    BY <1>0, <2>1, <2>2, <2>3, <2>4, StatusStep
<1>3. ASSUME NEW x \in {"connected", "error"}, Reverified1(c, x) PROVE D1Inv'
  <2>1. PICK p \in Providers : p = req[c].provider
    BY <1>0, <1>3, TypedParts1 DEF Reverified1, Reverified, Idle
  <2> DEFINE row == [status[p] EXCEPT !.state = x]
  <2>2. /\ status' = IF status[p] = NoRow THEN status ELSE [status EXCEPT ![p] = row]
        /\ req' = [req EXCEPT ![c] = Idle]
        /\ UNCHANGED <<secret, env, latest>>
    BY <1>3, <2>1 DEF Reverified1, Reverified
  <2>3. row \in StatusRow /\ row.state # "none"
    BY <1>0 DEF StatusRow
  <2> HIDE DEF row
  <2> QED
    BY <2>2, <2>3, RowStep
<1> QED
  BY <1>1, <1>2, <1>3

LEMMA HandlerStatements ==
    ASSUME D1Inv,
           \/ \E c \in Requests :
                \/ ConnectRejected(c) \/ CountActive(c) \/ EndRead(c) \/ WorkerDies(c)
                \/ \E p \in Providers : Begin(c, "connect", p) \/ Begin(c, "reverify", p)
           \/ Rotate
    PROVE  D1Inv'
<1>0. TypeOK1 /\ env \in Env
  BY TypedParts1 DEF D1Inv, TablesOK
<1>1. ASSUME NEW c \in Requests,
             \/ ConnectRejected(c) \/ CountActive(c) \/ EndRead(c) \/ WorkerDies(c)
             \/ \E p \in Providers : Begin(c, "connect", p) \/ Begin(c, "reverify", p)
      PROVE  D1Inv'
  <2>1. UNCHANGED <<status, secret, env, latest>>
    BY <1>1 DEF ConnectRejected, CountActive, EndRead, WorkerDies, Begin
  <2>2. PICK r : /\ req' = [req EXCEPT ![c] = r]
                 /\ \/ r = Idle
                    \/ \E p \in Providers, op \in {"connect", "reverify", "mark"} :
                         r = [op |-> op, provider |-> p]
    <3>1. CASE CountActive(c)
      <4>1. req[c].provider \in Providers
        BY <1>0, <3>1, TypedParts1 DEF CountActive, Idle
      <4> QED
        BY <3>1, <4>1 DEF CountActive, Await, Done
    <3> QED
      BY <1>1, <3>1 DEF ConnectRejected, EndRead, WorkerDies, Begin, Done
  <2>3. r \in Request1 /\ (r = Idle \/ r.op # "read")
    BY <2>2, RequestForms1
  <2> QED
    BY <1>0, <2>1, <2>2, <2>3, HandlerStep DEF TypeOK1
<1>2. CASE Rotate
  <2>1. env' \in Env
    BY <1>0, <1>2, ConstantsAssumption DEF Rotate, Env
  <2> QED
    BY <1>2, <2>1, RequestForms1, HandlerStep DEF Rotate
<1> QED
  BY <1>1, <1>2

LEMMA ReadStatements ==
    ASSUME D1Inv, NEW c \in Requests,
           EndReadReseal(c) \/ \E p \in Providers : FindSecret(c, p)
    PROVE  D1Inv'
<1>0. TypeOK1 /\ TablesOK /\ ReadsOK /\ Sealing /\ RowsTogether
  BY TypedParts1 DEF D1Inv
<1>1. CASE EndReadReseal(c)
  <2>1. \A d \in Requests : req'[d] = Idle \/ req'[d] = req[d]
    BY <1>0, <1>1 DEF EndReadReseal, TypeOK1
  <2>2. /\ Sealing' /\ secret' \in [Providers -> SecretRow]
        /\ \A q \in Providers : secret'[q] = NoSecret <=> secret[q] = NoSecret
    BY <1>0, <1>1, <2>1, SealingResealed
  <2>3. TypeOK1'
    BY <1>0, <1>1, <2>2, RequestForms1 DEF EndReadReseal, TypeOK1
  <2>4. RowsTogether'
    BY <1>0, <1>1, <2>2 DEF EndReadReseal, RowsTogether
  <2> QED
    BY <2>2, <2>3, <2>4 DEF D1Inv
<1>2. ASSUME NEW p \in Providers, FindSecret(c, p) PROVE D1Inv'
  <2>1. \A d \in Requests :
          \/ req'[d] = [op |-> "read", provider |-> p, row |-> secret[p]]
          \/ req'[d] = req[d]
    BY <1>0, <1>2 DEF FindSecret, TypeOK1
  <2>2. Sealing'
    BY <1>0, <1>2, <2>1, SealingRead DEF FindSecret
  <2>3. TypeOK1'
    BY <1>0, <1>2, RequestForms1 DEF FindSecret, TypeOK1
  <2>4. RowsTogether'
    BY <1>0, <1>2 DEF FindSecret, RowsTogether
  <2> QED
    BY <2>2, <2>3, <2>4 DEF D1Inv
<1> QED
  BY <1>1, <1>2

LEMMA DisconnectKeeps ==
    ASSUME D1Inv, NEW p \in Providers, Disconnect(p)
    PROVE  D1Inv'
<1>0. TypeOK1 /\ TablesOK /\ ReadsOK /\ Sealing /\ RowsTogether
  BY TypedParts1 DEF D1Inv
<1>1. NoRow \in StatusRow /\ NoSecret \in SecretRow
  BY ConstantsAssumption DEF NoRow, StatusRow, NoSecret, SecretRow, NoRoot
<1>2. TypeOK1'
  BY <1>0, <1>1 DEF Disconnect, TypeOK1
<1>3. Sealing'
  BY <1>0, SealingDropped
<1>4. RowsTogether'
  BY <1>0 DEF Disconnect, RowsTogether, TypeOK1
<1> QED
  BY <1>2, <1>3, <1>4 DEF D1Inv

LEMMA D1Step ==
    ASSUME D1Inv, [Next1]_vars
    PROVE  D1Inv'
<1>1. CASE UNCHANGED vars
  BY <1>1, HandlerStep, TypedParts1 DEF vars, D1Inv, TypeOK1, TablesOK
<1> QED
  BY <1>1, ConnectBatchKeeps, StatusStatements, HandlerStatements, ReadStatements,
     DisconnectKeeps DEF Next1

LEMMA D1Init == Init => D1Inv
<1> SUFFICES ASSUME Init PROVE D1Inv
  OBVIOUS
<1>1. SecretsInv
  BY SecretsInit
<1>2. TypeOK1
  BY <1>1, RequestForms1 DEF SecretsInv, TypeOK, TypeOK1, Init
<1>3. RowsTogether
  BY DEF Init, RowsTogether
<1> QED
  BY <1>1, <1>2, <1>3, SecretsParts DEF D1Inv

\* The tables and the awaited statements are of their types, and a provider's status and
\* secret come and go together, wherever a worker dies.
THEOREM D1Invariant == Spec1 => []D1Inv
  BY D1Init, D1Step, PTL DEF Spec1

\* "We never want a window where it shows 'connected' while the secret is still missing
\* (or, worse, vice-versa)" (integrations-d1.ts): for any number of providers, handlers
\* and credentials.
THEOREM ConnectedKeepsSecret == Spec1 => []ConnectedHasSecret
<1>1. D1Inv => ConnectedHasSecret
  BY DEF D1Inv, RowsTogether, ConnectedHasSecret, NoRow
<1> QED
  BY <1>1, D1Invariant, PTL

\* The guarded reseal on D1 neither clobbers what was connected since its read began
\* nor revives what was disconnected, though every statement is awaited.
THEOREM ReadNeverClobbersD1 == Spec1 => []LatestCredentialsKept
<1>1. D1Inv => LatestCredentialsKept
  BY DEF D1Inv, Sealing
<1> QED
  BY <1>1, D1Invariant, PTL
=============================================================================
