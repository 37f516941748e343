----------------------------- MODULE RateLimits -----------------------------
(***************************************************************************)
(* What may happen only so often (rate-limit-repository-factory.ts,        *)
(* d1-rate-limit-part.ts): forms and API calls, failed logins, and the use *)
(* of an OAuth state, which is a rate limit of one (integrations/oauth/    *)
(* replay.ts).  On SQLite reading a window and writing it are one step; on *)
(* D1 they are two awaited statements.                                     *)
(***************************************************************************)
EXTENDS Naturals, FiniteSets

CONSTANTS
    Requests,
    Forms,      \* keys of checkRateLimit: contact, newsletter, API
    Logins,     \* keys of the login page, which counts failures only
    Nonces,     \* of OAuth states; all are issued at time 0
    Max,        \* the limit of a form and of a login
    Window,     \* windowMs, and the life of a state (DEFAULT_OAUTH_STATE_TTL_MS)
    MaxNow      \* the last time the model looks at

Keys     == Forms \cup Logins \cup Nonces
Limit(k) == IF k \in Nonces THEN 1 ELSE Max

VARIABLES
    backend,    \* "sqlite" or "d1"
    now,        \* Date.now()
    windows,    \* rate_limits; count 0 stands for no row
    req,        \* what each request waits for
    used,       \* history: for each key, the grants or failures since its window was
                \* begun by a request that knew the last one
    raced,      \* history: keys written since then by a request that had read the
                \* window before another wrote it
    firstUse    \* history: the clock of the earliest claim that was granted; Never
                \* before there is one

vars == <<backend, now, windows, req, used, raced, firstUse>>

Never == MaxNow + 1

\* at: "guess" (a password is being verified), "verified" (an OAuth state has been),
\* or the statement that is next; seen: the clock the window was judged by; since:
\* the clock the state was judged by; stale: history, another request wrote the
\* window since this one read it.
Idle == [at |-> "idle", key |-> CHOOSE k \in Keys : TRUE, seen |-> 0, since |-> 0,
         stale |-> FALSE]

TypeOK ==
    /\ backend \in {"sqlite", "d1"}
    /\ now \in 0..MaxNow
    /\ windows \in [Keys -> [count : Nat, start : 0..MaxNow]]
    /\ req \in [Requests -> [at : {"idle", "guess", "verified", "reset", "count"}, key : Keys,
                             seen : 0..MaxNow, since : 0..MaxNow, stale : BOOLEAN]]
    /\ used \in [Keys -> Nat]
    /\ raced \subseteq Keys
    /\ firstUse \in [Nonces -> 0..Never]

-----------------------------------------------------------------------------
(* The window *)

\* Mutant: the window is over one tick early.
Over_early(k) == windows[k].count = 0 \/ now - windows[k].start >= Window

\* !row || now - windowStartMs > windowMs
Over(k) == windows[k].count = 0 \/ now - windows[k].start > Window

\* peekRateLimit
Free(k) == Over(k) \/ windows[k].count < Limit(k)

\* resetRateLimitWindow: the window begins when the request read the clock.
Reset(k, seen, stale) ==
    /\ windows' = [windows EXCEPT ![k] = [count |-> 1, start |-> seen]]
    /\ used' = [used EXCEPT ![k] = IF stale THEN @ + 1 ELSE 1]
    /\ raced' = IF stale THEN raced \cup {k} ELSE raced \ {k}

\* Mutant: the limit is checked, but what passes is not counted.
Increment_lost(k, stale) ==
    /\ used' = [used EXCEPT ![k] = @ + 1]
    /\ raced' = IF stale THEN raced \cup {k} ELSE raced
    /\ UNCHANGED windows

\* incrementRateLimitWindow: SET count = count + 1
Increment(k, stale) ==
    /\ windows' = [windows EXCEPT ![k].count = @ + 1]
    /\ used' = [used EXCEPT ![k] = @ + 1]
    /\ raced' = IF stale THEN raced \cup {k} ELSE raced

\* A callback whose claim is granted goes on to exchange the code.
Accept(k, seen) ==
    firstUse' = [n \in Nonces |-> IF n = k /\ seen < firstUse[n] THEN seen ELSE firstUse[n]]

\* SQLite, checkRateLimit granted or recordFailedAttempt.
Take(r, k) ==
    /\ backend = "sqlite"
    /\ IF Over(k) THEN Reset(k, now, FALSE) ELSE Increment(k, FALSE)
    /\ Accept(k, now)
    /\ req' = [req EXCEPT ![r] = Idle]
    /\ UNCHANGED <<backend, now>>

\* D1, the SELECT of either.
Read(r, k) ==
    /\ backend = "d1"
    /\ req' = [req EXCEPT ![r] = [Idle EXCEPT !.at = IF Over(k) THEN "reset" ELSE "count",
                                              !.key = k, !.seen = now, !.since = req[r].since]]
    /\ UNCHANGED <<backend, now, windows, used, raced, firstUse>>

\* D1, the INSERT ... ON CONFLICT or the UPDATE, whatever the row is by now.
Write(r) ==
    LET k == req[r].key
    IN /\ \/ req[r].at = "reset" /\ Reset(k, req[r].seen, req[r].stale)
          \/ req[r].at = "count" /\ Increment(k, req[r].stale)
       /\ Accept(k, req[r].seen)
       /\ req' = [q \in Requests |->
                    IF q = r THEN Idle
                    ELSE IF req[q].key = k /\ req[q].at \in {"reset", "count"}
                           THEN [req[q] EXCEPT !.stale = TRUE] ELSE req[q]]
       /\ UNCHANGED <<backend, now>>

-----------------------------------------------------------------------------
(* Its users *)

\* A form, the newsletter or an API call asks checkRateLimit; a refusal changes
\* nothing.
Check(r, k) ==
    /\ req[r].at = "idle"
    /\ Free(k)
    /\ Take(r, k) \/ Read(r, k)

Goto(r, at, k) == req' = [req EXCEPT ![r] = [Idle EXCEPT !.at = at, !.key = k, !.since = now]]

\* Mutant: the login page does not ask.
PeekLogin_unasked(r, k) ==
    /\ req[r].at = "idle"
    /\ Goto(r, "guess", k)
    /\ UNCHANGED <<backend, now, windows, used, raced, firstUse>>

\* Login asks peekRateLimit, then awaits the verification of the password.
PeekLogin(r, k) ==
    /\ req[r].at = "idle"
    /\ Free(k)
    /\ Goto(r, "guess", k)
    /\ UNCHANGED <<backend, now, windows, used, raced, firstUse>>

\* The password is wrong: recordFailedAttempt, whatever the count is by now.
Fail(r) ==
    /\ req[r].at = "guess"
    /\ Take(r, req[r].key) \/ Read(r, req[r].key)

\* Mutant: the expiry of the state is not compared.
VerifyState_unbounded(r, n) ==
    /\ req[r].at = "idle"
    /\ Goto(r, "verified", n)
    /\ UNCHANGED <<backend, now, windows, used, raced, firstUse>>

\* The OAuth callback, verifyOAuthState: a state is refused when nowMs > e.
VerifyState(r, n) ==
    /\ req[r].at = "idle"
    /\ now <= Window
    /\ Goto(r, "verified", n)
    /\ UNCHANGED <<backend, now, windows, used, raced, firstUse>>

\* consumeOAuthStateNonce: checkRateLimit with a limit of one.
ClaimNonce(r) ==
    /\ req[r].at = "verified"
    /\ Free(req[r].key)
    /\ Take(r, req[r].key) \/ Read(r, req[r].key)

\* A request ends: the password was right, the claim was refused, or it was cut off.
End(r) ==
    /\ req[r].at # "idle"
    /\ req' = [req EXCEPT ![r] = Idle]
    /\ UNCHANGED <<backend, now, windows, used, raced, firstUse>>

Tick ==
    /\ now < MaxNow
    /\ now' = now + 1
    /\ UNCHANGED <<backend, windows, req, used, raced, firstUse>>

Init ==
    /\ backend \in {"sqlite", "d1"}
    /\ now = 0
    /\ windows = [k \in Keys |-> [count |-> 0, start |-> 0]]
    /\ req = [r \in Requests |-> Idle]
    /\ used = [k \in Keys |-> 0]
    /\ raced = {}
    /\ firstUse = [n \in Nonces |-> Never]

Next ==
    \/ \E r \in Requests :
         \/ \E k \in Forms : Check(r, k)
         \/ \E k \in Logins : PeekLogin(r, k)
         \/ \E n \in Nonces : VerifyState(r, n)
         \/ Fail(r) \/ ClaimNonce(r) \/ Write(r) \/ End(r)
    \/ Tick

Spec == Init /\ [][Next]_vars

-----------------------------------------------------------------------------
(* Properties *)

\* In a window no more than Max requests pass a form's limit, and no more than
\* Max - 1 wrong passwords are tried on a login besides those that were being
\* verified at once, on either backend; only requests that read the window before
\* another one's write and wrote it afterwards, on D1, get past this.
LimitHolds ==
    \A k \in (Forms \cup Logins) \ raced :
        used[k] <= IF k \in Forms THEN Max ELSE Max - 1 + Cardinality(Requests)

\* replay.ts: "the record outlives any state that could still verify".  A nonce is
\* accepted a second time only by a request that overlapped the first claim on D1,
\* or that took longer from judging the state to claiming it than the whole flow
\* had taken, from the issue of the state to its first use.
StateUsedOnce ==
    [][\A n \in Nonces, r \in Requests :
         /\ firstUse[n] # Never
         /\ used'[n] # used[n] \/ windows'[n] # windows[n]
         /\ req[r].key = n /\ req[r].at # "idle" /\ req'[r] = Idle
         => \/ req[r].stale
            \/ now - req[r].since > firstUse[n]]_vars
=============================================================================
