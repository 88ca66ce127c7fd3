------------------------------- MODULE ApiGate ------------------------------
(***************************************************************************)
(* What a request passes before its handler: the limiter of its address,   *)
(* the bearer token and the scope it needs (internal/api/auth, tokenstore, *)
(* ratelimit), while the operator rotates tokens and the cleanup loop      *)
(* forgets idle addresses.  The token set is an atomic snapshot that the   *)
(* middleware loads twice, once to see whether any token is configured and *)
(* once to look the request's token up.                                    *)
(***************************************************************************)
EXTENDS Naturals, FiniteSets

CONSTANTS
  Requests, Addresses,
  Tokens,           \* token values a client may send
  TokenSets,        \* the token sets an operator installs: Tokens -> scope
  Loopback,         \* the listener is loopback-only, or NIAC_AUTH_DISABLED
  MaxLimiters,      \* MaxRateLimiterCount
  Burst,            \* tokens of a fresh bucket
  MaxRotations      \* bound on reloads

(* tokenstore.TokenScope, 0 for no token *)
ReadOnly  == 1
ReadWrite == 2
Admin     == 3

(* What the proofs assume of the constants. *)
Constants ==
  /\ Tokens # {} /\ TokenSets \subseteq [Tokens -> 0 .. Admin]
  /\ MaxLimiters \in Nat \ {0} /\ Burst \in Nat

NoLimiter == [left |-> 0, seen |-> 0]
Fresh     == [phase |-> "new", token |-> CHOOSE t \in Tokens : TRUE, safe |-> TRUE,
              admin |-> FALSE, scope |-> 0, during |-> {}]

VARIABLES
  tokens,     \* TokenStore.cur
  rotations,
  request,    \* each request: where it is, what it asks, the token sets of its lifetime
  limiters,   \* RateLimiter.limiters: address -> bucket and last use; seen = 0 when absent
  now         \* uses of the limiter so far: the order of lastSeen

vars == <<tokens, rotations, request, limiters, now>>

Init ==
  /\ tokens \in TokenSets
  /\ rotations = 0
  /\ request = [r \in Requests |-> Fresh]
  /\ limiters = [a \in Addresses |-> NoLimiter]
  /\ now = 0

Known == {a \in Addresses : limiters[a].seen > 0}

Configured(snap) == \E t \in Tokens : snap[t] > 0

(* Replace, from ReloadTokens: one store of a whole new set. *)
Replace ==
  /\ rotations < MaxRotations
  /\ rotations' = rotations + 1
  /\ tokens' \in TokenSets
  /\ request' = [r \in Requests |->
                   IF request[r].phase \in {"new", "served", "refused"} THEN request[r]
                   ELSE [request[r] EXCEPT !.during = @ \cup {tokens'}]]
  /\ UNCHANGED <<limiters, now>>

(* GetLimiter: the bucket of a known address, or a fresh one, evicting the   *)
(* least recently seen address when there are too many; the bucket refills   *)
(* with time, and Allow takes a token from it.                               *)
evictOldestLimiter ==
  LET oldest == CHOOSE a \in Known : \A b \in Known : limiters[a].seen =< limiters[b].seen
  IN  [limiters EXCEPT ![oldest] = NoLimiter]

Least(m, n) == IF m < n THEN m ELSE n

GetLimiter(a, refill) ==
  LET kept == IF a \notin Known /\ Cardinality(Known) >= MaxLimiters
                THEN evictOldestLimiter ELSE limiters
  IN  [kept EXCEPT ![a] = [left |-> IF a \in Known THEN Least(Burst, limiters[a].left + refill) ELSE Burst,
                           seen |-> now + 1]]

(* Middleware: rate limit first. *)
allow(r, a, refill, t, safe, admin) ==
  /\ request[r].phase = "new"
  /\ now' = now + 1
  /\ LET found == GetLimiter(a, refill)
     IN  /\ limiters' = [found EXCEPT ![a].left = IF @ > 0 THEN @ - 1 ELSE 0]
         /\ request' = [request EXCEPT ![r] =
              [phase |-> IF found[a].left > 0 THEN "limited" ELSE "refused",
               token |-> t, safe |-> safe, admin |-> admin, scope |-> 0, during |-> {tokens}]]
  /\ UNCHANGED <<tokens, rotations>>

(* ... then whether any token is configured: none on a loopback listener     *)
(* serves the request as an administrator's.                                 *)
lenTokens(r) ==
  /\ request[r].phase = "limited"
  /\ request' = [request EXCEPT
       ![r].phase = IF Configured(tokens) THEN "configured"
                    ELSE IF Loopback THEN "authorized" ELSE "refused",
       ![r].scope = IF ~Configured(tokens) /\ Loopback THEN Admin ELSE 0]
  /\ UNCHANGED <<tokens, rotations, limiters, now>>

RequiredScopeForMethod(safe) == IF safe THEN ReadOnly ELSE ReadWrite

(* ... then the token, in whatever set is installed by now. *)
Lookup(r) ==
  /\ request[r].phase = "configured"
  /\ LET scope == tokens[request[r].token]
     IN  request' = [request EXCEPT
           ![r].phase = IF scope > 0 /\ scope >= RequiredScopeForMethod(request[r].safe)
                          THEN "authorized" ELSE "refused",
           ![r].scope = scope]
  /\ UNCHANGED <<tokens, rotations, limiters, now>>

(* A mutant of AdminProtect that lets every authenticated writer through. *)
AdminForWriters(r) ==
  /\ request[r].phase = "authorized"
  /\ request' = [request EXCEPT ![r].phase =
       IF request[r].admin /\ request[r].scope < ReadOnly THEN "refused" ELSE "served"]
  /\ UNCHANGED <<tokens, rotations, limiters, now>>

(* AdminProtect: safe methods pass; others need the stashed admin scope.     *)
AdminProtect(r) ==
  /\ request[r].phase = "authorized"
  /\ request' = [request EXCEPT ![r].phase =
       IF request[r].admin /\ ~request[r].safe /\ request[r].scope < Admin
         THEN "refused" ELSE "served"]
  /\ UNCHANGED <<tokens, rotations, limiters, now>>

(* CleanupStale: addresses not seen for an hour; any may be. *)
CleanupStale ==
  /\ \E idle \in SUBSET Known :
       /\ idle # {}
       /\ limiters' = [a \in Addresses |-> IF a \in idle THEN NoLimiter ELSE limiters[a]]
  /\ UNCHANGED <<tokens, rotations, request, now>>

Next ==
  \/ Replace
  \/ CleanupStale
  \/ \E r \in Requests :
       \/ \E a \in Addresses, refill \in 0 .. 1, t \in Tokens, safe, admin \in BOOLEAN :
            allow(r, a, refill, t, safe, admin)
       \/ lenTokens(r) \/ Lookup(r) \/ AdminProtect(r)

Spec == Init /\ [][Next]_vars

TypeOK ==
  /\ tokens \in [Tokens -> 0 .. Admin]
  /\ \A r \in Requests :
       request[r].phase \in {"new", "limited", "configured", "authorized", "served", "refused"}
  /\ limiters \in [Addresses -> [left : 0 .. Burst, seen : Nat]]

Needed(q) == IF q.safe THEN ReadOnly ELSE IF q.admin THEN Admin ELSE ReadWrite

(* A request that reached its handler was allowed there by a token set that  *)
(* was installed at some moment of the request, taken whole: a rotation      *)
(* between the middleware's two looks at the store never combines two sets   *)
(* into a permission neither gives.  And the limiter table is bounded.       *)
GrantWasCurrent ==
  /\ \A r \in Requests :
       request[r].phase = "served" =>
         \E snap \in request[r].during :
           \/ snap[request[r].token] >= Needed(request[r])
           \/ Loopback /\ ~Configured(snap)
  /\ Cardinality(Known) =< MaxLimiters
=============================================================================
