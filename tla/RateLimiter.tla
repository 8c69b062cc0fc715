---------------------------- MODULE RateLimiter ----------------------------
(***************************************************************************)
(* The middleware that counts a caller's requests in a Redis key, in a     *)
(* window that starts with the first of them.  Another module says which   *)
(* requests it guards and what they do once they are let through.          *)
(***************************************************************************)
EXTENDS Naturals

CONSTANTS
    Limit,   \* requests let through in a window (5 for /auth)
    MaxHits  \* bound on the requests counted in a window

ASSUME LimitAssumption == Limit \in Nat \ {0} /\ MaxHits \in Nat

VARIABLES
    count,    \* the key's value; 0 if there is no key
    ttl,      \* whether the key has a lifetime
    outlived, \* whether the key is older than a window
    lost,     \* history: whether the key's EXPIRE did not happen
    wronged   \* history: whether a key that outlived its window, although
              \* its EXPIRE happened, has refused a request

limiterVars == <<count, ttl, outlived, lost, wronged>>

LimiterTypeOK ==
    /\ count \in Nat
    /\ ttl \in BOOLEAN /\ outlived \in BOOLEAN
    /\ lost \in BOOLEAN /\ wronged \in BOOLEAN

LimiterInit ==
    /\ count = 0
    /\ ttl = FALSE /\ outlived = FALSE
    /\ lost = FALSE /\ wronged = FALSE

BugAtLimit(n) == n = Limit + 1
\* The request that makes the key gives it its lifetime.
StartsWindow(n) == n = 1

\* INCR: the request goes on to EXPIRE, is let through, or gets a 429.
Incr ==
    /\ count < MaxHits
    /\ count' = count + 1

LetThrough == Incr /\ count' <= Limit /\ UNCHANGED <<ttl, outlived, lost, wronged>>

Refuse ==
    /\ Incr /\ count' > Limit
    /\ wronged' = (wronged \/ (outlived /\ ~lost))
    /\ UNCHANGED <<ttl, outlived, lost>>

\* Redis fails: the request is let through.  The key is counted all the same
\* if only the answer is lost, and then nobody gives it a lifetime.
FailOpen ==
    \/ UNCHANGED limiterVars
    \/ /\ Incr
       /\ lost' = (lost \/ StartsWindow(count'))
       /\ UNCHANGED <<ttl, outlived, wronged>>

\* The error of EXPIRE is not looked at.
Expire ==
    /\ ttl' = TRUE
    /\ UNCHANGED <<count, outlived, lost, wronged>>
ExpireLost ==
    /\ lost' = TRUE
    /\ UNCHANGED <<count, ttl, outlived, wronged>>

\* A window's time passes.  Redis drops the key, if it has a lifetime.
WindowPasses ==
    /\ count > 0
    /\ IF ttl
         THEN /\ count' = 0 /\ ttl' = FALSE
              /\ outlived' = FALSE /\ lost' = FALSE
         ELSE outlived' = TRUE /\ UNCHANGED <<count, ttl, lost>>
    /\ UNCHANGED wronged

\* "RateLimit blocks a caller once they cross limit requests within window"
\* (ratelimit.go:30): nobody is refused for the requests of an earlier window,
\* unless the key's EXPIRE was lost, which nothing makes up for.
RefusedForThisWindow == ~wronged
=============================================================================
