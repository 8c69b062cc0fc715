------------------------------ MODULE Accounts ------------------------------
(***************************************************************************)
(* Registration, login and the rotation of refresh tokens: one e-mail      *)
(* address and its account, and the devices that are logged in to it, all  *)
(* behind one IP address.  A device may send its refresh token twice, from *)
(* two tabs or once more after a timeout.                                  *)
(***************************************************************************)
EXTENDS RateLimiter, FiniteSets

CONSTANTS
    Device,  \* clients, which keep the last refresh token they were given
    Token,   \* refresh tokens
    Req,     \* request slots: how many requests run at once
    None     \* no account, no token

ASSUME NoneAssumption == None \notin Req \cup Token

VARIABLES
    account,    \* accounts: the one with the e-mail address, named by the
                \* request that created it
    state,      \* refresh_tokens: the state of each token
    login,      \* history: the token that each token's login issued
    held,       \* the token that each device keeps
    req,        \* the state of each request
    cut,        \* history: devices whose refresh stopped once it had revoked
    overlapped  \* history: logins with a token that two refreshes read live

accountVars == <<account, state, login, held, req, cut, overlapped>>
vars        == <<limiterVars, accountVars>>

Idle == [at |-> "idle"]

\* What a request asks for.  A refresh names the token it presents.
Ask ==
    [op : {"register"}] \cup [op : {"login"}, device : Device]
      \cup [op : {"refresh"}, device : Device, token : Token]

Request ==
    [at : {"idle", "register_create"}] \cup [at : {"expire", "start"}, ask : Ask]
      \cup [at : {"login_create"}, device : Device]
      \cup [at : {"refresh_revoke", "refresh_create"}, device : Device,
            token : Token]

TypeOK ==
    /\ LimiterTypeOK
    /\ account \in Req \cup {None}
    /\ state \in [Token -> {"none", "live", "revoked", "expired"}]
    /\ login \in [Token -> Token \cup {None}]
    /\ held \in [Device -> Token \cup {None}]
    /\ req \in [Req -> Request]
    /\ cut \subseteq Device
    /\ overlapped \subseteq Token

Init ==
    /\ LimiterInit
    /\ account = None
    /\ state = [t \in Token |-> "none"]
    /\ login = [t \in Token |-> None]
    /\ held = [d \in Device |-> None]
    /\ req = [r \in Req |-> Idle]
    /\ cut = {}
    /\ overlapped = {}

Goto(r, s) == req' = [req EXCEPT ![r] = s]
Finish(r)  == Goto(r, Idle)
Hold(d, t) == held' = [held EXCEPT ![d] = t]

-----------------------------------------------------------------------------
(* The rate limit of the group /auth *)

Asks ==
    [op : {"register"}] \cup [op : {"login"}, device : Device]
      \cup {[op |-> "refresh", device |-> d, token |-> held[d]] :
              d \in {e \in Device : held[e] # None}}

Arrive(r, ask) ==
    /\ req[r] = Idle
    /\ \/ /\ LetThrough
          /\ Goto(r, [at |-> IF StartsWindow(count') THEN "expire" ELSE "start",
                      ask |-> ask])
       \/ Refuse /\ UNCHANGED req
       \/ FailOpen /\ Goto(r, [at |-> "start", ask |-> ask])
    /\ UNCHANGED <<account, state, login, held, cut, overlapped>>

ExpireKey(r) ==
    /\ req[r].at = "expire"
    /\ Expire \/ ExpireLost
    /\ Goto(r, [at |-> "start", ask |-> req[r].ask])
    /\ UNCHANGED <<account, state, login, held, cut, overlapped>>

NextWindow ==
    /\ \A r \in Req : req[r].at # "expire"
    /\ WindowPasses
    /\ UNCHANGED accountVars

-----------------------------------------------------------------------------
(* POST /auth/register *)

\* Otherwise the e-mail address is taken.
RegisterFind(r) ==
    /\ req[r].at = "start" /\ req[r].ask.op = "register"
    /\ IF account = None THEN Goto(r, [at |-> "register_create"]) ELSE Finish(r)
    /\ UNCHANGED <<limiterVars, account, state, login, held, cut, overlapped>>

\* email is unique: the second INSERT is an error.
RegisterCreate(r) ==
    /\ req[r].at = "register_create"
    /\ account' = IF account = None THEN r ELSE account
    /\ Finish(r)
    /\ UNCHANGED <<limiterVars, state, login, held, cut, overlapped>>

-----------------------------------------------------------------------------
(* POST /auth/login *)

\* Wrong credentials end here, too.
LoginFind(r) ==
    /\ req[r].at = "start" /\ req[r].ask.op = "login"
    /\ IF account = None
         THEN Finish(r)
         ELSE Goto(r, [at |-> "login_create", device |-> req[r].ask.device])
    /\ UNCHANGED <<limiterVars, account, state, login, held, cut, overlapped>>

Issue(t, first) ==
    /\ state[t] = "none"
    /\ state' = [state EXCEPT ![t] = "live"]
    /\ login' = [login EXCEPT ![t] = first]

\* The answer reaches the device, or is lost.
LoginCreate(r, t) ==
    /\ req[r].at = "login_create"
    /\ Issue(t, t)
    /\ Hold(req[r].device, t) \/ UNCHANGED held
    /\ cut' = IF held' # held THEN cut \ {req[r].device} ELSE cut
    /\ Finish(r)
    /\ UNCHANGED <<limiterVars, account, overlapped>>

-----------------------------------------------------------------------------
(* POST /auth/refresh *)

BugAnyState(t) == TRUE
\* FindByHash, and neither revoked nor expired.
Valid(t) == state[t] = "live"

\* A device whose token is refused gives it up.
RefreshFind(r) ==
    /\ req[r].at = "start" /\ req[r].ask.op = "refresh"
    /\ LET d == req[r].ask.device
           t == req[r].ask.token
       IN  IF Valid(t)
             THEN /\ Goto(r, [at |-> "refresh_revoke", device |-> d, token |-> t])
                  /\ overlapped' =
                       IF \E q \in Req : /\ req[q].at = "refresh_revoke"
                                         /\ req[q].token = t
                         THEN overlapped \cup {login[t]} ELSE overlapped
                  /\ UNCHANGED held
             ELSE /\ Finish(r)
                  /\ IF held[d] = t THEN Hold(d, None) ELSE UNCHANGED held
                  /\ UNCHANGED overlapped
    /\ UNCHANGED <<limiterVars, account, state, login, cut>>

BugOfAccount(t) == {u \in Token : state[u] = "live"}
\* UPDATE ... WHERE id = $1, whether or not the row is revoked already.
ToRevoke(t) == {t}

RefreshRevoke(r) ==
    /\ req[r].at = "refresh_revoke"
    /\ state' = [t \in Token |->
                   IF t \in ToRevoke(req[r].token) THEN "revoked" ELSE state[t]]
    /\ Goto(r, [req[r] EXCEPT !.at = "refresh_create"])
    /\ UNCHANGED <<limiterVars, account, login, held, cut, overlapped>>

\* Again the answer may be lost.
RefreshCreate(r, t) ==
    /\ req[r].at = "refresh_create"
    /\ Issue(t, login[req[r].token])
    /\ \/ Hold(req[r].device, t) /\ UNCHANGED cut
       \/ UNCHANGED held /\ cut' = cut \cup {req[r].device}
    /\ Finish(r)
    /\ UNCHANGED <<limiterVars, account, overlapped>>

-----------------------------------------------------------------------------

\* A statement fails, or the process stops.  An EXPIRE that has not happened
\* is lost.
Abandon(r) ==
    /\ req[r] # Idle
    /\ IF req[r].at = "expire" THEN ExpireLost ELSE UNCHANGED limiterVars
    /\ cut' = IF req[r].at = "refresh_create" THEN cut \cup {req[r].device}
                                              ELSE cut
    /\ Finish(r)
    /\ UNCHANGED <<account, state, login, held, overlapped>>

\* expires_at passes.
TokenExpires(t) ==
    /\ state[t] = "live"
    /\ state' = [state EXCEPT ![t] = "expired"]
    /\ UNCHANGED <<limiterVars, account, login, held, req, cut, overlapped>>

Register(r) == RegisterFind(r) \/ RegisterCreate(r)
Login(r)    == LoginFind(r) \/ \E t \in Token : LoginCreate(r, t)
Refresh(r)  == \/ RefreshFind(r) \/ RefreshRevoke(r)
               \/ \E t \in Token : RefreshCreate(r, t)

Next ==
    \/ \E r \in Req : \/ \E ask \in Asks : Arrive(r, ask)
                      \/ ExpireKey(r)
                      \/ Register(r) \/ Login(r) \/ Refresh(r) \/ Abandon(r)
    \/ \E t \in Token : TokenExpires(t)
    \/ NextWindow

Spec == Init /\ [][Next]_vars

-----------------------------------------------------------------------------
(* Properties *)

\* "Execute rotates the refresh token: the old one is revoked, a new one
\* issued" (refresh_token.go:33): a login has one live token at a time, unless
\* two refreshes have both read a token before either revoked it.
OneLiveUnlessOverlapped ==
    \A first \in Token :
        first \in overlapped \/
        Cardinality({t \in Token : state[t] = "live" /\ login[t] = first}) <= 1

\* The token that a device keeps can be refreshed until it expires, whatever
\* the other devices do and however the device's own requests overlap, unless
\* a refresh of the device stopped or lost its answer after it had revoked.
HeldTokenIsLive ==
    \A d \in Device \ cut :
        \/ held[d] = None
        \/ state[held[d]] \in {"live", "expired"}
        \/ \E r \in Req : req[r].at = "refresh_create" /\ req[r].token = held[d]
=============================================================================
