---------------------- MODULE AccountsAndCacheProofs ------------------------
(***************************************************************************)
(* The safety properties of the two components that keep state in Redis,   *)
(* whose entries expire: Accounts with the rate limiter before it, for any *)
(* sets of devices, tokens and requests and any limit, and ActivityCache,  *)
(* for any sets of moderators, raters, readers and possible ratings.       *)
(***************************************************************************)
EXTENDS Accounts, ActivityCache, FiniteSetTheorems, TLAPS

-----------------------------------------------------------------------------
(* The inductive invariant *)

\* A request is about to set the lifetime of the key.
Pending == \E r \in Req : req[r].at = "expire"

\* A key that counts has a lifetime, is about to get one, or has lost it, and
\* only a key without one outlives its window.
WindowInv ==
    /\ count > 0 => ttl \/ lost \/ Pending
    /\ outlived => lost
    /\ RefusedForThisWindow

Rotating == {"refresh_revoke", "refresh_create"}

\* The request presents token t for device d.
Presents(r, d, t) ==
    \/ /\ req[r].at \in {"expire", "start"} /\ req[r].ask.op = "refresh"
       /\ req[r].ask.device = d /\ req[r].ask.token = t
    \/ /\ req[r].at \in Rotating
       /\ req[r].device = d /\ req[r].token = t

\* Device d keeps token t, or a request of it presents t.
Knows(d, t) == held[d] = t \/ \E r \in Req : Presents(r, d, t)

\* Only tokens that have been issued are known, each to one device.
TokensHaveOwners ==
    /\ \A d \in Device, t \in Token : Knows(d, t) => state[t] # "none"
    /\ \A d, e \in Device, t \in Token : Knows(d, t) /\ Knows(e, t) => d = e

\* A token belongs to a login from the moment it is issued, and so does the
\* login's first token.
TokensHaveLogins ==
    \A t \in Token :
        /\ state[t] = "none" <=> login[t] = None
        /\ login[t] # None => state[login[t]] # "none"

\* The request is about to revoke or to replace a token of the login.
Rotates(r, first) == req[r].at \in Rotating /\ login[req[r].token] = first

LiveOf(first) == {t \in Token : state[t] = "live" /\ login[t] = first}

\* Unless refreshes of it have overlapped, a login has one live token or one
\* request that rotates it, or both, if the request has not revoked the token.
OneChain ==
    \A first \in Token \ overlapped :
        /\ \A t, u \in LiveOf(first) : t = u
        /\ \A r, q \in Req : Rotates(r, first) /\ Rotates(q, first) => r = q
        /\ \A r \in Req, t \in LiveOf(first) : Rotates(r, first) =>
             req[r].at = "refresh_revoke" /\ req[r].token = t

TokenInv == TokensHaveOwners /\ TokensHaveLogins /\ OneChain /\ HeldTokenIsLive

-----------------------------------------------------------------------------
(* Types *)

\* What a request holds in each of its states.
LEMMA Fields ==
    ASSUME TypeOK, NEW r \in Req
    PROVE  /\ req[r] \in Request
           /\ req[r].at \in {"expire", "start"} =>
                /\ req[r].ask \in Ask
                /\ req[r].ask.op \in {"register", "login", "refresh"}
                /\ req[r].ask.op \in {"login", "refresh"} =>
                     req[r].ask.device \in Device
                /\ req[r].ask.op = "refresh" => req[r].ask.token \in Token
           /\ req[r].at \in {"login_create", "refresh_revoke", "refresh_create"}
                => req[r].device \in Device
           /\ req[r].at \in {"refresh_revoke", "refresh_create"} =>
                /\ req[r].token \in Token
                /\ [req[r] EXCEPT !.at = "refresh_create"] =
                     [at |-> "refresh_create", device |-> req[r].device,
                      token |-> req[r].token]
  <1>1. req[r] \in Request
    BY DEF TypeOK
  <1>2. req[r].at \in {"expire", "start"} => req[r].ask \in Ask
    BY <1>1 DEF Request
  <1>3. \A ask \in Ask :
          /\ ask.op \in {"register", "login", "refresh"}
          /\ ask.op \in {"login", "refresh"} => ask.device \in Device
          /\ ask.op = "refresh" => ask.token \in Token
    BY DEF Ask
  <1>4. req[r].at \in {"login_create", "refresh_revoke", "refresh_create"}
          => req[r].device \in Device
    BY <1>1 DEF Request
  <1>5. req[r].at \in {"refresh_revoke", "refresh_create"} =>
          /\ req[r].token \in Token
          /\ [req[r] EXCEPT !.at = "refresh_create"] =
               [at |-> "refresh_create", device |-> req[r].device,
                token |-> req[r].token]
    BY <1>1 DEF Request
  <1> QED
    BY <1>1, <1>2, <1>3, <1>4, <1>5

LEMMA Moves ==
    ASSUME TypeOK, NEW r \in Req, NEW s, Goto(r, s)
    PROVE  /\ req'[r] = s
           /\ \A q \in Req \ {r} : req'[q] = req[q]
           /\ s \in Request => req' \in [Req -> Request]
  BY DEF TypeOK, Goto

LEMMA IdleIsRequest == Idle \in Request /\ Idle.at = "idle"
  BY DEF Idle, Request

\* A request is asked for with types, and a refresh with the token that its
\* device keeps.
LEMMA AsksAreAsk ==
    ASSUME TypeOK, NEW ask \in Asks
    PROVE  /\ ask \in Ask
           /\ ask.op = "refresh" => /\ ask.device \in Device
                                    /\ ask.token = held[ask.device]
                                    /\ ask.token \in Token
  <1>1. \A d \in Device : held[d] # None => held[d] \in Token
    BY DEF TypeOK
  <1> QED
    BY <1>1 DEF Asks, Ask

\* The states that a request can be given to.
LEMMA RequestStates ==
    /\ \A at \in {"expire", "start"}, ask \in Ask :
         [at |-> at, ask |-> ask] \in Request
    /\ [at |-> "register_create"] \in Request
    /\ \A d \in Device : [at |-> "login_create", device |-> d] \in Request
    /\ \A at \in {"refresh_revoke", "refresh_create"}, d \in Device, t \in Token :
         [at |-> at, device |-> d, token |-> t] \in Request
  BY DEF Request

\* Every step of the limiter keeps its types.
LEMMA LimiterTypes ==
    ASSUME LimiterTypeOK,
           \/ LetThrough \/ Refuse \/ FailOpen \/ Expire \/ ExpireLost
           \/ WindowPasses \/ UNCHANGED limiterVars
    PROVE  LimiterTypeOK'
  <1>1. count' \in Nat
    BY DEF LimiterTypeOK, LetThrough, Refuse, FailOpen, Expire, ExpireLost, Incr,
       WindowPasses, limiterVars
  <1>2. CASE LetThrough \/ Expire \/ ExpireLost \/ UNCHANGED limiterVars
    BY <1>1, <1>2 DEF LimiterTypeOK, LetThrough, Expire, ExpireLost, limiterVars
  <1>3. CASE Refuse
    BY <1>1, <1>3 DEF LimiterTypeOK, Refuse
  <1>4. CASE FailOpen
    BY <1>1, <1>4 DEF LimiterTypeOK, FailOpen, StartsWindow, limiterVars
  <1>5. CASE WindowPasses
    BY <1>1, <1>5 DEF LimiterTypeOK, WindowPasses
  <1> QED
    BY <1>2, <1>3, <1>4, <1>5

\* Steps that leave the accounts and the tokens as they are keep the types, if
\* they keep those of the limiter and of the requests.
LEMMA QuietTypes ==
    ASSUME TypeOK, LimiterTypeOK', req' \in [Req -> Request],
           UNCHANGED <<account, state, login>>,
           held' \in [Device -> Token \cup {None}],
           cut' \subseteq Device, overlapped' \subseteq Token
    PROVE  TypeOK'
  BY DEF TypeOK

LEMMA ArriveTypes ==
    ASSUME TypeOK, NEW r \in Req,
           (\E ask \in Asks : Arrive(r, ask)) \/ ExpireKey(r)
    PROVE  TypeOK'
  <1>1. CASE \E ask \in Asks : Arrive(r, ask)
    <2>1. PICK ask \in Asks : Arrive(r, ask)
      BY <1>1
    <2>2. LimiterTypeOK'
      BY <2>1, LimiterTypes DEF Arrive, TypeOK
    <2>3. \/ UNCHANGED req
          \/ \E at \in {"expire", "start"} : Goto(r, [at |-> at, ask |-> ask])
      BY <2>1 DEF Arrive
    <2>4. req' \in [Req -> Request]
      BY <2>3, AsksAreAsk, RequestStates, Moves DEF TypeOK
    <2> QED
      BY <2>1, <2>2, <2>4, QuietTypes DEF Arrive, TypeOK
  <1>2. CASE ExpireKey(r)
    <2>1. LimiterTypeOK'
      BY <1>2, LimiterTypes DEF ExpireKey, TypeOK
    <2>2. req' \in [Req -> Request]
      <3>1. req[r].ask \in Ask
        BY <1>2, Fields DEF ExpireKey
      <3>2. [at |-> "start", ask |-> req[r].ask] \in Request
        BY <3>1, RequestStates
      <3> QED
        BY <1>2, <3>2, Moves DEF ExpireKey
    <2> QED
      BY <1>2, <2>1, <2>2, QuietTypes DEF ExpireKey, TypeOK
  <1> QED
    BY <1>1, <1>2

LEMMA RegisterTypes ==
    ASSUME TypeOK, NEW r \in Req, Register(r)
    PROVE  TypeOK'
  <1>1. LimiterTypeOK'
    BY LimiterTypes DEF Register, RegisterFind, RegisterCreate, TypeOK
  <1>2. CASE RegisterFind(r)
    <2>1. req' \in [Req -> Request]
      BY <1>2, RequestStates, IdleIsRequest, Moves DEF RegisterFind, Finish
    <2> QED
      BY <1>1, <1>2, <2>1, QuietTypes DEF RegisterFind, TypeOK
  <1>3. CASE RegisterCreate(r)
    <2>1. req' \in [Req -> Request]
      BY <1>3, IdleIsRequest, Moves DEF RegisterCreate, Finish
    <2> QED
      BY <1>1, <1>3, <2>1 DEF RegisterCreate, TypeOK
  <1> QED
    BY <1>2, <1>3 DEF Register

\* Issuing a token keeps the types of the table.
LEMMA IssueTypes ==
    ASSUME TypeOK, NEW t \in Token, NEW first \in Token \cup {None}, Issue(t, first)
    PROVE  /\ state' \in [Token -> {"none", "live", "revoked", "expired"}]
           /\ login' \in [Token -> Token \cup {None}]
           /\ \A d \in Device : Hold(d, t) => held' \in [Device -> Token \cup {None}]
  BY DEF TypeOK, Issue, Hold

LEMMA LoginTypes ==
    ASSUME TypeOK, NEW r \in Req, Login(r)
    PROVE  TypeOK'
  <1>1. LimiterTypeOK'
    BY LimiterTypes DEF Login, LoginFind, LoginCreate, TypeOK
  <1>2. CASE LoginFind(r)
    <2>1. req' \in [Req -> Request]
      <3>1. req[r].ask.device \in Device
        BY <1>2, Fields DEF LoginFind
      <3>2. [at |-> "login_create", device |-> req[r].ask.device] \in Request
        BY <3>1, RequestStates
      <3> QED
        BY <1>2, <3>2, IdleIsRequest, Moves DEF LoginFind, Finish
    <2> QED
      BY <1>1, <1>2, <2>1, QuietTypes DEF LoginFind, TypeOK
  <1>3. ASSUME NEW t \in Token, LoginCreate(r, t)
        PROVE  TypeOK'
    <2>1. req' \in [Req -> Request]
      BY <1>3, IdleIsRequest, Moves DEF LoginCreate, Finish
    <2>2. req[r].device \in Device
      BY <1>3, Fields DEF LoginCreate
    <2>3. /\ state' \in [Token -> {"none", "live", "revoked", "expired"}]
          /\ login' \in [Token -> Token \cup {None}]
          /\ held' \in [Device -> Token \cup {None}]
      BY <1>3, <2>2, IssueTypes DEF LoginCreate, TypeOK
    <2>4. cut' \subseteq Device
      BY <1>3 DEF LoginCreate, TypeOK
    <2> QED
      BY <1>1, <1>3, <2>1, <2>3, <2>4 DEF LoginCreate, TypeOK
  <1> QED
    BY <1>2, <1>3 DEF Login

LEMMA RefreshTypes ==
    ASSUME TypeOK, TokenInv, NEW r \in Req, Refresh(r)
    PROVE  TypeOK'
  <1>1. LimiterTypeOK'
    BY LimiterTypes DEF Refresh, RefreshFind, RefreshRevoke, RefreshCreate, TypeOK
  <1>2. CASE RefreshFind(r)
    <2> DEFINE d == req[r].ask.device
               t == req[r].ask.token
    <2>1. d \in Device /\ t \in Token
      BY <1>2, Fields DEF RefreshFind
    <2>2. CASE Valid(t)
      <3>1. req' \in [Req -> Request]
        BY <1>2, <2>1, <2>2, RequestStates, Moves DEF RefreshFind
      <3>2. login[t] \in Token
        BY <2>1, <2>2 DEF Valid, TypeOK, TokenInv, TokensHaveLogins
      <3>3. overlapped' \subseteq Token
        BY <1>2, <2>2, <3>2 DEF RefreshFind, TypeOK
      <3> QED
        BY <1>1, <1>2, <2>2, <3>1, <3>3, QuietTypes DEF RefreshFind, TypeOK
    <2>3. CASE ~Valid(t)
      <3>1. req' \in [Req -> Request]
        BY <1>2, <2>3, IdleIsRequest, Moves DEF RefreshFind, Finish
      <3>2. held' \in [Device -> Token \cup {None}]
        BY <1>2, <2>1, <2>3 DEF RefreshFind, Hold, TypeOK
      <3> QED
        BY <1>1, <1>2, <2>3, <3>1, <3>2, QuietTypes DEF RefreshFind, TypeOK
    <2> QED
      BY <2>2, <2>3
  <1>3. CASE RefreshRevoke(r)
    <2>1. req' \in [Req -> Request]
      <3>1. /\ req[r].device \in Device /\ req[r].token \in Token
            /\ Goto(r, [at |-> "refresh_create", device |-> req[r].device,
                        token |-> req[r].token])
        BY <1>3, Fields DEF RefreshRevoke
      <3>2. [at |-> "refresh_create", device |-> req[r].device,
             token |-> req[r].token] \in Request
        BY <3>1, RequestStates
      <3> QED
        BY <3>1, <3>2, Moves
    <2>2. state' \in [Token -> {"none", "live", "revoked", "expired"}]
      BY <1>3 DEF RefreshRevoke, TypeOK
    <2> QED
      BY <1>1, <1>3, <2>1, <2>2 DEF RefreshRevoke, TypeOK
  <1>4. ASSUME NEW t \in Token, RefreshCreate(r, t)
        PROVE  TypeOK'
    <2>1. req' \in [Req -> Request]
      BY <1>4, IdleIsRequest, Moves DEF RefreshCreate, Finish
    <2>2. req[r].device \in Device /\ req[r].token \in Token
      BY <1>4, Fields DEF RefreshCreate
    <2>3. /\ state' \in [Token -> {"none", "live", "revoked", "expired"}]
          /\ login' \in [Token -> Token \cup {None}]
          /\ held' \in [Device -> Token \cup {None}]
      <3>1. login[req[r].token] \in Token \cup {None}
        BY <2>2 DEF TypeOK
      <3> QED
        BY <1>4, <2>2, <3>1, IssueTypes DEF RefreshCreate, TypeOK
    <2>4. cut' \subseteq Device
      BY <1>4, <2>2 DEF RefreshCreate, TypeOK
    <2> QED
      BY <1>1, <1>4, <2>1, <2>3, <2>4 DEF RefreshCreate, TypeOK
  <1> QED
    BY <1>2, <1>3, <1>4 DEF Refresh

LEMMA OtherTypes ==
    ASSUME TypeOK,
           \/ \E r \in Req : Abandon(r)
           \/ \E t \in Token : TokenExpires(t)
           \/ NextWindow \/ UNCHANGED vars
    PROVE  TypeOK'
  <1>1. ASSUME NEW r \in Req, Abandon(r)
        PROVE  TypeOK'
    <2>1. LimiterTypeOK'
      BY <1>1, LimiterTypes DEF Abandon, TypeOK
    <2>2. req' \in [Req -> Request]
      BY <1>1, IdleIsRequest, Moves DEF Abandon, Finish
    <2>3. cut' \subseteq Device
      BY <1>1, Fields DEF Abandon, TypeOK
    <2> QED
      BY <1>1, <2>1, <2>2, <2>3, QuietTypes DEF Abandon, TypeOK
  <1>2. ASSUME NEW t \in Token, TokenExpires(t)
        PROVE  TypeOK'
    <2>1. LimiterTypeOK'
      BY <1>2, LimiterTypes DEF TokenExpires, TypeOK
    <2> QED
      BY <1>2, <2>1 DEF TokenExpires, TypeOK
  <1>3. CASE NextWindow \/ UNCHANGED vars
    <2>1. LimiterTypeOK'
      BY <1>3, LimiterTypes DEF NextWindow, vars, TypeOK
    <2> QED
      BY <1>3, <2>1 DEF NextWindow, vars, accountVars, TypeOK
  <1> QED
    BY <1>1, <1>2, <1>3

-----------------------------------------------------------------------------
(* Tokens *)

\* The token that a rotation works on is known and belongs to a login.
LEMMA RotatingKnown ==
    ASSUME TypeOK, TokenInv, NEW r \in Req, req[r].at \in Rotating
    PROVE  /\ req[r].device \in Device /\ req[r].token \in Token
           /\ Knows(req[r].device, req[r].token)
           /\ state[req[r].token] # "none"
           /\ login[req[r].token] \in Token
           /\ state[login[req[r].token]] # "none"
  <1>1. req[r].device \in Device /\ req[r].token \in Token
    BY Fields DEF Rotating
  <1>2. Knows(req[r].device, req[r].token)
    BY DEF Knows, Presents
  <1>3. state[req[r].token] # "none"
    BY <1>1, <1>2 DEF TokenInv, TokensHaveOwners
  <1>4. login[req[r].token] \in Token /\ state[login[req[r].token]] # "none"
    BY <1>1, <1>3 DEF TokenInv, TokensHaveLogins, TypeOK
  <1> QED
    BY <1>1, <1>2, <1>3, <1>4

\* A step that changes no token, makes no rotation and shows no token to
\* anybody keeps the invariant.  A device whose rotation ends must be cut.
LEMMA QuietMoves ==
    ASSUME TypeOK, TokenInv, NEW r \in Req, NEW s, Goto(r, s),
           UNCHANGED <<state, login, overlapped>>, cut \subseteq cut',
           \A d \in Device : held'[d] \in {held[d], None},
           s.at \notin Rotating,
           req[r].at = "refresh_create" => req[r].device \in cut',
           s.at \in {"expire", "start"} /\ s.ask.op = "refresh" =>
             Knows(s.ask.device, s.ask.token)
    PROVE  TokenInv'
  <1>1. req'[r] = s /\ \A q \in Req \ {r} : req'[q] = req[q]
    BY Moves
  <1>2. \A d \in Device, t \in Token : Knows(d, t)' => Knows(d, t)
    BY <1>1, NoneAssumption DEF Knows, Presents
  <1>3. TokensHaveOwners' /\ TokensHaveLogins'
    BY <1>2 DEF TokenInv, TokensHaveOwners, TokensHaveLogins
  <1>4. OneChain'
    <2>1. \A first \in Token : LiveOf(first)' = LiveOf(first)
      BY DEF LiveOf
    <2>2. \A q \in Req, first \in Token :
            Rotates(q, first)' => Rotates(q, first) /\ req'[q] = req[q]
      BY <1>1 DEF Rotates
    <2> QED
      BY <2>1, <2>2 DEF TokenInv, OneChain
  <1>5. HeldTokenIsLive'
    <2>1. ASSUME NEW d \in Device \ cut', held'[d] # None
          PROVE  \/ state'[held'[d]] \in {"live", "expired"}
                 \/ \E q \in Req : req'[q].at = "refresh_create" /\ req'[q].token = held'[d]
      <3>1. held'[d] = held[d] /\ d \in Device \ cut /\ held[d] \in Token
        BY <2>1 DEF TypeOK
      <3>2. CASE state[held[d]] \in {"live", "expired"}
        BY <3>1, <3>2
      <3>3. ASSUME NEW q \in Req, req[q].at = "refresh_create", req[q].token = held[d]
            PROVE  q # r
        <4>1. SUFFICES ASSUME q = r PROVE FALSE
          OBVIOUS
        <4>2. req[r].device \in Device /\ Knows(req[r].device, held[d]) /\ Knows(d, held[d])
          BY <3>3, <4>1, RotatingKnown DEF Rotating, Knows
        <4>3. d = req[r].device
          BY <3>1, <4>2 DEF TokenInv, TokensHaveOwners
        <4> QED
          BY <2>1, <3>3, <4>1, <4>3
      <3> QED
        BY <1>1, <2>1, <3>1, <3>2, <3>3 DEF TokenInv, HeldTokenIsLive
    <2> QED
      BY <2>1 DEF HeldTokenIsLive
  <1> QED
    BY <1>3, <1>4, <1>5 DEF TokenInv

\* A token is issued to one device, for a login that exists or for a new one.
LEMMA IssueKeeps ==
    ASSUME TypeOK, TokenInv, NEW r \in Req, Finish(r),
           NEW d \in Device, NEW t \in Token, NEW first \in Token, Issue(t, first),
           Hold(d, t) \/ UNCHANGED held,
           first = t \/ state[first] # "none"
    PROVE  /\ TokensHaveOwners' /\ TokensHaveLogins'
           /\ \A e \in Device : ~Knows(e, t)
           /\ \A u \in Token : login[u] # t
           /\ \A u \in Token \ {t} : state'[u] = state[u] /\ login'[u] = login[u]
           /\ state[t] = "none" /\ state'[t] = "live" /\ login'[t] = first
           /\ \A f \in Token \ {first} :
                /\ LiveOf(f)' = LiveOf(f)
                /\ \A q \in Req : Rotates(q, f)' => Rotates(q, f)
  <1>1. req'[r].at = "idle" /\ \A q \in Req \ {r} : req'[q] = req[q]
    BY Moves, IdleIsRequest DEF Finish
  <1>2. /\ \A u \in Token \ {t} : state'[u] = state[u] /\ login'[u] = login[u]
        /\ state[t] = "none" /\ state'[t] = "live" /\ login'[t] = first
    BY DEF Issue, TypeOK
  <1>3. \A e \in Device : ~Knows(e, t)
    BY <1>2 DEF TokenInv, TokensHaveOwners
  <1>4. \A u \in Token : login[u] # t
    BY <1>2, NoneAssumption DEF TokenInv, TokensHaveLogins
  <1>5. ASSUME NEW e \in Device, NEW u \in Token, Knows(e, u)'
        PROVE  Knows(e, u) \/ (e = d /\ u = t)
    <2>1. held'[e] = u => held[e] = u \/ (e = d /\ u = t)
      BY DEF Hold, TypeOK
    <2>2. \A q \in Req : Presents(q, e, u)' => Presents(q, e, u)
      BY <1>1 DEF Presents, Rotating
    <2> QED
      BY <1>5, <2>1, <2>2 DEF Knows
  <1>6. TokensHaveOwners'
    BY <1>2, <1>3, <1>5 DEF TokenInv, TokensHaveOwners
  <1>7. TokensHaveLogins'
    <2>1. ASSUME NEW u \in Token \ {t}
          PROVE  /\ state'[u] = "none" <=> login'[u] = None
                 /\ login'[u] # None => state'[login'[u]] # "none"
      BY <1>2, <2>1 DEF TokenInv, TokensHaveLogins, TypeOK
    <2>2. /\ state'[t] = "none" <=> login'[t] = None
          /\ state'[login'[t]] # "none"
      BY <1>2, NoneAssumption
    <2> QED
      BY <2>1, <2>2 DEF TokensHaveLogins
  <1>8. ASSUME NEW f \in Token \ {first}
        PROVE  /\ LiveOf(f)' = LiveOf(f)
               /\ \A q \in Req : Rotates(q, f)' => Rotates(q, f)
    <2>1. LiveOf(f)' = LiveOf(f)
      BY <1>2, <1>8 DEF LiveOf
    <2>2. ASSUME NEW q \in Req, Rotates(q, f)'
          PROVE  Rotates(q, f)
      <3>1. q # r /\ req'[q] = req[q] /\ req[q].at \in Rotating
        BY <1>1, <2>2 DEF Rotates, Rotating
      <3>2. req[q].token \in Token \ {t}
        BY <1>2, <3>1, RotatingKnown
      <3> QED
        BY <1>2, <2>2, <3>1, <3>2 DEF Rotates
    <2> QED
      BY <2>1, <2>2
  <1> QED
    BY <1>2, <1>3, <1>4, <1>6, <1>7, <1>8

LEMMA LoginKeepsTokens ==
    ASSUME TypeOK, TokenInv, NEW r \in Req, NEW t \in Token, LoginCreate(r, t)
    PROVE  TokenInv'
  <1> DEFINE d == req[r].device
  <1>1. d \in Device /\ req[r].at = "login_create"
    BY Fields DEF LoginCreate
  <1>2. /\ Issue(t, t) /\ Finish(r) /\ overlapped' = overlapped
        /\ Hold(d, t) \/ UNCHANGED held
        /\ cut' = IF held' # held THEN cut \ {d} ELSE cut
    BY DEF LoginCreate
  <1>3. /\ TokensHaveOwners' /\ TokensHaveLogins'
        /\ \A u \in Token : login[u] # t
        /\ \A u \in Token \ {t} : state'[u] = state[u] /\ login'[u] = login[u]
        /\ state[t] = "none" /\ state'[t] = "live" /\ login'[t] = t
        /\ \A f \in Token \ {t} : /\ LiveOf(f)' = LiveOf(f)
                                  /\ \A q \in Req : Rotates(q, f)' => Rotates(q, f)
    BY <1>1, <1>2, IssueKeeps
  <1>4. req'[r].at = "idle" /\ \A q \in Req \ {r} : req'[q] = req[q]
    BY <1>2, Moves, IdleIsRequest DEF Finish
  <1>5. OneChain'
    <2>1. LiveOf(t)' = {t}
      BY <1>3 DEF LiveOf
    <2>2. ASSUME NEW q \in Req, Rotates(q, t)'
          PROVE  FALSE
      <3>1. req'[q] = req[q] /\ req[q].at \in Rotating
        BY <1>4, <2>2 DEF Rotates, Rotating
      <3>2. req[q].token \in Token \ {t}
        BY <1>3, <3>1, RotatingKnown
      <3> QED
        BY <1>3, <2>2, <3>1, <3>2 DEF Rotates
    <2>3. ASSUME NEW f \in Token \ (overlapped \cup {t})
          PROVE  /\ \A u, v \in LiveOf(f)' : u = v
                 /\ \A q, p \in Req : Rotates(q, f)' /\ Rotates(p, f)' => q = p
                 /\ \A q \in Req, u \in LiveOf(f)' : Rotates(q, f)' =>
                      req'[q].at = "refresh_revoke" /\ req'[q].token = u
      <3>1. LiveOf(f)' = LiveOf(f)
        BY <1>3
      <3>2. \A q \in Req : Rotates(q, f)' => Rotates(q, f) /\ req'[q] = req[q]
        BY <1>3, <1>4 DEF Rotates, Rotating
      <3> QED
        BY <3>1, <3>2 DEF TokenInv, OneChain
    <2> QED
      BY <1>2, <2>1, <2>2, <2>3 DEF OneChain
  <1>6. HeldTokenIsLive'
    <2>1. ASSUME NEW e \in Device \ cut', held'[e] # None
          PROVE  \/ state'[held'[e]] \in {"live", "expired"}
                 \/ \E q \in Req : req'[q].at = "refresh_create" /\ req'[q].token = held'[e]
      <3>1. CASE held'[e] = held[e] /\ e \in Device \ cut
        <4>1. held[e] \in Token
          BY <2>1, <3>1 DEF TypeOK
        <4>2. \/ state[held[e]] \in {"live", "expired"}
              \/ \E q \in Req : req[q].at = "refresh_create" /\ req[q].token = held[e]
          BY <2>1, <3>1 DEF TokenInv, HeldTokenIsLive
        <4> QED
          BY <1>1, <1>3, <1>4, <3>1, <4>1, <4>2
      <3>2. CASE held'[e] = t
        BY <1>3, <3>2
      <3>3. (held'[e] = held[e] /\ e \in Device \ cut) \/ held'[e] = t
        BY <1>1, <1>2, <2>1 DEF Hold, TypeOK
      <3> QED
        BY <3>1, <3>2, <3>3
    <2> QED
      BY <2>1 DEF HeldTokenIsLive
  <1> QED
    BY <1>3, <1>5, <1>6 DEF TokenInv

LEMMA FindKeepsTokens ==
    ASSUME TypeOK, TokenInv, NEW r \in Req, RefreshFind(r)
    PROVE  TokenInv'
  <1> DEFINE d == req[r].ask.device
             t == req[r].ask.token
  <1>1. /\ req[r].at = "start" /\ req[r].ask.op = "refresh"
        /\ UNCHANGED <<state, login, cut>>
        /\ d \in Device /\ t \in Token
    BY Fields DEF RefreshFind
  <1>2. Knows(d, t)
    BY <1>1 DEF Knows, Presents
  <1>3. CASE ~Valid(t)
    <2>1. /\ Goto(r, Idle) /\ UNCHANGED overlapped
          /\ held' = held \/ Hold(d, None)
      BY <1>3 DEF RefreshFind, Finish
    <2>2. \A e \in Device : held'[e] \in {held[e], None}
      BY <2>1 DEF Hold, TypeOK
    <2> QED
      BY <1>1, <2>1, <2>2, QuietMoves, IdleIsRequest DEF Rotating
  <1>4. CASE Valid(t)
    <2>1. /\ Goto(r, [at |-> "refresh_revoke", device |-> d, token |-> t])
          /\ UNCHANGED held
          /\ overlapped' = IF \E q \in Req : /\ req[q].at = "refresh_revoke"
                                             /\ req[q].token = t
                             THEN overlapped \cup {login[t]} ELSE overlapped
      BY <1>4 DEF RefreshFind
    <2>2. /\ req'[r].at = "refresh_revoke" /\ req'[r].device = d /\ req'[r].token = t
          /\ \A q \in Req \ {r} : req'[q] = req[q]
      BY <2>1, Moves
    <2>3. \A e \in Device, u \in Token : Knows(e, u)' => Knows(e, u)
      BY <1>2, <2>1, <2>2 DEF Knows, Presents
    <2>4. TokensHaveOwners' /\ TokensHaveLogins'
      BY <1>1, <2>3 DEF TokenInv, TokensHaveOwners, TokensHaveLogins
    <2>5. \A first \in Token : LiveOf(first)' = LiveOf(first)
      BY <1>1 DEF LiveOf
    <2>6. ASSUME NEW first \in Token \ overlapped', login[t] = first
          PROVE  /\ first \notin overlapped /\ t \in LiveOf(first)
                 /\ \A q \in Req : ~Rotates(q, first)
      <3>1. /\ first \notin overlapped
            /\ ~\E q \in Req : req[q].at = "refresh_revoke" /\ req[q].token = t
        BY <2>1, <2>6
      <3>2. t \in LiveOf(first)
        BY <1>1, <1>4, <2>6 DEF LiveOf, Valid
      <3>3. \A q \in Req : Rotates(q, first) =>
              req[q].at = "refresh_revoke" /\ req[q].token = t
        BY <3>1, <3>2 DEF TokenInv, OneChain
      <3> QED
        BY <3>1, <3>2, <3>3
    <2>7. OneChain'
      <3>1. ASSUME NEW first \in Token \ overlapped'
            PROVE  first \notin overlapped
        BY <2>1, <3>1
      <3>2. ASSUME NEW first \in Token \ overlapped', login[t] # first,
                   NEW q \in Req, Rotates(q, first)'
            PROVE  Rotates(q, first) /\ req'[q] = req[q]
        BY <1>1, <2>2, <3>2 DEF Rotates
      <3>3. ASSUME NEW first \in Token \ overlapped', login[t] = first,
                   NEW q \in Req, Rotates(q, first)'
            PROVE  q = r
        BY <1>1, <2>2, <2>6, <3>3 DEF Rotates
      <3>4. ASSUME NEW first \in Token \ overlapped', login[t] # first
            PROVE  /\ \A u, v \in LiveOf(first)' : u = v
                   /\ \A q, p \in Req : Rotates(q, first)' /\ Rotates(p, first)' => q = p
                   /\ \A q \in Req, u \in LiveOf(first)' : Rotates(q, first)' =>
                        req'[q].at = "refresh_revoke" /\ req'[q].token = u
        BY <2>5, <3>1, <3>2, <3>4 DEF TokenInv, OneChain
      <3>5. ASSUME NEW first \in Token \ overlapped', login[t] = first
            PROVE  /\ \A u, v \in LiveOf(first)' : u = v
                   /\ \A q, p \in Req : Rotates(q, first)' /\ Rotates(p, first)' => q = p
                   /\ \A q \in Req, u \in LiveOf(first)' : Rotates(q, first)' =>
                        req'[q].at = "refresh_revoke" /\ req'[q].token = u
        <4>1. \A u, v \in LiveOf(first) : u = v
          BY <3>1, <3>5 DEF TokenInv, OneChain
        <4>2. t \in LiveOf(first)
          BY <2>6, <3>5
        <4> QED
          BY <2>2, <2>5, <3>3, <3>5, <4>1, <4>2
      <3> QED
        BY <3>4, <3>5 DEF OneChain
    <2>8. HeldTokenIsLive'
      BY <1>1, <2>1, <2>2 DEF TokenInv, HeldTokenIsLive
    <2> QED
      BY <2>4, <2>7, <2>8 DEF TokenInv
  <1> QED
    BY <1>3, <1>4

LEMMA RevokeKeepsTokens ==
    ASSUME TypeOK, TokenInv, NEW r \in Req, RefreshRevoke(r)
    PROVE  TokenInv'
  <1> DEFINE t == req[r].token
  <1>1. /\ req[r].at = "refresh_revoke" /\ UNCHANGED <<login, held, cut, overlapped>>
        /\ Goto(r, [at |-> "refresh_create", device |-> req[r].device, token |-> t])
    BY Fields DEF RefreshRevoke
  <1>2. /\ req'[r].at = "refresh_create" /\ req'[r].device = req[r].device
        /\ req'[r].token = t /\ \A q \in Req \ {r} : req'[q] = req[q]
    BY <1>1, Moves
  <1>3. /\ t \in Token /\ state[t] # "none" /\ state'[t] = "revoked"
        /\ \A u \in Token \ {t} : state'[u] = state[u]
    BY <1>1, RotatingKnown DEF RefreshRevoke, ToRevoke, Rotating
  <1>4. \A e \in Device, u \in Token : Knows(e, u)' => Knows(e, u)
    BY <1>1, <1>2 DEF Knows, Presents, Rotating
  <1>5. TokensHaveOwners'
    BY <1>3, <1>4 DEF TokenInv, TokensHaveOwners
  <1>6. TokensHaveLogins'
    BY <1>1, <1>3 DEF TokenInv, TokensHaveLogins, TypeOK
  <1>7. OneChain'
    <2>1. ASSUME NEW first \in Token
          PROVE  LiveOf(first)' = LiveOf(first) \ {t}
      BY <1>1, <1>3 DEF LiveOf
    <2>2. ASSUME NEW first \in Token, NEW q \in Req, Rotates(q, first)'
          PROVE  Rotates(q, first) /\ (q = r \/ req'[q] = req[q])
      BY <1>1, <1>2, <2>2 DEF Rotates, Rotating
    <2>3. ASSUME NEW first \in Token \ overlapped, Rotates(r, first)
          PROVE  LiveOf(first) \subseteq {t}
      BY <2>3 DEF TokenInv, OneChain
    <2> QED
      BY <1>1, <2>1, <2>2, <2>3 DEF TokenInv, OneChain
  <1>8. HeldTokenIsLive'
    <2>1. ASSUME NEW e \in Device \ cut, held[e] # None
          PROVE  \/ state'[held[e]] \in {"live", "expired"}
                 \/ \E q \in Req : req'[q].at = "refresh_create" /\ req'[q].token = held[e]
      <3>1. held[e] \in Token
        BY <2>1 DEF TypeOK
      <3>2. CASE held[e] = t
        BY <1>2, <3>2
      <3>3. CASE held[e] # t
        BY <1>1, <1>2, <1>3, <2>1, <3>1, <3>3 DEF TokenInv, HeldTokenIsLive
      <3> QED
        BY <3>2, <3>3
    <2> QED
      BY <1>1, <2>1 DEF HeldTokenIsLive
  <1> QED
    BY <1>5, <1>6, <1>7, <1>8 DEF TokenInv

LEMMA CreateKeepsTokens ==
    ASSUME TypeOK, TokenInv, NEW r \in Req, NEW t \in Token, RefreshCreate(r, t)
    PROVE  TokenInv'
  <1> DEFINE d == req[r].device
  <1>0. login[req[r].token] \in Token
    BY RotatingKnown DEF RefreshCreate, Rotating
  <1> PICK first \in Token : first = login[req[r].token]
    BY <1>0
  <1>1. /\ req[r].at = "refresh_create" /\ d \in Device
        /\ state[first] # "none" /\ req[r].token \in Token
        /\ Knows(d, req[r].token)
    BY RotatingKnown DEF RefreshCreate, Rotating
  <1>2. /\ Issue(t, first) /\ Finish(r) /\ overlapped' = overlapped
        /\ \/ Hold(d, t) /\ cut' = cut
           \/ held' = held /\ cut' = cut \cup {d}
    BY DEF RefreshCreate
  <1>3. /\ TokensHaveOwners' /\ TokensHaveLogins'
        /\ \A u \in Token \ {t} : state'[u] = state[u] /\ login'[u] = login[u]
        /\ state[t] = "none" /\ state'[t] = "live" /\ login'[t] = first
        /\ \A f \in Token \ {first} : /\ LiveOf(f)' = LiveOf(f)
                                      /\ \A q \in Req : Rotates(q, f)' => Rotates(q, f)
    BY <1>1, <1>2, IssueKeeps
  <1>4. req'[r].at = "idle" /\ \A q \in Req \ {r} : req'[q] = req[q]
    BY <1>2, Moves, IdleIsRequest DEF Finish
  <1>5. OneChain'
    <2>1. ASSUME first \notin overlapped
          PROVE  LiveOf(first)' = {t} /\ \A q \in Req : ~Rotates(q, first)'
      <3>1. Rotates(r, first)
        BY <1>1 DEF Rotates, Rotating
      <3>2. LiveOf(first) = {}
        BY <1>1, <2>1, <3>1 DEF TokenInv, OneChain
      <3>3. LiveOf(first)' = {t}
        BY <1>1, <1>3, <3>2 DEF LiveOf
      <3>4. ASSUME NEW q \in Req, Rotates(q, first)'
            PROVE  FALSE
        <4>1. q # r /\ req'[q] = req[q] /\ req[q].at \in Rotating
          BY <1>4, <3>4 DEF Rotates, Rotating
        <4>2. req[q].token \in Token \ {t}
          BY <1>3, <4>1, RotatingKnown
        <4>3. Rotates(q, first)
          BY <1>3, <3>4, <4>1, <4>2 DEF Rotates
        <4> QED
          BY <1>1, <2>1, <3>1, <4>1, <4>3 DEF TokenInv, OneChain
      <3> QED
        BY <3>3, <3>4
    <2>2. ASSUME NEW f \in Token \ (overlapped \cup {first})
          PROVE  /\ \A u, v \in LiveOf(f)' : u = v
                 /\ \A q, p \in Req : Rotates(q, f)' /\ Rotates(p, f)' => q = p
                 /\ \A q \in Req, u \in LiveOf(f)' : Rotates(q, f)' =>
                      req'[q].at = "refresh_revoke" /\ req'[q].token = u
      <3>1. LiveOf(f)' = LiveOf(f)
        BY <1>3
      <3>2. \A q \in Req : Rotates(q, f)' => Rotates(q, f) /\ req'[q] = req[q]
        BY <1>3, <1>4 DEF Rotates, Rotating
      <3> QED
        BY <3>1, <3>2 DEF TokenInv, OneChain
    <2> QED
      BY <1>1, <1>2, <2>1, <2>2 DEF OneChain
  <1>6. HeldTokenIsLive'
    <2>1. ASSUME NEW e \in Device \ cut', held'[e] # None
          PROVE  \/ state'[held'[e]] \in {"live", "expired"}
                 \/ \E q \in Req : req'[q].at = "refresh_create" /\ req'[q].token = held'[e]
      <3>1. CASE held'[e] = held[e] /\ e # d
        <4>1. held[e] \in Token /\ e \in Device \ cut
          BY <1>2, <2>1, <3>1 DEF TypeOK
        <4>2. \/ state[held[e]] \in {"live", "expired"}
              \/ \E q \in Req : req[q].at = "refresh_create" /\ req[q].token = held[e]
          BY <2>1, <3>1, <4>1 DEF TokenInv, HeldTokenIsLive
        <4>3. held[e] # req[r].token
          BY <1>1, <3>1, <4>1 DEF TokenInv, TokensHaveOwners, Knows
        <4> QED
          BY <1>3, <1>4, <3>1, <4>1, <4>2, <4>3
      <3>2. CASE held'[e] = t
        BY <1>3, <3>2
      <3>3. (held'[e] = held[e] /\ e # d) \/ held'[e] = t
        BY <1>1, <1>2, <2>1 DEF Hold, TypeOK
      <3> QED
        BY <3>1, <3>2, <3>3
    <2> QED
      BY <2>1 DEF HeldTokenIsLive
  <1> QED
    BY <1>3, <1>5, <1>6 DEF TokenInv

LEMMA ExpiryKeepsTokens ==
    ASSUME TypeOK, TokenInv, NEW t \in Token, TokenExpires(t)
    PROVE  TokenInv'
  <1>1. /\ UNCHANGED <<login, held, req, cut, overlapped>>
        /\ state[t] = "live" /\ state'[t] = "expired"
        /\ \A u \in Token \ {t} : state'[u] = state[u]
    BY DEF TokenExpires, TypeOK
  <1>2. TokensHaveOwners'
    BY <1>1 DEF TokenInv, TokensHaveOwners, Knows, Presents
  <1>3. TokensHaveLogins'
    BY <1>1 DEF TokenInv, TokensHaveLogins, TypeOK
  <1>4. OneChain'
    <2>1. \A first \in Token : LiveOf(first)' \subseteq LiveOf(first)
      BY <1>1 DEF LiveOf
    <2>2. \A q \in Req, first \in Token : Rotates(q, first)' <=> Rotates(q, first)
      BY <1>1 DEF Rotates
    <2> QED
      BY <1>1, <2>1, <2>2 DEF TokenInv, OneChain
  <1>5. HeldTokenIsLive'
    <2>1. \A d \in Device : held[d] # None => held[d] \in Token
      BY DEF TypeOK
    <2> QED
      BY <1>1, <2>1 DEF TokenInv, HeldTokenIsLive
  <1> QED
    BY <1>2, <1>3, <1>4, <1>5 DEF TokenInv

LEMMA RequestsKeepTokens ==
    ASSUME TypeOK, TokenInv, NEW r \in Req,
           \/ (\E ask \in Asks : Arrive(r, ask)) \/ ExpireKey(r)
           \/ Register(r) \/ Login(r) \/ Refresh(r) \/ Abandon(r)
    PROVE  TokenInv'
  <1>1. CASE \E ask \in Asks : Arrive(r, ask)
    <2>1. PICK ask \in Asks : Arrive(r, ask)
      BY <1>1
    <2>2. /\ UNCHANGED <<state, login, held, cut, overlapped>>
          /\ req[r] = Idle
      BY <2>1 DEF Arrive
    <2>3. CASE UNCHANGED req
      BY <2>2, <2>3 DEF TokenInv, TokensHaveOwners, TokensHaveLogins, OneChain,
         HeldTokenIsLive, Knows, Presents, LiveOf, Rotates
    <2>4. CASE \E at \in {"expire", "start"} : Goto(r, [at |-> at, ask |-> ask])
      <3>1. ask.op = "refresh" => Knows(ask.device, ask.token)
        BY AsksAreAsk DEF Knows
      <3>2. PICK at \in {"expire", "start"} : Goto(r, [at |-> at, ask |-> ask])
        BY <2>4
      <3> QED
        BY <2>2, <3>1, <3>2, QuietMoves, IdleIsRequest DEF Rotating
    <2> QED
      BY <2>1, <2>3, <2>4 DEF Arrive
  <1>2. CASE ExpireKey(r)
    <2>1. /\ req[r].at = "expire" /\ Goto(r, [at |-> "start", ask |-> req[r].ask])
          /\ UNCHANGED <<state, login, held, cut, overlapped>>
      BY <1>2 DEF ExpireKey
    <2>2. req[r].ask.op = "refresh" => Knows(req[r].ask.device, req[r].ask.token)
      BY <2>1 DEF Knows, Presents
    <2> QED
      BY <2>1, <2>2, QuietMoves DEF Rotating
  <1>3. CASE Register(r)
    <2>1. /\ Goto(r, Idle) \/ Goto(r, [at |-> "register_create"])
          /\ UNCHANGED <<state, login, held, cut, overlapped>>
          /\ req[r].at # "refresh_create"
      BY <1>3 DEF Register, RegisterFind, RegisterCreate, Finish
    <2> QED
      BY <2>1, QuietMoves, IdleIsRequest DEF Rotating
  <1>4. CASE LoginFind(r)
    <2>1. /\ \/ Goto(r, Idle)
             \/ Goto(r, [at |-> "login_create", device |-> req[r].ask.device])
          /\ UNCHANGED <<state, login, held, cut, overlapped>>
          /\ req[r].at # "refresh_create"
      BY <1>4 DEF LoginFind, Finish
    <2> QED
      BY <2>1, QuietMoves, IdleIsRequest DEF Rotating
  <1>5. CASE Abandon(r)
    <2>1. /\ Goto(r, Idle) /\ UNCHANGED <<state, login, held, overlapped>>
          /\ cut' = IF req[r].at = "refresh_create" THEN cut \cup {req[r].device}
                                                    ELSE cut
      BY <1>5 DEF Abandon, Finish
    <2>2. cut \subseteq cut' /\ (req[r].at = "refresh_create" => req[r].device \in cut')
      BY <2>1
    <2> QED
      BY <2>1, <2>2, QuietMoves, IdleIsRequest DEF Rotating
  <1> QED
    BY <1>1, <1>2, <1>3, <1>4, <1>5, LoginKeepsTokens, FindKeepsTokens,
       RevokeKeepsTokens, CreateKeepsTokens DEF Login, Refresh

\* Tokens have one owner, belong to one login, and form one chain of rotations
\* but for those that overlapped; and what a device keeps it can use.
THEOREM TokenInvariant == Spec => [](TypeOK /\ TokenInv)
<1>1. Init => TypeOK
  <2>1. Init => LimiterTypeOK
    <3>1. Init => count \in Nat
      BY DEF Init, LimiterInit
    <3>2. Init => /\ ttl \in BOOLEAN /\ outlived \in BOOLEAN
                  /\ lost \in BOOLEAN /\ wronged \in BOOLEAN
      BY DEF Init, LimiterInit
    <3> QED
      BY <3>1, <3>2 DEF LimiterTypeOK
  <2>2. Init => /\ state \in [Token -> {"none", "live", "revoked", "expired"}]
                /\ login \in [Token -> Token \cup {None}]
                /\ held \in [Device -> Token \cup {None}]
    BY DEF Init
  <2>3. Init => req \in [Req -> Request]
    BY IdleIsRequest DEF Init
  <2> QED
    BY <2>1, <2>2, <2>3 DEF Init, TypeOK
<1>2. Init => TokenInv
  <2> SUFFICES ASSUME Init PROVE TokenInv
    OBVIOUS
  <2>1. /\ \A t \in Token : state[t] = "none" /\ login[t] = None
        /\ \A d \in Device : held[d] = None
        /\ \A r \in Req : req[r].at = "idle"
    BY DEF Init, Idle
  <2>2. \A d \in Device, t \in Token : ~Knows(d, t)
    BY <2>1, NoneAssumption DEF Knows, Presents, Rotating
  <2>3. TokensHaveOwners /\ TokensHaveLogins
    BY <2>1, <2>2 DEF TokensHaveOwners, TokensHaveLogins
  <2>4. OneChain /\ HeldTokenIsLive
    BY <2>1 DEF OneChain, LiveOf, Rotates, Rotating, HeldTokenIsLive
  <2> QED
    BY <2>3, <2>4 DEF TokenInv
<1>3. TypeOK /\ TokenInv /\ [Next]_vars => TypeOK'
  BY ArriveTypes, RegisterTypes, LoginTypes, RefreshTypes, OtherTypes DEF Next
<1>4. TypeOK /\ TokenInv /\ [Next]_vars => TokenInv'
  <2> SUFFICES ASSUME TypeOK, TokenInv, [Next]_vars PROVE TokenInv'
    OBVIOUS
  <2>1. CASE NextWindow \/ UNCHANGED vars
    <3>1. UNCHANGED accountVars
      BY <2>1 DEF NextWindow, vars
    <3> QED
      BY <3>1 DEF accountVars, TokenInv, TokensHaveOwners, TokensHaveLogins, OneChain,
         HeldTokenIsLive, Knows, Presents, LiveOf, Rotates
  <2> QED
    BY <2>1, RequestsKeepTokens, ExpiryKeepsTokens DEF Next
<1> QED
  BY <1>1, <1>2, <1>3, <1>4, PTL DEF Spec

\* The tables, the tokens and every request keep their types.
THEOREM TypeCorrect == Spec => []TypeOK
  BY TokenInvariant, PTL

\* Rotation leaves a login one live token, unless two refreshes read a token
\* before either revoked it.
THEOREM LoginHasOneToken == Spec => []OneLiveUnlessOverlapped
<1>1. TokenInv => OneLiveUnlessOverlapped
  <2>1. ASSUME TokenInv, NEW first \in Token \ overlapped
        PROVE  Cardinality(LiveOf(first)) <= 1
    <3>1. \A t, u \in LiveOf(first) : t = u
      BY <2>1 DEF TokenInv, OneChain
    <3>2. CASE LiveOf(first) = {}
      BY <3>2, FS_EmptySet
    <3>3. CASE LiveOf(first) # {}
      <4>1. PICK t \in LiveOf(first) : TRUE
        BY <3>3
      <4>2. LiveOf(first) = {t}
        BY <3>1, <4>1
      <4>3. Cardinality({t}) = 1
        BY FS_Singleton
      <4> QED
        BY <4>2, <4>3
    <3> QED
      BY <3>2, <3>3
  <2> QED
    BY <2>1 DEF OneLiveUnlessOverlapped, LiveOf
<1> QED
  BY <1>1, TokenInvariant, PTL

\* A device that keeps a token can refresh, unless a refresh of its own stopped
\* or lost its answer after it had revoked.
THEOREM HeldTokenWorks == Spec => []HeldTokenIsLive
<1>1. TokenInv => HeldTokenIsLive
  BY DEF TokenInv
<1> QED
  BY <1>1, TokenInvariant, PTL

-----------------------------------------------------------------------------
(* The rate limit *)

\* An EXPIRE that is due stays due while another request moves.
LEMMA PendingKept ==
    ASSUME TypeOK, NEW r \in Req, req[r].at # "expire",
           UNCHANGED req \/ \E s : Goto(r, s)
    PROVE  Pending => Pending'
  BY Moves DEF Pending

\* A request is counted in a key that has a lifetime or has lost it, or else is
\* the first and sets it.
LEMMA ArriveKeepsWindow ==
    ASSUME TypeOK, WindowInv, NEW r \in Req, NEW ask \in Asks, Arrive(r, ask)
    PROVE  WindowInv'
  <1>1. Pending => Pending'
    BY PendingKept, IdleIsRequest DEF Arrive
  <1>2. count \in Nat /\ Limit \in Nat /\ Limit > 0
    BY LimitAssumption DEF TypeOK, LimiterTypeOK
  <1>3. CASE LetThrough /\ Goto(r, [at |-> IF StartsWindow(count') THEN "expire"
                                            ELSE "start", ask |-> ask])
    <2>1. UNCHANGED <<ttl, outlived, lost, wronged>> /\ count' = count + 1
      BY <1>3 DEF LetThrough, Incr
    <2>2. CASE StartsWindow(count')
      <3>1. req'[r].at = "expire"
        BY <1>3, <2>2, Moves
      <3>2. Pending'
        BY <3>1 DEF Pending
      <3> QED
        BY <2>1, <3>2 DEF WindowInv, RefusedForThisWindow
    <2>3. CASE ~StartsWindow(count')
      <3>1. count > 0
        BY <1>2, <2>1, <2>3 DEF StartsWindow
      <3> QED
        BY <1>1, <2>1, <3>1 DEF WindowInv, RefusedForThisWindow
    <2> QED
      BY <2>2, <2>3
  <1>4. CASE Refuse
    <2>1. UNCHANGED <<ttl, outlived, lost>> /\ wronged' = (wronged \/ (outlived /\ ~lost))
      BY <1>4 DEF Refuse
    <2>2. count > 0
      BY <1>2, <1>4 DEF Refuse, Incr
    <2>3. ~wronged'
      BY <2>1 DEF WindowInv, RefusedForThisWindow
    <2> QED
      BY <1>1, <2>1, <2>2, <2>3 DEF WindowInv, RefusedForThisWindow
  <1>5. CASE FailOpen
    <2>1. CASE UNCHANGED limiterVars
      BY <1>1, <2>1 DEF limiterVars, WindowInv, RefusedForThisWindow
    <2>2. CASE /\ count' = count + 1 /\ lost' = (lost \/ StartsWindow(count'))
               /\ UNCHANGED <<ttl, outlived, wronged>>
      <3>1. count > 0 \/ StartsWindow(count')
        BY <1>2, <2>2 DEF StartsWindow
      <3> QED
        BY <1>1, <2>2, <3>1 DEF WindowInv, RefusedForThisWindow
    <2> QED
      BY <1>5, <2>1, <2>2 DEF FailOpen, Incr
  <1> QED
    BY <1>3, <1>4, <1>5 DEF Arrive

LEMMA StepKeepsWindow ==
    ASSUME TypeOK, WindowInv, [Next]_vars
    PROVE  WindowInv'
  <1>1. ASSUME NEW r \in Req, ExpireKey(r)
        PROVE  WindowInv'
    BY <1>1 DEF ExpireKey, Expire, ExpireLost, WindowInv, RefusedForThisWindow
  <1>2. ASSUME NEW r \in Req, Register(r) \/ Login(r) \/ Refresh(r)
        PROVE  WindowInv'
    <2>1. UNCHANGED limiterVars
      BY <1>2 DEF Register, RegisterFind, RegisterCreate, Login, LoginFind,
         LoginCreate, Refresh, RefreshFind, RefreshRevoke, RefreshCreate
    <2>2. req[r].at # "expire" /\ \E s : Goto(r, s)
      BY <1>2 DEF Register, RegisterFind, RegisterCreate, Login, LoginFind,
         LoginCreate, Refresh, RefreshFind, RefreshRevoke, RefreshCreate, Finish
    <2> QED
      BY <2>1, <2>2, PendingKept DEF limiterVars, WindowInv, RefusedForThisWindow
  <1>3. ASSUME NEW r \in Req, Abandon(r)
        PROVE  WindowInv'
    <2>1. CASE req[r].at = "expire"
      BY <1>3, <2>1 DEF Abandon, ExpireLost, WindowInv, RefusedForThisWindow
    <2>2. CASE req[r].at # "expire"
      BY <1>3, <2>2, PendingKept
         DEF Abandon, Finish, limiterVars, WindowInv, RefusedForThisWindow
    <2> QED
      BY <2>1, <2>2
  <1>4. CASE NextWindow
    <2>1. ~Pending
      BY <1>4 DEF NextWindow, Pending
    <2>2. wronged' = wronged /\ count > 0
      BY <1>4 DEF NextWindow, WindowPasses
    <2>3. CASE ttl
      <3>1. count' = 0 /\ outlived' = FALSE
        BY <1>4, <2>3 DEF NextWindow, WindowPasses
      <3> QED
        BY <2>2, <3>1 DEF WindowInv, RefusedForThisWindow
    <2>4. CASE ~ttl
      <3>1. lost /\ lost' = lost
        BY <1>4, <2>1, <2>2, <2>4 DEF NextWindow, WindowPasses, WindowInv
      <3> QED
        BY <2>2, <3>1 DEF WindowInv, RefusedForThisWindow
    <2> QED
      BY <2>3, <2>4
  <1>5. CASE UNCHANGED vars \/ \E t \in Token : TokenExpires(t)
    <2>1. UNCHANGED <<count, ttl, outlived, lost, wronged, req>>
      BY <1>5 DEF TokenExpires, vars, limiterVars, accountVars
    <2> QED
      BY <2>1 DEF WindowInv, RefusedForThisWindow, Pending
  <1> QED
    BY <1>1, <1>2, <1>3, <1>4, <1>5, ArriveKeepsWindow DEF Next

\* Nobody is refused for the requests of an earlier window, unless the key's
\* EXPIRE was lost.
THEOREM RefusalsAreFair == Spec => []RefusedForThisWindow
<1>1. Init => WindowInv
  BY DEF Init, LimiterInit, WindowInv, RefusedForThisWindow
<1>2. WindowInv => RefusedForThisWindow
  BY DEF WindowInv
<1> QED
  BY <1>1, <1>2, StepKeepsWindow, TypeCorrect, PTL DEF Spec

-----------------------------------------------------------------------------
(* The cache of an activity: types *)

LEMMA ViewSets ==
    /\ ViewSet("detail") = {"pending"} \cup Verdict
    /\ ViewSet("list") = BOOLEAN
    /\ ViewSet("summary") = Ratings
  BY DEF ViewSet

LEMMA Views ==
    /\ View("detail") = activity.status
    /\ View("list") = (activity.status = "approved")
    /\ View("summary") = ratings
  BY DEF View

LEMMA CacheIdleIsRequest == CacheIdle \in CacheRequest /\ CacheIdle.at = "idle"
  BY DEF CacheIdle, CacheRequest

LEMMA FillFields ==
    ASSUME NEW q \in Fill
    PROVE  q.at = "fill" /\ q.key \in Key /\ q.view \in ViewSet(q.key)
  <1>1. PICK k \in Key : q \in [at : {"fill"}, key : {k}, view : ViewSet(k)]
    BY DEF Fill
  <1> QED
    BY <1>1

\* What a request of the activity holds in each of its states.
LEMMA CacheFields ==
    ASSUME CacheTypeOK, NEW r \in CacheReq
    PROVE  /\ cacheReq[r] \in CacheRequest
           /\ cacheReq[r].at \in {"read", "fill"} => cacheReq[r].key \in Key
           /\ cacheReq[r].at = "fill" =>
                cacheReq[r].view \in ViewSet(cacheReq[r].key)
           /\ cacheReq[r].at = "review" =>
                cacheReq[r].verdict \in Verdict /\ cacheReq[r].version \in Nat
           /\ cacheReq[r].at = "rate" =>
                cacheReq[r].user \in Rater /\ cacheReq[r].score \in Score
           /\ cacheReq[r].at = "invalidate" =>
                /\ cacheReq[r].due \in Seq(Key)
                /\ cacheReq[r].tell \subseteq Verdict
  <1>1. PICK q \in CacheRequest : q = cacheReq[r]
    BY DEF CacheTypeOK
  <1>2. CASE q \in Fill
    BY <1>1, <1>2, FillFields
  <1>3. CASE q \notin Fill
    BY <1>1, <1>3 DEF CacheRequest
  <1> QED
    BY <1>2, <1>3

\* A request goes on to a state; the others stay where they are.
LEMMA CacheMoves ==
    ASSUME CacheTypeOK, NEW r \in CacheReq, NEW s, CacheGoto(r, s)
    PROVE  /\ cacheReq'[r] = s
           /\ \A q \in CacheReq \ {r} : cacheReq'[q] = cacheReq[q]
           /\ s \in CacheRequest => cacheReq' \in [CacheReq -> CacheRequest]
  BY DEF CacheTypeOK, CacheGoto

\* The states that a write leaves its request in.
LEMMA InvalidateIsRequest ==
    ASSUME NEW due \in Seq(Key), NEW tell \in SUBSET Verdict
    PROVE  [at |-> "invalidate", due |-> due, tell |-> tell] \in CacheRequest
  BY DEF CacheRequest

LEMMA FillIsRequest ==
    ASSUME NEW k \in Key, NEW v \in ViewSet(k)
    PROVE  [at |-> "fill", key |-> k, view |-> v] \in CacheRequest
  <1>1. [at |-> "fill", key |-> k, view |-> v] \in
          [at : {"fill"}, key : {k}, view : ViewSet(k)]
    OBVIOUS
  <1> QED
    BY <1>1 DEF CacheRequest, Fill

\* What is read from the tables is of the type of its key.
LEMMA ViewType ==
    ASSUME CacheTypeOK, NEW k \in Key, ~NotFound(k)
    PROVE  View(k) \in ViewSet(k)
  <1>1. CASE k = "detail"
    BY <1>1, Views, ViewSets DEF CacheTypeOK, NotFound
  <1>2. CASE k = "list"
    BY <1>2, Views, ViewSets, Zenon
  <1>3. CASE k = "summary"
    BY <1>3, Views, ViewSets DEF CacheTypeOK
  <1> QED
    BY <1>1, <1>2, <1>3 DEF Key

\* A cache with one entry replaced, or deleted, is one with the same types.
LEMMA CacheWith ==
    ASSUME CacheTypeOK, NEW k \in Key, NEW v \in ViewSet(k) \cup {Miss},
           cache' = [cache EXCEPT ![k] = v]
    PROVE  /\ DOMAIN cache' = Key
           /\ \A j \in Key : cache'[j] \in ViewSet(j) \cup {Miss}
           /\ cache'[k] = v
           /\ \A j \in Key \ {k} : cache'[j] = cache[j]
  <1>1. /\ DOMAIN cache = Key
        /\ \A j \in Key : cache[j] \in ViewSet(j) \cup {Miss}
    BY DEF CacheTypeOK
  <1>2. DOMAIN cache' = Key /\ cache'[k] = v
    BY <1>1
  <1>3. \A j \in Key \ {k} : cache'[j] = cache[j]
    BY <1>1
  <1> QED
    BY <1>1, <1>2, <1>3

\* The rest of the deletions that are due, and those that are due in it.
LEMMA DueTail ==
    ASSUME NEW due \in Seq(Key), due # <<>>
    PROVE  /\ Head(due) \in Key /\ Tail(due) \in Seq(Key)
           /\ \E i \in DOMAIN due : due[i] = Head(due)
           /\ \A k : (\E i \in DOMAIN due : due[i] = k) =>
                \/ k = Head(due)
                \/ \E i \in DOMAIN Tail(due) : Tail(due)[i] = k
  <1>1. Len(due) \in Nat /\ Len(due) > 0 /\ DOMAIN due = 1 .. Len(due)
    OBVIOUS
  <1>2. /\ Tail(due) \in Seq(Key) /\ Len(Tail(due)) = Len(due) - 1
        /\ \A i \in 1 .. Len(due) - 1 : Tail(due)[i] = due[i + 1]
        /\ Head(due) = due[1]
    BY <1>1
  <1>3. DOMAIN Tail(due) = 1 .. Len(due) - 1
    BY <1>2
  <1>4. ASSUME NEW i \in DOMAIN due, i # 1
        PROVE  \E j \in DOMAIN Tail(due) : Tail(due)[j] = due[i]
    <2>1. i - 1 \in 1 .. Len(due) - 1 /\ (i - 1) + 1 = i
      BY <1>1, <1>4
    <2>2. Tail(due)[i - 1] = due[i]
      BY <1>2, <2>1
    <2> QED
      BY <1>3, <2>1, <2>2
  <1>5. 1 \in DOMAIN due /\ due[1] \in Key
    BY <1>1
  <1> QED
    BY <1>2, <1>4, <1>5

\* One rating more, or another score of the same rater.
LEMMA RatedType ==
    ASSUME ratings \in Ratings, NEW u \in Rater, NEW score \in Score
    PROVE  [v \in DOMAIN ratings \cup {u} |->
              IF v = u THEN score ELSE ratings[v]] \in Ratings
  <1>1. PICK R \in SUBSET Rater : ratings \in [R -> Score]
    BY DEF Ratings
  <1>2. [v \in DOMAIN ratings \cup {u} |->
           IF v = u THEN score ELSE ratings[v]] \in [R \cup {u} -> Score]
    BY <1>1
  <1>3. R \cup {u} \in SUBSET Rater
    OBVIOUS
  <1> QED
    BY <1>2, <1>3 DEF Ratings

LEMMA CacheInitTypes == CacheInit => CacheTypeOK
  <1> SUFFICES ASSUME CacheInit PROVE CacheTypeOK
    OBVIOUS
  <1>1. ratings \in Ratings
    <2>1. ratings \in [{} -> Score]
      BY DEF CacheInit
    <2> QED
      BY <2>1 DEF Ratings
  <1>2. DOMAIN cache = Key /\ \A k \in Key : cache[k] = Miss
    BY DEF CacheInit
  <1>3. cacheReq \in [CacheReq -> CacheRequest]
    BY CacheIdleIsRequest DEF CacheInit
  <1>4. 0 \in 0 .. MaxRatings
    BY RatingsAssumption
  <1> QED
    BY <1>1, <1>2, <1>3, <1>4 DEF CacheInit, CacheTypeOK

\* What a statement leaves alone keeps its type.
CacheTablesTyped ==
    /\ activity \in [status : {"none", "pending"} \cup Verdict, version : Nat]
    /\ attended \subseteq Rater
    /\ ratings \in Ratings
    /\ written \in 0 .. MaxRatings

CacheEntriesTyped ==
    /\ DOMAIN cache = Key
    /\ \A k \in Key : cache[k] \in ViewSet(k) \cup {Miss}
    /\ raced \subseteq Key

CacheRequestsTyped ==
    cacheReq \in [CacheReq -> CacheRequest] /\ notices \subseteq Verdict

LEMMA CacheTyped ==
    CacheTablesTyped' /\ CacheEntriesTyped' /\ CacheRequestsTyped'
      => CacheTypeOK'
  BY DEF CacheTypeOK, CacheTablesTyped, CacheEntriesTyped, CacheRequestsTyped

LEMMA CacheTypedStays ==
    /\ CacheTypeOK /\ UNCHANGED <<activity, attended, ratings, written>>
         => CacheTablesTyped'
    /\ CacheTypeOK /\ UNCHANGED <<cache, raced>> => CacheEntriesTyped'
    /\ CacheTypeOK /\ UNCHANGED <<cacheReq, notices>> => CacheRequestsTyped'
  BY DEF CacheTypeOK, CacheTablesTyped, CacheEntriesTyped, CacheRequestsTyped

\* A request goes on to a state that is one.
LEMMA CacheGoes ==
    ASSUME CacheTypeOK, NEW r \in CacheReq, NEW s \in CacheRequest,
           CacheGoto(r, s), notices' \subseteq Verdict
    PROVE  CacheRequestsTyped'
  BY CacheMoves DEF CacheRequestsTyped

\* The sequences of deletions that a write owes.
LEMMA DueSequences ==
    /\ <<"list">> \in Seq(Key) /\ <<"summary">> \in Seq(Key)
    /\ \A verdict : ReviewChanges(verdict) \in Seq(Key)
  <1>1. "list" \in Key /\ "summary" \in Key /\ "detail" \in Key
    BY DEF Key
  <1>2. /\ <<"list">> \in Seq(Key) /\ <<"summary">> \in Seq(Key)
        /\ <<"detail">> \in Seq(Key) /\ <<"detail", "list">> \in Seq(Key)
    BY <1>1
  <1> QED
    BY <1>2 DEF ReviewChanges

LEMMA CreateTypes ==
    ASSUME CacheTypeOK, NEW r \in CacheReq,
           \E source \in Source : CreateActivity(r, source)
    PROVE  CacheTypeOK'
  <1>1. PICK source \in Source : CreateActivity(r, source)
    OBVIOUS
  <1>2. CacheTablesTyped'
    BY <1>1 DEF CreateActivity, CacheTypeOK, CacheTablesTyped, Verdict
  <1>3. CacheEntriesTyped'
    BY <1>1, CacheTypedStays DEF CreateActivity
  <1>4. notices' \subseteq Verdict
    BY <1>1 DEF CreateActivity, CacheTypeOK
  <1>5. CacheRequestsTyped'
    <2>1. [at |-> "invalidate", due |-> <<"list">>, tell |-> {}]
            \in CacheRequest
      BY DueSequences, InvalidateIsRequest
    <2> QED
      BY <1>1, <1>4, <2>1, CacheGoes, CacheIdleIsRequest
         DEF CreateActivity, Invalidate, CacheFinish
  <1> QED
    BY <1>2, <1>3, <1>5, CacheTyped

LEMMA GetTypesStay ==
    ASSUME CacheTypeOK, NEW r \in CacheReq, Get(r)
    PROVE  CacheTypeOK'
  <1>0. CacheTablesTyped' /\ notices' \subseteq Verdict
    BY CacheTypedStays
       DEF Get, GetCached, ReadTable, SetCached, CacheTypeOK
  <1>1. CASE \E k \in Key : GetCached(r, k)
    <2>1. \A k \in Key : [at |-> "read", key |-> k] \in CacheRequest
      BY DEF CacheRequest
    <2> QED
      BY <1>0, <1>1, <2>1, CacheGoes, CacheTypedStays, CacheTyped
         DEF GetCached
  <1>2. CASE ReadTable(r)
    <2>1. cacheReq[r].key \in Key
      BY <1>2, CacheFields DEF ReadTable
    <2>2. ~NotFound(cacheReq[r].key) =>
            [at |-> "fill", key |-> cacheReq[r].key,
             view |-> View(cacheReq[r].key)] \in CacheRequest
      BY <2>1, ViewType, FillIsRequest
    <2>3. CacheRequestsTyped'
      BY <1>0, <1>2, <2>2, CacheGoes, CacheIdleIsRequest
         DEF ReadTable, CacheFinish
    <2> QED
      BY <1>0, <1>2, <2>3, CacheTypedStays, CacheTyped DEF ReadTable
  <1>3. CASE SetCached(r)
    <2>1. PICK k \in Key : k = cacheReq[r].key
      BY <1>3, CacheFields DEF SetCached
    <2>2. cacheReq[r].view \in ViewSet(k)
      BY <1>3, <2>1, CacheFields DEF SetCached
    <2>3. cache' = [cache EXCEPT ![k] = cacheReq[r].view]
      BY <1>3, <2>1 DEF SetCached
    <2>4. /\ DOMAIN cache' = Key
          /\ \A j \in Key : cache'[j] \in ViewSet(j) \cup {Miss}
      BY <2>2, <2>3, CacheWith
    <2>5. raced' = raced \ {k} \/ raced' = raced \cup {k}
      BY <1>3, <2>1 DEF SetCached
    <2>6. CacheEntriesTyped'
      BY <2>4, <2>5 DEF CacheEntriesTyped, CacheTypeOK
    <2>7. CacheRequestsTyped'
      BY <1>0, <1>3, CacheGoes, CacheIdleIsRequest DEF SetCached, CacheFinish
    <2> QED
      BY <1>0, <2>6, <2>7, CacheTyped
  <1> QED
    BY <1>1, <1>2, <1>3 DEF Get

LEMMA ReviewTypes ==
    ASSUME CacheTypeOK, NEW r \in CacheReq, Review(r)
    PROVE  CacheTypeOK'
  <1>0. CacheEntriesTyped' /\ notices' \subseteq Verdict
    BY CacheTypedStays DEF Review, ReviewFind, ReviewUpdate, CacheTypeOK
  <1>1. ASSUME NEW verdict \in Verdict, ReviewFind(r, verdict)
        PROVE  CacheTypeOK'
    <2>1. [at |-> "review", verdict |-> verdict,
           version |-> activity.version] \in CacheRequest
      BY DEF CacheRequest, CacheTypeOK
    <2>2. CacheRequestsTyped'
      BY <1>0, <1>1, <2>1, CacheGoes DEF ReviewFind
    <2> QED
      BY <1>0, <1>1, <2>2, CacheTypedStays, CacheTyped DEF ReviewFind
  <1>2. CASE ReviewUpdate(r)
    <2>1. PICK verdict \in Verdict : verdict = cacheReq[r].verdict
      BY <1>2, CacheFields DEF ReviewUpdate
    <2>2. [at |-> "invalidate", due |-> ReviewChanges(verdict),
           tell |-> {verdict}] \in CacheRequest
      BY DueSequences, InvalidateIsRequest
    <2>3. CacheRequestsTyped'
      BY <1>0, <1>2, <2>1, <2>2, CacheGoes, CacheIdleIsRequest
         DEF ReviewUpdate, Invalidate, CacheFinish
    <2>4. CacheTablesTyped'
      BY <1>2, <2>1
         DEF ReviewUpdate, CacheTypeOK, CacheTablesTyped, BumpedVersion
    <2> QED
      BY <1>0, <2>3, <2>4, CacheTyped
  <1> QED
    BY <1>1, <1>2 DEF Review

LEMMA RateTypes ==
    ASSUME CacheTypeOK, NEW r \in CacheReq, Rate(r)
    PROVE  CacheTypeOK'
  <1>0. CacheEntriesTyped' /\ notices' \subseteq Verdict
    BY CacheTypedStays DEF Rate, RateCheck, RateUpsert, CacheTypeOK
  <1>1. ASSUME NEW u \in Rater, NEW score \in Score, RateCheck(r, u, score)
        PROVE  CacheTypeOK'
    <2>1. [at |-> "rate", user |-> u, score |-> score] \in CacheRequest
      BY DEF CacheRequest
    <2>2. CacheRequestsTyped'
      BY <1>0, <1>1, <2>1, CacheGoes DEF RateCheck
    <2> QED
      BY <1>0, <1>1, <2>2, CacheTypedStays, CacheTyped DEF RateCheck
  <1>2. CASE RateUpsert(r)
    <2>1. cacheReq[r].user \in Rater /\ cacheReq[r].score \in Score
      BY <1>2, CacheFields DEF RateUpsert
    <2>2. ratings' \in Ratings
      BY <1>2, <2>1, RatedType DEF RateUpsert, CacheTypeOK
    <2>3. written' \in 0 .. MaxRatings
      BY <1>2, RatingsAssumption DEF RateUpsert, CacheTypeOK
    <2>4. CacheTablesTyped'
      BY <1>2, <2>2, <2>3 DEF RateUpsert, CacheTypeOK, CacheTablesTyped
    <2>5. [at |-> "invalidate", due |-> <<"summary">>, tell |-> {}]
            \in CacheRequest
      BY DueSequences, InvalidateIsRequest
    <2>6. CacheRequestsTyped'
      BY <1>0, <1>2, <2>5, CacheGoes DEF RateUpsert, Invalidate
    <2> QED
      BY <1>0, <2>4, <2>6, CacheTyped
  <1> QED
    BY <1>1, <1>2 DEF Rate

\* What follows a write: the request at a deletion, and what the deletion does.
LEMMA InvalidateSteps ==
    ASSUME CacheTypeOK, NEW r \in CacheReq, InvalidateNext(r)
    PROVE  \E due \in Seq(Key), tell \in SUBSET Verdict :
             /\ due # <<>> /\ cacheReq[r].at = "invalidate"
             /\ cacheReq[r].due = due /\ cacheReq[r].tell = tell
             /\ CacheGoto(r, [at |-> "invalidate", due |-> Tail(due),
                              tell |-> tell])
             /\ \/ /\ cache' = [cache EXCEPT ![Head(due)] = Miss]
                   /\ raced' = raced \ {Head(due)}
                \/ /\ raced' = IF cache[Head(due)] = Miss
                                 THEN raced ELSE raced \cup {Head(due)}
                   /\ UNCHANGED cache
  <1>1. /\ cacheReq[r] \in CacheRequest /\ cacheReq[r].at = "invalidate"
        /\ cacheReq[r].due \in Seq(Key) /\ cacheReq[r].tell \in SUBSET Verdict
        /\ cacheReq[r].due # <<>>
    BY CacheFields DEF InvalidateNext
  <1>2. PICK q \in CacheRequest : q = cacheReq[r]
    BY <1>1
  <1>3. q \notin Fill
    BY <1>1, <1>2, FillFields
  <1>4. q \in [at : {"invalidate"}, due : Seq(Key), tell : SUBSET Verdict]
    BY <1>1, <1>2, <1>3 DEF CacheRequest
  <1>5. PICK due \in Seq(Key), tell \in SUBSET Verdict :
          q = [at |-> "invalidate", due |-> due, tell |-> tell]
    BY <1>4
  <1>6. q.due = due /\ q.tell = tell
    BY <1>5
  <1>7. CacheGoto(r, [at |-> "invalidate", due |-> Tail(due), tell |-> tell])
    <2>1. PICK rest : rest = Tail(due)
      OBVIOUS
    <2>2. [q EXCEPT !.due = rest] =
            [at |-> "invalidate", due |-> rest, tell |-> tell]
      BY <1>5
    <2>3. CacheGoto(r, [q EXCEPT !.due = Tail(q.due)])
      BY <1>2 DEF InvalidateNext
    <2> QED
      BY <1>6, <2>1, <2>2, <2>3
  <1> QED
    BY <1>1, <1>2, <1>6, <1>7 DEF InvalidateNext

LEMMA InvalidateTypes ==
    ASSUME CacheTypeOK, NEW r \in CacheReq, InvalidateNext(r) \/ Publish(r)
    PROVE  CacheTypeOK'
  <1>0. CacheTablesTyped'
    BY CacheTypedStays DEF InvalidateNext, Publish
  <1>1. CASE InvalidateNext(r)
    <2>1. PICK due \in Seq(Key), tell \in SUBSET Verdict :
            /\ due # <<>>
            /\ CacheGoto(r, [at |-> "invalidate", due |-> Tail(due),
                             tell |-> tell])
            /\ \/ /\ cache' = [cache EXCEPT ![Head(due)] = Miss]
                  /\ raced' = raced \ {Head(due)}
               \/ /\ raced' = IF cache[Head(due)] = Miss
                                THEN raced ELSE raced \cup {Head(due)}
                  /\ UNCHANGED cache
      BY <1>1, InvalidateSteps
    <2>2. Head(due) \in Key /\ Tail(due) \in Seq(Key)
      BY <2>1, DueTail
    <2>3. [at |-> "invalidate", due |-> Tail(due), tell |-> tell]
            \in CacheRequest
      BY <2>2, InvalidateIsRequest
    <2>4. CacheRequestsTyped'
      BY <1>1, <2>1, <2>3, CacheGoes DEF InvalidateNext, CacheTypeOK
    <2>5. /\ DOMAIN cache' = Key
          /\ \A j \in Key : cache'[j] \in ViewSet(j) \cup {Miss}
      BY <2>1, <2>2, CacheWith DEF CacheTypeOK
    <2>6. raced' \subseteq Key
      BY <2>1, <2>2 DEF CacheTypeOK
    <2>7. CacheEntriesTyped'
      BY <2>5, <2>6 DEF CacheEntriesTyped
    <2> QED
      BY <1>0, <2>4, <2>7, CacheTyped
  <1>2. CASE Publish(r)
    <2>1. cacheReq[r].tell \subseteq Verdict
      BY <1>2, CacheFields DEF Publish
    <2>2. notices' \subseteq Verdict
      BY <1>2, <2>1 DEF Publish, CacheTypeOK
    <2>3. CacheRequestsTyped'
      BY <1>2, <2>2, CacheGoes, CacheIdleIsRequest DEF Publish, CacheFinish
    <2> QED
      BY <1>0, <1>2, <2>3, CacheTypedStays, CacheTyped DEF Publish
  <1> QED
    BY <1>1, <1>2

\* Every variable of the cache keeps its type under every statement.
LEMMA CacheTypeOKStep == CacheTypeOK /\ [CacheNext]_cacheVars => CacheTypeOK'
  <1> SUFFICES ASSUME CacheTypeOK, [CacheNext]_cacheVars PROVE CacheTypeOK'
    OBVIOUS
  <1>1. ASSUME NEW r \in CacheReq, CacheAbandon(r) PROVE CacheTypeOK'
    <2>1. CacheRequestsTyped'
      BY <1>1, CacheGoes, CacheIdleIsRequest
         DEF CacheAbandon, CacheFinish, CacheTypeOK
    <2>2. raced' \subseteq Key /\ UNCHANGED cache
      BY <1>1 DEF CacheAbandon, CacheTypeOK
    <2>3. CacheEntriesTyped'
      BY <2>2 DEF CacheEntriesTyped, CacheTypeOK
    <2> QED
      BY <1>1, <2>1, <2>3, CacheTypedStays, CacheTyped DEF CacheAbandon
  <1>2. ASSUME NEW k \in Key, ExpireEntry(k) PROVE CacheTypeOK'
    <2>1. /\ DOMAIN cache' = Key
          /\ \A j \in Key : cache'[j] \in ViewSet(j) \cup {Miss}
      BY <1>2, CacheWith DEF ExpireEntry
    <2>2. CacheEntriesTyped'
      BY <1>2, <2>1 DEF CacheEntriesTyped, CacheTypeOK, ExpireEntry
    <2> QED
      BY <1>2, <2>2, CacheTypedStays, CacheTyped DEF ExpireEntry
  <1>3. ASSUME NEW u \in Rater, Attend(u) PROVE CacheTypeOK'
    <2>1. CacheTablesTyped'
      BY <1>3 DEF Attend, CacheTypeOK, CacheTablesTyped
    <2> QED
      BY <1>3, <2>1, CacheTypedStays, CacheTyped DEF Attend
  <1>4. CASE UNCHANGED cacheVars
    BY <1>4, CacheTypedStays, CacheTyped DEF cacheVars
  <1> QED
    BY <1>1, <1>2, <1>3, <1>4, CreateTypes, GetTypesStay, ReviewTypes,
       RateTypes, InvalidateTypes DEF CacheNext, Serve

THEOREM CacheTypeCorrect == CacheSpec => []CacheTypeOK
  BY CacheInitTypes, CacheTypeOKStep, PTL DEF CacheSpec

-----------------------------------------------------------------------------
(* The cache of an activity: what is stale, and what is told of a verdict *)

\* What is known by key k does not contradict the status: a verdict stands,
\* and the activity is listed only if it is approved.
Stands(k, v) ==
    /\ k = "detail" /\ v \in Verdict => activity.status = v
    /\ k = "list" /\ v = TRUE => activity.status = "approved"

\* A reader knows nothing of an activity that does not exist; a reviewer
\* whose version is still the current one has found it pending; whoever is
\* told of a verdict is told of the one that stands.
StateHolds(s) ==
    /\ s.at = "fill" =>
         /\ Stands(s.key, s.view)
         /\ activity.status = "none" => s.key # "detail"
    /\ s.at = "review" =>
         /\ s.version <= activity.version
         /\ s.version = activity.version => activity.status = "pending"
    /\ s.at = "invalidate" =>
         \A verdict \in s.tell : activity.status = verdict

RequestsHold == \A r \in CacheReq : StateHolds(cacheReq[r])

EntriesHold ==
    /\ Stands("detail", cache["detail"]) /\ Stands("list", cache["list"])
    /\ activity.status = "none" =>
         cache["detail"] = Miss /\ activity.version = 0

NoticesHold == \A verdict \in notices : activity.status = verdict

CacheInv ==
    /\ CacheTypeOK
    /\ RequestsHold
    /\ EntriesHold
    /\ NoticesHold
    /\ StaleOnlyByRace

\* What the cache holds for a key it does not have tells nobody anything.
LEMMA MissIsNoView == Miss \notin Verdict /\ Miss # TRUE
  <1>1. "detail" \in Key /\ "list" \in Key
    BY DEF Key
  <1>2. Miss \notin {"pending"} \cup Verdict
    BY <1>1, MissAssumption, ViewSets
  <1>3. Miss \notin BOOLEAN
    BY <1>1, MissAssumption, ViewSets
  <1> QED
    BY <1>2, <1>3

LEMMA CacheInitInv == CacheInit => CacheInv
  <1> SUFFICES ASSUME CacheInit PROVE CacheInv
    OBVIOUS
  <1>1. CacheTypeOK
    BY CacheInitTypes
  <1>2. \A k \in Key : cache[k] = Miss
    BY DEF CacheInit
  <1>3. EntriesHold
    BY <1>2, MissIsNoView DEF CacheInit, EntriesHold, Stands, Key
  <1>4. RequestsHold /\ NoticesHold
    BY CacheIdleIsRequest
       DEF CacheInit, RequestsHold, StateHolds, NoticesHold
  <1>5. StaleOnlyByRace
    BY <1>2 DEF StaleOnlyByRace, Stale
  <1> QED
    BY <1>1, <1>3, <1>4, <1>5 DEF CacheInv

\* While the status stays, the others hold what they held.
LEMMA RequestMoves ==
    ASSUME CacheInv, NEW r \in CacheReq, NEW s, CacheGoto(r, s),
           UNCHANGED activity, StateHolds(s)
    PROVE  RequestsHold'
  <1>1. /\ cacheReq'[r] = s
        /\ \A q \in CacheReq \ {r} : cacheReq'[q] = cacheReq[q]
    BY CacheMoves DEF CacheInv
  <1> QED
    BY <1>1 DEF CacheInv, RequestsHold, StateHolds, Stands

\* While the status stays, an entry may also be deleted.
LEMMA EntriesStay ==
    ASSUME CacheInv, UNCHANGED activity,
           \A k \in Key : cache'[k] = cache[k] \/ cache'[k] = Miss
    PROVE  EntriesHold'
  <1>1. "detail" \in Key /\ "list" \in Key
    BY DEF Key
  <1>2. Stands("detail", cache["detail"]) /\ Stands("list", cache["list"])
    BY DEF CacheInv, EntriesHold
  <1>3. Stands("detail", cache["detail"])'
    BY <1>1, <1>2, MissIsNoView DEF Stands
  <1>4. Stands("list", cache["list"])'
    BY <1>1, <1>2, MissIsNoView DEF Stands
  <1>5. activity'.status = "none" =>
          cache'["detail"] = Miss /\ activity'.version = 0
    BY <1>1 DEF CacheInv, EntriesHold
  <1> QED
    BY <1>3, <1>4, <1>5 DEF EntriesHold

\* The status moves once from none and once from pending, and each time the
\* version increases.  What a request holds then holds on.
StatusMovesOn ==
    /\ activity.status \in {"none", "pending"}
    /\ activity'.status \in {"pending"} \cup Verdict
    /\ activity'.version = activity.version + 1

LEMMA HoldsOn ==
    ASSUME CacheInv, StatusMovesOn, NEW r \in CacheReq, NEW s,
           s = cacheReq[r]
    PROVE  StateHolds(s)'
  <1>1. StateHolds(s) /\ CacheTypeOK
    BY DEF CacheInv, RequestsHold
  <1>2. /\ activity.version \in Nat
        /\ s.at = "review" => s.version \in Nat
        /\ s.at = "invalidate" => s.tell \subseteq Verdict
    BY <1>1, CacheFields DEF CacheTypeOK
  <1>3. activity.status \notin Verdict /\ activity'.status # "none"
    BY DEF StatusMovesOn, Verdict
  <1>4. ASSUME s.at = "fill" PROVE Stands(s.key, s.view)'
    <2>1. Stands(s.key, s.view)
      BY <1>1, <1>4 DEF StateHolds
    <2> QED
      BY <1>3, <2>1 DEF Stands, Verdict
  <1>5. ASSUME s.at = "review"
        PROVE  s.version <= activity'.version /\ s.version # activity'.version
    BY <1>1, <1>2, <1>5 DEF StateHolds, StatusMovesOn
  <1>6. ASSUME s.at = "invalidate" PROVE s.tell = {}
    BY <1>1, <1>2, <1>3, <1>6 DEF StateHolds
  <1> QED
    BY <1>3, <1>4, <1>5, <1>6 DEF StateHolds

LEMMA StatusMovesOnKeeps ==
    ASSUME CacheInv, StatusMovesOn, NEW r \in CacheReq, NEW s,
           CacheGoto(r, s), StateHolds(s)', UNCHANGED <<cache, notices>>
    PROVE  RequestsHold' /\ EntriesHold' /\ NoticesHold'
  <1>1. /\ cacheReq'[r] = s
        /\ \A q \in CacheReq \ {r} : cacheReq'[q] = cacheReq[q]
    BY CacheMoves DEF CacheInv
  <1>2. RequestsHold'
    <2>1. ASSUME NEW q \in CacheReq PROVE StateHolds(cacheReq[q])'
      <3>1. PICK p : p = cacheReq'[q]
        OBVIOUS
      <3>2. StateHolds(p)'
        BY <1>1, <3>1, HoldsOn
      <3> QED
        BY <3>1, <3>2 DEF StateHolds, Stands
    <2> QED
      BY <2>1 DEF RequestsHold
  <1>3. activity.status \notin Verdict /\ activity'.status # "none"
    BY DEF StatusMovesOn, Verdict
  <1>4. Stands("detail", cache["detail"]) /\ Stands("list", cache["list"])
    BY DEF CacheInv, EntriesHold
  <1>5. EntriesHold'
    BY <1>3, <1>4 DEF EntriesHold, Stands, Verdict
  <1>6. NoticesHold'
    BY <1>3 DEF CacheInv, CacheTypeOK, NoticesHold
  <1> QED
    BY <1>2, <1>5, <1>6

\* Whether a step keeps everything but what is said of stale entries.
Keeps == RequestsHold' /\ EntriesHold' /\ NoticesHold'

\* A statement that changes the state of its request only, or deletes an
\* entry, or hands over what its request was to tell.
LEMMA QuietKeeps ==
    ASSUME CacheInv, NEW r \in CacheReq, NEW s, CacheGoto(r, s),
           UNCHANGED activity, StateHolds(s),
           \A k \in Key : cache'[k] = cache[k] \/ cache'[k] = Miss,
           \A verdict \in notices' : activity.status = verdict
    PROVE  Keeps
  <1>1. NoticesHold'
    BY DEF NoticesHold
  <1> QED
    BY <1>1, RequestMoves, EntriesStay DEF Keeps

LEMMA CreateKeeps ==
    ASSUME CacheInv, NEW r \in CacheReq, NEW source \in Source,
           CreateActivity(r, source)
    PROVE  Keeps
  <1>1. StatusMovesOn
    BY DEF CreateActivity, StatusMovesOn, CacheInv, EntriesHold, Verdict
  <1>2. PICK s : /\ CacheGoto(r, s)
                 /\ \/ s = CacheIdle
                    \/ s = [at |-> "invalidate", due |-> <<"list">>,
                            tell |-> {}]
    BY DEF CreateActivity, CacheFinish, Invalidate
  <1>3. StateHolds(s)'
    BY <1>2, CacheIdleIsRequest DEF StateHolds
  <1> QED
    BY <1>1, <1>2, <1>3, StatusMovesOnKeeps DEF CreateActivity, Keeps

LEMMA GetKeeps ==
    ASSUME CacheInv, NEW r \in CacheReq, Get(r)
    PROVE  Keeps
  <1>0. /\ CacheTypeOK /\ RequestsHold /\ EntriesHold
        /\ \A verdict \in notices : activity.status = verdict
    BY DEF CacheInv, NoticesHold
  <1>1. CASE \E k \in Key : GetCached(r, k)
    <2>1. PICK k \in Key : GetCached(r, k)
      BY <1>1
    <2>2. StateHolds([at |-> "read", key |-> k])
      BY DEF StateHolds
    <2> QED
      BY <1>0, <2>1, <2>2, QuietKeeps DEF GetCached
  <1>2. CASE ReadTable(r)
    <2>1. PICK k, v : k = cacheReq[r].key /\ v = View(k)
      OBVIOUS
    <2>2. StateHolds(CacheIdle)
      BY CacheIdleIsRequest DEF StateHolds
    <2>3. ASSUME ~NotFound(k)
          PROVE  StateHolds([at |-> "fill", key |-> k, view |-> v])
      <3>1. Stands(k, v)
        BY <2>1, Views DEF Stands
      <3>2. activity.status = "none" => k # "detail"
        BY <2>3 DEF NotFound
      <3> QED
        BY <3>1, <3>2 DEF StateHolds
    <2>4. \/ CacheGoto(r, CacheIdle)
          \/ /\ ~NotFound(k)
             /\ CacheGoto(r, [at |-> "fill", key |-> k, view |-> v])
      BY <1>2, <2>1 DEF ReadTable, CacheFinish
    <2>5. UNCHANGED <<activity, cache, notices>>
      BY <1>2 DEF ReadTable
    <2>6. PICK s : CacheGoto(r, s) /\ StateHolds(s)
      BY <2>2, <2>3, <2>4
    <2> QED
      BY <1>0, <2>5, <2>6, QuietKeeps
  <1>3. CASE SetCached(r)
    <2>1. PICK k \in Key : k = cacheReq[r].key
      BY <1>0, <1>3, CacheFields DEF SetCached
    <2>2. PICK v \in ViewSet(k) : v = cacheReq[r].view
      BY <1>0, <1>3, <2>1, CacheFields DEF SetCached
    <2>3. /\ Stands(k, v)
          /\ activity.status = "none" => k # "detail"
      BY <1>0, <1>3, <2>1, <2>2 DEF SetCached, RequestsHold, StateHolds
    <2>4. /\ cache' = [cache EXCEPT ![k] = v]
          /\ CacheGoto(r, CacheIdle) /\ UNCHANGED <<activity, notices>>
      BY <1>3, <2>1, <2>2 DEF SetCached, CacheFinish
    <2>5. cache'[k] = v /\ \A j \in Key \ {k} : cache'[j] = cache[j]
      BY <1>0, <2>4, CacheWith
    <2>6. "detail" \in Key /\ "list" \in Key
      BY DEF Key
    <2>7. Stands("detail", cache["detail"])'
      <3>1. CASE k = "detail"
        BY <2>3, <2>4, <2>5, <3>1 DEF Stands
      <3>2. CASE k # "detail"
        BY <1>0, <2>4, <2>5, <2>6, <3>2 DEF Stands, EntriesHold
      <3> QED
        BY <3>1, <3>2
    <2>8. Stands("list", cache["list"])'
      <3>1. CASE k = "list"
        BY <2>3, <2>4, <2>5, <3>1 DEF Stands
      <3>2. CASE k # "list"
        BY <1>0, <2>4, <2>5, <2>6, <3>2 DEF Stands, EntriesHold
      <3> QED
        BY <3>1, <3>2
    <2>9. EntriesHold'
      BY <1>0, <2>3, <2>4, <2>5, <2>6, <2>7, <2>8 DEF EntriesHold
    <2>10. StateHolds(CacheIdle)
      BY CacheIdleIsRequest DEF StateHolds
    <2>11. RequestsHold'
      BY <2>4, <2>10, RequestMoves
    <2>12. NoticesHold'
      BY <1>0, <2>4 DEF NoticesHold
    <2> QED
      BY <2>9, <2>11, <2>12 DEF Keeps
  <1> QED
    BY <1>1, <1>2, <1>3 DEF Get

LEMMA ReviewKeeps ==
    ASSUME CacheInv, NEW r \in CacheReq, Review(r)
    PROVE  Keeps
  <1>0. /\ CacheTypeOK /\ RequestsHold
        /\ \A verdict \in notices : activity.status = verdict
        /\ activity.version \in Nat
    BY DEF CacheInv, NoticesHold, CacheTypeOK
  <1>1. ASSUME NEW verdict \in Verdict, ReviewFind(r, verdict)
        PROVE  Keeps
    <2>1. PICK s : s = [at |-> "review", verdict |-> verdict,
                        version |-> activity.version]
      OBVIOUS
    <2>2. StateHolds(s)
      BY <1>0, <1>1, <2>1 DEF StateHolds, ReviewFind
    <2> QED
      BY <1>0, <1>1, <2>1, <2>2, QuietKeeps DEF ReviewFind
  <1>2. CASE ReviewUpdate(r) /\ ~SameVersion(cacheReq[r].version)
    <2>1. StateHolds(CacheIdle)
      BY CacheIdleIsRequest DEF StateHolds
    <2> QED
      BY <1>0, <1>2, <2>1, QuietKeeps DEF ReviewUpdate, CacheFinish
  <1>3. CASE ReviewUpdate(r) /\ SameVersion(cacheReq[r].version)
    <2>1. PICK verdict \in Verdict : verdict = cacheReq[r].verdict
      BY <1>0, <1>3, CacheFields DEF ReviewUpdate
    <2>2. activity.status = "pending"
      BY <1>0, <1>3 DEF ReviewUpdate, SameVersion, RequestsHold, StateHolds
    <2>3. activity' = [status |-> verdict, version |-> activity.version + 1]
      BY <1>3, <2>1 DEF ReviewUpdate, BumpedVersion
    <2>4. StatusMovesOn
      BY <2>2, <2>3 DEF StatusMovesOn
    <2>5. PICK s : /\ CacheGoto(r, s)
                   /\ s = [at |-> "invalidate",
                           due |-> ReviewChanges(verdict),
                           tell |-> {verdict}]
      BY <1>3, <2>1 DEF ReviewUpdate, Invalidate
    <2>6. StateHolds(s)'
      BY <2>3, <2>5 DEF StateHolds
    <2> QED
      BY <1>3, <2>4, <2>5, <2>6, StatusMovesOnKeeps DEF ReviewUpdate, Keeps
  <1> QED
    BY <1>1, <1>2, <1>3 DEF Review

LEMMA RateKeeps ==
    ASSUME CacheInv, NEW r \in CacheReq, Rate(r)
    PROVE  Keeps
  <1>0. \A verdict \in notices : activity.status = verdict
    BY DEF CacheInv, NoticesHold
  <1>1. ASSUME NEW u \in Rater, NEW score \in Score, RateCheck(r, u, score)
        PROVE  Keeps
    <2>1. StateHolds([at |-> "rate", user |-> u, score |-> score])
      BY DEF StateHolds
    <2> QED
      BY <1>0, <1>1, <2>1, QuietKeeps DEF RateCheck
  <1>2. CASE RateUpsert(r)
    <2>1. StateHolds([at |-> "invalidate", due |-> <<"summary">>,
                      tell |-> {}])
      BY DEF StateHolds
    <2> QED
      BY <1>0, <1>2, <2>1, QuietKeeps DEF RateUpsert, Invalidate
  <1> QED
    BY <1>1, <1>2 DEF Rate

LEMMA InvalidateKeeps ==
    ASSUME CacheInv, NEW r \in CacheReq, InvalidateNext(r) \/ Publish(r)
    PROVE  Keeps
  <1>0. /\ CacheTypeOK /\ RequestsHold
        /\ \A verdict \in notices : activity.status = verdict
    BY DEF CacheInv, NoticesHold
  <1>1. CASE InvalidateNext(r)
    <2>1. PICK due \in Seq(Key), tell \in SUBSET Verdict :
            /\ due # <<>> /\ cacheReq[r].at = "invalidate"
            /\ cacheReq[r].tell = tell
            /\ CacheGoto(r, [at |-> "invalidate", due |-> Tail(due),
                             tell |-> tell])
            /\ \/ cache' = [cache EXCEPT ![Head(due)] = Miss]
               \/ UNCHANGED cache
      BY <1>0, <1>1, InvalidateSteps
    <2>2. Head(due) \in Key
      BY <2>1, DueTail
    <2>3. \A k \in Key : cache'[k] = cache[k] \/ cache'[k] = Miss
      BY <1>0, <2>1, <2>2, CacheWith
    <2>4. StateHolds([at |-> "invalidate", due |-> Tail(due),
                      tell |-> tell])
      BY <1>0, <2>1 DEF RequestsHold, StateHolds
    <2> QED
      BY <1>0, <1>1, <2>1, <2>3, <2>4, QuietKeeps DEF InvalidateNext
  <1>2. CASE Publish(r)
    <2>1. \A verdict \in notices' : activity.status = verdict
      BY <1>0, <1>2 DEF Publish, RequestsHold, StateHolds
    <2>2. StateHolds(CacheIdle)
      BY CacheIdleIsRequest DEF StateHolds
    <2> QED
      BY <1>2, <2>1, <2>2, QuietKeeps DEF Publish, CacheFinish
  <1> QED
    BY <1>1, <1>2

LEMMA OthersKeep ==
    ASSUME CacheInv,
           \/ \E r \in CacheReq : CacheAbandon(r)
           \/ \E k \in Key : ExpireEntry(k)
           \/ \E u \in Rater : Attend(u)
           \/ UNCHANGED cacheVars
    PROVE  Keeps
  <1>0. CacheTypeOK /\ RequestsHold /\ NoticesHold
    BY DEF CacheInv
  <1>1. CASE \E r \in CacheReq : CacheAbandon(r)
    <2>1. StateHolds(CacheIdle)
      BY CacheIdleIsRequest DEF StateHolds
    <2> QED
      BY <1>0, <1>1, <2>1, QuietKeeps
         DEF CacheAbandon, CacheFinish, NoticesHold
  <1>2. CASE ~ \E r \in CacheReq : CacheAbandon(r)
    <2>1. UNCHANGED <<activity, cacheReq, notices>>
      BY <1>2 DEF ExpireEntry, Attend, cacheVars
    <2>2. \A k \in Key : cache'[k] = cache[k] \/ cache'[k] = Miss
      BY <1>0, <1>2, CacheWith DEF ExpireEntry, Attend, cacheVars
    <2>3. EntriesHold'
      BY <2>1, <2>2, EntriesStay
    <2> QED
      BY <1>0, <2>1, <2>3
         DEF Keeps, RequestsHold, StateHolds, Stands, NoticesHold
  <1> QED
    BY <1>1, <1>2

\* A stale entry of k is accounted for: a deletion of it is due, or it was
\* stored late, or its deletion was lost.
Due(r, k)    == cacheReq[r].at = "invalidate" /\ Owes(r, k)
Accounted(k) == k \in raced \/ \E r \in CacheReq : Due(r, k)

LEMMA StaleAccounted ==
    /\ StaleOnlyByRace <=> \A k \in Key : Stale(k) => Accounted(k)
    /\ (\A k \in Key : Stale(k)' => Accounted(k)') => StaleOnlyByRace'
  BY DEF StaleOnlyByRace, Accounted, Due

LEMMA ViewStays ==
    ASSUME UNCHANGED <<activity, ratings>>
    PROVE  \A k : View(k)' = View(k)
  BY DEF View

\* What was accounted for stays so while one request moves that owes nothing.
LEMMA AccountedStays ==
    ASSUME CacheTypeOK, NEW r \in CacheReq, NEW s, CacheGoto(r, s),
           NEW k \in Key, ~Due(r, k) \/ Due(r, k)', k \in raced => k \in raced',
           Accounted(k)
    PROVE  Accounted(k)'
  <1>1. \A q \in CacheReq \ {r} : cacheReq'[q] = cacheReq[q]
    BY CacheMoves
  <1>2. \A q \in CacheReq \ {r} : Due(q, k)' <=> Due(q, k)
    BY <1>1 DEF Due, Owes
  <1> QED
    BY <1>2 DEF Accounted

\* The request that has written owes the deletions.
LEMMA WriterOwes ==
    ASSUME CacheTypeOK, NEW r \in CacheReq, NEW due, NEW tell, NEW k,
           CacheGoto(r, [at |-> "invalidate", due |-> due, tell |-> tell]),
           NEW i \in DOMAIN due, due[i] = k
    PROVE  Accounted(k)'
  <1>1. cacheReq'[r] = [at |-> "invalidate", due |-> due, tell |-> tell]
    BY CacheMoves
  <1> QED
    BY <1>1 DEF Accounted, Due, Owes

\* A statement that writes nothing.
LEMMA QuietIsFresh ==
    ASSUME CacheInv, NEW r \in CacheReq, NEW s, CacheGoto(r, s),
           cacheReq[r].at # "invalidate",
           UNCHANGED <<activity, ratings, cache, raced>>
    PROVE  StaleOnlyByRace'
  <1>1. \A k \in Key : Stale(k)' => Stale(k)
    BY ViewStays DEF Stale
  <1>2. \A k : ~Due(r, k)
    BY DEF Due
  <1>3. \A k \in Key : Accounted(k) => Accounted(k)'
    BY <1>2, AccountedStays DEF CacheInv
  <1> QED
    BY <1>1, <1>3, StaleAccounted DEF CacheInv

LEMMA CreateIsFresh ==
    ASSUME CacheInv, NEW r \in CacheReq, NEW source \in Source,
           CreateActivity(r, source)
    PROVE  StaleOnlyByRace'
  <1>0. /\ CacheTypeOK /\ cacheReq[r].at = "idle"
        /\ \A k \in Key : Stale(k) => Accounted(k)
        /\ activity.status = "none" /\ cache["detail"] = Miss
        /\ UNCHANGED <<cache, raced, ratings>>
    BY CacheIdleIsRequest, StaleAccounted
       DEF CacheInv, EntriesHold, CreateActivity
  <1>1. PICK s : /\ CacheGoto(r, s)
                 /\ source # "user" =>
                      s = [at |-> "invalidate", due |-> <<"list">>,
                           tell |-> {}]
    BY DEF CreateActivity, CacheFinish, Invalidate
  <1>2. \A k \in Key : Accounted(k) => Accounted(k)'
    BY <1>0, <1>1, AccountedStays DEF Due
  <1>3. ~Stale("detail")'
    BY <1>0 DEF Stale
  <1>4. Stale("summary")' => Stale("summary")
    BY <1>0 DEF Stale, View
  <1>5. CASE source = "user"
    <2>1. activity'.status # "approved" /\ activity.status # "approved"
      BY <1>0, <1>5 DEF CreateActivity
    <2>2. View("list")' = View("list")
      BY <2>1 DEF View
    <2>3. Stale("list")' => Stale("list")
      BY <1>0, <2>2 DEF Stale
    <2> QED
      BY <1>0, <1>2, <1>3, <1>4, <2>3, StaleAccounted DEF Key
  <1>6. CASE source # "user"
    <2>1. 1 \in DOMAIN <<"list">> /\ <<"list">>[1] = "list"
      OBVIOUS
    <2>2. Accounted("list")'
      BY <1>0, <1>1, <1>6, <2>1, WriterOwes
    <2> QED
      BY <1>0, <1>2, <1>3, <1>4, <2>2, StaleAccounted DEF Key
  <1> QED
    BY <1>5, <1>6

LEMMA SetIsFresh ==
    ASSUME CacheInv, NEW r \in CacheReq, SetCached(r)
    PROVE  StaleOnlyByRace'
  <1>0. /\ CacheTypeOK /\ \A j \in Key : Stale(j) => Accounted(j)
        /\ cacheReq[r].at = "fill"
        /\ UNCHANGED <<activity, ratings>>
    BY StaleAccounted DEF CacheInv, SetCached
  <1>1. PICK k \in Key : k = cacheReq[r].key
    BY <1>0, CacheFields
  <1>2. PICK v \in ViewSet(k) : v = cacheReq[r].view
    BY <1>0, <1>1, CacheFields
  <1>3. /\ cache' = [cache EXCEPT ![k] = v]
        /\ raced' = IF v = View(k) THEN raced \ {k} ELSE raced \cup {k}
        /\ CacheGoto(r, CacheIdle)
    BY <1>1, <1>2 DEF SetCached, CacheFinish
  <1>4. cache'[k] = v /\ \A j \in Key \ {k} : cache'[j] = cache[j]
    BY <1>0, <1>3, CacheWith
  <1>5. Stale(k)' => Accounted(k)'
    BY <1>0, <1>3, <1>4, ViewStays DEF Stale, Accounted
  <1>6. ASSUME NEW j \in Key \ {k}
        PROVE  Stale(j)' => Accounted(j)'
    <2>1. Stale(j)' => Stale(j)
      BY <1>0, <1>4, ViewStays DEF Stale
    <2>2. Accounted(j) => Accounted(j)'
      BY <1>0, <1>3, AccountedStays DEF Due
    <2> QED
      BY <1>0, <2>1, <2>2
  <1> QED
    BY <1>5, <1>6, StaleAccounted

LEMMA ReviewIsFresh ==
    ASSUME CacheInv, NEW r \in CacheReq, ReviewUpdate(r),
           SameVersion(cacheReq[r].version)
    PROVE  StaleOnlyByRace'
  <1>0. /\ CacheTypeOK /\ \A k \in Key : Stale(k) => Accounted(k)
        /\ cacheReq[r].at = "review"
        /\ UNCHANGED <<cache, raced, ratings>>
    BY StaleAccounted DEF CacheInv, ReviewUpdate
  <1>1. PICK verdict \in Verdict : verdict = cacheReq[r].verdict
    BY <1>0, CacheFields
  <1>2. activity.status = "pending"
    BY <1>0 DEF CacheInv, SameVersion, RequestsHold, StateHolds
  <1>3. activity'.status = verdict
    BY <1>1 DEF ReviewUpdate
  <1>4. PICK due : /\ CacheGoto(r, [at |-> "invalidate", due |-> due,
                                    tell |-> {verdict}])
                   /\ due = ReviewChanges(verdict)
    BY <1>1 DEF ReviewUpdate, Invalidate
  <1>5. Accounted("detail")'
    <2>1. 1 \in DOMAIN due /\ due[1] = "detail"
      BY <1>4 DEF ReviewChanges
    <2> QED
      BY <1>0, <1>4, <2>1, WriterOwes
  <1>6. \A k \in Key : Accounted(k) => Accounted(k)'
    BY <1>0, <1>4, AccountedStays DEF Due
  <1>7. Stale("list")' => Accounted("list")'
    <2>1. CASE verdict = "approved"
      <3>1. 2 \in DOMAIN due /\ due[2] = "list"
        BY <1>4, <2>1 DEF ReviewChanges
      <3> QED
        BY <1>0, <1>4, <3>1, WriterOwes
    <2>2. CASE verdict # "approved"
      <3>1. View("list")' = View("list")
        BY <1>2, <1>3, <2>2 DEF View
      <3>2. Stale("list")' => Stale("list")
        BY <1>0, <3>1 DEF Stale
      <3> QED
        BY <1>0, <1>6, <3>2 DEF Key
    <2> QED
      BY <2>1, <2>2
  <1>8. Stale("summary")' => Stale("summary")
    BY <1>0 DEF Stale, View
  <1> QED
    BY <1>0, <1>5, <1>6, <1>7, <1>8, StaleAccounted DEF Key

LEMMA RateIsFresh ==
    ASSUME CacheInv, NEW r \in CacheReq, RateUpsert(r)
    PROVE  StaleOnlyByRace'
  <1>0. /\ CacheTypeOK /\ \A k \in Key : Stale(k) => Accounted(k)
        /\ cacheReq[r].at = "rate"
        /\ UNCHANGED <<cache, raced, activity>>
        /\ CacheGoto(r, [at |-> "invalidate", due |-> <<"summary">>,
                         tell |-> {}])
    BY StaleAccounted DEF CacheInv, RateUpsert, Invalidate
  <1>1. 1 \in DOMAIN <<"summary">> /\ <<"summary">>[1] = "summary"
    OBVIOUS
  <1>2. Accounted("summary")'
    BY <1>0, <1>1, WriterOwes
  <1>3. \A k \in Key : Accounted(k) => Accounted(k)'
    BY <1>0, AccountedStays DEF Due
  <1>4. Stale("detail")' => Stale("detail")
    BY <1>0 DEF Stale, View
  <1>5. Stale("list")' => Stale("list")
    <2>1. View("list")' = View("list")
      BY <1>0 DEF View
    <2> QED
      BY <1>0, <2>1 DEF Stale
  <1> QED
    BY <1>0, <1>2, <1>3, <1>4, <1>5, StaleAccounted DEF Key

\* A deletion takes the entry, or is lost, and the others that are due stay
\* due.
LEMMA InvalidateIsFresh ==
    ASSUME CacheInv, NEW r \in CacheReq, InvalidateNext(r)
    PROVE  StaleOnlyByRace'
  <1>0. /\ CacheTypeOK /\ \A k \in Key : Stale(k) => Accounted(k)
        /\ UNCHANGED <<activity, ratings>>
    BY StaleAccounted DEF CacheInv, InvalidateNext
  <1>1. PICK due \in Seq(Key), tell \in SUBSET Verdict :
          /\ due # <<>> /\ cacheReq[r].at = "invalidate"
          /\ cacheReq[r].due = due
          /\ CacheGoto(r, [at |-> "invalidate", due |-> Tail(due),
                           tell |-> tell])
          /\ \/ /\ cache' = [cache EXCEPT ![Head(due)] = Miss]
                /\ raced' = raced \ {Head(due)}
             \/ /\ raced' = IF cache[Head(due)] = Miss
                              THEN raced ELSE raced \cup {Head(due)}
                /\ UNCHANGED cache
    BY <1>0, InvalidateSteps
  <1>2. PICK h \in Key : h = Head(due)
    BY <1>1, DueTail
  <1>3. \A k \in Key \ {h} : cache'[k] = cache[k]
    BY <1>0, <1>1, <1>2, CacheWith
  <1>4. Stale(h)' => Accounted(h)'
    <2>1. CASE cache' = [cache EXCEPT ![h] = Miss]
      <3>1. cache'[h] = Miss
        BY <1>0, <2>1, CacheWith
      <3> QED
        BY <3>1 DEF Stale
    <2>2. CASE /\ raced' = IF cache[h] = Miss THEN raced ELSE raced \cup {h}
               /\ UNCHANGED cache
      <3>1. Stale(h)' => cache[h] # Miss
        BY <2>2 DEF Stale
      <3> QED
        BY <2>2, <3>1 DEF Accounted
    <2> QED
      BY <1>1, <1>2, <2>1, <2>2
  <1>5. ASSUME NEW k \in Key \ {h}, Stale(k)'
        PROVE  Accounted(k)'
    <2>1. Accounted(k)
      BY <1>0, <1>3, <1>5, ViewStays DEF Stale
    <2>2. ASSUME Due(r, k) PROVE Due(r, k)'
      <3>1. cacheReq'[r] = [at |-> "invalidate", due |-> Tail(due),
                            tell |-> tell]
        BY <1>0, <1>1, CacheMoves
      <3>2. \E i \in DOMAIN due : due[i] = k
        BY <1>1, <2>2 DEF Due, Owes
      <3>3. \E i \in DOMAIN Tail(due) : Tail(due)[i] = k
        BY <1>1, <1>2, <1>5, <3>2, DueTail
      <3> QED
        BY <3>1, <3>3 DEF Due, Owes
    <2>3. k \in raced => k \in raced'
      BY <1>1, <1>2
    <2> QED
      BY <1>0, <1>1, <2>1, <2>2, <2>3, AccountedStays
  <1> QED
    BY <1>4, <1>5, StaleAccounted

LEMMA PublishIsFresh ==
    ASSUME CacheInv, NEW r \in CacheReq, Publish(r)
    PROVE  StaleOnlyByRace'
  <1>0. /\ CacheTypeOK /\ \A k \in Key : Stale(k) => Accounted(k)
        /\ CacheGoto(r, CacheIdle) /\ cacheReq[r].due = <<>>
        /\ UNCHANGED <<activity, ratings, cache, raced>>
    BY StaleAccounted DEF CacheInv, Publish, CacheFinish
  <1>1. \A k : ~Due(r, k)
    BY <1>0 DEF Due, Owes
  <1>2. \A k \in Key : Stale(k)' => Stale(k)
    BY <1>0, ViewStays DEF Stale
  <1>3. \A k \in Key : Accounted(k) => Accounted(k)'
    BY <1>0, <1>1, AccountedStays
  <1> QED
    BY <1>0, <1>2, <1>3, StaleAccounted

\* A request that stops loses the deletions it owes.
LEMMA AbandonIsFresh ==
    ASSUME CacheInv, NEW r \in CacheReq, CacheAbandon(r)
    PROVE  StaleOnlyByRace'
  <1>0. /\ CacheTypeOK /\ \A k \in Key : Stale(k) => Accounted(k)
        /\ CacheGoto(r, CacheIdle)
        /\ UNCHANGED <<activity, ratings, cache>>
        /\ raced' = IF cacheReq[r].at = "invalidate"
                      THEN raced \cup {k \in Key : cache[k] # Miss
                                                     /\ Owes(r, k)}
                      ELSE raced
    BY StaleAccounted DEF CacheInv, CacheAbandon, CacheFinish
  <1>1. ASSUME NEW k \in Key, Stale(k)' PROVE Accounted(k)'
    <2>1. Stale(k) /\ Accounted(k)
      BY <1>0, <1>1, ViewStays DEF Stale
    <2>2. CASE Due(r, k)
      BY <1>0, <2>1, <2>2 DEF Due, Stale, Accounted
    <2>3. CASE ~Due(r, k)
      BY <1>0, <2>1, <2>3, AccountedStays
    <2> QED
      BY <2>2, <2>3
  <1> QED
    BY <1>1, StaleAccounted

LEMMA ExpireIsFresh ==
    ASSUME CacheInv, NEW k \in Key, ExpireEntry(k)
    PROVE  StaleOnlyByRace'
  <1>0. /\ CacheTypeOK /\ \A j \in Key : Stale(j) => Accounted(j)
        /\ UNCHANGED <<activity, ratings, cacheReq>>
        /\ raced' = raced \ {k}
    BY StaleAccounted DEF CacheInv, ExpireEntry
  <1>1. cache'[k] = Miss /\ \A j \in Key \ {k} : cache'[j] = cache[j]
    BY <1>0, CacheWith DEF ExpireEntry
  <1>2. ~Stale(k)'
    BY <1>1 DEF Stale
  <1>3. ASSUME NEW j \in Key \ {k}, Stale(j)' PROVE Accounted(j)'
    <2>1. Accounted(j)
      BY <1>0, <1>1, <1>3, ViewStays DEF Stale
    <2> QED
      BY <1>0, <2>1 DEF Accounted, Due, Owes
  <1> QED
    BY <1>2, <1>3, StaleAccounted

\* What is neither the work of a request nor an expiry.
LEMMA RestIsFresh ==
    ASSUME CacheInv, (\E u \in Rater : Attend(u)) \/ UNCHANGED cacheVars
    PROVE  StaleOnlyByRace'
  <1>1. UNCHANGED <<activity, ratings, cache, cacheReq, raced>>
    BY DEF Attend, cacheVars
  <1>2. \A k \in Key : Stale(k) => Accounted(k)
    BY StaleAccounted DEF CacheInv
  <1>3. \A k \in Key : Stale(k)' => Stale(k)
    BY <1>1, ViewStays DEF Stale
  <1>4. \A k \in Key : Accounted(k) => Accounted(k)'
    BY <1>1 DEF Accounted, Due, Owes
  <1> QED
    BY <1>2, <1>3, <1>4, StaleAccounted

\* The statements that only read.
LEMMA ReadIsFresh ==
    ASSUME CacheInv, NEW r \in CacheReq,
           \/ \E k \in Key : GetCached(r, k)
           \/ ReadTable(r)
           \/ \E verdict \in Verdict : ReviewFind(r, verdict)
           \/ ReviewUpdate(r) /\ ~SameVersion(cacheReq[r].version)
           \/ \E u \in Rater, score \in Score : RateCheck(r, u, score)
    PROVE  StaleOnlyByRace'
  <1>1. /\ cacheReq[r].at # "invalidate"
        /\ UNCHANGED <<activity, ratings, cache, raced>>
    BY CacheIdleIsRequest
       DEF GetCached, ReadTable, ReviewFind, ReviewUpdate, RateCheck
  <1>2. \E s : CacheGoto(r, s)
    BY DEF GetCached, ReadTable, ReviewFind, ReviewUpdate, RateCheck,
           CacheFinish
  <1> QED
    BY <1>1, <1>2, QuietIsFresh

LEMMA CacheInvStep == CacheInv /\ [CacheNext]_cacheVars => CacheInv'
  <1> SUFFICES ASSUME CacheInv, [CacheNext]_cacheVars PROVE CacheInv'
    OBVIOUS
  <1>1. CacheTypeOK'
    BY CacheTypeOKStep DEF CacheInv
  <1>2. Keeps
    BY CreateKeeps, GetKeeps, ReviewKeeps, RateKeeps, InvalidateKeeps,
       OthersKeep DEF CacheNext, Serve
  <1>3. StaleOnlyByRace'
    <2>1. ASSUME NEW r \in CacheReq, Serve(r) PROVE StaleOnlyByRace'
      <3>1. CASE Get(r)
        BY <3>1, ReadIsFresh, SetIsFresh DEF Get
      <3>2. CASE Review(r)
        BY <3>2, ReadIsFresh, ReviewIsFresh DEF Review
      <3>3. CASE Rate(r)
        BY <3>3, ReadIsFresh, RateIsFresh DEF Rate
      <3> QED
        BY <2>1, <3>1, <3>2, <3>3, CreateIsFresh, InvalidateIsFresh,
           PublishIsFresh, AbandonIsFresh DEF Serve
    <2> QED
      BY <2>1, ExpireIsFresh, RestIsFresh DEF CacheNext
  <1> QED
    BY <1>1, <1>2, <1>3 DEF CacheInv, Keeps

THEOREM CacheInvariant == CacheSpec => []CacheInv
  BY CacheInitInv, CacheInvStep, PTL DEF CacheSpec

\* However readers, writers and failing calls to Redis interleave: an entry
\* that is stale is about to be deleted, unless it was stored late or its
\* deletion was lost.
THEOREM StaleIsAccountedFor == CacheSpec => []StaleOnlyByRace
  <1>1. CacheInv => StaleOnlyByRace
    BY DEF CacheInv
  <1> QED
    BY <1>1, CacheInvariant, PTL

\* However late an entry is stored and whoever reviews at once: a verdict that
\* a notice or an entry tells of is the one that stands.
THEOREM NoWrongVerdictIsTold == CacheSpec => []VerdictsToldStand
  <1>1. CacheInv => VerdictsToldStand
    BY DEF CacheInv, EntriesHold, NoticesHold, Stands, VerdictsToldStand
  <1> QED
    BY <1>1, CacheInvariant, PTL
=============================================================================
