--------------------------- MODULE Sessions_proofs ---------------------------
(***************************************************************************)
(* What Sessions promises, for any users, workers, lifetimes and number of *)
(* changes to the accounts.  Both theorems follow from one inductive       *)
(* invariant, which needs to know of a token what it says of its sign-in,  *)
(* and of a request that its role is one it has had.                       *)
(***************************************************************************)
EXTENDS Sessions, TLAPS

(* A refresh token is as old as the sign-in; an access token was bought    *)
(* with one that was still good.                                           *)
TokenOK(token) ==
  /\ token \in Token
  /\ token.signed_in <= clock
  /\ token.type = "refresh" => token.exp = token.signed_in + RefreshLifetime
  /\ token.exp < token.signed_in + RefreshLifetime + AccessLifetime

RequestOK(r) ==
  /\ r.since < RefreshLifetime + AccessLifetime
  /\ r.role \in r.had

SessionInv ==
  /\ clock \in Nat
  /\ account \in [Users -> [role: Role, is_active: BOOLEAN]]
  /\ \A token \in tokens : TokenOK(token)
  /\ serving \in [Workers -> {None} \cup
       [user: Users, role: Role, since: Int, had: SUBSET Role]]
  /\ \A w \in Workers : serving[w] # None => RequestOK(serving[w])

(* The first state has no tokens and serves nobody.                        *)
LEMMA SessionInit == Init => SessionInv
  <1> SUFFICES ASSUME Init PROVE SessionInv
      OBVIOUS
  <1>1. account \in [Users -> [role: Role, is_active: BOOLEAN]]
        BY DEF Init
  <1> QED BY <1>1 DEF Init, SessionInv

(* A token issued for a sign-in that a refresh token still goes back to,   *)
(* or that happens now, is as good as TokenOK asks.                        *)
LEMMA IssuedOK ==
  ASSUME clock \in Nat, NEW u \in Users, NEW role \in Role,
         NEW type \in {"access", "refresh"}, NEW since \in Nat, since <= clock,
         type = "access" => clock < since + RefreshLifetime,
         type = "refresh" => since = clock
  PROVE  TokenOK(Issue(type, u, role, since))
  <1> DEFINE token == Issue(type, u, role, since)
  <1>1. token.type = type /\ token.signed_in = since
        /\ token.exp = clock + (IF type = "access" THEN AccessLifetime ELSE RefreshLifetime)
        BY DEF Issue
  <1>2. token.exp \in Nat
        BY <1>1, SessionAssumption
  <1>3. token \in Token
        BY <1>1, <1>2 DEF Issue, Token
  <1>4. token.exp < since + RefreshLifetime + AccessLifetime
        BY <1>1, SessionAssumption
  <1>5. type = "refresh" => token.exp = since + RefreshLifetime
        BY <1>1
  <1> QED BY <1>1, <1>3, <1>4, <1>5 DEF TokenOK

(* Every action keeps the invariant.                                       *)
LEMMA SessionStep == SessionInv /\ [Next]_sessionVars => SessionInv'
  <1> SUFFICES ASSUME SessionInv, [Next]_sessionVars PROVE SessionInv'
      OBVIOUS
  <1> USE DEF SessionInv
  <1>1. ASSUME NEW u \in Users, Login(u) PROVE SessionInv'
    <2>1. account[u].role \in Role
          OBVIOUS
    <2>2. clock < clock + RefreshLifetime
          BY SessionAssumption
    <2>3. \A type \in {"access", "refresh"} : TokenOK(Issue(type, u, account[u].role, clock))
          BY <2>1, <2>2, IssuedOK
    <2>4. \A token \in tokens' : TokenOK(token)
          BY <1>1, <2>3 DEF Login
    <2> QED BY <1>1, <2>4 DEF Login, TokenOK, RequestOK
  <1>2. ASSUME NEW token \in tokens, Refresh(token) PROVE SessionInv'
    <2>1. TokenOK(token) /\ token.type = "refresh" /\ clock < token.exp
          BY <1>2 DEF Refresh, Valid
    <2>2. TokenOK(Issue("access", token.user, token.role, token.signed_in))
      <3>1. token.user \in Users /\ token.role \in Role /\ token.signed_in \in Nat
            BY <2>1 DEF TokenOK, Token
      <3> QED BY <2>1, <3>1, IssuedOK DEF TokenOK
    <2>3. \A t \in tokens' : TokenOK(t)
          BY <1>2, <2>2 DEF Refresh
    <2> QED BY <1>2, <2>3 DEF Refresh, TokenOK, RequestOK
  <1>3. ASSUME NEW token \in tokens, NEW w \in Workers, Authenticate(w, token)
        PROVE SessionInv'
    <2>1. TokenOK(token) /\ clock < token.exp
          BY <1>3 DEF Authenticate, Valid
    <2>2. /\ token.user \in Users /\ token.signed_in \in Nat /\ token.exp \in Nat
          /\ account[token.user].role \in Role
          BY <2>1 DEF TokenOK, Token
    <2> DEFINE r == [user |-> token.user, role |-> RoleOfRequest(token),
                     since |-> clock - token.signed_in, had |-> {account[token.user].role}]
    <2>3. r \in [user: Users, role: Role, since: Int, had: SUBSET Role]
          BY <2>2 DEF RoleOfRequest
    <2>4. RequestOK(r)
      <3>1. clock - token.signed_in < RefreshLifetime + AccessLifetime
            BY <2>1, <2>2, SessionAssumption DEF TokenOK
      <3> QED BY <3>1 DEF RequestOK, RoleOfRequest
    <2>5. serving' = [serving EXCEPT ![w] = r]
          BY <1>3 DEF Authenticate
    <2>6. /\ serving' \in [Workers -> {None} \cup
               [user: Users, role: Role, since: Int, had: SUBSET Role]]
          /\ \A v \in Workers : serving'[v] # None => RequestOK(serving'[v])
      <3> HIDE DEF r
      <3> QED BY <2>3, <2>4, <2>5
    <2> QED BY <1>3, <2>6 DEF Authenticate, TokenOK, RequestOK
  <1>4. ASSUME NEW w \in Workers, Finish(w) PROVE SessionInv'
        BY <1>4 DEF Finish, TokenOK, RequestOK
  <1>5. ASSUME NEW u \in Users, ChangeAccount(u) PROVE SessionInv'
    <2>1. PICK role \in Role, active \in BOOLEAN :
            /\ account' = [account EXCEPT ![u] = [role |-> role, is_active |-> active]]
            /\ serving' = [w \in Workers |->
                 IF serving[w] # None /\ serving[w].user = u
                 THEN [serving[w] EXCEPT !.had = @ \cup {role}] ELSE serving[w]]
          BY <1>5 DEF ChangeAccount
    <2>2. account' \in [Users -> [role: Role, is_active: BOOLEAN]]
          BY <2>1
    <2>3. ASSUME NEW w \in Workers
          PROVE /\ serving'[w] \in {None} \cup
                     [user: Users, role: Role, since: Int, had: SUBSET Role]
                /\ serving'[w] # None => RequestOK(serving'[w])
      <3>1. CASE serving[w] # None /\ serving[w].user = u
        <4>1. serving[w] \in [user: Users, role: Role, since: Int, had: SUBSET Role]
              BY <3>1
        <4>2. serving'[w] = [serving[w] EXCEPT !.had = @ \cup {role}]
              BY <2>1, <3>1
        <4> QED BY <3>1, <4>1, <4>2 DEF RequestOK
      <3>2. CASE ~(serving[w] # None /\ serving[w].user = u)
            BY <2>1, <3>2
      <3> QED BY <3>1, <3>2
    <2>4. serving' \in [Workers -> {None} \cup
            [user: Users, role: Role, since: Int, had: SUBSET Role]]
          BY <2>1, <2>3
    <2> QED BY <1>5, <2>2, <2>3, <2>4 DEF ChangeAccount, TokenOK, RequestOK
  <1>6. CASE Tick
    <2>1. clock' \in Nat /\ clock <= clock'
          BY <1>6 DEF Tick
    <2>2. ASSUME NEW token \in tokens' PROVE TokenOK(token)'
      <3>1. TokenOK(token)
            BY <1>6 DEF Tick
      <3>2. token.signed_in \in Nat
            BY <3>1 DEF TokenOK, Token
      <3> QED BY <2>1, <3>1, <3>2 DEF TokenOK
    <2> QED BY <1>6, <2>1, <2>2 DEF Tick, RequestOK
  <1>7. CASE UNCHANGED sessionVars
        BY <1>7 DEF sessionVars, TokenOK, RequestOK
  <1> QED BY <1>1, <1>2, <1>3, <1>4, <1>5, <1>6, <1>7 DEF Next

LEMMA SessionAlways == Spec => []SessionInv
  <1> QED BY SessionInit, SessionStep, PTL DEF Spec

(* No refreshing makes a sign-in last longer than both lifetimes, whatever *)
(* the lifetimes are, and no request is served with an older one.          *)
THEOREM SignInsExpire == Spec => []SessionEnds
  <1>1. SessionInv => SessionEnds
        BY DEF SessionInv, SessionEnds, TokenOK, RequestOK
  <1> QED BY <1>1, SessionAlways, PTL

(* Rights follow the account and not the token, for any changes of roles.  *)
THEOREM RightsFollowAccount == Spec => []NoRightsFromBefore
  <1>1. SessionInv => NoRightsFromBefore
        BY DEF SessionInv, NoRightsFromBefore, RequestOK, Context
  <1> QED BY <1>1, SessionAlways, PTL
=============================================================================
