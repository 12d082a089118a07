------------------------------ MODULE Sessions ------------------------------
(***************************************************************************)
(* Signing in with JSON Web Tokens: a login gives an access and a refresh  *)
(* token (accounts/serializers.py, SIMPLE_JWT), a refresh token buys more  *)
(* access tokens, and a request presents one.  Nothing is kept of a token  *)
(* on the server, and none is ever revoked; the account is read again for  *)
(* every request, when it enters, and may change while it is served.       *)
(***************************************************************************)
EXTENDS TicketPermissions, Integers

CONSTANTS
  Users, Workers,
  AccessLifetime,     \* ACCESS_TOKEN_LIFETIME
  RefreshLifetime,    \* REFRESH_TOKEN_LIFETIME
  MaxClock,           \* bound on the clock
  MaxChanges          \* bound on what the administrator does

ASSUME SessionAssumption ==
  /\ {AccessLifetime, RefreshLifetime} \subseteq Nat \ {0}
  /\ {MaxClock, MaxChanges} \subseteq Nat
  /\ None \notin Users

VARIABLES
  clock,
  account,   \* account[u]: the role of u, and whether u is active
  tokens,    \* the tokens that were handed out
  serving,   \* serving[w]: the request worker w is at, or None
  changes    \* how often an account was changed

sessionVars == <<clock, account, tokens, serving, changes>>

(* A token: its claims, and when its user signed in, which no token says.  *)
Token == [type: {"access", "refresh"}, user: Users, role: Role,
          exp: Nat, signed_in: Nat]

Init ==
  /\ clock = 0 /\ changes = 0
  /\ \E role \in [Users -> Role] :
       account = [u \in Users |-> [role |-> role[u], is_active |-> TRUE]]
  /\ tokens = {}
  /\ serving = [w \in Workers |-> None]

Issue(type, user, role, since) ==
  [type |-> type, user |-> user, role |-> role, signed_in |-> since,
   exp |-> clock + (IF type = "access" THEN AccessLifetime ELSE RefreshLifetime)]

Valid(token, type) == token.type = type /\ clock < token.exp

-----------------------------------------------------------------------------
(* POST /auth/token/: both tokens bear the role of the moment.             *)
Login(u) ==
  /\ account[u].is_active
  /\ tokens' = tokens \cup
       {Issue(type, u, account[u].role, clock) : type \in {"access", "refresh"}}
  /\ UNCHANGED <<clock, account, serving, changes>>

(* A variant that TLC must refute: ROTATE_REFRESH_TOKENS.                  *)
RefreshRotates(token) ==
  /\ Valid(token, "refresh") /\ account[token.user].is_active
  /\ tokens' = tokens \cup
       {Issue(type, token.user, token.role, token.signed_in) : type \in {"access", "refresh"}}
  /\ UNCHANGED <<clock, account, serving, changes>>

(* POST /auth/token/refresh/: an access token with the claims of the       *)
(* refresh token, the role it had then among them.                         *)
Refresh(token) ==
  /\ Valid(token, "refresh") /\ account[token.user].is_active
  /\ tokens' = tokens \cup {Issue("access", token.user, token.role, token.signed_in)}
  /\ UNCHANGED <<clock, account, serving, changes>>

(* A variant that TLC must refute: the rights are those the token claims.  *)
RoleFromToken(token) == token.role

(* The role a request acts in: that of the account as it enters.           *)
RoleOfRequest(token) == account[token.user].role

(* JWTAuthentication lets a request in, and loads its user.  had collects  *)
(* what the account has been while the request was served.                 *)
Authenticate(w, token) ==
  /\ serving[w] = None
  /\ Valid(token, "access") /\ account[token.user].is_active
  /\ serving' = [serving EXCEPT ![w] =
       [user |-> token.user, role |-> RoleOfRequest(token),
        since |-> clock - token.signed_in, had |-> {account[token.user].role}]]
  /\ UNCHANGED <<clock, account, tokens, changes>>

(* The request is carried out, or refused, with the rights of that role.   *)
Finish(w) ==
  /\ serving[w] # None
  /\ serving' = [serving EXCEPT ![w] = None]
  /\ UNCHANGED <<clock, account, tokens, changes>>

(* An administrator gives u a role, or takes the account out of use, or    *)
(* puts it back.                                                           *)
ChangeAccount(u) ==
  /\ changes < MaxChanges
  /\ \E role \in Role, active \in BOOLEAN :
       /\ account' = [account EXCEPT ![u] = [role |-> role, is_active |-> active]]
       /\ serving' = [w \in Workers |->
            IF serving[w] # None /\ serving[w].user = u
            THEN [serving[w] EXCEPT !.had = @ \cup {role}] ELSE serving[w]]
  /\ changes' = changes + 1
  /\ UNCHANGED <<clock, tokens>>

(* An expired token is of no use any more, and forgotten.                  *)
Tick ==
  /\ clock < MaxClock
  /\ clock' = clock + 1
  /\ tokens' = {token \in tokens : clock' < token.exp}
  /\ UNCHANGED <<account, serving, changes>>

Next ==
  \/ Tick
  \/ \E u \in Users : Login(u) \/ ChangeAccount(u)
  \/ \E token \in tokens : Refresh(token) \/ (\E w \in Workers : Authenticate(w, token))
  \/ \E w \in Workers : Finish(w)

Spec == Init /\ [][Next]_sessionVars

-----------------------------------------------------------------------------
(* A token never outlives the sign-in it goes back to by more than both    *)
(* lifetimes, however often it is refreshed, and no request is served with *)
(* one that does.  [ROTATE_REFRESH_TOKENS, ACCESS_TOKEN_LIFETIME]          *)
SessionEnds ==
  /\ \A token \in tokens : token.exp < token.signed_in + RefreshLifetime + AccessLifetime
  /\ \A w \in Workers :
       serving[w] # None => serving[w].since < RefreshLifetime + AccessLifetime

Context(w, holder, target) ==
  AccessContext(serving[w].user, serving[w].role, holder, target)

(* What a request may do is what an account with that user's role may do,  *)
(* and the user had that role while the request was served: neither a      *)
(* token from before a demotion nor one from before a promotion gives the  *)
(* rights of then.  [JWTAuthentication reads the account, permissions.py]  *)
NoRightsFromBefore ==
  \A w \in Workers : serving[w] # None =>
    \A action \in Action, holder, target \in Users \cup {None} :
      IsAllowed(action, Context(w, holder, target)) =>
        \E role \in serving[w].had :
          IsAllowed(action, AccessContext(serving[w].user, role, holder, target))
=============================================================================
