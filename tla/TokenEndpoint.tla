---------------------------- MODULE TokenEndpoint ----------------------------
(***************************************************************************)
(* POST /token and GET /userinfo of AuthubIdp (src/authub/idp/provider.py)   *)
(* over the grant store.                                                    *)
(*                                                                         *)
(* A handler suspends wherever it awaits the injected grant store or user  *)
(* store, and other handlers and the clock run there.  So a request is a   *)
(* process whose pc names the store call it is about to make; one action   *)
(* is that call and the code up to the next call or the response.  The     *)
(* first call of a handler (consume_code, rotate_refresh_token) belongs to *)
(* the action that starts it, client authentication before it being        *)
(* stateless.                                                              *)
(*                                                                         *)
(* History variables (authorized, minted, familyOrigin, rotated,           *)
(* provenance) are read by no handler.  Their lengths also number the      *)
(* random strings: a fresh token is the next position.                     *)
(***************************************************************************)
EXTENDS IdpGrantStore

CONSTANTS
  Requests,        \* concurrent requests to /token
  PublicClients,   \* clients without a client_secret
  CodeTtl,         \* code_ttl_seconds
  TokenTtl,        \* token_ttl_seconds
  RefreshTtl,      \* refresh_token_ttl_seconds
  MaxCodes,        \* bound: codes issued
  MaxExchanges     \* bound: access tokens issued

ASSUME BoundAssumption == MaxExchanges \in Nat
ASSUME TtlAssumption == CodeTtl \in Nat /\ TokenTtl \in Nat /\ RefreshTtl \in Nat

VARIABLES
  users,         \* subjects the user store knows
  req,           \* what each request has in its local variables
  authorized,    \* history: the codes issued, by code
  provenance,    \* history: what each access token was issued for, by token
  minted,        \* history: the refresh tokens built, by token
  familyOrigin,  \* history: the code each refresh family stems from, by family_id
  rotated        \* history: the refresh tokens rotated with outcome ACTIVE

histVars == <<authorized, provenance, minted, familyOrigin, rotated>>
vars == <<storeVars, users, req, histVars>>

-----------------------------------------------------------------------------
(* Requests. *)

Idle == [pc |-> "idle"]

\* A request that has consumed its credential, `source`: a code or a refresh
\* token.  token and expires_at are those of the token it is about to save.
Exchange ==
  [pc : {"get_by_sub", "save_access_token", "save_refresh_token"},
   grant : {"authorization_code", "refresh_token"}, source : Nat,
   client_id : Clients, sub : Subs, scope : SUBSET Scopes,
   family_id : Nat, token : Nat, expires_at : Nat]

Provenance == [grant : {"authorization_code", "refresh_token"}, source : Nat]

TypeOK ==
  /\ StoreTypeOK
  /\ users \subseteq Subs
  /\ req \in [Requests -> {Idle} \cup Exchange]
  /\ authorized \in Seq(AuthCode)
  /\ provenance \in Seq(Provenance)
  /\ minted \in Seq(RefreshToken)
  /\ familyOrigin \in Seq(Nat)
  /\ rotated \subseteq Nat

Init ==
  /\ StoreInit
  /\ users = Subs
  /\ req = [r \in Requests |-> Idle]
  /\ authorized = <<>>
  /\ provenance = <<>>
  /\ minted = <<>>
  /\ familyOrigin = <<>>
  /\ rotated = {}

At(r, pc) == req[r].pc = pc

\* The code that a consumed credential goes back to.
CodeBehind(x) == IF x.grant = "authorization_code" THEN x.source
                 ELSE familyOrigin[minted[x.source].family_id]

-----------------------------------------------------------------------------
(* The /authorize side, whole: a code for parameters that passed            *)
(* _validate_authorize_params.  Which URIs a client registered does not    *)
(* matter here; AuthorizeEndpoint has it.                                  *)

IssueCode(client, uri, scope, sub, challenge) ==
  LET code == [code |-> Len(authorized) + 1, client_id |-> client,
               redirect_uri |-> uri, scope |-> scope, sub |-> sub,
               code_challenge |-> challenge, expires_at |-> now + CodeTtl]
  IN /\ Len(authorized) < MaxCodes
     /\ "openid" \in scope
     /\ client \in PublicClients => challenge # NoChallenge
     /\ SaveCode(code)
     /\ authorized' = Append(authorized, code)
     /\ UNCHANGED <<users, req, provenance, minted, familyOrigin, rotated>>

-----------------------------------------------------------------------------
(* _handle_authorization_code, to the lookup of the user. *)

RedeemedBy(code, client, uri, verifier) ==
  /\ code.client_id = client
  /\ code.redirect_uri = uri
  /\ code.code_challenge \in {NoChallenge, S256(verifier)}

\* consume_code pops the code whether or not the request turns out to be for it.
RedeemCode(r, client, key, uri, verifier) ==
  /\ req[r] = Idle
  /\ ConsumeCode(key)
  /\ \/ \E code \in CodeFor(key) :
          /\ RedeemedBy(code, client, uri, verifier)
          /\ req' = [req EXCEPT ![r] =
               [pc |-> "get_by_sub", grant |-> "authorization_code",
                source |-> key, client_id |-> client, sub |-> code.sub,
                scope |-> code.scope, family_id |-> 0, token |-> 0,
                expires_at |-> 0]]
     \/ /\ \A code \in CodeFor(key) : ~RedeemedBy(code, client, uri, verifier)
        /\ UNCHANGED req
  /\ UNCHANGED <<users, histVars>>

-----------------------------------------------------------------------------
(* _handle_refresh_token, to the lookup of the user, by rotation outcome. *)

RefreshReuse(r, key) ==
  /\ req[r] = Idle
  /\ RotateReuse(key)
  /\ UNCHANGED <<users, req, histVars>>

RefreshInvalid(r, key) ==
  /\ req[r] = Idle
  /\ RotateInvalid(key)
  /\ UNCHANGED <<users, req, histVars>>

\* Mutant: the inclusion of the scopes is tested the wrong way round.
RefreshedBy_Swapped(rt, client, requested) ==
  rt.client_id = client /\ rt.scope \subseteq requested

RefreshedBy(rt, client, requested) ==
  /\ rt.client_id = client
  /\ requested \subseteq rt.scope

\* Mutant: without a requested scope, the scope first authorized is granted.
EffectiveScope_Original(rt, requested) ==
  IF requested = {} THEN authorized[familyOrigin[rt.family_id]].scope ELSE requested

\* requested = {} is a form without a scope.
EffectiveScope(rt, requested) == IF requested = {} THEN rt.scope ELSE requested

\* The token is spent before client and scope are looked at: a refused request
\* leaves it consumed.
RefreshActive(r, client, rt, requested) ==
  /\ req[r] = Idle
  /\ RotateActive(rt)
  /\ rotated' = rotated \cup {rt.token}
  /\ \/ /\ RefreshedBy(rt, client, requested)
        /\ req' = [req EXCEPT ![r] =
             [pc |-> "get_by_sub", grant |-> "refresh_token",
              source |-> rt.token, client_id |-> client, sub |-> rt.sub,
              scope |-> EffectiveScope(rt, requested),
              family_id |-> rt.family_id, token |-> 0, expires_at |-> 0]]
     \/ /\ ~RefreshedBy(rt, client, requested)
        /\ UNCHANGED req
  /\ UNCHANGED <<users, authorized, provenance, minted, familyOrigin>>

-----------------------------------------------------------------------------
(* What both handlers do from there. *)

UserGone(r) ==
  /\ At(r, "get_by_sub")
  /\ req[r].sub \notin users
  /\ req' = [req EXCEPT ![r] = Idle]
  /\ UNCHANGED <<storeVars, users, histVars>>

\* Request x about to save a token.
Saving(x, pc, family_id, token, expires_at) ==
  [pc |-> pc, grant |-> x.grant, source |-> x.source, client_id |-> x.client_id,
   sub |-> x.sub, scope |-> x.scope, family_id |-> family_id, token |-> token,
   expires_at |-> expires_at]

\* The user is found: the access token is drawn and its expiry computed.
UserFound(r) ==
  LET x == req[r]
  IN /\ At(r, "get_by_sub")
     /\ x.sub \in users
     /\ Len(provenance) < MaxExchanges
     /\ req' = [req EXCEPT ![r] = Saving(x, "save_access_token", x.family_id,
                                         Len(provenance) + 1, now + TokenTtl)]
     /\ provenance' = Append(provenance, [grant |-> x.grant,
                                          source |-> x.source])
     /\ UNCHANGED <<storeVars, users, authorized, minted, familyOrigin, rotated>>

\* Mutant: the token is saved without its scope.
PendingAccessToken_NoScope(x) == [token |-> x.token, sub |-> x.sub,
                                  expires_at |-> x.expires_at]

PendingAccessToken(x) == [token |-> x.token, sub |-> x.sub,
                          expires_at |-> x.expires_at, scope |-> x.scope]

\* A code grant without offline_access ends here.
SaveAccessAndRespond(r) ==
  /\ At(r, "save_access_token")
  /\ req[r].grant = "authorization_code"
  /\ "offline_access" \notin req[r].scope
  /\ SaveAccessToken(PendingAccessToken(req[r]))
  /\ req' = [req EXCEPT ![r] = Idle]
  /\ UNCHANGED <<users, histVars>>

PendingRefreshToken(x) == [token |-> x.token, sub |-> x.sub,
                           client_id |-> x.client_id, scope |-> x.scope,
                           family_id |-> x.family_id,
                           expires_at |-> x.expires_at]

\* The others go on to build a refresh token, a code grant in a fresh family.
SaveAccessAndRotate(r) ==
  LET x == req[r]
      fresh == x.grant = "authorization_code"
      next == Saving(x, "save_refresh_token",
                     IF fresh THEN Len(familyOrigin) + 1 ELSE x.family_id,
                     Len(minted) + 1, now + RefreshTtl)
  IN /\ At(r, "save_access_token")
     /\ fresh => "offline_access" \in req[r].scope
     /\ SaveAccessToken(PendingAccessToken(req[r]))
     /\ req' = [req EXCEPT ![r] = next]
     /\ minted' = Append(minted, PendingRefreshToken(next))
     /\ familyOrigin' = IF fresh THEN Append(familyOrigin, req[r].source)
                        ELSE familyOrigin
     /\ UNCHANGED <<users, authorized, provenance, rotated>>

SaveRefreshAndRespond(r) ==
  /\ At(r, "save_refresh_token")
  /\ SaveRefreshToken(PendingRefreshToken(req[r]))
  /\ req' = [req EXCEPT ![r] = Idle]
  /\ UNCHANGED <<users, histVars>>

\* Nothing catches an exception of an injected store: whatever the request
\* already consumed stays consumed.  So does a crash of a process whose
\* stores are durable.
StoreCallFails(r) ==
  /\ req[r] # Idle
  /\ req' = [req EXCEPT ![r] = Idle]
  /\ UNCHANGED <<storeVars, users, histVars>>

\* The operator's side of the injected user store.
RemoveUser(sub) ==
  /\ sub \in users
  /\ users' = users \ {sub}
  /\ UNCHANGED <<storeVars, req, histVars>>

Tick == ClockTick /\ UNCHANGED <<users, req, histVars>>

-----------------------------------------------------------------------------
(* GET /userinfo only reads: its responses to a bearer token, now. *)

ScopeClaims == [email |-> {"email", "email_verified"},
                profile |-> {"name", "given_name", "family_name",
                             "preferred_username", "picture"}]

FilterClaimsByScope(scope) ==
  UNION {ScopeClaims[s] : s \in scope \cap DOMAIN ScopeClaims}

UserInfo(key) ==
  {[sub |-> a.sub, claims |-> FilterClaimsByScope(a.scope)] :
     a \in {b \in AccessTokenFor(key) : b.sub \in users}}

-----------------------------------------------------------------------------
\* A request presents any string: a token drawn so far, or 0, one that never was.
Presented(drawn) == 0..Len(drawn)

Authorize ==
  \E client \in Clients, uri \in RedirectUris, scope \in SUBSET Scopes,
     sub \in Subs, challenge \in Challenges :
    IssueCode(client, uri, scope, sub, challenge)

Begin(r) ==
  \/ \E client \in Clients, key \in Presented(authorized),
        uri \in RedirectUris, verifier \in Verifiers \cup {""} :
       RedeemCode(r, client, key, uri, verifier)
  \/ \E key \in Presented(minted) : RefreshReuse(r, key) \/ RefreshInvalid(r, key)
  \/ \E client \in Clients, rt \in refreshTokens, requested \in SUBSET Scopes :
       RefreshActive(r, client, rt, requested)

Continue(r) ==
  \/ UserGone(r) \/ UserFound(r)
  \/ SaveAccessAndRespond(r) \/ SaveAccessAndRotate(r)
  \/ SaveRefreshAndRespond(r) \/ StoreCallFails(r)

Next ==
  \/ Authorize
  \/ \E r \in Requests : Begin(r) \/ Continue(r)
  \/ \E sub \in Subs : RemoveUser(sub)
  \/ Tick

Spec == Init /\ [][Next]_vars
-----------------------------------------------------------------------------
(* Properties. *)

\* Each code and each refresh token is exchanged for at most one access token,
\* however the requests that present it interleave, fail or retry
\* (consume_code and rotate_refresh_token are the only guard, two awaits before
\* the token is saved).
OneAccessTokenPerCredential ==
  \A i, j \in DOMAIN provenance :
    /\ provenance[i].grant = provenance[j].grant
    /\ provenance[i].source = provenance[j].source
    => i = j

StoredOf(f) == {rt \in refreshTokens : rt.family_id = f}
CarriersOf(f) == {r \in Requests : req[r] # Idle /\ req[r].family_id = f}

\* A family is in one place: in one token of the store, or in one request that
\* is on its way to save the next, never both, so no interleaving forks it.
OneHolderPerFamily ==
  \A f \in DOMAIN familyOrigin :
    /\ \A a, b \in StoredOf(f) : a = b
    /\ \A r, s \in CarriersOf(f) : r = s
    /\ StoredOf(f) = {} \/ CarriersOf(f) = {}

Under(entry, code) == entry.sub = code.sub /\ entry.scope \subseteq code.scope

\* What an access token opens at /userinfo, stored or about to be, was granted
\* by the code it goes back to, through any chain of refreshes, and is of a user that
\* the user store still has.
AccessWithinAuthorization ==
  /\ \A a \in accessTokens : Under(a, authorized[CodeBehind(provenance[a.token])])
  /\ \A r \in Requests :
       req[r] # Idle => Under(req[r], authorized[CodeBehind(req[r])])
  /\ \A key \in DOMAIN provenance : \A response \in UserInfo(key) :
       LET code == authorized[CodeBehind(provenance[key])]
       IN /\ response.sub = code.sub /\ response.sub \in users
          /\ response.claims \subseteq FilterClaimsByScope(code.scope)

\* Along a family, client and subject stay those of its code, and a scope once
\* dropped never comes back.
FamilyOnlyNarrows ==
  /\ \A t \in DOMAIN minted :
       LET code == authorized[familyOrigin[minted[t].family_id]]
       IN Under(minted[t], code) /\ minted[t].client_id = code.client_id
  /\ \A t, u \in DOMAIN minted :
       t < u /\ minted[t].family_id = minted[u].family_id
         => minted[u].scope \subseteq minted[t].scope

\* Until its own expiry, an exchanged refresh token is recognised when it comes
\* again: no eviction forgets it early, so a replay revokes its family.
ExchangedTokenRemembered ==
  \A t \in rotated : minted[t].expires_at > now => WasConsumed(t)

\* The store and the handlers around it implement the chain of RefreshFamily:
\* a stored token is live until it expires or its family is revoked.
FamilyPhase(f) ==
  LET live == Unexpired(StoredOf(f))
  IN IF f > Len(familyOrigin) THEN [at |-> "unborn"]
     ELSE IF f \in revokedFamilies THEN [at |-> "dead"]
     ELSE IF live # {} THEN [at |-> "live", token |-> (CHOOSE rt \in live : TRUE).token]
     ELSE IF CarriersOf(f) # {} THEN [at |-> "pending"]
     ELSE [at |-> "dead"]

Families == 1..MaxExchanges

Chain == INSTANCE RefreshFamily
           WITH Families <- Families, Tokens <- 1..MaxExchanges,
                phase <- [f \in Families |-> FamilyPhase(f)],
                spent <- rotated

ImplementsRefreshFamily == Chain!Spec
=============================================================================
