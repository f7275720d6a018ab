---------------------------- MODULE IdpGrantStore ----------------------------
(***************************************************************************)
(* The grant store of the embedded identity provider:                      *)
(* InMemoryIdpGrantStore in src/authub/idp/store.py, the reference          *)
(* implementation of the abstract class IdpGrantStore.                      *)
(*                                                                         *)
(* A dict keyed by a token string is the set of its records, the key being *)
(* a field of the record.  Every method body runs without suspending, so   *)
(* a method is one atomic action; the handlers that await it are in        *)
(* TokenEndpoint and AuthorizeEndpoint.                                    *)
(*                                                                         *)
(* Random strings (secrets.token_urlsafe) are drawn as the next unused     *)
(* number: two draws never collide and carry no other information.         *)
(***************************************************************************)
EXTENDS Naturals, Sequences

CONSTANTS
  Clients,       \* registered client ids
  RedirectUris,  \* redirect URIs clients may name
  Scopes,        \* scope tokens; a scope string is the set of its tokens
  Subs,          \* subjects (IdpUser.sub)
  Verifiers,     \* PKCE code verifiers
  MaxTime        \* bound: the clock stops here

ASSUME MaxTimeAssumption == MaxTime \in Nat

VARIABLES
  now,              \* int(time.time())
  codes,            \* _codes
  accessTokens,     \* _access_tokens
  refreshTokens,    \* _refresh_tokens
  consumedTokens,   \* _consumed_tokens
  revokedFamilies,  \* _revoked_families
  consumedTickets   \* _consumed_consent_tickets

storeVars == <<now, codes, accessTokens, refreshTokens, consumedTokens,
               revokedFamilies, consumedTickets>>

-----------------------------------------------------------------------------
(* What is stored. *)

\* _s256 is injective: a challenge determines its verifier.
S256(verifier) == <<"S256", verifier>>
NoChallenge == <<"none">>
Challenges == {NoChallenge} \cup {S256(v) : v \in Verifiers}

AuthCode == [code : Nat, client_id : Clients, redirect_uri : RedirectUris,
             scope : SUBSET Scopes, sub : Subs, code_challenge : Challenges,
             expires_at : Nat]
AccessToken == [token : Nat, sub : Subs, expires_at : Nat,
                scope : SUBSET Scopes]
RefreshToken == [token : Nat, sub : Subs, client_id : Clients,
                 scope : SUBSET Scopes, family_id : Nat, expires_at : Nat]
ConsentTicketMark == [jti : Nat, expires_at : Nat]

StoreTypeOK ==
  /\ now \in Nat
  /\ codes \subseteq AuthCode
  /\ accessTokens \subseteq AccessToken
  /\ refreshTokens \subseteq RefreshToken
  /\ consumedTokens \subseteq RefreshToken
  /\ revokedFamilies \subseteq Nat
  /\ consumedTickets \subseteq ConsentTicketMark

StoreInit ==
  /\ now = 0
  /\ codes = {}
  /\ accessTokens = {}
  /\ refreshTokens = {}
  /\ consumedTokens = {}
  /\ revokedFamilies = {}
  /\ consumedTickets = {}

-----------------------------------------------------------------------------
(* The methods. *)

Expired(entry) == entry.expires_at <= now
Unexpired(dict) == {entry \in dict : ~Expired(entry)}

SaveCode(code) ==
  /\ codes' = Unexpired(codes) \cup {code}
  /\ UNCHANGED <<now, accessTokens, refreshTokens, consumedTokens,
                 revokedFamilies, consumedTickets>>

\* consume_code pops the entry whatever its age; the caller gets CodeFor(key),
\* empty for None.
CodeFor(key) == {c \in codes : c.code = key /\ ~Expired(c)}

\* Mutant: the code is read, not popped.
ConsumeCode_Get(key) ==
  UNCHANGED <<now, codes, accessTokens, refreshTokens, consumedTokens,
              revokedFamilies, consumedTickets>>

ConsumeCode(key) ==
  /\ codes' = {c \in codes : c.code # key}
  /\ UNCHANGED <<now, accessTokens, refreshTokens, consumedTokens,
                 revokedFamilies, consumedTickets>>

SaveAccessToken(entry) ==
  /\ accessTokens' = Unexpired(accessTokens) \cup {entry}
  /\ UNCHANGED <<now, codes, refreshTokens, consumedTokens, revokedFamilies,
                 consumedTickets>>

AccessTokenFor(key) == {a \in accessTokens : a.token = key /\ ~Expired(a)}

SaveRefreshToken(rt) ==
  /\ consumedTokens' = Unexpired(consumedTokens)
  /\ refreshTokens' = Unexpired(refreshTokens) \cup {rt}
  /\ UNCHANGED <<now, codes, accessTokens, revokedFamilies, consumedTickets>>

RevokeRefreshFamily(family) ==
  LET dead == {rt \in refreshTokens : rt.family_id = family}
  IN /\ revokedFamilies' = revokedFamilies \cup {family}
     /\ refreshTokens' = refreshTokens \ dead
     /\ consumedTokens' = consumedTokens \cup dead
     /\ UNCHANGED <<now, codes, accessTokens, consumedTickets>>

\* rotate_refresh_token, one action per outcome.
WasConsumed(key) == \E rt \in consumedTokens : rt.token = key

\* Mutant: the revocation of the family is not consulted.
Usable_FamilyIgnored(rt) == ~Expired(rt)

Usable(rt) == ~Expired(rt) /\ rt.family_id \notin revokedFamilies

RotateReuse(key) ==
  \E rt \in consumedTokens :
    /\ rt.token = key
    /\ RevokeRefreshFamily(rt.family_id)

RotateInvalid(key) ==
  /\ ~WasConsumed(key)
  /\ \A rt \in refreshTokens : rt.token = key => ~Usable(rt)
  /\ refreshTokens' = {rt \in refreshTokens : rt.token # key}
  /\ UNCHANGED <<now, codes, accessTokens, consumedTokens, revokedFamilies,
                 consumedTickets>>

\* Mutant: the token is read, not popped.
RotateActive_Get(rt) ==
  /\ rt \in refreshTokens
  /\ ~WasConsumed(rt.token)
  /\ Usable(rt)
  /\ consumedTokens' = consumedTokens \cup {rt}
  /\ UNCHANGED <<now, codes, accessTokens, refreshTokens, revokedFamilies,
                 consumedTickets>>

\* Mutant: the token is popped and forgotten.
RotateActive_Forgotten(rt) ==
  /\ rt \in refreshTokens
  /\ ~WasConsumed(rt.token)
  /\ Usable(rt)
  /\ refreshTokens' = refreshTokens \ {rt}
  /\ UNCHANGED <<now, codes, accessTokens, consumedTokens, revokedFamilies,
                 consumedTickets>>

RotateActive(rt) ==
  /\ rt \in refreshTokens
  /\ ~WasConsumed(rt.token)
  /\ Usable(rt)
  /\ refreshTokens' = {other \in refreshTokens : other.token # rt.token}
  /\ consumedTokens' = consumedTokens \cup {rt}
  /\ UNCHANGED <<now, codes, accessTokens, revokedFamilies, consumedTickets>>

\* consume_consent_ticket evicts before it looks the jti up.
TicketSeen(jti) == \E m \in Unexpired(consumedTickets) : m.jti = jti

\* Mutant: the jti is looked up and not recorded.
ConsumeConsentTicket_LookupOnly(jti, expires_at) ==
  /\ consumedTickets' = Unexpired(consumedTickets)
  /\ UNCHANGED <<now, codes, accessTokens, refreshTokens, consumedTokens,
                 revokedFamilies>>

ConsumeConsentTicket(jti, expires_at) ==
  /\ consumedTickets' = Unexpired(consumedTickets) \cup
       (IF TicketSeen(jti) THEN {} ELSE {[jti |-> jti, expires_at |-> expires_at]})
  /\ UNCHANGED <<now, codes, accessTokens, refreshTokens, consumedTokens,
                 revokedFamilies>>

-----------------------------------------------------------------------------
\* time.time() moves between any two steps.
ClockTick ==
  /\ now < MaxTime
  /\ now' = now + 1
  /\ UNCHANGED <<codes, accessTokens, refreshTokens, consumedTokens,
                 revokedFamilies, consumedTickets>>
=============================================================================
