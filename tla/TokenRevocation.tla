--------------------------- MODULE TokenRevocation ---------------------------
(***************************************************************************)
(* Tokens of the hub from their signing to their revocation:               *)
(* JwtTokenService (src/authub/tokens/jwt.py), InMemoryRevocationStore     *)
(* (src/authub/tokens/base.py), Authub.verify_token and                    *)
(* issue_service_token (src/authub/hub.py), the end of                     *)
(* LoginFlow.complete (src/authub/flow.py) and POST /logout                *)
(* (src/authub/web/router.py), with a revocation store configured.         *)
(*                                                                         *)
(* verify_token awaits the store and then the plugins, so a verification   *)
(* is a process with a pc; other verifications, logouts and the clock run  *)
(* in between.  A jti (uuid4) is the next number.  The heap is the set of  *)
(* its items: eviction pops all the equal ones in one go.                  *)
(***************************************************************************)
EXTENDS Naturals, Sequences

CONSTANTS
  Requests,     \* concurrent requests: verifications and logouts
  NoExp,        \* the exp of a token, or of a revocation, that has none
  UserTtl,      \* user_token_ttl
  ServiceTtls,  \* the ttl values given to issue_service_token, None apart
  Leeway,       \* leeway of JwtTokenService
  MaxTokens,    \* bound: tokens signed
  MaxTime       \* bound: the clock stops here

ASSUME RevocationAssumption ==
  /\ NoExp \notin Nat
  /\ UserTtl \in Nat /\ ServiceTtls \subseteq Nat /\ Leeway \in Nat

VARIABLES
  now,      \* int(time.time())
  store,    \* _store: its (jti, exp) entries
  heap,     \* _heap: its (exp, jti) items
  req,      \* what each request has in its local variables
  tokens,   \* history: the tokens signed, by jti
  revoked,  \* history: the jtis given to revoke
  passed    \* history: the claims returned for tokens revoked before

vars == <<now, store, heap, req, tokens, revoked, passed>>

Exp == Nat \cup {NoExp}
Token == [token_type : {"user", "service"}, exp : Exp]
Entry == [jti : Nat, exp : Exp]
Item == [exp : Nat, jti : Nat]

\* late: the token had been revoked when the verification began; checked: when
\* the store was asked.  Only late verifications are recorded.
Pass == [jti : Nat, checked : Nat]

Idle == [pc |-> "idle"]
Revoking == [pc : {"revoke"}, jti : Nat]
Asking == [pc : {"is_revoked"}, jti : Nat, late : BOOLEAN]
Passing == [pc : {"on_token_verify"}, jti : Nat, late : BOOLEAN, checked : Nat]

TypeOK ==
  /\ now \in Nat
  /\ store \subseteq Entry
  /\ \A d, e \in store : d.jti = e.jti => d = e
  /\ heap \subseteq Item
  /\ req \in [Requests -> {Idle} \cup Revoking \cup Asking \cup Passing]
  /\ tokens \in Seq(Token)
  /\ revoked \subseteq Nat
  /\ passed \subseteq Pass

Init ==
  /\ now = 0
  /\ store = {}
  /\ heap = {}
  /\ req = [r \in Requests |-> Idle]
  /\ tokens = <<>>
  /\ revoked = {}
  /\ passed = {}

-----------------------------------------------------------------------------
(* The revocation store. *)

HasExpired(exp) == exp # NoExp /\ exp <= now

Due == {item \in heap : item.exp <= now}

\* Mutant: the entry of an item that is due goes, whatever exp the entry has.
Evicted_ByItem == {e \in store : \E item \in Due : item.jti = e.jti}

\* _evict_expired: the entries deleted.  A later call of revoke may have given
\* the entry another exp than the item has.
Evicted == {e \in store : HasExpired(e.exp) /\ \E item \in Due : item.jti = e.jti}

EvictExpired ==
  /\ heap' = heap \ Due
  /\ store' = store \ Evicted

\* is_revoked looks the jti up in what eviction leaves.
IsRevoked(jti) == \E e \in store \ Evicted : e.jti = jti

\* Mutant: a second revocation adds an entry.
Revoke_Twofold(jti, exp) ==
  /\ store' = store \cup {[jti |-> jti, exp |-> exp]}
  /\ heap' = IF exp = NoExp THEN heap ELSE heap \cup {[exp |-> exp, jti |-> jti]}

\* Mutant: no item is pushed for a jti that has an entry.
Revoke_PushOnce(jti, exp) ==
  /\ store' = {e \in store : e.jti # jti} \cup {[jti |-> jti, exp |-> exp]}
  /\ heap' = IF exp = NoExp \/ (\E e \in store : e.jti = jti) THEN heap
             ELSE heap \cup {[exp |-> exp, jti |-> jti]}

\* Mutant: a revocation without exp is ignored like an expired one.
Revoke_FiniteOnly(jti, exp) ==
  IF exp = NoExp THEN UNCHANGED <<store, heap>>
  ELSE /\ store' = {e \in store : e.jti # jti} \cup {[jti |-> jti, exp |-> exp]}
       /\ heap' = heap \cup {[exp |-> exp, jti |-> jti]}

Revoke(jti, exp) ==
  \/ HasExpired(exp) /\ UNCHANGED <<store, heap>>
  \/ /\ ~HasExpired(exp)
     /\ store' = {e \in store : e.jti # jti} \cup {[jti |-> jti, exp |-> exp]}
     /\ heap' = IF exp = NoExp THEN heap ELSE heap \cup {[exp |-> exp, jti |-> jti]}

-----------------------------------------------------------------------------
(* Signing.  before_issue_token may drop the exp that build_user_claims set. *)

Sign(token) ==
  /\ Len(tokens) < MaxTokens
  /\ tokens' = Append(tokens, token)
  /\ UNCHANGED <<now, store, heap, req, revoked, passed>>

IssueUserToken(exp) == Sign([token_type |-> "user", exp |-> exp])
IssueServiceToken(exp) == Sign([token_type |-> "service", exp |-> exp])

-----------------------------------------------------------------------------
(* Verification and logout. *)

\* tokens.verify returns claims: exp lies at most Leeway back, and only a
\* service token may lack it.
Verifies(jti) ==
  /\ jti \in DOMAIN tokens
  /\ \/ tokens[jti].exp = NoExp /\ tokens[jti].token_type = "service"
     \/ tokens[jti].exp # NoExp /\ now <= tokens[jti].exp + Leeway

VerifyToken(r, jti) ==
  /\ req[r] = Idle
  /\ Verifies(jti)
  /\ req' = [req EXCEPT ![r] =
       [pc |-> "is_revoked", jti |-> jti, late |-> jti \in revoked]]
  /\ UNCHANGED <<now, store, heap, tokens, revoked, passed>>

CheckRevocation(r) ==
  LET v == req[r]
  IN /\ v.pc = "is_revoked"
     /\ EvictExpired
     /\ req' = [req EXCEPT ![r] =
          IF IsRevoked(v.jti) THEN Idle
          ELSE [pc |-> "on_token_verify", jti |-> v.jti, late |-> v.late,
                checked |-> now]]
     /\ UNCHANGED <<now, tokens, revoked, passed>>

\* A plugin that raises ends the verification in RequestFails.
VerifiedByPlugins(r) ==
  LET v == req[r]
  IN /\ v.pc = "on_token_verify"
     /\ passed' = passed \cup
          (IF v.late THEN {[jti |-> v.jti, checked |-> v.checked]} ELSE {})
     /\ req' = [req EXCEPT ![r] = Idle]
     /\ UNCHANGED <<now, store, heap, tokens, revoked>>

\* Logout asks only tokens.verify: a token may be logged out again.
Logout(r, jti) ==
  /\ req[r] = Idle
  /\ Verifies(jti)
  /\ req' = [req EXCEPT ![r] = [pc |-> "revoke", jti |-> jti]]
  /\ UNCHANGED <<now, store, heap, tokens, revoked, passed>>

LogoutRevokes(r) ==
  LET jti == req[r].jti
  IN /\ req[r].pc = "revoke"
     /\ Revoke(jti, tokens[jti].exp)
     /\ revoked' = revoked \cup {jti}
     /\ req' = [req EXCEPT ![r] = Idle]
     /\ UNCHANGED <<now, tokens, passed>>

\* The application revokes a token itself, until its exp or for good.
ApplicationRevokes(jti, exp) ==
  /\ Revoke(jti, exp)
  /\ revoked' = revoked \cup {jti}
  /\ UNCHANGED <<now, req, tokens, passed>>

\* The injected store or a plugin raises before it changes anything.
RequestFails(r) ==
  /\ req[r] # Idle
  /\ req' = [req EXCEPT ![r] = Idle]
  /\ UNCHANGED <<now, store, heap, tokens, revoked, passed>>

Tick ==
  /\ now < MaxTime
  /\ now' = now + 1
  /\ UNCHANGED <<store, heap, req, tokens, revoked, passed>>

-----------------------------------------------------------------------------
Issue ==
  \/ \E exp \in {now + UserTtl, NoExp} : IssueUserToken(exp)
  \/ \E exp \in {now + ttl : ttl \in ServiceTtls} \cup {NoExp} : IssueServiceToken(exp)

Request(r) ==
  \/ \E jti \in DOMAIN tokens : VerifyToken(r, jti) \/ Logout(r, jti)
  \/ CheckRevocation(r) \/ VerifiedByPlugins(r) \/ LogoutRevokes(r)
  \/ RequestFails(r)

Next ==
  \/ Issue
  \/ \E r \in Requests : Request(r)
  \/ \E jti \in DOMAIN tokens :
       \E exp \in {tokens[jti].exp, NoExp} : ApplicationRevokes(jti, exp)
  \/ Tick

Spec == Init /\ [][Next]_vars

-----------------------------------------------------------------------------
(* Properties. *)

\* A verification that begins after the token was revoked fails, unless the
\* store is asked at or after the exp of the token: a token without exp is
\* rejected for good, also when logouts, evictions and verifications overlap.
RevokedRejectedUntilExp ==
  \A p \in passed :
    tokens[p.jti].exp # NoExp /\ p.checked >= tokens[p.jti].exp

\* Every entry that can expire has an item that will evict it, also when the
\* same jti is revoked again with another exp: entries do not pile up.
EveryEntryHasItsItem ==
  \A e \in store : e.exp # NoExp => [exp |-> e.exp, jti |-> e.jti] \in heap

\* A jti is forgotten only once its latest exp has passed, never by an item
\* that an earlier revocation of the same jti left in the heap.
ForgottenOnlyExpired ==
  [][\A e \in store :
       (\A f \in store' : f.jti # e.jti) => HasExpired(e.exp)]_vars

\* What the README says of POST /auth/logout, "Revoke the current token": a
\* verification that begins after the revocation fails.
RevokedStaysRejected == passed = {}
=============================================================================
