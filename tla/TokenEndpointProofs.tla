------------------------- MODULE TokenEndpointProofs -------------------------
(***************************************************************************)
(* The invariants of TokenEndpoint, for every value of its constants.      *)
(***************************************************************************)
EXTENDS TokenEndpoint, FiniteSetTheorems, TLAPS

-----------------------------------------------------------------------------
(* Types. *)

LEMMA AppendTyped ==
  ASSUME NEW S, NEW seq \in Seq(S), NEW e \in S
  PROVE  /\ Append(seq, e) \in Seq(S)
         /\ Len(Append(seq, e)) = Len(seq) + 1
         /\ Len(seq) \in Nat
         /\ DOMAIN seq = 1..Len(seq)
         /\ \A i \in 1..Len(seq) : Append(seq, e)[i] = seq[i]
         /\ Append(seq, e)[Len(seq) + 1] = e
OBVIOUS

\* Every variable keeps its type: in particular, whatever a handler saves is a
\* well-formed code, access token or refresh token.
THEOREM TypeCorrect == Spec => []TypeOK
<1>1. Init => TypeOK
  BY MaxTimeAssumption DEF Init, StoreInit, TypeOK, StoreTypeOK, Idle
<1>2. TypeOK /\ [Next]_vars => TypeOK'
  <2> SUFFICES ASSUME TypeOK, [Next]_vars PROVE TypeOK'
    OBVIOUS
  <2> USE TtlAssumption DEF TypeOK, StoreTypeOK
  <2>1. ASSUME NEW client \in Clients, NEW uri \in RedirectUris,
               NEW scope \in SUBSET Scopes, NEW sub \in Subs,
               NEW challenge \in Challenges,
               IssueCode(client, uri, scope, sub, challenge)
        PROVE  TypeOK'
    <3> DEFINE code == [code |-> Len(authorized) + 1, client_id |-> client,
                        redirect_uri |-> uri, scope |-> scope, sub |-> sub,
                        code_challenge |-> challenge, expires_at |-> now + CodeTtl]
    <3>1. code \in AuthCode
      BY DEF AuthCode
    <3>2. authorized' \in Seq(AuthCode)
      BY <2>1, <3>1, AppendTyped DEF IssueCode
    <3> QED  BY <2>1, <3>1, <3>2 DEF IssueCode, SaveCode, Unexpired
  <2>2. ASSUME NEW r \in Requests, NEW client \in Clients,
               NEW key \in Presented(authorized), NEW uri \in RedirectUris,
               NEW verifier,
               RedeemCode(r, client, key, uri, verifier)
        PROVE  TypeOK'
    <3>1. req' \in [Requests -> {Idle} \cup Exchange]
      <4>1. CASE UNCHANGED req
        BY <4>1
      <4>2. ASSUME NEW code \in CodeFor(key),
                   req' = [req EXCEPT ![r] =
                     [pc |-> "get_by_sub", grant |-> "authorization_code",
                      source |-> key, client_id |-> client, sub |-> code.sub,
                      scope |-> code.scope, family_id |-> 0, token |-> 0,
                      expires_at |-> 0]]
            PROVE  req' \in [Requests -> {Idle} \cup Exchange]
        BY <4>2, AppendTyped DEF CodeFor, AuthCode, Exchange, Presented
      <4> QED  BY <2>2, <4>1, <4>2 DEF RedeemCode
    <3> QED  BY <2>2, <3>1 DEF RedeemCode, ConsumeCode, histVars
  <2>3. ASSUME NEW r \in Requests, NEW key \in Presented(minted), RefreshReuse(r, key)
        PROVE  TypeOK'
    BY <2>3 DEF RefreshReuse, RotateReuse, RevokeRefreshFamily, RefreshToken, histVars
  <2>4. ASSUME NEW r \in Requests, NEW key \in Presented(minted), RefreshInvalid(r, key)
        PROVE  TypeOK'
    BY <2>4 DEF RefreshInvalid, RotateInvalid, histVars
  <2>5. ASSUME NEW r \in Requests, NEW client \in Clients, NEW rt \in refreshTokens,
               NEW requested \in SUBSET Scopes, RefreshActive(r, client, rt, requested)
        PROVE  TypeOK'
    <3>1. req' \in [Requests -> {Idle} \cup Exchange]
      <4>1. [pc |-> "get_by_sub", grant |-> "refresh_token",
             source |-> rt.token, client_id |-> client, sub |-> rt.sub,
             scope |-> EffectiveScope(rt, requested),
             family_id |-> rt.family_id, token |-> 0, expires_at |-> 0] \in Exchange
        BY DEF RefreshToken, Exchange, EffectiveScope
      <4> QED  BY <2>5, <4>1 DEF RefreshActive
    <3> QED  BY <2>5, <3>1 DEF RefreshActive, RotateActive, RefreshToken
  <2>6. ASSUME NEW r \in Requests, UserGone(r) \/ StoreCallFails(r)
        PROVE  TypeOK'
    BY <2>6 DEF UserGone, StoreCallFails, storeVars, histVars
  <2>7. ASSUME NEW r \in Requests, UserFound(r)
        PROVE  TypeOK'
    <3>1. req[r] \in Exchange
      BY <2>7 DEF UserFound, At, Idle
    <3>2. Saving(req[r], "save_access_token", req[r].family_id,
                 Len(provenance) + 1, now + TokenTtl) \in Exchange
      BY <3>1, AppendTyped DEF Exchange, Saving
    <3>3. [grant |-> req[r].grant, source |-> req[r].source] \in Provenance
      BY <3>1 DEF Exchange, Provenance
    <3>4. provenance' \in Seq(Provenance)
      BY <2>7, <3>3, AppendTyped DEF UserFound
    <3> QED  BY <2>7, <3>2, <3>4 DEF UserFound, storeVars
  <2>8. ASSUME NEW r \in Requests, At(r, "save_access_token")
        PROVE  PendingAccessToken(req[r]) \in AccessToken
    BY <2>8 DEF At, Idle, Exchange, PendingAccessToken, AccessToken
  <2>9. ASSUME NEW r \in Requests, SaveAccessAndRespond(r)
        PROVE  TypeOK'
    BY <2>8, <2>9 DEF SaveAccessAndRespond, SaveAccessToken, Unexpired, histVars
  <2>10. ASSUME NEW r \in Requests, SaveAccessAndRotate(r)
         PROVE  TypeOK'
    <3> DEFINE fresh == req[r].grant = "authorization_code"
               next == Saving(req[r], "save_refresh_token",
                              IF fresh THEN Len(familyOrigin) + 1 ELSE req[r].family_id,
                              Len(minted) + 1, now + RefreshTtl)
    <3>1. req[r] \in Exchange
      BY <2>10 DEF SaveAccessAndRotate, At, Idle
    <3>2. next \in Exchange
      BY <3>1, AppendTyped DEF Exchange, Saving
    <3>3. PendingRefreshToken(next) \in RefreshToken
      BY <3>2 DEF PendingRefreshToken, Exchange, RefreshToken
    <3>4. /\ SaveAccessToken(PendingAccessToken(req[r]))
          /\ req' = [req EXCEPT ![r] = next]
          /\ minted' = Append(minted, PendingRefreshToken(next))
          /\ familyOrigin' = IF fresh THEN Append(familyOrigin, req[r].source)
                              ELSE familyOrigin
          /\ UNCHANGED <<users, authorized, provenance, rotated>>
          /\ At(r, "save_access_token")
      BY <2>10 DEF SaveAccessAndRotate
    <3> HIDE DEF next, fresh
    <3>5. minted' \in Seq(RefreshToken)
      BY <3>3, <3>4, AppendTyped
    <3>6. familyOrigin' \in Seq(Nat)
      BY <3>1, <3>4, AppendTyped DEF Exchange
    <3>7. PendingAccessToken(req[r]) \in AccessToken
      BY <2>8, <3>4
    <3> QED  BY <3>2, <3>4, <3>5, <3>6, <3>7 DEF SaveAccessToken, Unexpired
  <2>11. ASSUME NEW r \in Requests, SaveRefreshAndRespond(r)
         PROVE  TypeOK'
    <3>1. PendingRefreshToken(req[r]) \in RefreshToken
      BY <2>11 DEF SaveRefreshAndRespond, At, Idle, Exchange, PendingRefreshToken,
                   RefreshToken
    <3> QED  BY <2>11, <3>1 DEF SaveRefreshAndRespond, SaveRefreshToken, Unexpired,
                                histVars
  <2>12. ASSUME NEW sub \in Subs, RemoveUser(sub)
         PROVE  TypeOK'
    BY <2>12 DEF RemoveUser, storeVars, histVars
  <2>13. CASE Tick
    BY <2>13 DEF Tick, ClockTick, histVars
  <2>14. CASE UNCHANGED vars
    BY <2>14 DEF vars, storeVars, histVars
  <2> QED
    BY <2>1, <2>2, <2>3, <2>4, <2>5, <2>6, <2>7, <2>9, <2>10, <2>11, <2>12, <2>13,
       <2>14 DEF Next, Authorize, Begin, Continue
<1> QED  BY <1>1, <1>2, PTL DEF Spec

-----------------------------------------------------------------------------
(* What the store and the requests refer to exists, and is what they say. *)

CodesKnown ==
  \A c \in codes : c.code \in 1..Len(authorized) /\ authorized[c.code] = c

RefreshTokensKnown ==
  \A rt \in refreshTokens \cup consumedTokens :
    rt.token \in 1..Len(minted) /\ minted[rt.token] = rt

MintedKnown ==
  /\ rotated \subseteq 1..Len(minted)
  /\ \A t \in 1..Len(minted) :
       minted[t].token = t /\ minted[t].family_id \in 1..Len(familyOrigin)
  /\ \A f \in 1..Len(familyOrigin) : familyOrigin[f] \in 1..Len(authorized)

\* A credential that was consumed: x is a request or a provenance.
Consumed(x) ==
  IF x.grant = "authorization_code" THEN x.source \in 1..Len(authorized)
                                    ELSE x.source \in rotated

ProvenanceKnown == \A i \in 1..Len(provenance) : Consumed(provenance[i])

RequestKnown(x) ==
  /\ Consumed(x)
  /\ x.grant = "refresh_token" => x.family_id = minted[x.source].family_id
  /\ x.grant = "authorization_code" /\ x.pc # "save_refresh_token" => x.family_id = 0
  /\ x.pc = "save_access_token" =>
       /\ x.token \in 1..Len(provenance)
       /\ provenance[x.token] = [grant |-> x.grant, source |-> x.source]
  /\ x.pc = "save_refresh_token" =>
       /\ x.token \in 1..Len(minted)
       /\ minted[x.token] = PendingRefreshToken(x)
       /\ familyOrigin[x.family_id] = CodeBehind(x)

RequestsKnown == \A r \in Requests : req[r] # Idle => RequestKnown(req[r])

Known ==
  /\ CodesKnown
  /\ RefreshTokensKnown
  /\ MintedKnown
  /\ ProvenanceKnown
  /\ RequestsKnown

\* Histories are only appended to.
Extends(seq, old) ==
  Len(old) =< Len(seq) /\ \A i \in 1..Len(old) : seq[i] = old[i]

LEMMA HistoryGrows ==
  ASSUME TypeOK, [Next]_vars
  PROVE  /\ Extends(authorized', authorized)
         /\ Extends(provenance', provenance)
         /\ Extends(minted', minted)
         /\ Extends(familyOrigin', familyOrigin)
         /\ rotated \subseteq rotated'
<1> USE DEF TypeOK, Extends, histVars
<1>1. CASE Authorize
  BY <1>1 DEF Authorize, IssueCode
<1>2. ASSUME NEW r \in Requests, Begin(r)
      PROVE  UNCHANGED <<authorized, provenance, minted, familyOrigin>> /\ rotated \subseteq rotated'
  BY <1>2 DEF Begin, RedeemCode, RefreshReuse, RefreshInvalid, RefreshActive
<1>3. ASSUME NEW r \in Requests, UserFound(r)
      PROVE  Extends(provenance', provenance) /\ UNCHANGED <<authorized, minted, familyOrigin, rotated>>
  BY <1>3 DEF UserFound
<1>4. ASSUME NEW r \in Requests, SaveAccessAndRotate(r)
      PROVE  /\ Extends(minted', minted) /\ Extends(familyOrigin', familyOrigin)
             /\ UNCHANGED <<authorized, provenance, rotated>>
  BY <1>4 DEF SaveAccessAndRotate
<1>5. ASSUME NEW r \in Requests,
             UserGone(r) \/ SaveAccessAndRespond(r) \/ SaveRefreshAndRespond(r)
               \/ StoreCallFails(r)
      PROVE  UNCHANGED histVars
  BY <1>5 DEF UserGone, SaveAccessAndRespond, SaveRefreshAndRespond, StoreCallFails
<1>6. CASE (\E sub \in Subs : RemoveUser(sub)) \/ Tick \/ UNCHANGED vars
  BY <1>6 DEF RemoveUser, Tick, vars
<1> QED
  BY <1>1, <1>2, <1>3, <1>4, <1>5, <1>6 DEF Next, Continue
\* What was known of an entry that is still there stays known.
LEMMA StillKnown ==
  ASSUME TypeOK, TypeOK', Known, [Next]_vars
  PROVE  /\ \A x : Consumed(x) => Consumed(x)' /\ CodeBehind(x)' = CodeBehind(x)
         /\ \A x : RequestKnown(x) => RequestKnown(x)'
         /\ codes' \subseteq codes => CodesKnown'
         /\ refreshTokens' \cup consumedTokens' \subseteq refreshTokens \cup consumedTokens
              => RefreshTokensKnown'
         /\ UNCHANGED <<minted, familyOrigin, rotated>> => MintedKnown'
         /\ UNCHANGED provenance => ProvenanceKnown'
<1>1. /\ \A i \in 1..Len(authorized) :
           i \in 1..Len(authorized') /\ authorized'[i] = authorized[i]
      /\ \A i \in 1..Len(provenance) :
           i \in 1..Len(provenance') /\ provenance'[i] = provenance[i]
      /\ \A i \in 1..Len(minted) :
           i \in 1..Len(minted') /\ minted'[i] = minted[i]
      /\ \A i \in 1..Len(familyOrigin) :
           i \in 1..Len(familyOrigin') /\ familyOrigin'[i] = familyOrigin[i]
      /\ rotated \subseteq rotated'
  <2>1. /\ Extends(authorized', authorized) /\ Extends(provenance', provenance)
        /\ Extends(minted', minted) /\ Extends(familyOrigin', familyOrigin)
        /\ rotated \subseteq rotated'
    BY HistoryGrows
  <2>2. /\ Len(authorized) \in Nat /\ Len(provenance) \in Nat
        /\ Len(minted) \in Nat /\ Len(familyOrigin) \in Nat
        /\ Len(authorized') \in Nat /\ Len(provenance') \in Nat
        /\ Len(minted') \in Nat /\ Len(familyOrigin') \in Nat
    BY DEF TypeOK
  <2> QED  BY <2>1, <2>2 DEF Extends
<1>2. ASSUME NEW x, Consumed(x)
      PROVE  Consumed(x)' /\ CodeBehind(x)' = CodeBehind(x)
  <2>1. Consumed(x)'
    BY <1>1, <1>2 DEF Consumed
  <2>2. CASE x.grant = "authorization_code"
    BY <2>1, <2>2 DEF CodeBehind
  <2>3. CASE x.grant # "authorization_code"
    <3>1. x.source \in 1..Len(minted)
      BY <1>2, <2>3 DEF Consumed, Known, MintedKnown
    <3>2. minted[x.source].family_id \in 1..Len(familyOrigin)
      BY <3>1 DEF Known, MintedKnown
    <3> QED  BY <1>1, <2>1, <2>3, <3>1, <3>2 DEF CodeBehind
  <2> QED  BY <2>1, <2>2, <2>3
<1>3. ASSUME NEW x, RequestKnown(x)
      PROVE  RequestKnown(x)'
  <2>1. Consumed(x) /\ Consumed(x)' /\ CodeBehind(x)' = CodeBehind(x)
    BY <1>2, <1>3 DEF RequestKnown
  <2>2. ASSUME x.grant = "refresh_token"
        PROVE  x.family_id = minted'[x.source].family_id
    BY <1>1, <1>3, <2>1, <2>2 DEF RequestKnown, Consumed, Known, MintedKnown
  <2>3. ASSUME x.pc = "save_access_token"
        PROVE  /\ x.token \in 1..Len(provenance')
               /\ provenance'[x.token] = [grant |-> x.grant, source |-> x.source]
    BY <1>1, <1>3, <2>3 DEF RequestKnown
  <2>4. ASSUME x.pc = "save_refresh_token"
        PROVE  /\ x.token \in 1..Len(minted')
               /\ minted'[x.token] = PendingRefreshToken(x)
               /\ familyOrigin'[x.family_id] = CodeBehind(x)
    <3>1. /\ x.token \in 1..Len(minted) /\ minted[x.token] = PendingRefreshToken(x)
          /\ familyOrigin[x.family_id] = CodeBehind(x)
      BY <1>3, <2>4 DEF RequestKnown
    <3>2. x.family_id \in 1..Len(familyOrigin)
      BY <3>1 DEF Known, MintedKnown, PendingRefreshToken
    <3> QED  BY <1>1, <3>1, <3>2
  <2> QED  BY <1>3, <2>1, <2>2, <2>3, <2>4 DEF RequestKnown, PendingRefreshToken
<1>4. codes' \subseteq codes => CodesKnown'
  BY <1>1 DEF Known, CodesKnown
<1>5. refreshTokens' \cup consumedTokens' \subseteq refreshTokens \cup consumedTokens
        => RefreshTokensKnown'
  <2> SUFFICES ASSUME NEW rt \in refreshTokens \cup consumedTokens
               PROVE  rt.token \in 1..Len(minted') /\ minted'[rt.token] = rt
    BY DEF RefreshTokensKnown
  <2> QED  BY <1>1 DEF Known, RefreshTokensKnown
<1>6. UNCHANGED <<minted, familyOrigin, rotated>> => MintedKnown'
  BY <1>1 DEF Known, MintedKnown
<1>7. UNCHANGED provenance => ProvenanceKnown'
  BY <1>2 DEF Known, ProvenanceKnown, Consumed
<1> QED  BY <1>2, <1>3, <1>4, <1>5, <1>6, <1>7

\* It is enough to know the requests that a step changes.
LEMMA RequestsStillKnown ==
  ASSUME TypeOK, TypeOK', Known, [Next]_vars,
         \A r \in Requests :
           req'[r] = req[r] \/ req'[r] = Idle \/ RequestKnown(req[r])'
  PROVE  RequestsKnown'
<1> SUFFICES ASSUME NEW r \in Requests, req'[r] # Idle, req'[r] = req[r]
             PROVE  RequestKnown(req[r])'
  BY DEF RequestsKnown, Idle
<1>1. PICK x : x = req[r] /\ x = req'[r] /\ RequestKnown(x)
  BY DEF Known, RequestsKnown
<1>2. RequestKnown(x)'
  BY <1>1, StillKnown
<1> QED  BY <1>1, <1>2 DEF RequestKnown, Consumed, CodeBehind, PendingRefreshToken

\* Every reference of the store and of the requests is to a credential that
\* exists, and a copy of it agrees with the original.
THEOREM AlwaysKnown == Spec => []Known
<1>1. Init => Known
  BY DEF Init, StoreInit, Known, CodesKnown, RefreshTokensKnown, MintedKnown,
         ProvenanceKnown, RequestsKnown
<1>2. TypeOK /\ TypeOK' /\ Known /\ [Next]_vars => Known'
  <2> SUFFICES ASSUME TypeOK, TypeOK', Known, [Next]_vars PROVE Known'
    OBVIOUS
  <2> USE DEF Known
  <2>1. CASE Authorize
    <3>1. CodesKnown'
      BY <2>1 DEF TypeOK, CodesKnown, Authorize, IssueCode, SaveCode, Unexpired
    <3>2. /\ UNCHANGED <<refreshTokens, consumedTokens, minted, familyOrigin, rotated,
                         provenance, req>>
      BY <2>1 DEF Authorize, IssueCode, SaveCode
    <3> QED  BY <3>1, <3>2, StillKnown, RequestsStillKnown
  <2>2. ASSUME NEW r \in Requests, NEW client \in Clients,
               NEW key \in Presented(authorized), NEW uri \in RedirectUris,
               NEW verifier,
               RedeemCode(r, client, key, uri, verifier)
        PROVE  Known'
    <3>1. /\ codes' \subseteq codes
          /\ UNCHANGED <<refreshTokens, consumedTokens, authorized, minted, familyOrigin,
                         rotated, provenance>>
      BY <2>2 DEF RedeemCode, ConsumeCode, histVars
    <3>2. ASSUME NEW s \in Requests
          PROVE  req'[s] = req[s] \/ RequestKnown(req[s])'
      <4>1. CASE UNCHANGED req
        BY <4>1
      <4>2. ASSUME NEW code \in CodeFor(key),
                   req' = [req EXCEPT ![r] =
                     [pc |-> "get_by_sub", grant |-> "authorization_code",
                      source |-> key, client_id |-> client, sub |-> code.sub,
                      scope |-> code.scope, family_id |-> 0, token |-> 0,
                      expires_at |-> 0]]
            PROVE  req'[s] = req[s] \/ RequestKnown(req[s])'
        <5>1. key \in 1..Len(authorized)
          BY <4>2 DEF CodeFor, CodesKnown
        <5> QED  BY <3>1, <4>2, <5>1 DEF TypeOK, RequestKnown, Consumed
      <4> QED  BY <2>2, <4>1, <4>2 DEF RedeemCode
    <3> QED  BY <3>1, <3>2, StillKnown, RequestsStillKnown
  <2>3. ASSUME NEW r \in Requests, NEW key \in Presented(minted),
               RefreshReuse(r, key) \/ RefreshInvalid(r, key)
        PROVE  Known'
    BY <2>3, StillKnown, RequestsStillKnown
       DEF RefreshReuse, RefreshInvalid, RotateReuse, RotateInvalid,
           RevokeRefreshFamily, histVars
  <2>4. ASSUME NEW r \in Requests, NEW client \in Clients, NEW rt \in refreshTokens,
               NEW requested \in SUBSET Scopes, RefreshActive(r, client, rt, requested)
        PROVE  Known'
    <3>1. /\ UNCHANGED <<codes, authorized, minted, familyOrigin, provenance>>
          /\ refreshTokens' \cup consumedTokens' \subseteq refreshTokens \cup consumedTokens
          /\ rotated' = rotated \cup {rt.token}
      BY <2>4 DEF RefreshActive, RotateActive
    <3>2. rt.token \in 1..Len(minted) /\ minted[rt.token] = rt
      BY DEF RefreshTokensKnown
    <3>3. MintedKnown'
      BY <3>1, <3>2 DEF MintedKnown
    <3>4. ASSUME NEW s \in Requests
          PROVE  req'[s] = req[s] \/ RequestKnown(req[s])'
      <4>1. CASE UNCHANGED req
        BY <4>1
      <4>2. CASE req' = [req EXCEPT ![r] =
                   [pc |-> "get_by_sub", grant |-> "refresh_token",
                    source |-> rt.token, client_id |-> client, sub |-> rt.sub,
                    scope |-> EffectiveScope(rt, requested),
                    family_id |-> rt.family_id, token |-> 0, expires_at |-> 0]]
        BY <3>1, <3>2, <4>2 DEF TypeOK, RequestKnown, Consumed
      <4> QED  BY <2>4, <4>1, <4>2 DEF RefreshActive
    <3> QED  BY <3>1, <3>3, <3>4, StillKnown, RequestsStillKnown
  <2>5. ASSUME NEW r \in Requests, UserGone(r) \/ StoreCallFails(r)
        PROVE  Known'
    BY <2>5, StillKnown, RequestsStillKnown
       DEF UserGone, StoreCallFails, storeVars, histVars, TypeOK
  <2>6. ASSUME NEW r \in Requests, UserFound(r)
        PROVE  Known'
    <3>1. /\ UNCHANGED <<codes, refreshTokens, consumedTokens, authorized, minted,
                         familyOrigin, rotated>>
          /\ req[r] \in Exchange /\ req[r].pc = "get_by_sub" /\ RequestKnown(req[r])
          /\ provenance' = Append(provenance, [grant |-> req[r].grant,
                                               source |-> req[r].source])
          /\ req' = [req EXCEPT ![r] =
               Saving(req[r], "save_access_token", req[r].family_id,
                      Len(provenance) + 1, now + TokenTtl)]
      BY <2>6 DEF UserFound, At, Idle, TypeOK, storeVars, RequestsKnown
    <3>2. Consumed(req[r])
      BY <3>1 DEF RequestKnown
    <3>3. [grant |-> req[r].grant, source |-> req[r].source] \in Provenance
      BY <3>1 DEF Exchange, Provenance
    <3>4. /\ Len(provenance') = Len(provenance) + 1 /\ Len(provenance) \in Nat
          /\ \A i \in 1..Len(provenance) : provenance'[i] = provenance[i]
          /\ provenance'[Len(provenance) + 1] =
               [grant |-> req[r].grant, source |-> req[r].source]
      BY <3>1, <3>3, AppendTyped DEF TypeOK
    <3>5. ProvenanceKnown'
      BY <3>1, <3>2, <3>4 DEF ProvenanceKnown, Consumed
    <3>6. RequestKnown(req[r])'
      BY <3>1, <3>2, <3>4 DEF TypeOK, RequestKnown, Consumed, Saving
    <3> QED  BY <3>1, <3>5, <3>6, StillKnown, RequestsStillKnown DEF TypeOK
  <2>7. ASSUME NEW r \in Requests, SaveAccessAndRespond(r)
        PROVE  Known'
    BY <2>7, StillKnown, RequestsStillKnown
       DEF SaveAccessAndRespond, SaveAccessToken, histVars, TypeOK
  <2>8. ASSUME NEW r \in Requests, SaveAccessAndRotate(r)
        PROVE  Known'
    <3> DEFINE x == req[r]
               fresh == x.grant = "authorization_code"
               family == IF fresh THEN Len(familyOrigin) + 1 ELSE x.family_id
               next == Saving(x, "save_refresh_token", family, Len(minted) + 1,
                              now + RefreshTtl)
    <3>1. /\ UNCHANGED <<codes, refreshTokens, consumedTokens, authorized, provenance, rotated>>
          /\ x \in Exchange /\ x.pc = "save_access_token" /\ RequestKnown(x)
          /\ minted' = Append(minted, PendingRefreshToken(next))
          /\ familyOrigin' = IF fresh THEN Append(familyOrigin, x.source) ELSE familyOrigin
          /\ req' = [req EXCEPT ![r] = next]
      BY <2>8 DEF SaveAccessAndRotate, SaveAccessToken, At, Idle, TypeOK, RequestsKnown
    <3>2. /\ next.pc = "save_refresh_token" /\ next.grant = x.grant
          /\ next.source = x.source /\ next.family_id = family
          /\ next.token = Len(minted) + 1
          /\ PendingRefreshToken(next) \in RefreshToken
          /\ PendingRefreshToken(next).token = Len(minted) + 1
          /\ PendingRefreshToken(next).family_id = family
      BY <3>1 DEF Saving, PendingRefreshToken, Exchange, RefreshToken, TypeOK, StoreTypeOK
    <3> HIDE DEF next
    <3>3. /\ Len(minted') = Len(minted) + 1 /\ Len(minted) \in Nat
          /\ \A i \in 1..Len(minted) : minted'[i] = minted[i]
          /\ minted'[Len(minted) + 1] = PendingRefreshToken(next)
      BY <3>1, <3>2, AppendTyped DEF TypeOK
    <3>4. /\ Len(familyOrigin) \in Nat
          /\ \A i \in 1..Len(familyOrigin) : familyOrigin'[i] = familyOrigin[i]
          /\ fresh => /\ Len(familyOrigin') = Len(familyOrigin) + 1
                      /\ familyOrigin'[family] = x.source
      BY <3>1, AppendTyped DEF TypeOK, Exchange
    <3>5. ~fresh => /\ x.source \in 1..Len(minted)
                    /\ family = minted[x.source].family_id
                    /\ family \in 1..Len(familyOrigin)
      BY <3>1 DEF RequestKnown, Consumed, MintedKnown, Exchange
    <3>6. fresh => x.source \in 1..Len(authorized)
      BY <3>1 DEF RequestKnown, Consumed
    <3> HIDE DEF family, fresh
    <3>7. MintedKnown'
      <4>1. rotated' \subseteq 1..Len(minted')
        BY <3>1, <3>3 DEF MintedKnown
      <4>2. \A t \in 1..Len(minted') :
              minted'[t].token = t /\ minted'[t].family_id \in 1..Len(familyOrigin')
        <5>1. family \in 1..Len(familyOrigin')
          BY <3>1, <3>4, <3>5 DEF family
        <5> QED  BY <3>1, <3>2, <3>3, <3>4, <5>1 DEF MintedKnown
      <4>3. \A f \in 1..Len(familyOrigin') : familyOrigin'[f] \in 1..Len(authorized')
        BY <3>1, <3>4, <3>6 DEF MintedKnown, family
      <4> QED  BY <4>1, <4>2, <4>3 DEF MintedKnown
    <3>8. RequestKnown(req[r])'
      <4>1. req'[r] = next
        BY <3>1 DEF TypeOK
      <4>2. Consumed(req[r])'
        BY <3>1, <3>2, <4>1 DEF RequestKnown, Consumed
      <4>3. familyOrigin'[family] = CodeBehind(req[r])'
        <5>1. CASE fresh
          BY <3>2, <3>4, <4>1, <5>1 DEF CodeBehind, fresh
        <5>2. CASE ~fresh
          BY <3>1, <3>2, <3>3, <3>4, <3>5, <4>1, <5>2 DEF CodeBehind, RequestKnown, fresh,
             MintedKnown
        <5> QED  BY <5>1, <5>2
      <4>4. minted'[req'[r].token] = PendingRefreshToken(req[r])'
        BY <3>2, <3>3, <4>1 DEF PendingRefreshToken
      <4>5. req'[r].grant = "refresh_token" =>
              req'[r].family_id = minted'[req'[r].source].family_id
        BY <3>2, <3>3, <3>5, <4>1 DEF fresh
      <4> QED
        BY <3>2, <3>3, <4>1, <4>2, <4>3, <4>4, <4>5 DEF RequestKnown
    <3> QED  BY <3>1, <3>7, <3>8, StillKnown, RequestsStillKnown DEF TypeOK
  <2>9. ASSUME NEW r \in Requests, SaveRefreshAndRespond(r)
        PROVE  Known'
    <3>1. /\ UNCHANGED <<codes, authorized, minted, familyOrigin, rotated, provenance>>
          /\ RequestKnown(req[r]) /\ req[r].pc = "save_refresh_token"
          /\ consumedTokens' \subseteq consumedTokens
          /\ refreshTokens' \subseteq refreshTokens \cup {PendingRefreshToken(req[r])}
          /\ req' = [req EXCEPT ![r] = Idle]
      BY <2>9 DEF SaveRefreshAndRespond, SaveRefreshToken, Unexpired, At, Idle, TypeOK,
                  RequestsKnown, histVars
    <3>2. RefreshTokensKnown'
      BY <3>1 DEF RefreshTokensKnown, RequestKnown, PendingRefreshToken
    <3> QED  BY <3>1, <3>2, StillKnown, RequestsStillKnown DEF TypeOK
  <2>10. CASE (\E sub \in Subs : RemoveUser(sub)) \/ Tick \/ UNCHANGED vars
    BY <2>10, StillKnown, RequestsStillKnown
       DEF RemoveUser, Tick, ClockTick, vars, storeVars, histVars
  <2> QED
    BY <2>1, <2>2, <2>3, <2>4, <2>5, <2>6, <2>7, <2>8, <2>9, <2>10
       DEF Next, Begin, Continue
<1> QED  BY <1>1, <1>2, TypeCorrect, PTL DEF Spec

-----------------------------------------------------------------------------
(* Single use: a credential in the store was not consumed, and one that was *)
(* consumed is held by one request or one access token.                     *)

\* x and y, requests or provenances, consumed the same credential.
SameCredential(x, y) == x.grant = y.grant /\ x.source = y.source

\* A stored credential has no consumer.
StoredUnused ==
  /\ \A c \in codes :
       /\ \A i \in 1..Len(provenance) :
            ~(provenance[i].grant = "authorization_code" /\ provenance[i].source = c.code)
       /\ \A r \in Requests :
            req[r] # Idle => ~(req[r].grant = "authorization_code" /\ req[r].source = c.code)
  /\ \A rt \in refreshTokens : rt.token \notin rotated

\* Neither has a refresh token that a request is about to save.
PendingUnused ==
  \A r \in Requests : At(r, "save_refresh_token") =>
    /\ req[r].token \notin rotated
    /\ \A rt \in refreshTokens : rt.token # req[r].token
    /\ \A s \in Requests \ {r} :
         At(s, "save_refresh_token") => req[s].token # req[r].token

\* A request that waits for the user is the only consumer of its credential.
WaitingAlone ==
  \A r \in Requests : At(r, "get_by_sub") =>
    /\ \A i \in 1..Len(provenance) : ~SameCredential(provenance[i], req[r])
    /\ \A s \in Requests \ {r} : At(s, "get_by_sub") => ~SameCredential(req[s], req[r])

SingleUse ==
  /\ StoredUnused
  /\ PendingUnused
  /\ WaitingAlone
  /\ OneAccessTokenPerCredential

LEMMA AtNotIdle ==
  \A r \in Requests :
    At(r, "get_by_sub") \/ At(r, "save_access_token") \/ At(r, "save_refresh_token")
      => req[r] # Idle
BY DEF At, Idle

\* A step that only takes away keeps single use.
LEMMA SingleUseFrame ==
  ASSUME TypeOK, SingleUse,
         codes' \subseteq codes, refreshTokens' \subseteq refreshTokens,
         UNCHANGED <<provenance, rotated>>,
         \A r \in Requests : req'[r] = req[r] \/ req'[r] = Idle
  PROVE  SingleUse'
<1> USE DEF SingleUse
<1>1. StoredUnused'
  BY DEF StoredUnused
<1>2. PendingUnused'
  BY DEF PendingUnused, At, Idle
<1>3. WaitingAlone'
  BY DEF WaitingAlone, At, Idle, SameCredential
<1>4. OneAccessTokenPerCredential'
  BY DEF OneAccessTokenPerCredential
<1> QED  BY <1>1, <1>2, <1>3, <1>4

\* However requests interleave, a code or a refresh token buys one access token.
THEOREM AlwaysSingleUse == Spec => []SingleUse
<1>1. Init => SingleUse
  BY DEF Init, StoreInit, SingleUse, StoredUnused, PendingUnused, WaitingAlone,
         OneAccessTokenPerCredential, At, Idle
<1>2. TypeOK /\ TypeOK' /\ Known /\ Known' /\ SingleUse /\ [Next]_vars => SingleUse'
  <2> SUFFICES ASSUME TypeOK, TypeOK', Known, Known', SingleUse, [Next]_vars
               PROVE  SingleUse'
    OBVIOUS
  <2>1. CASE Authorize
    <3>1. /\ UNCHANGED <<refreshTokens, req, provenance, rotated>>
          /\ \A c \in codes' : c \in codes \/ c.code = Len(authorized) + 1
          /\ Len(authorized) \in Nat
      BY <2>1 DEF Authorize, IssueCode, SaveCode, Unexpired, TypeOK
    <3>2. \A x : Consumed(x) /\ x.grant = "authorization_code" => x.source # Len(authorized) + 1
      BY <3>1 DEF Consumed
    <3>3. StoredUnused'
      <4>1. ASSUME NEW c \in codes', NEW i \in 1..Len(provenance)
            PROVE  ~(provenance[i].grant = "authorization_code" /\ provenance[i].source = c.code)
        <5>1. Consumed(provenance[i])
          BY DEF Known, ProvenanceKnown
        <5>2. c \in codes \/ c.code = Len(authorized) + 1
          BY <3>1
        <5> QED
          BY <3>2, <5>1, <5>2 DEF SingleUse, StoredUnused
      <4>2. ASSUME NEW c \in codes', NEW r \in Requests, req[r] # Idle
            PROVE  ~(req[r].grant = "authorization_code" /\ req[r].source = c.code)
        <5>1. Consumed(req[r])
          BY <4>2 DEF Known, RequestsKnown, RequestKnown
        <5>2. c \in codes \/ c.code = Len(authorized) + 1
          BY <3>1
        <5> QED
          BY <3>2, <4>2, <5>1, <5>2 DEF SingleUse, StoredUnused
      <4>3. \A rt \in refreshTokens : rt.token \notin rotated
        BY DEF SingleUse, StoredUnused
      <4> QED
        BY <3>1, <4>1, <4>2, <4>3 DEF StoredUnused
    <3> QED
      BY <3>1, <3>3 DEF SingleUse, PendingUnused, WaitingAlone, SameCredential, At,
                        OneAccessTokenPerCredential
  <2>2. ASSUME NEW r \in Requests, NEW client \in Clients,
               NEW key \in Presented(authorized), NEW uri \in RedirectUris,
               NEW verifier,
               RedeemCode(r, client, key, uri, verifier)
        PROVE  SingleUse'
    <3>1. /\ UNCHANGED <<refreshTokens, provenance, rotated>>
          /\ codes' = {c \in codes : c.code # key}
          /\ req[r] = Idle
      BY <2>2 DEF RedeemCode, ConsumeCode, histVars
    <3>2. CASE UNCHANGED req
      BY <3>1, <3>2, SingleUseFrame
    <3>3. ASSUME NEW code \in CodeFor(key),
                 req' = [req EXCEPT ![r] =
                   [pc |-> "get_by_sub", grant |-> "authorization_code",
                    source |-> key, client_id |-> client, sub |-> code.sub,
                    scope |-> code.scope, family_id |-> 0, token |-> 0,
                    expires_at |-> 0]]
          PROVE  SingleUse'
      <4>1. /\ req'[r].grant = "authorization_code" /\ req'[r].source = key
            /\ req'[r].pc = "get_by_sub" /\ req'[r] # Idle
            /\ \A s \in Requests \ {r} : req'[s] = req[s]
        BY <3>3 DEF TypeOK, Idle
      <4>2. code \in codes /\ code.code = key
        BY <3>3 DEF CodeFor
      <4>3. /\ \A i \in 1..Len(provenance) : ~SameCredential(provenance[i], req'[r])
            /\ \A s \in Requests \ {r} : req[s] # Idle => ~SameCredential(req[s], req'[r])
        BY <4>1, <4>2 DEF SingleUse, StoredUnused, SameCredential
      <4>4. StoredUnused'
        BY <3>1, <4>1 DEF SingleUse, StoredUnused
      <4>5. PendingUnused'
        BY <3>1, <4>1 DEF SingleUse, PendingUnused, At
      <4>6. WaitingAlone'
        <5>1. \A s \in Requests : At(s, "get_by_sub") => req[s] # Idle
          BY AtNotIdle
        <5>2. ASSUME NEW q \in Requests, req'[q].pc = "get_by_sub"
              PROVE  \A i \in 1..Len(provenance) : ~SameCredential(provenance[i], req'[q])
          BY <4>1, <4>3, <5>2 DEF SingleUse, WaitingAlone, At
        <5>3. ASSUME NEW q \in Requests, NEW s \in Requests \ {q},
                     req'[q].pc = "get_by_sub", req'[s].pc = "get_by_sub"
              PROVE  ~SameCredential(req'[s], req'[q])
          <6>1. CASE q = r
            BY <4>1, <4>3, <5>1, <5>3, <6>1 DEF At
          <6>2. CASE s = r
            BY <4>1, <4>3, <5>1, <5>3, <6>2 DEF At, SameCredential
          <6>3. CASE q # r /\ s # r
            BY <4>1, <5>3, <6>3 DEF SingleUse, WaitingAlone, At
          <6> QED  BY <6>1, <6>2, <6>3
        <5> QED  BY <3>1, <5>2, <5>3 DEF WaitingAlone, At, SameCredential
      <4> QED  BY <3>1, <4>4, <4>5, <4>6 DEF SingleUse, OneAccessTokenPerCredential
    <3> QED  BY <2>2, <3>2, <3>3 DEF RedeemCode
  <2>3. ASSUME NEW r \in Requests, NEW key \in Presented(minted),
               RefreshReuse(r, key) \/ RefreshInvalid(r, key)
        PROVE  SingleUse'
    BY <2>3, SingleUseFrame
       DEF RefreshReuse, RefreshInvalid, RotateReuse, RotateInvalid,
           RevokeRefreshFamily, histVars
  <2>4. ASSUME NEW r \in Requests, NEW client \in Clients, NEW rt \in refreshTokens,
               NEW requested \in SUBSET Scopes, RefreshActive(r, client, rt, requested)
        PROVE  SingleUse'
    <3>1. /\ UNCHANGED <<codes, provenance>>
          /\ refreshTokens' = {other \in refreshTokens : other.token # rt.token}
          /\ rotated' = rotated \cup {rt.token}
          /\ rt.token \notin rotated
          /\ req[r] = Idle
      BY <2>4 DEF RefreshActive, RotateActive, SingleUse, StoredUnused
    <3>2. \A s \in Requests \ {r} : req'[s] = req[s]
      BY <2>4 DEF RefreshActive, TypeOK
    <3>3. \/ req'[r] = Idle
          \/ /\ req'[r].pc = "get_by_sub" /\ req'[r].grant = "refresh_token"
             /\ req'[r].source = rt.token
      BY <2>4 DEF RefreshActive, TypeOK
    <3>4. /\ \A i \in 1..Len(provenance) :
               ~(provenance[i].grant = "refresh_token" /\ provenance[i].source = rt.token)
          /\ \A s \in Requests :
               req[s] # Idle => ~(req[s].grant = "refresh_token" /\ req[s].source = rt.token)
      BY <3>1 DEF Known, ProvenanceKnown, RequestsKnown, RequestKnown, Consumed
    <3>5. StoredUnused'
      BY <3>1, <3>2, <3>3 DEF SingleUse, StoredUnused, Idle
    <3>6. PendingUnused'
      BY <3>1, <3>2, <3>3 DEF SingleUse, PendingUnused, At, Idle
    <3>7. WaitingAlone'
      <4>1. \A s \in Requests : At(s, "get_by_sub") => req[s] # Idle
        BY DEF At, Idle
      <4> QED
        BY <3>1, <3>2, <3>3, <3>4, <4>1 DEF SingleUse, WaitingAlone, At, Idle, SameCredential
    <3> QED  BY <3>1, <3>5, <3>6, <3>7 DEF SingleUse, OneAccessTokenPerCredential
  <2>5. ASSUME NEW r \in Requests,
               UserGone(r) \/ StoreCallFails(r) \/ SaveAccessAndRespond(r)
        PROVE  SingleUse'
    BY <2>5, SingleUseFrame
       DEF UserGone, StoreCallFails, SaveAccessAndRespond, SaveAccessToken, storeVars,
           histVars, TypeOK
  <2>6. ASSUME NEW r \in Requests, UserFound(r)
        PROVE  SingleUse'
    <3> DEFINE mark == [grant |-> req[r].grant, source |-> req[r].source]
    <3>1. /\ UNCHANGED <<codes, refreshTokens, rotated>>
          /\ At(r, "get_by_sub") /\ req[r] # Idle
          /\ provenance' = Append(provenance, mark)
          /\ req'[r].pc = "save_access_token" /\ req'[r].grant = req[r].grant
          /\ req'[r].source = req[r].source
          /\ \A s \in Requests \ {r} : req'[s] = req[s]
      BY <2>6 DEF UserFound, At, Idle, TypeOK, storeVars, Saving
    <3>2. mark \in Provenance
      BY <3>1 DEF TypeOK, Exchange, Provenance
    <3>3. /\ DOMAIN provenance = 1..Len(provenance) /\ Len(provenance) \in Nat
          /\ DOMAIN provenance' = 1..(Len(provenance) + 1)
          /\ Len(provenance') = Len(provenance) + 1
          /\ \A i \in 1..Len(provenance) : provenance'[i] = provenance[i]
          /\ provenance'[Len(provenance) + 1] = mark
      BY <3>1, <3>2, AppendTyped DEF TypeOK
    <3>4. StoredUnused'
      BY <3>1, <3>3 DEF SingleUse, StoredUnused
    <3>5. PendingUnused'
      BY <3>1 DEF SingleUse, PendingUnused, At
    <3>6. WaitingAlone'
      BY <3>1, <3>3 DEF SingleUse, WaitingAlone, At, SameCredential
    <3>7. OneAccessTokenPerCredential'
      BY <3>1, <3>3 DEF SingleUse, WaitingAlone, OneAccessTokenPerCredential, SameCredential
    <3> QED  BY <3>4, <3>5, <3>6, <3>7 DEF SingleUse
  <2>7. ASSUME NEW r \in Requests, SaveAccessAndRotate(r)
        PROVE  SingleUse'
    <3>1. /\ UNCHANGED <<codes, refreshTokens, provenance, rotated>>
          /\ req[r] # Idle
          /\ req'[r].pc = "save_refresh_token" /\ req'[r].grant = req[r].grant
          /\ req'[r].source = req[r].source /\ req'[r].token = Len(minted) + 1
          /\ \A s \in Requests \ {r} : req'[s] = req[s]
      BY <2>7 DEF SaveAccessAndRotate, SaveAccessToken, At, Idle, TypeOK, Saving
    <3>2. /\ Len(minted) \in Nat
          /\ rotated \subseteq 1..Len(minted)
          /\ \A rt \in refreshTokens : rt.token \in 1..Len(minted)
          /\ \A s \in Requests : At(s, "save_refresh_token") => req[s].token \in 1..Len(minted)
      <4>1. \A s \in Requests : At(s, "save_refresh_token") => req[s] # Idle
        BY AtNotIdle
      <4>2. \A s \in Requests : At(s, "save_refresh_token") => req[s].token \in 1..Len(minted)
        BY <4>1 DEF Known, RequestsKnown, RequestKnown, At
      <4>3. Len(minted) \in Nat
        BY DEF TypeOK
      <4> QED  BY <4>2, <4>3 DEF Known, MintedKnown, RefreshTokensKnown
    <3>3. StoredUnused'
      BY <3>1 DEF SingleUse, StoredUnused
    <3>4. PendingUnused'
      BY <3>1, <3>2 DEF SingleUse, PendingUnused, At
    <3>5. WaitingAlone'
      BY <3>1 DEF SingleUse, WaitingAlone, At, SameCredential
    <3> QED  BY <3>1, <3>3, <3>4, <3>5 DEF SingleUse, OneAccessTokenPerCredential
  <2>8. ASSUME NEW r \in Requests, SaveRefreshAndRespond(r)
        PROVE  SingleUse'
    <3>1. /\ UNCHANGED <<codes, provenance, rotated>>
          /\ At(r, "save_refresh_token")
          /\ refreshTokens' \subseteq refreshTokens \cup {PendingRefreshToken(req[r])}
          /\ req'[r] = Idle
          /\ \A s \in Requests \ {r} : req'[s] = req[s]
      BY <2>8 DEF SaveRefreshAndRespond, SaveRefreshToken, Unexpired, TypeOK, histVars
    <3>2. PendingRefreshToken(req[r]).token = req[r].token
      BY DEF PendingRefreshToken
    <3>3. StoredUnused'
      BY <3>1, <3>2 DEF SingleUse, StoredUnused, PendingUnused
    <3>4. PendingUnused'
      BY <3>1, <3>2 DEF SingleUse, PendingUnused, At, Idle
    <3>5. WaitingAlone'
      BY <3>1 DEF SingleUse, WaitingAlone, At, Idle, SameCredential
    <3> QED  BY <3>1, <3>3, <3>4, <3>5 DEF SingleUse, OneAccessTokenPerCredential
  <2>9. CASE (\E sub \in Subs : RemoveUser(sub)) \/ Tick \/ UNCHANGED vars
    BY <2>9, SingleUseFrame
       DEF RemoveUser, Tick, ClockTick, vars, storeVars, histVars
  <2> QED
    BY <2>1, <2>2, <2>3, <2>4, <2>5, <2>6, <2>7, <2>8, <2>9
       DEF Next, Begin, Continue
<1> QED  BY <1>1, <1>2, TypeCorrect, AlwaysKnown, PTL DEF Spec

\* Each code and each refresh token is exchanged for at most one access token.
COROLLARY OneAccessToken == Spec => []OneAccessTokenPerCredential
<1>1. SingleUse => OneAccessTokenPerCredential
  BY DEF SingleUse
<1> QED  BY <1>1, AlwaysSingleUse, PTL

-----------------------------------------------------------------------------
(* One holder per family, whatever families there are. *)

OneHolder ==
  /\ \A a, b \in refreshTokens : a.family_id = b.family_id => a = b
  /\ \A r, s \in Requests :
       /\ req[r] # Idle /\ req[s] # Idle
       /\ req[r].family_id # 0 /\ req[r].family_id = req[s].family_id
       => r = s
  /\ \A a \in refreshTokens, r \in Requests :
       req[r] # Idle => req[r].family_id # a.family_id

LEMMA FamiliesKnown ==
  ASSUME TypeOK, Known
  PROVE  /\ Len(familyOrigin) \in Nat
         /\ \A a \in refreshTokens : a.family_id \in 1..Len(familyOrigin)
         /\ \A r \in Requests :
              req[r] # Idle => req[r].family_id \in 0..Len(familyOrigin)
         /\ \A r \in Requests :
              At(r, "save_refresh_token") => req[r].family_id # 0
<1>1. Len(familyOrigin) \in Nat
  BY DEF TypeOK
<1>2. \A t \in 1..Len(minted) : minted[t].family_id \in 1..Len(familyOrigin)
  BY DEF Known, MintedKnown
<1>3. ASSUME NEW a \in refreshTokens
      PROVE  a.family_id \in 1..Len(familyOrigin)
  BY <1>2 DEF Known, RefreshTokensKnown
<1>4. ASSUME NEW r \in Requests, req[r] # Idle
      PROVE  /\ req[r].family_id \in 0..Len(familyOrigin)
             /\ req[r].pc = "save_refresh_token" => req[r].family_id # 0
  <2>1. req[r] \in Exchange /\ RequestKnown(req[r])
    BY <1>4 DEF TypeOK, Known, RequestsKnown
  <2>2. CASE req[r].pc = "save_refresh_token"
    <3>1. minted[req[r].token].family_id = req[r].family_id /\ req[r].token \in 1..Len(minted)
      BY <2>1, <2>2 DEF RequestKnown, PendingRefreshToken
    <3> QED  BY <1>1, <1>2, <3>1
  <2>3. CASE req[r].pc # "save_refresh_token" /\ req[r].grant = "refresh_token"
    <3>1. req[r].family_id = minted[req[r].source].family_id /\ req[r].source \in 1..Len(minted)
      BY <2>1, <2>3 DEF RequestKnown, Consumed, Known, MintedKnown
    <3> QED  BY <1>1, <1>2, <2>3, <3>1
  <2>4. CASE req[r].pc # "save_refresh_token" /\ req[r].grant = "authorization_code"
    BY <1>1, <2>1, <2>4 DEF RequestKnown
  <2> QED  BY <2>1, <2>2, <2>3, <2>4 DEF Exchange
<1> QED  BY <1>1, <1>3, <1>4, AtNotIdle DEF At

LEMMA OneHolderFrame ==
  ASSUME OneHolder,
         refreshTokens' \subseteq refreshTokens,
         \A r \in Requests :
           \/ req'[r] = req[r]
           \/ req'[r] = Idle
           \/ req[r] # Idle /\ req'[r].family_id = req[r].family_id
  PROVE  OneHolder'
BY DEF OneHolder

\* A refresh family never forks: it is one stored token or one request.
THEOREM AlwaysOneHolder == Spec => []OneHolder
<1>1. Init => OneHolder
  BY DEF Init, StoreInit, OneHolder, Idle
<1>2. TypeOK /\ TypeOK' /\ Known /\ Known' /\ OneHolder /\ [Next]_vars => OneHolder'
  <2> SUFFICES ASSUME TypeOK, TypeOK', Known, Known', OneHolder, [Next]_vars
               PROVE  OneHolder'
    OBVIOUS
  <2>2. CASE Authorize
    BY <2>2, OneHolderFrame DEF Authorize, IssueCode, SaveCode
  <2>3. ASSUME NEW r \in Requests, NEW client \in Clients,
               NEW key \in Presented(authorized), NEW uri \in RedirectUris,
               NEW verifier,
               RedeemCode(r, client, key, uri, verifier)
        PROVE  OneHolder'
    <3>1. UNCHANGED refreshTokens /\ req[r] = Idle
      BY <2>3 DEF RedeemCode, ConsumeCode
    <3>2. CASE UNCHANGED req
      BY <3>1, <3>2, OneHolderFrame
    <3>3. ASSUME NEW code \in CodeFor(key),
                 req' = [req EXCEPT ![r] =
                   [pc |-> "get_by_sub", grant |-> "authorization_code",
                    source |-> key, client_id |-> client, sub |-> code.sub,
                    scope |-> code.scope, family_id |-> 0, token |-> 0,
                    expires_at |-> 0]]
          PROVE  OneHolder'
      <4>1. req'[r].family_id = 0 /\ \A s \in Requests \ {r} : req'[s] = req[s]
        BY <3>3 DEF TypeOK
      <4>2. \A a \in refreshTokens : a.family_id # 0
        BY FamiliesKnown
      <4> QED  BY <3>1, <4>1, <4>2 DEF OneHolder
    <3> QED  BY <2>3, <3>2, <3>3 DEF RedeemCode
  <2>4. ASSUME NEW r \in Requests, NEW key \in Presented(minted),
               RefreshReuse(r, key) \/ RefreshInvalid(r, key)
        PROVE  OneHolder'
    BY <2>4, OneHolderFrame
       DEF RefreshReuse, RefreshInvalid, RotateReuse, RotateInvalid, RevokeRefreshFamily
  <2>5. ASSUME NEW r \in Requests, NEW client \in Clients, NEW rt \in refreshTokens,
               NEW requested \in SUBSET Scopes, RefreshActive(r, client, rt, requested)
        PROVE  OneHolder'
    <3>1. /\ refreshTokens' = {other \in refreshTokens : other.token # rt.token}
          /\ req[r] = Idle
          /\ \A s \in Requests \ {r} : req'[s] = req[s]
          /\ req'[r] = Idle \/ req'[r].family_id = rt.family_id
      BY <2>5 DEF RefreshActive, RotateActive, TypeOK
    <3>2. \A a \in refreshTokens' : a \in refreshTokens /\ a.family_id # rt.family_id
      BY <3>1 DEF OneHolder
    <3>3. \A s \in Requests : req[s] # Idle => req[s].family_id # rt.family_id
      BY DEF OneHolder
    <3> QED  BY <3>1, <3>2, <3>3 DEF OneHolder
  <2>6. ASSUME NEW r \in Requests,
               \/ UserGone(r) \/ StoreCallFails(r) \/ SaveAccessAndRespond(r)
               \/ UserFound(r)
        PROVE  OneHolder'
    BY <2>6, OneHolderFrame, AtNotIdle
       DEF UserGone, StoreCallFails, SaveAccessAndRespond, SaveAccessToken, UserFound,
           storeVars, TypeOK, Saving
  <2>7. ASSUME NEW r \in Requests, SaveAccessAndRotate(r)
        PROVE  OneHolder'
    <3>1. /\ UNCHANGED refreshTokens
          /\ req[r] # Idle
          /\ \A s \in Requests \ {r} : req'[s] = req[s]
          /\ \/ req'[r].family_id = Len(familyOrigin) + 1
             \/ req'[r].family_id = req[r].family_id
      BY <2>7, AtNotIdle DEF SaveAccessAndRotate, SaveAccessToken, TypeOK, Saving
    <3>2. CASE req'[r].family_id = req[r].family_id
      BY <3>1, <3>2, OneHolderFrame
    <3>3. CASE req'[r].family_id = Len(familyOrigin) + 1
      <4>1. /\ \A s \in Requests \ {r} :
                 req'[s] # Idle => req'[s].family_id # Len(familyOrigin) + 1
            /\ \A a \in refreshTokens : a.family_id # Len(familyOrigin) + 1
        BY <3>1, FamiliesKnown
      <4> QED  BY <3>1, <3>3, <4>1 DEF OneHolder
    <3> QED  BY <3>1, <3>2, <3>3
  <2>8. ASSUME NEW r \in Requests, SaveRefreshAndRespond(r)
        PROVE  OneHolder'
    <3>1. /\ refreshTokens' \subseteq refreshTokens \cup {PendingRefreshToken(req[r])}
          /\ PendingRefreshToken(req[r]).family_id = req[r].family_id
          /\ req[r] # Idle /\ req'[r] = Idle
          /\ \A s \in Requests \ {r} : req'[s] = req[s]
          /\ req[r].family_id # 0
      <4>1. req[r] # Idle /\ At(r, "save_refresh_token")
        BY <2>8, AtNotIdle DEF SaveRefreshAndRespond
      <4>2. req[r].family_id # 0
        BY <4>1, FamiliesKnown
      <4> QED
        BY <2>8, <4>1, <4>2 DEF SaveRefreshAndRespond, SaveRefreshToken, Unexpired, TypeOK,
           PendingRefreshToken
    <3>2. \A a \in refreshTokens : a.family_id # req[r].family_id
      BY <3>1 DEF OneHolder
    <3>3. \A s \in Requests \ {r} : req[s] # Idle => req[s].family_id # req[r].family_id
      BY <3>1 DEF OneHolder
    <3> QED  BY <3>1, <3>2, <3>3 DEF OneHolder
  <2>9. CASE (\E sub \in Subs : RemoveUser(sub)) \/ Tick \/ UNCHANGED vars
    BY <2>9, OneHolderFrame
       DEF RemoveUser, Tick, ClockTick, vars, storeVars
  <2> QED
    BY <2>2, <2>3, <2>4, <2>5, <2>6, <2>7, <2>8, <2>9 DEF Next, Begin, Continue
<1> QED  BY <1>1, <1>2, TypeCorrect, AlwaysKnown, PTL DEF Spec

\* A family is held in one place at a time, so no interleaving of rotations,
\* replays and failures forks it.
COROLLARY FamilyNeverForks == Spec => []OneHolderPerFamily
<1>1. TypeOK /\ OneHolder => OneHolderPerFamily
  BY DEF TypeOK, OneHolder, OneHolderPerFamily, StoredOf, CarriersOf
<1> QED  BY <1>1, TypeCorrect, AlwaysOneHolder, PTL

-----------------------------------------------------------------------------
\* An exchanged refresh token is recognised until it expires by itself: the
\* eviction that runs with every save never makes a replay look unknown.
THEOREM AlwaysRemembered == Spec => []ExchangedTokenRemembered
<1>1. Init => ExchangedTokenRemembered
  BY DEF Init, ExchangedTokenRemembered
<1>2. ASSUME TypeOK, Known, ExchangedTokenRemembered, [Next]_vars
      PROVE  ExchangedTokenRemembered'
  <2>1. ASSUME rotated' = rotated, consumedTokens \subseteq consumedTokens',
               now \in Nat, now' \in Nat, now =< now'
        PROVE  ExchangedTokenRemembered'
    <3>1. \A t \in rotated : minted'[t] = minted[t] /\ minted[t].expires_at \in Nat
      <4>1. Extends(minted', minted)
        BY <1>2, HistoryGrows
      <4>2. rotated \subseteq 1..Len(minted)
        BY <1>2 DEF Known, MintedKnown
      <4>3. \A t \in 1..Len(minted) : minted[t] \in RefreshToken
        BY <1>2 DEF TypeOK
      <4> QED  BY <4>1, <4>2, <4>3 DEF Extends, RefreshToken
    <3>2. ASSUME NEW t \in rotated, minted'[t].expires_at > now'
          PROVE  \E rt \in consumedTokens : rt.token = t
      BY <1>2, <2>1, <3>1, <3>2 DEF ExchangedTokenRemembered, WasConsumed
    <3> QED  BY <2>1, <3>2 DEF ExchangedTokenRemembered, WasConsumed
  <2>2. ASSUME rotated' = rotated, consumedTokens \subseteq consumedTokens', UNCHANGED now
        PROVE  ExchangedTokenRemembered'
    BY <1>2, <2>1, <2>2 DEF TypeOK, StoreTypeOK
  <2>3. CASE Authorize
    BY <2>2, <2>3 DEF Authorize, IssueCode, SaveCode
  <2>4. ASSUME NEW r \in Requests, NEW client, NEW key, NEW uri, NEW verifier,
               RedeemCode(r, client, key, uri, verifier)
        PROVE  ExchangedTokenRemembered'
    BY <2>2, <2>4 DEF RedeemCode, ConsumeCode, histVars
  <2>5. ASSUME NEW r \in Requests, NEW key, RefreshReuse(r, key) \/ RefreshInvalid(r, key)
        PROVE  ExchangedTokenRemembered'
    BY <2>2, <2>5 DEF RefreshReuse, RefreshInvalid, RotateReuse, RotateInvalid,
                      RevokeRefreshFamily, histVars
  <2>6. ASSUME NEW r \in Requests, NEW client, NEW rt, NEW requested,
               RefreshActive(r, client, rt, requested)
        PROVE  ExchangedTokenRemembered'
    BY <1>2, <2>6 DEF RefreshActive, RotateActive, ExchangedTokenRemembered, WasConsumed
  <2>7. ASSUME NEW r \in Requests,
               \/ UserGone(r) \/ UserFound(r) \/ StoreCallFails(r)
               \/ SaveAccessAndRespond(r) \/ SaveAccessAndRotate(r)
        PROVE  ExchangedTokenRemembered'
    BY <2>2, <2>7 DEF UserGone, UserFound, StoreCallFails, SaveAccessAndRespond,
                      SaveAccessAndRotate, SaveAccessToken, storeVars, histVars
  <2>8. ASSUME NEW r \in Requests, SaveRefreshAndRespond(r)
        PROVE  ExchangedTokenRemembered'
    <3>1. /\ UNCHANGED <<now, rotated, minted>>
          /\ consumedTokens' = {rt \in consumedTokens : ~(rt.expires_at <= now)}
      BY <2>8 DEF SaveRefreshAndRespond, SaveRefreshToken, Unexpired, Expired, histVars
    <3>2. \A rt \in consumedTokens : minted[rt.token] = rt
      BY <1>2 DEF Known, RefreshTokensKnown
    <3>3. now \in Nat /\ \A rt \in consumedTokens : rt.expires_at \in Nat
      BY <1>2 DEF TypeOK, StoreTypeOK, RefreshToken
    <3> QED  BY <1>2, <3>1, <3>2, <3>3 DEF ExchangedTokenRemembered, WasConsumed
  <2>9. CASE Tick
    BY <1>2, <2>1, <2>9 DEF Tick, ClockTick, histVars, TypeOK, StoreTypeOK
  <2>10. CASE (\E sub \in Subs : RemoveUser(sub)) \/ UNCHANGED vars
    BY <2>2, <2>10 DEF RemoveUser, vars, storeVars, histVars
  <2> QED
    BY <1>2, <2>3, <2>4, <2>5, <2>6, <2>7, <2>8, <2>9, <2>10 DEF Next, Begin, Continue
<1> QED  BY <1>1, <1>2, TypeCorrect, AlwaysKnown, PTL DEF Spec

-----------------------------------------------------------------------------
(* What a token opens was granted by the code it goes back to. *)

Granted(entry, code) == Under(entry, code) /\ entry.client_id = code.client_id

Within ==
  /\ \A a \in accessTokens :
       /\ a.token \in 1..Len(provenance)
       /\ Under(a, authorized[CodeBehind(provenance[a.token])])
  /\ \A r \in Requests : req[r] # Idle => Granted(req[r], authorized[CodeBehind(req[r])])
  /\ \A t \in 1..Len(minted) :
       Granted(minted[t], authorized[familyOrigin[minted[t].family_id]])

\* The code behind x after the step.
AuthorizationAfter(x) ==
  authorized'[IF x.grant = "authorization_code" THEN x.source
              ELSE familyOrigin'[minted'[x.source].family_id]]

LEMMA CodeBehindKnown ==
  ASSUME TypeOK, Known, NEW x, Consumed(x)
  PROVE  CodeBehind(x) \in 1..Len(authorized)
<1>1. CASE x.grant = "authorization_code"
  BY <1>1 DEF Consumed, CodeBehind
<1>2. CASE x.grant # "authorization_code"
  <2>1. x.source \in 1..Len(minted)
    BY <1>2 DEF Consumed, Known, MintedKnown
  <2>2. minted[x.source].family_id \in 1..Len(familyOrigin)
    BY <2>1 DEF Known, MintedKnown
  <2>3. familyOrigin[minted[x.source].family_id] \in 1..Len(authorized)
    BY <2>2 DEF Known, MintedKnown
  <2> QED
    BY <1>2, <2>3 DEF CodeBehind
<1> QED
  BY <1>1, <1>2

LEMMA SameAuthorization ==
  ASSUME TypeOK, TypeOK', Known, [Next]_vars, NEW x, Consumed(x)
  PROVE  AuthorizationAfter(x) = authorized[CodeBehind(x)]
<1>1. CodeBehind(x) \in 1..Len(authorized)
  BY CodeBehindKnown
<1>2. CodeBehind(x)' = CodeBehind(x)
  BY StillKnown
<1>3. authorized'[CodeBehind(x)] = authorized[CodeBehind(x)]
  BY <1>1, HistoryGrows DEF Extends
<1> QED
  BY <1>2, <1>3 DEF AuthorizationAfter, CodeBehind

\* The codes behind old tokens and requests stay; what is new has to be granted.
LEMMA WithinKept ==
  ASSUME TypeOK, TypeOK', Known, Within, [Next]_vars,
         \A a \in accessTokens' :
           \/ a \in accessTokens
           \/ \E r \in Requests :
                req[r] # Idle /\ At(r, "save_access_token") /\ a = PendingAccessToken(req[r]),
         \A r \in Requests :
           \/ req'[r] = req[r]
           \/ req'[r] = Idle
           \/ Granted(req'[r], AuthorizationAfter(req'[r])),
         \A t \in 1..Len(minted') :
           \/ t \in 1..Len(minted)
           \/ Granted(minted'[t], authorized'[familyOrigin'[minted'[t].family_id]])
  PROVE  Within'
<1>1. ASSUME NEW a \in accessTokens'
      PROVE  /\ a.token \in 1..Len(provenance')
             /\ Under(a, AuthorizationAfter(provenance'[a.token]))
  <2>1. /\ a.token \in 1..Len(provenance)
        /\ Under(a, authorized[CodeBehind(provenance[a.token])])
    <3>1. CASE a \in accessTokens
      BY <3>1 DEF Within
    <3>2. ASSUME NEW r \in Requests, req[r] # Idle, At(r, "save_access_token"),
                 a = PendingAccessToken(req[r])
          PROVE  /\ a.token \in 1..Len(provenance)
                 /\ Under(a, authorized[CodeBehind(provenance[a.token])])
      <4>1. RequestKnown(req[r]) /\ Under(req[r], authorized[CodeBehind(req[r])])
        BY <3>2 DEF Known, RequestsKnown, Within, Granted
      <4>2. /\ a.token = req[r].token /\ a.sub = req[r].sub /\ a.scope = req[r].scope
        BY <3>2 DEF PendingAccessToken
      <4>3. /\ a.token \in 1..Len(provenance)
            /\ provenance[a.token] = [grant |-> req[r].grant, source |-> req[r].source]
        BY <3>2, <4>1, <4>2 DEF RequestKnown, At
      <4>4. CodeBehind(provenance[a.token]) = CodeBehind(req[r])
        BY <4>3 DEF CodeBehind
      <4> QED
        BY <4>1, <4>2, <4>3, <4>4 DEF Under
    <3> QED
      BY <3>1, <3>2
  <2>2. Consumed(provenance[a.token])
    BY <2>1 DEF Known, ProvenanceKnown
  <2>3. a.token \in 1..Len(provenance') /\ provenance'[a.token] = provenance[a.token]
    BY <2>1, HistoryGrows DEF Extends, TypeOK
  <2> QED
    BY <2>1, <2>2, <2>3, SameAuthorization
<1>2. ASSUME NEW r \in Requests, req'[r] # Idle
      PROVE  Granted(req'[r], AuthorizationAfter(req'[r]))
  <2>1. CASE req'[r] = req[r]
    <3>1. Consumed(req[r]) /\ Granted(req[r], authorized[CodeBehind(req[r])])
      BY <1>2, <2>1 DEF Known, RequestsKnown, RequestKnown, Within
    <3> QED
      BY <2>1, <3>1, SameAuthorization
  <2> QED
    BY <1>2, <2>1
<1>3. ASSUME NEW t \in 1..Len(minted')
      PROVE  Granted(minted'[t], authorized'[familyOrigin'[minted'[t].family_id]])
  <2>1. CASE t \in 1..Len(minted)
    <3>1. minted[t].family_id \in 1..Len(familyOrigin)
      BY <2>1 DEF Known, MintedKnown
    <3>2. familyOrigin[minted[t].family_id] \in 1..Len(authorized)
      BY <3>1 DEF Known, MintedKnown
    <3>3. /\ minted'[t] = minted[t]
          /\ familyOrigin'[minted[t].family_id] = familyOrigin[minted[t].family_id]
          /\ authorized'[familyOrigin[minted[t].family_id]]
               = authorized[familyOrigin[minted[t].family_id]]
      BY <2>1, <3>1, <3>2, HistoryGrows DEF Extends
    <3> QED
      BY <2>1, <3>3 DEF Within
  <2> QED
    BY <2>1
<1> QED
  BY <1>1, <1>2, <1>3 DEF Within, AuthorizationAfter, CodeBehind

\* Neither a redemption nor any chain of refreshes gets more than was granted.
THEOREM AlwaysWithin == Spec => []Within
<1>1. Init => Within
  BY DEF Init, StoreInit, Within, Idle
<1>2. TypeOK /\ TypeOK' /\ Known /\ Within /\ [Next]_vars => Within'
  <2> SUFFICES ASSUME TypeOK, TypeOK', Known, Within, [Next]_vars
               PROVE  Within'
    OBVIOUS
  <2>1. CASE Authorize
    <3>1. UNCHANGED <<accessTokens, req, minted>>
      BY <2>1 DEF Authorize, IssueCode, SaveCode
    <3> QED
      BY <3>1, WithinKept
  <2>2. ASSUME NEW r \in Requests, NEW client \in Clients,
               NEW key \in Presented(authorized), NEW uri \in RedirectUris,
               NEW verifier,
               RedeemCode(r, client, key, uri, verifier)
        PROVE  Within'
    <3>1. UNCHANGED <<accessTokens, minted, authorized>>
      BY <2>2 DEF RedeemCode, ConsumeCode, histVars
    <3>2. CASE UNCHANGED req
      BY <3>1, <3>2, WithinKept
    <3>3. ASSUME NEW code \in CodeFor(key), RedeemedBy(code, client, uri, verifier),
                 req' = [req EXCEPT ![r] =
                   [pc |-> "get_by_sub", grant |-> "authorization_code",
                    source |-> key, client_id |-> client, sub |-> code.sub,
                    scope |-> code.scope, family_id |-> 0, token |-> 0,
                    expires_at |-> 0]]
          PROVE  Within'
      <4>1. code \in codes /\ code.code = key /\ code.client_id = client
        BY <3>3 DEF CodeFor, RedeemedBy
      <4>2. authorized[key] = code
        BY <4>1 DEF Known, CodesKnown
      <4>3. /\ req'[r].grant = "authorization_code" /\ req'[r].source = key
            /\ req'[r].sub = code.sub /\ req'[r].scope = code.scope
            /\ req'[r].client_id = client
            /\ \A s \in Requests \ {r} : req'[s] = req[s]
        BY <3>3 DEF TypeOK
      <4>4. Granted(req'[r], AuthorizationAfter(req'[r]))
        BY <3>1, <4>1, <4>2, <4>3 DEF Granted, Under, AuthorizationAfter
      <4> QED
        BY <3>1, <4>3, <4>4, WithinKept
    <3> QED
      BY <2>2, <3>2, <3>3 DEF RedeemCode
  <2>3. ASSUME NEW r \in Requests, NEW key \in Presented(minted),
               RefreshReuse(r, key) \/ RefreshInvalid(r, key)
        PROVE  Within'
    <3>1. UNCHANGED <<accessTokens, req, minted>>
      BY <2>3 DEF RefreshReuse, RefreshInvalid, RotateReuse, RotateInvalid,
                  RevokeRefreshFamily, histVars
    <3> QED
      BY <3>1, WithinKept
  <2>4. ASSUME NEW r \in Requests, NEW client \in Clients, NEW rt \in refreshTokens,
               NEW requested \in SUBSET Scopes, RefreshActive(r, client, rt, requested)
        PROVE  Within'
    <3>1. UNCHANGED <<accessTokens, minted, authorized, familyOrigin>>
      BY <2>4 DEF RefreshActive, RotateActive
    <3>2. CASE UNCHANGED req
      BY <3>1, <3>2, WithinKept
    <3>3. CASE /\ RefreshedBy(rt, client, requested)
               /\ req' = [req EXCEPT ![r] =
                    [pc |-> "get_by_sub", grant |-> "refresh_token",
                     source |-> rt.token, client_id |-> client, sub |-> rt.sub,
                     scope |-> EffectiveScope(rt, requested),
                     family_id |-> rt.family_id, token |-> 0, expires_at |-> 0]]
      <4>1. rt.token \in 1..Len(minted) /\ minted[rt.token] = rt
        BY DEF Known, RefreshTokensKnown
      <4>2. Granted(rt, authorized[familyOrigin[rt.family_id]])
        BY <4>1 DEF Within
      <4>3. EffectiveScope(rt, requested) \subseteq rt.scope /\ rt.client_id = client
        BY <3>3 DEF RefreshedBy, EffectiveScope
      <4>4. /\ req'[r].grant = "refresh_token" /\ req'[r].source = rt.token
            /\ req'[r].sub = rt.sub /\ req'[r].scope = EffectiveScope(rt, requested)
            /\ req'[r].client_id = client
            /\ \A s \in Requests \ {r} : req'[s] = req[s]
        BY <3>3 DEF TypeOK
      <4>5. AuthorizationAfter(req'[r]) = authorized[familyOrigin[rt.family_id]]
        BY <3>1, <4>1, <4>4 DEF AuthorizationAfter
      <4>6. Granted(req'[r], AuthorizationAfter(req'[r]))
        BY <4>2, <4>3, <4>4, <4>5 DEF Granted, Under
      <4> QED
        BY <3>1, <4>4, <4>6, WithinKept
    <3> QED
      BY <2>4, <3>2, <3>3 DEF RefreshActive
  <2>5. ASSUME NEW r \in Requests,
               UserGone(r) \/ StoreCallFails(r) \/ SaveRefreshAndRespond(r)
        PROVE  Within'
    <3>1. /\ UNCHANGED <<accessTokens, minted>>
          /\ \A s \in Requests : req'[s] = req[s] \/ req'[s] = Idle
      BY <2>5 DEF UserGone, StoreCallFails, SaveRefreshAndRespond, SaveRefreshToken,
                  storeVars, histVars, TypeOK
    <3> QED
      BY <3>1, WithinKept
  <2>6. ASSUME NEW r \in Requests, NEW x, x = req'[r], req[r] # Idle,
               x.grant = req[r].grant, x.source = req[r].source,
               x.sub = req[r].sub, x.scope = req[r].scope, x.client_id = req[r].client_id
        PROVE  Granted(x, AuthorizationAfter(x))
    <3>1. /\ Granted(req[r], authorized[CodeBehind(req[r])])
          /\ Consumed(req[r])
      BY <2>6 DEF Within, Known, RequestsKnown, RequestKnown
    <3>2. Granted(x, authorized[CodeBehind(x)]) /\ Consumed(x)
      BY <2>6, <3>1 DEF Granted, Under, CodeBehind, Consumed
    <3> QED
      BY <3>2, SameAuthorization
  <2>7. ASSUME NEW r \in Requests, UserFound(r)
        PROVE  Within'
    <3>1. /\ UNCHANGED <<accessTokens, minted>>
          /\ req[r] # Idle
          /\ req'[r].grant = req[r].grant /\ req'[r].source = req[r].source
          /\ req'[r].sub = req[r].sub /\ req'[r].scope = req[r].scope
          /\ req'[r].client_id = req[r].client_id
          /\ \A s \in Requests \ {r} : req'[s] = req[s]
      BY <2>7, AtNotIdle DEF UserFound, storeVars, Saving, TypeOK
    <3> QED
      BY <2>6, <3>1, WithinKept
  <2>8. ASSUME NEW r \in Requests, SaveAccessAndRespond(r)
        PROVE  Within'
    <3>1. /\ accessTokens' \subseteq accessTokens \cup {PendingAccessToken(req[r])}
          /\ UNCHANGED minted
          /\ req[r] # Idle /\ At(r, "save_access_token")
          /\ \A s \in Requests : req'[s] = req[s] \/ req'[s] = Idle
      BY <2>8, AtNotIdle DEF SaveAccessAndRespond, SaveAccessToken, Unexpired, histVars, TypeOK
    <3> QED
      BY <3>1, WithinKept
  <2>9. ASSUME NEW r \in Requests, SaveAccessAndRotate(r)
        PROVE  Within'
    <3> DEFINE fresh == req[r].grant = "authorization_code"
    <3> DEFINE next == Saving(req[r], "save_refresh_token",
                              IF fresh THEN Len(familyOrigin) + 1 ELSE req[r].family_id,
                              Len(minted) + 1, now + RefreshTtl)
    <3>1. req[r] # Idle /\ At(r, "save_access_token") /\ req[r] \in Exchange
      BY <2>9, AtNotIdle DEF SaveAccessAndRotate, TypeOK
    <3>2. /\ accessTokens' \subseteq accessTokens \cup {PendingAccessToken(req[r])}
          /\ req' = [req EXCEPT ![r] = next]
          /\ minted' = Append(minted, PendingRefreshToken(next))
          /\ familyOrigin' = IF fresh THEN Append(familyOrigin, req[r].source)
                             ELSE familyOrigin
          /\ UNCHANGED authorized
      BY <2>9 DEF SaveAccessAndRotate, SaveAccessToken, Unexpired
    <3>3. /\ next.grant = req[r].grant /\ next.source = req[r].source
          /\ next.sub = req[r].sub /\ next.scope = req[r].scope
          /\ next.client_id = req[r].client_id
          /\ next.family_id = IF fresh THEN Len(familyOrigin) + 1 ELSE req[r].family_id
      BY DEF Saving
    <3> HIDE DEF next
    <3>4. req'[r] = next /\ \A s \in Requests \ {r} : req'[s] = req[s]
      BY <3>2 DEF TypeOK
    <3>5. Granted(next, AuthorizationAfter(next))
      BY <2>6, <3>1, <3>3, <3>4
    <3>6. /\ PendingRefreshToken(next).sub = next.sub
          /\ PendingRefreshToken(next).scope = next.scope
          /\ PendingRefreshToken(next).client_id = next.client_id
          /\ PendingRefreshToken(next).family_id = next.family_id
      BY DEF PendingRefreshToken
    <3>7. /\ \A t \in 1..Len(minted') : t \in 1..Len(minted) \/ t = Len(minted) + 1
          /\ minted'[Len(minted) + 1] = PendingRefreshToken(next)
          /\ \A t \in 1..Len(minted) : minted'[t] = minted[t]
      BY <3>2 DEF TypeOK
    <3>8. AuthorizationAfter(next) = authorized'[familyOrigin'[next.family_id]]
      <4>1. CASE fresh
        <5>1. next.source \in Nat
          BY <3>1, <3>3 DEF Exchange
        <5>2. familyOrigin'[next.family_id] = next.source
          BY <3>2, <3>3, <4>1, <5>1, AppendTyped DEF TypeOK
        <5> QED
          BY <3>3, <4>1, <5>2 DEF AuthorizationAfter
      <4>2. CASE ~fresh
        <5>1. /\ req[r].grant = "refresh_token" /\ RequestKnown(req[r])
          BY <3>1, <4>2 DEF Exchange, Known, RequestsKnown
        <5>2. /\ req[r].family_id = minted[req[r].source].family_id
              /\ req[r].source \in 1..Len(minted)
          BY <5>1 DEF RequestKnown, Consumed, Known, MintedKnown
        <5> QED
          BY <3>3, <3>7, <4>2, <5>2 DEF AuthorizationAfter
      <4> QED
        BY <4>1, <4>2
    <3>9. Granted(minted'[Len(minted) + 1],
                  authorized'[familyOrigin'[minted'[Len(minted) + 1].family_id]])
      BY <3>5, <3>6, <3>7, <3>8 DEF Granted, Under
    <3> QED
      BY <3>1, <3>2, <3>4, <3>5, <3>7, <3>9, WithinKept
  <2>10. CASE (\E sub \in Subs : RemoveUser(sub)) \/ Tick \/ UNCHANGED vars
    <3>1. UNCHANGED <<accessTokens, req, minted>>
      BY <2>10 DEF RemoveUser, Tick, ClockTick, vars, storeVars, histVars
    <3> QED
      BY <3>1, WithinKept
  <2> QED
    BY <2>1, <2>2, <2>3, <2>4, <2>5, <2>7, <2>8, <2>9, <2>10 DEF Next, Begin, Continue
<1> QED
  BY <1>1, <1>2, TypeCorrect, AlwaysKnown, PTL DEF Spec

LEMMA ClaimsGrowWithScope ==
  ASSUME NEW small, NEW large, small \subseteq large
  PROVE  FilterClaimsByScope(small) \subseteq FilterClaimsByScope(large)
BY DEF FilterClaimsByScope

\* What an access token opens at /userinfo, stored or about to be, was granted
\* by the code it goes back to, and is of a user there still is.
COROLLARY AccessIsAuthorized == Spec => []AccessWithinAuthorization
<1>1. TypeOK /\ Within => AccessWithinAuthorization
  <2> SUFFICES ASSUME TypeOK, Within
               PROVE  AccessWithinAuthorization
    OBVIOUS
  <2>1. ASSUME NEW key \in DOMAIN provenance, NEW response \in UserInfo(key)
        PROVE  /\ response.sub = authorized[CodeBehind(provenance[key])].sub
               /\ response.sub \in users
               /\ response.claims \subseteq
                    FilterClaimsByScope(authorized[CodeBehind(provenance[key])].scope)
    <3>1. PICK a \in {b \in AccessTokenFor(key) : b.sub \in users} :
            response = [sub |-> a.sub, claims |-> FilterClaimsByScope(a.scope)]
      BY <2>1 DEF UserInfo
    <3>2. a \in accessTokens /\ a.token = key
      BY DEF AccessTokenFor
    <3>3. Under(a, authorized[CodeBehind(provenance[key])])
      BY <3>2 DEF Within
    <3> QED
      BY <3>1, <3>3, ClaimsGrowWithScope DEF Under
  <2> QED
    BY <2>1 DEF AccessWithinAuthorization, Within, Granted
<1> QED
  BY <1>1, TypeCorrect, AlwaysWithin, PTL

-----------------------------------------------------------------------------
(* Along a family scopes only narrow. *)

\* The holder of a family, a stored token or a request, has no more than any
\* token of the family ever had.
Narrowing ==
  /\ \A t, u \in 1..Len(minted) :
       t < u /\ minted[t].family_id = minted[u].family_id
         => minted[u].scope \subseteq minted[t].scope
  /\ \A a \in refreshTokens, t \in 1..Len(minted) :
       minted[t].family_id = a.family_id => a.scope \subseteq minted[t].scope
  /\ \A r \in Requests, t \in 1..Len(minted) :
       req[r] # Idle /\ minted[t].family_id = req[r].family_id
         => req[r].scope \subseteq minted[t].scope

\* Steps that draw no refresh token.
LEMMA NarrowingFrame ==
  ASSUME Narrowing, UNCHANGED minted,
         \A a \in refreshTokens' :
           \/ a \in refreshTokens
           \/ \E r \in Requests :
                /\ req[r] # Idle
                /\ a.family_id = req[r].family_id /\ a.scope = req[r].scope,
         \A r \in Requests :
           \/ req'[r] = Idle
           \/ /\ req[r] # Idle
              /\ req'[r].family_id = req[r].family_id /\ req'[r].scope = req[r].scope
           \/ \E rt \in refreshTokens :
                req'[r].family_id = rt.family_id /\ req'[r].scope \subseteq rt.scope
           \/ \A t \in 1..Len(minted) : minted[t].family_id # req'[r].family_id
  PROVE  Narrowing'
<1>1. ASSUME NEW a \in refreshTokens', NEW t \in 1..Len(minted),
             minted[t].family_id = a.family_id
      PROVE  a.scope \subseteq minted[t].scope
  BY <1>1 DEF Narrowing
<1>2. ASSUME NEW r \in Requests, NEW t \in 1..Len(minted),
             req'[r] # Idle, minted[t].family_id = req'[r].family_id
      PROVE  req'[r].scope \subseteq minted[t].scope
  BY <1>2 DEF Narrowing
<1> QED
  BY <1>1, <1>2 DEF Narrowing

\* A refresh never widens what its family holds.
THEOREM AlwaysNarrowing == Spec => []Narrowing
<1>1. Init => Narrowing
  BY DEF Init, StoreInit, Narrowing, Idle
<1>2. TypeOK /\ TypeOK' /\ Known /\ OneHolder /\ Narrowing /\ [Next]_vars => Narrowing'
  <2> SUFFICES ASSUME TypeOK, TypeOK', Known, OneHolder, Narrowing, [Next]_vars
               PROVE  Narrowing'
    OBVIOUS
  <2>1. CASE Authorize
    <3>1. UNCHANGED <<refreshTokens, req, minted>>
      BY <2>1 DEF Authorize, IssueCode, SaveCode
    <3> QED
      BY <3>1 DEF Narrowing
  <2>2. ASSUME NEW r \in Requests, NEW client \in Clients,
               NEW key \in Presented(authorized), NEW uri \in RedirectUris,
               NEW verifier,
               RedeemCode(r, client, key, uri, verifier)
        PROVE  Narrowing'
    <3>1. UNCHANGED <<refreshTokens, minted>>
      BY <2>2 DEF RedeemCode, ConsumeCode, histVars
    <3>2. \A s \in Requests : req'[s] = req[s] \/ req'[s].family_id = 0
      BY <2>2 DEF RedeemCode, TypeOK
    <3>3. \A t \in 1..Len(minted) : minted[t].family_id # 0
      BY DEF Known, MintedKnown
    <3> QED
      BY <3>1, <3>2, <3>3 DEF Narrowing
  <2>3. ASSUME NEW r \in Requests, NEW key \in Presented(minted),
               RefreshReuse(r, key) \/ RefreshInvalid(r, key)
        PROVE  Narrowing'
    <3>1. refreshTokens' \subseteq refreshTokens /\ UNCHANGED <<req, minted>>
      BY <2>3 DEF RefreshReuse, RefreshInvalid, RotateReuse, RotateInvalid,
                  RevokeRefreshFamily, histVars
    <3> QED
      BY <3>1 DEF Narrowing
  <2>4. ASSUME NEW r \in Requests, NEW client \in Clients, NEW rt \in refreshTokens,
               NEW requested \in SUBSET Scopes, RefreshActive(r, client, rt, requested)
        PROVE  Narrowing'
    <3>1. refreshTokens' \subseteq refreshTokens /\ UNCHANGED minted
      BY <2>4 DEF RefreshActive, RotateActive
    <3>2. \A s \in Requests :
            \/ req'[s] = req[s]
            \/ req'[s].family_id = rt.family_id /\ req'[s].scope \subseteq rt.scope
      BY <2>4 DEF RefreshActive, RefreshedBy, EffectiveScope, TypeOK
    <3> QED
      BY <3>1, <3>2, NarrowingFrame
  <2>5. ASSUME NEW r \in Requests,
               UserGone(r) \/ StoreCallFails(r) \/ SaveAccessAndRespond(r) \/ UserFound(r)
        PROVE  Narrowing'
    <3>1. /\ UNCHANGED <<refreshTokens, minted>>
          /\ \A s \in Requests :
               \/ req'[s] = req[s] \/ req'[s] = Idle
               \/ /\ req[s] # Idle
                  /\ req'[s].family_id = req[s].family_id /\ req'[s].scope = req[s].scope
      BY <2>5, AtNotIdle
         DEF UserGone, StoreCallFails, SaveAccessAndRespond, SaveAccessToken, UserFound,
             storeVars, histVars, Saving, TypeOK
    <3> QED
      BY <3>1, NarrowingFrame
  <2>6. ASSUME NEW r \in Requests, SaveRefreshAndRespond(r)
        PROVE  Narrowing'
    <3>1. /\ refreshTokens' \subseteq refreshTokens \cup {PendingRefreshToken(req[r])}
          /\ PendingRefreshToken(req[r]).family_id = req[r].family_id
          /\ PendingRefreshToken(req[r]).scope = req[r].scope
          /\ req[r] # Idle /\ UNCHANGED minted
          /\ \A s \in Requests : req'[s] = req[s] \/ req'[s] = Idle
      BY <2>6, AtNotIdle DEF SaveRefreshAndRespond, SaveRefreshToken, Unexpired, TypeOK,
                             PendingRefreshToken, histVars
    <3> QED
      BY <3>1, NarrowingFrame
  <2>7. ASSUME NEW r \in Requests, SaveAccessAndRotate(r)
        PROVE  Narrowing'
    <3> DEFINE n == Len(minted) + 1
    <3>1. /\ UNCHANGED refreshTokens
          /\ req[r] # Idle
          /\ \A s \in Requests \ {r} : req'[s] = req[s]
          /\ minted' = Append(minted, PendingRefreshToken(req'[r]))
          /\ req'[r].scope = req[r].scope
          /\ \/ req'[r].family_id = Len(familyOrigin) + 1
             \/ req'[r].family_id = req[r].family_id /\ req[r].grant # "authorization_code"
      BY <2>7, AtNotIdle DEF SaveAccessAndRotate, SaveAccessToken, TypeOK, Saving
    <3>2. /\ minted'[n].family_id = req'[r].family_id
          /\ minted'[n].scope = req[r].scope
          /\ \A t \in 1..Len(minted) : minted'[t] = minted[t] /\ t < n
          /\ \A t \in 1..Len(minted') : t \in 1..Len(minted) \/ t = n
      BY <3>1 DEF TypeOK, PendingRefreshToken
    <3> HIDE DEF n
    <3>3. ASSUME NEW t \in 1..Len(minted), minted[t].family_id = req'[r].family_id
          PROVE  req[r].scope \subseteq minted[t].scope
      <4>1. minted[t].family_id # Len(familyOrigin) + 1
        BY FamiliesKnown DEF Known, MintedKnown
      <4> QED
        BY <3>1, <3>3, <4>1 DEF Narrowing
    <3>4. ASSUME NEW a \in refreshTokens
          PROVE  a.family_id # req'[r].family_id
      <4>1. a.family_id # Len(familyOrigin) + 1
        BY FamiliesKnown
      <4> QED
        BY <3>1, <4>1 DEF OneHolder
    <3>5. ASSUME NEW s \in Requests, s # r, req[s] # Idle
          PROVE  req[s].family_id # req'[r].family_id
      <4>1. req[s].family_id # Len(familyOrigin) + 1
        BY <3>5, FamiliesKnown
      <4>2. req[r].grant # "authorization_code" => req[r].family_id # 0
        <5>1. req[r] \in Exchange /\ RequestKnown(req[r])
          BY <3>1 DEF TypeOK, Known, RequestsKnown
        <5>2. ASSUME req[r].grant # "authorization_code"
              PROVE  req[r].family_id # 0
          <6>1. /\ req[r].family_id = minted[req[r].source].family_id
                /\ req[r].source \in 1..Len(minted)
            BY <5>1, <5>2 DEF Exchange, RequestKnown, Consumed, Known, MintedKnown
          <6> QED
            BY <6>1 DEF Known, MintedKnown
        <5> QED
          BY <5>2
      <4> QED
        BY <3>1, <3>5, <4>1, <4>2 DEF OneHolder
    <3>6. ASSUME NEW t \in 1..Len(minted'), NEW u \in 1..Len(minted'), t < u,
                 minted'[t].family_id = minted'[u].family_id
          PROVE  minted'[u].scope \subseteq minted'[t].scope
      <4>1. t \in 1..Len(minted)
        <5>1. n \in Nat /\ n = Len(minted) + 1 /\ Len(minted) \in Nat
          BY <3>2 DEF TypeOK, n
        <5>2. (t \in 1..Len(minted) \/ t = n) /\ (u \in 1..Len(minted) \/ u = n)
          BY <3>2, <3>6
        <5> QED
          BY <3>6, <5>1, <5>2
      <4>2. CASE u \in 1..Len(minted)
        BY <3>2, <3>6, <4>1, <4>2 DEF Narrowing
      <4>3. CASE u = n
        BY <3>2, <3>3, <3>6, <4>1, <4>3
      <4> QED
        BY <3>2, <4>2, <4>3
    <3>7. ASSUME NEW a \in refreshTokens', NEW t \in 1..Len(minted'),
                 minted'[t].family_id = a.family_id
          PROVE  a.scope \subseteq minted'[t].scope
      BY <3>1, <3>2, <3>4, <3>7 DEF Narrowing
    <3>8. ASSUME NEW s \in Requests, NEW t \in 1..Len(minted'), req'[s] # Idle,
                 minted'[t].family_id = req'[s].family_id
          PROVE  req'[s].scope \subseteq minted'[t].scope
      <4>1. CASE s = r
        BY <3>1, <3>2, <3>3, <3>8, <4>1
      <4>2. CASE s # r
        BY <3>1, <3>2, <3>5, <3>8, <4>2 DEF Narrowing
      <4> QED
        BY <4>1, <4>2
    <3> QED
      BY <3>6, <3>7, <3>8 DEF Narrowing
  <2>8. CASE (\E sub \in Subs : RemoveUser(sub)) \/ Tick \/ UNCHANGED vars
    <3>1. UNCHANGED <<refreshTokens, req, minted>>
      BY <2>8 DEF RemoveUser, Tick, ClockTick, vars, storeVars, histVars
    <3> QED
      BY <3>1 DEF Narrowing
  <2> QED
    BY <2>1, <2>2, <2>3, <2>4, <2>5, <2>6, <2>7, <2>8 DEF Next, Begin, Continue
<1> QED
  BY <1>1, <1>2, TypeCorrect, AlwaysKnown, AlwaysOneHolder, PTL DEF Spec

\* Client and subject of a family stay those of its code, and a scope once
\* dropped never comes back.
COROLLARY FamiliesNarrow == Spec => []FamilyOnlyNarrows
<1>1. TypeOK /\ Within /\ Narrowing => FamilyOnlyNarrows
  <2> SUFFICES ASSUME TypeOK, Within, Narrowing
               PROVE  FamilyOnlyNarrows
    OBVIOUS
  <2>1. DOMAIN minted = 1..Len(minted)
    BY DEF TypeOK
  <2>2. ASSUME NEW t \in DOMAIN minted
        PROVE  Granted(minted[t], authorized[familyOrigin[minted[t].family_id]])
    BY <2>1, <2>2 DEF Within
  <2>3. ASSUME NEW t \in DOMAIN minted, NEW u \in DOMAIN minted,
               t < u, minted[t].family_id = minted[u].family_id
        PROVE  minted[u].scope \subseteq minted[t].scope
    BY <2>1, <2>3 DEF Narrowing
  <2> QED
    BY <2>2, <2>3 DEF FamilyOnlyNarrows, Granted
<1> QED
  BY <1>1, TypeCorrect, AlwaysWithin, AlwaysNarrowing, PTL

-----------------------------------------------------------------------------
(* How many tokens and families there can be: an exchange mints at most one  *)
(* refresh token, and opens at most one family with it.                      *)

SavingAccess(r) == At(r, "save_access_token")

\* The exchanges whose access token is no longer on its way to the store.
Settled ==
  {i \in 1..Len(provenance) : \A r \in Requests : SavingAccess(r) => req[r].token # i}

Counted ==
  /\ Len(provenance) <= MaxExchanges
  /\ Len(minted) <= Cardinality(Settled)
  /\ Len(familyOrigin) <= Len(minted)
  /\ \A r, s \in Requests :
       SavingAccess(r) /\ SavingAccess(s) /\ req[r].token = req[s].token => r = s
  /\ revokedFamilies \subseteq 1..Len(familyOrigin)

LEMMA SettledFinite ==
  ASSUME TypeOK
  PROVE  IsFiniteSet(Settled) /\ Cardinality(Settled) \in Nat
         /\ Cardinality(Settled) <= Len(provenance)
<1>1. Len(provenance) \in Nat
  BY DEF TypeOK
<1>2. IsFiniteSet(1..Len(provenance)) /\ Cardinality(1..Len(provenance)) = Len(provenance)
  <2>1. 1 \in Int /\ Len(provenance) \in Int
    BY <1>1
  <2>2. /\ IsFiniteSet(1..Len(provenance))
        /\ Cardinality(1..Len(provenance)) =
             IF 1 > Len(provenance) THEN 0 ELSE Len(provenance) - 1 + 1
    BY ONLY <2>1, FS_Interval
  <2> QED
    BY <1>1, <2>2
<1>3. Settled \subseteq 1..Len(provenance)
  BY DEF Settled
<1> QED
  BY <1>2, <1>3, FS_Subset, FS_CardinalityType

\* Requests only cease to save an access token.
LEMMA CountedFrame ==
  ASSUME TypeOK, TypeOK', Counted, UNCHANGED <<provenance, minted, familyOrigin>>,
         \A r \in Requests : req'[r] = req[r] \/ req'[r].pc # "save_access_token",
         revokedFamilies' \subseteq 1..Len(familyOrigin)
  PROVE  Counted'
<1>1. Settled \subseteq Settled'
  BY DEF Settled, SavingAccess, At
<1>2. IsFiniteSet(Settled')
  <2>1. 1 \in Int /\ Len(provenance) \in Int
    BY DEF TypeOK
  <2>2. IsFiniteSet(1..Len(provenance))
    BY ONLY <2>1, FS_Interval
  <2>3. Settled' \subseteq 1..Len(provenance)
    BY DEF Settled
  <2> QED
    BY <2>2, <2>3, FS_Subset
<1>3. Cardinality(Settled) <= Cardinality(Settled')
  BY <1>1, <1>2, FS_Subset
<1>4. Cardinality(Settled) \in Nat /\ Cardinality(Settled') \in Nat /\ Len(minted) \in Nat
  BY <1>2, SettledFinite, FS_CardinalityType DEF TypeOK
<1>5. Len(minted') <= Cardinality(Settled')
  BY <1>3, <1>4 DEF Counted
<1> QED
  BY <1>5 DEF Counted, SavingAccess, At

\* No more tokens and families exist than exchanges, and only families that
\* exist are revoked.
THEOREM AlwaysCounted == Spec => []Counted
<1>1. Init => Counted
  <2> SUFFICES ASSUME Init PROVE Counted
    OBVIOUS
  <2>1. TypeOK
    BY MaxTimeAssumption DEF Init, StoreInit, TypeOK, StoreTypeOK, Idle
  <2>2. Cardinality(Settled) \in Nat
    BY <2>1, SettledFinite
  <2> QED
    BY <2>2, BoundAssumption DEF Init, StoreInit, Counted, SavingAccess, At, Idle
<1>2. TypeOK /\ TypeOK' /\ Known /\ Counted /\ [Next]_vars => Counted'
  <2> SUFFICES ASSUME TypeOK, TypeOK', Known, Counted, [Next]_vars
               PROVE  Counted'
    OBVIOUS
  <2>1. CASE Authorize
    BY <2>1, CountedFrame DEF Authorize, IssueCode, SaveCode, Counted
  <2>2. ASSUME NEW r \in Requests, NEW client \in Clients,
               NEW key \in Presented(authorized), NEW uri \in RedirectUris,
               NEW verifier,
               RedeemCode(r, client, key, uri, verifier)
        PROVE  Counted'
    <3>1. UNCHANGED <<provenance, minted, familyOrigin, revokedFamilies>>
      BY <2>2 DEF RedeemCode, ConsumeCode, histVars
    <3>2. \A s \in Requests : req'[s] = req[s] \/ req'[s].pc # "save_access_token"
      BY <2>2 DEF RedeemCode, TypeOK
    <3> QED
      BY <3>1, <3>2, CountedFrame DEF Counted
  <2>3. ASSUME NEW r \in Requests, NEW key \in Presented(minted), RefreshReuse(r, key)
        PROVE  Counted'
    <3>1. PICK rt \in consumedTokens : RevokeRefreshFamily(rt.family_id)
      BY <2>3 DEF RefreshReuse, RotateReuse
    <3>2. rt.family_id \in 1..Len(familyOrigin)
      BY DEF Known, RefreshTokensKnown, MintedKnown
    <3>3. revokedFamilies' \subseteq 1..Len(familyOrigin)
      BY <3>1, <3>2 DEF RevokeRefreshFamily, Counted
    <3>4. UNCHANGED <<provenance, minted, familyOrigin, req>>
      BY <2>3 DEF RefreshReuse, histVars
    <3> QED
      BY <3>3, <3>4, CountedFrame
  <2>4. ASSUME NEW r \in Requests, NEW key \in Presented(minted), RefreshInvalid(r, key)
        PROVE  Counted'
    BY <2>4, CountedFrame DEF RefreshInvalid, RotateInvalid, histVars, Counted
  <2>5. ASSUME NEW r \in Requests, NEW client \in Clients, NEW rt \in refreshTokens,
               NEW requested \in SUBSET Scopes, RefreshActive(r, client, rt, requested)
        PROVE  Counted'
    <3>1. UNCHANGED <<provenance, minted, familyOrigin, revokedFamilies>>
      BY <2>5 DEF RefreshActive, RotateActive
    <3>2. \A s \in Requests : req'[s] = req[s] \/ req'[s].pc # "save_access_token"
      BY <2>5 DEF RefreshActive, TypeOK
    <3> QED
      BY <3>1, <3>2, CountedFrame DEF Counted
  <2>6. ASSUME NEW r \in Requests,
               \/ UserGone(r) \/ StoreCallFails(r)
               \/ SaveAccessAndRespond(r) \/ SaveRefreshAndRespond(r)
        PROVE  Counted'
    <3>1. /\ UNCHANGED <<provenance, minted, familyOrigin, revokedFamilies>>
          /\ \A s \in Requests : req'[s] = req[s] \/ req'[s] = Idle
      BY <2>6 DEF UserGone, StoreCallFails, SaveAccessAndRespond, SaveAccessToken,
                  SaveRefreshAndRespond, SaveRefreshToken, storeVars, histVars, TypeOK
    <3>2. Idle.pc # "save_access_token"
      BY DEF Idle
    <3> QED
      BY <3>1, <3>2, CountedFrame DEF Counted
  <2>7. ASSUME NEW r \in Requests, UserFound(r)
        PROVE  Counted'
    <3> DEFINE n == Len(provenance) + 1
    <3>1. /\ UNCHANGED <<minted, familyOrigin, revokedFamilies>>
          /\ At(r, "get_by_sub") /\ Len(provenance) < MaxExchanges
          /\ req'[r].pc = "save_access_token" /\ req'[r].token = n
          /\ \A s \in Requests \ {r} : req'[s] = req[s]
          /\ Len(provenance') = n /\ Len(provenance) \in Nat
      BY <2>7 DEF UserFound, storeVars, Saving, TypeOK
    <3>2. \A s \in Requests : SavingAccess(s) => req[s].token \in 1..Len(provenance)
      BY AtNotIdle DEF SavingAccess, At, Known, RequestsKnown, RequestKnown
    <3>3. Settled' = Settled
      <4>1. ASSUME NEW i \in 1..n
            PROVE  i \in Settled' <=> i \in Settled
        <5>1. CASE i = n
          BY <3>1, <5>1 DEF Settled, SavingAccess, At
        <5>2. CASE i # n
          <6>1. i \in 1..Len(provenance)
            BY <3>1, <5>2
          <6> QED
            BY <3>1, <5>2, <6>1 DEF Settled, SavingAccess, At
        <5> QED
          BY <5>1, <5>2
      <4> QED
        BY <3>1, <4>1 DEF Settled
    <3>4. Len(provenance') <= MaxExchanges
      BY <3>1, BoundAssumption
    <3>5. ASSUME NEW p \in Requests, NEW s \in Requests,
                 req'[p].pc = "save_access_token", req'[s].pc = "save_access_token",
                 req'[p].token = req'[s].token
          PROVE  p = s
      BY <3>1, <3>2, <3>5 DEF Counted, SavingAccess, At
    <3> QED
      BY <3>1, <3>3, <3>4, <3>5 DEF Counted, SavingAccess, At
  <2>8. ASSUME NEW r \in Requests, SaveAccessAndRotate(r)
        PROVE  Counted'
    <3>1. /\ UNCHANGED <<provenance, revokedFamilies>>
          /\ SavingAccess(r) /\ req[r] # Idle
          /\ req'[r].pc = "save_refresh_token"
          /\ \A s \in Requests \ {r} : req'[s] = req[s]
          /\ Len(minted') = Len(minted) + 1
          /\ Len(familyOrigin') \in {Len(familyOrigin), Len(familyOrigin) + 1}
          /\ Len(minted) \in Nat /\ Len(familyOrigin) \in Nat
      BY <2>8, AtNotIdle DEF SaveAccessAndRotate, SaveAccessToken, Saving, TypeOK, SavingAccess
    <3>2. req[r].token \in 1..Len(provenance) /\ req[r].token \notin Settled
      BY <3>1 DEF Known, RequestsKnown, RequestKnown, SavingAccess, At, Settled
    <3>3. \A s \in Requests \ {r} : SavingAccess(s) => req[s].token # req[r].token
      BY <3>1 DEF Counted
    <3>4. Settled \cup {req[r].token} = Settled'
      BY <3>1, <3>2, <3>3 DEF Settled, SavingAccess, At
    <3>5. Cardinality(Settled') = Cardinality(Settled) + 1
      BY <3>2, <3>4, SettledFinite, FS_AddElement
    <3>6. Cardinality(Settled) \in Nat
      BY SettledFinite
    <3>7. Len(minted') <= Cardinality(Settled')
      BY <3>1, <3>5, <3>6 DEF Counted
    <3>8. Len(familyOrigin') <= Len(minted')
      BY <3>1 DEF Counted
    <3>9. revokedFamilies' \subseteq 1..Len(familyOrigin')
      BY <3>1 DEF Counted
    <3> QED
      BY <3>1, <3>7, <3>8, <3>9 DEF Counted, SavingAccess, At
  <2>9. CASE (\E sub \in Subs : RemoveUser(sub)) \/ Tick \/ UNCHANGED vars
    BY <2>9, CountedFrame DEF RemoveUser, Tick, ClockTick, vars, storeVars, histVars, Counted
  <2> QED
    BY <2>1, <2>2, <2>3, <2>4, <2>5, <2>6, <2>7, <2>8, <2>9 DEF Next, Begin, Continue
<1> QED
  BY <1>1, <1>2, TypeCorrect, AlwaysKnown, PTL DEF Spec

-----------------------------------------------------------------------------
(* The endpoint implements the chain of RefreshFamily. *)

Live(rt) == [at |-> "live", token |-> rt.token]
Unborn == [at |-> "unborn"]
Pending == [at |-> "pending"]
Dead == [at |-> "dead"]

\* FamilyPhase as a function of what it looks at.
PhaseOf(f, born, revoked, live, carriers) ==
  IF f > born THEN Unborn
  ELSE IF f \in revoked THEN Dead
  ELSE IF live # {} THEN [at |-> "live", token |-> (CHOOSE rt \in live : TRUE).token]
  ELSE IF carriers # {} THEN Pending
  ELSE Dead

LiveOf(f) == {rt \in refreshTokens : rt.family_id = f /\ ~(rt.expires_at <= now)}
LiveAfter(f) == {rt \in refreshTokens' : rt.family_id = f /\ ~(rt.expires_at <= now')}
CarriersAfter(f) == {r \in Requests : req'[r] # Idle /\ req'[r].family_id = f}

PhaseNow(f) ==
  PhaseOf(f, Len(familyOrigin), revokedFamilies, LiveOf(f), CarriersOf(f))
PhaseAfter(f) ==
  PhaseOf(f, Len(familyOrigin'), revokedFamilies', LiveAfter(f), CarriersAfter(f))

LEMMA PhasesAre ==
  /\ \A f \in Families : FamilyPhase(f) = PhaseNow(f)
  /\ \A f \in Families : FamilyPhase(f)' = PhaseAfter(f)
<1>1. ASSUME NEW f \in Families
      PROVE  FamilyPhase(f) = PhaseNow(f)
  <2>1. Unexpired(StoredOf(f)) = LiveOf(f)
    BY DEF Unexpired, Expired, StoredOf, LiveOf
  <2> QED
    BY <2>1 DEF FamilyPhase, PhaseNow, PhaseOf, Unborn, Dead, Pending
<1>2. ASSUME NEW f \in Families
      PROVE  FamilyPhase(f)' = PhaseAfter(f)
  <2>1. Unexpired(StoredOf(f))' = LiveAfter(f)
    BY DEF Unexpired, Expired, StoredOf, LiveAfter
  <2>2. CarriersOf(f)' = CarriersAfter(f)
    BY DEF CarriersOf, CarriersAfter, Idle
  <2> QED
    BY <2>1, <2>2 DEF FamilyPhase, PhaseAfter, PhaseOf, Unborn, Dead, Pending
<1> QED
  BY <1>1, <1>2

\* The steps of RefreshFamily, in these terms.
LEMMA ChainStutters ==
  ASSUME \A f \in Families : PhaseAfter(f) = PhaseNow(f), rotated' = rotated
  PROVE  [Chain!Next]_(Chain!vars)
<1>1. [f \in Families |-> FamilyPhase(f)]' = [f \in Families |-> FamilyPhase(f)]
  BY PhasesAre DEF Families
<1> QED
  BY <1>1 DEF Chain!vars

LEMMA ChainKills ==
  ASSUME NEW dying \in SUBSET Families, rotated' = rotated,
         \A f \in dying : PhaseNow(f) # Unborn /\ PhaseAfter(f) = Dead,
         \A f \in Families \ dying : PhaseAfter(f) = PhaseNow(f)
  PROVE  [Chain!Next]_(Chain!vars)
<1>1. [f \in Families |-> FamilyPhase(f)]' =
        [f \in Families |-> IF f \in dying THEN [at |-> "dead"] ELSE FamilyPhase(f)]
  BY PhasesAre DEF Dead, Families
<1>2. \A f \in dying : FamilyPhase(f) # [at |-> "unborn"]
  BY PhasesAre DEF Unborn
<1>3. Chain!Kill(dying)
  BY <1>1, <1>2 DEF Chain!Kill, Chain!Dead, Chain!Unborn
<1> QED
  BY <1>3 DEF Chain!Next

LEMMA ChainKillsOne ==
  ASSUME NEW f \in Families, rotated' = rotated,
         PhaseNow(f) # Unborn, PhaseAfter(f) = Dead,
         \A g \in Families \ {f} : PhaseAfter(g) = PhaseNow(g)
  PROVE  [Chain!Next]_(Chain!vars)
<1> DEFINE dying == {f}
<1>1. /\ dying \in SUBSET Families
      /\ \A g \in dying : PhaseNow(g) # Unborn /\ PhaseAfter(g) = Dead
      /\ \A g \in Families \ dying : PhaseAfter(g) = PhaseNow(g)
  OBVIOUS
<1> HIDE DEF dying
<1> QED
  BY <1>1, ChainKills

LEMMA ChainOpens ==
  ASSUME NEW f \in Families, rotated' = rotated,
         PhaseNow(f) = Unborn, PhaseAfter(f) = Pending,
         \A g \in Families \ {f} : PhaseAfter(g) = PhaseNow(g)
  PROVE  [Chain!Next]_(Chain!vars)
<1>1. [g \in Families |-> FamilyPhase(g)]' =
        [[g \in Families |-> FamilyPhase(g)] EXCEPT ![f] = [at |-> "pending"]]
  BY PhasesAre DEF Pending, Families
<1>2. FamilyPhase(f) = [at |-> "unborn"]
  BY PhasesAre DEF Unborn
<1>3. Chain!Open(f)
  BY <1>1, <1>2 DEF Chain!Open, Chain!Pending, Chain!Unborn
<1> QED
  BY <1>3 DEF Chain!Next

LEMMA ChainDelivers ==
  ASSUME NEW f \in Families, NEW rt, rt.token \in 1..MaxExchanges, rotated' = rotated,
         PhaseNow(f) = Pending, PhaseAfter(f) = Live(rt), rt.token \notin rotated,
         \A g \in Families : PhaseNow(g) # Live(rt),
         \A g \in Families \ {f} : PhaseAfter(g) = PhaseNow(g)
  PROVE  [Chain!Next]_(Chain!vars)
<1> DEFINE t == rt.token
<1>1. [g \in Families |-> FamilyPhase(g)]' =
        [[g \in Families |-> FamilyPhase(g)] EXCEPT ![f] = [at |-> "live", token |-> t]]
  BY PhasesAre DEF Live, Families
<1>2. /\ FamilyPhase(f) = [at |-> "pending"]
      /\ \A g \in Families : FamilyPhase(g) # [at |-> "live", token |-> t]
  BY PhasesAre DEF Pending, Live
<1> HIDE DEF t
<1>3. t \notin rotated /\ t \in 1..MaxExchanges
  BY DEF t
<1>4. Chain!Deliver(f, t)
  BY <1>1, <1>2, <1>3 DEF Chain!Deliver, Chain!Pending, Chain!Live
<1> QED
  BY <1>3, <1>4 DEF Chain!Next

LEMMA ChainExchanges ==
  ASSUME NEW f \in Families, NEW rt, rt.token \in 1..MaxExchanges,
         rotated' = rotated \cup {rt.token},
         PhaseNow(f) = Live(rt), PhaseAfter(f) \in {Pending, Dead},
         \A g \in Families \ {f} : PhaseAfter(g) = PhaseNow(g)
  PROVE  [Chain!Next]_(Chain!vars)
<1> DEFINE t == rt.token
<1>1. PICK after \in {[at |-> "pending"], [at |-> "dead"]} : PhaseAfter(f) = after
  BY DEF Pending, Dead
<1>2. [g \in Families |-> FamilyPhase(g)]' =
        [[g \in Families |-> FamilyPhase(g)] EXCEPT ![f] = after]
  BY <1>1, PhasesAre DEF Families
<1>3. FamilyPhase(f) = [at |-> "live", token |-> t]
  BY PhasesAre DEF Live
<1> HIDE DEF t
<1>4. rotated' = rotated \cup {t} /\ t \in 1..MaxExchanges
  BY DEF t
<1>5. Chain!Exchange(f, t)
  BY <1>2, <1>3, <1>4 DEF Chain!Exchange, Chain!Pending, Chain!Dead, Chain!Live
<1> QED
  BY <1>4, <1>5 DEF Chain!Next

\* Families of tokens and requests are families of the chain.
LEMMA FamiliesBounded ==
  ASSUME TypeOK, Known, Counted
  PROVE  /\ Len(familyOrigin) \in Nat /\ Len(familyOrigin) <= MaxExchanges
         /\ Len(minted) \in Nat /\ Len(minted) <= MaxExchanges
         /\ 1..Len(familyOrigin) \subseteq Families
         /\ Families \subseteq Nat
<1>1. /\ Len(provenance) \in Nat /\ Len(minted) \in Nat /\ Len(familyOrigin) \in Nat
  BY DEF TypeOK
<1>2. Cardinality(Settled) \in Nat /\ Cardinality(Settled) <= Len(provenance)
  BY SettledFinite
<1>3. Len(minted) <= MaxExchanges /\ Len(familyOrigin) <= MaxExchanges
  BY <1>1, <1>2, BoundAssumption DEF Counted
<1> QED
  BY <1>1, <1>3, BoundAssumption DEF Families

LEMMA SamePhase ==
  ASSUME NEW f \in Families,
         f > Len(familyOrigin') <=> f > Len(familyOrigin),
         f \in revokedFamilies' <=> f \in revokedFamilies,
         f \notin revokedFamilies => LiveAfter(f) = LiveOf(f),
         CarriersAfter(f) = {} <=> CarriersOf(f) = {}
  PROVE  PhaseAfter(f) = PhaseNow(f)
BY DEF PhaseAfter, PhaseNow, PhaseOf

\* A request that keeps its family, or is not of family f before and after, is
\* as good as unchanged.
Beside(s, f) ==
  /\ req[s] = Idle \/ req[s].family_id # f
  /\ req'[s] = Idle \/ req'[s].family_id # f
KeepsFamily(s) ==
  req[s] # Idle /\ req'[s] # Idle /\ req'[s].family_id = req[s].family_id

LEMMA SameCarriers ==
  ASSUME NEW f, \A s \in Requests : req'[s] = req[s] \/ Beside(s, f) \/ KeepsFamily(s)
  PROVE  CarriersAfter(f) = CarriersOf(f)
BY DEF CarriersAfter, CarriersOf, Beside, KeepsFamily

LEMMA LivePhase ==
  ASSUME OneHolder, NEW f \in Families, ~(f > Len(familyOrigin)), f \notin revokedFamilies,
         NEW rt \in LiveOf(f)
  PROVE  PhaseNow(f) = Live(rt)
<1>1. LiveOf(f) = {rt}
  BY DEF LiveOf, OneHolder
<1>2. (CHOOSE e \in {rt} : TRUE) = rt
  OBVIOUS
<1> QED
  BY <1>1, <1>2 DEF PhaseNow, PhaseOf, Live

LEMMA LivePhaseAfter ==
  ASSUME NEW f \in Families, ~(f > Len(familyOrigin')), f \notin revokedFamilies',
         NEW rt, LiveAfter(f) = {rt}
  PROVE  PhaseAfter(f) = Live(rt)
<1>1. (CHOOSE e \in {rt} : TRUE) = rt
  OBVIOUS
<1> QED
  BY <1>1 DEF PhaseAfter, PhaseOf, Live

\* A live phase is that of a stored token.
LEMMA LivePhaseIsStored ==
  ASSUME OneHolder, NEW f \in Families, NEW rt, PhaseNow(f) = Live(rt)
  PROVE  \E a \in refreshTokens : a.token = rt.token
<1>1. ~(f > Len(familyOrigin)) /\ f \notin revokedFamilies /\ LiveOf(f) # {}
  BY DEF PhaseNow, PhaseOf, Live, Unborn, Pending, Dead
<1>2. PICK a \in LiveOf(f) : TRUE
  BY <1>1
<1>3. PhaseNow(f) = Live(a)
  BY <1>1, <1>2, LivePhase
<1>4. a.token = rt.token
  BY <1>3 DEF Live
<1> QED
  BY <1>2, <1>4 DEF LiveOf

\* A family whose carrier goes away, and that has no live token then, is dead.
LEMMA CarrierGone ==
  ASSUME TypeOK, Known, OneHolder, Counted, NEW r \in Requests, req[r] # Idle,
         req'[r] = Idle, \A s \in Requests \ {r} : req'[s] = req[s],
         UNCHANGED <<now, familyOrigin, revokedFamilies, rotated>>,
         \A g \in Families : g # req[r].family_id => LiveAfter(g) = LiveOf(g),
         LiveAfter(req[r].family_id) = {} \/ req[r].family_id \in revokedFamilies
  PROVE  [Chain!Next]_(Chain!vars)
<1> DEFINE f == req[r].family_id
<1>1. f \in 0..Len(familyOrigin)
  BY FamiliesKnown
<1>2. ASSUME NEW g \in Families, g # f
      PROVE  PhaseAfter(g) = PhaseNow(g)
  <2>1. Beside(r, g)
    BY <1>2 DEF Beside
  <2>2. CarriersAfter(g) = CarriersOf(g)
    BY <2>1, SameCarriers
  <2> QED
    BY <1>2, <2>2, SamePhase
<1>3. CASE f = 0
  <2>1. f \notin Families
    BY <1>3 DEF Families
  <2> QED
    BY <1>2, <2>1, ChainStutters
<1>4. CASE f # 0
  <2>1. f \in Families /\ ~(f > Len(familyOrigin))
    BY <1>1, <1>4, FamiliesBounded
  <2>2. \A s \in Requests \ {r} : req[s] = Idle \/ req[s].family_id # f
    BY <1>4 DEF OneHolder
  <2>3. CarriersAfter(f) = {}
    BY <2>2 DEF CarriersAfter
  <2>4. PhaseAfter(f) = Dead
    BY <2>1, <2>3 DEF PhaseAfter, PhaseOf
  <2>5. PhaseNow(f) # Unborn
    BY <2>1 DEF PhaseNow, PhaseOf, Unborn, Dead, Pending
  <2>6. \A g \in Families \ {f} : PhaseAfter(g) = PhaseNow(g)
    BY <1>2
  <2> HIDE DEF f
  <2> QED
    BY <2>1, <2>4, <2>5, <2>6, ChainKillsOne
<1> QED
  BY <1>3, <1>4

ChainInv == TypeOK /\ Known /\ SingleUse /\ OneHolder /\ Counted

LEMMA ReuseKills ==
  ASSUME ChainInv, NEW r \in Requests, NEW key, RefreshReuse(r, key)
  PROVE  [Chain!Next]_(Chain!vars)
<1> USE DEF ChainInv
<1>1. PICK rt \in consumedTokens : RevokeRefreshFamily(rt.family_id)
  BY DEF RefreshReuse, RotateReuse
<1> DEFINE f == rt.family_id
<1>2. f \in 1..Len(familyOrigin)
  BY DEF Known, RefreshTokensKnown, MintedKnown
<1>3. f \in Families /\ ~(f > Len(familyOrigin))
  BY <1>2, FamiliesBounded
<1>4. /\ UNCHANGED <<now, familyOrigin, rotated, req>>
      /\ revokedFamilies' = revokedFamilies \cup {f}
      /\ refreshTokens' = refreshTokens \ {a \in refreshTokens : a.family_id = f}
  BY <1>1 DEF RefreshReuse, RevokeRefreshFamily, histVars
<1>5. PhaseNow(f) # Unborn /\ PhaseAfter(f) = Dead
  BY <1>3, <1>4 DEF PhaseNow, PhaseAfter, PhaseOf, Unborn, Dead, Pending
<1>6. ASSUME NEW g \in Families \ {f}
      PROVE  PhaseAfter(g) = PhaseNow(g)
  <2>1. LiveAfter(g) = LiveOf(g)
    BY <1>4, <1>6 DEF LiveAfter, LiveOf
  <2>2. CarriersAfter(g) = CarriersOf(g)
    BY <1>4, SameCarriers
  <2> QED
    BY <1>4, <1>6, <2>1, <2>2, SamePhase
<1> HIDE DEF f
<1> QED
  BY <1>3, <1>4, <1>5, <1>6, ChainKillsOne

\* A refused token was no live one.
LEMMA InvalidStutters ==
  ASSUME ChainInv, NEW r \in Requests, NEW key, RefreshInvalid(r, key)
  PROVE  [Chain!Next]_(Chain!vars)
<1> USE DEF ChainInv
<1>1. /\ UNCHANGED <<now, familyOrigin, rotated, req, revokedFamilies>>
      /\ refreshTokens' = {rt \in refreshTokens : rt.token # key}
      /\ \A rt \in refreshTokens : rt.token = key => ~Usable(rt)
  BY DEF RefreshInvalid, RotateInvalid, histVars
<1>2. ASSUME NEW f \in Families
      PROVE  PhaseAfter(f) = PhaseNow(f)
  <2>1. f \notin revokedFamilies => LiveAfter(f) = LiveOf(f)
    BY <1>1 DEF LiveAfter, LiveOf, Usable, Expired
  <2>2. CarriersAfter(f) = CarriersOf(f)
    BY <1>1, SameCarriers
  <2> QED
    BY <1>1, <2>1, <2>2, SamePhase
<1> QED
  BY <1>1, <1>2, ChainStutters

LEMMA ActiveExchanges ==
  ASSUME ChainInv, NEW r \in Requests, NEW client, NEW rt \in refreshTokens,
         NEW requested, RefreshActive(r, client, rt, requested)
  PROVE  [Chain!Next]_(Chain!vars)
<1> USE DEF ChainInv
<1> DEFINE f == rt.family_id
<1>1. /\ UNCHANGED <<now, familyOrigin, revokedFamilies>>
      /\ refreshTokens' = {other \in refreshTokens : other.token # rt.token}
      /\ rotated' = rotated \cup {rt.token}
      /\ req[r] = Idle
      /\ \A s \in Requests \ {r} : req'[s] = req[s]
      /\ req'[r] = Idle \/ req'[r].family_id = f
      /\ ~(rt.expires_at <= now) /\ f \notin revokedFamilies
  BY DEF RefreshActive, RotateActive, Usable, Expired, TypeOK
<1>2. rt.token \in 1..Len(minted) /\ minted[rt.token] = rt
  BY DEF Known, RefreshTokensKnown
<1>3. f \in 1..Len(familyOrigin)
  BY <1>2 DEF Known, MintedKnown
<1>4. f \in Families /\ ~(f > Len(familyOrigin)) /\ rt.token \in 1..MaxExchanges
  BY <1>2, <1>3, FamiliesBounded, BoundAssumption
<1>5. PhaseNow(f) = Live(rt)
  <2>1. rt \in LiveOf(f)
    BY <1>1 DEF LiveOf
  <2> QED
    BY <1>1, <1>4, <2>1, LivePhase
<1>6. PhaseAfter(f) \in {Pending, Dead}
  <2>1. LiveAfter(f) = {}
    BY <1>1 DEF LiveAfter, OneHolder
  <2> QED
    BY <1>1, <1>4, <2>1 DEF PhaseAfter, PhaseOf
<1>7. ASSUME NEW g \in Families \ {f}
      PROVE  PhaseAfter(g) = PhaseNow(g)
  <2>1. \A a \in refreshTokens : a.family_id = g => a.token # rt.token
    <3>1. \A a \in refreshTokens : minted[a.token] = a
      BY DEF Known, RefreshTokensKnown
    <3> QED
      BY <1>2, <1>7, <3>1
  <2>2. LiveAfter(g) = LiveOf(g)
    BY <1>1, <2>1 DEF LiveAfter, LiveOf
  <2>3. Beside(r, g)
    BY <1>1, <1>7 DEF Beside
  <2>4. CarriersAfter(g) = CarriersOf(g)
    BY <1>1, <2>3, SameCarriers
  <2> QED
    BY <1>1, <1>7, <2>2, <2>4, SamePhase
<1> HIDE DEF f
<1> QED
  BY <1>1, <1>4, <1>5, <1>6, <1>7, ChainExchanges

\* The access token is saved and the next refresh token built: a code grant
\* opens a family.
LEMMA RotateOpens ==
  ASSUME ChainInv, Counted', TypeOK', Known', NEW r \in Requests, SaveAccessAndRotate(r)
  PROVE  [Chain!Next]_(Chain!vars)
<1> USE DEF ChainInv
<1>1. /\ UNCHANGED <<now, refreshTokens, revokedFamilies, rotated>>
      /\ req[r] # Idle /\ req'[r] # Idle
      /\ \A s \in Requests \ {r} : req'[s] = req[s]
      /\ \/ /\ req[r].grant = "authorization_code"
            /\ Len(familyOrigin') = Len(familyOrigin) + 1
            /\ req'[r].family_id = Len(familyOrigin) + 1
         \/ /\ req[r].grant # "authorization_code"
            /\ familyOrigin' = familyOrigin
            /\ req'[r].family_id = req[r].family_id
  BY AtNotIdle DEF SaveAccessAndRotate, SaveAccessToken, Saving, Idle, TypeOK
<1>2. Len(familyOrigin) \in Nat /\ Families \subseteq Nat
  BY FamiliesBounded
<1>3. CASE req[r].grant # "authorization_code"
  <2>1. ASSUME NEW f \in Families
        PROVE  PhaseAfter(f) = PhaseNow(f)
    <3>1. LiveAfter(f) = LiveOf(f)
      BY <1>1 DEF LiveAfter, LiveOf
    <3>2. KeepsFamily(r)
      BY <1>1, <1>3 DEF KeepsFamily
    <3>3. CarriersAfter(f) = CarriersOf(f)
      BY <1>1, <3>2, SameCarriers
    <3> QED
      BY <1>1, <1>3, <3>1, <3>3, SamePhase
  <2> QED
    BY <1>1, <2>1, ChainStutters
<1>4. CASE req[r].grant = "authorization_code"
  <2> DEFINE f == Len(familyOrigin) + 1
  <2>1. req[r].family_id = 0
    <3>1. RequestKnown(req[r]) /\ req[r].pc = "save_access_token"
      BY <1>1 DEF Known, RequestsKnown, SaveAccessAndRotate, At
    <3> QED
      BY <1>4, <3>1 DEF RequestKnown
  <2>2. f \in Families
    <3>1. Len(familyOrigin') \in Nat /\ Len(familyOrigin') <= MaxExchanges
      <4>1. /\ Len(provenance') \in Nat /\ Len(minted') \in Nat /\ Len(familyOrigin') \in Nat
        BY DEF TypeOK
      <4>2. Len(minted') <= Cardinality(Settled') /\ Len(provenance') <= MaxExchanges
            /\ Len(familyOrigin') <= Len(minted')
        BY DEF Counted
      <4>3. Settled' = {i \in 1..Len(provenance') :
                          \A s \in Requests : req'[s].pc = "save_access_token"
                                                => req'[s].token # i}
        BY DEF Settled, SavingAccess, At
      <4>4. 1 \in Int /\ Len(provenance') \in Int
        BY <4>1
      <4>5. /\ IsFiniteSet(1..Len(provenance'))
            /\ Cardinality(1..Len(provenance')) =
                 IF 1 > Len(provenance') THEN 0 ELSE Len(provenance') - 1 + 1
        BY ONLY <4>4, FS_Interval
      <4>6. Settled' \in SUBSET (1..Len(provenance'))
        BY <4>3
      <4>7. /\ IsFiniteSet(Settled')
            /\ Cardinality(Settled') <= Cardinality(1..Len(provenance'))
        BY ONLY <4>5, <4>6, FS_Subset
      <4>8. Cardinality(Settled') \in Nat
        BY ONLY <4>7, FS_CardinalityType
      <4> QED
        BY <4>1, <4>2, <4>5, <4>7, <4>8, BoundAssumption
    <3> QED
      BY <1>1, <1>2, <1>4, <3>1 DEF Families
  <2>3. PhaseNow(f) = Unborn
    BY <1>2 DEF PhaseNow, PhaseOf
  <2>4. PhaseAfter(f) = Pending
    <3>1. f \notin revokedFamilies'
      BY <1>1, <1>2 DEF Counted
    <3>2. LiveAfter(f) = {}
      BY <1>1, <1>2, FamiliesKnown DEF LiveAfter
    <3>3. CarriersAfter(f) # {}
      BY <1>1, <1>4 DEF CarriersAfter
    <3> QED
      BY <1>1, <1>2, <1>4, <3>1, <3>2, <3>3 DEF PhaseAfter, PhaseOf
  <2>5. ASSUME NEW g \in Families \ {f}
        PROVE  PhaseAfter(g) = PhaseNow(g)
    <3>1. LiveAfter(g) = LiveOf(g)
      BY <1>1 DEF LiveAfter, LiveOf
    <3>2. Beside(r, g)
      BY <1>1, <1>4, <2>1, <2>5 DEF Beside, Families
    <3>3. CarriersAfter(g) = CarriersOf(g)
      BY <1>1, <3>2, SameCarriers
    <3>4. g > Len(familyOrigin') <=> g > Len(familyOrigin)
      BY <1>1, <1>2, <1>4, <2>5
    <3> QED
      BY <1>1, <2>5, <3>1, <3>3, <3>4, SamePhase
  <2> HIDE DEF f
  <2> QED
    BY <1>1, <2>2, <2>3, <2>4, <2>5, ChainOpens
<1> QED
  BY <1>3, <1>4

\* The token is delivered, unless its family was revoked meanwhile or the token
\* has expired on its way.
LEMMA SaveDelivers ==
  ASSUME ChainInv, NEW r \in Requests, SaveRefreshAndRespond(r)
  PROVE  [Chain!Next]_(Chain!vars)
<1> USE DEF ChainInv
<1> DEFINE f == req[r].family_id
<1> DEFINE rt == PendingRefreshToken(req[r])
<1>1. At(r, "save_refresh_token") /\ req[r] # Idle
  BY AtNotIdle DEF SaveRefreshAndRespond
<1>2. /\ UNCHANGED <<now, familyOrigin, revokedFamilies, rotated>>
      /\ refreshTokens' = Unexpired(refreshTokens) \cup {rt}
      /\ req'[r] = Idle /\ \A s \in Requests \ {r} : req'[s] = req[s]
  BY DEF SaveRefreshAndRespond, SaveRefreshToken, histVars, TypeOK
<1>3. rt.family_id = f /\ rt.token = req[r].token
  BY DEF PendingRefreshToken
<1>4. \A g \in Families : g # f => LiveAfter(g) = LiveOf(g)
  BY <1>2, <1>3 DEF LiveAfter, LiveOf, Unexpired, Expired
<1>5. \A a \in refreshTokens : a.family_id # f
  BY <1>1 DEF OneHolder
<1>6. CASE f \in revokedFamilies
  BY <1>1, <1>2, <1>4, <1>6, CarrierGone
<1>7. CASE rt.expires_at <= now
  <2>1. LiveAfter(f) = {}
    BY <1>2, <1>5, <1>7 DEF LiveAfter, Unexpired
  <2> QED
    BY <1>1, <1>2, <1>4, <2>1, CarrierGone
<1>8. CASE f \notin revokedFamilies /\ ~(rt.expires_at <= now)
  <2>1. f \in 1..Len(familyOrigin)
    BY <1>1, FamiliesKnown
  <2>2. f \in Families /\ ~(f > Len(familyOrigin))
    BY <2>1, FamiliesBounded
  <2>3. rt.token \in 1..Len(minted)
    BY <1>1, <1>3 DEF Known, RequestsKnown, RequestKnown, At
  <2>4. rt.token \in 1..MaxExchanges
    BY <2>3, FamiliesBounded, BoundAssumption
  <2>5. rt.token \notin rotated /\ \A a \in refreshTokens : a.token # rt.token
    BY <1>1, <1>3 DEF SingleUse, PendingUnused
  <2>6. PhaseNow(f) = Pending
    <3>1. LiveOf(f) = {}
      BY <1>5 DEF LiveOf
    <3>2. CarriersOf(f) # {}
      BY <1>1 DEF CarriersOf
    <3> QED
      BY <1>8, <2>2, <3>1, <3>2 DEF PhaseNow, PhaseOf
  <2>7. PhaseAfter(f) = Live(rt)
    <3>1. LiveAfter(f) = {rt}
      BY <1>2, <1>3, <1>5, <1>8 DEF LiveAfter, Unexpired
    <3> QED
      BY <1>2, <1>8, <2>2, <3>1, LivePhaseAfter
  <2>8. \A g \in Families : PhaseNow(g) # Live(rt)
    BY <2>5, LivePhaseIsStored
  <2>9. ASSUME NEW g \in Families \ {f}
        PROVE  PhaseAfter(g) = PhaseNow(g)
    <3>1. Beside(r, g)
      BY <1>2, <2>9 DEF Beside
    <3>2. CarriersAfter(g) = CarriersOf(g)
      BY <1>2, <3>1, SameCarriers
    <3> QED
      BY <1>2, <1>4, <2>9, <3>2, SamePhase
  <2> HIDE DEF f, rt
  <2> QED
    BY <1>2, <2>2, <2>4, <2>5, <2>6, <2>7, <2>8, <2>9, ChainDelivers
<1> QED
  BY <1>6, <1>7, <1>8

\* The clock kills the families whose live token expires.
LEMMA TickKills ==
  ASSUME ChainInv, Tick
  PROVE  [Chain!Next]_(Chain!vars)
<1> USE DEF ChainInv
<1>1. /\ UNCHANGED <<refreshTokens, familyOrigin, revokedFamilies, rotated, req>>
      /\ now \in Nat /\ now' = now + 1
      /\ \A rt \in refreshTokens : rt.expires_at \in Nat
  BY DEF Tick, ClockTick, histVars, TypeOK, StoreTypeOK, RefreshToken
<1> DEFINE dying == {f \in Families : ~(f > Len(familyOrigin)) /\ f \notin revokedFamilies
                                      /\ LiveOf(f) # {} /\ LiveAfter(f) = {}}
<1>2. \A f \in Families : LiveAfter(f) \subseteq LiveOf(f)
  BY <1>1 DEF LiveAfter, LiveOf
<1>3. \A f \in Families : CarriersAfter(f) = CarriersOf(f)
  BY <1>1, SameCarriers
<1>4. ASSUME NEW f \in dying
      PROVE  f \in Families /\ PhaseNow(f) # Unborn /\ PhaseAfter(f) = Dead
  <2>1. /\ f \in Families /\ ~(f > Len(familyOrigin)) /\ LiveOf(f) # {} /\ LiveAfter(f) = {}
    OBVIOUS
  <2>2. CarriersOf(f) = {}
    BY <2>1 DEF LiveOf, CarriersOf, OneHolder
  <2>3. CarriersAfter(f) = {}
    BY <1>3, <2>1, <2>2
  <2>4. PhaseAfter(f) = Dead
    BY <1>1, <2>1, <2>3 DEF PhaseAfter, PhaseOf
  <2>5. PhaseNow(f) # Unborn
    BY <2>1 DEF PhaseNow, PhaseOf, Unborn, Dead, Pending
  <2> QED
    BY <2>1, <2>4, <2>5
<1>5. ASSUME NEW f \in Families \ dying
      PROVE  PhaseAfter(f) = PhaseNow(f)
  <2>1. CASE f > Len(familyOrigin)
    BY <1>1, <2>1 DEF PhaseAfter, PhaseNow, PhaseOf
  <2>2. CASE ~(f > Len(familyOrigin)) /\ f \in revokedFamilies
    BY <1>1, <2>2 DEF PhaseAfter, PhaseNow, PhaseOf
  <2>3. CASE ~(f > Len(familyOrigin)) /\ f \notin revokedFamilies
    <3>1. LiveAfter(f) = LiveOf(f)
      <4>1. CASE LiveOf(f) = {}
        BY <1>2, <1>5, <4>1
      <4>2. CASE LiveAfter(f) # {}
        <5>1. PICK a \in LiveAfter(f) : TRUE
          BY <4>2
        <5>2. LiveOf(f) \subseteq {a}
          BY <1>2, <1>5, <5>1 DEF LiveOf, OneHolder
        <5> QED
          BY <1>2, <1>5, <5>1, <5>2
      <4>3. LiveOf(f) = {} \/ LiveAfter(f) # {}
        BY <1>5, <2>3
      <4> QED
        BY <4>1, <4>2, <4>3
    <3> QED
      BY <1>1, <1>3, <1>5, <3>1, SamePhase
  <2> QED
    BY <2>1, <2>2, <2>3
<1>6. dying \in SUBSET Families
  OBVIOUS
<1> HIDE DEF dying
<1> QED
  BY <1>1, <1>4, <1>5, <1>6, ChainKills

\* Steps after which every family holds what it held.
LEMMA OthersStutter ==
  ASSUME ChainInv, UNCHANGED <<now, refreshTokens, revokedFamilies, familyOrigin, rotated>>,
         \A s \in Requests, f \in Families : req'[s] = req[s] \/ Beside(s, f) \/ KeepsFamily(s)
  PROVE  [Chain!Next]_(Chain!vars)
<1>1. ASSUME NEW f \in Families
      PROVE  PhaseAfter(f) = PhaseNow(f)
  <2>1. LiveAfter(f) = LiveOf(f)
    BY DEF LiveAfter, LiveOf
  <2>2. CarriersAfter(f) = CarriersOf(f)
    BY SameCarriers
  <2> QED
    BY <2>1, <2>2, SamePhase
<1> QED
  BY <1>1, ChainStutters

LEMMA ChainStep ==
  ASSUME ChainInv, TypeOK', Known', Counted', [Next]_vars
  PROVE  [Chain!Next]_(Chain!vars)
<1> USE DEF ChainInv
<1>1. CASE Authorize
  <2>1. UNCHANGED <<now, refreshTokens, revokedFamilies, familyOrigin, rotated, req>>
    BY <1>1 DEF Authorize, IssueCode, SaveCode
  <2> QED
    BY <2>1, OthersStutter
<1>2. ASSUME NEW r \in Requests, NEW client, NEW key, NEW uri, NEW verifier,
             RedeemCode(r, client, key, uri, verifier)
      PROVE  [Chain!Next]_(Chain!vars)
  <2>1. /\ UNCHANGED <<now, refreshTokens, revokedFamilies, familyOrigin, rotated>>
        /\ req[r] = Idle
        /\ \A s \in Requests \ {r} : req'[s] = req[s]
        /\ req'[r] = Idle \/ req'[r].family_id = 0
    BY <1>2 DEF RedeemCode, ConsumeCode, histVars, TypeOK
  <2>2. \A f \in Families : Beside(r, f)
    BY <2>1 DEF Beside, Families
  <2> QED
    BY <2>1, <2>2, OthersStutter
<1>3. ASSUME NEW r \in Requests, UserGone(r) \/ StoreCallFails(r)
      PROVE  [Chain!Next]_(Chain!vars)
  <2>1. /\ UNCHANGED <<now, refreshTokens, revokedFamilies, familyOrigin, rotated>>
        /\ req[r] # Idle /\ req'[r] = Idle
        /\ \A s \in Requests \ {r} : req'[s] = req[s]
    BY <1>3, AtNotIdle DEF UserGone, StoreCallFails, storeVars, histVars, TypeOK
  <2>2. \A g \in Families : LiveAfter(g) = LiveOf(g)
    BY <2>1 DEF LiveAfter, LiveOf
  <2>3. LiveAfter(req[r].family_id) = {}
    BY <2>1 DEF LiveAfter, OneHolder
  <2> QED
    BY <2>1, <2>2, <2>3, CarrierGone
<1>4. ASSUME NEW r \in Requests, UserFound(r)
      PROVE  [Chain!Next]_(Chain!vars)
  <2>1. /\ UNCHANGED <<now, refreshTokens, revokedFamilies, familyOrigin, rotated>>
        /\ \A s \in Requests \ {r} : req'[s] = req[s]
        /\ KeepsFamily(r)
    BY <1>4, AtNotIdle DEF UserFound, storeVars, Saving, TypeOK, KeepsFamily, Idle
  <2> QED
    BY <2>1, OthersStutter
<1>5. ASSUME NEW r \in Requests, SaveAccessAndRespond(r)
      PROVE  [Chain!Next]_(Chain!vars)
  <2>1. /\ UNCHANGED <<now, refreshTokens, revokedFamilies, familyOrigin, rotated>>
        /\ \A s \in Requests \ {r} : req'[s] = req[s]
        /\ req[r] # Idle /\ req'[r] = Idle
        /\ req[r].grant = "authorization_code" /\ req[r].pc = "save_access_token"
    BY <1>5, AtNotIdle DEF SaveAccessAndRespond, SaveAccessToken, histVars, TypeOK, At
  <2>2. req[r].family_id = 0
    BY <2>1 DEF Known, RequestsKnown, RequestKnown
  <2>3. \A f \in Families : Beside(r, f)
    BY <2>1, <2>2 DEF Beside, Families
  <2> QED
    BY <2>1, <2>3, OthersStutter
<1>6. CASE (\E sub \in Subs : RemoveUser(sub)) \/ UNCHANGED vars
  <2>1. UNCHANGED <<now, refreshTokens, revokedFamilies, familyOrigin, rotated, req>>
    BY <1>6 DEF RemoveUser, vars, storeVars, histVars
  <2> QED
    BY <2>1, OthersStutter
<1> HIDE DEF ChainInv
<1> QED
  BY <1>1, <1>2, <1>3, <1>4, <1>5, <1>6, ReuseKills, InvalidStutters, ActiveExchanges,
     RotateOpens, SaveDelivers, TickKills
     DEF Next, Begin, Continue

\* The store and the handlers around it implement RefreshFamily: every step of
\* them opens a family, delivers or exchanges its one live token, kills
\* families, or changes nothing a family shows.
THEOREM EndpointImplementsChain == Spec => ImplementsRefreshFamily
<1>1. Init => Chain!Init
  <2> SUFFICES ASSUME Init
               PROVE  Chain!Init
    OBVIOUS
  <2>1. \A f \in Families : FamilyPhase(f) = [at |-> "unborn"]
    <3>1. \A f \in Families : f > 0
      BY BoundAssumption DEF Families
    <3>2. Len(familyOrigin) = 0
      BY DEF Init
    <3> QED
      BY <3>1, <3>2 DEF FamilyPhase
  <2> QED
    BY <2>1 DEF Chain!Init, Chain!Unborn, Init
<1>2. /\ TypeOK /\ TypeOK' /\ Known /\ Known' /\ SingleUse /\ OneHolder
      /\ Counted /\ Counted' /\ [Next]_vars
      => [Chain!Next]_(Chain!vars)
  BY ChainStep DEF ChainInv
<1> QED
  BY <1>1, <1>2, TypeCorrect, AlwaysKnown, AlwaysSingleUse, AlwaysOneHolder, AlwaysCounted,
     PTL DEF Spec, ImplementsRefreshFamily, Chain!Spec

\* What RefreshFamily promises holds of the endpoint: a live token was never
\* exchanged before, and no two families share one.
COROLLARY LiveTokensAreUnused == Spec => []Chain!SingleUse
<1>1. Chain!Init => Chain!SingleUse
  BY DEF Chain!Init, Chain!SingleUse, Chain!Unborn, Chain!Live
<1>2. Chain!SingleUse /\ [Chain!Next]_(Chain!vars) => Chain!SingleUse'
  <2> SUFFICES ASSUME Chain!SingleUse, [Chain!Next]_(Chain!vars)
               PROVE  Chain!SingleUse'
    OBVIOUS
  <2> DEFINE p == [f \in Families |-> FamilyPhase(f)]
  <2>1. ASSUME NEW f \in Families, NEW t \in 1..MaxExchanges, p[f] = Chain!Live(t)
        PROVE  t \notin rotated /\ \A g \in Families \ {f} : p[g] # Chain!Live(t)
    BY <2>1 DEF Chain!SingleUse
  <2>2. ASSUME NEW f \in Families, Chain!Open(f)
        PROVE  rotated' = rotated
               /\ p' = [p EXCEPT ![f] = Chain!Pending]
    BY <2>2 DEF Chain!Open
  <2>3. ASSUME NEW f \in Families, NEW t \in 1..MaxExchanges, Chain!Deliver(f, t)
        PROVE  /\ rotated' = rotated
               /\ t \notin rotated /\ \A g \in Families : p[g] # Chain!Live(t)
               /\ p' = [p EXCEPT ![f] = Chain!Live(t)]
    BY <2>3 DEF Chain!Deliver
  <2>4. ASSUME NEW f \in Families, NEW t \in 1..MaxExchanges, Chain!Exchange(f, t)
        PROVE  /\ rotated' = rotated \cup {t} /\ p[f] = Chain!Live(t)
               /\ \E after \in {Chain!Pending, Chain!Dead} : p' = [p EXCEPT ![f] = after]
    BY <2>4 DEF Chain!Exchange
  <2>5. ASSUME NEW dying \in SUBSET Families, Chain!Kill(dying)
        PROVE  /\ rotated' = rotated
               /\ p' = [f \in Families |-> IF f \in dying THEN Chain!Dead ELSE p[f]]
    BY <2>5 DEF Chain!Kill
  <2>6. Chain!Pending # Chain!Dead /\ \A t : Chain!Live(t) # Chain!Dead /\ Chain!Live(t) # Chain!Pending
    BY DEF Chain!Pending, Chain!Dead, Chain!Live
  <2>7. \A t, u : Chain!Live(t) = Chain!Live(u) => t = u
    <3> SUFFICES ASSUME NEW t, NEW u, Chain!Live(t) = Chain!Live(u)
                 PROVE  t = u
      OBVIOUS
    <3>1. Chain!Live(t).token = t /\ Chain!Live(u).token = u
      BY DEF Chain!Live
    <3> QED
      BY <3>1
  <2>8. ASSUME NEW f \in Families, NEW t \in 1..MaxExchanges, p'[f] = Chain!Live(t)
        PROVE  t \notin rotated' /\ \A g \in Families \ {f} : p'[g] # Chain!Live(t)
    <3>1. DOMAIN p = Families /\ \A g \in Families : p[g] = FamilyPhase(g)
      OBVIOUS
    <3> HIDE DEF p
    <3>2. CASE p' = p /\ rotated' = rotated
      BY <2>1, <2>8, <3>2
    <3>3. ASSUME NEW e \in Families, Chain!Open(e)
          PROVE  t \notin rotated' /\ \A g \in Families \ {f} : p'[g] # Chain!Live(t)
      BY <2>1, <2>2, <2>6, <2>8, <3>1, <3>3
    <3>4. ASSUME NEW e \in Families, NEW u \in 1..MaxExchanges, Chain!Deliver(e, u)
          PROVE  t \notin rotated' /\ \A g \in Families \ {f} : p'[g] # Chain!Live(t)
      BY <2>1, <2>3, <2>7, <2>8, <3>1, <3>4
    <3>5. ASSUME NEW e \in Families, NEW u \in 1..MaxExchanges, Chain!Exchange(e, u)
          PROVE  t \notin rotated' /\ \A g \in Families \ {f} : p'[g] # Chain!Live(t)
      BY <2>1, <2>4, <2>6, <2>7, <2>8, <3>1, <3>5
    <3>6. ASSUME NEW dying \in SUBSET Families, Chain!Kill(dying)
          PROVE  t \notin rotated' /\ \A g \in Families \ {f} : p'[g] # Chain!Live(t)
      BY <2>1, <2>5, <2>6, <2>8, <3>1, <3>6
    <3>7. Chain!Next \/ (p' = p /\ rotated' = rotated)
      BY DEF Chain!vars, p
    <3> QED
      BY <3>2, <3>3, <3>4, <3>5, <3>6, <3>7 DEF Chain!Next
  <2> QED
    BY <2>8 DEF Chain!SingleUse
<1> QED
  BY <1>1, <1>2, EndpointImplementsChain, PTL DEF ImplementsRefreshFamily, Chain!Spec

\* And death is final: no eviction, replay, retry or failure brings a family back.
COROLLARY DeadFamiliesStayDead == Spec => Chain!DeadForGood
<1>1. [Chain!Next]_(Chain!vars) => [Chain!DeadStayDead]_(Chain!vars)
  <2> DEFINE p == [f \in Families |-> FamilyPhase(f)]
  <2> SUFFICES ASSUME Chain!Next, NEW f \in Families, p[f] = Chain!Dead
               PROVE  p'[f] = Chain!Dead
    BY DEF Chain!DeadStayDead
  <2>1. ASSUME NEW e \in Families, Chain!Open(e)
        PROVE  p[e] = Chain!Unborn /\ \E x : p' = [p EXCEPT ![e] = x]
    BY <2>1 DEF Chain!Open
  <2>2. ASSUME NEW e \in Families, NEW t \in 1..MaxExchanges, Chain!Deliver(e, t)
        PROVE  p[e] = Chain!Pending /\ \E x : p' = [p EXCEPT ![e] = x]
    BY <2>2 DEF Chain!Deliver
  <2>3. ASSUME NEW e \in Families, NEW t \in 1..MaxExchanges, Chain!Exchange(e, t)
        PROVE  p[e] = Chain!Live(t) /\ \E x : p' = [p EXCEPT ![e] = x]
    BY <2>3 DEF Chain!Exchange
  <2>4. ASSUME NEW dying \in SUBSET Families, Chain!Kill(dying)
        PROVE  p'[f] = Chain!Dead
    BY <2>4 DEF Chain!Kill
  <2>5. /\ Chain!Unborn # Chain!Dead /\ Chain!Pending # Chain!Dead
        /\ \A t : Chain!Live(t) # Chain!Dead
    BY DEF Chain!Unborn, Chain!Pending, Chain!Dead, Chain!Live
  <2>6. DOMAIN p = Families
    OBVIOUS
  <2> HIDE DEF p
  <2> QED
    BY <2>1, <2>2, <2>3, <2>4, <2>5, <2>6 DEF Chain!Next
<1> QED
  BY <1>1, EndpointImplementsChain, PTL
     DEF ImplementsRefreshFamily, Chain!Spec, Chain!DeadForGood
=============================================================================
