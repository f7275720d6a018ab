------------------------ MODULE TokenRevocationProofs ------------------------
(***************************************************************************)
(* The invariants of TokenRevocation, for every value of its constants.    *)
(***************************************************************************)
EXTENDS TokenRevocation, TLAPS

LEMMA AppendGrows ==
  ASSUME NEW S, NEW seq \in Seq(S), NEW e \in S
  PROVE  /\ Append(seq, e) \in Seq(S)
         /\ DOMAIN seq \subseteq DOMAIN Append(seq, e)
         /\ DOMAIN seq \subseteq Nat
         /\ \A i \in DOMAIN seq : Append(seq, e)[i] = seq[i]
OBVIOUS

-----------------------------------------------------------------------------
(* Types. *)

\* The dict stays a dict: a revocation replaces the entry of its jti.
LEMMA RevokeTyped ==
  ASSUME TypeOK, NEW jti \in Nat, NEW exp \in Exp, Revoke(jti, exp)
  PROVE  /\ store' \subseteq Entry
         /\ \A d, e \in store' : d.jti = e.jti => d = e
         /\ heap' \subseteq Item
<1>1. CASE HasExpired(exp)
  BY <1>1 DEF Revoke, TypeOK
<1>2. CASE ~HasExpired(exp)
  <2>1. [jti |-> jti, exp |-> exp] \in Entry
    BY DEF Entry
  <2>2. exp # NoExp => [exp |-> exp, jti |-> jti] \in Item
    BY DEF Exp, Item
  <2>3. heap' \subseteq Item
    BY <1>2, <2>2 DEF Revoke, TypeOK
  <2>4. store' = {e \in store : e.jti # jti} \cup {[jti |-> jti, exp |-> exp]}
    BY <1>2 DEF Revoke
  <2> QED  BY <2>1, <2>3, <2>4 DEF TypeOK
<1> QED  BY <1>1, <1>2

\* Whatever request, entry or record names a jti, a token was signed under it,
\* and an entry has the exp of its token or none.
Known ==
  /\ \A r \in Requests : req[r] # Idle => req[r].jti \in DOMAIN tokens
  /\ \A e \in store :
       e.jti \in DOMAIN tokens /\ e.exp \in {tokens[e.jti].exp, NoExp}
  /\ revoked \subseteq DOMAIN tokens
  /\ \A p \in passed : p.jti \in DOMAIN tokens

\* A revocation, by logout or by the application.
Revocation(jti, exp) ==
  /\ jti \in DOMAIN tokens
  /\ exp \in {tokens[jti].exp, NoExp}
  /\ Revoke(jti, exp)
  /\ revoked' = revoked \cup {jti}
  /\ \/ UNCHANGED req
     \/ \E r \in Requests : req' = [req EXCEPT ![r] = Idle]
  /\ UNCHANGED <<now, tokens, passed>>

\* A request that begins is at the store, or about to revoke.
LEMMA RequestBegins ==
  ASSUME TypeOK, NEW r \in Requests, NEW jti \in DOMAIN tokens,
         VerifyToken(r, jti) \/ Logout(r, jti)
  PROVE  /\ \E q \in Asking \cup Revoking :
              /\ req' = [req EXCEPT ![r] = q]
              /\ q.jti = jti
              /\ q.pc = "revoke" \/ (q.pc = "is_revoked" /\ (q.late => jti \in revoked))
         /\ UNCHANGED <<now, store, heap, tokens, revoked, passed>>
<1>1. jti \in Nat
  BY DEF TypeOK
<1>2. CASE VerifyToken(r, jti)
  <2> DEFINE q == [pc |-> "is_revoked", jti |-> jti, late |-> jti \in revoked]
  <2>1. q \in Asking /\ q.jti = jti /\ q.pc = "is_revoked" /\ (q.late => jti \in revoked)
    <3> DEFINE late == jti \in revoked
    <3>1. late \in BOOLEAN
      OBVIOUS
    <3>2. q = [pc |-> "is_revoked", jti |-> jti, late |-> late]
      OBVIOUS
    <3> HIDE DEF late, q
    <3>3. q \in Asking
      BY <1>1, <3>1, <3>2 DEF Asking
    <3>4. q.late = late /\ q.jti = jti /\ q.pc = "is_revoked"
      BY <3>2
    <3>5. q.late => jti \in revoked
      BY Zenon, <3>4 DEF late
    <3> QED  BY <3>3, <3>4, <3>5
  <2>2. req' = [req EXCEPT ![r] = q]
    BY <1>2 DEF VerifyToken
  <2> HIDE DEF q
  <2> QED  BY <1>2, <2>1, <2>2 DEF VerifyToken
<1>3. CASE Logout(r, jti)
  <2> DEFINE q == [pc |-> "revoke", jti |-> jti]
  <2>1. q \in Revoking /\ q.jti = jti /\ q.pc = "revoke"
    BY <1>1 DEF Revoking
  <2>2. req' = [req EXCEPT ![r] = q]
    BY <1>3 DEF Logout
  <2> HIDE DEF q
  <2> QED  BY <1>3, <2>1, <2>2 DEF Logout
<1> QED  BY <1>2, <1>3

LEMMA NextCases ==
  ASSUME TypeOK, Known, [Next]_vars
  PROVE  \/ \E token \in Token : Sign(token)
         \/ \E r \in Requests, jti \in DOMAIN tokens :
              VerifyToken(r, jti) \/ Logout(r, jti)
         \/ \E r \in Requests :
              CheckRevocation(r) \/ VerifiedByPlugins(r) \/ RequestFails(r)
         \/ \E jti, exp : Revocation(jti, exp)
         \/ Tick
         \/ UNCHANGED vars
<1>1. CASE Issue
  <2>1. ASSUME NEW type \in {"user", "service"}, NEW exp \in Exp,
               Sign([token_type |-> type, exp |-> exp])
        PROVE  \E token \in Token : Sign(token)
    <3>1. [token_type |-> type, exp |-> exp] \in Token
      BY DEF Token
    <3> QED  BY <2>1, <3>1
  <2>2. ASSUME NEW exp \in {now + UserTtl, NoExp}, IssueUserToken(exp)
        PROVE  \E token \in Token : Sign(token)
    <3>1. exp \in Exp
      BY RevocationAssumption DEF Exp, TypeOK
    <3> QED  BY <2>1, <2>2, <3>1 DEF IssueUserToken
  <2>3. ASSUME NEW exp \in {now + ttl : ttl \in ServiceTtls} \cup {NoExp},
               IssueServiceToken(exp)
        PROVE  \E token \in Token : Sign(token)
    <3>1. exp \in Exp
      BY RevocationAssumption DEF Exp, TypeOK
    <3> QED  BY <2>1, <2>3, <3>1 DEF IssueServiceToken
  <2> QED  BY <1>1, <2>2, <2>3 DEF Issue
<1>2. ASSUME NEW r \in Requests, LogoutRevokes(r)
      PROVE  Revocation(req[r].jti, tokens[req[r].jti].exp)
  <2>1. req[r].jti \in DOMAIN tokens
    BY <1>2 DEF LogoutRevokes, Known, Idle
  <2> QED  BY <1>2, <2>1 DEF LogoutRevokes, Revocation
<1>3. ASSUME NEW jti \in DOMAIN tokens, NEW exp \in {tokens[jti].exp, NoExp},
             ApplicationRevokes(jti, exp)
      PROVE  Revocation(jti, exp)
  BY <1>3 DEF ApplicationRevokes, Revocation
<1> QED  BY <1>1, <1>2, <1>3 DEF Next, Request

\* Every variable keeps its type, and no jti ever has two entries.
THEOREM TypeCorrect == Spec => [](TypeOK /\ Known)
<1>1. Init => TypeOK /\ Known
  BY DEF Init, TypeOK, Known, Idle
<1>2. TypeOK /\ Known /\ [Next]_vars => TypeOK' /\ Known'
  <2> SUFFICES ASSUME TypeOK, Known, [Next]_vars PROVE TypeOK' /\ Known'
    OBVIOUS
  <2> DEFINE Local == {Idle} \cup Revoking \cup Asking \cup Passing
  <2>1. ASSUME NEW token \in Token, Sign(token)
        PROVE  TypeOK' /\ Known'
    <3>1. TypeOK'
      BY <2>1, AppendGrows DEF Sign, TypeOK
    <3>2. DOMAIN tokens \subseteq DOMAIN tokens'
      BY <2>1, AppendGrows DEF Sign, TypeOK
    <3>3. \A i \in DOMAIN tokens : tokens'[i] = tokens[i]
      BY <2>1, AppendGrows DEF Sign, TypeOK
    <3>4. Known'
      BY <2>1, <3>2, <3>3 DEF Sign, Known
    <3> QED  BY <3>1, <3>4
  <2>2. ASSUME NEW r \in Requests, NEW jti \in DOMAIN tokens,
               VerifyToken(r, jti) \/ Logout(r, jti)
        PROVE  TypeOK' /\ Known'
    <3>1. PICK q \in Asking \cup Revoking :
            req' = [req EXCEPT ![r] = q] /\ q.jti = jti
      BY <2>2, RequestBegins
    <3>2. UNCHANGED <<now, store, heap, tokens, revoked, passed>>
      BY <2>2, RequestBegins
    <3>3. TypeOK'
      BY <3>1, <3>2 DEF TypeOK
    <3>4. Known'
      BY <3>1, <3>2 DEF TypeOK, Known
    <3> QED  BY <3>3, <3>4
  <2>3. ASSUME NEW r \in Requests, CheckRevocation(r)
        PROVE  TypeOK' /\ Known'
    <3>1. req[r] \in Asking /\ req[r] # Idle
      BY <2>3 DEF CheckRevocation, TypeOK, Idle, Revoking, Asking, Passing
    <3>2. [pc |-> "on_token_verify", jti |-> req[r].jti, late |-> req[r].late,
           checked |-> now] \in Passing
      BY <3>1 DEF TypeOK, Asking, Passing
    <3>3. req' \in [Requests -> Local]
      BY <2>3, <3>2 DEF CheckRevocation, TypeOK
    <3>4. TypeOK'
      BY <2>3, <3>3 DEF CheckRevocation, EvictExpired, TypeOK
    <3>5. Known'
      BY <2>3, <3>1 DEF CheckRevocation, EvictExpired, TypeOK, Known
    <3> QED  BY <3>4, <3>5
  <2>4. ASSUME NEW r \in Requests, VerifiedByPlugins(r)
        PROVE  TypeOK' /\ Known'
    <3>1. req[r] \in Passing /\ req[r] # Idle
      BY <2>4 DEF VerifiedByPlugins, TypeOK, Idle, Revoking, Asking, Passing
    <3>2. passed' \subseteq Pass
      BY <2>4, <3>1 DEF VerifiedByPlugins, TypeOK, Passing, Pass
    <3>3. TypeOK'
      BY <2>4, <3>2 DEF VerifiedByPlugins, TypeOK
    <3>4. Known'
      BY <2>4, <3>1 DEF VerifiedByPlugins, TypeOK, Known
    <3> QED  BY <3>3, <3>4
  <2>5. ASSUME NEW r \in Requests, RequestFails(r)
        PROVE  TypeOK' /\ Known'
    BY <2>5 DEF RequestFails, TypeOK, Known
  <2>6. ASSUME NEW jti, NEW exp, Revocation(jti, exp)
        PROVE  TypeOK' /\ Known'
    <3>1. jti \in Nat /\ exp \in Exp
      <4>1. jti \in DOMAIN tokens /\ exp \in {tokens[jti].exp, NoExp}
        BY <2>6 DEF Revocation
      <4>2. jti \in Nat /\ tokens[jti] \in Token
        BY <4>1 DEF TypeOK
      <4>3. tokens[jti].exp \in Exp
        BY <4>2 DEF Token
      <4> QED  BY <4>1, <4>2, <4>3 DEF Exp
    <3>2. Revoke(jti, exp)
      BY <2>6 DEF Revocation
    <3>3. /\ store' \subseteq Entry
          /\ \A d, e \in store' : d.jti = e.jti => d = e
          /\ heap' \subseteq Item
      BY <3>1, <3>2, RevokeTyped
    <3>4. TypeOK'
      BY <2>6, <3>1, <3>3 DEF Revocation, TypeOK
    <3>5. \A e \in store' : e \in store \/ e = [jti |-> jti, exp |-> exp]
      BY <3>2 DEF Revoke
    <3>6. \A e \in store' :
            e.jti \in DOMAIN tokens /\ e.exp \in {tokens[e.jti].exp, NoExp}
      BY <2>6, <3>5 DEF Revocation, Known
    <3>7. \A s \in Requests : req'[s] = req[s] \/ req'[s] = Idle
      BY <2>6 DEF Revocation, TypeOK
    <3>8. Known'
      BY <2>6, <3>6, <3>7 DEF Revocation, Known
    <3> QED  BY <3>4, <3>8
  <2>7. CASE Tick
    BY <2>7 DEF Tick, TypeOK, Known
  <2>8. CASE UNCHANGED vars
    BY <2>8 DEF vars, TypeOK, Known
  <2> QED  BY <2>1, <2>2, <2>3, <2>4, <2>5, <2>6, <2>7, <2>8, NextCases
<1> QED  BY <1>1, <1>2, PTL DEF Spec

-----------------------------------------------------------------------------
(* The dict and the heap. *)

\* No entry that can expire is ever without the item that will evict it.
THEOREM EntriesHaveItems == Spec => []EveryEntryHasItsItem
<1>1. Init => EveryEntryHasItsItem
  BY DEF Init, EveryEntryHasItsItem
<1>2. TypeOK /\ Known /\ EveryEntryHasItsItem /\ [Next]_vars => EveryEntryHasItsItem'
  <2> SUFFICES ASSUME TypeOK, Known, EveryEntryHasItsItem, [Next]_vars
               PROVE  EveryEntryHasItsItem'
    OBVIOUS
  <2>1. CASE UNCHANGED <<store, heap>>
    BY <2>1 DEF EveryEntryHasItsItem
  <2>2. ASSUME NEW r \in Requests, CheckRevocation(r)
        PROVE  EveryEntryHasItsItem'
    <3> SUFFICES ASSUME NEW e \in store', e.exp # NoExp
                 PROVE  [exp |-> e.exp, jti |-> e.jti] \in heap'
      BY DEF EveryEntryHasItsItem
    <3> DEFINE item == [exp |-> e.exp, jti |-> e.jti]
    <3>1. e \in store /\ e \notin Evicted /\ heap' = heap \ Due
      BY <2>2 DEF CheckRevocation, EvictExpired
    <3>2. item \in heap
      BY <3>1 DEF EveryEntryHasItsItem
    <3>3. item \notin Due
      BY <3>1, <3>2 DEF Evicted, Due, HasExpired
    <3> QED  BY <3>1, <3>2, <3>3
  <2>3. ASSUME NEW jti, NEW exp, Revocation(jti, exp)
        PROVE  EveryEntryHasItsItem'
    <3>1. Revoke(jti, exp)
      BY <2>3 DEF Revocation
    <3>2. heap \subseteq heap'
      BY <3>1 DEF Revoke
    <3>3. \A e \in store' :
            e \in store \/ (e = [jti |-> jti, exp |-> exp] /\ ~HasExpired(exp))
      BY <3>1 DEF Revoke
    <3>4. ~HasExpired(exp) /\ exp # NoExp => [exp |-> exp, jti |-> jti] \in heap'
      BY <3>1 DEF Revoke
    <3> QED  BY <3>2, <3>3, <3>4 DEF EveryEntryHasItsItem
  <2> QED
    BY <2>1, <2>2, <2>3, NextCases
    DEF Sign, VerifyToken, Logout, VerifiedByPlugins, RequestFails, Tick, vars
<1> QED  BY <1>1, <1>2, TypeCorrect, PTL DEF Spec

\* No step forgets a jti whose entry has not expired.
THEOREM NothingForgottenEarly == Spec => ForgottenOnlyExpired
<1> DEFINE Kept == \A e \in store :
                     (\A f \in store' : f.jti # e.jti) => HasExpired(e.exp)
<1>1. TypeOK /\ Known /\ [Next]_vars => [Kept]_vars
  <2> SUFFICES ASSUME TypeOK, Known, [Next]_vars PROVE Kept
    OBVIOUS
  <2>1. CASE UNCHANGED store
    BY <2>1
  <2>2. ASSUME NEW r \in Requests, CheckRevocation(r)
        PROVE  Kept
    BY <2>2 DEF CheckRevocation, EvictExpired, Evicted
  <2>3. ASSUME NEW jti, NEW exp, Revocation(jti, exp)
        PROVE  Kept
    <3>1. Revoke(jti, exp)
      BY <2>3 DEF Revocation
    <3>2. CASE UNCHANGED store
      BY <3>2
    <3>3. CASE store' = {e \in store : e.jti # jti} \cup {[jti |-> jti, exp |-> exp]}
      <4>1. [jti |-> jti, exp |-> exp] \in store'
        BY <3>3
      <4>2. \A e \in store : e.jti # jti => e \in store'
        BY <3>3
      <4> HIDE <3>3
      <4>3. \A e \in store : \E f \in store' : f.jti = e.jti
        BY <4>1, <4>2
      <4> QED  BY <4>3
    <3> QED  BY <3>1, <3>2, <3>3 DEF Revoke
  <2> QED
    BY <2>1, <2>2, <2>3, NextCases
    DEF Sign, VerifyToken, Logout, VerifiedByPlugins, RequestFails, Tick, vars
<1> QED  BY <1>1, TypeCorrect, PTL DEF Spec, ForgottenOnlyExpired

-----------------------------------------------------------------------------
(* Revoked tokens. *)

Alive(jti) == tokens[jti].exp = NoExp \/ now < tokens[jti].exp

\* The store holds every revoked jti whose token has not expired; a
\* verification that began later than the revocation is still in front of the
\* store, or asked it when the token had expired.
Held ==
  /\ \A jti \in revoked : Alive(jti) => \E e \in store : e.jti = jti
  /\ \A r \in Requests :
       /\ req[r].pc = "is_revoked" /\ req[r].late => req[r].jti \in revoked
       /\ req[r].pc = "on_token_verify" /\ req[r].late =>
            /\ tokens[req[r].jti].exp # NoExp
            /\ req[r].checked >= tokens[req[r].jti].exp
  /\ RevokedRejectedUntilExp

\* An entry of a live token is not due, whichever of its two exps it has.
LEMMA AliveNotDue ==
  ASSUME TypeOK, NEW jti \in DOMAIN tokens, Alive(jti),
         NEW exp \in {tokens[jti].exp, NoExp}
  PROVE  ~HasExpired(exp)
<1>1. tokens[jti] \in Token
  BY DEF TypeOK
<1>2. tokens[jti].exp \in Exp
  BY <1>1 DEF Token
<1>3. CASE exp = NoExp
  BY <1>3 DEF HasExpired
<1>4. CASE exp # NoExp
  <2>1. exp = tokens[jti].exp /\ exp \in Nat /\ now < exp
    BY <1>2, <1>4 DEF Exp, Alive
  <2> QED  BY <2>1 DEF HasExpired, TypeOK
<1> QED  BY <1>3, <1>4

\* Held survives a step that leaves the store, the clock and what is revoked
\* alone.
LEMMA HeldFrame ==
  ASSUME TypeOK, Known, Held, TypeOK',
         UNCHANGED <<now, store, revoked, passed>>,
         DOMAIN tokens \subseteq DOMAIN tokens',
         \A i \in DOMAIN tokens : tokens'[i] = tokens[i],
         \A r \in Requests : req'[r] # req[r] =>
           \/ req'[r].pc \in {"idle", "revoke"}
           \/ req'[r].pc = "is_revoked" /\ (req'[r].late => req'[r].jti \in revoked)
  PROVE  Held'
<1>1. \A jti \in revoked' : Alive(jti)' => \E e \in store' : e.jti = jti
  BY DEF Alive, Known, Held
<1>2. RevokedRejectedUntilExp'
  BY DEF RevokedRejectedUntilExp, Held, Known
<1>3. ASSUME NEW r \in Requests
      PROVE  /\ req'[r].pc = "is_revoked" /\ req'[r].late => req'[r].jti \in revoked'
             /\ req'[r].pc = "on_token_verify" /\ req'[r].late =>
                  /\ tokens'[req'[r].jti].exp # NoExp
                  /\ req'[r].checked >= tokens'[req'[r].jti].exp
  <2>1. CASE req'[r] # req[r]
    BY <2>1
  <2>2. CASE req'[r] = req[r]
    <3>1. CASE req[r] = Idle
      BY <2>2, <3>1 DEF Idle
    <3>2. CASE req[r] # Idle
      <4>1. req[r].jti \in DOMAIN tokens
        BY <3>2 DEF Known
      <4> QED  BY <2>2, <4>1 DEF Held
    <3> QED  BY <3>1, <3>2
  <2> QED  BY <2>1, <2>2
<1> QED  BY <1>1, <1>2, <1>3 DEF Held

\* A verification that begins after a revocation passes only at or after the
\* exp of its token.
THEOREM RevocationHolds == Spec => []RevokedRejectedUntilExp
<1>1. Init => Held
  BY DEF Init, Held, RevokedRejectedUntilExp, Idle
<1>2. TypeOK /\ Known /\ TypeOK' /\ Held /\ [Next]_vars => Held'
  <2> SUFFICES ASSUME TypeOK, Known, TypeOK', Held, [Next]_vars PROVE Held'
    OBVIOUS
  <2>1. ASSUME NEW token \in Token, Sign(token)
        PROVE  Held'
    <3>1. /\ DOMAIN tokens \subseteq DOMAIN tokens'
          /\ \A i \in DOMAIN tokens : tokens'[i] = tokens[i]
      BY <2>1, AppendGrows DEF Sign, TypeOK
    <3> QED  BY <2>1, <3>1, HeldFrame DEF Sign
  <2>2. ASSUME NEW r \in Requests, NEW jti \in DOMAIN tokens,
               VerifyToken(r, jti) \/ Logout(r, jti)
        PROVE  Held'
    <3>1. \A s \in Requests : req'[s] # req[s] =>
            \/ req'[s].pc \in {"idle", "revoke"}
            \/ req'[s].pc = "is_revoked" /\ (req'[s].late => req'[s].jti \in revoked)
      <4>1. PICK q :
              /\ req' = [req EXCEPT ![r] = q]
              /\ q.jti = jti
              /\ q.pc = "revoke" \/ (q.pc = "is_revoked" /\ (q.late => jti \in revoked))
        BY <2>2, RequestBegins
      <4>2. req'[r] = q /\ \A s \in Requests : s # r => req'[s] = req[s]
        BY <4>1 DEF TypeOK
      <4> QED  BY <4>1, <4>2
    <3> QED  BY <2>2, <3>1, RequestBegins, HeldFrame
  <2>3. ASSUME NEW r \in Requests, RequestFails(r)
        PROVE  Held'
    <3>1. \A s \in Requests : req'[s] # req[s] => req'[s].pc = "idle"
      BY <2>3 DEF RequestFails, TypeOK, Idle
    <3> QED  BY <2>3, <3>1, HeldFrame DEF RequestFails
  <2>4. ASSUME NEW r \in Requests, CheckRevocation(r)
        PROVE  Held'
    <3>1. \A jti \in revoked : Alive(jti) => \E e \in store \ Evicted : e.jti = jti
      <4> SUFFICES ASSUME NEW jti \in revoked, Alive(jti)
                   PROVE  \E e \in store \ Evicted : e.jti = jti
        OBVIOUS
      <4>1. PICK e \in store : e.jti = jti
        BY DEF Held
      <4>2. jti \in DOMAIN tokens /\ e.exp \in {tokens[jti].exp, NoExp}
        BY <4>1 DEF Known
      <4>3. ~HasExpired(e.exp)
        BY <4>2, AliveNotDue
      <4> QED  BY <4>1, <4>3 DEF Evicted
    <3>2. req[r] \in Asking /\ req[r] # Idle
      BY <2>4 DEF CheckRevocation, TypeOK, Idle, Revoking, Asking, Passing
    <3>3. req[r].jti \in DOMAIN tokens
      BY <3>2 DEF Known
    <3>4. tokens[req[r].jti] \in Token
      BY <3>3 DEF TypeOK
    <3>5. tokens[req[r].jti].exp \in Exp
      BY <3>4 DEF Token
    <3>6. ~IsRevoked(req[r].jti) /\ req[r].late =>
            /\ tokens[req[r].jti].exp # NoExp
            /\ now >= tokens[req[r].jti].exp
      BY <2>4, <3>1, <3>3, <3>5 DEF CheckRevocation, IsRevoked, Held, Alive, TypeOK, Exp
    <3>7. /\ store' = store \ Evicted
          /\ UNCHANGED <<now, tokens, revoked, passed>>
      BY <2>4 DEF CheckRevocation, EvictExpired
    <3>8. \A jti \in revoked' : Alive(jti)' => \E e \in store' : e.jti = jti
      BY <3>1, <3>7 DEF Alive
    <3>9. RevokedRejectedUntilExp'
      BY <3>7 DEF RevokedRejectedUntilExp, Held
    <3>10. ASSUME NEW s \in Requests
          PROVE  /\ req'[s].pc = "is_revoked" /\ req'[s].late => req'[s].jti \in revoked'
                 /\ req'[s].pc = "on_token_verify" /\ req'[s].late =>
                      /\ tokens'[req'[s].jti].exp # NoExp
                      /\ req'[s].checked >= tokens'[req'[s].jti].exp
      <4>1. CASE s # r
        BY <2>4, <3>7, <4>1 DEF CheckRevocation, TypeOK, Held
      <4>2. CASE s = r
        BY <2>4, <3>6, <3>7, <4>2 DEF CheckRevocation, TypeOK, Idle
      <4> QED  BY <4>1, <4>2
    <3> QED  BY <3>8, <3>9, <3>10 DEF Held
  <2>5. ASSUME NEW r \in Requests, VerifiedByPlugins(r)
        PROVE  Held'
    <3>1. RevokedRejectedUntilExp'
      BY <2>5 DEF VerifiedByPlugins, RevokedRejectedUntilExp, Held
    <3>2. \A s \in Requests : req'[s] = req[s] \/ req'[s].pc = "idle"
      BY <2>5 DEF VerifiedByPlugins, TypeOK, Idle
    <3>3. UNCHANGED <<now, store, tokens, revoked>>
      BY <2>5 DEF VerifiedByPlugins
    <3> QED  BY <3>1, <3>2, <3>3 DEF Held, Alive
  <2>6. ASSUME NEW jti, NEW exp, Revocation(jti, exp)
        PROVE  Held'
    <3>1. /\ Revoke(jti, exp)
          /\ jti \in DOMAIN tokens
          /\ exp \in {tokens[jti].exp, NoExp}
          /\ revoked' = revoked \cup {jti}
          /\ UNCHANGED <<now, tokens, passed>>
      BY <2>6 DEF Revocation
    <3>2. Alive(jti) => ~HasExpired(exp)
      BY <3>1, AliveNotDue
    <3>3. Alive(jti) => \E e \in store' : e.jti = jti
      <4> SUFFICES ASSUME Alive(jti) PROVE \E e \in store' : e.jti = jti
        OBVIOUS
      <4> DEFINE entry == [jti |-> jti, exp |-> exp]
      <4>1. entry \in store'
        BY <3>1, <3>2 DEF Revoke
      <4> QED  BY <4>1
    <3>4. \A e \in store : e.jti # jti => e \in store'
      BY <3>1 DEF Revoke
    <3>5. \A other \in revoked' : Alive(other)' => \E e \in store' : e.jti = other
      BY <3>1, <3>3, <3>4 DEF Held, Alive
    <3>6. RevokedRejectedUntilExp'
      BY <3>1 DEF RevokedRejectedUntilExp, Held
    <3>7. \A s \in Requests : req'[s] = req[s] \/ req'[s].pc = "idle"
      BY <2>6 DEF Revocation, TypeOK, Idle
    <3> QED  BY <3>1, <3>5, <3>6, <3>7 DEF Held
  <2>7. CASE Tick
    <3>1. \A jti \in revoked : Alive(jti)' => Alive(jti)
      <4> SUFFICES ASSUME NEW jti \in revoked, Alive(jti)' PROVE Alive(jti)
        OBVIOUS
      <4>1. tokens[jti] \in Token
        BY DEF Known, TypeOK
      <4>2. tokens[jti].exp \in Exp
        BY <4>1 DEF Token
      <4> QED  BY <2>7, <4>2 DEF Tick, Alive, TypeOK, Exp
    <3> QED  BY <2>7, <3>1 DEF Tick, Held, RevokedRejectedUntilExp
  <2>8. CASE UNCHANGED vars
    BY <2>8, HeldFrame DEF vars
  <2> QED  BY <2>1, <2>2, <2>3, <2>4, <2>5, <2>6, <2>7, <2>8, NextCases
<1>3. Held => RevokedRejectedUntilExp
  BY DEF Held
<1> QED  BY <1>1, <1>2, <1>3, TypeCorrect, PTL DEF Spec
=============================================================================
