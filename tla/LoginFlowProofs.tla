--------------------------- MODULE LoginFlowProofs ---------------------------
(***************************************************************************)
(* The invariants of LoginFlow, for every value of its constants: any       *)
(* browsers, callbacks and providers of any kind and tenant.                *)
(***************************************************************************)
EXTENDS LoginFlow, FiniteSetTheorems, TLAPS

Local == {Idle} \cup Fetching \cup Signing

LEMMA AppendGrows ==
  ASSUME NEW S, NEW seq \in Seq(S), NEW e \in S
  PROVE  /\ Append(seq, e) \in Seq(S)
         /\ Len(Append(seq, e)) = Len(seq) + 1
         /\ DOMAIN Append(seq, e) = DOMAIN seq \cup {Len(seq) + 1}
         /\ DOMAIN seq \subseteq Nat
         /\ Len(seq) + 1 \notin DOMAIN seq
         /\ \A i \in DOMAIN seq : Append(seq, e)[i] = seq[i]
         /\ Append(seq, e)[Len(seq) + 1] = e
OBVIOUS

\* A callback that goes on to the next call keeps its other local variables.
LEMMA GoesOn ==
  ASSUME NEW v \in Fetching, NEW pc \in {"fetch_token", "fetch_userinfo", "provision"}
  PROVE  /\ [v EXCEPT !.pc = pc] \in Fetching
         /\ [v EXCEPT !.pc = pc].pc = pc
         /\ [v EXCEPT !.pc = pc].browser = v.browser
         /\ [v EXCEPT !.pc = pc].flow = v.flow
         /\ [v EXCEPT !.pc = pc].answer = v.answer
BY DEF Fetching

\* The pc of a callback says which local variables it has.
LEMMA PcTells ==
  ASSUME NEW v \in Local
  PROVE  /\ v.pc \in {"fetch_token", "fetch_userinfo", "provision"} => v \in Fetching
         /\ v.pc = "sign" => v \in Signing
         /\ v.pc = "idle" <=> v = Idle
         /\ v # Idle => v.browser \in Browsers /\ v.flow \in Nat /\ v.answer \in Nat
BY DEF Local, Idle, Fetching, Signing

-----------------------------------------------------------------------------
(* Types, and which flow, answer and browser everything is about. *)

\* Whatever flow a cookie, an answer, a callback or a login names was begun,
\* whatever answer was given, and there are finitely many users.
Known ==
  /\ IsFiniteSet(DOMAIN users)
  /\ \A b \in Browsers : stateCookie[b] # None => stateCookie[b] \in DOMAIN flows
  /\ \A a \in DOMAIN answers : answers[a].flow \in DOMAIN flows
  /\ \A c \in Callbacks : callback[c] # Idle =>
       callback[c].flow \in DOMAIN flows /\ callback[c].answer \in DOMAIN answers
  /\ \A i \in DOMAIN logins :
       logins[i].flow \in DOMAIN flows /\ logins[i].answer \in DOMAIN answers

\* A step of callback c that ends with q in its local variables.
Goes(c, q) == callback' = [callback EXCEPT ![c] = q]

\* What FetchToken and FetchUserinfo make of callback c.
LEMMA FetchGoes ==
  ASSUME TypeOK, Known, NEW c \in Callbacks,
         FetchToken(c) \/ \E roles \in RoleSets : FetchUserinfo(c, roles)
  PROVE  /\ callback[c] # Idle
         /\ callback[c] \in Fetching
         /\ \E q \in Fetching :
              /\ Goes(c, q)
              /\ q.pc \in {"fetch_userinfo", "provision"}
              /\ q.pc = "fetch_userinfo" => FetchToken(c) /\ IdpOf(q.answer) \in UserinfoIdps
              /\ q.browser = callback[c].browser
              /\ q.flow = callback[c].flow
              /\ q.answer = callback[c].answer
<1> DEFINE v == callback[c]
<1>1. v \in Local
  BY DEF TypeOK, Local
<1>2. v.pc \in {"fetch_token", "fetch_userinfo"}
  BY DEF FetchToken, FetchUserinfo
<1>3. v # Idle /\ v \in Fetching
  BY <1>1, <1>2, PcTells DEF Idle
<1>4. callback \in [Callbacks -> Local]
  BY DEF TypeOK, Local
<1>5. CASE FetchToken(c)
  <2> DEFINE pc == IF IdpOf(v.answer) \in UserinfoIdps THEN "fetch_userinfo" ELSE "provision"
             q == [v EXCEPT !.pc = pc]
  <2>1. Goes(c, q)
    BY <1>4, <1>5 DEF FetchToken, Goes
  <2>2. pc \in {"fetch_userinfo", "provision"} /\ (pc = "fetch_userinfo" => IdpOf(v.answer) \in UserinfoIdps)
    OBVIOUS
  <2>3. /\ q \in Fetching /\ q.pc = pc
        /\ q.browser = v.browser /\ q.flow = v.flow /\ q.answer = v.answer
    <3>1. pc \in {"fetch_token", "fetch_userinfo", "provision"}
      OBVIOUS
    <3> HIDE DEF pc, v
    <3> QED  BY <1>3, <3>1, GoesOn
  <2> HIDE DEF pc, q
  <2> QED  BY <1>3, <1>5, <2>1, <2>2, <2>3
<1>6. CASE \E roles \in RoleSets : FetchUserinfo(c, roles)
  <2> DEFINE q == [v EXCEPT !.pc = "provision"]
  <2>1. Goes(c, q)
    BY <1>4, <1>6 DEF FetchUserinfo, Goes
  <2>2. /\ q \in Fetching /\ q.pc = "provision"
        /\ q.browser = v.browser /\ q.flow = v.flow /\ q.answer = v.answer
    <3> HIDE DEF v
    <3> QED  BY <1>3, GoesOn
  <2> HIDE DEF q
  <2> QED  BY <1>3, <2>1, <2>2
<1> QED  BY <1>5, <1>6

\* What Callback, Provision and the ends make of it.
LEMMA OthersGo ==
  ASSUME TypeOK, Known, NEW c \in Callbacks
  PROVE  /\ \A b \in Browsers, a \in DOMAIN answers : Callback(c, b, a) =>
              \E q \in Fetching :
                /\ Goes(c, q)
                /\ q.pc \in {"fetch_token", "provision"}
                /\ q.browser = b /\ q.flow = stateCookie[b] /\ q.answer = a
         /\ Provision(c) =>
              /\ callback[c] # Idle
              /\ callback[c] \in Fetching
              /\ Upserted(callback[c].answer) \in Principal
                  => \E q \in Signing :
                       /\ Goes(c, q)
                       /\ q.browser = callback[c].browser
                       /\ q.flow = callback[c].flow
                       /\ q.answer = callback[c].answer
                       /\ q.principal = Upserted(callback[c].answer)
<1>1. ASSUME NEW b \in Browsers, NEW a \in DOMAIN answers, Callback(c, b, a)
      PROVE  \E q \in Fetching :
                /\ Goes(c, q)
                /\ q.pc \in {"fetch_token", "provision"}
                /\ q.browser = b /\ q.flow = stateCookie[b] /\ q.answer = a
  <2> DEFINE pc == IF Kind[IdpOf(a)] = "saml" THEN "provision" ELSE "fetch_token"
             q == [pc |-> pc, browser |-> b, flow |-> stateCookie[b], answer |-> a]
  <2>1. Goes(c, q)
    BY <1>1 DEF Callback, Goes
  <2>2. stateCookie[b] \in Nat /\ a \in Nat /\ pc \in {"fetch_token", "provision"}
    BY DEF TypeOK
  <2>3. q \in Fetching
    <3> HIDE DEF pc
    <3> QED  BY <2>2 DEF Fetching
  <2>4. q.pc = pc /\ q.browser = b /\ q.flow = stateCookie[b] /\ q.answer = a
    OBVIOUS
  <2> HIDE DEF q, pc
  <2> QED  BY <2>1, <2>2, <2>3, <2>4
<1>2. ASSUME Provision(c)
      PROVE  /\ callback[c] # Idle
             /\ callback[c] \in Fetching
             /\ Upserted(callback[c].answer) \in Principal
                  => \E q \in Signing :
                       /\ Goes(c, q)
                       /\ q.browser = callback[c].browser
                       /\ q.flow = callback[c].flow
                       /\ q.answer = callback[c].answer
                       /\ q.principal = Upserted(callback[c].answer)
  <2> DEFINE v == callback[c]
             q == [pc |-> "sign", browser |-> v.browser, flow |-> v.flow,
                   answer |-> v.answer, principal |-> Upserted(v.answer)]
  <2>1. v \in Local /\ v.pc = "provision"
    BY <1>2 DEF TypeOK, Local, Provision
  <2>2. v # Idle /\ v \in Fetching
    BY <2>1, PcTells DEF Idle
  <2>3. Goes(c, q)
    BY <1>2 DEF Provision, Goes
  <2>4. v.browser \in Browsers /\ v.flow \in Nat /\ v.answer \in Nat
    BY <2>2, PcTells DEF Fetching
  <2>5. ASSUME Upserted(v.answer) \in Principal
        PROVE  q \in Signing
    BY <2>4, <2>5 DEF Signing
  <2>6. /\ q.browser = v.browser /\ q.flow = v.flow /\ q.answer = v.answer
        /\ q.principal = Upserted(v.answer)
    OBVIOUS
  <2> HIDE DEF q
  <2> QED  BY <2>2, <2>3, <2>5, <2>6
<1> QED  BY <1>1, <1>2

\* What upsert_from_identity returns.
LEMMA UpsertedFacts ==
  ASSUME TypeOK, Known, NEW a \in DOMAIN answers
  PROVE  /\ Upserted(a) \in Principal
         /\ Upserted(a).id = IF UserKey(a) \in DOMAIN users THEN users[UserKey(a)].id
                             ELSE Cardinality(DOMAIN users) + 1
         /\ Upserted(a).roles = IF UserKey(a) \in DOMAIN users /\ ClaimedRoles(a) = {}
                                THEN users[UserKey(a)].roles ELSE ClaimedRoles(a)
<1> DEFINE key == UserKey(a)
           claimed == ClaimedRoles(a)
<1>1. answers[a] \in Answer
  BY DEF TypeOK
<1>2. /\ answers[a].claim \in SUBSET SUBSET Roles
      /\ answers[a].userinfo \in SUBSET SUBSET Roles
  BY <1>1 DEF Answer, Claims
<1>3. claimed \in SUBSET Roles
  BY <1>2 DEF ClaimedRoles, AsList
<1>4. CASE key \in DOMAIN users
  <2> DEFINE user == users[key]
             roles == IF claimed # {} THEN claimed ELSE user.roles
  <2>1. user \in Principal
    BY <1>4 DEF TypeOK
  <2>2. Upserted(a) = [user EXCEPT !.roles = roles]
    BY <1>4 DEF Upserted
  <2>3. roles \in SUBSET Roles
    BY <1>3, <2>1 DEF Principal
  <2> HIDE DEF user, claimed, roles
  <2>4. /\ [user EXCEPT !.roles = roles] \in Principal
        /\ [user EXCEPT !.roles = roles].id = user.id
        /\ [user EXCEPT !.roles = roles].roles = roles
    BY <2>1, <2>3 DEF Principal
  <2> USE DEF user, claimed, roles
  <2> QED  BY <1>4, <2>2, <2>4
<1>5. CASE key \notin DOMAIN users
  <2>1. Upserted(a) = [id |-> NewId, roles |-> claimed]
    BY <1>5 DEF Upserted
  <2>2. Cardinality(DOMAIN users) \in Nat
    BY FS_CardinalityType DEF Known
  <2>3. NewId \in Nat \ {0} /\ NewId = Cardinality(DOMAIN users) + 1
    BY <2>2 DEF NewId
  <2> HIDE DEF claimed
  <2>4. Upserted(a) \in Principal
    BY <1>3, <2>1, <2>3 DEF Principal
  <2> QED  BY <1>5, <2>1, <2>3, <2>4 DEF claimed
<1> QED  BY <1>4, <1>5

\* What a provider answers is an answer.
LEMMA AnswerTyped ==
  ASSUME TypeOK, NEW n \in DOMAIN flows, NEW subject \in Subjects,
         NEW claim \in Claims(RoleSets)
  PROVE  [flow |-> n, subject |-> subject, claim |-> claim, userinfo |-> {}] \in Answer
<1>1. claim \in Claims(SUBSET Roles) /\ {} \in Claims(SUBSET Roles)
  BY LoginAssumption DEF Claims
<1>2. n \in Nat
  BY DEF TypeOK
<1> QED  BY <1>1, <1>2 DEF Answer

\* A fetch takes nothing away from the answers.
LEMMA FetchKeeps ==
  ASSUME TypeOK, Known, NEW c \in Callbacks, callback[c] # Idle,
         FetchToken(c) \/ \E roles \in RoleSets : FetchUserinfo(c, roles)
  PROVE  /\ answers' \in Seq(Answer)
         /\ DOMAIN answers' = DOMAIN answers
         /\ \A a \in DOMAIN answers :
              /\ answers'[a].flow = answers[a].flow
              /\ answers'[a].subject = answers[a].subject
              /\ answers'[a].claim = answers[a].claim
              /\ a # callback[c].answer \/ FetchToken(c) => answers'[a] = answers[a]
<1>1. CASE FetchToken(c)
  BY <1>1 DEF FetchToken, TypeOK
<1>2. ASSUME NEW roles \in RoleSets, FetchUserinfo(c, roles)
      PROVE  /\ answers' \in Seq(Answer)
             /\ DOMAIN answers' = DOMAIN answers
             /\ \A a \in DOMAIN answers :
                  /\ answers'[a].flow = answers[a].flow
                  /\ answers'[a].subject = answers[a].subject
                  /\ answers'[a].claim = answers[a].claim
                  /\ a # callback[c].answer => answers'[a] = answers[a]
  <2> DEFINE at == callback[c].answer
             said == answers[at]
             known == [said EXCEPT !.userinfo = {roles}]
  <2>1. at \in DOMAIN answers /\ said \in Answer
    BY DEF Known, TypeOK
  <2>2. roles \in SUBSET Roles
    BY LoginAssumption
  <2>3. answers' = [answers EXCEPT ![at] = known]
    BY <1>2 DEF FetchUserinfo
  <2>4. /\ known \in Answer
        /\ known.flow = said.flow /\ known.subject = said.subject /\ known.claim = said.claim
    <3> HIDE DEF said
    <3> QED  BY <2>1, <2>2 DEF Answer, Claims
  <2> HIDE DEF known
  <2>5. answers' \in Seq(Answer) /\ DOMAIN answers' = DOMAIN answers
    BY <2>1, <2>3, <2>4 DEF TypeOK
  <2>6. \A a \in DOMAIN answers : answers'[a] = IF a = at THEN known ELSE answers[a]
    BY <2>3
  <2> QED  BY <2>4, <2>5, <2>6
<1>3. FetchToken(c) => \A a \in DOMAIN answers : answers'[a] = answers[a]
  BY DEF FetchToken
<1>4. ASSUME ~FetchToken(c)
      PROVE  \E roles \in RoleSets : FetchUserinfo(c, roles)
  BY <1>4
<1> QED  BY <1>1, <1>2, <1>3, <1>4

LEMMA IdpTyped ==
  ASSUME TypeOK, Known, NEW a \in DOMAIN answers
  PROVE  IdpOf(a) \in Idps
<1>1. answers[a].flow \in DOMAIN flows
  BY DEF Known
<1>2. flows[answers[a].flow] \in Flow
  BY <1>1 DEF TypeOK
<1> QED  BY <1>2 DEF Flow, IdpOf

LEMMA KeyTyped ==
  ASSUME TypeOK, Known, NEW a \in DOMAIN answers
  PROVE  UserKey(a) \in {Tenant[idp] : idp \in Idps} \X Subjects
<1>1. answers[a] \in Answer
  BY DEF TypeOK
<1>2. IdpOf(a) \in Idps /\ answers[a].subject \in Subjects
  BY <1>1, IdpTyped DEF Answer
<1> QED  BY <1>2 DEF UserKey

\* A response completes the login that its callback is about.
LEMMA LoginTyped ==
  ASSUME NEW c \in Callbacks, callback[c] \in Signing, Respond(c)
  PROVE  \E login \in CallbackLogin :
           /\ logins' = Append(logins, login)
           /\ login.browser = callback[c].browser
           /\ login.flow = callback[c].flow
           /\ login.answer = callback[c].answer
           /\ login.id = callback[c].principal.id
           /\ login.roles = callback[c].principal.roles
<1> DEFINE v == callback[c]
           login == [browser |-> v.browser, flow |-> v.flow, answer |-> v.answer,
                     id |-> v.principal.id, roles |-> v.principal.roles]
<1>1. /\ v.browser \in Browsers /\ v.flow \in Nat /\ v.answer \in Nat
      /\ v.principal \in Principal
  BY DEF Signing
<1>2. v.principal.id \in Nat /\ v.principal.roles \in SUBSET Roles
  BY <1>1 DEF Principal
<1>3. login \in CallbackLogin
  BY <1>1, <1>2 DEF CallbackLogin
<1>4. logins' = Append(logins, login)
  BY DEF Respond, TokenRoles
<1>5. /\ login.browser = v.browser /\ login.flow = v.flow /\ login.answer = v.answer
      /\ login.id = v.principal.id /\ login.roles = v.principal.roles
  OBVIOUS
<1> HIDE DEF login
<1> QED  BY <1>3, <1>4, <1>5

\* The steps, each with the values it is for.
LEMMA NextCases ==
  ASSUME [Next]_vars
  PROVE  \/ \E b \in Browsers, idp \in Idps : Begin(b, idp)
         \/ \E n \in DOMAIN flows, subject \in Subjects, claim \in Claims(RoleSets) :
              ProviderAnswers(n, subject, claim)
         \/ \E c \in Callbacks, b \in Browsers, a \in DOMAIN answers : Callback(c, b, a)
         \/ \E c \in Callbacks : FetchToken(c) \/ \E roles \in RoleSets : FetchUserinfo(c, roles)
         \/ \E c \in Callbacks : Provision(c)
         \/ \E c \in Callbacks : Respond(c)
         \/ \E c \in Callbacks : CallbackFails(c)
         \/ \E b \in Browsers : Logout(b) \/ PageReads(b) \/ PageWrites(b)
         \/ StateExpires
         \/ UNCHANGED vars
BY DEF Next, Visitor, Provider, HandleCallback, RefuseCallback

\* Whatever happens to a callback that stays busy.
LEMMA CallbackSteps ==
  ASSUME TypeOK, [Next]_vars, NEW d \in Callbacks, callback'[d] # Idle
  PROVE  \/ callback'[d] = callback[d]
         \/ \E b \in Browsers, a \in DOMAIN answers : Callback(d, b, a)
         \/ FetchToken(d) \/ \E roles \in RoleSets : FetchUserinfo(d, roles)
         \/ Provision(d)
<1>a. callback \in [Callbacks -> Local]
  BY DEF TypeOK, Local
<1>1. ASSUME NEW c \in Callbacks, NEW b \in Browsers, NEW a \in DOMAIN answers,
             Callback(c, b, a), c # d
      PROVE  callback'[d] = callback[d]
  BY <1>a, <1>1 DEF Callback
<1>2. ASSUME NEW c \in Callbacks, c # d,
             FetchToken(c) \/ \E roles \in RoleSets : FetchUserinfo(c, roles)
      PROVE  callback'[d] = callback[d]
  BY <1>a, <1>2 DEF FetchToken, FetchUserinfo
<1>3. ASSUME NEW c \in Callbacks, c # d, Provision(c)
      PROVE  callback'[d] = callback[d]
  BY <1>a, <1>3 DEF Provision
<1>4. ASSUME NEW c \in Callbacks, Respond(c) \/ CallbackFails(c)
      PROVE  callback'[d] = callback[d]
  BY <1>a, <1>4 DEF Respond, CallbackFails
<1>5. ASSUME \/ \E b \in Browsers, idp \in Idps : Begin(b, idp)
             \/ \E n \in DOMAIN flows, subject \in Subjects, claim \in Claims(RoleSets) :
                  ProviderAnswers(n, subject, claim)
             \/ \E b \in Browsers : Logout(b) \/ PageReads(b) \/ PageWrites(b)
             \/ StateExpires
             \/ UNCHANGED vars
      PROVE  UNCHANGED callback
  BY <1>5 DEF Begin, ProviderAnswers, Logout, PageReads, PageWrites, StateExpires, vars
<1> QED  BY <1>1, <1>2, <1>3, <1>4, <1>5, NextCases

LEMMA OnlyRespondCompletes ==
  ASSUME [Next]_vars, \A c \in Callbacks : ~Respond(c)
  PROVE  UNCHANGED logins
BY NextCases DEF Begin, ProviderAnswers, Callback, FetchToken, FetchUserinfo, Provision,
                 CallbackFails, Logout, PageReads, PageWrites, StateExpires, vars

\* A login was there before, or is the one that a response completes.
LEMMA LoginSteps ==
  ASSUME TypeOK, [Next]_vars, NEW i \in DOMAIN logins'
  PROVE  \/ i \in DOMAIN logins /\ logins'[i] = logins[i]
         \/ \E c \in Callbacks :
              /\ callback[c] \in Signing /\ callback[c].pc = "sign" /\ callback[c] # Idle
              /\ Respond(c)
              /\ logins'[i].browser = callback[c].browser
              /\ logins'[i].flow = callback[c].flow
              /\ logins'[i].answer = callback[c].answer
              /\ logins'[i].id = callback[c].principal.id
              /\ logins'[i].roles = callback[c].principal.roles
<1>1. CASE \A c \in Callbacks : ~Respond(c)
  <2>1. UNCHANGED logins
    BY <1>1, OnlyRespondCompletes
  <2> QED  BY <2>1
<1>2. ASSUME NEW c \in Callbacks, Respond(c)
      PROVE  \/ i \in DOMAIN logins /\ logins'[i] = logins[i]
             \/ /\ callback[c] \in Signing /\ callback[c].pc = "sign" /\ callback[c] # Idle
                /\ Respond(c)
                /\ logins'[i].browser = callback[c].browser
                /\ logins'[i].flow = callback[c].flow
                /\ logins'[i].answer = callback[c].answer
                /\ logins'[i].id = callback[c].principal.id
                /\ logins'[i].roles = callback[c].principal.roles
  <2>1. callback[c] \in Signing /\ callback[c].pc = "sign" /\ callback[c] # Idle
    BY <1>2, PcTells DEF Respond, Idle, TypeOK, Local
  <2>2. PICK login \in CallbackLogin :
          /\ logins' = Append(logins, login)
          /\ login.browser = callback[c].browser /\ login.flow = callback[c].flow
          /\ login.answer = callback[c].answer /\ login.id = callback[c].principal.id
          /\ login.roles = callback[c].principal.roles
    BY <1>2, <2>1, LoginTyped
  <2>3. /\ DOMAIN logins' = DOMAIN logins \cup {Len(logins) + 1}
        /\ \A j \in DOMAIN logins : logins'[j] = logins[j]
        /\ logins'[Len(logins) + 1] = login
    BY <2>2, AppendGrows DEF TypeOK
  <2> QED  BY <1>2, <2>1, <2>2, <2>3
<1> QED  BY <1>1, <1>2

\* Every variable keeps its type, and nothing names a flow or an answer that is
\* not there.
THEOREM TypeCorrect == Spec => [](TypeOK /\ Known)
<1>1. Init => TypeOK /\ Known
  BY FS_EmptySet DEF Init, TypeOK, Known, Idle, None
<1>2. TypeOK /\ Known /\ [Next]_vars => TypeOK' /\ Known'
  <2> SUFFICES ASSUME TypeOK, Known, [Next]_vars PROVE TypeOK' /\ Known'
    OBVIOUS
  <2>a. callback \in [Callbacks -> Local]
    BY DEF TypeOK, Local
  <2>b. /\ stateCookie \in [Browsers -> Nat] /\ sessionCookie \in [Browsers -> Nat]
        /\ csrfCookie \in [Browsers -> Nat] /\ page \in [Browsers -> Nat]
    BY DEF TypeOK
  <2>1. ASSUME NEW b \in Browsers, NEW idp \in Idps, Begin(b, idp)
        PROVE  TypeOK' /\ Known'
    <3>1. [browser |-> b, idp |-> idp] \in Flow
      BY DEF Flow
    <3>2. /\ flows' \in Seq(Flow)
          /\ DOMAIN flows \subseteq DOMAIN flows'
          /\ Len(flows) + 1 \in DOMAIN flows'
      BY <2>1, <3>1, AppendGrows DEF Begin, TypeOK
    <3>3. Len(flows) + 1 \in Nat
      BY DEF TypeOK
    <3>4. TypeOK'
      BY <2>1, <3>2, <3>3 DEF Begin, TypeOK
    <3>5. Known'
      BY <2>1, <3>2 DEF Begin, TypeOK, Known
    <3> QED  BY <3>4, <3>5
  <2>2. ASSUME NEW n \in DOMAIN flows, NEW subject \in Subjects, NEW claim \in Claims(RoleSets),
               ProviderAnswers(n, subject, claim)
        PROVE  TypeOK' /\ Known'
    <3> DEFINE said == [flow |-> n, subject |-> subject, claim |-> claim, userinfo |-> {}]
    <3>1. said \in Answer
      BY AnswerTyped
    <3>2. said.flow = n
      OBVIOUS
    <3>3. answers' = Append(answers, said)
      BY <2>2 DEF ProviderAnswers
    <3> HIDE DEF said
    <3>4. /\ answers' \in Seq(Answer)
          /\ DOMAIN answers' = DOMAIN answers \cup {Len(answers) + 1}
          /\ \A a \in DOMAIN answers : answers'[a] = answers[a]
          /\ answers'[Len(answers) + 1] = said
      BY <3>1, <3>3, AppendGrows DEF TypeOK
    <3>5. TypeOK'
      BY <2>2, <3>4 DEF ProviderAnswers, TypeOK, cookieVars
    <3>6. Known'
      BY <2>2, <3>2, <3>4 DEF ProviderAnswers, Known, cookieVars
    <3> QED  BY <3>5, <3>6
  <2>3. ASSUME NEW c \in Callbacks, NEW b \in Browsers, NEW a \in DOMAIN answers,
               Callback(c, b, a)
        PROVE  TypeOK' /\ Known'
    <3>1. PICK q \in Fetching : Goes(c, q) /\ q.flow = stateCookie[b] /\ q.answer = a
      BY <2>3, OthersGo
    <3>2. callback' \in [Callbacks -> Local]
      BY <2>a, <3>1 DEF Goes, Local
    <3>3. TypeOK'
      BY <2>3, <3>2 DEF Callback, TypeOK, Local, cookieVars
    <3>4. stateCookie[b] \in DOMAIN flows
      BY <2>3 DEF Callback, StateAccepted, Known
    <3>5. Known'
      BY <2>3, <2>a, <3>1, <3>4 DEF Callback, Known, Goes, cookieVars
    <3> QED  BY <3>3, <3>5
  <2>4. ASSUME NEW c \in Callbacks,
               FetchToken(c) \/ \E roles \in RoleSets : FetchUserinfo(c, roles)
        PROVE  TypeOK' /\ Known'
    <3>1. callback[c] # Idle /\ callback[c] \in Fetching
      BY <2>4, FetchGoes
    <3>2. PICK q \in Fetching :
            Goes(c, q) /\ q.flow = callback[c].flow /\ q.answer = callback[c].answer
      BY <2>4, FetchGoes
    <3>3. callback' \in [Callbacks -> Local]
      BY <2>a, <3>2 DEF Goes, Local
    <3>4. /\ answers' \in Seq(Answer)
          /\ DOMAIN answers' = DOMAIN answers
          /\ \A a \in DOMAIN answers : answers'[a].flow = answers[a].flow
      BY <2>4, <3>1, FetchKeeps
    <3>5. redeemed' \subseteq Nat
      BY <2>4, <3>1 DEF FetchToken, FetchUserinfo, TypeOK, Fetching
    <3>6. UNCHANGED <<cookieVars, page, expired, flows, users, logins, acted>>
      BY <2>4 DEF FetchToken, FetchUserinfo
    <3>7. TypeOK'
      BY <3>3, <3>4, <3>5, <3>6 DEF TypeOK, Local, cookieVars
    <3>8. Known'
      BY <2>a, <3>1, <3>2, <3>4, <3>6 DEF Known, Goes, cookieVars
    <3> QED  BY <3>7, <3>8
  <2>5. ASSUME NEW c \in Callbacks, Provision(c)
        PROVE  TypeOK' /\ Known'
    <3> DEFINE v == callback[c]
               key == UserKey(v.answer)
               user == Upserted(v.answer)
    <3>1. v # Idle /\ v.answer \in DOMAIN answers /\ v.flow \in DOMAIN flows
      BY <2>5, OthersGo DEF Known
    <3>2. user \in Principal
      BY <3>1, UpsertedFacts
    <3>3. PICK q \in Signing : Goes(c, q) /\ q.flow = v.flow /\ q.answer = v.answer
      BY <2>5, <3>2, OthersGo
    <3>4. callback' \in [Callbacks -> Local]
      BY <2>a, <3>3 DEF Goes, Local
    <3>5. users' = [k \in DOMAIN users \cup {key} |-> IF k = key THEN user ELSE users[k]]
      BY <2>5 DEF Provision
    <3>6. key \in {Tenant[idp] : idp \in Idps} \X Subjects
      BY <3>1, KeyTyped
    <3> HIDE DEF key, user, v
    <3>7. DOMAIN users' = DOMAIN users \cup {key}
      BY <3>5
    <3>8. \A k \in DOMAIN users' : users'[k] \in Principal
      BY <3>2, <3>5, <3>7 DEF TypeOK
    <3>9. UNCHANGED <<cookieVars, page, expired, flows, answers, redeemed, logins, acted>>
      BY <2>5 DEF Provision
    <3>10. TypeOK'
      BY <3>4, <3>6, <3>7, <3>8, <3>9 DEF TypeOK, Local, cookieVars
    <3>11. IsFiniteSet(DOMAIN users')
      BY <3>7, FS_AddElement DEF Known
    <3>12. Known'
      BY <2>a, <3>1, <3>3, <3>9, <3>11 DEF Known, Goes, cookieVars, v
    <3> QED  BY <3>10, <3>12
  <2>6. ASSUME NEW c \in Callbacks, Respond(c)
        PROVE  TypeOK' /\ Known'
    <3> DEFINE v == callback[c]
    <3>1. v # Idle /\ v \in Signing
      BY <2>a, <2>6, PcTells DEF Respond, Idle
    <3>2. PICK login \in CallbackLogin :
            logins' = Append(logins, login) /\ login.flow = v.flow /\ login.answer = v.answer
      BY <2>6, <3>1, LoginTyped
    <3>3. /\ logins' \in Seq(CallbackLogin)
          /\ DOMAIN logins' = DOMAIN logins \cup {Len(logins) + 1}
          /\ \A i \in DOMAIN logins : logins'[i] = logins[i]
          /\ logins'[Len(logins) + 1] = login
          /\ Len(logins) + 1 \in Nat
      BY <3>2, AppendGrows DEF TypeOK
    <3>4. callback' \in [Callbacks -> Local] /\ Goes(c, Idle)
      BY <2>a, <2>6 DEF Respond, Goes, Local
    <3>a. v.browser \in Browsers /\ Len(logins) + 1 \in Nat /\ None \in Nat
      BY <3>1, <3>3, PcTells DEF Signing, None
    <3>b. /\ stateCookie' \in [Browsers -> Nat]
          /\ sessionCookie' \in [Browsers -> Nat]
          /\ csrfCookie' \in [Browsers -> Nat]
      BY <2>6, <2>b, <3>a DEF Respond
    <3>c. UNCHANGED <<page, expired, flows, answers, redeemed, users, acted>>
      BY <2>6 DEF Respond
    <3>5. TypeOK'
      BY <3>3, <3>4, <3>b, <3>c DEF TypeOK, Local
    <3>6. Known'
      BY <2>6, <2>a, <3>1, <3>2, <3>3, <3>4 DEF Respond, TypeOK, Known, Goes, None
    <3> QED  BY <3>5, <3>6
  <2>7. ASSUME NEW c \in Callbacks, CallbackFails(c)
        PROVE  TypeOK' /\ Known'
    BY <2>7 DEF CallbackFails, TypeOK, Known, cookieVars
  <2>8. ASSUME NEW b \in Browsers, Logout(b) \/ PageReads(b) \/ PageWrites(b)
        PROVE  TypeOK' /\ Known'
    <3>1. UNCHANGED <<stateCookie, expired, flows, answers, redeemed, callback, users, logins>>
      BY <2>8 DEF Logout, PageReads, PageWrites, cookieVars
    <3>2. /\ sessionCookie' \in [Browsers -> Nat]
          /\ csrfCookie' \in [Browsers -> Nat]
      BY <2>8, <2>b DEF Logout, PageReads, PageWrites, cookieVars, None
    <3>3. csrfCookie[b] \in Nat /\ page[b] \in Nat /\ sessionCookie[b] \in Nat
      BY <2>b
    <3>4. page' \in [Browsers -> Nat]
      BY <2>8, <2>b, <3>3 DEF Logout, PageReads, PageWrites
    <3>5. acted' \subseteq Nat \X Nat
      BY <2>8, <3>3 DEF Logout, PageReads, PageWrites, TypeOK
    <3> QED  BY <3>1, <3>2, <3>4, <3>5 DEF TypeOK, Known
  <2>9. CASE StateExpires
    BY <2>9 DEF StateExpires, TypeOK, Known, cookieVars
  <2>10. CASE UNCHANGED vars
    BY <2>10 DEF vars, TypeOK, Known, cookieVars
  <2> QED  BY <2>1, <2>2, <2>3, <2>4, <2>5, <2>6, <2>7, <2>8, <2>9, <2>10, NextCases
<1>3. QED
  BY <1>1, <1>2, PTL DEF Spec

\* Flows and answers are only added; what an answer says outside its userinfo, at
\* which provider, and for which user, stays.
LEMMA FactsStay ==
  ASSUME TypeOK, Known, [Next]_vars
  PROVE  /\ DOMAIN flows \subseteq DOMAIN flows'
         /\ \A n \in DOMAIN flows : flows'[n] = flows[n]
         /\ DOMAIN answers \subseteq DOMAIN answers'
         /\ \A a \in DOMAIN answers :
              /\ answers'[a].flow = answers[a].flow
              /\ answers'[a].claim = answers[a].claim
              /\ flows'[answers'[a].flow].idp = IdpOf(a)
              /\ UserKey(a)' = UserKey(a)
<1>1. /\ DOMAIN flows \subseteq DOMAIN flows'
      /\ \A n \in DOMAIN flows : flows'[n] = flows[n]
  <2>1. ASSUME NEW b \in Browsers, NEW idp \in Idps, Begin(b, idp)
        PROVE  /\ DOMAIN flows \subseteq DOMAIN flows'
               /\ \A n \in DOMAIN flows : flows'[n] = flows[n]
    <3>1. [browser |-> b, idp |-> idp] \in Flow
      BY DEF Flow
    <3> QED  BY <2>1, <3>1, AppendGrows DEF Begin, TypeOK
  <2>2. (\A b \in Browsers, idp \in Idps : ~Begin(b, idp)) => UNCHANGED flows
    BY NextCases DEF ProviderAnswers, Callback, FetchToken, FetchUserinfo, Provision,
                     Respond, CallbackFails, Logout, PageReads, PageWrites,
                     StateExpires, vars
  <2> QED  BY <2>1, <2>2
<1>2. /\ DOMAIN answers \subseteq DOMAIN answers'
      /\ \A a \in DOMAIN answers :
           /\ answers'[a].flow = answers[a].flow
           /\ answers'[a].subject = answers[a].subject
           /\ answers'[a].claim = answers[a].claim
  <2>1. ASSUME NEW n \in DOMAIN flows, NEW subject \in Subjects, NEW claim \in Claims(RoleSets),
               ProviderAnswers(n, subject, claim)
        PROVE  /\ DOMAIN answers \subseteq DOMAIN answers'
               /\ \A a \in DOMAIN answers : answers'[a] = answers[a]
    BY <2>1 DEF ProviderAnswers, TypeOK
  <2>2. ASSUME NEW c \in Callbacks,
               FetchToken(c) \/ \E roles \in RoleSets : FetchUserinfo(c, roles)
        PROVE  /\ DOMAIN answers \subseteq DOMAIN answers'
               /\ \A a \in DOMAIN answers :
                    /\ answers'[a].flow = answers[a].flow
                    /\ answers'[a].subject = answers[a].subject
                    /\ answers'[a].claim = answers[a].claim
    <3>1. callback[c] # Idle
      BY <2>2, FetchGoes
    <3> QED  BY <2>2, <3>1, FetchKeeps
  <2>3. ASSUME \A n \in DOMAIN flows, subject \in Subjects, claim \in Claims(RoleSets) :
                 ~ProviderAnswers(n, subject, claim),
               \A c \in Callbacks :
                 ~(FetchToken(c) \/ \E roles \in RoleSets : FetchUserinfo(c, roles))
        PROVE  UNCHANGED answers
    BY <2>3, NextCases DEF Begin, Callback, Provision, Respond, CallbackFails, Logout,
                           PageReads, PageWrites, StateExpires, vars
  <2> QED  BY <2>1, <2>2, <2>3
<1>3. ASSUME NEW a \in DOMAIN answers
      PROVE  flows'[answers'[a].flow].idp = IdpOf(a) /\ UserKey(a)' = UserKey(a)
  <2>1. answers[a].flow \in DOMAIN flows
    BY DEF Known
  <2>2. flows'[answers'[a].flow].idp = IdpOf(a)
    BY <1>1, <1>2, <2>1 DEF IdpOf
  <2> QED  BY <1>2, <2>2 DEF UserKey, IdpOf
<1> QED  BY <1>1, <1>2, <1>3

-----------------------------------------------------------------------------
(* A login follows its flow. *)

\* The state cookie of a browser is of a flow it began.  A callback works for the
\* browser that began its flow, at the provider of that flow, with the state
\* compared if the protocol has one; once past the other checks, with an answer
\* to that flow.
Followed ==
  /\ \A b \in Browsers : stateCookie[b] # None => flows[stateCookie[b]].browser = b
  /\ \A c \in Callbacks : callback[c] # Idle =>
       /\ flows[callback[c].flow].browser = callback[c].browser
       /\ StateMatches(callback[c].flow, callback[c].answer)
       /\ callback[c].pc = "sign" => answers[callback[c].answer].flow = callback[c].flow
  /\ LoginFollowsItsFlow

\* What makes a login follow its flow is that the browser is the one of the state
\* cookie and that every kind of provider compares the flow somewhere.
THEOREM AlwaysFollowed == Spec => []Followed
<1>1. Init => Followed
  BY DEF Init, Followed, LoginFollowsItsFlow, Idle, None
<1>2. TypeOK /\ Known /\ Known' /\ Followed /\ [Next]_vars => Followed'
  <2> SUFFICES ASSUME TypeOK, Known, Known', Followed, [Next]_vars PROVE Followed'
    OBVIOUS
  <2>a. callback \in [Callbacks -> Local] /\ stateCookie \in [Browsers -> Nat]
    BY DEF TypeOK, Local
  <2>b. ASSUME NEW c \in Callbacks, callback[c] # Idle
        PROVE  /\ flows'[callback[c].flow] = flows[callback[c].flow]
               /\ answers'[callback[c].answer].flow = answers[callback[c].answer].flow
               /\ Kind[flows'[answers'[callback[c].answer].flow].idp] \in {"oidc", "oauth2"} =>
                    answers'[callback[c].answer].flow = callback[c].flow
    <3>1. callback[c].flow \in DOMAIN flows /\ callback[c].answer \in DOMAIN answers
      BY <2>b DEF Known
    <3>2. StateMatches(callback[c].flow, callback[c].answer)
      BY <2>b DEF Followed
    <3> QED  BY <3>1, <3>2, FactsStay DEF StateMatches
  <2>c. ASSUME NEW i \in DOMAIN logins
        PROVE  /\ answers'[logins[i].answer].flow = logins[i].flow
               /\ flows'[logins[i].flow].browser = logins[i].browser
    <3>1. logins[i].flow \in DOMAIN flows /\ logins[i].answer \in DOMAIN answers
      BY DEF Known
    <3> QED  BY <3>1, FactsStay DEF Followed, LoginFollowsItsFlow
  <2>d. ASSUME NEW c \in Callbacks, callback[c] # Idle
        PROVE  /\ flows[callback[c].flow].browser = callback[c].browser
               /\ callback[c].pc = "sign" => answers[callback[c].answer].flow = callback[c].flow
    BY <2>d DEF Followed
  <2>1. \A b \in Browsers : stateCookie'[b] # None => flows'[stateCookie'[b]].browser = b
    <3>1. ASSUME NEW b \in Browsers, NEW idp \in Idps, Begin(b, idp)
          PROVE  \A d \in Browsers : stateCookie'[d] # None => flows'[stateCookie'[d]].browser = d
      <4> DEFINE flow == [browser |-> b, idp |-> idp]
      <4>1. flow \in Flow /\ flow.browser = b
        BY DEF Flow
      <4>2. flows' = Append(flows, flow) /\ stateCookie' = [stateCookie EXCEPT ![b] = Len(flows) + 1]
        BY <3>1 DEF Begin
      <4> HIDE DEF flow
      <4>3. flows'[Len(flows) + 1] = flow
        BY <4>1, <4>2, AppendGrows DEF TypeOK
      <4> QED  BY <2>a, <4>1, <4>2, <4>3, FactsStay DEF Followed, Known
    <3>2. ASSUME \A b \in Browsers, idp \in Idps : ~Begin(b, idp)
          PROVE  \A d \in Browsers : stateCookie'[d] \in {stateCookie[d], None}
      <4>1. ASSUME NEW c \in Callbacks, Respond(c)
            PROVE  \A d \in Browsers : stateCookie'[d] \in {stateCookie[d], None}
        BY <2>a, <4>1 DEF Respond
      <4>2. (\A c \in Callbacks : ~Respond(c)) => UNCHANGED stateCookie
        BY <3>2, NextCases
           DEF ProviderAnswers, Callback, FetchToken, FetchUserinfo, Provision,
               CallbackFails, Logout, PageReads, PageWrites, StateExpires, vars, cookieVars
      <4> QED  BY <4>1, <4>2
    <3> QED  BY <3>1, <3>2, FactsStay DEF Followed, Known
  <2>2. ASSUME NEW d \in Callbacks, callback'[d] # Idle
        PROVE  /\ flows'[callback'[d].flow].browser = callback'[d].browser
               /\ StateMatches(callback[d].flow, callback[d].answer)'
               /\ callback'[d].pc = "sign" =>
                    answers'[callback'[d].answer].flow = callback'[d].flow
    <3> DEFINE Holds(q) == /\ flows'[q.flow].browser = q.browser
                           /\ Kind[flows'[answers'[q.answer].flow].idp] \in {"oidc", "oauth2"} =>
                                answers'[q.answer].flow = q.flow
                           /\ q.pc = "sign" => answers'[q.answer].flow = q.flow
    <3>1. ASSUME callback'[d] = callback[d]
          PROVE  Holds(callback'[d])
      <4>1. callback[d] # Idle
        BY <2>2, <3>1
      <4> QED  BY <2>b, <2>d, <3>1, <4>1, ZenonT(60)
    <3>2. ASSUME NEW b \in Browsers, NEW a \in DOMAIN answers, Callback(d, b, a)
          PROVE  Holds(callback'[d])
      <4>1. PICK q \in Fetching :
              /\ Goes(d, q)
              /\ q.pc \in {"fetch_token", "provision"}
              /\ q.browser = b /\ q.flow = stateCookie[b] /\ q.answer = a
        BY <3>2, OthersGo
      <4>2. callback'[d] = q
        BY <2>a, <4>1 DEF Goes
      <4>3. stateCookie[b] \in DOMAIN flows /\ flows[stateCookie[b]].browser = b
        BY <3>2 DEF Callback, StateAccepted, Known, Followed
      <4>4. StateMatches(stateCookie[b], a)
        BY <3>2 DEF Callback
      <4> QED  BY <4>1, <4>2, <4>3, <4>4, FactsStay DEF StateMatches
    <3>3. ASSUME FetchToken(d) \/ \E roles \in RoleSets : FetchUserinfo(d, roles)
          PROVE  Holds(callback'[d])
      <4>1. callback[d] # Idle
        BY <3>3, FetchGoes
      <4>2. PICK q \in Fetching :
              /\ Goes(d, q)
              /\ q.pc \in {"fetch_userinfo", "provision"}
              /\ q.browser = callback[d].browser /\ q.flow = callback[d].flow
              /\ q.answer = callback[d].answer
        BY <3>3, FetchGoes
      <4>3. callback'[d] = q
        BY <2>a, <4>2 DEF Goes
      <4> QED  BY <2>b, <2>d, <4>1, <4>2, <4>3
    <3>4. ASSUME Provision(d)
          PROVE  Holds(callback'[d])
      <4> DEFINE v == callback[d]
      <4>1. v # Idle /\ v.answer \in DOMAIN answers
        BY <3>4, OthersGo DEF Known
      <4>2. Upserted(v.answer) \in Principal
        BY <4>1, UpsertedFacts
      <4>3. PICK q \in Signing :
              /\ Goes(d, q)
              /\ q.browser = v.browser /\ q.flow = v.flow /\ q.answer = v.answer
        BY <3>4, <4>2, OthersGo
      <4>4. callback'[d] = q
        BY <2>a, <4>3 DEF Goes
      <4>5. Kind[IdpOf(v.answer)] \in {"oidc", "oauth2", "saml"}
        BY <4>1, IdpTyped, LoginAssumption
      <4>6. answers[v.answer].flow = v.flow
        BY <3>4, <4>1, <4>5 DEF Provision, ResponseMatches, Followed, StateMatches
      <4> QED  BY <2>b, <2>d, <4>1, <4>3, <4>4, <4>6
    <3>5. \/ callback'[d] = callback[d]
          \/ \E b \in Browsers, a \in DOMAIN answers : Callback(d, b, a)
          \/ FetchToken(d) \/ \E roles \in RoleSets : FetchUserinfo(d, roles)
          \/ Provision(d)
      BY <2>2, CallbackSteps
    <3>6. Holds(callback'[d])
      BY <3>1, <3>2, <3>3, <3>4, <3>5
    <3> QED  BY <3>6 DEF StateMatches, IdpOf
  <2>3. LoginFollowsItsFlow'
    <3>1. ASSUME NEW c \in Callbacks, Respond(c)
          PROVE  LoginFollowsItsFlow'
      <4> DEFINE v == callback[c]
      <4>1. v # Idle /\ v \in Signing /\ v.pc = "sign"
        BY <2>a, <3>1, PcTells DEF Respond, Idle
      <4>2. PICK login \in CallbackLogin :
              /\ logins' = Append(logins, login) /\ login.browser = v.browser
              /\ login.flow = v.flow /\ login.answer = v.answer
        BY <3>1, <4>1, LoginTyped
      <4>3. /\ DOMAIN logins' = DOMAIN logins \cup {Len(logins) + 1}
            /\ \A i \in DOMAIN logins : logins'[i] = logins[i]
            /\ logins'[Len(logins) + 1] = login
        BY <4>2, AppendGrows DEF TypeOK
      <4>4. /\ answers'[login.answer].flow = login.flow
            /\ flows'[login.flow].browser = login.browser
        BY <2>b, <2>d, <4>1, <4>2
      <4> QED  BY <2>c, <4>3, <4>4 DEF LoginFollowsItsFlow
    <3>2. ASSUME \A c \in Callbacks : ~Respond(c)
          PROVE  LoginFollowsItsFlow'
      <4>1. UNCHANGED logins
        BY <3>2, OnlyRespondCompletes
      <4> QED  BY <2>c, <4>1 DEF LoginFollowsItsFlow
    <3> QED  BY <3>1, <3>2
  <2> QED  BY <2>1, <2>2, <2>3 DEF Followed
<1>3. QED
  BY <1>1, <1>2, TypeCorrect, PTL DEF Spec

\* A browser is logged in only by an answer to a login that it began itself.
COROLLARY LoginIsOfItsFlow == Spec => []LoginFollowsItsFlow
<1>1. Followed => LoginFollowsItsFlow
  BY DEF Followed
<1> QED  BY <1>1, AlwaysFollowed, PTL

-----------------------------------------------------------------------------
(* The session cookies. *)

\* The cookies of a session come and go together.
SessionCookiesAgree == sessionCookie = csrfCookie

\* A page acts only in the session of the login whose CSRF value it read.
THEOREM PageActs == Spec => []PageActsForItsLogin
<1>1. Init => SessionCookiesAgree /\ PageActsForItsLogin
  BY DEF Init, SessionCookiesAgree, PageActsForItsLogin
<1>2. SessionCookiesAgree /\ PageActsForItsLogin /\ [Next]_vars
        => SessionCookiesAgree' /\ PageActsForItsLogin'
  <2> SUFFICES ASSUME SessionCookiesAgree, PageActsForItsLogin, [Next]_vars
               PROVE  SessionCookiesAgree' /\ PageActsForItsLogin'
    OBVIOUS
  <2>1. ASSUME NEW c \in Callbacks, Respond(c)
        PROVE  SessionCookiesAgree' /\ PageActsForItsLogin'
    BY <2>1 DEF Respond, SessionCookiesAgree, PageActsForItsLogin
  <2>2. ASSUME NEW b \in Browsers, Logout(b)
        PROVE  SessionCookiesAgree' /\ PageActsForItsLogin'
    BY <2>2 DEF Logout, SessionCookiesAgree, PageActsForItsLogin
  <2>3. ASSUME NEW b \in Browsers, PageWrites(b)
        PROVE  SessionCookiesAgree' /\ PageActsForItsLogin'
    BY <2>3 DEF PageWrites, CsrfEnforced, SessionCookiesAgree, PageActsForItsLogin, cookieVars
  <2>4. ASSUME \A c \in Callbacks : ~Respond(c),
               \A b \in Browsers : ~Logout(b) /\ ~PageWrites(b)
        PROVE  UNCHANGED <<sessionCookie, csrfCookie, acted>>
    BY <2>4, NextCases
       DEF Begin, ProviderAnswers, Callback, FetchToken, FetchUserinfo, Provision,
           CallbackFails, PageReads, StateExpires, vars, cookieVars
  <2> QED  BY <2>1, <2>2, <2>3, <2>4 DEF SessionCookiesAgree, PageActsForItsLogin
<1>3. QED
  BY <1>1, <1>2, PTL DEF Spec

-----------------------------------------------------------------------------
(* One principal per user. *)

\* Every user in the store has an id of its own, among the numbers drawn.
IdsApart ==
  /\ \A key \in DOMAIN users : users[key].id \in 1..Cardinality(DOMAIN users)
  /\ \A key, other \in DOMAIN users : users[key].id = users[other].id => key = other

\* The user of a callback or a login past the upsert is in the store, under the id
\* that was drawn for it and for no other user.
Registered ==
  /\ IdsApart
  /\ \A c \in Callbacks : callback[c].pc = "sign" =>
       /\ UserKey(callback[c].answer) \in DOMAIN users
       /\ users[UserKey(callback[c].answer)].id = callback[c].principal.id
  /\ \A i \in DOMAIN logins :
       /\ UserKey(logins[i].answer) \in DOMAIN users
       /\ users[UserKey(logins[i].answer)].id = logins[i].id

LEMMA OnlyProvisionRegisters ==
  ASSUME [Next]_vars, \A c \in Callbacks : ~Provision(c)
  PROVE  UNCHANGED users
BY NextCases DEF Begin, ProviderAnswers, Callback, FetchToken, FetchUserinfo, Respond,
                 CallbackFails, Logout, PageReads, PageWrites, StateExpires, vars

\* An upsert draws an id that no other user has, or keeps the one it finds.
LEMMA ProvisionRegisters ==
  ASSUME TypeOK, Known, IdsApart, NEW c \in Callbacks, Provision(c)
  PROVE  /\ IdsApart'
         /\ \A k \in DOMAIN users : k \in DOMAIN users' /\ users'[k].id = users[k].id
         /\ UserKey(callback[c].answer) \in DOMAIN users'
         /\ users'[UserKey(callback[c].answer)].id = Upserted(callback[c].answer).id
<1> DEFINE key == UserKey(callback[c].answer)
           user == Upserted(callback[c].answer)
           n == Cardinality(DOMAIN users)
<1>1. callback[c].answer \in DOMAIN answers
  BY OthersGo DEF Known
<1>2. user.id = IF key \in DOMAIN users THEN users[key].id ELSE n + 1
  BY <1>1, UpsertedFacts
<1>3. users' = [k \in DOMAIN users \cup {key} |-> IF k = key THEN user ELSE users[k]]
  BY DEF Provision
<1>4. n \in Nat
  BY FS_CardinalityType DEF Known
<1>5. Cardinality(DOMAIN users \cup {key}) = IF key \in DOMAIN users THEN n ELSE n + 1
  BY FS_AddElement DEF Known
<1> HIDE DEF key, user, n
<1>6. DOMAIN users' = DOMAIN users \cup {key}
  BY <1>3
<1>7. \A k \in DOMAIN users : users'[k].id = users[k].id
  BY <1>2, <1>3
<1>8. users'[key].id = user.id
  BY <1>3
<1>9. IdsApart'
  <2>1. CASE key \in DOMAIN users
    <3>1. DOMAIN users' = DOMAIN users
      BY <1>6, <2>1
    <3> QED  BY <1>7, <3>1 DEF IdsApart
  <2>2. CASE key \notin DOMAIN users
    <3>1. \A k \in DOMAIN users : users[k].id \in 1..n
      BY DEF IdsApart, n
    <3>2. Cardinality(DOMAIN users') = n + 1
      BY <1>5, <1>6, <2>2
    <3>3. users'[key].id = n + 1
      BY <1>2, <1>8, <2>2
    <3>4. \A k \in DOMAIN users' : users'[k].id \in 1..Cardinality(DOMAIN users')
      BY <1>4, <1>6, <1>7, <3>1, <3>2, <3>3
    <3>5. ASSUME NEW k \in DOMAIN users', NEW other \in DOMAIN users',
                 users'[k].id = users'[other].id
          PROVE  k = other
      <4>1. k \in DOMAIN users /\ other \in DOMAIN users => k = other
        BY <1>7, <3>5 DEF IdsApart
      <4>2. \A j \in DOMAIN users : users'[j].id # n + 1
        BY <1>4, <1>7, <3>1
      <4> QED  BY <1>6, <3>3, <3>5, <4>1, <4>2
    <3> QED  BY <3>4, <3>5 DEF IdsApart
  <2> QED  BY <2>1, <2>2
<1> QED  BY <1>6, <1>7, <1>8, <1>9 DEF key, user

\* Whoever is registered stays, under the same id.
LEMMA IdsStay ==
  ASSUME TypeOK, Known, IdsApart, [Next]_vars
  PROVE  /\ IdsApart'
         /\ \A k \in DOMAIN users : k \in DOMAIN users' /\ users'[k].id = users[k].id
<1>1. CASE \E c \in Callbacks : Provision(c)
  BY <1>1, ProvisionRegisters
<1>2. CASE \A c \in Callbacks : ~Provision(c)
  <2>1. UNCHANGED users
    BY <1>2, OnlyProvisionRegisters
  <2> QED  BY <2>1 DEF IdsApart
<1> QED  BY <1>1, <1>2

\* The key of an answer, read after the step.
LEMMA KeyStays ==
  ASSUME TypeOK, Known, [Next]_vars
  PROVE  /\ \A d \in Callbacks : callback'[d].answer \in DOMAIN answers =>
              UserKey(callback[d].answer)' = UserKey(callback'[d].answer)
         /\ \A i \in DOMAIN logins' : logins'[i].answer \in DOMAIN answers =>
              UserKey(logins[i].answer)' = UserKey(logins'[i].answer)
<1>1. \A a \in DOMAIN answers :
        <<Tenant[flows'[answers'[a].flow].idp], answers'[a].subject>> = UserKey(a)
  BY FactsStay DEF UserKey, IdpOf
<1> QED  BY <1>1 DEF UserKey, IdpOf

\* What is registered, whatever callbacks are under way.
THEOREM AlwaysRegistered == Spec => []Registered
<1>1. Init => Registered
  BY DEF Init, Registered, IdsApart, Idle
<1>2. TypeOK /\ Known /\ Registered /\ [Next]_vars => Registered'
  <2> SUFFICES ASSUME TypeOK, Known, Registered, [Next]_vars PROVE Registered'
    OBVIOUS
  <2>a. callback \in [Callbacks -> Local]
    BY DEF TypeOK, Local
  <2>b. IdsApart
    BY DEF Registered
  <2>1. /\ IdsApart'
        /\ \A k \in DOMAIN users : k \in DOMAIN users' /\ users'[k].id = users[k].id
    BY <2>b, IdsStay
  <2>2. ASSUME NEW d \in Callbacks, callback'[d].pc = "sign"
        PROVE  /\ UserKey(callback[d].answer)' \in DOMAIN users'
               /\ users'[UserKey(callback[d].answer)'].id = callback'[d].principal.id
    <3> DEFINE Holds(a, id) == /\ UserKey(a) \in DOMAIN users'
                               /\ users'[UserKey(a)].id = id
    <3>1. callback'[d] # Idle
      BY <2>2 DEF Idle
    <3>2. CASE callback'[d] = callback[d]
      <4>1. callback[d].answer \in DOMAIN answers
        BY <3>1, <3>2 DEF Known
      <4>2. Holds(callback[d].answer, callback[d].principal.id)
        BY <2>1, <2>2, <3>2 DEF Registered
      <4>3. Holds(callback'[d].answer, callback'[d].principal.id)
        BY <3>2, <4>2
      <4> QED  BY <3>2, <4>1, <4>3, KeyStays
    <3>3. CASE Provision(d)
      <4>1. callback[d].answer \in DOMAIN answers /\ callback[d] # Idle
        BY <3>3, OthersGo DEF Known
      <4>2. PICK q \in Signing :
              /\ Goes(d, q) /\ q.answer = callback[d].answer
              /\ q.principal = Upserted(callback[d].answer)
        BY <3>3, <4>1, UpsertedFacts, OthersGo
      <4>3. callback'[d] = q
        BY <2>a, <4>2 DEF Goes
      <4>4. Holds(callback[d].answer, Upserted(callback[d].answer).id)
        BY <2>b, <3>3, ProvisionRegisters
      <4>5. Holds(callback'[d].answer, callback'[d].principal.id)
        BY <4>2, <4>3, <4>4
      <4> QED  BY <4>1, <4>2, <4>3, <4>5, KeyStays
    <3>4. ~ \E b \in Browsers, a \in DOMAIN answers : Callback(d, b, a)
      BY <2>a, <2>2, OthersGo DEF Goes
    <3>5. ~ (FetchToken(d) \/ \E roles \in RoleSets : FetchUserinfo(d, roles))
      BY <2>a, <2>2, FetchGoes DEF Goes
    <3> QED  BY <3>1, <3>2, <3>3, <3>4, <3>5, CallbackSteps
  <2>3. ASSUME NEW i \in DOMAIN logins'
        PROVE  /\ UserKey(logins[i].answer)' \in DOMAIN users'
               /\ users'[UserKey(logins[i].answer)'].id = logins'[i].id
    <3>1. CASE i \in DOMAIN logins /\ logins'[i] = logins[i]
      <4>1. logins[i].answer \in DOMAIN answers
        BY <3>1 DEF Known
      <4> QED  BY <2>1, <3>1, <4>1, KeyStays DEF Registered
    <3>2. ASSUME NEW c \in Callbacks, callback[c] \in Signing, callback[c].pc = "sign",
                 callback[c] # Idle,
                 logins'[i].answer = callback[c].answer,
                 logins'[i].id = callback[c].principal.id
          PROVE  /\ UserKey(logins[i].answer)' \in DOMAIN users'
                 /\ users'[UserKey(logins[i].answer)'].id = logins'[i].id
      <4>1. callback[c].answer \in DOMAIN answers
        BY <3>2 DEF Known
      <4> QED  BY <2>1, <3>2, <4>1, KeyStays DEF Registered
    <3> QED  BY <3>1, <3>2, LoginSteps
  <2> QED  BY <2>1, <2>2, <2>3 DEF Registered
<1>3. QED
  BY <1>1, <1>2, TypeCorrect, PTL DEF Spec

\* However callbacks race, fail and come again, one user of one tenant has one
\* principal, and no two users share one.
COROLLARY OnePrincipal == Spec => []OnePrincipalPerUser
<1>1. Known /\ Followed /\ Registered => OnePrincipalPerUser
  <2> SUFFICES ASSUME Known, Followed, Registered PROVE OnePrincipalPerUser
    OBVIOUS
  <2>1. ASSUME NEW i \in DOMAIN logins
        PROVE  UserOf(logins[i]) = UserKey(logins[i].answer)
    BY DEF Followed, LoginFollowsItsFlow, UserOf, UserKey, IdpOf
  <2> QED  BY <2>1 DEF Registered, IdsApart, OnePrincipalPerUser
<1> QED  BY <1>1, AlwaysFollowed, AlwaysRegistered, TypeCorrect, PTL

-----------------------------------------------------------------------------
(* The roles of a login. *)

\* A callback whose answer has a code has had it exchanged.
Exchanged(c) ==
  /\ callback[c].pc \in {"fetch_userinfo", "provision", "sign"}
  /\ Kind[IdpOf(callback[c].answer)] # "saml"

\* The userinfo of an answer is fetched after its code was exchanged, once.
UserinfoOnce ==
  /\ \A a \in DOMAIN answers :
       /\ answers[a].userinfo = {} \/ \E roles \in RoleSets : answers[a].userinfo = {roles}
       /\ a \notin redeemed => answers[a].userinfo = {}
  /\ \A c \in Callbacks : callback[c].pc = "fetch_userinfo" =>
       /\ IdpOf(callback[c].answer) \in UserinfoIdps
       /\ answers[callback[c].answer].userinfo = {}

\* An exchanged answer belongs to one callback, or to the login it ended in, so
\* that nothing is fetched for it any more.
OneHandler ==
  /\ \A c \in Callbacks : Exchanged(c) => callback[c].answer \in redeemed
  /\ \A c, d \in Callbacks : Exchanged(c) /\ Exchanged(d) =>
       c = d \/ callback[c].answer # callback[d].answer
  /\ \A i \in DOMAIN logins : Kind[IdpOf(logins[i].answer)] # "saml" =>
       /\ logins[i].answer \in redeemed
       /\ \A c \in Callbacks : Exchanged(c) => callback[c].answer # logins[i].answer

\* A callback that fetches the userinfo is past the exchange.
LEMMA FetchingIsExchanged ==
  ASSUME UserinfoOnce, NEW c \in Callbacks, callback[c].pc = "fetch_userinfo"
  PROVE  Exchanged(c)
BY LoginAssumption DEF UserinfoOnce, Exchanged

LEMMA FetchPc ==
  ASSUME NEW c \in Callbacks
  PROVE  /\ FetchToken(c) => callback[c].pc = "fetch_token"
         /\ \A roles : FetchUserinfo(c, roles) => callback[c].pc = "fetch_userinfo"
         /\ Provision(c) => callback[c].pc = "provision"
BY DEF FetchToken, FetchUserinfo, Provision

\* Exchanged is what a callback becomes by the exchange of its code, and stays.
LEMMA ExchangedSteps ==
  ASSUME TypeOK, Known, UserinfoOnce, [Next]_vars, NEW d \in Callbacks, Exchanged(d)'
  PROVE  /\ callback[d] # Idle
         /\ callback'[d].answer = callback[d].answer
         /\ Exchanged(d) \/ FetchToken(d)
<1>a. callback \in [Callbacks -> Local]
  BY DEF TypeOK, Local
<1>b. callback'[d] # Idle /\ callback'[d].pc \in {"fetch_userinfo", "provision", "sign"}
  BY DEF Exchanged, Idle
<1>c. Kind[flows'[answers'[callback'[d].answer].flow].idp] # "saml"
  BY DEF Exchanged, IdpOf
<1>1. CASE callback'[d] = callback[d]
  <2>1. callback[d].answer \in DOMAIN answers
    BY <1>b, <1>1 DEF Known
  <2>2. Kind[IdpOf(callback[d].answer)] # "saml"
    BY <1>c, <1>1, <2>1, FactsStay
  <2> QED  BY <1>b, <1>1, <2>2 DEF Exchanged
<1>2. ASSUME NEW b \in Browsers, NEW a \in DOMAIN answers, Callback(d, b, a)
      PROVE  FALSE
  <2>1. callback'[d].pc = IF Kind[IdpOf(a)] = "saml" THEN "provision" ELSE "fetch_token"
    BY <1>a, <1>2 DEF Callback
  <2>2. callback'[d].answer = a
    BY <1>a, <1>2 DEF Callback
  <2>3. Kind[IdpOf(a)] # "saml"
    BY <1>c, <2>2, FactsStay
  <2> QED  BY <1>b, <2>1, <2>3
<1>3. CASE FetchToken(d)
  BY <1>a, <1>3, FetchGoes DEF Goes
<1>4. CASE \E roles \in RoleSets : FetchUserinfo(d, roles)
  <2>1. callback[d] # Idle /\ callback'[d].answer = callback[d].answer
    BY <1>a, <1>4, FetchGoes DEF Goes
  <2>2. Exchanged(d)
    BY <1>4, FetchPc, FetchingIsExchanged
  <2> QED  BY <2>1, <2>2
<1>5. CASE Provision(d)
  <2>1. callback[d] # Idle /\ callback[d].answer \in DOMAIN answers
    BY <1>5, OthersGo DEF Known
  <2>2. callback'[d].answer = callback[d].answer
    BY <1>a, <1>5, <2>1, UpsertedFacts, OthersGo DEF Goes
  <2>3. Kind[IdpOf(callback[d].answer)] # "saml"
    BY <1>c, <2>1, <2>2, FactsStay
  <2> QED  BY <1>5, <2>1, <2>2, <2>3, FetchPc DEF Exchanged
<1> QED  BY <1>b, <1>1, <1>2, <1>3, <1>4, <1>5, CallbackSteps

\* What becomes of the answers and of the exchanged codes.
LEMMA AnswerSteps ==
  ASSUME TypeOK, Known, [Next]_vars
  PROVE  /\ redeemed \subseteq redeemed'
         /\ \A a \in DOMAIN answers' :
              \/ a \in DOMAIN answers /\ answers'[a] = answers[a]
              \/ a \notin DOMAIN answers /\ answers'[a].userinfo = {}
              \/ \E c \in Callbacks, roles \in RoleSets :
                   /\ FetchUserinfo(c, roles)
                   /\ a \in DOMAIN answers /\ a = callback[c].answer
                   /\ answers'[a].userinfo = {roles}
<1>1. ASSUME NEW n \in DOMAIN flows, NEW subject \in Subjects, NEW claim \in Claims(RoleSets),
             ProviderAnswers(n, subject, claim), NEW a \in DOMAIN answers'
      PROVE  \/ a \in DOMAIN answers /\ answers'[a] = answers[a]
             \/ a \notin DOMAIN answers /\ answers'[a].userinfo = {}
  <2> DEFINE said == [flow |-> n, subject |-> subject, claim |-> claim, userinfo |-> {}]
  <2>1. answers' = Append(answers, said) /\ said.userinfo = {}
    BY <1>1 DEF ProviderAnswers
  <2>2. said \in Answer
    BY AnswerTyped
  <2> HIDE DEF said
  <2>3. /\ DOMAIN answers' = DOMAIN answers \cup {Len(answers) + 1}
        /\ Len(answers) + 1 \notin DOMAIN answers
        /\ \A i \in DOMAIN answers : answers'[i] = answers[i]
        /\ answers'[Len(answers) + 1] = said
    BY <2>1, <2>2, AppendGrows DEF TypeOK
  <2> QED  BY <2>1, <2>3
<1>2. ASSUME NEW c \in Callbacks, NEW roles \in RoleSets, FetchUserinfo(c, roles),
             NEW a \in DOMAIN answers'
      PROVE  \/ a \in DOMAIN answers /\ answers'[a] = answers[a]
             \/ /\ a \in DOMAIN answers /\ a = callback[c].answer
                /\ answers'[a].userinfo = {roles}
  <2>1. callback[c] # Idle
    BY <1>2, FetchGoes
  <2>2. DOMAIN answers' = DOMAIN answers
    BY <1>2, <2>1, FetchKeeps
  <2>3. a # callback[c].answer => answers'[a] = answers[a]
    BY <1>2, <2>1, <2>2, FetchKeeps
  <2>4. answers'[callback[c].answer].userinfo = {roles}
    <3>1. callback[c].answer \in DOMAIN answers
      BY <2>1 DEF Known
    <3>2. answers[callback[c].answer] \in Answer
      BY <3>1 DEF TypeOK
    <3> QED  BY <1>2, <3>1, <3>2 DEF FetchUserinfo, Answer
  <2> QED  BY <2>2, <2>3, <2>4
<1>3. ASSUME \A n \in DOMAIN flows, subject \in Subjects, claim \in Claims(RoleSets) :
               ~ProviderAnswers(n, subject, claim),
             \A c \in Callbacks, roles \in RoleSets : ~FetchUserinfo(c, roles)
      PROVE  UNCHANGED answers
  BY <1>3, NextCases
     DEF Begin, Callback, FetchToken, Provision, Respond, CallbackFails, Logout,
         PageReads, PageWrites, StateExpires, vars
<1>4. redeemed \subseteq redeemed'
  BY NextCases
     DEF Begin, ProviderAnswers, Callback, FetchToken, FetchUserinfo, Provision, Respond,
         CallbackFails, Logout, PageReads, PageWrites, StateExpires, vars
<1> QED  BY <1>1, <1>2, <1>3, <1>4

\* Nothing is fetched for an answer that another callback has had exchanged, or
\* that a login ended with.
THEOREM AlwaysOneHandler == Spec => [](UserinfoOnce /\ OneHandler)
<1>1. Init => UserinfoOnce /\ OneHandler
  BY DEF Init, UserinfoOnce, OneHandler, Exchanged, Idle
<1>2. TypeOK /\ Known /\ UserinfoOnce /\ OneHandler /\ [Next]_vars
        => UserinfoOnce' /\ OneHandler'
  <2> SUFFICES ASSUME TypeOK, Known, UserinfoOnce, OneHandler, [Next]_vars
               PROVE  UserinfoOnce' /\ OneHandler'
    OBVIOUS
  <2>a. callback \in [Callbacks -> Local]
    BY DEF TypeOK, Local
  <2>b. ASSUME NEW d \in Callbacks, FetchToken(d)
        PROVE  /\ callback[d].answer \notin redeemed
               /\ callback[d].answer \in redeemed'
               /\ \A c \in Callbacks : c # d => callback'[c] = callback[c]
               /\ UNCHANGED answers
    BY <2>a, <2>b DEF FetchToken
  <2>1. ASSUME NEW a \in DOMAIN answers'
        PROVE  /\ \/ answers'[a].userinfo = {}
                  \/ \E roles \in RoleSets : answers'[a].userinfo = {roles}
               /\ a \notin redeemed' => answers'[a].userinfo = {}
    <3>1. CASE a \in DOMAIN answers /\ answers'[a] = answers[a]
      BY <3>1, AnswerSteps DEF UserinfoOnce
    <3>2. ASSUME NEW c \in Callbacks, NEW roles \in RoleSets, FetchUserinfo(c, roles),
                 a = callback[c].answer, answers'[a].userinfo = {roles}
          PROVE  /\ \/ answers'[a].userinfo = {}
                    \/ \E r \in RoleSets : answers'[a].userinfo = {r}
                 /\ a \notin redeemed' => answers'[a].userinfo = {}
      <4>1. Exchanged(c)
        BY <3>2, FetchPc, FetchingIsExchanged
      <4>2. a \in redeemed'
        BY <3>2, <4>1, AnswerSteps DEF OneHandler
      <4> QED  BY <3>2, <4>2
    <3> QED  BY <3>1, <3>2, AnswerSteps
  <2>2. ASSUME NEW d \in Callbacks, callback'[d].pc = "fetch_userinfo"
        PROVE  /\ flows'[answers'[callback'[d].answer].flow].idp \in UserinfoIdps
               /\ answers'[callback'[d].answer].userinfo = {}
    <3>1. CASE callback'[d] = callback[d]
      <4>1. callback[d].answer \in DOMAIN answers
        BY <2>2, <3>1 DEF Known, Idle
      <4>2. Exchanged(d) /\ IdpOf(callback[d].answer) \in UserinfoIdps
        BY <2>2, <3>1, FetchingIsExchanged DEF UserinfoOnce
      <4>3. answers'[callback[d].answer] = answers[callback[d].answer]
        <5>1. SUFFICES ASSUME NEW c \in Callbacks, NEW roles \in RoleSets,
                              FetchUserinfo(c, roles), callback[d].answer = callback[c].answer
                       PROVE  FALSE
          BY <4>1, FactsStay, AnswerSteps
        <5>2. Exchanged(c)
          BY <5>1, FetchPc, FetchingIsExchanged
        <5>3. c = d
          BY <4>2, <5>1, <5>2 DEF OneHandler
        <5> QED  BY <2>2, <2>a, <5>1, <5>3 DEF FetchUserinfo, Local
      <4> QED  BY <2>2, <3>1, <4>1, <4>2, <4>3, FactsStay DEF UserinfoOnce
    <3>2. CASE FetchToken(d)
      <4>1. callback[d] # Idle
        BY <3>2, FetchGoes
      <4>2. callback'[d].answer = callback[d].answer /\ IdpOf(callback[d].answer) \in UserinfoIdps
        BY <2>2, <2>a, <3>2, FetchGoes DEF Goes
      <4>3. callback[d].answer \in DOMAIN answers
        BY <4>1 DEF Known
      <4> QED  BY <2>b, <3>2, <4>2, <4>3, FactsStay DEF UserinfoOnce
    <3>3. CASE callback'[d] # callback[d] /\ ~FetchToken(d)
      <4>1. callback'[d] # Idle
        BY <2>2 DEF Idle
      <4>2. ~ \E b \in Browsers, a \in DOMAIN answers : Callback(d, b, a)
        BY <2>a, <2>2, OthersGo DEF Goes
      <4>3. ~ \E roles \in RoleSets : FetchUserinfo(d, roles)
        BY <2>2, <2>a, <3>3, FetchGoes DEF Goes
      <4>4. ~ Provision(d)
        BY <2>2, <2>a DEF Provision
      <4> QED  BY <3>3, <4>1, <4>2, <4>3, <4>4, CallbackSteps
    <3> QED  BY <3>1, <3>2, <3>3
  <2>3. UserinfoOnce'
    BY <2>1, <2>2 DEF UserinfoOnce, IdpOf
  <2>4. ASSUME NEW d \in Callbacks, Exchanged(d)'
        PROVE  callback'[d].answer \in redeemed'
    BY <2>4, <2>b, ExchangedSteps, AnswerSteps DEF OneHandler
  <2>5. ASSUME NEW c \in Callbacks, NEW d \in Callbacks, Exchanged(c)', Exchanged(d)', c # d
        PROVE  callback'[c].answer # callback'[d].answer
    <3>1. /\ callback'[c].answer = callback[c].answer /\ (Exchanged(c) \/ FetchToken(c))
          /\ callback'[d].answer = callback[d].answer /\ (Exchanged(d) \/ FetchToken(d))
      BY <2>5, ExchangedSteps
    <3>2. ~ (FetchToken(c) /\ FetchToken(d))
      <4>1. SUFFICES ASSUME FetchToken(c), FetchToken(d) PROVE FALSE
        OBVIOUS
      <4>2. callback'[c].pc = "fetch_token"
        BY <2>b, <2>5, <4>1, FetchPc
      <4> QED  BY <2>5, <4>2 DEF Exchanged
    <3> QED  BY <2>b, <2>5, <3>1, <3>2 DEF OneHandler
  <2>6. ASSUME NEW i \in DOMAIN logins',
               Kind[flows'[answers'[logins'[i].answer].flow].idp] # "saml"
        PROVE  /\ logins'[i].answer \in redeemed'
               /\ \A c \in Callbacks : Exchanged(c)' => callback'[c].answer # logins'[i].answer
    <3>1. CASE i \in DOMAIN logins /\ logins'[i] = logins[i]
      <4>1. logins[i].answer \in DOMAIN answers
        BY <3>1 DEF Known
      <4>2. Kind[IdpOf(logins[i].answer)] # "saml"
        BY <2>6, <3>1, <4>1, FactsStay
      <4>3. logins[i].answer \in redeemed
        BY <3>1, <4>2 DEF OneHandler
      <4>4. \A c \in Callbacks : Exchanged(c) => callback[c].answer # logins[i].answer
        BY <3>1, <4>2 DEF OneHandler
      <4>5. ASSUME NEW c \in Callbacks, Exchanged(c)'
            PROVE  callback'[c].answer # logins[i].answer
        BY <2>b, <4>3, <4>4, <4>5, ExchangedSteps
      <4> QED  BY <3>1, <4>3, <4>5, AnswerSteps
    <3>2. ASSUME NEW c \in Callbacks, callback[c].pc = "sign", callback[c] # Idle,
                 Respond(c), logins'[i].answer = callback[c].answer
          PROVE  /\ logins'[i].answer \in redeemed'
                 /\ \A d \in Callbacks : Exchanged(d)' => callback'[d].answer # logins'[i].answer
      <4>1. callback[c].answer \in DOMAIN answers
        BY <3>2 DEF Known
      <4>2. Kind[IdpOf(callback[c].answer)] # "saml"
        BY <2>6, <3>2, <4>1, FactsStay
      <4>3. Exchanged(c) /\ callback[c].answer \in redeemed
        BY <3>2, <4>2 DEF Exchanged, OneHandler
      <4>4. callback'[c] = Idle
        BY <2>a, <3>2 DEF Respond
      <4>5. ASSUME NEW d \in Callbacks, Exchanged(d)'
            PROVE  callback'[d].answer # logins'[i].answer
        <5>1. d # c
          BY <4>4, <4>5 DEF Exchanged, Idle
        <5> QED  BY <2>b, <3>2, <4>3, <4>5, <5>1, ExchangedSteps DEF OneHandler
      <4> QED  BY <3>2, <4>3, <4>5, AnswerSteps
    <3> QED  BY <3>1, <3>2, LoginSteps
  <2>7. OneHandler'
    BY <2>4, <2>5, <2>6 DEF OneHandler, IdpOf
  <2> QED  BY <2>3, <2>7
<1>3. QED
  BY <1>1, <1>2, TypeCorrect, PTL DEF Spec

\* roles are those that a login with answer a may have.
RolesFor(a, roles) ==
  /\ UNION answers[a].claim # {} => roles \in answers[a].claim
  /\ answers[a].claim = {} /\ UNION answers[a].userinfo # {} => roles \in answers[a].userinfo
  /\ roles # {} => roles \in NamedFor(UserKey(a))

\* The roles of a user were named for that user; those of a callback past the
\* upsert and of a login are the ones of their answer, or such.
RolesNamed ==
  /\ \A key \in DOMAIN users : users[key].roles # {} => users[key].roles \in NamedFor(key)
  /\ \A c \in Callbacks : callback[c].pc = "sign" =>
       RolesFor(callback[c].answer, callback[c].principal.roles)
  /\ \A i \in DOMAIN logins : RolesFor(logins[i].answer, logins[i].roles)

\* NamedFor, element by element.
LEMMA NamedForIs ==
  \A key, r : r \in NamedFor(key) <=>
    \E a \in DOMAIN answers : UserKey(a) = key /\ r \in NamedBy(a)
BY DEF NamedFor, UserKey

\* No step takes back what was named, and an answer that a callback past the
\* upsert or a login rests on stays as it is.
LEMMA AnswersRest ==
  ASSUME TypeOK, Known, UserinfoOnce, OneHandler, [Next]_vars
  PROVE  /\ \A a \in DOMAIN answers :
              answers'[a].userinfo = answers[a].userinfo \/ answers[a].userinfo = {}
         /\ \A c \in Callbacks : callback[c].pc = "sign" =>
              answers'[callback[c].answer] = answers[callback[c].answer]
         /\ \A i \in DOMAIN logins :
              answers'[logins[i].answer] = answers[logins[i].answer]
<1>1. ASSUME NEW a \in DOMAIN answers, answers'[a] # answers[a]
      PROVE  \E c \in Callbacks : /\ callback[c].pc = "fetch_userinfo"
                                  /\ Exchanged(c)
                                  /\ a = callback[c].answer
  <2>1. a \in DOMAIN answers'
    BY FactsStay
  <2> QED  BY <1>1, <2>1, AnswerSteps, FetchPc, FetchingIsExchanged
<1>2. \A a \in DOMAIN answers : answers'[a] = answers[a] \/ answers[a].userinfo = {}
  BY <1>1 DEF UserinfoOnce
<1>3. ASSUME NEW c \in Callbacks, callback[c].pc = "sign"
      PROVE  answers'[callback[c].answer] = answers[callback[c].answer]
  <2>1. callback[c].answer \in DOMAIN answers
    BY <1>3 DEF Known, Idle
  <2>2. SUFFICES ASSUME NEW d \in Callbacks, callback[d].pc = "fetch_userinfo", Exchanged(d),
                        callback[c].answer = callback[d].answer
                 PROVE  FALSE
    BY <1>1, <2>1
  <2>3. Exchanged(c)
    BY <1>3, <2>2 DEF Exchanged
  <2> QED  BY <1>3, <2>2, <2>3 DEF OneHandler
<1>4. ASSUME NEW i \in DOMAIN logins
      PROVE  answers'[logins[i].answer] = answers[logins[i].answer]
  <2>1. logins[i].answer \in DOMAIN answers
    BY DEF Known
  <2>2. SUFFICES ASSUME NEW d \in Callbacks, Exchanged(d),
                        logins[i].answer = callback[d].answer
                 PROVE  FALSE
    BY <1>1, <2>1
  <2>3. Kind[IdpOf(logins[i].answer)] # "saml"
    BY <2>2 DEF Exchanged
  <2> QED  BY <2>2, <2>3 DEF OneHandler
<1> QED  BY <1>2, <1>3, <1>4

LEMMA NamedForGrows ==
  ASSUME TypeOK, Known, UserinfoOnce, OneHandler, [Next]_vars
  PROVE  \A key, r : r \in NamedFor(key) => r \in NamedFor(key)'
<1> SUFFICES ASSUME NEW key, NEW r, r \in NamedFor(key) PROVE r \in NamedFor(key)'
  OBVIOUS
<1>1. PICK a \in DOMAIN answers :
        UserKey(a) = key /\ r \in NamedBy(a)
  BY NamedForIs
<1>2. a \in DOMAIN answers' /\ answers'[a].claim = answers[a].claim
  BY FactsStay
<1>3. r \in NamedBy(a)'
  BY <1>1, <1>2, AnswersRest DEF NamedBy
<1>4. <<Tenant[flows'[answers'[a].flow].idp], answers'[a].subject>> = key
  BY <1>1, FactsStay DEF UserKey, IdpOf
<1> QED  BY <1>2, <1>3, <1>4 DEF NamedFor, IdpOf

\* The upsert ends with roles that the answer allows.
LEMMA UpsertedRoles ==
  ASSUME TypeOK, Known, UserinfoOnce, RolesNamed, NEW a \in DOMAIN answers
  PROVE  RolesFor(a, Upserted(a).roles)
<1> DEFINE said == answers[a]
           roles == Upserted(a).roles
<1>1. roles = IF UserKey(a) \in DOMAIN users /\ ClaimedRoles(a) = {}
              THEN users[UserKey(a)].roles ELSE ClaimedRoles(a)
  BY UpsertedFacts
<1>2. /\ said.claim = {} \/ \E r : said.claim = {r}
      /\ said.userinfo = {} \/ \E r : said.userinfo = {r}
  <2>1. said \in Answer
    BY DEF TypeOK
  <2> QED  BY <2>1 DEF Answer, Claims
<1>3. ASSUME said.claim = {} => UNION said.userinfo = {}, UNION said.claim = {}
      PROVE  RolesFor(a, roles)
  <2>1. ClaimedRoles(a) = {}
    BY <1>3 DEF ClaimedRoles, AsList
  <2>2. roles # {} => roles \in NamedFor(UserKey(a))
    BY <1>1, <2>1 DEF RolesNamed
  <2> QED  BY <1>3, <2>2 DEF RolesFor
<1>4. ASSUME UNION said.claim # {}
      PROVE  RolesFor(a, roles)
  <2>1. PICK r : said.claim = {r}
    BY <1>2, <1>4
  <2>2. ClaimedRoles(a) = r /\ r # {}
    BY <1>4, <2>1 DEF ClaimedRoles, AsList
  <2>3. roles = r /\ r \in NamedFor(UserKey(a))
    BY <1>1, <2>1, <2>2, NamedForIs DEF NamedBy
  <2> QED  BY <2>1, <2>3 DEF RolesFor
<1>5. ASSUME said.claim = {}, UNION said.userinfo # {}
      PROVE  RolesFor(a, roles)
  <2>1. PICK r : said.userinfo = {r}
    BY <1>2, <1>5
  <2>2. ClaimedRoles(a) = r /\ r # {}
    BY <1>5, <2>1 DEF ClaimedRoles, AsList
  <2>3. roles = r /\ r \in NamedFor(UserKey(a))
    BY <1>1, <1>5, <2>1, <2>2, NamedForIs DEF NamedBy
  <2>4. UNION said.claim = {}
    BY <1>5
  <2> QED  BY <1>5, <2>1, <2>3, <2>4 DEF RolesFor
<1> QED  BY <1>3, <1>4, <1>5

\* What roles an answer allows, it goes on to allow.
LEMMA RolesForStays ==
  ASSUME TypeOK, Known, UserinfoOnce, OneHandler, [Next]_vars,
         NEW a \in DOMAIN answers, answers'[a] = answers[a], NEW roles, RolesFor(a, roles)
  PROVE  RolesFor(a, roles)'
<1>1. UserKey(a)' = UserKey(a)
  BY FactsStay
<1>2. roles # {} => roles \in NamedFor(UserKey(a))'
  <2>1. roles # {} => roles \in NamedFor(UserKey(a))
    BY DEF RolesFor
  <2> DEFINE key == UserKey(a)
  <2>2. \A k : k = key => (roles # {} => roles \in NamedFor(k)')
    BY <2>1, NamedForGrows
  <2> QED  BY <1>1, <2>2 DEF NamedFor
<1> QED  BY <1>2 DEF RolesFor

\* The roles of every login, callback and user are named by the answers.
THEOREM AlwaysRolesNamed == Spec => []RolesNamed
<1>1. Init => RolesNamed
  BY DEF Init, RolesNamed, Idle
<1>2. TypeOK /\ Known /\ UserinfoOnce /\ OneHandler /\ RolesNamed /\ [Next]_vars => RolesNamed'
  <2> SUFFICES ASSUME TypeOK, Known, UserinfoOnce, OneHandler, RolesNamed, [Next]_vars
               PROVE  RolesNamed'
    OBVIOUS
  <2>a. callback \in [Callbacks -> Local]
    BY DEF TypeOK, Local
  <2>1. ASSUME NEW key \in DOMAIN users', users'[key].roles # {}
        PROVE  users'[key].roles \in NamedFor(key)'
    <3>1. ASSUME NEW c \in Callbacks, Provision(c)
          PROVE  users'[key].roles \in NamedFor(key)
      <4> DEFINE a == callback[c].answer
      <4>1. a \in DOMAIN answers
        BY <3>1, OthersGo DEF Known
      <4>2. users' = [k \in DOMAIN users \cup {UserKey(a)} |->
                        IF k = UserKey(a) THEN Upserted(a) ELSE users[k]]
        BY <3>1 DEF Provision
      <4>3. RolesFor(a, Upserted(a).roles)
        BY <4>1, UpsertedRoles
      <4> HIDE DEF a
      <4>4. CASE key = UserKey(a)
        <5>1. users'[key] = Upserted(a)
          BY <4>2, <4>4
        <5> QED  BY <2>1, <4>3, <4>4, <5>1 DEF RolesFor
      <4>5. CASE key # UserKey(a)
        BY <2>1, <4>2, <4>5 DEF RolesNamed
      <4> QED  BY <4>4, <4>5
    <3>2. ASSUME \A c \in Callbacks : ~Provision(c)
          PROVE  users'[key].roles \in NamedFor(key)
      BY <2>1, <3>2, OnlyProvisionRegisters DEF RolesNamed
    <3> QED  BY <3>1, <3>2, NamedForGrows
  <2>2. ASSUME NEW d \in Callbacks, callback'[d].pc = "sign"
        PROVE  RolesFor(callback[d].answer, callback[d].principal.roles)'
    <3> SUFFICES \E a \in DOMAIN answers : \E roles :
                   /\ answers'[a] = answers[a] /\ RolesFor(a, roles)
                   /\ callback'[d].answer = a /\ callback'[d].principal.roles = roles
      BY RolesForStays DEF RolesFor, UserKey, IdpOf, NamedFor
    <3>1. CASE callback'[d] = callback[d]
      <4>1. callback[d].answer \in DOMAIN answers
        BY <2>2, <3>1 DEF Known, Idle
      <4>2. answers'[callback[d].answer] = answers[callback[d].answer]
        BY <2>2, <3>1, AnswersRest
      <4> QED  BY <2>2, <3>1, <4>1, <4>2 DEF RolesNamed
    <3>2. CASE Provision(d)
      <4>1. callback[d].answer \in DOMAIN answers /\ callback[d] # Idle
        BY <3>2, OthersGo DEF Known
      <4>2. callback'[d].answer = callback[d].answer
            /\ callback'[d].principal = Upserted(callback[d].answer)
        BY <2>a, <3>2, <4>1, UpsertedFacts, OthersGo DEF Goes
      <4>3. UNCHANGED answers
        BY <3>2 DEF Provision
      <4> QED  BY <4>1, <4>2, <4>3, UpsertedRoles
    <3>3. CASE callback'[d] # callback[d] /\ ~Provision(d)
      <4>1. callback'[d] # Idle
        BY <2>2 DEF Idle
      <4>2. ~ \E b \in Browsers, a \in DOMAIN answers : Callback(d, b, a)
        BY <2>a, <2>2, OthersGo DEF Goes
      <4>3. ~ (FetchToken(d) \/ \E roles \in RoleSets : FetchUserinfo(d, roles))
        BY <2>a, <2>2, FetchGoes DEF Goes
      <4> QED  BY <3>3, <4>1, <4>2, <4>3, CallbackSteps
    <3> QED  BY <3>1, <3>2, <3>3
  <2>3. ASSUME NEW i \in DOMAIN logins'
        PROVE  RolesFor(logins[i].answer, logins[i].roles)'
    <3> SUFFICES \E a \in DOMAIN answers : \E roles :
                   /\ answers'[a] = answers[a] /\ RolesFor(a, roles)
                   /\ logins'[i].answer = a /\ logins'[i].roles = roles
      BY RolesForStays DEF RolesFor, UserKey, IdpOf, NamedFor
    <3>1. CASE i \in DOMAIN logins /\ logins'[i] = logins[i]
      BY <3>1, AnswersRest DEF RolesNamed, Known
    <3>2. ASSUME NEW c \in Callbacks, callback[c].pc = "sign", callback[c] # Idle,
                 logins'[i].answer = callback[c].answer,
                 logins'[i].roles = callback[c].principal.roles
          PROVE  \E a \in DOMAIN answers : \E roles :
                   /\ answers'[a] = answers[a] /\ RolesFor(a, roles)
                   /\ logins'[i].answer = a /\ logins'[i].roles = roles
      BY <3>2, AnswersRest DEF RolesNamed, Known
    <3> QED  BY <3>1, <3>2, LoginSteps
  <2> QED  BY <2>1, <2>2, <2>3 DEF RolesNamed
<1>3. QED
  BY <1>1, <1>2, TypeCorrect, AlwaysOneHandler, PTL DEF Spec

\* A token has the roles of the answer it was issued for, or of the userinfo fetched
\* with it that no claim of the answer hides, or roles named for that user before: no
\* overlapping login changes them.
COROLLARY RolesAreOfTheLogin == Spec => []RolesOfThisLogin
<1>1. Known /\ Followed /\ RolesNamed => RolesOfThisLogin
  <2> SUFFICES ASSUME Known, Followed, RolesNamed PROVE RolesOfThisLogin
    OBVIOUS
  <2>1. \A i \in DOMAIN logins : UserOf(logins[i]) = UserKey(logins[i].answer)
    BY DEF Followed, LoginFollowsItsFlow, UserOf, UserKey, IdpOf
  <2> QED  BY <2>1 DEF RolesNamed, RolesFor, RolesOfThisLogin
<1> QED  BY <1>1, AlwaysFollowed, AlwaysRolesNamed, TypeCorrect, PTL
=============================================================================
