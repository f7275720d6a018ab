------------------------------ MODULE LoginFlow ------------------------------
(***************************************************************************)
(* Login at an upstream identity provider: GET /{idp}/login and            *)
(* /{idp}/callback (src/authub/web/router.py), AuthFlow                    *)
(* (src/authub/flow.py), the state cookie (src/authub/state.py), what the  *)
(* OIDC, OAuth2 and SAML protocols check of the callback                   *)
(* (src/authub/protocols), the user store (src/authub/stores/memory.py),   *)
(* and the cookie session it ends in (src/authub/web/deps.py).             *)
(*                                                                         *)
(* A browser has one state cookie for all its tabs.  A callback is a       *)
(* process whose pc names what it awaits.  state, nonce, code_verifier     *)
(* and request_id are drawn together, so one number, the flow, stands for  *)
(* them all; a login is the number of the token and CSRF value it set.     *)
(***************************************************************************)
EXTENDS Naturals, Sequences, FiniteSets

CONSTANTS
  Browsers,
  Callbacks,   \* concurrent callback requests
  Idps,
  Kind,        \* Kind[idp]: which protocol its settings name
  Tenant,      \* Tenant[idp]: the tenant that configured it
  PkceIdps,    \* providers that check the code_verifier (RFC 7636)
  UserinfoIdps,\* providers asked for userinfo: fetch_userinfo or a userinfo_url is set
  Subjects,    \* external_id of an answer, after mapping
  Roles,       \* roles a provider may name
  RoleSets,    \* the sets of them it does name in one answer
  MaxFlows,    \* bound: logins begun
  MaxAnswers,  \* bound: answers given by the providers
  MaxLogins    \* bound: logins completed

ASSUME LoginAssumption ==
  /\ Kind \in [Idps -> {"oidc", "oauth2", "saml"}]
  /\ PkceIdps \subseteq Idps
  /\ UserinfoIdps \subseteq {idp \in Idps : Kind[idp] # "saml"}
  /\ RoleSets \subseteq SUBSET Roles

VARIABLES
  stateCookie,    \* STATE_COOKIE of each browser: a flow, or None
  sessionCookie,  \* the session cookie: the login that set it, or None
  csrfCookie,     \* the CSRF cookie, likewise
  page,           \* the CSRF value a page in the browser has read
  expired,        \* the state cookies of flows up to this one have expired
  flows,          \* the flows begun
  answers,        \* external: what the providers sent to the callback URLs, and
                  \* what their userinfo endpoints said to it, once they are asked
  redeemed,       \* external: the answers whose code was exchanged
  callback,       \* what each callback has in its local variables
  users,          \* _users of InMemoryUserStore
  logins,         \* history: the logins completed
  acted           \* history: whose page acted in whose session

cookieVars == <<stateCookie, sessionCookie, csrfCookie>>
vars == <<cookieVars, page, expired, flows, answers, redeemed, callback, users,
          logins, acted>>

None == 0

\* A claim that roles are mapped from: left out, or given with a set of them, also
\* the empty one.  Of a dotted path it is the outermost key that is given or not.
Claims(sets) == {{}} \cup {{roles} : roles \in sets}

Flow == [browser : Browsers, idp : Idps]
Answer == [flow : Nat, subject : Subjects, claim : Claims(SUBSET Roles),
           userinfo : Claims(SUBSET Roles)]
Principal == [id : Nat \ {0}, roles : SUBSET Roles]

Idle == [pc |-> "idle"]
Fetching == [pc : {"fetch_token", "fetch_userinfo", "provision"}, browser : Browsers, flow : Nat,
             answer : Nat]
Signing == [pc : {"sign"}, browser : Browsers, flow : Nat, answer : Nat,
            principal : Principal]
CallbackLogin == [browser : Browsers, flow : Nat, answer : Nat, id : Nat,
                  roles : SUBSET Roles]

TypeOK ==
  /\ {stateCookie, sessionCookie, csrfCookie, page} \subseteq [Browsers -> Nat]
  /\ expired \in Nat
  /\ flows \in Seq(Flow)
  /\ answers \in Seq(Answer)
  /\ redeemed \subseteq Nat
  /\ callback \in [Callbacks -> {Idle} \cup Fetching \cup Signing]
  /\ DOMAIN users \subseteq {Tenant[idp] : idp \in Idps} \X Subjects
  /\ \A key \in DOMAIN users : users[key] \in Principal
  /\ logins \in Seq(CallbackLogin)
  /\ acted \subseteq Nat \X Nat

Init ==
  /\ stateCookie = [b \in Browsers |-> None]
  /\ sessionCookie = [b \in Browsers |-> None]
  /\ csrfCookie = [b \in Browsers |-> None]
  /\ page = [b \in Browsers |-> None]
  /\ expired = 0
  /\ flows = <<>> /\ answers = <<>> /\ redeemed = {}
  /\ callback = [c \in Callbacks |-> Idle]
  /\ users = <<>>
  /\ logins = <<>> /\ acted = {}

-----------------------------------------------------------------------------
(* The login begins. *)

\* login: the response of a later tab overwrites the cookie of an earlier one.
Begin(b, idp) ==
  /\ Len(flows) < MaxFlows
  /\ flows' = Append(flows, [browser |-> b, idp |-> idp])
  /\ stateCookie' = [stateCookie EXCEPT ![b] = Len(flows) + 1]
  /\ UNCHANGED <<sessionCookie, csrfCookie, page, expired, answers, redeemed,
                 callback, users, logins, acted>>

\* Time passes the exp of the oldest state cookie still valid.
StateExpires ==
  /\ expired < Len(flows)
  /\ expired' = expired + 1
  /\ UNCHANGED <<cookieVars, page, flows, answers, redeemed, callback, users,
                 logins, acted>>

\* External: a provider answers a flow, again when the visitor asks again; its
\* answer carries the state, nonce, code_challenge or request id of the flow, and
\* may leave the claim of the roles out or give it without any, which are told apart
\* only where a userinfo may be hidden.  What an OAuth2 token response says is not
\* read when there is a userinfo_url.
ProviderAnswers(n, subject, claim) ==
  /\ Len(answers) < MaxAnswers
  /\ flows[n].idp \notin UserinfoIdps => claim # {{}}
  /\ Kind[flows[n].idp] = "oauth2" /\ flows[n].idp \in UserinfoIdps => claim = {}
  /\ answers' = Append(answers, [flow |-> n, subject |-> subject, claim |-> claim,
                                userinfo |-> {}])
  /\ UNCHANGED <<cookieVars, page, expired, flows, redeemed, callback, users,
                 logins, acted>>

-----------------------------------------------------------------------------
(* The callback. *)

\* The provider whose callback URL the answer was sent to.
IdpOf(a) == flows[answers[a].flow].idp

\* decode, and the comparison of idp_id.
StateAccepted(n, a) ==
  /\ n # None /\ n > expired
  /\ flows[n].idp = IdpOf(a)

\* Mutant: the state parameter is not compared.
StateMatches_Unchecked(n, a) == TRUE

\* The state parameter, which OIDC and OAuth2 compare before anything else.
StateMatches(n, a) ==
  Kind[IdpOf(a)] \in {"oidc", "oauth2"} => answers[a].flow = n

\* The nonce of the id_token, the InResponseTo of the SAML response.
ResponseMatches(n, a) ==
  Kind[IdpOf(a)] \in {"oidc", "saml"} => answers[a].flow = n

Callback(c, b, a) ==
  LET n == stateCookie[b]
  IN /\ callback[c] = Idle
     /\ StateAccepted(n, a)
     /\ StateMatches(n, a)
     /\ callback' = [callback EXCEPT ![c] =
          [pc |-> IF Kind[IdpOf(a)] = "saml" THEN "provision" ELSE "fetch_token",
           browser |-> b, flow |-> n, answer |-> a]]
     /\ UNCHANGED <<cookieVars, page, expired, flows, answers, redeemed, users,
                    logins, acted>>

\* InvalidStateError: no state cookie, an expired one, or that of another flow.
RefuseCallback(b, a) ==
  /\ ~(StateAccepted(stateCookie[b], a) /\ StateMatches(stateCookie[b], a))
  /\ UNCHANGED vars

\* fetch_token: the provider exchanges a code once, for its verifier.
FetchToken(c) ==
  LET v == callback[c]
  IN /\ v.pc = "fetch_token"
     /\ v.answer \notin redeemed
     /\ IdpOf(v.answer) \in PkceIdps => answers[v.answer].flow = v.flow
     /\ redeemed' = redeemed \cup {v.answer}
     /\ callback' = [callback EXCEPT ![c].pc =
          IF IdpOf(v.answer) \in UserinfoIdps THEN "fetch_userinfo" ELSE "provision"]
     /\ UNCHANGED <<cookieVars, page, expired, flows, answers, users, logins, acted>>

\* _fetch_userinfo, after the id_token was validated: what the provider knows by
\* now of the user of the answer.  Another sub ends in CallbackFails.
FetchUserinfo(c, roles) ==
  LET v == callback[c]
  IN /\ v.pc = "fetch_userinfo"
     /\ ResponseMatches(v.flow, v.answer)
     /\ answers' = [answers EXCEPT ![v.answer].userinfo = {roles}]
     /\ callback' = [callback EXCEPT ![c].pc = "provision"]
     /\ UNCHANGED <<cookieVars, page, expired, flows, redeemed, users, logins, acted>>

\* Mutant: None is a value like any other, and its text a role.
AsList_TextOfNone(claim) == IF claim = {} THEN {None} ELSE UNION claim

\* as_list: a claim that is not given, or null, names no role.
AsList(claim) == UNION claim

\* The claims: OIDC puts those of the id_token over the userinfo, key by key, so one
\* that is given there without roles hides the userinfo's; OAuth2 has the userinfo
\* in place of the token response.
ClaimedRoles(a) ==
  LET said == answers[a]
  IN AsList(IF said.claim # {} THEN said.claim ELSE said.userinfo)

\* Mutant: users of all tenants are kept under their external_id alone.
UserKey_NoTenant(a) == <<CHOOSE t \in {Tenant[idp] : idp \in Idps} : TRUE, answers[a].subject>>

UserKey(a) == <<Tenant[IdpOf(a)], answers[a].subject>>

\* Stands for uuid4: users are never removed.
NewId == Cardinality(DOMAIN users) + 1

\* upsert_from_identity: roles are replaced when the identity names any.
Upserted(a) ==
  LET roles == ClaimedRoles(a)
  IN IF UserKey(a) \in DOMAIN users
     THEN [users[UserKey(a)] EXCEPT !.roles = IF roles # {} THEN roles ELSE @]
     ELSE [id |-> NewId, roles |-> roles]

\* The rest of protocol.complete reads nothing that changes, so it is one step
\* with the upsert: on_identity and the mapping may end it in CallbackFails.
Provision(c) ==
  LET v == callback[c]
      user == Upserted(v.answer)
  IN /\ v.pc = "provision"
     /\ ResponseMatches(v.flow, v.answer)
     /\ users' = [key \in DOMAIN users \cup {UserKey(v.answer)} |->
                   IF key = UserKey(v.answer) THEN user ELSE users[key]]
     /\ callback' = [callback EXCEPT ![c] =
          [pc |-> "sign", browser |-> v.browser, flow |-> v.flow,
           answer |-> v.answer, principal |-> user]]
     /\ UNCHANGED <<cookieVars, page, expired, flows, answers, redeemed, logins, acted>>

\* Mutant: the principal is read again when the token is built.
TokenRoles_Reread(v) == users[UserKey(v.answer)].roles

\* build_user_claims: the principal is the one upsert_from_identity returned,
\* whatever the store says once the hooks are done.
TokenRoles(v) == v.principal.roles

\* After on_user_provisioned, before_issue_token and sign: the response takes
\* away the state cookie, also one a later tab has set, and sets the session.
Respond(c) ==
  LET v == callback[c]
      login == Len(logins) + 1
  IN /\ v.pc = "sign"
     /\ Len(logins) < MaxLogins
     /\ logins' = Append(logins, [browser |-> v.browser, flow |-> v.flow,
          answer |-> v.answer, id |-> v.principal.id, roles |-> TokenRoles(v)])
     /\ stateCookie' = [stateCookie EXCEPT ![v.browser] = None]
     /\ sessionCookie' = [sessionCookie EXCEPT ![v.browser] = login]
     /\ csrfCookie' = [csrfCookie EXCEPT ![v.browser] = login]
     /\ callback' = [callback EXCEPT ![c] = Idle]
     /\ UNCHANGED <<page, expired, flows, answers, redeemed, users, acted>>

\* The provider, a check, a plugin or a store ends the callback with an error:
\* the cookies stay as they are, and so does the user.
CallbackFails(c) ==
  /\ callback[c] # Idle
  /\ callback' = [callback EXCEPT ![c] = Idle]
  /\ UNCHANGED <<cookieVars, page, expired, flows, answers, redeemed, users,
                 logins, acted>>

-----------------------------------------------------------------------------
(* The session. *)

Logout(b) ==
  /\ sessionCookie[b] # None
  /\ sessionCookie' = [sessionCookie EXCEPT ![b] = None]
  /\ csrfCookie' = [csrfCookie EXCEPT ![b] = None]
  /\ UNCHANGED <<stateCookie, page, expired, flows, answers, redeemed, callback,
                 users, logins, acted>>

\* External: a script of the application reads the CSRF cookie for its header.
PageReads(b) ==
  /\ csrfCookie[b] # page[b]
  /\ page' = [page EXCEPT ![b] = csrfCookie[b]]
  /\ UNCHANGED <<cookieVars, expired, flows, answers, redeemed, callback, users,
                 logins, acted>>

\* Mutant: the header must be there, no more.
CsrfEnforced_Present(b) == csrfCookie[b] # None /\ page[b] # None

\* _enforce_csrf.
CsrfEnforced(b) == csrfCookie[b] # None /\ page[b] = csrfCookie[b]

\* An unsafe request of the page, authenticated by the cookie.
PageWrites(b) ==
  /\ sessionCookie[b] # None
  /\ CsrfEnforced(b)
  /\ acted' = acted \cup {<<page[b], sessionCookie[b]>>}
  /\ UNCHANGED <<cookieVars, page, expired, flows, answers, redeemed, callback,
                 users, logins>>

-----------------------------------------------------------------------------
Visitor ==
  \/ \E b \in Browsers, idp \in Idps : Begin(b, idp)
  \/ \E b \in Browsers : Logout(b) \/ PageReads(b) \/ PageWrites(b)

Provider ==
  \E n \in DOMAIN flows, subject \in Subjects, claim \in Claims(RoleSets) :
    ProviderAnswers(n, subject, claim)

HandleCallback(c) ==
  \/ \E b \in Browsers, a \in DOMAIN answers : Callback(c, b, a)
  \/ \E roles \in RoleSets : FetchUserinfo(c, roles)
  \/ FetchToken(c) \/ Provision(c) \/ Respond(c) \/ CallbackFails(c)

Next ==
  \/ Visitor
  \/ Provider
  \/ \E c \in Callbacks : HandleCallback(c)
  \/ \E b \in Browsers, a \in DOMAIN answers : RefuseCallback(b, a)
  \/ StateExpires

Spec == Init /\ [][Next]_vars

-----------------------------------------------------------------------------
(* Properties. *)

\* Whom a login is about: the subject of its answer, in the tenant of the provider
\* it was begun with.
UserOf(login) ==
  <<Tenant[flows[login.flow].idp], answers[login.answer].subject>>

\* Whatever tabs and callbacks overlap, a browser is logged in only by an answer
\* to a login that it began itself, at the provider it began it with.
LoginFollowsItsFlow ==
  \A i \in DOMAIN logins :
    LET login == logins[i]
    IN /\ answers[login.answer].flow = login.flow
       /\ flows[login.flow].browser = login.browser

\* Racing, failed and repeated callbacks of one user of one tenant end with one
\* principal, and no two users ever share one.
OnePrincipalPerUser ==
  \A i, j \in DOMAIN logins :
    (logins[i].id = logins[j].id) <=> (UserOf(logins[i]) = UserOf(logins[j]))

\* The roles that a provider has named in its answer, or else, if the answer does not
\* have the claim, in the userinfo.
NamedBy(a) == IF answers[a].claim = {} THEN answers[a].userinfo ELSE answers[a].claim

\* The roles that providers have named for a user.
NamedFor(user) ==
  UNION {NamedBy(a) :
           a \in {b \in DOMAIN answers :
                    <<Tenant[IdpOf(b)], answers[b].subject>> = user}}

\* A token has the roles of the signed answer it was issued for, or those of the
\* userinfo fetched with it if the signed answer does not have the claim at all; when
\* these name none, roles that were named for the same user in this way before, or
\* none.  A login of the same user that overlaps never changes them.
RolesOfThisLogin ==
  \A i \in DOMAIN logins :
    LET login == logins[i]
        said == answers[login.answer]
    IN /\ UNION said.claim # {} => login.roles \in said.claim
       /\ said.claim = {} /\ UNION said.userinfo # {} => login.roles \in said.userinfo
       /\ login.roles # {} => login.roles \in NamedFor(UserOf(login))

\* A page that read the CSRF value of one login never acts in the session of
\* another that replaced it in the browser.
PageActsForItsLogin == \A act \in acted : act[1] = act[2]

\* What FlowStateCodec says of the state cookie, "consumed once during the
\* callback": a flow completes one login at most.
StateConsumedOnce ==
  \A i, j \in DOMAIN logins : logins[i].flow = logins[j].flow => i = j
=============================================================================
