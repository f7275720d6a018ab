# Verification of authub

authub is an authentication library for FastAPI applications. It has three
parts that keep state of their own:

* a **hub** (`src/authub/hub.py`, `flow.py`, `state.py`, `protocols/`,
  `stores/`, `tokens/`, `web/`): it signs users in at external identity
  providers (OIDC, OAuth2, SAML), issues its own JWTs and verifies and revokes
  them;
* an embedded **identity provider** (`src/authub/idp/`): an OIDC authorization
  server with authorization codes, refresh-token rotation, a login form, a
  consent form and a lockout;
* an inbound **SCIM server** (`src/authub/scim/`): users and groups of tenants.

This directory holds TLA+ models of it, the TLC configurations that check them
on small instances, and proofs that TLAPS checks for every value of the
constants.

Everything runs on one asyncio event loop. Code between two `await`s is atomic;
at an `await` of an injected store, of a plugin or of a worker thread, other
handlers and the clock run. Every model below is built on that: a request is a
process, its `pc` names the call it is waiting for, and one action is that call
together with the code up to the next one.

## Inventory

| Component | State | Operations | Hard part | What makes it correct |
|---|---|---|---|---|
| Grant store (`idp/store.py`) | codes, access tokens, refresh tokens, consumed tokens, revoked families, consumed consent tickets | save, consume, rotate, revoke, evict | eviction by expiry against single use | a credential is used once; a replay is recognised; a dead family stays dead |
| Token endpoint (`idp/provider.py`) | local variables of requests | code grant, refresh grant, userinfo | three awaits between spending a credential and storing its successor; stores that fail; clients that retry | one access token per credential, no fork of a family, scopes only narrow |
| Authorize endpoint (`idp/provider.py`) | local variables; hidden form fields; consent tickets | `/authorize`, `/login`, `/consent` | parameters travel through the browser; ticket verified before and consumed after an await | every code is for a registered client and URI, and goes back to an approval of its own |
| Lockout (`idp/provider.py`) | `_login_failures` | check, record, clear, evict | check before and record after a worker thread | bounded overshoot, no early lifting, no endless lockout |
| Identity provider's user store | users | authenticate, get | may change between two lookups | (injected: free in the models) |
| JWT service, revocation store, hub (`tokens/`, `hub.py`) | `_store`, `_heap` | sign, verify, revoke, is_revoked, issue | lazy eviction by a heap that may be stale; leeway; logouts racing verifications | a revoked token stays out; the heap and the dict agree |
| Login flow (`flow.py`, `state.py`, `web/router.py`) | state cookie, user store | login, callback | cookies shared by tabs, replayed callbacks, plugins that abort half way | a session only from the flow that was begun; one principal per identity |
| OIDC relying party (`protocols/oidc.py`) | metadata cache, key cache, locks | discover, keyset, validate | stale caches, concurrent misses, forced refresh | a rotated key is found; a cached document is the issuer's |
| SAML (`protocols/saml/`) | a semaphore | begin, validate | order of many checks, time windows with and without drift | a login ends as the person signed in for it; only what is late or unwanted is refused; permits come back |
| SCIM (`scim/`) | users, groups | create, replace, patch, delete, list | patches that bypass checks, paging | unique names, tenants apart, pages that cover |
| Claim mapping (`mapping.py`) | transforms table | normalize | nested paths, coercions, transforms that raise | the identity is that of the claims asserted |
| Dependencies, middleware, presets, errors, models, email | none | | | |

`PROJECT.json` lists every component with its status, and every hazard of the
code with the properties that cover it.

## Modules

`IdpGrantStore` is the store as operators, one per method, over its six dicts
and the clock. A dict keyed by a token is the set of its records. Random
strings are numbers drawn in order. `TokenEndpoint` and `AuthorizeEndpoint`
extend it with the handlers; each leaves the other's tables alone.

`TokenEndpoint`: requests to `/token`. `RedeemCode` and the three `Refresh...`
actions are the first call of each handler with the checks after it (a code is
popped, and a refresh token spent, before client, redirect URI, verifier and
scope are looked at). `UserFound` and `UserGone` are `get_by_sub`;
`SaveAccessAndRespond`, `SaveAccessAndRotate` and `SaveRefreshAndRespond` are
the saves; `StoreCallFails` is an exception at any await, and also stands for a
crash of a process whose stores are durable. `IssueCode` abstracts the
authorize side. `UserInfo` is the response of `/userinfo`. `RemoveUser` is the
operator's side of the injected user store.

`RefreshFamily` is the abstract specification of rotation: a family is unborn,
pending, live with one token, or dead. `TokenEndpoint` implements it
(`ImplementsRefreshFamily`): a family is live while the store has an unexpired
token of it, pending while a request carries it to its next save, and dead when
revoked or when neither holds.

`AuthorizeEndpoint`: requests to `/authorize`, `/login` and `/consent`. The
parameters of a request are any parameters at all; `Valid` is
`_validate_authorize_params`. `SubmitConsent` verifies a ticket, `Decide`
consumes it, `ConsentingUser` looks the user up, `SaveIssuedCode` saves the
code. `requireConsent` and `autoLogin` are chosen initially, so that one run
covers every configuration of the provider.

`LoginThrottle`: the lockout. `LoginAdmitted` is the handler up to
`authenticate`, `PasswordWrong` and `PasswordRight` the rest of it. The model
keeps the age of a window instead of its start, up to the point where it is
over, so time needs no bound.

`TokenRevocation`: tokens of the hub. `VerifyToken`, `CheckRevocation` and
`VerifiedByPlugins` are the stages of `Authub.verify_token`; `Logout` and
`LogoutRevokes` those of `POST /logout`; `ApplicationRevokes` a call of the
public `revoke` by the application, with the exp of the token or with None.
The heap is the set of its items.

`LoginFlow`: a login at an upstream provider of any of the three protocols.
`Begin` is `GET /{idp}/login`; `Callback`, `FetchToken`, `Provision` and
`Respond` are `GET /{idp}/callback` between its awaits, and `CallbackFails` an
exception at any of them. `FetchUserinfo` is the call after the code exchange that
some settings ask for; `ClaimedRoles` is how its claims and those of the id_token are
merged, by their keys: a claim may be left out, or given with roles or with none
(`Claims`). `state`, `nonce`, `code_verifier` and the SAML request
id are drawn together by `begin`, so one number, the flow, stands for them; which
of them a protocol compares is in `StateMatches`, `FetchToken` and
`ResponseMatches`. The provider is external: it answers a flow as often as it is
asked, and exchanges a code once. A browser has one state cookie, one session
cookie and one CSRF cookie for all its tabs; `Respond` deletes the state cookie,
also one that a later tab has set, so the login of that tab fails (nothing says
that it should not). `PageWrites` is a request that `_enforce_csrf` lets pass.

`OidcCache`: the two caches of the OIDC relying party with their locks, for one
issuer. A lock is the queue of those that want it, since `asyncio.Lock` is first
come, first served. `Discover` and `FetchToken` queue, `UseCache` is a hit,
`SendRequest`, `Serve` and `ReceiveResponse` a fetch, `Obtained` what the login
does with the document, which for a signature that does not verify is to queue
again for a forced fetch.

`SamlLogin`: logins at a SAML provider, over `SamlResponse` and `ClaimMapping`.
`Begin` and `Complete` take a permit of the semaphore or queue for it, `BeginEnds`,
`CheckConditions` and `CheckConfirmation` are what the worker thread does, split
where `parse_and_validate` reads the clock a second time; `Acquire` and `Release`
are `async with self._semaphore`. A login is one flow state and its request id;
`Complete` takes any response there is, since a browser posts it with the cookie
it has then. `Identity` is what `AuthFlow` makes of the claims. `ProviderAnswers`
and `Response` are the external provider.

`SamlResponse`: the checks of `SamlResponseValidator`, as operators over abstract
documents: `AcceptConditions` is everything up to the subject confirmation, in the
order of the code, `AcceptConfirmation` and `AcceptSignatures` the rest,
`ExtractClaims` what is read in the end, `ParseIdpMetadata` which entity, endpoint
and certificate of the metadata count. An element that may be repeated is a
sequence, an optional one a set, a signature says which element it is on, what it
refers to and which key verifies it. Signatures are taken to be unforgeable: a
document that verifies is one that the holder of the key made.

`ClaimMapping`: `Mapper.normalize` as operators over tagged JSON values.
`Extract`, `Scalar`, `AsList`, `OptionalStr` and `ApplyTransform` are its helpers,
`Transformed` its loop over the transforms; what makes it raise is `MappingError`.

`ScimStore`: the SCIM handlers over the in-memory stores. A handler reads nothing
before its one store call, so it is one action; its error responses are the
actions `...Fails` and `...Conflict`. A dict is the sequence of its values in
insertion order. `BeginWalk`, `ListPage` and `EndWalk` are a client that follows
`startIndex` and `itemsPerPage` to the end while others write. A resource is
identified by the key it is stored under; that PATCH can write an `id` into the
body that differs from the key is not modelled.

The modules `MC...` add what TLC needs to permute or to be given. Each of the eight
state machines has its theorems in a module of its own: `TokenEndpointProofs`,
`TokenRevocationProofs`, `AuthorizeEndpointProofs`, `LoginThrottleProofs`,
`LoginFlowProofs`, `OidcCacheProofs`, `SamlLoginProofs` and `ScimStoreProofs`.

What is abstracted: strings (tokens, names, scopes as sets of scope tokens,
`_s256` as an injection), JSON and HTML, `state` and `nonce` (echoed, never
compared by the provider), id_token contents, client authentication (it reads
only constants, so an action takes the authenticated client), scrypt.

The claims registry of joserfc accepts a JWT in the second of its `exp`; the
models let a ticket or token through at that second. None of the
counterexamples below needs more than a clock that moves between verification
and the following store call.

## Runs

| Run | Bounds | Shows |
|---|---|---|
| `TokenChain` | 1 code, 3 exchanges, 2 racing requests, clock 0..2, PKCE client | single use, no fork, narrowing, replay recognition, refinement |
| `LoginThrottle` | 2 usernames, 4 requests, limit 3, lockout 4 ticks | overshoot below the number of requests; no early lifting; lockouts end |
| `Authorize` | 2 requests, 2 clients with their own URIs, 2 subjects, 1 ticket decided up to twice, 2 codes, clock 0..2 | what codes are issued for; approval by approval |
| `Revocation` | 2 requests, 2 tokens, with and without exp, clock 0..3, leeway 1 | revocations hold until exp; dict and heap agree |
| `LoginFlow` | 2 browsers, 2 callbacks at a time, 3 providers (OAuth2 with userinfo and without PKCE and SAML of one tenant, OIDC with PKCE and userinfo of another), 1 subject, 2 roles, 2 flows, answers and logins | whose login completes, as whom, with which roles; what a page may do |
| `OidcCache` | 2 logins, 2 versions of the key set, 1 of the metadata, ttl 1, fetches of at most 1, clock 0..3 | a rotated key is found, a withdrawn key fades, versions never go back, everyone gets an answer |
| `ScimStore` | 2 tenants, 2 names, 2 members, up to 3 users or 2 users and a group, 10 PATCHes of a group, 4 of a user, pages cut to 1 | names are unique but for PATCH; pages cover; a PATCH can be sent again, but for the order of members; a refused one changes nothing |
| `SamlLogin` | 2 logins, 1 permit, 25 deployments (a provider as it should be and 18 that differ from it in a respect, 7 settings), 1 response, 2 of a provider that leaves out what it may, 2 people, drift 1, lifetime 2, clock 0..2 | who ends as whom, who is refused and why, permits come back, everyone gets an answer |
| `SamlReadme` | as `SamlLogin` | **violated**: the README's SAML provider cannot be logged in at |
| `StateTwice` | as `LoginFlow`, 1 browser | **violated**: one state cookie completes two logins |
| `ScimRenamed` | as `ScimStore` | **violated**: PATCH makes two users of one name |
| `RevokedAccepted` | as `Revocation` | **violated**: a revoked token passes within the leeway after exp |

Why the bounds are enough: the properties of the token endpoint concern two
requests at a time on one credential or one family, so two requests and one
chain of two refreshes after the code reach every order of their calls; the
clock reaches the expiry of each kind of token and the second after it. The
second client is there to present what the first was given. The lockout needs one
request more than reaches the limit at once. A ticket needs two submissions and
the second of its expiry. Two tokens let the eviction of one meet the item of
the other. Two flows are the two tabs of a browser, or the logins of two
browsers; two answers are those of two providers to be mixed up, or two of one to
one flow. Two versions of the key set are a rotation with a login on each side of
it; one login holds a lock or forces a fetch while the other waits. Three users
are the two that a page boundary lies between and the one that moves. Two SAML
logins are the one that holds the permit and the one that waits, or the one asked for
and the one whose state the response is posted with; lifetime and clock are such
that a response can come too early, be valid between, and be too late, for
clocks of the provider 1 behind and 1 and 2 ahead, within and outside the drift. A
deployment pairs one deviation of the provider with the usual settings, or one
deviation of the settings with the good provider. The bounds
on counters (`MaxCodes`, `MaxExchanges`, `MaxTickets`, `MaxDecisions`,
`MaxTokens`, `MaxFlows`, `MaxAnswers`, `MaxLogins`, `MaxVersion`, `MaxUsers`,
`MaxGroups`, `MaxCreated`, `MaxTime`, and `provider.answers` of a deployment) are in the guards of the actions that
count; `RoleSets`, `MemberLists`, `UserPatches` and `GroupPatches` are what
clients and providers send.

Fairness: in `LoginThrottle`, that time passes (`WF_vars(Tick)`), for
`LockoutEnds`; no request has to arrive, no password check has to return. In
`OidcCache`, that a login takes its next step (`WF_vars(Continue(l))`), for
`LoginsEnd`: the event loop runs what is ready, and an HTTP exchange ends with an
answer or with the timeout of httpx, which `MaxFetch` stands for. A login that
waits for a lock has no enabled step until it is first in the queue, so that it
comes to its turn is what the property shows. In `SamlLogin`, that a worker thread
does its next step (`WF_vars(Thread(l))`), for `LoginsEnd`: it computes, without
I/O, and returns. Visitors need not come back and the clock need not move. The other specifications are
checked for safety only: injected stores may hang, so nothing a request waits for
is guaranteed.

### What the violations say

* `DocumentedSettingsBegin`: `_idp_info` raises `ConfigurationError` when the
  metadata is given by URL, so every login at the provider that the README's SAML
  example configures ends when it begins. (`SamlSettings` and the preset accept the
  URL; its docstring offers it as one of two ways.)
* `RevokedStaysRejected`: the revocation store forgets at `exp`, and ignores a
  revocation after it, but tokens verify for `leeway` seconds more. Before `exp`
  revocations hold (`RevokedRejectedUntilExp`).
* `StateConsumedOnce`: the callback only asks the browser to delete the state
  cookie, in its response. A SAML answer posted twice, or a second answer of the
  provider to the same request, completes a second login when its callback starts
  before the first has responded. The docstring of `FlowStateCodec` says
  "consumed once during the callback". That both belong to the browser that began
  the flow is `LoginFollowsItsFlow`.
* `NamesUnique`: create and replace look whether a userName is taken, PATCH does
  not, and afterwards a PUT of either user with its own name answers 409.

Three smaller disagreements of comment and code have no run. The docstring of
`AuthubIdp` calls `lockout_seconds` "How long a locked-out username must wait"; the
window starts with the first failure and is not moved when the limit is reached
(`LockoutHolds`), so the wait may be shorter. The docstring of `IdpGrantStore` says
that each ticket "is accepted at most once"; a mark is evicted at `exp`, while a
submission verified up to then may still be on its way
(`TicketDecidedOnceBeforeExpiry` holds before `exp`). A comment at `fetch_userinfo`
says "merge userinfo_endpoint claims over id_token claims"; the id_token wins
(`RolesOfThisLogin`), and wins by the presence of a key: an id_token whose claim of the
roles is there but empty or null, or whose outer object of a dotted path is there without
them, hides the roles of the userinfo, and the user keeps the roles stored before, since
`upsert_from_identity` replaces them only by some.

Of a SAML provider, `RefusedOnlyForCause` says what refuses an honest sign-in: a
clock there that is ahead by more than the drift, and lateness by the clock here.
The drift widens only `Conditions`: the subject confirmation, which every response
needs, is compared without it, so a provider whose clock is behind has its assertions
refused early by that much, and one that sends `NotBefore` there is refused as soon as
it is ahead at all (such providers are not `Compatible`). `IdentityAsAsserted` shows that
an answer whose `Issuer` elements are empty is accepted too, by its signature alone
(`_check_issuers` compares only issuers that have a text). Only the first certificate of the
metadata that is not for encryption is used, so a provider that signs with its second
one during a key rollover is refused.

## Proofs

Every safety property that a passing run checks is a theorem for every value of the
constants, infinite sets included unless an assumption says otherwise. In each
module, `TypeCorrect` comes first and has one step per action; the other
invariants are proved on top of it.

The assumptions are those the modules name (`MaxTimeAssumption`, `TtlAssumption`,
`BoundAssumption`, `RevocationAssumption`, `AuthorizeAssumption`,
`ThrottleAssumption`, `LoginAssumption`, `CacheAssumption`, `SamlAssumption`,
`ProviderAssumption`, `ScimAssumption`), which the runs evaluate. Two of them say more than
what type a constant has. `ThrottleAssumption` has finitely many requests at once, since
`OvershootBounded` counts them. `ScimAssumption` has clients begin a listing at a
`startIndex` of at most 1; one that begins further on does not see what comes before.
`ProviderAssumption` is the longest, since it types what deployments say, down to the
names and values of attributes and the fields of transforms.
Four theorems of `SamlLoginProofs` (`TypeCorrect`, `RefusalHasCause`,
`AcceptedOnOwnAnswer`, `LoginIsThePerson`) have a hypothesis, `NoneIsNoRecord`: the
constant `None` is neither an error nor a dict of claims (a model value in the runs,
Python's `None` in the code).

### Token endpoint

| Theorem | Property | Argument |
|---|---|---|
| `AlwaysKnown` | | Whatever number is stored or carried was drawn before, so the next one is fresh; without it a new token could be one already spent. |
| `AlwaysSingleUse`, `OneAccessToken` | `OneAccessTokenPerCredential` | Not inductive; `SingleUse` adds that a credential is in one place: in the store, carried by one request, or exchanged. |
| `AlwaysOneHolder`, `FamilyNeverForks` | `OneHolderPerFamily` | A rotation takes the only token of its family out of the store before a request carries the family, and the save puts one back when that request is gone. |
| `AlwaysRemembered` | `ExchangedTokenRemembered` | What was rotated and is not among the consumed tokens has expired. |
| `AlwaysWithin`, `AccessIsAuthorized` | `AccessWithinAuthorization` | Stored tokens, minted tokens and requests on their way are each within the code they go back to; `CodeBehind` of each stays as the histories grow. `UserInfo` answers for users that are still there. |
| `AlwaysNarrowing`, `FamiliesNarrow` | `FamilyOnlyNarrows` | The holder of a family has no more than any token the family ever had, and it alone mints the next. |
| `AlwaysCounted` | | Tokens and families are no more than exchanges whose access token was saved, so the identifiers of `RefreshFamily` suffice. |
| `EndpointImplementsChain` | `ImplementsRefreshFamily` | The refinement mapping `FamilyPhase`, action by action: which family a step moves, from which phase to which, and that every other keeps its phase. |
| `LiveTokensAreUnused`, `DeadFamiliesStayDead` | `SingleUse`, `DeadForGood` of `RefreshFamily` | Proved of the abstract steps, and carried over by the refinement. |

### Revocation

`TypeCorrect` has `TypeOK` with `Known`: every jti in use was signed, and an entry has
the exp of its token or none. `EntriesHaveItems` (`EveryEntryHasItsItem`) is inductive
as it stands; `NothingForgottenEarly` (`ForgottenOnlyExpired`) is an action property.
`RevocationHolds` (`RevokedRejectedUntilExp`) needs `Held`: the store has the jti of a
revoked token for as long as the token has not expired, and a verification that began
after the revocation is either still in front of the store or asked it at or after
`exp`.

### Authorize endpoint

`TypeCorrect` carries `Known` (tickets, decisions and codes referred to exist) and
`Validated` (what a request past the checks has is valid), from which
`CodesAreRegistered` (`CodesForRegisteredClients`) follows.
`TicketsAreDecidedOnce` (`TicketDecidedOnceBeforeExpiry`) needs `Remembered`: the mark
of a decided ticket is in the store until the ticket expires. `CodesFollowConsent`
(`CodeFollowsConsent`) needs `Warranted` (whoever is past the decision, and every code,
has an approval behind it for its subject and parameters) and `Unshared` (a decision
is with one request or behind one code).

### Lockout

`OvershootIsBounded` (`OvershootBounded`) is inductive with types: a failure recorded is
one request in flight less and one on the count, and a request is admitted only
while the count is below the limit. The work is in counting
the requests in flight. `LockoutIsHeld` (`LockoutHolds`) is an action property.

### Login flow

| Theorem | Property | Argument |
|---|---|---|
| `AlwaysFollowed`, `LoginIsOfItsFlow` | `LoginFollowsItsFlow` | The state cookie is of a flow its browser began; a callback is of the browser of its flow; every kind of provider compares the flow at one point at least, so what passes them all answers it. |
| `PageActs` | `PageActsForItsLogin` | The session cookie and the CSRF cookie of a browser are of one login (`SessionCookiesAgree`). |
| `AlwaysRegistered`, `OnePrincipal` | `OnePrincipalPerUser` | Ids are at most the number of users and distinct, so the next is fresh; whoever is past the upsert has the id of its user. |
| `AlwaysOneHandler` | | An exchanged answer has one callback, or the login it ended in, so nobody fetches userinfo for it again. |
| `AlwaysRolesNamed`, `RolesAreOfTheLogin` | `RolesOfThisLogin` | With the last: what an answer named does not change under the callback or login that rests on it. An answer with the claim names what the claim says, even nothing; one without it what its userinfo says (`NamedBy`). |

### OIDC caches

`TypeCorrect` carries `Queues`: a lock's queue has exactly the logins that want it, each
once, and who exchanges is first in it; hence `AlwaysOneFetch`. `CacheGoesForward`
(`CacheNeverGoesBack`) needs `Versions`: a response under way is no older than what was
cached when its request was sent, and nobody else caches meanwhile.
`RejectionIsFinal` (`RejectedOnlyIfWithdrawn`) and `WithdrawnKeysFade`
(`WithdrawnKeyFades`) add when an entry was fetched and which versions had been
published then.

### SAML

| Theorem | Property | Argument |
|---|---|---|
| `AlwaysSemaphore`, `NoPermitIsLost` | `PermitsComeBack` | Permits left and used add up, the queue has exactly the logins that wait, each once, and nobody waits while a permit is left. |
| `RefusalHasCause` | `RefusedOnlyForCause` | `Judgement` says of each stage of a login which checks of the validator its response has passed, and when by the clock; an honest response of a compatible provider passes them all. |
| `AcceptedOnOwnAnswer` | | The other direction: what `Judgement` has passed answers this very request, is signed with the trusted key and was valid then. |
| `LoginIsThePerson` | `IdentityAsAsserted` | From the last, with lemmas on how the claims are read (below). |
| `AcceptedIsSigned` | | A lemma on the validator alone, for any document and not only for those that `Response` makes. |

`LoginIsThePerson` follows an accepted assertion through three operators. The claims of
`ExtractClaims` have the NameID, whatever attributes are called, and under any other name
the values of the last attribute that has it (`ClaimsOfResponse`, `ListRead`). `Extract`
with a path of one part is the claim of that name (`ExtractOne`). `Normalize` takes
`external_id` and the roles from there (`NormalizeMeans`): a transform changes one field,
and only one that is a string, so however many there are they leave the roles, which are a
list, and an `external_id` that each of those on that field leaves (`TransformedKeeps`, by
the least number of transforms after which it would fail; an error stays an error,
`ErrorStays`).

What the property says of `external_id` and of the roles has a condition, since it is not
true of every mapping: one may take `external_id` from any claim, and a transform may map
two NameIDs to one (`lower`), as the settings wish. `MapsNameID` and `MapsRoles` name the
mappings it is meant for (`external_id` of the SAML preset is the NameID); the rest of it
holds for all.

### SCIM

| Theorem | Property | Argument |
|---|---|---|
| `AlwaysKeyed`, `TypeCorrect` | `TypeOK` | Keys are drawn, and no two entries have one. |
| `TenantsStayApart` | `TenantsApart` | What a step leaves alone is the selection of one tenant by `_by_tenant`; replacing, appending and removing an entry of another tenant leaves that selection as it is. |
| `AlwaysCovered`, `PagesCover` | `PagesCoverTheListing` | Everything before the cursor has been seen, and what was promised and is not seen lies at or behind it (`Covers`). A create appends, a replace keeps the place, and a delete moves nothing past the cursor that the promise still counts. |
| `RetryChangesNothing` | `RetriedPatchChangesNothing` | How often a member occurs after a PATCH is decided by the last operation that names it: forgotten, or kept with what is added (`SameEffect`). |
| `RepeatsWereSent` | `RepeatedOnlyIfSent` | `existing_ids` leaves each added member out that is there already. |
| `NamesAreUniqueButForPatch` | `NamesUniqueButForPatch` | The check of create and replace covers all users of the tenant; keys are distinct, so a renamed user is known by its key. |

The operations of a PATCH are applied by the recursive function `PatchedGroup`, and a list
comprehension is `Selected`, which gives the place of each rank. What holds after any
number of operations is proved by the least number for which it would fail, since
the induction theorems of the library take an operator as a parameter.

The statement of `RetriedPatchChangesNothing` says "but for the order of the members"
because the stronger one is false: `remove m1, add m1, add m2` puts `m1` before `m2` on
a group without them, and again applied takes `m1` out and puts it behind `m2`.

### What is model-checked only

* `LockoutEnds`, and `LoginsEnd` of `OidcCache` and of `SamlLogin`: liveness under
  fairness, for which the prover has no rule here.
* The four violations are counterexamples, which need no proof.

## Limits

Not modelled: XML parsing and XML signatures as such, key handling,
the text of an AuthnRequest, the discovery document, presets, error texts, email (constant data, or
pure computation on data the models abstract); `GET /discover` and the registration of
identity providers at run time (a lookup in a dict, and an assignment to it); SCIM
filters (a filtered listing is the same paging of fewer resources) and a SCIM PATCH that
writes an `id` into the body of a resource; a restart with the in-memory stores, which
forgets everything (production injects durable ones); the role, scope and type checks of the
dependencies (they compare the claims of a verified token with constants).
