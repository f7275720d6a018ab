------------------------------ MODULE SamlLogin ------------------------------
(***************************************************************************)
(* Logins at a SAML provider: SamlProtocol.begin and complete              *)
(* (src/authub/protocols/saml/__init__.py), each in a worker thread that   *)
(* runs under a semaphore of the protocol, and what becomes of the claims  *)
(* (src/authub/flow.py, src/authub/mapping.py).                            *)
(*                                                                         *)
(* A login is one flow state; the id of its request stands for the login   *)
(* itself.  A response is posted with the cookie of whatever flow state    *)
(* the browser has then, so also with that of another login.               *)
(* asyncio.Semaphore is first come, first served: a permit given back goes *)
(* to the login that has waited longest.                                   *)
(***************************************************************************)
EXTENDS SamlResponse

CONSTANTS
  Logins,
  MaxParallel,   \* max_parallel
  Deployments,   \* [settings, provider]: SamlSettings, acs URL and mapping of an
                 \* application, and how its upstream provider responds (external),
                 \* which makes at most provider.answers responses (bound)
  People,        \* external: People[name]: who may sign in there, with what attributes
  Lifetime,      \* external: for how long an assertion is valid
  MaxTime        \* bound: the clock stops here

ASSUME SamlAssumption == MaxParallel \in Nat \ {0} /\ Drift \in Nat /\ Lifetime \in Nat

ASSUME ProviderAssumption ==
  /\ \A person \in DOMAIN People : People[person] \in Seq([name : STRING, values : Seq(STRING)])
  /\ \A d \in Deployments :
       /\ d = [settings |-> d.settings, provider |-> d.provider]
       /\ d.settings.mapping.transforms \in Seq([field : STRING, transform : STRING])
       /\ d.provider.skew \in Int
       /\ d.provider.signatures \in Seq([on : STRING, uri : STRING])

VARIABLES
  now,       \* the clock of the service provider
  settings,  \* configuration, chosen initially
  provider,  \* external: the provider, chosen initially
  answers,   \* external: [request, person, at] of the responses it made
  permits,   \* _semaphore: permits left
  waiting,   \* _semaphore: those that wait for one
  pc,        \* what each login awaits
  posted,    \* SAMLResponse of complete
  result,    \* the claims or the error that complete ended with, or the error of begin
  ended      \* history: when

vars == <<now, settings, provider, answers, permits, waiting, pc, posted, result, ended>>

Waiting == {"begin_waits", "complete_waits"}
Running == {"begin_runs", "complete_runs", "confirm_runs"}
Answer == [request : SUBSET Logins, person : DOMAIN People \cup {None}, at : Nat]
Deployment == [settings |-> settings, provider |-> provider]
ProtocolError == [error |-> "protocol_error"]
Errors == {ConfigurationError, ProtocolError}

TypeOK ==
  /\ now \in Nat /\ Deployment \in Deployments
  /\ answers \subseteq Answer
  /\ permits \in 0..MaxParallel
  /\ waiting \in Seq(Logins)
  /\ pc \in [Logins -> {"idle", "away", "ended"} \cup Waiting \cup Running]
  /\ posted \in [Logins -> {None} \cup Answer]
  /\ ended \in [Logins -> Nat]
  /\ \A l \in Logins :
       /\ (pc[l] \in Waiting) <=> (l \in ToSet(waiting))
       /\ (pc[l] = "ended") <=> (result[l] # None)
       /\ result[l] \in Errors \cup {None} \/ Is("dict", result[l])

Init ==
  /\ now = 0
  /\ \E d \in Deployments : settings = d.settings /\ provider = d.provider
  /\ answers = {}
  /\ permits = MaxParallel
  /\ waiting = <<>>
  /\ pc = [l \in Logins |-> "idle"]
  /\ posted = [l \in Logins |-> None]
  /\ result = [l \in Logins |-> None]
  /\ ended = [l \in Logins |-> 0]

-----------------------------------------------------------------------------
(* async with self._semaphore. *)

\* Mutant: one more than max_parallel are let in.
Acquire_OneMore(l, waits, runs) ==
  /\ permits' = permits - 1
  /\ pc' = [pc EXCEPT ![l] = runs]
  /\ UNCHANGED waiting

Acquire(l, waits, runs) ==
  IF permits > 0 /\ waiting = <<>>
  THEN /\ permits' = permits - 1
       /\ pc' = [pc EXCEPT ![l] = runs]
       /\ UNCHANGED waiting
  ELSE /\ waiting' = Append(waiting, l)
       /\ pc' = [pc EXCEPT ![l] = waits]
       /\ UNCHANGED permits

\* Mutant: the permit is given back, but nobody is woken.
Release_NoWake(l, next) ==
  /\ permits' = permits + 1
  /\ pc' = [pc EXCEPT ![l] = next]
  /\ UNCHANGED waiting

\* Leaving the block, by return or by exception: l goes on with next.
Release(l, next) ==
  IF waiting = <<>>
  THEN /\ permits' = permits + 1
       /\ pc' = [pc EXCEPT ![l] = next]
       /\ UNCHANGED waiting
  ELSE LET first == Head(waiting)
       IN /\ waiting' = Tail(waiting)
          /\ pc' = [pc EXCEPT ![l] = next,
               ![first] = IF pc[first] = "begin_waits" THEN "begin_runs" ELSE "complete_runs"]
          /\ UNCHANGED permits

EndWith(l, outcome) ==
  /\ result' = [result EXCEPT ![l] = outcome]
  /\ ended' = [ended EXCEPT ![l] = now]

\* _idp_info: metadata named by URL only is not fetched.
IdpInfo ==
  IF settings.idp_metadata_xml = None THEN ConfigurationError
  ELSE ParseIdpMetadata(settings.idp_metadata_xml, settings.idp_entity_id)

\* The validator, with the settings and the metadata that complete reads.
Sp == [entityId |-> settings.sp_entity_id, acs |-> settings.acs, idp |-> IdpInfo,
       wantAssertionsSigned |-> settings.want_assertions_signed,
       wantResponseSigned |-> settings.want_response_signed]

-----------------------------------------------------------------------------
(* The login. *)

Begin(l) ==
  /\ pc[l] = "idle"
  /\ Acquire(l, "begin_waits", "begin_runs")
  /\ UNCHANGED <<now, settings, provider, answers, posted, result, ended>>

\* _begin_sync: the visitor is sent away with a request for the provider.
BeginEnds(l) ==
  /\ pc[l] = "begin_runs"
  /\ IF IdpInfo = ConfigurationError
     THEN Release(l, "ended") /\ EndWith(l, ConfigurationError)
     ELSE Release(l, "away") /\ UNCHANGED <<result, ended>>
  /\ UNCHANGED <<now, settings, provider, answers, posted>>

\* complete, with a response that may be to the request of another login, or to
\* none; without the form field it ends before it takes a permit.
Complete(l, a) ==
  /\ pc[l] = "away"
  /\ posted' = [posted EXCEPT ![l] = a]
  /\ Acquire(l, "complete_waits", "complete_runs")
  /\ UNCHANGED <<now, settings, provider, answers, result, ended>>

CompleteWithoutResponse(l) ==
  /\ pc[l] = "away"
  /\ pc' = [pc EXCEPT ![l] = "ended"]
  /\ EndWith(l, ProtocolError)
  /\ UNCHANGED <<now, settings, provider, answers, permits, waiting, posted>>

\* External: what the provider sends for an answer, by its own clock.  A visitor
\* who could not be signed in is answered without an assertion.
Response(a) ==
  LET t == a.at + provider.skew
      assertion == [
        issuers |-> <<provider.entityId>>,
        conditions |-> <<[notBefore |-> {t}, notOnOrAfter |-> {t + Lifetime},
                          audiences |-> provider.audiences]>>,
        authnStatements |-> 1,
        confirmations |-> <<[method |-> {"bearer"}, inResponseTo |-> a.request,
                             recipient |-> provider.destination,
                             notBefore |-> IF provider.confirmsFrom THEN {t} ELSE {},
                             notOnOrAfter |-> {t + Lifetime}]>>,
        nameIds |-> IF provider.namesSubject
                    THEN <<[text |-> a.person, format |-> "persistent"]>> ELSE <<>>,
        attributes |-> People[a.person]]
  IN [schemaValid |-> TRUE,
      status |-> IF a.person = None THEN "AuthnFailed" ELSE "Success",
      assertions |-> IF a.person = None \/ provider.encrypts THEN <<>> ELSE <<assertion>>,
      encrypted |-> IF a.person # None /\ provider.encrypts THEN 1 ELSE 0,
      issuers |-> <<provider.entityId>>,
      inResponseTo |-> IF provider.echoes THEN a.request ELSE {},
      destination |-> provider.destination,
      signatures |-> [i \in DOMAIN provider.signatures |->
        [on |-> provider.signatures[i].on, uri |-> provider.signatures[i].uri,
         key |-> provider.key, algorithm |-> provider.algorithm]]]

\* External: the answer to a request, or to none when the visitor began there.
ProviderAnswers(request, person) ==
  /\ Cardinality(answers) < provider.answers
  /\ \A l \in request : pc[l] = "away"
  /\ answers' = answers \cup {[request |-> request, person |-> person, at |-> now]}
  /\ UNCHANGED <<now, settings, provider, permits, waiting, pc, posted, result, ended>>

\* Mutant: an exception leaves the block without giving the permit back.
Refuse_PermitLost(l) ==
  /\ pc' = [pc EXCEPT ![l] = "ended"]
  /\ UNCHANGED <<permits, waiting>>
  /\ EndWith(l, ProtocolError)

Refuse(l) == Release(l, "ended") /\ EndWith(l, ProtocolError)

\* parse_and_validate reads the clock twice, with the thread running in between.
CheckConditions(l) ==
  /\ pc[l] = "complete_runs"
  /\ IF AcceptConditions(Response(posted[l]), l, Sp, now)
     THEN /\ pc' = [pc EXCEPT ![l] = "confirm_runs"]
          /\ UNCHANGED <<permits, waiting, result, ended>>
     ELSE Refuse(l)
  /\ UNCHANGED <<now, settings, provider, answers, posted>>

\* The rest of complete, which returns the claims.
CheckConfirmation(l) ==
  /\ pc[l] = "confirm_runs"
  /\ LET doc == Response(posted[l])
     IN IF AcceptConfirmation(doc, l, Sp, now) /\ AcceptSignatures(doc, Sp)
        THEN Release(l, "ended") /\ EndWith(l, Dict(ExtractClaims(doc)))
        ELSE Refuse(l)
  /\ UNCHANGED <<now, settings, provider, answers, posted>>

Tick ==
  /\ now < MaxTime
  /\ now' = now + 1
  /\ UNCHANGED <<settings, provider, answers, permits, waiting, pc, posted, result, ended>>

-----------------------------------------------------------------------------
Thread(l) == BeginEnds(l) \/ CheckConditions(l) \/ CheckConfirmation(l)

Visitor(l) ==
  \/ Begin(l)
  \/ \E a \in answers : Complete(l, a)
  \/ CompleteWithoutResponse(l)

Next ==
  \/ \E l \in Logins : Visitor(l) \/ Thread(l)
  \/ \E request \in {{l} : l \in Logins} \cup {{}}, person \in DOMAIN People \cup {None} :
       ProviderAnswers(request, person)
  \/ Tick

\* A thread computes and returns.
Spec == Init /\ [][Next]_vars /\ \A l \in Logins : WF_vars(Thread(l))

-----------------------------------------------------------------------------
(* Properties. *)

\* However logins fail, a permit is in use or free, and none is free while
\* somebody waits: the semaphore is left the way it was entered.
PermitsComeBack ==
  /\ permits + Cardinality({l \in Logins : pc[l] \in Running}) = MaxParallel
  /\ waiting # <<>> => permits = 0

Completed(l) == result[l] \notin Errors \cup {None}

\* AuthFlow maps the claims as soon as it has them.
Identity(l) == Normalize(result[l].dict, settings.mapping)

Identified(l) == Completed(l) /\ Identity(l) # MappingError

\* The values of the last attribute of that name, if there is one.
Asserted(person, name) ==
  LET attributes == People[person]
      places == {i \in DOMAIN attributes : attributes[i].name = name}
      last == CHOOSE i \in places : \A j \in places : j <= i
      values == IF places = {} THEN <<>> ELSE NonBlank(attributes[last].values)
  IN [i \in DOMAIN values |-> values[i]]

\* No transform of external_id makes another of this one.
KeepsExternalId(transforms, id) ==
  \A i \in DOMAIN transforms :
    transforms[i].field = "external_id" => Transforms[transforms[i].transform][id] = id

\* The mapping takes external_id from the NameID, and leaves that of this person.
MapsNameID(mapping, person) ==
  /\ Parts[mapping.external_id] = <<"name_id">>
  /\ KeepsExternalId(mapping.transforms, person)

\* The names that no attribute is read under.
NoAttribute == {"", "name_id", "name_id_format", "issuer"}

\* The mapping takes the roles from attributes of one name.
MapsRoles(mapping) ==
  /\ mapping.roles # None
  /\ Len(Parts[mapping.roles]) = 1
  /\ Parts[mapping.roles][1] \notin NoAttribute

\* Whatever tabs and clocks do, a login ends as the person that the trusted
\* provider signed in for its own request, while the assertion was valid by the
\* clock here and not yet to come by more than the drift; under the NameID, even
\* if an attribute is called name_id, and with the roles of that person, whatever
\* else the mapping does.  A provider that leaves its issuers blank is trusted
\* for its key.
IdentityAsAsserted ==
  \A l \in Logins : Identified(l) =>
    LET a == posted[l]
        identity == Identity(l).fields
        issued == a.at + provider.skew
    IN /\ a \in answers /\ a.request = {l} /\ a.person # None
       /\ issued - Drift <= ended[l] /\ ended[l] < issued + Lifetime
       /\ provider.key = IdpInfo.cert /\ provider.entityId \in {IdpInfo.entityId, ""}
       /\ settings.sp_entity_id \in provider.audiences
       /\ MapsNameID(settings.mapping, a.person) => identity.external_id = Str(a.person)
       /\ MapsRoles(settings.mapping) =>
            identity.roles = List(Asserted(a.person, Parts[settings.mapping.roles][1]))

\* What the provider sends is what the settings ask for.
Compatible ==
  /\ IdpInfo # ConfigurationError
  /\ provider.entityId = IdpInfo.entityId /\ provider.key = IdpInfo.cert
  /\ provider.algorithm \in AllowedAlgorithms
  /\ LET signed == {s.on : s \in ToSet(provider.signatures)}
     IN /\ Cardinality(signed) = Len(provider.signatures)
        /\ signed # {} /\ signed \subseteq {"response", "assertion"}
        /\ \A s \in ToSet(provider.signatures) : s.uri = "own"
        /\ settings.want_assertions_signed => "assertion" \in signed
        /\ settings.want_response_signed => "response" \in signed
  /\ settings.sp_entity_id \in provider.audiences
  /\ \A url \in provider.destination : url.to = settings.acs
  /\ ~provider.encrypts
  /\ provider.confirmsFrom => provider.skew <= 0

\* A sign-in of a compatible provider, posted to its own login, is refused only
\* when it comes too late by the clock here or when the clock there is ahead by
\* more than the drift.  The drift does not help at the other end: a provider
\* whose clock is behind has its assertions refused before they end.
RefusedOnlyForCause ==
  \A l \in Logins :
    /\ result[l] = ProtocolError /\ posted[l] # None
    /\ Compatible /\ posted[l].request = {l} /\ posted[l].person # None
    => LET issued == posted[l].at + provider.skew
       IN ended[l] < issued - Drift \/ ended[l] >= issued + Lifetime

\* Whoever waits for a permit gets one, and every thread ends: no failure and no
\* order of arrivals leaves a login behind.
LoginsEnd ==
  \A l \in Logins : (pc[l] \in Waiting \cup Running) ~> (pc[l] \in {"away", "ended"})

\* The README's settings for a SAML provider, which name its metadata by URL, are
\* settings that work.
DocumentedSettingsBegin ==
  settings.idp_metadata_xml = None => \A l \in Logins : result[l] # ConfigurationError
=============================================================================
