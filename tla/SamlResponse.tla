---------------------------- MODULE SamlResponse ----------------------------
(***************************************************************************)
(* What the SAML service provider checks and reads of a response:          *)
(* SamlResponseValidator (src/authub/protocols/saml/_response.py), the     *)
(* signatures (_xmlsec.py) and the metadata of the provider                *)
(* (_idp_metadata.py), as operators over abstract documents.               *)
(*                                                                         *)
(* An optional element or attribute is a set of at most one value, a       *)
(* repeatable element a sequence.  A signature names the element it is on, *)
(* whether its reference is the ID of that element ("own") or the whole    *)
(* document (""), its algorithms and the key it verifies with.  A URL is   *)
(* [to, form]: where it leads, however it is written.                      *)
(***************************************************************************)
EXTENDS Integers, ClaimMapping

CONSTANTS
  Drift,              \* ALLOWED_CLOCK_DRIFT
  AllowedAlgorithms   \* ALLOWED_SIGNATURE_ALGORITHMS and digests

ConfigurationError == [error |-> "configuration_error"]

\* parse_idp_metadata: of the first entity that fits, the first redirect
\* endpoint and the first certificate that is not for encryption only.
ParseIdpMetadata(entities, entityId) ==
  LET fits == SelectSeq(entities, LAMBDA e : entityId \in {None, e.id})
      entity == Head(fits)
      descriptor == Head(entity.idp)
      sso == SelectSeq(descriptor.sso, LAMBDA s : s.binding = "redirect")
      signing == SelectSeq(descriptor.keys, LAMBDA k : k.use # "encryption")
  IN IF \/ fits = <<>> \/ entity.idp = <<>> \/ sso = <<>> \/ signing = <<>>
        \/ "" \in {entity.id, Head(sso).location}
     THEN ConfigurationError
     ELSE [entityId |-> entity.id, sso |-> Head(sso).location, cert |-> Head(signing).cert]

-----------------------------------------------------------------------------
\* version, ID and schema; status; one assertion, and in the clear.
WellFormed(doc) ==
  /\ doc.schemaValid
  /\ doc.status = "Success"
  /\ Len(doc.assertions) = 1
  /\ doc.encrypted = 0

SignaturesOn(doc, element) == {s \in ToSet(doc.signatures) : s.on = element}

\* _query_assertion: the assertion that the reference of its signature names,
\* or else that of the response; a reference to the whole document names none.
QueriesFind(doc) ==
  LET own == SignaturesOn(doc, "assertion")
      named == IF own # {} THEN own ELSE SignaturesOn(doc, "response")
  IN \A s \in named : s.uri = "own"

\* Mutant: the clock of the provider must not be ahead of ours.
WithinConditions_NoDrift(c, now) ==
  /\ \A t \in c.notBefore : t <= now
  /\ \A t \in c.notOnOrAfter : now < t + Drift

\* _validate_timestamps: both ends of the window are widened by the drift.
WithinConditions(c, now) ==
  /\ \A t \in c.notBefore : t <= now + Drift
  /\ \A t \in c.notOnOrAfter : now < t + Drift

\* The issuer of the response, if named, and that of the assertion.
IssuersAgree(doc, entityId) ==
  /\ Len(doc.issuers) <= 1
  /\ Len(doc.assertions[1].issuers) = 1
  /\ ToSet(doc.issuers \o doc.assertions[1].issuers) \ {""} \subseteq {entityId}

\* The checks up to the subject confirmation, with one reading of the clock.
AcceptConditions(doc, request, sp, now) ==
  LET assertion == doc.assertions[1]
  IN /\ WellFormed(doc)
     /\ doc.inResponseTo \subseteq {request}
     /\ QueriesFind(doc)
     /\ Len(assertion.conditions) = 1
     /\ WithinConditions(assertion.conditions[1], now)
     /\ assertion.authnStatements = 1
     /\ \A url \in doc.destination : url.to = sp.acs
     /\ sp.entityId \in assertion.conditions[1].audiences
     /\ IssuersAgree(doc, sp.idp.entityId)

\* Mutant: that the response is for this request was checked already.
Confirms_AnyRequest(s, request, acs, now) ==
  /\ s.method \subseteq {"bearer"}
  /\ \A url \in s.recipient : url.to = acs
  /\ \A t \in s.notOnOrAfter : now < t
  /\ \A t \in s.notBefore : t <= now

\* A bearer confirmation for this request, with no drift and with InResponseTo,
\* which the response itself may leave out.
Confirms(s, request, acs, now) ==
  /\ s.method \subseteq {"bearer"}
  /\ s.inResponseTo = {request}
  /\ \A url \in s.recipient : url.to = acs
  /\ \A t \in s.notOnOrAfter : now < t
  /\ \A t \in s.notBefore : t <= now

\* _check_subject_confirmation: one confirmation that holds is enough.
AcceptConfirmation(doc, request, sp, now) ==
  \E s \in ToSet(doc.assertions[1].confirmations) : Confirms(s, request, sp.acs, now)

\* _process_signed_elements: at most one signature on the response and one on
\* the assertion, each over its own element, and none elsewhere.
SignedElementsOnly(doc) ==
  \A i, j \in DOMAIN doc.signatures :
    LET s == doc.signatures[i]
    IN /\ s.on \in {"response", "assertion"}
       /\ s.uri \in {"own", ""}
       /\ doc.signatures[j].on = s.on => i = j

AllowedSignature(s) == s.algorithm \in AllowedAlgorithms

\* validate_sign and validate_node_sign, with the one certificate in use.
Verifies(s, cert) == AllowedSignature(s) /\ s.key = cert

\* _verify_signatures: those the settings want, or else any; all must verify.
AcceptSignatures(doc, sp) ==
  LET signed == {s.on : s \in ToSet(doc.signatures)}
  IN /\ SignedElementsOnly(doc)
     /\ signed # {}
     /\ sp.wantResponseSigned => "response" \in signed
     /\ sp.wantAssertionsSigned => "assertion" \in signed
     /\ \A s \in ToSet(doc.signatures) : Verifies(s, sp.idp.cert)

-----------------------------------------------------------------------------
\* The values of an attribute that are given.
NonBlank(values) == SelectSeq(values, LAMBDA v : v # "")

\* Of attributes with one name the last, without its blank values.
AttributeClaims(attributes) ==
  [n \in {a.name : a \in ToSet(attributes)} \ {""} |->
     LET last == SelectLastInSeq(attributes, LAMBDA a : a.name = n)
         values == NonBlank(attributes[last].values)
     IN List([i \in DOMAIN values |-> Str(values[i])])]

\* _extract_claims: the claims of the assertion itself hide attributes that
\* are called name_id, name_id_format or issuer.
ExtractClaims(doc) ==
  LET assertion == doc.assertions[1]
      given(s) == IF s = "" THEN Missing ELSE Str(s)
      nameId(field) == IF assertion.nameIds = <<>> THEN Missing
                       ELSE given(assertion.nameIds[1][field])
      own == [name_id |-> nameId("text"), name_id_format |-> nameId("format"),
              issuer |-> given(assertion.issuers[1])]
      attributes == AttributeClaims(assertion.attributes)
  IN [n \in DOMAIN own \cup DOMAIN attributes |->
        IF n \in DOMAIN own THEN own[n] ELSE attributes[n]]
=============================================================================
