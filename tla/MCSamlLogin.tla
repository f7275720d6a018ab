----------------------------- MODULE MCSamlLogin -----------------------------
(* SamlLogin with two people, a provider that does as it should, others that  *)
(* differ from it in one respect, and the settings an application may have.   *)
EXTENDS SamlLogin

CONSTANTS l1, l2

Url(form) == [to |-> "acs", form |-> form]
Signature(on) == [on |-> on, uri |-> "own"]
Attribute(name, values) == [name |-> name, values |-> values]

MCParts ==
  [p \in {"sub", "name_id", "mail", "cn", "groups", "urn.mail"} |->
     IF p = "urn.mail" THEN <<"urn", "mail">> ELSE <<p>>]
MCTransforms == [lower |-> "ALICE@acme" :> "alice@acme" @@ "alice" :> "alice" @@ "bob" :> "bob"]
MCPeople ==
  "alice" :> <<Attribute("mail", <<"ALICE@acme">>), Attribute("name_id", <<"badge-1">>),
               Attribute("groups", <<"staff">>), Attribute("groups", <<"admin", "audit">>)>>
  @@ "bob" :> <<Attribute("groups", <<"staff">>), Attribute("", <<"x">>),
                Attribute("mail", <<"">>)>>

Good == [entityId |-> "idp", key |-> "key1", algorithm |-> "rsa-sha256",
         signatures |-> <<Signature("assertion")>>, skew |-> 0, echoes |-> TRUE,
         destination |-> {Url("plain")}, audiences |-> {"app"}, encrypts |-> FALSE,
         namesSubject |-> TRUE, confirmsFrom |-> FALSE, answers |-> 1]
Skewed == {[Good EXCEPT !.skew = s] : s \in {-1, 1, 2}}
Terse == [Good EXCEPT !.echoes = FALSE, !.destination = {}, !.answers = 2]
OtherProviders ==
  Skewed \cup
  {Terse,
   [Good EXCEPT !.signatures = <<Signature("response"), Signature("assertion")>>],
   [Good EXCEPT !.signatures = <<Signature("response")>>, !.destination = {Url("slash")}],
   [Good EXCEPT !.signatures = <<>>],
   [Good EXCEPT !.signatures = <<Signature("assertion"), Signature("advice")>>],
   [Good EXCEPT !.signatures = <<[on |-> "assertion", uri |-> ""]>>],
   [Good EXCEPT !.algorithm = "rsa-sha1"],
   [Good EXCEPT !.key = "key2"],
   [Good EXCEPT !.entityId = "other"],
   [Good EXCEPT !.entityId = ""],
   [Good EXCEPT !.audiences = {"app2"}],
   [Good EXCEPT !.destination = {[to |-> "old", form |-> "plain"]}],
   [Good EXCEPT !.encrypts = TRUE],
   [Good EXCEPT !.namesSubject = FALSE],
   [Good EXCEPT !.confirmsFrom = TRUE, !.skew = 1]}

Descriptor == [sso |-> <<[binding |-> "post", location |-> "sso/post"],
                         [binding |-> "redirect", location |-> "sso"]>>,
               keys |-> <<[use |-> "encryption", cert |-> "key0"],
                          [use |-> "signing", cert |-> "key1"],
                          [use |-> "", cert |-> "key2"]>>]
Metadata == <<[id |-> "attributes", idp |-> <<>>], [id |-> "idp", idp |-> <<Descriptor>>]>>
SamlMapping == [external_id |-> "name_id", email |-> "mail", name |-> "cn",
                roles |-> "groups", extra |-> <<>>, transforms |-> <<>>]
Usual == [sp_entity_id |-> "app", acs |-> "acs", idp_metadata_xml |-> Metadata,
          idp_entity_id |-> "idp", want_assertions_signed |-> TRUE,
          want_response_signed |-> FALSE, mapping |-> SamlMapping]
Readme == [Usual EXCEPT !.idp_metadata_xml = None, !.idp_entity_id = None,
                        !.mapping = [SamlMapping EXCEPT !.external_id = "sub",
                                       !.email = "email", !.name = "name", !.roles = None]]
OtherSettings ==
  {Readme,
   [Usual EXCEPT !.idp_entity_id = None],
   [Usual EXCEPT !.want_assertions_signed = FALSE, !.want_response_signed = TRUE],
   [Usual EXCEPT !.mapping.external_id = "sub"],
   [Usual EXCEPT !.mapping.extra = [team |-> "groups", email |-> "urn.mail"],
                 !.mapping.transforms = <<[field |-> "email", transform |-> "lower"],
                                          [field |-> "team", transform |-> "lower"],
                                          [field |-> "external_id", transform |-> "lower"]>>],
   [Usual EXCEPT !.mapping.transforms = <<[field |-> "name", transform |-> "title"]>>]}

MCDeployments ==
  {[settings |-> Usual, provider |-> p] : p \in {Good} \cup OtherProviders}
  \cup {[settings |-> s, provider |-> Good] : s \in OtherSettings}
=============================================================================
