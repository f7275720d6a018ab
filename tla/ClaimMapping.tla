---------------------------- MODULE ClaimMapping ----------------------------
(***************************************************************************)
(* Mapper.normalize (src/authub/mapping.py): from the claims a protocol    *)
(* returns to the canonical identity, as operators.  A claim is a JSON     *)
(* value, tagged with what it is.                                          *)
(***************************************************************************)
EXTENDS Naturals, Sequences, SequencesExt

CONSTANTS
  None,        \* an optional path that is not given
  Parts,       \* Parts[path]: the path split at its dots
  Transforms,  \* _TRANSFORMS: name -> function; it raises outside its domain
  Emails       \* the strings that EmailStr accepts

Str(s) == [str |-> s]
List(items) == [list |-> items]
Dict(claims) == [dict |-> claims]
Missing == [none |-> TRUE]
Is(kind, v) == kind \in DOMAIN v

MappingError == [error |-> "mapping_error"]

\* str(v).
Text(v) == IF Is("str", v) THEN v.str ELSE ToString(v)

\* A key is looked up by one part of the path, so a key with a dot is not found.
Extract(claims, path) ==
  LET parts == Parts[path]
      Member(v, part) == IF Is("dict", v) /\ part \in DOMAIN v.dict
                         THEN v.dict[part] ELSE Missing
      at[n \in 0 .. Len(parts)] ==
        IF n = 0 THEN Dict(claims) ELSE Member(at[n - 1], parts[n])
  IN at[Len(parts)]

Scalar(v) ==
  CASE ~Is("list", v)                    -> v
    [] Is("list", v) /\ v.list = <<>>    -> Missing
    [] OTHER                             -> Head(v.list)

AsList(v) ==
  CASE v = Missing    -> <<>>
    [] Is("list", v)  -> [i \in DOMAIN v.list |-> Text(v.list[i])]
    [] OTHER          -> <<Text(v)>>

OptionalStr(claims, path) ==
  LET v == IF path = None THEN Missing ELSE Scalar(Extract(claims, path))
  IN IF v = Missing THEN Missing ELSE Str(Text(v))

\* One entry of Mapping.transforms, in the order they are given: a canonical
\* field hides an attribute of its name, and only strings are changed.
ApplyTransform(identity, t) ==
  LET part == IF t.field \in DOMAIN identity.fields THEN "fields" ELSE "attributes"
      target == IF t.field \in DOMAIN identity[part] THEN identity[part][t.field]
                ELSE Missing
  IN IF identity = MappingError \/ t.transform \notin DOMAIN Transforms THEN MappingError
     ELSE IF ~Is("str", target) THEN identity
     ELSE IF target.str \notin DOMAIN Transforms[t.transform] THEN MappingError
     ELSE [identity EXCEPT ![part][t.field] = Str(Transforms[t.transform][target.str])]

\* CanonicalIdentity: min_length of external_id, EmailStr of email.
ValidIdentity(identity) ==
  /\ identity # MappingError
  /\ identity.fields.external_id # Str("")
  /\ identity.fields.email \in {Missing} \cup {Str(e) : e \in Emails}

\* The entries of Mapping.transforms, one after the other.
Transformed(identity, transforms) ==
  LET after[n \in 0 .. Len(transforms)] ==
        IF n = 0 THEN identity ELSE ApplyTransform(after[n - 1], transforms[n])
  IN after[Len(transforms)]

Normalize(claims, mapping) ==
  LET id == OptionalStr(claims, mapping.external_id)
      mapped == [fields |-> [external_id |-> id,
                             email |-> OptionalStr(claims, mapping.email),
                             name |-> OptionalStr(claims, mapping.name),
                             roles |-> List(IF mapping.roles = None THEN <<>>
                                            ELSE AsList(Extract(claims, mapping.roles)))],
                 attributes |-> [key \in DOMAIN mapping.extra |->
                                   Extract(claims, mapping.extra[key])]]
      identity == Transformed(mapped, mapping.transforms)
  IN IF id \in {Missing, Str("")} \/ ~ValidIdentity(identity)
     THEN MappingError ELSE identity
=============================================================================
