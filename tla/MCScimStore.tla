----------------------------- MODULE MCScimStore -----------------------------
(* ScimStore with two members, and requests of one and of two operations.     *)
EXTENDS ScimStore

CONSTANTS m1, m2, alice, bob

Op(op, members) == [op |-> op, members |-> members]

MCMemberLists == {<<m1>>, <<m2, m2>>}
MCUserPatches == {<<>>, <<alice>>, <<NoName>>, <<NoName, bob>>}
MCGroupPatches ==
  {<<Op("add", <<m1>>)>>, <<Op("add", <<m1, m2>>)>>, <<Op("add", <<m2, m2>>)>>,
   <<Op("add", <<m1>>), Op("add", <<m1>>)>>,
   <<Op("remove", <<m2>>)>>, <<Op("remove", <<m1>>), Op("add", <<m2, m1>>)>>,
   <<Op("replace", <<m2>>), Op("remove", <<m2>>)>>,
   <<[op |-> "displayName", name |-> bob]>>,
   <<Op("remove", <<m1>>), Op("add", <<m1>>), Op("add", <<m2>>)>>,
   <<Op("remove", <<m2>>), [op |-> "members[?]"]>>}
SameTenants == Permutations(Tenants)
=============================================================================
