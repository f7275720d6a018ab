------------------------------ MODULE ScimStore ------------------------------
(***************************************************************************)
(* The SCIM server: the handlers of ScimServer (src/authub/scim/server.py)  *)
(* over the in-memory user and group store (src/authub/scim/store.py).     *)
(*                                                                         *)
(* A handler awaits the tenant of its bearer token and the body, reads     *)
(* nothing that changes meanwhile, and makes one store call that never     *)
(* suspends: it is one action.  What takes several steps is a client that  *)
(* lists page by page while others write.                                  *)
(*                                                                         *)
(* A dict is the sequence of its values in insertion order.  A resource    *)
(* has the key it is stored under and its name, the userName or the        *)
(* displayName; no other attribute is ever compared.                       *)
(***************************************************************************)
EXTENDS Integers, SequencesExt

CONSTANTS
  Tenants,
  Names,        \* values of userName and displayName
  NoName,       \* what PATCH leaves of a removed userName
  Members,      \* values of members: the store looks none of them up
  MemberLists,  \* bound: the member lists that clients send
  UserPatches,  \* bound: PATCH requests, as the userNames they write in turn
  GroupPatches, \* bound: PATCH requests, as their Operations
  FirstIndexes, \* the startIndex of a client's first page
  Counts,       \* the counts that clients ask for
  MaxPageSize,  \* _MAX_PAGE_SIZE
  MaxUsers,     \* bound: users created
  MaxGroups,    \* bound: groups created
  MaxCreated    \* bound: users and groups created

MemberOp == [op : {"add", "remove", "replace"}, members : Seq(Members)]
NameOp == [op : {"displayName"}, name : Names]
InvalidOp == [op : {"members[?]"}]

ASSUME ScimAssumption ==
  /\ NoName \notin Names
  /\ MemberLists \subseteq Seq(Members)
  /\ UserPatches \subseteq Seq(Names \cup {NoName})
  /\ GroupPatches \subseteq Seq(MemberOp \cup NameOp \cup InvalidOp)
  /\ FirstIndexes \subseteq {i \in Int : i <= 1} /\ Counts \subseteq Nat \ {0}
  /\ MaxPageSize \in Nat \ {0}

VARIABLES
  users,     \* _users of InMemoryScimUserStore
  groups,    \* _groups of InMemoryScimGroupStore
  drawn,     \* how many keys of each kind uuid4 has drawn
  renamed,   \* history: the users whose userName is one that PATCH wrote
  repeated,  \* history: the groups that were sent a member twice in one list
  accepted,  \* history: the tenant of the last write, or Refused
  walk       \* external: a client that lists page by page

vars == <<users, groups, drawn, renamed, repeated, accepted, walk>>

Refused == "refused"
User == [tenant : Tenants, key : Nat, name : Names]
Group == [tenant : Tenants, key : Nat, name : Names, members : Seq(Members)]

Idle == [pc |-> "idle"]
Walk == [pc : {"list", "listed"}, kind : {"users", "groups"}, tenant : Tenants,
         start : Int, count : Nat, seen : Seq(Nat), promised : SUBSET Nat]

TypeOK ==
  /\ users \in Seq(User)
  /\ groups \in Seq(Group)
  /\ drawn \in [{"users", "groups"} -> Nat]
  /\ renamed \subseteq Nat /\ repeated \subseteq Nat
  /\ accepted \in Tenants \cup {Refused}
  /\ walk = Idle \/ walk \in Walk

Init ==
  /\ users = <<>> /\ groups = <<>>
  /\ drawn = [kind \in {"users", "groups"} |-> 0]
  /\ renamed = {} /\ repeated = {}
  /\ accepted = Refused
  /\ walk = Idle

-----------------------------------------------------------------------------
(* The dicts. *)

\* A list comprehension with a condition: what s has at these places, in order.
Selected(s, places) ==
  LET Place(n) == CHOOSE i \in places : Cardinality({j \in places : j <= i}) = n
  IN [n \in 1 .. Cardinality(places) |-> s[Place(n)]]

\* _by_tenant.
ByTenant(s, t) == Selected(s, {i \in DOMAIN s : s[i].tenant = t})

\* Where (t, key) is in the dict, if it is.
At(s, t, key) == {i \in DOMAIN s : s[i].tenant = t /\ s[i].key = key}

\* Mutant: the dict entry is deleted and set again.
Stored_AtEnd(s, i, resource) == Append(RemoveAt(s, i), resource)

\* Assignment to a key that is in the dict leaves it at its place.
Stored(s, i, resource) == [s EXCEPT ![i] = resource]

\* A client that lists is promised no more than this once key is deleted: what
\* comes after a resource it has seen moves up, under its cursor.
AfterDelete(kind, t, key) ==
  IF walk # Idle /\ walk.kind = kind /\ walk.tenant = t
  THEN [walk EXCEPT !.promised = IF key \in ToSet(walk.seen) THEN {} ELSE @ \ {key}]
  ELSE walk

\* 400, 404 or 409: the store call raises or returns None.
Refuse ==
  /\ accepted' = Refused
  /\ UNCHANGED <<users, groups, drawn, renamed, repeated, walk>>

-----------------------------------------------------------------------------
(* Users. *)

\* Mutant: only create looks for the name.
Taken_NewOnly(t, name, key) ==
  key = 0 /\ \E u \in ToSet(users) : u.tenant = t /\ u.name = name

\* Another user than key of the tenant has the name.
Taken(t, name, key) ==
  \E u \in ToSet(users) : u.tenant = t /\ u.name = name /\ u.key # key

CreateUser(t, name) ==
  /\ drawn["users"] < MaxUsers /\ drawn["users"] + drawn["groups"] < MaxCreated
  /\ ~Taken(t, name, 0)
  /\ drawn' = [drawn EXCEPT !["users"] = @ + 1]
  /\ users' = Append(users, [tenant |-> t, key |-> drawn'["users"], name |-> name])
  /\ accepted' = t
  /\ UNCHANGED <<groups, renamed, repeated, walk>>

CreateUserConflict(t, name) == Taken(t, name, 0) /\ Refuse

ReplaceUser(t, key, name) ==
  \E i \in At(users, t, key) :
    /\ ~Taken(t, name, key)
    /\ users' = Stored(users, i, [users[i] EXCEPT !.name = name])
    /\ renamed' = renamed \ {key}
    /\ accepted' = t
    /\ UNCHANGED <<groups, drawn, repeated, walk>>

ReplaceUserFails(t, key, name) ==
  /\ At(users, t, key) = {} \/ Taken(t, name, key)
  /\ Refuse

\* The userName once the operations have written it in turn.
PatchedName(user, names) == IF names = <<>> THEN user.name ELSE Last(names)

\* Mutant: what is to be stored is not validated again.
ValidName_Any(name) == TRUE

\* ScimUser.model_validate: a user has a userName.
ValidName(name) == name # NoName

\* PATCH checks that the name is one, not that it is free.
PatchUser(t, key, names) ==
  \E i \in At(users, t, key) :
    LET name == PatchedName(users[i], names)
    IN /\ ValidName(name)
       /\ users' = Stored(users, i, [users[i] EXCEPT !.name = name])
       /\ renamed' = IF name # users[i].name THEN renamed \cup {key} ELSE renamed
       /\ accepted' = t
       /\ UNCHANGED <<groups, drawn, repeated, walk>>

PatchUserFails(t, key, names) ==
  /\ \A i \in At(users, t, key) : ~ValidName(PatchedName(users[i], names))
  /\ Refuse

DeleteUser(t, key) ==
  \E i \in At(users, t, key) :
    /\ users' = RemoveAt(users, i)
    /\ renamed' = renamed \ {key}
    /\ accepted' = t
    /\ walk' = AfterDelete("users", t, key)
    /\ UNCHANGED <<groups, drawn, repeated>>

DeleteUserFails(t, key) == At(users, t, key) = {} /\ Refuse

-----------------------------------------------------------------------------
(* Groups. *)

CreateGroup(t, name, members) ==
  /\ drawn["groups"] < MaxGroups /\ drawn["users"] + drawn["groups"] < MaxCreated
  /\ drawn' = [drawn EXCEPT !["groups"] = @ + 1]
  /\ groups' = Append(groups, [tenant |-> t, key |-> drawn'["groups"], name |-> name,
                               members |-> members])
  /\ repeated' = IF IsInjective(members) THEN repeated
                 ELSE repeated \cup {drawn'["groups"]}
  /\ accepted' = t
  /\ UNCHANGED <<users, renamed, walk>>

ReplaceGroup(t, key, name, members) ==
  \E i \in At(groups, t, key) :
    /\ groups' = Stored(groups, i,
                        [groups[i] EXCEPT !.name = name, !.members = members])
    /\ repeated' = IF IsInjective(members) THEN repeated \ {key} ELSE repeated \cup {key}
    /\ accepted' = t
    /\ UNCHANGED <<users, drawn, renamed, walk>>

Without(members, removed) ==
  Selected(members, {i \in DOMAIN members : members[i] \notin removed})

\* Mutant: members are added without a look at those that are there.
AddMembers_Always(members, new) == members \o new

\* existing_ids is made before the loop: members are compared with those there,
\* not with each other.
AddMembers(members, new) == members \o Without(new, ToSet(members))

\* Mutant: list.remove takes away one occurrence.
RemoveMembers_First(members, removed) ==
  FoldLeft(LAMBDA s, m : IF m \in removed THEN RemoveFirst(s, m) ELSE s, members,
           SetToSeq(removed))

\* remove with a value, and remove at members[value eq "..."].
RemoveMembers(members, removed) == Without(members, removed)

\* One operation.
Apply(group, o) ==
  CASE o.op = "add" -> [group EXCEPT !.members = AddMembers(@, o.members)]
    [] o.op = "remove" -> [group EXCEPT !.members = RemoveMembers(@, ToSet(o.members))]
    [] o.op = "replace" -> [group EXCEPT !.members = o.members]
    [] o.op = "displayName" -> [group EXCEPT !.name = o.name]
    [] OTHER -> group

PatchedGroup(group, ops) ==
  LET after[n \in 0 .. Len(ops)] ==
        IF n = 0 THEN group ELSE Apply(after[n - 1], ops[n])
  IN after[Len(ops)]

\* ScimInvalidPathError: a member path that is no equality filter.
ValidOps(ops) == \A i \in DOMAIN ops : ops[i].op # "members[?]"

\* A list that names a member twice and reaches members as it is.
Repeats(ops) ==
  \E i \in DOMAIN ops : ops[i].op \in {"add", "replace"} /\ ~IsInjective(ops[i].members)

PatchGroup(t, key, ops) ==
  \E i \in At(groups, t, key) :
    /\ ValidOps(ops)
    /\ groups' = Stored(groups, i, PatchedGroup(groups[i], ops))
    /\ repeated' = IF Repeats(ops) THEN repeated \cup {key} ELSE repeated
    /\ accepted' = t
    /\ UNCHANGED <<users, drawn, renamed, walk>>

\* Mutant: the operations are done in place, up to the one that is refused.
PatchGroupFails_InPlace(t, key, ops) ==
  /\ ~ValidOps(ops)
  /\ groups' = [i \in DOMAIN groups |->
       IF i \in At(groups, t, key)
       THEN PatchedGroup(groups[i], SelectSeq(ops, LAMBDA o : o.op # "members[?]"))
       ELSE groups[i]]
  /\ accepted' = Refused
  /\ UNCHANGED <<users, drawn, renamed, repeated, walk>>

\* What the operations before an invalid one did is lost with the local list.
PatchGroupFails(t, key, ops) ==
  /\ At(groups, t, key) = {} \/ ~ValidOps(ops)
  /\ Refuse

ReplaceGroupFails(t, key) == At(groups, t, key) = {} /\ Refuse

DeleteGroup(t, key) ==
  \E i \in At(groups, t, key) :
    /\ groups' = RemoveAt(groups, i)
    /\ repeated' = repeated \ {key}
    /\ accepted' = t
    /\ walk' = AfterDelete("groups", t, key)
    /\ UNCHANGED <<users, drawn, renamed>>

DeleteGroupFails(t, key) == At(groups, t, key) = {} /\ Refuse

-----------------------------------------------------------------------------
(* Listing. *)

Dict(kind) == IF kind = "users" THEN users ELSE groups

\* all[offset : offset + count].
Page(s, start, count) ==
  LET offset == Max({0, start - 1})
  IN SubSeq(s, offset + 1, Min({offset + count, Len(s)}))

\* The bounds that list_users and list_groups put on startIndex and count.
StartIndex(start) == Max({1, start})
Count(count) == Min({MaxPageSize, Max({0, count})})

\* External: a client asks for its first page.
BeginWalk(kind, t, start, count) ==
  /\ walk = Idle
  /\ walk' = [pc |-> "list", kind |-> kind, tenant |-> t, start |-> start,
              count |-> count, seen |-> <<>>,
              promised |-> {r.key : r \in ToSet(ByTenant(Dict(kind), t))}]
  /\ UNCHANGED <<users, groups, drawn, renamed, repeated, accepted>>

\* The client goes on behind what the answer says it contains, until that is
\* nothing or reaches totalResults.
ListPage ==
  LET all == ByTenant(Dict(walk.kind), walk.tenant)
      start == StartIndex(walk.start)
      page == Page(all, start, Count(walk.count))
      next == start + Len(page)
  IN /\ walk.pc = "list"
     /\ walk' = [walk EXCEPT
          !.pc = IF page = <<>> \/ next > Len(all) THEN "listed" ELSE "list",
          !.start = next,
          !.seen = @ \o [i \in DOMAIN page |-> page[i].key]]
     /\ UNCHANGED <<users, groups, drawn, renamed, repeated, accepted>>

EndWalk ==
  /\ walk.pc = "listed"
  /\ walk' = Idle
  /\ UNCHANGED <<users, groups, drawn, renamed, repeated, accepted>>

-----------------------------------------------------------------------------
UserWrites(t) ==
  \/ \E name \in Names : CreateUser(t, name) \/ CreateUserConflict(t, name)
  \/ \E key \in 1 .. MaxUsers :
       \/ \E name \in Names : ReplaceUser(t, key, name) \/ ReplaceUserFails(t, key, name)
       \/ \E names \in UserPatches : PatchUser(t, key, names) \/ PatchUserFails(t, key, names)
       \/ DeleteUser(t, key) \/ DeleteUserFails(t, key)

GroupWrites(t) ==
  \/ \E name \in Names, members \in MemberLists : CreateGroup(t, name, members)
  \/ \E key \in 1 .. MaxGroups :
       \/ \E name \in Names, members \in MemberLists : ReplaceGroup(t, key, name, members)
       \/ \E ops \in GroupPatches : PatchGroup(t, key, ops) \/ PatchGroupFails(t, key, ops)
       \/ ReplaceGroupFails(t, key) \/ DeleteGroup(t, key) \/ DeleteGroupFails(t, key)

Lists ==
  \/ \E kind \in {"users", "groups"}, t \in Tenants, start \in FirstIndexes, count \in Counts :
       BeginWalk(kind, t, start, count)
  \/ ListPage \/ EndWalk

Next == (\E t \in Tenants : UserWrites(t) \/ GroupWrites(t)) \/ Lists

Spec == Init /\ [][Next]_vars

-----------------------------------------------------------------------------
(* Properties. *)

\* What create and replace check holds for all users of a tenant, but for those
\* whose userName PATCH has written.
NamesUniqueButForPatch ==
  \A i, j \in DOMAIN users :
    i # j /\ users[i].tenant = users[j].tenant /\ users[i].name = users[j].name =>
      {users[i].key, users[j].key} \cap renamed # {}

\* ScimConflictError, "a duplicate userName already exists within a tenant": no
\* two users of a tenant have one userName.
NamesUnique ==
  \A i, j \in DOMAIN users :
    users[i].tenant = users[j].tenant /\ users[i].name = users[j].name => i = j

\* However others write meanwhile, a client that follows the pages to the end sees
\* nothing twice, and misses nothing that was there all along unless something
\* it has seen is deleted.
PagesCoverTheListing ==
  walk # Idle =>
    /\ IsInjective(walk.seen)
    /\ walk.pc = "listed" => walk.promised \subseteq ToSet(walk.seen)

Occurrences(s, e) == Cardinality({i \in DOMAIN s : s[i] = e})

\* A client whose PATCH of a group was applied and that sends it again, having
\* lost the answer, changes nothing the second time but the order of the members:
\* one that is removed and added comes behind those that were only added before.
RetriedPatchChangesNothing ==
  \A i \in DOMAIN groups : \A ops \in GroupPatches :
    LET once == PatchedGroup(groups[i], ops)
        twice == PatchedGroup(once, ops)
    IN ValidOps(ops) =>
         /\ twice.name = once.name
         /\ \A m \in Members : Occurrences(twice.members, m) = Occurrences(once.members, m)

\* Through any sequence of requests, a group has a member twice only if a client
\* named it twice in one list.
RepeatedOnlyIfSent ==
  \A i \in DOMAIN groups : ~IsInjective(groups[i].members) => groups[i].key \in repeated

\* A request changes nothing but the resources of the tenant that its token names,
\* and nothing at all when it is refused, whichever of its operations failed.
TenantsApart ==
  [][\A t \in Tenants : t # accepted' =>
       /\ ByTenant(users', t) = ByTenant(users, t)
       /\ ByTenant(groups', t) = ByTenant(groups, t)]_vars
=============================================================================
