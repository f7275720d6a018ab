------------------------------ MODULE OidcCache ------------------------------
(***************************************************************************)
(* The documents the OIDC relying party caches: OidcProtocol               *)
(* (src/authub/protocols/oidc.py), its _discover and _keyset, and the      *)
(* logins that use them, for one issuer.                                   *)
(*                                                                         *)
(* A login holds at most one lock at a time.  asyncio.Lock is first come,  *)
(* first served, so a lock is the queue of those that want it and its head *)
(* holds it.  The provider replaces a document by its next version; every  *)
(* version of the key set brings a new signing key and keeps the last      *)
(* Overlap ones.                                                           *)
(***************************************************************************)
EXTENDS Naturals, Sequences

CONSTANTS
  Logins,       \* concurrent begins and callbacks
  Ttl,          \* metadata_ttl
  Overlap,      \* old keys that the provider goes on publishing
  MaxFetch,     \* assumed: an HTTP exchange is over after so much time
  MaxVersion,   \* bound, for each document: the versions published
  MaxTime       \* bound: the clock stops here

ASSUME CacheAssumption == Ttl \in Nat /\ Overlap \in Nat /\ MaxFetch \in Nat

VARIABLES
  now,        \* time.monotonic()
  published,  \* external: when each version of a document was published
  cache,      \* _metadata_cache and _jwks_cache: [version, until], or Missing
  lock,       \* _discovery_locks and _jwks_locks
  login,      \* what each login has in its local variables
  verdict     \* history: the key of the last id_token verified, and when

vars == <<now, published, cache, lock, login, verdict>>

Documents == {"metadata", "keys"}
Version == Nat \ {0}
Missing == [version |-> 0, until |-> 0]
Entry == [version : Nat, until : Nat]

\* goal: what the login does with the metadata; key: the key that signed its
\* id_token; started, version: of the fetch that is under way.
Idle == [pc |-> "idle"]
Discovering == [pc : {"lock", "request", "response"}, doc : {"metadata"},
                goal : {"begin", "complete"}, started : Nat, version : Nat]
FetchingToken == [pc : {"fetch_token"}]
Verifying == [pc : {"lock", "request", "response"}, doc : {"keys"}, key : Version,
              force : BOOLEAN, started : Nat, version : Nat]

Verdict == [key : Nat, at : Nat, good : BOOLEAN]

TypeOK ==
  /\ now \in Nat
  /\ published \in [Documents -> Seq(Nat)]
  /\ cache \in [Documents -> Entry]
  /\ lock \in [Documents -> Seq(Logins)]
  /\ login \in [Logins -> {Idle} \cup Discovering \cup FetchingToken \cup Verifying]
  /\ \A l \in Logins, doc \in Documents :
       (\E i \in DOMAIN lock[doc] : lock[doc][i] = l) <=>
         (login[l].pc \in {"lock", "request", "response"} /\ login[l].doc = doc)
  /\ verdict \in Verdict

Init ==
  /\ now = 0
  /\ published = [doc \in Documents |-> <<0>>]
  /\ cache = [doc \in Documents |-> Missing]
  /\ lock = [doc \in Documents |-> <<>>]
  /\ login = [l \in Logins |-> Idle]
  /\ verdict = [key |-> 0, at |-> 0, good |-> TRUE]

-----------------------------------------------------------------------------
(* The provider. *)

Current(doc) == Len(published[doc])

\* Key k came with version k of the key set and went with version k + Overlap + 1.
HasKey(version, key) == key <= version /\ version <= key + Overlap

Publish(doc) ==
  /\ Current(doc) < MaxVersion[doc]
  /\ published' = [published EXCEPT ![doc] = Append(@, now)]
  /\ UNCHANGED <<now, cache, lock, login, verdict>>

-----------------------------------------------------------------------------
(* A login asks for a document. *)

Wanting(l, doc, request) ==
  /\ lock' = [lock EXCEPT ![doc] = Append(@, l)]
  /\ login' = [login EXCEPT ![l] = request]

Discover(l, goal) ==
  /\ login[l] = Idle
  /\ Wanting(l, "metadata", [pc |-> "lock", doc |-> "metadata", goal |-> goal,
                             started |-> 0, version |-> 0])
  /\ UNCHANGED <<now, published, cache, verdict>>

\* fetch_token: the provider signs with its current key.
FetchToken(l) ==
  /\ login[l].pc = "fetch_token"
  /\ Wanting(l, "keys", [pc |-> "lock", doc |-> "keys", key |-> Current("keys"),
                         force |-> FALSE, started |-> 0, version |-> 0])
  /\ UNCHANGED <<now, published, cache, verdict>>

\* The document is there and the lock is released.  begin is done with the
\* metadata; a signature that the first key set does not verify is tried once
\* more, after a forced fetch that queues behind all who wait.
Obtained(l, version) ==
  LET v == login[l]
      released == Tail(lock[v.doc])
      verified == v.doc = "keys" /\ HasKey(version, v.key)
      refused == v.doc = "keys" /\ ~HasKey(version, v.key)
  IN /\ lock' = [lock EXCEPT ![v.doc] =
          IF refused /\ ~v.force THEN Append(released, l) ELSE released]
     /\ \/ /\ v.doc = "metadata" /\ v.goal = "begin"
           /\ login' = [login EXCEPT ![l] = Idle]
        \/ /\ v.doc = "metadata" /\ v.goal = "complete"
           /\ login' = [login EXCEPT ![l] = [pc |-> "fetch_token"]]
        \/ /\ verified \/ (refused /\ v.force)
           /\ login' = [login EXCEPT ![l] = Idle]
        \/ /\ refused /\ ~v.force
           /\ login' = [login EXCEPT ![l] =
                [v EXCEPT !.pc = "lock", !.force = TRUE, !.version = 0]]
     /\ verdict' = IF verified \/ (refused /\ v.force)
                    THEN [key |-> v.key, at |-> now, good |-> verified]
                    ELSE verdict

\* Mutant: no login waits for another.
HasLock_Always(l) == login[l].pc = "lock"

HasLock(l) == login[l].pc = "lock" /\ Head(lock[login[l].doc]) = l

\* Mutant: a forced fetch is left out while the entry is fresh.
CacheHit_NoForce(l) == cache[login[l].doc].until > now

\* Mutant: an entry is good as long as it is there.
CacheHit_NoTtl(l) ==
  /\ cache[login[l].doc] # Missing
  /\ login[l].doc = "keys" => ~login[l].force

\* cached[0] > time.monotonic(), and not force for the key set.
CacheHit(l) ==
  /\ cache[login[l].doc].until > now
  /\ login[l].doc = "keys" => ~login[l].force

UseCache(l) ==
  /\ HasLock(l) /\ CacheHit(l)
  /\ Obtained(l, cache[login[l].doc].version)
  /\ UNCHANGED <<now, published, cache>>

SendRequest(l) ==
  /\ HasLock(l) /\ ~CacheHit(l)
  /\ login' = [login EXCEPT ![l].pc = "request", ![l].started = now]
  /\ UNCHANGED <<now, published, cache, lock, verdict>>

\* External: the provider serves the version that is current then.
Serve(l) ==
  /\ login[l].pc = "request"
  /\ login' = [login EXCEPT ![l].pc = "response",
                            ![l].version = Current(login[l].doc)]
  /\ UNCHANGED <<now, published, cache, lock, verdict>>

ReceiveResponse(l) ==
  LET v == login[l]
  IN /\ v.pc = "response"
     /\ cache' = [cache EXCEPT ![v.doc] = [version |-> v.version, until |-> now + Ttl]]
     /\ Obtained(l, v.version)
     /\ UNCHANGED <<now, published>>

\* Mutant: the lock is not released when the fetch raises.
FetchFails_Locked(l) ==
  /\ login[l].pc \in {"request", "response"}
  /\ lock' = lock
  /\ login' = [login EXCEPT ![l] = Idle]
  /\ UNCHANGED <<now, published, cache, verdict>>

\* A timeout, a status other than 200, another issuer or no key set: async with
\* releases the lock and the cache stays as it is.
FetchFails(l) ==
  /\ login[l].pc \in {"request", "response"}
  /\ lock' = [lock EXCEPT ![login[l].doc] = Tail(@)]
  /\ login' = [login EXCEPT ![l] = Idle]
  /\ UNCHANGED <<now, published, cache, verdict>>

TokenExchangeFails(l) ==
  /\ login[l].pc = "fetch_token"
  /\ login' = [login EXCEPT ![l] = Idle]
  /\ UNCHANGED <<now, published, cache, lock, verdict>>

Tick ==
  /\ now < MaxTime
  /\ \A l \in Logins :
       login[l].pc \in {"request", "response"} => now < login[l].started + MaxFetch
  /\ now' = now + 1
  /\ UNCHANGED <<published, cache, lock, login, verdict>>

-----------------------------------------------------------------------------
Continue(l) ==
  \/ UseCache(l) \/ SendRequest(l) \/ Serve(l) \/ ReceiveResponse(l) \/ FetchFails(l)
  \/ FetchToken(l) \/ TokenExchangeFails(l)

Next ==
  \/ \E doc \in Documents : Publish(doc)
  \/ \E l \in Logins :
       (\E goal \in {"begin", "complete"} : Discover(l, goal)) \/ Continue(l)
  \/ Tick

\* Every HTTP exchange ends, with httpx's timeout if need be, and the event loop
\* runs what is ready.
Spec == Init /\ [][Next]_vars /\ \A l \in Logins : WF_vars(Continue(l))

-----------------------------------------------------------------------------
(* Properties. *)

\* An id_token is rejected by its signature only if the provider has withdrawn
\* the key that signed it, however stale the cache was when the login began and
\* whoever refreshed it meanwhile.
RejectedOnlyIfWithdrawn ==
  ~verdict.good => ~HasKey(Current("keys"), verdict.key)

\* A withdrawn key is accepted for no longer than an entry lives, plus the
\* fetch that was under way.
WithdrawnKeyFades ==
  LET withdrawn == verdict.key + Overlap + 1
  IN verdict.good /\ withdrawn <= Current("keys") =>
       verdict.at <= published["keys"][withdrawn] + Ttl + MaxFetch

\* A cached document is never replaced by an earlier version of it: no slow
\* response overtakes a later fetch.
CacheNeverGoesBack ==
  [][\A doc \in Documents : cache[doc].version <= cache'[doc].version]_vars

\* Every begin and every callback gets its documents or an error, however many
\* force a refresh and whatever fetches fail.
LoginsEnd == \A l \in Logins : login[l] # Idle ~> login[l] = Idle
=============================================================================
