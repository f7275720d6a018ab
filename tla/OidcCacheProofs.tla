--------------------------- MODULE OidcCacheProofs ---------------------------
(***************************************************************************)
(* The invariants of OidcCache, for every value of its constants.          *)
(*                                                                         *)
(* They rest on the queues of the locks: whoever exchanges a document with *)
(* the provider is alone at the head of the queue of that document.  So a  *)
(* cache changes only at the hand of its lock's holder, and a response is  *)
(* no older than what is cached when it arrives.                           *)
(***************************************************************************)
EXTENDS OidcCache, TLAPS

Local == {Idle} \cup Discovering \cup FetchingToken \cup Verifying

InQueue == {"lock", "request", "response"}
Exchanging == {"request", "response"}

Wants(l, doc) == login[l].pc \in InQueue /\ login[l].doc = doc

Typed ==
  /\ now \in Nat
  /\ published \in [Documents -> Seq(Nat)]
  /\ cache \in [Documents -> Entry]
  /\ lock \in [Documents -> Seq(Logins)]
  /\ login \in [Logins -> Local]
  /\ verdict \in Verdict
  /\ \A doc \in Documents : published[doc] # <<>>

\* A queue of those that want doc, each once, headed by the one that exchanges it.
Queue(doc) ==
  /\ \A i, j \in DOMAIN lock[doc] : lock[doc][i] = lock[doc][j] => i = j
  /\ \A l \in Logins : Wants(l, doc) <=> \E i \in DOMAIN lock[doc] : lock[doc][i] = l
  /\ \A l \in Logins :
       login[l].pc \in Exchanging /\ login[l].doc = doc => lock[doc][1] = l

Queues == \A doc \in Documents : Queue(doc)

LEMMA HeadAndTail ==
  ASSUME NEW S, NEW seq \in Seq(S), seq # <<>>
  PROVE  /\ Head(seq) = seq[1] /\ 1 \in DOMAIN seq /\ Head(seq) \in S
         /\ Tail(seq) \in Seq(S)
         /\ DOMAIN Tail(seq) = 1..(Len(seq) - 1)
         /\ DOMAIN seq = 1..Len(seq)
         /\ Len(seq) \in Nat
         /\ \A i \in DOMAIN Tail(seq) : i + 1 \in DOMAIN seq /\ Tail(seq)[i] = seq[i + 1]
OBVIOUS

LEMMA Appended ==
  ASSUME NEW S, NEW seq \in Seq(S), NEW e \in S
  PROVE  /\ Append(seq, e) \in Seq(S)
         /\ DOMAIN Append(seq, e) = DOMAIN seq \cup {Len(seq) + 1}
         /\ DOMAIN seq = 1..Len(seq)
         /\ Len(Append(seq, e)) = Len(seq) + 1 /\ Len(seq) \in Nat
         /\ Len(seq) + 1 \notin DOMAIN seq
         /\ \A i \in DOMAIN seq : Append(seq, e)[i] = seq[i]
         /\ Append(seq, e)[Len(seq) + 1] = e
         /\ Append(seq, e) # <<>>
OBVIOUS

\* Without its head, a queue holds the others.
LEMMA TailHolds ==
  ASSUME NEW S, NEW seq \in Seq(S), seq # <<>>,
         \A i, j \in DOMAIN seq : seq[i] = seq[j] => i = j
  PROVE  /\ Tail(seq) \in Seq(S)
         /\ \A i, j \in DOMAIN Tail(seq) : Tail(seq)[i] = Tail(seq)[j] => i = j
         /\ \A e \in S : (\E i \in DOMAIN Tail(seq) : Tail(seq)[i] = e)
                           <=> e # seq[1] /\ \E i \in DOMAIN seq : seq[i] = e
<1> DEFINE rest == Tail(seq)
<1>1. /\ 1 \in DOMAIN seq /\ rest \in Seq(S)
      /\ DOMAIN rest = 1..(Len(seq) - 1) /\ DOMAIN seq = 1..Len(seq) /\ Len(seq) \in Nat
      /\ \A i \in DOMAIN rest : i + 1 \in DOMAIN seq /\ rest[i] = seq[i + 1]
  BY HeadAndTail
<1> HIDE DEF rest
<1>2. ASSUME NEW i \in DOMAIN rest, NEW j \in DOMAIN rest, rest[i] = rest[j] PROVE i = j
  <2>1. i + 1 = j + 1
    BY <1>1, <1>2
  <2> QED
    BY <1>1, <2>1
<1>3. ASSUME NEW i \in DOMAIN rest
      PROVE  rest[i] # seq[1] /\ \E j \in DOMAIN seq : seq[j] = rest[i]
  <2>1. i + 1 # 1 /\ i + 1 \in DOMAIN seq /\ rest[i] = seq[i + 1]
    BY <1>1
  <2> QED
    BY <1>1, <2>1
<1>4. ASSUME NEW j \in DOMAIN seq, seq[j] # seq[1]
      PROVE  \E i \in DOMAIN rest : rest[i] = seq[j]
  <2>1. j # 1 /\ j \in 1..Len(seq)
    BY <1>1, <1>4
  <2>2. j - 1 \in DOMAIN rest /\ (j - 1) + 1 = j
    BY <1>1, <2>1
  <2> QED
    BY <1>1, <2>2
<1> QED
  BY <1>1, <1>2, <1>3, <1>4 DEF rest

\* One more at the end of a queue that does not hold it.
LEMMA AppendHolds ==
  ASSUME NEW S, NEW seq \in Seq(S), NEW e \in S,
         \A i, j \in DOMAIN seq : seq[i] = seq[j] => i = j,
         \A i \in DOMAIN seq : seq[i] # e
  PROVE  /\ Append(seq, e) \in Seq(S)
         /\ \A i, j \in DOMAIN Append(seq, e) :
              Append(seq, e)[i] = Append(seq, e)[j] => i = j
         /\ \A x \in S : (\E i \in DOMAIN Append(seq, e) : Append(seq, e)[i] = x)
                           <=> x = e \/ \E i \in DOMAIN seq : seq[i] = x
         /\ seq # <<>> => Append(seq, e)[1] = seq[1]
<1> DEFINE more == Append(seq, e)
<1>1. /\ more \in Seq(S) /\ DOMAIN more = DOMAIN seq \cup {Len(seq) + 1}
      /\ DOMAIN seq = 1..Len(seq) /\ Len(seq) \in Nat
      /\ Len(seq) + 1 \notin DOMAIN seq
      /\ \A i \in DOMAIN seq : more[i] = seq[i]
      /\ more[Len(seq) + 1] = e
  BY Appended
<1>2. seq # <<>> => 1 \in DOMAIN seq
  BY HeadAndTail
<1> HIDE DEF more
<1>3. \A i, j \in DOMAIN more : more[i] = more[j] => i = j
  BY <1>1
<1>4. ASSUME NEW x \in S
      PROVE  (\E i \in DOMAIN more : more[i] = x) <=> x = e \/ \E i \in DOMAIN seq : seq[i] = x
  BY <1>1
<1> QED
  BY <1>1, <1>2, <1>3, <1>4 DEF more

-----------------------------------------------------------------------------
(* The steps. *)

LEMMA LocalKinds ==
  ASSUME NEW v \in Local
  PROVE  /\ v.pc \in {"idle", "fetch_token"} \cup InQueue
         /\ v.pc = "idle" <=> v = Idle
         /\ v.pc \in InQueue =>
              /\ v.doc \in Documents /\ v.started \in Nat /\ v.version \in Nat
              /\ v.doc = "metadata" => v \in Discovering
              /\ v.doc = "keys" => v \in Verifying /\ v.key \in Version /\ v.force \in BOOLEAN
<1>1. CASE v = Idle
  BY <1>1 DEF Idle, InQueue
<1>2. CASE v \in Discovering
  BY <1>2 DEF Discovering, InQueue, Documents, Idle
<1>3. CASE v \in FetchingToken
  BY <1>3 DEF FetchingToken, InQueue, Idle
<1>4. CASE v \in Verifying
  BY <1>4 DEF Verifying, InQueue, Documents, Idle
<1> QED
  BY <1>1, <1>2, <1>3, <1>4 DEF Local

\* A login joins the queue of a document; the key of an id_token is the current one.
Asks(l) ==
  \E doc \in Documents, q \in Local :
    /\ login[l].pc \notin InQueue
    /\ q.pc = "lock" /\ q.doc = doc /\ (doc = "keys" => q.key = Current("keys"))
    /\ lock' = [lock EXCEPT ![doc] = Append(@, l)]
    /\ login' = [login EXCEPT ![l] = q]
    /\ UNCHANGED <<now, published, cache, verdict>>

\* The head of a queue begins its exchange, or is served.
Requests(l) ==
  \E q \in Local :
    /\ login[l].pc = "lock" /\ Head(lock[login[l].doc]) = l
    /\ q.pc = "request" /\ q.doc = login[l].doc /\ q.started = now
    /\ (q.doc = "keys" => q.key = login[l].key)
    /\ login' = [login EXCEPT ![l] = q]
    /\ UNCHANGED <<now, published, cache, lock, verdict>>

IsServed(l) ==
  \E q \in Local :
    /\ login[l].pc = "request"
    /\ q.pc = "response" /\ q.doc = login[l].doc /\ q.started = login[l].started
    /\ q.version = Current(q.doc)
    /\ (q.doc = "keys" => q.key = login[l].key)
    /\ login' = [login EXCEPT ![l] = q]
    /\ UNCHANGED <<now, published, cache, lock, verdict>>

\* The head of a queue leaves it, without a verdict.
Leaves(l) ==
  \E q \in {Idle} \cup FetchingToken :
    /\ lock' = [lock EXCEPT ![login[l].doc] = Tail(@)]
    /\ login' = [login EXCEPT ![l] = q]
    /\ verdict' = verdict

\* It leaves with a verdict by the version that it obtained.
Decides(l, version) ==
  /\ lock' = [lock EXCEPT ![login[l].doc] = Tail(@)]
  /\ login' = [login EXCEPT ![l] = Idle]
  /\ login[l].doc = "keys"
  /\ verdict' = [key |-> login[l].key, at |-> now, good |-> HasKey(version, login[l].key)]
  /\ ~HasKey(version, login[l].key) => login[l].force

\* Or it goes to the end, for a forced fetch.
Retries(l) ==
  \E q \in Local :
    /\ login[l].doc = "keys"
    /\ q.pc = "lock" /\ q.doc = "keys" /\ q.key = login[l].key
    /\ lock' = [lock EXCEPT !["keys"] = Append(Tail(@), l)]
    /\ login' = [login EXCEPT ![l] = q]
    /\ verdict' = verdict

Ends(l, version) == Leaves(l) \/ Decides(l, version) \/ Retries(l)

LEMMA ObtainedEnds ==
  ASSUME Typed, NEW l \in Logins, login[l].pc \in InQueue, NEW version, Obtained(l, version)
  PROVE  Ends(l, version)
<1> DEFINE v == login[l]
           verified == v.doc = "keys" /\ HasKey(version, v.key)
           refused == v.doc = "keys" /\ ~HasKey(version, v.key)
<1>1. v \in Local
  BY DEF Typed
<1>2. /\ v.doc \in Documents
      /\ v.doc = "keys" => v \in Verifying /\ v.force \in BOOLEAN
  BY <1>1, LocalKinds
<1>3. /\ lock' = [lock EXCEPT ![v.doc] =
            IF refused /\ ~v.force THEN Append(Tail(lock[v.doc]), l) ELSE Tail(lock[v.doc])]
      /\ \/ /\ v.doc = "metadata" /\ v.goal = "begin"
            /\ login' = [login EXCEPT ![l] = Idle]
         \/ /\ v.doc = "metadata" /\ v.goal = "complete"
            /\ login' = [login EXCEPT ![l] = [pc |-> "fetch_token"]]
         \/ /\ verified \/ (refused /\ v.force)
            /\ login' = [login EXCEPT ![l] = Idle]
         \/ /\ refused /\ ~v.force
            /\ login' = [login EXCEPT ![l] =
                 [v EXCEPT !.pc = "lock", !.force = TRUE, !.version = 0]]
      /\ verdict' = IF verified \/ (refused /\ v.force)
                     THEN [key |-> v.key, at |-> now, good |-> verified]
                     ELSE verdict
  BY DEF Obtained
<1>4. lock \in [Documents -> Seq(Logins)]
  BY DEF Typed
<1>5. CASE v.doc = "metadata"
  <2>1. ~verified /\ ~refused
    BY <1>5
  <2>2. lock' = [lock EXCEPT ![v.doc] = Tail(@)] /\ verdict' = verdict
    BY <1>2, <1>3, <1>4, <2>1
  <2>3. [pc |-> "fetch_token"] \in FetchingToken
    BY DEF FetchingToken
  <2>4. \E q \in {Idle} \cup FetchingToken : login' = [login EXCEPT ![l] = q]
    BY <1>3, <2>1, <2>3
  <2> QED
    BY <2>2, <2>4 DEF Ends, Leaves
<1>6. CASE verified \/ (refused /\ v.force)
  <2>1. v.doc = "keys" /\ v.doc # "metadata" /\ ~(refused /\ ~v.force)
    BY <1>6
  <2>2. lock' = [lock EXCEPT ![v.doc] = Tail(@)]
    BY <1>2, <1>3, <1>4, <2>1
  <2>3. login' = [login EXCEPT ![l] = Idle]
    BY <1>3, <2>1
  <2>4. verified = HasKey(version, v.key)
    BY <2>1 DEF HasKey
  <2>5. verdict' = [key |-> v.key, at |-> now, good |-> verified]
    BY <1>3, <1>6
  <2>6. ~HasKey(version, v.key) => v.force
    BY <1>6
  <2> HIDE DEF verified
  <2>7. verdict' = [key |-> v.key, at |-> now, good |-> HasKey(version, v.key)]
    BY <2>4, <2>5
  <2> QED
    BY <2>1, <2>2, <2>3, <2>6, <2>7 DEF Ends, Decides
<1>7. CASE refused /\ ~v.force
  <2> DEFINE q == [v EXCEPT !.pc = "lock", !.force = TRUE, !.version = 0]
  <2>1. v.doc = "keys" /\ v \in Verifying /\ ~verified
    BY <1>2, <1>7
  <2>2. q \in Verifying /\ q.pc = "lock" /\ q.doc = "keys" /\ q.key = v.key
    BY <2>1 DEF Verifying
  <2>3. lock' = [lock EXCEPT !["keys"] = Append(Tail(@), l)]
    BY <1>3, <1>4, <1>7, <2>1
  <2>4. login' = [login EXCEPT ![l] = q] /\ verdict' = verdict
    BY <1>3, <1>7, <2>1
  <2>5. q \in Local
    BY <2>2 DEF Local
  <2> HIDE DEF q
  <2> QED
    BY <2>1, <2>2, <2>3, <2>4, <2>5 DEF Ends, Retries
<1> QED
  BY <1>2, <1>5, <1>6, <1>7 DEF Documents

Hits(l) ==
  /\ login[l].pc = "lock" /\ Head(lock[login[l].doc]) = l
  /\ cache[login[l].doc].until > now
  /\ login[l].doc = "keys" => ~login[l].force
  /\ Ends(l, cache[login[l].doc].version)
  /\ UNCHANGED <<now, published, cache>>

Receives(l) ==
  /\ login[l].pc = "response"
  /\ cache' = [cache EXCEPT ![login[l].doc] =
                 [version |-> login[l].version, until |-> now + Ttl]]
  /\ Ends(l, login[l].version)
  /\ UNCHANGED <<now, published>>

Fails(l) ==
  /\ login[l].pc \in Exchanging /\ Leaves(l)
  /\ UNCHANGED <<now, published, cache>>

GivesUp(l) ==
  /\ login[l].pc = "fetch_token" /\ login' = [login EXCEPT ![l] = Idle]
  /\ UNCHANGED <<now, published, cache, lock, verdict>>

Publishes(doc) ==
  /\ published' = [published EXCEPT ![doc] = Append(@, now)]
  /\ UNCHANGED <<now, cache, lock, login, verdict>>

LEMMA DiscoverAsks ==
  ASSUME Typed, NEW l \in Logins, NEW goal \in {"begin", "complete"}, Discover(l, goal)
  PROVE  Asks(l)
<1> DEFINE q == [pc |-> "lock", doc |-> "metadata", goal |-> goal,
                 started |-> 0, version |-> 0]
<1>1. q \in Discovering /\ q.pc = "lock" /\ q.doc = "metadata"
  BY DEF Discovering
<1>2. login[l].pc = "idle" /\ login[l].pc \notin InQueue
  BY DEF Discover, Idle, InQueue
<1>3. /\ lock' = [lock EXCEPT !["metadata"] = Append(@, l)]
      /\ login' = [login EXCEPT ![l] = q]
      /\ UNCHANGED <<now, published, cache, verdict>>
  BY DEF Discover, Wanting
<1> HIDE DEF q
<1> QED
  BY <1>1, <1>2, <1>3 DEF Asks, Local, Documents

LEMMA FetchTokenAsks ==
  ASSUME Typed, NEW l \in Logins, FetchToken(l)
  PROVE  Asks(l)
<1> DEFINE q == [pc |-> "lock", doc |-> "keys", key |-> Current("keys"),
                 force |-> FALSE, started |-> 0, version |-> 0]
<1>1. Current("keys") \in Version
  <2>1. published["keys"] \in Seq(Nat) /\ published["keys"] # <<>>
    BY DEF Typed, Documents
  <2> QED
    BY <2>1 DEF Current, Version
<1>2. q \in Verifying /\ q.pc = "lock" /\ q.doc = "keys" /\ q.key = Current("keys")
  BY <1>1 DEF Verifying
<1>3. login[l].pc = "fetch_token" /\ login[l].pc \notin InQueue
  BY DEF FetchToken, InQueue
<1>4. /\ lock' = [lock EXCEPT !["keys"] = Append(@, l)]
      /\ login' = [login EXCEPT ![l] = q]
      /\ UNCHANGED <<now, published, cache, verdict>>
  BY DEF FetchToken, Wanting
<1> HIDE DEF q
<1> QED
  BY <1>2, <1>3, <1>4 DEF Asks, Local, Documents

LEMMA SendRequestRequests ==
  ASSUME Typed, NEW l \in Logins, SendRequest(l)
  PROVE  Requests(l)
<1> DEFINE v == login[l]
           q == [v EXCEPT !.pc = "request", !.started = now]
<1>1. v \in Local /\ now \in Nat
  BY DEF Typed
<1>2. v.pc = "lock" /\ Head(lock[v.doc]) = l
  BY DEF SendRequest, HasLock
<1>3. /\ v.doc \in Documents /\ (v.doc = "metadata" => v \in Discovering)
      /\ (v.doc = "keys" => v \in Verifying)
  BY <1>1, <1>2, LocalKinds DEF InQueue
<1>4. login' = [login EXCEPT ![l] = q]
  BY DEF SendRequest, Typed
<1>5. UNCHANGED <<now, published, cache, lock, verdict>>
  BY DEF SendRequest
<1>6. q \in Local /\ q.pc = "request" /\ q.doc = v.doc /\ q.started = now
      /\ (q.doc = "keys" => q.key = v.key)
  <2>1. CASE v.doc = "metadata"
    <3>1. q \in Discovering
      BY <1>1, <1>3, <2>1 DEF Discovering
    <3>2. q.pc = "request" /\ q.doc = v.doc /\ q.started = now
      BY <1>3, <2>1 DEF Discovering
    <3> QED
      BY <2>1, <3>1, <3>2 DEF Local
  <2>2. CASE v.doc = "keys"
    <3>1. q \in Verifying
      BY <1>1, <1>3, <2>2 DEF Verifying
    <3>2. q.pc = "request" /\ q.doc = v.doc /\ q.started = now /\ q.key = v.key
      BY <1>3, <2>2 DEF Verifying
    <3> QED
      BY <3>1, <3>2 DEF Local
  <2> QED
    BY <1>3, <2>1, <2>2 DEF Documents
<1> HIDE DEF q
<1> QED
  BY <1>2, <1>4, <1>5, <1>6 DEF Requests

LEMMA ServeServes ==
  ASSUME Typed, NEW l \in Logins, Serve(l)
  PROVE  IsServed(l)
<1> DEFINE v == login[l]
           q == [v EXCEPT !.pc = "response", !.version = Current(v.doc)]
<1>1. v \in Local /\ v.pc = "request"
  BY DEF Typed, Serve
<1>2. /\ v.doc \in Documents /\ (v.doc = "metadata" => v \in Discovering)
      /\ (v.doc = "keys" => v \in Verifying)
  BY <1>1, LocalKinds DEF InQueue
<1>3. Current(v.doc) \in Nat
  BY <1>2 DEF Typed, Current
<1>4. login' = [login EXCEPT ![l] = q]
  BY DEF Serve, Typed
<1>5. UNCHANGED <<now, published, cache, lock, verdict>>
  BY DEF Serve
<1>6. q \in Local /\ q.pc = "response" /\ q.doc = v.doc /\ q.started = v.started
      /\ q.version = Current(v.doc) /\ (q.doc = "keys" => q.key = v.key)
  <2>1. CASE v.doc = "metadata"
    <3>1. q \in Discovering
      BY <1>2, <1>3, <2>1 DEF Discovering
    <3>2. q.pc = "response" /\ q.doc = v.doc /\ q.started = v.started
          /\ q.version = Current(v.doc)
      BY <1>2, <2>1 DEF Discovering
    <3> QED
      BY <2>1, <3>1, <3>2 DEF Local
  <2>2. CASE v.doc = "keys"
    <3>1. q \in Verifying
      BY <1>2, <1>3, <2>2 DEF Verifying
    <3>2. q.pc = "response" /\ q.doc = v.doc /\ q.started = v.started
          /\ q.version = Current(v.doc) /\ q.key = v.key
      BY <1>2, <2>2 DEF Verifying
    <3> QED
      BY <3>1, <3>2 DEF Local
  <2> QED
    BY <1>2, <2>1, <2>2 DEF Documents
<1> HIDE DEF q
<1> QED
  BY <1>1, <1>4, <1>5, <1>6 DEF IsServed

\* What a step may do.
LEMMA Steps ==
  ASSUME Typed, [Next]_vars
  PROVE  \/ UNCHANGED vars
         \/ Tick
         \/ \E doc \in Documents : Publishes(doc)
         \/ \E l \in Logins : Asks(l) \/ Requests(l) \/ IsServed(l) \/ GivesUp(l)
         \/ \E l \in Logins : Hits(l) \/ Receives(l) \/ Fails(l)
<1>1. ASSUME NEW l \in Logins, UseCache(l) PROVE Hits(l)
  <2>1. login[l].pc = "lock" /\ login[l].pc \in InQueue
    BY <1>1 DEF UseCache, HasLock, InQueue
  <2>2. Obtained(l, cache[login[l].doc].version)
    BY <1>1 DEF UseCache
  <2>3. Ends(l, cache[login[l].doc].version)
    BY <2>1, <2>2, ObtainedEnds
  <2> QED
    BY <1>1, <2>3 DEF UseCache, HasLock, CacheHit, Hits
<1>2. ASSUME NEW l \in Logins, ReceiveResponse(l) PROVE Receives(l)
  <2>1. login[l].pc = "response" /\ login[l].pc \in InQueue
    BY <1>2 DEF ReceiveResponse, InQueue
  <2>2. Obtained(l, login[l].version)
    BY <1>2 DEF ReceiveResponse
  <2>3. Ends(l, login[l].version)
    BY <2>1, <2>2, ObtainedEnds
  <2> QED
    BY <1>2, <2>3 DEF ReceiveResponse, Receives
<1>3. ASSUME NEW l \in Logins, FetchFails(l) PROVE Fails(l)
  BY <1>3 DEF FetchFails, Fails, Leaves, Exchanging
<1>4. ASSUME NEW l \in Logins, TokenExchangeFails(l) PROVE GivesUp(l)
  BY <1>4 DEF TokenExchangeFails, GivesUp
<1>5. ASSUME NEW doc \in Documents, Publish(doc) PROVE Publishes(doc)
  BY <1>5 DEF Publish, Publishes
<1>6. CASE \E l \in Logins : Continue(l)
  BY <1>1, <1>2, <1>3, <1>4, <1>6, SendRequestRequests, ServeServes, FetchTokenAsks
  DEF Continue
<1>7. CASE \E l \in Logins, goal \in {"begin", "complete"} : Discover(l, goal)
  BY <1>7, DiscoverAsks
<1> QED
  BY <1>5, <1>6, <1>7 DEF Next

-----------------------------------------------------------------------------
(* The queues. *)

\* Whoever exchanges a document holds its lock, and nobody else does.
LEMMA HolderIsHead ==
  ASSUME Typed, Queues, NEW l \in Logins,
         \/ login[l].pc \in Exchanging
         \/ login[l].pc = "lock" /\ Head(lock[login[l].doc]) = l
  PROVE  /\ login[l].pc \in InQueue /\ login[l].doc \in Documents
         /\ lock[login[l].doc] \in Seq(Logins) /\ lock[login[l].doc] # <<>>
         /\ lock[login[l].doc][1] = l
<1>1. login[l] \in Local /\ login[l].pc \in InQueue
  BY DEF Typed, Exchanging, InQueue
<1>2. login[l].doc \in Documents
  BY <1>1, LocalKinds
<1> DEFINE q == lock[login[l].doc]
<1>3. q \in Seq(Logins)
  BY <1>2 DEF Typed
<1>4. \E i \in DOMAIN q : q[i] = l
  BY <1>1, <1>2 DEF Queues, Queue, Wants
<1>5. q # <<>>
  BY <1>4
<1>6. q[1] = l
  <2>1. CASE login[l].pc \in Exchanging
    BY <1>2, <2>1 DEF Queues, Queue
  <2>2. CASE Head(q) = l
    BY <1>3, <1>5, <2>2, HeadAndTail
  <2> QED
    BY <2>1, <2>2
<1> QED
  BY <1>1, <1>2, <1>3, <1>5, <1>6

\* How the queues are left when one login changes its place.
LEMMA OthersWant ==
  ASSUME Typed, NEW l \in Logins, NEW q, login' = [login EXCEPT ![l] = q]
  PROVE  /\ login'[l] = q
         /\ \A k \in Logins \ {l} : \A doc : Wants(k, doc)' <=> Wants(k, doc)
         /\ \A k \in Logins \ {l} : login'[k] = login[k]
         /\ \A doc : Wants(l, doc)' <=> q.pc \in InQueue /\ q.doc = doc
BY DEF Typed, Wants

LEMMA QueuesAsked ==
  ASSUME Typed, Queues, NEW l \in Logins, Asks(l)
  PROVE  Queues'
<1>1. PICK d \in Documents, q \in Local :
        /\ login[l].pc \notin InQueue
        /\ q.pc = "lock" /\ q.doc = d
        /\ lock' = [lock EXCEPT ![d] = Append(@, l)]
        /\ login' = [login EXCEPT ![l] = q]
  BY DEF Asks
<1>2. /\ login'[l] = q
      /\ \A k \in Logins \ {l} : \A doc : Wants(k, doc)' <=> Wants(k, doc)
      /\ \A k \in Logins \ {l} : login'[k] = login[k]
      /\ \A doc : Wants(l, doc)' <=> q.pc \in InQueue /\ q.doc = doc
  BY <1>1, OthersWant
<1>3. \A doc : ~Wants(l, doc)
  BY <1>1 DEF Wants
<1>4. q.pc \in InQueue /\ q.pc \notin Exchanging
  BY <1>1 DEF InQueue, Exchanging
<1>5. ASSUME NEW doc \in Documents, doc # d PROVE Queue(doc)'
  <2>1. lock'[doc] = lock[doc] /\ Queue(doc)
    BY <1>1, <1>5 DEF Typed, Queues
  <2>2. \A k \in Logins : Wants(k, doc)' <=> Wants(k, doc)
    BY <1>1, <1>2, <1>3, <1>5
  <2>3. \A k \in Logins : login'[k].pc \in Exchanging => login'[k] = login[k]
    BY <1>2, <1>4
  <2> QED
    BY <2>1, <2>2, <2>3 DEF Queue
<1>6. Queue(d)'
  <2> DEFINE s == lock[d]
  <2>1. lock'[d] = Append(s, l) /\ Queue(d) /\ s \in Seq(Logins)
    BY <1>1 DEF Typed, Queues
  <2>2. \A i \in DOMAIN s : s[i] # l
    BY <1>3, <2>1 DEF Queue
  <2>3. \A i, j \in DOMAIN s : s[i] = s[j] => i = j
    BY <2>1 DEF Queue
  <2> HIDE DEF s
  <2>4. /\ \A i, j \in DOMAIN Append(s, l) : Append(s, l)[i] = Append(s, l)[j] => i = j
        /\ \A x \in Logins : (\E i \in DOMAIN Append(s, l) : Append(s, l)[i] = x)
                               <=> x = l \/ \E i \in DOMAIN s : s[i] = x
        /\ s # <<>> => Append(s, l)[1] = s[1]
    BY <2>1, <2>2, <2>3, AppendHolds
  <2>5. \A k \in Logins : Wants(k, d)' <=> \E i \in DOMAIN lock'[d] : lock'[d][i] = k
    <3> TAKE k \in Logins
    <3>1. CASE k = l
      BY <1>1, <1>2, <1>4, <2>1, <2>4, <3>1
    <3>2. CASE k # l
      BY <1>2, <2>1, <2>4, <3>2 DEF Queue, s
    <3> QED
      BY <3>1, <3>2
  <2>6. ASSUME NEW k \in Logins, login'[k].pc \in Exchanging, login'[k].doc = d
        PROVE  lock'[d][1] = k
    <3>1. k # l /\ login'[k] = login[k]
      BY <1>2, <1>4, <2>6
    <3>2. s[1] = k /\ \E i \in DOMAIN s : s[i] = k
      BY <2>1, <2>6, <3>1 DEF Queue, Wants, Exchanging, InQueue, s
    <3> QED
      BY <2>1, <2>4, <3>2
  <2> QED
    BY <2>1, <2>4, <2>5, <2>6 DEF Queue
<1> QED
  BY <1>5, <1>6 DEF Queues

LEMMA QueuesLeft ==
  ASSUME Typed, Queues, NEW l \in Logins, NEW q,
         \/ login[l].pc \in Exchanging
         \/ login[l].pc = "lock" /\ Head(lock[login[l].doc]) = l,
         q.pc \notin InQueue,
         lock' = [lock EXCEPT ![login[l].doc] = Tail(@)],
         login' = [login EXCEPT ![l] = q]
  PROVE  Queues'
<1> DEFINE d == login[l].doc
           s == lock[d]
<1>1. /\ login[l].pc \in InQueue /\ d \in Documents
      /\ s \in Seq(Logins) /\ s # <<>> /\ s[1] = l
  BY HolderIsHead
<1>2. /\ login'[l] = q
      /\ \A k \in Logins \ {l} : \A doc : Wants(k, doc)' <=> Wants(k, doc)
      /\ \A k \in Logins \ {l} : login'[k] = login[k]
      /\ \A doc : Wants(l, doc)' <=> q.pc \in InQueue /\ q.doc = doc
  BY OthersWant
<1>3. q.pc \notin Exchanging
  BY DEF InQueue, Exchanging
<1>4. ASSUME NEW doc \in Documents, doc # d PROVE Queue(doc)'
  <2>1. lock'[doc] = lock[doc] /\ Queue(doc)
    BY <1>4 DEF Typed, Queues
  <2>2. \A k \in Logins : Wants(k, doc)' <=> Wants(k, doc)
    BY <1>2, <1>4 DEF Wants
  <2>3. \A k \in Logins : login'[k].pc \in Exchanging => login'[k] = login[k]
    BY <1>2, <1>3
  <2>4. \A i, j \in DOMAIN lock'[doc] : lock'[doc][i] = lock'[doc][j] => i = j
    BY <2>1 DEF Queue
  <2>5. \A k \in Logins : Wants(k, doc)' <=> \E i \in DOMAIN lock'[doc] : lock'[doc][i] = k
    BY <2>1, <2>2 DEF Queue
  <2>6. \A k \in Logins :
          login'[k].pc \in Exchanging /\ login'[k].doc = doc => lock'[doc][1] = k
    BY <2>1, <2>3 DEF Queue
  <2> QED
    BY <2>4, <2>5, <2>6 DEF Queue
<1>5. ASSUME NEW doc \in Documents, doc = d PROVE Queue(doc)'
  <2>1. lock'[doc] = Tail(s) /\ Queue(doc) /\ s = lock[doc]
    BY <1>1, <1>5 DEF Typed, Queues
  <2>2. \A i, j \in DOMAIN s : s[i] = s[j] => i = j
    BY <2>1 DEF Queue
  <2> HIDE DEF s, d
  <2>3. /\ \A i, j \in DOMAIN Tail(s) : Tail(s)[i] = Tail(s)[j] => i = j
        /\ \A x \in Logins : (\E i \in DOMAIN Tail(s) : Tail(s)[i] = x)
                               <=> x # l /\ \E i \in DOMAIN s : s[i] = x
    BY <1>1, <2>2, TailHolds
  <2>4. \A k \in Logins : Wants(k, doc)' <=> \E i \in DOMAIN lock'[doc] : lock'[doc][i] = k
    <3> TAKE k \in Logins
    <3>1. CASE k = l
      BY <1>2, <2>1, <2>3, <3>1
    <3>2. CASE k # l
      BY <1>2, <2>1, <2>3, <3>2 DEF Queue
    <3> QED
      BY <3>1, <3>2
  <2>5. ASSUME NEW k \in Logins, login'[k].pc \in Exchanging, login'[k].doc = doc
        PROVE  FALSE
    <3>1. k # l /\ login'[k] = login[k]
      BY <1>2, <1>3, <2>5
    <3> QED
      BY <1>1, <2>1, <2>5, <3>1 DEF Queue
  <2>6. \A i, j \in DOMAIN lock'[doc] : lock'[doc][i] = lock'[doc][j] => i = j
    BY <2>1, <2>3, ZenonT(60)
  <2> QED
    BY <2>4, <2>5, <2>6 DEF Queue
<1> QED
  BY <1>4, <1>5 DEF Queues

LEMMA QueuesRetried ==
  ASSUME Typed, Queues, NEW l \in Logins,
         \/ login[l].pc \in Exchanging
         \/ login[l].pc = "lock" /\ Head(lock[login[l].doc]) = l,
         Retries(l)
  PROVE  Queues'
<1> DEFINE s == lock["keys"]
           r == Tail(s)
<1>1. PICK q \in Local :
        /\ login[l].doc = "keys" /\ q.pc = "lock" /\ q.doc = "keys"
        /\ lock' = [lock EXCEPT !["keys"] = Append(Tail(@), l)]
        /\ login' = [login EXCEPT ![l] = q]
  BY DEF Retries
<1>2. /\ login[l].pc \in InQueue /\ "keys" \in Documents
      /\ s \in Seq(Logins) /\ s # <<>> /\ s[1] = l
  BY <1>1, HolderIsHead
<1>3. /\ login'[l] = q
      /\ \A k \in Logins \ {l} : \A doc : Wants(k, doc)' <=> Wants(k, doc)
      /\ \A k \in Logins \ {l} : login'[k] = login[k]
      /\ \A doc : Wants(l, doc)' <=> q.pc \in InQueue /\ q.doc = doc
  BY <1>1, OthersWant
<1>4. q.pc \in InQueue /\ q.pc \notin Exchanging
  BY <1>1 DEF InQueue, Exchanging
<1>5. ASSUME NEW doc \in Documents, doc # "keys" PROVE Queue(doc)'
  <2>1. lock'[doc] = lock[doc] /\ Queue(doc)
    BY <1>1, <1>5 DEF Typed, Queues
  <2>2. \A k \in Logins : Wants(k, doc)' <=> Wants(k, doc)
    BY <1>1, <1>3, <1>5 DEF Wants
  <2>3. \A k \in Logins : login'[k].pc \in Exchanging => login'[k] = login[k]
    BY <1>3, <1>4
  <2> QED
    BY <2>1, <2>2, <2>3 DEF Queue
<1>6. Queue("keys")'
  <2>1. lock'["keys"] = Append(r, l) /\ Queue("keys")
    BY <1>1, <1>2 DEF Typed, Queues
  <2>2. \A i, j \in DOMAIN s : s[i] = s[j] => i = j
    BY <2>1 DEF Queue
  <2> HIDE DEF s
  <2>3. /\ r \in Seq(Logins)
        /\ \A i, j \in DOMAIN r : r[i] = r[j] => i = j
        /\ \A x \in Logins : (\E i \in DOMAIN r : r[i] = x)
                               <=> x # l /\ \E i \in DOMAIN s : s[i] = x
    BY <1>2, <2>2, TailHolds
  <2> HIDE DEF r
  <2>4. \A i \in DOMAIN r : r[i] # l
    BY <2>3
  <2>5. /\ \A i, j \in DOMAIN Append(r, l) : Append(r, l)[i] = Append(r, l)[j] => i = j
        /\ \A x \in Logins : (\E i \in DOMAIN Append(r, l) : Append(r, l)[i] = x)
                               <=> x = l \/ \E i \in DOMAIN r : r[i] = x
    BY <2>3, <2>4, AppendHolds
  <2>6. \A k \in Logins :
          Wants(k, "keys")' <=> \E i \in DOMAIN lock'["keys"] : lock'["keys"][i] = k
    <3> TAKE k \in Logins
    <3>1. CASE k = l
      BY <1>1, <1>3, <1>4, <2>1, <2>5, <3>1
    <3>2. CASE k # l
      <4>1. Wants(k, "keys") <=> \E i \in DOMAIN s : s[i] = k
        BY <2>1 DEF Queue, s
      <4> QED
        BY <1>3, <2>1, <2>3, <2>5, <3>2, <4>1
    <3> QED
      BY <3>1, <3>2
  <2>7. ASSUME NEW k \in Logins, login'[k].pc \in Exchanging, login'[k].doc = "keys"
        PROVE  FALSE
    <3>1. k # l /\ login'[k] = login[k]
      BY <1>3, <1>4, <2>7
    <3> QED
      BY <1>2, <2>1, <2>7, <3>1 DEF Queue, s
  <2> QED
    BY <2>1, <2>5, <2>6, <2>7 DEF Queue
<1> QED
  BY <1>5, <1>6 DEF Queues

\* A login at the head goes on with its exchange.
LEMMA QueuesKept ==
  ASSUME Typed, Queues, NEW l \in Logins, NEW q,
         \/ login[l].pc \in Exchanging
         \/ login[l].pc = "lock" /\ Head(lock[login[l].doc]) = l,
         q.pc \in Exchanging, q.doc = login[l].doc,
         lock' = lock, login' = [login EXCEPT ![l] = q]
  PROVE  Queues'
<1>1. /\ login[l].pc \in InQueue /\ login[l].doc \in Documents
      /\ lock[login[l].doc][1] = l
  BY HolderIsHead
<1>2. /\ login'[l] = q
      /\ \A k \in Logins \ {l} : \A doc : Wants(k, doc)' <=> Wants(k, doc)
      /\ \A k \in Logins \ {l} : login'[k] = login[k]
      /\ \A doc : Wants(l, doc)' <=> q.pc \in InQueue /\ q.doc = doc
  BY OthersWant
<1>3. ASSUME NEW doc \in Documents PROVE Queue(doc)'
  <2>1. lock'[doc] = lock[doc] /\ Queue(doc)
    BY DEF Queues
  <2>2. \A k \in Logins : Wants(k, doc)' <=> Wants(k, doc)
    BY <1>1, <1>2 DEF Wants, Exchanging, InQueue
  <2>3. ASSUME NEW k \in Logins, login'[k].pc \in Exchanging, login'[k].doc = doc
        PROVE  lock'[doc][1] = k
    BY <1>1, <1>2, <2>1, <2>3 DEF Queue
  <2> QED
    BY <2>1, <2>2, <2>3 DEF Queue
<1> QED
  BY <1>3 DEF Queues

-----------------------------------------------------------------------------
(* What is known of the versions. *)

\* Versions are published one after the other.
Published(doc) ==
  /\ \A i \in DOMAIN published[doc] : published[doc][i] <= now
  /\ \A i, j \in DOMAIN published[doc] : i <= j => published[doc][i] <= published[doc][j]

\* An entry lives for no longer than an exchange and its time to live after the
\* version that follows it is published.
Cached(doc) ==
  /\ cache[doc].version <= Current(doc)
  /\ cache[doc].until <= now + Ttl
  /\ cache[doc].version \in 1..(Current(doc) - 1) =>
       cache[doc].until <= published[doc][cache[doc].version + 1] + Ttl + MaxFetch

\* A response is no older than the cache, and was current after its request.
Served(l) ==
  LET v == login[l]
  IN /\ v.version \in 1..Current(v.doc)
     /\ cache[v.doc].version <= v.version
     /\ v.version < Current(v.doc) => v.started <= published[v.doc][v.version + 1]
     /\ v.doc = "keys" => v.key <= v.version

Fetching(l) ==
  LET v == login[l]
  IN /\ v.pc \in InQueue /\ v.doc = "keys" => v.key <= Current("keys")
     /\ v.pc \in Exchanging => v.started <= now /\ now <= v.started + MaxFetch
     /\ v.pc = "response" => Served(l)

Versions ==
  /\ \A doc \in Documents : Published(doc) /\ Cached(doc)
  /\ \A l \in Logins : Fetching(l)

\* The key of an id_token rejected had been published, and is gone for good.
Verdicts ==
  /\ verdict.at <= now
  /\ ~verdict.good => verdict.key + Overlap < Current("keys")
  /\ WithdrawnKeyFades

-----------------------------------------------------------------------------
(* Types. *)

Holds(l) ==
  \/ login[l].pc \in Exchanging
  \/ login[l].pc = "lock" /\ Head(lock[login[l].doc]) = l

LEMMA EndsTyped ==
  ASSUME Typed, Queues, NEW l \in Logins, Holds(l), NEW version, Ends(l, version)
  PROVE  /\ lock' \in [Documents -> Seq(Logins)]
         /\ login' \in [Logins -> Local]
         /\ verdict' \in Verdict
         /\ Queues'
<1>1. /\ login[l].pc \in InQueue /\ login[l].doc \in Documents
      /\ lock[login[l].doc] \in Seq(Logins) /\ lock[login[l].doc] # <<>>
  BY HolderIsHead DEF Holds
<1>2. Tail(lock[login[l].doc]) \in Seq(Logins)
  BY <1>1, HeadAndTail
<1>3. /\ lock \in [Documents -> Seq(Logins)] /\ login \in [Logins -> Local]
      /\ verdict \in Verdict /\ now \in Nat
  BY DEF Typed
<1>4. CASE Leaves(l)
  <2>1. PICK q \in {Idle} \cup FetchingToken :
          /\ lock' = [lock EXCEPT ![login[l].doc] = Tail(@)]
          /\ login' = [login EXCEPT ![l] = q]
          /\ verdict' = verdict
    BY <1>4 DEF Leaves
  <2>2. q \in Local /\ q.pc \notin InQueue
    BY <2>1 DEF Local, FetchingToken, Idle, InQueue
  <2>3. lock' \in [Documents -> Seq(Logins)]
    BY <1>1, <1>2, <1>3, <2>1
  <2>4. login' \in [Logins -> Local]
    BY <1>3, <2>1, <2>2
  <2>5. Queues'
    BY <2>1, <2>2, QueuesLeft DEF Holds
  <2> QED
    BY <1>3, <2>1, <2>3, <2>4, <2>5
<1>5. CASE Decides(l, version)
  <2>1. /\ lock' = [lock EXCEPT ![login[l].doc] = Tail(@)]
        /\ login' = [login EXCEPT ![l] = Idle]
        /\ login[l].doc = "keys"
        /\ verdict' = [key |-> login[l].key, at |-> now, good |-> HasKey(version, login[l].key)]
    BY <1>5 DEF Decides
  <2>2. Idle \in Local /\ Idle.pc \notin InQueue
    BY DEF Local, Idle, InQueue
  <2>3. login[l].key \in Version
    BY <1>1, <1>3, <2>1, LocalKinds
  <2>4. HasKey(version, login[l].key) \in BOOLEAN
    BY DEF HasKey
  <2>5. verdict' \in Verdict
    BY <1>3, <2>1, <2>3, <2>4 DEF Verdict, Version
  <2>6. lock' \in [Documents -> Seq(Logins)]
    BY <1>1, <1>2, <1>3, <2>1
  <2>7. login' \in [Logins -> Local]
    BY <1>3, <2>1, <2>2
  <2>8. Queues'
    BY <2>1, <2>2, QueuesLeft DEF Holds
  <2> QED
    BY <2>5, <2>6, <2>7, <2>8
<1>6. CASE Retries(l)
  <2>1. PICK q \in Local :
          /\ login[l].doc = "keys"
          /\ lock' = [lock EXCEPT !["keys"] = Append(Tail(@), l)]
          /\ login' = [login EXCEPT ![l] = q]
          /\ verdict' = verdict
    BY <1>6 DEF Retries
  <2>2. Append(Tail(lock["keys"]), l) \in Seq(Logins)
    BY <1>2, <2>1, Appended
  <2>3. lock' \in [Documents -> Seq(Logins)]
    BY <1>1, <1>3, <2>1, <2>2
  <2>4. login' \in [Logins -> Local]
    BY <1>3, <2>1
  <2>5. Queues'
    BY <1>6, QueuesRetried DEF Holds
  <2> QED
    BY <1>3, <2>1, <2>3, <2>4, <2>5
<1> QED
  BY <1>4, <1>5, <1>6 DEF Ends

LEMMA TypedStays ==
  ASSUME Typed, Queues, [Next]_vars
  PROVE  Typed' /\ Queues'
<1>1. CASE UNCHANGED vars
  BY <1>1 DEF vars, Typed, Queues, Queue, Wants
<1>2. CASE Tick
  BY <1>2 DEF Tick, Typed, Queues, Queue, Wants
<1>3. ASSUME NEW doc \in Documents, Publishes(doc) PROVE Typed' /\ Queues'
  <2>1. /\ published' = [published EXCEPT ![doc] = Append(@, now)]
        /\ UNCHANGED <<now, cache, lock, login, verdict>>
    BY <1>3 DEF Publishes
  <2>2. Append(published[doc], now) \in Seq(Nat) /\ Append(published[doc], now) # <<>>
    BY Appended DEF Typed
  <2> DEFINE more == Append(published[doc], now)
  <2> HIDE DEF more
  <2>3. published' \in [Documents -> Seq(Nat)] /\ \A d \in Documents : published'[d] # <<>>
    BY <2>1, <2>2 DEF Typed, more
  <2>4. Typed'
    BY <2>1, <2>3 DEF Typed
  <2>5. Queues'
    BY <2>1 DEF Queues, Queue, Wants
  <2> QED
    BY <2>4, <2>5
<1>4. ASSUME NEW l \in Logins, Asks(l) PROVE Typed' /\ Queues'
  <2>1. PICK d \in Documents, q \in Local :
          /\ lock' = [lock EXCEPT ![d] = Append(@, l)]
          /\ login' = [login EXCEPT ![l] = q]
          /\ UNCHANGED <<now, published, cache, verdict>>
    BY <1>4 DEF Asks
  <2>2. Append(lock[d], l) \in Seq(Logins)
    BY Appended DEF Typed
  <2>3. lock' \in [Documents -> Seq(Logins)] /\ login' \in [Logins -> Local]
    BY <2>1, <2>2 DEF Typed
  <2> QED
    BY <1>4, <2>1, <2>3, QueuesAsked DEF Typed
<1>5. ASSUME NEW l \in Logins, Requests(l) \/ IsServed(l) PROVE Typed' /\ Queues'
  <2>1. PICK q \in Local :
          /\ q.pc \in Exchanging /\ q.doc = login[l].doc
          /\ login' = [login EXCEPT ![l] = q]
          /\ UNCHANGED <<now, published, cache, lock, verdict>>
    BY <1>5 DEF Requests, IsServed, Exchanging
  <2>2. Holds(l)
    BY <1>5 DEF Requests, IsServed, Exchanging, Holds
  <2>3. login' \in [Logins -> Local]
    BY <2>1 DEF Typed
  <2>4. Queues'
    BY <2>1, <2>2, QueuesKept DEF Holds
  <2> QED
    BY <2>1, <2>3, <2>4 DEF Typed
<1>6. ASSUME NEW l \in Logins, GivesUp(l) PROVE Typed' /\ Queues'
  <2>1. /\ login[l].pc = "fetch_token" /\ login' = [login EXCEPT ![l] = Idle]
        /\ UNCHANGED <<now, published, cache, lock, verdict>>
    BY <1>6 DEF GivesUp
  <2>2. Idle \in Local /\ Idle.pc \notin InQueue
    BY DEF Local, Idle, InQueue
  <2>3. login' \in [Logins -> Local]
    BY <2>1, <2>2 DEF Typed
  <2>4. \A k \in Logins, doc \in Documents : Wants(k, doc)' <=> Wants(k, doc)
    BY <2>1, <2>2 DEF Wants, Typed, InQueue
  <2>5. \A k \in Logins : login'[k].pc \in Exchanging => login'[k] = login[k]
    BY <2>1, <2>2 DEF Typed, Exchanging, InQueue
  <2>6. Queues'
    BY <2>1, <2>4, <2>5 DEF Queues, Queue
  <2> QED
    BY <2>1, <2>3, <2>6 DEF Typed
<1>7. ASSUME NEW l \in Logins, Hits(l) \/ Receives(l) \/ Fails(l) PROVE Typed' /\ Queues'
  <2>1. Holds(l)
    BY <1>7 DEF Hits, Receives, Fails, Exchanging, Holds
  <2>2. \E version : Ends(l, version)
    BY <1>7 DEF Hits, Receives, Fails, Ends
  <2>3. /\ lock' \in [Documents -> Seq(Logins)] /\ login' \in [Logins -> Local]
        /\ verdict' \in Verdict /\ Queues'
    BY <2>1, <2>2, EndsTyped
  <2>4. UNCHANGED <<now, published>>
    BY <1>7 DEF Hits, Receives, Fails
  <2>5. cache' \in [Documents -> Entry]
    <3>1. CASE Receives(l)
      <4>1. login[l].pc \in InQueue /\ login[l] \in Local
        BY <3>1 DEF Receives, InQueue, Typed
      <4>2. login[l].version \in Nat
        BY <4>1, LocalKinds
      <4>3. now + Ttl \in Nat
        BY CacheAssumption DEF CacheAssumption, Typed
      <4>4. [version |-> login[l].version, until |-> now + Ttl] \in Entry
        BY <4>2, <4>3 DEF Entry
      <4> QED
        BY <3>1, <4>4 DEF Receives, Typed
    <3>2. CASE cache' = cache
      BY <3>2 DEF Typed
    <3> QED
      BY <1>7, <3>1, <3>2 DEF Hits, Fails
  <2> QED
    BY <2>3, <2>4, <2>5 DEF Typed
<1> QED
  BY <1>1, <1>2, <1>3, <1>4, <1>5, <1>6, <1>7, Steps

LEMMA TypedAtFirst == Init => Typed /\ Queues
<1> SUFFICES ASSUME Init PROVE Typed /\ Queues
  OBVIOUS
<1>1. Missing \in Entry /\ Idle \in Local /\ Idle.pc \notin InQueue /\ Idle.pc \notin Exchanging
  BY DEF Missing, Entry, Local, Idle, InQueue, Exchanging
<1>2. verdict \in Verdict
  BY DEF Init, Verdict
<1>3. <<0>> \in Seq(Nat) /\ <<0>> # <<>>
  OBVIOUS
<1>4. Typed
  BY <1>1, <1>2, <1>3 DEF Init, Typed
<1>5. \A doc \in Documents : lock[doc] = <<>>
  BY DEF Init
<1>6. \A l \in Logins : login[l].pc \notin InQueue /\ login[l].pc \notin Exchanging
  BY <1>1 DEF Init
<1>7. Queues
  BY <1>5, <1>6 DEF Queues, Queue, Wants
<1> QED
  BY <1>4, <1>7

LEMMA AlwaysTyped == Spec => [](Typed /\ Queues)
<1>1. Typed /\ Queues /\ [Next]_vars => (Typed /\ Queues)'
  BY TypedStays
<1> QED
  BY <1>1, TypedAtFirst, PTL DEF Spec

\* Every variable has its type, and the queue of a document holds exactly the
\* logins that wait for it or exchange it.
THEOREM TypeCorrect == Spec => []TypeOK
<1>1. Typed /\ Queues => TypeOK
  <2> SUFFICES ASSUME Typed, Queues PROVE TypeOK
    OBVIOUS
  <2>1. ASSUME NEW l \in Logins, NEW doc \in Documents
        PROVE  (\E i \in DOMAIN lock[doc] : lock[doc][i] = l) <=>
                 (login[l].pc \in {"lock", "request", "response"} /\ login[l].doc = doc)
    BY DEF Queues, Queue, Wants, InQueue
  <2> QED
    BY <2>1 DEF Typed, TypeOK, Local
<1> QED
  BY <1>1, AlwaysTyped, PTL

\* Whoever exchanges a document with the provider holds its lock, alone: each
\* document is fetched by one login at a time.
OneFetchAtATime ==
  \A k, l \in Logins :
    /\ login[k].pc \in Exchanging /\ login[l].pc \in Exchanging
    /\ login[k].doc = login[l].doc
    => k = l

\* However many logins miss the cache at once, one of them asks the provider.
THEOREM AlwaysOneFetch == Spec => []OneFetchAtATime
<1>1. Typed /\ Queues => OneFetchAtATime
  <2> SUFFICES ASSUME Typed, Queues, NEW k \in Logins, NEW l \in Logins,
                      login[k].pc \in Exchanging, login[l].pc \in Exchanging,
                      login[k].doc = login[l].doc
               PROVE  k = l
    BY DEF OneFetchAtATime
  <2> QED
    BY HolderIsHead
<1> QED
  BY <1>1, AlwaysTyped, PTL

-----------------------------------------------------------------------------
(* The versions. *)

LEMMA PublishedThen ==
  ASSUME Typed, NEW d \in Documents, Publishes(d)
  PROVE  /\ UNCHANGED <<now, cache, lock, login, verdict>>
         /\ \A doc \in Documents \ {d} : published'[doc] = published[doc]
         /\ \A doc \in Documents : Current(doc) \in Nat /\ Current(doc)' \in Nat
         /\ \A doc \in Documents : DOMAIN published[doc] = 1..Current(doc)
         /\ \A doc \in Documents : published[doc] \in Seq(Nat)
         /\ \A doc \in Documents : DOMAIN published'[doc] = 1..Current(doc)'
         /\ \A doc \in Documents \ {d} : Current(doc)' = Current(doc)
         /\ Current(d)' = Current(d) + 1
         /\ \A i \in 1..Current(d) : published'[d][i] = published[d][i]
         /\ published'[d][Current(d) + 1] = now
<1>1. /\ published' = [published EXCEPT ![d] = Append(@, now)]
      /\ UNCHANGED <<now, cache, lock, login, verdict>>
      /\ published \in [Documents -> Seq(Nat)] /\ now \in Nat
  BY DEF Publishes, Typed
<1>2. \A doc \in Documents : /\ Current(doc) \in Nat /\ published[doc] \in Seq(Nat)
                             /\ DOMAIN published[doc] = 1..Current(doc)
  BY <1>1 DEF Current
<1>3. \A doc \in Documents \ {d} :
        published'[doc] = published[doc] /\ Current(doc)' = Current(doc)
  BY <1>1 DEF Current
<1> DEFINE s == published[d]
<1>4. /\ Len(Append(s, now)) = Len(s) + 1 /\ Len(s) \in Nat
      /\ DOMAIN Append(s, now) = DOMAIN s \cup {Len(s) + 1}
      /\ Append(s, now) \in Seq(Nat)
      /\ \A i \in DOMAIN s : Append(s, now)[i] = s[i]
      /\ Append(s, now)[Len(s) + 1] = now
  BY <1>1, Appended
<1>5. published'[d] = Append(s, now)
  BY <1>1
<1> HIDE DEF s
<1>6. Current(d)' = Len(Append(s, now)) /\ Current(d) = Len(s)
  BY <1>5 DEF Current, s
<1>7. DOMAIN published'[d] = 1..Current(d)'
  BY <1>4, <1>5, <1>6
<1> QED
  BY <1>1, <1>2, <1>3, <1>4, <1>5, <1>6, <1>7 DEF s

\* A login that is where it was, with the same cache and versions.
LEMMA FetchingStays ==
  ASSUME NEW k, Fetching(k), login'[k] = login[k], UNCHANGED <<now, published, cache>>
  PROVE  Fetching(k)'
BY DEF Fetching, Served, Current

LEMMA SequencesTyped ==
  ASSUME Typed, NEW doc \in Documents
  PROVE  /\ Current(doc) \in Nat \ {0} /\ DOMAIN published[doc] = 1..Current(doc)
         /\ \A i \in 1..Current(doc) : published[doc][i] \in Nat
         /\ cache[doc].version \in Nat /\ cache[doc].until \in Nat
         /\ now \in Nat /\ Ttl \in Nat /\ MaxFetch \in Nat
BY CacheAssumption DEF Typed, Current, CacheAssumption, Entry

LEMMA VersionsAtPublish ==
  ASSUME Typed, Versions, NEW d \in Documents, Publishes(d)
  PROVE  Versions'
<1>1. /\ UNCHANGED <<now, cache, lock, login, verdict>>
      /\ \A doc \in Documents \ {d} : published'[doc] = published[doc]
      /\ \A doc \in Documents : Current(doc) \in Nat /\ Current(doc)' \in Nat
      /\ \A doc \in Documents : DOMAIN published'[doc] = 1..Current(doc)'
      /\ \A doc \in Documents : DOMAIN published[doc] = 1..Current(doc)
      /\ \A doc \in Documents \ {d} : Current(doc)' = Current(doc)
      /\ Current(d)' = Current(d) + 1
      /\ \A i \in 1..Current(d) : published'[d][i] = published[d][i]
      /\ published'[d][Current(d) + 1] = now
  BY PublishedThen
<1>2. ASSUME NEW doc \in Documents
      PROVE  /\ \A i \in 1..Current(doc) : published[doc][i] \in Nat
             /\ cache[doc].version \in Nat /\ cache[doc].until \in Nat
             /\ now \in Nat /\ Ttl \in Nat /\ MaxFetch \in Nat
  BY SequencesTyped
<1>3. ASSUME NEW doc \in Documents \ {d} PROVE Published(doc)' /\ Cached(doc)'
  <2>1. Published(doc) /\ Cached(doc) /\ cache'[doc] = cache[doc] /\ now' = now
        /\ published'[doc] = published[doc] /\ Current(doc)' = Current(doc)
    BY <1>1 DEF Versions
  <2> QED
    BY <2>1 DEF Published, Cached
<1>4. Published(d)'
  <2>1. \A i \in 1..Current(d) : published[d][i] <= now
    BY <1>1 DEF Versions, Published
  <2>2. \A i, j \in 1..Current(d) : i <= j => published[d][i] <= published[d][j]
    BY <1>1 DEF Versions, Published
  <2>3. ASSUME NEW i \in 1..(Current(d) + 1) PROVE published'[d][i] <= now
    BY <1>1, <1>2, <2>1, <2>3
  <2>4. ASSUME NEW i \in 1..(Current(d) + 1), NEW j \in 1..(Current(d) + 1), i <= j
        PROVE  published'[d][i] <= published'[d][j]
    <3>1. CASE j = Current(d) + 1
      BY <1>1, <2>3, <3>1
    <3>2. CASE j # Current(d) + 1
      <4>1. i \in 1..Current(d) /\ j \in 1..Current(d)
        BY <1>1, <2>4, <3>2
      <4> QED
        BY <1>1, <2>2, <2>4, <4>1
    <3> QED
      BY <3>1, <3>2
  <2> QED
    BY <1>1, <2>3, <2>4 DEF Published
<1>5. Cached(d)'
  <2> DEFINE v == cache[d].version
             u == cache[d].until
  <2>1. /\ v <= Current(d) /\ u <= now + Ttl
        /\ v \in 1..(Current(d) - 1) => u <= published[d][v + 1] + Ttl + MaxFetch
    BY DEF Versions, Cached
  <2>2. v \in Nat /\ u \in Nat /\ now \in Nat /\ Ttl \in Nat /\ MaxFetch \in Nat
    BY <1>2
  <2> HIDE DEF v, u
  <2>3. ASSUME v \in 1..Current(d) PROVE u <= published'[d][v + 1] + Ttl + MaxFetch
    <3>1. CASE v = Current(d)
      BY <1>1, <2>1, <2>2, <3>1
    <3>2. CASE v # Current(d)
      <4>1. v + 1 \in 1..Current(d) /\ v \in 1..(Current(d) - 1)
        BY <1>1, <2>2, <2>3, <3>2
      <4> QED
        BY <1>1, <2>1, <4>1
    <3> QED
      BY <3>1, <3>2
  <2>4. v <= Current(d) + 1 /\ (Current(d) + 1) - 1 = Current(d)
    <3>1. Current(d) \in Nat /\ v \in Nat /\ v <= Current(d)
      BY <1>1, <2>1, <2>2
    <3> QED
      BY <3>1
  <2>5. cache'[d].version = v /\ cache'[d].until = u /\ now' = now /\ Current(d)' = Current(d) + 1
    BY <1>1 DEF v, u
  <2> QED
    BY <2>1, <2>3, <2>4, <2>5 DEF Cached
<1>6. ASSUME NEW k \in Logins PROVE Fetching(k)'
  <2> DEFINE v == login[k]
  <2>1. Fetching(k) /\ v \in Local /\ login'[k] = v
    BY <1>1 DEF Versions, Typed
  <2>2. v.pc \in InQueue =>
          /\ v.doc \in Documents /\ v.started \in Nat /\ v.version \in Nat
          /\ v.doc = "keys" => v.key \in Nat
    BY <2>1, LocalKinds DEF Version
  <2>3. v.pc \in Exchanging => v.pc \in InQueue
    BY DEF Exchanging, InQueue
  <2>4. \A doc \in Documents : Current(doc) <= Current(doc)'
    BY <1>1
  <2>5. /\ v.pc \in InQueue /\ v.doc = "keys" => v.key <= Current("keys")
        /\ v.pc \in Exchanging => v.started <= now /\ now <= v.started + MaxFetch
        /\ v.pc = "response" => Served(k)
    BY <2>1 DEF Fetching
  <2> HIDE DEF v
  <2>6. v.pc \in InQueue /\ v.doc = "keys" => v.key <= Current("keys")'
    BY <1>1, <2>2, <2>4, <2>5
  <2>7. ASSUME NEW doc \in Documents, v.pc = "response", v.doc = doc PROVE Served(k)'
    <3>1. v.pc \in InQueue /\ v.pc \in Exchanging
      BY <2>7 DEF InQueue, Exchanging
    <3>2. /\ v.version \in 1..Current(doc)
          /\ cache[doc].version <= v.version
          /\ v.version < Current(doc) => v.started <= published[doc][v.version + 1]
          /\ doc = "keys" => v.key <= v.version
      BY <2>5, <2>7 DEF Served, v
    <3>3. v.version \in 1..Current(doc)'
      BY <1>1, <2>2, <2>4, <3>1, <3>2
    <3>4. ASSUME v.version < Current(doc)'
          PROVE  v.started <= published'[doc][v.version + 1]
      <4>1. CASE doc # d
        <5>1. Current(doc)' = Current(doc) /\ published'[doc] = published[doc]
          BY <1>1, <4>1
        <5> QED
          BY <3>2, <3>4, <5>1
      <4>2. CASE doc = d /\ v.version = Current(d)
        BY <1>1, <2>5, <3>1, <4>2
      <4>3. CASE doc = d /\ v.version # Current(d)
        <5>1. v.version < Current(d) /\ v.version + 1 \in 1..Current(d)
          BY <1>1, <2>2, <3>1, <3>2, <4>3
        <5> QED
          BY <1>1, <3>2, <4>3, <5>1
      <4> QED
        BY <4>1, <4>2, <4>3
    <3>5. cache' = cache /\ login'[k] = v
      BY <1>1, <2>1
    <3>6. v.version \in 1..Len(published'[doc])
      BY <3>3 DEF Current
    <3>7. v.version < Len(published'[doc]) => v.started <= published'[doc][v.version + 1]
      BY <3>4 DEF Current
    <3> QED
      BY <2>7, <3>2, <3>5, <3>6, <3>7 DEF Served, Current
  <2>8. now' = now /\ login'[k] = v
    BY <1>1, <2>1
  <2>9. v.pc = "response" => v.doc \in Documents
    BY <2>2 DEF InQueue
  <2>10. v.pc = "response" => Served(k)'
    BY <2>7, <2>9
  <2> QED
    BY <2>5, <2>6, <2>8, <2>10 DEF Fetching
<1> QED
  BY <1>3, <1>4, <1>5, <1>6 DEF Versions

\* A login that changes its place, while caches and versions stay.
LEMMA VersionsMoved ==
  ASSUME Typed, Versions, NEW l \in Logins, NEW q, login' = [login EXCEPT ![l] = q],
         UNCHANGED <<now, published, cache>>, Fetching(l)'
  PROVE  Versions'
<1>1. ASSUME NEW k \in Logins PROVE Fetching(k)'
  <2>1. CASE k = l
    BY <2>1
  <2>2. CASE k # l
    <3>1. login'[k] = login[k] /\ Fetching(k)
      BY <2>2 DEF Typed, Versions
    <3> QED
      BY <3>1, FetchingStays
  <2> QED
    BY <2>1, <2>2
<1>2. ASSUME NEW doc \in Documents PROVE Published(doc)' /\ Cached(doc)'
  BY DEF Versions, Published, Cached, Current
<1> QED
  BY <1>1, <1>2 DEF Versions

\* What the login is whose place changes as the lock is released.
LEMMA EndsPlace ==
  ASSUME Typed, NEW l \in Logins, NEW version, Ends(l, version)
  PROVE  \E q : /\ login' = [login EXCEPT ![l] = q]
                /\ q.pc \notin Exchanging
                /\ q.pc \in InQueue => /\ q.doc = "keys" /\ login[l].doc = "keys"
                                       /\ q.key = login[l].key
<1>1. CASE Leaves(l)
  <2>1. PICK q \in {Idle} \cup FetchingToken : login' = [login EXCEPT ![l] = q]
    BY <1>1 DEF Leaves
  <2>2. q.pc \notin Exchanging /\ q.pc \notin InQueue
    BY <2>1 DEF Idle, FetchingToken, Exchanging, InQueue
  <2> QED
    BY <2>1, <2>2
<1>2. CASE Decides(l, version)
  <2>1. login' = [login EXCEPT ![l] = Idle]
    BY <1>2 DEF Decides
  <2>2. Idle.pc \notin Exchanging /\ Idle.pc \notin InQueue
    BY DEF Idle, Exchanging, InQueue
  <2> QED
    BY <2>1, <2>2
<1>3. CASE Retries(l)
  <2>1. PICK q \in Local :
          /\ login[l].doc = "keys"
          /\ q.pc = "lock" /\ q.doc = "keys" /\ q.key = login[l].key
          /\ login' = [login EXCEPT ![l] = q]
    BY <1>3 DEF Retries
  <2>2. q.pc \notin Exchanging
    BY <2>1 DEF Exchanging
  <2> QED
    BY <2>1, <2>2
<1> QED
  BY <1>1, <1>2, <1>3 DEF Ends

LEMMA VersionsAtReceive ==
  ASSUME Typed, Queues, Versions, NEW l \in Logins, Receives(l)
  PROVE  /\ Versions'
         /\ \A doc \in Documents : cache[doc].version <= cache'[doc].version
<1> DEFINE v == login[l]
<1>1. /\ v.pc = "response"
      /\ cache' = [cache EXCEPT ![v.doc] = [version |-> v.version, until |-> now + Ttl]]
      /\ UNCHANGED <<now, published>>
  BY DEF Receives
<1>2. v \in Local /\ v.pc \in InQueue /\ v.pc \in Exchanging
  BY <1>1 DEF Typed, InQueue, Exchanging
<1>3. /\ v.doc \in Documents /\ v.started \in Nat /\ v.version \in Nat
      /\ v.doc = "keys" => v.key \in Nat
  BY <1>2, LocalKinds DEF Version
<1>4. PICK q : /\ login' = [login EXCEPT ![l] = q]
               /\ q.pc \notin Exchanging
               /\ q.pc \in InQueue => /\ q.doc = "keys" /\ v.doc = "keys"
                                      /\ q.key = v.key
  BY EndsPlace DEF Receives
<1>5. /\ v.doc = "keys" => v.key <= Current("keys")
      /\ v.started <= now /\ now <= v.started + MaxFetch
      /\ v.version \in 1..Current(v.doc)
      /\ cache[v.doc].version <= v.version
      /\ v.version < Current(v.doc) => v.started <= published[v.doc][v.version + 1]
  BY <1>1, <1>2 DEF Versions, Fetching, Served
<1> HIDE DEF v
<1>6. /\ cache'[v.doc].version = v.version /\ cache'[v.doc].until = now + Ttl
      /\ \A doc \in Documents \ {v.doc} : cache'[doc] = cache[doc]
  BY <1>1, <1>3 DEF Typed
<1>7. ASSUME NEW doc \in Documents
      PROVE  Published(doc)' /\ Cached(doc)' /\ cache[doc].version <= cache'[doc].version
  <2>1. /\ Current(doc) \in Nat \ {0}
        /\ \A i \in 1..Current(doc) : published[doc][i] \in Nat
        /\ cache[doc].version \in Nat /\ cache[doc].until \in Nat
        /\ now \in Nat /\ Ttl \in Nat /\ MaxFetch \in Nat
    BY SequencesTyped
  <2>2. Published(doc) /\ Cached(doc)
    BY DEF Versions
  <2>3. Published(doc)'
    BY <1>1, <2>2 DEF Published
  <2>4. CASE doc # v.doc
    <3>1. cache'[doc] = cache[doc]
      BY <1>6, <2>4
    <3> QED
      BY <1>1, <2>1, <2>2, <2>3, <3>1 DEF Cached, Current
  <2>5. CASE doc = v.doc
    <3>1. v.version <= Current(doc) /\ now + Ttl <= now + Ttl
      BY <1>5, <2>1, <2>5
    <3>2. ASSUME v.version \in 1..(Current(doc) - 1)
          PROVE  now + Ttl <= published[doc][v.version + 1] + Ttl + MaxFetch
      <4>1. v.version < Current(doc) /\ v.version + 1 \in 1..Current(doc)
        BY <2>1, <3>2
      <4>2. published[doc][v.version + 1] \in Nat
        BY <2>1, <4>1
      <4>3. v.started <= published[doc][v.version + 1]
        BY <1>5, <2>5, <4>1
      <4> QED
        BY <1>3, <1>5, <2>1, <4>2, <4>3
    <3>3. Cached(doc)'
      BY <1>1, <1>6, <2>5, <3>1, <3>2 DEF Cached, Current
    <3> QED
      BY <1>5, <1>6, <2>3, <2>5, <3>3
  <2> QED
    BY <2>4, <2>5
<1>8. ASSUME NEW k \in Logins PROVE Fetching(k)'
  <2>1. CASE k = l
    <3>1. login'[k] = q
      BY <1>4, <2>1 DEF Typed
    <3>2. q.pc \in InQueue /\ q.doc = "keys" => q.key <= Current("keys")
      BY <1>4, <1>5
    <3>3. q.pc # "response"
      BY <1>4 DEF Exchanging
    <3> QED
      BY <1>1, <1>4, <3>1, <3>2, <3>3 DEF Fetching, Current
  <2>2. CASE k # l
    <3>1. login'[k] = login[k] /\ Fetching(k)
      BY <1>4, <2>2 DEF Typed, Versions
    <3>2. login[k].pc = "response" => login[k].doc \in Documents /\ login[k].doc # v.doc
      <4> SUFFICES ASSUME login[k].pc = "response"
                   PROVE  login[k].doc \in Documents /\ login[k].doc # v.doc
        OBVIOUS
      <4>1. login[k].pc \in Exchanging
        BY DEF Exchanging
      <4>2. login[k].doc \in Documents /\ lock[login[k].doc][1] = k
        BY <4>1, HolderIsHead
      <4>3. lock[v.doc][1] = l
        BY <1>2, HolderIsHead DEF v
      <4> QED
        BY <2>2, <4>2, <4>3
    <3>3. login[k].pc = "response" => cache'[login[k].doc] = cache[login[k].doc]
      BY <1>6, <3>2
    <3> QED
      BY <1>1, <3>1, <3>3 DEF Fetching, Served, Current
  <2> QED
    BY <2>1, <2>2
<1> QED
  BY <1>7, <1>8 DEF Versions

LEMMA VersionsStay ==
  ASSUME Typed, Queues, Versions, [Next]_vars
  PROVE  /\ Versions'
         /\ \A doc \in Documents : cache[doc].version <= cache'[doc].version
<1>0. \A doc \in Documents : cache[doc].version <= cache[doc].version
  BY SequencesTyped
<1>1. CASE UNCHANGED vars
  <2>1. cache' = cache
    BY <1>1 DEF vars
  <2>2. Versions'
    BY <1>1 DEF vars, Versions, Published, Cached, Fetching, Served, Current
  <2> QED
    BY <1>0, <2>1, <2>2
<1>2. CASE Tick
  <2>1. /\ now' = now + 1 /\ UNCHANGED <<published, cache, lock, login, verdict>>
        /\ \A l \in Logins :
             login[l].pc \in Exchanging => now < login[l].started + MaxFetch
    BY <1>2 DEF Tick, Exchanging
  <2>2. ASSUME NEW doc \in Documents PROVE Published(doc)' /\ Cached(doc)'
    <3>1. /\ Current(doc) \in Nat \ {0} /\ DOMAIN published[doc] = 1..Current(doc)
          /\ \A i \in 1..Current(doc) : published[doc][i] \in Nat
          /\ cache[doc].version \in Nat /\ cache[doc].until \in Nat
          /\ now \in Nat /\ Ttl \in Nat
      BY SequencesTyped
    <3>2. Published(doc) /\ Cached(doc)
      BY DEF Versions
    <3>3. \A i \in DOMAIN published'[doc] : published'[doc][i] <= now'
      BY <2>1, <3>1, <3>2 DEF Published
    <3>4. cache'[doc].until <= now' + Ttl
      BY <2>1, <3>1, <3>2 DEF Cached
    <3> QED
      BY <2>1, <3>2, <3>3, <3>4 DEF Published, Cached, Current
  <2>3. ASSUME NEW l \in Logins PROVE Fetching(l)'
    <3>1. Fetching(l) /\ login[l] \in Local
      BY DEF Versions, Typed
    <3>2. login[l].pc \in Exchanging =>
            login[l].started \in Nat /\ now \in Nat /\ MaxFetch \in Nat
      BY <3>1, LocalKinds, CacheAssumption DEF Exchanging, InQueue, Typed, CacheAssumption
    <3>3. login[l].pc \in Exchanging =>
            login[l].started <= now' /\ now' <= login[l].started + MaxFetch
      BY <2>1, <3>1, <3>2 DEF Fetching
    <3> QED
      BY <2>1, <3>1, <3>3 DEF Fetching, Served, Current
  <2> QED
    BY <1>0, <2>1, <2>2, <2>3 DEF Versions
<1>3. ASSUME NEW d \in Documents, Publishes(d)
      PROVE  Versions' /\ \A doc \in Documents : cache[doc].version <= cache'[doc].version
  BY <1>0, <1>3, VersionsAtPublish DEF Publishes
<1>4. ASSUME NEW l \in Logins, Asks(l)
      PROVE  Versions' /\ cache' = cache
  <2>1. PICK doc \in Documents, q \in Local :
          /\ q.pc = "lock" /\ q.doc = doc /\ (doc = "keys" => q.key = Current("keys"))
          /\ login' = [login EXCEPT ![l] = q]
          /\ UNCHANGED <<now, published, cache, verdict>>
    BY <1>4 DEF Asks
  <2>2. Current("keys") \in Nat
    BY SequencesTyped DEF Documents
  <2>3. login'[l] = q /\ (doc = "keys" => q.key <= Current("keys"))
    BY <2>1, <2>2 DEF Typed
  <2>4. Fetching(l)'
    BY <2>1, <2>3 DEF Fetching, Exchanging, Current
  <2> QED
    BY <2>1, <2>4, VersionsMoved
<1>5. ASSUME NEW l \in Logins, Requests(l)
      PROVE  Versions' /\ cache' = cache
  <2>1. PICK q \in Local :
          /\ login[l].pc = "lock"
          /\ q.pc = "request" /\ q.doc = login[l].doc /\ q.started = now
          /\ (q.doc = "keys" => q.key = login[l].key)
          /\ login' = [login EXCEPT ![l] = q]
          /\ UNCHANGED <<now, published, cache, lock, verdict>>
    BY <1>5 DEF Requests
  <2>2. Fetching(l) /\ now \in Nat /\ MaxFetch \in Nat /\ login'[l] = q
    BY <2>1, CacheAssumption DEF Versions, Typed, CacheAssumption
  <2>3. q.doc = "keys" => q.key <= Current("keys")
    BY <2>1, <2>2 DEF Fetching, InQueue
  <2>4. q.started <= now /\ now <= q.started + MaxFetch
    BY <2>1, <2>2
  <2>5. Fetching(l)'
    BY <2>1, <2>2, <2>3, <2>4 DEF Fetching, Current
  <2> QED
    BY <2>1, <2>5, VersionsMoved
<1>6. ASSUME NEW l \in Logins, IsServed(l)
      PROVE  Versions' /\ cache' = cache
  <2>1. PICK q \in Local :
          /\ login[l].pc = "request"
          /\ q.pc = "response" /\ q.doc = login[l].doc /\ q.started = login[l].started
          /\ q.version = Current(q.doc)
          /\ (q.doc = "keys" => q.key = login[l].key)
          /\ login' = [login EXCEPT ![l] = q]
          /\ UNCHANGED <<now, published, cache, lock, verdict>>
    BY <1>6 DEF IsServed
  <2>2. Fetching(l) /\ login'[l] = q
    BY <2>1 DEF Versions, Typed
  <2>3. q.doc \in Documents
    BY <2>1, LocalKinds DEF InQueue
  <2>4. Current(q.doc) \in Nat \ {0} /\ cache[q.doc].version <= Current(q.doc)
    BY <2>3, SequencesTyped DEF Versions, Cached
  <2>5. q.doc = "keys" => q.key <= Current("keys")
    BY <2>1, <2>2 DEF Fetching, InQueue
  <2>6. q.started <= now /\ now <= q.started + MaxFetch
    BY <2>1, <2>2 DEF Fetching, Exchanging
  <2>7. /\ q.version \in 1..Current(q.doc) /\ ~(q.version < Current(q.doc))
        /\ cache[q.doc].version <= q.version
        /\ q.doc = "keys" => q.key <= q.version
    BY <2>1, <2>4, <2>5
  <2>8. Served(l)'
    BY <2>1, <2>2, <2>7 DEF Served, Current
  <2>9. Fetching(l)'
    BY <2>1, <2>2, <2>5, <2>6, <2>8 DEF Fetching, Current
  <2> QED
    BY <2>1, <2>9, VersionsMoved
<1>7. ASSUME NEW l \in Logins, GivesUp(l)
      PROVE  Versions' /\ cache' = cache
  <2>1. /\ login' = [login EXCEPT ![l] = Idle]
        /\ UNCHANGED <<now, published, cache, lock, verdict>>
    BY <1>7 DEF GivesUp
  <2>2. login'[l] = Idle
    BY <2>1 DEF Typed
  <2>3. Fetching(l)'
    BY <2>2 DEF Fetching, Idle, InQueue, Exchanging
  <2> QED
    BY <2>1, <2>3, VersionsMoved
<1>8. ASSUME NEW l \in Logins, Hits(l) \/ Fails(l)
      PROVE  Versions' /\ cache' = cache
  <2>1. UNCHANGED <<now, published, cache>> /\ \E version : Ends(l, version)
    BY <1>8 DEF Hits, Fails, Ends
  <2>2. PICK q : /\ login' = [login EXCEPT ![l] = q]
                 /\ q.pc \notin Exchanging
                 /\ q.pc \in InQueue => /\ q.doc = "keys" /\ login[l].doc = "keys"
                                        /\ q.key = login[l].key
    BY <2>1, EndsPlace
  <2>3. login'[l] = q /\ Fetching(l) /\ login[l].pc \in InQueue
    BY <1>8, <2>2 DEF Typed, Versions, Hits, Fails, Exchanging, InQueue
  <2>4. q.pc \in InQueue => q.key <= Current("keys")
    BY <2>2, <2>3 DEF Fetching
  <2>5. Fetching(l)'
    BY <2>1, <2>2, <2>3, <2>4 DEF Fetching, Exchanging, Current
  <2> QED
    BY <2>1, <2>2, <2>5, VersionsMoved
<1>9. ASSUME NEW l \in Logins, Receives(l)
      PROVE  Versions' /\ \A doc \in Documents : cache[doc].version <= cache'[doc].version
  BY <1>9, VersionsAtReceive
<1> QED
  BY <1>0, <1>1, <1>2, <1>3, <1>4, <1>5, <1>6, <1>7, <1>8, <1>9, Steps

LEMMA VersionsAtFirst == Init => Versions
<1> SUFFICES ASSUME Init PROVE Versions
  OBVIOUS
<1>1. \A doc \in Documents : published[doc] = <<0>> /\ cache[doc] = Missing /\ now = 0
  BY DEF Init
<1>2. \A l \in Logins : login[l] = Idle
  BY DEF Init
<1>3. ASSUME NEW doc \in Documents PROVE Published(doc) /\ Cached(doc)
  BY <1>1, CacheAssumption DEF Published, Cached, Current, Missing, CacheAssumption
<1>4. ASSUME NEW l \in Logins PROVE Fetching(l)
  BY <1>2 DEF Fetching, Idle, InQueue, Exchanging
<1> QED
  BY <1>3, <1>4 DEF Versions

LEMMA AlwaysVersions == Spec => [](Typed /\ Queues /\ Versions)
<1>1. Typed /\ Queues /\ Versions /\ [Next]_vars => (Typed /\ Queues /\ Versions)'
  BY TypedStays, VersionsStay
<1> QED
  BY <1>1, TypedAtFirst, VersionsAtFirst, PTL DEF Spec

\* A cached document is never replaced by an earlier version of it.
THEOREM CacheGoesForward == Spec => CacheNeverGoesBack
<1>1. Typed /\ Queues /\ Versions /\ [Next]_vars
        => [\A doc \in Documents : cache[doc].version <= cache'[doc].version]_vars
  BY VersionsStay
<1> QED
  BY <1>1, AlwaysVersions, PTL DEF Spec, CacheNeverGoesBack

-----------------------------------------------------------------------------
(* The verdicts. *)

LEMMA VerdictTyped ==
  ASSUME Typed
  PROVE  /\ verdict.key \in Nat /\ verdict.at \in Nat /\ verdict.good \in BOOLEAN
         /\ "keys" \in Documents /\ Overlap \in Nat
         /\ Current("keys") \in Nat \ {0} /\ DOMAIN published["keys"] = 1..Current("keys")
         /\ \A i \in 1..Current("keys") : published["keys"][i] \in Nat
         /\ now \in Nat /\ Ttl \in Nat /\ MaxFetch \in Nat
<1>1. "keys" \in Documents
  BY DEF Documents
<1>2. verdict \in Verdict
  BY DEF Typed
<1> QED
  BY <1>1, <1>2, SequencesTyped, CacheAssumption DEF Verdict, CacheAssumption

LEMMA VerdictsAtFirst == Init => Verdicts
<1> SUFFICES ASSUME Init PROVE Verdicts
  OBVIOUS
<1>1. /\ verdict.key = 0 /\ verdict.at = 0 /\ verdict.good = TRUE /\ now = 0
      /\ published["keys"] = <<0>>
  BY DEF Init, Documents
<1>2. Overlap \in Nat /\ Ttl \in Nat /\ MaxFetch \in Nat
  BY CacheAssumption DEF CacheAssumption
<1>3. WithdrawnKeyFades
  BY <1>1, <1>2 DEF WithdrawnKeyFades, Current
<1> QED
  BY <1>1, <1>3 DEF Verdicts

\* A verdict by a version that was current at some time since its key was.
LEMMA NewVerdict ==
  ASSUME Typed, Versions, NEW key \in Nat \ {0}, NEW version \in Nat,
         version <= Current("keys"), UNCHANGED <<now, published>>,
         verdict' = [key |-> key, at |-> now, good |-> HasKey(version, key)],
         ~HasKey(version, key) => key <= version,
         version \in 1..(Current("keys") - 1) =>
           now <= published["keys"][version + 1] + Ttl + MaxFetch
  PROVE  Verdicts'
<1> DEFINE n == Current("keys")
           p == published["keys"]
<1>1. /\ n \in Nat \ {0} /\ DOMAIN p = 1..n /\ \A i \in 1..n : p[i] \in Nat
      /\ now \in Nat /\ Ttl \in Nat /\ MaxFetch \in Nat /\ Overlap \in Nat
  BY VerdictTyped
<1>2. \A i, j \in 1..n : i <= j => p[i] <= p[j]
  BY <1>1 DEF Versions, Published, Documents
<1>3. n' = n /\ p' = p
  BY DEF Current
<1>4. verdict'.key = key /\ verdict'.at = now /\ (verdict'.good <=> HasKey(version, key))
  <2>1. HasKey(version, key) \in BOOLEAN
    BY DEF HasKey
  <2> QED
    BY <2>1
<1> HIDE DEF n, p
<1>5. HasKey(version, key) <=> key <= version /\ version <= key + Overlap
  BY DEF HasKey
<1>6. ASSUME ~HasKey(version, key) PROVE key + Overlap < n
  BY <1>1, <1>5, <1>6 DEF n
<1>7. ASSUME HasKey(version, key), key + Overlap + 1 <= n
      PROVE  now <= p[key + Overlap + 1] + Ttl + MaxFetch
  <2>1. version + 1 \in 1..n /\ version \in 1..(n - 1)
        /\ key + Overlap + 1 \in 1..n /\ version + 1 <= key + Overlap + 1
    BY <1>1, <1>5, <1>7
  <2>2. p[version + 1] <= p[key + Overlap + 1]
    BY <1>2, <2>1
  <2>3. now <= p[version + 1] + Ttl + MaxFetch
    BY <2>1 DEF n, p
  <2>4. p[version + 1] \in Nat /\ p[key + Overlap + 1] \in Nat
    BY <1>1, <2>1
  <2>5. now \in Nat /\ Ttl \in Nat /\ MaxFetch \in Nat
    BY <1>1
  <2> QED
    BY <2>2, <2>3, <2>4, <2>5
<1>8. ~verdict'.good => verdict'.key + Overlap < Current("keys")'
  BY <1>3, <1>4, <1>6 DEF n
<1>9. WithdrawnKeyFades'
  BY <1>3, <1>4, <1>7 DEF WithdrawnKeyFades, n, p
<1>10. verdict'.at <= now'
  BY <1>1, <1>4
<1> QED
  BY <1>8, <1>9, <1>10 DEF Verdicts

LEMMA VerdictsAtPublish ==
  ASSUME Typed, Verdicts, NEW d \in Documents, Publishes(d)
  PROVE  Verdicts'
<1> DEFINE n == Current("keys")
           p == published["keys"]
           k == verdict.key
           w == k + Overlap + 1
<1>1. /\ k \in Nat /\ verdict.at \in Nat
      /\ n \in Nat \ {0} /\ DOMAIN p = 1..n /\ \A i \in 1..n : p[i] \in Nat
      /\ now \in Nat /\ Ttl \in Nat /\ MaxFetch \in Nat /\ Overlap \in Nat
  BY VerdictTyped
<1>2. UNCHANGED <<now, verdict>> /\ "keys" \in Documents
  BY DEF Publishes, Documents
<1>3. CASE d # "keys"
  <2>1. n' = n /\ p' = p
    BY <1>2, <1>3, PublishedThen DEF Current
  <2> QED
    BY <1>2, <2>1 DEF Verdicts, WithdrawnKeyFades
<1>4. CASE d = "keys"
  <2>1. n' = n + 1 /\ (\A i \in 1..n : p'[i] = p[i]) /\ p'[n + 1] = now
    BY <1>4, PublishedThen
  <2>2. /\ verdict.at <= now
        /\ ~verdict.good => k + Overlap < n
        /\ verdict.good /\ w <= n => verdict.at <= p[w] + Ttl + MaxFetch
    BY DEF Verdicts, WithdrawnKeyFades
  <2> HIDE DEF n, p, k
  <2>3. ASSUME ~verdict.good PROVE k + Overlap < n + 1
    BY <1>1, <2>2, <2>3
  <2>4. ASSUME verdict.good, w <= n + 1 PROVE verdict.at <= p'[w] + Ttl + MaxFetch
    <3>1. CASE w = n + 1
      BY <1>1, <2>1, <2>2, <3>1
    <3>2. CASE w # n + 1
      <4>1. w \in 1..n
        BY <1>1, <2>4, <3>2
      <4> QED
        BY <2>1, <2>2, <2>4, <4>1
    <3> QED
      BY <3>1, <3>2
  <2> QED
    BY <1>2, <2>1, <2>2, <2>3, <2>4
    DEF Verdicts, WithdrawnKeyFades, n, p, k
<1> QED
  BY <1>3, <1>4

LEMMA VerdictsStay ==
  ASSUME Typed, Queues, Versions, Verdicts, [Next]_vars
  PROVE  Verdicts'
<1>1. CASE UNCHANGED <<now, published, verdict>>
  BY <1>1 DEF Verdicts, WithdrawnKeyFades, Current
<1>2. CASE Tick
  <2>1. now' = now + 1 /\ UNCHANGED <<published, verdict>>
    BY <1>2 DEF Tick
  <2>2. verdict.at <= now /\ verdict.at \in Nat /\ now \in Nat
    BY VerdictTyped DEF Verdicts
  <2>3. verdict'.at <= now'
    BY <2>1, <2>2
  <2> QED
    BY <2>1, <2>3 DEF Verdicts, WithdrawnKeyFades, Current
<1>3. ASSUME NEW d \in Documents, Publishes(d) PROVE Verdicts'
  BY <1>3, VerdictsAtPublish
<1>4. ASSUME NEW l \in Logins, NEW version \in Nat, login[l].pc \in InQueue,
             Decides(l, version), UNCHANGED <<now, published>>,
             version <= Current("keys"),
             login[l].force => login[l].key <= version,
             version \in 1..(Current("keys") - 1) =>
               now <= published["keys"][version + 1] + Ttl + MaxFetch
      PROVE  Verdicts'
  <2>1. login[l].doc = "keys" /\ login[l] \in Local
    BY <1>4 DEF Decides, Typed
  <2>2. login[l].key \in Nat \ {0}
    BY <1>4, <2>1, LocalKinds DEF Version
  <2>3. /\ verdict' = [key |-> login[l].key, at |-> now,
                       good |-> HasKey(version, login[l].key)]
        /\ ~HasKey(version, login[l].key) => login[l].key <= version
    BY <1>4 DEF Decides
  <2> QED
    BY <1>4, <2>2, <2>3, NewVerdict
<1>5. ASSUME NEW l \in Logins, Hits(l) PROVE Verdicts'
  <2>1. /\ login[l].pc = "lock" /\ login[l].pc \in InQueue
        /\ cache[login[l].doc].until > now
        /\ login[l].doc = "keys" => ~login[l].force
        /\ Ends(l, cache[login[l].doc].version)
        /\ UNCHANGED <<now, published, cache>>
    BY <1>5 DEF Hits, InQueue
  <2>2. CASE verdict' = verdict
    BY <1>1, <2>1, <2>2
  <2>3. CASE Decides(l, cache[login[l].doc].version)
    <3> DEFINE version == cache["keys"].version
    <3>1. login[l].doc = "keys"
      BY <2>3 DEF Decides
    <3>2. /\ version \in Nat /\ cache["keys"].until \in Nat /\ now \in Nat
          /\ Ttl \in Nat /\ MaxFetch \in Nat /\ Current("keys") \in Nat
          /\ \A i \in 1..Current("keys") : published["keys"][i] \in Nat
      BY SequencesTyped DEF Documents
    <3>3. /\ version <= Current("keys")
          /\ version \in 1..(Current("keys") - 1) =>
               cache["keys"].until <= published["keys"][version + 1] + Ttl + MaxFetch
      BY DEF Versions, Cached, Documents
    <3>4. cache["keys"].until > now /\ ~login[l].force
      BY <2>1, <3>1
    <3>5. version \in 1..(Current("keys") - 1) =>
            now <= published["keys"][version + 1] + Ttl + MaxFetch
      <4> SUFFICES ASSUME version \in 1..(Current("keys") - 1)
                   PROVE  now <= published["keys"][version + 1] + Ttl + MaxFetch
        OBVIOUS
      <4>1. published["keys"][version + 1] \in Nat
        BY <3>2
      <4> QED
        BY <3>2, <3>3, <3>4, <4>1
    <3>6. Decides(l, version)
      BY <2>3, <3>1
    <3> HIDE DEF version
    <3> QED
      BY <1>4, <2>1, <3>2, <3>3, <3>4, <3>5, <3>6
  <2> QED
    BY <2>1, <2>2, <2>3 DEF Ends, Leaves, Retries
<1>6. ASSUME NEW l \in Logins, Receives(l) PROVE Verdicts'
  <2>1. /\ login[l].pc = "response" /\ login[l].pc \in InQueue
        /\ login[l].pc \in Exchanging
        /\ Ends(l, login[l].version)
        /\ UNCHANGED <<now, published>>
    BY <1>6 DEF Receives, InQueue, Exchanging
  <2>2. CASE verdict' = verdict
    BY <1>1, <2>1, <2>2
  <2>3. CASE Decides(l, login[l].version)
    <3> DEFINE version == login[l].version
               started == login[l].started
    <3>1. login[l].doc = "keys" /\ login[l] \in Local
      BY <2>3 DEF Decides, Typed
    <3>2. version \in Nat /\ started \in Nat
      BY <2>1, <3>1, LocalKinds
    <3>3. /\ now \in Nat /\ Ttl \in Nat /\ MaxFetch \in Nat /\ Current("keys") \in Nat
          /\ \A i \in 1..Current("keys") : published["keys"][i] \in Nat
      BY SequencesTyped DEF Documents
    <3>4. /\ now <= started + MaxFetch
          /\ version \in 1..Current("keys")
          /\ version < Current("keys") => started <= published["keys"][version + 1]
          /\ login[l].key <= version
      BY <2>1, <3>1 DEF Versions, Fetching, Served
    <3> HIDE DEF version, started
    <3>5. ASSUME version \in 1..(Current("keys") - 1)
          PROVE  now <= published["keys"][version + 1] + Ttl + MaxFetch
      <4>1. version < Current("keys") /\ published["keys"][version + 1] \in Nat
        BY <3>3, <3>5
      <4> QED
        BY <3>2, <3>3, <3>4, <4>1
    <3>6. Decides(l, version) /\ version <= Current("keys")
      BY <2>3, <3>3, <3>4 DEF version
    <3> QED
      BY <1>4, <2>1, <3>2, <3>4, <3>5, <3>6
  <2> QED
    BY <2>1, <2>2, <2>3 DEF Ends, Leaves, Retries
<1>7. ASSUME NEW l \in Logins, Asks(l) \/ Requests(l) \/ IsServed(l) \/ GivesUp(l) \/ Fails(l)
      PROVE  UNCHANGED <<now, published, verdict>>
  BY <1>7 DEF Asks, Requests, IsServed, GivesUp, Fails, Leaves
<1> QED
  BY <1>1, <1>2, <1>3, <1>5, <1>6, <1>7, Steps DEF vars

LEMMA AlwaysVerdicts == Spec => [](Typed /\ Queues /\ Versions /\ Verdicts)
<1>1. Typed /\ Queues /\ Versions /\ Verdicts /\ [Next]_vars
        => (Typed /\ Queues /\ Versions /\ Verdicts)'
  BY TypedStays, VersionsStay, VerdictsStay
<1> QED
  BY <1>1, TypedAtFirst, VersionsAtFirst, VerdictsAtFirst, PTL DEF Spec

\* An id_token is rejected by its signature only if the provider has withdrawn
\* the key, however stale the cache was and whoever refreshed it meanwhile: the
\* forced fetch sees a version no older than the key.
THEOREM RejectionIsFinal == Spec => []RejectedOnlyIfWithdrawn
<1>1. Typed /\ Verdicts => RejectedOnlyIfWithdrawn
  <2> SUFFICES ASSUME Typed, Verdicts, ~verdict.good
               PROVE  ~HasKey(Current("keys"), verdict.key)
    BY DEF RejectedOnlyIfWithdrawn
  <2>1. verdict.key + Overlap < Current("keys")
    BY DEF Verdicts
  <2> QED
    BY <2>1, VerdictTyped DEF HasKey
<1> QED
  BY <1>1, AlwaysVerdicts, PTL

\* A withdrawn key is accepted for no longer than an entry lives, plus the fetch
\* that was under way.
THEOREM WithdrawnKeysFade == Spec => []WithdrawnKeyFades
<1>1. Verdicts => WithdrawnKeyFades
  BY DEF Verdicts
<1> QED
  BY <1>1, AlwaysVerdicts, PTL
=============================================================================
