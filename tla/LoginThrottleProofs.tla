------------------------- MODULE LoginThrottleProofs -------------------------
(***************************************************************************)
(* The lockout of LoginThrottle, for every value of its constants: any     *)
(* usernames, any limit and window, any finite number of requests.         *)
(***************************************************************************)
EXTENDS LoginThrottle, FiniteSetTheorems, TLAPS

Entries == [count : Nat \ {0}, age : 0..LockoutSeconds]

\* What Entry builds is a record of the two.
LEMMA EntryFields ==
  ASSUME NEW count, NEW age
  PROVE  /\ Entry(count, age).count = count
         /\ Entry(count, age).age = age
         /\ count \in Nat \ {0} /\ age \in 0..LockoutSeconds => Entry(count, age) \in Entries
BY DEF Entry, Entries

\* An entry stays within its window's length.
LEMMA OneMoreTyped ==
  ASSUME NEW age \in 0..LockoutSeconds
  PROVE  /\ OneMore(age) \in 0..LockoutSeconds
         /\ OneMore(age) >= age
         /\ age < LockoutSeconds /\ OneMore(age) >= LockoutSeconds => OneMore(age) = LockoutSeconds
BY ThrottleAssumption DEF OneMore

\* The steps, each with the values it is for.
LEMMA NextCases ==
  ASSUME [Next]_vars
  PROVE  \/ \E r \in Requests, u \in Usernames : LoginRefused(r, u)
         \/ \E r \in Requests, u \in Usernames : LoginAdmitted(r, u)
         \/ \E r \in Requests, u \in Usernames : PasswordWrong(r, u)
         \/ \E r \in Requests, u \in Usernames : PasswordRight(r, u)
         \/ \E r \in Requests : AuthenticateRaises(r)
         \/ Tick
         \/ UNCHANGED vars
BY DEF Next, Login

\* Eviction, for one username: it drops what is over and nothing else.
LEMMA Evicted ==
  ASSUME TypeOK, NEW u \in Usernames
  PROVE  EvictStaleLockouts(failures)[u] = {e \in failures[u] : ~Over(e)}
BY DEF EvictStaleLockouts

\* A failure, for its username and for the others.
LEMMA Recorded ==
  ASSUME TypeOK, NEW u \in Usernames, NEW w \in Usernames
  PROVE  /\ DOMAIN RecordFailure(u) = Usernames
         /\ w # u => RecordFailure(u)[w] = failures[w]
         /\ {e \in failures[u] : ~Over(e)} = {} => RecordFailure(u)[u] = {Entry(1, 0)}
         /\ {e \in failures[u] : ~Over(e)} # {} =>
              RecordFailure(u)[u] = {Entry(e.count + 1, e.age) : e \in {d \in failures[u] : ~Over(d)}}
BY DEF RecordFailure, TypeOK

\* A dict of well-formed entries, at most one for each username.
WellFormed(dict) ==
  /\ DOMAIN dict = Usernames
  /\ \A u \in Usernames : dict[u] \subseteq Entries /\ \A d, e \in dict[u] : d = e

LEMMA RecordWellFormed ==
  ASSUME TypeOK, NEW u \in Usernames
  PROVE  WellFormed(RecordFailure(u))
<1>1. WellFormed(failures)
  BY DEF TypeOK, WellFormed, Entries
<1>2. CASE {e \in failures[u] : ~Over(e)} = {}
  <2>1. Entry(1, 0) \in Entries
    BY ThrottleAssumption, EntryFields
  <2> QED  BY <1>1, <1>2, <2>1, Recorded DEF WellFormed
<1>3. CASE {e \in failures[u] : ~Over(e)} # {}
  <2>1. \A e \in failures[u] : Entry(e.count + 1, e.age) \in Entries
    <3> SUFFICES ASSUME NEW e \in failures[u] PROVE Entry(e.count + 1, e.age) \in Entries
      OBVIOUS
    <3>1. e.count + 1 \in Nat \ {0} /\ e.age \in 0..LockoutSeconds
      BY <1>1 DEF WellFormed, Entries
    <3> QED  BY <3>1, EntryFields
  <2>2. RecordFailure(u)[u] \subseteq Entries
    BY <1>3, <2>1, Recorded
  <2>3. \A d, e \in RecordFailure(u)[u] : d = e
    BY <1>1, <1>3, Recorded DEF WellFormed
  <2> QED  BY <1>1, <2>2, <2>3, Recorded DEF WellFormed
<1> QED  BY <1>2, <1>3

\* Every entry has a positive count and an age within its window, and a username
\* has one at most.
THEOREM TypeCorrect == Spec => []TypeOK
<1>1. Init => TypeOK
  BY DEF Init, TypeOK, None
<1>2. TypeOK /\ [Next]_vars => TypeOK'
  <2> SUFFICES ASSUME TypeOK, [Next]_vars PROVE TypeOK'
    OBVIOUS
  <2>a. WellFormed(failures) /\ attempt \in [Requests -> {None} \cup {{u} : u \in Usernames}]
    BY DEF TypeOK, WellFormed, Entries
  <2>b. SUFFICES WellFormed(failures') /\ attempt' \in [Requests -> {None} \cup {{u} : u \in Usernames}]
    BY DEF TypeOK, WellFormed, Entries
  <2>1. ASSUME NEW r \in Requests, NEW u \in Usernames, LoginRefused(r, u) \/ LoginAdmitted(r, u)
        PROVE  WellFormed(failures') /\ attempt' \in [Requests -> {None} \cup {{w} : w \in Usernames}]
    <3>1. failures' = EvictStaleLockouts(failures)
      BY <2>1 DEF LoginRefused, LoginAdmitted
    <3>2. WellFormed(failures')
      BY <2>a, <3>1 DEF WellFormed, EvictStaleLockouts
    <3> QED  BY <2>1, <2>a, <3>2 DEF LoginRefused, LoginAdmitted
  <2>2. ASSUME NEW r \in Requests, NEW u \in Usernames, PasswordWrong(r, u)
        PROVE  WellFormed(failures') /\ attempt' \in [Requests -> {None} \cup {{w} : w \in Usernames}]
    BY <2>2, <2>a, RecordWellFormed DEF PasswordWrong
  <2>3. ASSUME NEW r \in Requests, NEW u \in Usernames, PasswordRight(r, u)
        PROVE  WellFormed(failures') /\ attempt' \in [Requests -> {None} \cup {{w} : w \in Usernames}]
    BY <2>3, <2>a DEF PasswordRight, ClearFailures, WellFormed, None
  <2>4. ASSUME NEW r \in Requests, AuthenticateRaises(r)
        PROVE  WellFormed(failures') /\ attempt' \in [Requests -> {None} \cup {{w} : w \in Usernames}]
    BY <2>4, <2>a DEF AuthenticateRaises
  <2>5. CASE Tick
    <3>1. failures' = [u \in Usernames |-> {Entry(e.count, OneMore(e.age)) : e \in failures[u]}]
      BY <2>5 DEF Tick
    <3>2. ASSUME NEW u \in Usernames
          PROVE  failures'[u] \subseteq Entries /\ \A d, e \in failures'[u] : d = e
      <4>1. failures'[u] = {Entry(e.count, OneMore(e.age)) : e \in failures[u]}
        BY <3>1
      <4>2. \A e \in failures[u] : Entry(e.count, OneMore(e.age)) \in Entries
        <5> SUFFICES ASSUME NEW e \in failures[u]
                     PROVE  Entry(e.count, OneMore(e.age)) \in Entries
          OBVIOUS
        <5>1. e.count \in Nat \ {0} /\ e.age \in 0..LockoutSeconds
          BY <2>a DEF WellFormed, Entries
        <5> QED  BY <5>1, EntryFields, OneMoreTyped
      <4> QED  BY <2>a, <4>1, <4>2 DEF WellFormed
    <3> QED  BY <2>a, <2>5, <3>1, <3>2 DEF Tick, WellFormed
  <2>6. CASE UNCHANGED vars
    BY <2>6, <2>a DEF vars
  <2> QED  BY <2>1, <2>2, <2>3, <2>4, <2>5, <2>6, NextCases
<1>3. QED
  BY <1>1, <1>2, PTL DEF Spec

-----------------------------------------------------------------------------
(* The overshoot. *)

\* How many requests are in flight is a number, at most all of them.
LEMMA InFlightCounts ==
  ASSUME NEW u
  PROVE  /\ IsFiniteSet(InFlight(u))
         /\ Cardinality(InFlight(u)) \in Nat
         /\ Cardinality(Requests) \in Nat
         /\ Cardinality(InFlight(u)) <= Cardinality(Requests)
<1>1. InFlight(u) \subseteq Requests
  BY DEF InFlight
<1> QED  BY <1>1, ThrottleAssumption, FS_Subset, FS_CardinalityType

\* A request that is done leaves one fewer in flight for its username, and no
\* more for any.
LEMMA OneFewer ==
  ASSUME TypeOK, NEW r \in Requests, NEW u \in Usernames, attempt[r] = {u},
         attempt' = [attempt EXCEPT ![r] = None]
  PROVE  /\ InFlight(u)' # InFlight(u)
         /\ Cardinality(InFlight(u)') = Cardinality(InFlight(u)) - 1
         /\ \A w \in Usernames : w # u => InFlight(w)' = InFlight(w)
<1>1. InFlight(u)' = InFlight(u) \ {r} /\ r \in InFlight(u)
  BY DEF InFlight, TypeOK, None
<1>2. Cardinality(InFlight(u)') = Cardinality(InFlight(u)) - 1
  BY <1>1, InFlightCounts, FS_RemoveElement
<1>3. \A w \in Usernames : w # u => InFlight(w)' = InFlight(w)
  BY DEF InFlight, TypeOK, None
<1> QED  BY <1>1, <1>2, <1>3

\* The bound, for one username.
Bounded(u) ==
  \A e \in failures[u] :
    e.count + Cardinality(InFlight(u)) =< MaxAttempts - 1 + Cardinality(Requests)

\* Where the next failures and the next requests in flight are no more than these,
\* the bound goes on to hold.
LEMMA BoundedStays ==
  ASSUME TypeOK, TypeOK', NEW w \in Usernames, Bounded(w),
         \A e \in failures'[w] : \E d \in failures[w] : e.count = d.count,
         Cardinality(InFlight(w)') <= Cardinality(InFlight(w)),
         Cardinality(InFlight(w)') \in Nat
  PROVE  Bounded(w)'
<1>1. Cardinality(InFlight(w)) \in Nat /\ Cardinality(Requests) \in Nat
  BY InFlightCounts
<1>2. \A d \in failures[w] : d.count \in Nat
  BY DEF TypeOK
<1>3. SUFFICES ASSUME NEW e \in failures'[w]
               PROVE  e.count + Cardinality(InFlight(w)') =< MaxAttempts - 1 + Cardinality(Requests)
  BY DEF Bounded
<1>4. PICK d \in failures[w] : e.count = d.count
  OBVIOUS
<1>5. d.count + Cardinality(InFlight(w)) =< MaxAttempts - 1 + Cardinality(Requests)
  BY DEF Bounded
<1> QED  BY <1>1, <1>2, <1>4, <1>5, ThrottleAssumption

\* The failures recorded in one window exceed the limit by less than the number of
\* requests handled at once.  The failures that may still come are those of the
\* requests in flight, and an admitted request finds less than the limit recorded.
THEOREM OvershootIsBounded == Spec => []OvershootBounded
<1>1. Init => OvershootBounded
  BY DEF Init, OvershootBounded, None
<1>2. TypeOK /\ TypeOK' /\ OvershootBounded /\ [Next]_vars => OvershootBounded'
  <2> SUFFICES ASSUME TypeOK, TypeOK', OvershootBounded, [Next]_vars, NEW w \in Usernames
               PROVE  Bounded(w)'
    BY DEF OvershootBounded, Bounded
  <2>a. Bounded(w)
    BY DEF OvershootBounded, Bounded
  <2>b. Cardinality(InFlight(w)) \in Nat /\ Cardinality(Requests) \in Nat
    BY InFlightCounts
  <2>c. /\ Cardinality(InFlight(w)') \in Nat
        /\ Cardinality(InFlight(w)') <= Cardinality(Requests)
    <3>1. InFlight(w)' \subseteq Requests
      BY DEF InFlight
    <3> QED  BY <3>1, ThrottleAssumption, FS_Subset, FS_CardinalityType
  <2>1. ASSUME NEW r \in Requests, NEW u \in Usernames, LoginRefused(r, u)
        PROVE  Bounded(w)'
    <3>1. failures'[w] \subseteq failures[w]
      BY <2>1, Evicted DEF LoginRefused
    <3>2. InFlight(w)' = InFlight(w)
      BY <2>1 DEF LoginRefused, InFlight
    <3> QED  BY <2>a, <2>b, <2>c, <3>1, <3>2, BoundedStays
  <2>2. ASSUME NEW r \in Requests, NEW u \in Usernames, LoginAdmitted(r, u)
        PROVE  Bounded(w)'
    <3>1. failures'[w] = {e \in failures[w] : ~Over(e)}
      BY <2>2, Evicted DEF LoginAdmitted
    <3>2. CASE w = u
      <4>1. \A e \in failures'[w] : e.count \in Nat /\ e.count < MaxAttempts
        BY <2>2, <3>1, <3>2, ThrottleAssumption DEF LoginAdmitted, IsLockedOut, TypeOK
      <4> QED  BY <2>b, <2>c, <4>1, ThrottleAssumption DEF Bounded
    <3>3. CASE w # u
      <4>1. InFlight(w)' = InFlight(w)
        BY <2>2, <3>3 DEF LoginAdmitted, InFlight, TypeOK, None
      <4> QED  BY <2>a, <2>b, <2>c, <3>1, <4>1, BoundedStays
    <3> QED  BY <3>2, <3>3
  <2>3. ASSUME NEW r \in Requests, NEW u \in Usernames, PasswordWrong(r, u)
        PROVE  Bounded(w)'
    <3>0. attempt[r] = {u} /\ attempt' = [attempt EXCEPT ![r] = None] /\ failures' = RecordFailure(u)
      BY <2>3 DEF PasswordWrong
    <3>1. CASE w # u
      <4>1. InFlight(w)' = InFlight(w)
        BY <3>0, <3>1, OneFewer
      <4> QED  BY <2>a, <2>b, <2>c, <3>0, <3>1, <4>1, Recorded, BoundedStays
    <3>2. CASE w = u
      <4>1. Cardinality(InFlight(w)') = Cardinality(InFlight(w)) - 1
        BY <3>0, <3>2, OneFewer
      <4>2. CASE {e \in failures[u] : ~Over(e)} = {}
        <5>1. Cardinality(InFlight(w)) <= Cardinality(Requests)
          BY InFlightCounts
        <5>2. \A e \in failures'[w] : e.count = 1
          BY <3>0, <3>2, <4>2, Recorded, EntryFields
        <5> QED  BY <2>b, <2>c, <4>1, <5>1, <5>2, ThrottleAssumption DEF Bounded
      <4>3. CASE {e \in failures[u] : ~Over(e)} # {}
        <5>1. ASSUME NEW e \in failures'[w]
              PROVE  e.count + Cardinality(InFlight(w)') =< MaxAttempts - 1 + Cardinality(Requests)
          <6>1. PICK d \in failures[w] : e = Entry(d.count + 1, d.age)
            BY <3>0, <3>2, <4>3, Recorded
          <6>2. e.count = d.count + 1 /\ d.count \in Nat
            BY <6>1, EntryFields DEF TypeOK
          <6>3. d.count + Cardinality(InFlight(w)) =< MaxAttempts - 1 + Cardinality(Requests)
            BY <2>a DEF Bounded
          <6> QED  BY <2>b, <4>1, <6>2, <6>3, ThrottleAssumption
        <5> QED  BY <5>1 DEF Bounded
      <4> QED  BY <4>2, <4>3
    <3> QED  BY <3>1, <3>2
  <2>4. ASSUME NEW r \in Requests, NEW u \in Usernames, PasswordRight(r, u)
        PROVE  Bounded(w)'
    <3>1. /\ attempt[r] = {u} /\ attempt' = [attempt EXCEPT ![r] = None]
          /\ failures' = [failures EXCEPT ![u] = None]
      BY <2>4 DEF PasswordRight, ClearFailures
    <3>2. CASE w = u
      <4>1. failures'[w] = {}
        BY <3>1, <3>2 DEF TypeOK, None
      <4> QED  BY <4>1 DEF Bounded
    <3>3. CASE w # u
      <4>1. InFlight(w)' = InFlight(w)
        BY <3>1, <3>3, OneFewer
      <4>2. failures'[w] = failures[w]
        BY <3>1, <3>3 DEF TypeOK
      <4> QED  BY <2>a, <2>b, <2>c, <4>1, <4>2, BoundedStays
    <3> QED  BY <3>2, <3>3
  <2>5. ASSUME NEW r \in Requests, AuthenticateRaises(r)
        PROVE  Bounded(w)'
    <3>1. PICK u \in Usernames : attempt[r] = {u}
      BY <2>5 DEF AuthenticateRaises, TypeOK
    <3>2. attempt' = [attempt EXCEPT ![r] = None] /\ failures' = failures
      BY <2>5 DEF AuthenticateRaises
    <3>3. Cardinality(InFlight(w)') <= Cardinality(InFlight(w))
      <4>1. CASE w = u
        <5>1. Cardinality(InFlight(w)') = Cardinality(InFlight(w)) - 1
          BY <3>1, <3>2, <4>1, OneFewer
        <5> QED  BY <2>b, <5>1
      <4>2. CASE w # u
        <5>1. InFlight(w)' = InFlight(w)
          BY <3>1, <3>2, <4>2, OneFewer
        <5> QED  BY <2>b, <5>1
      <4> QED  BY <4>1, <4>2
    <3> QED  BY <2>a, <2>c, <3>2, <3>3, BoundedStays
  <2>6. CASE Tick
    <3>1. InFlight(w)' = InFlight(w)
      BY <2>6 DEF Tick, InFlight
    <3>2. ASSUME NEW e \in failures'[w]
          PROVE  \E d \in failures[w] : e.count = d.count
      <4>1. PICK d \in failures[w] : e = Entry(d.count, OneMore(d.age))
        BY <2>6, <3>2 DEF Tick
      <4> QED  BY <4>1, EntryFields
    <3> QED  BY <2>a, <2>b, <2>c, <3>1, <3>2, BoundedStays
  <2>7. CASE UNCHANGED vars
    <3>1. InFlight(w)' = InFlight(w) /\ failures' = failures
      BY <2>7 DEF vars, InFlight
    <3> QED  BY <2>a, <2>b, <2>c, <3>1, BoundedStays
  <2> QED  BY <2>1, <2>2, <2>3, <2>4, <2>5, <2>6, <2>7, NextCases
<1>3. QED
  BY <1>1, <1>2, TypeCorrect, PTL DEF Spec

-----------------------------------------------------------------------------
(* The lockout. *)

\* What may lift the lockout of u.
Lifted(u) ==
  \/ \E d \in failures[u] : OneMore(d.age) = LockoutSeconds /\ \E e \in failures'[u] : Over(e)
  \/ InFlight(u)' # InFlight(u) /\ failures'[u] = None

\* A lockout is lifted by its window being over or by a login for its username that
\* passed the check before and turns out right; by no step about another username.
THEOREM LockoutIsHeld == Spec => LockoutHolds
<1>1. ASSUME TypeOK, [Next]_vars, NEW u \in Usernames, IsLockedOut(u), ~IsLockedOut(u)'
      PROVE  Lifted(u)
  <2>a. PICK e \in failures[u] : ~Over(e) /\ e.count >= MaxAttempts
    BY <1>1 DEF IsLockedOut
  <2>b. /\ e.count \in Nat /\ e.age \in 0..LockoutSeconds
        /\ \A d \in failures[u] : d = e
    BY <1>1 DEF TypeOK
  <2>c. e \notin failures'[u]
    BY <1>1, <2>a DEF IsLockedOut, Over
  <2>1. ASSUME NEW r \in Requests, NEW w \in Usernames, LoginRefused(r, w) \/ LoginAdmitted(r, w)
        PROVE  FALSE
    <3>1. failures'[u] = {d \in failures[u] : ~Over(d)}
      BY <1>1, <2>1, Evicted DEF LoginRefused, LoginAdmitted
    <3> QED  BY <2>a, <2>c, <3>1
  <2>2. ASSUME NEW r \in Requests, NEW w \in Usernames, PasswordWrong(r, w)
        PROVE  FALSE
    <3>1. CASE w = u
      <4>1. Entry(e.count + 1, e.age) \in failures'[u]
        BY <1>1, <2>2, <2>a, <3>1, Recorded DEF PasswordWrong
      <4>2. Entry(e.count + 1, e.age).age = e.age /\ Entry(e.count + 1, e.age).count = e.count + 1
        BY EntryFields
      <4>3. e.count + 1 >= MaxAttempts
        BY <2>a, <2>b, ThrottleAssumption
      <4> QED  BY <1>1, <2>a, <4>1, <4>2, <4>3 DEF IsLockedOut, Over
    <3>2. CASE w # u
      BY <1>1, <2>2, <2>c, <3>2, Recorded DEF PasswordWrong
    <3> QED  BY <3>1, <3>2
  <2>3. ASSUME NEW r \in Requests, NEW w \in Usernames, PasswordRight(r, w)
        PROVE  Lifted(u)
    <3>1. /\ attempt[r] = {w} /\ attempt' = [attempt EXCEPT ![r] = None]
          /\ failures' = [failures EXCEPT ![w] = None]
      BY <2>3 DEF PasswordRight, ClearFailures
    <3>2. w = u
      BY <2>c, <3>1
    <3>3. failures'[u] = None
      BY <1>1, <3>1, <3>2 DEF TypeOK
    <3>4. InFlight(u)' # InFlight(u)
      BY <1>1, <3>1, <3>2, OneFewer
    <3> QED  BY <3>3, <3>4 DEF Lifted
  <2>4. ASSUME NEW r \in Requests, AuthenticateRaises(r)
        PROVE  FALSE
    BY <2>4, <2>c DEF AuthenticateRaises
  <2>5. CASE Tick
    <3> DEFINE aged == Entry(e.count, OneMore(e.age))
    <3>1. aged \in failures'[u]
      BY <1>1, <2>5 DEF Tick
    <3>2. aged.count = e.count /\ aged.age = OneMore(e.age)
      BY EntryFields
    <3>3. Over(aged)
      BY <1>1, <2>a, <3>1, <3>2 DEF IsLockedOut, Over
    <3>4. OneMore(e.age) = LockoutSeconds
      BY <2>a, <2>b, <3>2, <3>3, OneMoreTyped, ThrottleAssumption DEF Over
    <3> QED  BY <3>1, <3>3, <3>4 DEF Lifted
  <2>6. CASE UNCHANGED vars
    BY <2>6, <2>c DEF vars
  <2> QED  BY <1>1, <2>1, <2>2, <2>3, <2>4, <2>5, <2>6, NextCases
<1>2. TypeOK /\ [Next]_vars =>
        [\A u \in Usernames : IsLockedOut(u) /\ ~IsLockedOut(u)' => Lifted(u)]_vars
  BY <1>1
<1>3. QED
  BY <1>2, TypeCorrect, PTL DEF Spec, LockoutHolds, Lifted
=============================================================================
