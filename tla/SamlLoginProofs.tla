--------------------------- MODULE SamlLoginProofs ---------------------------
(***************************************************************************)
(* The invariants of SamlLogin, for every value of its constants.          *)
(***************************************************************************)
EXTENDS SamlLogin, FiniteSetTheorems, WellFoundedInduction, TLAPS

RunningLogins == {l \in Logins : pc[l] \in Running}

\* The queue of the semaphore: those that wait, each once.
Queue ==
  /\ \A i, j \in DOMAIN waiting : waiting[i] = waiting[j] => i = j
  /\ \A l \in Logins : pc[l] \in Waiting <=> \E i \in DOMAIN waiting : waiting[i] = l

\* The types of what the semaphore is about.
SemaphoreTyped ==
  /\ permits \in 0..MaxParallel
  /\ waiting \in Seq(Logins)
  /\ pc \in [Logins -> {"idle", "away", "ended"} \cup Waiting \cup Running]

Semaphore ==
  /\ SemaphoreTyped
  /\ Queue
  /\ IsFiniteSet(RunningLogins)
  /\ PermitsComeBack

LEMMA HeadAndTail ==
  ASSUME NEW S, NEW seq \in Seq(S), seq # <<>>
  PROVE  /\ Head(seq) = seq[1] /\ 1 \in DOMAIN seq /\ Head(seq) \in S
         /\ Tail(seq) \in Seq(S)
         /\ DOMAIN Tail(seq) = 1..(Len(seq) - 1)
         /\ DOMAIN seq = 1..Len(seq)
         /\ Len(seq) \in Nat
         /\ \A i \in DOMAIN Tail(seq) : i + 1 \in DOMAIN seq /\ Tail(seq)[i] = seq[i + 1]
OBVIOUS

LEMMA Appended ==
  ASSUME NEW S, NEW seq \in Seq(S), NEW e \in S
  PROVE  /\ Append(seq, e) \in Seq(S)
         /\ DOMAIN Append(seq, e) = DOMAIN seq \cup {Len(seq) + 1}
         /\ Len(seq) + 1 \notin DOMAIN seq
         /\ \A i \in DOMAIN seq : Append(seq, e)[i] = seq[i]
         /\ Append(seq, e)[Len(seq) + 1] = e
         /\ Append(seq, e) # <<>>
OBVIOUS

\* A permit is taken, or the login queues up behind the others.
LEMMA AcquireKeeps ==
  ASSUME SamlAssumption, Semaphore,
         NEW l \in Logins, pc[l] \notin Waiting \cup Running,
         NEW waits \in Waiting, NEW runs \in Running,
         Acquire(l, waits, runs)
  PROVE  Semaphore'
<1> USE DEF Semaphore, SemaphoreTyped
<1>1. Waiting \cap Running = {}
  BY DEF Waiting, Running
<1>2. l \notin RunningLogins
  BY DEF RunningLogins
<1>3. Cardinality(RunningLogins) \in Nat
  BY FS_CardinalityType
<1>4. CASE permits > 0 /\ waiting = <<>>
  <2>1. /\ permits' = permits - 1
        /\ pc' = [pc EXCEPT ![l] = runs]
        /\ waiting' = waiting
    BY <1>4 DEF Acquire
  <2>2. RunningLogins' = RunningLogins \cup {l}
    BY <2>1 DEF RunningLogins
  <2>3. IsFiniteSet(RunningLogins') /\ Cardinality(RunningLogins') = Cardinality(RunningLogins) + 1
    BY <1>2, <2>2, FS_AddElement
  <2>4. PermitsComeBack'
    <3>1. permits + Cardinality(RunningLogins) = MaxParallel
      BY DEF PermitsComeBack, RunningLogins
    <3>2. permits' + Cardinality(RunningLogins') = MaxParallel
      BY <1>3, <2>1, <2>3, <3>1, SamlAssumption DEF SamlAssumption
    <3>3. waiting' = <<>>
      BY <1>4, <2>1
    <3> QED
      BY <3>2, <3>3 DEF PermitsComeBack, RunningLogins
  <2>5. SemaphoreTyped'
    BY <1>4, <2>1, SamlAssumption DEF SamlAssumption
  <2>6. Queue'
    BY <1>1, <2>1 DEF Queue
  <2> QED
    BY <2>3, <2>4, <2>5, <2>6
<1>5. CASE ~(permits > 0 /\ waiting = <<>>)
  <2>1. /\ waiting' = Append(waiting, l)
        /\ pc' = [pc EXCEPT ![l] = waits]
        /\ permits' = permits
    BY <1>5 DEF Acquire
  <2>2. /\ waiting' \in Seq(Logins) /\ waiting' # <<>>
        /\ DOMAIN waiting' = DOMAIN waiting \cup {Len(waiting) + 1}
        /\ Len(waiting) + 1 \notin DOMAIN waiting
        /\ \A i \in DOMAIN waiting : waiting'[i] = waiting[i]
        /\ waiting'[Len(waiting) + 1] = l
    BY <2>1, Appended
  <2>3. RunningLogins' = RunningLogins
    BY <1>1, <2>1 DEF RunningLogins
  <2>4. SemaphoreTyped'
    BY <2>1, <2>2
  <2>5. PermitsComeBack'
    <3>1. permits = 0
      BY <1>5, SamlAssumption DEF PermitsComeBack, SamlAssumption
    <3> QED
      BY <2>1, <2>3, <3>1 DEF PermitsComeBack, RunningLogins
  <2>6. ~\E i \in DOMAIN waiting : waiting[i] = l
    BY DEF Queue
  <2>7. \A i, j \in DOMAIN waiting' : waiting'[i] = waiting'[j] => i = j
    BY <2>2, <2>6 DEF Queue
  <2>8. \A k \in Logins : pc'[k] \in Waiting <=> \E i \in DOMAIN waiting' : waiting'[i] = k
    <3> TAKE k \in Logins
    <3>1. CASE k = l
      BY <2>1, <2>2, <3>1
    <3>2. CASE k # l
      BY <2>1, <2>2, <3>2 DEF Queue
    <3> QED
      BY <3>1, <3>2
  <2> QED
    BY <2>3, <2>4, <2>5, <2>7, <2>8 DEF Queue
<1> QED
  BY <1>4, <1>5

\* A permit is given back, or goes to the login at the head of the queue.
LEMMA ReleaseKeeps ==
  ASSUME SamlAssumption, Semaphore,
         NEW l \in Logins, pc[l] \in Running,
         NEW next \in {"away", "ended"},
         Release(l, next)
  PROVE  Semaphore'
<1> USE DEF Semaphore, SemaphoreTyped
<1>1. Waiting \cap Running = {} /\ next \notin Waiting \cup Running
  BY DEF Waiting, Running
<1>2. l \in RunningLogins
  BY DEF RunningLogins
<1>3. Cardinality(RunningLogins) \in Nat
  BY FS_CardinalityType
<1>4. IsFiniteSet(RunningLogins \ {l})
      /\ Cardinality(RunningLogins \ {l}) = Cardinality(RunningLogins) - 1
  BY <1>2, FS_RemoveElement
<1>5. permits + Cardinality(RunningLogins) = MaxParallel
  BY DEF PermitsComeBack, RunningLogins
<1>6. CASE waiting = <<>>
  <2>1. /\ permits' = permits + 1
        /\ pc' = [pc EXCEPT ![l] = next]
        /\ waiting' = waiting
    BY <1>6 DEF Release
  <2>2. RunningLogins' = RunningLogins \ {l}
    BY <1>1, <2>1 DEF RunningLogins
  <2>3. permits' + Cardinality(RunningLogins') = MaxParallel
    BY <1>3, <1>4, <1>5, <2>1, <2>2, SamlAssumption DEF SamlAssumption
  <2>4. PermitsComeBack'
    BY <1>6, <2>1, <2>3 DEF PermitsComeBack, RunningLogins
  <2>5. Cardinality(RunningLogins') \in Nat
    BY <1>4, <2>2, FS_CardinalityType
  <2>6. permits' \in 0..MaxParallel
    BY <2>1, <2>3, <2>5, SamlAssumption DEF SamlAssumption
  <2>7. SemaphoreTyped'
    BY <2>1, <2>6
  <2>8. Queue'
    BY <1>1, <2>1 DEF Queue
  <2> QED
    BY <1>4, <2>2, <2>4, <2>7, <2>8
<1>7. CASE waiting # <<>>
  <2> DEFINE first == Head(waiting)
             goes == IF pc[first] = "begin_waits" THEN "begin_runs" ELSE "complete_runs"
  <2>1. /\ waiting' = Tail(waiting)
        /\ pc' = [pc EXCEPT ![l] = next, ![first] = goes]
        /\ permits' = permits
    BY <1>7 DEF Release
  <2>2. /\ first = waiting[1] /\ 1 \in DOMAIN waiting /\ first \in Logins
        /\ waiting' \in Seq(Logins)
        /\ DOMAIN waiting' = 1..(Len(waiting) - 1)
        /\ DOMAIN waiting = 1..Len(waiting) /\ Len(waiting) \in Nat
        /\ \A i \in DOMAIN waiting' : i + 1 \in DOMAIN waiting /\ waiting'[i] = waiting[i + 1]
    BY <1>7, <2>1, HeadAndTail
  <2>3. goes \in Running
    BY DEF Running
  <2>4. pc[first] \in Waiting
    BY <2>2 DEF Queue
  <2> HIDE DEF first, goes
  <2>5. first # l /\ first \notin RunningLogins
    BY <1>1, <2>4 DEF RunningLogins
  <2>6. /\ pc' \in [Logins -> {"idle", "away", "ended"} \cup Waiting \cup Running]
        /\ pc'[first] = goes /\ pc'[l] = next
        /\ \A k \in Logins \ {l, first} : pc'[k] = pc[k]
    BY <2>1, <2>2, <2>3, <2>5
  <2>7. RunningLogins' = (RunningLogins \ {l}) \cup {first}
    BY <1>1, <2>2, <2>3, <2>5, <2>6 DEF RunningLogins
  <2>8. IsFiniteSet(RunningLogins') /\ Cardinality(RunningLogins') = Cardinality(RunningLogins)
    <3>1. first \notin RunningLogins \ {l}
      BY <2>5
    <3>2. /\ IsFiniteSet((RunningLogins \ {l}) \cup {first})
          /\ Cardinality((RunningLogins \ {l}) \cup {first}) = Cardinality(RunningLogins \ {l}) + 1
      BY <1>4, <3>1, FS_AddElement
    <3> QED
      BY <1>3, <1>4, <2>7, <3>2
  <2>9. PermitsComeBack'
    BY <1>5, <1>7, <2>1, <2>8 DEF PermitsComeBack, RunningLogins
  <2>10. SemaphoreTyped'
    BY <2>1, <2>2, <2>6
  <2>11. \A i, j \in DOMAIN waiting' : waiting'[i] = waiting'[j] => i = j
    <3> TAKE i, j \in DOMAIN waiting'
    <3> HAVE waiting'[i] = waiting'[j]
    <3>1. i + 1 = j + 1
      BY <2>2 DEF Queue
    <3> QED
      BY <2>2, <3>1
  <2>12. \A k \in Logins : pc'[k] \in Waiting <=> \E i \in DOMAIN waiting' : waiting'[i] = k
    <3> TAKE k \in Logins
    <3>1. CASE k = first
      <4>1. pc'[k] \notin Waiting
        BY <1>1, <2>3, <2>6, <3>1
      <4>2. \A i \in DOMAIN waiting' : waiting'[i] # first
        <5> TAKE i \in DOMAIN waiting'
        <5>1. i + 1 # 1 /\ i + 1 \in DOMAIN waiting /\ waiting'[i] = waiting[i + 1]
          BY <2>2
        <5> QED
          BY <2>2, <5>1 DEF Queue
      <4> QED
        BY <3>1, <4>1, <4>2
    <3>2. CASE k # first
      <4>1. pc'[k] \in Waiting <=> pc[k] \in Waiting
        BY <1>1, <2>6, <3>2
      <4>2. (\E i \in DOMAIN waiting : waiting[i] = k) => \E i \in DOMAIN waiting' : waiting'[i] = k
        <5> SUFFICES ASSUME NEW i \in DOMAIN waiting, waiting[i] = k
                     PROVE  \E j \in DOMAIN waiting' : waiting'[j] = k
          OBVIOUS
        <5>1. i # 1
          BY <2>2, <3>2
        <5>2. i - 1 \in DOMAIN waiting' /\ (i - 1) + 1 = i
          BY <2>2, <5>1
        <5> QED
          BY <2>2, <5>2
      <4>3. (\E i \in DOMAIN waiting' : waiting'[i] = k) => \E i \in DOMAIN waiting : waiting[i] = k
        BY <2>2
      <4> QED
        BY <4>1, <4>2, <4>3 DEF Queue
    <3> QED
      BY <3>1, <3>2
  <2> QED
    BY <2>8, <2>9, <2>10, <2>11, <2>12 DEF Queue
<1> QED
  BY <1>6, <1>7

LEMMA SemaphoreAtFirst == Init /\ SamlAssumption => Semaphore
<1> SUFFICES ASSUME Init, SamlAssumption PROVE Semaphore
  OBVIOUS
<1>1. RunningLogins = {}
  BY DEF Init, RunningLogins, Running
<1>2. IsFiniteSet(RunningLogins) /\ Cardinality(RunningLogins) = 0
  BY <1>1, FS_EmptySet
<1>3. SemaphoreTyped
  BY DEF Init, SemaphoreTyped, SamlAssumption
<1>4. Queue
  BY DEF Init, Queue, Waiting
<1>5. PermitsComeBack
  BY <1>2 DEF Init, PermitsComeBack, RunningLogins, SamlAssumption
<1> QED
  BY <1>2, <1>3, <1>4, <1>5 DEF Semaphore

\* A step of one login, of the provider or of the clock.
LEMMA NextCases ==
  ASSUME Next
  PROVE  \/ \E l \in Logins : Begin(l)
         \/ \E l \in Logins, a \in answers : Complete(l, a)
         \/ \E l \in Logins : CompleteWithoutResponse(l)
         \/ \E l \in Logins : BeginEnds(l)
         \/ \E l \in Logins : CheckConditions(l)
         \/ \E l \in Logins : CheckConfirmation(l)
         \/ \E request \in {{l} : l \in Logins} \cup {{}}, person \in DOMAIN People \cup {None} :
              ProviderAnswers(request, person)
         \/ Tick
BY DEF Next, Visitor, Thread

LEMMA SemaphoreStays ==
  ASSUME SamlAssumption, Semaphore, [Next]_vars
  PROVE  Semaphore'
<1>1. CASE UNCHANGED <<permits, waiting, pc>>
  BY <1>1 DEF Semaphore, SemaphoreTyped, Queue, RunningLogins, PermitsComeBack
<1>2. ASSUME NEW l \in Logins, Begin(l) PROVE Semaphore'
  BY <1>2, AcquireKeeps DEF Begin, Waiting, Running
<1>3. ASSUME NEW l \in Logins, NEW a \in answers, Complete(l, a) PROVE Semaphore'
  BY <1>3, AcquireKeeps DEF Complete, Waiting, Running
<1>4. ASSUME NEW l \in Logins, CompleteWithoutResponse(l) PROVE Semaphore'
  <2>1. /\ pc[l] = "away" /\ pc' = [pc EXCEPT ![l] = "ended"]
        /\ UNCHANGED <<permits, waiting>>
    BY <1>4 DEF CompleteWithoutResponse
  <2>2. RunningLogins' = RunningLogins
    BY <2>1 DEF Semaphore, SemaphoreTyped, RunningLogins, Running
  <2>3. \A k \in Logins : pc'[k] \in Waiting <=> pc[k] \in Waiting
    BY <2>1 DEF Semaphore, SemaphoreTyped, Waiting
  <2>4. SemaphoreTyped'
    BY <2>1 DEF Semaphore, SemaphoreTyped
  <2>5. Queue'
    BY <2>1, <2>3 DEF Semaphore, Queue
  <2>6. PermitsComeBack'
    BY <2>1, <2>2 DEF Semaphore, PermitsComeBack, RunningLogins
  <2> QED
    BY <2>2, <2>4, <2>5, <2>6 DEF Semaphore
<1>5. ASSUME NEW l \in Logins, BeginEnds(l) PROVE Semaphore'
  <2>1. pc[l] \in Running /\ (Release(l, "ended") \/ Release(l, "away"))
    BY <1>5 DEF BeginEnds, Running
  <2> QED
    BY <2>1, ReleaseKeeps
<1>6. ASSUME NEW l \in Logins, CheckConditions(l) PROVE Semaphore'
  <2>1. pc[l] = "complete_runs" /\ pc[l] \in Running
    BY <1>6 DEF CheckConditions, Running
  <2>2. CASE Release(l, "ended")
    BY <2>1, <2>2, ReleaseKeeps
  <2>3. CASE pc' = [pc EXCEPT ![l] = "confirm_runs"] /\ UNCHANGED <<permits, waiting>>
    <3>1. RunningLogins' = RunningLogins
      BY <2>1, <2>3 DEF Semaphore, SemaphoreTyped, RunningLogins, Running
    <3>2. \A k \in Logins : pc'[k] \in Waiting <=> pc[k] \in Waiting
      BY <2>1, <2>3 DEF Semaphore, SemaphoreTyped, Waiting
    <3>3. SemaphoreTyped'
      BY <2>3 DEF Semaphore, SemaphoreTyped, Running
    <3>4. Queue'
      BY <2>3, <3>2 DEF Semaphore, Queue
    <3>5. PermitsComeBack'
      BY <2>3, <3>1 DEF Semaphore, PermitsComeBack, RunningLogins
    <3> QED
      BY <3>1, <3>3, <3>4, <3>5 DEF Semaphore
  <2> QED
    BY <1>6, <2>2, <2>3 DEF CheckConditions, Refuse
<1>7. ASSUME NEW l \in Logins, CheckConfirmation(l) PROVE Semaphore'
  <2>1. pc[l] \in Running /\ Release(l, "ended")
    BY <1>7 DEF CheckConfirmation, Refuse, Running
  <2> QED
    BY <2>1, ReleaseKeeps
<1> QED
  BY <1>1, <1>2, <1>3, <1>4, <1>5, <1>6, <1>7, NextCases DEF ProviderAnswers, Tick, vars

\* However logins begin, wait, fail and end, the queue holds exactly those that
\* wait, each once, and a permit is in use by one running login or free: the
\* semaphore of the protocol neither leaks a permit nor loses a waiter.
THEOREM AlwaysSemaphore == Spec => []Semaphore
<1>1. Init => Semaphore
  BY SemaphoreAtFirst, SamlAssumption
<1>2. Semaphore /\ [Next]_vars => Semaphore'
  BY SemaphoreStays, SamlAssumption
<1> QED
  BY <1>1, <1>2, PTL DEF Spec

\* A permit is in use or free, and none is free while somebody waits.
THEOREM NoPermitIsLost == Spec => []PermitsComeBack
<1>1. Semaphore => PermitsComeBack
  BY DEF Semaphore
<1> QED
  BY <1>1, AlwaysSemaphore, PTL

-----------------------------------------------------------------------------
(* Types. *)

\* The value for what is not given is neither an error nor a dict of claims.
NoneIsNoRecord == None \notin Errors /\ \A claims : Dict(claims) # None

\* TypeOK, with the domain of result, without what Semaphore says.
Typed ==
  /\ now \in Nat /\ Deployment \in Deployments
  /\ answers \subseteq Answer
  /\ posted \in [Logins -> {None} \cup Answer]
  /\ ended \in [Logins -> Nat]
  /\ result = [l \in Logins |-> result[l]]
  /\ \A l \in Logins :
       /\ (pc[l] = "ended") <=> (result[l] # None)
       /\ result[l] \in Errors \cup {None} \/ Is("dict", result[l])

\* What a login does with the semaphore as it begins or completes.
LEMMA AcquireFacts ==
  ASSUME Semaphore, NEW l \in Logins, NEW waits, NEW runs, Acquire(l, waits, runs)
  PROVE  pc' = [pc EXCEPT ![l] = runs] \/ pc' = [pc EXCEPT ![l] = waits]
BY DEF Acquire

\* Leaving the block moves the login on, and wakes at most those that wait.
LEMMA ReleaseFacts ==
  ASSUME Semaphore, NEW l \in Logins, pc[l] \in Running, NEW next \in {"away", "ended"},
         Release(l, next)
  PROVE  /\ pc'[l] = next
         /\ \A k \in Logins \ {l} :
              \/ pc'[k] = pc[k]
              \/ pc[k] = "begin_waits" /\ pc'[k] = "begin_runs"
              \/ pc[k] = "complete_waits" /\ pc'[k] = "complete_runs"
<1> USE DEF Semaphore, SemaphoreTyped
<1>1. CASE waiting = <<>>
  BY <1>1 DEF Release
<1>2. CASE waiting # <<>>
  <2> DEFINE first == Head(waiting)
             goes == IF pc[first] = "begin_waits" THEN "begin_runs" ELSE "complete_runs"
  <2>1. pc' = [pc EXCEPT ![l] = next, ![first] = goes]
    BY <1>2 DEF Release
  <2>2. first = waiting[1] /\ 1 \in DOMAIN waiting /\ first \in Logins
    BY <1>2, HeadAndTail
  <2>3. pc[first] \in Waiting
    BY <2>2 DEF Queue
  <2>4. first # l
    BY <2>3 DEF Waiting, Running
  <2>5. \/ pc[first] = "begin_waits" /\ goes = "begin_runs"
        \/ pc[first] = "complete_waits" /\ goes = "complete_runs"
    BY <2>3 DEF Waiting
  <2> HIDE DEF first, goes
  <2>6. pc'[first] = goes /\ pc'[l] = next /\ \A k \in Logins \ {l, first} : pc'[k] = pc[k]
    BY <2>1, <2>2, <2>4
  <2> QED
    BY <2>5, <2>6
<1> QED
  BY <1>1, <1>2

\* Where a login stands does not change by the steps of others, but for a wake.
Wakes(k) ==
  \/ pc'[k] = pc[k]
  \/ pc[k] = "begin_waits" /\ pc'[k] = "begin_runs"
  \/ pc[k] = "complete_waits" /\ pc'[k] = "complete_runs"

Settled == UNCHANGED <<now, settings, provider, answers>>

\* What may happen to the record of a login in a step.
Stays(k) == Wakes(k) /\ posted'[k] = posted[k] /\ result'[k] = result[k] /\ ended'[k] = ended[k]

Begins(l) ==
  /\ pc[l] = "idle" /\ pc'[l] \in {"begin_waits", "begin_runs"}
  /\ posted'[l] = posted[l] /\ result'[l] = result[l] /\ ended'[l] = ended[l]

GoesAway(l) ==
  /\ pc[l] = "begin_runs" /\ pc'[l] = "away" /\ IdpInfo # ConfigurationError
  /\ posted'[l] = posted[l] /\ result'[l] = result[l] /\ ended'[l] = ended[l]

Posts(l) ==
  /\ pc[l] = "away" /\ pc'[l] \in {"complete_waits", "complete_runs"}
  /\ posted'[l] \in answers /\ result'[l] = result[l] /\ ended'[l] = ended[l]

PassesConditions(l) ==
  /\ pc[l] = "complete_runs" /\ pc'[l] = "confirm_runs"
  /\ AcceptConditions(Response(posted[l]), l, Sp, now)
  /\ posted'[l] = posted[l] /\ result'[l] = result[l] /\ ended'[l] = ended[l]

Ends(l, outcome) ==
  /\ pc'[l] = "ended" /\ posted'[l] = posted[l] /\ result'[l] = outcome /\ ended'[l] = now

EndsInBegin(l) == pc[l] = "begin_runs" /\ Ends(l, ConfigurationError)

EndsUnposted(l) == pc[l] = "away" /\ Ends(l, ProtocolError)

EndsRefused(l) ==
  /\ \/ pc[l] = "complete_runs" /\ ~AcceptConditions(Response(posted[l]), l, Sp, now)
     \/ pc[l] = "confirm_runs" /\ ~(/\ AcceptConfirmation(Response(posted[l]), l, Sp, now)
                                    /\ AcceptSignatures(Response(posted[l]), Sp))
  /\ Ends(l, ProtocolError)

EndsAccepted(l) ==
  /\ pc[l] = "confirm_runs"
  /\ AcceptConfirmation(Response(posted[l]), l, Sp, now)
  /\ AcceptSignatures(Response(posted[l]), Sp)
  /\ Ends(l, Dict(ExtractClaims(Response(posted[l]))))

Moves(l) ==
  \/ Begins(l) \/ GoesAway(l) \/ Posts(l) \/ PassesConditions(l)
  \/ EndsInBegin(l) \/ EndsUnposted(l) \/ EndsRefused(l) \/ EndsAccepted(l)

Tables ==
  /\ pc \in [Logins -> {"idle", "away", "ended"} \cup Waiting \cup Running]
  /\ posted \in [Logins -> {None} \cup Answer]
  /\ ended \in [Logins -> Nat]
  /\ result = [l \in Logins |-> result[l]]

LEMMA EndWithFacts ==
  ASSUME Tables, NEW l \in Logins, NEW outcome, EndWith(l, outcome)
  PROVE  /\ result' = [k \in Logins |-> result'[k]]
         /\ result'[l] = outcome /\ ended'[l] = now
         /\ \A k \in Logins \ {l} : result'[k] = result[k] /\ ended'[k] = ended[k]
BY DEF Tables, EndWith

\* A step is a move of one login, an answer of the provider or a tick.
LEMMA Steps ==
  ASSUME Semaphore, Tables, [Next]_vars
  PROVE  \/ UNCHANGED <<settings, provider, pc, posted, result, ended>>
            /\ (\/ UNCHANGED <<now, answers>>
                \/ now' = now + 1 /\ answers' = answers
                \/ \E request \in {{l} : l \in Logins} \cup {{}},
                      person \in DOMAIN People \cup {None} :
                        /\ now' = now
                        /\ answers' = answers \cup
                             {[request |-> request, person |-> person, at |-> now]})
         \/ \E l \in Logins :
              Settled /\ Moves(l) /\ (\A k \in Logins \ {l} : Stays(k))
              /\ result' = [k \in Logins |-> result'[k]]
              /\ posted' \in {posted} \cup {[posted EXCEPT ![l] = a] : a \in answers}
              /\ ended' \in {ended, [ended EXCEPT ![l] = now]}
<1> USE DEF Tables
<1>1. ASSUME NEW l \in Logins, Begin(l)
      PROVE  /\ Settled /\ Begins(l) /\ (\A k \in Logins \ {l} : Stays(k))
             /\ UNCHANGED <<result, posted, ended>>
  BY <1>1, AcquireFacts DEF Begin, Settled, Begins, Stays, Wakes
<1>2. ASSUME NEW l \in Logins, NEW a \in answers, Complete(l, a)
      PROVE  /\ Settled /\ Posts(l) /\ (\A k \in Logins \ {l} : Stays(k))
             /\ posted' = [posted EXCEPT ![l] = a] /\ UNCHANGED <<result, ended>>
  BY <1>2, AcquireFacts DEF Complete, Settled, Posts, Stays, Wakes
<1>3. ASSUME NEW l \in Logins, CompleteWithoutResponse(l)
      PROVE  /\ Settled /\ EndsUnposted(l) /\ (\A k \in Logins \ {l} : Stays(k))
             /\ posted' = posted /\ ended' = [ended EXCEPT ![l] = now]
             /\ result' = [k \in Logins |-> result'[k]]
  <2>1. EndWith(l, ProtocolError)
    BY <1>3 DEF CompleteWithoutResponse
  <2> QED
    BY <1>3, <2>1, EndWithFacts
    DEF CompleteWithoutResponse, Settled, EndsUnposted, Ends, Stays, Wakes, EndWith
<1>4. ASSUME NEW l \in Logins, pc[l] \in Running, NEW outcome,
             Release(l, "ended"), EndWith(l, outcome), posted' = posted
      PROVE  /\ Ends(l, outcome) /\ (\A k \in Logins \ {l} : Stays(k))
             /\ ended' = [ended EXCEPT ![l] = now]
             /\ result' = [k \in Logins |-> result'[k]]
  BY <1>4, EndWithFacts, ReleaseFacts DEF Ends, Stays, Wakes, EndWith
<1>5. ASSUME NEW l \in Logins, BeginEnds(l)
      PROVE  /\ Settled /\ Moves(l) /\ (\A k \in Logins \ {l} : Stays(k))
             /\ posted' = posted /\ ended' \in {ended, [ended EXCEPT ![l] = now]}
             /\ result' = [k \in Logins |-> result'[k]]
  <2>1. /\ pc[l] = "begin_runs" /\ pc[l] \in Running
        /\ posted' = posted /\ Settled
    BY <1>5 DEF BeginEnds, Settled, Running
  <2>2. CASE IdpInfo = ConfigurationError
    <3>1. Release(l, "ended") /\ EndWith(l, ConfigurationError)
      BY <1>5, <2>2 DEF BeginEnds
    <3> QED
      BY <1>4, <2>1, <3>1 DEF Moves, EndsInBegin
  <2>3. CASE IdpInfo # ConfigurationError
    <3>1. Release(l, "away") /\ UNCHANGED <<result, ended>>
      BY <1>5, <2>3 DEF BeginEnds
    <3> QED
      BY <2>1, <2>3, <3>1, ReleaseFacts DEF Moves, GoesAway, Stays, Wakes
  <2> QED
    BY <2>2, <2>3
<1>6. ASSUME NEW l \in Logins, CheckConditions(l)
      PROVE  /\ Settled /\ Moves(l) /\ (\A k \in Logins \ {l} : Stays(k))
             /\ posted' = posted /\ ended' \in {ended, [ended EXCEPT ![l] = now]}
             /\ result' = [k \in Logins |-> result'[k]]
  <2>1. /\ pc[l] = "complete_runs" /\ pc[l] \in Running
        /\ posted' = posted /\ Settled
    BY <1>6 DEF CheckConditions, Settled, Running
  <2>2. CASE AcceptConditions(Response(posted[l]), l, Sp, now)
    <3>1. pc' = [pc EXCEPT ![l] = "confirm_runs"] /\ UNCHANGED <<result, ended>>
      BY <1>6, <2>2 DEF CheckConditions
    <3> QED
      BY <2>1, <2>2, <3>1 DEF Moves, PassesConditions, Stays, Wakes
  <2>3. CASE ~AcceptConditions(Response(posted[l]), l, Sp, now)
    <3>1. Release(l, "ended") /\ EndWith(l, ProtocolError)
      BY <1>6, <2>3 DEF CheckConditions, Refuse
    <3> QED
      BY <1>4, <2>1, <2>3, <3>1 DEF Moves, EndsRefused
  <2> QED
    BY <2>2, <2>3
<1>7. ASSUME NEW l \in Logins, CheckConfirmation(l)
      PROVE  /\ Settled /\ Moves(l) /\ (\A k \in Logins \ {l} : Stays(k))
             /\ posted' = posted /\ ended' \in {ended, [ended EXCEPT ![l] = now]}
             /\ result' = [k \in Logins |-> result'[k]]
  <2> DEFINE accepts == /\ AcceptConfirmation(Response(posted[l]), l, Sp, now)
                        /\ AcceptSignatures(Response(posted[l]), Sp)
  <2>1. /\ pc[l] = "confirm_runs" /\ pc[l] \in Running
        /\ posted' = posted /\ Settled
    BY <1>7 DEF CheckConfirmation, Settled, Running
  <2>2. CASE accepts
    <3>1. Release(l, "ended") /\ EndWith(l, Dict(ExtractClaims(Response(posted[l]))))
      BY <1>7, <2>2 DEF CheckConfirmation
    <3> QED
      BY <1>4, <2>1, <2>2, <3>1 DEF Moves, EndsAccepted
  <2>3. CASE ~accepts
    <3>1. Release(l, "ended") /\ EndWith(l, ProtocolError)
      BY <1>7, <2>3 DEF CheckConfirmation, Refuse
    <3> QED
      BY <1>4, <2>1, <2>3, <3>1 DEF Moves, EndsRefused
  <2> QED
    BY <2>2, <2>3
<1>8. CASE UNCHANGED vars
  BY <1>8 DEF vars
<1>9. CASE Tick
  BY <1>9 DEF Tick
<1>10. ASSUME NEW request \in {{l} : l \in Logins} \cup {{}},
              NEW person \in DOMAIN People \cup {None}, ProviderAnswers(request, person)
       PROVE  /\ UNCHANGED <<now, settings, provider, pc, posted, result, ended>>
              /\ answers' = answers \cup {[request |-> request, person |-> person, at |-> now]}
  BY <1>10 DEF ProviderAnswers
<1>11. CASE \E l \in Logins : Begin(l) \/ CompleteWithoutResponse(l)
  BY <1>1, <1>3, <1>11 DEF Moves
<1>12. CASE \E l \in Logins, a \in answers : Complete(l, a)
  BY <1>2, <1>12 DEF Moves
<1>13. CASE \E l \in Logins : BeginEnds(l) \/ CheckConditions(l) \/ CheckConfirmation(l)
  BY <1>5, <1>6, <1>7, <1>13
<1>14. CASE \E request \in {{l} : l \in Logins} \cup {{}}, person \in DOMAIN People \cup {None} :
              ProviderAnswers(request, person)
  BY <1>10, <1>14
<1> QED
  BY <1>8, <1>9, <1>11, <1>12, <1>13, <1>14, NextCases

LEMMA TypedAtFirst == Init => Typed
<1> SUFFICES ASSUME Init PROVE Typed
  OBVIOUS
<1>1. Deployment \in Deployments
  <2>1. PICK d \in Deployments : settings = d.settings /\ provider = d.provider
    BY DEF Init
  <2> QED
    BY <2>1, ProviderAssumption DEF Deployment, ProviderAssumption
<1> QED
  BY <1>1 DEF Init, Typed

LEMMA TypedStays ==
  ASSUME NoneIsNoRecord, Semaphore, Typed, [Next]_vars
  PROVE  Typed'
<1>1. Tables
  BY DEF Tables, Typed, Semaphore, SemaphoreTyped
<1>2. CASE /\ UNCHANGED <<settings, provider, pc, posted, result, ended>>
           /\ \/ UNCHANGED <<now, answers>>
              \/ now' = now + 1 /\ answers' = answers
              \/ \E request \in {{l} : l \in Logins} \cup {{}},
                    person \in DOMAIN People \cup {None} :
                      /\ now' = now
                      /\ answers' = answers \cup
                           {[request |-> request, person |-> person, at |-> now]}
  <2>1. CASE UNCHANGED <<now, answers>> \/ (now' = now + 1 /\ answers' = answers)
    BY <1>2, <2>1 DEF Typed, Deployment
  <2>2. ASSUME NEW request \in {{l} : l \in Logins} \cup {{}},
               NEW person \in DOMAIN People \cup {None},
               now' = now,
               answers' = answers \cup {[request |-> request, person |-> person, at |-> now]}
        PROVE  Typed'
    <3>1. [request |-> request, person |-> person, at |-> now] \in Answer
      BY DEF Answer, Typed
    <3> QED
      BY <1>2, <2>2, <3>1 DEF Typed, Deployment
  <2> QED
    BY <1>2, <2>1, <2>2
<1>3. ASSUME NEW l \in Logins, Settled, Moves(l), \A k \in Logins \ {l} : Stays(k),
             result' = [k \in Logins |-> result'[k]],
             posted' \in {posted} \cup {[posted EXCEPT ![l] = a] : a \in answers},
             ended' \in {ended, [ended EXCEPT ![l] = now]}
      PROVE  Typed'
  <2>1. now' \in Nat /\ Deployment' \in Deployments /\ answers' \subseteq Answer
    BY <1>3 DEF Typed, Settled, Deployment
  <2>2. posted' \in [Logins -> {None} \cup Answer]
    BY <1>3 DEF Typed
  <2>3. ended' \in [Logins -> Nat]
    BY <1>3 DEF Typed
  <2>4. /\ pc'[l] = "ended" <=> result'[l] # None
        /\ result'[l] \in Errors \cup {None} \/ Is("dict", result'[l])
    <3>1. CASE Begins(l) \/ GoesAway(l) \/ Posts(l) \/ PassesConditions(l)
      <4>1. pc[l] # "ended" /\ pc'[l] # "ended" /\ result'[l] = result[l]
        BY <3>1 DEF Begins, GoesAway, Posts, PassesConditions
      <4> QED
        BY <4>1 DEF Typed
    <3>2. CASE EndsInBegin(l) \/ EndsUnposted(l) \/ EndsRefused(l)
      <4>1. pc'[l] = "ended" /\ result'[l] \in Errors
        BY <3>2 DEF EndsInBegin, EndsUnposted, EndsRefused, Ends, Errors
      <4> QED
        BY <4>1 DEF NoneIsNoRecord
    <3>3. CASE EndsAccepted(l)
      <4>1. pc'[l] = "ended" /\ result'[l] = Dict(ExtractClaims(Response(posted[l])))
        BY <3>3 DEF EndsAccepted, Ends
      <4>2. ASSUME NEW claims PROVE Is("dict", Dict(claims))
        BY DEF Is, Dict
      <4> HIDE DEF NoneIsNoRecord
      <4>3. result'[l] # None /\ Is("dict", result'[l])
        BY <4>1, <4>2 DEF NoneIsNoRecord
      <4> QED
        BY <4>1, <4>3
    <3> QED
      BY <1>3, <3>1, <3>2, <3>3 DEF Moves
  <2>5. ASSUME NEW k \in Logins \ {l}
        PROVE  /\ pc'[k] = "ended" <=> result'[k] # None
               /\ result'[k] \in Errors \cup {None} \/ Is("dict", result'[k])
    <3>1. (pc'[k] = "ended" <=> pc[k] = "ended") /\ result'[k] = result[k]
      BY <1>3 DEF Stays, Wakes
    <3> QED
      BY <3>1 DEF Typed
  <2> QED
    BY <1>3, <2>1, <2>2, <2>3, <2>4, <2>5 DEF Typed
<1> QED
  BY <1>1, <1>2, <1>3, Steps

LEMMA TypeOKHolds == Semaphore /\ Typed => TypeOK
<1> SUFFICES ASSUME Semaphore, Typed PROVE TypeOK
  OBVIOUS
<1>1. ASSUME NEW l \in Logins PROVE pc[l] \in Waiting <=> l \in ToSet(waiting)
  BY DEF ToSet, Semaphore, Queue
<1> QED
  BY <1>1 DEF TypeOK, Typed, Semaphore, SemaphoreTyped

\* Every variable has its type; a login has an outcome exactly when it has ended,
\* and waits exactly when it is in the queue of the semaphore.
THEOREM TypeCorrect == ASSUME NoneIsNoRecord PROVE Spec => []TypeOK
<1>1. Init => Semaphore /\ Typed
  BY SemaphoreAtFirst, TypedAtFirst, SamlAssumption
<1>2. Semaphore /\ Typed /\ [Next]_vars => (Semaphore /\ Typed)'
  BY SemaphoreStays, TypedStays, SamlAssumption
<1>3. Semaphore /\ Typed => TypeOK
  BY TypeOKHolds
<1> QED
  BY <1>1, <1>2, <1>3, PTL DEF Spec

-----------------------------------------------------------------------------
(* How a login that posted a response came to its end. *)

Doc(l) == Response(posted[l])

\* It posted what the provider had sent, and some check failed as it ended.
Refused(l) ==
  /\ posted[l] \in answers /\ posted[l].at <= ended[l]
  /\ ~(/\ AcceptConditions(Doc(l), l, Sp, ended[l])
       /\ AcceptConfirmation(Doc(l), l, Sp, ended[l])
       /\ AcceptSignatures(Doc(l), Sp))

ConditionsHeldBy(l, time) ==
  \E t \in Nat : t <= time /\ AcceptConditions(Doc(l), l, Sp, t)

\* All checks passed, the last of them as it ended, and the claims are those of
\* the response.
Accepted(l) ==
  /\ posted[l] \in answers /\ IdpInfo # ConfigurationError
  /\ ConditionsHeldBy(l, ended[l])
  /\ AcceptConfirmation(Doc(l), l, Sp, ended[l])
  /\ AcceptSignatures(Doc(l), Sp)
  /\ result[l] = Dict(ExtractClaims(Doc(l)))

Judged(l) ==
  /\ pc[l] \in {"idle", "begin_waits", "begin_runs", "away"} => posted[l] = None
  /\ pc[l] = "away" => IdpInfo # ConfigurationError
  /\ pc[l] \in {"complete_waits", "complete_runs", "confirm_runs"} =>
       posted[l] \in answers /\ IdpInfo # ConfigurationError
  /\ pc[l] = "confirm_runs" => ConditionsHeldBy(l, now)
  /\ pc[l] = "ended" /\ result[l] = ProtocolError /\ posted[l] # None => Refused(l)
  /\ pc[l] = "ended" /\ Completed(l) => Accepted(l)

Judgement ==
  /\ \A a \in answers : a.at <= now
  /\ \A l \in Logins : Judged(l)

\* What was posted is the same document, for the same service provider, later.
LEMMA DocumentStays ==
  ASSUME NEW l \in Logins, UNCHANGED <<settings, provider>>, posted'[l] = posted[l]
  PROVE  Doc(l)' = Doc(l) /\ Sp' = Sp /\ IdpInfo' = IdpInfo
<1>1. IdpInfo' = IdpInfo
  BY DEF IdpInfo
<1>2. Sp' = Sp
  BY <1>1 DEF Sp
<1>3. Doc(l)' = Doc(l)
  BY DEF Doc, Response
<1> QED
  BY <1>1, <1>2, <1>3

\* A login that a step does not move, though it may wake it, is judged as before.
LEMMA JudgedStays ==
  ASSUME NEW l \in Logins, Typed, Judged(l), Stays(l), UNCHANGED <<settings, provider>>,
         answers \subseteq answers', now' \in Nat, now <= now'
  PROVE  Judged(l)'
<1>1. Doc(l)' = Doc(l) /\ Sp' = Sp /\ IdpInfo' = IdpInfo
  BY DocumentStays DEF Stays
<1>2. posted'[l] = posted[l] /\ result'[l] = result[l] /\ ended'[l] = ended[l] /\ Wakes(l)
  BY DEF Stays
<1>3. (Refused(l) => Refused(l)') /\ (Accepted(l) => Accepted(l)')
  BY <1>1, <1>2 DEF Refused, Accepted, ConditionsHeldBy
<1>4. ConditionsHeldBy(l, now) => ConditionsHeldBy(l, now)'
  <2> SUFFICES ASSUME NEW t \in Nat, t <= now, AcceptConditions(Doc(l), l, Sp, t)
               PROVE  ConditionsHeldBy(l, now)'
    BY DEF ConditionsHeldBy
  <2>1. t <= now'
    BY DEF Typed
  <2> QED
    BY <1>1, <2>1 DEF ConditionsHeldBy
<1>5. Completed(l)' <=> Completed(l)
  BY <1>2 DEF Completed
<1> QED
  BY <1>1, <1>2, <1>3, <1>4, <1>5 DEF Judged, Wakes

LEMMA JudgedMoves ==
  ASSUME NEW l \in Logins, NoneIsNoRecord, Typed, Judgement, Settled, Moves(l)
  PROVE  Judged(l)'
<1>1. Judged(l) /\ UNCHANGED <<now, settings, provider, answers>>
  BY DEF Judgement, Settled
<1>2. CASE Begins(l) \/ GoesAway(l)
  <2>1. IdpInfo' = IdpInfo
    BY <1>1 DEF IdpInfo
  <2> QED
    BY <1>1, <1>2, <2>1 DEF Judged, Begins, GoesAway
<1>3. CASE Posts(l)
  <2>1. IdpInfo' = IdpInfo
    BY <1>1 DEF IdpInfo
  <2> QED
    BY <1>1, <1>3, <2>1 DEF Judged, Posts
<1>4. CASE PassesConditions(l)
  <2>1. Doc(l)' = Doc(l) /\ Sp' = Sp /\ IdpInfo' = IdpInfo
    BY <1>1, <1>4, DocumentStays DEF PassesConditions
  <2>2. AcceptConditions(Doc(l), l, Sp, now) /\ now \in Nat
    BY <1>4 DEF PassesConditions, Doc, Typed
  <2>3. ConditionsHeldBy(l, now)'
    BY <1>1, <2>1, <2>2 DEF ConditionsHeldBy
  <2> QED
    BY <1>1, <1>4, <2>1, <2>3 DEF Judged, PassesConditions
<1>5. CASE EndsInBegin(l)
  <2>1. pc'[l] = "ended" /\ posted'[l] = None /\ result'[l] = ConfigurationError
    BY <1>1, <1>5 DEF EndsInBegin, Ends, Judged
  <2>2. ~Completed(l)'
    BY <2>1 DEF Completed, Errors
  <2> QED
    BY <2>1, <2>2 DEF Judged
<1>6. CASE EndsUnposted(l)
  <2>1. pc'[l] = "ended" /\ posted'[l] = None /\ result'[l] = ProtocolError
    BY <1>1, <1>6 DEF EndsUnposted, Ends, Judged
  <2>2. ~Completed(l)'
    BY <2>1 DEF Completed, Errors
  <2> QED
    BY <2>1, <2>2 DEF Judged
<1>7. CASE EndsRefused(l)
  <2>1. /\ pc'[l] = "ended" /\ posted'[l] = posted[l] /\ result'[l] = ProtocolError
        /\ ended'[l] = now
    BY <1>7 DEF EndsRefused, Ends
  <2>2. Doc(l)' = Doc(l) /\ Sp' = Sp
    BY <1>1, <2>1, DocumentStays
  <2>3. posted[l] \in answers
    BY <1>1, <1>7 DEF EndsRefused, Judged
  <2>4. posted[l].at <= now
    BY <2>3 DEF Judgement
  <2>5. ~(/\ AcceptConditions(Doc(l), l, Sp, now)
          /\ AcceptConfirmation(Doc(l), l, Sp, now)
          /\ AcceptSignatures(Doc(l), Sp))
    BY <1>7 DEF EndsRefused, Doc
  <2>6. Refused(l)'
    BY <1>1, <2>1, <2>2, <2>3, <2>4, <2>5 DEF Refused
  <2>7. ~Completed(l)'
    BY <2>1 DEF Completed, Errors
  <2> QED
    BY <2>1, <2>6, <2>7 DEF Judged
<1>8. CASE EndsAccepted(l)
  <2>1. /\ pc'[l] = "ended" /\ posted'[l] = posted[l] /\ ended'[l] = now
        /\ result'[l] = Dict(ExtractClaims(Doc(l)))
        /\ AcceptConfirmation(Doc(l), l, Sp, now) /\ AcceptSignatures(Doc(l), Sp)
    BY <1>8 DEF EndsAccepted, Ends, Doc
  <2>2. Doc(l)' = Doc(l) /\ Sp' = Sp /\ IdpInfo' = IdpInfo
    BY <1>1, <2>1, DocumentStays
  <2>3. /\ posted[l] \in answers /\ IdpInfo # ConfigurationError
        /\ ConditionsHeldBy(l, now)
    BY <1>1, <1>8 DEF EndsAccepted, Judged
  <2>4. Accepted(l)'
    BY <1>1, <2>1, <2>2, <2>3 DEF Accepted, ConditionsHeldBy
  <2>5. Dict(ExtractClaims(Doc(l))) # ProtocolError
    BY DEF Dict, ProtocolError
  <2> QED
    BY <2>1, <2>4, <2>5 DEF Judged
<1> QED
  BY <1>2, <1>3, <1>4, <1>5, <1>6, <1>7, <1>8 DEF Moves

LEMMA JudgementStays ==
  ASSUME NoneIsNoRecord, Semaphore, Typed, Judgement, [Next]_vars
  PROVE  Judgement'
<1>1. Tables
  BY DEF Tables, Typed, Semaphore, SemaphoreTyped
<1>2. CASE /\ UNCHANGED <<settings, provider, pc, posted, result, ended>>
           /\ \/ UNCHANGED <<now, answers>>
              \/ now' = now + 1 /\ answers' = answers
              \/ \E request \in {{l} : l \in Logins} \cup {{}},
                    person \in DOMAIN People \cup {None} :
                      /\ now' = now
                      /\ answers' = answers \cup
                           {[request |-> request, person |-> person, at |-> now]}
  <2>1. /\ answers \subseteq answers' /\ now' \in Nat /\ now <= now'
        /\ \A a \in answers' : a \in answers \/ (a.at = now /\ now' = now)
    BY <1>2 DEF Typed
  <2>2. \A a \in answers' : a.at <= now'
    <3> TAKE a \in answers'
    <3>1. CASE a \in answers
      <4>1. a.at \in Nat /\ a.at <= now
        BY <3>1 DEF Typed, Judgement, Answer
      <4> QED
        BY <2>1, <4>1 DEF Typed
    <3>2. CASE a.at = now /\ now' = now
      BY <3>2 DEF Typed
    <3> QED
      BY <2>1, <3>1, <3>2
  <2>3. ASSUME NEW l \in Logins PROVE Judged(l)'
    <3>1. Stays(l)
      BY <1>2 DEF Stays, Wakes
    <3> QED
      BY <1>2, <2>1, <3>1, JudgedStays DEF Judgement
  <2> QED
    BY <2>2, <2>3 DEF Judgement
<1>3. ASSUME NEW l \in Logins, Settled, Moves(l), \A k \in Logins \ {l} : Stays(k)
      PROVE  Judgement'
  <2>1. Judged(l)'
    BY <1>3, JudgedMoves
  <2>2. ASSUME NEW k \in Logins \ {l} PROVE Judged(k)'
    BY <1>3, JudgedStays DEF Settled, Judgement, Typed
  <2>3. \A a \in answers' : a.at <= now'
    BY <1>3 DEF Settled, Judgement
  <2> QED
    BY <2>1, <2>2, <2>3 DEF Judgement
<1> QED
  BY <1>1, <1>2, <1>3, Steps

LEMMA JudgementAtFirst == Init => Judgement
BY DEF Init, Judgement, Judged

LEMMA AlwaysJudged == ASSUME NoneIsNoRecord PROVE Spec => [](Semaphore /\ Typed /\ Judgement)
<1>1. Init => Semaphore /\ Typed /\ Judgement
  BY SemaphoreAtFirst, TypedAtFirst, JudgementAtFirst, SamlAssumption
<1>2. Semaphore /\ Typed /\ Judgement /\ [Next]_vars => (Semaphore /\ Typed /\ Judgement)'
  BY SemaphoreStays, TypedStays, JudgementStays, SamlAssumption
<1> QED
  BY <1>1, <1>2, PTL DEF Spec

-----------------------------------------------------------------------------
(* What a document of the provider says, and what its checks come to. *)

Issued(a) == a.at + provider.skew

LEMMA ResponseSays ==
  ASSUME NEW a, a.person # None, ~provider.encrypts
  PROVE  LET doc == Response(a)
             assertion == doc.assertions[1]
             confirmation == [method |-> {"bearer"}, inResponseTo |-> a.request,
                              recipient |-> provider.destination,
                              notBefore |-> IF provider.confirmsFrom THEN {Issued(a)} ELSE {},
                              notOnOrAfter |-> {Issued(a) + Lifetime}]
         IN /\ WellFormed(doc)
            /\ doc.inResponseTo \subseteq a.request
            /\ Len(assertion.conditions) = 1
            /\ assertion.conditions[1].notBefore = {Issued(a)}
            /\ assertion.conditions[1].notOnOrAfter = {Issued(a) + Lifetime}
            /\ assertion.conditions[1].audiences = provider.audiences
            /\ assertion.authnStatements = 1
            /\ doc.destination = provider.destination
            /\ doc.issuers = <<provider.entityId>>
            /\ assertion.issuers = <<provider.entityId>>
            /\ ToSet(assertion.confirmations) = {confirmation}
<1> DEFINE doc == Response(a)
           confirmation == [method |-> {"bearer"}, inResponseTo |-> a.request,
                            recipient |-> provider.destination,
                            notBefore |-> IF provider.confirmsFrom THEN {Issued(a)} ELSE {},
                            notOnOrAfter |-> {Issued(a) + Lifetime}]
           condition == [notBefore |-> {Issued(a)}, notOnOrAfter |-> {Issued(a) + Lifetime},
                         audiences |-> provider.audiences]
           assertion == [issuers |-> <<provider.entityId>>,
                         conditions |-> <<condition>>,
                         authnStatements |-> 1,
                         confirmations |-> <<confirmation>>,
                         nameIds |-> IF provider.namesSubject
                                     THEN <<[text |-> a.person, format |-> "persistent"]>>
                                     ELSE <<>>,
                         attributes |-> People[a.person]]
<1>1. /\ doc.schemaValid = TRUE /\ doc.status = "Success"
      /\ doc.assertions = <<assertion>> /\ doc.encrypted = 0
      /\ doc.issuers = <<provider.entityId>>
      /\ doc.inResponseTo \subseteq a.request
      /\ doc.destination = provider.destination
  BY DEF Response, Issued
<1>2. /\ assertion.conditions = <<condition>> /\ assertion.authnStatements = 1
      /\ assertion.issuers = <<provider.entityId>>
      /\ assertion.confirmations = <<confirmation>>
  OBVIOUS
<1>3. /\ condition.notBefore = {Issued(a)} /\ condition.notOnOrAfter = {Issued(a) + Lifetime}
      /\ condition.audiences = provider.audiences
  OBVIOUS
<1> HIDE DEF doc, assertion, condition, confirmation
<1>4. WellFormed(doc) /\ doc.assertions[1] = assertion
  BY <1>1 DEF WellFormed
<1>5. Len(assertion.conditions) = 1 /\ assertion.conditions[1] = condition
  BY <1>2
<1>6. ToSet(assertion.confirmations) = {confirmation}
  <2>1. DOMAIN assertion.confirmations = {1} /\ assertion.confirmations[1] = confirmation
    BY <1>2
  <2> QED
    BY <2>1 DEF ToSet
<1> QED
  BY <1>1, <1>2, <1>3, <1>4, <1>5, <1>6 DEF doc, confirmation

\* The signatures of a document are those the provider is set to make, each with
\* its key and its algorithm.
LEMMA SignaturesAreSet ==
  ASSUME Deployment \in Deployments, NEW a
  PROVE  LET given == provider.signatures
             made == Response(a).signatures
         IN /\ given \in Seq([on : STRING, uri : STRING])
            /\ DOMAIN made = DOMAIN given
            /\ \A i \in DOMAIN given :
                 /\ made[i].on = given[i].on /\ made[i].uri = given[i].uri
                 /\ made[i].key = provider.key /\ made[i].algorithm = provider.algorithm
BY ProviderAssumption DEF ProviderAssumption, Deployment, Response

\* Signatures that name as many elements as there are signatures name each once.
LEMMA OnceEach ==
  ASSUME NEW seq \in Seq([on : STRING, uri : STRING]),
         Cardinality({s.on : s \in ToSet(seq)}) = Len(seq)
  PROVE  \A i, j \in DOMAIN seq : seq[j].on = seq[i].on => i = j
<1> DEFINE n == Len(seq)
           places == 1..n
           elements == {s.on : s \in ToSet(seq)}
           on == [i \in places |-> seq[i].on]
<1>1. DOMAIN seq = places /\ n \in Nat /\ Cardinality(elements) = n
  OBVIOUS
<1>2. \A e \in elements : \E i \in places : on[i] = e
  BY <1>1 DEF ToSet
<1>3. \A i \in places : on[i] \in elements /\ on[i] = seq[i].on
  BY <1>1 DEF ToSet
<1>4. on \in [places -> elements]
  BY <1>3
<1> HIDE DEF n, elements, on
<1>5. IsFiniteSet(places) /\ Cardinality(places) = n
  <2>1. IsFiniteSet(1..n) /\ Cardinality(1..n) = IF 1 > n THEN 0 ELSE n - 1 + 1
    BY <1>1, FS_Interval
  <2> QED
    BY <1>1, <2>1
<1>6. on \in Surjection(places, elements)
  BY <1>2, <1>4 DEF Surjection
<1>7. on \in Injection(places, elements)
  BY <1>1, <1>5, <1>6, FS_SurjSameCardinalityImpliesInj
<1>8. \A i, j \in places : on[i] = on[j] => i = j
  BY <1>4, <1>7 DEF Injection, IsInjective
<1> QED
  BY <1>1, <1>3, <1>8

LEMMA TwiceTheSame == ASSUME NEW x PROVE ToSet(<<x>> \o <<x>>) = {x}
<1> DEFINE one == <<x>>
<1>1. one \in Seq({x}) /\ Len(one) = 1 /\ one[1] = x
  OBVIOUS
<1>2. one \o one \in Seq({x}) /\ Len(one \o one) = 2
  BY <1>1
<1> HIDE DEF one
<1>3. DOMAIN (one \o one) = {1, 2} /\ (one \o one)[1] = x /\ (one \o one)[2] = x
  BY <1>2
<1>4. ToSet(one \o one) = {x}
  BY <1>3 DEF ToSet
<1> QED
  BY <1>4 DEF one

LEMMA WellFormedMeans ==
  ASSUME NEW a, WellFormed(Response(a))
  PROVE  a.person # None /\ ~provider.encrypts
<1> DEFINE doc == Response(a)
<1>1. doc.status = "Success" /\ Len(doc.assertions) = 1
  BY DEF WellFormed
<1>2. doc.status = IF a.person = None THEN "AuthnFailed" ELSE "Success"
  BY DEF Response
<1>3. provider.encrypts => doc.assertions = <<>>
  BY DEF Response
<1> HIDE DEF doc
<1> QED
  BY <1>1, <1>2, <1>3

LEMMA ResponseTyped ==
  ASSUME NEW a \in Answer, Typed
  PROVE  a.at \in Nat /\ Issued(a) \in Int
BY ProviderAssumption DEF ProviderAssumption, Typed, Deployment, Answer, Issued

\* What the settings ask for passes all checks, if it comes in time.
LEMMA CompatibleIsAccepted ==
  ASSUME Typed, NEW l \in Logins, NEW a \in Answer, Compatible,
         a.request = {l}, a.person # None,
         NEW t \in Nat, a.at <= t, Issued(a) - Drift <= t, t < Issued(a) + Lifetime
  PROVE  /\ AcceptConditions(Response(a), l, Sp, t)
         /\ AcceptConfirmation(Response(a), l, Sp, t)
         /\ AcceptSignatures(Response(a), Sp)
<1> DEFINE doc == Response(a)
           assertion == doc.assertions[1]
           condition == assertion.conditions[1]
           confirmation == [method |-> {"bearer"}, inResponseTo |-> a.request,
                            recipient |-> provider.destination,
                            notBefore |-> IF provider.confirmsFrom THEN {Issued(a)} ELSE {},
                            notOnOrAfter |-> {Issued(a) + Lifetime}]
           given == provider.signatures
           signed == {s.on : s \in ToSet(given)}
<1>1. a.at \in Nat /\ Issued(a) \in Int /\ Lifetime \in Nat /\ Drift \in Nat
  BY ResponseTyped, SamlAssumption DEF SamlAssumption
<1>2. /\ Sp.entityId = settings.sp_entity_id /\ Sp.acs = settings.acs /\ Sp.idp = IdpInfo
      /\ Sp.wantAssertionsSigned = settings.want_assertions_signed
      /\ Sp.wantResponseSigned = settings.want_response_signed
  BY DEF Sp
<1>3. /\ provider.entityId = IdpInfo.entityId /\ provider.key = IdpInfo.cert
      /\ provider.algorithm \in AllowedAlgorithms
      /\ settings.sp_entity_id \in provider.audiences
      /\ \A url \in provider.destination : url.to = settings.acs
      /\ ~provider.encrypts
      /\ provider.confirmsFrom => provider.skew <= 0
      /\ Cardinality(signed) = Len(given)
      /\ signed # {} /\ signed \subseteq {"response", "assertion"}
      /\ \A s \in ToSet(given) : s.uri = "own"
      /\ settings.want_assertions_signed => "assertion" \in signed
      /\ settings.want_response_signed => "response" \in signed
  BY DEF Compatible
<1>4. /\ WellFormed(doc)
      /\ doc.inResponseTo \subseteq a.request
      /\ Len(assertion.conditions) = 1
      /\ condition.notBefore = {Issued(a)}
      /\ condition.notOnOrAfter = {Issued(a) + Lifetime}
      /\ condition.audiences = provider.audiences
      /\ assertion.authnStatements = 1
      /\ doc.destination = provider.destination
      /\ doc.issuers = <<provider.entityId>>
      /\ assertion.issuers = <<provider.entityId>>
      /\ ToSet(assertion.confirmations) = {confirmation}
  BY <1>3, ResponseSays
<1>5. /\ given \in Seq([on : STRING, uri : STRING])
      /\ DOMAIN doc.signatures = DOMAIN given
      /\ \A i \in DOMAIN given :
           /\ doc.signatures[i].on = given[i].on /\ doc.signatures[i].uri = given[i].uri
           /\ doc.signatures[i].key = provider.key
           /\ doc.signatures[i].algorithm = provider.algorithm
  BY SignaturesAreSet DEF Typed
<1>6. /\ confirmation.method = {"bearer"} /\ confirmation.inResponseTo = {l}
      /\ confirmation.recipient = provider.destination
      /\ confirmation.notBefore \subseteq {Issued(a)}
      /\ provider.confirmsFrom \/ confirmation.notBefore = {}
      /\ confirmation.notOnOrAfter = {Issued(a) + Lifetime}
  OBVIOUS
<1>7. \A i \in DOMAIN given : given[i].uri = "own" /\ given[i].on \in signed
  BY <1>3 DEF ToSet
<1>8. {s.on : s \in ToSet(doc.signatures)} = signed
  BY <1>5 DEF ToSet
<1>9. \A i, j \in DOMAIN given : given[j].on = given[i].on => i = j
  BY <1>3, <1>5, OnceEach
<1> HIDE DEF doc, assertion, condition, confirmation, given, signed
<1>10. WithinConditions(condition, t)
  BY <1>1, <1>4 DEF WithinConditions
<1>11. QueriesFind(doc)
  BY <1>5, <1>7 DEF QueriesFind, SignaturesOn, ToSet
<1>12. IssuersAgree(doc, Sp.idp.entityId)
  <2>1. doc.assertions[1] = assertion
    BY DEF assertion
  <2>2. Len(doc.issuers) = 1 /\ Len(assertion.issuers) = 1
    BY <1>4
  <2>3. ToSet(doc.issuers \o assertion.issuers) \subseteq {provider.entityId}
    BY <1>4, TwiceTheSame
  <2>4. Len(doc.issuers) <= 1
    BY <2>2
  <2>5. ToSet(doc.issuers \o assertion.issuers) \ {""} \subseteq {Sp.idp.entityId}
    BY <1>2, <1>3, <2>3
  <2> QED
    BY <2>1, <2>2, <2>4, <2>5 DEF IssuersAgree
<1>13. AcceptConditions(doc, l, Sp, t)
  <2>1. doc.inResponseTo \subseteq {l}
    BY <1>4
  <2>2. \A url \in doc.destination : url.to = Sp.acs
    BY <1>2, <1>3, <1>4
  <2>3. Sp.entityId \in condition.audiences
    BY <1>2, <1>3, <1>4
  <2> QED
    BY <1>4, <1>10, <1>11, <1>12, <2>1, <2>2, <2>3 DEF AcceptConditions, assertion, condition
<1>14. AcceptConfirmation(doc, l, Sp, t)
  <2>1. \A s \in confirmation.notBefore : s <= t
    <3> SUFFICES ASSUME provider.confirmsFrom PROVE Issued(a) <= t
      BY <1>6
    <3>1. provider.skew <= 0 /\ provider.skew \in Int
      BY <1>3, ProviderAssumption DEF ProviderAssumption, Typed, Deployment
    <3> QED
      BY <1>1, <3>1 DEF Issued
  <2>2. Confirms(confirmation, l, Sp.acs, t)
    BY <1>2, <1>3, <1>6, <2>1 DEF Confirms
  <2>3. confirmation \in ToSet(assertion.confirmations)
    BY <1>4
  <2> QED
    BY <2>2, <2>3 DEF AcceptConfirmation, assertion
<1>15. AcceptSignatures(doc, Sp)
  <2>1. SignedElementsOnly(doc)
    BY <1>3, <1>5, <1>7, <1>9 DEF SignedElementsOnly
  <2>2. \A s \in ToSet(doc.signatures) : Verifies(s, Sp.idp.cert)
    BY <1>2, <1>3, <1>5 DEF ToSet, Verifies, AllowedSignature
  <2> QED
    BY <1>2, <1>3, <1>8, <2>1, <2>2 DEF AcceptSignatures
<1> QED
  BY <1>13, <1>14, <1>15 DEF doc

\* Whatever document is posted: if the checks let it through, the trusted key has
\* signed its one assertion, or the response around it, in a signature that refers
\* to that element by its ID; the assertion itself, if the settings ask for that.
THEOREM AcceptedIsSigned ==
  ASSUME NEW doc, NEW request, NEW sp, NEW t,
         AcceptConditions(doc, request, sp, t), AcceptSignatures(doc, sp)
  PROVE  /\ Len(doc.assertions) = 1
         /\ \E s \in ToSet(doc.signatures) :
              /\ s.on \in {"assertion", "response"} /\ s.uri = "own"
              /\ s.key = sp.idp.cert /\ s.algorithm \in AllowedAlgorithms
              /\ sp.wantAssertionsSigned => s.on = "assertion"
         /\ \A s \in ToSet(doc.signatures) :
              s.on \in {"assertion", "response"} /\ s.key = sp.idp.cert
<1> DEFINE signatures == ToSet(doc.signatures)
           own == SignaturesOn(doc, "assertion")
<1>1. /\ \E s \in signatures : TRUE
      /\ sp.wantAssertionsSigned => \E s \in signatures : s.on = "assertion"
      /\ \A s \in signatures : s.key = sp.idp.cert /\ s.algorithm \in AllowedAlgorithms
  BY DEF AcceptSignatures, Verifies, AllowedSignature
<1>2. \A s \in signatures : s.on \in {"assertion", "response"}
  <2>1. ASSUME NEW i \in DOMAIN doc.signatures
        PROVE  doc.signatures[i].on \in {"assertion", "response"}
    BY Zenon DEF AcceptSignatures, SignedElementsOnly
  <2> QED
    BY <2>1, Zenon DEF ToSet
<1>3. Len(doc.assertions) = 1 /\ QueriesFind(doc)
  BY Zenon DEF AcceptConditions, WellFormed
<1> HIDE DEF signatures
<1>4. CASE own # {}
  <2>1. PICK s \in own : TRUE
    BY <1>4
  <2>2. s \in signatures /\ s.on = "assertion" /\ s.uri = "own"
    BY <1>3, <1>4 DEF QueriesFind, SignaturesOn, signatures
  <2> QED
    BY <1>1, <1>2, <1>3, <2>2 DEF signatures
<1>5. CASE own = {}
  <2>1. PICK s \in signatures : TRUE
    BY <1>1
  <2>2. \A r \in signatures : r.on # "assertion"
    BY <1>5 DEF SignaturesOn, signatures
  <2>3. s.on = "response"
    BY <1>2, <2>2
  <2>4. s.uri = "own"
    BY <1>3, <1>5, <2>3 DEF QueriesFind, SignaturesOn, signatures
  <2> QED
    BY <1>1, <1>2, <1>3, <2>2, <2>3, <2>4 DEF signatures
<1> QED
  BY <1>4, <1>5

\* What passed is the answer to this login's own request, in time, by the trusted
\* provider and for this service provider.
LEMMA AcceptedMeans ==
  ASSUME Typed, NEW l \in Logins, NEW a \in Answer, NEW s \in Nat, NEW t \in Nat,
         AcceptConditions(Response(a), l, Sp, s),
         AcceptConfirmation(Response(a), l, Sp, t),
         AcceptSignatures(Response(a), Sp)
  PROVE  /\ a.request = {l} /\ a.person # None /\ ~provider.encrypts
         /\ Issued(a) - Drift <= s /\ t < Issued(a) + Lifetime
         /\ provider.key = IdpInfo.cert /\ provider.algorithm \in AllowedAlgorithms
         /\ provider.entityId # "" => provider.entityId = IdpInfo.entityId
         /\ settings.sp_entity_id \in provider.audiences
<1> DEFINE doc == Response(a)
           assertion == doc.assertions[1]
           condition == assertion.conditions[1]
           confirmation == [method |-> {"bearer"}, inResponseTo |-> a.request,
                            recipient |-> provider.destination,
                            notBefore |-> IF provider.confirmsFrom THEN {Issued(a)} ELSE {},
                            notOnOrAfter |-> {Issued(a) + Lifetime}]
           given == provider.signatures
<1>1. a.at \in Nat /\ Issued(a) \in Int /\ Lifetime \in Nat /\ Drift \in Nat
  BY ResponseTyped, SamlAssumption DEF SamlAssumption
<1>2. Sp.entityId = settings.sp_entity_id /\ Sp.acs = settings.acs /\ Sp.idp = IdpInfo
  BY DEF Sp
<1>3. a.person # None /\ ~provider.encrypts
  BY WellFormedMeans DEF AcceptConditions
<1>4. /\ condition.notBefore = {Issued(a)}
      /\ condition.audiences = provider.audiences
      /\ assertion.issuers = <<provider.entityId>>
      /\ doc.issuers = <<provider.entityId>>
      /\ ToSet(assertion.confirmations) = {confirmation}
  BY <1>3, ResponseSays
<1>5. confirmation.inResponseTo = a.request /\ confirmation.notOnOrAfter = {Issued(a) + Lifetime}
  OBVIOUS
<1>6. /\ DOMAIN doc.signatures = DOMAIN given
      /\ \A i \in DOMAIN given : /\ doc.signatures[i].key = provider.key
                                 /\ doc.signatures[i].algorithm = provider.algorithm
  BY SignaturesAreSet DEF Typed
<1> HIDE DEF confirmation
<1>7. Confirms(confirmation, l, Sp.acs, t)
  BY <1>4 DEF AcceptConfirmation
<1>8. a.request = {l} /\ t < Issued(a) + Lifetime
  BY <1>5, <1>7 DEF Confirms
<1>9. WithinConditions(condition, s) /\ Sp.entityId \in condition.audiences
      /\ IssuersAgree(doc, Sp.idp.entityId)
  BY DEF AcceptConditions
<1>10. Issued(a) - Drift <= s
  BY <1>1, <1>4, <1>9 DEF WithinConditions
<1>11. provider.entityId # "" => provider.entityId = IdpInfo.entityId
  <2>1. ToSet(doc.issuers \o assertion.issuers) = {provider.entityId}
    BY <1>4, TwiceTheSame
  <2> QED
    BY <1>2, <1>9, <2>1 DEF IssuersAgree
<1>12. provider.key = IdpInfo.cert /\ provider.algorithm \in AllowedAlgorithms
  <2>1. {x.on : x \in ToSet(doc.signatures)} # {}
    BY DEF AcceptSignatures
  <2>2. PICK i \in DOMAIN doc.signatures : TRUE
    BY <2>1 DEF ToSet
  <2>3. Verifies(doc.signatures[i], Sp.idp.cert)
    BY DEF AcceptSignatures, ToSet
  <2> QED
    BY <1>2, <1>6, <2>3 DEF Verifies, AllowedSignature
<1> QED
  BY <1>2, <1>3, <1>4, <1>8, <1>9, <1>10, <1>11, <1>12

\* A sign-in of a provider that does what the settings ask for, posted to its own
\* login, is refused only when it comes too late or its clock is too far ahead.
THEOREM RefusalHasCause == ASSUME NoneIsNoRecord PROVE Spec => []RefusedOnlyForCause
<1>1. Semaphore /\ Typed /\ Judgement => RefusedOnlyForCause
  <2> SUFFICES ASSUME Typed, Judgement PROVE RefusedOnlyForCause
    OBVIOUS
  <2> SUFFICES ASSUME NEW l \in Logins,
                      result[l] = ProtocolError, posted[l] # None, Compatible,
                      posted[l].request = {l}, posted[l].person # None,
                      Issued(posted[l]) - Drift <= ended[l],
                      ended[l] < Issued(posted[l]) + Lifetime
               PROVE  FALSE
    <3>1. \A k \in Logins : posted[k] # None =>
            posted[k] \in Answer /\ ended[k] \in Nat
      BY DEF Typed
    <3>2. \A k \in Logins : posted[k] # None => Issued(posted[k]) \in Int
      BY <3>1, ResponseTyped
    <3> QED
      BY <3>1, <3>2, SamlAssumption DEF RefusedOnlyForCause, Issued, SamlAssumption
  <2>1. pc[l] = "ended"
    BY DEF Typed, NoneIsNoRecord, Errors
  <2>2. Refused(l)
    BY <2>1 DEF Judgement, Judged
  <2>3. posted[l] \in Answer /\ ended[l] \in Nat /\ posted[l].at <= ended[l]
    BY <2>2 DEF Refused, Typed
  <2>4. /\ AcceptConditions(Doc(l), l, Sp, ended[l])
        /\ AcceptConfirmation(Doc(l), l, Sp, ended[l])
        /\ AcceptSignatures(Doc(l), Sp)
    BY <2>3, CompatibleIsAccepted DEF Doc
  <2> QED
    BY <2>2, <2>4 DEF Refused
<1> QED
  BY <1>1, AlwaysJudged, PTL

\* A login whose response was accepted posted the answer to its own request, in
\* which the trusted provider signed somebody in for this service provider; it
\* ended inside the window of the assertion but for the drift; and its claims
\* are those of that answer.
OfOwnAnswer ==
  \A l \in Logins : Completed(l) =>
    LET a == posted[l]
    IN /\ a \in answers /\ a.request = {l} /\ a.person # None /\ ~provider.encrypts
       /\ Issued(a) - Drift <= ended[l] /\ ended[l] < Issued(a) + Lifetime
       /\ IdpInfo # ConfigurationError
       /\ provider.key = IdpInfo.cert /\ provider.algorithm \in AllowedAlgorithms
       /\ provider.entityId # "" => provider.entityId = IdpInfo.entityId
       /\ settings.sp_entity_id \in provider.audiences
       /\ result[l] = Dict(ExtractClaims(Response(a)))

\* Whichever responses are posted with whichever cookies, a login is accepted
\* only on the answer to its own request.
THEOREM AcceptedOnOwnAnswer == ASSUME NoneIsNoRecord PROVE Spec => []OfOwnAnswer
<1>1. Semaphore /\ Typed /\ Judgement => OfOwnAnswer
  <2> SUFFICES ASSUME Typed, Judgement, NEW l \in Logins, Completed(l)
               PROVE  LET a == posted[l]
                      IN /\ a \in answers /\ a.request = {l} /\ a.person # None /\ ~provider.encrypts
                         /\ Issued(a) - Drift <= ended[l] /\ ended[l] < Issued(a) + Lifetime
                         /\ IdpInfo # ConfigurationError
                         /\ provider.key = IdpInfo.cert
                         /\ provider.algorithm \in AllowedAlgorithms
                         /\ provider.entityId # "" => provider.entityId = IdpInfo.entityId
                         /\ settings.sp_entity_id \in provider.audiences
                         /\ result[l] = Dict(ExtractClaims(Response(a)))
    BY DEF OfOwnAnswer
  <2>1. pc[l] = "ended"
    BY DEF Typed, Completed
  <2>2. Accepted(l)
    BY <2>1 DEF Judgement, Judged
  <2>3. posted[l] \in Answer /\ posted[l] \in answers /\ ended[l] \in Nat
    BY <2>2 DEF Accepted, Typed
  <2>4. PICK s \in Nat : s <= ended[l] /\ AcceptConditions(Response(posted[l]), l, Sp, s)
    BY <2>2 DEF Accepted, ConditionsHeldBy, Doc
  <2>5. /\ posted[l].request = {l} /\ posted[l].person # None /\ ~provider.encrypts
        /\ Issued(posted[l]) - Drift <= s /\ ended[l] < Issued(posted[l]) + Lifetime
        /\ provider.key = IdpInfo.cert /\ provider.algorithm \in AllowedAlgorithms
        /\ provider.entityId # "" => provider.entityId = IdpInfo.entityId
        /\ settings.sp_entity_id \in provider.audiences
    BY <2>2, <2>3, <2>4, AcceptedMeans DEF Accepted, Doc
  <2>6. Issued(posted[l]) - Drift <= ended[l]
    <3>1. Issued(posted[l]) \in Int
      BY <2>3, ResponseTyped
    <3>2. ASSUME NEW i \in Int, NEW d \in Nat, NEW u \in Nat, NEW e \in Nat,
                 i - d <= u, u <= e
          PROVE  i - d <= e
      BY <3>2
    <3> QED
      BY <2>3, <2>4, <2>5, <3>1, <3>2, SamlAssumption DEF SamlAssumption
  <2> QED
    BY <2>2, <2>3, <2>5, <2>6 DEF Accepted, Doc
<1> QED
  BY <1>1, AlwaysJudged, PTL
-----------------------------------------------------------------------------
(* What the mapping makes of the claims.  The transforms are applied by a   *)
(* recursive function; the induction theorems of the library take an        *)
(* operator, and the least number of a set does as well.                    *)

LEMMA LeastNumber ==
  ASSUME NEW T \in SUBSET Nat, T # {}
  PROVE  \E x \in T : \A y \in T : x <= y
<1> DEFINE R == {ss \in Nat \X Nat : ss[1] < ss[2]}
<1>1. IsWellFoundedOn(R, Nat)
  BY NatLessThanWellFounded DEF OpToRel
<1> HIDE DEF R
<1>2. PICK x \in T : \A y \in T : <<y, x>> \notin R
  BY <1>1, WFMin
<1>3. ASSUME NEW y \in T PROVE x <= y
  <2>1. x \in Nat /\ y \in Nat /\ <<y, x>> \notin R
    BY <1>2
  <2>2. ~(y < x)
    BY <2>1 DEF R
  <2> QED
    BY <2>1, <2>2
<1> QED
  BY <1>3

\* Up to n, what holds at 0 and goes from each number to the next.
LEMMA UpTo ==
  ASSUME NEW n \in Nat, NEW T, 0 \in T,
         \A k \in Nat : k < n /\ k \in T => k + 1 \in T
  PROVE  \A k \in 0 .. n : k \in T
<1> DEFINE U == {k \in 0 .. n : k \notin T}
<1>1. SUFFICES ASSUME U # {} PROVE FALSE
  OBVIOUS
<1>2. PICK x \in U : \A y \in U : x <= y
  <2>1. U \in SUBSET Nat
    OBVIOUS
  <2> HIDE DEF U
  <2> QED
    BY <1>1, <2>1, LeastNumber
<1>3. x \in Nat /\ x # 0 /\ x - 1 \in Nat /\ x - 1 < n /\ x - 1 \in 0 .. n
  BY <1>2
<1>4. x - 1 \notin U
  BY <1>2, <1>3
<1>5. (x - 1) + 1 \in T
  BY <1>3, <1>4
<1> QED
  BY <1>2, <1>3, <1>5

LEMMA LastPlace ==
  ASSUME NEW n \in Nat, NEW T \in SUBSET (1 .. n), T # {}
  PROVE  \E i \in T : \A j \in T : j <= i
<1> DEFINE R == {n - i : i \in T}
<1>1. R \in SUBSET Nat
  OBVIOUS
<1>2. R # {}
  OBVIOUS
<1> HIDE DEF R
<1>3. PICK r \in R : \A q \in R : r <= q
  BY <1>1, <1>2, LeastNumber
<1>4. PICK i \in T : r = n - i
  BY <1>3 DEF R
<1>5. ASSUME NEW j \in T PROVE j <= i
  <2>1. n - j \in R
    BY DEF R
  <2> QED
    BY <1>3, <1>4, <2>1
<1> QED
  BY <1>5

\* A path of one part is looked up among the claims.
LEMMA ExtractOne ==
  ASSUME NEW claims, NEW path, Len(Parts[path]) = 1
  PROVE  Extract(claims, path) =
           IF Parts[path][1] \in DOMAIN claims THEN claims[Parts[path][1]] ELSE Missing
<1> DEFINE parts == Parts[path]
           Member(v, part) == IF Is("dict", v) /\ part \in DOMAIN v.dict
                              THEN v.dict[part] ELSE Missing
           At(f) == f = [n \in 0 .. Len(parts) |->
                           IF n = 0 THEN Dict(claims) ELSE Member(f[n - 1], parts[n])]
           g == [n \in 0 .. 1 |-> IF n = 0 THEN Dict(claims) ELSE Member(Dict(claims), parts[1])]
<1>1. Extract(claims, path) = (CHOOSE f : At(f))[Len(parts)]
  BY DEF Extract
<1> HIDE DEF Member
<1>2. At(g)
  <2>1. ASSUME NEW n \in 0 .. 1
        PROVE  g[n] = IF n = 0 THEN Dict(claims) ELSE Member(g[n - 1], parts[n])
    BY <2>1
  <2>2. g = [n \in 0 .. 1 |-> g[n]]
    OBVIOUS
  <2> HIDE DEF g
  <2> QED
    BY <2>1, <2>2
<1> DEFINE f == CHOOSE f : At(f)
<1>3. At(f)
  BY <1>2
<1> HIDE DEF f
<1>4. f[0] = Dict(claims) /\ f[1] = Member(f[0], parts[1])
  BY <1>3
<1>5. Extract(claims, path) = Member(Dict(claims), parts[1])
  BY <1>1, <1>4 DEF f
<1> QED
  BY <1>5 DEF Member, Is, Dict

\* The identities that the transforms go through: f is the one after each.
Through(identity, transforms, f) ==
  /\ f[0] = identity
  /\ \A n \in 0 .. Len(transforms) - 1 : f[n + 1] = ApplyTransform(f[n], transforms[n + 1])

LEMMA TransformedInTurn ==
  ASSUME NEW identity, NEW transforms, Len(transforms) \in Nat
  PROVE  \E f : Through(identity, transforms, f) /\ Transformed(identity, transforms) = f[Len(transforms)]
<1> DEFINE L == Len(transforms)
           After(f, n) == f = [k \in 0 .. n |-> IF k = 0 THEN identity
                                                ELSE ApplyTransform(f[k - 1], transforms[k])]
           T == {n \in Nat : \E f : After(f, n)}
<1>1. 0 \in T
  <2> DEFINE f == [k \in 0 .. 0 |-> identity]
  <2>1. f = [k \in 0 .. 0 |-> IF k = 0 THEN identity ELSE ApplyTransform(f[k - 1], transforms[k])]
    OBVIOUS
  <2> HIDE DEF f
  <2> QED
    BY <2>1
<1>2. ASSUME NEW n \in Nat, n < L, n \in T
      PROVE  n + 1 \in T
  <2>1. PICK f : After(f, n)
    BY <1>2
  <2> DEFINE g == [k \in 0 .. n + 1 |-> IF k = n + 1 THEN ApplyTransform(f[n], transforms[n + 1]) ELSE f[k]]
  <2>2. ASSUME NEW k \in 0 .. n + 1
        PROVE  g[k] = IF k = 0 THEN identity ELSE ApplyTransform(g[k - 1], transforms[k])
    <3>1. CASE k = n + 1
      <4>1. k # 0 /\ k - 1 = n /\ n \in 0 .. n + 1 /\ n # n + 1
        BY <3>1
      <4>2. g[n] = f[n]
        BY <4>1
      <4>3. g[k] = ApplyTransform(f[n], transforms[n + 1])
        BY <3>1
      <4> QED
        BY <3>1, <4>1, <4>2, <4>3
    <3>2. CASE k # n + 1
      <4>1. k \in 0 .. n /\ g[k] = f[k]
        BY <3>2
      <4>2. f[k] = IF k = 0 THEN identity ELSE ApplyTransform(f[k - 1], transforms[k])
        BY <2>1, <4>1
      <4>3. CASE k = 0
        BY <4>1, <4>2, <4>3
      <4>4. CASE k # 0
        <5>1. k - 1 \in 0 .. n + 1 /\ k - 1 # n + 1
          BY <4>1, <4>4
        <5>2. g[k - 1] = f[k - 1]
          BY <5>1
        <5> QED
          BY <4>1, <4>2, <4>4, <5>2
      <4> QED
        BY <4>3, <4>4
    <3> QED
      BY <3>1, <3>2
  <2>3. g = [k \in 0 .. n + 1 |-> g[k]]
    OBVIOUS
  <2> HIDE DEF g
  <2>4. After(g, n + 1)
    BY <2>2, <2>3
  <2> QED
    BY <2>4
<1>3. L \in T
  <2> HIDE DEF T
  <2>1. L \in 0 .. L
    OBVIOUS
  <2> QED
    BY <1>1, <1>2, <2>1, UpTo
<1> DEFINE f == CHOOSE f : After(f, L)
<1>4. After(f, L)
  BY <1>3
<1>5. Transformed(identity, transforms) = f[L]
  BY DEF Transformed
<1> HIDE DEF f
<1>6. f[0] = identity
  BY <1>4
<1>7. ASSUME NEW n \in 0 .. L - 1
      PROVE  f[n + 1] = ApplyTransform(f[n], transforms[n + 1])
  <2>1. n + 1 \in 0 .. L /\ n + 1 # 0 /\ (n + 1) - 1 = n
    OBVIOUS
  <2>2. f[n + 1] = ApplyTransform(f[(n + 1) - 1], transforms[n + 1])
    BY <1>4, <2>1
  <2> QED
    BY <2>1, <2>2
<1>8. Through(identity, transforms, f)
  BY <1>6, <1>7 DEF Through
<1> QED
  BY <1>5, <1>8

\* An identity whose roles are these.
Shaped(identity, roles) ==
  /\ identity = [part \in {"fields", "attributes"} |-> identity[part]]
  /\ identity.fields = [k \in {"external_id", "email", "name", "roles"} |-> identity.fields[k]]
  /\ identity.fields.roles = List(roles)

\* A transform leaves the roles alone, which are no string, and the external_id if
\* it is of another field or does not change it.
LEMMA TransformKeeps ==
  ASSUME NEW identity, NEW roles, Shaped(identity, roles), NEW t,
         ApplyTransform(identity, t) # MappingError
  PROVE  /\ Shaped(ApplyTransform(identity, t), roles)
         /\ \A s : /\ identity.fields.external_id = Str(s)
                  /\ (t.field = "external_id" => Transforms[t.transform][s] = s)
                  => ApplyTransform(identity, t).fields.external_id = Str(s)
<1> DEFINE part == IF t.field \in DOMAIN identity.fields THEN "fields" ELSE "attributes"
           target == IF t.field \in DOMAIN identity[part] THEN identity[part][t.field]
                     ELSE Missing
           new == Str(Transforms[t.transform][target.str])
<1>1. identity # MappingError
  BY DEF ApplyTransform
<1>2. \/ ApplyTransform(identity, t) = identity
      \/ /\ Is("str", target)
         /\ ApplyTransform(identity, t) = [identity EXCEPT ![part][t.field] = new]
  BY <1>1 DEF ApplyTransform
<1>3. CASE ApplyTransform(identity, t) = identity
  BY <1>3
<1>4. CASE /\ Is("str", target)
           /\ ApplyTransform(identity, t) = [identity EXCEPT ![part][t.field] = new]
  <2> DEFINE after == [identity EXCEPT ![part][t.field] = new]
  <2>1. CASE t.field \in DOMAIN identity.fields
    <3>1. part = "fields" /\ target = identity.fields[t.field]
      BY <2>1
    <3>2. t.field # "roles"
      BY <1>4, <3>1 DEF Shaped, Is, List
    <3>3. \A s : Str(s).str = s
      BY DEF Str
    <3> HIDE DEF part, new
    <3>4. /\ after = [p \in {"fields", "attributes"} |-> after[p]]
          /\ after.fields = [identity.fields EXCEPT ![t.field] = new]
      BY <3>1 DEF Shaped
    <3> HIDE DEF after
    <3>5. Shaped(after, roles)
      BY <3>2, <3>4 DEF Shaped
    <3>6. ASSUME NEW s, identity.fields.external_id = Str(s),
                 t.field = "external_id" => Transforms[t.transform][s] = s
          PROVE  after.fields.external_id = Str(s)
      <4>1. t.field = "external_id" => new = Str(s)
        BY <3>1, <3>3, <3>6 DEF new
      <4> QED
        BY <3>4, <3>6, <4>1 DEF Shaped
    <3> QED
      BY <1>4, <3>5, <3>6 DEF after
  <2>2. CASE t.field \notin DOMAIN identity.fields
    <3>1. part = "attributes"
      BY <2>2
    <3> HIDE DEF part, new
    <3>2. /\ after = [p \in {"fields", "attributes"} |-> after[p]]
          /\ after.fields = identity.fields
      BY <3>1 DEF Shaped
    <3> HIDE DEF after
    <3>3. Shaped(after, roles)
      BY <3>2 DEF Shaped
    <3> QED
      BY <1>4, <3>2, <3>3 DEF after
  <2> QED
    BY <2>1, <2>2
<1> QED
  BY <1>2, <1>3, <1>4

LEMMA ErrorStays == ASSUME NEW t PROVE ApplyTransform(MappingError, t) = MappingError
BY DEF ApplyTransform

\* All of them together, if they come to an identity.
LEMMA TransformedKeeps ==
  ASSUME NEW identity, NEW roles, Shaped(identity, roles),
         NEW transforms \in Seq([field : STRING, transform : STRING]),
         Transformed(identity, transforms) # MappingError
  PROVE  /\ Transformed(identity, transforms).fields.roles = List(roles)
         /\ \A s : identity.fields.external_id = Str(s) /\ KeepsExternalId(transforms, s)
                  => Transformed(identity, transforms).fields.external_id = Str(s)
<1> DEFINE L == Len(transforms)
<1>1. L \in Nat /\ DOMAIN transforms = 1 .. L
  OBVIOUS
<1>2. PICK f : Through(identity, transforms, f) /\ Transformed(identity, transforms) = f[L]
  BY <1>1, TransformedInTurn
<1>3. f[0] = identity /\ \A n \in 0 .. L - 1 : f[n + 1] = ApplyTransform(f[n], transforms[n + 1])
  BY <1>2 DEF Through
<1> HIDE DEF L
<1> DEFINE Good(n) == \/ f[n] = MappingError
                      \/ /\ Shaped(f[n], roles)
                         /\ \A s : /\ identity.fields.external_id = Str(s)
                                  /\ KeepsExternalId(transforms, s)
                                  => f[n].fields.external_id = Str(s)
           T == {n \in 0 .. L : Good(n)}
<1>4. 0 \in T
  BY <1>1, <1>3
<1>5. ASSUME NEW n \in Nat, n < L, n \in T
      PROVE  n + 1 \in T
  <2> DEFINE t == transforms[n + 1]
  <2>1. n + 1 \in DOMAIN transforms /\ n \in 0 .. L - 1 /\ n + 1 \in 0 .. L
    BY <1>1, <1>5
  <2>2. f[n + 1] = ApplyTransform(f[n], t)
    BY <1>3, <2>1
  <2>3. Good(n)
    BY <1>5
  <2>4. \A s : KeepsExternalId(transforms, s) =>
                (t.field = "external_id" => Transforms[t.transform][s] = s)
    BY <2>1 DEF KeepsExternalId
  <2> HIDE DEF t
  <2>5. CASE f[n + 1] = MappingError
    BY <2>1, <2>5
  <2>6. CASE f[n + 1] # MappingError
    <3>1. f[n] # MappingError
      BY <2>2, <2>6, ErrorStays
    <3>2. Shaped(f[n], roles)
      BY <2>3, <3>1
    <3>3. Shaped(f[n + 1], roles)
      BY <2>2, <2>6, <3>2, TransformKeeps
    <3>4. ASSUME NEW s, identity.fields.external_id = Str(s), KeepsExternalId(transforms, s)
          PROVE  f[n + 1].fields.external_id = Str(s)
      <4>1. f[n].fields.external_id = Str(s)
        BY <2>3, <3>1, <3>4
      <4> QED
        BY <2>2, <2>4, <2>6, <3>2, <3>4, <4>1, TransformKeeps
    <3> QED
      BY <2>1, <3>3, <3>4
  <2> QED
    BY <2>5, <2>6
<1> HIDE DEF T
<1>6. L \in T
  <2>1. L \in 0 .. L
    BY <1>1
  <2> QED
    BY <1>1, <1>4, <1>5, <2>1, UpTo
<1>7. Good(L)
  BY <1>6 DEF T
<1> QED
  BY <1>2, <1>7 DEF Shaped

\* What an identity has under external_id and roles, of these claims.
LEMMA NormalizeMeans ==
  ASSUME NEW claims, NEW mapping,
         mapping.transforms \in Seq([field : STRING, transform : STRING]),
         Normalize(claims, mapping) # MappingError
  PROVE  /\ mapping.roles # None =>
              Normalize(claims, mapping).fields.roles
                = List(AsList(Extract(claims, mapping.roles)))
         /\ \A s : /\ OptionalStr(claims, mapping.external_id) = Str(s)
                  /\ KeepsExternalId(mapping.transforms, s)
                  => Normalize(claims, mapping).fields.external_id = Str(s)
<1> DEFINE roles == IF mapping.roles = None THEN <<>> ELSE AsList(Extract(claims, mapping.roles))
           id == OptionalStr(claims, mapping.external_id)
           fields == [external_id |-> id,
                      email |-> OptionalStr(claims, mapping.email),
                      name |-> OptionalStr(claims, mapping.name),
                      roles |-> List(roles)]
           attributes == [key \in DOMAIN mapping.extra |-> Extract(claims, mapping.extra[key])]
           mapped == [fields |-> fields, attributes |-> attributes]
<1>1. /\ Normalize(claims, mapping) = Transformed(mapped, mapping.transforms)
      /\ Transformed(mapped, mapping.transforms) # MappingError
  BY Zenon DEF Normalize, ValidIdentity
<1>2. Shaped(mapped, roles) /\ mapped.fields.external_id = id
  <2> HIDE DEF id, roles, attributes
  <2>1. /\ fields = [k \in {"external_id", "email", "name", "roles"} |-> fields[k]]
        /\ fields.roles = List(roles) /\ fields.external_id = id
    OBVIOUS
  <2> HIDE DEF fields
  <2>2. mapped = [part \in {"fields", "attributes"} |-> mapped[part]] /\ mapped.fields = fields
    OBVIOUS
  <2> QED
    BY <2>1, <2>2 DEF Shaped
<1> HIDE DEF id, roles, mapped
<1> QED
  BY <1>1, <1>2, TransformedKeeps DEF id, roles

\* The claims of a response with an assertion, but for attributes.
LEMMA ClaimsOfResponse ==
  ASSUME NEW a, a.person # None, ~provider.encrypts
  PROVE  LET claims == ExtractClaims(Response(a))
             attributes == AttributeClaims(People[a.person])
         IN /\ "name_id" \in DOMAIN claims
            /\ claims["name_id"] \in {Missing, Str(a.person)}
            /\ \A n : n \notin {"name_id", "name_id_format", "issuer"} =>
                 /\ n \in DOMAIN claims <=> n \in DOMAIN attributes
                 /\ n \in DOMAIN attributes => claims[n] = attributes[n]
<1> DEFINE doc == Response(a)
           assertion == doc.assertions[1]
           claims == ExtractClaims(doc)
           attributes == AttributeClaims(People[a.person])
           given(s) == IF s = "" THEN Missing ELSE Str(s)
           nameId(field) == IF assertion.nameIds = <<>> THEN Missing
                            ELSE given(assertion.nameIds[1][field])
           own == [name_id |-> nameId("text"), name_id_format |-> nameId("format"),
                   issuer |-> given(assertion.issuers[1])]
<1>1. /\ assertion.attributes = People[a.person]
      /\ assertion.nameIds = IF provider.namesSubject
                             THEN <<[text |-> a.person, format |-> "persistent"]>> ELSE <<>>
  BY DEF Response
<1>2. claims = [n \in DOMAIN own \cup DOMAIN attributes |->
                  IF n \in DOMAIN own THEN own[n] ELSE attributes[n]]
  BY <1>1, Zenon DEF ExtractClaims
<1>3. nameId("text") \in {Missing, Str(a.person)}
  <2>1. \A s : given(s) \in {Missing, Str(s)}
    BY Zenon
  <2> HIDE DEF given
  <2>2. CASE provider.namesSubject
    <3>1. assertion.nameIds = <<[text |-> a.person, format |-> "persistent"]>>
      BY <1>1, <2>2
    <3> HIDE DEF assertion
    <3>2. assertion.nameIds[1]["text"] = a.person
      BY <3>1
    <3> QED
      BY <2>1, <3>2
  <2>3. CASE ~provider.namesSubject
    BY <1>1, <2>3
  <2> QED
    BY <2>2, <2>3
<1> HIDE DEF doc, assertion, given, nameId, attributes
<1>4. DOMAIN own = {"name_id", "name_id_format", "issuer"} /\ own["name_id"] = nameId("text")
  OBVIOUS
<1> HIDE DEF own, claims
<1> QED
  BY <1>2, <1>3, <1>4 DEF claims, doc, attributes

\* The last of some places, however it is asked for.
LEMMA LastIs ==
  ASSUME NEW n \in Nat, NEW T \in SUBSET (1 .. n), T # {}
  PROVE  Max(T) = CHOOSE i \in T : \A j \in T : j <= i
<1> DEFINE one == CHOOSE i \in T : \A j \in T : i >= j
           other == CHOOSE i \in T : \A j \in T : j <= i
<1>1. PICK m \in T : \A j \in T : j <= m
  BY LastPlace
<1>2. \E i \in T : \A j \in T : i >= j
  BY <1>1
<1>3. one \in T /\ \A j \in T : one >= j
  BY <1>2, Zenon
<1>4. other \in T /\ \A j \in T : j <= other
  BY <1>1, Zenon
<1> HIDE DEF one, other
<1>5. one = other
  BY <1>3, <1>4
<1> QED
  BY <1>5, Zenon DEF Max, one, other

LEMMA ListRead ==
  ASSUME NEW values
  PROVE  AsList(List([i \in DOMAIN values |-> Str(values[i])])) = [i \in DOMAIN values |-> values[i]]
<1> DEFINE items == [i \in DOMAIN values |-> Str(values[i])]
<1>1. /\ List(items) # Missing /\ Is("list", List(items)) /\ List(items).list = items
  BY DEF List, Missing, Is
<1>2. \A s : Text(Str(s)) = s
  BY DEF Text, Str, Is
<1>3. DOMAIN items = DOMAIN values /\ \A i \in DOMAIN values : Text(items[i]) = values[i]
  BY <1>2
<1> HIDE DEF items
<1>4. AsList(List(items)) = [i \in DOMAIN items |-> Text(items[i])]
  BY <1>1 DEF AsList
<1> QED
  BY <1>3, <1>4 DEF items

\* As a list of strings, the claim of an attribute name is what was asserted.
LEMMA AssertedIsRead ==
  ASSUME NEW person \in DOMAIN People, NEW n, n \notin NoAttribute
  PROVE  LET claims == AttributeClaims(People[person])
         IN AsList(IF n \in DOMAIN claims THEN claims[n] ELSE Missing) = Asserted(person, n)
<1> DEFINE attributes == People[person]
           claims == AttributeClaims(attributes)
           places == {i \in DOMAIN attributes : attributes[i].name = n}
           last == CHOOSE i \in places : \A j \in places : j <= i
           values == NonBlank(attributes[last].values)
<1>1. Len(attributes) \in Nat /\ DOMAIN attributes = 1 .. Len(attributes)
  BY ProviderAssumption DEF ProviderAssumption
<1>2. n \in DOMAIN claims <=> places # {}
  <2>1. DOMAIN claims = {a.name : a \in ToSet(attributes)} \ {""}
    BY Zenon DEF AttributeClaims
  <2>2. n # ""
    BY Zenon DEF NoAttribute
  <2>3. n \in DOMAIN claims <=> n \in {a.name : a \in ToSet(attributes)}
    BY <2>1, <2>2, Zenon
  <2> HIDE DEF claims
  <2> QED
    BY ONLY <2>3 DEF ToSet
<1>3. Asserted(person, n)
        = LET given == IF places = {} THEN <<>> ELSE values IN [i \in DOMAIN given |-> given[i]]
  BY Zenon DEF Asserted
<1>4. SelectLastInSeq(attributes, LAMBDA a : a.name = n)
        = IF places # {} THEN Max(places) ELSE 0
  <2>1. places = {i \in 1 .. Len(attributes) : attributes[i].name = n}
    BY <1>1
  <2> HIDE DEF places
  <2> QED
    BY <2>1, Zenon DEF SelectLastInSeq
<1>5. n \in DOMAIN claims =>
        claims[n] = LET at == SelectLastInSeq(attributes, LAMBDA a : a.name = n)
                        given == NonBlank(attributes[at].values)
                    IN List([i \in DOMAIN given |-> Str(given[i])])
  BY Zenon DEF AttributeClaims
<1>6. places # {} => Max(places) = last
  <2>1. places \in SUBSET (1 .. Len(attributes))
    BY <1>1
  <2> HIDE DEF places
  <2> QED
    BY <1>1, <2>1, LastIs
<1>7. places # {} => claims[n] = List([i \in DOMAIN values |-> Str(values[i])])
  <2> HIDE DEF claims, places, attributes
  <2> QED
    BY <1>2, <1>4, <1>5, <1>6, Zenon
<1> HIDE DEF attributes, claims, places, values
<1>8. CASE places = {}
  <2>1. AsList(Missing) = <<>>
    BY DEF AsList, Is, Missing
  <2>2. Asserted(person, n) = <<>>
    BY <1>3, <1>8
  <2> QED
    BY <1>2, <1>8, <2>1, <2>2 DEF claims, attributes
<1>9. CASE places # {}
  <2>1. AsList(claims[n]) = Asserted(person, n)
    BY <1>3, <1>7, <1>9, ListRead
  <2> QED
    BY <1>2, <1>9, <2>1 DEF claims, attributes
<1> QED
  BY <1>8, <1>9 DEF claims, attributes

\* The identity of a login that was accepted.
LEMMA IdentityOfAnswer ==
  ASSUME Typed, NEW a \in Answer, a.person # None, ~provider.encrypts,
         Normalize(ExtractClaims(Response(a)), settings.mapping) # MappingError
  PROVE  LET identity == Normalize(ExtractClaims(Response(a)), settings.mapping).fields
         IN /\ MapsNameID(settings.mapping, a.person) => identity.external_id = Str(a.person)
            /\ MapsRoles(settings.mapping) =>
                 identity.roles = List(Asserted(a.person, Parts[settings.mapping.roles][1]))
<1> DEFINE claims == ExtractClaims(Response(a))
           attributes == AttributeClaims(People[a.person])
           mapping == settings.mapping
           identity == Normalize(claims, mapping).fields
<1>1. mapping.transforms \in Seq([field : STRING, transform : STRING])
  <2>1. Deployment.settings = settings
    BY DEF Deployment
  <2> QED
    BY <2>1, ProviderAssumption DEF ProviderAssumption, Typed
<1>2. a.person \in DOMAIN People
  BY DEF Answer
<1>3. /\ "name_id" \in DOMAIN claims
      /\ claims["name_id"] \in {Missing, Str(a.person)}
      /\ \A n : n \notin {"name_id", "name_id_format", "issuer"} =>
           /\ n \in DOMAIN claims <=> n \in DOMAIN attributes
           /\ n \in DOMAIN attributes => claims[n] = attributes[n]
  BY ClaimsOfResponse
<1>4. Normalize(claims, mapping) # MappingError
  OBVIOUS
<1> HIDE DEF claims, attributes, mapping
<1>5. ASSUME MapsNameID(mapping, a.person)
      PROVE  identity.external_id = Str(a.person)
  <2> DEFINE id == OptionalStr(claims, mapping.external_id)
  <2>1. Parts[mapping.external_id] = <<"name_id">> /\ KeepsExternalId(mapping.transforms, a.person)
    BY <1>5 DEF MapsNameID
  <2>2. Extract(claims, mapping.external_id) = claims["name_id"]
    BY <1>3, <2>1, ExtractOne
  <2>3. id \in {Missing, Str(a.person)}
    <3>1. Scalar(Missing) = Missing
      BY DEF Scalar, Missing, Is
    <3>2. /\ Scalar(Str(a.person)) = Str(a.person) /\ Text(Str(a.person)) = a.person
      BY DEF Scalar, Str, Is, Text
    <3> QED
      BY <1>3, <2>2, <3>1, <3>2 DEF OptionalStr
  <2>4. id # Missing
    BY <1>4, Zenon DEF Normalize
  <2> HIDE DEF id
  <2> QED
    BY <1>1, <1>4, <2>1, <2>3, <2>4, NormalizeMeans DEF id
<1>6. ASSUME MapsRoles(mapping)
      PROVE  identity.roles = List(Asserted(a.person, Parts[mapping.roles][1]))
  <2> DEFINE n == Parts[mapping.roles][1]
  <2>1. mapping.roles # None /\ Len(Parts[mapping.roles]) = 1 /\ n \notin NoAttribute
    BY <1>6 DEF MapsRoles
  <2>2. Extract(claims, mapping.roles) = IF n \in DOMAIN claims THEN claims[n] ELSE Missing
    BY <2>1, ExtractOne
  <2> HIDE DEF n
  <2>3. n \notin {"name_id", "name_id_format", "issuer"}
    BY <2>1, Zenon DEF NoAttribute
  <2>4. AsList(Extract(claims, mapping.roles)) = Asserted(a.person, n)
    BY <1>2, <1>3, <2>1, <2>2, <2>3, AssertedIsRead DEF attributes
  <2>5. identity.roles = List(AsList(Extract(claims, mapping.roles)))
    BY <1>1, <1>4, <2>1, NormalizeMeans
  <2> QED
    BY <2>4, <2>5 DEF n
<1> QED
  BY <1>5, <1>6 DEF claims, mapping

\* Whatever tabs and clocks do, a login ends as the person that the trusted
\* provider signed in for its own request, while the assertion was valid, under
\* the NameID and with the roles of that person, for any transforms and any other
\* fields the mapping has.
THEOREM LoginIsThePerson == ASSUME NoneIsNoRecord PROVE Spec => []IdentityAsAsserted
<1>1. Typed /\ OfOwnAnswer => IdentityAsAsserted
  <2> SUFFICES ASSUME Typed, OfOwnAnswer PROVE IdentityAsAsserted
    OBVIOUS
  <2>1. ASSUME NEW l \in Logins, Identified(l)
        PROVE  LET a == posted[l]
                   identity == Identity(l).fields
               IN /\ a \in answers /\ a.request = {l} /\ a.person # None
                  /\ Issued(a) - Drift <= ended[l] /\ ended[l] < Issued(a) + Lifetime
                  /\ provider.key = IdpInfo.cert
                  /\ provider.entityId # "" => provider.entityId = IdpInfo.entityId
                  /\ settings.sp_entity_id \in provider.audiences
                  /\ MapsNameID(settings.mapping, a.person) =>
                       identity.external_id = Str(a.person)
                  /\ MapsRoles(settings.mapping) =>
                       identity.roles
                         = List(Asserted(a.person, Parts[settings.mapping.roles][1]))
    <3> DEFINE a == posted[l]
    <3>1. Completed(l) /\ Identity(l) # MappingError
      BY <2>1 DEF Identified
    <3>2. /\ a \in answers /\ a.request = {l} /\ a.person # None /\ ~provider.encrypts
          /\ Issued(a) - Drift <= ended[l] /\ ended[l] < Issued(a) + Lifetime
          /\ provider.key = IdpInfo.cert
          /\ provider.entityId # "" => provider.entityId = IdpInfo.entityId
          /\ settings.sp_entity_id \in provider.audiences
          /\ result[l] = Dict(ExtractClaims(Response(a)))
      BY <3>1, Zenon DEF OfOwnAnswer
    <3>3. a \in Answer
      BY <3>2, Zenon DEF Typed
    <3>4. Identity(l) = Normalize(ExtractClaims(Response(a)), settings.mapping)
      <4>1. \A claims : Dict(claims).dict = claims
        BY DEF Dict
      <4>2. result[l].dict = ExtractClaims(Response(a))
        BY <3>2, <4>1, Zenon
      <4> QED
        BY <4>2, Zenon DEF Identity
    <3> HIDE DEF a
    <3>5. /\ MapsNameID(settings.mapping, a.person) =>
               Identity(l).fields.external_id = Str(a.person)
          /\ MapsRoles(settings.mapping) =>
               Identity(l).fields.roles
                 = List(Asserted(a.person, Parts[settings.mapping.roles][1]))
      BY <3>1, <3>2, <3>3, <3>4, IdentityOfAnswer, Zenon
    <3> QED
      BY <3>2, <3>5, Zenon DEF a
  <2> QED
    BY <2>1, Zenon DEF IdentityAsAsserted, Issued
<1>2. Spec => []Typed
  BY AlwaysJudged, PTL
<1> QED
  BY <1>1, <1>2, AcceptedOnOwnAnswer, PTL

=============================================================================
