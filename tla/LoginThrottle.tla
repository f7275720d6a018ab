---------------------------- MODULE LoginThrottle ----------------------------
(***************************************************************************)
(* The per-username lockout of POST /login in AuthubIdp                    *)
(* (src/authub/idp/provider.py): _login_failures, its helpers, and the     *)
(* part of the handler around the call of authenticate, which runs in a    *)
(* worker thread while other logins are handled.                           *)
(*                                                                         *)
(* The code only compares the age of a window with lockout_seconds, so the *)
(* model keeps that age, up to the point where the window is over: time    *)
(* has no bound.                                                           *)
(***************************************************************************)
EXTENDS Naturals, FiniteSets

CONSTANTS
  Usernames,
  Requests,        \* concurrent requests to /login
  MaxAttempts,     \* max_login_attempts
  LockoutSeconds   \* lockout_seconds, in ticks of the clock

ASSUME ThrottleAssumption ==
  /\ IsFiniteSet(Requests)
  /\ MaxAttempts \in Nat \ {0}
  /\ LockoutSeconds \in Nat \ {0}

VARIABLES
  failures,  \* _login_failures: an entry per username that has one
  attempt    \* the username each request is authenticating, or None

vars == <<failures, attempt>>

None == {}
Entry(count, age) == [count |-> count, age |-> age]

\* A dict of entries is a function to sets of at most one entry.
TypeOK ==
  /\ DOMAIN failures = Usernames
  /\ \A u \in Usernames :
       /\ failures[u] \subseteq [count : Nat \ {0}, age : 0..LockoutSeconds]
       /\ \A d, e \in failures[u] : d = e
  /\ attempt \in [Requests -> {None} \cup {{u} : u \in Usernames}]

Init ==
  /\ failures = [u \in Usernames |-> None]
  /\ attempt = [r \in Requests |-> None]

Over(entry) == entry.age >= LockoutSeconds

-----------------------------------------------------------------------------
(* The helpers. *)

\* _is_locked_out; an entry whose window is over is dropped and does not count.
IsLockedOut(u) == \E e \in failures[u] : ~Over(e) /\ e.count >= MaxAttempts

\* Mutant: the windows that are not over are evicted.
EvictStaleLockouts_Inverted(dict) == [u \in Usernames |-> {e \in dict[u] : Over(e)}]

\* _evict_stale_lockouts, for every username.
EvictStaleLockouts(dict) == [u \in Usernames |-> {e \in dict[u] : ~Over(e)}]

\* _record_failure: the window opens with its first failure.
RecordFailure(u) ==
  LET live == {e \in failures[u] : ~Over(e)}
  IN [failures EXCEPT ![u] =
        IF live = {} THEN {Entry(1, 0)} ELSE {Entry(e.count + 1, e.age) : e \in live}]

\* Mutant: the entry is kept, its count reset to zero.
ClearFailures_Zero(u) == [failures EXCEPT ![u] = {Entry(0, e.age) : e \in @}]

ClearFailures(u) == [failures EXCEPT ![u] = None]

-----------------------------------------------------------------------------
(* The handler of POST /login. *)

\* Mutant: an attempt refused by the lockout opens its window anew.
LoginRefused_Recorded(r, u) ==
  /\ attempt[r] = None
  /\ IsLockedOut(u)
  /\ failures' = [failures EXCEPT ![u] = {Entry(e.count, 0) : e \in @}]
  /\ UNCHANGED attempt

\* Status 429.
LoginRefused(r, u) ==
  /\ attempt[r] = None
  /\ IsLockedOut(u)
  /\ failures' = EvictStaleLockouts(failures)
  /\ UNCHANGED attempt

\* Mutant: the lockout is not consulted.
LoginAdmitted_Unchecked(r, u) ==
  /\ attempt[r] = None
  /\ failures' = EvictStaleLockouts(failures)
  /\ attempt' = [attempt EXCEPT ![r] = {u}]

\* The lockout is checked here and not again when authenticate returns.
LoginAdmitted(r, u) ==
  /\ attempt[r] = None
  /\ ~IsLockedOut(u)
  /\ failures' = EvictStaleLockouts(failures)
  /\ attempt' = [attempt EXCEPT ![r] = {u}]

\* The window of an entry that becomes locked is the one of its first failure.
PasswordWrong(r, u) ==
  /\ attempt[r] = {u}
  /\ failures' = RecordFailure(u)
  /\ attempt' = [attempt EXCEPT ![r] = None]

PasswordRight(r, u) ==
  /\ attempt[r] = {u}
  /\ failures' = ClearFailures(u)
  /\ attempt' = [attempt EXCEPT ![r] = None]

\* The injected user store raises: nothing is recorded.
AuthenticateRaises(r) ==
  /\ attempt[r] # None
  /\ attempt' = [attempt EXCEPT ![r] = None]
  /\ UNCHANGED failures

OneMore(ticks) == IF ticks < LockoutSeconds THEN ticks + 1 ELSE ticks

Tick ==
  /\ failures' = [u \in Usernames |->
                    {Entry(e.count, OneMore(e.age)) : e \in failures[u]}]
  /\ UNCHANGED attempt

Login(r) ==
  \E u \in Usernames :
    \/ LoginRefused(r, u) \/ LoginAdmitted(r, u)
    \/ PasswordWrong(r, u) \/ PasswordRight(r, u)

Next ==
  \/ \E r \in Requests : Login(r) \/ AuthenticateRaises(r)
  \/ Tick

\* Only time is fair: nobody has to log in, and authenticate may hang.
Spec == Init /\ [][Next]_vars /\ WF_vars(Tick)

-----------------------------------------------------------------------------
(* Properties. *)

InFlight(u) == {r \in Requests : attempt[r] = {u}}

\* The lockout is checked before authenticate and the failure recorded after
\* it, so simultaneous logins all pass the check.  Still, the failures of one
\* window exceed the limit by less than the number of requests handled at once,
\* whatever windows open, close or are cleared meanwhile.
OvershootBounded ==
  \A u \in Usernames : \A e \in failures[u] :
    e.count + Cardinality(InFlight(u)) =< MaxAttempts - 1 + Cardinality(Requests)

\* Nothing that happens to other usernames (whose logins evict stale windows)
\* lifts a lockout: only its window being over, or a login for that very
\* username which passed the check before and turns out right.
LockoutHolds ==
  [][\A u \in Usernames :
       IsLockedOut(u) /\ ~IsLockedOut(u)' =>
         \/ \E d \in failures[u] : OneMore(d.age) = LockoutSeconds
            /\ \E e \in failures'[u] : Over(e)
         \/ InFlight(u)' # InFlight(u) /\ failures'[u] = None]_vars

\* Attempts made during a lockout do not prolong it: time alone ends it.
LockoutEnds == \A u \in Usernames : IsLockedOut(u) ~> ~IsLockedOut(u)
=============================================================================
