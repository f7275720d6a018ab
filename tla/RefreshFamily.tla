---------------------------- MODULE RefreshFamily ----------------------------
(***************************************************************************)
(* What refresh-token rotation promises, with no store, clock, client or   *)
(* request: a family of refresh tokens is a chain of single-use tokens.    *)
(* It is born empty-handed, holds at most one live token at a time, passes *)
(* from one to the next through a moment where it holds none, and once it  *)
(* is dead, of reuse, expiry or a failure, it stays dead.                  *)
(***************************************************************************)
CONSTANTS Families, Tokens

VARIABLES
  phase,  \* where each family is in its life
  spent   \* the tokens that were exchanged

vars == <<phase, spent>>

Unborn  == [at |-> "unborn"]
Pending == [at |-> "pending"]       \* a request is building the next token
Live(t) == [at |-> "live", token |-> t]
Dead    == [at |-> "dead"]

Phases == {Unborn, Pending, Dead} \cup {Live(t) : t \in Tokens}

TypeOK ==
  /\ phase \in [Families -> Phases]
  /\ spent \subseteq Tokens

Init ==
  /\ phase = [f \in Families |-> Unborn]
  /\ spent = {}

Open(f) ==
  /\ phase[f] = Unborn
  /\ phase' = [phase EXCEPT ![f] = Pending]
  /\ UNCHANGED spent

\* Only a token that was never exchanged and that no family holds.
Deliver(f, t) ==
  /\ phase[f] = Pending
  /\ t \notin spent
  /\ \A g \in Families : phase[g] # Live(t)
  /\ phase' = [phase EXCEPT ![f] = Live(t)]
  /\ UNCHANGED spent

\* The exchange of the live token, refused (Dead) or not (Pending).
Exchange(f, t) ==
  /\ phase[f] = Live(t)
  /\ \E after \in {Pending, Dead} : phase' = [phase EXCEPT ![f] = after]
  /\ spent' = spent \cup {t}

\* The clock can expire several families at once.
Kill(dying) ==
  /\ \A f \in dying : phase[f] # Unborn
  /\ phase' = [f \in Families |-> IF f \in dying THEN Dead ELSE phase[f]]
  /\ UNCHANGED spent

Next ==
  \/ \E f \in Families : Open(f)
  \/ \E f \in Families, t \in Tokens : Deliver(f, t) \/ Exchange(f, t)
  \/ \E dying \in SUBSET Families : Kill(dying)

Spec == Init /\ [][Next]_vars

-----------------------------------------------------------------------------
\* A live token was never exchanged before, and no two families share one.
SingleUse ==
  \A f \in Families, t \in Tokens :
    phase[f] = Live(t) =>
      /\ t \notin spent
      /\ \A g \in Families \ {f} : phase[g] # Live(t)

\* Death is final.
DeadStayDead == \A f \in Families : phase[f] = Dead => phase'[f] = Dead
DeadForGood == [][DeadStayDead]_vars
=============================================================================
