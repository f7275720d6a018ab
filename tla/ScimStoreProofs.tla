--------------------------- MODULE ScimStoreProofs ---------------------------
(***************************************************************************)
(* What the SCIM store does for the userNames of a tenant, for all tenants, *)
(* names, patches and bounds, and for any number of users.                 *)
(*                                                                         *)
(* A name that create or replace writes was free in its tenant; one that   *)
(* PATCH writes may not have been, and renamed remembers its user.  That   *)
(* this memory is about the right users rests on KeysDrawn: no two users   *)
(* ever have one key, so that what replace and delete take out of renamed  *)
(* is the mark of the user they write, and of no other.                    *)
(***************************************************************************)
EXTENDS ScimStore, FiniteSetTheorems, SequenceTheorems, TLAPS

-----------------------------------------------------------------------------
(* Induction.  The induction theorems of the library take an operator; the  *)
(* least number of a set does as well.                                      *)

LEMMA LeastNumber ==
  ASSUME NEW T \in SUBSET Nat, T # {}
  PROVE  \E x \in T : \A y \in T : x <= y
<1> DEFINE R == {ss \in Nat \X Nat : ss[1] < ss[2]}
<1>1. IsWellFoundedOn(OpToRel(<, Nat), Nat)
  BY NatLessThanWellFounded
<1>2. IsWellFoundedOn(R, Nat)
  BY <1>1 DEF OpToRel
<1> HIDE DEF R
<1>3. \E x \in T : \A y \in T : <<y, x>> \notin R
  BY <1>2, WFMin
<1>4. PICK x \in T : \A y \in T : <<y, x>> \notin R
  BY <1>3
<1>5. ASSUME NEW y \in T PROVE x <= y
  <2>1. x \in Nat /\ y \in Nat /\ <<y, x>> \notin R
    BY <1>4
  <2>2. ~(y < x)
    BY <2>1 DEF R
  <2> QED
    BY <2>1, <2>2
<1> QED
  BY <1>5

\* Up to n, what holds at 0 and goes from each number to the next.
LEMMA UpTo ==
  ASSUME NEW n \in Nat, NEW T, 0 \in T,
         \A k \in Nat : k < n /\ k \in T => k + 1 \in T
  PROVE  \A k \in 0 .. n : k \in T
<1> DEFINE U == {k \in 0 .. n : k \notin T}
<1>1. SUFFICES ASSUME U # {} PROVE FALSE
  OBVIOUS
<1>2. PICK x \in U : \A y \in U : x <= y
  <2>1. U \in SUBSET Nat
    OBVIOUS
  <2> HIDE DEF U
  <2> QED
    BY <1>1, <2>1, LeastNumber
<1>3. x \in Nat /\ x # 0 /\ x - 1 \in Nat /\ x - 1 < n /\ x - 1 \in 0 .. n
  BY <1>2
<1>4. x - 1 \notin U
  BY <1>2, <1>3
<1>5. (x - 1) + 1 \in T
  BY <1>3, <1>4
<1> QED
  BY <1>2, <1>3, <1>5

-----------------------------------------------------------------------------
(* List comprehensions. *)

Rank(P, i) == Cardinality({j \in P : j <= i})

Place(P, n) == CHOOSE i \in P : Cardinality({j \in P : j <= i}) = n

LEMMA FiniteBelow ==
  ASSUME NEW P, IsFiniteSet(P), NEW i
  PROVE  /\ IsFiniteSet({j \in P : j <= i})
         /\ Rank(P, i) \in Nat
         /\ Cardinality(P) \in Nat
         /\ Rank(P, i) <= Cardinality(P)
<1> DEFINE B == {j \in P : j <= i}
<1>1. B \in SUBSET P
  OBVIOUS
<1> HIDE DEF B
<1>2. IsFiniteSet(B) /\ Cardinality(B) <= Cardinality(P)
  BY <1>1, FS_Subset
<1>3. Cardinality(B) \in Nat /\ Cardinality(P) \in Nat
  BY <1>2, FS_CardinalityType
<1> QED
  BY <1>2, <1>3 DEF Rank, B

\* A rank tells how many places come before.
LEMMA RankGrows ==
  ASSUME NEW P \in SUBSET Nat, IsFiniteSet(P), NEW i \in P, NEW j \in P
  PROVE  /\ i < j <=> Rank(P, i) < Rank(P, j)
         /\ i = j <=> Rank(P, i) = Rank(P, j)
         /\ Rank(P, i) >= 1
<1>1. ASSUME NEW k \in P, NEW l \in P, k < l
      PROVE  Rank(P, k) < Rank(P, l)
  <2> DEFINE B == {m \in P : m <= k}
             C == {m \in P : m <= l}
  <2>1. B \in SUBSET C /\ l \in C /\ l \notin B
    <3>1. k \in Nat /\ l \in Nat /\ \A m \in P : m \in Nat
      OBVIOUS
    <3>2. \A m \in P : m <= k => m <= l
      BY <1>1, <3>1
    <3>3. ~(l <= k) /\ l <= l
      BY <1>1, <3>1
    <3> QED
      BY <3>2, <3>3
  <2>2. IsFiniteSet(B) /\ IsFiniteSet(C) /\ Rank(P, k) = Cardinality(B)
        /\ Rank(P, l) = Cardinality(C)
    BY FiniteBelow DEF Rank
  <2>3. Cardinality(B) \in Nat /\ Cardinality(C) \in Nat
    BY <2>2, FS_CardinalityType
  <2> HIDE DEF B, C
  <2>4. Cardinality(B) <= Cardinality(C) /\ Cardinality(B) # Cardinality(C)
    BY <2>1, <2>2, FS_Subset
  <2> QED
    BY <2>2, <2>3, <2>4
<1>2. Rank(P, i) \in Nat /\ Rank(P, j) \in Nat
  BY FiniteBelow
<1>3. Rank(P, i) # 0
  <2> DEFINE B == {m \in P : m <= i}
  <2>1. IsFiniteSet(B) /\ i \in B /\ Rank(P, i) = Cardinality(B)
    BY FiniteBelow DEF Rank
  <2> HIDE DEF B
  <2> QED
    BY <2>1, FS_EmptySet
<1> QED
  BY <1>1, <1>2, <1>3

\* Every rank is taken.
LEMMA RankOnto ==
  ASSUME NEW P \in SUBSET Nat, IsFiniteSet(P), NEW n \in 1 .. Cardinality(P)
  PROVE  \E i \in P : Rank(P, i) = n
<1> DEFINE N == Cardinality(P)
           f == [i \in P |-> Rank(P, i)]
<1>1. N \in Nat
  BY FS_CardinalityType
<1>2. ASSUME NEW i \in P PROVE Rank(P, i) \in 1 .. N
  <2>1. Rank(P, i) \in Nat /\ Rank(P, i) <= N /\ Rank(P, i) >= 1
    BY FiniteBelow, RankGrows
  <2> QED
    BY <1>1, <2>1
<1>3. IsFiniteSet(1 .. N) /\ Cardinality(1 .. N) = N
  <2>1. 1 \in Int /\ N \in Int /\ (IF 1 > N THEN 0 ELSE N - 1 + 1) = N
    BY <1>1
  <2> HIDE DEF N
  <2> QED
    BY <2>1, FS_Interval
<1>4. f \in [P -> 1 .. N]
  BY <1>2
<1>5. \A i, j \in P : f[i] = f[j] => i = j
  BY RankGrows
<1>6. f \in Injection(P, 1 .. N)
  BY <1>4, <1>5 DEF Injection, IsInjective
<1>7. f \in Surjection(P, 1 .. N)
  <2> HIDE DEF f
  <2>1. Cardinality(P) = Cardinality(1 .. N)
    BY <1>3
  <2> QED
    BY <1>3, <1>6, <2>1, FS_Injection
<1> QED
  BY <1>7 DEF Surjection

LEMMA PlaceProperties ==
  ASSUME NEW P \in SUBSET Nat, IsFiniteSet(P)
  PROVE  /\ \A n \in 1 .. Cardinality(P) : Place(P, n) \in P /\ Rank(P, Place(P, n)) = n
         /\ \A i \in P : /\ Rank(P, i) \in 1 .. Cardinality(P)
                         /\ Place(P, Rank(P, i)) = i
<1>1. ASSUME NEW n \in 1 .. Cardinality(P)
      PROVE  Place(P, n) \in P /\ Rank(P, Place(P, n)) = n
  <2>1. \E i \in P : Cardinality({j \in P : j <= i}) = n
    BY RankOnto DEF Rank
  <2> QED
    BY <2>1 DEF Place, Rank
<1>2. ASSUME NEW i \in P
      PROVE  Rank(P, i) \in 1 .. Cardinality(P) /\ Place(P, Rank(P, i)) = i
  <2>1. Rank(P, i) \in 1 .. Cardinality(P)
    <3>1. /\ Rank(P, i) \in Nat /\ Rank(P, i) <= Cardinality(P) /\ Rank(P, i) >= 1
          /\ Cardinality(P) \in Nat
      BY FiniteBelow, RankGrows
    <3> QED
      BY <3>1
  <2>2. Place(P, Rank(P, i)) \in P /\ Rank(P, Place(P, Rank(P, i))) = Rank(P, i)
    BY <1>1, <2>1
  <2> QED
    BY <2>1, <2>2, RankGrows
<1> QED
  BY <1>1, <1>2

\* What is selected is what is at the places, in their order.
LEMMA SelectedProperties ==
  ASSUME NEW S, NEW s \in Seq(S), NEW P \in SUBSET (DOMAIN s)
  PROVE  /\ P \in SUBSET Nat /\ IsFiniteSet(P) /\ Cardinality(P) \in Nat
         /\ Selected(s, P) \in Seq(S)
         /\ DOMAIN Selected(s, P) = 1 .. Cardinality(P)
         /\ Len(Selected(s, P)) = Cardinality(P)
         /\ \A n \in 1 .. Cardinality(P) :
              Place(P, n) \in P /\ Selected(s, P)[n] = s[Place(P, n)]
<1>1. DOMAIN s = 1 .. Len(s) /\ Len(s) \in Nat /\ \A i \in 1 .. Len(s) : s[i] \in S
  BY LenProperties, ElementOfSeq
<1>2. IsFiniteSet(P) /\ P \in SUBSET Nat
  <2>1. 1 \in Int /\ Len(s) \in Int
    BY <1>1
  <2>2. IsFiniteSet(1 .. Len(s))
    BY <2>1, FS_Interval
  <2> QED
    BY <1>1, <2>2, FS_Subset
<1>3. Cardinality(P) \in Nat
  BY <1>2, FS_CardinalityType
<1> DEFINE N == Cardinality(P)
<1>4. Selected(s, P) = [n \in 1 .. N |-> s[Place(P, n)]]
  BY DEF Selected, Place
<1>5. \A n \in 1 .. N : Place(P, n) \in P /\ s[Place(P, n)] \in S
  BY <1>1, <1>2, PlaceProperties
<1> HIDE DEF N
<1> DEFINE q == [n \in 1 .. N |-> s[Place(P, n)]]
<1>6. q \in [1 .. N -> S] /\ N \in Nat
  BY <1>3, <1>5 DEF N
<1> HIDE DEF q
<1>7. q \in Seq(S) /\ Len(q) = N /\ DOMAIN q = 1 .. N
  <2>1. q \in Seq(S)
    BY <1>6
  <2>2. DOMAIN q = 1 .. N
    BY <1>6
  <2> QED
    BY <1>6, <2>1, <2>2, LenProperties
<1>8. \A n \in 1 .. N : q[n] = s[Place(P, n)]
  BY DEF q
<1>9. Selected(s, P) = q
  BY <1>4 DEF q
<1> QED
  BY <1>2, <1>3, <1>5, <1>7, <1>8, <1>9 DEF N

\* A place has as many before it wherever the places are, in the same order.
LEMMA RankMoved ==
  ASSUME NEW P \in SUBSET Nat, IsFiniteSet(P), NEW Q \in SUBSET Nat, IsFiniteSet(Q),
         NEW h \in [P -> Q],
         \A i, j \in P : i < j => h[i] < h[j],
         \A k \in Q : \E i \in P : h[i] = k
  PROVE  /\ Cardinality(Q) = Cardinality(P)
         /\ \A i \in P : Rank(Q, h[i]) = Rank(P, i)
<1>1. \A i, j \in P : i \in Nat /\ j \in Nat /\ h[i] \in Nat /\ h[j] \in Nat
  OBVIOUS
<1>2. \A i, j \in P : h[i] = h[j] => i = j
  BY <1>1
<1>3. \A i, j \in P : h[i] <= h[j] <=> i <= j
  BY <1>1, <1>2
<1>4. h \in Bijection(P, Q)
  BY <1>2 DEF Bijection, Injection, Surjection, IsInjective
<1>5. Cardinality(Q) = Cardinality(P)
  BY <1>4, FS_Bijection DEF ExistsBijection
<1>6. ASSUME NEW i \in P PROVE Rank(Q, h[i]) = Rank(P, i)
  <2> DEFINE B == {j \in P : j <= i}
             C == {k \in Q : k <= h[i]}
             g == [j \in B |-> h[j]]
  <2>1. IsFiniteSet(B)
    BY FiniteBelow
  <2>2. g \in [B -> C]
    BY <1>3
  <2>3. \A j, k \in B : g[j] = g[k] => j = k
    BY <1>2
  <2>4. \A k \in C : \E j \in B : g[j] = k
    <3> SUFFICES ASSUME NEW k \in C PROVE \E j \in B : g[j] = k
      OBVIOUS
    <3>1. PICK j \in P : h[j] = k
      OBVIOUS
    <3>2. j \in B
      BY <1>3, <3>1
    <3> QED
      BY <3>1, <3>2
  <2>5. g \in Bijection(B, C)
    <3> HIDE DEF B, C, g
    <3> QED
      BY <2>2, <2>3, <2>4 DEF Bijection, Injection, Surjection, IsInjective
  <2>6. Rank(Q, h[i]) = Cardinality(C) /\ Rank(P, i) = Cardinality(B)
    BY DEF Rank
  <2> HIDE DEF B, C, g
  <2> QED
    BY <2>1, <2>5, <2>6, FS_Bijection DEF ExistsBijection
<1> QED
  BY <1>5, <1>6

\* What is selected does not depend on where it is, but for the order.
LEMMA SelectedMoved ==
  ASSUME NEW S, NEW s \in Seq(S), NEW P \in SUBSET (DOMAIN s),
         NEW t \in Seq(S), NEW Q \in SUBSET (DOMAIN t),
         NEW h \in [P -> Q],
         \A i, j \in P : i < j => h[i] < h[j],
         \A k \in Q : \E i \in P : h[i] = k,
         \A i \in P : t[h[i]] = s[i]
  PROVE  Selected(t, Q) = Selected(s, P)
<1>1. /\ P \in SUBSET Nat /\ IsFiniteSet(P) /\ Selected(s, P) \in Seq(S)
      /\ Len(Selected(s, P)) = Cardinality(P)
      /\ \A n \in 1 .. Cardinality(P) :
           Place(P, n) \in P /\ Selected(s, P)[n] = s[Place(P, n)]
  BY SelectedProperties
<1>2. /\ Q \in SUBSET Nat /\ IsFiniteSet(Q) /\ Selected(t, Q) \in Seq(S)
      /\ Len(Selected(t, Q)) = Cardinality(Q)
      /\ \A n \in 1 .. Cardinality(Q) :
           Place(Q, n) \in Q /\ Selected(t, Q)[n] = t[Place(Q, n)]
  BY SelectedProperties
<1>3. Cardinality(Q) = Cardinality(P) /\ \A i \in P : Rank(Q, h[i]) = Rank(P, i)
  BY <1>1, <1>2, RankMoved
<1>4. ASSUME NEW n \in 1 .. Cardinality(P)
      PROVE  Selected(t, Q)[n] = Selected(s, P)[n]
  <2>1. Place(P, n) \in P /\ Rank(P, Place(P, n)) = n
    BY <1>1, PlaceProperties
  <2>2. h[Place(P, n)] \in Q /\ Rank(Q, h[Place(P, n)]) = n
    BY <1>3, <2>1
  <2>3. Place(Q, n) = h[Place(P, n)]
    BY <1>2, <2>2, PlaceProperties
  <2> QED
    BY <1>1, <1>2, <1>3, <2>1, <2>3
<1> QED
  BY <1>1, <1>2, <1>3, <1>4, SeqEqual

-----------------------------------------------------------------------------
(* The dicts. *)

\* del of a dict entry: what stays keeps its order, and the entry is gone.
LEMMA RemoveAtProperties ==
  ASSUME NEW S, NEW s \in Seq(S), NEW i \in DOMAIN s
  PROVE  /\ RemoveAt(s, i) \in Seq(S)
         /\ DOMAIN RemoveAt(s, i) = 1 .. (Len(s) - 1)
         /\ \A j \in 1 .. (Len(s) - 1) :
              RemoveAt(s, i)[j] = IF j < i THEN s[j] ELSE s[j + 1]
<1>1. Len(s) \in Nat /\ DOMAIN s = 1 .. Len(s) /\ \A j \in 1 .. Len(s) : s[j] \in S
  BY LenProperties, ElementOfSeq
<1>2. i \in 1 .. Len(s) /\ i - 1 \in Int /\ i + 1 \in Int /\ Len(s) \in Int
  BY <1>1
<1> DEFINE front == SubSeq(s, 1, i - 1)
           back == SubSeq(s, i + 1, Len(s))
<1>3. /\ front \in Seq(S)
      /\ Len(front) = i - 1
      /\ \A j \in 1 .. i - 1 : front[j] = s[j]
  <2>1. \A j \in 1 .. i - 1 : s[j] \in S
    BY <1>1, <1>2
  <2>2. /\ front \in Seq(S)
        /\ Len(front) = IF 1 <= i - 1 THEN (i - 1) - 1 + 1 ELSE 0
        /\ \A j \in 1 .. (i - 1) - 1 + 1 : front[j] = s[1 + j - 1]
    BY <1>2, <2>1, SubSeqProperties, SMT
  <2> HIDE DEF front
  <2> QED
    BY <1>2, <2>2
<1>4. /\ back \in Seq(S)
      /\ Len(back) = Len(s) - i
      /\ \A j \in 1 .. Len(s) - i : back[j] = s[i + j]
  <2>1. \A j \in i + 1 .. Len(s) : s[j] \in S
    BY <1>1, <1>2
  <2>2. /\ back \in Seq(S)
        /\ Len(back) = IF i + 1 <= Len(s) THEN Len(s) - (i + 1) + 1 ELSE 0
        /\ \A j \in 1 .. Len(s) - (i + 1) + 1 : back[j] = s[(i + 1) + j - 1]
    BY <1>2, <2>1, SubSeqProperties, SMT
  <2> HIDE DEF back
  <2>3. Len(back) = Len(s) - i
    BY <1>2, <2>2
  <2>4. ASSUME NEW j \in 1 .. Len(s) - i PROVE back[j] = s[i + j]
    <3>1. i \in Int /\ Len(s) \in Int /\ j \in Int /\ 1 <= j /\ j <= Len(s) - i
      BY <1>2, <2>4
    <3>2. j \in 1 .. Len(s) - (i + 1) + 1 /\ (i + 1) + j - 1 = i + j
      BY <3>1
    <3> QED
      BY <2>2, <3>2
  <2> QED
    BY <2>2, <2>3, <2>4
<1>5. RemoveAt(s, i) = front \o back
  BY DEF RemoveAt
<1> HIDE DEF front, back
<1>6. /\ front \o back \in Seq(S)
      /\ Len(front \o back) = Len(front) + Len(back)
      /\ \A j \in 1 .. Len(front) + Len(back) :
           (front \o back)[j] = IF j <= Len(front) THEN front[j] ELSE back[j - Len(front)]
  BY <1>3, <1>4, ConcatProperties
<1> DEFINE whole == front \o back
<1>7. whole \in Seq(S) /\ Len(whole) = Len(s) - 1 /\ DOMAIN whole = 1 .. (Len(s) - 1)
  <2>1. Len(whole) = Len(s) - 1
    BY <1>1, <1>2, <1>3, <1>4, <1>6
  <2> QED
    BY <1>6, <2>1, LenProperties
<1>8. ASSUME NEW j \in 1 .. (Len(s) - 1)
      PROVE  whole[j] = IF j < i THEN s[j] ELSE s[j + 1]
  <2>1. whole[j] = IF j <= i - 1 THEN front[j] ELSE back[j - (i - 1)]
    <3>1. j \in 1 .. Len(front) + Len(back)
      BY <1>1, <1>2, <1>3, <1>4
    <3>2. whole[j] = IF j <= Len(front) THEN front[j] ELSE back[j - Len(front)]
      BY <1>6, <3>1, Zenon
    <3> QED
      BY <1>3, <3>2
  <2> HIDE DEF whole
  <2>2. CASE j < i
    BY <1>2, <1>3, <2>1, <2>2
  <2>3. CASE ~(j < i)
    <3>1. j - (i - 1) \in 1 .. Len(s) - i /\ i + (j - (i - 1)) = j + 1
      BY <1>1, <1>2, <2>3
    <3>2. back[j - (i - 1)] = s[j + 1]
      BY <1>4, <3>1
    <3>3. ~(j <= i - 1)
      BY <1>2, <2>3
    <3> QED
      BY <2>1, <2>3, <3>2, <3>3
  <2> QED
    BY <2>2, <2>3
<1> HIDE DEF whole
<1>9. RemoveAt(s, i) = whole
  BY <1>5 DEF whole
<1> QED
  BY <1>7, <1>8, <1>9

\* Assignment to a key that is in the dict.
LEMMA StoredProperties ==
  ASSUME NEW S, NEW s \in Seq(S), NEW i \in DOMAIN s, NEW e \in S
  PROVE  /\ Stored(s, i, e) \in Seq(S)
         /\ DOMAIN Stored(s, i, e) = DOMAIN s
         /\ \A j \in DOMAIN s : Stored(s, i, e)[j] = IF j = i THEN e ELSE s[j]
<1>1. DOMAIN s = 1 .. Len(s)
  BY LenProperties
<1>2. Stored(s, i, e) = [s EXCEPT ![i] = e]
  BY DEF Stored
<1>3. Stored(s, i, e) \in Seq(S) /\ \A j \in DOMAIN s : Stored(s, i, e)[j] = IF j = i THEN e ELSE s[j]
  BY <1>1, <1>2, ExceptSeq
<1> QED
  BY <1>2, <1>3

\* Assignment to a new key.
LEMMA AppendedProperties ==
  ASSUME NEW S, NEW s \in Seq(S), NEW e \in S
  PROVE  /\ Append(s, e) \in Seq(S)
         /\ DOMAIN s = 1 .. Len(s) /\ Len(s) \in Nat
         /\ DOMAIN Append(s, e) = 1 .. (Len(s) + 1)
         /\ \A j \in DOMAIN s : Append(s, e)[j] = s[j]
         /\ Append(s, e)[Len(s) + 1] = e
<1>1. DOMAIN s = 1 .. Len(s) /\ Len(s) \in Nat
  BY LenProperties
<1>2. /\ Append(s, e) \in Seq(S)
      /\ Len(Append(s, e)) = Len(s) + 1
      /\ \A j \in 1 .. Len(s) : Append(s, e)[j] = s[j]
      /\ Append(s, e)[Len(s) + 1] = e
  BY AppendProperties
<1>3. DOMAIN Append(s, e) = 1 .. (Len(s) + 1)
  BY <1>2, LenProperties
<1> QED
  BY <1>1, <1>2, <1>3

-----------------------------------------------------------------------------
(* PATCH of a group. *)

Ops == Seq(MemberOp \cup NameOp \cup InvalidOp)

\* What a condition of a comprehension leaves of members is members.
LEMMA WithoutProperties ==
  ASSUME NEW members \in Seq(Members), NEW removed
  PROVE  LET P == {i \in DOMAIN members : members[i] \notin removed}
         IN  /\ P \in SUBSET (DOMAIN members)
             /\ Without(members, removed) = Selected(members, P)
             /\ Without(members, removed) \in Seq(Members)
BY SelectedProperties DEF Without

\* An operation on a group of a tenant makes it a group of that tenant again.
LEMMA ApplyTyped ==
  ASSUME NEW group \in Group, NEW o \in MemberOp \cup NameOp \cup InvalidOp
  PROVE  /\ Apply(group, o) \in Group
         /\ Apply(group, o).tenant = group.tenant
         /\ Apply(group, o).key = group.key
<1>1. /\ group.members \in Seq(Members) /\ group.name \in Names
      /\ group.tenant \in Tenants /\ group.key \in Nat
  BY DEF Group
<1>2. ASSUME NEW members \in Seq(Members)
      PROVE  LET g == [group EXCEPT !.members = members]
             IN  g \in Group /\ g.tenant = group.tenant /\ g.key = group.key
  BY DEF Group
<1>3. CASE o \in MemberOp
  <2>1. o.op \in {"add", "remove", "replace"} /\ o.members \in Seq(Members)
    BY <1>3 DEF MemberOp
  <2>2. CASE o.op = "add"
    <3>1. AddMembers(group.members, o.members) \in Seq(Members)
      BY <1>1, <2>1, WithoutProperties, ConcatProperties DEF AddMembers
    <3>2. Apply(group, o) = [group EXCEPT !.members = AddMembers(group.members, o.members)]
      BY <2>2 DEF Apply
    <3> QED
      BY <1>2, <3>1, <3>2
  <2>3. CASE o.op = "remove"
    <3>1. RemoveMembers(group.members, ToSet(o.members)) \in Seq(Members)
      BY <1>1, WithoutProperties DEF RemoveMembers
    <3>2. Apply(group, o)
            = [group EXCEPT !.members = RemoveMembers(group.members, ToSet(o.members))]
      BY <2>3 DEF Apply
    <3> QED
      BY <1>2, <3>1, <3>2
  <2>4. CASE o.op = "replace"
    <3>1. Apply(group, o) = [group EXCEPT !.members = o.members]
      BY <2>4 DEF Apply
    <3> QED
      BY <1>2, <2>1, <3>1
  <2> QED
    BY <2>1, <2>2, <2>3, <2>4
<1>4. CASE o \in NameOp
  <2>1. o.op = "displayName" /\ o.name \in Names
    BY <1>4 DEF NameOp
  <2>2. Apply(group, o) = [group EXCEPT !.name = o.name]
    BY <2>1 DEF Apply
  <2> QED
    BY <2>1, <2>2 DEF Group
<1>5. CASE o \in InvalidOp
  <2>1. o.op = "members[?]"
    BY <1>5 DEF InvalidOp
  <2>2. Apply(group, o) = group
    BY <2>1 DEF Apply
  <2> QED
    BY <2>2
<1> QED
  BY <1>3, <1>4, <1>5

\* The operations that a group has been through: f is the group after each.
Through(group, ops, f) ==
  /\ f[0] = group
  /\ \A n \in 0 .. Len(ops) - 1 : f[n + 1] = Apply(f[n], ops[n + 1])

\* A PATCH is its operations, applied one after the other.
LEMMA AppliedInTurn ==
  ASSUME NEW group, NEW ops, Len(ops) \in Nat
  PROVE  \E f : Through(group, ops, f) /\ PatchedGroup(group, ops) = f[Len(ops)]
<1> DEFINE L == Len(ops)
           After(f, n) == f = [k \in 0 .. n |-> IF k = 0 THEN group
                                                ELSE Apply(f[k - 1], ops[k])]
           T == {n \in Nat : \E f : After(f, n)}
<1>1. 0 \in T
  <2> DEFINE f == [k \in 0 .. 0 |-> group]
  <2>1. f = [k \in 0 .. 0 |-> IF k = 0 THEN group ELSE Apply(f[k - 1], ops[k])]
    OBVIOUS
  <2> HIDE DEF f
  <2> QED
    BY <2>1
<1>2. ASSUME NEW n \in Nat, n < L, n \in T
      PROVE  n + 1 \in T
  <2>1. PICK f : After(f, n)
    BY <1>2
  <2> DEFINE g == [k \in 0 .. n + 1 |-> IF k = n + 1 THEN Apply(f[n], ops[n + 1]) ELSE f[k]]
  <2>2. ASSUME NEW k \in 0 .. n + 1
        PROVE  g[k] = IF k = 0 THEN group ELSE Apply(g[k - 1], ops[k])
    <3>1. CASE k = n + 1
      <4>1. k # 0 /\ k - 1 = n /\ n \in 0 .. n + 1 /\ n # n + 1
        BY <3>1
      <4>2. g[n] = f[n]
        BY <4>1
      <4>3. g[k] = Apply(f[n], ops[n + 1])
        BY <3>1
      <4> QED
        BY <3>1, <4>1, <4>2, <4>3
    <3>2. CASE k # n + 1
      <4>1. k \in 0 .. n /\ g[k] = f[k]
        BY <3>2
      <4>2. f[k] = IF k = 0 THEN group ELSE Apply(f[k - 1], ops[k])
        BY <2>1, <4>1
      <4>3. CASE k = 0
        BY <4>1, <4>2, <4>3
      <4>4. CASE k # 0
        <5>1. k - 1 \in 0 .. n + 1 /\ k - 1 # n + 1
          BY <4>1, <4>4
        <5>2. g[k - 1] = f[k - 1]
          BY <5>1
        <5> QED
          BY <4>1, <4>2, <4>4, <5>2
      <4> QED
        BY <4>3, <4>4
    <3> QED
      BY <3>1, <3>2
  <2>3. g = [k \in 0 .. n + 1 |-> g[k]]
    OBVIOUS
  <2> HIDE DEF g
  <2>4. After(g, n + 1)
    BY <2>2, <2>3
  <2> QED
    BY <2>4
<1>3. L \in T
  <2> HIDE DEF T
  <2>1. L \in 0 .. L
    OBVIOUS
  <2> QED
    BY <1>1, <1>2, <2>1, UpTo
<1> DEFINE f == CHOOSE f : After(f, L)
<1>4. After(f, L)
  BY <1>3
<1>5. PatchedGroup(group, ops) = f[L]
  BY DEF PatchedGroup
<1> HIDE DEF f
<1>6. f[0] = group
  BY <1>4
<1>7. ASSUME NEW n \in 0 .. L - 1
      PROVE  f[n + 1] = Apply(f[n], ops[n + 1])
  <2>1. n + 1 \in 0 .. L /\ n + 1 # 0 /\ (n + 1) - 1 = n
    OBVIOUS
  <2>2. f[n + 1] = Apply(f[(n + 1) - 1], ops[n + 1])
    BY <1>4, <2>1
  <2> QED
    BY <2>1, <2>2
<1>8. Through(group, ops, f)
  BY <1>6, <1>7 DEF Through
<1> QED
  BY <1>5, <1>8

-----------------------------------------------------------------------------
(* PATCH of a user. *)

\* What PATCH stores as userName is one.
LEMMA PatchedNameIsOne ==
  ASSUME NEW user, user.name \in Names, NEW names \in UserPatches,
         ValidName(PatchedName(user, names))
  PROVE  PatchedName(user, names) \in Names
<1>1. CASE names = <<>>
  BY <1>1 DEF PatchedName
<1>2. CASE names # <<>>
  <2>1. names \in Seq(Names \cup {NoName})
    BY ScimAssumption
  <2>2. Len(names) \in 1 .. Len(names)
    BY <1>2, <2>1, EmptySeq, LenProperties
  <2>3. Last(names) \in Names \cup {NoName}
    BY <2>1, <2>2, ElementOfSeq DEF Last
  <2>4. PatchedName(user, names) = Last(names)
    BY <1>2 DEF PatchedName
  <2> QED
    BY <2>3, <2>4 DEF ValidName
<1> QED
  BY <1>1, <1>2

\* Whatever a PATCH has done so far, a group is a group of its tenant.
LEMMA TypedThrough ==
  ASSUME NEW group \in Group, NEW ops \in Ops, NEW f, Through(group, ops, f)
  PROVE  /\ Len(ops) \in Nat
         /\ \A n \in 0 .. Len(ops) - 1 : ops[n + 1] \in MemberOp \cup NameOp \cup InvalidOp
         /\ \A n \in 0 .. Len(ops) :
              f[n] \in Group /\ f[n].tenant = group.tenant /\ f[n].key = group.key
<1>1. /\ Len(ops) \in Nat
      /\ \A n \in 1 .. Len(ops) : ops[n] \in MemberOp \cup NameOp \cup InvalidOp
  BY LenProperties, ElementOfSeq DEF Ops
<1>2. /\ f[0] = group
      /\ \A n \in 0 .. Len(ops) - 1 : f[n + 1] = Apply(f[n], ops[n + 1])
  BY DEF Through
<1> DEFINE T == {n \in Nat : f[n] \in Group /\ f[n].tenant = group.tenant
                             /\ f[n].key = group.key}
<1>3. 0 \in T
  BY <1>2
<1>4. ASSUME NEW n \in Nat, n < Len(ops), n \in T
      PROVE  n + 1 \in T
  <2>1. n \in 0 .. Len(ops) - 1 /\ n + 1 \in 1 .. Len(ops)
    BY <1>1, <1>4
  <2>2. f[n + 1] = Apply(f[n], ops[n + 1])
    BY <1>2, <2>1
  <2>3. ops[n + 1] \in MemberOp \cup NameOp \cup InvalidOp
    BY <1>1, <2>1
  <2>4. /\ Apply(f[n], ops[n + 1]) \in Group
        /\ Apply(f[n], ops[n + 1]).tenant = f[n].tenant
        /\ Apply(f[n], ops[n + 1]).key = f[n].key
    BY <1>4, <2>3, ApplyTyped
  <2> QED
    BY <1>4, <2>2, <2>4
<1>5. \A n \in 0 .. Len(ops) : n \in T
  <2> HIDE DEF T
  <2> QED
    BY <1>1, <1>3, <1>4, UpTo
<1>6. \A n \in 0 .. Len(ops) - 1 : n + 1 \in 1 .. Len(ops)
  BY <1>1
<1> QED
  BY <1>1, <1>5, <1>6

\* So it is in the end.
LEMMA PatchedTyped ==
  ASSUME NEW group \in Group, NEW ops \in Ops
  PROVE  /\ PatchedGroup(group, ops) \in Group
         /\ PatchedGroup(group, ops).tenant = group.tenant
         /\ PatchedGroup(group, ops).key = group.key
<1>1. Len(ops) \in Nat
  BY LenProperties DEF Ops
<1>2. PICK f : Through(group, ops, f) /\ PatchedGroup(group, ops) = f[Len(ops)]
  BY <1>1, AppliedInTurn
<1>3. Len(ops) \in 0 .. Len(ops)
  BY <1>1
<1> QED
  BY <1>2, <1>3, TypedThrough

-----------------------------------------------------------------------------
(* What a step does to the dicts. *)

Kinds == {"users", "groups"}
Resource(kind) == IF kind = "users" THEN User ELSE Group

DictAfter(kind) == IF kind = "users" THEN users' ELSE groups'

DictsTyped ==
  /\ \A kind \in Kinds : Dict(kind) \in Seq(Resource(kind))
  /\ drawn \in [Kinds -> Nat]

OthersStay(kind) == \A k \in Kinds \ {kind} : DictAfter(k) = Dict(k)

\* A resource is added under the next key.
Adds(kind, r) ==
  /\ r.key = drawn[kind] + 1
  /\ drawn' = [drawn EXCEPT ![kind] = r.key]
  /\ DictAfter(kind) = Append(Dict(kind), r)
  /\ accepted' = r.tenant /\ walk' = walk
  /\ OthersStay(kind)

\* The resource at i is set to r, under its own key.
Puts(kind, i, r) ==
  /\ r.tenant = Dict(kind)[i].tenant /\ r.key = Dict(kind)[i].key
  /\ drawn' = drawn
  /\ DictAfter(kind) = Stored(Dict(kind), i, r)
  /\ accepted' = r.tenant /\ walk' = walk
  /\ OthersStay(kind)

\* The resource at i is deleted, and a client that lists is promised less.
Drops(kind, i) ==
  /\ drawn' = drawn
  /\ DictAfter(kind) = RemoveAt(Dict(kind), i)
  /\ accepted' = Dict(kind)[i].tenant
  /\ walk' = AfterDelete(kind, Dict(kind)[i].tenant, Dict(kind)[i].key)
  /\ OthersStay(kind)

\* The dicts stay as they are: a request is refused, or a client lists.
Rests ==
  /\ \A kind \in Kinds : DictAfter(kind) = Dict(kind)
  /\ drawn' = drawn
  /\ \/ accepted' = Refused /\ walk' = walk
     \/ accepted' = accepted /\ (Lists \/ walk' = walk)

\* Every resource in a dict is a resource.
LEMMA DictFields ==
  ASSUME DictsTyped, NEW kind \in Kinds, NEW i \in DOMAIN Dict(kind)
  PROVE  /\ Dict(kind)[i] \in Resource(kind)
         /\ Dict(kind)[i].tenant \in Tenants /\ Dict(kind)[i].key \in Nat
<1> DEFINE s == Dict(kind)
<1>1. s \in Seq(Resource(kind)) /\ i \in DOMAIN s
  BY DEF DictsTyped
<1> HIDE DEF s
<1>2. s[i] \in Resource(kind)
  BY <1>1, LenProperties, ElementOfSeq
<1>3. s[i].tenant \in Tenants /\ s[i].key \in Nat
  BY <1>2 DEF Resource, User, Group
<1> QED
  BY <1>2, <1>3 DEF s

LEMMA UserSteps ==
  ASSUME DictsTyped, NEW t \in Tenants, UserWrites(t)
  PROVE  \/ \E r \in Resource("users") : Adds("users", r)
         \/ \E i \in DOMAIN Dict("users"), r \in Resource("users") : Puts("users", i, r)
         \/ \E i \in DOMAIN Dict("users") : Drops("users", i)
         \/ Rests
<1>1. drawn["users"] \in Nat /\ drawn \in [Kinds -> Nat] /\ "users" \in Kinds
      /\ Resource("users") = User /\ Dict("users") = users
      /\ (users' = users /\ groups' = groups => \A kind \in Kinds : DictAfter(kind) = Dict(kind))
      /\ (groups' = groups => OthersStay("users"))
  BY DEF DictsTyped, Kinds, Resource, Dict, DictAfter, OthersStay
<1>2. ASSUME Refuse PROVE Rests
  BY <1>1, <1>2 DEF Refuse, Rests
<1>3. ASSUME NEW name \in Names, CreateUser(t, name)
      PROVE  \E r \in User : Adds("users", r)
  <2> DEFINE key == drawn["users"] + 1
             r == [tenant |-> t, key |-> key, name |-> name]
  <2>1. drawn' = [drawn EXCEPT !["users"] = key] /\ drawn'["users"] = key
    BY <1>1, <1>3 DEF CreateUser
  <2>2. users' = Append(users, r) /\ accepted' = t /\ walk' = walk /\ groups' = groups
    BY <1>3, <2>1 DEF CreateUser
  <2>3. r \in User /\ r.key = key /\ r.tenant = t
    <3>1. key \in Nat
      BY <1>1
    <3> HIDE DEF key
    <3> QED
      BY <3>1 DEF User
  <2>4. DictAfter("users") = users'
    BY DEF DictAfter
  <2> HIDE DEF r
  <2> QED
    BY <1>1, <2>1, <2>2, <2>3, <2>4 DEF Adds
<1>4. ASSUME NEW key, NEW i \in At(users, t, key), NEW name \in Names,
             users' = Stored(users, i, [users[i] EXCEPT !.name = name]),
             accepted' = t, walk' = walk, drawn' = drawn, groups' = groups
      PROVE  \E j \in DOMAIN users, r \in User : Puts("users", j, r)
  <2>1. i \in DOMAIN users /\ users[i].tenant = t /\ users[i].key = key
    BY DEF At
  <2>2. users[i] \in User
    BY <1>1, <2>1, DictFields
  <2> DEFINE r == [users[i] EXCEPT !.name = name]
  <2>3. r \in User /\ r.tenant = users[i].tenant /\ r.key = users[i].key
    BY <2>2 DEF User
  <2>4. DictAfter("users") = users'
    BY DEF DictAfter
  <2>5. users' = Stored(users, i, r)
    BY <1>4
  <2> HIDE DEF r
  <2>6. Puts("users", i, r)
    BY <1>1, <1>4, <2>1, <2>3, <2>4, <2>5 DEF Puts
  <2> QED
    BY <2>1, <2>3, <2>6
<1>5. ASSUME NEW key, NEW names \in UserPatches, PatchUser(t, key, names)
      PROVE  \E j \in DOMAIN users, r \in User : Puts("users", j, r)
  <2>1. PICK i \in At(users, t, key) :
          /\ ValidName(PatchedName(users[i], names))
          /\ users' = Stored(users, i, [users[i] EXCEPT !.name = PatchedName(users[i], names)])
          /\ accepted' = t /\ walk' = walk /\ drawn' = drawn /\ groups' = groups
    BY <1>5 DEF PatchUser
  <2>2. i \in DOMAIN users
    BY DEF At
  <2>3. users[i] \in User /\ users[i].name \in Names
    BY <1>1, <2>2, DictFields DEF User
  <2>4. PatchedName(users[i], names) \in Names
    BY <2>1, <2>3, PatchedNameIsOne
  <2> QED
    BY <1>4, <2>1, <2>4
<1>6. ASSUME NEW key, NEW name \in Names, ReplaceUser(t, key, name)
      PROVE  \E j \in DOMAIN users, r \in User : Puts("users", j, r)
  BY <1>4, <1>6 DEF ReplaceUser
<1>7. ASSUME NEW key, DeleteUser(t, key)
      PROVE  \E i \in DOMAIN users : Drops("users", i)
  <2>1. PICK i \in At(users, t, key) :
          /\ users' = RemoveAt(users, i) /\ accepted' = t
          /\ walk' = AfterDelete("users", t, key) /\ drawn' = drawn /\ groups' = groups
    BY <1>7 DEF DeleteUser
  <2>2. i \in DOMAIN users /\ users[i].tenant = t /\ users[i].key = key
    BY DEF At
  <2>3. DictAfter("users") = users'
    BY DEF DictAfter
  <2> QED
    BY <1>1, <2>1, <2>2, <2>3 DEF Drops
<1>8. CASE \E name \in Names : CreateUser(t, name) \/ CreateUserConflict(t, name)
  BY <1>1, <1>2, <1>3, <1>8 DEF CreateUserConflict
<1>9. ASSUME NEW key \in 1 .. MaxUsers,
             \/ \E name \in Names : ReplaceUser(t, key, name) \/ ReplaceUserFails(t, key, name)
             \/ \E names \in UserPatches :
                  PatchUser(t, key, names) \/ PatchUserFails(t, key, names)
             \/ DeleteUser(t, key) \/ DeleteUserFails(t, key)
      PROVE  \/ \E j \in DOMAIN users, r \in User : Puts("users", j, r)
             \/ \E i \in DOMAIN users : Drops("users", i)
             \/ Rests
  <2>1. CASE \E name \in Names : ReplaceUser(t, key, name)
    BY <1>6, <2>1
  <2>2. CASE \E names \in UserPatches : PatchUser(t, key, names)
    BY <1>5, <2>2
  <2>3. CASE DeleteUser(t, key)
    BY <1>7, <2>3
  <2>4. CASE Refuse
    BY <1>2, <2>4
  <2> QED
    BY <1>9, <2>1, <2>2, <2>3, <2>4 DEF ReplaceUserFails, PatchUserFails, DeleteUserFails
<1> QED
  BY <1>1, <1>8, <1>9 DEF UserWrites

LEMMA GroupSteps ==
  ASSUME DictsTyped, NEW t \in Tenants, GroupWrites(t)
  PROVE  \/ \E r \in Resource("groups") : Adds("groups", r)
         \/ \E i \in DOMAIN Dict("groups"), r \in Resource("groups") : Puts("groups", i, r)
         \/ \E i \in DOMAIN Dict("groups") : Drops("groups", i)
         \/ Rests
<1>1. drawn["groups"] \in Nat /\ drawn \in [Kinds -> Nat] /\ "groups" \in Kinds
      /\ Resource("groups") = Group /\ Dict("groups") = groups
      /\ (users' = users /\ groups' = groups => \A kind \in Kinds : DictAfter(kind) = Dict(kind))
      /\ (users' = users => OthersStay("groups"))
  BY DEF DictsTyped, Kinds, Resource, Dict, DictAfter, OthersStay
<1>2. ASSUME Refuse PROVE Rests
  BY <1>1, <1>2 DEF Refuse, Rests
<1>3. ASSUME NEW name \in Names, NEW members \in MemberLists, CreateGroup(t, name, members)
      PROVE  \E r \in Group : Adds("groups", r)
  <2> DEFINE key == drawn["groups"] + 1
             r == [tenant |-> t, key |-> key, name |-> name, members |-> members]
  <2>1. drawn' = [drawn EXCEPT !["groups"] = key] /\ drawn'["groups"] = key
    BY <1>1, <1>3 DEF CreateGroup
  <2>2. groups' = Append(groups, r) /\ accepted' = t /\ walk' = walk /\ users' = users
    BY <1>3, <2>1 DEF CreateGroup
  <2>3. r \in Group /\ r.key = key /\ r.tenant = t
    <3>1. key \in Nat /\ members \in Seq(Members)
      BY <1>1, ScimAssumption
    <3> HIDE DEF key
    <3> QED
      BY <3>1 DEF Group
  <2>4. DictAfter("groups") = groups'
    BY DEF DictAfter
  <2> HIDE DEF r
  <2> QED
    BY <1>1, <2>1, <2>2, <2>3, <2>4 DEF Adds
<1>4. ASSUME NEW key, NEW i \in At(groups, t, key), NEW r \in Group,
             r.tenant = groups[i].tenant, r.key = groups[i].key,
             groups' = Stored(groups, i, r),
             accepted' = t, walk' = walk, drawn' = drawn, users' = users
      PROVE  \E j \in DOMAIN groups, q \in Group : Puts("groups", j, q)
  <2>1. i \in DOMAIN groups /\ groups[i].tenant = t /\ groups[i].key = key
    BY DEF At
  <2>2. DictAfter("groups") = groups'
    BY DEF DictAfter
  <2>3. Puts("groups", i, r)
    BY <1>1, <1>4, <2>1, <2>2 DEF Puts
  <2> QED
    BY <2>1, <2>3
<1>5. ASSUME NEW key, NEW name \in Names, NEW members \in MemberLists,
             ReplaceGroup(t, key, name, members)
      PROVE  \E j \in DOMAIN groups, q \in Group : Puts("groups", j, q)
  <2>1. PICK i \in At(groups, t, key) :
          /\ groups' = Stored(groups, i, [groups[i] EXCEPT !.name = name, !.members = members])
          /\ accepted' = t /\ walk' = walk /\ drawn' = drawn /\ users' = users
    BY <1>5 DEF ReplaceGroup
  <2>2. groups[i] \in Group
    BY <1>1, DictFields DEF At
  <2> DEFINE r == [groups[i] EXCEPT !.name = name, !.members = members]
  <2>3. r \in Group /\ r.tenant = groups[i].tenant /\ r.key = groups[i].key
    BY <2>2, ScimAssumption DEF Group
  <2>4. groups' = Stored(groups, i, r)
    BY <2>1
  <2> HIDE DEF r
  <2> QED
    BY <1>4, <2>1, <2>3, <2>4
<1>6. ASSUME NEW key, NEW ops \in GroupPatches, PatchGroup(t, key, ops)
      PROVE  \E j \in DOMAIN groups, q \in Group : Puts("groups", j, q)
  <2>1. PICK i \in At(groups, t, key) :
          /\ groups' = Stored(groups, i, PatchedGroup(groups[i], ops))
          /\ accepted' = t /\ walk' = walk /\ drawn' = drawn /\ users' = users
    BY <1>6 DEF PatchGroup
  <2>2. groups[i] \in Group
    BY <1>1, DictFields DEF At
  <2>3. ops \in Ops
    BY ScimAssumption DEF Ops
  <2> DEFINE r == PatchedGroup(groups[i], ops)
  <2>4. r \in Group /\ r.tenant = groups[i].tenant /\ r.key = groups[i].key
    BY <2>2, <2>3, PatchedTyped
  <2>5. groups' = Stored(groups, i, r)
    BY <2>1
  <2> HIDE DEF r
  <2> QED
    BY <1>4, <2>1, <2>4, <2>5
<1>7. ASSUME NEW key, DeleteGroup(t, key)
      PROVE  \E i \in DOMAIN groups : Drops("groups", i)
  <2>1. PICK i \in At(groups, t, key) :
          /\ groups' = RemoveAt(groups, i) /\ accepted' = t
          /\ walk' = AfterDelete("groups", t, key) /\ drawn' = drawn /\ users' = users
    BY <1>7 DEF DeleteGroup
  <2>2. i \in DOMAIN groups /\ groups[i].tenant = t /\ groups[i].key = key
    BY DEF At
  <2>3. DictAfter("groups") = groups'
    BY DEF DictAfter
  <2> QED
    BY <1>1, <2>1, <2>2, <2>3 DEF Drops
<1>8. CASE \E name \in Names, members \in MemberLists : CreateGroup(t, name, members)
  BY <1>1, <1>3, <1>8
<1>9. ASSUME NEW key \in 1 .. MaxGroups,
             \/ \E name \in Names, members \in MemberLists :
                  ReplaceGroup(t, key, name, members)
             \/ \E ops \in GroupPatches :
                  PatchGroup(t, key, ops) \/ PatchGroupFails(t, key, ops)
             \/ ReplaceGroupFails(t, key) \/ DeleteGroup(t, key) \/ DeleteGroupFails(t, key)
      PROVE  \/ \E j \in DOMAIN groups, r \in Group : Puts("groups", j, r)
             \/ \E i \in DOMAIN groups : Drops("groups", i)
             \/ Rests
  <2>1. CASE \E name \in Names, members \in MemberLists : ReplaceGroup(t, key, name, members)
    BY <1>5, <2>1
  <2>2. CASE \E ops \in GroupPatches : PatchGroup(t, key, ops)
    BY <1>6, <2>2
  <2>3. CASE DeleteGroup(t, key)
    BY <1>7, <2>3
  <2>4. CASE Refuse
    BY <1>2, <2>4
  <2> QED
    BY <1>9, <2>1, <2>2, <2>3, <2>4 DEF ReplaceGroupFails, PatchGroupFails, DeleteGroupFails
<1> QED
  BY <1>1, <1>8, <1>9 DEF GroupWrites

\* Every step adds a resource, sets one, deletes one or leaves the dicts alone.
LEMMA DictSteps ==
  ASSUME DictsTyped, [Next]_vars
  PROVE  \/ \E kind \in Kinds : \E r \in Resource(kind) : Adds(kind, r)
         \/ \E kind \in Kinds : \E i \in DOMAIN Dict(kind), r \in Resource(kind) :
              Puts(kind, i, r)
         \/ \E kind \in Kinds : \E i \in DOMAIN Dict(kind) : Drops(kind, i)
         \/ Rests
<1>1. "users" \in Kinds /\ "groups" \in Kinds
  BY DEF Kinds
<1>2. CASE \E t \in Tenants : UserWrites(t)
  BY <1>1, <1>2, UserSteps
<1>3. CASE \E t \in Tenants : GroupWrites(t)
  BY <1>1, <1>3, GroupSteps
<1>4. CASE Lists \/ UNCHANGED vars
  <2>1. users' = users /\ groups' = groups /\ drawn' = drawn /\ accepted' = accepted
    BY <1>4 DEF Lists, BeginWalk, ListPage, EndWalk, vars
  <2>2. Lists \/ walk' = walk
    BY <1>4 DEF vars
  <2> QED
    BY <2>1, <2>2 DEF Rests, DictAfter, Dict
<1> QED
  BY <1>2, <1>3, <1>4 DEF Next

-----------------------------------------------------------------------------
(* Types and keys. *)

\* A key is drawn once, before it is used, and never again.
KeysDrawn ==
  \A kind \in Kinds :
    /\ \A i \in DOMAIN Dict(kind) : Dict(kind)[i].key \in 1 .. drawn[kind]
    /\ \A i, j \in DOMAIN Dict(kind) : Dict(kind)[i].key = Dict(kind)[j].key => i = j

KeysDrawnAfter(kind) ==
  /\ \A i \in DOMAIN DictAfter(kind) : DictAfter(kind)[i].key \in 1 .. drawn'[kind]
  /\ \A i, j \in DOMAIN DictAfter(kind) :
       DictAfter(kind)[i].key = DictAfter(kind)[j].key => i = j

TypedAfter(kind) ==
  /\ DictAfter(kind) \in Seq(Resource(kind))
  /\ drawn' \in [Kinds -> Nat]

Dicts == DictsTyped /\ KeysDrawn

LEMMA DictsAfter ==
  ASSUME \A kind \in Kinds : TypedAfter(kind) /\ KeysDrawnAfter(kind)
  PROVE  Dicts'
<1>1. users' = DictAfter("users") /\ groups' = DictAfter("groups")
  BY DEF DictAfter
<1>2. "users" \in Kinds /\ "groups" \in Kinds
  BY DEF Kinds
<1>3. /\ users' \in Seq(Resource("users")) /\ groups' \in Seq(Resource("groups"))
      /\ drawn' \in [Kinds -> Nat]
  BY <1>1, <1>2 DEF TypedAfter
<1>4. DictsTyped'
  BY <1>3 DEF DictsTyped, Dict, Kinds, Resource
<1>5. KeysDrawn'
  BY <1>1, <1>2 DEF KeysDrawnAfter, KeysDrawn, Dict, Kinds
<1> QED
  BY <1>4, <1>5 DEF Dicts

\* A dict that a step leaves alone.
LEMMA OtherDict ==
  ASSUME Dicts, NEW kind \in Kinds, DictAfter(kind) = Dict(kind),
         drawn' \in [Kinds -> Nat], drawn'[kind] = drawn[kind]
  PROVE  TypedAfter(kind) /\ KeysDrawnAfter(kind)
BY DEF Dicts, DictsTyped, KeysDrawn, TypedAfter, KeysDrawnAfter

LEMMA AddsKeeps ==
  ASSUME Dicts, NEW kind \in Kinds, NEW r \in Resource(kind), Adds(kind, r)
  PROVE  Dicts'
<1> DEFINE s == Dict(kind)
           n == Len(s)
           key == drawn[kind] + 1
<1>1. s \in Seq(Resource(kind)) /\ drawn[kind] \in Nat
      /\ drawn \in [Kinds -> Nat]
  BY DEF Dicts, DictsTyped
<1>2. /\ \A i \in DOMAIN s : s[i].key \in 1 .. drawn[kind]
      /\ \A i, j \in DOMAIN s : s[i].key = s[j].key => i = j
  BY DEF Dicts, KeysDrawn
<1>3. /\ r.key = key /\ drawn' = [drawn EXCEPT ![kind] = key]
      /\ DictAfter(kind) = Append(s, r)
      /\ \A k \in Kinds \ {kind} : DictAfter(k) = Dict(k)
  BY DEF Adds, OthersStay
<1> HIDE DEF s
<1>4. /\ Append(s, r) \in Seq(Resource(kind))
      /\ DOMAIN s = 1 .. n /\ n \in Nat /\ DOMAIN Append(s, r) = 1 .. (n + 1)
      /\ \A j \in DOMAIN s : Append(s, r)[j] = s[j]
      /\ Append(s, r)[n + 1] = r
  BY <1>1, AppendedProperties
<1> DEFINE q == Append(s, r)
<1> HIDE DEF q, n
<1>5. /\ q \in Seq(Resource(kind)) /\ DOMAIN q = 1 .. (n + 1) /\ n \in Nat
      /\ DOMAIN s = 1 .. n
      /\ \A j \in 1 .. n : q[j] = s[j]
      /\ q[n + 1] = r /\ DictAfter(kind) = q
  BY <1>3, <1>4 DEF q
<1>6. drawn' \in [Kinds -> Nat] /\ drawn'[kind] = key
      /\ \A k \in Kinds \ {kind} : drawn'[k] = drawn[k]
  BY <1>1, <1>3
<1>7. \A i \in 1 .. n : q[i].key \in 1 .. drawn[kind] /\ q[i].key # key
  BY <1>1, <1>2, <1>5
<1>8. \A i \in 1 .. (n + 1) : i \in 1 .. n \/ i = n + 1
  BY <1>5
<1>9. \A i \in DOMAIN q : q[i].key \in 1 .. drawn'[kind]
  BY <1>1, <1>3, <1>5, <1>6, <1>7, <1>8
<1>10. ASSUME NEW i \in DOMAIN q, NEW j \in DOMAIN q, q[i].key = q[j].key
       PROVE  i = j
  <2>1. CASE i \in 1 .. n /\ j \in 1 .. n
    BY <1>2, <1>5, <1>10, <2>1
  <2>2. CASE ~(i \in 1 .. n /\ j \in 1 .. n)
    BY <1>3, <1>5, <1>7, <1>8, <1>10, <2>2
  <2> QED
    BY <2>1, <2>2
<1>11. TypedAfter(kind) /\ KeysDrawnAfter(kind)
  BY <1>5, <1>6, <1>9, <1>10 DEF TypedAfter, KeysDrawnAfter
<1>12. \A k \in Kinds \ {kind} : TypedAfter(k) /\ KeysDrawnAfter(k)
  BY <1>3, <1>6, OtherDict
<1> QED
  BY <1>11, <1>12, DictsAfter

LEMMA PutsKeeps ==
  ASSUME Dicts, NEW kind \in Kinds, NEW i \in DOMAIN Dict(kind), NEW r \in Resource(kind),
         Puts(kind, i, r)
  PROVE  Dicts'
<1> DEFINE s == Dict(kind)
<1>1. s \in Seq(Resource(kind)) /\ drawn \in [Kinds -> Nat] /\ i \in DOMAIN s
  BY DEF Dicts, DictsTyped
<1>2. /\ \A j \in DOMAIN s : s[j].key \in 1 .. drawn[kind]
      /\ \A j, k \in DOMAIN s : s[j].key = s[k].key => j = k
  BY DEF Dicts, KeysDrawn
<1>3. /\ r.key = s[i].key /\ drawn' = drawn
      /\ DictAfter(kind) = Stored(s, i, r)
      /\ \A k \in Kinds \ {kind} : DictAfter(k) = Dict(k)
  BY DEF Puts, OthersStay
<1> HIDE DEF s
<1> DEFINE q == Stored(s, i, r)
<1>4. /\ q \in Seq(Resource(kind)) /\ DOMAIN q = DOMAIN s
      /\ \A j \in DOMAIN s : q[j] = IF j = i THEN r ELSE s[j]
  BY <1>1, StoredProperties
<1> HIDE DEF q
<1>5. \A j \in DOMAIN s : q[j].key = s[j].key
  BY <1>3, <1>4
<1>6. DictAfter(kind) = q
  BY <1>3 DEF q
<1>7. TypedAfter(kind) /\ KeysDrawnAfter(kind)
  BY <1>1, <1>2, <1>3, <1>4, <1>5, <1>6 DEF TypedAfter, KeysDrawnAfter
<1>8. \A k \in Kinds \ {kind} : TypedAfter(k) /\ KeysDrawnAfter(k)
  BY <1>1, <1>3, OtherDict
<1> QED
  BY <1>7, <1>8, DictsAfter

LEMMA DropsKeeps ==
  ASSUME Dicts, NEW kind \in Kinds, NEW i \in DOMAIN Dict(kind), Drops(kind, i)
  PROVE  Dicts'
<1> DEFINE s == Dict(kind)
           n == Len(s)
           from(j) == IF j < i THEN j ELSE j + 1
<1>1. s \in Seq(Resource(kind)) /\ drawn \in [Kinds -> Nat] /\ i \in DOMAIN s
  BY DEF Dicts, DictsTyped
<1>2. /\ \A j \in DOMAIN s : s[j].key \in 1 .. drawn[kind]
      /\ \A j, k \in DOMAIN s : s[j].key = s[k].key => j = k
  BY DEF Dicts, KeysDrawn
<1>3. /\ drawn' = drawn /\ DictAfter(kind) = RemoveAt(s, i)
      /\ \A k \in Kinds \ {kind} : DictAfter(k) = Dict(k)
  BY DEF Drops, OthersStay
<1> HIDE DEF s
<1> DEFINE q == RemoveAt(s, i)
<1>4. n \in Nat /\ DOMAIN s = 1 .. n
  BY <1>1, LenProperties
<1>5. /\ q \in Seq(Resource(kind)) /\ DOMAIN q = 1 .. (n - 1)
      /\ \A j \in 1 .. (n - 1) : q[j] = IF j < i THEN s[j] ELSE s[j + 1]
  BY <1>1, RemoveAtProperties
<1> HIDE DEF q, n
<1>6. ASSUME NEW j \in DOMAIN q
      PROVE  from(j) \in DOMAIN s /\ q[j] = s[from(j)]
  BY <1>1, <1>4, <1>5
<1>7. ASSUME NEW j \in DOMAIN q, NEW k \in DOMAIN q, from(j) = from(k)
      PROVE  j = k
  BY <1>1, <1>4, <1>5, <1>7
<1> HIDE DEF from
<1>8. DictAfter(kind) = q
  BY <1>3 DEF q
<1>9. /\ \A j \in DOMAIN q : q[j].key \in 1 .. drawn'[kind]
      /\ \A j, k \in DOMAIN q : q[j].key = q[k].key => j = k
  BY <1>2, <1>3, <1>6, <1>7
<1>10. TypedAfter(kind) /\ KeysDrawnAfter(kind)
  BY <1>1, <1>3, <1>5, <1>8, <1>9 DEF TypedAfter, KeysDrawnAfter
<1>11. \A k \in Kinds \ {kind} : TypedAfter(k) /\ KeysDrawnAfter(k)
  BY <1>1, <1>3, OtherDict
<1> QED
  BY <1>10, <1>11, DictsAfter

LEMMA DictsStep ==
  ASSUME Dicts, [Next]_vars
  PROVE  Dicts'
<1>1. DictsTyped /\ drawn \in [Kinds -> Nat]
  BY DEF Dicts, DictsTyped
<1>2. ASSUME Rests PROVE Dicts'
  <2>1. \A k \in Kinds : TypedAfter(k) /\ KeysDrawnAfter(k)
    BY <1>1, <1>2, OtherDict DEF Rests
  <2> QED
    BY <2>1, DictsAfter
<1> QED
  BY <1>1, <1>2, DictSteps, AddsKeeps, PutsKeeps, DropsKeeps

LEMMA DictsInit ==
  Init => Dicts
<1> SUFFICES ASSUME Init PROVE Dicts
  OBVIOUS
<1>1. \A kind \in Kinds : Dict(kind) = <<>> /\ <<>> \in Seq(Resource(kind))
  BY EmptySeq DEF Init, Dict
<1>2. drawn \in [Kinds -> Nat]
  BY DEF Init, Kinds
<1>3. Len(<<>>) = 0 /\ DOMAIN <<>> = {}
  OBVIOUS
<1> QED
  BY <1>1, <1>2, <1>3 DEF Dicts, DictsTyped, KeysDrawn

\* Both dicts have resources of their type, and no two of a kind ever have one key,
\* also when others are deleted in between.
THEOREM AlwaysKeyed == Spec => []Dicts
<1>1. Init => Dicts
  BY DictsInit
<1>2. Dicts /\ [Next]_vars => Dicts'
  BY DictsStep
<1> QED
  BY <1>1, <1>2, PTL DEF Spec

-----------------------------------------------------------------------------
(* The listing of a tenant. *)

TenantPlaces(s, t) == {i \in DOMAIN s : s[i].tenant = t}

\* A listing has the resources of the tenant.
LEMMA ListingProperties ==
  ASSUME NEW S, NEW s \in Seq(S), NEW t
  PROVE  LET P == TenantPlaces(s, t)
         IN  /\ P \in SUBSET (DOMAIN s) /\ P \in SUBSET Nat /\ IsFiniteSet(P)
             /\ ByTenant(s, t) = Selected(s, P)
             /\ ByTenant(s, t) \in Seq(S)
             /\ Len(ByTenant(s, t)) = Cardinality(P) /\ Cardinality(P) \in Nat
             /\ DOMAIN ByTenant(s, t) = 1 .. Cardinality(P)
             /\ \A n \in 1 .. Cardinality(P) :
                  Place(P, n) \in P /\ ByTenant(s, t)[n] = s[Place(P, n)]
<1> DEFINE P == TenantPlaces(s, t)
<1>1. P \in SUBSET (DOMAIN s) /\ ByTenant(s, t) = Selected(s, P)
  BY DEF TenantPlaces, ByTenant
<1> HIDE DEF P
<1>2. /\ P \in SUBSET Nat /\ IsFiniteSet(P) /\ Cardinality(P) \in Nat
      /\ Selected(s, P) \in Seq(S)
      /\ DOMAIN Selected(s, P) = 1 .. Cardinality(P)
      /\ Len(Selected(s, P)) = Cardinality(P)
      /\ \A n \in 1 .. Cardinality(P) :
           Place(P, n) \in P /\ Selected(s, P)[n] = s[Place(P, n)]
  BY <1>1, SelectedProperties
<1>3. /\ P \in SUBSET (DOMAIN s) /\ P \in SUBSET Nat /\ IsFiniteSet(P)
      /\ ByTenant(s, t) = Selected(s, P)
      /\ ByTenant(s, t) \in Seq(S)
      /\ Len(ByTenant(s, t)) = Cardinality(P) /\ Cardinality(P) \in Nat
      /\ DOMAIN ByTenant(s, t) = 1 .. Cardinality(P)
      /\ \A n \in 1 .. Cardinality(P) :
           Place(P, n) \in P /\ ByTenant(s, t)[n] = s[Place(P, n)]
  BY <1>1, <1>2, Zenon
<1> QED
  BY <1>3 DEF P

\* Every resource of the tenant is in its listing.
LEMMA Listed ==
  ASSUME NEW S, NEW s \in Seq(S), NEW i \in DOMAIN s
  PROVE  LET all == ByTenant(s, s[i].tenant)
             p == Rank(TenantPlaces(s, s[i].tenant), i)
         IN  p \in DOMAIN all /\ all[p] = s[i]
<1> DEFINE t == s[i].tenant
           P == TenantPlaces(s, t)
           all == ByTenant(s, t)
<1>1. i \in P
  BY DEF TenantPlaces
<1>2. /\ P \in SUBSET Nat /\ IsFiniteSet(P) /\ DOMAIN all = 1 .. Cardinality(P)
      /\ \A n \in 1 .. Cardinality(P) : all[n] = s[Place(P, n)]
  BY ListingProperties
<1> HIDE DEF P, all
<1>3. Rank(P, i) \in 1 .. Cardinality(P) /\ Place(P, Rank(P, i)) = i
  BY <1>1, <1>2, PlaceProperties
<1>4. Rank(P, i) \in DOMAIN all /\ all[Rank(P, i)] = s[i]
  BY <1>2, <1>3
<1> QED
  BY <1>4 DEF P, all

\* A resource that is created is listed last by its own tenant, and by no other.
LEMMA ListingAppended ==
  ASSUME NEW S, NEW s \in Seq(S), NEW e \in S, NEW t
  PROVE  /\ e.tenant # t => ByTenant(Append(s, e), t) = ByTenant(s, t)
         /\ e.tenant = t =>
              LET all == ByTenant(s, t)
                  more == ByTenant(Append(s, e), t)
              IN  /\ Len(more) = Len(all) + 1
                  /\ \A n \in 1 .. Len(all) : more[n] = all[n]
                  /\ more[Len(all) + 1] = e
<1> DEFINE N == Len(s)
           q == Append(s, e)
           P == TenantPlaces(s, t)
           Q == TenantPlaces(q, t)
<1>1. /\ q \in Seq(S) /\ N \in Nat /\ DOMAIN s = 1 .. N /\ DOMAIN q = 1 .. (N + 1)
      /\ \A j \in DOMAIN s : q[j] = s[j]
      /\ q[N + 1] = e
  BY AppendedProperties
<1>2. /\ P \in SUBSET (DOMAIN s) /\ P \in SUBSET Nat /\ IsFiniteSet(P)
      /\ ByTenant(s, t) = Selected(s, P)
      /\ Len(ByTenant(s, t)) = Cardinality(P) /\ Cardinality(P) \in Nat
      /\ \A n \in 1 .. Cardinality(P) :
           Place(P, n) \in P /\ ByTenant(s, t)[n] = s[Place(P, n)]
  BY ListingProperties
<1> HIDE DEF q
<1>3. /\ Q \in SUBSET (DOMAIN q) /\ Q \in SUBSET Nat /\ IsFiniteSet(Q)
      /\ ByTenant(q, t) = Selected(q, Q)
      /\ Len(ByTenant(q, t)) = Cardinality(Q) /\ Cardinality(Q) \in Nat
      /\ \A n \in 1 .. Cardinality(Q) :
           Place(Q, n) \in Q /\ ByTenant(q, t)[n] = q[Place(Q, n)]
  BY <1>1, ListingProperties
<1> HIDE DEF N
<1>4. Q = IF e.tenant = t THEN P \cup {N + 1} ELSE P
  <2>1. \A i \in DOMAIN q : i \in DOMAIN s \/ i = N + 1
    BY <1>1
  <2>2. N + 1 \in DOMAIN q /\ \A i \in DOMAIN s : i \in DOMAIN q
    BY <1>1
  <2> QED
    BY <1>1, <2>1, <2>2 DEF TenantPlaces
<1> HIDE DEF P, Q
<1>5. CASE e.tenant # t
  <2> DEFINE h == [i \in P |-> i]
  <2>1. /\ h \in [P -> Q] /\ \A i \in P : h[i] = i
        /\ \A k \in Q : \E i \in P : h[i] = k
    BY <1>4, <1>5
  <2>2. \A i, j \in P : i < j => h[i] < h[j]
    BY <2>1
  <2>3. \A i \in P : q[h[i]] = s[i]
    BY <1>1, <1>2, <2>1
  <2> HIDE DEF h
  <2>4. q \in Seq(S) /\ P \in SUBSET (DOMAIN s) /\ Q \in SUBSET (DOMAIN q)
    BY <1>1, <1>2, <1>3
  <2>5. Selected(q, Q) = Selected(s, P)
    BY <2>1, <2>2, <2>3, <2>4, SelectedMoved
  <2> QED
    BY <1>2, <1>3, <1>5, <2>5 DEF q
<1>6. CASE e.tenant = t
  <2>1. Q = P \cup {N + 1} /\ N + 1 \notin P
    <3>1. N + 1 \notin DOMAIN s
      BY <1>1
    <3> QED
      BY <1>2, <1>4, <1>6, <3>1
  <2>2. Cardinality(Q) = Cardinality(P) + 1
    BY <1>2, <2>1, FS_AddElement
  <2>3. \A j \in P : j <= N /\ j \in Nat
    BY <1>1, <1>2
  <2>4. ASSUME NEW i \in P PROVE Rank(Q, i) = Rank(P, i) /\ i \in Q
    <3>1. {j \in Q : j <= i} = {j \in P : j <= i}
      BY <1>1, <2>1, <2>3
    <3> QED
      BY <2>1, <3>1 DEF Rank
  <2>5. Rank(Q, N + 1) = Cardinality(Q) /\ N + 1 \in Q
    <3>1. {j \in Q : j <= N + 1} = Q
      BY <1>1, <2>1, <2>3
    <3> QED
      BY <2>1, <3>1 DEF Rank
  <2>6. ASSUME NEW n \in 1 .. Cardinality(P)
        PROVE  ByTenant(q, t)[n] = ByTenant(s, t)[n]
    <3>1. n \in 1 .. Cardinality(Q)
      BY <1>2, <2>2
    <3>2. Place(P, n) \in P /\ Rank(P, Place(P, n)) = n
      BY <1>2, PlaceProperties
    <3>3. Place(P, n) \in Q /\ Rank(Q, Place(P, n)) = n
      BY <2>4, <3>2
    <3>4. Place(Q, n) = Place(P, n)
      BY <1>3, <3>3, PlaceProperties
    <3>5. ByTenant(q, t)[n] = q[Place(Q, n)] /\ ByTenant(s, t)[n] = s[Place(P, n)]
      BY <1>2, <1>3, <3>1
    <3> QED
      BY <1>1, <1>2, <3>2, <3>4, <3>5
  <2>7. ByTenant(q, t)[Cardinality(P) + 1] = e
    <3>1. Place(Q, Cardinality(Q)) = N + 1
      BY <1>3, <2>5, PlaceProperties
    <3>2. Cardinality(Q) \in 1 .. Cardinality(Q)
      BY <1>2, <2>2
    <3>3. ByTenant(q, t)[Cardinality(Q)] = q[Place(Q, Cardinality(Q))]
      BY <1>3, <3>2
    <3> QED
      BY <1>1, <2>2, <3>1, <3>3
  <2>8. /\ Len(ByTenant(q, t)) = Len(ByTenant(s, t)) + 1
        /\ \A n \in 1 .. Len(ByTenant(s, t)) : ByTenant(q, t)[n] = ByTenant(s, t)[n]
        /\ ByTenant(q, t)[Len(ByTenant(s, t)) + 1] = e
    BY <1>2, <1>3, <2>2, <2>6, <2>7
  <2> QED
    BY <1>6, <2>8 DEF q
<1> QED
  BY <1>5, <1>6

\* A resource that is set stays where it is listed, and other tenants list as before.
LEMMA ListingStored ==
  ASSUME NEW S, NEW s \in Seq(S), NEW i \in DOMAIN s, NEW e \in S,
         e.tenant = s[i].tenant, NEW t
  PROVE  /\ e.tenant # t => ByTenant(Stored(s, i, e), t) = ByTenant(s, t)
         /\ e.key = s[i].key =>
              LET all == ByTenant(s, t)
                  new == ByTenant(Stored(s, i, e), t)
              IN  /\ Len(new) = Len(all)
                  /\ \A n \in 1 .. Len(all) : new[n].key = all[n].key
<1> DEFINE q == Stored(s, i, e)
           P == TenantPlaces(s, t)
<1>1. /\ q \in Seq(S) /\ DOMAIN q = DOMAIN s
      /\ \A j \in DOMAIN s : q[j] = IF j = i THEN e ELSE s[j]
  BY StoredProperties
<1> HIDE DEF q
<1>2. TenantPlaces(q, t) = P
  BY <1>1 DEF TenantPlaces
<1>3. /\ P \in SUBSET (DOMAIN s) /\ P \in SUBSET Nat
      /\ ByTenant(s, t) = Selected(s, P)
      /\ Len(ByTenant(s, t)) = Cardinality(P) /\ Cardinality(P) \in Nat
      /\ \A n \in 1 .. Cardinality(P) :
           Place(P, n) \in P /\ ByTenant(s, t)[n] = s[Place(P, n)]
  BY ListingProperties
<1>4. /\ ByTenant(q, t) = Selected(q, P)
      /\ Len(ByTenant(q, t)) = Cardinality(P)
      /\ \A n \in 1 .. Cardinality(P) : ByTenant(q, t)[n] = q[Place(P, n)]
  BY <1>1, <1>2, ListingProperties
<1>5. i \in P <=> s[i].tenant = t
  BY DEF TenantPlaces
<1> HIDE DEF P
<1>6. ASSUME e.tenant # t PROVE ByTenant(q, t) = ByTenant(s, t)
  <2> DEFINE h == [j \in P |-> j]
  <2>1. /\ h \in [P -> P] /\ \A j \in P : h[j] = j
        /\ \A k \in P : \E j \in P : h[j] = k
    OBVIOUS
  <2>2. \A j, k \in P : j < k => h[j] < h[k]
    BY <2>1
  <2>3. \A j \in P : q[h[j]] = s[j]
    BY <1>1, <1>3, <1>5, <1>6, <2>1
  <2> HIDE DEF h
  <2>4. P \in SUBSET (DOMAIN q)
    BY <1>1, <1>3
  <2>5. Selected(q, P) = Selected(s, P)
    BY <1>1, <1>3, <2>1, <2>2, <2>3, <2>4, SelectedMoved
  <2> QED
    BY <1>3, <1>4, <2>5
<1>7. ASSUME e.key = s[i].key
      PROVE  /\ Len(ByTenant(q, t)) = Len(ByTenant(s, t))
             /\ \A n \in 1 .. Len(ByTenant(s, t)) : ByTenant(q, t)[n].key = ByTenant(s, t)[n].key
  <2>1. \A j \in DOMAIN s : q[j].key = s[j].key
    BY <1>1, <1>7
  <2> QED
    BY <1>3, <1>4, <2>1
<1> QED
  BY <1>6, <1>7 DEF q

\* A resource that is deleted leaves the listing of its tenant, in which those
\* behind it move up.
LEMMA ListingRemoved ==
  ASSUME NEW S, NEW s \in Seq(S), NEW i \in DOMAIN s, NEW t
  PROVE  /\ s[i].tenant # t => ByTenant(RemoveAt(s, i), t) = ByTenant(s, t)
         /\ s[i].tenant = t =>
              LET all == ByTenant(s, t)
                  less == ByTenant(RemoveAt(s, i), t)
                  p == Rank(TenantPlaces(s, t), i)
              IN  /\ Len(less) = Len(all) - 1
                  /\ \A n \in 1 .. (Len(all) - 1) :
                       less[n] = IF n < p THEN all[n] ELSE all[n + 1]
<1> DEFINE N == Len(s)
           q == RemoveAt(s, i)
           P == TenantPlaces(s, t)
           Q == TenantPlaces(q, t)
           R == P \ {i}
           to(j) == IF j < i THEN j ELSE j - 1
           h == [j \in R |-> to(j)]
<1>1. /\ q \in Seq(S) /\ DOMAIN q = 1 .. (N - 1)
      /\ \A j \in 1 .. (N - 1) : q[j] = IF j < i THEN s[j] ELSE s[j + 1]
  BY RemoveAtProperties
<1>2. N \in Nat /\ DOMAIN s = 1 .. N /\ i \in 1 .. N
  BY LenProperties
<1>3. /\ P \in SUBSET (DOMAIN s) /\ P \in SUBSET Nat /\ IsFiniteSet(P)
      /\ ByTenant(s, t) = Selected(s, P)
      /\ Len(ByTenant(s, t)) = Cardinality(P) /\ Cardinality(P) \in Nat
      /\ \A n \in 1 .. Cardinality(P) :
           Place(P, n) \in P /\ ByTenant(s, t)[n] = s[Place(P, n)]
  BY ListingProperties
<1> HIDE DEF q
<1>4. /\ Q \in SUBSET (DOMAIN q) /\ Q \in SUBSET Nat /\ IsFiniteSet(Q)
      /\ ByTenant(q, t) = Selected(q, Q)
      /\ Len(ByTenant(q, t)) = Cardinality(Q) /\ Cardinality(Q) \in Nat
      /\ \A n \in 1 .. Cardinality(Q) :
           Place(Q, n) \in Q /\ ByTenant(q, t)[n] = q[Place(Q, n)]
  BY <1>1, ListingProperties
<1> HIDE DEF N
<1>5. ASSUME NEW j \in DOMAIN s, j # i
      PROVE  /\ to(j) \in DOMAIN q /\ q[to(j)] = s[j] /\ to(j) \in Nat
  BY <1>1, <1>2, <1>5
<1>6. ASSUME NEW k \in DOMAIN q
      PROVE  \E j \in DOMAIN s : j # i /\ to(j) = k
  <2>1. CASE k < i
    BY <1>1, <1>2, <2>1
  <2>2. CASE ~(k < i)
    <3>1. k + 1 \in DOMAIN s /\ k + 1 # i /\ to(k + 1) = k
      BY <1>1, <1>2, <2>2
    <3> QED
      BY <3>1
  <2> QED
    BY <2>1, <2>2
<1>7. ASSUME NEW j \in DOMAIN s, NEW k \in DOMAIN s, j # i, k # i, j < k
      PROVE  to(j) < to(k)
  BY <1>2, <1>7
<1> HIDE DEF to
<1>8. /\ R \in SUBSET Nat /\ IsFiniteSet(R) /\ R \in SUBSET (DOMAIN s)
  BY <1>3, FS_RemoveElement
<1>9. h \in [R -> Q]
  BY <1>3, <1>5 DEF TenantPlaces
<1>10. \A k \in Q : \E j \in R : h[j] = k
  <2> SUFFICES ASSUME NEW k \in Q PROVE \E j \in R : h[j] = k
    OBVIOUS
  <2>1. k \in DOMAIN q /\ q[k].tenant = t
    BY DEF TenantPlaces
  <2>2. PICK j \in DOMAIN s : j # i /\ to(j) = k
    BY <1>6, <2>1
  <2>3. s[j].tenant = t
    BY <1>5, <2>1, <2>2
  <2>4. j \in R
    BY <2>2, <2>3 DEF TenantPlaces
  <2> QED
    BY <2>2, <2>4
<1>11. \A j, k \in R : j < k => h[j] < h[k]
  BY <1>3, <1>7
<1>12. \A j \in R : q[h[j]] = s[j]
  BY <1>3, <1>5
<1>13. i \in P <=> s[i].tenant = t
  BY DEF TenantPlaces
<1> HIDE DEF P, Q, h
<1>14. CASE s[i].tenant # t
  <2>1. R = P
    BY <1>13, <1>14
  <2>2. /\ h \in [P -> Q] /\ \A k \in Q : \E j \in P : h[j] = k
        /\ \A j, k \in P : j < k => h[j] < h[k]
        /\ \A j \in P : q[h[j]] = s[j]
    <3> HIDE DEF R
    <3> QED
      BY <1>9, <1>10, <1>11, <1>12, <2>1
  <2>3. q \in Seq(S) /\ P \in SUBSET (DOMAIN s) /\ Q \in SUBSET (DOMAIN q)
    BY <1>1, <1>3, <1>4
  <2>4. Selected(q, Q) = Selected(s, P)
    BY <2>2, <2>3, SelectedMoved, SMTT(30)
  <2> QED
    BY <1>3, <1>4, <1>14, <2>4 DEF q
<1>15. CASE s[i].tenant = t
  <2> DEFINE p == Rank(P, i)
  <2>1. i \in P /\ Cardinality(R) = Cardinality(P) - 1
    BY <1>3, <1>13, <1>15, FS_RemoveElement
  <2>2. Cardinality(Q) = Cardinality(R) /\ \A j \in R : Rank(Q, h[j]) = Rank(R, j)
    <3> HIDE DEF R
    <3> QED
      BY <1>4, <1>8, <1>9, <1>10, <1>11, RankMoved
  <2>3. p \in 1 .. Cardinality(P) /\ Place(P, p) = i
    BY <1>3, <2>1, PlaceProperties
  <2>4. ASSUME NEW j \in R
        PROVE  Rank(R, j) = IF Rank(P, j) < p THEN Rank(P, j) ELSE Rank(P, j) - 1
    <3> DEFINE B == {k \in P : k <= j}
               C == {k \in R : k <= j}
    <3>1. IsFiniteSet(B) /\ Rank(P, j) = Cardinality(B) /\ Rank(R, j) = Cardinality(C)
      BY <1>3, FiniteBelow DEF Rank
    <3>2. C = B \ {i}
      OBVIOUS
    <3>3. i \in B <=> i <= j
      BY <2>1
    <3> HIDE DEF B, C
    <3>4. Cardinality(C) = IF i \in B THEN Cardinality(B) - 1 ELSE Cardinality(B)
      BY <3>1, <3>2, FS_RemoveElement
    <3>5. j < i <=> Rank(P, j) < p
      BY <1>3, <2>1, RankGrows
    <3>6. j \in Nat /\ i \in Nat /\ j # i
      BY <1>3, <2>1
    <3> QED
      BY <3>1, <3>3, <3>4, <3>5, <3>6
  <2>5. ASSUME NEW n \in 1 .. (Cardinality(P) - 1)
        PROVE  ByTenant(q, t)[n] = IF n < p THEN ByTenant(s, t)[n] ELSE ByTenant(s, t)[n + 1]
    <3> DEFINE m == IF n < p THEN n ELSE n + 1
               j == Place(P, m)
    <3>1. m \in 1 .. Cardinality(P) /\ m # p /\ n \in 1 .. Cardinality(Q)
          /\ n = IF m < p THEN m ELSE m - 1
      BY <1>3, <2>1, <2>2, <2>3
    <3>2. ByTenant(q, t)[n] = q[Place(Q, n)] /\ ByTenant(s, t)[m] = s[Place(P, m)]
      BY <1>3, <1>4, <3>1
    <3> HIDE DEF m, p
    <3>3. j \in P /\ Rank(P, j) = m
      BY <1>3, <3>1, PlaceProperties
    <3>4. j \in R
      BY <2>3, <3>1, <3>3 DEF p
    <3>5. Rank(R, j) = n
      <4> HIDE DEF j
      <4> QED
        BY <2>4, <3>1, <3>3, <3>4
    <3>6. h[j] \in Q /\ Rank(Q, h[j]) = n
      BY <1>9, <2>2, <3>4, <3>5
    <3>7. Place(Q, n) = h[j]
      BY <1>4, <3>6, PlaceProperties
    <3>8. ByTenant(q, t)[n] = ByTenant(s, t)[m]
      BY <1>12, <3>2, <3>4, <3>7
    <3> QED
      BY <3>8 DEF m
  <2>6. /\ Len(ByTenant(q, t)) = Len(ByTenant(s, t)) - 1
        /\ \A n \in 1 .. (Len(ByTenant(s, t)) - 1) :
             ByTenant(q, t)[n] = IF n < p THEN ByTenant(s, t)[n] ELSE ByTenant(s, t)[n + 1]
    BY <1>3, <1>4, <2>1, <2>2, <2>5
  <2> QED
    BY <1>15, <2>6 DEF q, P
<1> QED
  BY <1>14, <1>15

-----------------------------------------------------------------------------
(* Tenants. *)

\* A write of one kind of resource changes no other tenant's listing of it.
LEMMA OtherTenantsListing ==
  ASSUME Dicts, NEW kind \in Kinds, NEW t, t # accepted',
         \/ \E r \in Resource(kind) : Adds(kind, r)
         \/ \E i \in DOMAIN Dict(kind), r \in Resource(kind) : Puts(kind, i, r)
         \/ \E i \in DOMAIN Dict(kind) : Drops(kind, i)
  PROVE  ByTenant(DictAfter(kind), t) = ByTenant(Dict(kind), t)
<1> DEFINE s == Dict(kind)
<1>1. s \in Seq(Resource(kind))
  BY DEF Dicts, DictsTyped
<1>2. ASSUME NEW r \in Resource(kind), Adds(kind, r)
      PROVE  ByTenant(DictAfter(kind), t) = ByTenant(s, t)
  <2>1. DictAfter(kind) = Append(s, r) /\ r.tenant # t
    BY <1>2 DEF Adds
  <2> HIDE DEF s
  <2> QED
    BY <1>1, <2>1, ListingAppended
<1>3. ASSUME NEW i \in DOMAIN s, NEW r \in Resource(kind), Puts(kind, i, r)
      PROVE  ByTenant(DictAfter(kind), t) = ByTenant(s, t)
  <2>1. DictAfter(kind) = Stored(s, i, r) /\ r.tenant # t /\ r.tenant = s[i].tenant
    BY <1>3 DEF Puts
  <2> HIDE DEF s
  <2> QED
    BY <1>1, <2>1, ListingStored
<1>4. ASSUME NEW i \in DOMAIN s, Drops(kind, i)
      PROVE  ByTenant(DictAfter(kind), t) = ByTenant(s, t)
  <2>1. DictAfter(kind) = RemoveAt(s, i) /\ s[i].tenant # t
    BY <1>4 DEF Drops
  <2> HIDE DEF s
  <2> QED
    BY <1>1, <2>1, ListingRemoved
<1> QED
  BY <1>2, <1>3, <1>4

LEMMA OtherTenantsStay ==
  ASSUME Dicts, [Next]_vars, NEW t, t # accepted', NEW kind \in Kinds
  PROVE  ByTenant(DictAfter(kind), t) = ByTenant(Dict(kind), t)
<1>1. DictsTyped
  BY DEF Dicts
<1>2. CASE Rests
  BY <1>2 DEF Rests
<1>3. ASSUME NEW k \in Kinds,
             \/ \E r \in Resource(k) : Adds(k, r)
             \/ \E i \in DOMAIN Dict(k), r \in Resource(k) : Puts(k, i, r)
             \/ \E i \in DOMAIN Dict(k) : Drops(k, i)
      PROVE  ByTenant(DictAfter(kind), t) = ByTenant(Dict(kind), t)
  <2>1. CASE k = kind
    BY <1>3, <2>1, OtherTenantsListing
  <2>2. CASE k # kind
    <3>1. OthersStay(k)
      BY <1>3 DEF Adds, Puts, Drops
    <3> QED
      BY <2>2, <3>1 DEF OthersStay
  <2> QED
    BY <2>1, <2>2
<1> QED
  BY <1>1, <1>2, <1>3, DictSteps

\* Whatever a request asks for, and whichever of its operations fails, no tenant
\* but that of its token sees a change, and no tenant at all when it is refused.
THEOREM TenantsStayApart == Spec => TenantsApart
<1>1. Dicts /\ [Next]_vars =>
        [\A t \in Tenants : t # accepted' =>
           /\ ByTenant(users', t) = ByTenant(users, t)
           /\ ByTenant(groups', t) = ByTenant(groups, t)]_vars
  <2> SUFFICES ASSUME Dicts, [Next]_vars, NEW t \in Tenants, t # accepted'
               PROVE  /\ ByTenant(users', t) = ByTenant(users, t)
                      /\ ByTenant(groups', t) = ByTenant(groups, t)
    OBVIOUS
  <2>1. "users" \in Kinds /\ "groups" \in Kinds
    BY DEF Kinds
  <2>2. /\ Dict("users") = users /\ DictAfter("users") = users'
        /\ Dict("groups") = groups /\ DictAfter("groups") = groups'
    BY DEF Dict, DictAfter
  <2> QED
    BY <2>1, <2>2, OtherTenantsStay
<1> QED
  BY <1>1, AlwaysKeyed, PTL DEF Spec, TenantsApart

-----------------------------------------------------------------------------
(* Pages. *)

LEMMA MaxOfTwo ==
  ASSUME NEW a \in Int, NEW b \in Int
  PROVE  Max({a, b}) = IF a >= b THEN a ELSE b
<1> DEFINE m == IF a >= b THEN a ELSE b
<1>1. m \in {a, b} /\ \A y \in {a, b} : m >= y
  OBVIOUS
<1>2. \A x \in {a, b} : (\A y \in {a, b} : x >= y) => x = m
  OBVIOUS
<1> HIDE DEF m
<1>3. Max({a, b}) \in {a, b} /\ \A y \in {a, b} : Max({a, b}) >= y
  BY <1>1 DEF Max
<1>4. Max({a, b}) = m
  BY <1>2, <1>3
<1> QED
  BY <1>4 DEF m

LEMMA MinOfTwo ==
  ASSUME NEW a \in Int, NEW b \in Int
  PROVE  Min({a, b}) = IF a <= b THEN a ELSE b
<1> DEFINE m == IF a <= b THEN a ELSE b
<1>1. m \in {a, b} /\ \A y \in {a, b} : m <= y
  OBVIOUS
<1>2. \A x \in {a, b} : (\A y \in {a, b} : x <= y) => x = m
  OBVIOUS
<1> HIDE DEF m
<1>3. Min({a, b}) \in {a, b} /\ \A y \in {a, b} : Min({a, b}) <= y
  BY <1>1 DEF Min
<1>4. Min({a, b}) = m
  BY <1>2, <1>3
<1> QED
  BY <1>4 DEF m

\* startIndex and count are what they should be.
LEMMA PagingBounds ==
  /\ \A start \in Int : /\ StartIndex(start) \in Nat \ {0}
                        /\ start >= 1 => StartIndex(start) = start
                        /\ start <= 1 => StartIndex(start) = 1
  /\ \A count \in Nat \ {0} : Count(count) \in Nat \ {0}
<1>1. ASSUME NEW start \in Int
      PROVE  /\ StartIndex(start) \in Nat \ {0}
             /\ start >= 1 => StartIndex(start) = start
             /\ start <= 1 => StartIndex(start) = 1
  <2>1. StartIndex(start) = IF 1 >= start THEN 1 ELSE start
    BY MaxOfTwo DEF StartIndex
  <2> QED
    BY <2>1
<1>2. ASSUME NEW count \in Nat \ {0} PROVE Count(count) \in Nat \ {0}
  <2>1. Max({0, count}) = IF 0 >= count THEN 0 ELSE count
    BY MaxOfTwo
  <2>2. Max({0, count}) = count
    BY <2>1
  <2>3. MaxPageSize \in Nat \ {0}
    BY ScimAssumption
  <2>4. Min({MaxPageSize, count}) = IF MaxPageSize <= count THEN MaxPageSize ELSE count
    BY <2>3, MinOfTwo
  <2> QED
    BY <2>2, <2>3, <2>4 DEF Count
<1> QED
  BY <1>1, <1>2

\* A page is what the listing has from start on, and empty only at its end.
LEMMA PageProperties ==
  ASSUME NEW S, NEW all \in Seq(S), NEW start \in Nat \ {0}, NEW count \in Nat \ {0}
  PROVE  LET page == Page(all, start, count)
         IN  /\ page \in Seq(S) /\ Len(page) \in Nat /\ DOMAIN page = 1 .. Len(page)
             /\ \A j \in DOMAIN page :
                  start + j - 1 \in DOMAIN all /\ page[j] = all[start + j - 1]
             /\ \A n \in DOMAIN all :
                  n >= start /\ n < start + Len(page) => n - start + 1 \in DOMAIN page
             /\ page = <<>> => \A n \in DOMAIN all : n < start
<1> DEFINE N == Len(all)
           m == IF start - 1 + count <= N THEN start - 1 + count ELSE N
           page == SubSeq(all, start, m)
<1>1. N \in Nat /\ DOMAIN all = 1 .. N /\ \A i \in 1 .. N : all[i] \in S
  BY LenProperties, ElementOfSeq
<1>2. Page(all, start, count) = page
  <2>1. Max({0, start - 1}) = start - 1
    <3>1. Max({0, start - 1}) = IF 0 >= start - 1 THEN 0 ELSE start - 1
      BY MaxOfTwo
    <3> QED
      BY <3>1
  <2>2. (start - 1) + count \in Int /\ (start - 1) + 1 = start
    OBVIOUS
  <2>3. Min({(start - 1) + count, N}) = m
    BY <1>1, <2>2, MinOfTwo
  <2> HIDE DEF m
  <2> QED
    BY <2>1, <2>2, <2>3 DEF Page
<1>3. m \in Int /\ m <= N
  BY <1>1
<1>4. \A i \in start .. m : all[i] \in S
  BY <1>1, <1>3
<1>5. m >= start <=> start <= N
  BY <1>1
<1> HIDE DEF m, N
<1>6. /\ page \in Seq(S)
      /\ Len(page) = IF start <= m THEN m - start + 1 ELSE 0
      /\ \A i \in 1 .. m - start + 1 : page[i] = all[start + i - 1]
  BY <1>3, <1>4, SubSeqProperties
<1> HIDE DEF page
<1>7. Len(page) \in Nat /\ DOMAIN page = 1 .. Len(page)
  BY <1>6, LenProperties
<1>8. \A j \in DOMAIN page : start + j - 1 \in DOMAIN all /\ page[j] = all[start + j - 1]
  BY <1>1, <1>3, <1>6, <1>7
<1>9. \A n \in DOMAIN all : n >= start /\ n < start + Len(page) => n - start + 1 \in DOMAIN page
  BY <1>1, <1>7
<1>10. ASSUME page = <<>>, NEW n \in DOMAIN all PROVE n < start
  <2>1. Len(page) = 0
    BY <1>10
  <2> QED
    BY <1>1, <1>3, <1>5, <1>6, <2>1
<1> QED
  BY <1>2, <1>6, <1>7, <1>8, <1>9, <1>10

-----------------------------------------------------------------------------
(* A client that lists.                                                    *)
(*                                                                         *)
(* Behind its cursor the listing has nothing that it has seen.  As long as *)
(* it is promised anything, it has seen all there is before the cursor; so *)
(* what it is promised is behind the cursor or seen.                       *)

Cursor(start) == StartIndex(start)

Covers(all, cursor, seen, promised) ==
  /\ \A n \in DOMAIN all : n >= cursor => all[n].key \notin ToSet(seen)
  /\ \/ promised = {}
     \/ /\ cursor <= Len(all) + 1
        /\ \A n \in DOMAIN all : n < cursor => all[n].key \in ToSet(seen)
  /\ \A k \in promised : \/ k \in ToSet(seen)
                         \/ \E n \in DOMAIN all : n >= cursor /\ all[n].key = k

Distinct(all) == \A n, m \in DOMAIN all : all[n].key = all[m].key => n = m

\* What is created meanwhile is listed behind the cursor, or before it once nothing
\* is promised, and has not been seen.
LEMMA CoversLonger ==
  ASSUME NEW S, NEW all \in Seq(S), NEW more \in Seq(S), NEW cursor \in Nat, NEW seen,
         NEW promised, Covers(all, cursor, seen, promised),
         Len(more) = Len(all) + 1,
         \A n \in 1 .. Len(all) : more[n] = all[n],
         more[Len(all) + 1].key \notin ToSet(seen)
  PROVE  Covers(more, cursor, seen, promised)
<1>1. /\ Len(all) \in Nat /\ DOMAIN all = 1 .. Len(all)
      /\ DOMAIN more = 1 .. (Len(all) + 1)
  BY LenProperties
<1>2. \A n \in DOMAIN more : n \in DOMAIN all \/ n = Len(all) + 1
  BY <1>1
<1>3. \A n \in DOMAIN all : n \in DOMAIN more /\ more[n] = all[n]
  BY <1>1
<1>4. \A n \in DOMAIN more : n >= cursor => more[n].key \notin ToSet(seen)
  BY <1>2, <1>3 DEF Covers
<1>5. \/ promised = {}
      \/ /\ cursor <= Len(more) + 1
         /\ \A n \in DOMAIN more : n < cursor => more[n].key \in ToSet(seen)
  <2>1. CASE promised # {}
    <3>1. /\ cursor <= Len(all) + 1
          /\ \A n \in DOMAIN all : n < cursor => all[n].key \in ToSet(seen)
      BY <2>1 DEF Covers
    <3>2. cursor <= Len(more) + 1 /\ \A n \in DOMAIN more : n < cursor => n \in DOMAIN all
      BY <1>1, <3>1
    <3> QED
      BY <1>3, <3>1, <3>2
  <2> QED
    BY <2>1
<1>6. \A k \in promised : \/ k \in ToSet(seen)
                          \/ \E n \in DOMAIN more : n >= cursor /\ more[n].key = k
  BY <1>3 DEF Covers
<1> QED
  BY <1>4, <1>5, <1>6 DEF Covers

\* Only keys count.
LEMMA CoversSameKeys ==
  ASSUME NEW S, NEW all \in Seq(S), NEW new \in Seq(S), NEW cursor, NEW seen, NEW promised,
         Covers(all, cursor, seen, promised), Len(new) = Len(all),
         \A n \in 1 .. Len(all) : new[n].key = all[n].key
  PROVE  Covers(new, cursor, seen, promised)
<1>1. DOMAIN all = 1 .. Len(all) /\ DOMAIN new = 1 .. Len(all)
  BY LenProperties
<1>2. \A n \in DOMAIN new : n \in DOMAIN all /\ new[n].key = all[n].key
  BY <1>1
<1> QED
  BY <1>1, <1>2 DEF Covers

\* If what is deleted was seen, nothing is promised any more; if not, it was
\* behind the cursor, or nothing was promised.
LEMMA CoversShorter ==
  ASSUME NEW S, NEW all \in Seq(S), NEW less \in Seq(S), NEW cursor \in Nat, NEW seen,
         NEW promised, Covers(all, cursor, seen, promised), Distinct(all),
         NEW p \in DOMAIN all, Len(less) = Len(all) - 1,
         \A n \in 1 .. (Len(all) - 1) : less[n] = IF n < p THEN all[n] ELSE all[n + 1]
  PROVE  Covers(less, cursor, seen,
                IF all[p].key \in ToSet(seen) THEN {} ELSE promised \ {all[p].key})
<1>1. Len(all) \in Nat /\ DOMAIN all = 1 .. Len(all) /\ DOMAIN less = 1 .. (Len(all) - 1)
  BY LenProperties
<1> DEFINE key == all[p].key
           rest == IF key \in ToSet(seen) THEN {} ELSE promised \ {key}
<1>2. ASSUME NEW n \in DOMAIN less, n >= cursor
      PROVE  less[n].key \notin ToSet(seen)
  <2>1. CASE n < p
    BY <1>1, <1>2, <2>1 DEF Covers
  <2>2. CASE ~(n < p)
    <3>1. n + 1 \in DOMAIN all /\ n + 1 >= cursor /\ less[n] = all[n + 1]
      BY <1>1, <1>2, <2>2
    <3> QED
      BY <3>1 DEF Covers
  <2> QED
    BY <2>1, <2>2
<1>3. ASSUME rest # {}
      PROVE  promised # {} /\ key \notin ToSet(seen) /\ p >= cursor
  <2>1. promised # {} /\ key \notin ToSet(seen)
    BY <1>3
  <2>2. ~(p < cursor)
    BY <2>1 DEF Covers
  <2> QED
    BY <1>1, <2>1, <2>2
<1>4. ASSUME rest # {}, NEW n \in DOMAIN less, n < cursor
      PROVE  less[n].key \in ToSet(seen)
  <2>1. n < p /\ n \in DOMAIN all /\ less[n] = all[n]
    BY <1>1, <1>3, <1>4
  <2> QED
    BY <1>3, <1>4, <2>1 DEF Covers
<1>5. ASSUME NEW k \in rest
      PROVE  k \in ToSet(seen) \/ \E n \in DOMAIN less : n >= cursor /\ less[n].key = k
  <2>1. rest # {} /\ k \in promised /\ k # key
    BY <1>5
  <2>2. CASE k \in ToSet(seen)
    BY <2>2
  <2>3. CASE k \notin ToSet(seen)
    <3>1. PICK n \in DOMAIN all : n >= cursor /\ all[n].key = k
      BY <2>1, <2>3 DEF Covers
    <3>2. n # p
      BY <2>1, <3>1
    <3>3. CASE n < p
      <4>1. n \in DOMAIN less /\ less[n] = all[n]
        BY <1>1, <3>3
      <4> QED
        BY <3>1, <4>1
    <3>4. CASE n > p
      <4>1. /\ n - 1 \in DOMAIN less /\ ~(n - 1 < p) /\ (n - 1) + 1 = n
            /\ n - 1 >= cursor
        BY <1>1, <1>3, <2>1, <3>4
      <4>2. less[n - 1] = all[n]
        BY <1>1, <4>1
      <4> QED
        BY <3>1, <4>1, <4>2
    <3> QED
      BY <1>1, <3>2, <3>3, <3>4
  <2> QED
    BY <2>2, <2>3
<1>6. ASSUME rest # {} PROVE cursor <= Len(less) + 1
  BY <1>1, <1>3, <1>6
<1> QED
  BY <1>2, <1>4, <1>5, <1>6 DEF Covers

LEMMA ToSetOfAppended ==
  ASSUME NEW S, NEW s \in Seq(S), NEW q \in Seq(S)
  PROVE  /\ s \o q \in Seq(S)
         /\ ToSet(s \o q) = ToSet(s) \cup ToSet(q)
         /\ IsInjective(s) /\ IsInjective(q) /\ ToSet(s) \cap ToSet(q) = {}
              => IsInjective(s \o q)
<1> DEFINE m == Len(s)
           n == Len(q)
           w == s \o q
<1>1. /\ m \in Nat /\ n \in Nat /\ DOMAIN s = 1 .. m /\ DOMAIN q = 1 .. n
  BY LenProperties
<1>2. w \in Seq(S) /\ Len(w) = m + n
      /\ \A i \in 1 .. m + n : w[i] = IF i <= m THEN s[i] ELSE q[i - m]
  BY ConcatProperties
<1>3. DOMAIN w = 1 .. (m + n)
  BY <1>2, LenProperties
<1> HIDE DEF m, n, w
<1>4. \A i \in DOMAIN w : \/ i \in DOMAIN s /\ w[i] = s[i]
                          \/ i > m /\ i - m \in DOMAIN q /\ w[i] = q[i - m]
  BY <1>1, <1>2, <1>3
<1>5. /\ \A i \in DOMAIN s : i \in DOMAIN w /\ w[i] = s[i]
      /\ \A i \in DOMAIN q : i + m \in DOMAIN w /\ w[i + m] = q[i]
  <2>1. ASSUME NEW i \in DOMAIN q PROVE i + m \in DOMAIN w /\ w[i + m] = q[i]
    <3>1. i + m \in 1 .. m + n /\ ~(i + m <= m) /\ (i + m) - m = i
      BY <1>1
    <3> QED
      BY <1>2, <1>3, <3>1
  <2> QED
    BY <1>1, <1>2, <1>3, <2>1
<1>6. ToSet(w) = ToSet(s) \cup ToSet(q)
  BY <1>4, <1>5 DEF ToSet
<1>7. ASSUME IsInjective(s), IsInjective(q), ToSet(s) \cap ToSet(q) = {}
      PROVE  IsInjective(w)
  <2> SUFFICES ASSUME NEW i \in DOMAIN w, NEW j \in DOMAIN w, w[i] = w[j]
               PROVE  i = j
    BY DEF IsInjective
  <2>1. \A k \in DOMAIN s, l \in DOMAIN q : s[k] # q[l]
    BY <1>7 DEF ToSet
  <2>2. CASE i \in DOMAIN s /\ w[i] = s[i]
    BY <1>4, <1>7, <2>1, <2>2 DEF IsInjective
  <2>3. CASE i > m /\ i - m \in DOMAIN q /\ w[i] = q[i - m]
    <3>1. j > m /\ j - m \in DOMAIN q /\ w[j] = q[j - m]
      BY <1>4, <2>1, <2>3
    <3>2. i - m = j - m
      BY <1>7, <2>3, <3>1 DEF IsInjective
    <3> QED
      BY <1>1, <1>3, <3>2
  <2> QED
    BY <1>4, <2>2, <2>3
<1> QED
  BY <1>2, <1>6, <1>7 DEF w

Keys(page) == [i \in DOMAIN page |-> page[i].key]

\* A page has what was behind the cursor next; once the listing ends, everything
\* that is promised has been seen.
LEMMA CoversPage ==
  ASSUME NEW S, NEW all \in Seq(S), NEW cursor \in Nat \ {0}, NEW count \in Nat \ {0},
         NEW seen \in Seq(Nat), NEW promised, Distinct(all),
         \A n \in DOMAIN all : all[n].key \in Nat,
         IsInjective(seen), Covers(all, cursor, seen, promised)
  PROVE  LET page == Page(all, cursor, count)
             now == seen \o Keys(page)
             next == cursor + Len(page)
         IN  /\ next \in Nat /\ next >= 1
             /\ now \in Seq(Nat) /\ IsInjective(now)
             /\ \A k \in ToSet(now) : \/ k \in ToSet(seen)
                                      \/ \E n \in DOMAIN all : k = all[n].key
             /\ Covers(all, next, now, promised)
             /\ page = <<>> \/ next > Len(all) => promised \subseteq ToSet(now)
<1> DEFINE page == Page(all, cursor, count)
           keys == Keys(page)
           now == seen \o keys
           next == cursor + Len(page)
<1>1. Len(all) \in Nat /\ DOMAIN all = 1 .. Len(all)
  BY LenProperties
<1>2. /\ page \in Seq(S) /\ Len(page) \in Nat /\ DOMAIN page = 1 .. Len(page)
      /\ \A j \in DOMAIN page : cursor + j - 1 \in DOMAIN all /\ page[j] = all[cursor + j - 1]
      /\ \A n \in DOMAIN all : n >= cursor /\ n < cursor + Len(page) => n - cursor + 1 \in DOMAIN page
      /\ page = <<>> => \A n \in DOMAIN all : n < cursor
  BY PageProperties
<1> HIDE DEF page
<1>3. /\ next \in Nat /\ next >= 1 /\ next >= cursor
      /\ \A j \in DOMAIN page : cursor + j - 1 >= cursor /\ cursor + j - 1 < next
  BY <1>2
<1>4. /\ DOMAIN keys = DOMAIN page
      /\ \A j \in DOMAIN page : keys[j] = all[cursor + j - 1].key /\ keys[j] \in Nat
      /\ keys = [j \in DOMAIN page |-> keys[j]]
  BY <1>2 DEF Keys
<1>5. keys \in Seq(Nat)
  <2>1. keys \in [1 .. Len(page) -> Nat]
    BY <1>2, <1>4
  <2>2. Len(page) \in Nat
    BY <1>2
  <2> HIDE DEF keys
  <2> QED
    BY <2>1, <2>2
<1> HIDE DEF keys, next
<1>6. \A n \in DOMAIN all : n >= cursor /\ n < next => all[n].key \in ToSet(keys)
  <2> SUFFICES ASSUME NEW n \in DOMAIN all, n >= cursor, n < next
               PROVE  all[n].key \in ToSet(keys)
    OBVIOUS
  <2>1. n - cursor + 1 \in DOMAIN page /\ cursor + (n - cursor + 1) - 1 = n
    BY <1>1, <1>2 DEF next
  <2>2. keys[n - cursor + 1] = all[n].key
    BY <1>4, <2>1
  <2> QED
    BY <1>4, <2>1, <2>2 DEF ToSet
<1>7. \A k \in ToSet(keys) : \E n \in DOMAIN all : n >= cursor /\ n < next /\ k = all[n].key
  <2> SUFFICES ASSUME NEW k \in ToSet(keys)
               PROVE  \E n \in DOMAIN all : n >= cursor /\ n < next /\ k = all[n].key
    OBVIOUS
  <2>1. PICK j \in DOMAIN page : k = keys[j]
    BY <1>4 DEF ToSet
  <2>2. cursor + j - 1 \in DOMAIN all /\ k = all[cursor + j - 1].key
    BY <1>2, <1>4, <2>1
  <2> QED
    BY <1>3, <2>2
<1>8. IsInjective(keys)
  <2> SUFFICES ASSUME NEW i \in DOMAIN page, NEW j \in DOMAIN page, keys[i] = keys[j]
               PROVE  i = j
    BY <1>4 DEF IsInjective
  <2>1. /\ cursor + i - 1 \in DOMAIN all /\ cursor + j - 1 \in DOMAIN all
        /\ all[cursor + i - 1].key = all[cursor + j - 1].key
    BY <1>2, <1>4
  <2>2. \A k, l \in DOMAIN all : all[k].key = all[l].key => k = l
    BY DEF Distinct
  <2>3. cursor + i - 1 = cursor + j - 1
    BY <2>1, <2>2
  <2> QED
    BY <1>2, <2>3
<1>9. ToSet(seen) \cap ToSet(keys) = {}
  BY <1>7 DEF Covers
<1>10. /\ now \in Seq(Nat) /\ ToSet(now) = ToSet(seen) \cup ToSet(keys)
       /\ IsInjective(now)
  BY <1>5, <1>8, <1>9, ToSetOfAppended
<1> HIDE DEF now
<1>11. ASSUME NEW n \in DOMAIN all, n >= next
       PROVE  all[n].key \notin ToSet(now)
  <2>1. all[n].key \notin ToSet(seen)
    BY <1>1, <1>3, <1>11 DEF Covers
  <2>2. all[n].key \notin ToSet(keys)
    <3>1. \A l \in DOMAIN all : l < next => l # n
      BY <1>1, <1>3, <1>11
    <3> QED
      BY <1>7, <3>1 DEF Distinct
  <2> QED
    BY <1>10, <2>1, <2>2
<1>12. ASSUME promised # {}
       PROVE  /\ next <= Len(all) + 1
              /\ \A n \in DOMAIN all : n < next => all[n].key \in ToSet(now)
  <2>1. /\ cursor <= Len(all) + 1
        /\ \A n \in DOMAIN all : n < cursor => all[n].key \in ToSet(seen)
    BY <1>12 DEF Covers
  <2>2. next <= Len(all) + 1
    <3>1. CASE Len(page) = 0
      BY <1>1, <2>1, <3>1 DEF next
    <3>2. CASE Len(page) # 0
      <4>1. Len(page) \in DOMAIN page
        BY <1>2, <3>2
      <4>2. cursor + Len(page) - 1 \in DOMAIN all
        BY <1>2, <4>1
      <4> QED
        BY <1>1, <1>2, <4>2 DEF next
    <3> QED
      BY <3>1, <3>2
  <2>3. ASSUME NEW n \in DOMAIN all, n < next PROVE all[n].key \in ToSet(now)
    <3>1. n < cursor \/ n >= cursor
      BY <1>1
    <3> QED
      BY <1>6, <1>10, <2>1, <2>3, <3>1
  <2> QED
    BY <2>2, <2>3
<1>13. ASSUME NEW k \in promised
       PROVE  \/ k \in ToSet(now)
              \/ \E n \in DOMAIN all : n >= next /\ all[n].key = k
  <2>1. CASE k \in ToSet(seen)
    BY <1>10, <2>1
  <2>2. CASE k \notin ToSet(seen)
    <3>1. PICK n \in DOMAIN all : n >= cursor /\ all[n].key = k
      BY <1>13, <2>2 DEF Covers
    <3>2. n < next \/ n >= next
      BY <1>1, <1>3
    <3> QED
      BY <1>6, <1>10, <3>1, <3>2
  <2> QED
    BY <2>1, <2>2
<1>14. Covers(all, next, now, promised)
  BY <1>11, <1>12, <1>13 DEF Covers
<1>15. ASSUME page = <<>> \/ next > Len(all), NEW k \in promised
       PROVE  k \in ToSet(now)
  <2>1. \A n \in DOMAIN all : ~(n >= next)
    BY <1>1, <1>2, <1>3, <1>15
  <2> QED
    BY <1>13, <2>1
<1>16. \A k \in ToSet(now) : k \in ToSet(seen) \/ \E n \in DOMAIN all : k = all[n].key
  BY <1>7, <1>10
<1> QED
  BY <1>3, <1>10, <1>14, <1>15, <1>16 DEF page, keys, now, next

\* A client that lists dict s, of which d keys were drawn: w is where it stands.
Follows(w, s, d) ==
  /\ w \in Walk
  /\ w.count # 0
  /\ IsInjective(w.seen) /\ ToSet(w.seen) \subseteq 1 .. d
  /\ Covers(ByTenant(s, w.tenant), Cursor(w.start), w.seen, w.promised)
  /\ w.pc = "listed" => w.promised \subseteq ToSet(w.seen)

WalkInv == walk # Idle => Follows(walk, Dict(walk.kind), drawn[walk.kind])

LEMMA WalkFields ==
  ASSUME NEW w \in Walk
  PROVE  /\ w.pc \in {"list", "listed"} /\ w.kind \in Kinds /\ w.tenant \in Tenants
         /\ w.start \in Int /\ w.count \in Nat /\ w.seen \in Seq(Nat)
         /\ w.promised \in SUBSET Nat
         /\ Cursor(w.start) \in Nat \ {0}
<1>1. /\ w.pc \in {"list", "listed"} /\ w.kind \in Kinds /\ w.tenant \in Tenants
      /\ w.start \in Int /\ w.count \in Nat /\ w.seen \in Seq(Nat)
      /\ w.promised \in SUBSET Nat
  BY DEF Walk, Kinds
<1> QED
  BY <1>1, PagingBounds DEF Cursor

LEMMA WalkAfter ==
  ASSUME walk' # Idle => Follows(walk', DictAfter(walk'.kind), drawn'[walk'.kind])
  PROVE  WalkInv'
BY DEF WalkInv, DictAfter, Dict

\* A tenant's listing has resources of the tenant's dict, each under a key of its own.
LEMMA ListingOfDict ==
  ASSUME Dicts, NEW kind \in Kinds, NEW t
  PROVE  LET all == ByTenant(Dict(kind), t)
         IN  /\ all \in Seq(Resource(kind)) /\ Distinct(all)
             /\ \A n \in DOMAIN all : all[n].key \in 1 .. drawn[kind]
<1> DEFINE s == Dict(kind)
           P == TenantPlaces(s, t)
           all == ByTenant(s, t)
<1>1. s \in Seq(Resource(kind))
  BY DEF Dicts, DictsTyped
<1>2. /\ \A i \in DOMAIN s : s[i].key \in 1 .. drawn[kind]
      /\ \A i, j \in DOMAIN s : s[i].key = s[j].key => i = j
  BY DEF Dicts, KeysDrawn
<1> HIDE DEF s
<1>3. /\ P \in SUBSET (DOMAIN s) /\ P \in SUBSET Nat /\ IsFiniteSet(P)
      /\ all \in Seq(Resource(kind)) /\ DOMAIN all = 1 .. Cardinality(P)
      /\ \A n \in 1 .. Cardinality(P) : Place(P, n) \in P /\ all[n] = s[Place(P, n)]
  BY <1>1, ListingProperties
<1> HIDE DEF P, all
<1>4. \A n \in 1 .. Cardinality(P) : Place(P, n) \in P /\ Rank(P, Place(P, n)) = n
  BY <1>3, PlaceProperties
<1>5. \A n, m \in DOMAIN all : all[n].key = all[m].key => n = m
  <2> SUFFICES ASSUME NEW n \in DOMAIN all, NEW m \in DOMAIN all, all[n].key = all[m].key
               PROVE  n = m
    OBVIOUS
  <2>1. Place(P, n) \in DOMAIN s /\ Place(P, m) \in DOMAIN s
        /\ s[Place(P, n)].key = s[Place(P, m)].key
    BY <1>3
  <2>2. Place(P, n) = Place(P, m)
    BY <1>2, <2>1
  <2> QED
    BY <1>3, <1>4, <2>2
<1>6. \A n \in DOMAIN all : all[n].key \in 1 .. drawn[kind]
  BY <1>2, <1>3
<1> QED
  BY <1>3, <1>5, <1>6 DEF Distinct, all, s

\* A client that lists one kind does not see the other.
LEMMA OtherKindFollows ==
  ASSUME Dicts, WalkInv, walk # Idle, walk' = walk, NEW kind \in Kinds, kind # walk.kind,
         OthersStay(kind), drawn' = drawn \/ \E n : drawn' = [drawn EXCEPT ![kind] = n]
  PROVE  WalkInv'
<1>1. Follows(walk, Dict(walk.kind), drawn[walk.kind]) /\ walk \in Walk
  BY DEF WalkInv, Follows
<1>2. walk.kind \in Kinds
  BY <1>1, WalkFields
<1>3. DictAfter(walk.kind) = Dict(walk.kind)
  BY <1>2 DEF OthersStay
<1>4. drawn'[walk.kind] = drawn[walk.kind]
  <2>1. drawn \in [Kinds -> Nat]
    BY DEF Dicts, DictsTyped
  <2> QED
    BY <1>2, <2>1
<1>5. Follows(walk', DictAfter(walk'.kind), drawn'[walk'.kind])
  BY <1>1, <1>3, <1>4
<1> QED
  BY <1>5, WalkAfter

LEMMA AddsFollows ==
  ASSUME Dicts, WalkInv, NEW kind \in Kinds, NEW r \in Resource(kind), Adds(kind, r)
  PROVE  WalkInv'
<1>1. /\ r.key = drawn[kind] + 1 /\ drawn' = [drawn EXCEPT ![kind] = r.key]
      /\ DictAfter(kind) = Append(Dict(kind), r) /\ walk' = walk /\ OthersStay(kind)
  BY DEF Adds
<1>2. CASE walk = Idle
  BY <1>1, <1>2, WalkAfter
<1>3. CASE walk # Idle /\ walk.kind # kind
  BY <1>1, <1>3, OtherKindFollows
<1>4. CASE walk # Idle /\ walk.kind = kind
  <2> DEFINE t == walk.tenant
             s == Dict(kind)
             q == Append(s, r)
             all == ByTenant(s, t)
             more == ByTenant(q, t)
  <2>1. Follows(walk, s, drawn[kind]) /\ walk \in Walk
    BY <1>4 DEF WalkInv, Follows
  <2>2. /\ s \in Seq(Resource(kind)) /\ drawn[kind] \in Nat
        /\ drawn'[kind] = drawn[kind] + 1
    BY <1>1 DEF Dicts, DictsTyped
  <2> HIDE DEF s
  <2>3. q \in Seq(Resource(kind))
    BY <2>2, AppendedProperties
  <2> HIDE DEF q
  <2>4. all \in Seq(Resource(kind)) /\ more \in Seq(Resource(kind))
    BY <2>2, <2>3, ListingProperties
  <2>5. /\ IsInjective(walk.seen) /\ ToSet(walk.seen) \subseteq 1 .. drawn[kind]
        /\ Covers(all, Cursor(walk.start), walk.seen, walk.promised)
        /\ walk.count # 0
        /\ walk.pc = "listed" => walk.promised \subseteq ToSet(walk.seen)
    BY <2>1 DEF Follows
  <2>6. Cursor(walk.start) \in Nat
    BY <2>1, WalkFields
  <2>7. Covers(more, Cursor(walk.start), walk.seen, walk.promised)
    <3>1. CASE r.tenant # t
      <4>1. more = all
        BY <2>2, <3>1, ListingAppended DEF q
      <4> QED
        BY <2>5, <4>1
    <3>2. CASE r.tenant = t
      <4>1. /\ Len(more) = Len(all) + 1
            /\ \A n \in 1 .. Len(all) : more[n] = all[n]
            /\ more[Len(all) + 1] = r
        BY <2>2, <3>2, ListingAppended DEF q
      <4>2. r.key \notin ToSet(walk.seen)
        BY <1>1, <2>2, <2>5
      <4> HIDE DEF all, more
      <4>3. more[Len(all) + 1].key \notin ToSet(walk.seen)
        BY <4>1, <4>2
      <4> QED
        BY <2>4, <2>5, <2>6, <4>1, <4>3, CoversLonger
    <3> QED
      BY <3>1, <3>2
  <2>8. ToSet(walk.seen) \subseteq 1 .. (drawn[kind] + 1)
    BY <2>2, <2>5
  <2>9. Follows(walk, q, drawn'[kind])
    BY <2>1, <2>2, <2>5, <2>7, <2>8 DEF Follows
  <2> QED
    BY <1>1, <1>4, <2>9, WalkAfter DEF q, s
<1> QED
  BY <1>2, <1>3, <1>4

LEMMA PutsFollows ==
  ASSUME Dicts, WalkInv, NEW kind \in Kinds, NEW i \in DOMAIN Dict(kind),
         NEW r \in Resource(kind), Puts(kind, i, r)
  PROVE  WalkInv'
<1>1. /\ r.tenant = Dict(kind)[i].tenant /\ r.key = Dict(kind)[i].key
      /\ drawn' = drawn /\ DictAfter(kind) = Stored(Dict(kind), i, r)
      /\ walk' = walk /\ OthersStay(kind)
  BY DEF Puts
<1>2. CASE walk = Idle
  BY <1>1, <1>2, WalkAfter
<1>3. CASE walk # Idle /\ walk.kind # kind
  BY <1>1, <1>3, OtherKindFollows
<1>4. CASE walk # Idle /\ walk.kind = kind
  <2> DEFINE t == walk.tenant
             s == Dict(kind)
             q == Stored(s, i, r)
             all == ByTenant(s, t)
             new == ByTenant(q, t)
  <2>1. Follows(walk, s, drawn[kind])
    BY <1>4 DEF WalkInv
  <2>2. s \in Seq(Resource(kind)) /\ i \in DOMAIN s /\ r.tenant = s[i].tenant
        /\ r.key = s[i].key
    BY <1>1 DEF Dicts, DictsTyped
  <2> HIDE DEF s
  <2>3. q \in Seq(Resource(kind))
    BY <2>2, StoredProperties
  <2>4. Len(new) = Len(all) /\ \A n \in 1 .. Len(all) : new[n].key = all[n].key
    BY <2>2, ListingStored
  <2> HIDE DEF q
  <2>5. all \in Seq(Resource(kind)) /\ new \in Seq(Resource(kind))
    BY <2>2, <2>3, ListingProperties
  <2> HIDE DEF all, new
  <2>6. Covers(all, Cursor(walk.start), walk.seen, walk.promised)
    BY <2>1 DEF Follows, all
  <2>7. Covers(new, Cursor(walk.start), walk.seen, walk.promised)
    BY <2>4, <2>5, <2>6, CoversSameKeys
  <2>8. Follows(walk, q, drawn'[kind])
    BY <1>1, <2>1, <2>7 DEF Follows, new
  <2> QED
    BY <1>1, <1>4, <2>8, WalkAfter DEF q, s
<1> QED
  BY <1>2, <1>3, <1>4

LEMMA DropsFollows ==
  ASSUME Dicts, WalkInv, NEW kind \in Kinds, NEW i \in DOMAIN Dict(kind), Drops(kind, i)
  PROVE  WalkInv'
<1> DEFINE t == Dict(kind)[i].tenant
           key == Dict(kind)[i].key
<1>1. /\ drawn' = drawn /\ DictAfter(kind) = RemoveAt(Dict(kind), i)
      /\ walk' = AfterDelete(kind, t, key) /\ OthersStay(kind)
  BY DEF Drops
<1>2. CASE walk = Idle
  BY <1>1, <1>2, WalkAfter DEF AfterDelete
<1>3. CASE walk # Idle /\ walk.kind # kind
  BY <1>1, <1>3, OtherKindFollows DEF AfterDelete
<1>4. CASE walk # Idle /\ walk.kind = kind
  <2> DEFINE s == Dict(kind)
             q == RemoveAt(s, i)
             all == ByTenant(s, walk.tenant)
             less == ByTenant(q, walk.tenant)
  <2>1. Follows(walk, s, drawn[kind]) /\ walk \in Walk
    BY <1>4 DEF WalkInv, Follows
  <2>2. s \in Seq(Resource(kind)) /\ i \in DOMAIN s
    BY DEF Dicts, DictsTyped
  <2>3. Distinct(all)
    BY ListingOfDict
  <2>4. t = s[i].tenant /\ key = s[i].key
    OBVIOUS
  <2> HIDE DEF s, t, key
  <2>5. q \in Seq(Resource(kind))
    BY <2>2, RemoveAtProperties
  <2> HIDE DEF q
  <2>6. all \in Seq(Resource(kind)) /\ less \in Seq(Resource(kind))
    BY <2>2, <2>5, ListingProperties
  <2>7. /\ walk.count # 0
        /\ IsInjective(walk.seen) /\ ToSet(walk.seen) \subseteq 1 .. drawn[kind]
        /\ Covers(all, Cursor(walk.start), walk.seen, walk.promised)
        /\ walk.pc = "listed" => walk.promised \subseteq ToSet(walk.seen)
    BY <2>1 DEF Follows
  <2>8. CASE t # walk.tenant
    <3>1. less = all
      BY <2>2, <2>4, <2>8, ListingRemoved DEF q
    <3>2. walk' = walk
      BY <1>1, <2>8 DEF AfterDelete
    <3>3. Follows(walk, q, drawn[kind])
      BY <2>1, <2>7, <3>1 DEF Follows
    <3> QED
      BY <1>1, <1>4, <3>2, <3>3, WalkAfter DEF q, s
  <2>9. CASE t = walk.tenant
    <3> DEFINE p == Rank(TenantPlaces(s, walk.tenant), i)
               rest == IF key \in ToSet(walk.seen) THEN {} ELSE walk.promised \ {key}
    <3>1. p \in DOMAIN all /\ all[p] = s[i]
      BY <2>2, <2>4, <2>9, Listed
    <3>2. /\ Len(less) = Len(all) - 1
          /\ \A n \in 1 .. (Len(all) - 1) : less[n] = IF n < p THEN all[n] ELSE all[n + 1]
      BY <2>2, <2>4, <2>9, ListingRemoved DEF q
    <3> HIDE DEF p, all, less
    <3>3. Cursor(walk.start) \in Nat
      BY <2>1, WalkFields
    <3>4. Covers(less, Cursor(walk.start), walk.seen,
                 IF all[p].key \in ToSet(walk.seen) THEN {} ELSE walk.promised \ {all[p].key})
      BY <2>3, <2>6, <2>7, <3>1, <3>2, <3>3, CoversShorter
    <3>5. Covers(less, Cursor(walk.start), walk.seen, rest)
      BY <2>4, <3>1, <3>4
    <3>6. walk' = [walk EXCEPT !.promised = rest]
      BY <1>1, <1>4, <2>9 DEF AfterDelete
    <3>7. rest \in SUBSET walk.promised
      OBVIOUS
    <3> HIDE DEF rest
    <3>8. /\ walk' \in Walk /\ walk'.kind = walk.kind /\ walk'.tenant = walk.tenant
          /\ walk'.start = walk.start /\ walk'.count = walk.count
          /\ walk'.seen = walk.seen /\ walk'.promised = rest /\ walk'.pc = walk.pc
      BY <2>1, <3>6, <3>7 DEF Walk
    <3>9. Follows(walk', q, drawn[kind])
      BY <2>7, <3>5, <3>7, <3>8 DEF Follows, less
    <3> QED
      BY <1>1, <1>4, <3>8, <3>9, WalkAfter DEF q, s
  <2> QED
    BY <2>8, <2>9
<1> QED
  BY <1>2, <1>3, <1>4

\* The client asks for its first page.
LEMMA BeginFollows ==
  ASSUME Dicts, NEW kind \in Kinds, NEW t \in Tenants, NEW start \in FirstIndexes,
         NEW count \in Counts, BeginWalk(kind, t, start, count)
  PROVE  WalkInv'
<1> DEFINE all == ByTenant(Dict(kind), t)
           promised == {r.key : r \in ToSet(all)}
           w == [pc |-> "list", kind |-> kind, tenant |-> t, start |-> start,
                 count |-> count, seen |-> <<>>, promised |-> promised]
<1>1. /\ walk' = w /\ users' = users /\ groups' = groups /\ drawn' = drawn
  BY DEF BeginWalk
<1>2. /\ all \in Seq(Resource(kind))
      /\ \A n \in DOMAIN all : all[n].key \in 1 .. drawn[kind]
  BY ListingOfDict
<1>3. drawn[kind] \in Nat
  BY DEF Dicts, DictsTyped
<1>4. start \in Int /\ start <= 1 /\ count \in Nat /\ count # 0
  BY ScimAssumption
<1>5. Cursor(start) = 1
  BY <1>4, PagingBounds DEF Cursor
<1>6. Len(all) \in Nat /\ DOMAIN all = 1 .. Len(all)
  BY <1>2, LenProperties
<1> HIDE DEF all
<1>7. /\ promised \in SUBSET Nat
      /\ \A k \in promised : \E n \in DOMAIN all : all[n].key = k
  BY <1>2, <1>3 DEF ToSet
<1> HIDE DEF promised
<1>8. /\ <<>> \in Seq(Nat) /\ ToSet(<<>>) = {} /\ IsInjective(<<>>)
  BY DEF ToSet, IsInjective
<1>9. Covers(all, 1, <<>>, promised)
  <2>1. /\ \A n \in DOMAIN all : all[n].key \notin ToSet(<<>>)
        /\ 1 <= Len(all) + 1 /\ \A n \in DOMAIN all : ~(n < 1) /\ n >= 1
    BY <1>6, <1>8
  <2> QED
    BY <1>7, <2>1 DEF Covers
<1>10. w \in Walk
  BY <1>4, <1>7, <1>8 DEF Walk, Kinds
<1>11. /\ w.count = count /\ w.seen = <<>> /\ w.tenant = t /\ w.start = start
       /\ w.promised = promised /\ w.pc = "list" /\ w.kind = kind
  OBVIOUS
<1> HIDE DEF w
<1>12. Follows(w, Dict(kind), drawn[kind])
  BY <1>4, <1>5, <1>8, <1>9, <1>10, <1>11 DEF Follows, all
<1>13. DictAfter(kind) = Dict(kind)
  BY <1>1 DEF DictAfter, Dict
<1> QED
  BY <1>1, <1>11, <1>12, <1>13, WalkAfter

\* The client gets a page.
LEMMA PageFollows ==
  ASSUME Dicts, WalkInv, walk # Idle, ListPage
  PROVE  WalkInv'
<1> DEFINE kind == walk.kind
           seen == walk.seen
           promised == walk.promised
           all == ByTenant(Dict(kind), walk.tenant)
           cursor == Cursor(walk.start)
           count == Count(walk.count)
           page == Page(all, cursor, count)
           now == seen \o Keys(page)
           next == cursor + Len(page)
           pc == IF page = <<>> \/ next > Len(all) THEN "listed" ELSE "list"
<1>1. /\ walk' = [walk EXCEPT !.pc = pc, !.start = next, !.seen = now]
      /\ users' = users /\ groups' = groups /\ drawn' = drawn
  BY DEF ListPage, Cursor, Keys
<1>2. Follows(walk, Dict(kind), drawn[kind]) /\ walk \in Walk
  BY DEF WalkInv, Follows
<1>3. /\ kind \in Kinds /\ walk.count \in Nat \ {0} /\ seen \in Seq(Nat)
      /\ cursor \in Nat \ {0}
  BY <1>2, WalkFields DEF Follows
<1>4. count \in Nat \ {0}
  BY <1>3, PagingBounds
<1>5. /\ all \in Seq(Resource(kind)) /\ Distinct(all)
      /\ \A n \in DOMAIN all : all[n].key \in 1 .. drawn[kind]
  BY <1>3, ListingOfDict
<1>6. /\ IsInjective(seen) /\ ToSet(seen) \subseteq 1 .. drawn[kind]
      /\ Covers(all, cursor, seen, promised)
  BY <1>2 DEF Follows
<1>7. drawn[kind] \in Nat
  BY <1>3 DEF Dicts, DictsTyped
<1> HIDE DEF all, cursor, count, seen, promised, kind
<1>8. \A n \in DOMAIN all : all[n].key \in Nat
  BY <1>5, <1>7
<1>9. /\ next \in Nat /\ next >= 1
      /\ now \in Seq(Nat) /\ IsInjective(now)
      /\ \A k \in ToSet(now) : \/ k \in ToSet(seen)
                               \/ \E n \in DOMAIN all : k = all[n].key
      /\ Covers(all, next, now, promised)
      /\ page = <<>> \/ next > Len(all) => promised \subseteq ToSet(now)
  BY <1>3, <1>4, <1>5, <1>6, <1>8, CoversPage
<1>10. ToSet(now) \subseteq 1 .. drawn[kind]
  BY <1>5, <1>6, <1>9
<1>11. pc \in {"list", "listed"}
       /\ (pc = "listed" => promised \subseteq ToSet(now))
  BY <1>9
<1> HIDE DEF pc, next, now, page
<1>12. Cursor(next) = next
  BY <1>9, PagingBounds DEF Cursor
<1> DEFINE w == [walk EXCEPT !.pc = pc, !.start = next, !.seen = now]
<1>13. w \in Walk
  <2>1. [walk EXCEPT !.pc = pc] \in Walk
    BY <1>2, <1>11 DEF Walk
  <2>2. next \in Int
    BY <1>9
  <2>3. [walk EXCEPT !.pc = pc, !.start = next] \in Walk
    BY <2>1, <2>2 DEF Walk
  <2> QED
    BY <1>9, <2>3 DEF Walk
<1>14. /\ w.pc = pc /\ w.start = next /\ w.seen = now
       /\ w.kind = walk.kind /\ w.tenant = walk.tenant /\ w.count = walk.count
       /\ w.promised = walk.promised
  BY <1>2 DEF Walk
<1>15. walk' = w
  BY <1>1
<1> HIDE DEF w
<1>16. Follows(w, Dict(kind), drawn[kind])
  BY <1>3, <1>9, <1>10, <1>11, <1>12, <1>13, <1>14 DEF Follows, all, promised
<1>17. DictAfter(kind) = Dict(kind)
  BY <1>1 DEF DictAfter, Dict
<1> QED
  BY <1>1, <1>14, <1>15, <1>16, <1>17, WalkAfter DEF kind

LEMMA RestsFollows ==
  ASSUME Dicts, WalkInv, Rests
  PROVE  WalkInv'
<1>1. drawn' = drawn /\ (walk # Idle => DictAfter(walk.kind) = Dict(walk.kind))
  <2>1. walk # Idle => walk.kind \in Kinds
    BY WalkFields DEF WalkInv, Follows
  <2> QED
    BY <2>1 DEF Rests
<1>2. CASE walk' = walk
  BY <1>1, <1>2, WalkAfter DEF WalkInv
<1>3. ASSUME NEW kind \in {"users", "groups"}, NEW t \in Tenants, NEW start \in FirstIndexes,
             NEW count \in Counts, BeginWalk(kind, t, start, count)
      PROVE  WalkInv'
  <2>1. kind \in Kinds
    BY DEF Kinds
  <2> QED
    BY <1>3, <2>1, BeginFollows
<1>4. CASE ListPage
  <2>1. walk.pc = "list"
    BY <1>4 DEF ListPage
  <2>2. walk # Idle
    BY <2>1 DEF Idle
  <2> QED
    BY <1>4, <2>2, PageFollows
<1>5. CASE EndWalk
  BY <1>5, WalkAfter DEF EndWalk
<1> QED
  BY <1>2, <1>3, <1>4, <1>5 DEF Rests, Lists

LEMMA WalkStep ==
  ASSUME Dicts, WalkInv, [Next]_vars
  PROVE  WalkInv'
<1>1. DictsTyped
  BY DEF Dicts
<1> QED
  BY <1>1, DictSteps, AddsFollows, PutsFollows, DropsFollows, RestsFollows

\* What a client that lists has seen and is still promised fits its cursor, however
\* resources are created, replaced and deleted between its pages.
THEOREM AlwaysCovered == Spec => []WalkInv
<1>1. Init => WalkInv
  BY DEF Init, WalkInv
<1>2. Dicts /\ WalkInv /\ [Next]_vars => WalkInv'
  BY WalkStep
<1> QED
  BY <1>1, <1>2, AlwaysKeyed, PTL DEF Spec

\* A client that follows the pages to the end sees nothing twice and misses nothing
\* that was there all along, unless something it had seen is deleted.
COROLLARY PagesCover == Spec => []PagesCoverTheListing
<1>1. WalkInv => PagesCoverTheListing
  BY DEF WalkInv, Follows, PagesCoverTheListing
<1> QED
  BY <1>1, AlwaysCovered, PTL

-----------------------------------------------------------------------------
(* Types. *)

HistoryTyped ==
  /\ renamed \subseteq Nat /\ repeated \subseteq Nat
  /\ accepted \in Tenants \cup {Refused}

\* A resource that a request finds has a number for its key.
LEMMA KeyFound ==
  ASSUME Dicts, NEW kind \in Kinds, NEW t, NEW key, NEW i \in At(Dict(kind), t, key)
  PROVE  key \in Nat
<1>1. i \in DOMAIN Dict(kind) /\ Dict(kind)[i].key = key
  BY DEF At
<1> QED
  BY <1>1, DictFields DEF Dicts

LEMMA HistoryStep ==
  ASSUME Dicts, HistoryTyped, [Next]_vars
  PROVE  HistoryTyped'
<1>1. /\ DictsTyped /\ Dicts'
      /\ "users" \in Kinds /\ "groups" \in Kinds
      /\ Dict("users") = users /\ Dict("groups") = groups
  BY DictsStep DEF Dicts, Kinds, Dict
<1>2. drawn'["groups"] \in Nat
  BY <1>1 DEF Dicts, DictsTyped
<1>3. accepted' \in Tenants \cup {Refused}
  <2>1. ASSUME NEW kind \in Kinds, NEW r \in Resource(kind),
               Adds(kind, r) \/ \E i \in DOMAIN Dict(kind) : Puts(kind, i, r)
        PROVE  accepted' \in Tenants
    <3>1. r.tenant \in Tenants /\ accepted' = r.tenant
      BY <2>1 DEF Resource, User, Group, Adds, Puts
    <3> QED
      BY <3>1
  <2>2. ASSUME NEW kind \in Kinds, NEW i \in DOMAIN Dict(kind), Drops(kind, i)
        PROVE  accepted' \in Tenants
    BY <1>1, <2>2, DictFields DEF Drops
  <2>3. CASE Rests
    BY <2>3 DEF Rests, HistoryTyped
  <2> QED
    BY <1>1, <2>1, <2>2, <2>3, DictSteps
<1>4. \A t, key : /\ At(users, t, key) # {} => key \in Nat
                  /\ At(groups, t, key) # {} => key \in Nat
  BY <1>1, KeyFound
<1>5. ASSUME NEW t \in Tenants, UserWrites(t)
      PROVE  repeated' = repeated /\ renamed' \subseteq Nat
  <2>1. CASE \E name \in Names : CreateUser(t, name) \/ CreateUserConflict(t, name)
    BY <2>1 DEF CreateUser, CreateUserConflict, Refuse, HistoryTyped
  <2>2. ASSUME NEW key,
               \/ \E name \in Names : ReplaceUser(t, key, name) \/ ReplaceUserFails(t, key, name)
               \/ DeleteUser(t, key) \/ DeleteUserFails(t, key)
        PROVE  repeated' = repeated /\ renamed' \subseteq Nat
    BY <2>2 DEF ReplaceUser, ReplaceUserFails, DeleteUser, DeleteUserFails, Refuse,
                HistoryTyped
  <2>3. ASSUME NEW key, NEW names \in UserPatches,
               PatchUser(t, key, names) \/ PatchUserFails(t, key, names)
        PROVE  repeated' = repeated /\ renamed' \subseteq Nat
    <3>1. CASE PatchUser(t, key, names)
      <4>1. /\ repeated' = repeated /\ At(users, t, key) # {}
            /\ renamed' = renamed \cup {key} \/ renamed' = renamed
        BY <3>1 DEF PatchUser
      <4> QED
        BY <1>4, <4>1 DEF HistoryTyped
    <3>2. CASE PatchUserFails(t, key, names)
      BY <3>2 DEF PatchUserFails, Refuse, HistoryTyped
    <3> QED
      BY <2>3, <3>1, <3>2
  <2> QED
    BY <1>5, <2>1, <2>2, <2>3 DEF UserWrites
<1>6. ASSUME NEW t \in Tenants, GroupWrites(t)
      PROVE  renamed' = renamed /\ repeated' \subseteq Nat
  <2>1. ASSUME NEW name, NEW members, CreateGroup(t, name, members)
        PROVE  renamed' = renamed /\ repeated' \subseteq Nat
    BY <1>2, <2>1 DEF CreateGroup, HistoryTyped
  <2>2. ASSUME NEW key, NEW name, NEW members, ReplaceGroup(t, key, name, members)
        PROVE  renamed' = renamed /\ repeated' \subseteq Nat
    <3>1. /\ renamed' = renamed /\ At(groups, t, key) # {}
          /\ repeated' = repeated \cup {key} \/ repeated' = repeated \ {key}
      BY <2>2 DEF ReplaceGroup
    <3> QED
      BY <1>4, <3>1 DEF HistoryTyped
  <2>3. ASSUME NEW key, NEW ops, PatchGroup(t, key, ops)
        PROVE  renamed' = renamed /\ repeated' \subseteq Nat
    <3>1. /\ renamed' = renamed /\ At(groups, t, key) # {}
          /\ repeated' = repeated \cup {key} \/ repeated' = repeated
      BY <2>3 DEF PatchGroup
    <3> QED
      BY <1>4, <3>1 DEF HistoryTyped
  <2>4. ASSUME NEW key, NEW ops,
               \/ PatchGroupFails(t, key, ops) \/ ReplaceGroupFails(t, key)
               \/ DeleteGroup(t, key) \/ DeleteGroupFails(t, key)
        PROVE  renamed' = renamed /\ repeated' \subseteq Nat
    BY <2>4 DEF PatchGroupFails, ReplaceGroupFails, DeleteGroup, DeleteGroupFails, Refuse,
                HistoryTyped
  <2> QED
    BY <1>6, <2>1, <2>2, <2>3, <2>4 DEF GroupWrites
<1>7. CASE Lists \/ UNCHANGED vars
  BY <1>7 DEF Lists, BeginWalk, ListPage, EndWalk, vars, HistoryTyped
<1>8. renamed' \subseteq Nat /\ repeated' \subseteq Nat
  BY <1>5, <1>6, <1>7 DEF Next, HistoryTyped
<1> QED
  BY <1>3, <1>8 DEF HistoryTyped

\* Every variable has its type; the dicts and the client that lists have it by
\* the invariants above.
THEOREM TypeCorrect == Spec => []TypeOK
<1>1. Init => HistoryTyped
  BY DEF Init, HistoryTyped
<1>2. Dicts /\ HistoryTyped /\ [Next]_vars => HistoryTyped'
  BY HistoryStep
<1>3. Spec => []HistoryTyped
  BY <1>1, <1>2, AlwaysKeyed, PTL DEF Spec
<1>4. Dicts /\ WalkInv /\ HistoryTyped => TypeOK
  BY DEF Dicts, DictsTyped, WalkInv, Follows, HistoryTyped, TypeOK, Dict, Kinds, Resource
<1> QED
  BY <1>3, <1>4, AlwaysKeyed, AlwaysCovered, PTL

-----------------------------------------------------------------------------
(* How often a member is in a list.                                        *)

OccursAt(s, e) == {i \in DOMAIN s : s[i] = e}

LEMMA OccurrencesProperties ==
  ASSUME NEW S, NEW s \in Seq(S), NEW e
  PROVE  /\ OccursAt(s, e) \in SUBSET (DOMAIN s) /\ IsFiniteSet(OccursAt(s, e))
         /\ Occurrences(s, e) = Cardinality(OccursAt(s, e))
         /\ Occurrences(s, e) \in Nat
         /\ Occurrences(s, e) = 0 <=> e \notin ToSet(s)
<1> DEFINE P == OccursAt(s, e)
<1>1. P \in SUBSET (DOMAIN s) /\ Occurrences(s, e) = Cardinality(P)
  BY DEF OccursAt, Occurrences
<1>2. P = {} <=> e \notin ToSet(s)
  BY DEF OccursAt, ToSet
<1> HIDE DEF P
<1>3. IsFiniteSet(P) /\ Cardinality(P) \in Nat
  BY <1>1, SelectedProperties
<1>4. Cardinality(P) = 0 <=> P = {}
  BY <1>3, FS_EmptySet
<1> QED
  BY <1>1, <1>2, <1>3, <1>4 DEF P

\* Without what is removed: none of it, and all the rest.
LEMMA OccurrencesWithout ==
  ASSUME NEW s \in Seq(Members), NEW removed, NEW e
  PROVE  /\ Without(s, removed) \in Seq(Members)
         /\ Occurrences(Without(s, removed), e)
              = IF e \in removed THEN 0 ELSE Occurrences(s, e)
<1> DEFINE P == {i \in DOMAIN s : s[i] \notin removed}
           q == Without(s, removed)
<1>1. P \in SUBSET (DOMAIN s) /\ q = Selected(s, P) /\ q \in Seq(Members)
  BY WithoutProperties
<1>2. \A i \in DOMAIN s : i \in P <=> s[i] \notin removed
  OBVIOUS
<1> HIDE DEF P, q
<1>3. /\ P \in SUBSET Nat /\ IsFiniteSet(P)
      /\ DOMAIN q = 1 .. Cardinality(P)
      /\ \A n \in 1 .. Cardinality(P) : Place(P, n) \in P /\ q[n] = s[Place(P, n)]
  BY <1>1, SelectedProperties
<1>4. /\ IsFiniteSet(OccursAt(q, e)) /\ Occurrences(q, e) = Cardinality(OccursAt(q, e))
      /\ Occurrences(q, e) = 0 <=> e \notin ToSet(q)
      /\ Occurrences(s, e) = Cardinality(OccursAt(s, e))
  BY <1>1, OccurrencesProperties
<1>5. CASE e \in removed
  <2>1. e \notin ToSet(q)
    BY <1>1, <1>2, <1>3, <1>5 DEF ToSet
  <2> QED
    BY <1>1, <1>4, <1>5, <2>1 DEF q
<1>6. CASE e \notin removed
  <2> DEFINE B == OccursAt(q, e)
             C == OccursAt(s, e)
             f == [n \in B |-> Place(P, n)]
  <2>1. \A n \in B : n \in 1 .. Cardinality(P) /\ q[n] = e
    BY <1>3 DEF OccursAt
  <2>2. \A n \in B : Place(P, n) \in C /\ Rank(P, Place(P, n)) = n
    BY <1>1, <1>3, <2>1, PlaceProperties DEF OccursAt
  <2>3. \A i \in C : /\ i \in P /\ Rank(P, i) \in 1 .. Cardinality(P)
                     /\ Place(P, Rank(P, i)) = i
    BY <1>2, <1>3, <1>6, PlaceProperties DEF OccursAt
  <2>4. \A i \in C : Rank(P, i) \in B
    BY <1>3, <2>3 DEF OccursAt
  <2> HIDE DEF B, C
  <2>5. f \in [B -> C]
    BY <2>2
  <2>6. \A n, m \in B : f[n] = f[m] => n = m
    <3> SUFFICES ASSUME NEW n \in B, NEW m \in B, f[n] = f[m] PROVE n = m
      OBVIOUS
    <3>1. Place(P, n) = Place(P, m)
      OBVIOUS
    <3> QED
      BY <2>2, <3>1
  <2>7. \A i \in C : \E n \in B : f[n] = i
    BY <2>3, <2>4
  <2> HIDE DEF f
  <2>8. f \in Bijection(B, C)
    BY <2>5, <2>6, <2>7 DEF Bijection, Injection, Surjection, IsInjective
  <2>9. IsFiniteSet(B)
    BY <1>4 DEF B
  <2>10. Cardinality(C) = Cardinality(B)
    BY <2>8, <2>9, FS_Bijection DEF ExistsBijection
  <2> QED
    BY <1>1, <1>4, <1>6, <2>10 DEF B, C, q
<1> QED
  BY <1>5, <1>6, <1>1 DEF q

\* One list behind the other: the sum.
LEMMA OccurrencesAppended ==
  ASSUME NEW S, NEW s \in Seq(S), NEW q \in Seq(S), NEW e
  PROVE  Occurrences(s \o q, e) = Occurrences(s, e) + Occurrences(q, e)
<1> DEFINE m == Len(s)
           n == Len(q)
           w == s \o q
<1>1. /\ m \in Nat /\ n \in Nat /\ DOMAIN s = 1 .. m /\ DOMAIN q = 1 .. n
  BY LenProperties
<1>2. w \in Seq(S) /\ Len(w) = m + n
      /\ \A i \in 1 .. m + n : w[i] = IF i <= m THEN s[i] ELSE q[i - m]
  BY ConcatProperties
<1>3. DOMAIN w = 1 .. (m + n)
  BY <1>2, LenProperties
<1> HIDE DEF m, n, w
<1> DEFINE A == OccursAt(s, e)
           B == OccursAt(q, e)
           C == {i \in DOMAIN w : i > m /\ w[i] = e}
           f == [i \in B |-> i + m]
<1>4. /\ IsFiniteSet(A) /\ Occurrences(s, e) = Cardinality(A) /\ Cardinality(A) \in Nat
      /\ IsFiniteSet(B) /\ Occurrences(q, e) = Cardinality(B) /\ Cardinality(B) \in Nat
      /\ Occurrences(w, e) = Cardinality(OccursAt(w, e))
  BY <1>2, OccurrencesProperties
<1>5. OccursAt(w, e) = A \cup C
  <2>1. \A i \in 1 .. m + n : i <= m => i \in 1 .. m
    BY <1>1
  <2>2. \A i \in 1 .. m : i \in 1 .. m + n /\ i <= m
    BY <1>1
  <2>3. \A i \in 1 .. m + n : i <= m \/ i > m
    BY <1>1
  <2> QED
    BY <1>1, <1>2, <1>3, <2>1, <2>2, <2>3 DEF OccursAt
<1>6. A \cap C = {}
  BY <1>1 DEF OccursAt
<1>7. \A i \in B : i \in Int /\ i + m \in C
  <2> SUFFICES ASSUME NEW i \in B PROVE i \in Int /\ i + m \in C
    OBVIOUS
  <2>1. i \in 1 .. n /\ q[i] = e
    BY <1>1 DEF OccursAt
  <2>2. i + m \in 1 .. m + n /\ i + m > m /\ ~(i + m <= m) /\ (i + m) - m = i
    BY <1>1, <2>1
  <2> QED
    BY <1>2, <1>3, <2>1, <2>2
<1>8. \A k \in C : k - m \in B /\ (k - m) + m = k
  <2> SUFFICES ASSUME NEW k \in C PROVE k - m \in B /\ (k - m) + m = k
    OBVIOUS
  <2>1. k - m \in 1 .. n /\ ~(k <= m) /\ (k - m) + m = k
    BY <1>1, <1>3
  <2>2. q[k - m] = e
    BY <1>2, <1>3, <2>1
  <2> QED
    BY <1>1, <2>1, <2>2 DEF OccursAt
<1> HIDE DEF B, C
<1>9. f \in [B -> C] /\ \A k \in C : \E i \in B : f[i] = k
  BY <1>7, <1>8
<1>10. \A i, j \in B : f[i] = f[j] => i = j
  BY <1>1, <1>7
<1> HIDE DEF f
<1>11. f \in Bijection(B, C)
  BY <1>9, <1>10 DEF Bijection, Injection, Surjection, IsInjective
<1>12. IsFiniteSet(C) /\ Cardinality(C) = Cardinality(B)
  BY <1>4, <1>11, FS_Bijection DEF ExistsBijection
<1> HIDE DEF A
<1>13. Cardinality(A \cup C) = Cardinality(A) + Cardinality(C) - Cardinality(A \cap C)
  BY <1>4, <1>12, FS_Union
<1>14. Cardinality(A \cap C) = 0
  BY <1>6, FS_EmptySet
<1> QED
  BY <1>4, <1>5, <1>12, <1>13, <1>14 DEF w

-----------------------------------------------------------------------------
(* A PATCH that is sent again.                                             *)
(*                                                                         *)
(* What an operation does to how often one member is there, c, does not    *)
(* depend on the others.  Adding tells c = 0 from the rest, all others     *)
(* forget c or keep it: so until c is forgotten, it is what it was, or k   *)
(* if it was 0.                                                            *)

Counted(o, m, c) ==
  CASE o.op = "add" -> IF c = 0 THEN Occurrences(o.members, m) ELSE c
    [] o.op = "remove" -> IF m \in ToSet(o.members) THEN 0 ELSE c
    [] o.op = "replace" -> Occurrences(o.members, m)
    [] OTHER -> c

Named(o, name) == IF o.op = "displayName" THEN o.name ELSE name

LEMMA ApplyCounted ==
  ASSUME NEW group \in Group, NEW o \in MemberOp \cup NameOp \cup InvalidOp, NEW m
  PROVE  /\ Occurrences(Apply(group, o).members, m)
              = Counted(o, m, Occurrences(group.members, m))
         /\ Apply(group, o).name = Named(o, group.name)
<1> DEFINE members == group.members
           c == Occurrences(members, m)
<1>1. /\ members \in Seq(Members)
      /\ \A new : LET g == [group EXCEPT !.members = new]
                  IN  g.members = new /\ g.name = group.name
      /\ \A name : LET g == [group EXCEPT !.name = name]
                   IN  g.members = members /\ g.name = name
  BY DEF Group
<1>2. c \in Nat /\ (c = 0 <=> m \notin ToSet(members))
  BY <1>1, OccurrencesProperties
<1>3. CASE o \in MemberOp
  <2>1. o.op \in {"add", "remove", "replace"} /\ o.members \in Seq(Members)
    BY <1>3 DEF MemberOp
  <2>2. CASE o.op = "add"
    <3> DEFINE new == Without(o.members, ToSet(members))
    <3>1. /\ new \in Seq(Members)
          /\ Occurrences(new, m)
               = IF m \in ToSet(members) THEN 0 ELSE Occurrences(o.members, m)
      <4> DEFINE R == ToSet(members)
                 q == o.members
      <4>1. q \in Seq(Members)
        BY <2>1
      <4> HIDE DEF R, q
      <4>2. Occurrences(Without(q, R), m) = IF m \in R THEN 0 ELSE Occurrences(q, m)
        BY <4>1, OccurrencesWithout
      <4>3. Without(q, R) \in Seq(Members)
        BY <4>1, WithoutProperties
      <4> QED
        BY <4>2, <4>3 DEF R, q
    <3>2. Occurrences(o.members, m) \in Nat
      BY <2>1, OccurrencesProperties
    <3>3. Apply(group, o) = [group EXCEPT !.members = members \o new]
      BY <2>2 DEF Apply, AddMembers
    <3> HIDE DEF members, new
    <3>4. Occurrences(members \o new, m) = c + Occurrences(new, m)
      BY <1>1, <3>1, OccurrencesAppended
    <3>5. Occurrences(members \o new, m) = IF c = 0 THEN Occurrences(o.members, m) ELSE c
      BY <1>2, <3>1, <3>2, <3>4
    <3>6. Counted(o, m, c) = IF c = 0 THEN Occurrences(o.members, m) ELSE c
      BY <2>2 DEF Counted
    <3>7. Named(o, group.name) = group.name
      BY <2>2 DEF Named
    <3> QED
      BY <1>1, <3>3, <3>5, <3>6, <3>7 DEF members
  <2>3. CASE o.op = "remove"
    <3> DEFINE left == Without(members, ToSet(o.members))
    <3>1. Occurrences(left, m) = IF m \in ToSet(o.members) THEN 0 ELSE c
      <4> DEFINE R == ToSet(o.members)
      <4> HIDE DEF R, members
      <4>1. Occurrences(Without(members, R), m)
              = IF m \in R THEN 0 ELSE Occurrences(members, m)
        BY <1>1, OccurrencesWithout
      <4> QED
        BY <4>1 DEF R
    <3>2. Apply(group, o) = [group EXCEPT !.members = left]
      BY <2>3 DEF Apply, RemoveMembers
    <3>3. Counted(o, m, c) = IF m \in ToSet(o.members) THEN 0 ELSE c
      BY <2>3 DEF Counted
    <3>4. Named(o, group.name) = group.name
      BY <2>3 DEF Named
    <3> HIDE DEF left
    <3> QED
      BY <1>1, <3>1, <3>2, <3>3, <3>4
  <2>4. CASE o.op = "replace"
    <3>1. Apply(group, o) = [group EXCEPT !.members = o.members]
      BY <2>4 DEF Apply
    <3>2. Counted(o, m, c) = Occurrences(o.members, m) /\ Named(o, group.name) = group.name
      BY <2>4 DEF Counted, Named
    <3> QED
      BY <1>1, <3>1, <3>2
  <2> QED
    BY <2>1, <2>2, <2>3, <2>4
<1>4. CASE o \in NameOp
  <2>1. o.op = "displayName"
    BY <1>4 DEF NameOp
  <2>2. Apply(group, o) = [group EXCEPT !.name = o.name]
    BY <2>1 DEF Apply
  <2>3. Counted(o, m, c) = c /\ Named(o, group.name) = o.name
    BY <2>1 DEF Counted, Named
  <2> QED
    BY <1>1, <2>2, <2>3
<1>5. CASE o \in InvalidOp
  <2>1. o.op = "members[?]"
    BY <1>5 DEF InvalidOp
  <2>2. Apply(group, o) = group
    BY <2>1 DEF Apply
  <2>3. Counted(o, m, c) = c /\ Named(o, group.name) = group.name
    BY <2>1 DEF Counted, Named
  <2> QED
    BY <2>2, <2>3
<1> QED
  BY <1>3, <1>4, <1>5

\* How often member m is in group g, and its name, compared with where it began (c0,
\* name0); and the same for h, which goes through the same operations.
SameEffect(c0, c, d0, d) ==
  \/ c = d
  \/ \E k \in Nat : /\ c = IF c0 = 0 THEN k ELSE c0
                    /\ d = IF d0 = 0 THEN k ELSE d0

LEMMA SameEffectStep ==
  ASSUME NEW c0 \in Nat, NEW c \in Nat, NEW d0 \in Nat, NEW d \in Nat,
         SameEffect(c0, c, d0, d),
         NEW o \in MemberOp \cup NameOp \cup InvalidOp, NEW m
  PROVE  SameEffect(c0, Counted(o, m, c), d0, Counted(o, m, d))
<1>1. CASE c = d
  BY <1>1 DEF SameEffect
<1>2. ASSUME NEW k \in Nat, c = IF c0 = 0 THEN k ELSE c0, d = IF d0 = 0 THEN k ELSE d0
      PROVE  SameEffect(c0, Counted(o, m, c), d0, Counted(o, m, d))
  <2>1. CASE o \in MemberOp
    <3>1. o.op \in {"add", "remove", "replace"} /\ o.members \in Seq(Members)
      BY <2>1 DEF MemberOp
    <3>2. Occurrences(o.members, m) \in Nat
      BY <3>1, OccurrencesProperties
    <3>3. CASE o.op = "add"
      <4> DEFINE a == Occurrences(o.members, m)
                 l == IF k = 0 THEN a ELSE k
      <4>1. /\ Counted(o, m, c) = IF c = 0 THEN a ELSE c
            /\ Counted(o, m, d) = IF d = 0 THEN a ELSE d
        BY <3>3 DEF Counted
      <4> HIDE DEF a
      <4>2. l \in Nat
        BY <3>2 DEF a
      <4>3. /\ Counted(o, m, c) = IF c0 = 0 THEN l ELSE c0
            /\ Counted(o, m, d) = IF d0 = 0 THEN l ELSE d0
        BY <1>2, <4>1
      <4> QED
        BY <4>2, <4>3 DEF SameEffect
    <3>4. CASE o.op = "remove"
      <4>1. /\ Counted(o, m, c) = IF m \in ToSet(o.members) THEN 0 ELSE c
            /\ Counted(o, m, d) = IF m \in ToSet(o.members) THEN 0 ELSE d
        BY <3>4 DEF Counted
      <4> QED
        BY <1>2, <4>1 DEF SameEffect
    <3>5. CASE o.op = "replace"
      <4>1. Counted(o, m, c) = Counted(o, m, d)
        BY <3>5 DEF Counted
      <4> QED
        BY <4>1 DEF SameEffect
    <3> QED
      BY <3>1, <3>3, <3>4, <3>5
  <2>2. CASE o \in NameOp \cup InvalidOp
    <3>1. o.op \in {"displayName", "members[?]"}
      BY <2>2 DEF NameOp, InvalidOp
    <3>2. Counted(o, m, c) = c /\ Counted(o, m, d) = d
      BY <3>1 DEF Counted
    <3> QED
      BY <3>2
  <2> QED
    BY <2>1, <2>2
<1> QED
  BY <1>1, <1>2 DEF SameEffect

SameName(a0, a, b0, b) == a = b \/ (a = a0 /\ b = b0)

\* Sent again, a PATCH finds the name it has set and every member as often as it
\* has left it.
LEMMA SentAgain ==
  ASSUME NEW group \in Group, NEW ops \in Ops, NEW m
  PROVE  LET once == PatchedGroup(group, ops)
             twice == PatchedGroup(once, ops)
         IN  /\ twice.name = once.name
             /\ Occurrences(twice.members, m) = Occurrences(once.members, m)
<1> DEFINE L == Len(ops)
           once == PatchedGroup(group, ops)
           twice == PatchedGroup(once, ops)
<1>1. L \in Nat /\ once \in Group
  BY PatchedTyped, LenProperties DEF Ops
<1>2. PICK f : Through(group, ops, f) /\ once = f[L]
  BY <1>1, AppliedInTurn
<1> HIDE DEF once
<1>3. PICK g : Through(once, ops, g) /\ twice = g[L]
  BY <1>1, AppliedInTurn
<1> HIDE DEF twice
<1>4. /\ \A n \in 0 .. L - 1 : ops[n + 1] \in MemberOp \cup NameOp \cup InvalidOp
      /\ \A n \in 0 .. L : f[n] \in Group /\ g[n] \in Group
  BY <1>1, <1>2, <1>3, TypedThrough
<1>5. /\ f[0] = group /\ g[0] = once
      /\ \A n \in 0 .. L - 1 : /\ f[n + 1] = Apply(f[n], ops[n + 1])
                               /\ g[n + 1] = Apply(g[n], ops[n + 1])
  BY <1>2, <1>3 DEF Through
<1> DEFINE c(n) == Occurrences(f[n].members, m)
           d(n) == Occurrences(g[n].members, m)
           T == {n \in Nat : /\ SameEffect(c(0), c(n), d(0), d(n))
                             /\ SameName(f[0].name, f[n].name, g[0].name, g[n].name)}
<1>6. \A n \in 0 .. L : c(n) \in Nat /\ d(n) \in Nat
  <2>1. \A h \in Group : h.members \in Seq(Members)
    BY DEF Group
  <2> QED
    BY <1>4, <2>1, OccurrencesProperties
<1>7. ASSUME NEW n \in 0 .. L - 1
      PROVE  /\ c(n + 1) = Counted(ops[n + 1], m, c(n))
             /\ d(n + 1) = Counted(ops[n + 1], m, d(n))
             /\ f[n + 1].name = Named(ops[n + 1], f[n].name)
             /\ g[n + 1].name = Named(ops[n + 1], g[n].name)
  <2>1. n \in 0 .. L
    BY <1>1
  <2>2. f[n] \in Group /\ g[n] \in Group /\ ops[n + 1] \in MemberOp \cup NameOp \cup InvalidOp
    BY <1>4, <2>1
  <2>3. f[n + 1] = Apply(f[n], ops[n + 1]) /\ g[n + 1] = Apply(g[n], ops[n + 1])
    BY <1>5
  <2>4. \A h \in Group :
          /\ Occurrences(Apply(h, ops[n + 1]).members, m)
               = Counted(ops[n + 1], m, Occurrences(h.members, m))
          /\ Apply(h, ops[n + 1]).name = Named(ops[n + 1], h.name)
    BY <2>2, ApplyCounted
  <2> QED
    BY <2>2, <2>3, <2>4
<1> HIDE DEF c, d
<1>8. 0 \in T
  <2>1. SameEffect(c(0), c(0), d(0), d(0))
    <3>1. c(0) = (IF c(0) = 0 THEN 0 ELSE c(0)) /\ d(0) = (IF d(0) = 0 THEN 0 ELSE d(0))
      OBVIOUS
    <3> QED
      BY <3>1 DEF SameEffect
  <2>2. SameName(f[0].name, f[0].name, g[0].name, g[0].name)
    BY DEF SameName
  <2> QED
    BY <2>1, <2>2
<1>9. ASSUME NEW n \in Nat, n < L, n \in T
      PROVE  n + 1 \in T
  <2>1. n \in 0 .. L - 1 /\ n \in 0 .. L /\ 0 \in 0 .. L
    BY <1>1, <1>9
  <2>2. ops[n + 1] \in MemberOp \cup NameOp \cup InvalidOp
    BY <1>4, <2>1
  <2>3. SameEffect(c(0), c(n), d(0), d(n))
        /\ SameName(f[0].name, f[n].name, g[0].name, g[n].name)
    BY <1>9
  <2>4. /\ c(n + 1) = Counted(ops[n + 1], m, c(n)) /\ d(n + 1) = Counted(ops[n + 1], m, d(n))
        /\ f[n + 1].name = Named(ops[n + 1], f[n].name)
        /\ g[n + 1].name = Named(ops[n + 1], g[n].name)
    BY <1>7, <2>1
  <2>5. c(0) \in Nat /\ d(0) \in Nat /\ c(n) \in Nat /\ d(n) \in Nat
    BY <1>6, <2>1
  <2>6. SameEffect(c(0), c(n + 1), d(0), d(n + 1))
    BY <2>2, <2>3, <2>4, <2>5, SameEffectStep
  <2>7. SameName(f[0].name, f[n + 1].name, g[0].name, g[n + 1].name)
    BY <2>3, <2>4 DEF SameName, Named
  <2> QED
    BY <2>6, <2>7
<1>10. L \in T
  <2> HIDE DEF T
  <2>1. L \in 0 .. L
    BY <1>1
  <2> QED
    BY <1>1, <1>8, <1>9, <2>1, UpTo
<1>11. g[0] = f[L] /\ d(0) = c(L)
  BY <1>2, <1>5 DEF c, d
<1>12. c(0) \in Nat /\ c(L) \in Nat /\ d(L) \in Nat
  BY <1>1, <1>6
<1>13. d(L) = c(L)
  BY <1>10, <1>11, <1>12 DEF SameEffect
<1>14. g[L].name = f[L].name
  BY <1>10, <1>11 DEF SameName
<1> QED
  BY <1>2, <1>3, <1>13, <1>14 DEF c, d, once, twice

\* A PATCH of a group that is sent again, its answer having been lost, changes
\* nothing but the order of the members.
THEOREM RetryChangesNothing == Spec => []RetriedPatchChangesNothing
<1>1. ASSUME Dicts PROVE RetriedPatchChangesNothing
  <2>1. ASSUME NEW i \in DOMAIN groups, NEW ops \in GroupPatches
        PROVE  LET once == PatchedGroup(groups[i], ops)
                   twice == PatchedGroup(once, ops)
               IN  /\ twice.name = once.name
                   /\ \A m \in Members :
                        Occurrences(twice.members, m) = Occurrences(once.members, m)
    <3>1. groups[i] \in Group
      <4>1. "groups" \in Kinds /\ Dict("groups") = groups /\ Resource("groups") = Group
        BY DEF Kinds, Dict, Resource
      <4> QED
        BY <1>1, <4>1, DictFields DEF Dicts
    <3>2. ops \in Ops
      BY ScimAssumption DEF Ops
    <3> QED
      BY <3>1, <3>2, SentAgain
  <2> QED
    BY <2>1, Zenon DEF RetriedPatchChangesNothing
<1> QED
  BY <1>1, AlwaysKeyed, PTL

-----------------------------------------------------------------------------
(* Members that are there twice. *)

LEMMA InjectiveIsOnceEach ==
  ASSUME NEW s \in Seq(Members)
  PROVE  IsInjective(s) <=> \A m \in Members : Occurrences(s, m) <= 1
<1>1. \A i \in DOMAIN s : s[i] \in Members
  BY LenProperties, ElementOfSeq
<1>2. ASSUME IsInjective(s), NEW m \in Members
      PROVE  Occurrences(s, m) <= 1
  <2> DEFINE P == OccursAt(s, m)
  <2>1. IsFiniteSet(P) /\ Occurrences(s, m) = Cardinality(P)
    BY OccurrencesProperties
  <2>2. \A i, j \in P : i = j
    BY <1>2 DEF OccursAt, IsInjective
  <2> HIDE DEF P
  <2>3. CASE P = {}
    <3>1. Cardinality(P) = 0
      BY <2>3, FS_EmptySet
    <3> QED
      BY <2>1, <3>1
  <2>4. CASE P # {}
    <3>1. PICK i : i \in P
      BY <2>4
    <3>2. P = {i}
      BY <2>2, <3>1
    <3>3. Cardinality(P) = 1
      BY <3>2, FS_Singleton
    <3> QED
      BY <2>1, <3>3
  <2> QED
    BY <2>3, <2>4
<1>3. ASSUME \A m \in Members : Occurrences(s, m) <= 1,
             NEW i \in DOMAIN s, NEW j \in DOMAIN s, s[i] = s[j]
      PROVE  i = j
  <2> DEFINE P == OccursAt(s, s[i])
  <2>1. /\ IsFiniteSet(P) /\ Occurrences(s, s[i]) = Cardinality(P)
        /\ Occurrences(s, s[i]) \in Nat
    BY OccurrencesProperties
  <2>2. i \in P /\ j \in P
    BY <1>3 DEF OccursAt
  <2> HIDE DEF P
  <2>3. Cardinality(P) # 0
    BY <2>1, <2>2, FS_EmptySet
  <2>4. Occurrences(s, s[i]) <= 1
    BY <1>1, <1>3
  <2>5. Cardinality(P) = 1
    BY <2>1, <2>3, <2>4
  <2>6. \E x : P = {x}
    BY <2>1, <2>5, FS_Singleton
  <2> QED
    BY <2>2, <2>6
<1> QED
  BY <1>2, <1>3 DEF IsInjective

\* A PATCH none of whose lists names a member twice puts none there twice.
LEMMA PatchRepeatsNone ==
  ASSUME NEW group \in Group, NEW ops \in Ops, ~Repeats(ops), IsInjective(group.members)
  PROVE  IsInjective(PatchedGroup(group, ops).members)
<1> DEFINE L == Len(ops)
<1>1. L \in Nat /\ DOMAIN ops = 1 .. L
  BY LenProperties DEF Ops
<1>2. PICK f : Through(group, ops, f) /\ PatchedGroup(group, ops) = f[L]
  BY <1>1, AppliedInTurn
<1>3. /\ \A n \in 0 .. L - 1 : ops[n + 1] \in MemberOp \cup NameOp \cup InvalidOp
      /\ \A n \in 0 .. L : f[n] \in Group
  BY <1>1, <1>2, TypedThrough
<1>4. \A g \in Group : g.members \in Seq(Members)
  BY DEF Group
<1>5. ASSUME NEW m \in Members
      PROVE  Occurrences(f[L].members, m) <= 1
  <2> DEFINE c(n) == Occurrences(f[n].members, m)
             T == {n \in Nat : c(n) <= 1}
  <2>1. 0 \in T
    <3>1. f[0] = group
      BY <1>2 DEF Through
    <3>2. Occurrences(group.members, m) <= 1
      BY <1>4, InjectiveIsOnceEach
    <3> QED
      BY <3>1, <3>2
  <2>2. ASSUME NEW n \in Nat, n < L, n \in T
        PROVE  n + 1 \in T
    <3> DEFINE o == ops[n + 1]
    <3>1. n \in 0 .. L - 1 /\ n \in 0 .. L /\ n + 1 \in DOMAIN ops
      BY <1>1, <2>2
    <3>2. f[n] \in Group /\ o \in MemberOp \cup NameOp \cup InvalidOp
      BY <1>3, <3>1
    <3>3. f[n + 1] = Apply(f[n], o)
      BY <1>2, <3>1 DEF Through
    <3>4. o.op \in {"add", "replace"} => IsInjective(o.members)
      BY <3>1 DEF Repeats
    <3> HIDE DEF o
    <3>5. Occurrences(Apply(f[n], o).members, m) = Counted(o, m, c(n))
      BY <3>2, ApplyCounted
    <3>6. c(n) <= 1
      BY <2>2
    <3> HIDE DEF c
    <3>7. Counted(o, m, c(n)) <= 1
      <4>1. CASE o \in MemberOp
        <5>1. o.op \in {"add", "remove", "replace"} /\ o.members \in Seq(Members)
          BY <4>1 DEF MemberOp
        <5>2. CASE o.op \in {"add", "replace"}
          <6>1. Occurrences(o.members, m) <= 1
            BY <3>4, <5>1, <5>2, InjectiveIsOnceEach
          <6>2. CASE o.op = "add"
            <7>1. Counted(o, m, c(n)) = IF c(n) = 0 THEN Occurrences(o.members, m) ELSE c(n)
              BY <6>2 DEF Counted
            <7> QED
              BY <3>6, <6>1, <7>1
          <6>3. CASE o.op = "replace"
            <7>1. Counted(o, m, c(n)) = Occurrences(o.members, m)
              BY <6>3 DEF Counted
            <7> QED
              BY <6>1, <7>1
          <6> QED
            BY <5>2, <6>2, <6>3
        <5>3. CASE o.op = "remove"
          <6>1. Counted(o, m, c(n)) = IF m \in ToSet(o.members) THEN 0 ELSE c(n)
            BY <5>3 DEF Counted
          <6> QED
            BY <3>6, <6>1
        <5> QED
          BY <5>1, <5>2, <5>3
      <4>2. CASE o \in NameOp \cup InvalidOp
        <5>1. o.op \in {"displayName", "members[?]"}
          BY <4>2 DEF NameOp, InvalidOp
        <5>2. Counted(o, m, c(n)) = c(n)
          BY <5>1 DEF Counted
        <5> QED
          BY <3>6, <5>2
      <4> QED
        BY <3>2, <4>1, <4>2
    <3>8. c(n + 1) <= 1
      BY <3>3, <3>5, <3>7 DEF c
    <3> QED
      BY <3>8
  <2>3. L \in T
    <3> HIDE DEF T
    <3>1. L \in 0 .. L
      BY <1>1
    <3> QED
      BY <1>1, <2>1, <2>2, <3>1, UpTo
  <2> QED
    BY <2>3
<1>6. f[L] \in Group
  <2>1. L \in 0 .. L
    BY <1>1
  <2> QED
    BY <1>3, <2>1
<1> QED
  BY <1>2, <1>4, <1>5, <1>6, InjectiveIsOnceEach

\* Group r is added or set at i; if it has a member twice, it was sent so.
Marked(r) == ~IsInjective(r.members) => r.key \in repeated'

AddsGroup(r) ==
  /\ groups' = Append(groups, r) /\ Marked(r) /\ repeated \subseteq repeated'

PutsGroup(i, r) ==
  /\ groups' = Stored(groups, i, r) /\ Marked(r) /\ r.key = groups[i].key
  /\ repeated \ {r.key} \subseteq repeated'

DropsGroup(i) ==
  /\ groups' = RemoveAt(groups, i) /\ repeated' = repeated \ {groups[i].key}

LEMMA MarkSteps ==
  ASSUME Dicts, RepeatedOnlyIfSent, [Next]_vars
  PROVE  \/ \E r : AddsGroup(r)
         \/ \E i \in DOMAIN groups : \E r : PutsGroup(i, r)
         \/ \E i \in DOMAIN groups : DropsGroup(i)
         \/ groups' = groups /\ repeated' = repeated
<1>1. /\ DictsTyped /\ "groups" \in Kinds /\ Dict("groups") = groups
      /\ Resource("groups") = Group
  BY DEF Dicts, Kinds, Dict, Resource
<1>2. \A i \in DOMAIN groups : groups[i] \in Group
  BY <1>1, DictFields
<1>3. ASSUME NEW t \in Tenants, NEW name \in Names, NEW members \in MemberLists,
             CreateGroup(t, name, members)
      PROVE  \E r : AddsGroup(r)
  <2> DEFINE key == drawn'["groups"]
             r == [tenant |-> t, key |-> key, name |-> name, members |-> members]
  <2>1. /\ groups' = Append(groups, r)
        /\ repeated' = IF IsInjective(members) THEN repeated ELSE repeated \cup {key}
    BY <1>3 DEF CreateGroup
  <2>2. r.key = key /\ r.members = members
    OBVIOUS
  <2> HIDE DEF r, key
  <2> QED
    BY <2>1, <2>2 DEF AddsGroup, Marked
<1>4. ASSUME NEW t \in Tenants, NEW key, NEW name \in Names, NEW members \in MemberLists,
             ReplaceGroup(t, key, name, members)
      PROVE  \E i \in DOMAIN groups : \E r : PutsGroup(i, r)
  <2>1. PICK i \in At(groups, t, key) :
          /\ groups' = Stored(groups, i, [groups[i] EXCEPT !.name = name, !.members = members])
          /\ repeated' = IF IsInjective(members) THEN repeated \ {key} ELSE repeated \cup {key}
    BY <1>4 DEF ReplaceGroup
  <2>2. i \in DOMAIN groups /\ groups[i].key = key
    BY DEF At
  <2> DEFINE r == [groups[i] EXCEPT !.name = name, !.members = members]
  <2>3. r.key = key /\ r.members = members
    BY <1>2, <2>2 DEF Group
  <2>4. groups' = Stored(groups, i, r)
    BY <2>1
  <2> HIDE DEF r
  <2>5. PutsGroup(i, r)
    BY <2>1, <2>2, <2>3, <2>4 DEF PutsGroup, Marked
  <2> QED
    BY <2>2, <2>5
<1>5. ASSUME NEW t \in Tenants, NEW key, NEW ops \in GroupPatches, PatchGroup(t, key, ops)
      PROVE  \E i \in DOMAIN groups : \E r : PutsGroup(i, r)
  <2>1. PICK i \in At(groups, t, key) :
          /\ groups' = Stored(groups, i, PatchedGroup(groups[i], ops))
          /\ repeated' = IF Repeats(ops) THEN repeated \cup {key} ELSE repeated
    BY <1>5 DEF PatchGroup
  <2>2. i \in DOMAIN groups /\ groups[i].key = key /\ groups[i] \in Group
    BY <1>2 DEF At
  <2>3. ops \in Ops
    BY ScimAssumption DEF Ops
  <2> DEFINE r == PatchedGroup(groups[i], ops)
  <2>4. r.key = key
    BY <2>2, <2>3, PatchedTyped
  <2>5. ~Repeats(ops) /\ IsInjective(groups[i].members) => IsInjective(r.members)
    BY <2>2, <2>3, PatchRepeatsNone
  <2>6. ~IsInjective(groups[i].members) => key \in repeated
    BY <2>2 DEF RepeatedOnlyIfSent
  <2> HIDE DEF r
  <2>7. Marked(r)
    BY <2>1, <2>4, <2>5, <2>6 DEF Marked
  <2>8. PutsGroup(i, r)
    BY <2>1, <2>2, <2>4, <2>7 DEF PutsGroup, r
  <2> QED
    BY <2>2, <2>8
<1>6. ASSUME NEW t \in Tenants, NEW key, DeleteGroup(t, key)
      PROVE  \E i \in DOMAIN groups : DropsGroup(i)
  BY <1>6 DEF DeleteGroup, DropsGroup, At
<1>7. CASE Refuse \/ Lists \/ UNCHANGED vars \/ \E t \in Tenants : UserWrites(t)
  <2>1. CASE Refuse \/ Lists \/ UNCHANGED vars
    BY <2>1 DEF Refuse, Lists, BeginWalk, ListPage, EndWalk, vars
  <2>2. CASE \E t \in Tenants : UserWrites(t)
    <3>1. PICK t \in Tenants : UserWrites(t)
      BY <2>2
    <3>2. CASE \E name \in Names : CreateUser(t, name) \/ CreateUserConflict(t, name)
      BY <3>2 DEF Refuse, CreateUser, CreateUserConflict
    <3>3. ASSUME NEW key,
                 \/ \E name \in Names : ReplaceUser(t, key, name) \/ ReplaceUserFails(t, key, name)
                 \/ DeleteUser(t, key) \/ DeleteUserFails(t, key)
          PROVE  groups' = groups /\ repeated' = repeated
      BY <3>3 DEF Refuse, ReplaceUser, ReplaceUserFails, DeleteUser, DeleteUserFails
    <3>4. ASSUME NEW key, NEW names, PatchUser(t, key, names) \/ PatchUserFails(t, key, names)
          PROVE  groups' = groups /\ repeated' = repeated
      BY <3>4 DEF Refuse, PatchUser, PatchUserFails
    <3> QED
      BY <3>1, <3>2, <3>3, <3>4 DEF UserWrites
  <2> QED
    BY <1>7, <2>1, <2>2
<1>8. ASSUME NEW t \in Tenants, GroupWrites(t)
      PROVE  \/ \E r : AddsGroup(r)
             \/ \E i \in DOMAIN groups : \E r : PutsGroup(i, r)
             \/ \E i \in DOMAIN groups : DropsGroup(i)
             \/ groups' = groups /\ repeated' = repeated
  BY <1>3, <1>4, <1>5, <1>6, <1>7, <1>8
     DEF GroupWrites, PatchGroupFails, ReplaceGroupFails, DeleteGroupFails
<1> QED
  BY <1>7, <1>8 DEF Next

LEMMA MarkStep ==
  ASSUME Dicts, RepeatedOnlyIfSent, [Next]_vars
  PROVE  RepeatedOnlyIfSent'
<1> DEFINE n == Len(groups)
<1>1. groups \in Seq(Group) /\ \A i \in DOMAIN groups : groups[i] \in Group
  <2>1. "groups" \in Kinds /\ Dict("groups") = groups /\ Resource("groups") = Group
    BY DEF Kinds, Dict, Resource
  <2> QED
    BY <2>1, DictFields DEF Dicts, DictsTyped
<1>2. \A i, j \in DOMAIN groups : groups[i].key = groups[j].key => i = j
  BY DEF Dicts, KeysDrawn, Kinds, Dict
<1>3. \A i \in DOMAIN groups : ~IsInjective(groups[i].members) => groups[i].key \in repeated
  BY DEF RepeatedOnlyIfSent
<1>4. n \in Nat /\ DOMAIN groups = 1 .. n
  BY <1>1, LenProperties
<1> HIDE DEF n
<1>5. ASSUME NEW r, AddsGroup(r) PROVE RepeatedOnlyIfSent'
  <2>1. /\ groups' = Append(groups, r) /\ repeated \subseteq repeated'
        /\ ~IsInjective(r.members) => r.key \in repeated'
    BY <1>5 DEF AddsGroup, Marked
  <2>2. groups' \in Seq(Group)
    <3>1. Dicts'
      BY DictsStep
    <3> QED
      BY <3>1 DEF Dicts, DictsTyped, Kinds, Dict, Resource
  <2>3. /\ DOMAIN groups' = 1 .. (n + 1) /\ groups'[n + 1] = r
        /\ \A j \in 1 .. n : groups'[j] = groups[j]
    BY <1>1, <1>4, <2>1, AppendProperties DEF n
  <2>4. \A j \in 1 .. (n + 1) : j \in 1 .. n \/ j = n + 1
    BY <1>4
  <2> QED
    BY <1>3, <1>4, <2>1, <2>3, <2>4 DEF RepeatedOnlyIfSent
<1>6. ASSUME NEW i \in DOMAIN groups, NEW r, PutsGroup(i, r)
      PROVE  RepeatedOnlyIfSent'
  <2>1. /\ groups' = [groups EXCEPT ![i] = r] /\ r.key = groups[i].key
        /\ repeated \ {r.key} \subseteq repeated'
        /\ ~IsInjective(r.members) => r.key \in repeated'
    BY <1>6 DEF PutsGroup, Marked, Stored
  <2>2. /\ DOMAIN groups' = DOMAIN groups
        /\ \A j \in DOMAIN groups : groups'[j] = IF j = i THEN r ELSE groups[j]
    BY <2>1
  <2>3. \A j \in DOMAIN groups : j # i => groups[j].key # r.key
    BY <1>2, <2>1
  <2> QED
    BY <1>3, <2>1, <2>2, <2>3 DEF RepeatedOnlyIfSent
<1>7. ASSUME NEW i \in DOMAIN groups, DropsGroup(i)
      PROVE  RepeatedOnlyIfSent'
  <2> DEFINE q == RemoveAt(groups, i)
  <2>1. groups' = q /\ repeated' = repeated \ {groups[i].key}
    BY <1>7 DEF DropsGroup
  <2>2. /\ DOMAIN q = 1 .. (n - 1)
        /\ \A j \in 1 .. (n - 1) : q[j] = IF j < i THEN groups[j] ELSE groups[j + 1]
    BY <1>1, RemoveAtProperties DEF n
  <2> HIDE DEF q
  <2>3. ASSUME NEW j \in DOMAIN q
        PROVE  \E k \in DOMAIN groups : k # i /\ q[j] = groups[k]
    <3>1. j \in 1 .. n /\ j + 1 \in 1 .. n /\ (j < i => j # i) /\ (~(j < i) => j + 1 # i)
      BY <1>4, <2>2
    <3> QED
      BY <1>4, <2>2, <3>1
  <2>4. \A k \in DOMAIN groups : k # i => groups[k].key # groups[i].key
    BY <1>2
  <2>5. \A j \in DOMAIN q : ~IsInjective(q[j].members) => q[j].key \in repeated'
    BY <1>3, <2>1, <2>3, <2>4
  <2> QED
    BY <2>1, <2>5 DEF RepeatedOnlyIfSent
<1>8. CASE groups' = groups /\ repeated' = repeated
  BY <1>8 DEF RepeatedOnlyIfSent
<1> QED
  BY <1>5, <1>6, <1>7, <1>8, MarkSteps

\* A group has a member twice only if a client named it twice in one list.
THEOREM RepeatsWereSent == Spec => []RepeatedOnlyIfSent
<1>1. Init => RepeatedOnlyIfSent
  <2>1. DOMAIN <<>> = {}
    OBVIOUS
  <2> QED
    BY <2>1 DEF Init, RepeatedOnlyIfSent
<1>2. Dicts /\ RepeatedOnlyIfSent /\ [Next]_vars => RepeatedOnlyIfSent'
  BY MarkStep
<1> QED
  BY <1>1, <1>2, AlwaysKeyed, PTL DEF Spec

-----------------------------------------------------------------------------
(* The users. *)

\* What Dicts says of the users.
LEMMA UserDict ==
  ASSUME Dicts
  PROVE  /\ users \in Seq(User) /\ drawn \in [{"users", "groups"} -> Nat]
         /\ \A i \in DOMAIN users : users[i].key \in 1 .. drawn["users"]
         /\ \A i, j \in DOMAIN users : users[i].key = users[j].key => i = j
<1>1. "users" \in Kinds /\ Dict("users") = users /\ Resource("users") = User
  BY DEF Kinds, Dict, Resource
<1> QED
  BY <1>1 DEF Dicts, DictsTyped, KeysDrawn, Kinds

\* Every user in the dict is a user.
LEMMA UserFields ==
  ASSUME users \in Seq(User), NEW i \in DOMAIN users
  PROVE  /\ users[i] \in User /\ users[i].tenant \in Tenants
         /\ users[i].key \in Nat /\ users[i].name \in Names
<1>1. users[i] \in User
  BY LenProperties, ElementOfSeq
<1> QED
  BY <1>1 DEF User

-----------------------------------------------------------------------------
(* What a step does to the users. *)

\* A user of t is created with the next key and a name that is free in t.
Creates(t, name) ==
  LET key == drawn["users"] + 1
  IN /\ ~Taken(t, name, 0)
     /\ users' = Append(users, [tenant |-> t, key |-> key, name |-> name])
     /\ renamed' = renamed

\* The user at i is written under a name, which is free but for a patch that
\* leaves the mark of the user.
Writes(i, name) ==
  LET key == users[i].key
  IN /\ users' = Stored(users, i, [users[i] EXCEPT !.name = name])
     /\ \/ ~Taken(users[i].tenant, name, key) /\ renamed' = renamed \ {key}
        \/ name # users[i].name /\ renamed' = renamed \cup {key}
        \/ name = users[i].name /\ renamed' = renamed

\* The user at i is deleted.
Deletes(i) ==
  /\ users' = RemoveAt(users, i)
  /\ renamed' = renamed \ {users[i].key}

\* The users stay as they are.
Spares == users' = users /\ renamed' = renamed

\* Every step does one of these.
LEMMA Steps ==
  ASSUME Dicts, [Next]_vars
  PROVE  \/ \E t \in Tenants, name \in Names : Creates(t, name)
         \/ \E i \in DOMAIN users, name \in Names : Writes(i, name)
         \/ \E i \in DOMAIN users : Deletes(i)
         \/ Spares
<1>1. users \in Seq(User)
  BY UserDict
<1>2. ASSUME NEW t \in Tenants, UserWrites(t)
      PROVE  \/ \E name \in Names : Creates(t, name)
             \/ \E i \in DOMAIN users, name \in Names : Writes(i, name)
             \/ \E i \in DOMAIN users : Deletes(i)
             \/ Spares
  <2>1. ASSUME Refuse PROVE Spares
    BY <2>1 DEF Refuse, Spares
  <2>2. ASSUME NEW name \in Names, CreateUser(t, name)
        PROVE  Creates(t, name)
    <3>1. drawn'["users"] = drawn["users"] + 1
      BY <2>2, UserDict DEF CreateUser
    <3> QED
      BY <2>2, <3>1 DEF CreateUser, Creates
  <2>3. ASSUME NEW key, NEW name \in Names, ReplaceUser(t, key, name)
        PROVE  \E i \in DOMAIN users : Writes(i, name)
    <3>1. PICK i \in At(users, t, key) :
            /\ ~Taken(t, name, key)
            /\ users' = Stored(users, i, [users[i] EXCEPT !.name = name])
            /\ renamed' = renamed \ {key}
      BY <2>3 DEF ReplaceUser
    <3>2. i \in DOMAIN users /\ users[i].tenant = t /\ users[i].key = key
      BY DEF At
    <3> QED
      BY <3>1, <3>2 DEF Writes
  <2>4. ASSUME NEW key, NEW names \in UserPatches, PatchUser(t, key, names)
        PROVE  \E i \in DOMAIN users, name \in Names : Writes(i, name)
    <3>1. PICK i \in At(users, t, key) :
            LET name == PatchedName(users[i], names)
            IN /\ ValidName(name)
               /\ users' = Stored(users, i, [users[i] EXCEPT !.name = name])
               /\ renamed' = IF name # users[i].name THEN renamed \cup {key} ELSE renamed
      BY <2>4 DEF PatchUser
    <3>2. i \in DOMAIN users /\ users[i].key = key
      BY DEF At
    <3> DEFINE name == PatchedName(users[i], names)
    <3>3. name \in Names
      BY <1>1, <3>1, <3>2, UserFields, PatchedNameIsOne
    <3>4. Writes(i, name)
      <4> HIDE DEF name
      <4>1. /\ users' = Stored(users, i, [users[i] EXCEPT !.name = name])
            /\ renamed' = IF name # users[i].name THEN renamed \cup {key} ELSE renamed
        BY <3>1 DEF name
      <4> QED
        BY <3>2, <4>1 DEF Writes
    <3> HIDE DEF name
    <3> QED
      BY <3>2, <3>3, <3>4
  <2>5. ASSUME NEW key, DeleteUser(t, key)
        PROVE  \E i \in DOMAIN users : Deletes(i)
    <3>1. PICK i \in At(users, t, key) :
            /\ users' = RemoveAt(users, i)
            /\ renamed' = renamed \ {key}
      BY <2>5 DEF DeleteUser
    <3>2. i \in DOMAIN users /\ users[i].key = key
      BY DEF At
    <3> QED
      BY <3>1, <3>2 DEF Deletes
  <2>6. CASE \E name \in Names : CreateUser(t, name) \/ CreateUserConflict(t, name)
    BY <2>1, <2>2, <2>6 DEF CreateUserConflict
  <2>7. ASSUME NEW key \in 1 .. MaxUsers,
               \/ \E name \in Names :
                    ReplaceUser(t, key, name) \/ ReplaceUserFails(t, key, name)
               \/ \E names \in UserPatches :
                    PatchUser(t, key, names) \/ PatchUserFails(t, key, names)
               \/ DeleteUser(t, key) \/ DeleteUserFails(t, key)
        PROVE  \/ \E i \in DOMAIN users, name \in Names : Writes(i, name)
               \/ \E i \in DOMAIN users : Deletes(i)
               \/ Spares
    <3>1. CASE \E name \in Names : ReplaceUser(t, key, name)
      BY <2>3, <3>1
    <3>2. CASE \E names \in UserPatches : PatchUser(t, key, names)
      BY <2>4, <3>2
    <3>3. CASE DeleteUser(t, key)
      BY <2>5, <3>3
    <3>4. CASE Refuse
      BY <2>1, <3>4
    <3> QED
      BY <2>7, <3>1, <3>2, <3>3, <3>4
      DEF ReplaceUserFails, PatchUserFails, DeleteUserFails
  <2> QED
    BY <1>2, <2>6, <2>7 DEF UserWrites
<1>3. ASSUME NEW t \in Tenants, GroupWrites(t)
      PROVE  Spares
  BY <1>3
  DEF GroupWrites, CreateGroup, ReplaceGroup, ReplaceGroupFails, PatchGroup,
      PatchGroupFails, DeleteGroup, DeleteGroupFails, Refuse, Spares
<1>4. ASSUME Lists \/ UNCHANGED vars
      PROVE  Spares
  BY <1>4 DEF Lists, BeginWalk, ListPage, EndWalk, vars, Spares
<1> QED
  BY <1>2, <1>3, <1>4 DEF Next

-----------------------------------------------------------------------------
(* The names. *)

\* A name that is not taken is no other user's.
LEMMA FreeName ==
  ASSUME NEW t, NEW name, NEW key, ~Taken(t, name, key), NEW i \in DOMAIN users,
         users[i].tenant = t, users[i].name = name
  PROVE  users[i].key = key
BY DEF Taken, ToSet

\* Create: the key is new, and the name is no user's of the tenant.
LEMMA CreatesKeeps ==
  ASSUME Dicts, NamesUniqueButForPatch,
         NEW t \in Tenants, NEW name \in Names, Creates(t, name)
  PROVE  NamesUniqueButForPatch'
<1> DEFINE u == [tenant |-> t, key |-> drawn["users"] + 1, name |-> name]
           n == Len(users)
<1>1. users \in Seq(User) /\ u \in User /\ u.tenant = t /\ u.name = name
  BY UserDict DEF User
<1>2. users' = Append(users, u) /\ renamed' = renamed /\ ~Taken(t, name, 0)
  BY DEF Creates
<1> HIDE DEF u
<1>3. /\ n \in Nat /\ DOMAIN users = 1 .. n /\ DOMAIN users' = 1 .. (n + 1)
      /\ \A j \in DOMAIN users : users'[j] = users[j]
      /\ users'[n + 1] = u
  BY <1>1, <1>2, AppendedProperties
<1> HIDE DEF n
<1>4. ASSUME NEW i \in DOMAIN users'
      PROVE  \/ i \in DOMAIN users /\ users'[i] = users[i]
             \/ i = n + 1 /\ users'[i] = u
  BY <1>3
<1> SUFFICES ASSUME NEW i \in DOMAIN users', NEW j \in DOMAIN users', i # j,
                    users'[i].tenant = users'[j].tenant, users'[i].name = users'[j].name
             PROVE  {users'[i].key, users'[j].key} \cap renamed' # {}
  BY DEF NamesUniqueButForPatch
<1>5. ASSUME NEW k \in DOMAIN users, users[k].tenant = t, users[k].name = name
      PROVE  FALSE
  <2>1. users[k].key \in 1 .. drawn["users"] /\ drawn["users"] \in Nat
    BY UserDict
  <2>2. users[k].key = 0
    BY <1>2, <1>5, FreeName
  <2> QED
    BY <2>1, <2>2
<1>6. CASE i \in DOMAIN users /\ j \in DOMAIN users
  BY <1>2, <1>3, <1>6 DEF NamesUniqueButForPatch
<1>7. CASE ~(i \in DOMAIN users)
  BY <1>1, <1>4, <1>5, <1>7
<1>8. CASE ~(j \in DOMAIN users)
  BY <1>1, <1>4, <1>5, <1>8
<1> QED
  BY <1>6, <1>7, <1>8

\* Replace and patch: the key and the tenant stay, and either the name is no
\* other user's, or the user is marked, or nothing changes.
LEMMA WritesKeeps ==
  ASSUME Dicts, NamesUniqueButForPatch,
         NEW i \in DOMAIN users, NEW name \in Names, Writes(i, name)
  PROVE  NamesUniqueButForPatch'
<1> DEFINE u == [users[i] EXCEPT !.name = name]
           key == users[i].key
<1>1. users \in Seq(User) /\ users[i] \in User
  BY UserDict, UserFields
<1>2. u \in User /\ u.tenant = users[i].tenant /\ u.key = key /\ u.name = name
  BY <1>1 DEF User
<1>3. /\ users' = Stored(users, i, u)
      /\ \/ ~Taken(users[i].tenant, name, key) /\ renamed' = renamed \ {key}
         \/ name # users[i].name /\ renamed' = renamed \cup {key}
         \/ name = users[i].name /\ renamed' = renamed
  BY DEF Writes
<1> HIDE DEF u, key
<1>4. /\ DOMAIN users' = DOMAIN users
      /\ \A j \in DOMAIN users : users'[j] = IF j = i THEN u ELSE users[j]
  BY <1>1, <1>2, <1>3, StoredProperties
<1>5. \A j \in DOMAIN users : /\ users'[j].key = users[j].key
                              /\ users'[j].tenant = users[j].tenant
                              /\ users'[j].name = IF j = i THEN name ELSE users[j].name
  BY <1>2, <1>4 DEF key
<1>6. \A j \in DOMAIN users : users[j].key = key => j = i
  BY UserDict DEF key
<1> SUFFICES ASSUME NEW j \in DOMAIN users, NEW k \in DOMAIN users, j # k,
                    users[j].tenant = users[k].tenant, users'[j].name = users'[k].name
             PROVE  users[j].key \in renamed' \/ users[k].key \in renamed'
  BY <1>4, <1>5 DEF NamesUniqueButForPatch
<1>7. ASSUME NEW l \in DOMAIN users, l # i, users[l].tenant = users[i].tenant,
             users[l].name = name
      PROVE  Taken(users[i].tenant, name, key)
  BY <1>6, <1>7, FreeName
<1>8. CASE j # i /\ k # i
  <2>1. users[j].key # key /\ users[k].key # key
    BY <1>6, <1>8
  <2>2. users[j].key \in renamed \/ users[k].key \in renamed
    BY <1>5, <1>8 DEF NamesUniqueButForPatch
  <2> QED
    BY <1>3, <2>1, <2>2
<1>9. CASE j = i \/ k = i
  <2>1. Taken(users[i].tenant, name, key)
    BY <1>5, <1>7, <1>9
  <2>2. CASE renamed' = renamed \cup {key}
    BY <1>9, <2>2 DEF key
  <2>3. CASE name = users[i].name /\ renamed' = renamed
    BY <1>5, <2>3 DEF NamesUniqueButForPatch
  <2> QED
    BY <1>3, <2>1, <2>2, <2>3
<1> QED
  BY <1>8, <1>9

\* Delete: the mark that goes is no other user's.
LEMMA DeletesKeeps ==
  ASSUME Dicts, NamesUniqueButForPatch, NEW i \in DOMAIN users, Deletes(i)
  PROVE  NamesUniqueButForPatch'
<1> DEFINE n == Len(users)
           from(j) == IF j < i THEN j ELSE j + 1
<1>1. users \in Seq(User) /\ n \in Nat /\ DOMAIN users = 1 .. n
  BY UserDict, LenProperties
<1>2. users' = RemoveAt(users, i) /\ renamed' = renamed \ {users[i].key}
  BY DEF Deletes
<1>3. /\ DOMAIN users' = 1 .. (n - 1)
      /\ \A j \in 1 .. (n - 1) : users'[j] = IF j < i THEN users[j] ELSE users[j + 1]
  BY <1>1, <1>2, RemoveAtProperties
<1> HIDE DEF n
<1>4. ASSUME NEW j \in DOMAIN users'
      PROVE  from(j) \in DOMAIN users /\ from(j) # i /\ users'[j] = users[from(j)]
  BY <1>1, <1>3
<1>5. ASSUME NEW j \in DOMAIN users', NEW k \in DOMAIN users', from(j) = from(k)
      PROVE  j = k
  BY <1>1, <1>3, <1>5
<1> HIDE DEF from
<1> SUFFICES ASSUME NEW j \in DOMAIN users', NEW k \in DOMAIN users', j # k,
                    users'[j].tenant = users'[k].tenant, users'[j].name = users'[k].name
             PROVE  {users'[j].key, users'[k].key} \cap renamed' # {}
  BY DEF NamesUniqueButForPatch
<1>6. {users[from(j)].key, users[from(k)].key} \cap renamed # {}
  BY <1>4, <1>5 DEF NamesUniqueButForPatch
<1>7. users[from(j)].key # users[i].key /\ users[from(k)].key # users[i].key
  BY <1>4, UserDict
<1> QED
  BY <1>2, <1>4, <1>6, <1>7

LEMMA NamesStep ==
  ASSUME Dicts, NamesUniqueButForPatch, [Next]_vars
  PROVE  NamesUniqueButForPatch'
<1>1. CASE Spares
  BY <1>1 DEF Spares, NamesUniqueButForPatch
<1> QED
  BY <1>1, Steps, CreatesKeeps, WritesKeeps, DeletesKeeps

\* ScimConflictError is raised for every duplicate userName but those of PATCH:
\* however many users there are and whatever is created, replaced, patched and
\* deleted, two of a tenant have one userName only if PATCH wrote it for one.
THEOREM NamesAreUniqueButForPatch == Spec => []NamesUniqueButForPatch
<1>1. Init => NamesUniqueButForPatch
  <2> SUFFICES ASSUME Init PROVE NamesUniqueButForPatch
    OBVIOUS
  <2>1. DOMAIN users = {}
    BY EmptySeq, LenProperties DEF Init
  <2> QED
    BY <2>1 DEF NamesUniqueButForPatch
<1>2. Dicts /\ NamesUniqueButForPatch /\ [Next]_vars => NamesUniqueButForPatch'
  BY NamesStep
<1> QED
  BY <1>1, <1>2, AlwaysKeyed, PTL DEF Spec
=============================================================================
