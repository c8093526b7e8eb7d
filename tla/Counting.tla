------------------------------ MODULE Counting ------------------------------
(***************************************************************************)
(* How the number of threads at some locations changes with a step.        *)
(***************************************************************************)
EXTENDS Integers, FiniteSets, FiniteSetTheorems, TLAPS

\* The members of S that are at a location of L.
Among(S, f, L) == {x \in S : f[x] \in L}

\* a and b members of S, before and after the step that moves one from location x to l.
Moved(a, b, x, l, L) ==
  /\ a \in Nat /\ b \in Nat
  /\ (x \in L <=> l \in L) => b = a
  /\ x \notin L /\ l \in L => b = a + 1
  /\ x \in L /\ l \notin L => b = a - 1
  /\ x \in L => a > 0

\* Moving one thread changes the number of those in a set of locations by one at most.
LEMMA CountMoves ==
  ASSUME NEW Threads, NEW Locations, NEW S, IsFiniteSet(S), NEW f \in [Threads -> Locations],
         S \subseteq Threads, NEW t \in S, NEW l \in Locations, NEW L
  PROVE  Moved(Cardinality(Among(S, f, L)), Cardinality(Among(S, [f EXCEPT ![t] = l], L)), f[t], l, L)
<1> DEFINE A == {x \in S : f[x] \in L}
           B == {x \in S : [f EXCEPT ![t] = l][x] \in L}
<1>1. IsFiniteSet(A) /\ IsFiniteSet(B)
  BY FS_Subset
<1>2. Cardinality(A) \in Nat /\ Cardinality(B) \in Nat
  BY <1>1, FS_CardinalityType
<1>3. (f[t] \in L <=> l \in L) => B = A
  OBVIOUS
<1>4. f[t] \notin L /\ l \in L => B = A \cup {t} /\ t \notin A
  OBVIOUS
<1>5. f[t] \in L /\ l \notin L => B = A \ {t} /\ t \in A
  OBVIOUS
<1>6. f[t] \in L => t \in A
  OBVIOUS
<1> HIDE DEF A, B
<1>7. t \in A => Cardinality(A) > 0
  BY <1>1, <1>2, FS_EmptySet
<1>8. f[t] \notin L /\ l \in L => Cardinality(B) = Cardinality(A) + 1
  BY <1>1, <1>4, FS_AddElement
<1>9. f[t] \in L /\ l \notin L => Cardinality(B) = Cardinality(A) - 1
  BY <1>1, <1>5, FS_RemoveElement
<1> QED BY <1>2, <1>3, <1>6, <1>7, <1>8, <1>9, ZenonT(40) DEF A, B, Among, Moved
=============================================================================
