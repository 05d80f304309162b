--------------------------- MODULE NaturalInduction ---------------------------
(***************************************************************************)
(* Induction over the natural numbers stated with sets, so that it can be  *)
(* cited without instantiating an operator: the sets that searches, loops  *)
(* and walks of the kernel range over have least members, and a set closed *)
(* under successor holds every number.                                     *)
(***************************************************************************)
EXTENDS Integers, FiniteSetTheorems, TLAPS

\* A nonempty set of natural numbers has a least member: what the kernel's
\* loops "for(i = 0; ...; i++)" that stop at the first hit find.
THEOREM LeastNumber ==
  ASSUME NEW S, S \subseteq Nat, S # {}
  PROVE  \E m \in S : \A k \in S : m =< k
<1> DEFINE Down == {0 .. m : m \in S}
           R == StrictSubsetOrdering(Nat)
<1>1. IsWellFoundedOn(R, FiniteSubsetsOf(Nat))
  BY FS_StrictSubsetOrderingWellFounded, Zenon
<1>2. \A m \in S : 0 .. m \in FiniteSubsetsOf(Nat)
  <2> TAKE m \in S
  <2>1. 0 \in Int /\ m \in Int /\ 0 .. m \subseteq Nat
    OBVIOUS
  <2>2. IsFiniteSet(0 .. m)
    BY <2>1, FS_Interval, Zenon
  <2> QED
    BY <2>1, <2>2, Zenon DEF FiniteSubsetsOf
<1>3. Down \subseteq FiniteSubsetsOf(Nat) /\ Down # {}
  BY <1>2, Zenon
<1>4. \E x \in Down : \A y \in Down : ~(<<y, x>> \in R)
  <2> HIDE DEF Down, R
  <2> QED
    BY <1>1, <1>3, WFMin, Zenon
<1>5. PICK m \in S : \A k \in S : ~(<<0 .. k, 0 .. m>> \in R)
  <2> HIDE DEF R
  <2> QED
    BY <1>4
<1>6. \A k \in S : k < m => <<0 .. k, 0 .. m>> \in R
  <2> SUFFICES ASSUME NEW k \in S, k < m PROVE <<0 .. k, 0 .. m>> \in R
    OBVIOUS
  <2> DEFINE a == 0 .. k
             b == 0 .. m
  <2>1. a \in SUBSET Nat /\ b \in SUBSET Nat /\ a \subseteq b
    OBVIOUS
  <2>2. a # b
    <3>1. m \in b /\ m \notin a
      OBVIOUS
    <3> QED
      BY <3>1
  <2> HIDE DEF a, b
  <2>3. <<a, b>> \in R
    BY <2>1, <2>2 DEF StrictSubsetOrdering
  <2> QED
    BY <2>3 DEF a, b
<1>7. \A k \in S : ~(k < m)
  <2> HIDE DEF R
  <2> QED
    BY <1>5, <1>6, Zenon
<1>8. \A k \in S : m =< k
  BY <1>7
<1> QED
  BY <1>8

\* A set that holds 0 and the successor of each of its numbers holds all.
THEOREM ClosedUnderSuccessor ==
  ASSUME NEW S, 0 \in S, \A n \in Nat : n \in S => n + 1 \in S
  PROVE  \A n \in Nat : n \in S
<1> DEFINE Missing == Nat \ S
<1> SUFFICES ASSUME Missing # {} PROVE FALSE
  OBVIOUS
<1>1. PICK m \in Missing : \A k \in Missing : m =< k
  <2>1. Missing \subseteq Nat
    OBVIOUS
  <2> HIDE DEF Missing
  <2> QED
    BY <2>1, LeastNumber
<1>2. m \in Nat /\ m # 0
  OBVIOUS
<1>3. m - 1 \in Nat /\ m - 1 \notin Missing
  BY <1>1, <1>2
<1>4. (m - 1) + 1 \in S
  BY <1>3
<1> QED
  BY <1>2, <1>4

=============================================================================
