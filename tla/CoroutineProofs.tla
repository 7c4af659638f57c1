-------------------------- MODULE CoroutineProofs --------------------------
(***************************************************************************)
(* NtyCo's scheduler under lidis' coroutines, for every number of           *)
(* coroutines, descriptors, connections and forks: EachInOnePlace,          *)
(* WakesTheRightOne and DescriptorsOwned, from the invariant CoInv of       *)
(* CoroutineCalls.                                                          *)
(***************************************************************************)
EXTENDS CoroutineSteps, FiniteSetTheorems, WellFoundedInduction, TLAPS

\* The time the prover may take for a leaf; a few milliseconds are the rule.
USE SMTT(20)

-----------------------------------------------------------------------------
(* Finite sets.                                                             *)

LEMMA UpToFinite ==
    ASSUME NEW n \in Nat
    PROVE  IsFiniteSet(1..n) /\ Cardinality(1..n) = n
<1>1. 1 \in Int /\ n \in Int
  BY UpTo, Zenon
<1>2. IsFiniteSet(1..n) /\ Cardinality(1..n) = IF 1 > n THEN 0 ELSE n - 1 + 1
  BY <1>1, FS_Interval, Zenon
<1> QED
  BY <1>2, UpTo, Zenon

\* The sets of descriptors are finite.
LEMMA FdsFinite ==
    /\ Cardinality(Fds) = MaxFd
    /\ \A X \in SUBSET Fds : IsFiniteSet(X) /\ Cardinality(X) \in Nat
<1>1. MaxFd \in Nat
  BY Sizes, Zenon
<1>2. IsFiniteSet(Fds) /\ Cardinality(Fds) = MaxFd
  BY <1>1, UpToFinite, Zenon DEF Fds
<1>3. ASSUME NEW X \in SUBSET Fds
      PROVE  IsFiniteSet(X) /\ Cardinality(X) \in Nat
  BY <1>2, <1>3, FS_Subset, FS_CardinalityType, Zenon
<1> QED
  BY <1>2, <1>3, Zenon

LEMMA LeastIs ==
    ASSUME NEW S \in SUBSET Nat, NEW n \in S
    PROVE  Sets!Min(S) \in S
<1> DEFINE R == OpToRel(<, Nat)
           Q == {ss \in Nat \X Nat : ss[1] < ss[2]}
<1>1. IsWellFoundedOn(R, Nat)
  BY NatLessThanWellFounded, Zenon
<1>2. R = Q
  BY Zenon DEF OpToRel
<1>3. PICK k \in S : \A j \in S : ~(<<j, k>> \in R)
  BY <1>1, WFMin, Zenon
<1> HIDE DEF R
<1>4. ASSUME NEW j \in S
      PROVE  k <= j
  <2>1. <<j, k>> \notin Q
    BY <1>2, <1>3, Zenon
  <2>2. j \in Nat /\ k \in Nat
    BY Zenon
  <2> QED
    BY <2>1, <2>2, NotLess, Zenon
<1> QED
  BY <1>4, Zenon DEF Sets!Min

\* A finite set with one more element.
LEMMA AtMost ==
    ASSUME NEW X, IsFiniteSet(X), NEW x
    PROVE  /\ IsFiniteSet(X \cup {x}) /\ Cardinality(X \cup {x}) \in Nat
           /\ Cardinality(X \cup {x}) <= Cardinality(X) + 1
<1>1. Cardinality(X) \in Nat
  BY FS_CardinalityType, Zenon
<1>2. /\ IsFiniteSet(X \cup {x})
      /\ Cardinality(X \cup {x}) = Cardinality(X) \/ Cardinality(X \cup {x}) = Cardinality(X) + 1
  BY FS_AddElement, Zenon
<1> DEFINE c == Cardinality(X \cup {x})
<1>3. c \in Nat /\ c <= Cardinality(X) + 1
  <2>1. c = Cardinality(X) \/ c = Cardinality(X) + 1
    BY <1>2, Zenon
  <2> HIDE DEF c
  <2> QED
    BY <1>1, <2>1, OneMore, Zenon
<1> QED
  BY <1>2, <1>3, Zenon

\* Three more elements make it all descriptors.
LEMMA FewFree ==
    ASSUME NEW X \in SUBSET Fds, NEW f, NEW g, NEW h, Fds \subseteq X \cup {f, g, h}
    PROVE  MaxFd <= Cardinality(X) + 3
<1> DEFINE A == X \cup {f}
           B == A \cup {g}
           C == B \cup {h}
<1>1. IsFiniteSet(X) /\ Cardinality(X) \in Nat
  BY FdsFinite, Zenon
<1>2. Fds \subseteq C
  BY Zenon
<1>3. IsFiniteSet(A) /\ Cardinality(A) \in Nat /\ Cardinality(A) <= Cardinality(X) + 1
  BY <1>1, AtMost, Zenon
<1> HIDE DEF A
<1>4. IsFiniteSet(B) /\ Cardinality(B) \in Nat /\ Cardinality(B) <= Cardinality(A) + 1
  BY <1>3, AtMost, Zenon
<1> HIDE DEF B
<1>5. IsFiniteSet(C) /\ Cardinality(C) \in Nat /\ Cardinality(C) <= Cardinality(B) + 1
  BY <1>4, AtMost, Zenon
<1> HIDE DEF C
<1>6. MaxFd <= Cardinality(C)
  <2>1. Cardinality(Fds) <= Cardinality(C)
    BY <1>2, <1>5, FS_Subset, Zenon
  <2> QED
    BY <2>1, FdsFinite, Zenon
<1> QED
  BY <1>1, <1>3, <1>4, <1>5, <1>6, Sizes, ThreeMore, Zenon

\* Every coroutine but one has an element of its own.
LEMMA FewRun ==
    ASSUME NEW X \in SUBSET Fds, NEW f, NEW g, NEW x \in X \cup {f, g}, NEW a \in Addr,
           NEW F \in [Addr \ {a} -> (X \cup {f, g}) \ {x}],
           \A b, c \in Addr \ {a} : F[b] = F[c] => b = c
    PROVE  MaxCo - 1 <= Cardinality(X) + 1
<1> DEFINE D == Addr \ {a}
           A == X \cup {f}
           B == A \cup {g}
           C == B \ {x}
<1>1. IsFiniteSet(X) /\ Cardinality(X) \in Nat
  BY FdsFinite, Zenon
<1>2. F \in Injection(D, C)
  <2>1. (X \cup {f}) \cup {g} = X \cup {f, g}
    BY Zenon
  <2>2. F \in [D -> C]
    BY <2>1, Zenon
  <2> HIDE DEF C
  <2> QED
    BY <2>2, Zenon DEF Injection, IsInjective
<1>3. x \in B
  BY Zenon
<1>4. IsFiniteSet(A) /\ Cardinality(A) \in Nat /\ Cardinality(A) <= Cardinality(X) + 1
  BY <1>1, AtMost, Zenon
<1> HIDE DEF A
<1>5. IsFiniteSet(B) /\ Cardinality(B) \in Nat /\ Cardinality(B) <= Cardinality(A) + 1
  BY <1>4, AtMost, Zenon
<1> HIDE DEF B
<1>6. IsFiniteSet(C) /\ Cardinality(C) = Cardinality(B) - 1
  BY <1>3, <1>5, FS_RemoveElement, Zenon
<1> HIDE DEF C, D
<1>7. IsFiniteSet(D) /\ Cardinality(D) <= Cardinality(C)
  BY <1>2, <1>6, FS_Injection, Zenon
<1>8. IsFiniteSet(Addr) /\ Cardinality(Addr) = MaxCo
  BY Sizes, UpToFinite, Zenon DEF Addr
<1>9. Cardinality(D) = Cardinality(Addr) - 1
  BY <1>8, FS_RemoveElement, Zenon DEF D
<1>10. MaxCo - 1 <= Cardinality(B) - 1
  BY <1>6, <1>7, <1>8, <1>9, Zenon
<1> QED
  BY <1>1, <1>4, <1>5, <1>10, Sizes, TwoMore, Zenon

LEMMA CountingHolds == Counting
<1>1. ASSUME NEW X \in SUBSET Fds
      PROVE  Cardinality(X) = 0 <=> X = {}
  BY FdsFinite, FS_EmptySet, Zenon
<1>2. ASSUME NEW X \in SUBSET Fds, NEW Y \in SUBSET X
      PROVE  Cardinality(Y) <= Cardinality(X)
  BY FdsFinite, FS_Subset, Zenon
<1>3. ASSUME NEW X \in SUBSET Fds, NEW f \in Fds \ X
      PROVE  Cardinality(X \cup {f}) = Cardinality(X) + 1
  BY FdsFinite, FS_AddElement, Zenon
<1> QED
  BY <1>1, <1>2, <1>3, FdsFinite, FS_Singleton, LeastIs, FewFree, FewRun, Zenon DEF Counting

-----------------------------------------------------------------------------
(* The invariant.                                                           *)

LEMMA InitInv == Init => CoInv
BY CountingHolds, InitialInv, Zenon

LEMMA NextInv == CoInv /\ [Next]_vars => CoInv'
<1> SUFFICES ASSUME CoInv, [Next]_vars
             PROVE  CoInv'
  OBVIOUS
<1>1. CASE RunReady
  BY <1>1, RunReadyInv, Zenon
<1>2. CASE nty_schedule_epoll
  BY <1>2, EpollInv, Zenon
<1>3. CASE RunEvent
  BY <1>3, RunEventInv, Zenon
<1>4. CASE RunSendfile
  BY <1>4, RunSendfileInv, Zenon
<1>5. CASE Connect
  BY <1>5, ConnectInv, Zenon
<1>6. CASE \E f \in 1..MaxFd : ClientSends(f) \/ ClientReads(f) \/ ClientCloses(f)
  BY <1>6, ClientInv, Zenon DEF Fds
<1>7. CASE \E k \in {Save, Sync} : ChildEnds(k)
  BY <1>7, ChildEndsInv, Zenon
<1>8. CASE UNCHANGED vars
  <2>1. Now' = Now
    BY <1>8, Zenon DEF vars, Now
  <2> QED
    BY <2>1, Zenon DEF CoInv
<1> QED
  BY <1>1, <1>2, <1>3, <1>4, <1>5, <1>6, <1>7, <1>8, Zenon DEF Next, Schedule

\* Spec implies CoInv, for the theorems below.
LEMMA CoInvAlways == Spec => []CoInv
BY InitInv, NextInv, PTL DEF Spec


-----------------------------------------------------------------------------
(* The theorems.                                                            *)

\* EachInOnePlace, of nty_schedule_run and the calls that put a coroutine in
\* the ready queue, make it wait, resume it or free it: for any number of
\* coroutines and descriptors, each that is not free is in exactly one place.
THEOREM EachAlwaysInOnePlace == Spec => []EachInOnePlace
BY InPlaces, CoInvAlways, PTL

\* WakesTheRightOne, of nty_poll_inner, nty_schedule_sched_wait and
\* nty_schedule_search_wait: the event of a descriptor resumes the coroutine
\* that waits for it, no assertion fails, and no event of a batch has lost its
\* waiter, for any number of coroutines, descriptors and connections.
THEOREM AlwaysWakesTheRightOne == Spec => []WakesTheRightOne
BY WakesRight, CoInvAlways, PTL

\* DescriptorsOwned, of accept, nty_coroutine_create, close, socketpair and the
\* coroutines' functions: an open descriptor has exactly one coroutine, a
\* closed one none, for any number of them, as long as server has not ended.
THEOREM DescriptorsAlwaysOwned == Spec => []DescriptorsOwned
BY HaveOwners, CoInvAlways, PTL

=============================================================================
