-------------------------- MODULE FailureOrderProofs --------------------------
(***************************************************************************)
(* Proofs about FailureOrder, for every set of custom codes and every      *)
(* sequence of codes.  The loop keeps `seen` equal to the codes it has     *)
(* listed, each once; the comparison is a strict total order on codes, so  *)
(* a rearrangement without inversions puts every code after exactly its    *)
(* predecessors, and the result cannot depend on the order of arrival.     *)
(***************************************************************************)
EXTENDS FailureOrder, FiniteSetTheorems, TLAPS

Visited == {codes[n] : n \in 1..(next - 1)}
ListedOnce == \A m, n \in 1..Len(ordered) : ordered[m] = ordered[n] => m = n
Sorted == \A m, n \in 1..Len(ordered) : m < n => Before(ordered[m], ordered[n])

IInv ==
    /\ TypeOK
    /\ ListedOnce
    /\ seen = Listed
    /\ pc = "dedupe" => Listed = Visited
    /\ pc \in {"sort", "done"} => Listed = Given
    /\ pc = "done" => Sorted

-----------------------------------------------------------------------------
\* The table gives every known code a place of its own.
LEMMA PrioritiesAreDistinct ==
    /\ \A a \in Known : FailurePriority[a] \in Nat
    /\ \A a, b \in Known : FailurePriority[a] = FailurePriority[b] => a = b
BY SMTT(60) DEF FailurePriority, Known

\* The comparison is a strict total order on codes.
LEMMA BeforeIsStrictTotalOrder ==
    /\ \A a \in Codes : ~Before(a, a)
    /\ \A a, b \in Codes : a # b => Before(a, b) \/ Before(b, a)
    /\ \A a, b \in Codes : ~(Before(a, b) /\ Before(b, a))
    /\ \A a, b, c \in Codes : Before(a, b) /\ Before(b, c) => Before(a, c)
<1>. DEFINE known == Known
            priority == FailurePriority
<1>1. /\ \A a \in known : priority[a] \in Nat
      /\ \A a, b \in known : priority[a] = priority[b] => a = b
  BY PrioritiesAreDistinct
<1>2. /\ \A a \in Codes \ known : Alphabetical[a] \in Nat
      /\ \A a, b \in Codes \ known : Alphabetical[a] = Alphabetical[b] => a = b
  BY OrderAssumption DEF Codes
<1>3. \A a, b : Before(a, b) <=>
          \/ a \in known /\ b \in known /\ priority[a] < priority[b]
          \/ a \in known /\ b \notin known
          \/ a \notin known /\ b \notin known /\ Alphabetical[a] < Alphabetical[b]
  BY DEF Before
<1>. HIDE DEF known, priority
<1>. QED
  BY <1>1, <1>2, <1>3

-----------------------------------------------------------------------------
LEMMA InitEstablishesIInv == Init => IInv
BY OrderAssumption DEF Init, IInv, TypeOK, ListedOnce, Listed, Visited

LEMMA VisitKeepsIInv == IInv /\ Visit => IInv'
<1>. SUFFICES ASSUME IInv, Visit PROVE IInv'
  OBVIOUS
<1>1. next' = next + 1 /\ UNCHANGED <<pc, codes>> /\ next \in 1..Len(codes) /\ pc = "dedupe"
  BY DEF Visit, IInv, TypeOK
<1>2. codes[next] \in Codes
  BY <1>1 DEF IInv, TypeOK
<1>3. Visited' = Visited \cup {codes[next]}
  <2>1. 1..(next' - 1) = (1..(next - 1)) \cup {next}
    BY <1>1
  <2>2. Visited' = {codes[n] : n \in (1..(next - 1)) \cup {next}}
    BY <1>1, <2>1 DEF Visited
  <2>. QED
    BY <2>2 DEF Visited
<1>4. CASE codes[next] \in seen
  <2>1. UNCHANGED <<seen, ordered>>
    BY <1>4 DEF Visit
  <2>. QED
    BY <1>1, <1>3, <1>4, <2>1 DEF IInv, TypeOK, ListedOnce, Listed
<1>5. CASE codes[next] \notin seen
  <2>1. seen' = seen \cup {codes[next]} /\ ordered' = Append(ordered, codes[next])
    BY <1>5 DEF Visit
  <2>2. /\ ordered' \in Seq(Codes)
        /\ Len(ordered') = Len(ordered) + 1
        /\ \A n \in 1..Len(ordered) : ordered'[n] = ordered[n]
        /\ ordered'[Len(ordered) + 1] = codes[next]
        /\ Len(ordered) \in Nat
    BY <1>2, <2>1 DEF IInv, TypeOK
  <2>3. Listed' = Listed \cup {codes[next]}
    BY <2>2 DEF Listed
  <2>4. ListedOnce'
    BY <1>5, <2>2 DEF IInv, ListedOnce, Listed
  <2>5. TypeOK'
    BY <1>1, <1>2, <2>1, <2>2 DEF IInv, TypeOK
  <2>. QED
    BY <1>1, <1>3, <2>1, <2>3, <2>4, <2>5 DEF IInv
<1>. QED
  BY <1>4, <1>5

LEMMA LoopEndsKeepsIInv == IInv /\ LoopEnds => IInv'
<1>. SUFFICES ASSUME IInv, LoopEnds PROVE IInv'
  OBVIOUS
<1>1. Visited = Given
  BY DEF LoopEnds, IInv, TypeOK, Visited, Given
<1>2. UNCHANGED <<codes, next, seen, ordered>> /\ pc' = "sort" /\ pc = "dedupe"
  BY DEF LoopEnds
<1>3. Given' = Given /\ Listed' = Listed /\ (ListedOnce <=> ListedOnce')
  BY <1>2 DEF Given, Listed, ListedOnce
<1>4. TypeOK'
  BY <1>2 DEF IInv, TypeOK
<1>. QED
  BY <1>1, <1>2, <1>3, <1>4 DEF IInv

LEMMA SortKeepsIInv == IInv /\ SliceStable => IInv'
<1>. SUFFICES ASSUME IInv, SliceStable PROVE IInv'
  OBVIOUS
<1>. DEFINE size == Len(ordered)
<1>1. PICK p \in Bijection(1..size, 1..size) : Stable(p) /\ ordered' = Rearranged(p)
  BY DEF SliceStable
<1>2. /\ size \in Nat
      /\ p \in [1..size -> 1..size]
      /\ \A m, n \in 1..size : p[m] = p[n] => m = n
      /\ \A n \in 1..size : \E m \in 1..size : p[m] = n
  BY <1>1 DEF Bijection, Injection, Surjection, IsInjective, IInv, TypeOK
<1>3. /\ ordered' \in Seq(Codes)
      /\ Len(ordered') = size
      /\ \A n \in 1..size : ordered'[n] = ordered[p[n]]
  BY <1>1, <1>2 DEF Rearranged, IInv, TypeOK
<1>4. Listed' = Listed
  <2>1. Listed' = {ordered[p[n]] : n \in 1..size}
    BY <1>3 DEF Listed
  <2>2. \A x : x \in Listed <=> \E n \in 1..size : x = ordered[p[n]]
    BY <1>2 DEF Listed
  <2>. QED
    BY <2>1, <2>2
<1>. HIDE DEF size
<1>5. ListedOnce'
  <2>1. \A m, n \in 1..size : ordered[m] = ordered[n] => m = n
    BY DEF IInv, ListedOnce, size
  <2>. SUFFICES ASSUME NEW m \in 1..size, NEW n \in 1..size, ordered'[m] = ordered'[n]
                PROVE  m = n
    BY <1>3 DEF ListedOnce
  <2>2. p[m] \in 1..size /\ p[n] \in 1..size /\ ordered[p[m]] = ordered[p[n]]
    BY <1>2, <1>3
  <2>. QED
    BY <1>2, <2>1, <2>2
<1>6. Sorted'
  <2>. SUFFICES ASSUME NEW m \in 1..size, NEW n \in 1..size, m < n
                PROVE  Before(ordered[p[m]], ordered[p[n]])
    BY <1>3 DEF Sorted, Before
  <2>0. p[m] \in 1..size /\ p[n] \in 1..size /\ p[m] # p[n]
    BY <1>2
  <2>1. ordered[p[m]] # ordered[p[n]]
    BY <2>0 DEF IInv, ListedOnce, size
  <2>2. ordered[p[m]] \in Codes /\ ordered[p[n]] \in Codes
    BY <2>0 DEF IInv, TypeOK, size
  <2>3. ~Before(ordered[p[n]], ordered[p[m]])
    BY <1>1 DEF Stable, size
  <2>. QED
    BY <2>1, <2>2, <2>3, BeforeIsStrictTotalOrder
<1>7. UNCHANGED <<codes, next, seen>> /\ pc' = "done" /\ pc = "sort"
  BY DEF SliceStable
<1>. QED
  BY <1>3, <1>4, <1>5, <1>6, <1>7 DEF IInv, TypeOK, Given

LEMMA IInvInvariant == Spec => []IInv
<1>1. IInv /\ UNCHANGED vars => IInv'
  <2>. SUFFICES ASSUME IInv, UNCHANGED vars PROVE IInv'
    OBVIOUS
  <2>1. UNCHANGED <<pc, codes, next, seen, ordered>>
    BY DEF vars
  <2>2. /\ Listed' = Listed /\ Visited' = Visited /\ Given' = Given
        /\ (ListedOnce <=> ListedOnce') /\ (TypeOK <=> TypeOK')
    BY <2>1 DEF Listed, Visited, Given, ListedOnce, TypeOK
  <2>3. Sorted <=> Sorted'
    BY <2>1 DEF Sorted, Before
  <2>. QED
    BY <2>1, <2>2, <2>3 DEF IInv
<1>2. IInv /\ [Next]_vars => IInv'
  BY <1>1, VisitKeepsIInv, LoopEndsKeepsIInv, SortKeepsIInv DEF Next
<1>. QED
  BY InitEstablishesIInv, <1>2, PTL DEF Spec

-----------------------------------------------------------------------------
(* What the user sees.                                                     *)

\* The type invariant of the loop and the sort.
THEOREM TypeCorrect == Spec => []TypeOK
<1>1. IInv => TypeOK
  BY DEF IInv
<1>. QED
  BY <1>1, IInvInvariant, PTL

\* Every code of the policy is shown, and shown once (failure_order.go:31-39).
THEOREM EveryCodeIsShownOnce == Spec => []EveryCodeOnce
<1>1. IInv => EveryCodeOnce
  BY DEF IInv, EveryCodeOnce, ListedOnce
<1>. QED
  BY <1>1, IInvInvariant, PTL

\* The order shown is a function of the set of codes: each code is preceded by
\* exactly the given codes that the documented order puts before it.
THEOREM OrderIsCanonical == Spec => []OrderDependsOnTheSetOnly
<1>1. IInv => OrderDependsOnTheSetOnly
  <2>. SUFFICES ASSUME IInv, pc = "done", NEW n \in 1..Len(ordered)
                PROVE  /\ IsFiniteSet(Predecessors(ordered[n]))
                       /\ Cardinality(Predecessors(ordered[n])) = n - 1
    BY DEF OrderDependsOnTheSetOnly
  <2>. DEFINE place == [m \in 1..(n - 1) |-> ordered[m]]
              before == Predecessors(ordered[n])
  <2>1. /\ Len(ordered) \in Nat
        /\ \A m \in 1..Len(ordered) : ordered[m] \in Codes
        /\ 1..(n - 1) \subseteq 1..Len(ordered)
    BY DEF IInv, TypeOK
  <2>2. \A other : other \in before <=> \E m \in 1..(n - 1) : other = ordered[m]
    <3>1. ASSUME NEW m \in 1..(n - 1) PROVE ordered[m] \in before
      BY <2>1 DEF IInv, Sorted, Listed, Predecessors
    <3>2. ASSUME NEW other \in before PROVE \E m \in 1..(n - 1) : other = ordered[m]
      <4>1. PICK m \in 1..Len(ordered) : other = ordered[m]
        BY <3>2 DEF IInv, Listed, Predecessors
      <4>2. Before(ordered[m], ordered[n])
        BY <3>2, <4>1 DEF Predecessors
      <4>3. ~(m > n) /\ m # n
        BY <2>1, <4>2, BeforeIsStrictTotalOrder DEF IInv, Sorted
      <4>. QED
        BY <2>1, <4>1, <4>3
    <3>. QED
      BY <3>1, <3>2
  <2>3. place \in Bijection(1..(n - 1), before)
    <3>1. place \in [1..(n - 1) -> before]
      BY <2>2
    <3>2. \A k, m \in 1..(n - 1) : place[k] = place[m] => k = m
      BY <2>1 DEF IInv, ListedOnce
    <3>3. \A other \in before : \E m \in 1..(n - 1) : place[m] = other
      BY <2>2
    <3>. QED
      BY <3>1, <3>2, <3>3 DEF Bijection, Injection, Surjection, IsInjective
  <2>4. IsFiniteSet(1..(n - 1)) /\ Cardinality(1..(n - 1)) = n - 1
    BY FS_Interval
  <2>5. IsFiniteSet(before) /\ Cardinality(before) = n - 1
    <3>. HIDE DEF place, before
    <3>1. ExistsBijection(1..(n - 1), before)
      BY <2>3 DEF ExistsBijection
    <3>. QED
      BY <2>4, <3>1, FS_Bijection
  <2>. QED
    BY <2>5
<1>. QED
  BY <1>1, IInvInvariant, PTL

=============================================================================
