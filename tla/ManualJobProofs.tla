-------------------------- MODULE ManualJobProofs --------------------------
(***************************************************************************)
(* Proofs about ManualJob, for any programs, any layout, any device and    *)
(* any number of shots.  The combined circuit is divided again in four     *)
(* steps, each with lemmas of its own: the sums of lengths say which bits  *)
(* and qubits belong to which circuit; the gateway sorts the bits by       *)
(* physical qubit, a permutation that SwapKey undoes; so the swapped       *)
(* counts are what was measured; and cutting the strings at the sums gives *)
(* each circuit its own.  The inductive invariant carries these facts from *)
(* phase to phase.                                                         *)
(***************************************************************************)
EXTENDS ManualJob, SequenceTheorems, FiniteSetTheorems, TLAPS

-----------------------------------------------------------------------------
(* Induction and extrema of sets of numbers, from the well-foundedness of  *)
(* the natural numbers.                                                    *)

LEMMA LeastNatural ==
    ASSUME NEW T \in SUBSET Nat, T # {}
    PROVE  \E x \in T : \A y \in T : x <= y
<1>1. PICK x \in T : \A y \in T : ~(<<y, x>> \in OpToRel(<, Nat))
  BY NatLessThanWellFounded, WFMin
<1>2. \A y \in T : ~(y < x)
  BY <1>1 DEF OpToRel
<1>3. \A y \in T : x <= y
  BY <1>2
<1>4. QED
  BY <1>3

\* A set that has 0, and with a number its successor, up to n.
LEMMA IntervalInduction ==
    ASSUME NEW n \in Nat, NEW T, 0 \in T, \A i \in 0 .. n - 1 : i \in T => i + 1 \in T
    PROVE  \A i \in 0 .. n : i \in T
<1> DEFINE rest == {i \in 0 .. n : i \notin T}
<1> SUFFICES ASSUME rest # {}
             PROVE  FALSE
  OBVIOUS
<1>0. rest \in SUBSET Nat
  OBVIOUS
<1>1. PICK x \in rest : \A y \in rest : x <= y
  <2> HIDE DEF rest
  <2> QED
    BY <1>0, LeastNatural
<1>2. x # 0 /\ x - 1 \in 0 .. n - 1 /\ x - 1 \notin rest
  BY <1>1
<1>3. (x - 1) + 1 \in T
  BY <1>2
<1>4. QED
  BY <1>1, <1>3

\* Max of the community modules is the largest element of a bounded set.
LEMMA MaxIsLargest ==
    ASSUME NEW S \in SUBSET Nat, NEW n \in Nat, \A s \in S : s <= n, S # {}
    PROVE  Max(S) \in S /\ \A s \in S : s <= Max(S)
<1> DEFINE bounds == {k \in Nat : \A s \in S : s <= k}
<1>0. bounds \in SUBSET Nat /\ n \in bounds
  OBVIOUS
<1>1. PICK x \in bounds : \A y \in bounds : x <= y
  <2> HIDE DEF bounds
  <2> QED
    BY <1>0, LeastNatural
<1>2. x \in S
  <2> SUFFICES ASSUME x \notin S
               PROVE  FALSE
    OBVIOUS
  <2>1. \A s \in S : s < x
    BY <1>1
  <2>2. x # 0
    <3>1. PICK s \in S : s \in Nat /\ s < x
      BY <2>1
    <3>2. QED
      BY <3>1
  <2>3. x - 1 \in bounds
    BY <2>1, <2>2
  <2>4. QED
    BY <1>1, <2>3
<1>3. \A s \in S : x >= s
  BY <1>1
<1>4. QED
  BY <1>2, <1>3 DEF Max

-----------------------------------------------------------------------------
(* Sums of lengths.                                                        *)

\* f is the function of the sums of the first elements of x.
Totals(f, x) ==
    /\ f \in [0 .. Len(x) -> Nat]
    /\ f[0] = 0
    /\ \A i \in 1 .. Len(x) : f[i] = f[i - 1] + x[i]

LEMMA TotalsExist ==
    ASSUME NEW x \in Seq(Nat)
    PROVE  \E f : Totals(f, x)
<1> DEFINE upTo(n, f) == /\ f \in [0 .. n -> Nat]
                         /\ f[0] = 0
                         /\ \A i \in 1 .. n : f[i] = f[i - 1] + x[i]
           T == {n \in 0 .. Len(x) : \E f : upTo(n, f)}
<1>1. 0 \in T
  <2>1. upTo(0, [i \in 0 .. 0 |-> 0])
    OBVIOUS
  <2>2. \E f : upTo(0, f)
    <3> HIDE DEF upTo
    <3> QED
      BY <2>1
  <2>3. QED
    BY <2>2
<1>2. ASSUME NEW n \in 0 .. Len(x) - 1, n \in T
      PROVE  n + 1 \in T
  <2>1. PICK f : upTo(n, f)
    BY <1>2
  <2> DEFINE g == [i \in 0 .. n + 1 |-> IF i = n + 1 THEN f[n] + x[n + 1] ELSE f[i]]
  <2>2. x[n + 1] \in Nat /\ n + 1 \in 0 .. Len(x)
    OBVIOUS
  <2>3. g \in [0 .. n + 1 -> Nat]
    BY <2>1, <2>2
  <2>4. g[0] = 0
    BY <2>1
  <2>5. ASSUME NEW i \in 1 .. n + 1
        PROVE  g[i] = g[i - 1] + x[i]
    <3>1. CASE i = n + 1
      BY <3>1
    <3>2. CASE i # n + 1
      <4>1. i \in 1 .. n /\ i - 1 \in 0 .. n /\ i - 1 # n + 1
        BY <3>2
      <4>2. QED
        BY <2>1, <4>1
    <3>3. QED
      BY <3>1, <3>2
  <2>6. upTo(n + 1, g)
    BY <2>3, <2>4, <2>5
  <2>7. QED
    BY <2>2, <2>6
<1> HIDE DEF T
<1>3. Len(x) \in Nat /\ \A n \in 0 .. Len(x) - 1 : n \in T => n + 1 \in T
  BY <1>2
<1>4. \A i \in 0 .. Len(x) : i \in T
  BY <1>1, <1>3, IntervalInduction
<1>5. Len(x) \in T
  BY <1>3, <1>4
<1>6. QED
  BY <1>5 DEF T, Totals

\* Sum adds up the whole sequence.
LEMMA SumIsTotal ==
    ASSUME NEW x \in Seq(Nat), NEW f, Totals(f, x)
    PROVE  Sum(x) = f[Len(x)]
<1> DEFINE eqn(g) == g = [i \in 0 .. Len(x) |-> IF i = 0 THEN 0 ELSE g[i - 1] + x[i]]
           u == CHOOSE g : eqn(g)
           T == {i \in 0 .. Len(x) : u[i] = f[i]}
<1>1. eqn(f)
  <2> DEFINE h == [i \in 0 .. Len(x) |-> IF i = 0 THEN 0 ELSE f[i - 1] + x[i]]
  <2>1. \A i \in 0 .. Len(x) : f[i] = h[i]
    BY DEF Totals
  <2>2. f = h
    BY <2>1 DEF Totals
  <2>3. QED
    BY <2>2
<1>2. eqn(u)
  BY <1>1
<1>3. Sum(x) = u[Len(x)]
  BY DEF Sum
<1> HIDE DEF u
<1>4. 0 \in T
  BY <1>2 DEF Totals
<1>5. ASSUME NEW i \in 0 .. Len(x) - 1, i \in T
      PROVE  i + 1 \in T
  <2>1. i + 1 \in 1 .. Len(x) /\ i + 1 \in 0 .. Len(x) /\ (i + 1) - 1 = i
    OBVIOUS
  <2>2. u[i + 1] = u[i] + x[i + 1]
    BY <1>2, <2>1
  <2>3. f[i + 1] = f[i] + x[i + 1]
    BY <2>1 DEF Totals
  <2>4. QED
    BY <1>5, <2>1, <2>2, <2>3
<1> HIDE DEF T
<1>6. Len(x) \in Nat /\ \A i \in 0 .. Len(x) - 1 : i \in T => i + 1 \in T
  BY <1>5
<1>7. \A i \in 0 .. Len(x) : i \in T
  BY <1>4, <1>6, IntervalInduction
<1>8. u[Len(x)] = f[Len(x)]
  BY <1>6, <1>7 DEF T
<1>9. QED
  BY <1>3, <1>8

LEMMA SumOfPrefix ==
    ASSUME NEW x \in Seq(Nat), NEW f, Totals(f, x), NEW i \in 0 .. Len(x)
    PROVE  Sum(SubSeq(x, 1, i)) = f[i]
<1> DEFINE p == SubSeq(x, 1, i)
           g == [k \in 0 .. i |-> f[k]]
<1>1. p \in Seq(Nat) /\ Len(p) = i /\ \A k \in 1 .. i : p[k] = x[k]
  <2>1. \A k \in 1 .. i : x[k] \in Nat
    OBVIOUS
  <2>2. QED
    BY <2>1, SubSeqProperties
<1> HIDE DEF p
<1>2. Totals(g, p)
  <2>0. \A k \in 0 .. i : f[k] \in Nat
    BY DEF Totals
  <2>1. g \in [0 .. Len(p) -> Nat] /\ g[0] = 0
    BY <1>1, <2>0 DEF Totals
  <2>2. ASSUME NEW k \in 1 .. Len(p)
        PROVE  g[k] = g[k - 1] + p[k]
    <3>1. k \in 0 .. i /\ k - 1 \in 0 .. i /\ k \in 1 .. Len(x) /\ k \in 1 .. i
      BY <1>1
    <3>2. QED
      BY <1>1, <3>1 DEF Totals
  <2> HIDE DEF g
  <2>3. QED
    BY <2>1, <2>2 DEF Totals
<1>3. Sum(p) = g[i]
  BY <1>1, <1>2, SumIsTotal
<1>4. QED
  BY <1>3 DEF p

LEMMA TotalsMonotone ==
    ASSUME NEW x \in Seq(Nat), NEW f, Totals(f, x), NEW i \in 0 .. Len(x)
    PROVE  \A k \in i .. Len(x) : f[i] <= f[k]
<1> DEFINE T == {k \in 0 .. Len(x) : k >= i => f[i] <= f[k]}
<1>1. 0 \in T
  BY DEF Totals
<1>2. ASSUME NEW k \in 0 .. Len(x) - 1, k \in T
      PROVE  k + 1 \in T
  <2>1. /\ k + 1 \in 1 .. Len(x) /\ (k + 1) - 1 = k /\ x[k + 1] \in Nat
        /\ k \in 0 .. Len(x)
    OBVIOUS
  <2>2. f[k + 1] = f[(k + 1) - 1] + x[k + 1]
    BY <2>1 DEF Totals
  <2>3. f[k + 1] = f[k] + x[k + 1] /\ f[k] \in Nat /\ f[i] \in Nat
    BY <2>1, <2>2 DEF Totals
  <2>4. QED
    BY <1>2, <2>1, <2>3
<1> HIDE DEF T
<1>3. Len(x) \in Nat /\ \A k \in 0 .. Len(x) - 1 : k \in T => k + 1 \in T
  BY <1>2
<1>4. \A k \in 0 .. Len(x) : k \in T
  BY <1>1, <1>3, IntervalInduction
<1>5. QED
  BY <1>4 DEF T

Reversed(x) == [i \in 1 .. Len(x) |-> x[(Len(x) - i) + 1]]

\* The sums of the reversed sequence count from the other end.
LEMMA TotalsOfReverse ==
    ASSUME NEW x \in Seq(Nat), NEW f, Totals(f, x)
    PROVE  /\ Reversed(x) \in Seq(Nat) /\ Len(Reversed(x)) = Len(x)
           /\ Totals([i \in 0 .. Len(x) |-> f[Len(x)] - f[Len(x) - i]], Reversed(x))
<1> DEFINE n == Len(x)
           r == Reversed(x)
           g == [i \in 0 .. n |-> f[n] - f[n - i]]
<1>0. n \in Nat /\ f \in [0 .. n -> Nat]
  BY DEF Totals
<1>1. r = [i \in 1 .. n |-> x[(n - i) + 1]]
  BY DEF Reversed
<1>2. \A i \in 1 .. n : x[(n - i) + 1] \in Nat
  OBVIOUS
<1>3. r \in Seq(Nat) /\ Len(r) = n /\ \A i \in 1 .. n : r[i] = x[(n - i) + 1]
  BY <1>0, <1>1, <1>2
<1>4. \A i \in 0 .. n : f[n - i] <= f[n] /\ f[n - i] \in Nat /\ f[n] \in Nat
  <2> TAKE i \in 0 .. n
  <2>1. n - i \in 0 .. n /\ n \in (n - i) .. n /\ n \in 0 .. n
    BY <1>0
  <2>2. \A k \in (n - i) .. n : f[n - i] <= f[k]
    BY <2>1, TotalsMonotone
  <2>3. QED
    BY <1>0, <2>1, <2>2
<1>5. g \in [0 .. n -> Nat]
  BY <1>4
<1>6. g[0] = 0
  BY <1>0, <1>4
<1>7. ASSUME NEW i \in 1 .. n
      PROVE  g[i] = g[i - 1] + r[i]
  <2>1. /\ i - 1 \in 0 .. n /\ (n - i) + 1 \in 1 .. n /\ n - (i - 1) = (n - i) + 1
        /\ ((n - i) + 1) - 1 = n - i /\ n - i \in 0 .. n /\ i \in 0 .. n
    BY <1>0
  <2>2. f[(n - i) + 1] = f[n - i] + x[(n - i) + 1]
    BY <2>1 DEF Totals
  <2>3. g[i] = f[n] - f[n - i] /\ g[i - 1] = f[n] - f[(n - i) + 1]
    BY <2>1
  <2>4. f[n] \in Nat /\ f[n - i] \in Nat
    BY <1>4, <2>1
  <2>5. x[(n - i) + 1] \in Nat /\ r[i] = x[(n - i) + 1]
    BY <1>2, <1>3
  <2> HIDE DEF g, r
  <2>6. QED
    BY <2>2, <2>3, <2>4, <2>5
<1> HIDE DEF g, r
<1>8. Totals(g, r)
  BY <1>3, <1>5, <1>6, <1>7 DEF Totals
<1>9. QED
  BY <1>3, <1>8 DEF g, r

-----------------------------------------------------------------------------
(* The qubits and the classical bits of the circuits of a program.         *)

WellFormed(circuits) ==
    /\ circuits \in Seq([qubits : Nat, clbits : Nat])
    /\ \A i \in DOMAIN circuits : circuits[i].clbits <= circuits[i].qubits

LEMMA NumsAreLengths ==
    ASSUME NEW circuits, WellFormed(circuits)
    PROVE  /\ Len(circuits) \in Nat /\ DOMAIN circuits = 1 .. Len(circuits)
           /\ NumClbits(circuits) \in Seq(Nat) /\ NumQubits(circuits) \in Seq(Nat)
           /\ Len(NumClbits(circuits)) = Len(circuits)
           /\ Len(NumQubits(circuits)) = Len(circuits)
           /\ \A i \in 1 .. Len(circuits) :
                 /\ NumClbits(circuits)[i] = circuits[i].clbits
                 /\ NumQubits(circuits)[i] = circuits[i].qubits
                 /\ circuits[i].clbits \in Nat /\ circuits[i].qubits \in Nat
                 /\ circuits[i].clbits <= circuits[i].qubits
<1> DEFINE R == [qubits : Nat, clbits : Nat]
<1>0. circuits \in Seq(R)
  BY DEF WellFormed
<1>1. /\ Len(circuits) \in Nat /\ DOMAIN circuits = 1 .. Len(circuits)
      /\ \A i \in 1 .. Len(circuits) : circuits[i] \in R
  <2> HIDE DEF R
  <2> QED
    BY <1>0
<1>2. \A i \in 1 .. Len(circuits) :
         /\ circuits[i].clbits \in Nat /\ circuits[i].qubits \in Nat
         /\ circuits[i].clbits <= circuits[i].qubits
  BY <1>1 DEF WellFormed
<1>3. /\ NumClbits(circuits) = [i \in 1 .. Len(circuits) |-> circuits[i].clbits]
      /\ NumQubits(circuits) = [i \in 1 .. Len(circuits) |-> circuits[i].qubits]
  BY <1>1 DEF NumClbits, NumQubits
<1>4. NumClbits(circuits) \in Seq(Nat) /\ Len(NumClbits(circuits)) = Len(circuits)
  BY <1>1, <1>2, <1>3
<1>5. NumQubits(circuits) \in Seq(Nat) /\ Len(NumQubits(circuits)) = Len(circuits)
  BY <1>1, <1>2, <1>3
<1>6. \A i \in 1 .. Len(circuits) : /\ NumClbits(circuits)[i] = circuits[i].clbits
                                     /\ NumQubits(circuits)[i] = circuits[i].qubits
  BY <1>3
<1>7. QED
  BY <1>1, <1>2, <1>4, <1>5, <1>6

\* P and Q are the sums of the classical bits and of the qubits.
Sums(circuits, P, Q) ==
    /\ WellFormed(circuits)
    /\ Totals(P, NumClbits(circuits)) /\ Totals(Q, NumQubits(circuits))

LEMMA SumsExist ==
    ASSUME NEW circuits, WellFormed(circuits)
    PROVE  \E P, Q : Sums(circuits, P, Q)
<1>1. PICK P : Totals(P, NumClbits(circuits))
  BY NumsAreLengths, TotalsExist
<1>2. PICK Q : Totals(Q, NumQubits(circuits))
  BY NumsAreLengths, TotalsExist
<1>3. QED
  BY <1>1, <1>2 DEF Sums

\* The sums step by step; what comes before a circuit; no more bits than qubits.
LEMMA SumsStep ==
    ASSUME NEW circuits, NEW P, NEW Q, Sums(circuits, P, Q)
    PROVE  /\ Len(circuits) \in Nat
           /\ P \in [0 .. Len(circuits) -> Nat] /\ Q \in [0 .. Len(circuits) -> Nat]
           /\ P[0] = 0 /\ Q[0] = 0
           /\ \A i \in 1 .. Len(circuits) :
                 /\ circuits[i].clbits \in Nat /\ circuits[i].qubits \in Nat
                 /\ circuits[i].clbits <= circuits[i].qubits
                 /\ P[i] = P[i - 1] + circuits[i].clbits
                 /\ Q[i] = Q[i - 1] + circuits[i].qubits
<1>1. WellFormed(circuits) /\ Totals(P, NumClbits(circuits)) /\ Totals(Q, NumQubits(circuits))
  BY DEF Sums
<1>2. QED
  BY <1>1, NumsAreLengths DEF Totals

LEMMA BeforeIsSum ==
    ASSUME NEW circuits, NEW P, NEW Q, Sums(circuits, P, Q)
    PROVE  /\ Sum(NumClbits(circuits)) = P[Len(circuits)]
           /\ Sum(NumQubits(circuits)) = Q[Len(circuits)]
           /\ \A i \in 1 .. Len(circuits) :
                 /\ Before(NumClbits(circuits), i) = P[i - 1]
                 /\ Before(NumQubits(circuits), i) = Q[i - 1]
                 /\ Before(NumClbits(circuits), i + 1) = P[i]
<1>1. WellFormed(circuits) /\ Totals(P, NumClbits(circuits)) /\ Totals(Q, NumQubits(circuits))
  BY DEF Sums
<1>2. /\ NumClbits(circuits) \in Seq(Nat) /\ NumQubits(circuits) \in Seq(Nat)
      /\ Len(NumClbits(circuits)) = Len(circuits) /\ Len(NumQubits(circuits)) = Len(circuits)
      /\ Len(circuits) \in Nat
  BY <1>1, NumsAreLengths
<1>3. \A k \in 0 .. Len(circuits) :
         /\ Sum(SubSeq(NumClbits(circuits), 1, k)) = P[k]
         /\ Sum(SubSeq(NumQubits(circuits), 1, k)) = Q[k]
  BY <1>1, <1>2, SumOfPrefix
<1>4. \A i \in 1 .. Len(circuits) :
         /\ i - 1 \in 0 .. Len(circuits) /\ i \in 0 .. Len(circuits) /\ (i + 1) - 1 = i
  BY <1>2
<1>5. QED
  BY <1>1, <1>2, <1>3, <1>4, SumIsTotal DEF Before

LEMMA BitsFitQubits ==
    ASSUME NEW circuits, NEW P, NEW Q, Sums(circuits, P, Q)
    PROVE  \A i \in 0 .. Len(circuits) : P[i] <= Q[i]
<1> DEFINE n == Len(circuits)
           T == {i \in 0 .. n : P[i] <= Q[i]}
<1>0. /\ n \in Nat /\ P \in [0 .. n -> Nat] /\ Q \in [0 .. n -> Nat] /\ P[0] = 0 /\ Q[0] = 0
      /\ \A i \in 1 .. n :
            /\ circuits[i].clbits \in Nat /\ circuits[i].qubits \in Nat
            /\ circuits[i].clbits <= circuits[i].qubits
            /\ P[i] = P[i - 1] + circuits[i].clbits
            /\ Q[i] = Q[i - 1] + circuits[i].qubits
  BY SumsStep
<1> HIDE DEF n
<1>1. 0 \in T
  BY <1>0
<1>2. ASSUME NEW i \in 0 .. n - 1, i \in T
      PROVE  i + 1 \in T
  <2>1. i + 1 \in 1 .. n /\ (i + 1) - 1 = i /\ i \in 0 .. n /\ i + 1 \in 0 .. n
    BY <1>0
  <2>2. /\ P[i + 1] = P[i] + circuits[i + 1].clbits /\ Q[i + 1] = Q[i] + circuits[i + 1].qubits
        /\ circuits[i + 1].clbits \in Nat /\ circuits[i + 1].qubits \in Nat
        /\ circuits[i + 1].clbits <= circuits[i + 1].qubits
    BY <1>0, <2>1
  <2>3. P[i] \in Nat /\ Q[i] \in Nat /\ P[i] <= Q[i]
    BY <1>0, <1>2, <2>1
  <2>4. QED
    BY <2>1, <2>2, <2>3
<1>3. \A i \in 0 .. n - 1 : i \in T => i + 1 \in T
  BY <1>2
<1> HIDE DEF T
<1>4. \A i \in 0 .. n : i \in T
  BY <1>0, <1>1, <1>3, IntervalInduction
<1>5. QED
  BY <1>4 DEF T, n

\* While every circuit measures all its qubits the bits keep up with them.
LEMMA BitsAreQubits ==
    ASSUME NEW circuits, NEW P, NEW Q, Sums(circuits, P, Q),
           \A c \in 1 .. Len(circuits) - 1 : circuits[c].clbits = circuits[c].qubits
    PROVE  \A i \in 1 .. Len(circuits) : P[i - 1] = Q[i - 1]
<1> DEFINE n == Len(circuits)
           T == {i \in 0 .. n : i < n => P[i] = Q[i]}
<1>0. /\ n \in Nat /\ P \in [0 .. n -> Nat] /\ Q \in [0 .. n -> Nat] /\ P[0] = 0 /\ Q[0] = 0
      /\ \A i \in 1 .. n :
            /\ P[i] = P[i - 1] + circuits[i].clbits
            /\ Q[i] = Q[i - 1] + circuits[i].qubits
      /\ \A i \in 1 .. n - 1 : circuits[i].clbits = circuits[i].qubits
  BY SumsStep
<1> HIDE DEF n
<1>1. 0 \in T
  BY <1>0
<1>2. ASSUME NEW i \in 0 .. n - 1, i \in T
      PROVE  i + 1 \in T
  <2>1. i + 1 \in 1 .. n /\ (i + 1) - 1 = i /\ i < n /\ i + 1 \in 0 .. n
        /\ (i + 1 < n => i + 1 \in 1 .. n - 1)
    BY <1>0
  <2>2. P[i] = Q[i]
    BY <1>2, <2>1
  <2>3. QED
    BY <1>0, <2>1, <2>2
<1>3. \A i \in 0 .. n - 1 : i \in T => i + 1 \in T
  BY <1>2
<1> HIDE DEF T
<1>4. \A i \in 0 .. n : i \in T
  BY <1>0, <1>1, <1>3, IntervalInduction
<1>5. \A i \in 1 .. n : i - 1 \in 0 .. n /\ i - 1 < n
  BY <1>0
<1>6. QED
  BY <1>4, <1>5 DEF T, n

\* The circuit that classical bit b of the combined circuit belongs to.
Owner(circuits, b) == CHOOSE i \in DOMAIN circuits :
                          /\ Before(NumClbits(circuits), i) <= b
                          /\ b < Before(NumClbits(circuits), i + 1)

LEMMA OwnerIs ==
    ASSUME NEW circuits, NEW P, NEW Q, Sums(circuits, P, Q),
           NEW b \in 0 .. P[Len(circuits)] - 1
    PROVE  /\ Owner(circuits, b) \in 1 .. Len(circuits)
           /\ P[Owner(circuits, b) - 1] <= b /\ b < P[Owner(circuits, b)]
<1> DEFINE n == Len(circuits)
           above == {i \in 0 .. n : b < P[i]}
<1>0. n \in Nat /\ P \in [0 .. n -> Nat] /\ P[0] = 0
  BY SumsStep
<1>1. DOMAIN circuits = 1 .. n
  BY NumsAreLengths DEF Sums
<1>2. n \in above /\ above \in SUBSET Nat
  BY <1>0
<1>3. PICK i \in above : \A k \in above : i <= k
  <2> HIDE DEF above
  <2> QED
    BY <1>2, LeastNatural
<1>4. i # 0 /\ i \in 1 .. n /\ i - 1 \in 0 .. n /\ i - 1 \notin above
  BY <1>0, <1>3
<1>5. P[i - 1] <= b /\ b < P[i]
  BY <1>0, <1>3, <1>4
<1>6. \E k \in DOMAIN circuits : /\ Before(NumClbits(circuits), k) <= b
                                 /\ b < Before(NumClbits(circuits), k + 1)
  BY <1>1, <1>4, <1>5, BeforeIsSum
<1>7. /\ Owner(circuits, b) \in DOMAIN circuits
      /\ Before(NumClbits(circuits), Owner(circuits, b)) <= b
      /\ b < Before(NumClbits(circuits), Owner(circuits, b) + 1)
  BY <1>6 DEF Owner
<1>8. QED
  BY <1>1, <1>7, BeforeIsSum

\* Every bit is measured on a qubit of its own, and of its circuit.
LEMMA MeasuredQubitIs ==
    ASSUME NEW circuits, NEW P, NEW Q, Sums(circuits, P, Q)
    PROVE  LET n == Len(circuits)
               M == MeasuredQubit(circuits)
               o(b) == Owner(circuits, b)
           IN  /\ DOMAIN M = 0 .. P[n] - 1
               /\ \A b \in 0 .. P[n] - 1 :
                     /\ M[b] = Q[o(b) - 1] + b - P[o(b) - 1]
                     /\ o(b) \in 1 .. n
                     /\ P[o(b) - 1] <= b /\ b < P[o(b)]
                     /\ M[b] \in Nat /\ Q[o(b) - 1] <= M[b] /\ M[b] < Q[o(b)]
<1> DEFINE n == Len(circuits)
           M == MeasuredQubit(circuits)
           o(b) == Owner(circuits, b)
<1>0. /\ n \in Nat /\ P \in [0 .. n -> Nat] /\ Q \in [0 .. n -> Nat]
      /\ \A i \in 1 .. n :
            /\ circuits[i].clbits \in Nat /\ circuits[i].qubits \in Nat
            /\ circuits[i].clbits <= circuits[i].qubits
            /\ P[i] = P[i - 1] + circuits[i].clbits
            /\ Q[i] = Q[i - 1] + circuits[i].qubits
  BY SumsStep
<1>1. M = [b \in 0 .. Sum(NumClbits(circuits)) - 1 |->
              Before(NumQubits(circuits), o(b)) + b - Before(NumClbits(circuits), o(b))]
  BY DEF MeasuredQubit, Owner
<1>2. Sum(NumClbits(circuits)) = P[n]
  BY BeforeIsSum
<1>3. ASSUME NEW b \in 0 .. P[n] - 1
      PROVE  /\ M[b] = Q[o(b) - 1] + b - P[o(b) - 1]
             /\ o(b) \in 1 .. n
             /\ P[o(b) - 1] <= b /\ b < P[o(b)]
             /\ M[b] \in Nat /\ Q[o(b) - 1] <= M[b] /\ M[b] < Q[o(b)]
  <2>1. /\ o(b) \in 1 .. n /\ P[o(b) - 1] <= b /\ b < P[o(b)]
    BY OwnerIs
  <2>2. Before(NumQubits(circuits), o(b)) = Q[o(b) - 1] /\ Before(NumClbits(circuits), o(b)) = P[o(b) - 1]
    BY <2>1, BeforeIsSum
  <2>3. M[b] = Q[o(b) - 1] + b - P[o(b) - 1]
    BY <1>1, <1>2, <2>2
  <2> HIDE DEF M, o, n
  <2>4. /\ o(b) - 1 \in 0 .. n /\ o(b) \in 0 .. n
    BY <1>0, <2>1
  <2>5. P[o(b) - 1] \in Nat /\ Q[o(b) - 1] \in Nat /\ P[o(b)] \in Nat /\ Q[o(b)] \in Nat
    BY <1>0, <2>4
  <2>6. /\ P[o(b)] = P[o(b) - 1] + circuits[o(b)].clbits
        /\ Q[o(b)] = Q[o(b) - 1] + circuits[o(b)].qubits
        /\ circuits[o(b)].clbits <= circuits[o(b)].qubits
        /\ circuits[o(b)].clbits \in Nat /\ circuits[o(b)].qubits \in Nat
    BY <1>0, <2>1
  <2>7. QED
    BY <2>1, <2>3, <2>5, <2>6
<1>4. DOMAIN M = 0 .. P[n] - 1
  BY <1>1, <1>2
<1>5. QED
  BY <1>3, <1>4

LEMMA MeasuredQubitsDiffer ==
    ASSUME NEW circuits, NEW P, NEW Q, Sums(circuits, P, Q),
           NEW b \in 0 .. P[Len(circuits)] - 1, NEW c \in 0 .. P[Len(circuits)] - 1,
           MeasuredQubit(circuits)[b] = MeasuredQubit(circuits)[c]
    PROVE  b = c
<1> DEFINE n == Len(circuits)
           M == MeasuredQubit(circuits)
           o(x) == Owner(circuits, x)
<1>0. n \in Nat /\ P \in [0 .. n -> Nat] /\ Q \in [0 .. n -> Nat]
  BY SumsStep
<1>1. \A x \in 0 .. P[n] - 1 :
         /\ M[x] = Q[o(x) - 1] + x - P[o(x) - 1] /\ o(x) \in 1 .. n
         /\ M[x] \in Nat /\ Q[o(x) - 1] <= M[x] /\ M[x] < Q[o(x)]
  BY MeasuredQubitIs
<1>2. \A i \in 0 .. n : \A k \in i .. n : Q[i] <= Q[k]
  <2>1. /\ NumQubits(circuits) \in Seq(Nat) /\ Len(NumQubits(circuits)) = n
        /\ Totals(Q, NumQubits(circuits))
    BY NumsAreLengths DEF Sums
  <2> HIDE DEF n
  <2>2. ASSUME NEW i \in 0 .. n
        PROVE  \A k \in i .. n : Q[i] <= Q[k]
    <3>1. i \in 0 .. Len(NumQubits(circuits))
      BY <2>1
    <3>2. \A k \in i .. Len(NumQubits(circuits)) : Q[i] <= Q[k]
      BY <2>1, <3>1, TotalsMonotone
    <3>3. QED
      BY <2>1, <3>2
  <2>3. QED
    BY <2>2
<1> HIDE DEF n, M, o
<1>3. M[b] = M[c]
  BY DEF M
<1>4. b \in 0 .. P[n] - 1 /\ c \in 0 .. P[n] - 1
  BY DEF n
<1>5. ASSUME NEW x \in 0 .. P[n] - 1, NEW y \in 0 .. P[n] - 1, M[x] = M[y]
      PROVE  ~(o(x) < o(y))
  <2> SUFFICES ASSUME o(x) < o(y)
               PROVE  FALSE
    OBVIOUS
  <2>0. o(x) \in 1 .. n /\ o(y) \in 1 .. n
    BY <1>1
  <2>1. o(x) \in 0 .. n /\ o(y) - 1 \in o(x) .. n /\ o(y) - 1 \in 0 .. n
    <3>1. \A i, k \in 1 .. n : i < k => i \in 0 .. n /\ k - 1 \in i .. n /\ k - 1 \in 0 .. n
      BY <1>0
    <3>2. QED
      BY <2>0, <3>1
  <2>2. Q[o(x)] <= Q[o(y) - 1] /\ Q[o(x)] \in Nat /\ Q[o(y) - 1] \in Nat
    BY <1>0, <1>2, <2>1
  <2>3. M[x] \in Nat /\ M[x] < Q[o(x)] /\ Q[o(y) - 1] <= M[y]
    BY <1>1
  <2>4. QED
    BY <1>5, <2>2, <2>3
<1>6. o(b) = o(c)
  <2>1. ~(o(b) < o(c)) /\ ~(o(c) < o(b))
    BY <1>3, <1>4, <1>5
  <2>2. o(b) \in Nat /\ o(c) \in Nat
    BY <1>0, <1>1, <1>4
  <2>3. QED
    BY <2>1, <2>2
<1>7. Q[o(b) - 1] \in Nat /\ P[o(b) - 1] \in Nat
  <2>1. o(b) - 1 \in 0 .. n
    <3>1. \A i \in 1 .. n : i - 1 \in 0 .. n
      BY <1>0
    <3>2. o(b) \in 1 .. n
      BY <1>1, <1>4
    <3>3. QED
      BY <3>1, <3>2
  <2>2. QED
    BY <1>0, <2>1
<1>8. QED
  BY <1>1, <1>3, <1>4, <1>6, <1>7

\* If only the last circuit leaves qubits unmeasured, bit b is measured on
\* qubit b.
LEMMA MeasuredInOrder ==
    ASSUME NEW circuits, NEW P, NEW Q, Sums(circuits, P, Q),
           \A c \in 1 .. Len(circuits) - 1 : circuits[c].clbits = circuits[c].qubits,
           NEW b \in 0 .. P[Len(circuits)] - 1
    PROVE  MeasuredQubit(circuits)[b] = b
<1> DEFINE i == Owner(circuits, b)
<1>1. i \in 1 .. Len(circuits) /\ MeasuredQubit(circuits)[b] = Q[i - 1] + b - P[i - 1]
  BY MeasuredQubitIs
<1>2. P[i - 1] = Q[i - 1]
  BY <1>1, BitsAreQubits
<1>3. P[i - 1] \in Nat
  BY <1>1, SumsStep
<1>4. QED
  BY <1>1, <1>2, <1>3

-----------------------------------------------------------------------------
(* Bits sorted by physical qubit, and sorted back.                         *)

\* The bits 0 .. N - 1 are at different places.
Placed(at, N) ==
    /\ N \in Nat /\ at \in [0 .. N - 1 -> Nat]
    /\ \A b, c \in 0 .. N - 1 : at[b] = at[c] => b = c

\* The position of bit b when the bits are sorted by their places.
Rank(at, b) == Cardinality({c \in DOMAIN at : at[c] < at[b]})

LEMMA IntervalSize ==
    ASSUME NEW N \in Nat
    PROVE  IsFiniteSet(0 .. N - 1) /\ Cardinality(0 .. N - 1) = N
<1>1. 0 \in Int /\ N - 1 \in Int /\ (IF 0 > N - 1 THEN 0 ELSE (N - 1) - 0 + 1) = N
  OBVIOUS
<1>2. QED
  BY <1>1, FS_Interval

LEMMA RankGrows ==
    ASSUME NEW at, NEW N, Placed(at, N), NEW b \in 0 .. N - 1, NEW c \in 0 .. N - 1,
           at[b] < at[c]
    PROVE  Rank(at, b) < Rank(at, c)
<1> DEFINE D == 0 .. N - 1
           B == {x \in D : at[x] < at[b]}
           C == {x \in D : at[x] < at[c]}
<1>1. N \in Nat /\ at \in [D -> Nat] /\ DOMAIN at = D
  BY DEF Placed
<1>2. IsFiniteSet(D)
  BY <1>1, IntervalSize
<1>3. B \in SUBSET C /\ b \in C /\ b \notin B /\ C \in SUBSET D
  BY <1>1
<1> HIDE DEF B, C, D
<1>4. IsFiniteSet(C) /\ IsFiniteSet(B) /\ Cardinality(B) <= Cardinality(C)
      /\ Cardinality(B) # Cardinality(C)
  BY <1>2, <1>3, FS_Subset
<1>5. Cardinality(B) \in Nat /\ Cardinality(C) \in Nat
  BY <1>4, FS_CardinalityType
<1>6. Rank(at, b) = Cardinality(B) /\ Rank(at, c) = Cardinality(C)
  BY <1>1 DEF Rank, B, C
<1>7. QED
  BY <1>4, <1>5, <1>6

\* Sorting is a permutation of the bits.
LEMMA RankPermutes ==
    ASSUME NEW at, NEW N, Placed(at, N)
    PROVE  /\ \A b \in 0 .. N - 1 : Rank(at, b) \in 0 .. N - 1
           /\ \A b, c \in 0 .. N - 1 : Rank(at, b) = Rank(at, c) => b = c
           /\ \A r \in 0 .. N - 1 : \E b \in 0 .. N - 1 : Rank(at, b) = r
<1> DEFINE D == 0 .. N - 1
           f == [b \in D |-> Rank(at, b)]
<1>1. N \in Nat /\ at \in [D -> Nat] /\ DOMAIN at = D
  BY DEF Placed
<1>2. IsFiniteSet(D) /\ Cardinality(D) = N
  BY <1>1, IntervalSize
<1>3. ASSUME NEW b \in D
      PROVE  Rank(at, b) \in D
  <2> DEFINE B == {x \in D : at[x] < at[b]}
  <2>1. B \in SUBSET D /\ b \notin B /\ b \in D
    BY <1>1
  <2> HIDE DEF B
  <2>2. /\ IsFiniteSet(B) /\ Cardinality(B) <= Cardinality(D)
        /\ Cardinality(B) # Cardinality(D)
    BY <1>2, <2>1, FS_Subset
  <2>3. Cardinality(B) \in Nat
    BY <2>2, FS_CardinalityType
  <2>4. Rank(at, b) = Cardinality(B)
    BY <1>1 DEF Rank, B
  <2>5. QED
    BY <1>1, <1>2, <2>2, <2>3, <2>4
<1>4. ASSUME NEW b \in D, NEW c \in D, Rank(at, b) = Rank(at, c)
      PROVE  b = c
  <2>1. Rank(at, b) \in Nat /\ Rank(at, c) \in Nat /\ at[b] \in Nat /\ at[c] \in Nat
    BY <1>1, <1>3
  <2>2. ~(at[b] < at[c]) /\ ~(at[c] < at[b])
    BY <1>4, <2>1, RankGrows
  <2>3. at[b] = at[c]
    BY <2>1, <2>2
  <2>4. QED
    BY <2>3 DEF Placed
<1>5. f \in Injection(D, D)
  BY <1>3, <1>4 DEF Injection, IsInjective
<1> HIDE DEF f, D
<1>6. f \in Surjection(D, D)
  BY <1>2, <1>5, FS_Injection
<1>7. \A r \in D : \E b \in D : Rank(at, b) = r
  BY <1>6 DEF Surjection, f
<1>8. QED
  BY <1>3, <1>4, <1>7 DEF D

\* DeviceKey, of a string s whose bits are at the places at.
SortedKey(at, s) ==
    FromBits(Len(s), [r \in DOMAIN at |->
        BitAt(s, CHOOSE b \in DOMAIN at : Rank(at, b) = r)])

LEMMA SortedKeyIs ==
    ASSUME NEW at, NEW N, Placed(at, N), NEW s \in [1 .. N -> Bits]
    PROVE  /\ SortedKey(at, s) \in [1 .. N -> Bits]
           /\ \A b \in 0 .. N - 1 : BitAt(SortedKey(at, s), Rank(at, b)) = BitAt(s, b)
<1> DEFINE D == 0 .. N - 1
           pick(r) == CHOOSE b \in D : Rank(at, b) = r
           k == SortedKey(at, s)
<1>1. N \in Nat /\ DOMAIN at = D /\ Len(s) = N
  BY DEF Placed
<1>2. k = [i \in 1 .. N |-> [r \in D |-> BitAt(s, pick(r))][N - i]]
  BY <1>1 DEF SortedKey, FromBits
<1>3. \A r \in D : pick(r) \in D /\ Rank(at, pick(r)) = r
  BY RankPermutes
<1>4. \A b \in D : Rank(at, b) \in D /\ pick(Rank(at, b)) = b
  BY <1>3, RankPermutes
<1> HIDE DEF pick, k
<1>5. \A i \in 1 .. N : N - i \in D
  BY <1>1
<1>6. \A b \in D : BitAt(s, b) \in Bits
  <2>1. \A b \in D : N - b \in 1 .. N
    BY <1>1
  <2>2. QED
    BY <1>1, <2>1 DEF BitAt
<1>7. \A i \in 1 .. N : k[i] = BitAt(s, pick(N - i))
  BY <1>2, <1>5
<1>8. k \in [1 .. N -> Bits]
  BY <1>2, <1>3, <1>5, <1>6
<1>9. ASSUME NEW b \in D
      PROVE  BitAt(k, Rank(at, b)) = BitAt(s, b)
  <2>1. Len(k) = N
    BY <1>1, <1>8
  <2>2. /\ N - Rank(at, b) \in 1 .. N
        /\ N - (N - Rank(at, b)) = Rank(at, b)
    BY <1>1, <1>4
  <2>3. k[N - Rank(at, b)] = BitAt(s, pick(Rank(at, b)))
    BY <1>7, <2>2
  <2>4. QED
    BY <1>4, <2>1, <2>3 DEF BitAt
<1>10. QED
  BY <1>8, <1>9 DEF k

LEMMA FromBitsIs ==
    ASSUME NEW n \in Nat, NEW bit, \A q \in 0 .. n - 1 : bit[q] \in Bits
    PROVE  /\ FromBits(n, bit) \in [1 .. n -> Bits] /\ Len(FromBits(n, bit)) = n
           /\ \A q \in 0 .. n - 1 : BitAt(FromBits(n, bit), q) = bit[q]
<1> DEFINE f == FromBits(n, bit)
<1>1. f = [k \in 1 .. n |-> bit[n - k]]
  BY DEF FromBits
<1>2. \A k \in 1 .. n : n - k \in 0 .. n - 1
  OBVIOUS
<1>3. f \in [1 .. n -> Bits]
  BY <1>1, <1>2
<1>4. Len(f) = n
  BY <1>3
<1> HIDE DEF f
<1>5. \A q \in 0 .. n - 1 : n - q \in 1 .. n /\ n - (n - q) = q
  OBVIOUS
<1>6. \A q \in 0 .. n - 1 : f[n - q] = bit[q]
  BY <1>1, <1>5
<1>7. QED
  BY <1>3, <1>4, <1>6 DEF f, BitAt

LEMMA SameBits ==
    ASSUME NEW N \in Nat, NEW s \in [1 .. N -> Bits], NEW t \in [1 .. N -> Bits],
           \A b \in 0 .. N - 1 : BitAt(s, b) = BitAt(t, b)
    PROVE  s = t
<1>1. Len(s) = N /\ Len(t) = N
  OBVIOUS
<1>2. \A i \in 1 .. N : N - i \in 0 .. N - 1 /\ N - (N - i) = i
  OBVIOUS
<1>3. \A i \in 1 .. N : s[i] = t[i]
  BY <1>1, <1>2 DEF BitAt
<1>4. QED
  BY <1>3

\* The physical qubits below that of bit v are as many as the bits before it.
LEMMA PlacesBelow ==
    ASSUME NEW at, NEW N, Placed(at, N), NEW v \in 0 .. N - 1
    PROVE  Cardinality({p \in {at[w] : w \in DOMAIN at} : p < at[v]}) = Rank(at, v)
<1> DEFINE S == {c \in DOMAIN at : at[c] < at[v]}
           T == {p \in {at[w] : w \in DOMAIN at} : p < at[v]}
           g == [c \in S |-> at[c]]
<1>1. N \in Nat /\ at \in [0 .. N - 1 -> Nat] /\ DOMAIN at = 0 .. N - 1
      /\ \A b, c \in 0 .. N - 1 : at[b] = at[c] => b = c
  BY DEF Placed
<1>2. S \in SUBSET (0 .. N - 1)
  BY <1>1
<1>3. IsFiniteSet(S)
  BY <1>1, <1>2, IntervalSize, FS_Subset
<1>4. g \in [S -> T] /\ \A t \in T : \E c \in S : g[c] = t
  OBVIOUS
<1>5. \A b, c \in S : g[b] = g[c] => b = c
  BY <1>1
<1>6. g \in Bijection(S, T)
  <2> HIDE DEF g, S, T
  <2> QED
    BY <1>4, <1>5 DEF Bijection, Injection, Surjection, IsInjective
<1> HIDE DEF g, S, T
<1>7. ExistsBijection(S, T)
  BY <1>6 DEF ExistsBijection
<1>8. Cardinality(T) = Cardinality(S)
  BY <1>3, <1>7, FS_Bijection
<1>9. QED
  BY <1>8 DEF S, T, Rank

\* fillMissingDigits puts the bit of rank r at the place that has rank r.
LEMMA FilledIs ==
    ASSUME NEW at, NEW N, Placed(at, N), NEW bound \in Nat,
           \A b \in 0 .. N - 1 : at[b] <= bound,
           NEW k \in [1 .. N -> Bits], NEW v \in 0 .. N - 1
    PROVE  /\ BitAt(fillMissingDigits(k, {at[w] : w \in DOMAIN at}), at[v])
                 = BitAt(k, Rank(at, v))
           /\ BitAt(k, Rank(at, v)) \in Bits
<1> DEFINE S == {at[w] : w \in DOMAIN at}
           top == Max(S \cup {0})
           bit == [q \in 0 .. top |->
                     IF q \in S THEN BitAt(k, Cardinality({p \in S : p < q})) ELSE 0]
<1>1. N \in Nat /\ at \in [0 .. N - 1 -> Nat] /\ DOMAIN at = 0 .. N - 1 /\ Len(k) = N
  BY DEF Placed
<1>2. S \cup {0} \in SUBSET Nat /\ S \cup {0} # {} /\ \A s \in S \cup {0} : s <= bound
  BY <1>1
<1>3. top \in S \cup {0} /\ \A s \in S \cup {0} : s <= top
  <2> HIDE DEF S
  <2> QED
    BY <1>2, MaxIsLargest
<1>4. top \in Nat /\ \A w \in 0 .. N - 1 : at[w] \in 0 .. top
  <2> HIDE DEF top
  <2> QED
    BY <1>1, <1>2, <1>3
<1>5. \A w \in 0 .. N - 1 : BitAt(k, Rank(at, w)) \in Bits
  <2>1. \A w \in 0 .. N - 1 : Rank(at, w) \in 0 .. N - 1
    BY RankPermutes
  <2>2. \A w \in 0 .. N - 1 : N - Rank(at, w) \in 1 .. N
    BY <1>1, <2>1
  <2>3. QED
    BY <1>1, <2>2 DEF BitAt
<1>6. \A w \in 0 .. N - 1 : bit[at[w]] = BitAt(k, Rank(at, w))
  <2> TAKE w \in 0 .. N - 1
  <2>1. at[w] \in S /\ at[w] \in 0 .. top
    BY <1>1, <1>4
  <2>2. Cardinality({p \in S : p < at[w]}) = Rank(at, w)
    BY PlacesBelow
  <2> HIDE DEF S, top
  <2>3. QED
    BY <2>1, <2>2
<1>7. \A q \in 0 .. top : bit[q] \in Bits
  <2> TAKE q \in 0 .. top
  <2>1. CASE q \in S
    <3>1. PICK w \in 0 .. N - 1 : q = at[w]
      BY <1>1, <2>1
    <3> HIDE DEF bit
    <3>2. QED
      BY <1>5, <1>6, <3>1
  <2>2. CASE q \notin S
    BY <2>2 DEF Bits
  <2>3. QED
    BY <2>1, <2>2
<1>8. fillMissingDigits(k, S) = FromBits(top + 1, bit)
  BY DEF fillMissingDigits
<1> HIDE DEF bit, top, S
<1>9. top + 1 \in Nat /\ (top + 1) - 1 = top
  BY <1>4
<1>10. BitAt(FromBits(top + 1, bit), at[v]) = bit[at[v]]
  <2>1. \A q \in 0 .. (top + 1) - 1 : bit[q] \in Bits
    BY <1>7, <1>9
  <2>2. at[v] \in 0 .. (top + 1) - 1
    BY <1>4, <1>9
  <2>3. QED
    BY <1>9, <2>1, <2>2, FromBitsIs
<1>11. QED
  BY <1>5, <1>6, <1>8, <1>10 DEF S

LEMMA SwapKeyIs ==
    ASSUME NEW at, NEW N, Placed(at, N), NEW bound \in Nat,
           \A b \in 0 .. N - 1 : at[b] <= bound,
           NEW k \in [1 .. N -> Bits]
    PROVE  /\ SwapKey(k, at) \in [1 .. N -> Bits]
           /\ \A v \in 0 .. N - 1 : BitAt(SwapKey(k, at), v) = BitAt(k, Rank(at, v))
<1> DEFINE filled == fillMissingDigits(k, {at[w] : w \in DOMAIN at})
           bit == [v \in 0 .. N - 1 |-> BitAt(filled, at[v])]
<1>1. N \in Nat /\ Len(k) = N
  BY DEF Placed
<1>2. \A v \in 0 .. N - 1 : BitAt(filled, at[v]) = BitAt(k, Rank(at, v))
                             /\ BitAt(k, Rank(at, v)) \in Bits
  BY FilledIs
<1>3. SwapKey(k, at) = FromBits(N, bit)
  BY <1>1 DEF SwapKey
<1> HIDE DEF filled
<1>4. \A v \in 0 .. N - 1 : bit[v] = BitAt(k, Rank(at, v)) /\ bit[v] \in Bits
  BY <1>2
<1> HIDE DEF bit
<1>5. QED
  BY <1>1, <1>3, <1>4, FromBitsIs

\* The swap of the divider undoes the order of the gateway.
LEMMA SwapUndoesSort ==
    ASSUME NEW at, NEW N, Placed(at, N), NEW bound \in Nat,
           \A b \in 0 .. N - 1 : at[b] <= bound,
           NEW s \in [1 .. N -> Bits]
    PROVE  SwapKey(SortedKey(at, s), at) = s
<1>1. /\ SortedKey(at, s) \in [1 .. N -> Bits]
      /\ \A b \in 0 .. N - 1 : BitAt(SortedKey(at, s), Rank(at, b)) = BitAt(s, b)
  BY SortedKeyIs
<1>2. /\ SwapKey(SortedKey(at, s), at) \in [1 .. N -> Bits]
      /\ \A v \in 0 .. N - 1 :
            BitAt(SwapKey(SortedKey(at, s), at), v) = BitAt(SortedKey(at, s), Rank(at, v))
  BY <1>1, SwapKeyIs
<1>3. N \in Nat
  BY DEF Placed
<1>4. QED
  BY <1>1, <1>2, <1>3, SameBits

-----------------------------------------------------------------------------
(* The counts of a result: swapped, and divided.                           *)

\* Counts of strings of N bits, with at least one string.
CountsOfLength(counts, N) ==
    DOMAIN counts # {} /\ DOMAIN counts \in SUBSET [1 .. N -> Bits]

\* The mapping that is left of a layout when there are N bits.
FirstPlaces(vpm, N) == [v \in 0 .. N - 1 |-> vpm[v]]

LEMMA ExtractedIs ==
    ASSUME NEW N \in Nat, NEW K \in Nat, N <= K, NEW S, NEW vpm \in [0 .. K - 1 -> S],
           NEW counts, CountsOfLength(counts, N)
    PROVE  extractVirtualPhysicalMapping(counts, vpm) = FirstPlaces(vpm, N)
<1>1. NumCbits(counts) = N
  <2>1. (CHOOSE s \in DOMAIN counts : TRUE) \in DOMAIN counts
    BY DEF CountsOfLength
  <2>2. \A s \in DOMAIN counts : Len(s) = N
    BY DEF CountsOfLength
  <2>3. QED
    BY <2>1, <2>2 DEF NumCbits, CountsOfLength
<1>2. DOMAIN vpm = 0 .. K - 1 /\ Cardinality(DOMAIN vpm) = K
  BY IntervalSize
<1>3. CASE N < K
  <2>1. {w \in DOMAIN vpm : w < NumCbits(counts)} = 0 .. N - 1
    BY <1>1, <1>2, <1>3
  <2>2. QED
    BY <1>1, <1>2, <1>3, <2>1 DEF extractVirtualPhysicalMapping, FirstPlaces
<1>4. CASE N = K
  <2>1. vpm = [v \in 0 .. N - 1 |-> vpm[v]]
    BY <1>4
  <2>2. QED
    BY <1>1, <1>2, <1>4, <2>1 DEF extractVirtualPhysicalMapping, FirstPlaces
<1>5. QED
  BY <1>3, <1>4

\* "inconsistent qubits" and the range error need data of another result.
LEMMA SwapSucceeds ==
    ASSUME NEW N \in Nat, NEW K \in Nat, N <= K, NEW S, NEW vpm \in [0 .. K - 1 -> S],
           NEW counts, CountsOfLength(counts, N)
    PROVE  ~SwapFails(counts, vpm)
<1> DEFINE m == extractVirtualPhysicalMapping(counts, vpm)
<1>1. m = FirstPlaces(vpm, N)
  BY ExtractedIs
<1> HIDE DEF m
<1>2. DOMAIN m = 0 .. N - 1 /\ Cardinality(DOMAIN m) = N
  BY <1>1, IntervalSize DEF FirstPlaces
<1>3. \A s \in DOMAIN counts : Len(s) = N
  BY DEF CountsOfLength
<1>4. QED
  BY <1>2, <1>3 DEF SwapFails, m

\* A layout of the qubits on different physical qubits.
Layout(vpm, K) ==
    /\ K \in Nat /\ vpm \in [0 .. K - 1 -> 0 .. Physical - 1]
    /\ \A v, w \in 0 .. K - 1 : vpm[v] = vpm[w] => v = w

LEMMA FirstPlaced ==
    ASSUME NEW N \in Nat, NEW K, N <= K, NEW vpm, Layout(vpm, K)
    PROVE  /\ Placed(FirstPlaces(vpm, N), N)
           /\ \A v \in 0 .. N - 1 : FirstPlaces(vpm, N)[v] <= Physical
<1>1. \A v \in 0 .. N - 1 : v \in 0 .. K - 1
  BY DEF Layout
<1>2. \A v \in 0 .. N - 1 : vpm[v] \in Nat /\ vpm[v] <= Physical
  BY <1>1, SizesAssumption DEF Layout
<1>3. \A v, w \in 0 .. N - 1 : vpm[v] = vpm[w] => v = w
  BY <1>1 DEF Layout
<1>4. QED
  BY <1>2, <1>3 DEF Placed, FirstPlaces

\* Swapping keeps the length of the strings and the numbers.
LEMMA SwappedIs ==
    ASSUME NEW N \in Nat, NEW K, N <= K, NEW vpm, Layout(vpm, K),
           NEW counts, CountsOfLength(counts, N), NEW V,
           \A s \in DOMAIN counts : counts[s] \in V
    PROVE  /\ CountsOfLength(swapVirtualPhysical(counts, vpm), N)
           /\ \A t \in DOMAIN swapVirtualPhysical(counts, vpm) :
                 swapVirtualPhysical(counts, vpm)[t] \in V
<1> DEFINE m == FirstPlaces(vpm, N)
           new == swapVirtualPhysical(counts, vpm)
<1>1. K \in Nat /\ vpm \in [0 .. K - 1 -> 0 .. Physical - 1]
  BY DEF Layout
<1>2. CASE DOMAIN vpm = {}
  BY <1>2 DEF swapVirtualPhysical
<1>3. CASE DOMAIN vpm # {}
  <2>1. extractVirtualPhysicalMapping(counts, vpm) = m
    BY <1>1, ExtractedIs
  <2>2. new = [t \in {SwapKey(s, m) : s \in DOMAIN counts} |->
                  counts[CHOOSE s \in DOMAIN counts : SwapKey(s, m) = t]]
    BY <1>3, <2>1 DEF swapVirtualPhysical
  <2>3. \A s \in DOMAIN counts : SwapKey(s, m) \in [1 .. N -> Bits]
    BY FirstPlaced, SwapKeyIs, SizesAssumption DEF CountsOfLength
  <2> HIDE DEF new, m
  <2>4. DOMAIN new = {SwapKey(s, m) : s \in DOMAIN counts}
    BY <2>2
  <2>5. CountsOfLength(new, N)
    BY <2>3, <2>4 DEF CountsOfLength
  <2>6. ASSUME NEW t \in DOMAIN new
        PROVE  new[t] \in V
    <3>1. \E s \in DOMAIN counts : SwapKey(s, m) = t
      BY <2>4
    <3>2. (CHOOSE s \in DOMAIN counts : SwapKey(s, m) = t) \in DOMAIN counts
      BY <3>1
    <3>3. new[t] = counts[CHOOSE s \in DOMAIN counts : SwapKey(s, m) = t]
      BY <2>2, <2>4
    <3>4. QED
      BY <3>2, <3>3
  <2>7. QED
    BY <2>5, <2>6 DEF new
<1>4. QED
  BY <1>2, <1>3

\* The counts of the gateway for the outcome o of bits at the places at.
SortedCounts(at, o) ==
    [k \in {SortedKey(at, s) : s \in DOMAIN o} |->
        o[CHOOSE s \in DOMAIN o : SortedKey(at, s) = k]]

LEMMA SortedCountsIs ==
    ASSUME NEW at, NEW N, Placed(at, N), NEW o, CountsOfLength(o, N), NEW V,
           \A s \in DOMAIN o : o[s] \in V
    PROVE  /\ CountsOfLength(SortedCounts(at, o), N)
           /\ \A k \in DOMAIN SortedCounts(at, o) : SortedCounts(at, o)[k] \in V
<1> DEFINE new == SortedCounts(at, o)
<1>1. new = [k \in {SortedKey(at, s) : s \in DOMAIN o} |->
                o[CHOOSE s \in DOMAIN o : SortedKey(at, s) = k]]
  BY DEF SortedCounts
<1>2. \A s \in DOMAIN o : SortedKey(at, s) \in [1 .. N -> Bits]
  BY SortedKeyIs DEF CountsOfLength
<1> HIDE DEF new
<1>3. DOMAIN new = {SortedKey(at, s) : s \in DOMAIN o}
  BY <1>1
<1>4. CountsOfLength(new, N)
  BY <1>2, <1>3 DEF CountsOfLength
<1>5. ASSUME NEW k \in DOMAIN new
      PROVE  new[k] \in V
  <2>1. \E s \in DOMAIN o : SortedKey(at, s) = k
    BY <1>3
  <2>2. (CHOOSE s \in DOMAIN o : SortedKey(at, s) = k) \in DOMAIN o
    BY <2>1
  <2>3. new[k] = o[CHOOSE s \in DOMAIN o : SortedKey(at, s) = k]
    BY <1>1, <1>3
  <2>4. QED
    BY <2>2, <2>3
<1>6. QED
  BY <1>4, <1>5 DEF new

\* If bit b is measured on qubit b, the swapped counts are what was measured.
LEMMA SwapUndoesGateway ==
    ASSUME NEW N \in Nat, NEW K, N <= K, NEW vpm, Layout(vpm, K),
           NEW o, CountsOfLength(o, N), o = [s \in DOMAIN o |-> o[s]]
    PROVE  swapVirtualPhysical(SortedCounts(FirstPlaces(vpm, N), o), vpm) = o
<1> DEFINE at == FirstPlaces(vpm, N)
           counts == SortedCounts(at, o)
           new == swapVirtualPhysical(counts, vpm)
           key(s) == SortedKey(at, s)
<1>1. K \in Nat /\ vpm \in [0 .. K - 1 -> 0 .. Physical - 1]
  BY DEF Layout
<1>2. Placed(at, N) /\ \A b \in 0 .. N - 1 : at[b] <= Physical
  BY FirstPlaced
<1>3. CountsOfLength(counts, N)
  <2> DEFINE V == {o[s] : s \in DOMAIN o}
  <2>1. \A s \in DOMAIN o : o[s] \in V
    OBVIOUS
  <2> HIDE DEF V, at
  <2>2. QED
    BY <1>2, <2>1, SortedCountsIs
<1>4. counts = [k \in {key(s) : s \in DOMAIN o} |-> o[CHOOSE s \in DOMAIN o : key(s) = k]]
  BY DEF SortedCounts
<1>5. \A s \in DOMAIN o : SwapKey(key(s), at) = s
  BY <1>2, SwapUndoesSort, SizesAssumption DEF CountsOfLength
<1> HIDE DEF at, counts, key
<1>6. \A s \in DOMAIN o : key(s) \in DOMAIN counts /\ counts[key(s)] = o[s]
  <2> TAKE s \in DOMAIN o
  <2>1. \A t \in DOMAIN o : key(t) = key(s) => t = s
    BY <1>5
  <2>2. (CHOOSE t \in DOMAIN o : key(t) = key(s)) = s
    BY <2>1
  <2>3. QED
    BY <1>4, <2>2
<1>7. DOMAIN counts = {key(s) : s \in DOMAIN o}
  BY <1>4
<1>8. CASE DOMAIN vpm # {}
  <2>1. extractVirtualPhysicalMapping(counts, vpm) = at
    BY <1>1, <1>3, ExtractedIs DEF at
  <2>2. new = [t \in {SwapKey(k, at) : k \in DOMAIN counts} |->
                  counts[CHOOSE k \in DOMAIN counts : SwapKey(k, at) = t]]
    BY <1>8, <2>1 DEF swapVirtualPhysical
  <2>3. {SwapKey(k, at) : k \in DOMAIN counts} = DOMAIN o
    BY <1>5, <1>7
  <2>4. \A t \in DOMAIN o : counts[CHOOSE k \in DOMAIN counts : SwapKey(k, at) = t] = o[t]
    <3> TAKE t \in DOMAIN o
    <3>1. \A k \in DOMAIN counts : SwapKey(k, at) = t => k = key(t)
      BY <1>5, <1>7
    <3>2. (CHOOSE k \in DOMAIN counts : SwapKey(k, at) = t) = key(t)
      BY <1>5, <1>6, <3>1
    <3>3. QED
      BY <1>6, <3>2
  <2>5. QED
    BY <2>2, <2>3, <2>4 DEF at, counts
<1>9. CASE DOMAIN vpm = {}
  <2>1. N = 0
    BY <1>1, <1>9
  <2>2. \A s \in [1 .. N -> Bits] : \A t \in [1 .. N -> Bits] : s = t
    BY <2>1
  <2>3. \A s \in DOMAIN o : key(s) = s
    <3> TAKE s \in DOMAIN o
    <3>1. s \in [1 .. N -> Bits]
      BY DEF CountsOfLength
    <3>2. key(s) \in [1 .. N -> Bits]
      BY <1>3, <1>6 DEF CountsOfLength
    <3>3. QED
      BY <2>2, <3>1, <3>2
  <2>4. new = counts
    BY <1>9 DEF swapVirtualPhysical
  <2>5. counts = o
    <3>1. DOMAIN counts = DOMAIN o
      BY <1>7, <2>3
    <3>2. \A s \in DOMAIN o : counts[s] = o[s]
      BY <1>6, <2>3
    <3>3. counts = [s \in DOMAIN counts |-> counts[s]]
      BY <1>4
    <3>4. QED
      BY <3>1, <3>2, <3>3
  <2>6. QED
    BY <2>4, <2>5 DEF at, counts
<1>10. QED
  BY <1>8, <1>9

-----------------------------------------------------------------------------
(* The division.                                                           *)

\* The list of the combiner: as many lengths as circuits, one bit of a string
\* for each of their bits, and circuit c + 1 at the place that is read for it.
LEMMA LengthsAre ==
    ASSUME NEW circuits, NEW P, NEW Q, Sums(circuits, P, Q)
    PROVE  LET n == Len(circuits)
               lengths == combine_circuits(circuits)
           IN  /\ lengths \in Seq(Nat) /\ Len(lengths) = n
               /\ Sum(lengths) = P[n]
               /\ \A c \in 0 .. n - 1 :
                     /\ lengths[n - c] = circuits[c + 1].clbits
                     /\ Sum(SubSeq(lengths, 1, n - c - 1)) = P[n] - P[c + 1]
<1> DEFINE n == Len(circuits)
           x == NumClbits(circuits)
           lengths == combine_circuits(circuits)
           g == [i \in 0 .. n |-> P[n] - P[n - i]]
<1>1. /\ n \in Nat /\ DOMAIN circuits = 1 .. n /\ x \in Seq(Nat) /\ Len(x) = n
      /\ \A i \in 1 .. n : x[i] = circuits[i].clbits
  BY NumsAreLengths DEF Sums
<1>2. P \in [0 .. n -> Nat] /\ P[0] = 0
  BY SumsStep
<1>3. lengths \in Seq(Nat) /\ Len(lengths) = n /\ Totals(g, lengths)
  <2>1. Totals(P, x)
    BY DEF Sums
  <2>2. lengths = Reversed(x)
    BY <1>1 DEF combine_circuits, Reversed
  <2> HIDE DEF x, lengths
  <2>3. QED
    BY <1>1, <2>1, <2>2, TotalsOfReverse
<1>4. g[n] = P[n] /\ \A c \in 0 .. n - 1 : g[n - c - 1] = P[n] - P[c + 1]
  <2>1. g[n] = P[n]
    BY <1>1, <1>2
  <2>2. \A c \in 0 .. n - 1 : n - c - 1 \in 0 .. n /\ n - (n - c - 1) = c + 1
    BY <1>1
  <2>3. QED
    BY <2>1, <2>2
<1>5. \A c \in 0 .. n - 1 : lengths[n - c] = x[c + 1]
  <2> TAKE c \in 0 .. n - 1
  <2>1. n - c \in 1 .. n /\ n - (n - c) + 1 = c + 1
    BY <1>1
  <2>2. lengths[n - c] = x[n - (n - c) + 1]
    BY <1>1, <2>1 DEF combine_circuits
  <2>3. QED
    BY <2>1, <2>2
<1> HIDE DEF g, lengths, x
<1>6. Sum(lengths) = P[n]
  BY <1>3, <1>4, SumIsTotal
<1>7. \A c \in 0 .. n - 1 : Sum(SubSeq(lengths, 1, n - c - 1)) = P[n] - P[c + 1]
  <2> TAKE c \in 0 .. n - 1
  <2>1. n - c - 1 \in 0 .. Len(lengths)
    BY <1>1, <1>3
  <2>2. Sum(SubSeq(lengths, 1, n - c - 1)) = g[n - c - 1]
    BY <1>3, <2>1, SumOfPrefix
  <2>3. QED
    BY <1>4, <2>2
<1>8. \A c \in 0 .. n - 1 : c + 1 \in 1 .. n
  BY <1>1
<1>9. QED
  BY <1>1, <1>3, <1>5, <1>6, <1>7, <1>8 DEF lengths

LEMMA CutIs ==
    ASSUME NEW s \in Seq(Bits), NEW a \in Nat, NEW L \in Nat, a + L <= Len(s)
    PROVE  SubSeq(s, a + 1, a + L) = [k \in 1 .. L |-> s[a + k]]
<1> DEFINE cut == SubSeq(s, a + 1, a + L)
<1>1. \A i \in (a + 1) .. (a + L) : i \in 1 .. Len(s)
  OBVIOUS
<1>2. \A i \in (a + 1) .. (a + L) : s[i] \in Bits
  BY <1>1
<1>3. a + 1 \in Int /\ a + L \in Int
  OBVIOUS
<1>4. /\ cut \in Seq(Bits)
      /\ Len(cut) = IF a + 1 <= a + L THEN (a + L) - (a + 1) + 1 ELSE 0
      /\ \A i \in 1 .. (a + L) - (a + 1) + 1 : cut[i] = s[(a + 1) + i - 1]
  BY <1>2, <1>3, SubSeqProperties
<1>5. Len(cut) = L /\ (a + L) - (a + 1) + 1 = L
  BY <1>4
<1>6. \A i \in 1 .. L : (a + 1) + i - 1 = a + i
  OBVIOUS
<1>7. \A i \in 1 .. L : cut[i] = s[a + i]
  BY <1>4, <1>5, <1>6
<1> HIDE DEF cut
<1>8. cut = [k \in 1 .. L |-> cut[k]]
  BY <1>4, <1>5
<1>9. QED
  BY <1>7, <1>8 DEF cut

\* What circuit c + 1 measured in the string s.
OwnBits(circuits, c, s) ==
    FromBits(circuits[c + 1].clbits,
             [k \in 0 .. circuits[c + 1].clbits - 1 |->
                  BitAt(s, Before(NumClbits(circuits), c + 1) + k)])

\* The part of a string that divideStringByLengths gives to a circuit is what
\* the circuit measured.
LEMMA PartIsOwn ==
    ASSUME NEW circuits, NEW P, NEW Q, Sums(circuits, P, Q),
           NEW s \in [1 .. P[Len(circuits)] -> Bits],
           NEW c \in 0 .. Len(circuits) - 1
    PROVE  divideStringByLengths(s, combine_circuits(circuits))[Len(circuits) - c]
              = OwnBits(circuits, c, s)
<1> DEFINE n == Len(circuits)
           N == P[n]
           L == circuits[c + 1].clbits
           lengths == combine_circuits(circuits)
           start == Sum(SubSeq(lengths, 1, n - c - 1))
           own == OwnBits(circuits, c, s)
<1>1. n \in Nat /\ P \in [0 .. n -> Nat] /\ c + 1 \in 1 .. n /\ (c + 1) - 1 = c
  BY SumsStep
<1>2. L \in Nat /\ P[c + 1] = P[c] + L
  BY <1>1, SumsStep
<1>3. P[c + 1] <= N /\ N \in Nat /\ P[c] \in Nat /\ P[c + 1] \in Nat
  <2>1. NumClbits(circuits) \in Seq(Nat) /\ Len(NumClbits(circuits)) = n
    BY NumsAreLengths DEF Sums
  <2>2. Totals(P, NumClbits(circuits))
    BY DEF Sums
  <2>3. c + 1 \in 0 .. n /\ n \in (c + 1) .. n /\ c \in 0 .. n
    BY <1>1
  <2>4. P[c + 1] <= P[n]
    BY <2>1, <2>2, <2>3, TotalsMonotone
  <2>5. QED
    BY <1>1, <2>3, <2>4
<1>4. lengths \in Seq(Nat) /\ Len(lengths) = n /\ lengths[n - c] = L /\ start = N - P[c + 1]
  BY LengthsAre
<1>5. Before(NumClbits(circuits), c + 1) = P[c]
  BY <1>1, BeforeIsSum
<1>6. Len(s) = N
  BY <1>3
<1>7. own = [k \in 1 .. L |-> BitAt(s, P[c] + (L - k))]
  <2>1. \A k \in 1 .. L : L - k \in 0 .. L - 1
    BY <1>2
  <2>2. QED
    BY <1>5, <2>1 DEF OwnBits, FromBits
<1>8. start \in Nat /\ start + L <= N /\ start = N - (P[c] + L)
  <2> DEFINE before == P[c]
             after == P[c + 1]
  <2>1. /\ L \in Nat /\ after = before + L /\ after <= N /\ start = N - after
        /\ N \in Nat /\ before \in Nat /\ after \in Nat
    BY <1>2, <1>3, <1>4
  <2> HIDE DEF start, L, N, before, after
  <2>2. start \in Nat /\ start + L <= N /\ start = N - (before + L)
    BY <2>1
  <2>3. QED
    BY <2>2 DEF before
<1>9. \A k \in 1 .. L : BitAt(s, P[c] + (L - k)) = s[start + k]
  <2> TAKE k \in 1 .. L
  <2>1. N - (P[c] + (L - k)) = start + k
    <3> DEFINE before == P[c]
    <3>1. L \in Nat /\ N \in Nat /\ before \in Nat /\ start = N - (before + L)
      BY <1>2, <1>3, <1>8
    <3> HIDE DEF start, N, L, before
    <3>2. N - (before + (L - k)) = start + k
      BY <3>1
    <3>3. QED
      BY <3>2 DEF before
  <2>2. QED
    BY <1>6, <2>1 DEF BitAt
<1>10. SubSeq(s, start + 1, start + L) = [k \in 1 .. L |-> s[start + k]]
  <2>1. s \in Seq(Bits)
    BY <1>3
  <2> HIDE DEF start, L, N
  <2>2. QED
    BY <1>2, <1>6, <1>8, <2>1, CutIs
<1>11. divideStringByLengths(s, lengths)[n - c] = SubSeq(s, start + 1, start + L)
  <2>1. n - c \in DOMAIN lengths
    BY <1>1, <1>4
  <2>2. QED
    BY <1>4, <2>1 DEF divideStringByLengths
<1>12. QED
  BY <1>7, <1>9, <1>10, <1>11

\* What circuit c + 1 measured over the outcome o.
MarginalOf(circuits, o, c) ==
    [p \in {OwnBits(circuits, c, s) : s \in DOMAIN o} |->
        TotalCount(o, {s \in DOMAIN o : OwnBits(circuits, c, s) = p})]

LEMMA DivisionIsMarginal ==
    ASSUME NEW circuits, NEW P, NEW Q, Sums(circuits, P, Q),
           NEW o, CountsOfLength(o, P[Len(circuits)])
    PROVE  DividedCounts(o, combine_circuits(circuits))
              = [c \in 0 .. Len(circuits) - 1 |-> MarginalOf(circuits, o, c)]
<1> DEFINE n == Len(circuits)
           lengths == combine_circuits(circuits)
           part(c, s) == divideStringByLengths(s, lengths)[n - c]
<1>1. Len(lengths) = n
  BY LengthsAre
<1>2. DividedCounts(o, lengths)
        = [c \in 0 .. n - 1 |->
             [p \in {part(c, s) : s \in DOMAIN o} |->
                TotalCount(o, {s \in DOMAIN o : part(c, s) = p})]]
  BY <1>1 DEF DividedCounts
<1>3. \A c \in 0 .. n - 1 : \A s \in DOMAIN o : part(c, s) = OwnBits(circuits, c, s)
  BY PartIsOwn DEF CountsOfLength
<1> HIDE DEF part, lengths
<1>4. ASSUME NEW c \in 0 .. n - 1
      PROVE  [p \in {part(c, s) : s \in DOMAIN o} |->
                TotalCount(o, {s \in DOMAIN o : part(c, s) = p})]
               = MarginalOf(circuits, o, c)
  <2>1. {part(c, s) : s \in DOMAIN o} = {OwnBits(circuits, c, s) : s \in DOMAIN o}
    BY <1>3
  <2>2. \A p : {s \in DOMAIN o : part(c, s) = p}
                 = {s \in DOMAIN o : OwnBits(circuits, c, s) = p}
    BY <1>3
  <2>3. QED
    BY <2>1, <2>2 DEF MarginalOf
<1>5. QED
  BY <1>2, <1>4 DEF lengths

-----------------------------------------------------------------------------
(* From the outcome to the counts of the gateway and back to the circuits, *)
(* for one program and one layout.                                         *)

BitCount(circuits) == Sum(NumClbits(circuits))
QubitCount(circuits) == Sum(NumQubits(circuits))

LEMMA CountsOfProgram ==
    ASSUME NEW circuits, WellFormed(circuits)
    PROVE  /\ BitCount(circuits) \in Nat /\ QubitCount(circuits) \in Nat
           /\ BitCount(circuits) <= QubitCount(circuits)
           /\ Len(combine_circuits(circuits)) = Len(circuits)
           /\ Sum(combine_circuits(circuits)) = BitCount(circuits)
           /\ combine_circuits(circuits) \in Seq(Nat)
<1>1. PICK P, Q : Sums(circuits, P, Q)
  BY SumsExist
<1>2. BitCount(circuits) = P[Len(circuits)] /\ QubitCount(circuits) = Q[Len(circuits)]
  BY <1>1, BeforeIsSum DEF BitCount, QubitCount
<1>3. Len(circuits) \in Nat /\ P \in [0 .. Len(circuits) -> Nat]
      /\ Q \in [0 .. Len(circuits) -> Nat]
  BY <1>1, SumsStep
<1>4. Len(circuits) \in 0 .. Len(circuits)
  BY <1>3
<1>5. P[Len(circuits)] <= Q[Len(circuits)]
  BY <1>1, <1>4, BitsFitQubits
<1>6. /\ Len(combine_circuits(circuits)) = Len(circuits)
      /\ Sum(combine_circuits(circuits)) = P[Len(circuits)]
      /\ combine_circuits(circuits) \in Seq(Nat)
  BY <1>1, LengthsAre
<1>7. QED
  BY <1>2, <1>3, <1>4, <1>5, <1>6

\* Where the layout puts the qubits that the classical bits are read from.
PlacesOf(circuits, vpm) ==
    [b \in 0 .. BitCount(circuits) - 1 |-> vpm[MeasuredQubit(circuits)[b]]]

LEMMA PlacesPlaced ==
    ASSUME NEW circuits, WellFormed(circuits),
           NEW vpm, Layout(vpm, QubitCount(circuits))
    PROVE  Placed(PlacesOf(circuits, vpm), BitCount(circuits))
<1> DEFINE n == Len(circuits)
           N == BitCount(circuits)
           K == QubitCount(circuits)
           M == MeasuredQubit(circuits)
           at == PlacesOf(circuits, vpm)
<1>1. PICK P, Q : Sums(circuits, P, Q)
  BY SumsExist
<1>2. N = P[n] /\ K = Q[n]
  BY <1>1, BeforeIsSum DEF BitCount, QubitCount
<1>3. n \in Nat /\ Q \in [0 .. n -> Nat]
  BY <1>1, SumsStep
<1>4. \A i \in 0 .. n : Q[i] <= Q[n]
  <2>1. NumQubits(circuits) \in Seq(Nat) /\ Len(NumQubits(circuits)) = n
    BY NumsAreLengths
  <2>2. Totals(Q, NumQubits(circuits))
    BY <1>1 DEF Sums
  <2>3. QED
    BY <1>3, <2>1, <2>2, TotalsMonotone
<1>5. \A b \in 0 .. N - 1 : M[b] \in 0 .. K - 1
  <2> TAKE b \in 0 .. N - 1
  <2>1. /\ Owner(circuits, b) \in 1 .. n
        /\ M[b] \in Nat /\ M[b] < Q[Owner(circuits, b)]
    BY <1>1, <1>2, MeasuredQubitIs
  <2>2. Owner(circuits, b) \in 0 .. n
    BY <1>3, <2>1
  <2>3. Q[Owner(circuits, b)] \in Nat /\ Q[n] \in Nat /\ Q[Owner(circuits, b)] <= Q[n]
    BY <1>3, <1>4, <2>2
  <2>4. M[b] <= Q[n] - 1
    BY <2>1, <2>3
  <2>5. QED
    BY <1>2, <2>1, <2>3, <2>4
<1>6. \A b, c \in 0 .. N - 1 : M[b] = M[c] => b = c
  BY <1>1, <1>2, MeasuredQubitsDiffer
<1>7. \A v \in 0 .. K - 1 : vpm[v] \in Nat
  BY SizesAssumption DEF Layout
<1>8. \A v, w \in 0 .. K - 1 : vpm[v] = vpm[w] => v = w
  BY DEF Layout
<1>9. N \in Nat
  BY CountsOfProgram
<1>10. at = [b \in 0 .. N - 1 |-> vpm[M[b]]]
  BY DEF PlacesOf
<1> HIDE DEF N, K, M, at
<1>11. at \in [0 .. N - 1 -> Nat]
  BY <1>5, <1>7, <1>10
<1>12. \A b, c \in 0 .. N - 1 : at[b] = at[c] => b = c
  BY <1>5, <1>6, <1>8, <1>10
<1>13. QED
  BY <1>9, <1>11, <1>12 DEF Placed, N, at

\* Every circuit but the last measures all its qubits.
InOrder(circuits) ==
    \A c \in 1 .. Len(circuits) - 1 : circuits[c].clbits = circuits[c].qubits

LEMMA PlacesInOrder ==
    ASSUME NEW circuits, WellFormed(circuits), InOrder(circuits), NEW vpm
    PROVE  PlacesOf(circuits, vpm) = FirstPlaces(vpm, BitCount(circuits))
<1>1. PICK P, Q : Sums(circuits, P, Q)
  BY SumsExist
<1>2. BitCount(circuits) = P[Len(circuits)]
  BY <1>1, BeforeIsSum DEF BitCount
<1>3. \A b \in 0 .. BitCount(circuits) - 1 : MeasuredQubit(circuits)[b] = b
  BY <1>1, <1>2, MeasuredInOrder DEF InOrder
<1>4. QED
  BY <1>3 DEF PlacesOf, FirstPlaces

GatewayCounts(circuits, vpm, o) == SortedCounts(PlacesOf(circuits, vpm), o)

\* Whatever the program, the layout and the outcome: dividing the result
\* raises no error, and the strings keep their length and the numbers their
\* range.
LEMMA ResultDivides ==
    ASSUME NEW circuits, WellFormed(circuits),
           NEW vpm, Layout(vpm, QubitCount(circuits)),
           NEW o, CountsOfLength(o, BitCount(circuits)), NEW V,
           \A s \in DOMAIN o : o[s] \in V
    PROVE  LET g == GatewayCounts(circuits, vpm, o)
               w == swapVirtualPhysical(g, vpm)
           IN  /\ CountsOfLength(g, BitCount(circuits))
               /\ \A s \in DOMAIN g : g[s] \in V
               /\ ~SwapFails(g, vpm)
               /\ ~DivideResultFails(g, vpm, combine_circuits(circuits))
               /\ CountsOfLength(w, BitCount(circuits))
               /\ \A s \in DOMAIN w : w[s] \in V
<1> DEFINE N == BitCount(circuits)
           K == QubitCount(circuits)
           g == GatewayCounts(circuits, vpm, o)
           w == swapVirtualPhysical(g, vpm)
<1>1. N \in Nat /\ K \in Nat /\ N <= K /\ Sum(combine_circuits(circuits)) = N
  BY CountsOfProgram
<1>2. Placed(PlacesOf(circuits, vpm), N)
  BY PlacesPlaced
<1>3. vpm \in [0 .. K - 1 -> 0 .. Physical - 1]
  BY DEF Layout
<1> HIDE DEF N, K
<1>4. CountsOfLength(g, N) /\ \A s \in DOMAIN g : g[s] \in V
  BY <1>2, SortedCountsIs DEF GatewayCounts, N
<1> HIDE DEF g
<1>5. ~SwapFails(g, vpm)
  BY <1>1, <1>3, <1>4, SwapSucceeds
<1>6. CountsOfLength(w, N) /\ \A s \in DOMAIN w : w[s] \in V
  BY <1>1, <1>4, SwappedIs DEF K
<1>7. ~DivideFails(w, combine_circuits(circuits))
  <2>1. \A s \in DOMAIN w : Len(s) = N
    BY <1>1, <1>6 DEF CountsOfLength
  <2>2. QED
    BY <1>1, <2>1 DEF DivideFails
<1>8. DOMAIN g # {}
  BY <1>4 DEF CountsOfLength
<1>9. QED
  BY <1>4, <1>5, <1>6, <1>7, <1>8 DEF DivideResultFails, g, N

\* If no circuit but the last leaves a qubit unmeasured, every circuit gets
\* back what it measured.
LEMMA ResultIsMarginal ==
    ASSUME NEW circuits, WellFormed(circuits), InOrder(circuits),
           NEW vpm, Layout(vpm, QubitCount(circuits)),
           NEW o, CountsOfLength(o, BitCount(circuits)), o = [s \in DOMAIN o |-> o[s]]
    PROVE  LET w == swapVirtualPhysical(GatewayCounts(circuits, vpm, o), vpm)
           IN  /\ w = o
               /\ DividedCounts(w, combine_circuits(circuits))
                     = [c \in 0 .. Len(circuits) - 1 |-> MarginalOf(circuits, o, c)]
<1>1. BitCount(circuits) \in Nat /\ BitCount(circuits) <= QubitCount(circuits)
  BY CountsOfProgram
<1>2. swapVirtualPhysical(GatewayCounts(circuits, vpm, o), vpm) = o
  BY <1>1, PlacesInOrder, SwapUndoesGateway DEF GatewayCounts
<1>3. PICK P, Q : Sums(circuits, P, Q)
  BY SumsExist
<1>4. BitCount(circuits) = P[Len(circuits)]
  BY <1>3, BeforeIsSum DEF BitCount
<1>5. DividedCounts(o, combine_circuits(circuits))
        = [c \in 0 .. Len(circuits) - 1 |-> MarginalOf(circuits, o, c)]
  BY <1>3, <1>4, DivisionIsMarginal
<1>6. QED
  BY <1>2, <1>5

-----------------------------------------------------------------------------
(* The inductive invariant.                                                *)

\* Counts of the program: strings of its bits, and numbers of shots.
CountsOfJob(counts) ==
    /\ CountsOfLength(counts, BitCount(request.circuits))
    /\ \A s \in DOMAIN counts : counts[s] \in 1 .. MaxShots

JobShape ==
    /\ job = [status |-> job.status, use |-> job.use, qasm |-> job.qasm,
              lengths |-> job.lengths, vpm |-> job.vpm, counts |-> job.counts,
              divided |-> job.divided]
    /\ job.use \in BOOLEAN
    /\ job.status \in {"READY", "SUCCEEDED", "FAILED"}
    /\ job.qasm \in {"original", "combined", "both"}

\* What the job has so far.  The counts come after the lengths, and these
\* after the combiner has accepted the program.
Gathered ==
    /\ job.lengths # <<>> =>
          /\ job.lengths = combine_circuits(request.circuits)
          /\ ~CombineFails(request.circuits)
    /\ job.vpm # <<>> => Layout(job.vpm, QubitCount(request.circuits))
    /\ job.counts # NoCounts =>
          /\ job.lengths = combine_circuits(request.circuits)
          /\ CountsOfJob(job.counts)

\* What holds when a phase begins.
Phases ==
    /\ pc \in {"combine", "transpile", "process", "post"} => Valid
    /\ pc \in {"transpile", "process", "post"} =>
          /\ ~CombineFails(request.circuits)
          /\ job.lengths = combine_circuits(request.circuits)
    /\ pc \in {"process", "post"} =>
          /\ NeedTranspiling(lib)
          /\ Layout(job.vpm, QubitCount(request.circuits))
    /\ pc = "post" =>
          /\ job.use
          /\ CountsOfJob(outcome) /\ outcome = [s \in DOMAIN outcome |-> outcome[s]]
          /\ job.counts = GatewayCounts(request.circuits, job.vpm, outcome)
    /\ pc # "done" => report = NoReport

\* What the handler has decided about a job that it reports.
Settled ==
    /\ job.status \in {"SUCCEEDED", "FAILED"}
    /\ ~fault => (job.status = "SUCCEEDED" <=> Acceptable /\ NeedTranspiling(lib))
    /\ job.status = "SUCCEEDED" =>
          /\ job.use
          /\ job.qasm = "both"
          /\ InOrder(request.circuits) =>
                /\ job.counts = outcome
                /\ job.divided = [c \in 0 .. Len(request.circuits) - 1 |->
                                    MarginalOf(request.circuits, outcome, c)]

Reported ==
    /\ report.status = IF job.use THEN job.status ELSE "none"
    /\ job.status = "SUCCEEDED" =>
          /\ report.combined = (job.qasm = "both")
          /\ report.counts = job.counts /\ report.divided = job.divided

Inv ==
    /\ pc \in {"received", "combine", "transpile", "process", "post",
               "report", "done"}
    /\ request \in Requests
    /\ fault \in BOOLEAN
    /\ JobShape /\ Gathered /\ Phases
    /\ pc \in {"report", "done"} => Settled
    /\ pc = "done" => Reported

LEMMA RequestIs ==
    ASSUME request \in Requests
    PROVE  WellFormed(request.circuits) /\ request.shots \in Int
<1>1. request.circuits \in CircuitLists /\ request.shots \in 0 .. MaxShots + 1
  BY DEF Requests
<1>2. QED
  BY <1>1, CircuitsAssumption, SizesAssumption DEF WellFormed

LEMMA InitInv ==
    ASSUME Init
    PROVE  Inv
BY DEF Init, Inv, JobShape, Gathered, Phases

\* The job fails or panics, and the handler writes it.
LEMMA FailInv ==
    ASSUME Inv, pc \in {"received", "combine", "transpile", "process", "post"},
           NEW q \in {"original", job.qasm, "both"}, NEW u \in BOOLEAN,
           job' = [job EXCEPT !.status = "FAILED", !.use = u, !.qasm = q],
           pc' = "report", UNCHANGED <<request, outcome, report>>,
           fault' \in BOOLEAN,
           ~fault' => ~(Acceptable /\ NeedTranspiling(lib))
    PROVE  Inv'
<1>1. /\ job'.status = "FAILED" /\ job'.use = u /\ job'.qasm = q
      /\ job'.lengths = job.lengths
      /\ job'.vpm = job.vpm /\ job'.counts = job.counts /\ job'.divided = job.divided
      /\ job' = [status |-> "FAILED", use |-> u, qasm |-> q, lengths |-> job.lengths,
                 vpm |-> job.vpm, counts |-> job.counts, divided |-> job.divided]
  BY DEF Inv, JobShape
<1>2. JobShape'
  BY <1>1 DEF Inv, JobShape
<1>3. Gathered'
  BY <1>1 DEF Inv, Gathered, CountsOfJob
<1>4. Phases'
  BY DEF Inv, Phases
<1>5. Settled'
  BY <1>1 DEF Settled, Acceptable, Valid, lib
<1>6. QED
  BY <1>2, <1>3, <1>4, <1>5 DEF Inv

\* The two ways to fail, as FailInv has them.
LEMMA FailIs ==
    ASSUME Inv
    PROVE  /\ Fail([job EXCEPT !.status = "FAILED"]) =>
                job' = [job EXCEPT !.status = "FAILED", !.use = TRUE, !.qasm = job.qasm]
           /\ FailWithRollback =>
                job' = [job EXCEPT !.status = "FAILED", !.use = TRUE, !.qasm = "original"]
<1>1. job = [status |-> job.status, use |-> job.use, qasm |-> job.qasm,
             lengths |-> job.lengths, vpm |-> job.vpm, counts |-> job.counts,
             divided |-> job.divided]
  BY DEF Inv, JobShape
<1>2. /\ [[job EXCEPT !.status = "FAILED"] EXCEPT !.use = TRUE]
            = [job EXCEPT !.status = "FAILED", !.use = TRUE, !.qasm = job.qasm]
      /\ [[job EXCEPT !.status = "FAILED", !.qasm = "original"] EXCEPT !.use = TRUE]
            = [job EXCEPT !.status = "FAILED", !.use = TRUE, !.qasm = "original"]
  BY <1>1
<1>3. QED
  BY <1>2 DEF Fail, FailWithRollback

LEMMA PanicIs ==
    ASSUME Inv
    PROVE  /\ Panics(job) =>
                job' = [job EXCEPT !.status = "FAILED", !.use = job.use, !.qasm = job.qasm]
           /\ Panics([job EXCEPT !.qasm = "both"]) =>
                job' = [job EXCEPT !.status = "FAILED", !.use = job.use, !.qasm = "both"]
<1>1. job = [status |-> job.status, use |-> job.use, qasm |-> job.qasm,
             lengths |-> job.lengths, vpm |-> job.vpm, counts |-> job.counts,
             divided |-> job.divided]
  BY DEF Inv, JobShape
<1>2. /\ [job EXCEPT !.status = "FAILED"]
            = [job EXCEPT !.status = "FAILED", !.use = job.use, !.qasm = job.qasm]
      /\ [[job EXCEPT !.qasm = "both"] EXCEPT !.status = "FAILED"]
            = [job EXCEPT !.status = "FAILED", !.use = job.use, !.qasm = "both"]
  BY <1>1
<1>3. QED
  BY <1>2 DEF Panics

LEMMA PanicInv ==
    ASSUME Inv, HandlerPanics
    PROVE  Inv'
<1>1. /\ pc \in {"received", "combine", "transpile", "post"} /\ fault' = TRUE
      /\ pc' = "report" /\ UNCHANGED <<request, outcome, report>>
      /\ job.use \in BOOLEAN
  BY DEF HandlerPanics, Panics, Inv, JobShape
<1>2. CASE Panics(job)
  <2>1. job' = [job EXCEPT !.status = "FAILED", !.use = job.use, !.qasm = job.qasm]
    BY <1>2, PanicIs
  <2>2. QED
    BY <1>1, <2>1, FailInv
<1>3. CASE Panics([job EXCEPT !.qasm = "both"])
  <2>1. job' = [job EXCEPT !.status = "FAILED", !.use = job.use, !.qasm = "both"]
    BY <1>3, PanicIs
  <2>2. QED
    BY <1>1, <2>1, FailInv
<1>4. QED
  BY <1>2, <1>3 DEF HandlerPanics

LEMMA ValidateInv ==
    ASSUME Inv, validateJobParam
    PROVE  Inv'
<1>1. CASE ~Valid /\ Fail([job EXCEPT !.status = "FAILED"])
  <2>1. job' = [job EXCEPT !.status = "FAILED", !.use = TRUE, !.qasm = job.qasm]
    BY <1>1, FailIs
  <2>2. QED
    BY <1>1, <2>1, FailInv DEF validateJobParam, Fail, Acceptable, Inv
<1>2. CASE Valid /\ pc' = "combine" /\ UNCHANGED <<request, job, outcome, report>>
  BY <1>2 DEF validateJobParam, Inv, JobShape, Gathered, CountsOfJob, Phases, Valid, lib
<1>3. QED
  BY <1>1, <1>2 DEF validateJobParam

LEMMA CombineInv ==
    ASSUME Inv, sendJobdata
    PROVE  Inv'
<1>1. pc = "combine" /\ Valid
  BY DEF sendJobdata, Inv, Phases
<1>2. CASE /\ ~CombineFails(request.circuits)
           /\ job' = [job EXCEPT !.lengths = combine_circuits(request.circuits),
                                 !.qasm = "combined"]
           /\ pc' = "transpile"
           /\ UNCHANGED <<request, outcome, fault, report>>
  <2>1. /\ job'.status = job.status /\ job'.use = job.use /\ job'.qasm = "combined"
        /\ job'.lengths = combine_circuits(request.circuits)
        /\ job'.vpm = job.vpm /\ job'.counts = job.counts /\ job'.divided = job.divided
        /\ job' = [status |-> job.status, use |-> job.use, qasm |-> "combined",
                   lengths |-> combine_circuits(request.circuits),
                   vpm |-> job.vpm, counts |-> job.counts, divided |-> job.divided]
    BY <1>2 DEF Inv, JobShape
  <2>2. JobShape'
    BY <2>1 DEF Inv, JobShape
  <2>3. Gathered'
    BY <1>2, <2>1 DEF Inv, Gathered, CountsOfJob
  <2>4. Phases'
    BY <1>1, <1>2, <2>1 DEF Inv, Phases, Valid, lib
  <2>5. QED
    BY <1>2, <2>2, <2>3, <2>4 DEF Inv
<1>3. CASE CombineFails(request.circuits) /\ FailWithRollback /\ UNCHANGED fault
  BY <1>1, <1>3, FailIs, FailInv DEF FailWithRollback, Fail, Acceptable, Inv
<1>4. CASE FailWithRollback /\ fault' = TRUE
  BY <1>1, <1>4, FailIs, FailInv DEF FailWithRollback, Fail
<1>5. QED
  BY <1>2, <1>3, <1>4 DEF sendJobdata

LEMMA TranspileInv ==
    ASSUME Inv, Transpile
    PROVE  Inv'
<1>1. pc = "transpile" /\ Valid
  BY DEF Transpile, Inv, Phases
<1>2. CASE ~NeedTranspiling(lib) /\ Panics(job) /\ UNCHANGED fault
  <2>1. job' = [job EXCEPT !.status = "FAILED", !.use = job.use, !.qasm = job.qasm]
    BY <1>2, PanicIs
  <2>2. job.use \in BOOLEAN /\ fault \in BOOLEAN
    BY DEF Inv, JobShape
  <2>3. QED
    BY <1>1, <1>2, <2>1, <2>2, FailInv DEF Panics
<1>3. CASE /\ NeedTranspiling(lib)
           /\ \E l \in Layouts : job' = [job EXCEPT !.vpm = l]
           /\ pc' = "process"
           /\ UNCHANGED <<request, outcome, fault, report>>
  <2>1. PICK l \in Layouts : job' = [job EXCEPT !.vpm = l]
    BY <1>3
  <2>2. Layout(l, QubitCount(request.circuits))
    <3>1. QubitCount(request.circuits) \in Nat
      BY RequestIs, CountsOfProgram DEF Inv
    <3>2. l \in [0 .. QubitCount(request.circuits) - 1 -> 0 .. Physical - 1]
      BY <2>1 DEF Layouts, QubitCount
    <3>3. \A v, w \in DOMAIN l : l[v] = l[w] => v = w
      BY <2>1 DEF Layouts
    <3>4. QED
      BY <3>1, <3>2, <3>3 DEF Layout
  <2>3. /\ job'.status = job.status /\ job'.use = job.use /\ job'.qasm = job.qasm
        /\ job'.lengths = job.lengths
        /\ job'.vpm = l /\ job'.counts = job.counts /\ job'.divided = job.divided
        /\ job' = [status |-> job.status, use |-> job.use, qasm |-> job.qasm,
                   lengths |-> job.lengths, vpm |-> l, counts |-> job.counts, divided |-> job.divided]
    BY <2>1 DEF Inv, JobShape
  <2>4. JobShape'
    BY <2>3 DEF Inv, JobShape
  <2>5. Gathered'
    BY <1>3, <2>2, <2>3 DEF Inv, Gathered, CountsOfJob
  <2>6. Phases'
    BY <1>1, <1>3, <2>2, <2>3 DEF Inv, Phases, Valid, lib
  <2>7. QED
    BY <1>3, <2>4, <2>5, <2>6 DEF Inv
<1>4. CASE FailWithRollback /\ fault' = TRUE
  BY <1>1, <1>4, FailIs, FailInv DEF FailWithRollback, Fail
<1>5. QED
  BY <1>2, <1>3, <1>4 DEF Transpile

\* A result of the gateway is a sound outcome, kept as functions of strings.
LEMMA OutcomeIs ==
    ASSUME request \in Requests, Valid, NEW o \in Outcomes
    PROVE  CountsOfJob(o) /\ o = [s \in DOMAIN o |-> o[s]]
<1> DEFINE strings == [1 .. Sum(NumClbits(request.circuits)) -> Bits]
<1>1. request.shots \in 1 .. MaxShots /\ MaxShots \in Nat
  BY SizesAssumption DEF Valid
<1>2. CASE \E t \in strings : o = [s \in {t} |-> request.shots]
  <2>1. PICK t \in strings : o = [s \in {t} |-> request.shots]
    BY <1>2
  <2>2. DOMAIN o = {t} /\ o[t] = request.shots
    BY <2>1
  <2>3. QED
    BY <1>1, <2>1, <2>2 DEF CountsOfJob, CountsOfLength, BitCount
<1>3. CASE /\ request.shots > 1
           /\ \E u \in strings : \E t \in strings \ {u} :
                 o = [s \in {t, u} |-> IF s = t THEN 1 ELSE request.shots - 1]
  <2>1. PICK u \in strings : \E t \in strings \ {u} :
                 o = [s \in {t, u} |-> IF s = t THEN 1 ELSE request.shots - 1]
    BY <1>3
  <2>2. PICK t \in strings \ {u} :
                 o = [s \in {t, u} |-> IF s = t THEN 1 ELSE request.shots - 1]
    BY <2>1
  <2>3. DOMAIN o = {t, u} /\ o[t] = 1 /\ o[u] = request.shots - 1
    BY <2>2
  <2>4. o[t] \in 1 .. MaxShots /\ o[u] \in 1 .. MaxShots
    BY <1>1, <1>3, <2>3
  <2>5. QED
    BY <2>1, <2>2, <2>3, <2>4 DEF CountsOfJob, CountsOfLength, BitCount
<1>4. QED
  <2>1. \/ o \in {[s \in {t} |-> request.shots] : t \in strings}
        \/ o \in UNION {{[s \in {t, u} |-> IF s = t THEN 1 ELSE request.shots - 1]
                             : t \in strings \ {u}}
                          : u \in IF request.shots > 1 THEN strings ELSE {}}
    BY DEF Outcomes
  <2>2. CASE o \in {[s \in {t} |-> request.shots] : t \in strings}
    BY <1>2, <2>2
  <2>3. CASE o \in UNION {{[s \in {t, u} |-> IF s = t THEN 1 ELSE request.shots - 1]
                              : t \in strings \ {u}}
                           : u \in IF request.shots > 1 THEN strings ELSE {}}
    <3>1. PICK u \in (IF request.shots > 1 THEN strings ELSE {}) :
            o \in {[s \in {t, u} |-> IF s = t THEN 1 ELSE request.shots - 1]
                      : t \in strings \ {u}}
      BY <2>3
    <3>2. request.shots > 1 /\ u \in strings
      BY <3>1
    <3>3. QED
      BY <1>3, <3>1, <3>2
  <2>4. QED
    BY <2>1, <2>2, <2>3

\* DeviceKey sorts the bits by the places of the layout.
LEMMA DeviceCountsAre ==
    ASSUME request \in Requests, NEW o, CountsOfLength(o, BitCount(request.circuits))
    PROVE  [k \in {DeviceKey(s) : s \in DOMAIN o} |->
               o[CHOOSE s \in DOMAIN o : DeviceKey(s) = k]]
             = GatewayCounts(request.circuits, job.vpm, o)
<1> DEFINE at == PlacesOf(request.circuits, job.vpm)
           N == BitCount(request.circuits)
<1>1. N \in Nat
  BY RequestIs, CountsOfProgram
<1>2. \A s \in DOMAIN o : Len(s) = N
  BY <1>1 DEF CountsOfLength
<1>3. ASSUME NEW s \in DOMAIN o
      PROVE  DeviceKey(s) = SortedKey(at, s)
  <2>1. at = [b \in 0 .. Len(s) - 1 |-> job.vpm[MeasuredQubit(request.circuits)[b]]]
    BY <1>2 DEF PlacesOf
  <2>2. QED
    BY <2>1 DEF DeviceKey, SortedKey, Rank
<1> HIDE DEF at
<1>4. {DeviceKey(s) : s \in DOMAIN o} = {SortedKey(at, s) : s \in DOMAIN o}
  BY <1>3
<1>5. \A k : (CHOOSE s \in DOMAIN o : DeviceKey(s) = k)
              = (CHOOSE s \in DOMAIN o : SortedKey(at, s) = k)
  BY <1>3
<1>6. GatewayCounts(request.circuits, job.vpm, o)
        = [k \in {SortedKey(at, s) : s \in DOMAIN o} |->
             o[CHOOSE s \in DOMAIN o : SortedKey(at, s) = k]]
  BY DEF GatewayCounts, SortedCounts, at
<1>7. QED
  BY <1>4, <1>5, <1>6

LEMMA ProcessInv ==
    ASSUME Inv, Process
    PROVE  Inv'
<1>1. pc = "process" /\ Valid /\ request \in Requests
  BY DEF Process, Inv, Phases
<1>2. CASE \E o \in Outcomes :
             /\ outcome' = o
             /\ job' = [job EXCEPT
                  !.status = "SUCCEEDED",
                  !.use = TRUE,
                  !.counts = [k \in {DeviceKey(s) : s \in DOMAIN o} |->
                      o[CHOOSE s \in DOMAIN o : DeviceKey(s) = k]]]
             /\ pc' = "post"
             /\ UNCHANGED <<request, fault, report>>
  <2> DEFINE counts == GatewayCounts(request.circuits, job.vpm, outcome')
  <2>1. outcome' \in Outcomes /\ pc' = "post" /\ UNCHANGED <<request, fault, report>>
    BY <1>2
  <2>2. /\ CountsOfLength(outcome', BitCount(request.circuits))
        /\ \A s \in DOMAIN outcome' : outcome'[s] \in 1 .. MaxShots
        /\ outcome' = [s \in DOMAIN outcome' |-> outcome'[s]]
    BY <1>1, <2>1, OutcomeIs DEF CountsOfJob
  <2>3. job' = [job EXCEPT !.status = "SUCCEEDED", !.use = TRUE, !.counts = counts]
    BY <1>1, <1>2, <2>2, DeviceCountsAre
  <2>4. /\ CountsOfLength(counts, BitCount(request.circuits))
        /\ \A s \in DOMAIN counts : counts[s] \in 1 .. MaxShots
    <3>1. WellFormed(request.circuits) /\ Layout(job.vpm, QubitCount(request.circuits))
      BY <1>1, RequestIs DEF Inv, Phases
    <3>2. QED
      BY <2>2, <3>1, ResultDivides
  <2> HIDE DEF counts
  <2>5. /\ job'.status = "SUCCEEDED" /\ job'.use = TRUE /\ job'.qasm = job.qasm
        /\ job'.lengths = job.lengths /\ job'.vpm = job.vpm
        /\ job'.counts = counts /\ job'.divided = job.divided
        /\ job' = [status |-> "SUCCEEDED", use |-> TRUE, qasm |-> job.qasm,
                   lengths |-> job.lengths, vpm |-> job.vpm, counts |-> counts, divided |-> job.divided]
    BY <2>3 DEF Inv, JobShape
  <2>6. JobShape'
    BY <2>5 DEF Inv, JobShape
  <2>7. Gathered'
    BY <1>1, <2>1, <2>4, <2>5 DEF Inv, Gathered, Phases, CountsOfJob
  <2>8. Phases'
    BY <1>1, <2>1, <2>2, <2>5 DEF Inv, Phases, Valid, lib, CountsOfJob, counts
  <2>9. QED
    BY <2>1, <2>6, <2>7, <2>8 DEF Inv
<1>3. CASE Fail([job EXCEPT !.status = "FAILED"]) /\ fault' = TRUE
  <2>1. job' = [job EXCEPT !.status = "FAILED", !.use = TRUE, !.qasm = job.qasm]
    BY <1>3, FailIs
  <2>2. QED
    BY <1>1, <1>3, <2>1, FailInv DEF Fail
<1>4. CASE FailWithRollback /\ fault' = TRUE
  BY <1>1, <1>4, FailIs, FailInv DEF FailWithRollback, Fail
<1>5. QED
  BY <1>2, <1>3, <1>4 DEF Process

LEMMA PostProcessInv ==
    ASSUME Inv, PostProcess
    PROVE  Inv'
<1> DEFINE circuits == request.circuits
           lengths == combine_circuits(circuits)
           g == GatewayCounts(circuits, job.vpm, outcome)
           w == swapVirtualPhysical(g, job.vpm)
<1>1. /\ pc = "post" /\ pc' = "report" /\ UNCHANGED <<request, outcome, fault, report>>
      /\ Valid /\ ~CombineFails(circuits) /\ NeedTranspiling(lib)
      /\ job.lengths = lengths /\ job.counts = g /\ job.use = TRUE
  BY DEF PostProcess, Inv, Phases
<1>2. /\ WellFormed(circuits) /\ Layout(job.vpm, QubitCount(circuits))
      /\ CountsOfLength(outcome, BitCount(circuits))
      /\ \A s \in DOMAIN outcome : outcome[s] \in 1 .. MaxShots
      /\ outcome = [s \in DOMAIN outcome |-> outcome[s]]
  BY <1>1, RequestIs DEF Inv, Phases, CountsOfJob
<1>3. /\ ~SwapFails(g, job.vpm) /\ ~DivideResultFails(g, job.vpm, lengths)
      /\ CountsOfLength(w, BitCount(circuits))
      /\ \A s \in DOMAIN w : w[s] \in 1 .. MaxShots
  BY <1>2, ResultDivides
<1>4. InOrder(circuits) =>
        /\ w = outcome
        /\ DividedCounts(w, lengths)
             = [c \in 0 .. Len(circuits) - 1 |-> MarginalOf(circuits, outcome, c)]
  BY <1>2, ResultIsMarginal
<1>5. job' = [job EXCEPT !.status = "SUCCEEDED", !.qasm = "both", !.counts = w,
                         !.divided = DividedCounts(w, lengths)]
  BY <1>1, <1>3 DEF PostProcess
<1> HIDE DEF w, g, lengths
<1>6. /\ job'.status = "SUCCEEDED" /\ job'.use = TRUE /\ job'.qasm = "both"
      /\ job'.lengths = job.lengths
      /\ job'.vpm = job.vpm /\ job'.counts = w
      /\ job'.divided = DividedCounts(w, lengths)
      /\ job' = [status |-> "SUCCEEDED", use |-> TRUE, qasm |-> "both",
                 lengths |-> job.lengths, vpm |-> job.vpm, counts |-> w, divided |-> DividedCounts(w, lengths)]
  BY <1>1, <1>5 DEF Inv, JobShape
<1>7. JobShape'
  BY <1>6 DEF JobShape
<1>8. Gathered'
  BY <1>1, <1>3, <1>6 DEF Inv, Gathered, CountsOfJob, lengths
<1>9. Phases'
  BY <1>1 DEF Inv, Phases
<1>10. Settled'
  BY <1>1, <1>4, <1>6 DEF Settled, Acceptable, Valid, lib
<1>11. QED
  BY <1>1, <1>7, <1>8, <1>9, <1>10 DEF Inv

LEMMA UpdateInv ==
    ASSUME Inv, Update
    PROVE  Inv'
<1>1. /\ pc = "report" /\ pc' = "done" /\ UNCHANGED <<request, job, outcome, fault>>
      /\ Settled /\ report = NoReport
  BY DEF Update, Inv, Phases
<1>2. Reported'
  <2>1. CASE job.use
    <3>1. /\ report'.status = job.status
          /\ report'.combined = (job.qasm = "both")
          /\ job.status # "FAILED" =>
                report'.counts = job.counts /\ report'.divided = job.divided
      BY <2>1 DEF Update, ConvertToCloudJob
    <3>2. QED
      BY <1>1, <2>1, <3>1 DEF Reported
  <2>2. CASE ~job.use
    <3>1. report'.status = "none" /\ job.status # "SUCCEEDED"
      BY <1>1, <2>2 DEF Update, NoReport, Settled
    <3>2. QED
      BY <1>1, <2>2, <3>1 DEF Reported
  <2>3. QED
    BY <2>1, <2>2
<1>3. Settled'
  BY <1>1 DEF Settled, Acceptable, Valid, lib
<1>4. JobShape' /\ Gathered' /\ Phases'
  BY <1>1 DEF Inv, JobShape, Gathered, CountsOfJob, Phases
<1>5. QED
  BY <1>1, <1>2, <1>3, <1>4 DEF Inv

LEMMA NextInv ==
    ASSUME Inv, [Next]_vars
    PROVE  Inv'
<1>1. CASE UNCHANGED vars
  BY <1>1 DEF vars, Inv, JobShape, Gathered, CountsOfJob, Phases, Settled, Reported,
              Acceptable, Valid, lib
<1>2. QED
  BY <1>1, PanicInv, ValidateInv, CombineInv, TranspileInv, ProcessInv, PostProcessInv, UpdateInv
     DEF Next

LEMMA InvAlways == Spec => []Inv
<1>1. Init => Inv
  BY InitInv
<1>2. Inv /\ [Next]_vars => Inv'
  BY NextInv
<1>3. QED
  BY <1>1, <1>2, PTL DEF Spec

-----------------------------------------------------------------------------
(* The theorems.                                                           *)

LEMMA InvTypeOK ==
    ASSUME Inv
    PROVE  TypeOK
<1> DEFINE circuits == request.circuits
<1>1. WellFormed(circuits)
  BY RequestIs DEF Inv
<1>2. /\ Len(combine_circuits(circuits)) = Len(circuits)
      /\ Sum(combine_circuits(circuits)) = BitCount(circuits)
      /\ BitCount(circuits) \in Nat /\ QubitCount(circuits) \in Nat
      /\ BitCount(circuits) <= QubitCount(circuits)
  BY <1>1, CountsOfProgram
<1>3. ASSUME job.lengths # <<>>
      PROVE  Len(job.lengths) = Len(circuits) /\ Sum(job.lengths) <= MaxQubits
  <2>1. job.lengths = combine_circuits(circuits) /\ ~(QubitCount(circuits) > MaxQubits)
    BY <1>3 DEF Inv, Gathered, CombineFails, QubitCount
  <2>2. QED
    BY <1>2, <2>1, SizesAssumption
<1>4. ASSUME job.vpm # <<>>
      PROVE  job.vpm \in Layouts
  BY <1>4 DEF Inv, Gathered, Layout, Layouts, QubitCount
<1>5. ASSUME NEW s \in DOMAIN job.counts
      PROVE  /\ s \in [1 .. Sum(job.lengths) -> Bits]
             /\ job.counts[s] \in 1 .. MaxShots
  <2>1. job.counts # NoCounts
    BY <1>5 DEF NoCounts
  <2>2. QED
    BY <1>2, <2>1 DEF Inv, Gathered, CountsOfJob, CountsOfLength
<1>6. QED
  BY <1>3, <1>4, <1>5 DEF TypeOK, Inv, JobShape

\* For any programs, any device and any layout the transpiler answers with:
\* what the combiner accepts fits the device, a mapping is a layout of the
\* combined circuit, and every count of the job is a number of shots for a
\* string with one digit per classical bit of the program (the handlers of
\* multiprog/manual/job.go, and the rewriting of the counts by DivideResult).
THEOREM ManualJobTypeOK == Spec => []TypeOK
<1>1. Inv => TypeOK
  BY InvTypeOK
<1>2. QED
  BY <1>1, InvAlways, PTL

\* For any programs, any device and any layout: a job that names a transpiler,
\* passes the checks and meets no failure is reported SUCCEEDED.  The errors of extractVirtualPhysicalMapping,
\* swapVirtualPhysical and divideStringByLengths (result_divider.go) are out
\* of reach of the engine's own data.
THEOREM ServedAlways == Spec => []ServedWhenNothingFails
<1>1. Inv => ServedWhenNothingFails
  BY DEF Inv, ServedWhenNothingFails, Settled, Reported, NeedTranspiling
<1>2. QED
  BY <1>1, InvAlways, PTL

\* For any programs, any device and any layout: the order of the combiner's
\* list, the swap to virtual qubits and the division of the strings undo the
\* combination, the layout and the gateway's sorting.  A job reported
\* SUCCEEDED gives each circuit the counts it measured if no circuit but the
\* last leaves a qubit unmeasured (DivideResult of result_divider.go).
THEOREM ReportsMarginals == Spec => []ReportedIsMarginal
<1>1. ASSUME Inv
      PROVE  ReportedIsMarginal
  <2> SUFFICES ASSUME report.status = "SUCCEEDED", UnmeasuredComeLast
               PROVE  /\ report.combined
                      /\ report.counts = outcome
                      /\ report.divided = [c \in 0 .. Len(request.circuits) - 1 |-> Marginal(c)]
    BY DEF ReportedIsMarginal
  <2>1. pc = "done"
    BY <1>1 DEF Inv, Phases, NoReport
  <2>2. InOrder(request.circuits)
    BY DEF InOrder, UnmeasuredComeLast
  <2>3. Settled /\ Reported /\ job.status = "SUCCEEDED"
    BY <1>1, <2>1 DEF Inv, Reported, JobShape
  <2>4. /\ report.combined /\ report.counts = outcome
        /\ report.divided = [c \in 0 .. Len(request.circuits) - 1 |->
                                MarginalOf(request.circuits, outcome, c)]
    BY <2>2, <2>3 DEF Settled, Reported
  <2>5. \A c : MarginalOf(request.circuits, outcome, c) = Marginal(c)
    BY DEF MarginalOf, OwnBits, Marginal
  <2>6. QED
    BY <2>4, <2>5
<1>2. Inv => ReportedIsMarginal
  BY <1>1
<1>3. QED
  BY <1>2, InvAlways, PTL
=============================================================================
