------------------------------ MODULE Recursion ------------------------------
(* Induction on the natural numbers, and the functions defined by it, stated   *)
(* with sets and functions in place of predicates and operators.  The proofs   *)
(* about sums, lists and files rest on these.                                  *)
EXTENDS Integers, WellFoundedInduction, TLAPS

Smaller == {p \in Nat \X Nat : p[1] < p[2]}

\* No descent among the natural numbers is endless.
LEMMA SmallerIsWellFounded == IsWellFoundedOn(Smaller, Nat)
BY NatLessThanWellFounded DEF OpToRel, Smaller

\* A set of natural numbers has a least element.
LEMMA Least ==
  ASSUME NEW S \in SUBSET Nat, S # {}
  PROVE  \E m \in S : \A n \in S : m <= n
<1>1. PICK m \in S : \A n \in S : <<n, m>> \notin Smaller
  BY WFMin, SmallerIsWellFounded
<1>2. \A n \in S : ~(n < m)
  BY <1>1 DEF Smaller
<1>3. \A n \in S : m <= n
  BY <1>2
<1> QED
  BY <1>3

\* A set that holds 0 and, with a number, the next, holds all of them.
THEOREM Induction ==
  ASSUME NEW S, 0 \in S, \A n \in Nat : n \in S => n + 1 \in S
  PROVE  Nat \subseteq S
<1> SUFFICES ASSUME Nat \ S # {} PROVE FALSE
  OBVIOUS
<1>1. PICK m \in Nat \ S : \A n \in Nat \ S : m <= n
  BY Least
<1>2. m # 0 /\ m - 1 \in Nat
  BY <1>1
<1>3. m - 1 \in S
  BY <1>1, <1>2
<1> QED
  BY <1>1, <1>2, <1>3

\* The same up to a bound.
LEMMA InductionTo ==
  ASSUME NEW N \in Nat, NEW S, 0 \in S, \A n \in 0..N-1 : n \in S => n + 1 \in S
  PROVE  0..N \subseteq S
<1> DEFINE T == S \cup {n \in Nat : n > N}
<1>1. \A n \in Nat : n \in T => n + 1 \in T
  <2> SUFFICES ASSUME NEW n \in Nat, n \in T PROVE n + 1 \in T
    OBVIOUS
  <2>1. CASE n \in 0..N-1
    BY <2>1
  <2>2. CASE n \notin 0..N-1
    BY <2>2
  <2> QED
    BY <2>1, <2>2
<1>2. 0 \in T
  OBVIOUS
<1> HIDE DEF T
<1>3. Nat \subseteq T
  BY <1>1, <1>2, Induction
<1> QED
  BY <1>3 DEF T

\* From a value for 0 and a step from each to the next comes a function: `step`
\* holds <<n, t, u>> where u may follow on t at n.
THEOREM Recursion ==
  ASSUME NEW N \in Nat, NEW T, NEW a \in T, NEW step,
         \A n \in 1..N, t \in T : \E u \in T : <<n, t, u>> \in step
  PROVE  \E f : /\ f[0] = a
                /\ \A n \in 0..N : f[n] \in T
                /\ \A n \in 1..N : <<n, f[n-1], f[n]>> \in step
<1> DEFINE Good(n, f) == f[0] = a /\ \A m \in 1..n : <<m, f[m-1], f[m]>> \in step
           S == {n \in 0..N : \E f \in [0..n -> T] : Good(n, f)}
<1>1. 0 \in S
  <2> DEFINE f == [m \in 0..0 |-> a]
  <2>1. f \in [0..0 -> T] /\ Good(0, f)
    OBVIOUS
  <2> HIDE DEF f, Good
  <2>2. \E h \in [0..0 -> T] : Good(0, h)
    BY <2>1
  <2> QED
    BY <2>2
<1>2. ASSUME NEW n \in 0..N-1, n \in S PROVE n + 1 \in S
  <2>1. PICK f \in [0..n -> T] : Good(n, f)
    BY <1>2
  <2>2. n + 1 \in 1..N /\ f[n] \in T
    OBVIOUS
  <2>3. PICK u \in T : <<n + 1, f[n], u>> \in step
    BY <2>2
  <2> DEFINE g == [m \in 0..n+1 |-> IF m = n + 1 THEN u ELSE f[m]]
  <2>4. g \in [0..n+1 -> T]
    OBVIOUS
  <2>5. g[n+1] = u /\ \A m \in 0..n : g[m] = f[m]
    OBVIOUS
  <2> HIDE DEF g
  <2>6. \A m \in 1..n+1 : <<m, g[m-1], g[m]>> \in step
    <3> SUFFICES ASSUME NEW m \in 1..n+1 PROVE <<m, g[m-1], g[m]>> \in step
      OBVIOUS
    <3>1. m - 1 \in 0..n /\ g[m-1] = f[m-1]
      BY <2>5
    <3>2. CASE m = n + 1
      <4>1. m - 1 = n
        BY <3>2
      <4> QED
        BY <2>3, <2>5, <3>1, <3>2, <4>1
    <3>3. CASE m # n + 1
      <4>1. m \in 1..n
        BY <3>3
      <4>2. g[m] = f[m] /\ <<m, f[m-1], f[m]>> \in step
        BY <4>1, <2>1, <2>5
      <4> QED
        BY <3>1, <4>2
    <3> QED
      BY <3>2, <3>3
  <2>7. Good(n + 1, g)
    BY <2>1, <2>5, <2>6
  <2> HIDE DEF Good
  <2>8. \E h \in [0..n+1 -> T] : Good(n + 1, h)
    BY <2>4, <2>7
  <2> QED
    BY <2>2, <2>8
<1> HIDE DEF S
<1>3. 0..N \subseteq S
  BY <1>1, <1>2, InductionTo
<1>4. PICK f \in [0..N -> T] : Good(N, f)
  BY <1>3 DEF S
<1> QED
  BY <1>4

\* A function that starts with a value and goes on by `step`, as one notion.
Follows(f, N, T, a, step) ==
    /\ f[0] = a
    /\ \A n \in 0..N : f[n] \in T
    /\ \A n \in 1..N : <<n, f[n-1], f[n]>> \in step

\* There is one, as said above.
COROLLARY Course ==
  ASSUME NEW N \in Nat, NEW T, NEW a \in T, NEW step,
         \A n \in 1..N, t \in T : \E u \in T : <<n, t, u>> \in step
  PROVE  \E f : Follows(f, N, T, a, step)
<1>1. PICK f : /\ f[0] = a
               /\ \A n \in 0..N : f[n] \in T
               /\ \A n \in 1..N : <<n, f[n-1], f[n]>> \in step
  BY Recursion
<1> QED
  BY <1>1 DEF Follows
=============================================================================
