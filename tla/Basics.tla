------------------------------- MODULE Basics -------------------------------
(***************************************************************************)
(* Facts about the natural numbers that the proofs share: induction and    *)
(* definition by recursion, stated with sets and functions instead of      *)
(* predicates and operators, so that a proof can cite them.                *)
(***************************************************************************)
EXTENDS Integers, WellFoundedInduction, TLAPS

Less == {ss \in Nat \X Nat : ss[1] < ss[2]}

LEMMA LessIsWellFounded == IsWellFoundedOn(Less, Nat)
BY NatLessThanWellFounded DEF OpToRel, Less

(* Induction: a set that holds 0 and every successor of its members holds   *)
(* every natural number.                                                    *)
LEMMA SetInduction ==
  ASSUME NEW S, 0 \in S, \A n \in Nat : n \in S => n + 1 \in S
  PROVE  \A n \in Nat : n \in S
<1>1. SUFFICES ASSUME NEW z \in Nat, z \notin S PROVE FALSE
  OBVIOUS
<1> DEFINE T == {n \in Nat : n \notin S}
<1>2. T # {} /\ T \subseteq Nat
  BY <1>1
<1>3. PICK x \in T : \A y \in T : <<y, x>> \notin Less
  <2> HIDE DEF T
  <2> QED BY <1>2, LessIsWellFounded, WFMin
<1>4. x # 0 /\ x \in Nat /\ x - 1 \in Nat /\ x - 1 < x /\ (x - 1) + 1 = x
  OBVIOUS
<1>5. <<x - 1, x>> \in Less
  BY <1>4 DEF Less
<1>6. x - 1 \in S
  BY <1>3, <1>4, <1>5
<1> QED BY <1>4, <1>6

(* Recursion: the values of a function on the natural numbers may be given  *)
(* one after the other.                                                     *)
Approximations(S, start, step, n) ==
  {g \in [0 .. n -> S] :
     /\ g[0] = start
     /\ \A i \in 0 .. n - 1 : g[i + 1] = step[<<i, g[i]>>]}

LEMMA ApproximationExists ==
  ASSUME NEW S, NEW start \in S, NEW step \in [Nat \X S -> S], NEW n \in Nat
  PROVE  \E g : g \in Approximations(S, start, step, n)
<1> DEFINE Good == {k \in Nat : \E g : g \in Approximations(S, start, step, k)}
<1>1. 0 \in Good
  <2> DEFINE g == [i \in 0 .. 0 |-> start]
  <2>1. g \in Approximations(S, start, step, 0)
    BY DEF Approximations
  <2> QED BY <2>1
<1>2. ASSUME NEW k \in Nat, k \in Good PROVE k + 1 \in Good
  <2>1. PICK g : g \in Approximations(S, start, step, k)
    BY <1>2
  <2>2. /\ g \in [0 .. k -> S]
        /\ g[0] = start
        /\ \A i \in 0 .. k - 1 : g[i + 1] = step[<<i, g[i]>>]
    BY <2>1 DEF Approximations
  <2> DEFINE h == [i \in 0 .. k + 1 |-> IF i = k + 1 THEN step[<<k, g[k]>>] ELSE g[i]]
  <2>3. g[k] \in S /\ <<k, g[k]>> \in Nat \X S
    BY <2>2
  <2>4. step[<<k, g[k]>>] \in S
    BY <2>3
  <2>5. h \in [0 .. k + 1 -> S]
    BY <2>2, <2>4
  <2>6. h[0] = start
    BY <2>2
  <2>7. ASSUME NEW i \in 0 .. (k + 1) - 1 PROVE h[i + 1] = step[<<i, h[i]>>]
    <3>1. CASE i = k
      <4>1. h[i + 1] = step[<<k, g[k]>>] /\ h[i] = g[i]
        BY <3>1
      <4> QED BY <3>1, <4>1
    <3>2. CASE i # k
      <4>1. i \in 0 .. k - 1 /\ i + 1 \in 0 .. k
        BY <3>2
      <4>2. h[i + 1] = g[i + 1] /\ h[i] = g[i]
        BY <4>1
      <4> QED BY <4>1, <4>2, <2>2
    <3> QED BY <3>1, <3>2
  <2>8. h \in Approximations(S, start, step, k + 1)
    <3> HIDE DEF h
    <3> QED BY <2>5, <2>6, <2>7 DEF Approximations
  <2> QED BY <2>8
<1>3. \A k \in Nat : k \in Good
  <2> HIDE DEF Good
  <2> QED BY <1>1, <1>2, SetInduction
<1> QED BY <1>3

LEMMA ApproximationsAgree ==
  ASSUME NEW S, NEW start \in S, NEW step \in [Nat \X S -> S],
         NEW m \in Nat, NEW n \in Nat, m <= n,
         NEW g \in Approximations(S, start, step, m),
         NEW h \in Approximations(S, start, step, n)
  PROVE  g[m] = h[m]
<1> DEFINE Same == {i \in Nat : i <= m => g[i] = h[i]}
<1>1. 0 \in Same
  BY DEF Approximations
<1>2. ASSUME NEW i \in Nat, i \in Same PROVE i + 1 \in Same
  <2>1. SUFFICES ASSUME i + 1 <= m PROVE g[i + 1] = h[i + 1]
    OBVIOUS
  <2>2. g[i] = h[i] /\ i \in 0 .. m - 1 /\ i \in 0 .. n - 1
    BY <1>2, <2>1
  <2> QED BY <2>2 DEF Approximations
<1>3. \A i \in Nat : i \in Same
  <2> HIDE DEF Same
  <2> QED BY <1>1, <1>2, SetInduction
<1> QED BY <1>3

Recursion(S, start, step) ==
  {f \in [Nat -> S] :
     /\ f[0] = start
     /\ \A n \in Nat : f[n + 1] = step[<<n, f[n]>>]}

LEMMA RecursionExists ==
  ASSUME NEW S, NEW start \in S, NEW step \in [Nat \X S -> S]
  PROVE  Recursion(S, start, step) # {}
<1> DEFINE App(n) == CHOOSE g : g \in Approximations(S, start, step, n)
           f      == [n \in Nat |-> App(n)[n]]
<1>1. ASSUME NEW n \in Nat PROVE App(n) \in Approximations(S, start, step, n)
  BY ApproximationExists
<1> HIDE DEF App
<1>2. f \in [Nat -> S]
  <2>1. ASSUME NEW n \in Nat PROVE App(n)[n] \in S
    BY <1>1 DEF Approximations
  <2> QED BY <2>1
<1>3. f[0] = start
  <2>1. App(0) \in Approximations(S, start, step, 0)
    BY <1>1
  <2> QED BY <2>1 DEF Approximations
<1>4. ASSUME NEW n \in Nat PROVE f[n + 1] = step[<<n, f[n]>>]
  <2>1. App(n) \in Approximations(S, start, step, n)
    BY <1>1
  <2>2. App(n + 1) \in Approximations(S, start, step, n + 1)
    BY <1>1
  <2>3. App(n)[n] = App(n + 1)[n]
    <3>1. n + 1 \in Nat /\ n <= n + 1
      OBVIOUS
    <3> HIDE DEF f
    <3> QED BY ONLY <2>1, <2>2, <3>1, ApproximationsAgree, n \in Nat, n + 1 \in Nat,
                    start \in S, step \in [Nat \X S -> S]
  <2>4. App(n + 1)[n + 1] = step[<<n, App(n + 1)[n]>>]
    <3>1. n \in 0 .. (n + 1) - 1
      OBVIOUS
    <3> QED BY <2>2, <3>1 DEF Approximations
  <2> QED BY <2>3, <2>4
<1>5. f \in Recursion(S, start, step)
  <2> HIDE DEF f
  <2> QED BY <1>2, <1>3, <1>4 DEF Recursion
<1> QED BY <1>5

-----------------------------------------------------------------------------
(* Quotient and remainder, and that nothing else has their properties.      *)
LEMMA DivMod ==
  ASSUME NEW a \in Int, NEW d \in Nat \ {0}
  PROVE  /\ a \div d \in Int /\ a % d \in 0 .. d - 1
         /\ a = d * (a \div d) + (a % d)
BY SMTT(30)

LEMMA QuotientUnique ==
  ASSUME NEW d \in Nat \ {0}, NEW q \in Int, NEW u \in Int,
         NEW r \in 0 .. d - 1, NEW v \in 0 .. d - 1,
         d * q + r = d * u + v
  PROVE  q = u /\ r = v
BY SMTT(30)

LEMMA DivModUnique ==
  ASSUME NEW x \in Int, NEW d \in Nat \ {0}, NEW q \in Int, NEW r \in Int,
         0 <= r, r < d, x = d * q + r
  PROVE  x \div d = q /\ x % d = r
BY DivMod, QuotientUnique, SMTT(30)

(* A two's complement register of h values on either side of zero holds     *)
(* what fits.                                                               *)
LEMMA WrapFits ==
  ASSUME NEW h \in Nat \ {0}, NEW n \in -h .. h - 1
  PROVE  ((n + h) % (2 * h)) - h = n
<1>1. n + h \in Int /\ 0 <= n + h /\ n + h < 2 * h /\ 2 * h \in Nat \ {0}
      /\ n + h = (2 * h) * 0 + (n + h)
  OBVIOUS
<1>2. (n + h) % (2 * h) = n + h
  BY <1>1, DivModUnique
<1> QED BY <1>2
=============================================================================
