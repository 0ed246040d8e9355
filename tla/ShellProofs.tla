---------------------------- MODULE ShellProofs -----------------------------
(***************************************************************************)
(* Proofs about the shell.  For a line buffer of any length: the line is   *)
(* what its user sees, and only a comma in it keeps the interpreter from   *)
(* returning, however the line was typed and whatever earlier lines left   *)
(* behind it; cd goes where the line and the prompt say.  For every disk:  *)
(* tree prints what lies below, each entry once.  For every number of a    *)
(* word: what is printed is read back.                                     *)
(***************************************************************************)
EXTENDS Shell, TLAPS, FiniteSetTheorems, WellFoundedInduction

-----------------------------------------------------------------------------
(* The order of the naturals, and functions defined by recursion. *)

(* A set of naturals has a least element. *)
LEMMA Least ==
    ASSUME NEW S \in SUBSET Nat, S # {}
    PROVE  \E m \in S : \A k \in S : m <= k
<1>1. PICK m \in S : \A k \in S : ~ (<<k, m>> \in OpToRel(<, Nat))
  BY NatLessThanWellFounded, WFMin, Zenon
<1>2. \A k \in S : ~ (k < m)
  BY <1>1 DEF OpToRel
<1> QED
  BY <1>2

(* Induction up to a bound, with a set for the predicate. *)
LEMMA Upwards ==
    ASSUME NEW N \in Nat, NEW S, 0 \in S, \A n \in 0 .. N - 1 : n \in S => n + 1 \in S
    PROVE  \A n \in 0 .. N : n \in S
<1> DEFINE Out == {n \in 0 .. N : n \notin S}
<1>1. ASSUME Out # {} PROVE FALSE
  <2>1. PICK m \in Out : \A k \in Out : m <= k
    <3>1. Out \in SUBSET Nat
      OBVIOUS
    <3> QED
      BY <1>1, <3>1, Least
  <2>2. m \in 0 .. N /\ m # 0 /\ m \notin S
    OBVIOUS
  <2>3. m - 1 \in 0 .. N - 1 /\ m - 1 \notin Out /\ (m - 1) + 1 = m
    BY <2>1, <2>2
  <2> QED
    BY <2>2, <2>3
<1> QED
  BY <1>1

(* The same where every smaller number may be used. *)
LEMMA Strongly ==
    ASSUME NEW N \in Nat, NEW S,
           \A n \in 0 .. N : (\A k \in 0 .. n - 1 : k \in S) => n \in S
    PROVE  \A n \in 0 .. N : n \in S
<1> DEFINE Out == {n \in 0 .. N : n \notin S}
<1>1. ASSUME Out # {} PROVE FALSE
  <2>1. PICK m \in Out : \A k \in Out : m <= k
    <3>1. Out \in SUBSET Nat
      OBVIOUS
    <3> QED
      BY <1>1, <3>1, Least
  <2>2. m \in 0 .. N /\ m \notin S
    OBVIOUS
  <2>3. ASSUME NEW k \in 0 .. m - 1 PROVE k \in S
    BY <2>1, <2>2
  <2> QED
    BY <2>2, <2>3
<1> QED
  BY <1>1

(* H says what a function has for each argument, given the function; it looks
   only at arguments of a smaller measure m.  Then there is such a function. *)
LooksBack(D, R, m, H) ==
    \A x \in D : \A f \in [D -> R] : \A g \in [D -> R] :
        (\A y \in D : m[y] < m[x] => f[y] = g[y]) => H[x][f] = H[x][g]
Solves(D, R, H, f) == f \in [D -> R] /\ \A x \in D : f[x] = H[x][f]

LEMMA Course ==
    ASSUME NEW D, NEW R, R # {}, NEW M \in Nat, NEW m \in [D -> 0 .. M],
           NEW H \in [D -> [[D -> R] -> R]], LooksBack(D, R, m, H)
    PROVE  \E f : Solves(D, R, H, f)
<1> DEFINE S == {n \in 0 .. M + 1 :
                   \E f \in [D -> R] : \A x \in D : m[x] < n => f[x] = H[x][f]}
<1>1. 0 \in S
  <2>1. PICK r \in R : TRUE
    OBVIOUS
  <2>2. PICK f : f = [x \in D |-> r]
    OBVIOUS
  <2>3. f \in [D -> R] /\ \A x \in D : m[x] \in 0 .. M /\ ~ (m[x] < 0)
    BY <2>2
  <2> QED
    BY <2>3
<1>2. ASSUME NEW n \in 0 .. (M + 1) - 1, n \in S PROVE n + 1 \in S
  <2>1. PICK f \in [D -> R] : \A x \in D : m[x] < n => f[x] = H[x][f]
    BY <1>2
  <2>2. \A x \in D : H[x][f] \in R
    OBVIOUS
  <2>3. PICK g : g = [x \in D |-> IF m[x] < n THEN f[x] ELSE H[x][f]]
    OBVIOUS
  <2>4. g \in [D -> R]
    BY <2>2, <2>3
  <2>5. ASSUME NEW x \in D, m[x] < n + 1 PROVE g[x] = H[x][g]
    <3>1. g[x] = H[x][f]
      BY <2>1, <2>3
    <3>2. \A y \in D : m[y] < m[x] => f[y] = g[y]
      <4>1. SUFFICES ASSUME NEW y \in D, m[y] < m[x] PROVE f[y] = g[y]
        OBVIOUS
      <4>2. m[y] \in Nat /\ m[x] \in Nat
        OBVIOUS
      <4>3. m[y] < n
        BY <2>5, <4>1, <4>2
      <4> QED
        BY <2>3, <4>3
    <3>3. H[x][f] = H[x][g]
      BY <2>4, <3>2 DEF LooksBack
    <3> QED
      BY <3>1, <3>3
  <2>6. n + 1 \in 0 .. M + 1
    OBVIOUS
  <2> QED
    BY <2>4, <2>5, <2>6
<1>3. M + 1 \in S
  <2> HIDE DEF S
  <2>1. PICK N : N = M + 1 /\ N \in Nat
    OBVIOUS
  <2>2. \A n \in 0 .. N - 1 : n \in S => n + 1 \in S
    BY <1>2, <2>1
  <2>3. \A n \in 0 .. N : n \in S
    BY <1>1, <2>1, <2>2, Upwards
  <2> QED
    BY <2>1, <2>3
<1>4. PICK f \in [D -> R] : \A x \in D : m[x] < M + 1 => f[x] = H[x][f]
  BY <1>3
<1>5. \A x \in D : m[x] < M + 1
  OBVIOUS
<1> QED
  BY <1>4, <1>5 DEF Solves
-----------------------------------------------------------------------------
(* Division, by a number that is no literal. *)
LEMMA Division ==
    ASSUME NEW a \in Nat, NEW n \in Nat, n > 0
    PROVE  /\ a \div n \in Nat /\ a % n \in 0 .. n - 1
           /\ a = n * (a \div n) + (a % n)
<1>1. a % n \in 0 .. n - 1
  OBVIOUS
<1>2. a \div n \in Int
  OBVIOUS
<1>3. a = n * (a \div n) + (a % n)
  OBVIOUS
<1>4. a \div n >= 0
  BY <1>1, <1>2, <1>3
<1> QED
  BY <1>1, <1>2, <1>3, <1>4

LEMMA OneDigit ==
    ASSUME NEW n \in Nat, n > 0, NEW q \in Nat, NEW r \in 0 .. n - 1, n * q + r < 10 * n
    PROVE  q \in 0 .. 9
  OBVIOUS

LEMMA Tenths ==
    ASSUME NEW a \in Nat
    PROVE  a \div 10 \in Nat /\ 10 * (a \div 10) <= a /\ a < 10 * (a \div 10) + 10
  OBVIOUS

LEMMA WordFacts ==
    /\ WordSize \in Nat /\ WordSize > 1
    /\ \A n \in Nat : Wrap(n) \in Word
    /\ \A n \in Word : Wrap(n) = n
<1>1. WordSize \in Nat /\ WordSize > 1
  BY NumbersAssumption
<1>2. ASSUME NEW n \in Nat PROVE n % WordSize \in 0 .. WordSize - 1
  BY <1>1, Division
<1>3. ASSUME NEW n \in 0 .. WordSize - 1 PROVE n % WordSize = n
  BY <1>1
<1> QED
  BY <1>1, <1>2, <1>3 DEF Wrap, Word

(* The powers of ten. *)
IsTens(P) ==
    /\ P \in [0 .. WordSize -> Nat]
    /\ P[0] = 1
    /\ \A k \in 1 .. WordSize : P[k] = 10 * P[k - 1]

LEMMA TensExist == \E P : IsTens(P)
<1> DEFINE D == 0 .. WordSize
           m == [k \in D |-> k]
           H == [k \in D |-> [f \in [D -> Nat] |-> IF k = 0 THEN 1 ELSE 10 * f[k - 1]]]
<1>1. WordSize \in Nat
  BY WordFacts
<1>2. m \in [D -> 0 .. WordSize]
  BY <1>1
<1>3. H \in [D -> [[D -> Nat] -> Nat]]
  <2>1. ASSUME NEW k \in D, NEW f \in [D -> Nat] PROVE (IF k = 0 THEN 1 ELSE 10 * f[k - 1]) \in Nat
    <3>1. k # 0 => k - 1 \in D
      BY <1>1
    <3> QED
      BY <3>1
  <2> QED
    BY <2>1
<1>4. LooksBack(D, Nat, m, H)
  <2>1. SUFFICES ASSUME NEW x \in D, NEW f \in [D -> Nat], NEW g \in [D -> Nat],
                        \A y \in D : m[y] < m[x] => f[y] = g[y]
                 PROVE  H[x][f] = H[x][g]
    BY DEF LooksBack
  <2>2. x # 0 => x - 1 \in D /\ m[x - 1] < m[x]
    BY <1>1
  <2> QED
    BY <2>1, <2>2
<1>5. PICK f : Solves(D, Nat, H, f)
  <2>1. Nat # {}
    OBVIOUS
  <2> HIDE DEF D, m, H
  <2> QED
    BY <1>1, <1>2, <1>3, <1>4, <2>1, Course
<1>6. f \in [D -> Nat] /\ \A k \in D : f[k] = IF k = 0 THEN 1 ELSE 10 * f[k - 1]
  BY <1>5 DEF Solves
<1>7. IsTens(f)
  BY <1>1, <1>6 DEF IsTens
<1> QED
  BY <1>7

LEMMA TensGrow ==
    ASSUME NEW P, IsTens(P)
    PROVE  \A k \in 0 .. WordSize : P[k] \in Nat /\ P[k] > k
<1> DEFINE S == {k \in 0 .. WordSize : P[k] \in Nat /\ P[k] > k}
<1>1. WordSize \in Nat /\ 0 \in S
  BY WordFacts DEF IsTens
<1>2. ASSUME NEW k \in 0 .. WordSize - 1, k \in S PROVE k + 1 \in S
  <2>1. k + 1 \in 1 .. WordSize /\ (k + 1) - 1 = k
    BY <1>1
  <2>2. P[k + 1] = 10 * P[k] /\ P[k] \in Nat /\ P[k] > k
    BY <1>2, <2>1 DEF IsTens
  <2> QED
    BY <2>1, <2>2
<1>3. \A k \in 0 .. WordSize : k \in S
  <2> HIDE DEF S
  <2> QED
    BY <1>1, <1>2, Upwards
<1> QED
  BY <1>3

-----------------------------------------------------------------------------
(* The loops of _scr_putnum.  The first ends with the power of ten that is the
   weight of the leading digit. *)
WeightLoop(f) == f = [x \in Word |-> IF x >= 10 THEN Wrap(10 * f[x \div 10]) ELSE 1]

LEMMA WeightIsLoop ==
    \E f : WeightLoop(f) /\ \A a : Accumulator(a, 10) = f[a]
<1> DEFINE m == [x \in Word |-> x]
           H == [x \in Word |-> [f \in [Word -> Word] |->
                                   IF x >= 10 THEN Wrap(10 * f[x \div 10]) ELSE 1]]
<1>1. WordSize \in Nat /\ WordSize > 1 /\ 1 \in Word
  BY WordFacts DEF Word
<1>2. m \in [Word -> 0 .. WordSize]
  BY <1>1 DEF Word
<1>3. \A x \in Word : x >= 10 => x \div 10 \in Word /\ x \div 10 < x /\ x \in Nat
  BY <1>1 DEF Word
<1>4. H \in [Word -> [[Word -> Word] -> Word]]
  <2>1. ASSUME NEW x \in Word, NEW f \in [Word -> Word]
        PROVE  (IF x >= 10 THEN Wrap(10 * f[x \div 10]) ELSE 1) \in Word
    <3>1. CASE x >= 10
      <4>1. f[x \div 10] \in Word
        BY <1>3, <3>1
      <4>2. 10 * f[x \div 10] \in Nat
        BY <4>1 DEF Word
      <4> QED
        BY <3>1, <4>2, WordFacts
    <3> QED
      BY <1>1, <3>1
  <2> QED
    BY <2>1
<1>5. LooksBack(Word, Word, m, H)
  <2>1. SUFFICES ASSUME NEW x \in Word, NEW f \in [Word -> Word], NEW g \in [Word -> Word],
                        \A y \in Word : m[y] < m[x] => f[y] = g[y]
                 PROVE  H[x][f] = H[x][g]
    BY DEF LooksBack
  <2>2. x >= 10 => f[x \div 10] = g[x \div 10]
    BY <1>3, <2>1
  <2> QED
    BY <2>2
<1>6. PICK f : Solves(Word, Word, H, f)
  <2>1. Word # {}
    BY <1>1
  <2> HIDE DEF m, H
  <2> QED
    BY <1>1, <1>2, <1>4, <1>5, <2>1, Course
<1>7. f \in [Word -> Word] /\ \A x \in Word : f[x] = IF x >= 10 THEN Wrap(10 * f[x \div 10]) ELSE 1
  BY <1>6 DEF Solves
<1>8. WeightLoop(f)
  BY <1>7 DEF WeightLoop
<1>9. PICK g : g = CHOOSE h : WeightLoop(h)
  OBVIOUS
<1>10. WeightLoop(g)
  BY <1>8, <1>9
<1>11. \A a : Accumulator(a, 10) = g[a]
  BY <1>9 DEF Accumulator, WeightLoop
<1> QED
  BY <1>10, <1>11
(* Number x has k + 1 digits. *)
Leads(P, k, x) ==
    /\ k \in 0 .. WordSize - 1 /\ P[k] \in Word
    /\ x < P[k + 1] /\ (k = 0 \/ P[k] <= x)

(* One digit more. *)
LEMMA LeadsOn ==
    ASSUME NEW P, IsTens(P), NEW x \in Word, x >= 10, NEW k, Leads(P, k, x \div 10)
    PROVE  Leads(P, k + 1, x) /\ P[k + 1] = 10 * P[k]
<1>1. WordSize \in Nat /\ k \in 0 .. WordSize - 1 /\ x \in Nat /\ x < WordSize
  BY WordFacts DEF Leads, Word
<1>2. PICK y : y = x \div 10 /\ y \in Nat /\ 10 * y <= x /\ x < 10 * y + 10
  BY <1>1, Tenths
<1>3. P[k] \in Nat /\ P[k + 1] \in Nat /\ P[k + 1] = 10 * P[k] /\ P[k + 1] > k + 1
  <2>1. k + 1 \in 1 .. WordSize /\ (k + 1) - 1 = k /\ k \in 0 .. WordSize /\ k + 1 \in 0 .. WordSize
    BY <1>1
  <2>2. \A j \in 0 .. WordSize : P[j] \in Nat /\ P[j] > j
    BY TensGrow
  <2>3. P[k + 1] = 10 * P[k]
    BY <2>1 DEF IsTens
  <2> QED
    BY <2>1, <2>2, <2>3
<1>4. P[k + 1] <= x
  <2>1. CASE k = 0
    BY <1>3, <2>1, x >= 10 DEF IsTens
  <2>2. CASE P[k] <= y
    BY <1>1, <1>2, <1>3, <2>2
  <2> QED
    BY <1>2, <2>1, <2>2 DEF Leads
<1>5. k + 1 \in 0 .. WordSize - 1 /\ P[k + 1] \in Word
  BY <1>1, <1>3, <1>4 DEF Word
<1>6. P[(k + 1) + 1] = 10 * P[k + 1]
  <2>1. (k + 1) + 1 \in 1 .. WordSize /\ ((k + 1) + 1) - 1 = k + 1
    BY <1>1, <1>5
  <2> QED
    BY <2>1 DEF IsTens
<1>7. y < P[k + 1]
  BY <1>2 DEF Leads
<1>8. x < P[(k + 1) + 1]
  BY <1>1, <1>2, <1>3, <1>6, <1>7
<1> QED
  BY <1>3, <1>4, <1>5, <1>8 DEF Leads

LEMMA LeadsFirst ==
    ASSUME NEW P, IsTens(P), NEW x \in Word, x < 10
    PROVE  Leads(P, 0, x)
<1>1. WordSize \in Nat /\ WordSize > 1
  BY WordFacts
<1>2. P[0] = 1 /\ P[1] = 10
  <2>1. 1 \in 1 .. WordSize /\ 1 - 1 = 0
    BY <1>1
  <2> QED
    BY <2>1 DEF IsTens
<1> QED
  BY <1>1, <1>2 DEF Leads, Word

LEMMA WeightIs ==
    ASSUME NEW P, IsTens(P), NEW x \in Word
    PROVE  \E k : Leads(P, k, x) /\ Accumulator(x, 10) = P[k]
<1>1. PICK f : WeightLoop(f) /\ \A a : Accumulator(a, 10) = f[a]
  BY WeightIsLoop
<1> DEFINE S == {n \in Word : \E k : Leads(P, k, n) /\ f[n] = P[k]}
<1>2. PICK N : N = WordSize - 1 /\ N \in Nat /\ Word = 0 .. N
  BY WordFacts DEF Word
<1>3. ASSUME NEW n \in 0 .. N, \A j \in 0 .. n - 1 : j \in S PROVE n \in S
  <2>1. f[n] = IF n >= 10 THEN Wrap(10 * f[n \div 10]) ELSE 1
    BY <1>1, <1>2 DEF WeightLoop
  <2>2. CASE n >= 10
    <3>1. n \div 10 \in 0 .. n - 1
      BY <1>2, <2>2
    <3>2. PICK k : Leads(P, k, n \div 10) /\ f[n \div 10] = P[k]
      BY <1>3, <3>1
    <3>3. Leads(P, k + 1, n) /\ P[k + 1] = 10 * P[k]
      BY <1>2, <2>2, <3>2, LeadsOn
    <3>4. P[k + 1] \in Word
      BY <3>3 DEF Leads
    <3>5. f[n] = P[k + 1]
      BY <2>1, <2>2, <3>2, <3>3, <3>4, WordFacts
    <3> QED
      BY <1>2, <3>3, <3>5
  <2>3. CASE n < 10
    <3>1. Leads(P, 0, n)
      BY <1>2, <2>3, LeadsFirst
    <3>2. f[n] = P[0]
      BY <1>2, <2>1, <2>3 DEF IsTens
    <3> QED
      BY <1>2, <3>1, <3>2
  <2> QED
    BY <1>2, <2>2, <2>3
<1>4. \A n \in 0 .. N : n \in S
  <2> HIDE DEF S
  <2> QED
    BY <1>2, <1>3, Strongly
<1> QED
  BY <1>1, <1>2, <1>4

(* The second prints a number digit by digit: r[i] is what is left after i of them. *)
LeftAfter(P, k, n, s, r) ==
    /\ r \in [0 .. k + 1 -> Nat] /\ r[0] = n /\ r[k + 1] = 0
    /\ \A i \in 1 .. k + 1 : r[i - 1] = P[k + 1 - i] * s[i] + r[i]
Prints(P, k, n, s) ==
    /\ s \in Seq(0 .. 9) /\ Len(s) = k + 1
    /\ \E r : LeftAfter(P, k, n, s, r)

DigitLoop(d) ==
    d = [at \in Word \X Word |->
           IF at[1] = 0 THEN <<>>
           ELSE <<at[2] \div at[1]>> \o d[<<at[1] \div 10, at[2] % at[1]>>]]

LEMMA DigitsAreLoop ==
    \E d : DigitLoop(d) /\ \A a : _scr_putnum(a, 10) = d[<<Accumulator(a, 10), a>>]
<1> DEFINE D == Word \X Word
           m == [at \in D |-> at[1]]
           Body(at, d) == IF at[1] = 0 THEN <<>>
                          ELSE <<at[2] \div at[1]>> \o d[<<at[1] \div 10, at[2] % at[1]>>]
           H == [at \in D |-> [d \in [D -> Seq(Nat)] |-> Body(at, d)]]
<1>1. WordSize \in Nat /\ Word = 0 .. WordSize - 1
  BY WordFacts DEF Word
<1>2. ASSUME NEW at \in D, at[1] # 0
      PROVE  /\ <<at[1] \div 10, at[2] % at[1]>> \in D /\ at[1] \div 10 < at[1]
             /\ at[2] \div at[1] \in Nat /\ at[1] \in Nat
  <2>1. PICK x, y : x = at[1] /\ y = at[2] /\ x \in Word /\ y \in Word
    OBVIOUS
  <2>2. x \in Nat /\ y \in Nat /\ x > 0 /\ x < WordSize
    BY <1>1, <1>2, <2>1
  <2>3. y % x \in 0 .. x - 1 /\ y \div x \in Nat
    BY <2>2, Division
  <2>4. x \div 10 \in Word /\ x \div 10 < x
    BY <1>1, <2>2
  <2>5. y % x \in Word
    BY <1>1, <2>2, <2>3
  <2> QED
    BY <2>1, <2>2, <2>3, <2>4, <2>5
<1>3. m \in [D -> 0 .. WordSize]
  <2>1. ASSUME NEW at \in D PROVE at[1] \in 0 .. WordSize
    BY <1>1
  <2> QED
    BY <2>1
<1>4. H \in [D -> [[D -> Seq(Nat)] -> Seq(Nat)]]
  <2>1. ASSUME NEW at \in D, NEW d \in [D -> Seq(Nat)] PROVE Body(at, d) \in Seq(Nat)
    <3>1. CASE at[1] # 0
      <4>1. PICK q, s : /\ q = at[2] \div at[1] /\ q \in Nat
                        /\ s = d[<<at[1] \div 10, at[2] % at[1]>>] /\ s \in Seq(Nat)
        BY <1>2, <3>1
      <4>2. <<q>> \o s \in Seq(Nat)
        BY <4>1
      <4> QED
        BY <3>1, <4>1, <4>2
    <3> QED
      BY <3>1
  <2> HIDE DEF D, Body
  <2> QED
    BY <2>1
<1>5. LooksBack(D, Seq(Nat), m, H)
  <2>1. SUFFICES ASSUME NEW at \in D, NEW f \in [D -> Seq(Nat)], NEW g \in [D -> Seq(Nat)],
                        \A y \in D : m[y] < m[at] => f[y] = g[y]
                 PROVE  Body(at, f) = Body(at, g)
    <3> HIDE DEF D, Body, m
    <3> QED
      BY DEF LooksBack
  <2>2. CASE at[1] # 0
    <3>1. PICK to : to = <<at[1] \div 10, at[2] % at[1]>>
      OBVIOUS
    <3>2. to \in D /\ m[to] < m[at]
      BY <1>2, <2>2, <3>1
    <3>3. f[to] = g[to]
      BY <2>1, <3>2
    <3> QED
      BY <3>1, <3>3
  <2> QED
    BY <2>2
<1>6. PICK d : Solves(D, Seq(Nat), H, d)
  <2>1. Seq(Nat) # {}
    <3>1. <<>> \in Seq(Nat)
      OBVIOUS
    <3> QED
      BY <3>1
  <2> HIDE DEF D, m, H
  <2> QED
    BY <1>1, <1>3, <1>4, <1>5, <2>1, Course
<1>7. d \in [D -> Seq(Nat)] /\ \A at \in D : d[at] = Body(at, d)
  <2> HIDE DEF D, Body
  <2> QED
    BY <1>6 DEF Solves
<1>8. DigitLoop(d)
  BY <1>7 DEF DigitLoop
<1>9. PICK g : g = CHOOSE h : DigitLoop(h)
  OBVIOUS
<1>10. DigitLoop(g)
  BY <1>8, <1>9
<1>11. \A a : _scr_putnum(a, 10) = g[<<Accumulator(a, 10), a>>]
  BY <1>9 DEF _scr_putnum, DigitLoop
<1> QED
  BY <1>10, <1>11
LEMMA DigitsAre ==
    ASSUME NEW P, IsTens(P), NEW d, DigitLoop(d),
           NEW k, NEW n \in Word, Leads(P, k, n)
    PROVE  Prints(P, k, n, d[<<P[k], n>>])
<1> DEFINE S == {j \in 0 .. WordSize - 1 :
                   P[j] \in Word => \A x \in Word : x < P[j + 1] => Prints(P, j, x, d[<<P[j], x>>])}
<1>1. PICK N : N = WordSize - 1 /\ N \in Nat /\ Word = 0 .. N /\ WordSize \in Nat /\ WordSize > 1
  BY WordFacts DEF Word
<1>2. P[0] = 1 /\ P[1] = 10 /\ \A j \in 1 .. WordSize : P[j] = 10 * P[j - 1] /\ j - 1 \in 0 .. WordSize
  <2>1. 1 \in 1 .. WordSize /\ 1 - 1 = 0
    BY <1>1
  <2>2. \A j \in 1 .. WordSize : j - 1 \in 0 .. WordSize
    BY <1>1
  <2> QED
    BY <2>1, <2>2 DEF IsTens
<1>3. \A j \in 0 .. WordSize : P[j] \in Nat /\ P[j] > j
  BY TensGrow
<1>4. \A x \in Word, y \in Word : d[<<x, y>>] = IF x = 0 THEN <<>>
                                   ELSE <<y \div x>> \o d[<<x \div 10, y % x>>]
  <2>1. ASSUME NEW x \in Word, NEW y \in Word
        PROVE  d[<<x, y>>] = IF x = 0 THEN <<>>
                             ELSE <<y \div x>> \o d[<<x \div 10, y % x>>]
    <3>1. PICK at \in Word \X Word : at = <<x, y>>
      OBVIOUS
    <3>3. at[1] = x /\ at[2] = y
      BY <3>1
    <3>2. d[at] = IF at[1] = 0 THEN <<>>
                  ELSE <<at[2] \div at[1]>> \o d[<<at[1] \div 10, at[2] % at[1]>>]
      BY <3>1 DEF DigitLoop
    <3> QED
      BY <3>1, <3>2, <3>3
  <2> QED
    BY <2>1
<1>5. 0 \in S
  <2>1. SUFFICES ASSUME NEW x \in Word, x < P[0 + 1], 1 \in Word
                 PROVE  Prints(P, 0, x, d[<<P[0], x>>])
    BY <1>1, <1>2
  <2>2. x \div 1 = x /\ x % 1 = 0 /\ 1 \div 10 = 0 /\ x \in 0 .. 9
    BY <1>1, <1>2, <2>1
  <2>3. 0 \in Word
    BY <1>1
  <2>4. d[<<0, 0>>] = <<>> /\ d[<<1, x>>] = <<x>> \o d[<<0, 0>>]
    <3>1. d[<<0, 0>>] = <<>>
      BY <1>4, <2>3
    <3>2. d[<<1, x>>] = <<x \div 1>> \o d[<<1 \div 10, x % 1>>]
      BY <1>4, <2>1, 1 # 0, Zenon
    <3> QED
      BY <2>2, <3>1, <3>2
  <2>5. PICK s : s = d[<<P[0], x>>] /\ s = <<x>>
    <3>1. <<x>> \o <<>> = <<x>>
      BY <2>2
    <3> QED
      BY <1>2, <2>4, <3>1
  <2>6. s \in Seq(0 .. 9) /\ Len(s) = 0 + 1 /\ s[1] = x
    BY <2>2, <2>5
  <2>7. PICK r : r = [i \in 0 .. 0 + 1 |-> IF i = 0 THEN x ELSE 0]
    OBVIOUS
  <2>8. LeftAfter(P, 0, x, s, r)
    <3>1. r \in [0 .. 0 + 1 -> Nat] /\ r[0] = x /\ r[0 + 1] = 0 /\ x \in Nat
      BY <2>2, <2>7
    <3>2. \A i \in 1 .. 0 + 1 : i = 1 /\ 0 + 1 - i = 0
      OBVIOUS
    <3>3. r[1 - 1] = P[0] * s[1] + r[1]
      BY <1>2, <2>6, <3>1
    <3> QED
      BY <3>1, <3>2, <3>3 DEF LeftAfter
  <2> QED
    BY <2>5, <2>6, <2>8 DEF Prints
<1>6. ASSUME NEW j \in 0 .. N - 1, j \in S PROVE j + 1 \in S
  <2>1. /\ j + 1 \in 0 .. WordSize - 1 /\ j + 1 \in 1 .. WordSize /\ (j + 1) - 1 = j
        /\ (j + 1) + 1 \in 1 .. WordSize /\ ((j + 1) + 1) - 1 = j + 1
        /\ j + 1 \in 0 .. WordSize /\ j \in 0 .. WordSize
    BY <1>1
  <2>2. PICK p, q : p = P[j] /\ q = P[j + 1] /\ p \in Nat /\ p > 0 /\ q = 10 * p
                    /\ P[(j + 1) + 1] = 10 * q
    <3>1. P[j] \in Nat /\ P[j] > j /\ P[j + 1] = 10 * P[(j + 1) - 1]
          /\ P[(j + 1) + 1] = 10 * P[((j + 1) + 1) - 1]
      BY <1>2, <1>3, <2>1
    <3> QED
      BY <2>1, <3>1
  <2>3. SUFFICES ASSUME NEW x \in Word, x < 10 * q, q \in Word
                 PROVE  Prints(P, j + 1, x, d[<<q, x>>])
    BY <2>1, <2>2
  <2>4. PICK y, z : /\ y = x \div q /\ z = x % q /\ x = q * y + z
                    /\ y \in Nat /\ z \in 0 .. q - 1
    <3>1. x \in Nat /\ q \in Nat /\ q > 0
      BY <1>1, <2>2
    <3> QED
      BY <3>1, Division
  <2>5. y \in 0 .. 9
    <3>1. q \in Nat /\ q > 0
      BY <2>2
    <3>2. q * y + z < 10 * q
      BY <2>3, <2>4, Zenon
    <3>3. y \in Nat /\ z \in 0 .. q - 1
      BY <2>4, Zenon
    <3> QED
      BY <3>1, <3>2, <3>3, OneDigit
  <2>6. /\ q \div 10 = p /\ q # 0 /\ p \in Word /\ z \in Word
        /\ z < q /\ z \in Nat
    <3>1. z \in 0 .. q - 1
      BY <2>4, Zenon
    <3>2. q \in 0 .. N /\ p \in Nat /\ p > 0 /\ q = 10 * p
      BY <1>1, <2>2, <2>3
    <3>3. q \div 10 = p /\ q # 0 /\ p \in 0 .. N
      BY <1>1, <3>2
    <3>4. z \in 0 .. N /\ z < q
      BY <1>1, <3>1, <3>2
    <3> QED
      BY <1>1, <3>3, <3>4
  <2>7. PICK t : t = d[<<p, z>>] /\ Prints(P, j, z, t)
    BY <1>6, <2>2, <2>6
  <2>8. PICK r : LeftAfter(P, j, z, t, r)
    BY <2>7 DEF Prints
  <2>9. PICK s : s = d[<<q, x>>] /\ s = <<y>> \o t
    BY <1>4, <2>3, <2>4, <2>6, <2>7
  <2>10. /\ t \in Seq(0 .. 9) /\ Len(t) = j + 1
         /\ s \in Seq(0 .. 9) /\ Len(s) = (j + 1) + 1 /\ s[1] = y
         /\ \A i \in 2 .. (j + 1) + 1 : s[i] = t[i - 1]
    <3>1. t \in Seq(0 .. 9) /\ Len(t) = j + 1
      BY <2>7 DEF Prints
    <3>2. <<y>> \in Seq(0 .. 9) /\ Len(<<y>>) = 1 /\ <<y>>[1] = y
      BY <2>5
    <3>3. s \in Seq(0 .. 9) /\ Len(s) = (j + 1) + 1 /\ s[1] = y
      BY <1>1, <2>9, <3>1, <3>2
    <3>4. ASSUME NEW i \in 2 .. (j + 1) + 1 PROVE s[i] = t[i - 1]
      BY <1>1, <2>9, <3>1, <3>2
    <3> QED
      BY <3>1, <3>3, <3>4
  <2>11. PICK w : w = [i \in 0 .. (j + 1) + 1 |-> IF i = 0 THEN x ELSE r[i - 1]]
    OBVIOUS
  <2>12. /\ r \in [0 .. j + 1 -> Nat] /\ r[0] = z /\ r[j + 1] = 0
         /\ \A i \in 1 .. j + 1 : r[i - 1] = P[j + 1 - i] * t[i] + r[i]
    BY <2>8 DEF LeftAfter
  <2>13. w \in [0 .. (j + 1) + 1 -> Nat] /\ w[0] = x /\ w[(j + 1) + 1] = 0
    BY <1>1, <2>11, <2>12
  <2>14. ASSUME NEW i \in 1 .. (j + 1) + 1
         PROVE  w[i - 1] = P[(j + 1) + 1 - i] * s[i] + w[i]
    <3>1. CASE i = 1
      <4>1. w[0] = x /\ w[1] = z /\ (j + 1) + 1 - 1 = j + 1
        BY <1>1, <2>11, <2>12
      <4>2. w[i - 1] = x /\ w[i] = z /\ P[(j + 1) + 1 - i] = q /\ s[i] = y
        <5>1. i - 1 = 0 /\ (j + 1) + 1 - i = j + 1
          BY <1>1, <3>1
        <5> QED
          BY <2>2, <2>10, <3>1, <4>1, <5>1
      <4> QED
        BY <2>4, <4>2, Zenon
    <3>2. CASE i # 1
      <4>1. PICK h : h = i - 1 /\ h \in 1 .. j + 1 /\ j + 1 - h = (j + 1) + 1 - i /\ i \in 2 .. (j + 1) + 1
        BY <1>1, <3>2
      <4>2. r[h - 1] = P[j + 1 - h] * t[h] + r[h]
        BY <2>12, <4>1
      <4>3. w[i - 1] = r[h - 1] /\ w[i] = r[h] /\ s[i] = t[h]
        BY <1>1, <2>10, <2>11, <4>1
      <4> QED
        BY <4>1, <4>2, <4>3
    <3> QED
      BY <3>1, <3>2
  <2>15. LeftAfter(P, j + 1, x, s, w)
    BY <2>13, <2>14 DEF LeftAfter
  <2> QED
    BY <2>9, <2>10, <2>15 DEF Prints
<1>7. \A j \in 0 .. N : j \in S
  <2> HIDE DEF S
  <2> QED
    BY <1>1, <1>5, <1>6, Upwards
<1> QED
  BY <1>1, <1>7 DEF Leads

LEMMA NumberPrinted ==
    ASSUME NEW P, IsTens(P), NEW n \in Word
    PROVE  \E k : Leads(P, k, n) /\ Prints(P, k, n, _scr_putnum(n, 10))
<1>1. PICK d : DigitLoop(d) /\ \A a : _scr_putnum(a, 10) = d[<<Accumulator(a, 10), a>>]
  BY DigitsAreLoop
<1>2. PICK k : Leads(P, k, n) /\ Accumulator(n, 10) = P[k]
  BY WeightIs
<1>3. Prints(P, k, n, d[<<P[k], n>>])
  BY <1>1, <1>2, DigitsAre
<1> QED
  BY <1>1, <1>2, <1>3
-----------------------------------------------------------------------------
(* A number has one number of digits. *)
LEMMA TensOrder ==
    ASSUME NEW P, IsTens(P), NEW j \in 0 .. WordSize, NEW k \in j .. WordSize
    PROVE  P[j] <= P[k]
<1> DEFINE S == {i \in 0 .. WordSize : j <= i => P[j] <= P[i]}
<1>1. WordSize \in Nat /\ \A i \in 0 .. WordSize : P[i] \in Nat /\ P[i] > i
  BY WordFacts, TensGrow
<1>2. 0 \in S
  BY <1>1
<1>3. ASSUME NEW i \in 0 .. WordSize - 1, i \in S PROVE i + 1 \in S
  <2>1. i + 1 \in 1 .. WordSize /\ (i + 1) - 1 = i /\ i + 1 \in 0 .. WordSize
    BY <1>1
  <2>2. P[i + 1] = 10 * P[i] /\ P[i] \in Nat /\ P[i + 1] \in Nat /\ P[j] \in Nat
    BY <1>1, <2>1 DEF IsTens
  <2> QED
    BY <1>3, <2>1, <2>2
<1>4. \A i \in 0 .. WordSize : i \in S
  <2> HIDE DEF S
  <2> QED
    BY <1>1, <1>2, <1>3, Upwards
<1> QED
  BY <1>1, <1>4

LEMMA LeadsOrder ==
    ASSUME NEW P, IsTens(P), NEW x \in Word, NEW y \in Word, x <= y,
           NEW j, NEW k, Leads(P, j, x), Leads(P, k, y)
    PROVE  /\ j \in 0 .. WordSize - 1 /\ k \in 0 .. WordSize - 1
           /\ j <= k /\ P[j] \in Nat /\ P[k] \in Nat /\ P[j] <= P[k]
<1>1. /\ WordSize \in Nat /\ x \in Nat /\ y \in Nat
      /\ \A i \in 0 .. WordSize : P[i] \in Nat
  BY WordFacts, TensGrow DEF Word
<1>2. /\ j \in 0 .. WordSize - 1 /\ k \in 0 .. WordSize - 1
      /\ j \in 0 .. WordSize /\ k + 1 \in 0 .. WordSize /\ k \in 0 .. WordSize
  BY <1>1 DEF Leads
<1>3. j <= k
  <2>1. ASSUME k < j PROVE FALSE
    <3>1. j \in k + 1 .. WordSize
      BY <1>1, <1>2, <2>1
    <3>2. P[k + 1] <= P[j]
      BY <1>2, <3>1, TensOrder
    <3>3. y < P[k + 1] /\ P[j] <= x
      BY <1>2, <2>1 DEF Leads
    <3> QED
      BY <1>1, <1>2, <3>2, <3>3
  <2> QED
    BY <1>1, <1>2, <2>1
<1>4. P[j] <= P[k]
  <2>1. k \in j .. WordSize
    BY <1>1, <1>2, <1>3
  <2> QED
    BY <1>2, <2>1, TensOrder
<1> QED
  BY <1>1, <1>2, <1>3, <1>4

LEMMA LeadsOnce ==
    ASSUME NEW P, IsTens(P), NEW x \in Word, NEW j, NEW k, Leads(P, j, x), Leads(P, k, x)
    PROVE  j = k
<1>1. WordSize \in Nat /\ x <= x
  BY WordFacts DEF Word
<1>2. j \in 0 .. WordSize - 1 /\ k \in 0 .. WordSize - 1 /\ j <= k
  BY <1>1, LeadsOrder
<1>3. k <= j
  BY <1>1, LeadsOrder
<1> QED
  BY <1>1, <1>2, <1>3

(* The first weight is positive as an int. *)
LEMMA WeightFits ==
    ASSUME NEW P, IsTens(P), NEW x \in Word, NEW k, Leads(P, k, x)
    PROVE  P[k] \in Word /\ P[k] < WordSize \div 2
<1>1. /\ WordSize \in Nat /\ WordSize > 1 /\ WordSize - 1 \in Word
      /\ x \in Nat /\ x <= WordSize - 1
  BY WordFacts DEF Word
<1>2. PICK l : Leads(P, l, WordSize - 1) /\ Accumulator(WordSize - 1, 10) = P[l]
  BY <1>1, WeightIs
<1>3. P[k] \in Nat /\ P[l] \in Nat /\ P[k] <= P[l]
  BY <1>1, <1>2, LeadsOrder
<1>4. P[l] < WordSize \div 2 /\ WordSize \div 2 \in Nat
  BY <1>1, <1>2, WidthAssumption
<1>5. P[k] \in Word
  BY DEF Leads
<1> QED
  BY <1>3, <1>4, <1>5

-----------------------------------------------------------------------------
(* The digits ls counts. *)
Half == WordSize \div 2
Magnitude(a) == IF Signed(a) < 0 THEN -Signed(a) ELSE a
CountLoop(c) == c = [j \in 0 .. Half |-> IF j = 0 THEN 0 ELSE 1 + c[j \div 10]]

LEMMA Halves ==
    /\ Half \in Nat /\ Half > 0 /\ 2 * Half = WordSize /\ 0 .. Half \subseteq Word
    /\ \A a \in Word : /\ Magnitude(a) \in 0 .. Half /\ Signed(a) \in Int
                       /\ Signed(a) < 0 <=> a >= Half
                       /\ Signed(a) < 0 => Wrap(-Signed(a)) = Magnitude(a) /\ Magnitude(a) # 0
                       /\ Signed(a) >= 0 => Magnitude(a) = a
<1>1. WordSize \in Nat /\ WordSize > 1 /\ Half \in Nat /\ Half > 0 /\ 2 * Half = WordSize
  BY NumbersAssumption DEF Half
<1>2. \A a \in Word : Signed(a) = IF a < Half THEN a ELSE a - WordSize
  BY DEF Signed, Half
<1>3. 0 .. Half \subseteq Word
  BY <1>1 DEF Word
<1>4. \A n \in Word : Wrap(n) = n
  BY WordFacts
<1>5. ASSUME NEW a \in Word
      PROVE  /\ Magnitude(a) \in 0 .. Half /\ Signed(a) \in Int
             /\ Signed(a) < 0 <=> a >= Half
             /\ Signed(a) < 0 => -Signed(a) = Magnitude(a) /\ Magnitude(a) # 0
             /\ Signed(a) >= 0 => Magnitude(a) = a
  <2>1. a \in Nat /\ a < WordSize
    BY <1>1 DEF Word
  <2>2. CASE a < Half
    BY <1>1, <1>2, <2>1, <2>2 DEF Magnitude
  <2>3. CASE a >= Half
    BY <1>1, <1>2, <2>1, <2>3 DEF Magnitude
  <2> QED
    BY <1>1, <2>1, <2>2, <2>3
<1> QED
  BY <1>1, <1>3, <1>4, <1>5

LEMMA CountIsLoop ==
    \E c : CountLoop(c) /\ \A a : ls_digits(a) = IF a = 0 THEN 1 ELSE c[Magnitude(a)]
<1> DEFINE D == 0 .. Half
           m == [j \in D |-> j]
           H == [j \in D |-> [c \in [D -> Nat] |-> IF j = 0 THEN 0 ELSE 1 + c[j \div 10]]]
<1>1. Half \in Nat
  BY Halves
<1>2. m \in [D -> 0 .. Half]
  OBVIOUS
<1>3. \A j \in D : j # 0 => j \div 10 \in D /\ m[j \div 10] < m[j]
  BY <1>1
<1>4. H \in [D -> [[D -> Nat] -> Nat]]
  <2>1. ASSUME NEW j \in D, NEW c \in [D -> Nat]
        PROVE  (IF j = 0 THEN 0 ELSE 1 + c[j \div 10]) \in Nat
    <3>1. j # 0 => c[j \div 10] \in Nat
      BY <1>3
    <3> QED
      BY <3>1
  <2> QED
    BY <2>1
<1>5. LooksBack(D, Nat, m, H)
  <2>1. SUFFICES ASSUME NEW x \in D, NEW f \in [D -> Nat], NEW g \in [D -> Nat],
                        \A y \in D : m[y] < m[x] => f[y] = g[y]
                 PROVE  H[x][f] = H[x][g]
    BY DEF LooksBack
  <2> QED
    BY <1>3, <2>1
<1>6. PICK c : Solves(D, Nat, H, c)
  <2>1. Nat # {}
    OBVIOUS
  <2> HIDE DEF D, m, H
  <2> QED
    BY <1>1, <1>2, <1>4, <1>5, <2>1, Course
<1>7. c \in [D -> Nat] /\ \A j \in D : c[j] = IF j = 0 THEN 0 ELSE 1 + c[j \div 10]
  BY <1>6 DEF Solves
<1>8. CountLoop(c)
  BY <1>7 DEF CountLoop
<1>9. PICK g : g = CHOOSE h : CountLoop(h)
  OBVIOUS
<1>10. CountLoop(g)
  BY <1>8, <1>9
<1>11. \A a : ls_digits(a) = IF a = 0 THEN 1 ELSE g[Magnitude(a)]
  BY <1>9 DEF ls_digits, CountLoop, Magnitude, Half
<1> QED
  BY <1>10, <1>11

LEMMA CountIs ==
    ASSUME NEW P, IsTens(P), NEW c, CountLoop(c), NEW x \in 1 .. Half
    PROVE  \E k : Leads(P, k, x) /\ c[x] = k + 1
<1> DEFINE S == {n \in 0 .. Half : n # 0 => \E k : Leads(P, k, n) /\ c[n] = k + 1}
<1>1. Half \in Nat /\ \A j \in 0 .. Half : j \in Word /\ c[j] = IF j = 0 THEN 0 ELSE 1 + c[j \div 10]
  BY Halves DEF CountLoop
<1>2. ASSUME NEW n \in 0 .. Half, \A j \in 0 .. n - 1 : j \in S PROVE n \in S
  <2>1. CASE n = 0
    BY <1>1, <2>1
  <2>2. CASE n \in 1 .. 9
    <3>1. n \div 10 = 0 /\ n # 0 /\ 0 \in 0 .. Half
      BY <1>1, <2>2
    <3>2. c[n] = 1 + c[0] /\ c[0] = 0
      BY <1>1, <3>1
    <3>3. Leads(P, 0, n)
      BY <1>1, <2>2, LeadsFirst
    <3> QED
      BY <3>2, <3>3
  <2>3. CASE n >= 10
    <3>1. n \div 10 \in 0 .. n - 1 /\ n \div 10 # 0 /\ n # 0
      BY <1>1, <2>3
    <3>2. PICK k : Leads(P, k, n \div 10) /\ c[n \div 10] = k + 1
      BY <1>2, <3>1
    <3>3. Leads(P, k + 1, n)
      BY <1>1, <2>3, <3>2, LeadsOn
    <3>4. k \in Int /\ c[n] = 1 + c[n \div 10]
      BY <1>1, <3>1, <3>2, WordFacts DEF Leads
    <3>5. c[n] = (k + 1) + 1
      BY <3>2, <3>4
    <3> QED
      BY <3>3, <3>5
  <2> QED
    BY <1>1, <2>1, <2>2, <2>3
<1>3. \A n \in 0 .. Half : n \in S
  <2> HIDE DEF S
  <2> QED
    BY <1>1, <1>2, Strongly
<1> QED
  BY <1>1, <1>3

LEMMA DigitsCounted ==
    ASSUME NEW P, IsTens(P), NEW a \in Word
    PROVE  \E k : Leads(P, k, Magnitude(a)) /\ ls_digits(a) = k + 1 /\ k \in 0 .. 13
<1>1. PICK c : CountLoop(c) /\ \A b : ls_digits(b) = IF b = 0 THEN 1 ELSE c[Magnitude(b)]
  BY CountIsLoop
<1>2. /\ Magnitude(a) \in 0 .. Half /\ Magnitude(a) \in Word /\ Half \in Nat /\ Half # 0
      /\ Half \in Word /\ WordSize \in Nat
  BY Halves, WordFacts
<1>3. a = 0 <=> Magnitude(a) = 0
  BY Halves DEF Word
<1>4. PICK k : Leads(P, k, Magnitude(a)) /\ ls_digits(a) = k + 1
  <2>1. CASE a = 0
    <3>1. ls_digits(a) = 0 + 1 /\ Magnitude(a) < 10
      BY <1>1, <1>3, <2>1
    <3> QED
      BY <1>2, <3>1, LeadsFirst
  <2>2. CASE a # 0
    <3>1. Magnitude(a) \in 1 .. Half
      BY <1>2, <1>3, <2>2
    <3> QED
      BY <1>1, <2>2, <3>1, CountIs
  <2> QED
    BY <2>1, <2>2
<1>5. k < 14
  <2>1. Magnitude(Half) = Half
    BY <1>2, Halves, WordFacts DEF Magnitude, Signed, Half, Word
  <2>2. Half \in 1 .. Half
    BY <1>2
  <2>3. PICK l : Leads(P, l, Half) /\ c[Half] = l + 1
    BY <1>1, <2>2, CountIs
  <2>4. ls_digits(Half) = l + 1
    BY <1>1, <1>2, <2>1, <2>3
  <2>5. k \in 0 .. WordSize - 1 /\ l \in 0 .. WordSize - 1 /\ k <= l
    <3>1. Magnitude(a) <= Half
      BY <1>2
    <3> QED
      BY <1>2, <1>4, <2>3, <3>1, LeadsOrder
  <2>6. l + 1 <= 14
    BY <2>4, WidthAssumption DEF Half
  <2> QED
    BY <1>2, <2>5, <2>6
<1> QED
  BY <1>2, <1>4, <1>5 DEF Leads
-----------------------------------------------------------------------------
(* The loops of atob: the power of the first digit, the weights, the sum. *)
StartLoop(l, f) == f = [k \in 0 .. l |-> IF k = 0 THEN 1 ELSE Wrap(f[k - 1] * 10)]
ATenth(m) == IF m < 0 THEN -((-m) \div 10) ELSE m \div 10
MulLoop(l, first, f) == f = [k \in 1 .. l |-> IF k = 1 THEN first ELSE ATenth(f[k - 1])]
SumLoop(s, mul, f) ==
    f = [k \in 0 .. Len(s) |-> IF k = 0 THEN 0 ELSE Wrap(f[k - 1] + mul[k] * s[k])]

StartOf(l) == CHOOSE f : StartLoop(l, f)
MulOf(l, first) == CHOOSE f : MulLoop(l, first, f)
SumOf(s, mul) == CHOOSE f : SumLoop(s, mul, f)

LEMMA AtobLoops ==
    ASSUME NEW s, NEW l, l = Len(s)
    PROVE  atob(s, 10) = SumOf(s, MulOf(l, Signed(StartOf(l)[l - 1])))[l]
  BY DEF atob, StartOf, MulOf, SumOf, StartLoop, MulLoop, SumLoop, ATenth

LEMMA StartIs ==
    ASSUME NEW P, IsTens(P), NEW l \in 1 .. WordSize, P[l - 1] \in Word
    PROVE  StartOf(l)[l - 1] = P[l - 1]
<1>0. PICK start : start = StartOf(l)
  OBVIOUS
<1>1. /\ WordSize \in Nat /\ P[0] = 1
      /\ \A k \in 1 .. WordSize : P[k] = 10 * P[k - 1]
      /\ \A k \in 0 .. WordSize : P[k] \in Nat
  BY WordFacts, TensGrow DEF IsTens
<1>2. \A k \in 0 .. l - 1 : P[k] \in Word
  <2>1. ASSUME NEW k \in 0 .. l - 1 PROVE P[k] \in Word
    <3>1. k \in 0 .. WordSize /\ l - 1 \in k .. WordSize /\ l - 1 \in 0 .. WordSize
      BY <1>1
    <3>2. P[k] <= P[l - 1] /\ P[k] \in Nat
      BY <1>1, <3>1, TensOrder
    <3> QED
      BY <1>1, <3>1, <3>2 DEF Word
  <2> QED
    BY <2>1
<1>3. PICK w : w = [k \in 0 .. l |-> Wrap(P[k])]
  OBVIOUS
<1>4. \A n \in Word : Wrap(n) = n
  BY WordFacts
<1>5. StartLoop(l, w)
  <2>1. ASSUME NEW k \in 0 .. l
        PROVE  w[k] = IF k = 0 THEN 1 ELSE Wrap(w[k - 1] * 10)
    <3>1. CASE k = 0
      BY <1>1, <1>2, <1>3, <1>4, <3>1
    <3>2. CASE k # 0
      <4>1. k \in 1 .. WordSize /\ k - 1 \in 0 .. l - 1 /\ k - 1 \in 0 .. l /\ k - 1 \in 0 .. WordSize
        BY <1>1, <3>2
      <4>2. w[k - 1] = P[k - 1] /\ P[k] = 10 * P[k - 1] /\ P[k - 1] \in Nat
        BY <1>1, <1>2, <1>3, <1>4, <4>1
      <4>3. w[k] = Wrap(P[k]) /\ w[k - 1] * 10 = P[k]
        BY <1>3, <4>2
      <4> QED
        BY <3>2, <4>3
    <3> QED
      BY <3>1, <3>2
  <2> QED
    BY <1>3, <2>1 DEF StartLoop
<1>6. StartLoop(l, start)
  BY <1>0, <1>5 DEF StartOf
<1> DEFINE S == {k \in 0 .. l - 1 : start[k] = P[k]}
<1>7. 0 \in S
  BY <1>1, <1>6 DEF StartLoop
<1>8. ASSUME NEW k \in 0 .. (l - 1) - 1, k \in S PROVE k + 1 \in S
  <2>1. k + 1 \in 0 .. l - 1 /\ k + 1 \in 1 .. WordSize /\ (k + 1) - 1 = k /\ k + 1 # 0 /\ k + 1 \in 0 .. l
        /\ k \in 0 .. WordSize
    BY <1>1
  <2>2. start[k + 1] = Wrap(start[(k + 1) - 1] * 10)
    BY <1>6, <2>1 DEF StartLoop
  <2>3. P[k + 1] = 10 * P[k] /\ P[k] \in Nat /\ P[k + 1] \in Word
    BY <1>1, <1>2, <2>1
  <2>4. start[k] * 10 = P[k + 1]
    BY <1>8, <2>3
  <2> QED
    BY <1>4, <2>1, <2>2, <2>3, <2>4
<1>9. PICK n : n = l - 1 /\ n \in Nat
  BY <1>1
<1>10. \A k \in 0 .. n : k \in S
  <2> HIDE DEF S
  <2> QED
    BY <1>7, <1>8, <1>9, Upwards
<1> QED
  BY <1>0, <1>9, <1>10

LEMMA MulIs ==
    ASSUME NEW P, IsTens(P), NEW l \in 1 .. WordSize
    PROVE  \A k \in 1 .. l : MulOf(l, P[l - 1])[k] = P[l - k]
<1>0. PICK mul : mul = MulOf(l, P[l - 1])
  OBVIOUS
<1>1. /\ WordSize \in Nat
      /\ \A k \in 1 .. WordSize : P[k] = 10 * P[k - 1]
      /\ \A k \in 0 .. WordSize : P[k] \in Nat
  BY WordFacts, TensGrow DEF IsTens
<1>2. ASSUME NEW k \in 2 .. l PROVE ATenth(P[l - (k - 1)]) = P[l - k]
  <2>1. l - (k - 1) \in 1 .. WordSize /\ (l - (k - 1)) - 1 = l - k /\ l - k \in 0 .. WordSize
    BY <1>1
  <2>2. PICK p : p = P[l - k] /\ p \in Nat /\ P[l - (k - 1)] = 10 * p
    BY <1>1, <2>1
  <2>3. ~ (10 * p < 0) /\ (10 * p) \div 10 = p
    BY <2>2
  <2> QED
    BY <2>2, <2>3 DEF ATenth
<1>3. PICK w : w = [k \in 1 .. l |-> P[l - k]]
  OBVIOUS
<1>4. MulLoop(l, P[l - 1], w)
  <2>1. ASSUME NEW k \in 1 .. l
        PROVE  w[k] = IF k = 1 THEN P[l - 1] ELSE ATenth(w[k - 1])
    <3>1. CASE k = 1
      BY <1>3, <3>1
    <3>2. CASE k # 1
      <4>1. k \in 2 .. l /\ k - 1 \in 1 .. l
        BY <3>2
      <4> QED
        BY <1>2, <1>3, <3>2, <4>1
    <3> QED
      BY <3>1, <3>2
  <2> QED
    BY <1>3, <2>1 DEF MulLoop
<1>5. MulLoop(l, P[l - 1], mul)
  BY <1>0, <1>4 DEF MulOf
<1> DEFINE S == {k \in 0 .. l : k # 0 => mul[k] = P[l - k]}
<1>6. 0 \in S
  BY <1>1
<1>7. ASSUME NEW k \in 0 .. l - 1, k \in S PROVE k + 1 \in S
  <2>1. k + 1 \in 1 .. l /\ k + 1 \in 0 .. l /\ (k + 1) - 1 = k
    BY <1>1
  <2>2. CASE k = 0
    <3>1. mul[1] = P[l - 1] /\ k + 1 = 1
      BY <1>5, <2>1, <2>2 DEF MulLoop
    <3> QED
      BY <2>1, <3>1
  <2>3. CASE k # 0
    <3>1. k + 1 \in 2 .. l /\ k + 1 # 1
      BY <1>1, <2>3
    <3>2. mul[k + 1] = ATenth(mul[(k + 1) - 1])
      BY <1>5, <2>1, <3>1 DEF MulLoop
    <3>3. mul[k] = P[l - k] /\ ATenth(P[l - ((k + 1) - 1)]) = P[l - (k + 1)]
      BY <1>2, <1>7, <2>3, <3>1
    <3> QED
      BY <2>1, <3>2, <3>3
  <2> QED
    BY <2>2, <2>3
<1>8. \A k \in 0 .. l : k \in S
  <2> HIDE DEF S
  <2>1. l \in Nat
    OBVIOUS
  <2> QED
    BY <1>6, <1>7, <2>1, Upwards
<1> QED
  BY <1>0, <1>8

(* What is left of a number never grows. *)
LEMMA LeftLess ==
    ASSUME NEW P, IsTens(P), NEW k \in 0 .. WordSize - 1, NEW n \in Word, NEW s \in Seq(0 .. 9),
           Len(s) = k + 1, NEW r, LeftAfter(P, k, n, s, r)
    PROVE  \A i \in 0 .. k + 1 : r[i] \in 0 .. n
<1>1. WordSize \in Nat /\ n \in Nat /\ \A i \in 0 .. WordSize : P[i] \in Nat
  BY WordFacts, TensGrow DEF Word
<1> DEFINE S == {i \in 0 .. k + 1 : r[i] \in 0 .. n}
<1>2. 0 \in S
  BY <1>1 DEF LeftAfter
<1>3. ASSUME NEW i \in 0 .. (k + 1) - 1, i \in S PROVE i + 1 \in S
  <2>1. /\ i + 1 \in 1 .. k + 1 /\ i + 1 \in 0 .. k + 1 /\ (i + 1) - 1 = i
        /\ k + 1 - (i + 1) \in 0 .. WordSize
    BY <1>1
  <2>2. r[i] = P[k + 1 - (i + 1)] * s[i + 1] + r[i + 1] /\ r[i + 1] \in Nat
    BY <2>1 DEF LeftAfter
  <2>3. PICK p \in Nat, d \in Nat : p = P[k + 1 - (i + 1)] /\ d = s[i + 1]
    <3>1. s[i + 1] \in 0 .. 9
      BY <2>1
    <3> QED
      BY <1>1, <2>1, <3>1
  <2>4. p * d \in Nat
    BY <2>3
  <2>5. PICK v \in Nat : v = p * d
    BY <2>4
  <2>6. r[i] = v + r[i + 1]
    BY <2>2, <2>3, <2>5, Zenon
  <2> QED
    BY <1>1, <1>3, <2>1, <2>2, <2>5, <2>6
<1>4. PICK l : l = k + 1 /\ l \in Nat
  BY <1>1
<1>5. \A i \in 0 .. l : i \in S
  <2> HIDE DEF S
  <2> QED
    BY <1>2, <1>3, <1>4, Upwards
<1> QED
  BY <1>4, <1>5

LEMMA SumIs ==
    ASSUME NEW P, IsTens(P), NEW k \in 0 .. WordSize - 1, NEW n \in Word, NEW s,
           Prints(P, k, n, s), NEW mul, \A i \in 1 .. k + 1 : mul[i] = P[k + 1 - i]
    PROVE  SumOf(s, mul)[k + 1] = n
<1>1. /\ WordSize \in Nat /\ n \in Nat /\ n < WordSize /\ k \in Nat
      /\ s \in Seq(0 .. 9) /\ Len(s) = k + 1
  BY WordFacts DEF Word, Prints
<1>2. PICK r : LeftAfter(P, k, n, s, r)
  BY DEF Prints
<1>3. \A i \in 0 .. k + 1 : r[i] \in 0 .. n
  BY <1>1, <1>2, LeftLess
<1>4. \A i \in 0 .. k + 1 : Wrap(n - r[i]) = n - r[i]
  <2>1. \A i \in 0 .. k + 1 : n - r[i] \in Word
    BY <1>1, <1>3 DEF Word
  <2> QED
    BY <2>1, WordFacts
(* One digit adds what it takes from the rest. *)
<1>5. ASSUME NEW i \in 1 .. k + 1 PROVE (n - r[i - 1]) + mul[i] * s[i] = n - r[i]
  <2>1. r[i - 1] = P[k + 1 - i] * s[i] + r[i] /\ mul[i] = P[k + 1 - i]
    BY <1>2 DEF LeftAfter
  <2>2. i - 1 \in 0 .. k + 1 /\ i \in 0 .. k + 1 /\ k + 1 - i \in 0 .. WordSize
    BY <1>1
  <2>3. r[i - 1] \in Nat /\ r[i] \in Nat
    BY <1>1, <1>3, <2>2
  <2>4. mul[i] * s[i] \in Int
    <3>1. P[k + 1 - i] \in Nat
      BY <2>2, TensGrow
    <3>2. s[i] \in 0 .. 9
      BY <1>1
    <3> QED
      BY <2>1, <3>1, <3>2
  <2>5. PICK v \in Int : v = mul[i] * s[i]
    BY <2>4
  <2>6. r[i - 1] = v + r[i]
    BY <2>1, <2>5, Zenon
  <2> QED
    BY <1>1, <2>3, <2>5, <2>6
<1>6. PICK w : w = [i \in 0 .. Len(s) |-> n - r[i]]
  OBVIOUS
<1>7. SumLoop(s, mul, w)
  <2>1. ASSUME NEW i \in 0 .. Len(s)
        PROVE  w[i] = IF i = 0 THEN 0 ELSE Wrap(w[i - 1] + mul[i] * s[i])
    <3>1. CASE i = 0
      <4>1. r[0] = n
        BY <1>2 DEF LeftAfter
      <4> QED
        BY <1>1, <1>6, <3>1, <4>1
    <3>2. CASE i # 0
      <4>1. i \in 1 .. k + 1 /\ i \in 0 .. k + 1 /\ i - 1 \in 0 .. Len(s)
        BY <1>1, <3>2
      <4>2. w[i - 1] = n - r[i - 1] /\ w[i] = n - r[i]
        BY <1>6, <4>1
      <4>3. w[i - 1] + mul[i] * s[i] = n - r[i]
        BY <1>5, <4>1, <4>2
      <4> QED
        BY <1>4, <3>2, <4>1, <4>2, <4>3
    <3> QED
      BY <3>1, <3>2
  <2> QED
    BY <1>6, <2>1 DEF SumLoop
<1>8. PICK sum : sum = SumOf(s, mul)
  OBVIOUS
<1>9. SumLoop(s, mul, sum)
  BY <1>7, <1>8 DEF SumOf
<1> DEFINE S == {i \in 0 .. k + 1 : sum[i] = n - r[i]}
<1>10. 0 \in S
  <2>1. sum[0] = 0 /\ r[0] = n
    BY <1>1, <1>2, <1>9 DEF SumLoop, LeftAfter
  <2> QED
    BY <1>1, <2>1
<1>11. ASSUME NEW i \in 0 .. (k + 1) - 1, i \in S PROVE i + 1 \in S
  <2>1. i + 1 \in 1 .. k + 1 /\ i + 1 \in 0 .. k + 1 /\ (i + 1) - 1 = i /\ i + 1 # 0 /\ i + 1 \in 0 .. Len(s)
    BY <1>1
  <2>2. sum[i + 1] = Wrap(sum[i] + mul[i + 1] * s[i + 1])
    BY <1>9, <2>1 DEF SumLoop
  <2>3. (n - r[i]) + mul[i + 1] * s[i + 1] = n - r[i + 1]
    BY <1>5, <2>1
  <2>4. sum[i + 1] = Wrap(n - r[i + 1])
    BY <1>11, <2>2, <2>3
  <2> QED
    BY <1>4, <2>1, <2>4
<1>12. PICK l : l = k + 1 /\ l \in Nat
  BY <1>1
<1>13. \A i \in 0 .. l : i \in S
  <2> HIDE DEF S
  <2> QED
    BY <1>10, <1>11, <1>12, Upwards
<1>14. sum[k + 1] = n - r[k + 1] /\ r[k + 1] = 0
  BY <1>2, <1>12, <1>13 DEF LeftAfter
<1> QED
  BY <1>1, <1>8, <1>14

(* atob reads what putdec printed. *)
LEMMA AtobReads ==
    ASSUME NEW n \in Word
    PROVE  atob(_scr_putnum(n, 10), 10) = n
<1>1. PICK P : IsTens(P)
  BY TensExist
<1>2. PICK k, s : s = _scr_putnum(n, 10) /\ Leads(P, k, n) /\ Prints(P, k, n, s)
  BY <1>1, NumberPrinted
<1>3. PICK l : l = k + 1 /\ l = Len(s) /\ l \in 1 .. WordSize /\ l - 1 = k /\ k \in 0 .. WordSize - 1
  BY <1>2, WordFacts DEF Prints, Leads
<1>4. P[k] \in Word /\ P[k] < WordSize \div 2
  BY <1>1, <1>2, WeightFits
<1>5. StartOf(l)[l - 1] = P[k]
  BY <1>1, <1>3, <1>4, StartIs
<1>6. Signed(P[k]) = P[k]
  BY <1>4 DEF Signed
<1>7. \A i \in 1 .. l : MulOf(l, P[k])[i] = P[l - i]
  BY <1>1, <1>3, MulIs
<1>8. PICK mul : mul = MulOf(l, P[k])
  OBVIOUS
<1>9. SumOf(s, mul)[k + 1] = n
  <2>1. \A i \in 1 .. k + 1 : mul[i] = P[k + 1 - i]
    BY <1>3, <1>7, <1>8
  <2> QED
    BY <1>1, <1>2, <1>3, <2>1, SumIs
<1>10. atob(s, 10) = SumOf(s, MulOf(l, Signed(StartOf(l)[l - 1])))[l]
  BY <1>3, AtobLoops
<1> QED
  BY <1>2, <1>3, <1>5, <1>6, <1>8, <1>9, <1>10

(* A number between blanks is the word gets takes. *)
LEMMA GetsWord ==
    ASSUME NEW s \in Seq(0 .. 9), Len(s) >= 1, NEW t \in Seq(0 .. 9)
    PROVE  gets(<<Blank, Blank>> \o s \o <<Blank>> \o t) = s
<1>1. PICK keys : keys = <<Blank, Blank>> \o s \o <<Blank>> \o t
  OBVIOUS
<1>2. PICK l : l = Len(s) /\ l \in Nat /\ l >= 1
  OBVIOUS
<1>3. Blank \in Int /\ ~ (Blank >= 0)
  BY DEF Blank
<1>4. PICK u : u = <<Blank, Blank>> \o s
  OBVIOUS
<1>5. /\ u \in Seq(Int) /\ Len(u) = l + 2 /\ u[1] = Blank /\ u[2] = Blank
      /\ \A i \in 1 .. l : u[i + 2] = s[i]
  <2>1. s \in Seq(Int) /\ <<Blank, Blank>> \in Seq(Int)
    BY <1>3
  <2> QED
    BY <1>2, <1>4, <2>1
<1>6. PICK v : v = u \o <<Blank>>
  OBVIOUS
<1>7. /\ v \in Seq(Int) /\ Len(v) = l + 3 /\ v[l + 3] = Blank
      /\ \A i \in 1 .. l + 2 : v[i] = u[i]
  BY <1>2, <1>3, <1>5, <1>6
<1>8. /\ keys \in Seq(Int) /\ Len(keys) \in Nat /\ Len(keys) >= l + 3
      /\ \A i \in 1 .. l + 3 : keys[i] = v[i]
  <2>1. keys = v \o t
    BY <1>1, <1>4, <1>6
  <2>2. t \in Seq(Int)
    OBVIOUS
  <2> QED
    BY <1>2, <1>7, <2>1, <2>2
<1>9. /\ keys[1] = Blank /\ keys[2] = Blank /\ keys[l + 3] = Blank
      /\ \A i \in 3 .. l + 2 : keys[i] = s[i - 2] /\ keys[i] # Blank
  <2>1. ASSUME NEW i \in 3 .. l + 2 PROVE keys[i] = s[i - 2] /\ keys[i] # Blank
    <3>1. i - 2 \in 1 .. l /\ (i - 2) + 2 = i /\ i \in 1 .. l + 2 /\ i \in 1 .. l + 3
      BY <1>2
    <3>2. s[i - 2] \in 0 .. 9
      BY <1>2, <3>1
    <3>3. keys[i] = s[i - 2]
      BY <1>5, <1>7, <1>8, <3>1
    <3> QED
      BY <1>3, <3>2, <3>3
  <2>2. 1 \in 1 .. l + 2 /\ 2 \in 1 .. l + 2 /\ l + 3 \in 1 .. l + 3 /\ 1 \in 1 .. l + 3 /\ 2 \in 1 .. l + 3
    BY <1>2
  <2> QED
    BY <1>5, <1>7, <1>8, <2>1, <2>2
<1> DEFINE Starts(i) == keys[i] # Blank /\ \A j \in 1 .. i - 1 : keys[j] = Blank
           Stops(f, i) == keys[i + 1] = Blank /\ \A j \in f .. i : keys[j] # Blank
<1>10. 3 \in DOMAIN keys /\ Starts(3)
  <2>1. 3 \in 3 .. l + 2 /\ \A j \in 1 .. 3 - 1 : j = 1 \/ j = 2
    BY <1>2
  <2> QED
    BY <1>2, <1>8, <1>9, <2>1
<1>11. ASSUME NEW i \in DOMAIN keys, Starts(i) PROVE i = 3
  <2>1. i \in Nat /\ i >= 1 /\ i # 1 /\ i # 2
    BY <1>8, <1>9, <1>11
  <2>2. CASE i > 3
    <3>1. 3 \in 1 .. i - 1 /\ 3 \in 3 .. l + 2
      BY <1>2, <2>1, <2>2
    <3> QED
      BY <1>9, <1>11, <3>1
  <2> QED
    BY <2>1, <2>2
<1>12. PICK f : f = CHOOSE i \in DOMAIN keys : Starts(i)
  OBVIOUS
<1>13. f = 3
  BY <1>10, <1>11, <1>12
<1>14. l + 2 \in f .. Len(keys) /\ Stops(f, l + 2)
  <2>1. (l + 2) + 1 = l + 3 /\ l + 2 \in 3 .. Len(keys)
    BY <1>2, <1>8
  <2> QED
    BY <1>9, <1>13, <2>1
<1>15. ASSUME NEW i \in f .. Len(keys), Stops(f, i) PROVE i = l + 2
  <2>1. i \in Nat /\ i >= 3
    BY <1>8, <1>13, <1>15
  <2>2. CASE i > l + 2
    <3>1. l + 3 \in f .. i
      BY <1>2, <1>13, <2>1, <2>2
    <3> QED
      BY <1>9, <1>15, <3>1
  <2>3. CASE i < l + 2
    <3>1. i + 1 \in 3 .. l + 2
      BY <1>2, <2>1, <2>3
    <3> QED
      BY <1>9, <1>15, <3>1
  <2> QED
    BY <1>2, <2>1, <2>2, <2>3
<1>16. PICK e : e = CHOOSE i \in f .. Len(keys) : Stops(f, i)
  OBVIOUS
<1>17. e = l + 2
  BY <1>14, <1>15, <1>16
<1>18. gets(keys) = SubSeq(keys, f, e)
  BY <1>12, <1>16 DEF gets
<1>19. SubSeq(keys, 3, l + 2) = s
  <2>1. SubSeq(keys, 3, l + 2) = [i \in 1 .. l |-> keys[i + 2]]
    BY <1>2, <1>8
  <2>2. \A i \in 1 .. l : keys[i + 2] = s[i]
    <3>1. ASSUME NEW i \in 1 .. l PROVE keys[i + 2] = s[i]
      <4>1. i + 2 \in 3 .. l + 2 /\ (i + 2) - 2 = i
        BY <1>2
      <4> QED
        BY <1>9, <4>1
    <3> QED
      BY <3>1
  <2> QED
    BY <1>2, <2>1, <2>2
<1> QED
  BY <1>1, <1>13, <1>17, <1>18, <1>19

(* Where ls starts the date. *)
LEMMA DateColumn ==
    ASSUME NEW letters \in 1 .. 8, NEW a,
           NEW d \in 1 .. 14, d = ls_digits(a), NEW p \in Nat, p = Len(scr_printf(a))
    PROVE  __printfile(letters, a) = (48 + p) - d
<1> DEFINE Put(c, counted, printed) == [acc |-> c.acc + counted, at |-> c.at + printed]
           PadTo(c, acc) == IF c.acc < acc THEN Put(c, acc - c.acc, acc - c.acc) ELSE c
<1>1. PICK name : name = [acc |-> letters + 4, at |-> 2 + letters + 4]
  OBVIOUS
<1>2. PadTo(name, 17) = [acc |-> 17, at |-> 19]
  BY <1>1
<1>3. PICK attributes : attributes = Put(PadTo(name, 17), 8, 8)
  OBVIOUS
<1>4. attributes = [acc |-> 25, at |-> 27]
  BY <1>2, <1>3
<1>5. PadTo(attributes, 32) = [acc |-> 32, at |-> 34]
  BY <1>4
<1>6. PICK size : size = Put(PadTo(attributes, 32), ls_digits(a), Len(scr_printf(a)))
  OBVIOUS
<1>7. size = [acc |-> 32 + d, at |-> 34 + p]
  BY <1>5, <1>6
<1>8. PadTo(size, 46).at = (48 + p) - d
  <2>1. CASE d < 14
    <3>1. size.acc < 46 /\ 46 - size.acc = 14 - d /\ size.at = 34 + p
      BY <1>7, <2>1
    <3>2. PadTo(size, 46).at = (34 + p) + (14 - d)
      BY <3>1
    <3> QED
      BY <3>2
  <2>2. CASE d = 14
    BY <1>7, <2>2
  <2> QED
    BY <2>1, <2>2
<1>9. __printfile(letters, a) = PadTo(size, 46).at
  <2>1. size = Put(PadTo(Put(PadTo(name, 17), 8, 8), 32), ls_digits(a), Len(scr_printf(a)))
    BY <1>3, <1>6, Zenon
  <2>2. __printfile(letters, a) =
          PadTo(Put(PadTo(Put(PadTo([acc |-> letters + 4, at |-> 2 + letters + 4], 17), 8, 8), 32),
                    ls_digits(a), Len(scr_printf(a))), 46).at
    BY DEF __printfile
  <2> QED
    <3> HIDE DEF PadTo, Put
    <3> QED
      BY <1>1, <2>1, <2>2, Zenon
<1> QED
  BY <1>8, <1>9

LEMMA PrintedLength ==
    ASSUME NEW a \in Word
    PROVE  /\ ls_digits(a) \in 1 .. 14
           /\ Len(scr_printf(a)) = ls_digits(a) + (IF Signed(a) < 0 THEN 1 ELSE 0)
<1>1. PICK P : IsTens(P)
  BY TensExist
<1>2. PICK v : v = Magnitude(a)
  OBVIOUS
<1>3. v \in Word /\ Signed(a) \in Int
  BY <1>2, Halves
<1>4. PICK k : Leads(P, k, v) /\ ls_digits(a) = k + 1 /\ k \in 0 .. 13
  BY <1>1, <1>2, DigitsCounted
<1>5. PICK j, s : s = _scr_putnum(v, 10) /\ Leads(P, j, v) /\ Prints(P, j, v, s)
  BY <1>1, <1>3, NumberPrinted
<1>6. j = k
  BY <1>1, <1>3, <1>4, <1>5, LeadsOnce
<1>7. s \in Seq(0 .. 9) /\ Len(s) = k + 1
  BY <1>5, <1>6 DEF Prints
<1>8. CASE Signed(a) < 0
  <2>1. scr_printf(a) = <<Minus>> \o s
    BY <1>2, <1>5, <1>8, Halves DEF scr_printf, scr_putdec
  <2>2. s \in Seq(Int) /\ <<Minus>> \in Seq(Int) /\ Len(<<Minus>>) = 1
    BY <1>7 DEF Minus
  <2>3. Len(<<Minus>> \o s) = 1 + Len(s)
    BY <2>2
  <2> QED
    BY <1>4, <1>7, <1>8, <2>1, <2>3
<1>9. CASE ~ (Signed(a) < 0)
  <2>1. v = a
    BY <1>2, <1>9 DEF Magnitude
  <2>2. scr_printf(a) = s
    BY <1>5, <1>9, <2>1 DEF scr_printf, scr_putdec
  <2> QED
    BY <1>4, <1>7, <1>9, <2>2
<1> QED
  BY <1>4, <1>8, <1>9

LEMMA NumbersOf ==
    ASSUME NEW a \in Word
    PROVE  /\ atob(putdec(a), 10) = a
           /\ Signed(a) >= 0 =>
                scanf(<<Blank, Blank>> \o printf(a) \o <<Blank>> \o printf(a)) = a
           /\ \A letters \in 1 .. 8 :
                __printfile(letters, a) =
                  __printfile(1, 0) + (IF Signed(a) < 0 THEN 1 ELSE 0)
<1>1. atob(putdec(a), 10) = a
  BY AtobReads DEF putdec
<1>2. ASSUME Signed(a) >= 0
      PROVE  scanf(<<Blank, Blank>> \o printf(a) \o <<Blank>> \o printf(a)) = a
  <2>1. PICK P : IsTens(P)
    BY TensExist
  <2>2. PICK k, s : s = _scr_putnum(a, 10) /\ Leads(P, k, a) /\ Prints(P, k, a, s)
    BY <2>1, NumberPrinted
  <2>3. printf(a) = s
    <3>1. ~ (Signed(a) < 0)
      BY <1>2, Halves
    <3> QED
      BY <2>2, <3>1 DEF printf, putdec
  <2>4. s \in Seq(0 .. 9) /\ Len(s) >= 1
    BY <2>2, WordFacts DEF Prints, Leads
  <2>5. gets(<<Blank, Blank>> \o s \o <<Blank>> \o s) = s
    BY <2>4, GetsWord
  <2> QED
    BY <2>2, <2>3, <2>5, AtobReads DEF scanf
<1>3. ASSUME NEW letters \in 1 .. 8
      PROVE  __printfile(letters, a) =
               __printfile(1, 0) + (IF Signed(a) < 0 THEN 1 ELSE 0)
  <2>1. PICK d, p : d = ls_digits(a) /\ p = Len(scr_printf(a)) /\ d \in 1 .. 14
                    /\ p = d + (IF Signed(a) < 0 THEN 1 ELSE 0)
    BY PrintedLength
  <2>2. __printfile(letters, a) = (48 + p) - d
    <3>1. p \in Nat
      BY <2>1
    <3> QED
      BY <2>1, <3>1, DateColumn
  <2>3. 0 \in Word /\ ~ (Signed(0) < 0)
    BY WordFacts, NumbersAssumption DEF Word, Signed
  <2>4. PICK e, q : e = ls_digits(0) /\ q = Len(scr_printf(0)) /\ e \in 1 .. 14 /\ q = e
    BY <2>3, PrintedLength
  <2>5. __printfile(1, 0) = (48 + q) - e
    <3>1. 1 \in 1 .. 8 /\ q \in Nat
      BY <2>4
    <3> QED
      BY <2>4, <3>1, DateColumn
  <2> QED
    BY <2>1, <2>2, <2>4, <2>5
<1> QED
  BY <1>1, <1>2, <1>3

-----------------------------------------------------------------------------
(* The tree of a disk. *)

(* A disk of n entries, part by part. *)
Shape(disk, n) ==
    /\ n \in Nat /\ n >= 1 /\ Len(disk.kind) = n /\ EntryOf(disk) = 1 .. n
    /\ disk.kind[Root] = "dir" /\ disk.in[Root] = 0
    /\ \A e \in 1 .. n : disk.kind[e] \in {"file", "dir"}
    /\ \A e \in 2 .. n : disk.in[e] \in 1 .. e - 1 /\ disk.kind[disk.in[e]] = "dir"

LEMMA Shapes ==
    ASSUME NEW disk \in Image
    PROVE  \E n : Shape(disk, n)
<1>1. PICK n \in 1 .. MaxEntries :
        /\ disk \in [kind : [1 .. n -> {"file", "dir"}], in : [1 .. n -> 0 .. n]]
        /\ disk.kind[Root] = "dir" /\ disk.in[Root] = 0
        /\ \A e \in 2 .. n : disk.in[e] \in 1 .. e - 1 /\ disk.kind[disk.in[e]] = "dir"
  BY DEF Image
<1>2. n \in Nat /\ n >= 1
  BY DirectoryAssumption
<1>3. disk.kind \in [1 .. n -> {"file", "dir"}]
  BY <1>1
<1>4. DOMAIN disk.kind = 1 .. n /\ Len(disk.kind) = n
  BY <1>2, <1>3
<1> QED
  BY <1>1, <1>2, <1>3, <1>4 DEF Shape, EntryOf

(* Nodes are told apart by their name and their entry. *)
LEMMA Marks ==
    /\ \A e : /\ Node(e)[2] = e /\ Dot(e)[2] = e /\ DotDot(e)[2] = e
              /\ ~ IsLink(Node(e)) /\ IsLink(Dot(e)) /\ IsLink(DotDot(e))
              /\ Dot(e) # DotDot(e)
    /\ \A e, f : Node(e) = Node(f) => e = f
    /\ NoNode = Node(0)
  BY DEF Node, Dot, DotDot, NoNode, IsLink

LEMMA NodeIs ==
    ASSUME NEW disk, NEW n, Shape(disk, n), NEW x \in NodesOf(disk)
    PROVE  /\ x[2] \in 1 .. n /\ x # NoNode
           /\ ~ IsLink(x) => x = Node(x[2])
           /\ IsLink(x) => /\ x \in {Dot(x[2]), DotDot(x[2])}
                           /\ x[2] # Root /\ disk.kind[x[2]] = "dir"
<1>1. CASE \E e \in EntryOf(disk) : x = Node(e)
  BY <1>1, Marks DEF Shape
<1>2. CASE \E e \in DirOf(disk) \ {Root} : x \in {Dot(e), DotDot(e)}
  BY <1>2, Marks DEF Shape, DirOf
<1> QED
  BY <1>1, <1>2 DEF NodesOf

LEMMA NodeIn ==
    ASSUME NEW disk, NEW n, Shape(disk, n), NEW e \in 1 .. n
    PROVE  /\ Node(e) \in NodesOf(disk)
           /\ disk.kind[e] = "dir" /\ e # Root => Dot(e) \in NodesOf(disk) /\ DotDot(e) \in NodesOf(disk)
  BY DEF Shape, NodesOf, DirOf

(* What lies in directory d. *)
Kids(disk, d) == {x \in NodesOf(disk) : x # Node(Root) /\ parent(disk, x) = Node(d)}

LEMMA KidIs ==
    ASSUME NEW disk, NEW n, Shape(disk, n), NEW d, NEW x \in Kids(disk, d)
    PROVE  /\ x \in NodesOf(disk) /\ x # Node(Root)
           /\ IsLink(x) => x[2] = d
           /\ ~ IsLink(x) => x[2] \in 2 .. n /\ disk.in[x[2]] = d /\ d < x[2]
<1>1. x \in NodesOf(disk) /\ x # Node(Root) /\ parent(disk, x) = Node(d)
  BY DEF Kids
<1>2. CASE IsLink(x)
  BY <1>1, <1>2, Marks DEF parent
<1>3. CASE ~ IsLink(x)
  <2>1. x[2] \in 1 .. n /\ x = Node(x[2])
    BY <1>1, <1>3, NodeIs
  <2>2. x[2] # Root /\ disk.in[x[2]] = d
    BY <1>1, <1>3, <2>1, Marks DEF parent
  <2>3. x[2] \in 2 .. n
    BY <2>1, <2>2 DEF Root, Shape
  <2> QED
    BY <1>1, <1>3, <2>2, <2>3 DEF Shape
<1> QED
  BY <1>1, <1>2, <1>3

(* Every node but the root lies in a directory. *)
LEMMA LiesIn ==
    ASSUME NEW disk, NEW n, Shape(disk, n), NEW x \in NodesOf(disk), x # Node(Root)
    PROVE  \E d \in 1 .. n : disk.kind[d] = "dir" /\ x \in Kids(disk, d) /\ parent(disk, x) = Node(d)
<1>1. CASE IsLink(x)
  BY <1>1, NodeIs DEF parent, Kids
<1>2. CASE ~ IsLink(x)
  <2>1. x[2] \in 1 .. n /\ x = Node(x[2]) /\ x[2] # Root
    BY <1>2, NodeIs
  <2>2. x[2] \in 2 .. n
    BY <2>1 DEF Root, Shape
  <2>3. disk.in[x[2]] \in 1 .. n /\ disk.kind[disk.in[x[2]]] = "dir"
    BY <2>2 DEF Shape
  <2> QED
    BY <1>2, <2>1, <2>3 DEF parent, Kids
<1> QED
  BY <1>1, <1>2

-----------------------------------------------------------------------------
(* The loop of scan_dir. *)
ScanLoop(disk, d, f) ==
    f = [e \in 0 .. Len(disk.kind) |->
          IF e = 0 THEN IF d = Root THEN <<>> ELSE <<DotDot(d), Dot(d)>>
          ELSE IF disk.in[e] = d THEN <<Node(e)>> \o f[e - 1] ELSE f[e - 1]]

LEMMA ScanIsLoop ==
    ASSUME NEW disk, NEW n, Shape(disk, n), NEW d \in 1 .. n, disk.kind[d] = "dir"
    PROVE  \E f : ScanLoop(disk, d, f) /\ scan_dir(disk, d) = f[n]
<1> DEFINE D == 0 .. n
           R == Seq(NodesOf(disk))
           m == [e \in D |-> e]
           H == [e \in D |-> [f \in [D -> R] |->
                  IF e = 0 THEN IF d = Root THEN <<>> ELSE <<DotDot(d), Dot(d)>>
                  ELSE IF disk.in[e] = d THEN <<Node(e)>> \o f[e - 1] ELSE f[e - 1]]]
<1>1. n \in Nat /\ Len(disk.kind) = n /\ R # {} /\ m \in [D -> 0 .. n]
  <2>1. <<>> \in R
    OBVIOUS
  <2> QED
    BY <2>1 DEF Shape
<1>2. H \in [D -> [[D -> R] -> R]]
  <2>1. ASSUME NEW e \in D, NEW f \in [D -> R]
        PROVE  (IF e = 0 THEN IF d = Root THEN <<>> ELSE <<DotDot(d), Dot(d)>>
                ELSE IF disk.in[e] = d THEN <<Node(e)>> \o f[e - 1] ELSE f[e - 1]) \in R
    <3>1. CASE e = 0
      BY <3>1, NodeIn
    <3>2. CASE e # 0
      <4>1. f[e - 1] \in R /\ e \in 1 .. n
        BY <1>1, <3>2
      <4>2. <<Node(e)>> \o f[e - 1] \in R
        BY <4>1, NodeIn
      <4> QED
        BY <3>2, <4>1, <4>2
    <3> QED
      BY <3>1, <3>2
  <2> QED
    BY <2>1
<1>3. LooksBack(D, R, m, H)
  <2>1. SUFFICES ASSUME NEW e \in D, NEW f \in [D -> R], NEW g \in [D -> R],
                        \A y \in D : m[y] < m[e] => f[y] = g[y]
                 PROVE  H[e][f] = H[e][g]
    BY DEF LooksBack
  <2>2. e # 0 => f[e - 1] = g[e - 1]
    BY <1>1, <2>1
  <2> QED
    BY <2>2
<1>4. PICK f : Solves(D, R, H, f)
  <2> HIDE DEF D, R, m, H
  <2> QED
    BY <1>1, <1>2, <1>3, Course
<1>5. f \in [D -> R] /\ \A e \in D : f[e] = H[e][f]
  BY <1>4 DEF Solves
<1>6. ScanLoop(disk, d, f)
  BY <1>1, <1>5 DEF ScanLoop
<1>7. PICK g : g = CHOOSE h : ScanLoop(disk, d, h)
  OBVIOUS
<1>8. ScanLoop(disk, d, g)
  BY <1>6, <1>7
<1>9. scan_dir(disk, d) = g[n]
  BY <1>1, <1>7 DEF scan_dir, ScanLoop
<1> QED
  BY <1>8, <1>9

(* s lists the links of directory d and its entries up to e, once each, the
   later entries first and the links last. *)
Lists(disk, d, e, s) ==
    /\ s \in Seq(NodesOf(disk))
    /\ \A k \in 1 .. Len(s) : s[k] \in Kids(disk, d) /\ (IsLink(s[k]) \/ s[k][2] <= e)
    /\ \A x \in Kids(disk, d) : IsLink(x) \/ x[2] <= e => \E k \in 1 .. Len(s) : s[k] = x
    /\ \A k, j \in 1 .. Len(s) :
          k < j => s[k] # s[j] /\ (IsLink(s[k]) \/ s[j][2] < s[k][2])
    /\ d # Root => Len(s) >= 1 /\ IsLink(s[Len(s)])

LEMMA ListsFirst ==
    ASSUME NEW disk, NEW n, Shape(disk, n), NEW d \in 1 .. n, disk.kind[d] = "dir"
    PROVE  Lists(disk, d, 0, IF d = Root THEN <<>> ELSE <<DotDot(d), Dot(d)>>)
<1>1. CASE d = Root
  <2>1. ASSUME NEW x \in Kids(disk, d) PROVE ~ IsLink(x) /\ ~ (x[2] <= 0)
    <3>1. x \in NodesOf(disk) /\ x[2] \in 1 .. n
      BY NodeIs DEF Kids
    <3>2. ~ IsLink(x)
      BY <1>1, <3>1, NodeIs, KidIs
    <3> QED
      BY <3>1, <3>2
  <2>2. <<>> \in Seq(NodesOf(disk)) /\ Len(<<>>) = 0
    OBVIOUS
  <2>3. Lists(disk, d, 0, <<>>)
    BY <1>1, <2>1, <2>2 DEF Lists
  <2> QED
    BY <1>1, <2>3
<1>2. CASE d # Root
  <2>1. PICK s : s = <<DotDot(d), Dot(d)>>
    OBVIOUS
  <2>2. s \in Seq(NodesOf(disk)) /\ Len(s) = 2 /\ s[1] = DotDot(d) /\ s[2] = Dot(d)
    BY <1>2, <2>1, NodeIn
  <2>3. s[1] \in Kids(disk, d) /\ s[2] \in Kids(disk, d)
    BY <1>2, <2>2, NodeIn, Marks DEF Kids, parent
  <2>4. \A x \in Kids(disk, d) : IsLink(x) \/ x[2] <= 0 => x = s[1] \/ x = s[2]
    <3>1. SUFFICES ASSUME NEW x \in Kids(disk, d), IsLink(x) \/ x[2] <= 0 PROVE x \in {Dot(d), DotDot(d)}
      BY <2>2
    <3>2. IsLink(x)
      BY <3>1, KidIs
    <3> QED
      BY <3>2, KidIs, NodeIs DEF Kids
  <2>5. \A k, j \in 1 .. 2 : k < j => k = 1 /\ j = 2
    OBVIOUS
  <2> QED
    BY <1>2, <2>1, <2>2, <2>3, <2>4, <2>5, Marks DEF Lists
<1> QED
  BY <1>1, <1>2

LEMMA ListsMore ==
    ASSUME NEW disk, NEW n, Shape(disk, n), NEW d \in 1 .. n, disk.kind[d] = "dir",
           NEW e \in 1 .. n, NEW s, Lists(disk, d, e - 1, s)
    PROVE  Lists(disk, d, e, IF disk.in[e] = d THEN <<Node(e)>> \o s ELSE s)
<1>1. n \in Nat /\ s \in Seq(NodesOf(disk)) /\ Len(s) \in Nat
  BY DEF Shape, Lists
<1>2. ASSUME NEW x \in Kids(disk, d), ~ IsLink(x), x[2] = e PROVE x = Node(e) /\ disk.in[e] = d
  BY <1>2, KidIs, NodeIs
<1>3. ASSUME NEW x \in Kids(disk, d), ~ IsLink(x), x[2] <= e PROVE x[2] <= e - 1 \/ x[2] = e
  <2>1. x[2] \in 2 .. n
    BY <1>3, KidIs
  <2> QED
    BY <1>1, <1>3, <2>1
<1>4. CASE disk.in[e] # d
  <2>1. \A x \in Kids(disk, d) : IsLink(x) \/ x[2] <= e => \E k \in 1 .. Len(s) : s[k] = x
    BY <1>2, <1>3, <1>4 DEF Lists
  <2>2. \A k \in 1 .. Len(s) : s[k] \in Kids(disk, d) /\ (IsLink(s[k]) \/ s[k][2] <= e)
    <3>1. ASSUME NEW k \in 1 .. Len(s), ~ IsLink(s[k]) PROVE s[k][2] <= e
      <4>1. s[k] \in Kids(disk, d) /\ s[k][2] <= e - 1
        BY <3>1 DEF Lists
      <4>2. s[k][2] \in 2 .. n
        BY <3>1, <4>1, KidIs
      <4> QED
        BY <1>1, <4>1, <4>2
    <3> QED
      BY <3>1 DEF Lists
  <2> QED
    BY <1>4, <2>1, <2>2 DEF Lists
<1>5. CASE disk.in[e] = d
  <2>1. PICK t : t = <<Node(e)>> \o s
    OBVIOUS
  <2>2. /\ t \in Seq(NodesOf(disk)) /\ Len(t) = Len(s) + 1 /\ t[1] = Node(e)
        /\ \A k \in 1 .. Len(s) : t[k + 1] = s[k]
        /\ \A k \in 2 .. Len(t) : t[k] = s[k - 1] /\ k - 1 \in 1 .. Len(s)
    <3>1. <<Node(e)>> \in Seq(NodesOf(disk)) /\ Len(<<Node(e)>>) = 1 /\ <<Node(e)>>[1] = Node(e)
      BY NodeIn
    <3> QED
      BY <1>1, <2>1, <3>1
  <2>3. d < e /\ e # Root /\ e \in Nat /\ d \in Nat /\ Node(e) \in Kids(disk, d)
    <3>1. e # Root
      BY <1>1, <1>5 DEF Shape
    <3>2. e \in 2 .. n
      BY <1>1, <3>1 DEF Root
    <3>3. disk.in[e] \in 1 .. e - 1
      BY <3>2 DEF Shape
    <3> QED
      BY <1>1, <1>5, <3>1, <3>3, NodeIn, Marks DEF Kids, parent
  <2>4. ASSUME NEW k \in 1 .. Len(s) PROVE s[k] \in Kids(disk, d) /\ s[k][2] < e /\ s[k][2] <= e
    <3>1. s[k] \in Kids(disk, d) /\ (IsLink(s[k]) \/ s[k][2] <= e - 1)
      BY DEF Lists
    <3>2. IsLink(s[k]) => s[k][2] = d
      BY <3>1, KidIs
    <3>3. s[k][2] \in 1 .. n
      BY <3>1, NodeIs DEF Kids
    <3> QED
      BY <1>1, <2>3, <3>1, <3>2, <3>3
  <2>5. \A k \in 1 .. Len(t) : t[k] \in Kids(disk, d) /\ (IsLink(t[k]) \/ t[k][2] <= e)
    <3>1. SUFFICES ASSUME NEW k \in 1 .. Len(t)
                   PROVE  t[k] \in Kids(disk, d) /\ (IsLink(t[k]) \/ t[k][2] <= e)
      OBVIOUS
    <3>2. CASE k = 1
      BY <2>2, <2>3, <3>2, Marks
    <3>3. CASE k # 1
      <4>1. k \in 2 .. Len(t)
        BY <1>1, <2>2, <3>3
      <4>2. t[k] = s[k - 1] /\ k - 1 \in 1 .. Len(s)
        BY <2>2, <4>1
      <4> QED
        BY <2>4, <4>2
    <3> QED
      BY <3>2, <3>3
  <2>6. ASSUME NEW x \in Kids(disk, d), IsLink(x) \/ x[2] <= e
        PROVE  \E k \in 1 .. Len(t) : t[k] = x
    <3>1. CASE x = Node(e)
      <4>1. 1 \in 1 .. Len(t)
        BY <1>1, <2>2
      <4> QED
        BY <2>2, <3>1, <4>1
    <3>2. CASE x # Node(e)
      <4>1. IsLink(x) \/ x[2] <= e - 1
        BY <1>2, <1>3, <2>6, <3>2
      <4>2. PICK k \in 1 .. Len(s) : s[k] = x
        BY <4>1 DEF Lists
      <4>3. k + 1 \in 1 .. Len(t)
        BY <1>1, <2>2, <4>2
      <4> QED
        BY <2>2, <4>2, <4>3
    <3> QED
      BY <3>1, <3>2
  <2>7. ASSUME NEW k \in 1 .. Len(t), NEW j \in 1 .. Len(t), k < j
        PROVE  t[k] # t[j] /\ (IsLink(t[k]) \/ t[j][2] < t[k][2])
    <3>1. j \in 2 .. Len(t) /\ t[j] = s[j - 1] /\ j - 1 \in 1 .. Len(s)
      BY <1>1, <2>2, <2>7
    <3>2. CASE k = 1
      <4>1. t[j][2] < e /\ t[j][2] # e
        BY <2>3, <2>4, <3>1
      <4> QED
        BY <2>2, <3>2, <4>1, Marks
    <3>3. CASE k # 1
      <4>1. k \in 2 .. Len(t) /\ k \in Nat /\ j \in Nat
        BY <1>1, <2>2, <3>3
      <4>2. k - 1 < j - 1
        BY <2>7, <4>1
      <4>3. t[k] = s[k - 1] /\ k - 1 \in 1 .. Len(s)
        BY <2>2, <4>1
      <4>4. \A a, b \in 1 .. Len(s) : a < b => s[a] # s[b] /\ (IsLink(s[a]) \/ s[b][2] < s[a][2])
        BY DEF Lists
      <4>5. s[k - 1] # s[j - 1] /\ (IsLink(s[k - 1]) \/ s[j - 1][2] < s[k - 1][2])
        BY <3>1, <4>2, <4>3, <4>4
      <4> QED
        BY <3>1, <4>3, <4>5
    <3> QED
      BY <3>2, <3>3
  <2>8. d # Root => Len(t) >= 1 /\ IsLink(t[Len(t)])
    <3>1. ASSUME d # Root PROVE Len(t) >= 1 /\ IsLink(t[Len(t)])
      <4>1. Len(s) >= 1 /\ IsLink(s[Len(s)])
        BY <3>1 DEF Lists
      <4>2. Len(t) >= 1 /\ t[Len(s) + 1] = s[Len(s)]
        BY <1>1, <2>2, <4>1
      <4> QED
        BY <2>2, <4>1, <4>2
    <3> QED
      BY <3>1
  <2>9. Lists(disk, d, e, t)
    BY <2>2, <2>5, <2>6, <2>7, <2>8 DEF Lists
  <2> QED
    BY <1>5, <2>1, <2>9
<1> QED
  BY <1>4, <1>5

LEMMA ScanLists ==
    ASSUME NEW disk, NEW n, Shape(disk, n), NEW d \in 1 .. n, disk.kind[d] = "dir"
    PROVE  Lists(disk, d, n, scan_dir(disk, d))
<1>1. PICK f : ScanLoop(disk, d, f) /\ scan_dir(disk, d) = f[n]
  BY ScanIsLoop
<1>2. n \in Nat /\ Len(disk.kind) = n
  BY DEF Shape
<1>3. f[0] = (IF d = Root THEN <<>> ELSE <<DotDot(d), Dot(d)>>)
  BY <1>1, <1>2 DEF ScanLoop
<1>4. ASSUME NEW e \in 1 .. n
      PROVE  f[e] = IF disk.in[e] = d THEN <<Node(e)>> \o f[e - 1] ELSE f[e - 1]
  <2>1. e \in 0 .. n /\ e # 0
    BY <1>2
  <2> QED
    BY <1>1, <1>2, <2>1 DEF ScanLoop
<1> DEFINE S == {e \in 0 .. n : Lists(disk, d, e, f[e])}
<1>5. 0 \in S
  BY <1>2, <1>3, ListsFirst
<1>6. ASSUME NEW e \in 0 .. n - 1, e \in S PROVE e + 1 \in S
  <2>1. e + 1 \in 1 .. n /\ (e + 1) - 1 = e
    BY <1>2
  <2>2. Lists(disk, d, e + 1, IF disk.in[e + 1] = d THEN <<Node(e + 1)>> \o f[e] ELSE f[e])
    BY <1>6, <2>1, ListsMore
  <2>3. f[e + 1] = IF disk.in[e + 1] = d THEN <<Node(e + 1)>> \o f[e] ELSE f[e]
    BY <1>4, <2>1
  <2>4. Lists(disk, d, e + 1, f[e + 1])
    BY <2>2, <2>3, Zenon
  <2> QED
    BY <1>2, <2>1, <2>4
<1>7. \A e \in 0 .. n : e \in S
  <2> HIDE DEF S
  <2> QED
    BY <1>2, <1>5, <1>6, Upwards
<1> QED
  BY <1>1, <1>2, <1>7

-----------------------------------------------------------------------------
(* The brother of the k-th child is the one after it. *)
LEMMA BrotherAt ==
    ASSUME NEW disk, NEW n, Shape(disk, n), NEW d \in 1 .. n, disk.kind[d] = "dir",
           NEW s, s = scan_dir(disk, d), NEW k \in 1 .. Len(s)
    PROVE  brother(disk, s[k]) = IF k < Len(s) THEN s[k + 1] ELSE NoNode
<1>1. Lists(disk, d, n, s)
  BY ScanLists
<1>2. s \in Seq(NodesOf(disk)) /\ DOMAIN s = 1 .. Len(s) /\ Len(s) \in Nat
  BY <1>1 DEF Lists
<1>3. s[k] # Node(Root) /\ parent(disk, s[k])[2] = d
  BY <1>1, Marks DEF Lists, Kids
<1>4. \A j \in DOMAIN s : s[j] = s[k] => j = k
  <2>1. ASSUME NEW j \in 1 .. Len(s), j # k PROVE s[j] # s[k]
    <3>1. j < k \/ k < j
      BY <1>2, <2>1
    <3> QED
      BY <1>1, <3>1 DEF Lists
  <2> QED
    BY <1>2, <2>1
<1>5. (CHOOSE i \in DOMAIN s : s[i] = s[k]) = k
  BY <1>2, <1>4
<1>6. brother(disk, s[k]) =
        LET j == CHOOSE i \in DOMAIN s : s[i] = s[k]
        IN  IF j < Len(s) THEN s[j + 1] ELSE NoNode
  BY <1>3 DEF brother
<1> QED
  BY <1>5, <1>6

LEMMA ChildrenAre ==
    ASSUME NEW disk, NEW n, Shape(disk, n), NEW d \in 1 .. n, disk.kind[d] = "dir",
           NEW s, s = scan_dir(disk, d)
    PROVE  /\ IsDir(disk, Node(d))
           /\ children(disk, Node(d)) = IF Len(s) >= 1 THEN s[1] ELSE NoNode
<1>1. Lists(disk, d, n, s)
  BY ScanLists
<1>2. s \in Seq(NodesOf(disk))
  BY <1>1 DEF Lists
<1>3. s # <<>> <=> Len(s) >= 1
  BY <1>2
<1> QED
  BY <1>3, Marks DEF children, IsDir

(* A brother lies in the same directory; only in the root is there none. *)
LEMMA BrotherIs ==
    ASSUME NEW disk, NEW n, Shape(disk, n), NEW d \in 1 .. n, disk.kind[d] = "dir",
           NEW x \in Kids(disk, d)
    PROVE  /\ brother(disk, x) = NoNode \/ brother(disk, x) \in Kids(disk, d)
           /\ ~ IsLink(x) => brother(disk, x) # x /\ brother(disk, x)[2] < x[2]
           /\ ~ IsLink(x) /\ d # Root => brother(disk, x) # NoNode
<1>1. PICK s : s = scan_dir(disk, d)
  OBVIOUS
<1>2. Lists(disk, d, n, s) /\ s \in Seq(NodesOf(disk)) /\ Len(s) \in Nat
  BY <1>1, ScanLists DEF Lists
<1>3. x \in NodesOf(disk) /\ x[2] \in 1 .. n /\ x # NoNode
  BY NodeIs DEF Kids
<1>4. PICK k \in 1 .. Len(s) : s[k] = x
  BY <1>2, <1>3 DEF Lists
<1>5. brother(disk, x) = IF k < Len(s) THEN s[k + 1] ELSE NoNode
  BY <1>1, <1>4, BrotherAt
<1>6. CASE k < Len(s)
  <2>1. k + 1 \in 1 .. Len(s) /\ k < k + 1
    BY <1>2, <1>6
  <2>2. brother(disk, x) = s[k + 1] /\ s[k + 1] \in Kids(disk, d)
    BY <1>2, <1>5, <1>6, <2>1 DEF Lists
  <2>3. s[k + 1] # x /\ (IsLink(x) \/ s[k + 1][2] < x[2])
    BY <1>2, <1>4, <2>1 DEF Lists
  <2>4. s[k + 1] # NoNode
    BY <2>2, NodeIs DEF Kids
  <2> QED
    BY <2>2, <2>3, <2>4
<1>7. CASE ~ (k < Len(s))
  <2>1. k = Len(s) /\ brother(disk, x) = NoNode
    BY <1>2, <1>5, <1>7
  <2>2. d # Root => IsLink(x)
    BY <1>2, <1>4, <2>1 DEF Lists
  <2>3. NoNode[2] < x[2]
    BY <1>3, Marks
  <2> QED
    BY <1>3, <2>1, <2>2, <2>3
<1> QED
  BY <1>6, <1>7

(* Where TreeStep goes. *)
After(disk, x) ==
    IF IsDir(disk, x) THEN children(disk, x)
    ELSE IF brother(disk, x) # NoNode THEN brother(disk, x) ELSE brother(disk, parent(disk, x))

-----------------------------------------------------------------------------
(* The loop of print_path. *)
PathLoop(disk, f) ==
    f = [e \in EntryOf(disk) |-> IF e = Root THEN <<>> ELSE Append(f[disk.in[e]], e)]

LEMMA PathIsLoop ==
    ASSUME NEW disk, NEW n, Shape(disk, n)
    PROVE  \E f : /\ f \in [1 .. n -> Seq(1 .. n)] /\ PathLoop(disk, f)
                  /\ \A x : print_path(disk, x) = f[x[2]]
<1> DEFINE D == 1 .. n
           R == Seq(1 .. n)
           m == [e \in D |-> e]
           H == [e \in D |-> [f \in [D -> R] |->
                  IF e = Root THEN <<>> ELSE Append(f[disk.in[e]], e)]]
<1>1. n \in Nat /\ EntryOf(disk) = D /\ R # {} /\ m \in [D -> 0 .. n]
  <2>1. <<>> \in R
    OBVIOUS
  <2>2. n \in Nat /\ EntryOf(disk) = D
    BY DEF Shape
  <2>3. m \in [D -> 0 .. n]
    BY <2>2
  <2> QED
    BY <2>1, <2>2, <2>3
<1>2. \A e \in D : e # Root => disk.in[e] \in D /\ disk.in[e] < e
  BY DEF Shape, Root
<1>3. H \in [D -> [[D -> R] -> R]]
  <2>1. ASSUME NEW e \in D, NEW f \in [D -> R]
        PROVE  (IF e = Root THEN <<>> ELSE Append(f[disk.in[e]], e)) \in R
    <3>1. CASE e = Root
      BY <3>1
    <3>2. CASE e # Root
      BY <1>2, <3>2
    <3> QED
      BY <3>1, <3>2
  <2> QED
    BY <2>1
<1>4. LooksBack(D, R, m, H)
  <2>1. SUFFICES ASSUME NEW e \in D, NEW f \in [D -> R], NEW g \in [D -> R],
                        \A y \in D : m[y] < m[e] => f[y] = g[y]
                 PROVE  H[e][f] = H[e][g]
    BY DEF LooksBack
  <2>2. e # Root => f[disk.in[e]] = g[disk.in[e]]
    BY <1>2, <2>1
  <2> QED
    BY <2>2
<1>5. PICK f : Solves(D, R, H, f)
  <2> HIDE DEF D, R, m, H
  <2> QED
    BY <1>1, <1>3, <1>4, Course
<1>6. f \in [D -> R] /\ \A e \in D : f[e] = H[e][f]
  BY <1>5 DEF Solves
<1>7. PathLoop(disk, f)
  BY <1>1, <1>6 DEF PathLoop
<1>8. PICK g : g = CHOOSE h : PathLoop(disk, h)
  OBVIOUS
<1>9. PathLoop(disk, g)
  BY <1>7, <1>8
<1>10. g \in [D -> R]
  <2> DEFINE S == {e \in 0 .. n : e = 0 \/ g[e] \in R}
  <2>1. ASSUME NEW e \in 0 .. n, \A k \in 0 .. e - 1 : k \in S PROVE e \in S
    <3>1. CASE e = 0
      BY <3>1
    <3>2. CASE e # 0
      <4>0. e \in D
        BY <1>1, <3>2
      <4>1. g[e] = IF e = Root THEN <<>> ELSE Append(g[disk.in[e]], e)
        <5>1. g = [i \in D |-> IF i = Root THEN <<>> ELSE Append(g[disk.in[i]], i)]
          BY <1>1, <1>9, Zenon DEF PathLoop
        <5> QED
          BY <4>0, <5>1, Zenon
      <4>2. CASE e = Root
        <5>1. <<>> \in R
          OBVIOUS
        <5> QED
          BY <4>0, <4>1, <4>2, <5>1
      <4>3. CASE e # Root
        <5>1. disk.in[e] \in 0 .. e - 1 /\ disk.in[e] # 0
          BY <1>1, <1>2, <4>0, <4>3
        <5>2. g[disk.in[e]] \in R
          BY <2>1, <5>1
        <5>3. Append(g[disk.in[e]], e) \in R
          BY <4>0, <5>2
        <5> QED
          BY <4>0, <4>1, <4>3, <5>3
      <4> QED
        BY <4>2, <4>3
    <3> QED
      BY <3>1, <3>2
  <2>2. \A e \in 0 .. n : e \in S
    <3> HIDE DEF S
    <3> QED
      BY <1>1, <2>1, Strongly
  <2>3. \A e \in D : g[e] \in R
    BY <1>1, <2>2
  <2>4. g = [e \in D |-> g[e]]
    BY <1>1, <1>9 DEF PathLoop
  <2> QED
    BY <2>3, <2>4
<1>11. \A x : print_path(disk, x) = g[x[2]]
  BY <1>8 DEF print_path, PathLoop
<1> QED
  BY <1>9, <1>10, <1>11

(* The children of a directory are one deeper. *)
LEMMA Deeper ==
    ASSUME NEW disk, NEW n, Shape(disk, n), NEW d \in 1 .. n, NEW x \in Kids(disk, d)
    PROVE  /\ Depth(disk, Node(d)) \in Nat
           /\ Depth(disk, x) = Depth(disk, Node(d)) + 1
<1>1. PICK f : /\ f \in [1 .. n -> Seq(1 .. n)] /\ PathLoop(disk, f)
               /\ \A y : print_path(disk, y) = f[y[2]]
  BY PathIsLoop
<1>2. f[d] \in Seq(1 .. n) /\ Len(f[d]) \in Nat
  BY <1>1
<1>3. Depth(disk, Node(d)) = Len(f[d])
  BY <1>1, <1>2, Marks DEF Depth
<1>4. CASE IsLink(x)
  <2>1. x[2] = d
    BY <1>4, KidIs
  <2> QED
    BY <1>1, <1>2, <1>3, <1>4, <2>1 DEF Depth
<1>5. CASE ~ IsLink(x)
  <2>1. x[2] \in 2 .. n /\ disk.in[x[2]] = d
    BY <1>5, KidIs
  <2>2. f[x[2]] = Append(f[d], x[2])
    <3>1. x[2] \in EntryOf(disk) /\ x[2] # Root
      BY <2>1 DEF Shape, Root
    <3>2. f = [i \in EntryOf(disk) |-> IF i = Root THEN <<>> ELSE Append(f[disk.in[i]], i)]
      BY <1>1, Zenon DEF PathLoop
    <3> QED
      BY <2>1, <3>1, <3>2, Zenon
  <2>3. Len(f[x[2]]) = Len(f[d]) + 1
    BY <1>2, <2>1, <2>2
  <2> QED
    BY <1>1, <1>2, <1>3, <1>5, <2>3 DEF Depth
<1> QED
  BY <1>2, <1>3, <1>4, <1>5

(* A step of tree ends at a node or at none, and keeps the depth. *)
LEMMA TreeStepIs ==
    ASSUME NEW disk, NEW n, Shape(disk, n),
           NEW at \in [node : NodesOf(disk), deep : Int]
    PROVE  /\ TreeStep(disk, at).node = After(disk, at.node)
           /\ TreeStep(disk, at) = [node |-> After(disk, at.node), deep |-> TreeStep(disk, at).deep]
           /\ TreeStep(disk, at).deep \in Int
           /\ After(disk, at.node) \in NodesOf(disk) \cup {NoNode}
           /\ After(disk, at.node) # NoNode =>
                TreeStep(disk, at).deep - at.deep = Depth(disk, After(disk, at.node)) - Depth(disk, at.node)
<1>1. PICK x : x = at.node /\ x \in NodesOf(disk) /\ x[2] \in 1 .. n
  BY NodeIs
<1>2. at.deep \in Int /\ at = [node |-> x, deep |-> at.deep]
  BY <1>1
<1>3. CASE IsDir(disk, x)
  <2>1. TreeStep(disk, at) = [node |-> After(disk, x), deep |-> at.deep + 1]
    BY <1>1, <1>3 DEF TreeStep, After
  <2>2. x = Node(x[2]) /\ disk.kind[x[2]] = "dir"
    BY <1>1, <1>3, NodeIs DEF IsDir
  <2>3. PICK s : s = scan_dir(disk, x[2])
    OBVIOUS
  <2>4. Lists(disk, x[2], n, s) /\ s \in Seq(NodesOf(disk))
    BY <1>1, <2>2, <2>3, ScanLists DEF Lists
  <2>5. After(disk, x) = IF Len(s) >= 1 THEN s[1] ELSE NoNode
    BY <1>1, <1>3, <2>2, <2>3, ChildrenAre DEF After
  <2>6. Len(s) >= 1 => s[1] \in Kids(disk, x[2])
    BY <2>4 DEF Lists
  <2>7. After(disk, x) # NoNode => After(disk, x) \in Kids(disk, x[2])
    BY <2>5, <2>6
  <2>8. After(disk, x) # NoNode => Depth(disk, After(disk, x)) - Depth(disk, x) = 1
    <3>1. ASSUME NEW y \in Kids(disk, x[2]) PROVE Depth(disk, y) - Depth(disk, x) = 1
      BY <1>1, <2>2, <3>1, Deeper
    <3> QED
      BY <2>7, <3>1
  <2> QED
    BY <1>1, <1>2, <2>1, <2>7, <2>8 DEF Kids
<1>4. CASE ~ IsDir(disk, x) /\ brother(disk, x) # NoNode
  <2>1. TreeStep(disk, at) = [node |-> After(disk, x), deep |-> at.deep] /\ After(disk, x) = brother(disk, x)
    BY <1>1, <1>2, <1>4 DEF TreeStep, After
  <2>2. x # Node(Root)
    BY <1>4 DEF brother
  <2>3. PICK d \in 1 .. n : disk.kind[d] = "dir" /\ x \in Kids(disk, d)
    BY <1>1, <2>2, LiesIn
  <2>4. After(disk, x) \in Kids(disk, d)
    BY <1>4, <2>1, <2>3, BrotherIs
  <2>5. Depth(disk, After(disk, x)) - Depth(disk, x) = 0
    BY <2>3, <2>4, Deeper
  <2> QED
    BY <1>1, <1>2, <2>1, <2>4, <2>5 DEF Kids
<1>5. CASE ~ IsDir(disk, x) /\ brother(disk, x) = NoNode
  <2>1. /\ TreeStep(disk, at) = [node |-> After(disk, x), deep |-> at.deep - 1]
        /\ After(disk, x) = brother(disk, parent(disk, x))
    BY <1>1, <1>5 DEF TreeStep, After
  <2>2. x # Node(Root)
    BY <1>5, Marks DEF IsDir, Shape
  <2>3. PICK d \in 1 .. n : disk.kind[d] = "dir" /\ x \in Kids(disk, d) /\ parent(disk, x) = Node(d)
    BY <1>1, <2>2, LiesIn
  <2>4. CASE d = Root
    BY <1>1, <1>2, <2>1, <2>3, <2>4 DEF brother
  <2>5. CASE d # Root
    <3>1. Node(d) \in NodesOf(disk) /\ Node(d) # Node(Root)
      BY <2>5, NodeIn, Marks
    <3>2. PICK e \in 1 .. n : disk.kind[e] = "dir" /\ Node(d) \in Kids(disk, e)
      BY <3>1, LiesIn
    <3>3. After(disk, x) = NoNode \/ After(disk, x) \in Kids(disk, e)
      BY <2>1, <2>3, <3>2, BrotherIs
    <3>4. After(disk, x) # NoNode => Depth(disk, After(disk, x)) - Depth(disk, x) = -1
      <4>1. ASSUME NEW y \in Kids(disk, e) PROVE Depth(disk, y) - Depth(disk, x) = -1
        <5>1. Depth(disk, x) = Depth(disk, Node(d)) + 1
          BY <2>3, Deeper
        <5>2. Depth(disk, Node(d)) = Depth(disk, Node(e)) + 1 /\ Depth(disk, Node(e)) \in Nat
          BY <3>2, Deeper
        <5>3. Depth(disk, y) = Depth(disk, Node(e)) + 1
          BY <4>1, Deeper
        <5> QED
          BY <5>1, <5>2, <5>3
      <4> QED
        BY <3>3, <4>1
    <3> QED
      BY <1>1, <1>2, <2>1, <3>3, <3>4 DEF Kids
  <2> QED
    BY <2>4, <2>5
<1> QED
  BY <1>3, <1>4, <1>5

-----------------------------------------------------------------------------
(* s goes from x on as tree does, over entries from e on; what follows is y. *)
Chain(disk, e, s, x, y) ==
    /\ s \in Seq(NodesOf(disk)) /\ Len(s) >= 1
    /\ s[1] = x /\ After(disk, s[Len(s)]) = y
    /\ \A k \in 1 .. Len(s) : s[k][2] >= e
    /\ \A k \in 1 .. Len(s) - 1 : s[k + 1] = After(disk, s[k])

LEMMA ChainOne ==
    ASSUME NEW disk, NEW e, NEW x \in NodesOf(disk), x[2] >= e
    PROVE  Chain(disk, e, <<x>>, x, After(disk, x))
<1>1. PICK s : s = <<x>>
  OBVIOUS
<1>2. s \in Seq(NodesOf(disk)) /\ Len(s) = 1 /\ s[1] = x
  BY <1>1
<1>3. Chain(disk, e, s, x, After(disk, x))
  BY <1>2 DEF Chain
<1> QED
  BY <1>1, <1>3

LEMMA ChainJoin ==
    ASSUME NEW disk, NEW e, NEW s, NEW t, NEW x, NEW y, NEW z,
           Chain(disk, e, s, x, y), Chain(disk, e, t, y, z)
    PROVE  Chain(disk, e, s \o t, x, z)
<1>1. /\ s \in Seq(NodesOf(disk)) /\ Len(s) >= 1 /\ Len(s) \in Nat
      /\ t \in Seq(NodesOf(disk)) /\ Len(t) >= 1 /\ Len(t) \in Nat
  BY DEF Chain
<1>2. PICK u : u = s \o t
  OBVIOUS
<1>3. /\ u \in Seq(NodesOf(disk)) /\ Len(u) = Len(s) + Len(t)
      /\ \A k \in 1 .. Len(s) : u[k] = s[k]
      /\ \A k \in 1 .. Len(t) : u[Len(s) + k] = t[k]
  BY <1>1, <1>2
<1>4. ASSUME NEW k \in 1 .. Len(u)
      PROVE  k \in 1 .. Len(s) \/ (k - Len(s) \in 1 .. Len(t) /\ Len(s) + (k - Len(s)) = k)
  BY <1>1, <1>3
<1>5. u[1] = x
  BY <1>1, <1>3 DEF Chain
<1>6. After(disk, u[Len(u)]) = z
  <2>1. Len(t) \in 1 .. Len(t)
    BY <1>1
  <2>2. u[Len(u)] = t[Len(t)]
    BY <1>3, <2>1
  <2> QED
    BY <2>2 DEF Chain
<1>7. \A k \in 1 .. Len(u) : u[k][2] >= e
  <2>1. SUFFICES ASSUME NEW k \in 1 .. Len(u) PROVE u[k][2] >= e
    OBVIOUS
  <2>2. CASE k \in 1 .. Len(s)
    BY <1>3, <2>2 DEF Chain
  <2>3. CASE k - Len(s) \in 1 .. Len(t) /\ Len(s) + (k - Len(s)) = k
    <3>1. u[k] = t[k - Len(s)]
      BY <1>3, <2>3
    <3> QED
      BY <2>3, <3>1 DEF Chain
  <2> QED
    BY <1>4, <2>2, <2>3
<1>8. ASSUME NEW k \in 1 .. Len(u) - 1 PROVE u[k + 1] = After(disk, u[k])
  <2>1. CASE k < Len(s)
    <3>1. k \in 1 .. Len(s) - 1 /\ k \in 1 .. Len(s) /\ k + 1 \in 1 .. Len(s)
      BY <1>1, <2>1
    <3> QED
      BY <1>3, <3>1 DEF Chain
  <2>2. CASE k = Len(s)
    <3>1. k \in 1 .. Len(s) /\ 1 \in 1 .. Len(t)
      BY <1>1, <2>2
    <3>2. u[k] = s[Len(s)] /\ u[k + 1] = t[1]
      BY <1>3, <2>2, <3>1
    <3> QED
      BY <3>2 DEF Chain
  <2>3. CASE k > Len(s)
    <3>1. PICK j : j = k - Len(s)
      OBVIOUS
    <3>2. /\ j \in 1 .. Len(t) - 1 /\ j \in 1 .. Len(t) /\ j + 1 \in 1 .. Len(t)
          /\ Len(s) + j = k /\ Len(s) + (j + 1) = k + 1
      BY <1>1, <1>3, <2>3, <3>1
    <3>3. u[k] = t[j] /\ u[k + 1] = t[j + 1]
      BY <1>3, <3>2
    <3> QED
      BY <3>2, <3>3 DEF Chain
  <2> QED
    BY <1>1, <1>3, <2>1, <2>2, <2>3
<1>9. Chain(disk, e, u, x, z)
  BY <1>1, <1>3, <1>5, <1>6, <1>7, <1>8 DEF Chain
<1> QED
  BY <1>2, <1>9

(* The loop of FlattenSeq. *)
FlattenLoop(b, f) == f = [i \in 1 .. Len(b) |-> IF i = 1 THEN b[i] ELSE f[i - 1] \o b[i]]

LEMMA FlattenIsLoop ==
    ASSUME NEW T, NEW b \in Seq(Seq(T)), Len(b) >= 1
    PROVE  \E f : FlattenLoop(b, f) /\ FlattenSeq(b) = f[Len(b)]
<1> DEFINE D == 1 .. Len(b)
           R == Seq(T)
           m == [i \in D |-> i]
           H == [i \in D |-> [f \in [D -> R] |-> IF i = 1 THEN b[i] ELSE f[i - 1] \o b[i]]]
<1>1. Len(b) \in Nat /\ R # {} /\ m \in [D -> 0 .. Len(b)]
  <2>1. <<>> \in R
    OBVIOUS
  <2> QED
    BY <2>1
<1>2. H \in [D -> [[D -> R] -> R]]
  <2>1. ASSUME NEW i \in D, NEW f \in [D -> R]
        PROVE  (IF i = 1 THEN b[i] ELSE f[i - 1] \o b[i]) \in R
    <3>1. b[i] \in R
      OBVIOUS
    <3>2. i # 1 => f[i - 1] \in R
      <4>1. i # 1 => i - 1 \in D
        OBVIOUS
      <4> HIDE DEF D, R
      <4> QED
        BY <2>1, <4>1
    <3> QED
      BY <3>1, <3>2
  <2> QED
    BY <2>1
<1>3. LooksBack(D, R, m, H)
  <2>1. SUFFICES ASSUME NEW i \in D, NEW f \in [D -> R], NEW g \in [D -> R],
                        \A y \in D : m[y] < m[i] => f[y] = g[y]
                 PROVE  H[i][f] = H[i][g]
    BY DEF LooksBack
  <2>2. i # 1 => f[i - 1] = g[i - 1]
    BY <2>1
  <2> QED
    BY <2>2
<1>4. PICK f : Solves(D, R, H, f)
  <2> HIDE DEF D, R, m, H
  <2> QED
    BY <1>1, <1>2, <1>3, Course
<1>5. f \in [D -> R] /\ \A i \in D : f[i] = H[i][f]
  BY <1>4 DEF Solves
<1>6. FlattenLoop(b, f)
  BY <1>1, <1>5 DEF FlattenLoop
<1>7. PICK g : g = CHOOSE h : FlattenLoop(b, h)
  OBVIOUS
<1>8. FlattenLoop(b, g)
  BY <1>6, <1>7
<1>9. FlattenSeq(b) = g[Len(b)]
  BY <1>1, <1>7 DEF FlattenSeq, FlattenLoop
<1> QED
  BY <1>8, <1>9

LEMMA FlattenAt ==
    ASSUME NEW b, Len(b) \in Nat, Len(b) >= 1, NEW f, FlattenLoop(b, f)
    PROVE  f[1] = b[1] /\ \A i \in 1 .. Len(b) - 1 : f[i + 1] = f[i] \o b[i + 1]
<1>1. f[1] = b[1]
  BY DEF FlattenLoop
<1>2. ASSUME NEW i \in 1 .. Len(b) - 1 PROVE f[i + 1] = f[i] \o b[i + 1]
  <2>1. i + 1 \in 1 .. Len(b) /\ i + 1 # 1 /\ (i + 1) - 1 = i
    OBVIOUS
  <2> QED
    BY <2>1 DEF FlattenLoop
<1> QED
  BY <1>1, <1>2

LEMMA FlattenType ==
    ASSUME NEW T, NEW b \in Seq(Seq(T))
    PROVE  FlattenSeq(b) \in Seq(T)
<1>1. CASE Len(b) = 0
  <2>1. FlattenSeq(b) = b /\ b = <<>>
    BY <1>1 DEF FlattenSeq
  <2> QED
    BY <2>1
<1>2. CASE Len(b) # 0
  <2>1. Len(b) \in Nat /\ Len(b) >= 1
    BY <1>2
  <2>2. PICK f : FlattenLoop(b, f) /\ FlattenSeq(b) = f[Len(b)]
    BY <2>1, FlattenIsLoop
  <2>3. f[1] = b[1] /\ \A i \in 1 .. Len(b) - 1 : f[i + 1] = f[i] \o b[i + 1]
    BY <2>1, <2>2, FlattenAt
  <2> DEFINE S == {i \in 0 .. Len(b) - 1 : f[i + 1] \in Seq(T)}
  <2>4. 0 \in S
    BY <2>1, <2>3
  <2>5. ASSUME NEW i \in 0 .. (Len(b) - 1) - 1, i \in S PROVE i + 1 \in S
    <3>1. i + 1 \in 1 .. Len(b) - 1 /\ (i + 1) + 1 \in 1 .. Len(b)
      BY <2>1
    <3>2. f[(i + 1) + 1] = f[i + 1] \o b[(i + 1) + 1]
      BY <2>3, <3>1
    <3>3. b[(i + 1) + 1] \in Seq(T) /\ f[i + 1] \in Seq(T)
      BY <2>5, <3>1
    <3>4. f[(i + 1) + 1] \in Seq(T) /\ i + 1 \in 0 .. Len(b) - 1
      BY <2>1, <3>1, <3>2, <3>3
    <3> QED
      BY <3>4
  <2>6. \A i \in 0 .. Len(b) - 1 : i \in S
    <3> HIDE DEF S
    <3>1. PICK N : N = Len(b) - 1 /\ N \in Nat
      BY <2>1
    <3> QED
      BY <2>4, <2>5, <3>1, Upwards
  <2>7. Len(b) - 1 \in 0 .. Len(b) - 1 /\ (Len(b) - 1) + 1 = Len(b)
    BY <2>1
  <2> QED
    BY <2>2, <2>6, <2>7
<1> QED
  BY <1>1, <1>2

(* Chains that follow each other are one chain; p holds what each begins with. *)
LEMMA ChainFlat ==
    ASSUME NEW disk, NEW e, NEW b \in Seq(Seq(NodesOf(disk))), Len(b) >= 1, NEW p,
           \A k \in 1 .. Len(b) : Chain(disk, e, b[k], p[k], p[k + 1])
    PROVE  Chain(disk, e, FlattenSeq(b), p[1], p[Len(b) + 1])
<1>1. Len(b) \in Nat
  OBVIOUS
<1>2. PICK f : FlattenLoop(b, f) /\ FlattenSeq(b) = f[Len(b)]
  BY FlattenIsLoop
<1>3. f[1] = b[1] /\ \A i \in 1 .. Len(b) - 1 : f[i + 1] = f[i] \o b[i + 1]
  BY <1>1, <1>2, FlattenAt
<1> DEFINE S == {i \in 0 .. Len(b) - 1 : Chain(disk, e, f[i + 1], p[1], p[(i + 1) + 1])}
<1>4. 0 \in S
  <2>1. 0 \in 0 .. Len(b) - 1 /\ 1 \in 1 .. Len(b) /\ 0 + 1 = 1
    BY <1>1
  <2> QED
    BY <1>3, <2>1
<1>5. ASSUME NEW i \in 0 .. (Len(b) - 1) - 1, i \in S PROVE i + 1 \in S
  <2>1. /\ i + 1 \in 1 .. Len(b) - 1 /\ (i + 1) + 1 \in 1 .. Len(b)
        /\ i + 1 \in 0 .. Len(b) - 1
    BY <1>1
  <2>2. f[(i + 1) + 1] = f[i + 1] \o b[(i + 1) + 1]
    BY <1>3, <2>1
  <2>3. Chain(disk, e, b[(i + 1) + 1], p[(i + 1) + 1], p[((i + 1) + 1) + 1])
    BY <2>1
  <2>4. Chain(disk, e, f[i + 1], p[1], p[(i + 1) + 1])
    BY <1>5
  <2>5. Chain(disk, e, f[i + 1] \o b[(i + 1) + 1], p[1], p[((i + 1) + 1) + 1])
    BY <2>3, <2>4, ChainJoin
  <2> QED
    BY <2>1, <2>2, <2>5
<1>6. \A i \in 0 .. Len(b) - 1 : i \in S
  <2> HIDE DEF S
  <2>1. PICK N : N = Len(b) - 1 /\ N \in Nat
    BY <1>1
  <2> QED
    BY <1>4, <1>5, <2>1, Upwards
<1>7. Len(b) - 1 \in 0 .. Len(b) - 1 /\ (Len(b) - 1) + 1 = Len(b)
  BY <1>1
<1> QED
  BY <1>2, <1>6, <1>7

-----------------------------------------------------------------------------
(* The loop of Below. *)
BelowLoop(disk, f) ==
    f = [e \in EntryOf(disk) |->
          LET list == scan_dir(disk, e)
          IN  <<Node(e)>> \o
              (IF disk.kind[e] = "file" THEN <<>>
               ELSE FlattenSeq([k \in DOMAIN list |->
                      IF IsLink(list[k]) THEN <<list[k]>> ELSE f[list[k][2]]]))]
Blocks(disk, list, f) ==
    [k \in DOMAIN list |-> IF IsLink(list[k]) THEN <<list[k]>> ELSE f[list[k][2]]]
Part(disk, e, f) ==
    <<Node(e)>> \o
       (IF disk.kind[e] = "file" THEN <<>> ELSE FlattenSeq(Blocks(disk, scan_dir(disk, e), f)))

Parts(disk, n, f) == f = [e \in 1 .. n |-> Part(disk, e, f)]

LEMMA BelowLoopIs ==
    ASSUME NEW disk, NEW n, Shape(disk, n), NEW f
    PROVE  BelowLoop(disk, f) <=> Parts(disk, n, f)
  BY DEF BelowLoop, Parts, Part, Blocks, Shape

LEMMA PartAt ==
    ASSUME NEW disk, NEW n, NEW f, Parts(disk, n, f), NEW e \in 1 .. n
    PROVE  f[e] = Part(disk, e, f)
<1>1. PICK h : h = [i \in 1 .. n |-> Part(disk, i, f)]
  OBVIOUS
<1>2. h[e] = Part(disk, e, f)
  BY <1>1
<1>3. f = h
  BY <1>1 DEF Parts
<1> QED
  BY <1>2, <1>3

LEMMA BlocksType ==
    ASSUME NEW disk, NEW n, Shape(disk, n), NEW e \in 1 .. n, disk.kind[e] = "dir",
           NEW s, s = scan_dir(disk, e), NEW f,
           \A c \in e + 1 .. n : f[c] \in Seq(NodesOf(disk))
    PROVE  Blocks(disk, s, f) \in Seq(Seq(NodesOf(disk))) /\ Len(Blocks(disk, s, f)) = Len(s)
<1>1. Lists(disk, e, n, s) /\ s \in Seq(NodesOf(disk)) /\ DOMAIN s = 1 .. Len(s) /\ Len(s) \in Nat
  BY ScanLists DEF Lists
<1>2. ASSUME NEW k \in 1 .. Len(s)
      PROVE  (IF IsLink(s[k]) THEN <<s[k]>> ELSE f[s[k][2]]) \in Seq(NodesOf(disk))
  <2>1. s[k] \in Kids(disk, e) /\ s[k] \in NodesOf(disk)
    BY <1>1 DEF Lists, Kids
  <2>2. CASE IsLink(s[k])
    BY <2>1, <2>2
  <2>3. CASE ~ IsLink(s[k])
    <3>1. s[k][2] \in 2 .. n /\ e < s[k][2]
      BY <2>1, <2>3, KidIs
    <3>2. s[k][2] \in e + 1 .. n
      BY <3>1 DEF Shape
    <3> QED
      BY <2>3, <3>2
  <2> QED
    BY <2>2, <2>3
<1>3. PICK b : b = [k \in 1 .. Len(s) |-> IF IsLink(s[k]) THEN <<s[k]>> ELSE f[s[k][2]]]
  OBVIOUS
<1>4. b \in [1 .. Len(s) -> Seq(NodesOf(disk))]
  BY <1>2, <1>3
<1>5. b \in Seq(Seq(NodesOf(disk))) /\ Len(b) = Len(s)
  BY <1>1, <1>4
<1> QED
  BY <1>1, <1>3, <1>5 DEF Blocks

LEMMA PartType ==
    ASSUME NEW disk, NEW n, Shape(disk, n), NEW e \in 1 .. n, NEW f,
           \A c \in e + 1 .. n : f[c] \in Seq(NodesOf(disk))
    PROVE  Part(disk, e, f) \in Seq(NodesOf(disk))
<1>1. <<Node(e)>> \in Seq(NodesOf(disk)) /\ <<>> \in Seq(NodesOf(disk))
  BY NodeIn
<1>2. CASE disk.kind[e] = "file"
  BY <1>1, <1>2 DEF Part
<1>3. CASE disk.kind[e] = "dir"
  <2>1. Blocks(disk, scan_dir(disk, e), f) \in Seq(Seq(NodesOf(disk)))
    BY <1>3, BlocksType
  <2>2. FlattenSeq(Blocks(disk, scan_dir(disk, e), f)) \in Seq(NodesOf(disk))
    BY <2>1, FlattenType
  <2> QED
    BY <1>1, <1>3, <2>2 DEF Part
<1> QED
  BY <1>2, <1>3 DEF Shape

LEMMA PartSame ==
    ASSUME NEW disk, NEW n, Shape(disk, n), NEW e \in 1 .. n, NEW f, NEW g,
           \A c \in e + 1 .. n : f[c] = g[c]
    PROVE  Part(disk, e, f) = Part(disk, e, g)
<1>1. CASE disk.kind[e] = "file"
  BY <1>1 DEF Part
<1>2. CASE disk.kind[e] = "dir"
  <2>1. PICK s : s = scan_dir(disk, e) /\ Lists(disk, e, n, s)
    BY <1>2, ScanLists
  <2>2. s \in Seq(NodesOf(disk)) /\ DOMAIN s = 1 .. Len(s)
    BY <2>1 DEF Lists
  <2>3. ASSUME NEW k \in DOMAIN s, ~ IsLink(s[k]) PROVE f[s[k][2]] = g[s[k][2]]
    <3>1. s[k] \in Kids(disk, e)
      BY <2>1, <2>2 DEF Lists
    <3>2. s[k][2] \in 2 .. n /\ e < s[k][2]
      BY <2>3, <3>1, KidIs
    <3>3. s[k][2] \in e + 1 .. n
      BY <3>2 DEF Shape
    <3> QED
      BY <3>3
  <2>4. Blocks(disk, s, f) = Blocks(disk, s, g)
    BY <2>3 DEF Blocks
  <2> QED
    BY <2>1, <2>4 DEF Part
<1> QED
  BY <1>1, <1>2 DEF Shape

LEMMA BelowIsLoop ==
    ASSUME NEW disk, NEW n, Shape(disk, n)
    PROVE  \E f : /\ Parts(disk, n, f)
                  /\ \A d : Below(disk, d) =
                       [k \in DOMAIN f[d] |->
                          [node |-> f[d][k], deep |-> Depth(disk, f[d][k]) - (Depth(disk, Node(d)) + 1)]]
<1> DEFINE D == 1 .. n
           R == Seq(NodesOf(disk))
           m == [e \in D |-> n - e]
           H == [e \in D |-> [f \in [D -> R] |-> Part(disk, e, f)]]
<1>1. n \in Nat /\ R # {} /\ m \in [D -> 0 .. n]
  <2>1. <<>> \in R
    OBVIOUS
  <2>2. n \in Nat
    BY DEF Shape
  <2>3. m \in [D -> 0 .. n]
    BY <2>2
  <2> QED
    BY <2>1, <2>2, <2>3
<1>2. H \in [D -> [[D -> R] -> R]]
  <2>1. ASSUME NEW e \in D, NEW f \in [D -> R] PROVE Part(disk, e, f) \in R
    <3>1. \A c \in e + 1 .. n : c \in D
      BY <1>1
    <3>2. \A c \in e + 1 .. n : f[c] \in R
      BY <3>1
    <3> QED
      BY <3>2, PartType
  <2> QED
    BY <2>1
<1>3. LooksBack(D, R, m, H)
  <2>1. SUFFICES ASSUME NEW e \in D, NEW f \in [D -> R], NEW g \in [D -> R],
                        \A y \in D : m[y] < m[e] => f[y] = g[y]
                 PROVE  H[e][f] = H[e][g]
    BY DEF LooksBack
  <2>2. \A c \in e + 1 .. n : f[c] = g[c]
    <3>1. ASSUME NEW c \in e + 1 .. n PROVE c \in D /\ m[c] < m[e]
      <4>1. c \in D /\ e \in D /\ n - c < n - e
        BY <1>1
      <4> QED
        BY <4>1
    <3> HIDE DEF D, R, m
    <3> QED
      BY <2>1, <3>1
  <2>3. Part(disk, e, f) = Part(disk, e, g)
    <3>1. e \in 1 .. n
      OBVIOUS
    <3> HIDE DEF D, R, m, H
    <3> QED
      BY <2>2, <3>1, PartSame
  <2> QED
    BY <2>3
<1>4. PICK f : Solves(D, R, H, f)
  <2> HIDE DEF D, R, m, H
  <2> QED
    BY <1>1, <1>2, <1>3, Course
<1>5. f \in [D -> R] /\ \A e \in D : f[e] = H[e][f]
  BY <1>4 DEF Solves
<1>6. Parts(disk, n, f)
  BY <1>5 DEF Parts
<1>7. PICK g : g = CHOOSE h : BelowLoop(disk, h)
  OBVIOUS
<1>8. BelowLoop(disk, g)
  BY <1>6, <1>7, BelowLoopIs
<1>9. \A d : Below(disk, d) =
         [k \in DOMAIN g[d] |->
            [node |-> g[d][k], deep |-> Depth(disk, g[d][k]) - (Depth(disk, Node(d)) + 1)]]
  BY <1>7 DEF Below, BelowLoop
<1> QED
  BY <1>8, <1>9, BelowLoopIs

(* Below lists what tree walks through, from a directory to its brother. *)
LEMMA LinkChain ==
    ASSUME NEW disk, NEW n, Shape(disk, n), NEW e \in 1 .. n, disk.kind[e] = "dir",
           NEW s, s = scan_dir(disk, e), NEW k \in 1 .. Len(s), IsLink(s[k])
    PROVE  Chain(disk, e, <<s[k]>>, s[k], IF k < Len(s) THEN s[k + 1] ELSE brother(disk, Node(e)))
<1>1. Lists(disk, e, n, s) /\ s \in Seq(NodesOf(disk)) /\ Len(s) \in Nat
  BY ScanLists DEF Lists
<1>2. s[k] \in Kids(disk, e) /\ s[k] \in NodesOf(disk) /\ s[k][2] = e /\ e \in Nat
  <2>1. s[k] \in Kids(disk, e)
    BY <1>1 DEF Lists
  <2>2. s[k] \in NodesOf(disk) /\ s[k][2] = e
    BY <2>1, KidIs
  <2>3. e \in Nat
    BY DEF Shape
  <2> QED
    BY <2>1, <2>2, <2>3
<1>3. brother(disk, s[k]) = IF k < Len(s) THEN s[k + 1] ELSE NoNode
  BY BrotherAt
<1>4. k < Len(s) => s[k + 1] # NoNode
  <2>1. k < Len(s) => k + 1 \in 1 .. Len(s)
    BY <1>1
  <2>2. k < Len(s) => s[k + 1] \in NodesOf(disk)
    BY <1>1, <2>1
  <2> QED
    BY <2>2, NodeIs
<1>5. parent(disk, s[k]) = Node(e)
  BY <1>2 DEF Kids
<1>6. After(disk, s[k]) = IF k < Len(s) THEN s[k + 1] ELSE brother(disk, Node(e))
  BY <1>3, <1>4, <1>5 DEF After, IsDir
<1> QED
  BY <1>2, <1>6, ChainOne

LEMMA ChainFrom ==
    ASSUME NEW disk, NEW n, Shape(disk, n), NEW d \in Nat, NEW e \in Nat, e <= d, NEW s, NEW x, NEW y,
           Chain(disk, d, s, x, y)
    PROVE  Chain(disk, e, s, x, y)
<1>1. s \in Seq(NodesOf(disk))
  BY DEF Chain
<1>2. ASSUME NEW k \in 1 .. Len(s) PROVE s[k][2] >= e
  <2>1. s[k] \in NodesOf(disk) /\ s[k][2] >= d
    BY <1>1 DEF Chain
  <2>2. s[k][2] \in Nat
    BY <2>1, NodeIs
  <2> QED
    BY <2>1, <2>2
<1> QED
  BY <1>2 DEF Chain

LEMMA FileChain ==
    ASSUME NEW disk, NEW n, Shape(disk, n), NEW e \in 1 .. n, disk.kind[e] = "file"
    PROVE  Chain(disk, e, <<Node(e)>>, Node(e), brother(disk, Node(e)))
<1>1. Node(e) \in NodesOf(disk) /\ Node(e) # Node(Root) /\ ~ IsDir(disk, Node(e)) /\ Node(e)[2] >= e
  <2>1. disk.kind[Root] = "dir" /\ e \in Nat
    BY DEF Shape
  <2>2. Node(e)[2] = e /\ e # Root
    BY <2>1, Marks
  <2> QED
    BY <2>1, <2>2, NodeIn, Marks DEF IsDir
<1>2. PICK d \in 1 .. n : disk.kind[d] = "dir" /\ Node(e) \in Kids(disk, d) /\ parent(disk, Node(e)) = Node(d)
  BY <1>1, LiesIn
<1>3. d # Root => brother(disk, Node(e)) # NoNode
  BY <1>2, BrotherIs, Marks
<1>4. d = Root => brother(disk, Node(d)) = NoNode
  BY DEF brother
<1>5. After(disk, Node(e)) = brother(disk, Node(e))
  BY <1>1, <1>2, <1>3, <1>4 DEF After
<1> QED
  BY <1>1, <1>5, ChainOne

LEMMA DirChain ==
    ASSUME NEW disk, NEW n, Shape(disk, n), NEW e \in 1 .. n, disk.kind[e] = "dir", NEW f,
           \A c \in e + 1 .. n : Chain(disk, c, f[c], Node(c), brother(disk, Node(c)))
    PROVE  Chain(disk, e, Part(disk, e, f), Node(e), brother(disk, Node(e)))
<1>1. PICK s : s = scan_dir(disk, e) /\ Lists(disk, e, n, s)
  BY ScanLists
<1>2. s \in Seq(NodesOf(disk)) /\ Len(s) \in Nat /\ n \in Nat /\ e \in Nat
  BY <1>1 DEF Lists, Shape
<1>3. PICK b : b = Blocks(disk, s, f)
  OBVIOUS
<1>4. b \in Seq(Seq(NodesOf(disk))) /\ Len(b) = Len(s)
  <2>1. \A c \in e + 1 .. n : f[c] \in Seq(NodesOf(disk))
    BY DEF Chain
  <2> QED
    BY <1>1, <1>3, <2>1, BlocksType
<1>5. Part(disk, e, f) = <<Node(e)>> \o FlattenSeq(b)
  BY <1>1, <1>3 DEF Part
<1>6. Node(e) \in NodesOf(disk) /\ Node(e)[2] >= e
  BY <1>2, NodeIn, Marks
<1>7. After(disk, Node(e)) = IF Len(s) >= 1 THEN s[1] ELSE NoNode
  BY <1>1, ChildrenAre DEF After
<1>8. CASE Len(s) = 0
  <2>1. e = Root
    BY <1>1, <1>8 DEF Lists
  <2>2. brother(disk, Node(e)) = NoNode
    BY <2>1 DEF brother
  <2>3. FlattenSeq(b) = b /\ b = <<>>
    BY <1>4, <1>8 DEF FlattenSeq
  <2>4. Part(disk, e, f) = <<Node(e)>>
    BY <1>5, <1>6, <2>3
  <2> QED
    BY <1>6, <1>7, <1>8, <2>2, <2>4, ChainOne
<1>9. CASE Len(s) # 0
  <2>1. Len(s) >= 1 /\ Len(b) >= 1
    BY <1>2, <1>4, <1>9
  <2>2. PICK p : p = [k \in 1 .. Len(s) + 1 |-> IF k <= Len(s) THEN s[k] ELSE brother(disk, Node(e))]
    OBVIOUS
  <2>3. ASSUME NEW k \in 1 .. Len(s)
        PROVE  p[k] = s[k] /\ p[k + 1] = IF k < Len(s) THEN s[k + 1] ELSE brother(disk, Node(e))
    <3>1. /\ k \in 1 .. Len(s) + 1 /\ k + 1 \in 1 .. Len(s) + 1 /\ k <= Len(s)
          /\ k + 1 <= Len(s) <=> k < Len(s)
      BY <1>2
    <3> QED
      BY <2>2, <3>1
  <2>4. ASSUME NEW k \in 1 .. Len(b) PROVE Chain(disk, e, b[k], p[k], p[k + 1])
    <3>1. k \in 1 .. Len(s) /\ k \in DOMAIN s
      BY <1>2, <1>4
    <3>2. CASE IsLink(s[k])
      <4>1. b[k] = <<s[k]>>
        BY <1>3, <3>1, <3>2 DEF Blocks
      <4> QED
        BY <1>1, <2>3, <3>1, <3>2, <4>1, LinkChain
    <3>3. CASE ~ IsLink(s[k])
      <4>1. s[k] \in Kids(disk, e)
        BY <1>1, <3>1 DEF Lists
      <4>2. PICK c : c = s[k][2] /\ c \in e + 1 .. n /\ s[k] = Node(c)
        <5>1. s[k] \in NodesOf(disk) /\ s[k][2] \in 2 .. n /\ e < s[k][2]
          BY <3>3, <4>1, KidIs
        <5>2. s[k][2] \in e + 1 .. n
          BY <1>2, <5>1
        <5> QED
          BY <3>3, <5>1, <5>2, NodeIs
      <4>3. b[k] = f[c]
        BY <1>3, <3>1, <3>3, <4>2 DEF Blocks
      <4>4. brother(disk, s[k]) = IF k < Len(s) THEN s[k + 1] ELSE NoNode
        BY <1>1, <3>1, BrotherAt
      <4>5. ~ (k < Len(s)) => e = Root
        <5>1. ~ (k < Len(s)) => k = Len(s)
          BY <1>2, <3>1
        <5> QED
          BY <1>1, <3>3, <5>1 DEF Lists
      <4>6. e = Root => brother(disk, Node(e)) = NoNode
        BY DEF brother
      <4>7. brother(disk, Node(c)) = p[k + 1] /\ p[k] = Node(c)
        BY <2>3, <3>1, <4>2, <4>4, <4>5, <4>6
      <4>8. Chain(disk, c, b[k], p[k], p[k + 1])
        BY <4>2, <4>3, <4>7
      <4>9. c \in Nat /\ e <= c
        BY <1>2, <4>2
      <4> QED
        BY <1>2, <4>8, <4>9, ChainFrom
    <3> QED
      BY <3>2, <3>3
  <2>5. Chain(disk, e, FlattenSeq(b), p[1], p[Len(b) + 1])
    BY <1>4, <2>1, <2>4, ChainFlat
  <2>6. p[1] = s[1] /\ p[Len(b) + 1] = brother(disk, Node(e))
    <3>1. 1 \in 1 .. Len(s) /\ Len(s) \in 1 .. Len(s)
      BY <1>2, <2>1
    <3> QED
      BY <1>2, <1>4, <2>3, <3>1
  <2>7. Chain(disk, e, <<Node(e)>>, Node(e), s[1])
    BY <1>6, <1>7, <2>1, ChainOne
  <2> QED
    BY <1>5, <2>5, <2>6, <2>7, ChainJoin
<1> QED
  BY <1>8, <1>9

LEMMA BelowChain ==
    ASSUME NEW disk, NEW n, Shape(disk, n),
           NEW f, Parts(disk, n, f)
    PROVE  \A e \in 1 .. n : Chain(disk, e, f[e], Node(e), brother(disk, Node(e)))
<1>1. n \in Nat
  BY DEF Shape
<1> DEFINE Good(e) == Chain(disk, e, f[e], Node(e), brother(disk, Node(e)))
           S == {j \in 0 .. n : j = n \/ Good(n - j)}
<1>2. ASSUME NEW j \in 0 .. n, \A k \in 0 .. j - 1 : k \in S PROVE j \in S
  <2>1. CASE j = n
    BY <2>1
  <2>2. CASE j # n
    <3>1. PICK e : e = n - j /\ e \in 1 .. n
      BY <1>1, <2>2
    <3>2. ASSUME NEW c \in e + 1 .. n PROVE Good(c)
      <4>1. n - c \in 0 .. j - 1 /\ n - c # n /\ n - (n - c) = c
        BY <1>1, <3>1
      <4>2. n - c \in S
        BY <1>2, <4>1
      <4>3. Good(n - (n - c))
        BY <4>1, <4>2
      <4> HIDE DEF Good
      <4> QED
        BY <4>1, <4>3
    <3>3. f[e] = Part(disk, e, f)
      BY <3>1, PartAt
    <3>4. CASE disk.kind[e] = "dir"
      BY <3>1, <3>2, <3>3, <3>4, DirChain
    <3>5. CASE disk.kind[e] = "file"
      <4>1. f[e] = <<Node(e)>>
        BY <3>3, <3>5 DEF Part
      <4> QED
        BY <3>1, <3>5, <4>1, FileChain
    <3>6. Good(e)
      BY <3>1, <3>4, <3>5 DEF Shape
    <3> QED
      BY <3>1, <3>6
  <2> QED
    BY <2>1, <2>2
<1>3. \A j \in 0 .. n : j \in S
  <2> HIDE DEF S
  <2> QED
    BY <1>1, <1>2, Strongly
<1>4. SUFFICES ASSUME NEW e \in 1 .. n PROVE Good(e)
  OBVIOUS
<1>5. n - e \in 0 .. n /\ n - e # n /\ n - (n - e) = e
  BY <1>1
<1>6. n - e \in S
  BY <1>3, <1>5
<1>7. Good(n - (n - e))
  BY <1>5, <1>6
<1> HIDE DEF Good
<1> QED
  BY <1>5, <1>7

-----------------------------------------------------------------------------
(* A chain that leaves to an earlier entry comes to no node twice. *)
LEMMA ChainOnce ==
    ASSUME NEW disk, NEW n, Shape(disk, n), NEW e \in 1 .. n, NEW s, NEW x, NEW y,
           Chain(disk, e, s, x, y), y[2] < e
    PROVE  \A i, j \in 1 .. Len(s) : s[i] = s[j] => i = j
<1>1. PICK l : l = Len(s) /\ l \in Nat /\ s \in Seq(NodesOf(disk))
  BY DEF Chain
<1>2. ASSUME NEW i \in 1 .. l, NEW j \in 1 .. l, i < j, s[i] = s[j] PROVE FALSE
  <2>1. i \in Nat /\ j \in Nat /\ l - j \in Nat
    BY <1>1, <1>2
  <2> DEFINE S == {t \in 0 .. l - j : s[i + t] = s[j + t]}
  <2>2. 0 \in S
    BY <1>2, <2>1
  <2>3. ASSUME NEW t \in 0 .. (l - j) - 1, t \in S PROVE t + 1 \in S
    <3>1. i + t \in 1 .. l - 1 /\ j + t \in 1 .. l - 1 /\ t + 1 \in 0 .. l - j
      BY <1>1, <1>2, <2>1
    <3>2. s[(i + t) + 1] = After(disk, s[i + t]) /\ s[(j + t) + 1] = After(disk, s[j + t])
      BY <1>1, <3>1 DEF Chain
    <3>3. s[(i + t) + 1] = s[(j + t) + 1]
      BY <2>3, <3>2
    <3>4. (i + t) + 1 = i + (t + 1) /\ (j + t) + 1 = j + (t + 1)
      BY <2>1, <2>3
    <3>5. s[i + (t + 1)] = s[j + (t + 1)]
      BY <3>3, <3>4
    <3> QED
      BY <3>1, <3>5
  <2>4. \A t \in 0 .. l - j : t \in S
    <3> HIDE DEF S
    <3>1. PICK N : N = l - j /\ N \in Nat
      BY <2>1
    <3> QED
      BY <2>2, <2>3, <3>1, Upwards
  <2>5. l - j \in 0 .. l - j /\ j + (l - j) = l
    BY <1>1, <2>1
  <2>6. s[i + (l - j)] = s[l]
    BY <2>4, <2>5
  <2>7. PICK k : k = i + (l - j) /\ k \in 1 .. l - 1 /\ k + 1 \in 1 .. l
    BY <1>1, <1>2, <2>1
  <2>8. s[k + 1] = y
    <3>1. s[k + 1] = After(disk, s[k]) /\ After(disk, s[l]) = y
      BY <1>1, <2>7 DEF Chain
    <3> QED
      BY <2>6, <2>7, <3>1
  <2>9. s[k + 1] \in NodesOf(disk) /\ s[k + 1][2] >= e
    BY <1>1, <2>7 DEF Chain
  <2>10. s[k + 1][2] \in 1 .. n /\ n \in Nat
    BY <2>9, NodeIs DEF Shape
  <2> QED
    BY <2>8, <2>9, <2>10
<1>3. ASSUME NEW i \in 1 .. l, NEW j \in 1 .. l, s[i] = s[j] PROVE i = j
  <2>1. i < j \/ j < i \/ i = j
    BY <1>1
  <2> QED
    BY <1>2, <1>3, <2>1
<1> QED
  BY <1>1, <1>3

LEMMA NodesFinite ==
    ASSUME NEW disk, NEW n, Shape(disk, n)
    PROVE  IsFiniteSet(NodesOf(disk))
<1>1. n \in Nat
  BY DEF Shape
<1>2. PICK f : f = [x \in NodesOf(disk) |->
                      IF ~ IsLink(x) THEN 3 * x[2] ELSE IF x = Dot(x[2]) THEN 3 * x[2] + 1 ELSE 3 * x[2] + 2]
  OBVIOUS
<1>3. ASSUME NEW x \in NodesOf(disk)
      PROVE  /\ f[x] \in 0 .. 3 * n + 2 /\ f[x] \div 3 = x[2]
             /\ f[x] % 3 = IF ~ IsLink(x) THEN 0 ELSE IF x = Dot(x[2]) THEN 1 ELSE 2
  <2>1. PICK e : e = x[2] /\ e \in 1 .. n
    BY NodeIs
  <2>2. CASE ~ IsLink(x)
    BY <1>1, <1>2, <2>1, <2>2
  <2>3. CASE IsLink(x) /\ x = Dot(x[2])
    BY <1>1, <1>2, <2>1, <2>3
  <2>4. CASE IsLink(x) /\ x # Dot(x[2])
    BY <1>1, <1>2, <2>1, <2>4
  <2> QED
    BY <2>2, <2>3, <2>4
<1>4. ASSUME NEW x \in NodesOf(disk), NEW y \in NodesOf(disk), f[x] = f[y] PROVE x = y
  <2>1. x[2] = y[2] /\ f[x] % 3 = f[y] % 3
    BY <1>3, <1>4
  <2>2. /\ IsLink(x) <=> IsLink(y)
        /\ IsLink(x) => (x = Dot(x[2]) <=> y = Dot(y[2]))
    BY <1>3, <2>1
  <2> QED
    BY <2>1, <2>2, NodeIs
<1>5. f \in Injection(NodesOf(disk), 0 .. 3 * n + 2)
  <2>1. f \in [NodesOf(disk) -> 0 .. 3 * n + 2]
    BY <1>2, <1>3
  <2> QED
    BY <1>4, <2>1 DEF Injection, IsInjective
<1>6. IsFiniteSet(0 .. 3 * n + 2)
  BY <1>1, FS_Interval
<1> QED
  BY <1>5, <1>6, FS_Injection

LEMMA ChainLength ==
    ASSUME NEW disk, NEW n, Shape(disk, n), NEW s \in Seq(NodesOf(disk)),
           \A i, j \in 1 .. Len(s) : s[i] = s[j] => i = j
    PROVE  Cardinality(NodesOf(disk)) \in Nat /\ Len(s) <= Cardinality(NodesOf(disk))
<1>1. IsFiniteSet(NodesOf(disk))
  BY NodesFinite
<1>2. s \in Injection(1 .. Len(s), NodesOf(disk))
  <2>1. s \in [1 .. Len(s) -> NodesOf(disk)]
    OBVIOUS
  <2> QED
    BY <2>1 DEF Injection, IsInjective
<1>3. Cardinality(1 .. Len(s)) <= Cardinality(NodesOf(disk))
  BY <1>1, <1>2, FS_Injection
<1>4. Cardinality(1 .. Len(s)) = Len(s)
  BY FS_Interval
<1> QED
  BY <1>1, <1>3, <1>4, FS_CardinalityType

-----------------------------------------------------------------------------
(* The lines the loop of tree prints, and one round of it. *)
Lines(disk) == [node : NodesOf(disk), deep : Int]
Printed(disk) == {s \in Seq(Lines(disk)) : Len(s) >= 1}

Round(disk, cur, k, before) ==
    IF Len(before) < k - 1 \/ TreeStep(disk, before[Len(before)]).node \in {NoNode, cur}
    THEN before ELSE Append(before, TreeStep(disk, before[Len(before)]))

TreeLoop(disk, cur, f) ==
    f = [k \in 1 .. Cardinality(NodesOf(disk)) + 1 |->
          IF k = 1 THEN << [node |-> cur, deep |-> -1] >> ELSE Round(disk, cur, k, f[k - 1])]

LEMMA RoundType ==
    ASSUME NEW disk, NEW n, Shape(disk, n), NEW cur, NEW k, NEW before \in Printed(disk)
    PROVE  Round(disk, cur, k, before) \in Printed(disk)
<1>1. before \in Seq(Lines(disk)) /\ Len(before) \in Nat /\ Len(before) >= 1
  BY DEF Printed
<1>2. PICK at : at = before[Len(before)] /\ at \in Lines(disk)
  BY <1>1
<1>3. PICK to : to = TreeStep(disk, at)
  OBVIOUS
<1>4. to.node \notin {NoNode, cur} => to \in Lines(disk)
  <2>1. /\ to.node = After(disk, at.node) /\ to = [node |-> After(disk, at.node), deep |-> to.deep]
        /\ to.deep \in Int /\ After(disk, at.node) \in NodesOf(disk) \cup {NoNode}
    BY <1>2, <1>3, TreeStepIs DEF Lines
  <2> QED
    BY <2>1 DEF Lines
<1>5. CASE Len(before) < k - 1 \/ to.node \in {NoNode, cur}
  BY <1>2, <1>3, <1>5 DEF Round
<1>6. CASE ~ (Len(before) < k - 1 \/ to.node \in {NoNode, cur})
  <2>1. Round(disk, cur, k, before) = Append(before, to)
    BY <1>2, <1>3, <1>6 DEF Round
  <2>2. to \in Lines(disk)
    BY <1>4, <1>6
  <2>3. Append(before, to) \in Seq(Lines(disk)) /\ Len(Append(before, to)) = Len(before) + 1
    BY <1>1, <2>2
  <2> QED
    BY <1>1, <2>1, <2>3 DEF Printed
<1> QED
  BY <1>5, <1>6

LEMMA TreeIsLoop ==
    ASSUME NEW disk, NEW n, Shape(disk, n), NEW cur \in NodesOf(disk),
           Cardinality(NodesOf(disk)) \in Nat
    PROVE  \E f : /\ TreeLoop(disk, cur, f)
                  /\ walk(disk, cur) = f[Cardinality(NodesOf(disk)) + 1]
<1>1. PICK c : c = Cardinality(NodesOf(disk)) /\ c \in Nat
  OBVIOUS
<1>2. PICK first : first = << [node |-> cur, deep |-> -1] >>
  OBVIOUS
<1>3. first \in Printed(disk)
  <2>1. [node |-> cur, deep |-> -1] \in Lines(disk)
    BY DEF Lines
  <2>2. first \in Seq(Lines(disk)) /\ Len(first) = 1
    BY <1>2, <2>1
  <2> QED
    BY <2>2 DEF Printed
<1> DEFINE D == 1 .. c + 1
           R == Printed(disk)
           m == [k \in D |-> k]
           H == [k \in D |-> [f \in [D -> R] |-> IF k = 1 THEN first ELSE Round(disk, cur, k, f[k - 1])]]
<1>4. R # {} /\ m \in [D -> 0 .. c + 1] /\ c + 1 \in Nat
  BY <1>1, <1>3
<1>5. H \in [D -> [[D -> R] -> R]]
  <2>1. ASSUME NEW k \in D, NEW f \in [D -> R]
        PROVE  (IF k = 1 THEN first ELSE Round(disk, cur, k, f[k - 1])) \in R
    <3>1. k # 1 => k - 1 \in D
      BY <1>1
    <3>2. k # 1 => f[k - 1] \in R
      <4> HIDE DEF D, R
      <4> QED
        BY <2>1, <3>1
    <3> QED
      BY <1>3, <3>2, RoundType
  <2> QED
    BY <2>1
<1>6. LooksBack(D, R, m, H)
  <2>1. SUFFICES ASSUME NEW k \in D, NEW f \in [D -> R], NEW g \in [D -> R],
                        \A y \in D : m[y] < m[k] => f[y] = g[y]
                 PROVE  H[k][f] = H[k][g]
    BY DEF LooksBack
  <2>2. k # 1 => f[k - 1] = g[k - 1]
    BY <1>1, <2>1
  <2> QED
    BY <2>2
<1>7. PICK f : Solves(D, R, H, f)
  <2> HIDE DEF D, R, m, H
  <2> QED
    BY <1>4, <1>5, <1>6, Course
<1>8. f \in [D -> R] /\ \A k \in D : f[k] = H[k][f]
  BY <1>7 DEF Solves
<1>9. TreeLoop(disk, cur, f)
  BY <1>1, <1>2, <1>8 DEF TreeLoop
<1>10. PICK g : g = CHOOSE h : TreeLoop(disk, cur, h)
  OBVIOUS
<1>11. TreeLoop(disk, cur, g)
  BY <1>9, <1>10
<1>12. walk(disk, cur) = g[c + 1]
  BY <1>1, <1>10 DEF walk, TreeLoop, Round
<1> QED
  BY <1>1, <1>11, <1>12

LEMMA TreeRounds ==
    ASSUME NEW disk, NEW cur, NEW f, TreeLoop(disk, cur, f), Cardinality(NodesOf(disk)) \in Nat
    PROVE  /\ f[1] = << [node |-> cur, deep |-> -1] >>
           /\ \A k \in 1 .. Cardinality(NodesOf(disk)) : f[k + 1] = Round(disk, cur, k + 1, f[k])
<1>1. PICK c : c = Cardinality(NodesOf(disk)) /\ c \in Nat
  OBVIOUS
<1>2. f[1] = << [node |-> cur, deep |-> -1] >>
  BY <1>1 DEF TreeLoop
<1>3. ASSUME NEW k \in 1 .. c PROVE f[k + 1] = Round(disk, cur, k + 1, f[k])
  <2>1. k + 1 \in 1 .. c + 1 /\ k + 1 # 1 /\ (k + 1) - 1 = k
    BY <1>1
  <2> QED
    BY <1>1, <2>1 DEF TreeLoop
<1> QED
  BY <1>1, <1>2, <1>3

LEMMA DepthType ==
    ASSUME NEW disk, NEW n, Shape(disk, n), NEW x \in NodesOf(disk)
    PROVE  Depth(disk, x) \in Nat
<1>1. PICK f : f \in [1 .. n -> Seq(1 .. n)] /\ \A y : print_path(disk, y) = f[y[2]]
  BY PathIsLoop
<1>2. f[x[2]] \in Seq(1 .. n)
  BY <1>1, NodeIs
<1>3. Len(f[x[2]]) \in Nat
  BY <1>2
<1> QED
  BY <1>1, <1>3 DEF Depth

(* What lies below a directory, as lines: each follows from the one before. *)
Follows(disk, cur, t) ==
    /\ t \in Printed(disk) /\ t[1] = [node |-> cur, deep |-> -1]
    /\ \A k \in 1 .. Len(t) - 1 : /\ TreeStep(disk, t[k]) = t[k + 1]
                                  /\ t[k + 1].node \notin {NoNode, cur}
    /\ Len(t) <= Cardinality(NodesOf(disk)) /\ Cardinality(NodesOf(disk)) \in Nat

LEMMA BelowFollows ==
    ASSUME NEW disk, NEW n, Shape(disk, n), NEW d \in 1 .. n, disk.kind[d] = "dir"
    PROVE  /\ Follows(disk, Node(d), Below(disk, d))
           /\ d = Root => TreeStep(disk, Below(disk, d)[Len(Below(disk, d))]).node = NoNode
           /\ \A i, j \in 1 .. Len(Below(disk, d)) :
                 Below(disk, d)[i].node = Below(disk, d)[j].node => i = j
<1>1. PICK f : /\ Parts(disk, n, f)
               /\ Below(disk, d) =
                    [k \in DOMAIN f[d] |->
                       [node |-> f[d][k], deep |-> Depth(disk, f[d][k]) - (Depth(disk, Node(d)) + 1)]]
  BY BelowIsLoop
<1>2. PICK b : b = f[d] /\ Chain(disk, d, b, Node(d), brother(disk, Node(d)))
  BY <1>1, BelowChain
<1>3. PICK l : l = Len(b) /\ l \in Nat /\ l >= 1 /\ b \in Seq(NodesOf(disk)) /\ b[1] = Node(d)
  BY <1>2 DEF Chain
<1>4. PICK top : top = Depth(disk, Node(d)) /\ top \in Nat
  BY NodeIn, DepthType
<1>5. PICK t : t = Below(disk, d)
  OBVIOUS
<1>6. t = [k \in 1 .. l |-> [node |-> b[k], deep |-> Depth(disk, b[k]) - (top + 1)]]
  BY <1>1, <1>2, <1>3, <1>4, <1>5
<1>7. ASSUME NEW k \in 1 .. l
      PROVE  /\ t[k] \in Lines(disk) /\ t[k].node = b[k] /\ b[k] \in NodesOf(disk)
             /\ t[k].deep = Depth(disk, b[k]) - (top + 1) /\ Depth(disk, b[k]) \in Nat
             /\ t[k] = [node |-> b[k], deep |-> Depth(disk, b[k]) - (top + 1)]
  <2>1. t[k] = [node |-> b[k], deep |-> Depth(disk, b[k]) - (top + 1)]
    BY <1>6
  <2>2. b[k] \in NodesOf(disk)
    BY <1>3
  <2>3. Depth(disk, b[k]) \in Nat
    BY <2>2, DepthType
  <2>4. Depth(disk, b[k]) - (top + 1) \in Int
    BY <1>4, <2>3
  <2> QED
    BY <2>1, <2>2, <2>3, <2>4 DEF Lines
<1>8. t \in Seq(Lines(disk)) /\ Len(t) = l /\ t \in Printed(disk)
  <2>1. t \in [1 .. l -> Lines(disk)]
    BY <1>6, <1>7
  <2>2. t \in Seq(Lines(disk)) /\ Len(t) = l
    BY <1>3, <2>1
  <2> QED
    BY <1>3, <2>2 DEF Printed
<1>9. t[1] = [node |-> Node(d), deep |-> -1]
  <2>1. 1 \in 1 .. l
    BY <1>3
  <2>2. t[1] = [node |-> Node(d), deep |-> top - (top + 1)]
    BY <1>3, <1>4, <1>7, <2>1
  <2>3. top - (top + 1) = -1
    BY <1>4
  <2> QED
    BY <2>2, <2>3
<1>10. brother(disk, Node(d))[2] < d /\ (d = Root => brother(disk, Node(d)) = NoNode)
  <2>1. CASE d = Root
    BY <2>1, Marks DEF brother, Shape
  <2>2. CASE d # Root
    <3>1. Node(d) \in NodesOf(disk) /\ Node(d) # Node(Root)
      BY <2>2, NodeIn, Marks
    <3>2. PICK c \in 1 .. n : disk.kind[c] = "dir" /\ Node(d) \in Kids(disk, c)
      BY <3>1, LiesIn
    <3> QED
      BY <2>2, <3>2, BrotherIs, Marks
  <2> QED
    BY <2>1, <2>2
<1>11. \A i, j \in 1 .. l : b[i] = b[j] => i = j
  BY <1>2, <1>3, <1>10, ChainOnce
<1>12. l <= Cardinality(NodesOf(disk)) /\ Cardinality(NodesOf(disk)) \in Nat
  BY <1>3, <1>11, ChainLength
<1>13. ASSUME NEW k \in 1 .. l - 1
       PROVE  TreeStep(disk, t[k]) = t[k + 1] /\ t[k + 1].node \notin {NoNode, Node(d)}
  <2>1. k \in 1 .. l /\ k + 1 \in 1 .. l /\ 1 \in 1 .. l /\ k + 1 # 1
    BY <1>3
  <2>2. b[k + 1] = After(disk, b[k])
    BY <1>2, <1>3 DEF Chain
  <2>3. b[k + 1] # NoNode /\ b[k + 1] # Node(d)
    BY <1>3, <1>7, <1>11, <2>1, NodeIs
  <2>4. PICK deep : deep = TreeStep(disk, t[k]).deep
    OBVIOUS
  <2>5. /\ TreeStep(disk, t[k]) = [node |-> b[k + 1], deep |-> deep] /\ deep \in Int
        /\ deep - t[k].deep = Depth(disk, b[k + 1]) - Depth(disk, b[k])
    <3>1. PICK at : at = t[k] /\ at \in [node : NodesOf(disk), deep : Int] /\ at.node = b[k]
      BY <1>7, <2>1 DEF Lines
    <3>2. After(disk, at.node) = b[k + 1] /\ After(disk, at.node) # NoNode
      BY <2>2, <2>3, <3>1
    <3> QED
      BY <2>4, <3>1, <3>2, TreeStepIs
  <2>6. t[k].deep = Depth(disk, b[k]) - (top + 1) /\ Depth(disk, b[k]) \in Nat
        /\ Depth(disk, b[k + 1]) \in Nat
    BY <1>7, <2>1
  <2>7. deep = Depth(disk, b[k + 1]) - (top + 1)
    BY <1>4, <2>5, <2>6
  <2> QED
    BY <1>7, <2>1, <2>3, <2>5, <2>7
<1>14. Follows(disk, Node(d), t)
  BY <1>8, <1>9, <1>12, <1>13 DEF Follows
<1>15. d = Root => TreeStep(disk, t[l]).node = NoNode
  <2>1. l \in 1 .. l
    BY <1>3
  <2>2. TreeStep(disk, t[l]).node = After(disk, b[l])
    <3>1. PICK at : at = t[l] /\ at \in [node : NodesOf(disk), deep : Int] /\ at.node = b[l]
      BY <1>7, <2>1 DEF Lines
    <3> QED
      BY <3>1, TreeStepIs
  <2>3. After(disk, b[l]) = brother(disk, Node(d))
    BY <1>2, <1>3 DEF Chain
  <2> QED
    BY <1>10, <2>2, <2>3
<1>16. \A i, j \in 1 .. l : t[i].node = t[j].node => i = j
  <2>1. \A i \in 1 .. l : t[i].node = b[i]
    BY <1>7
  <2> QED
    BY <1>11, <2>1
<1> QED
  BY <1>5, <1>8, <1>14, <1>15, <1>16

(* What is printed after k lines, where t goes first and may be the end. *)
Shown(disk, t, ends, k, s) ==
    /\ s \in Printed(disk)
    /\ k <= Len(t) => Len(s) = k
    /\ k > Len(t) => Len(s) >= Len(t) /\ (ends => Len(s) = Len(t))
    /\ \A i \in 1 .. Len(t) : i <= k => s[i] = t[i]

(* The loop prints these lines first, and no more if they end with no node. *)
LEMMA TreePrints ==
    ASSUME NEW disk, NEW n, Shape(disk, n), NEW cur \in NodesOf(disk), NEW t, Follows(disk, cur, t)
    PROVE  /\ IsPrefix(t, walk(disk, cur))
           /\ TreeStep(disk, t[Len(t)]).node = NoNode => walk(disk, cur) = t
<1>1. PICK c : c = Cardinality(NodesOf(disk)) /\ c \in Nat
  BY DEF Follows
<1>2. PICK l : l = Len(t) /\ l \in 1 .. c /\ t \in Seq(Lines(disk)) /\ l \in Nat
  BY <1>1 DEF Follows, Printed
<1>3. PICK f : TreeLoop(disk, cur, f) /\ walk(disk, cur) = f[c + 1]
  BY <1>1, TreeIsLoop
<1>4. /\ f[1] = << [node |-> cur, deep |-> -1] >>
      /\ \A k \in 1 .. c : f[k + 1] = Round(disk, cur, k + 1, f[k])
  BY <1>1, <1>3, TreeRounds
<1>0. PICK ends \in BOOLEAN : ends <=> TreeStep(disk, t[l]).node = NoNode
  OBVIOUS
<1> DEFINE S == {k \in 0 .. c : Shown(disk, t, ends, k + 1, f[k + 1])}
<1>5. 0 \in S
  <2>1. PICK s : s = << [node |-> cur, deep |-> -1] >>
    OBVIOUS
  <2>2. s[1] = t[1] /\ Len(s) = 1
    BY <2>1 DEF Follows
  <2>3. t[1] \in Lines(disk)
    BY <1>1, <1>2
  <2>4. s \in Printed(disk)
    BY <2>1, <2>3 DEF Printed, Follows
  <2>5. 0 + 1 <= l /\ ~ (0 + 1 > l) /\ \A i \in 1 .. l : i <= 0 + 1 => i = 1
    BY <1>1, <1>2
  <2>6. Shown(disk, t, ends, 0 + 1, s)
    BY <1>2, <2>2, <2>4, <2>5 DEF Shown
  <2>7. f[0 + 1] = s /\ 0 \in 0 .. c
    BY <1>1, <1>4, <2>1
  <2> QED
    BY <2>6, <2>7
<1>6. ASSUME NEW k \in 0 .. c - 1, k \in S PROVE k + 1 \in S
  <2>1. PICK j : j = k + 1 /\ j \in 1 .. c /\ j + 1 = (k + 1) + 1 /\ j \in Nat
    BY <1>1
  <2>2. PICK s : s = f[j] /\ Shown(disk, t, ends, j, s) /\ s \in Printed(disk)
    BY <1>6, <2>1 DEF Shown
  <2>3. PICK r : r = f[j + 1] /\ r = Round(disk, cur, j + 1, s)
    BY <1>4, <2>1, <2>2
  <2>4. r \in Printed(disk) /\ r \in Seq(Lines(disk)) /\ Len(r) \in Nat
    BY <2>2, <2>3, RoundType DEF Printed
  <2>5. s \in Seq(Lines(disk)) /\ Len(s) \in Nat /\ Len(s) >= 1
    BY <2>2 DEF Printed
  <2>6. r = s \/ r = Append(s, TreeStep(disk, s[Len(s)]))
    BY <2>3 DEF Round
  <2>7. Len(r) >= Len(s) /\ \A i \in 1 .. Len(s) : r[i] = s[i]
    BY <2>5, <2>6
  <2>8. CASE j < l
    <3>1. Len(s) = j /\ j \in 1 .. l - 1 /\ j \in 1 .. l /\ j + 1 \in 1 .. l
      BY <1>2, <2>1, <2>2, <2>8 DEF Shown
    <3>2. \A i \in 1 .. l : i <= j => s[i] = t[i]
      BY <1>2, <2>2 DEF Shown
    <3>3. TreeStep(disk, s[j]) = t[j + 1] /\ t[j + 1].node \notin {NoNode, cur}
      <4>1. s[j] = t[j]
        BY <2>1, <3>1, <3>2
      <4> QED
        BY <1>2, <3>1, <4>1 DEF Follows
    <3>4. r = Append(s, t[j + 1])
      <4>1. ~ (Len(s) < (j + 1) - 1)
        BY <2>1, <3>1
      <4> QED
        BY <2>3, <3>1, <3>3, <4>1 DEF Round
    <3>5. Len(r) = j + 1 /\ r[j + 1] = t[j + 1]
      <4>1. Len(Append(s, t[j + 1])) = Len(s) + 1 /\ Append(s, t[j + 1])[Len(s) + 1] = t[j + 1]
        BY <2>5
      <4>2. Len(s) = j
        BY <3>1
      <4> QED
        BY <3>4, <4>1, <4>2, Zenon
    <3>6. ASSUME NEW i \in 1 .. l, i <= j + 1 PROVE r[i] = t[i]
      <4>1. i = j + 1 \/ (i <= j /\ i \in 1 .. Len(s))
        BY <2>1, <3>1, <3>6
      <4> QED
        BY <2>7, <3>2, <3>5, <3>6, <4>1
    <3>7. j + 1 <= l /\ ~ (j + 1 > l)
      BY <1>2, <2>1, <2>8
    <3>8. Shown(disk, t, ends, j + 1, r)
      BY <1>2, <2>4, <3>5, <3>6, <3>7 DEF Shown
    <3>9. j \in S
      <4>1. j \in 0 .. c /\ f[j + 1] = r
        BY <1>1, <2>1, <2>3
      <4> QED
        BY <4>1, <3>8
    <3> QED
      BY <2>1, <3>9
  <2>9. CASE ~ (j < l)
    <3>1. Len(s) >= l /\ (ends => Len(s) = l) /\ \A i \in 1 .. l : s[i] = t[i] /\ i \in 1 .. Len(s)
      <4>1. j = l \/ j > l
        BY <1>2, <2>1, <2>9
      <4>2. Len(s) >= l /\ (ends => Len(s) = l)
        BY <1>2, <2>1, <2>2, <4>1 DEF Shown
      <4>3. ASSUME NEW i \in 1 .. l PROVE s[i] = t[i] /\ i \in 1 .. Len(s)
        <5>1. i <= j
          BY <1>2, <2>1, <4>1
        <5> QED
          BY <1>2, <2>2, <2>5, <4>2, <5>1 DEF Shown
      <4> QED
        BY <4>2, <4>3
    <3>2. j + 1 > l /\ ~ (j + 1 <= l)
      BY <1>2, <2>1, <2>9
    <3>3. ASSUME ends PROVE Len(r) = l
      <4>1. Len(s) = l /\ s[l] = t[l]
        BY <1>2, <3>1, <3>3
      <4>2. TreeStep(disk, s[Len(s)]).node = NoNode
        BY <1>0, <3>3, <4>1
      <4>3. r = s
        BY <2>3, <4>2 DEF Round
      <4> QED
        BY <4>1, <4>3
    <3>4. Len(r) >= l /\ \A i \in 1 .. l : r[i] = t[i]
      BY <1>2, <2>4, <2>5, <2>7, <3>1
    <3>5. Shown(disk, t, ends, j + 1, r)
      BY <1>2, <2>4, <3>2, <3>3, <3>4 DEF Shown
    <3>9. j \in S
      <4>1. j \in 0 .. c /\ f[j + 1] = r
        BY <1>1, <2>1, <2>3
      <4> QED
        BY <4>1, <3>5
    <3> QED
      BY <2>1, <3>9
  <2> QED
    BY <2>8, <2>9
<1>7. \A k \in 0 .. c : k \in S
  <2> HIDE DEF S
  <2> QED
    BY <1>1, <1>5, <1>6, Upwards
<1>8. PICK s : s = walk(disk, cur) /\ Shown(disk, t, ends, c + 1, s)
  <2>1. c \in 0 .. c
    BY <1>1
  <2> QED
    BY <1>3, <1>7, <2>1
<1>9. /\ s \in Seq(Lines(disk)) /\ Len(s) \in Nat /\ Len(s) >= l /\ (ends => Len(s) = l)
      /\ \A i \in 1 .. l : s[i] = t[i]
  <2>1. c + 1 > l /\ \A i \in 1 .. l : i <= c + 1
    BY <1>1, <1>2
  <2>2. s \in Seq(Lines(disk)) /\ Len(s) \in Nat
    BY <1>8 DEF Printed, Shown
  <2> QED
    BY <1>2, <1>8, <2>1, <2>2 DEF Shown
<1>10. IsPrefix(t, s)
  <2>1. SubSeq(t, 1, l) = SubSeq(s, 1, l)
    <3>1. /\ SubSeq(t, 1, l) = [i \in 1 .. l |-> t[i]]
          /\ SubSeq(s, 1, l) = [i \in 1 .. l |-> s[i]]
      BY <1>2, <1>9
    <3>2. [i \in 1 .. l |-> t[i]] = [i \in 1 .. l |-> s[i]]
      BY <1>9
    <3> QED
      BY <3>1, <3>2
  <2> QED
    BY <1>2, <1>9, <2>1 DEF IsPrefix
<1>11. ASSUME ends PROVE s = t
  <2>1. Len(s) = l /\ Len(t) = l
    BY <1>2, <1>9, <1>11
  <2>2. s = [i \in 1 .. l |-> s[i]] /\ t = [i \in 1 .. l |-> t[i]]
    BY <1>2, <1>9, <2>1
  <2>3. [i \in 1 .. l |-> s[i]] = [i \in 1 .. l |-> t[i]]
    BY <1>9
  <2> QED
    BY <2>2, <2>3
<1> QED
  BY <1>0, <1>2, <1>8, <1>10, <1>11

-----------------------------------------------------------------------------
(* Every entry stands below the root. *)
Has(s, x) == \E k \in 1 .. Len(s) : s[k] = x

LEMMA HasJoin ==
    ASSUME NEW T, NEW s \in Seq(T), NEW t \in Seq(T), NEW x, Has(s, x) \/ Has(t, x)
    PROVE  Has(s \o t, x)
<1>1. /\ Len(s \o t) = Len(s) + Len(t) /\ Len(s) \in Nat /\ Len(t) \in Nat
      /\ \A k \in 1 .. Len(s) : (s \o t)[k] = s[k]
      /\ \A k \in 1 .. Len(t) : (s \o t)[Len(s) + k] = t[k]
  OBVIOUS
<1>2. ASSUME NEW k \in 1 .. Len(s), s[k] = x PROVE Has(s \o t, x)
  <2>1. k \in 1 .. Len(s \o t)
    BY <1>1
  <2> QED
    BY <1>1, <1>2, <2>1 DEF Has
<1>3. ASSUME NEW k \in 1 .. Len(t), t[k] = x PROVE Has(s \o t, x)
  <2>1. Len(s) + k \in 1 .. Len(s \o t)
    BY <1>1
  <2> QED
    BY <1>1, <1>3, <2>1 DEF Has
<1> QED
  BY <1>2, <1>3 DEF Has

LEMMA FlattenHas ==
    ASSUME NEW T, NEW b \in Seq(Seq(T)), NEW k \in 1 .. Len(b), NEW x, Has(b[k], x)
    PROVE  Has(FlattenSeq(b), x)
<1>1. Len(b) \in Nat /\ Len(b) >= 1 /\ k \in Nat
  OBVIOUS
<1>2. PICK f : FlattenLoop(b, f) /\ FlattenSeq(b) = f[Len(b)]
  BY <1>1, FlattenIsLoop
<1>3. f[1] = b[1] /\ \A i \in 1 .. Len(b) - 1 : f[i + 1] = f[i] \o b[i + 1]
  BY <1>1, <1>2, FlattenAt
<1> DEFINE S == {i \in 0 .. Len(b) - 1 : f[i + 1] \in Seq(T) /\ (k <= i + 1 => Has(f[i + 1], x))}
<1>4. 0 \in S
  <2>1. 0 \in 0 .. Len(b) - 1 /\ 1 \in 1 .. Len(b) /\ 0 + 1 = 1 /\ (k <= 1 => k = 1)
    BY <1>1
  <2>2. f[1] \in Seq(T)
    BY <1>3, <2>1
  <2>3. k <= 1 => Has(f[1], x)
    BY <1>3, <2>1
  <2> QED
    BY <2>1, <2>2, <2>3
<1>5. ASSUME NEW i \in 0 .. (Len(b) - 1) - 1, i \in S PROVE i + 1 \in S
  <2>1. PICK j : j = i + 1 /\ j \in 1 .. Len(b) - 1 /\ j + 1 \in 1 .. Len(b) /\ j \in 0 .. Len(b) - 1
    BY <1>1
  <2>2. f[j + 1] = f[j] \o b[j + 1] /\ b[j + 1] \in Seq(T)
    <3>1. b[j + 1] \in Seq(T)
      BY <2>1
    <3>2. f[j + 1] = f[j] \o b[j + 1]
      BY <1>3, <2>1
    <3> QED
      BY <3>1, <3>2
  <2>3. f[j] \in Seq(T) /\ (k <= j => Has(f[j], x))
    BY <1>5, <2>1
  <2>4. f[j + 1] \in Seq(T)
    BY <2>2, <2>3
  <2>5. k <= j + 1 => k <= j \/ k = j + 1
    BY <1>1, <2>1
  <2>6. k <= j + 1 => Has(f[j + 1], x)
    BY <2>2, <2>3, <2>5, HasJoin
  <2>7. j \in S
    BY <2>1, <2>4, <2>6
  <2> QED
    BY <2>1, <2>7
<1>6. \A i \in 0 .. Len(b) - 1 : i \in S
  <2> HIDE DEF S
  <2>1. PICK N : N = Len(b) - 1 /\ N \in Nat
    BY <1>1
  <2> QED
    BY <1>4, <1>5, <2>1, Upwards
<1>7. Len(b) - 1 \in 0 .. Len(b) - 1 /\ (Len(b) - 1) + 1 = Len(b) /\ k <= Len(b)
  BY <1>1
<1>8. Has(f[(Len(b) - 1) + 1], x)
  BY <1>6, <1>7
<1> QED
  BY <1>2, <1>7, <1>8

(* A directory holds what the entries in it hold. *)
LEMMA PartHas ==
    ASSUME NEW disk, NEW n, Shape(disk, n), NEW f, NEW d \in 2 .. n, NEW e, e = disk.in[d],
           \A c \in 1 .. n : f[c] \in Seq(NodesOf(disk)), NEW x, Has(f[d], x)
    PROVE  Has(Part(disk, e, f), x)
<1>1. e \in 1 .. d - 1 /\ disk.kind[e] = "dir" /\ e \in 1 .. n /\ d \in 1 .. n /\ n \in Nat /\ d # Root
  BY DEF Shape, Root
<1>2. PICK s : s = scan_dir(disk, e) /\ Lists(disk, e, n, s)
  BY <1>1, ScanLists
<1>3. s \in Seq(NodesOf(disk)) /\ DOMAIN s = 1 .. Len(s)
  BY <1>2 DEF Lists
<1>4. Node(d) \in Kids(disk, e) /\ ~ IsLink(Node(d)) /\ Node(d)[2] = d /\ d <= n
  <2>1. parent(disk, Node(d)) = Node(e)
    BY <1>1, Marks DEF parent
  <2> QED
    BY <1>1, <2>1, NodeIn, Marks DEF Kids
<1>5. PICK k \in 1 .. Len(s) : s[k] = Node(d)
  BY <1>2, <1>4 DEF Lists
<1>6. PICK b : b = Blocks(disk, s, f)
  OBVIOUS
<1>7. b \in Seq(Seq(NodesOf(disk))) /\ Len(b) = Len(s)
  <2>1. \A c \in e + 1 .. n : f[c] \in Seq(NodesOf(disk))
    BY <1>1
  <2> QED
    BY <1>1, <1>2, <1>6, <2>1, BlocksType
<1>8. b[k] = f[d] /\ k \in 1 .. Len(b)
  BY <1>3, <1>4, <1>5, <1>6, <1>7 DEF Blocks
<1>9. Has(FlattenSeq(b), x)
  BY <1>7, <1>8, FlattenHas
<1>10. Part(disk, e, f) = <<Node(e)>> \o FlattenSeq(b)
  BY <1>1, <1>2, <1>6 DEF Part
<1>11. PICK t : t = FlattenSeq(b) /\ t \in Seq(NodesOf(disk)) /\ Has(t, x)
  BY <1>7, <1>9, FlattenType
<1>12. PICK u : u = <<Node(e)>> /\ u \in Seq(NodesOf(disk))
  <2>1. Node(e) \in NodesOf(disk)
    BY <1>1, NodeIn
  <2>2. <<Node(e)>> \in Seq(NodesOf(disk))
    BY <2>1
  <2> QED
    BY <2>2
<1>13. Has(u \o t, x)
  BY <1>11, <1>12, HasJoin
<1> QED
  BY <1>10, <1>11, <1>12, <1>13

LEMMA RootHas ==
    ASSUME NEW disk, NEW n, Shape(disk, n), NEW f, Parts(disk, n, f), NEW d \in 1 .. n
    PROVE  Has(f[Root], Node(d))
<1>1. n \in Nat /\ n >= 1
  BY DEF Shape
<1>2. \A c \in 1 .. n : f[c] \in Seq(NodesOf(disk)) /\ Has(f[c], Node(c))
  <2>1. SUFFICES ASSUME NEW c \in 1 .. n PROVE f[c] \in Seq(NodesOf(disk)) /\ Has(f[c], Node(c))
    OBVIOUS
  <2>2. f[c] \in Seq(NodesOf(disk)) /\ Len(f[c]) >= 1 /\ f[c][1] = Node(c)
    BY BelowChain DEF Chain
  <2>3. 1 \in 1 .. Len(f[c])
    BY <2>2
  <2> QED
    BY <2>2, <2>3 DEF Has
<1> DEFINE S == {j \in 0 .. n - 1 : \A x : Has(f[j + 1], x) => Has(f[Root], x)}
<1>3. ASSUME NEW j \in 0 .. n - 1, \A i \in 0 .. j - 1 : i \in S PROVE j \in S
  <2>1. CASE j = 0
    BY <1>1, <2>1 DEF Root
  <2>2. CASE j # 0
    <3>1. PICK c : c = j + 1 /\ c \in 2 .. n
      BY <1>1, <2>2
    <3>2. PICK e : e = disk.in[c] /\ e \in 1 .. c - 1
      BY <3>1 DEF Shape
    <3>3. e - 1 \in 0 .. j - 1 /\ (e - 1) + 1 = e /\ e \in 1 .. n
      BY <1>1, <3>1, <3>2
    <3>4. e - 1 \in S
      BY <1>3, <3>3
    <3>5. \A x : Has(f[e], x) => Has(f[Root], x)
      BY <3>3, <3>4
    <3>6. f[e] = Part(disk, e, f)
      BY <3>3, PartAt
    <3>7. ASSUME NEW x, Has(f[c], x) PROVE Has(f[Root], x)
      <4>1. \A i \in 1 .. n : f[i] \in Seq(NodesOf(disk))
        BY <1>2
      <4>2. Has(Part(disk, e, f), x)
        BY <3>1, <3>2, <3>7, <4>1, PartHas
      <4> QED
        BY <3>5, <3>6, <4>2
    <3> QED
      BY <3>1, <3>7
  <2> QED
    BY <2>1, <2>2
<1>4. \A j \in 0 .. n - 1 : j \in S
  <2> HIDE DEF S
  <2>1. PICK N : N = n - 1 /\ N \in Nat
    BY <1>1
  <2> QED
    BY <1>3, <2>1, Strongly
<1>5. d - 1 \in 0 .. n - 1 /\ (d - 1) + 1 = d
  BY <1>1
<1>6. \A x : Has(f[(d - 1) + 1], x) => Has(f[Root], x)
  BY <1>4, <1>5
<1> QED
  BY <1>2, <1>5, <1>6

LEMMA BelowHas ==
    ASSUME NEW disk, NEW n, Shape(disk, n), NEW d \in 1 .. n
    PROVE  \E k \in 1 .. Len(Below(disk, Root)) : Below(disk, Root)[k].node = Node(d)
<1>1. PICK f : /\ Parts(disk, n, f)
               /\ Below(disk, Root) =
                    [k \in DOMAIN f[Root] |->
                       [node |-> f[Root][k],
                        deep |-> Depth(disk, f[Root][k]) - (Depth(disk, Node(Root)) + 1)]]
  BY BelowIsLoop
<1>2. Root \in 1 .. n
  BY DEF Shape, Root
<1>3. f[Root] \in Seq(NodesOf(disk))
  BY <1>1, <1>2, BelowChain DEF Chain
<1>4. PICK k \in 1 .. Len(f[Root]) : f[Root][k] = Node(d)
  BY <1>1, RootHas DEF Has
<1>5. DOMAIN f[Root] = 1 .. Len(f[Root]) /\ Len(f[Root]) \in Nat
  BY <1>3
<1>6. Below(disk, Root)[k].node = Node(d)
  BY <1>1, <1>4, <1>5
<1>7. Len(Below(disk, Root)) = Len(f[Root])
  BY <1>1, <1>5
<1> QED
  BY <1>4, <1>6, <1>7

(* A step of the loop does not depend on what the depth is counted from. *)
LEMMA StepShifts ==
    ASSUME NEW disk, NEW n, Shape(disk, n), NEW at \in Lines(disk), NEW to \in Lines(disk),
           TreeStep(disk, at) = to, NEW up \in Int
    PROVE  TreeStep(disk, [at EXCEPT !.deep = @ - up]) = [to EXCEPT !.deep = @ - up]
<1>1. /\ at = [node |-> at.node, deep |-> at.deep] /\ at.node \in NodesOf(disk) /\ at.deep \in Int
      /\ to = [node |-> to.node, deep |-> to.deep] /\ to.node \in NodesOf(disk) /\ to.deep \in Int
  BY DEF Lines
<1>2. PICK down : down = [at EXCEPT !.deep = @ - up]
  OBVIOUS
<1>3. down = [node |-> at.node, deep |-> at.deep - up] /\ at.deep - up \in Int
  BY <1>1, <1>2
<1>4. TreeStep(disk, down) = [node |-> to.node, deep |-> to.deep - up]
  <2>1. CASE IsDir(disk, at.node)
    <3>1. to = [node |-> children(disk, at.node), deep |-> at.deep + 1]
      BY <2>1 DEF TreeStep
    <3>2. to.node = children(disk, at.node) /\ to.deep = at.deep + 1
      BY <3>1
    <3>3. to.deep - up = (at.deep - up) + 1
      BY <1>1, <3>2
    <3> QED
      BY <1>3, <2>1, <3>2, <3>3 DEF TreeStep
  <2>2. CASE ~ IsDir(disk, at.node) /\ brother(disk, at.node) # NoNode
    <3>1. to = [at EXCEPT !.node = brother(disk, @)]
      BY <2>2 DEF TreeStep
    <3>2. to.node = brother(disk, at.node) /\ to.deep = at.deep
      BY <1>1, <3>1
    <3> QED
      BY <1>3, <2>2, <3>2 DEF TreeStep
  <2>3. CASE ~ IsDir(disk, at.node) /\ brother(disk, at.node) = NoNode
    <3>1. to = [node |-> brother(disk, parent(disk, at.node)), deep |-> at.deep - 1]
      BY <2>3 DEF TreeStep
    <3>2. to.node = brother(disk, parent(disk, at.node)) /\ to.deep = at.deep - 1
      BY <3>1
    <3>3. to.deep - up = (at.deep - up) - 1
      BY <1>1, <3>2
    <3> QED
      BY <1>3, <2>3, <3>2, <3>3 DEF TreeStep
  <2> QED
    BY <2>1, <2>2, <2>3
<1>5. [to EXCEPT !.deep = @ - up] = [node |-> to.node, deep |-> to.deep - up]
  BY <1>1
<1> QED
  BY <1>2, <1>4, <1>5

(* From an entry on, what lies below the root is what the loop prints. *)
LEMMA FromFollows ==
    ASSUME NEW disk, NEW n, Shape(disk, n), NEW all, all = Below(disk, Root),
           NEW start \in 1 .. Len(all), NEW cur, cur = all[start].node
    PROVE  /\ Follows(disk, cur, From(all, start))
           /\ TreeStep(disk, From(all, start)[Len(From(all, start))]).node = NoNode
<1>1. Root \in 1 .. n /\ disk.kind[Root] = "dir"
  BY DEF Shape, Root
<1>2. /\ Follows(disk, Node(Root), all) /\ TreeStep(disk, all[Len(all)]).node = NoNode
      /\ \A i, j \in 1 .. Len(all) : all[i].node = all[j].node => i = j
  BY <1>1, BelowFollows
<1>3. PICK c : c = Cardinality(NodesOf(disk)) /\ c \in Nat /\ Len(all) <= c
  BY <1>2 DEF Follows
<1>4. PICK l : l = Len(all) /\ l \in Nat /\ all \in Seq(Lines(disk)) /\ l >= 1
  BY <1>2 DEF Follows, Printed
<1>5. PICK m : m = l - start + 1 /\ m \in 1 .. l /\ m \in Nat
  BY <1>4
<1>6. PICK up : up = all[start].deep + 1 /\ up \in Int
  <2>1. all[start] \in Lines(disk)
    BY <1>4
  <2>2. all[start].deep \in Int
    BY <2>1 DEF Lines
  <2> QED
    BY <2>2
<1>7. PICK t : t = From(all, start)
  OBVIOUS
<1>8. ASSUME NEW k \in 1 .. m
      PROVE  /\ start + k - 1 \in 1 .. l /\ all[start + k - 1] \in Lines(disk)
             /\ t[k] = [all[start + k - 1] EXCEPT !.deep = @ - up]
             /\ t[k] \in Lines(disk) /\ t[k].node = all[start + k - 1].node
  <2>1. PICK i : i = start + k - 1 /\ i \in 1 .. l
    BY <1>4, <1>5
  <2>2. PICK at : at = all[i] /\ at \in Lines(disk)
    BY <1>4, <2>1
  <2>3. at = [node |-> at.node, deep |-> at.deep] /\ at.node \in NodesOf(disk) /\ at.deep \in Int
    BY <2>2 DEF Lines
  <2>4. t[k] = [at EXCEPT !.deep = @ - all[start].deep - 1]
    BY <1>4, <1>5, <1>7, <2>1, <2>2 DEF From
  <2>5. all[start].deep \in Int
    <3>1. all[start] \in Lines(disk)
      BY <1>4
    <3> QED
      BY <3>1 DEF Lines
  <2>6. at.deep - all[start].deep - 1 = at.deep - up
    BY <1>6, <2>3, <2>5
  <2>7. t[k] = [node |-> at.node, deep |-> at.deep - up] /\ at.deep - up \in Int
    BY <1>6, <2>3, <2>4, <2>6
  <2>8. t[k] = [at EXCEPT !.deep = @ - up]
    BY <2>3, <2>7
  <2> QED
    BY <2>1, <2>2, <2>3, <2>7, <2>8 DEF Lines
<1>9. t \in Seq(Lines(disk)) /\ Len(t) = m
  <2>1. t = [k \in 1 .. m |-> t[k]]
    BY <1>4, <1>5, <1>7 DEF From
  <2>2. t \in [1 .. m -> Lines(disk)]
    BY <1>8, <2>1
  <2> QED
    BY <1>5, <2>2
<1>10. t[1] = [node |-> cur, deep |-> -1]
  <2>1. 1 \in 1 .. m /\ start + 1 - 1 = start
    BY <1>4, <1>5
  <2>2. PICK at : at = all[start] /\ at \in Lines(disk)
    BY <1>4
  <2>3. at = [node |-> cur, deep |-> at.deep] /\ at.deep \in Int
    BY <2>2 DEF Lines
  <2>4. t[1] = [at EXCEPT !.deep = @ - up]
    BY <1>8, <2>1, <2>2
  <2>5. t[1] = [node |-> cur, deep |-> at.deep - up]
    BY <2>3, <2>4
  <2>6. at.deep - up = -1
    BY <1>6, <2>2, <2>3
  <2> QED
    BY <2>5, <2>6
<1>11. ASSUME NEW k \in 1 .. m - 1
       PROVE  TreeStep(disk, t[k]) = t[k + 1] /\ t[k + 1].node \notin {NoNode, cur}
  <2>1. PICK i : i = start + k - 1 /\ i \in 1 .. l - 1 /\ i + 1 \in 1 .. l /\ i + 1 # start
                 /\ start + (k + 1) - 1 = i + 1 /\ k \in 1 .. m /\ k + 1 \in 1 .. m
    BY <1>4, <1>5
  <2>2. TreeStep(disk, all[i]) = all[i + 1] /\ all[i + 1].node # NoNode
    BY <1>2, <1>4, <2>1 DEF Follows
  <2>3. /\ all[i] \in Lines(disk) /\ all[i + 1] \in Lines(disk)
        /\ t[k] = [all[i] EXCEPT !.deep = @ - up]
        /\ t[k + 1] = [all[i + 1] EXCEPT !.deep = @ - up]
        /\ t[k + 1].node = all[i + 1].node
    BY <1>8, <2>1
  <2>4. TreeStep(disk, t[k]) = t[k + 1]
    BY <1>6, <2>2, <2>3, StepShifts
  <2>5. all[i + 1].node # cur
    BY <1>2, <1>4, <2>1
  <2> QED
    BY <2>2, <2>3, <2>4, <2>5
<1>12. Follows(disk, cur, t)
  <2>1. t \in Printed(disk)
    BY <1>5, <1>9 DEF Printed
  <2>2. Len(t) <= c
    BY <1>3, <1>4, <1>5, <1>9
  <2> QED
    BY <1>3, <1>9, <1>10, <1>11, <2>1, <2>2 DEF Follows
<1>13. TreeStep(disk, t[m]).node = NoNode
  <2>1. m \in 1 .. m /\ start + m - 1 = l
    BY <1>4, <1>5
  <2>2. t[m] \in Lines(disk) /\ t[m].node = all[l].node /\ all[l] \in Lines(disk)
    BY <1>8, <2>1
  <2>3. /\ TreeStep(disk, t[m]).node = After(disk, t[m].node)
        /\ TreeStep(disk, all[l]).node = After(disk, all[l].node)
    BY <2>2, TreeStepIs DEF Lines
  <2> QED
    BY <1>2, <1>4, <2>2, <2>3
<1> QED
  BY <1>7, <1>9, <1>12, <1>13

LEMMA TreeOf ==
    ASSUME NEW disk \in Image, NEW cur \in NodesOf(disk), ~ IsLink(cur),
           NEW all, all = Below(disk, Root)
    PROVE  /\ \E start \in DOMAIN all :
                /\ all[start].node = cur
                /\ tree(disk, cur) = << [node |-> cur, deep |-> -1] >> \o From(all, start)
                /\ IsDir(disk, cur) => IsPrefix(Below(disk, cur[2]), From(all, start))
           /\ \A i, j \in DOMAIN all : all[i].node = all[j].node => i = j
<1>1. PICK n : Shape(disk, n)
  BY Shapes
<1>2. PICK d \in 1 .. n : d = cur[2] /\ cur = Node(d)
  BY <1>1, NodeIs
<1>3. Root \in 1 .. n /\ disk.kind[Root] = "dir"
  BY <1>1 DEF Shape, Root
<1>4. /\ Follows(disk, Node(Root), all)
      /\ \A i, j \in 1 .. Len(all) : all[i].node = all[j].node => i = j
  BY <1>1, <1>3, BelowFollows
<1>8. DOMAIN all = 1 .. Len(all)
  <2>1. all \in Seq(Lines(disk))
    BY <1>4 DEF Follows, Printed
  <2> QED
    BY <2>1
<1>5. PICK start \in 1 .. Len(all) : all[start].node = cur
  BY <1>1, <1>2, BelowHas
<1>6. walk(disk, cur) = From(all, start)
  <2>1. PICK t : t = From(all, start)
    OBVIOUS
  <2>2. Follows(disk, cur, t) /\ TreeStep(disk, t[Len(t)]).node = NoNode
    BY <1>1, <1>5, <2>1, FromFollows
  <2> QED
    BY <1>1, <2>1, <2>2, TreePrints
<1>7. IsDir(disk, cur) => IsPrefix(Below(disk, d), walk(disk, cur))
  <2>1. IsDir(disk, cur) => disk.kind[d] = "dir"
    BY <1>2 DEF IsDir
  <2> QED
    BY <1>1, <1>2, <2>1, BelowFollows, TreePrints
<1> QED
  BY <1>2, <1>4, <1>5, <1>6, <1>7, <1>8 DEF tree

-----------------------------------------------------------------------------
(* The line and its command. *)

USE ShellAssumption

(* Neither the end mark nor what follows the buffer is typed. *)
LEMMA CellsAre ==
    /\ " " \notin NoBlank /\ Nul \in NoBlank
    /\ \A v \in Cell : v # Nul /\ v # Unknown /\ (v # " " => v \in NoBlank)
<1>1. PICK n : Shape(Typing, n)
  BY ShellAssumption, Shapes
<1>2. \A v \in Cell : v # Nul /\ v # Unknown
  <2>1. SUFFICES ASSUME NEW x \in NodesOf(Typing) \ {Node(Root)}
                 PROVE  NameOf(x) # Nul /\ NameOf(x) # Unknown
    <3>1. ASSUME NEW v \in Command PROVE v # Nul /\ v # Unknown
      BY <3>1, ShellAssumption DEF Nul, Unknown
    <3>2. \A v \in {"cd", " ", Comma, Esc} : v # Nul /\ v # Unknown
      BY DEF Comma, Esc, Nul, Unknown
    <3> QED
      BY <3>1, <3>2 DEF Cell
  <2>2. CASE IsLink(x)
    <3>1. NameOf(x) \in {".", ".."}
      BY <1>1, <2>2, NodeIs DEF NameOf, Dot, DotDot
    <3> QED
      BY <3>1 DEF Nul, Unknown
  <2>3. CASE ~ IsLink(x)
    <3>1. x[2] \in EntryOf(Typing) \ {Root}
      BY <1>1, <2>3, NodeIs DEF Shape
    <3> QED
      BY <2>3, <3>1, NamesAssumption DEF NameOf
  <2> QED
    BY <2>2, <2>3
<1> QED
  BY <1>2 DEF NoBlank, Nul


TypedCells == \A p \in 0 .. cmd_len - 1 : cmd[p] \in Cell

(* A row whose line has no Esc is the line. *)
RowIsLine ==
    mode = "edit" /\ ~ garbled /\ (\A k \in 0 .. cmd_len - 1 : cmd[k] # Esc) =>
        shown.text = [k \in 1 .. cmd_len |-> cmd[k - 1]]

LInv ==
    /\ mode \in {"prompt", "edit", "stuck", "changed"} /\ garbled \in BOOLEAN
    /\ cmd_len \in 0 .. CMD_MAX
    /\ DOMAIN cmd = 0 .. CMD_MAX
    /\ TypedCells
    /\ shown = [path |-> shown.path, text |-> shown.text] /\ shown.text \in Seq(Cell)
    /\ LineIsShown
    /\ RowIsLine
    /\ CommandEnds
    /\ mode = "prompt" => cmd_len = 0

-----------------------------------------------------------------------------
(* A scan that has a stop in front of it ends at the first one. *)
LEMMA SkipStops ==
    ASSUME NEW c, NEW i \in Nat, NEW stops, NEW e \in i .. CMD_MAX, c[e] \in stops
    PROVE  /\ Skip(c, i, stops) \in i .. e /\ c[Skip(c, i, stops)] \in stops
           /\ \A k \in i .. Skip(c, i, stops) - 1 : c[k] \notin stops
<1> DEFINE S == {j \in i .. CMD_MAX : c[j] \in stops}
           IsStop(j) == /\ j = CMD_MAX + 1 \/ c[j] \in stops
                        /\ \A k \in i .. j - 1 : c[k] \notin stops
<1>1. S \in SUBSET Nat /\ S # {}
  OBVIOUS
<1>2. PICK m \in S : \A k \in S : m <= k
  BY <1>1, Least
<1>3. m \in i .. CMD_MAX + 1 /\ IsStop(m)
  BY <1>2
<1>4. PICK j : j = Skip(c, i, stops)
  OBVIOUS
<1>5. j \in i .. CMD_MAX + 1 /\ IsStop(j)
  BY <1>3, <1>4 DEF Skip
<1>6. j <= e
  BY <1>5
<1> QED
  BY <1>4, <1>5, <1>6

-----------------------------------------------------------------------------
(* The places of the shown cells, under the three things that happen to a line. *)
PlacedBy(c, n, text, place) ==
    /\ \A i \in DOMAIN text : text[i] = c[place[i] - 1]
    /\ \A i, j \in DOMAIN text : i < j => place[i] < place[j]
    /\ {place[i] : i \in DOMAIN text} = {k \in 1 .. n : c[k - 1] # Esc}

Placed(c, n, text) == \E place \in [DOMAIN text -> 1 .. n] : PlacedBy(c, n, text, place)

LEMMA PlacedMore ==
    ASSUME NEW c, NEW n \in Nat, NEW text \in Seq(Cell), Placed(c, n, text),
           NEW d, \A k \in 0 .. n - 1 : d[k] = c[k], d[n] \in Cell, d[n] # Esc
    PROVE  Placed(d, n + 1, Append(text, d[n]))
<1>1. PICK place \in [DOMAIN text -> 1 .. n] :
        /\ PlacedBy(c, n, text, place)
        /\ \A i \in DOMAIN text : text[i] = c[place[i] - 1]
        /\ \A i, j \in DOMAIN text : i < j => place[i] < place[j]
        /\ {place[i] : i \in DOMAIN text} = {k \in 1 .. n : c[k - 1] # Esc}
  BY DEF Placed, PlacedBy
<1>0. ASSUME NEW k \in 1 .. n, c[k - 1] # Esc PROVE \E i \in DOMAIN text : place[i] = k
  <2>1. k \in {place[i] : i \in DOMAIN text}
    BY <1>0, <1>1
  <2> QED
    BY <2>1
<1>2. PICK m, longer : m = Len(text) /\ longer = Append(text, d[n])
  OBVIOUS
<1>3. /\ m \in Nat /\ DOMAIN text = 1 .. m /\ DOMAIN longer = 1 .. m + 1
      /\ longer[m + 1] = d[n] /\ \A i \in 1 .. m : longer[i] = text[i]
  BY <1>2
<1>4. PICK further : further = [i \in 1 .. m + 1 |-> IF i = m + 1 THEN n + 1 ELSE place[i]]
  OBVIOUS
<1>5. \A i \in 1 .. m : further[i] = place[i] /\ place[i] \in 1 .. n
  BY <1>1, <1>3, <1>4
<1>6. further \in [1 .. m + 1 -> 1 .. n + 1] /\ further[m + 1] = n + 1
  BY <1>3, <1>4, <1>5
<1>7. ASSUME NEW i \in 1 .. m + 1 PROVE longer[i] = d[further[i] - 1]
  <2>1. CASE i = m + 1
    BY <1>3, <1>6, <2>1
  <2>2. CASE i # m + 1
    <3>1. i \in 1 .. m /\ place[i] - 1 \in 0 .. n - 1
      BY <1>3, <1>5, <2>2
    <3>2. c[place[i] - 1] = d[place[i] - 1]
      BY <3>1
    <3> QED
      BY <1>1, <1>3, <1>5, <3>1, <3>2
  <2> QED
    BY <2>1, <2>2
<1>8. ASSUME NEW i \in 1 .. m + 1, NEW j \in 1 .. m + 1, i < j PROVE further[i] < further[j]
  <2>1. i \in 1 .. m
    BY <1>3, <1>8
  <2>2. CASE j = m + 1
    BY <1>5, <1>6, <2>1, <2>2
  <2>3. CASE j # m + 1
    <3>1. j \in 1 .. m
      BY <1>3, <2>3
    <3>2. place[i] < place[j]
      BY <1>1, <1>3, <1>8, <2>1, <3>1
    <3> QED
      BY <1>5, <2>1, <3>1, <3>2
  <2> QED
    BY <2>2, <2>3
<1>9. {further[i] : i \in 1 .. m + 1} = {k \in 1 .. n + 1 : d[k - 1] # Esc}
  <2>1. ASSUME NEW i \in 1 .. m + 1 PROVE further[i] \in 1 .. n + 1 /\ d[further[i] - 1] # Esc
    <3>1. CASE i = m + 1
      BY <1>6, <3>1
    <3>2. CASE i # m + 1
      <4>1. i \in 1 .. m /\ place[i] - 1 \in 0 .. n - 1
        BY <1>3, <1>5, <3>2
      <4>2. c[place[i] - 1] # Esc
        BY <1>1, <1>3, <4>1
      <4> QED
        BY <1>5, <1>6, <4>1, <4>2
    <3> QED
      BY <3>1, <3>2
  <2>2. ASSUME NEW k \in 1 .. n + 1, d[k - 1] # Esc PROVE \E i \in 1 .. m + 1 : k = further[i]
    <3>1. CASE k = n + 1
      BY <1>3, <1>6, <3>1
    <3>2. CASE k # n + 1
      <4>1. k \in 1 .. n /\ k - 1 \in 0 .. n - 1
        BY <3>2
      <4>2. c[k - 1] # Esc
        BY <2>2, <4>1
      <4>3. PICK i \in 1 .. m : k = place[i]
        BY <1>0, <1>3, <4>1, <4>2
      <4> QED
        BY <1>3, <1>5, <4>3
    <3> QED
      BY <3>1, <3>2
  <2> QED
    BY <2>1, <2>2
<1>10. Placed(d, n + 1, longer)
  <2>1. \A i, j \in DOMAIN longer : i < j => further[i] < further[j]
    BY <1>3, <1>8
  <2>2. \A i \in DOMAIN longer : longer[i] = d[further[i] - 1]
    BY <1>3, <1>7
  <2>3. {further[i] : i \in DOMAIN longer} = {k \in 1 .. n + 1 : d[k - 1] # Esc}
    BY <1>3, <1>9
  <2>4. PlacedBy(d, n + 1, longer, further)
    BY <2>1, <2>2, <2>3 DEF PlacedBy
  <2>5. further \in [DOMAIN longer -> 1 .. n + 1]
    BY <1>3, <1>6
  <2> QED
    BY <2>4, <2>5 DEF Placed
<1> QED
  BY <1>2, <1>10

LEMMA PlacedEsc ==
    ASSUME NEW c, NEW n \in Nat, NEW text \in Seq(Cell), Placed(c, n, text),
           NEW d, \A k \in 0 .. n - 1 : d[k] = c[k], d[n] = Esc
    PROVE  Placed(d, n + 1, text)
<1>1. PICK place \in [DOMAIN text -> 1 .. n] :
        /\ PlacedBy(c, n, text, place)
        /\ \A i \in DOMAIN text : text[i] = c[place[i] - 1]
        /\ \A i, j \in DOMAIN text : i < j => place[i] < place[j]
        /\ {place[i] : i \in DOMAIN text} = {k \in 1 .. n : c[k - 1] # Esc}
  BY DEF Placed, PlacedBy
<1>2. place \in [DOMAIN text -> 1 .. n + 1] /\ \A i \in DOMAIN text : place[i] - 1 \in 0 .. n - 1
  BY <1>1
<1>3. \A i \in DOMAIN text : text[i] = d[place[i] - 1]
  BY <1>1, <1>2
<1>4. {k \in 1 .. n : c[k - 1] # Esc} = {k \in 1 .. n + 1 : d[k - 1] # Esc}
  <2>1. ASSUME NEW k \in 1 .. n PROVE d[k - 1] = c[k - 1]
    BY <2>1
  <2> QED
    BY <2>1
<1>5. PlacedBy(d, n + 1, text, place)
  BY <1>1, <1>3, <1>4 DEF PlacedBy
<1> QED
  BY <1>2, <1>5 DEF Placed

LEMMA PlacedLess ==
    ASSUME NEW c, NEW n \in Nat \ {0}, NEW text \in Seq(Cell), Placed(c, n, text), c[n - 1] # Esc
    PROVE  /\ Len(text) \in Nat \ {0} /\ Front(text) \in Seq(Cell)
           /\ Placed(c, n - 1, Front(text))
<1>1. PICK place \in [DOMAIN text -> 1 .. n] :
        /\ PlacedBy(c, n, text, place)
        /\ \A i \in DOMAIN text : text[i] = c[place[i] - 1]
        /\ \A i, j \in DOMAIN text : i < j => place[i] < place[j]
        /\ {place[i] : i \in DOMAIN text} = {k \in 1 .. n : c[k - 1] # Esc}
  BY DEF Placed, PlacedBy
<1>0. ASSUME NEW k \in 1 .. n, c[k - 1] # Esc PROVE \E i \in DOMAIN text : place[i] = k
  <2>1. k \in {place[i] : i \in DOMAIN text}
    BY <1>0, <1>1
  <2> QED
    BY <2>1
<1>2. PICK m : m = Len(text)
  OBVIOUS
<1>3. m \in Nat /\ DOMAIN text = 1 .. m
  BY <1>2
<1>4. m \in Nat \ {0} /\ place[m] = n
  <2>1. n \in 1 .. n
    OBVIOUS
  <2>2. PICK i \in 1 .. m : place[i] = n
    BY <1>0, <1>3, <2>1
  <2>3. ~ (i < m)
    <3>1. SUFFICES ASSUME i < m PROVE FALSE
      OBVIOUS
    <3>2. m \in 1 .. m /\ place[m] \in 1 .. n
      BY <1>1, <1>3, <2>2
    <3>3. place[i] < place[m]
      BY <1>1, <1>3, <3>1, <3>2
    <3> QED
      BY <2>2, <3>2, <3>3
  <2> QED
    BY <1>3, <2>2, <2>3
<1>5. PICK front : front = Front(text)
  OBVIOUS
<1>6. front = [i \in 1 .. m - 1 |-> text[i]]
  BY <1>2, <1>4, <1>5 DEF Front
<1>7. DOMAIN front = 1 .. m - 1 /\ front \in Seq(Cell) /\ \A i \in 1 .. m - 1 : front[i] = text[i] /\ i \in 1 .. m
  BY <1>3, <1>4, <1>6
<1>8. PICK fewer : fewer = [i \in 1 .. m - 1 |-> place[i]]
  OBVIOUS
<1>9. ASSUME NEW i \in 1 .. m - 1 PROVE fewer[i] = place[i] /\ place[i] \in 1 .. n - 1
  <2>1. i \in 1 .. m /\ i < m /\ m \in 1 .. m
    BY <1>4
  <2>2. place[i] < place[m]
    BY <1>1, <1>3, <2>1
  <2> QED
    BY <1>1, <1>3, <1>4, <1>8, <2>1, <2>2
<1>10. fewer \in [1 .. m - 1 -> 1 .. n - 1]
  BY <1>8, <1>9
<1>11. \A i \in 1 .. m - 1 : front[i] = c[fewer[i] - 1]
  BY <1>1, <1>3, <1>7, <1>9
<1>12. \A i, j \in 1 .. m - 1 : i < j => fewer[i] < fewer[j]
  BY <1>1, <1>3, <1>7, <1>9
<1>13. {fewer[i] : i \in 1 .. m - 1} = {k \in 1 .. n - 1 : c[k - 1] # Esc}
  <2>1. ASSUME NEW i \in 1 .. m - 1 PROVE c[fewer[i] - 1] # Esc
    BY <1>1, <1>3, <1>7, <1>9
  <2>2. ASSUME NEW k \in 1 .. n - 1, c[k - 1] # Esc PROVE \E i \in 1 .. m - 1 : k = fewer[i]
    <3>1. k \in 1 .. n /\ k # n
      OBVIOUS
    <3>2. PICK i \in 1 .. m : k = place[i]
      BY <1>0, <1>3, <2>2, <3>1
    <3>3. i \in 1 .. m - 1
      BY <1>4, <3>1, <3>2
    <3> QED
      BY <1>9, <3>2, <3>3
  <2> QED
    BY <1>9, <2>1, <2>2
<1>14. Placed(c, n - 1, front)
  <2>1. \A i, j \in DOMAIN front : i < j => fewer[i] < fewer[j]
    BY <1>7, <1>12
  <2>2. \A i \in DOMAIN front : front[i] = c[fewer[i] - 1]
    BY <1>7, <1>11
  <2>3. {fewer[i] : i \in DOMAIN front} = {k \in 1 .. n - 1 : c[k - 1] # Esc}
    BY <1>7, <1>13
  <2>4. PlacedBy(c, n - 1, front, fewer)
    BY <2>1, <2>2, <2>3 DEF PlacedBy
  <2>5. fewer \in [DOMAIN front -> 1 .. n - 1]
    BY <1>7, <1>10
  <2> QED
    BY <2>4, <2>5 DEF Placed
<1> QED
  BY <1>2, <1>4, <1>5, <1>7, <1>14

(* A cell of the line that is no Esc is shown, and behind cells that stand before it. *)
LEMMA PlacedAt ==
    ASSUME NEW c, NEW n \in Nat, NEW text, Placed(c, n, text), NEW p \in 0 .. n - 1, c[p] # Esc
    PROVE  \E k \in DOMAIN text :
              /\ text[k] = c[p]
              /\ \A j \in DOMAIN text : j < k => \E q \in 0 .. p - 1 : text[j] = c[q]
<1>1. PICK place \in [DOMAIN text -> 1 .. n] :
        /\ PlacedBy(c, n, text, place)
        /\ \A i \in DOMAIN text : text[i] = c[place[i] - 1]
        /\ \A i, j \in DOMAIN text : i < j => place[i] < place[j]
        /\ {place[i] : i \in DOMAIN text} = {k \in 1 .. n : c[k - 1] # Esc}
  BY DEF Placed, PlacedBy
<1>2. p + 1 \in 1 .. n /\ (p + 1) - 1 = p
  OBVIOUS
<1>3. PICK k \in DOMAIN text : place[k] = p + 1
  BY <1>1, <1>2
<1>4. text[k] = c[p]
  BY <1>1, <1>2, <1>3
<1>5. ASSUME NEW j \in DOMAIN text, j < k PROVE \E q \in 0 .. p - 1 : text[j] = c[q]
  <2>1. place[j] \in 1 .. n /\ place[j] < place[k]
    BY <1>1, <1>5
  <2>2. place[j] - 1 \in 0 .. p - 1
    BY <1>3, <2>1
  <2> QED
    BY <1>1, <2>2
<1> QED
  BY <1>4, <1>5

LEMMA ShownPlaced ==
    LineIsShown <=>
      /\ cmd_len \in 0 .. CMD_MAX
      /\ mode = "edit" /\ ~ garbled =>
            Placed(cmd, cmd_len, shown.text) /\ (moved \/ shown.path \in {NoPath, Paths(fs_cur)})
BY DEF LineIsShown, Shows, Placed, PlacedBy

RowIsShown ==
    mode = "edit" /\ ~ garbled =>
        Placed(cmd, cmd_len, shown.text) /\ (moved \/ shown.path \in {NoPath, Paths(fs_cur)})

LEMMA RowIsShownNext == cmd_len' \in 0 .. CMD_MAX /\ RowIsShown' => LineIsShown'
<1>1. cmd_len \in 0 .. CMD_MAX /\ RowIsShown => LineIsShown
  BY ShownPlaced DEF RowIsShown
<1>2. (cmd_len \in 0 .. CMD_MAX /\ RowIsShown => LineIsShown)'
  BY <1>1, PTL
<1> QED
  BY <1>2

LEMMA InitLInv == Init => LInv
<1> SUFFICES ASSUME Init PROVE LInv
  OBVIOUS
<1>1. shown = [path |-> <<>>, text |-> <<>>] /\ <<>> \in Seq(Cell)
  BY DEF Init
<1>2. mode = "prompt" /\ cmd_len = 0 /\ garbled = FALSE /\ DOMAIN cmd = 0 .. CMD_MAX
  BY DEF Init
<1> QED
  BY <1>1, <1>2 DEF LInv, LineIsShown, CommandEnds, RowIsLine, TypedCells

LEMMA PromptLInv == ASSUME LInv, prompt PROVE LInv'
<1>1. PICK path \in {Paths(fs_cur), NoPath} :
        /\ mode' = "edit" /\ cmd_len = 0 /\ garbled' = FALSE
        /\ UNCHANGED <<image, fs_cur, cmd, cmd_len>>
        /\ shown' = [path |-> path, text |-> <<>>]
  BY DEF prompt, LInv
<1>2. shown'.path = path /\ shown'.text = <<>> /\ Paths(fs_cur)' = Paths(fs_cur) /\ <<>> \in Seq(Cell)
  BY <1>1 DEF Paths
<1>3. Placed(cmd', cmd_len', shown'.text)
  <2>1. Placed(cmd, 0, <<>>)
    <3>1. <<>> \in [DOMAIN <<>> -> 1 .. 0] /\ DOMAIN <<>> = {} /\ 1 .. 0 = {}
      OBVIOUS
    <3>2. PlacedBy(cmd, 0, <<>>, <<>>)
      BY <3>1 DEF PlacedBy
    <3> QED
      BY <3>1, <3>2 DEF Placed
  <2> QED
    BY <1>1, <1>2, <2>1
<1>4. RowIsShown'
  BY <1>1, <1>2, <1>3 DEF RowIsShown
<1>5. LineIsShown'
  BY <1>1, <1>4, RowIsShownNext DEF LInv
<1>6. RowIsLine' /\ TypedCells' /\ CommandEnds'
  BY <1>1, <1>2 DEF RowIsLine, TypedCells, CommandEnds
<1> QED
  BY <1>1, <1>2, <1>5, <1>6 DEF LInv

LEMMA BackspaceLInv == ASSUME LInv, backspace PROVE LInv'
<1>1. /\ mode = "edit" /\ cmd_len > 0 /\ cmd_len' = cmd_len - 1
      /\ garbled' = (garbled \/ cmd[cmd_len - 1] = Esc)
      /\ shown' = IF garbled' THEN Lost ELSE [shown EXCEPT !.text = Front(@)]
      /\ UNCHANGED <<image, fs_cur, cmd, mode, moved>>
  BY DEF backspace, Edits
<1>2. cmd_len \in Nat \ {0} /\ cmd_len \in 0 .. CMD_MAX /\ cmd_len' \in 0 .. CMD_MAX
  BY <1>1 DEF LInv
<1>3. garbled' \in BOOLEAN /\ TypedCells' /\ CommandEnds'
  BY <1>1, <1>2 DEF LInv, TypedCells, CommandEnds
<1>4. CASE garbled'
  <2>1. shown' = [path |-> NoPath, text |-> <<>>] /\ <<>> \in Seq(Cell)
    BY <1>1, <1>4 DEF Lost
  <2>2. RowIsShown' /\ RowIsLine'
    BY <1>4 DEF RowIsShown, RowIsLine
  <2> QED
    BY <1>1, <1>2, <1>3, <2>1, <2>2, RowIsShownNext DEF LInv
<1>5. CASE ~ garbled'
  <2>1. ~ garbled /\ cmd[cmd_len - 1] # Esc
    BY <1>1, <1>5
  <2>2. /\ Placed(cmd, cmd_len, shown.text) /\ shown.text \in Seq(Cell)
        /\ moved \/ shown.path \in {NoPath, Paths(fs_cur)}
    BY <1>1, <2>1, ShownPlaced DEF LInv
  <2>3. PICK front : front = Front(shown.text)
    OBVIOUS
  <2>4. shown' = [path |-> shown.path, text |-> front]
    BY <1>1, <1>5, <2>3 DEF LInv
  <2>5. front \in Seq(Cell) /\ Placed(cmd, cmd_len - 1, front) /\ Len(shown.text) \in Nat \ {0}
    BY <1>2, <2>1, <2>2, <2>3, PlacedLess
  <2>6. RowIsShown'
    BY <1>1, <2>2, <2>4, <2>5 DEF RowIsShown, Paths
  <2>7. RowIsLine'
    <3>1. SUFFICES ASSUME \A k \in 0 .. cmd_len' - 1 : cmd'[k] # Esc
                   PROVE  shown'.text = [k \in 1 .. cmd_len' |-> cmd'[k - 1]]
      BY DEF RowIsLine
    <3>2. \A k \in 0 .. cmd_len - 1 : cmd[k] # Esc
      BY <1>1, <1>2, <2>1, <3>1
    <3>3. shown.text = [k \in 1 .. cmd_len |-> cmd[k - 1]]
      BY <1>1, <2>1, <3>2 DEF LInv, RowIsLine
    <3>4. front = [k \in 1 .. cmd_len - 1 |-> cmd[k - 1]]
      <4>1. PICK m, text : m = cmd_len /\ text = shown.text
        OBVIOUS
      <4>2. text = [k \in 1 .. m |-> cmd[k - 1]] /\ m \in Nat \ {0}
        BY <1>2, <3>3, <4>1
      <4>3. Front(text) = [k \in 1 .. m - 1 |-> cmd[k - 1]]
        BY <4>2 DEF Front
      <4> QED
        BY <2>3, <4>1, <4>3
    <3>5. shown'.text = front
      BY <2>4
    <3> QED
      BY <1>1, <3>4, <3>5
  <2>8. shown' = [path |-> shown'.path, text |-> shown'.text] /\ shown'.text \in Seq(Cell)
    BY <2>4, <2>5
  <2> QED
    BY <1>1, <1>2, <1>3, <2>6, <2>7, <2>8, RowIsShownNext DEF LInv
<1> QED
  BY <1>4, <1>5

LEMMA KeyLInv == ASSUME LInv, NEW c \in Cell, key(c) PROVE LInv'
<1>1. /\ mode = "edit" /\ cmd_len < CMD_MAX /\ cmd_len' = cmd_len + 1
      /\ cmd' = [cmd EXCEPT ![cmd_len] = c]
      /\ shown' = IF garbled \/ c = Esc THEN shown ELSE [shown EXCEPT !.text = Append(@, c)]
      /\ UNCHANGED <<image, fs_cur, garbled, mode, moved>>
  BY DEF key, Edits, Echo
<1>2. cmd_len \in Nat /\ cmd_len \in 0 .. CMD_MAX /\ cmd_len' \in 0 .. CMD_MAX
  BY <1>1 DEF LInv
<1>3. /\ DOMAIN cmd' = 0 .. CMD_MAX /\ cmd'[cmd_len] = c
      /\ \A k \in 0 .. cmd_len - 1 : cmd'[k] = cmd[k]
  BY <1>1, <1>2 DEF LInv
<1>4. TypedCells' /\ CommandEnds'
  <2>1. TypedCells'
    BY <1>1, <1>2, <1>3 DEF LInv, TypedCells
  <2> QED
    BY <1>1, <2>1 DEF CommandEnds
<1>5. PICK text : text = IF garbled \/ c = Esc THEN shown.text ELSE Append(shown.text, c)
  OBVIOUS
<1>6. shown' = [path |-> shown.path, text |-> text] /\ text \in Seq(Cell)
  <2>1. shown = [path |-> shown.path, text |-> shown.text] /\ shown.text \in Seq(Cell)
    BY DEF LInv
  <2>2. CASE garbled \/ c = Esc
    BY <1>1, <1>5, <2>1, <2>2
  <2>3. CASE ~ (garbled \/ c = Esc)
    <3>1. text = Append(shown.text, c) /\ text \in Seq(Cell)
      BY <1>5, <2>1, <2>3
    <3>2. shown' = [shown EXCEPT !.text = text]
      BY <1>1, <2>3, <3>1
    <3> QED
      BY <2>1, <3>1, <3>2
  <2> QED
    BY <2>2, <2>3
<1>7. RowIsShown'
  <2>1. SUFFICES ASSUME ~ garbled
                 PROVE  Placed(cmd', cmd_len', shown'.text) /\ (moved \/ shown'.path \in {NoPath, Paths(fs_cur)})
    BY <1>1 DEF RowIsShown, Paths
  <2>2. /\ Placed(cmd, cmd_len, shown.text) /\ shown.text \in Seq(Cell)
        /\ moved \/ shown.path \in {NoPath, Paths(fs_cur)}
    BY <1>1, <2>1, ShownPlaced DEF LInv
  <2>3. PICK n : n = cmd_len
    OBVIOUS
  <2>4. CASE c = Esc
    <3>1. Placed(cmd', n + 1, shown.text)
      BY <1>2, <1>3, <2>2, <2>3, <2>4, PlacedEsc
    <3> QED
      BY <1>1, <1>5, <1>6, <2>2, <2>3, <2>4, <3>1
  <2>5. CASE c # Esc
    <3>1. Placed(cmd', n + 1, Append(shown.text, cmd'[n]))
      BY <1>2, <1>3, <2>2, <2>3, <2>5, PlacedMore
    <3>2. text = Append(shown.text, cmd'[n])
      BY <1>3, <1>5, <2>1, <2>3, <2>5
    <3> QED
      BY <1>1, <1>6, <2>2, <2>3, <3>1, <3>2
  <2> QED
    BY <2>4, <2>5
<1>8. RowIsLine'
  <2>1. SUFFICES ASSUME ~ garbled, \A k \in 0 .. cmd_len' - 1 : cmd'[k] # Esc
                 PROVE  shown'.text = [k \in 1 .. cmd_len' |-> cmd'[k - 1]]
    BY <1>1 DEF RowIsLine
  <2>2. c # Esc /\ \A k \in 0 .. cmd_len - 1 : cmd[k] # Esc
    BY <1>1, <1>2, <1>3, <2>1
  <2>3. shown.text = [k \in 1 .. cmd_len |-> cmd[k - 1]]
    BY <1>1, <2>1, <2>2 DEF LInv, RowIsLine
  <2>4. text = Append(shown.text, c)
    BY <1>5, <2>1, <2>2
  <2>5. text = [k \in 1 .. cmd_len + 1 |-> cmd'[k - 1]]
    <3>1. PICK m, old, d : m = cmd_len /\ old = shown.text /\ d = cmd'
      OBVIOUS
    <3>2. /\ m \in Nat /\ d[m] = c /\ \A k \in 0 .. m - 1 : d[k] = cmd[k]
          /\ old = [k \in 1 .. m |-> cmd[k - 1]]
      BY <1>2, <1>3, <2>3, <3>1
    <3>3. old = [k \in 1 .. m |-> d[k - 1]]
      BY <3>2
    <3>4. Append(old, c) = [k \in 1 .. m + 1 |-> d[k - 1]]
      BY <3>2, <3>3
    <3> QED
      BY <2>4, <3>1, <3>4
  <2>6. shown'.text = text
    BY <1>6
  <2> QED
    BY <1>1, <2>5, <2>6
<1>9. shown' = [path |-> shown'.path, text |-> shown'.text] /\ shown'.text \in Seq(Cell)
  BY <1>6
<1> QED
  BY <1>1, <1>2, <1>3, <1>4, <1>7, <1>8, <1>9, RowIsShownNext DEF LInv

(* The interpreter comes to the stop of the line, stays at a comma in it, or in
   the command with which the line begins. *)
LEMMA NewlineLInv == ASSUME LInv, newline PROVE LInv'
<1>0. PICK at : at = Skip(Ended, 0, NoBlank)
  OBVIOUS
<1>1. PICK stop : stop = NextCommand(Ended, at)
  OBVIOUS
<1>2. /\ mode = "edit" /\ cmd' = [Ended EXCEPT ![CMD_MAX] = Unknown]
      /\ cmd_len' = IF mode' = "stuck" THEN cmd_len ELSE 0
      /\ UNCHANGED <<image, shown, garbled, moved>>
  BY DEF newline, Edits
<1>3. \/ mode' = (IF Ended[stop] = Nul THEN "prompt" ELSE "stuck")
      \/ mode' = "stuck" /\ \E command \in Command : Begins(Ended, at, command)
      \/ mode' = "changed"
  BY <1>0, <1>1 DEF newline, exec_cmd
<1>4. cmd_len \in Nat /\ CMD_MAX \in Nat /\ cmd_len \in 0 .. CMD_MAX /\ DOMAIN cmd = 0 .. CMD_MAX
  BY DEF LInv
<1>5. /\ Ended[cmd_len] = Nul /\ DOMAIN Ended = 0 .. CMD_MAX
      /\ \A k \in 0 .. cmd_len - 1 : Ended[k] = cmd[k] /\ cmd[k] \in Cell
  BY <1>4 DEF Ended, LInv, TypedCells
<1>6. at \in 0 .. cmd_len /\ \A k \in 0 .. at - 1 : Ended[k] \notin NoBlank
  BY <1>0, <1>4, <1>5, SkipStops, CellsAre
<1>7. stop \in at .. cmd_len /\ Ended[stop] \in {Comma, Nul}
  <2>1. at \in Nat /\ cmd_len \in at .. CMD_MAX /\ Ended[cmd_len] \in {Comma, Nul}
    BY <1>4, <1>5, <1>6
  <2>2. stop = Skip(Ended, at, {Comma, Nul})
    BY <1>1 DEF NextCommand
  <2> QED
    BY <2>1, <2>2, SkipStops
<1>8. CommandEnds'
  <2>1. SUFFICES ASSUME mode' = "stuck", ~ garbled
                 PROVE  \E k \in DOMAIN shown.text :
                           \/ shown.text[k] = Comma
                           \/ shown.text[k] \in Command /\ \A j \in 1 .. k - 1 : shown.text[j] = " "
    BY <1>2 DEF CommandEnds
  <2>2. Placed(cmd, cmd_len, shown.text) /\ shown.text \in Seq(Cell)
    BY <1>2, <2>1, ShownPlaced DEF LInv
  <2>3. CASE Ended[stop] # Nul
    <3>1. Ended[stop] = Comma /\ stop # cmd_len
      BY <1>5, <1>7, <2>3
    <3>2. stop \in 0 .. cmd_len - 1
      BY <1>4, <1>6, <1>7, <3>1
    <3>3. cmd[stop] = Comma /\ cmd[stop] # Esc
      BY <1>5, <3>1, <3>2 DEF Comma, Esc
    <3>4. \E k \in DOMAIN shown.text : shown.text[k] = cmd[stop]
      BY <1>4, <2>2, <3>2, <3>3, PlacedAt
    <3> QED
      BY <3>3, <3>4
  <2>4. ASSUME NEW command \in Command, Begins(Ended, at, command)
        PROVE  \E k \in DOMAIN shown.text :
                  shown.text[k] \in Command /\ \A j \in 1 .. k - 1 : shown.text[j] = " "
    <3>1. command \in {"cat", "exec", "rm", "cp"} /\ Ended[at] = command
      BY <2>4, ShellAssumption DEF Begins
    <3>2. at # cmd_len /\ at \in 0 .. cmd_len - 1
      BY <1>4, <1>5, <1>6, <3>1 DEF Nul
    <3>3. cmd[at] = command /\ cmd[at] # Esc
      BY <1>5, <3>1, <3>2 DEF Esc
    <3>4. PICK k \in DOMAIN shown.text :
            /\ shown.text[k] = cmd[at]
            /\ \A j \in DOMAIN shown.text : j < k => \E q \in 0 .. at - 1 : shown.text[j] = cmd[q]
      BY <1>4, <2>2, <3>2, <3>3, PlacedAt
    <3>5. ASSUME NEW j \in 1 .. k - 1 PROVE shown.text[j] = " "
      <4>1. j \in DOMAIN shown.text /\ j < k
        BY <2>2
      <4>2. PICK q \in 0 .. at - 1 : shown.text[j] = cmd[q]
        BY <3>4, <4>1
      <4>3. q \in 0 .. cmd_len - 1
        BY <1>4, <1>6
      <4> QED
        BY <1>5, <1>6, <4>2, <4>3, CellsAre
    <3> QED
      BY <3>3, <3>4, <3>5
  <2> QED
    BY <1>3, <2>1, <2>3, <2>4
<1>9. cmd_len' \in {0, cmd_len} /\ (mode' = "prompt" => cmd_len' = 0)
  BY <1>2
<1>10. TypedCells'
  <2>1. \A p \in 0 .. cmd_len - 1 : cmd'[p] = cmd[p]
    BY <1>2, <1>4, <1>5
  <2>2. ASSUME NEW p \in 0 .. cmd_len' - 1 PROVE p \in 0 .. cmd_len - 1
    <3>1. PICK m : m = cmd_len' /\ (m = 0 \/ m = cmd_len)
      BY <1>9
    <3>2. p \in 0 .. m - 1
      BY <3>1
    <3> QED
      BY <1>4, <3>1, <3>2
  <2> QED
    BY <1>5, <2>1, <2>2 DEF TypedCells
<1>11. mode' \in {"prompt", "stuck", "changed"} /\ cmd_len' \in 0 .. CMD_MAX /\ DOMAIN cmd' = 0 .. CMD_MAX
  BY <1>2, <1>3, <1>4, <1>5, <1>9
<1>12. LineIsShown' /\ RowIsLine'
  BY <1>11 DEF LineIsShown, RowIsLine
<1> QED
  BY <1>2, <1>8, <1>9, <1>10, <1>11, <1>12 DEF LInv

LEMMA OtherLInv == ASSUME LInv, other_cd PROVE LInv'
<1>1. mode # "stuck" /\ moved' /\ UNCHANGED <<image, cmd, cmd_len, shown, garbled, mode>>
  BY DEF other_cd, line
<1>2. LineIsShown' /\ CommandEnds' /\ RowIsLine' /\ TypedCells'
  <2>1. RowIsShown'
    BY <1>1, ShownPlaced DEF LInv, RowIsShown
  <2> QED
    BY <1>1, <2>1, RowIsShownNext DEF LInv, CommandEnds, RowIsLine, TypedCells
<1> QED
  BY <1>1, <1>2 DEF LInv

LEMMA OutputLInv == ASSUME LInv, other_output PROVE LInv'
<1>1. /\ mode = "edit" /\ garbled' = TRUE /\ shown' = [path |-> NoPath, text |-> <<>>]
      /\ <<>> \in Seq(Cell) /\ UNCHANGED <<cmd, cmd_len, mode>>
  BY DEF other_output, Edits, Lost
<1>2. LineIsShown' /\ CommandEnds' /\ RowIsLine' /\ TypedCells'
  BY <1>1 DEF LInv, LineIsShown, CommandEnds, RowIsLine, TypedCells
<1> QED
  BY <1>1, <1>2 DEF LInv

LEMMA NextLInv == LInv /\ [Next]_svars => LInv'
<1> SUFFICES ASSUME LInv, [Next]_svars PROVE LInv'
  OBVIOUS
<1>1. CASE UNCHANGED svars
  <2>1. UNCHANGED <<image, fs_cur, cmd, cmd_len, shown, garbled, mode, moved>>
    BY <1>1 DEF svars, line
  <2>2. RowIsShown'
    BY <2>1, ShownPlaced DEF LInv, RowIsShown, Paths
  <2> QED
    BY <2>1, <2>2, RowIsShownNext DEF LInv, RowIsLine, TypedCells, CommandEnds
<1> QED
  BY <1>1, PromptLInv, BackspaceLInv, KeyLInv, NewlineLInv, OtherLInv, OutputLInv DEF Next

LEMMA ShellInvariance == Spec => []LInv
BY InitLInv, NextLInv, PTL DEF Spec

-----------------------------------------------------------------------------
(* What the user sees behind the prompt is what the kernel will read. *)
THEOREM LineTheorem == Spec => []LineIsShown
<1>1. LInv => LineIsShown
  BY DEF LInv
<1> QED
  BY <1>1, ShellInvariance, PTL

(* A line comes back from the kernel if it has no comma and does not begin with a
   command that follows a chain. *)
THEOREM EndsTheorem == Spec => []CommandEnds
<1>1. LInv => CommandEnds
  BY DEF LInv
<1> QED
  BY <1>1, ShellInvariance, PTL

(* The length of the listing stays the word it is. *)
LEMMA LengthIsWord == Spec => [](length \in Word)
<1>1. Init => length \in Word
  BY WordFacts DEF Init, Word
<1>2. length \in Word /\ [Next]_svars => (length \in Word)'
  BY DEF Next, svars, prompt, backspace, key, newline, other_cd, other_output, other_output
<1> QED
  BY <1>1, <1>2, PTL DEF Spec

(* A number that is printed is read back as itself, and the dates of a listing
   stand below each other, for every length a word can hold. *)
THEOREM NumbersTheorem == Spec => []NumbersAgree
<1>1. length \in Word => NumbersAgree
  BY NumbersOf DEF NumbersAgree
<1> QED
  BY <1>1, LengthIsWord, PTL

(* cd finds a child of the directory that has the name, if there is one. *)
LEMMA FindFileFinds ==
    ASSUME NEW disk, NEW n, Shape(disk, n), NEW cur \in NodesOf(disk), NEW named,
           NEW x, x = FindFile(disk, cur, named)
    PROVE  \/ x = NoNode /\ (IsDir(disk, cur) => Kids(disk, cur[2]) \cap named = {})
           \/ IsDir(disk, cur) /\ x \in Kids(disk, cur[2]) \cap named
<1>1. CASE ~ IsDir(disk, cur)
  <2>1. SelectInSeq(<<>>, LAMBDA node : node \in named) = 0
    BY DEF SelectInSeq
  <2> QED
    BY <1>1, <2>1 DEF FindFile
<1>2. CASE IsDir(disk, cur)
  <2>1. PICK list : list = scan_dir(disk, cur[2])
    OBVIOUS
  <2>2. Lists(disk, cur[2], n, list)
    <3>1. cur[2] \in 1 .. n /\ disk.kind[cur[2]] = "dir"
      BY <1>2, NodeIs DEF IsDir
    <3> QED
      BY <2>1, <3>1, ScanLists
  <2>3. PICK I : I = {i \in 1 .. Len(list) : list[i] \in named}
    OBVIOUS
  <2>4. PICK found : found = SelectInSeq(list, LAMBDA node : node \in named)
    OBVIOUS
  <2>5. found = IF I # {} THEN Min(I) ELSE 0
    BY <2>3, <2>4 DEF SelectInSeq
  <2>6. x = IF found = 0 THEN NoNode ELSE list[found]
    BY <1>2, <2>1, <2>4 DEF FindFile
  <2>7. CASE I = {}
    <3>1. x = NoNode
      BY <2>5, <2>6, <2>7
    <3>2. ASSUME NEW y \in Kids(disk, cur[2]) \cap named PROVE FALSE
      <4>1. y \in Kids(disk, cur[2]) /\ (IsLink(y) \/ y[2] <= n)
        <5>1. y[2] \in 1 .. n
          BY NodeIs DEF Kids
        <5> QED
          BY <5>1 DEF Shape
      <4>2. PICK k \in 1 .. Len(list) : list[k] = y
        BY <2>2, <4>1 DEF Lists
      <4> QED
        BY <2>3, <2>7, <4>2
    <3> QED
      BY <3>1, <3>2
  <2>8. CASE I # {}
    <3>1. I \in SUBSET Nat
      BY <2>3
    <3>2. \E m \in I : \A k \in I : m <= k
      BY <2>8, <3>1, Least
    <3>3. found \in I
      BY <2>5, <2>8, <3>2 DEF Min
    <3>4. found # 0 /\ found \in 1 .. Len(list) /\ list[found] \in named
      BY <2>3, <3>3
    <3> QED
      BY <1>2, <2>2, <2>6, <3>4 DEF Lists
  <2> QED
    BY <2>7, <2>8
<1> QED
  BY <1>1, <1>2

(* The current directory stays an entry of the disk. *)
LEMMA CdIs ==
    ASSUME NEW disk, NEW n, Shape(disk, n), NEW cur \in NodesOf(disk), ~ IsLink(cur),
           NEW x \in NodesOf(disk) \cup {NoNode}
    PROVE  cd(disk, cur, x) \in NodesOf(disk) /\ ~ IsLink(cd(disk, cur, x))
<1>1. CASE x = NoNode
  BY <1>1 DEF cd
<1>2. CASE x # NoNode /\ ~ IsLink(x)
  BY <1>2 DEF cd
<1>3. CASE x # NoNode /\ IsLink(x)
  <2>1. PICK d : d = x[2] /\ d \in 1 .. n /\ d # Root
    BY <1>3, NodeIs
  <2>2. link(disk, x) = Node(d) \/ link(disk, x) = parent(disk, Node(d))
    BY <2>1 DEF link
  <2>3. parent(disk, Node(d)) = Node(disk.in[d]) /\ disk.in[d] \in 1 .. n
    <3>1. d \in 2 .. n
      BY <2>1 DEF Shape, Root
    <3>2. disk.in[d] \in 1 .. d - 1
      BY <3>1 DEF Shape
    <3> QED
      BY <2>1, <3>2, Marks DEF parent, Shape
  <2>4. cd(disk, cur, x) = link(disk, x)
    BY <1>3 DEF cd
  <2> QED
    BY <2>1, <2>2, <2>3, <2>4, NodeIn, Marks
<1> QED
  BY <1>1, <1>2, <1>3

OnEntry == image \in Image /\ fs_cur \in NodesOf(image) /\ ~ IsLink(fs_cur)

LEMMA CdStays ==
    ASSUME OnEntry, UNCHANGED image, NEW x \in NodesOf(image) \cup {NoNode}, fs_cur' = cd(image, fs_cur, x)
    PROVE  OnEntry'
<1>1. PICK n : Shape(image, n)
  BY Shapes DEF OnEntry
<1>2. cd(image, fs_cur, x) \in NodesOf(image) /\ ~ IsLink(cd(image, fs_cur, x))
  BY <1>1, CdIs DEF OnEntry
<1> QED
  BY <1>2 DEF OnEntry, NodesOf, EntryOf, DirOf

LEMMA OnEntryInvariance == Spec => []OnEntry
<1>1. Init => OnEntry
  <2>1. SUFFICES ASSUME Init PROVE OnEntry
    OBVIOUS
  <2>2. image \in Image /\ fs_cur = Node(Root)
    BY <2>1 DEF Init
  <2>3. PICK n : Shape(image, n)
    BY <2>2, Shapes
  <2>4. Root \in 1 .. n
    BY <2>3 DEF Shape, Root
  <2> QED
    BY <2>2, <2>3, <2>4, NodeIn, Marks DEF OnEntry
<1>2. OnEntry /\ [Next]_svars => OnEntry'
  <2> SUFFICES ASSUME OnEntry, [Next]_svars PROVE OnEntry'
    OBVIOUS
  <2>1. PICK n : Shape(image, n)
    BY Shapes DEF OnEntry
  <2>2. \A named : FindFile(image, fs_cur, named) \in NodesOf(image) \cup {NoNode}
    BY <2>1, FindFileFinds, KidIs DEF OnEntry
  <2>3. CASE UNCHANGED <<image, fs_cur>>
    BY <2>3 DEF OnEntry, NodesOf, EntryOf, DirOf
  <2>4. CASE newline
    <3>1. PICK at, s : /\ at = Skip(Ended, 0, NoBlank) /\ s = get_next_argv(Ended, at)
                       /\ UNCHANGED image
                       /\ fs_cur' \in IF Begins(Ended, at, "cd")
                                      THEN {cd(image, fs_cur, x) : x \in Finds(Ended, s)} ELSE {fs_cur}
      BY <2>4 DEF newline, exec_cmd
    <3>2. Finds(Ended, s) \in SUBSET (NodesOf(image) \cup {NoNode})
      BY <2>2 DEF Finds
    <3>3. CASE fs_cur' = fs_cur
      BY <2>3, <3>1, <3>3
    <3>4. CASE \E x \in Finds(Ended, s) : fs_cur' = cd(image, fs_cur, x)
      BY <3>1, <3>2, <3>4, CdStays
    <3> QED
      BY <3>1, <3>3, <3>4
  <2>5. CASE other_cd
    <3>1. PICK x \in NodesOf(image) \cup {NoNode} : fs_cur' = cd(image, fs_cur, x) /\ UNCHANGED image
      BY <2>2, <2>5 DEF other_cd
    <3> QED
      BY <3>1, CdStays
  <2> QED
    BY <2>3, <2>4, <2>5 DEF Next, svars, prompt, backspace, key, other_output, other_output
<1> QED
  BY <1>1, <1>2, PTL DEF Spec

(* tree prints the rest of the disk in preorder from the current entry on, each
   entry once and at its depth, what lies below the entry first, on every disk. *)
THEOREM TreeTheorem == Spec => []TreeIsPreorder
<1>1. OnEntry => TreeIsPreorder
  BY TreeOf DEF OnEntry, TreeIsPreorder
<1> QED
  BY <1>1, OnEntryInvariance, PTL

-----------------------------------------------------------------------------
LEMMA AppendIs ==
    ASSUME NEW S, NEW s \in Seq(S), NEW v
    PROVE  /\ Append(s, v) = [k \in 1 .. Len(s) + 1 |-> Append(s, v)[k]]
           /\ Append(s, v)[Len(s) + 1] = v /\ \A k \in 1 .. Len(s) : Append(s, v)[k] = s[k]
<1>1. PICK T : T = S \cup {v}
  OBVIOUS
<1>2. s \in Seq(T) /\ v \in T
  BY <1>1
<1>3. PICK a \in Seq(T) : a = Append(s, v)
  <2>1. Append(s, v) \in Seq(T)
    BY <1>2
  <2> QED
    BY <2>1
<1>4. DOMAIN a = 1 .. Len(a) /\ a = [k \in 1 .. Len(a) |-> a[k]]
  OBVIOUS
<1>5. Len(Append(s, v)) = Len(s) + 1
  OBVIOUS
<1>6. Append(s, v)[Len(s) + 1] = v /\ \A k \in 1 .. Len(s) : Append(s, v)[k] = s[k]
  OBVIOUS
<1> QED
  BY <1>3, <1>4, <1>5, <1>6

(* A sequence and what is appended to it are told from the result. *)
LEMMA AppendsAgree ==
    ASSUME NEW S, NEW s \in Seq(S), NEW t \in Seq(S), NEW v, NEW w
    PROVE  /\ Append(s, v) = Append(t, w) => s = t /\ v = w
           /\ Append(s, v) # <<>> /\ Front(Append(s, v)) = s
<1>1. /\ Len(s) \in Nat /\ Len(t) \in Nat
      /\ s = [k \in 1 .. Len(s) |-> s[k]] /\ t = [k \in 1 .. Len(t) |-> t[k]]
  OBVIOUS
<1>2. /\ Len(Append(s, v)) = Len(s) + 1 /\ Append(s, v)[Len(s) + 1] = v
      /\ \A k \in 1 .. Len(s) : Append(s, v)[k] = s[k]
  OBVIOUS
<1>3. /\ Len(Append(t, w)) = Len(t) + 1 /\ Append(t, w)[Len(t) + 1] = w
      /\ \A k \in 1 .. Len(t) : Append(t, w)[k] = t[k]
  OBVIOUS
<1>4. ASSUME Append(s, v) = Append(t, w) PROVE s = t /\ v = w
  <2>1. Len(s) = Len(t)
    <3>1. Len(s) + 1 = Len(t) + 1
      BY <1>2, <1>3, <1>4, Zenon
    <3>2. Len(s) \in Nat /\ Len(t) \in Nat
      BY <1>1
    <3> QED
      BY <3>1, <3>2
  <2>2. \A k \in 1 .. Len(s) : s[k] = t[k]
    BY <1>2, <1>3, <1>4, <2>1
  <2>3. [k \in 1 .. Len(s) |-> s[k]] = [k \in 1 .. Len(t) |-> t[k]]
    BY <2>1, <2>2
  <2> QED
    BY <1>1, <1>2, <1>3, <1>4, <2>1, <2>3
<1>5. Append(s, v) # <<>>
  BY <1>1, <1>2
<1>6. Front(Append(s, v)) = s
  <2>1. Front(Append(s, v)) = [k \in 1 .. Len(s) |-> Append(s, v)[k]]
    BY <1>1, <1>2 DEF Front
  <2>2. [k \in 1 .. Len(s) |-> Append(s, v)[k]] = [k \in 1 .. Len(s) |-> s[k]]
    BY <1>2
  <2> QED
    BY <1>1, <2>1, <2>2
<1> QED
  BY <1>4, <1>5, <1>6

(* A path is the path of the directory and the name in it. *)
NamePaths(n, P) ==
    /\ P \in [1 .. n -> Seq({Letter[e] : e \in 1 .. n})]
    /\ P[Root] = <<>>
    /\ \A e \in 2 .. n : P[e] = Append(P[image.in[e]], Letter[e])
LEMMA PathsAre ==
    ASSUME NEW n, Shape(image, n)
    PROVE  \E P : NamePaths(n, P) /\ \A e \in 1 .. n : Paths(Node(e)) = P[e]
<1>1. PICK f : /\ f \in [1 .. n -> Seq(1 .. n)] /\ PathLoop(image, f)
               /\ \A y : print_path(image, y) = f[y[2]]
  BY PathIsLoop
<1> DEFINE R == {Letter[e] : e \in 1 .. n}
           P == [e \in 1 .. n |-> [k \in 1 .. Len(f[e]) |-> Letter[f[e][k]]]]
<1>2. ASSUME NEW e \in 1 .. n PROVE P[e] \in Seq(R) /\ Paths(Node(e)) = P[e]
  <2>1. f[e] \in Seq(1 .. n) /\ print_path(image, Node(e)) = f[e]
    BY <1>1, Marks
  <2>2. Len(f[e]) \in Nat /\ DOMAIN f[e] = 1 .. Len(f[e]) /\ \A k \in 1 .. Len(f[e]) : f[e][k] \in 1 .. n
    <3>1. PICK s \in Seq(1 .. n) : s = f[e]
      BY <2>1
    <3>2. Len(s) \in Nat /\ DOMAIN s = 1 .. Len(s) /\ \A k \in 1 .. Len(s) : s[k] \in 1 .. n
      <4>1. PICK D : D = 1 .. n
        OBVIOUS
      <4>2. s \in Seq(D)
        BY <3>1, <4>1
      <4> HIDE DEF P, R
      <4>3. Len(s) \in Nat /\ DOMAIN s = 1 .. Len(s) /\ \A k \in 1 .. Len(s) : s[k] \in D
        BY <4>2
      <4> QED
        BY <4>1, <4>3
    <3> QED
      BY <3>1, <3>2
  <2>3. P[e] = [k \in 1 .. Len(f[e]) |-> Letter[f[e][k]]]
    OBVIOUS
  <2>4. Paths(Node(e)) = P[e]
    BY <2>1, <2>2, <2>3 DEF Paths
  <2>5. P[e] \in Seq(R)
    BY <2>2, <2>3
  <2> QED
    BY <2>4, <2>5
<1>3. P[Root] = <<>>
  <2>1. Root \in EntryOf(image) /\ Root \in 1 .. n
    BY DEF Shape, Root
  <2>2. f[Root] = <<>>
    <3>1. f = [i \in EntryOf(image) |-> IF i = Root THEN <<>> ELSE Append(f[image.in[i]], i)]
      BY <1>1, Zenon DEF PathLoop
    <3> QED
      BY <2>1, <3>1, Zenon
  <2> QED
    BY <2>1, <2>2
<1>4. ASSUME NEW e \in 2 .. n PROVE P[e] = Append(P[image.in[e]], Letter[e])
  <2>1. PICK d : d = image.in[e] /\ d \in 1 .. n /\ e \in 1 .. n /\ e # Root
    BY DEF Shape, Root
  <2>2. f[e] = Append(f[d], e)
    <3>1. f = [i \in EntryOf(image) |-> IF i = Root THEN <<>> ELSE Append(f[image.in[i]], i)]
      BY <1>1, Zenon DEF PathLoop
    <3>2. e \in EntryOf(image)
      BY <2>1 DEF Shape
    <3> QED
      BY <2>1, <3>1, <3>2, Zenon
  <2>3. PICK s : s = f[d] /\ s \in Seq(1 .. n) /\ Len(s) \in Nat
    BY <1>1, <2>1
  <2>4. P[d] = [k \in 1 .. Len(s) |-> Letter[s[k]]]
    BY <2>1, <2>3
  <2>5. P[e] = [k \in 1 .. Len(s) + 1 |-> Letter[Append(s, e)[k]]]
    <3>1. Len(Append(s, e)) = Len(s) + 1
      BY <2>3
    <3> QED
      BY <2>1, <2>2, <2>3, <3>1
  <2>6. PICK p, v, a : p = P[d] /\ v = Letter[e] /\ a = Append(p, v)
    OBVIOUS
  <2>7. p \in Seq(R) /\ Len(p) = Len(s) /\ \A k \in 1 .. Len(s) : p[k] = Letter[s[k]]
    <3>1. p \in Seq(R)
      BY <1>2, <2>1, <2>6
    <3>2. Len(p) \in Nat /\ DOMAIN p = 1 .. Len(p)
      <4> HIDE DEF P, R
      <4> QED
        BY <3>1
    <3>3. p = [k \in 1 .. Len(s) |-> Letter[s[k]]]
      BY <2>4, <2>6
    <3>4. Len(p) = Len(s)
      BY <2>3, <3>2, <3>3
    <3> QED
      BY <3>1, <3>3, <3>4
  <2>8. a = [k \in 1 .. Len(s) + 1 |-> a[k]]
    <3> HIDE DEF P, R
    <3> QED
      BY <2>6, <2>7, AppendIs
  <2>9. ASSUME NEW k \in 1 .. Len(s) + 1 PROVE Letter[Append(s, e)[k]] = a[k]
    <3>1. (k \in 1 .. Len(s) /\ k # Len(s) + 1) \/ k = Len(s) + 1
      BY <2>3
    <3>2. Append(s, e)[Len(s) + 1] = e /\ \A i \in 1 .. Len(s) : Append(s, e)[i] = s[i]
      BY <2>3
    <3>3. a[Len(s) + 1] = v /\ \A i \in 1 .. Len(s) : a[i] = p[i]
      <4> HIDE DEF P, R
      <4> QED
        BY <2>6, <2>7, AppendIs
    <3> QED
      BY <2>6, <2>7, <3>1, <3>2, <3>3
  <2>10. [k \in 1 .. Len(s) + 1 |-> Letter[Append(s, e)[k]]] = [k \in 1 .. Len(s) + 1 |-> a[k]]
    BY <2>9
  <2> QED
    BY <2>1, <2>5, <2>6, <2>8, <2>10
<1>5. P \in [1 .. n -> Seq(R)]
  BY <1>2
<1> HIDE DEF P
<1> QED
  BY <1>2, <1>3, <1>4, <1>5 DEF NamePaths

(* The names on the image that is typed at. *)
LEMMA NamesAre ==
    ASSUME image = Typing, NEW n, Shape(image, n)
    PROVE  /\ \A e \in 2 .. n : Letter[e] \notin {" ", Comma, ".", "..", Nul, Unknown}
           /\ \A e, f \in 2 .. n : Letter[e] = Letter[f] /\ image.in[e] = image.in[f] => e = f
<1>1. 2 .. n = EntryOf(Typing) \ {Root}
  BY DEF Shape, Root
<1> QED
  BY <1>1, NamesAssumption

(* No two entries have the same path. *)
LEMMA PathsApart ==
    ASSUME image = Typing, NEW n, Shape(image, n), NEW P, NamePaths(n, P)
    PROVE  \A e, f \in 1 .. n : P[e] = P[f] => e = f
<1> DEFINE S == {e \in 0 .. n : e = 0 \/ \A f \in 1 .. n : P[e] = P[f] => e = f}
<1>1. n \in Nat /\ Root = 1 /\ \A e \in 2 .. n : image.in[e] \in 1 .. e - 1 /\ image.in[e] \in 1 .. n
  BY DEF Shape, Root
<1>2. \A e \in 2 .. n : P[e] # <<>>
  <2>1. SUFFICES ASSUME NEW e \in 2 .. n PROVE P[e] # <<>>
    OBVIOUS
  <2>2. PICK R, s, v : s \in Seq(R) /\ P[e] = Append(s, v)
    <3>1. image.in[e] \in 1 .. n
      BY <1>1
    <3>2. P[image.in[e]] \in Seq({Letter[i] : i \in 1 .. n})
      BY <3>1 DEF NamePaths
    <3>3. P[e] = Append(P[image.in[e]], Letter[e])
      BY DEF NamePaths
    <3> QED
      BY <3>2, <3>3
  <2>3. Append(s, v) # <<>>
    BY <2>2, AppendsAgree
  <2> QED
    BY <2>2, <2>3
<1>3. ASSUME NEW e \in 0 .. n, \A k \in 0 .. e - 1 : k \in S PROVE e \in S
  <2>1. SUFFICES ASSUME e # 0, NEW f \in 1 .. n, P[e] = P[f] PROVE e = f
    OBVIOUS
  <2>2. e \in 1 .. n /\ (e = 1 \/ e \in 2 .. n) /\ (f = 1 \/ f \in 2 .. n)
    BY <1>1, <2>1
  <2>3. CASE e \in 2 .. n /\ f \in 2 .. n
    <3>1. image.in[e] \in 1 .. n /\ image.in[f] \in 1 .. n
      BY <1>1, <2>3
    <3>2. P[image.in[e]] = P[image.in[f]] /\ Letter[e] = Letter[f]
      <4>1. PICK s, t : s = P[image.in[e]] /\ t = P[image.in[f]]
        OBVIOUS
      <4>2. Append(s, Letter[e]) = Append(t, Letter[f])
        <5>1. P[e] = Append(s, Letter[e]) /\ P[f] = Append(t, Letter[f])
          BY <2>3, <4>1 DEF NamePaths
        <5> QED
          BY <2>1, <5>1
      <4>3. PICK R : s \in Seq(R) /\ t \in Seq(R)
        BY <3>1, <4>1 DEF NamePaths
      <4>4. PICK v, w : v = Letter[e] /\ w = Letter[f]
        OBVIOUS
      <4>5. s = t /\ v = w
        <5>1. Append(s, v) = Append(t, w)
          BY <4>2, <4>4
        <5> QED
          BY <4>3, <5>1, AppendsAgree
      <4> QED
        BY <4>1, <4>4, <4>5
    <3>3. image.in[e] \in S /\ image.in[e] # 0
      <4>1. PICK i : i = image.in[e] /\ i \in 0 .. e - 1 /\ i # 0
        BY <1>1, <2>3
      <4> HIDE DEF S
      <4> QED
        BY <1>3, <4>1
    <3>4. image.in[e] = image.in[f]
      BY <3>1, <3>2, <3>3
    <3> QED
      BY <2>3, <3>2, <3>4, NamesAre
  <2> QED
    BY <1>1, <1>2, <2>1, <2>2, <2>3 DEF NamePaths
<1>4. \A e \in 0 .. n : e \in S
  <2> HIDE DEF S
  <2> QED
    BY <1>1, <1>3, Strongly
<1> QED
  BY <1>1, <1>4
(* What cd does in entry d with a word w: down into the entry of that name, up,
   or nothing. *)
CdWithWord(d, w) ==
    LET x == FindFile(image, Node(d), {node \in NodesOf(image) : w = NameOf(node)})
        path == Paths(Node(d))
        down == Append(path, w)
    IN  Paths(cd(image, Node(d), x)) =
          IF down \in {Paths(Node(e)) : e \in EntryOf(image)} THEN down
          ELSE IF w = ".." /\ IsDir(image, Node(d)) /\ Node(d) # Node(Root) THEN Front(path)
          ELSE path
LEMMA CdGoes ==
    ASSUME image = Typing, NEW n, Shape(image, n), NEW d \in 1 .. n, NEW w
    PROVE  CdWithWord(d, w)
<1> DEFINE named == {node \in NodesOf(image) : w = NameOf(node)}
<1>0. PICK x, path, down :
        /\ x = FindFile(image, Node(d), named)
        /\ path = Paths(Node(d)) /\ down = Append(path, w)
  OBVIOUS
<1>1. PICK P : NamePaths(n, P) /\ \A e \in 1 .. n : Paths(Node(e)) = P[e]
  BY PathsAre
<1>2. EntryOf(image) = 1 .. n /\ n \in Nat /\ Node(d) \in NodesOf(image)
  BY NodeIn DEF Shape
<1>3. path = P[d] /\ \A e \in 1 .. n : P[e] \in Seq({Letter[i] : i \in 1 .. n})
  BY <1>0, <1>1 DEF NamePaths
<1>4. \/ x = NoNode /\ (IsDir(image, Node(d)) => Kids(image, d) \cap named = {})
      \/ IsDir(image, Node(d)) /\ x \in Kids(image, d) \cap named
  <2> HIDE DEF named
  <2>1. x = FindFile(image, Node(d), named)
    BY <1>0
  <2> QED
    BY <1>2, <2>1, FindFileFinds, Marks
<1>5. ASSUME NEW y \in Kids(image, d), ~ IsLink(y)
      PROVE  /\ y[2] \in 2 .. n /\ image.in[y[2]] = d /\ y = Node(y[2]) /\ NameOf(y) = Letter[y[2]]
             /\ P[y[2]] = Append(P[d], NameOf(y))
  <2>1. y[2] \in 2 .. n /\ image.in[y[2]] = d /\ y = Node(y[2])
    BY <1>5, KidIs, NodeIs DEF Kids
  <2>2. NameOf(y) = Letter[y[2]]
    BY <1>5 DEF NameOf
  <2> QED
    BY <1>1, <2>1, <2>2 DEF NamePaths
<1>6. ASSUME NEW e \in 1 .. n, down = P[e]
      PROVE  /\ e \in 2 .. n /\ Letter[e] = w /\ image.in[e] = d
             /\ IsDir(image, Node(d)) /\ Node(e) \in Kids(image, d) \cap named
  <2>1. PICK R : \A i \in 1 .. n : P[i] \in Seq(R)
    BY <1>3
  <2>2. P[d] \in Seq(R) /\ down = Append(P[d], w)
    BY <1>0, <1>3, <2>1
  <2>3. down # <<>>
    BY <2>2, AppendsAgree
  <2>4. e \in 2 .. n
    <3>1. P[Root] = <<>> /\ Root = 1
      BY <1>1 DEF NamePaths, Root
    <3> QED
      BY <1>2, <1>6, <2>3, <3>1
  <2>5. PICK i \in 1 .. n : i = image.in[e] /\ image.kind[i] = "dir" /\ e # Root
    <3>1. e # Root /\ image.in[e] \in 1 .. e - 1 /\ image.kind[image.in[e]] = "dir"
      BY <1>2, <2>4 DEF Shape, Root
    <3>2. image.in[e] \in 1 .. n
      BY <1>2, <2>4, <3>1
    <3> QED
      BY <3>1, <3>2
  <2>6. P[i] = P[d] /\ Letter[e] = w
    <3>1. PICK v, s, t : v = Letter[e] /\ s = P[d] /\ t = P[i] /\ P[e] = Append(t, v)
      BY <1>1, <2>4, <2>5 DEF NamePaths
    <3>2. Append(s, w) = Append(t, v)
      BY <1>6, <2>2, <3>1
    <3>3. s \in Seq(R) /\ t \in Seq(R)
      BY <2>1, <3>1
    <3>4. s = t /\ w = v
      BY <3>2, <3>3, AppendsAgree
    <3> QED
      BY <3>1, <3>4
  <2>7. i = d
    BY <1>1, <2>6, PathsApart
  <2>8. IsDir(image, Node(d))
    BY <2>5, <2>7, Marks DEF IsDir
  <2>9. Node(e) \in NodesOf(image) /\ NameOf(Node(e)) = w /\ Node(e) # Node(Root) /\ parent(image, Node(e)) = Node(d)
    BY <2>5, <2>6, <2>7, NodeIn, Marks DEF NameOf, parent
  <2> QED
    BY <2>4, <2>5, <2>6, <2>7, <2>8, <2>9 DEF Kids
<1>7. ASSUME NEW y \in Kids(image, d) \cap named, IsLink(y)
      PROVE  d # Root /\ y \in {Dot(d), DotDot(d)} /\ w \in {".", ".."} /\ (w = ".." <=> y = DotDot(d))
  <2>1. y \in Kids(image, d) /\ y[2] = d /\ y \in NodesOf(image) /\ w = NameOf(y)
    <3>1. y \in Kids(image, d) /\ w = NameOf(y)
      OBVIOUS
    <3> QED
      BY <1>7, <3>1, KidIs
  <2>2. d # Root /\ y \in {Dot(d), DotDot(d)}
    BY <1>7, <2>1, NodeIs
  <2>3. w = y[1] /\ Dot(d)[1] = "." /\ DotDot(d)[1] = ".."
    BY <1>7, <2>1 DEF NameOf, Dot, DotDot
  <2> QED
    BY <2>2, <2>3
<1> HIDE DEF named
<1>8. CASE \E e \in 1 .. n : down = P[e]
  <2>1. PICK e \in 1 .. n : down = P[e]
    BY <1>8
  <2>2. /\ e \in 2 .. n /\ Letter[e] = w /\ image.in[e] = d
        /\ IsDir(image, Node(d)) /\ Node(e) \in Kids(image, d) \cap named
    BY <1>6, <2>1
  <2>3. x \in Kids(image, d) \cap named
    BY <1>4, <2>2
  <2>4. w \notin {".", ".."}
    BY <2>2, NamesAre
  <2>5. ~ IsLink(x)
    BY <1>7, <2>3, <2>4
  <2>6. NameOf(x) = w
    BY <2>3 DEF named
  <2>7. P[x[2]] = down /\ x = Node(x[2]) /\ x[2] \in 1 .. n /\ x # NoNode
    BY <1>0, <1>2, <1>3, <1>5, <2>3, <2>5, <2>6, KidIs, NodeIs
  <2>8. cd(image, Node(d), x) = x
    BY <2>5, <2>7 DEF cd
  <2>9. Paths(x) = down
    BY <1>1, <2>7
  <2>10. down \in {Paths(Node(i)) : i \in EntryOf(image)}
    BY <1>1, <1>2, <2>1
  <2> QED
    BY <1>0, <2>8, <2>9, <2>10 DEF named, CdWithWord
<1>9. CASE ~ \E e \in 1 .. n : down = P[e]
  <2>1. down \notin {Paths(Node(i)) : i \in EntryOf(image)}
    BY <1>1, <1>2, <1>9
  <2>2. ASSUME x \in Kids(image, d) \cap named
        PROVE  IsLink(x) /\ x # NoNode /\ x[2] = d /\ IsDir(image, Node(d))
    <3>1. IsDir(image, Node(d)) /\ x \in Kids(image, d) /\ x \in NodesOf(image) /\ w = NameOf(x)
      BY <1>4, <2>2, NodeIs DEF Kids, named
    <3>2. ASSUME ~ IsLink(x) PROVE FALSE
      <4>1. P[x[2]] = Append(P[d], w) /\ x[2] \in 1 .. n
        <5>1. P[x[2]] = Append(P[d], NameOf(x)) /\ x[2] \in 2 .. n
          BY <1>5, <3>1, <3>2
        <5>2. x[2] \in 1 .. n
          BY <1>2, <5>1
        <5> QED
          BY <3>1, <5>1, <5>2, Zenon
      <4> QED
        BY <1>0, <1>3, <1>9, <4>1
    <3>3. x # NoNode
      BY <3>1, NodeIs
    <3>4. x[2] = d
      BY <3>1, <3>2, KidIs
    <3> QED
      BY <3>1, <3>2, <3>3, <3>4
  <2>3. CASE w = ".." /\ IsDir(image, Node(d)) /\ Node(d) # Node(Root)
    <3>1. d # Root /\ image.kind[d] = "dir" /\ d \in 2 .. n
      <4>1. d # Root /\ image.kind[d] = "dir"
        BY <2>3, Marks DEF IsDir
      <4> QED
        BY <1>2, <4>1 DEF Root
    <3>2. DotDot(d) \in Kids(image, d) \cap named
      <4>1. DotDot(d) \in NodesOf(image) /\ DotDot(d) # Node(Root) /\ parent(image, DotDot(d)) = Node(d)
        BY <3>1, NodeIn, Marks DEF parent
      <4>2. NameOf(DotDot(d)) = w
        BY <2>3 DEF NameOf, IsLink, DotDot
      <4> QED
        BY <4>1, <4>2 DEF Kids, named
    <3>3. x \in Kids(image, d) \cap named
      BY <1>4, <2>3, <3>2
    <3>4. x = DotDot(d) /\ x # NoNode /\ IsLink(x)
      BY <1>7, <2>2, <2>3, <3>3
    <3>5. PICK i \in 1 .. n : i = image.in[d]
      BY <3>1 DEF Shape
    <3>6. cd(image, Node(d), x) = Node(i)
      <4>1. cd(image, Node(d), x) = link(image, x)
        BY <3>4 DEF cd
      <4>2. x[1] # "." /\ x[2] = d
        BY <3>4 DEF DotDot
      <4> QED
        BY <3>1, <3>5, <4>1, <4>2, Marks DEF link, parent
    <3>7. Front(P[d]) = P[i]
      <4>1. PICK s, v, R : s = P[i] /\ P[d] = Append(s, v) /\ s \in Seq(R)
        <5>1. P[d] = Append(P[i], Letter[d])
          BY <1>1, <3>1, <3>5 DEF NamePaths
        <5> QED
          BY <1>3, <5>1
      <4>2. Front(Append(s, v)) = s
        BY <4>1, AppendsAgree
      <4> QED
        BY <4>1, <4>2
    <3> QED
      BY <1>0, <1>1, <1>3, <2>1, <2>3, <3>6, <3>7 DEF named, CdWithWord
  <2>4. CASE ~ (w = ".." /\ IsDir(image, Node(d)) /\ Node(d) # Node(Root))
    <3>1. cd(image, Node(d), x) = Node(d)
      <4>1. CASE x = NoNode
        BY <4>1 DEF cd
      <4>2. CASE x \in Kids(image, d) \cap named
        <5>1. IsLink(x) /\ x # NoNode /\ IsDir(image, Node(d))
          BY <2>2, <4>2
        <5>2. d # Root /\ x \in {Dot(d), DotDot(d)} /\ (w = ".." <=> x = DotDot(d))
          BY <1>7, <4>2, <5>1
        <5>3. x = Dot(d)
          BY <2>4, <5>1, <5>2, Marks
        <5>4. x[1] = "." /\ x[2] = d
          BY <5>3 DEF Dot
        <5> QED
          BY <5>1, <5>4 DEF cd, link
      <4> QED
        BY <1>4, <4>1, <4>2
    <3> QED
      BY <1>0, <2>1, <2>4, <3>1 DEF named, CdWithWord
  <2> QED
    BY <2>3, <2>4
<1> QED
  BY <1>8, <1>9

-----------------------------------------------------------------------------
(* A scan ends at the first stop. *)
LEMMA SkipIs ==
    ASSUME NEW c, NEW i \in Nat, NEW stops, NEW e \in i .. CMD_MAX, c[e] \in stops,
           \A k \in i .. e - 1 : c[k] \notin stops
    PROVE  Skip(c, i, stops) = e
<1>1. PICK j : j = Skip(c, i, stops)
  OBVIOUS
<1>2. j \in i .. e /\ c[j] \in stops
  BY <1>1, SkipStops
<1> QED
  BY <1>1, <1>2

(* c holds a text of len typed cells and its end mark. *)
Holds(c, text, len) ==
    /\ c[len] = Nul /\ Len(text) = len
    /\ \A p \in 0 .. len - 1 : c[p] = text[p + 1] /\ c[p] \in Cell

(* How the kernel reads a line with two words, from i and from k to l. *)
ReadsWords(c, i, k, l) ==
    /\ Skip(c, 0, NoBlank) = i - 1
    /\ get_next_argv(c, i - 1) = k - 1
    /\ Skip(c, k - 1, {" ", Nul}) = l
    /\ \A p \in k - 1 .. l : c[p] # Unknown
LEMMA CdReads ==
    ASSUME NEW c, NEW text, NEW len \in 0 .. CMD_MAX, Holds(c, text, len),
           NEW i \in 1 .. len, NEW j \in 1 .. len, NEW k \in 1 .. len, NEW l \in 1 .. len,
           TwoWords(text, i, j, k, l)
    PROVE  ReadsWords(c, i, k, l)
<1>0. /\ len \in Nat /\ CMD_MAX \in Nat /\ i \in Nat /\ j \in Nat /\ k \in Nat /\ l \in Nat
      /\ 1 <= i /\ i <= j /\ j + 1 < k /\ k <= l /\ l <= len /\ len <= CMD_MAX
  <2>1. i <= j /\ j + 1 < k /\ k <= l
    BY DEF TwoWords
  <2> QED
    BY <2>1
<1>1. Len(text) = len /\ c[len] = Nul /\ \A p \in 0 .. len - 1 : c[p] = text[p + 1] /\ c[p] \in Cell
  BY DEF Holds
<1>2. /\ \A p \in 1 .. l : text[p] = " " <=> (p < i \/ (j < p /\ p < k))
      /\ l < len => text[l + 1] = " "
  BY <1>1 DEF TwoWords
<1>3. ASSUME NEW p \in 0 .. l - 1 PROVE c[p] = " " <=> (p + 1 < i \/ (j < p + 1 /\ p + 1 < k))
  <2>1. p + 1 \in 1 .. l /\ p \in 0 .. len - 1
    BY <1>0
  <2> QED
    BY <1>1, <1>2, <2>1
<1>4. ASSUME NEW p \in 0 .. l - 1 PROVE c[p] # Nul /\ c[p] # Unknown /\ (c[p] \in NoBlank <=> c[p] # " ")
  <2>1. p \in 0 .. len - 1
    BY <1>0
  <2> QED
    BY <1>1, <2>1, CellsAre
<1>5. Skip(c, 0, NoBlank) = i - 1
  <2>1. i - 1 \in 0 .. l - 1 /\ i - 1 \in 0 .. CMD_MAX /\ \A p \in 0 .. (i - 1) - 1 : p \in 0 .. l - 1 /\ p + 1 < i
    BY <1>0
  <2>2. c[i - 1] \in NoBlank
    <3>1. ~ ((i - 1) + 1 < i) /\ ~ (j < (i - 1) + 1)
      BY <1>0
    <3> QED
      BY <1>3, <1>4, <2>1, <3>1
  <2>3. \A p \in 0 .. (i - 1) - 1 : c[p] \notin NoBlank
    BY <1>3, <1>4, <2>1
  <2> QED
    BY <2>1, <2>2, <2>3, SkipIs
<1>6. Skip(c, i - 1, {" "}) = j
  <2>1. i - 1 \in Nat /\ j \in i - 1 .. CMD_MAX /\ j \in 0 .. l - 1 /\ j < j + 1
    BY <1>0
  <2>2. c[j] \in {" "}
    BY <1>0, <1>3, <2>1
  <2>3. ASSUME NEW p \in i - 1 .. j - 1 PROVE c[p] \notin {" "}
    <3>1. p \in 0 .. l - 1 /\ ~ (p + 1 < i) /\ ~ (j < p + 1)
      BY <1>0
    <3> QED
      BY <1>3, <3>1
  <2> QED
    BY <2>1, <2>2, <2>3, SkipIs
<1>7. Skip(c, j, NoBlank) = k - 1
  <2>1. j \in Nat /\ k - 1 \in j .. CMD_MAX /\ k - 1 \in 0 .. l - 1
    BY <1>0
  <2>2. c[k - 1] \in NoBlank
    <3>1. ~ ((k - 1) + 1 < i) /\ ~ ((k - 1) + 1 < k)
      BY <1>0
    <3> QED
      BY <1>3, <1>4, <2>1, <3>1
  <2>3. ASSUME NEW p \in j .. (k - 1) - 1 PROVE c[p] \notin NoBlank
    <3>1. p \in 0 .. l - 1 /\ j < p + 1 /\ p + 1 < k
      BY <1>0
    <3> QED
      BY <1>3, <1>4, <3>1
  <2> QED
    BY <2>1, <2>2, <2>3, SkipIs
<1>8. Skip(c, k - 1, {" ", Nul}) = l
  <2>1. k - 1 \in Nat /\ l \in k - 1 .. CMD_MAX
    BY <1>0
  <2>2. c[l] \in {" ", Nul}
    <3>1. l = len \/ (l < len /\ l \in 0 .. len - 1)
      BY <1>0
    <3> QED
      BY <1>1, <1>2, <3>1
  <2>3. ASSUME NEW p \in k - 1 .. l - 1 PROVE c[p] \notin {" ", Nul}
    <3>1. p \in 0 .. l - 1 /\ ~ (p + 1 < i) /\ ~ (p + 1 < k)
      BY <1>0
    <3> QED
      BY <1>3, <1>4, <3>1
  <2> QED
    BY <2>1, <2>2, <2>3, SkipIs
<1>9. ASSUME NEW p \in k - 1 .. l PROVE c[p] # Unknown
  <2>1. p \in 0 .. l - 1 \/ p = l
    BY <1>0
  <2>2. c[l] # Unknown
    <3>1. l = len \/ (l < len /\ l \in 0 .. len - 1)
      BY <1>0
    <3> QED
      BY <1>1, <3>1, CellsAre DEF Nul, Unknown
  <2> QED
    BY <1>4, <2>1, <2>2
<1> QED
  BY <1>5, <1>6, <1>7, <1>8, <1>9 DEF get_next_argv, ReadsWords
(* The step of the kernel, for a line that shows cd and a word. *)
LEMMA CdShown ==
    ASSUME LInv, OnEntry, newline, AsShown,
           NEW i \in DOMAIN shown.text, NEW j \in DOMAIN shown.text,
           NEW k \in DOMAIN shown.text, NEW l \in DOMAIN shown.text,
           TwoWords(shown.text, i, j, k, l), shown.text[i] = "cd"
    PROVE  LET name == SubSeq(shown.text, k, l)
               down == shown.path \o name
           IN  Paths(fs_cur') =
                 IF Len(name) = 1 /\ down \in {Paths(Node(e)) : e \in EntryOf(image)} THEN down
                 ELSE IF name = <<"..">> /\ IsDir(image, fs_cur) /\ fs_cur # Node(Root)
                 THEN Front(shown.path)
                 ELSE shown.path
<1>1. PICK n : Shape(image, n)
  BY Shapes DEF OnEntry
<1>2. PICK d \in 1 .. n : fs_cur = Node(d)
  BY <1>1, NodeIs DEF OnEntry
<1>3. image = Typing /\ mode = "edit" /\ exec_cmd(Ended)
  BY DEF newline, Edits
<1>4. PICK c, text, len, path :
        /\ c = Ended /\ text = shown.text /\ len = cmd_len /\ path = shown.path
        /\ path = Paths(fs_cur) /\ text = [p \in 1 .. len |-> cmd[p - 1]]
        /\ len \in 0 .. CMD_MAX
  BY <1>3 DEF LInv, LineIsShown, RowIsLine, AsShown
<1>5. Holds(c, text, len) /\ DOMAIN text = 1 .. len
  <2>1. DOMAIN cmd = 0 .. CMD_MAX /\ len \in Nat /\ CMD_MAX \in Nat /\ len <= CMD_MAX
    BY <1>4 DEF LInv
  <2>2. c[len] = Nul /\ \A p \in 0 .. len - 1 : c[p] = cmd[p]
    BY <1>4, <2>1 DEF Ended
  <2>3. ASSUME NEW p \in 0 .. len - 1 PROVE c[p] = text[p + 1] /\ c[p] \in Cell
    <3>1. p + 1 \in 1 .. len /\ (p + 1) - 1 = p
      BY <2>1
    <3>2. cmd[p] \in Cell
      BY <1>4 DEF LInv, TypedCells
    <3> QED
      BY <1>4, <2>2, <3>1, <3>2
  <2>4. DOMAIN text = 1 .. len /\ Len(text) = len
    BY <1>4, <2>1
  <2> QED
    BY <2>2, <2>3, <2>4 DEF Holds
<1>6. i \in 1 .. len /\ j \in 1 .. len /\ k \in 1 .. len /\ l \in 1 .. len /\ TwoWords(text, i, j, k, l)
  BY <1>4, <1>5
<1>7. /\ Skip(c, 0, NoBlank) = i - 1 /\ get_next_argv(c, i - 1) = k - 1
      /\ Skip(c, k - 1, {" ", Nul}) = l /\ \A p \in k - 1 .. l : c[p] # Unknown
  <2>1. len \in 0 .. CMD_MAX
    BY <1>4
  <2>2. ReadsWords(c, i, k, l)
    BY <1>5, <1>6, <2>1, CdReads
  <2> QED
    BY <2>2 DEF ReadsWords
<1>8. /\ i \in Nat /\ k \in Nat /\ l \in Nat /\ k <= l /\ l <= CMD_MAX /\ k >= 1
      /\ c[i - 1] = "cd" /\ c[k - 1] = text[k]
  <2>1. k <= l /\ len \in Nat /\ len <= CMD_MAX /\ CMD_MAX \in Nat
    <3>1. k <= l
      BY <1>6 DEF TwoWords
    <3>2. len \in 0 .. CMD_MAX
      BY <1>4
    <3> QED
      BY <3>1, <3>2
  <2>2. i - 1 \in 0 .. len - 1 /\ k - 1 \in 0 .. len - 1 /\ (i - 1) + 1 = i /\ (k - 1) + 1 = k
    BY <1>6, <2>1
  <2>3. c[i - 1] = text[i] /\ c[k - 1] = text[k]
    BY <1>5, <2>2 DEF Holds
  <2> QED
    BY <1>4, <1>6, <2>1, <2>3
<1>9. PICK named :
        /\ named = {node \in NodesOf(image) : l = k /\ text[k] = NameOf(node)}
        /\ fs_cur' = cd(image, Node(d), FindFile(image, Node(d), named))
  <2>1. PICK named : named = {node \in NodesOf(image) : l = (k - 1) + 1 /\ c[k - 1] = NameOf(node)}
    OBVIOUS
  <2>2. Finds(c, k - 1) = {FindFile(image, fs_cur, named)}
    BY <1>7, <1>8, <2>1 DEF Finds
  <2>3. fs_cur' \in {cd(image, fs_cur, x) : x \in Finds(c, k - 1)}
    BY <1>3, <1>4, <1>7, <1>8 DEF exec_cmd, Begins
  <2>4. named = {node \in NodesOf(image) : l = k /\ text[k] = NameOf(node)}
    BY <1>8, <2>1
  <2> QED
    BY <1>2, <2>2, <2>3, <2>4
<1>10. PICK name, w : name = SubSeq(text, k, l) /\ w = text[k]
  OBVIOUS
<1>11. Len(name) = (l - k) + 1 /\ (l = k => name = <<w>>)
  <2>1. name = [p \in 1 .. (l - k) + 1 |-> text[(p + k) - 1]]
    BY <1>6, <1>8, <1>10
  <2>2. Len(name) = (l - k) + 1
    BY <1>8, <2>1
  <2>3. ASSUME l = k PROVE name = <<w>>
    <3>1. (l - k) + 1 = 1 /\ (1 + k) - 1 = k
      BY <1>8, <2>3
    <3>2. name = [p \in 1 .. 1 |-> text[(p + k) - 1]]
      BY <2>1, <3>1
    <3> QED
      BY <1>10, <3>1, <3>2
  <2> QED
    BY <2>2, <2>3
<1>12. CASE l = k
  <2>1. PICK down : down = Append(path, w)
    OBVIOUS
  <2>2. path \in Seq({Letter[e] : e \in 1 .. n})
    <3>1. PICK P : NamePaths(n, P) /\ \A e \in 1 .. n : Paths(Node(e)) = P[e]
      BY <1>1, PathsAre
    <3>2. path = P[d]
      BY <1>2, <1>4, <3>1
    <3>3. P[d] \in Seq({Letter[e] : e \in 1 .. n})
      BY <3>1 DEF NamePaths
    <3> QED
      BY <3>2, <3>3
  <2>3. path \o <<w>> = down
    BY <2>1, <2>2
  <2>4. named = {node \in NodesOf(image) : w = NameOf(node)}
    BY <1>9, <1>10, <1>12
  <2>5. Paths(fs_cur') =
          IF down \in {Paths(Node(e)) : e \in EntryOf(image)} THEN down
          ELSE IF w = ".." /\ IsDir(image, Node(d)) /\ Node(d) # Node(Root) THEN Front(path)
          ELSE path
    <3>1. PICK x, up : x = FindFile(image, Node(d), {node \in NodesOf(image) : w = NameOf(node)})
                       /\ up = Paths(Node(d))
      OBVIOUS
    <3>2. Paths(cd(image, Node(d), x)) =
            IF Append(up, w) \in {Paths(Node(e)) : e \in EntryOf(image)} THEN Append(up, w)
            ELSE IF w = ".." /\ IsDir(image, Node(d)) /\ Node(d) # Node(Root) THEN Front(up)
            ELSE up
      <4>1. CdWithWord(d, w)
        BY <1>1, <1>3, CdGoes
      <4> QED
        BY <3>1, <4>1 DEF CdWithWord
    <3>3. fs_cur' = cd(image, Node(d), x) /\ up = path
      BY <1>2, <1>4, <1>9, <2>4, <3>1
    <3> QED
      BY <2>1, <3>2, <3>3
  <2>6. Len(name) = 1 /\ name = <<w>> /\ (name = <<"..">> <=> w = "..")
    BY <1>8, <1>11, <1>12
  <2> QED
    BY <1>2, <1>4, <1>10, <2>3, <2>5, <2>6
<1>13. CASE l # k
  <2>1. Len(name) # 1 /\ name # <<"..">>
    BY <1>8, <1>11, <1>13
  <2>2. FindFile(image, Node(d), named) = NoNode
    <3>1. named = {}
      BY <1>9, <1>13
    <3>2. Node(d) \in NodesOf(image)
      BY <1>1, NodeIn
    <3> QED
      BY <1>1, <3>1, <3>2, FindFileFinds
  <2>3. fs_cur' = fs_cur
    BY <1>2, <1>9, <2>2 DEF cd
  <2> QED
    BY <1>4, <1>10, <2>1, <2>3
<1> QED
  BY <1>12, <1>13

(* A line with cd and a name moves below the path of its prompt, up, or nowhere. *)
THEOREM CdTheorem == Spec => CdGoesWhereShown
<1>1. LInv /\ OnEntry /\ [Next]_svars =>
        [\A i, j, k, l \in DOMAIN shown.text :
           TwoWords(shown.text, i, j, k, l) /\ shown.text[i] = "cd" /\ newline /\ AsShown =>
             LET name == SubSeq(shown.text, k, l)
                 down == shown.path \o name
             IN  Paths(fs_cur') =
                   IF Len(name) = 1 /\ down \in {Paths(Node(e)) : e \in EntryOf(image)} THEN down
                   ELSE IF name = <<"..">> /\ IsDir(image, fs_cur) /\ fs_cur # Node(Root)
                   THEN Front(shown.path)
                   ELSE shown.path]_svars
  BY CdShown
<1> QED
  BY <1>1, ShellInvariance, OnEntryInvariance, PTL DEF Spec, CdGoesWhereShown
=============================================================================
