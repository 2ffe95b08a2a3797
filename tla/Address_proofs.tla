---------------------------- MODULE Address_proofs ----------------------------
(***************************************************************************)
(* What the carry loop computes, for every number of bytes and of values   *)
(* of a byte.  The loop, and what it is compared with, are recursive       *)
(* functions over the bytes.  Induction over the bytes is stated with sets *)
(* of byte positions, and recursion with functions for its steps, so that  *)
(* both apply to any claim without a theorem about operators.              *)
(***************************************************************************)
EXTENDS Address, WellFoundedInduction, TLAPS

\* A byte has a value at least, an address a byte, and a slice lies in its last one.
LEMMA Sizes ==
    /\ Byte \in Nat /\ Byte > 0 /\ Hosts \in Nat /\ Hosts > 0 /\ (Byte % Hosts) = 0
    /\ Last \in Nat /\ Last \in 0 .. Last /\ 0 \in 0 .. Last
  BY AddressAssumption DEF Last

LEMMA DivMod ==
    ASSUME NEW x \in Nat, NEW b \in Nat, b > 0
    PROVE  /\ x \div b \in Nat /\ x % b \in 0 .. b - 1
           /\ x = (x \div b) * b + (x % b)
  OBVIOUS

LEMMA DivModIs ==
    ASSUME NEW q \in Int, NEW b \in Nat, b > 0, NEW r \in 0 .. b - 1
    PROVE  (q * b + r) \div b = q /\ (q * b + r) % b = r
  OBVIOUS

\* A multiple of the divisor makes no difference to the remainder, and as much of one
\* to the quotient.
LEMMA DivModPlus ==
    ASSUME NEW q \in Nat, NEW b \in Nat, b > 0, NEW x \in Nat
    PROVE  (q * b + x) \div b = q + (x \div b) /\ (q * b + x) % b = x % b
<1> DEFINE p == x \div b
           r == x % b
<1>1. p \in Nat /\ r \in 0 .. b - 1 /\ x = p * b + r
  BY DivMod
<1> HIDE DEF p, r
<1>2. q * b + x = (q + p) * b + r
  BY <1>1
<1>3. (q * b + x) \div b = q + p /\ (q * b + x) % b = r
  BY <1>1, <1>2, DivModIs
<1>4. QED
  BY <1>3 DEF p, r

-----------------------------------------------------------------------------
(* Induction and recursion over the bytes. *)

\* The first byte that a claim does not hold for.
LEMMA FirstOf ==
    ASSUME NEW S \in SUBSET Nat, S # {}
    PROVE  \E m \in S : \A k \in S : m <= k
<1>1. PICK m \in S : \A k \in S : ~(<<k, m>> \in OpToRel(<, Nat))
  BY NatLessThanWellFounded, WFMin, Zenon
<1>2. \A k \in S : ~(k < m)
  BY <1>1 DEF OpToRel
<1>3. QED
  BY <1>2

LEMMA Upwards ==
    ASSUME NEW S, 0 \in S, \A k \in 0 .. Last - 1 : k \in S => k + 1 \in S
    PROVE  \A k \in 0 .. Last : k \in S
<1> DEFINE T == {k \in 0 .. Last : k \notin S}
<1> SUFFICES ASSUME T # {}
             PROVE  FALSE
  OBVIOUS
<1>1. T \in SUBSET Nat
  BY Sizes
<1>2. PICK m \in T : \A k \in T : m <= k
  BY <1>1, FirstOf
<1>3. m - 1 \in 0 .. Last - 1 /\ m - 1 \notin T
  BY <1>2, Sizes
<1>4. QED
  BY <1>2, <1>3, Sizes

LEMMA Downwards ==
    ASSUME NEW S, Last \in S, \A k \in 0 .. Last - 1 : k + 1 \in S => k \in S
    PROVE  \A k \in 0 .. Last : k \in S
<1> DEFINE T == {k \in 0 .. Last : Last - k \in S}
<1>1. 0 \in T
  BY Sizes
<1>2. \A k \in 0 .. Last - 1 : k \in T => k + 1 \in T
  <2> SUFFICES ASSUME NEW k \in 0 .. Last - 1, Last - k \in S
               PROVE  Last - (k + 1) \in S
    BY Sizes
  <2>1. Last - (k + 1) \in 0 .. Last - 1 /\ (Last - (k + 1)) + 1 = Last - k
    BY Sizes
  <2>2. QED
    BY <2>1
<1>3. \A k \in 0 .. Last : k \in T
  <2> HIDE DEF T
  <2>1. QED
    BY <1>1, <1>2, Upwards
<1>4. ASSUME NEW k \in 0 .. Last
      PROVE  k \in S
  <2>1. Last - k \in 0 .. Last /\ Last - (Last - k) = k
    BY Sizes
  <2>2. QED
    BY <1>3, <2>1
<1>5. QED
  BY <1>4

LEMMA Positions ==
    ASSUME NEW m \in 0 .. Last - 1, NEW k \in 0 .. m
    PROVE  k \in 0 .. Last /\ k + 1 \in 0 .. Last /\ k # m + 1
  BY Sizes

\* A start and a step for every byte define a function.
LEMMA RecursionUp ==
    ASSUME NEW start \in Nat, NEW step \in [0 .. Last -> [Nat -> Nat]]
    PROVE  \E f \in [0 .. Last -> Nat] :
              f[0] = start /\ \A k \in 0 .. Last - 1 : f[k + 1] = step[k + 1][f[k]]
<1> DEFINE Upto(f, m) == f[0] = start /\ \A k \in 0 .. m - 1 : f[k + 1] = step[k + 1][f[k]]
           S == {m \in 0 .. Last : \E f \in [0 .. Last -> Nat] : Upto(f, m)}
<1>1. 0 \in S
  <2> DEFINE f == [k \in 0 .. Last |-> start]
  <2>1. f \in [0 .. Last -> Nat] /\ f[0] = start
    BY Sizes
  <2>2. Upto(f, 0)
    BY <2>1
  <2>3. QED
    BY <2>1, <2>2, Sizes
<1>2. ASSUME NEW m \in 0 .. Last - 1, m \in S
      PROVE  m + 1 \in S
  <2>1. PICK f \in [0 .. Last -> Nat] : Upto(f, m)
    BY <1>2
  <2> DEFINE g == [f EXCEPT ![m + 1] = step[m + 1][f[m]]]
  <2>2. m \in 0 .. Last /\ m + 1 \in 0 .. Last /\ m + 1 # 0
    BY Sizes
  <2>3. step[m + 1][f[m]] \in Nat
    BY <2>1, <2>2
  <2>4. g \in [0 .. Last -> Nat]
    BY <2>2, <2>3
  <2>5. g[0] = start
    BY <2>1, <2>2, Sizes
  <2> HIDE DEF Upto
  <2>6. ASSUME NEW k \in 0 .. m
        PROVE  g[k + 1] = step[k + 1][g[k]]
    <3>0. \A i \in 0 .. m - 1 : f[i + 1] = step[i + 1][f[i]]
      BY <2>1 DEF Upto
    <3> HIDE <2>1
    <3>1. k \in 0 .. Last /\ k + 1 \in 0 .. Last /\ k # m + 1
      BY Positions
    <3>2. g[k] = f[k]
      BY <3>1
    <3>3. CASE k = m
      BY <2>2, <3>2, <3>3
    <3>4. CASE k # m
      <4>1. k \in 0 .. m - 1 /\ k + 1 # m + 1
        BY <3>4
      <4>2. g[k + 1] = f[k + 1]
        BY <3>1, <4>1
      <4>3. QED
        BY <3>0, <3>2, <4>1, <4>2
    <3>5. QED
      BY <3>3, <3>4
  <2> HIDE DEF g
  <2>7. Upto(g, m + 1)
    BY <2>2, <2>5, <2>6 DEF Upto
  <2>8. QED
    BY <2>2, <2>4, <2>7
<1>3. Last \in S
  <2> HIDE DEF S
  <2>1. QED
    BY <1>1, <1>2, Upwards, Sizes
<1>4. QED
  BY <1>3

LEMMA RecursionDown ==
    ASSUME NEW start \in Nat, NEW step \in [0 .. Last -> [Nat -> Nat]]
    PROVE  \E f \in [0 .. Last -> Nat] :
              f[Last] = start /\ \A k \in 0 .. Last - 1 : f[k] = step[k][f[k + 1]]
<1> DEFINE mirror == [k \in 0 .. Last |-> step[Last - k]]
<1>0. \A k \in 0 .. Last : Last - k \in 0 .. Last
  BY Sizes
<1>1. mirror \in [0 .. Last -> [Nat -> Nat]]
  BY <1>0
<1>2. PICK g \in [0 .. Last -> Nat] :
          g[0] = start /\ \A k \in 0 .. Last - 1 : g[k + 1] = mirror[k + 1][g[k]]
  BY <1>1, RecursionUp
<1> DEFINE f == [k \in 0 .. Last |-> g[Last - k]]
<1>3. f \in [0 .. Last -> Nat]
  BY <1>0
<1>4. f[Last] = start
  BY <1>2, Sizes
<1>5. ASSUME NEW k \in 0 .. Last - 1
      PROVE  f[k] = step[k][f[k + 1]]
  <2> DEFINE j == Last - (k + 1)
  <2>1. /\ j \in 0 .. Last - 1 /\ j + 1 = Last - k /\ j + 1 \in 0 .. Last
        /\ Last - (j + 1) = k /\ k \in 0 .. Last /\ k + 1 \in 0 .. Last
    BY Sizes
  <2>2. f[k] = g[j + 1] /\ f[k + 1] = g[j]
    BY <2>1
  <2>3. mirror[j + 1] = step[k]
    BY <2>1
  <2> HIDE DEF j, mirror, f
  <2>4. QED
    BY <1>2, <2>1, <2>2, <2>3
<1>6. QED
  BY <1>3, <1>4, <1>5

-----------------------------------------------------------------------------
(* The recursive functions of Address are what their equations say. *)

LEMMA Digits ==
    ASSUME NEW a \in Addresses, NEW k \in 0 .. Last
    PROVE  a[k] \in Nat /\ a[k] \in 0 .. Byte - 1
  BY Sizes DEF Addresses

LEMMA CarriesAre ==
    ASSUME NEW a \in Addresses, NEW delta \in Nat
    PROVE  /\ Carries(a, delta) \in [0 .. Last -> Nat]
           /\ Carries(a, delta)[Last] = delta
           /\ \A k \in 0 .. Last - 1 :
                 Carries(a, delta)[k] = (Carries(a, delta)[k + 1] + a[k + 1]) \div Byte
<1> DEFINE Step(x, k) == (x + a[k + 1]) \div Byte
           step == [k \in 0 .. Last |-> [x \in Nat |-> IF k = Last THEN 0 ELSE Step(x, k)]]
<1>1. \A k \in 0 .. Last, x \in Nat : k # Last => Step(x, k) \in Nat
  <2> SUFFICES ASSUME NEW k \in 0 .. Last, NEW x \in Nat, k # Last
               PROVE  Step(x, k) \in Nat
    OBVIOUS
  <2>1. a[k + 1] \in Nat
    BY Digits, Sizes
  <2>2. QED
    BY <2>1, DivMod, Sizes
<1> HIDE DEF Step
<1>2. step \in [0 .. Last -> [Nat -> Nat]]
  BY <1>1
<1>3. PICK f \in [0 .. Last -> Nat] :
          f[Last] = delta /\ \A k \in 0 .. Last - 1 : f[k] = step[k][f[k + 1]]
  BY <1>2, RecursionDown
<1>4. ASSUME NEW k \in 0 .. Last - 1
      PROVE  f[k] = Step(f[k + 1], k)
  <2>1. k \in 0 .. Last /\ k + 1 \in 0 .. Last /\ k # Last
    BY Sizes
  <2>2. QED
    BY <1>3, <2>1
<1>5. f = [k \in 0 .. Last |-> IF k = Last THEN delta ELSE Step(f[k + 1], k)]
  <2>1. \A k \in 0 .. Last : k # Last => k \in 0 .. Last - 1
    BY Sizes
  <2>2. QED
    BY <1>3, <1>4, <2>1
<1>6. Carries(a, delta) = [k \in 0 .. Last |-> IF k = Last THEN delta
                                              ELSE Step(Carries(a, delta)[k + 1], k)]
  BY <1>5 DEF Carries, Step
<1> DEFINE g == Carries(a, delta)
<1> HIDE DEF g
<1>7. g = [k \in 0 .. Last |-> IF k = Last THEN delta ELSE Step(g[k + 1], k)]
  BY <1>6 DEF g
<1>8. g[Last] = delta /\ \A k \in 0 .. Last - 1 : g[k] = Step(g[k + 1], k)
  <2>1. \A k \in 0 .. Last - 1 : k \in 0 .. Last /\ k # Last
    BY Sizes
  <2>2. QED
    BY <1>7, <2>1, Sizes
<1>9. \A k \in 0 .. Last : g[k] \in Nat
  <2> DEFINE S == {k \in 0 .. Last : g[k] \in Nat}
  <2>1. Last \in S
    BY <1>8, Sizes
  <2>2. \A k \in 0 .. Last - 1 : k + 1 \in S => k \in S
    <3>1. \A k \in 0 .. Last - 1 : k \in 0 .. Last /\ k # Last
      BY Sizes
    <3>2. QED
      BY <1>1, <1>8, <3>1
  <2> HIDE DEF S
  <2>3. \A k \in 0 .. Last : k \in S
    BY <2>1, <2>2, Downwards
  <2>4. QED
    BY <2>3 DEF S
<1>10. g \in [0 .. Last -> Nat]
  BY <1>7, <1>9
<1>11. QED
  BY <1>8, <1>10 DEF g, Step

LEMMA PrefixesAre ==
    ASSUME NEW a \in Addresses
    PROVE  /\ Prefixes(a) \in [0 .. Last -> Nat]
           /\ Prefixes(a)[0] = a[0]
           /\ \A k \in 0 .. Last - 1 : Prefixes(a)[k + 1] = Prefixes(a)[k] * Byte + a[k + 1]
<1> DEFINE Step(x, k) == x * Byte + a[k]
           step == [k \in 0 .. Last |-> [x \in Nat |-> Step(x, k)]]
<1>1. \A k \in 0 .. Last, x \in Nat : Step(x, k) \in Nat
  BY Digits, Sizes
<1> HIDE DEF Step
<1>2. step \in [0 .. Last -> [Nat -> Nat]]
  BY <1>1
<1>3. a[0] \in Nat
  BY Digits, Sizes
<1>4. PICK f \in [0 .. Last -> Nat] :
          f[0] = a[0] /\ \A k \in 0 .. Last - 1 : f[k + 1] = step[k + 1][f[k]]
  BY <1>2, <1>3, RecursionUp
<1>5. ASSUME NEW k \in 0 .. Last, k # 0
      PROVE  f[k] = Step(f[k - 1], k)
  <2>1. k - 1 \in 0 .. Last - 1 /\ k - 1 \in 0 .. Last /\ (k - 1) + 1 = k
    BY <1>5, Sizes
  <2>2. f[k] = step[k][f[k - 1]]
    BY <1>4, <2>1
  <2>3. QED
    BY <2>1, <2>2
<1>6. f = [k \in 0 .. Last |-> IF k = 0 THEN a[0] ELSE Step(f[k - 1], k)]
  BY <1>4, <1>5
<1>7. Prefixes(a) = [k \in 0 .. Last |-> IF k = 0 THEN a[0] ELSE Step(Prefixes(a)[k - 1], k)]
  BY <1>6 DEF Prefixes, Step
<1> DEFINE g == Prefixes(a)
<1> HIDE DEF g
<1>8. g = [k \in 0 .. Last |-> IF k = 0 THEN a[0] ELSE Step(g[k - 1], k)]
  BY <1>7 DEF g
<1>9. g[0] = a[0] /\ \A k \in 0 .. Last - 1 : g[k + 1] = Step(g[k], k + 1)
  <2>1. \A k \in 0 .. Last - 1 : k + 1 \in 0 .. Last /\ k + 1 # 0 /\ (k + 1) - 1 = k
    BY Sizes
  <2>2. QED
    BY <1>8, <2>1, Sizes
<1>10. \A k \in 0 .. Last : g[k] \in Nat
  <2> DEFINE S == {k \in 0 .. Last : g[k] \in Nat}
  <2>1. 0 \in S
    BY <1>3, <1>9, Sizes
  <2>2. \A k \in 0 .. Last - 1 : k \in S => k + 1 \in S
    <3>1. \A k \in 0 .. Last - 1 : k + 1 \in 0 .. Last
      BY Sizes
    <3>2. QED
      BY <1>1, <1>9, <3>1
  <2> HIDE DEF S
  <2>3. \A k \in 0 .. Last : k \in S
    BY <2>1, <2>2, Upwards
  <2>4. QED
    BY <2>3 DEF S
<1>11. g \in [0 .. Last -> Nat]
  BY <1>8, <1>10
<1>12. QED
  BY <1>9, <1>11 DEF g, Step

LEMMA PowersAre ==
    /\ Powers \in [0 .. Last -> Nat]
    /\ Powers[0] = Byte
    /\ \A k \in 0 .. Last - 1 : Powers[k + 1] = Powers[k] * Byte
<1> DEFINE step == [k \in 0 .. Last |-> [x \in Nat |-> x * Byte]]
<1>1. \A x \in Nat : x * Byte \in Nat
  BY Sizes
<1>2. step \in [0 .. Last -> [Nat -> Nat]]
  BY <1>1
<1>3. PICK f \in [0 .. Last -> Nat] :
          f[0] = Byte /\ \A k \in 0 .. Last - 1 : f[k + 1] = step[k + 1][f[k]]
  <2> HIDE DEF step
  <2>1. Byte \in Nat
    BY Sizes
  <2>2. QED
    BY <1>2, <2>1, RecursionUp
<1>4. ASSUME NEW k \in 0 .. Last, k # 0
      PROVE  f[k] = f[k - 1] * Byte
  <2>1. k - 1 \in 0 .. Last - 1 /\ k - 1 \in 0 .. Last /\ (k - 1) + 1 = k
    BY <1>4, Sizes
  <2>2. f[k] = step[k][f[k - 1]]
    BY <1>3, <2>1
  <2>3. QED
    BY <2>1, <2>2
<1>5. f = [k \in 0 .. Last |-> IF k = 0 THEN Byte ELSE f[k - 1] * Byte]
  BY <1>3, <1>4
<1>6. Powers = [k \in 0 .. Last |-> IF k = 0 THEN Byte ELSE Powers[k - 1] * Byte]
  BY <1>5 DEF Powers
<1> DEFINE g == Powers
<1> HIDE DEF g
<1>7. g = [k \in 0 .. Last |-> IF k = 0 THEN Byte ELSE g[k - 1] * Byte]
  BY <1>6 DEF g
<1>8. g[0] = Byte /\ \A k \in 0 .. Last - 1 : g[k + 1] = g[k] * Byte
  <2>1. \A k \in 0 .. Last - 1 : k + 1 \in 0 .. Last /\ k + 1 # 0 /\ (k + 1) - 1 = k
    BY Sizes
  <2>2. QED
    BY <1>7, <2>1, Sizes
<1>9. \A k \in 0 .. Last : g[k] \in Nat
  <2> DEFINE S == {k \in 0 .. Last : g[k] \in Nat}
  <2>1. 0 \in S
    BY <1>8, Sizes
  <2>2. \A k \in 0 .. Last - 1 : k \in S => k + 1 \in S
    <3>1. \A k \in 0 .. Last - 1 : k + 1 \in 0 .. Last
      BY Sizes
    <3>2. QED
      BY <1>1, <1>8, <3>1
  <2> HIDE DEF S
  <2>3. \A k \in 0 .. Last : k \in S
    BY <2>1, <2>2, Upwards
  <2>4. QED
    BY <2>3 DEF S
<1>10. g \in [0 .. Last -> Nat]
  BY <1>7, <1>9
<1>11. QED
  BY <1>8, <1>10 DEF g

LEMMA QuotientsAre ==
    ASSUME NEW v \in Nat
    PROVE  /\ Quotients(v) \in [0 .. Last -> Nat]
           /\ Quotients(v)[Last] = v
           /\ \A k \in 0 .. Last - 1 : Quotients(v)[k] = Quotients(v)[k + 1] \div Byte
<1> DEFINE step == [k \in 0 .. Last |-> [x \in Nat |-> x \div Byte]]
<1>1. \A x \in Nat : x \div Byte \in Nat
  BY DivMod, Sizes
<1>2. step \in [0 .. Last -> [Nat -> Nat]]
  BY <1>1
<1>3. PICK f \in [0 .. Last -> Nat] :
          f[Last] = v /\ \A k \in 0 .. Last - 1 : f[k] = step[k][f[k + 1]]
  BY <1>2, RecursionDown
<1>4. ASSUME NEW k \in 0 .. Last - 1
      PROVE  f[k] = f[k + 1] \div Byte
  <2>1. k \in 0 .. Last /\ k + 1 \in 0 .. Last
    BY Sizes
  <2>2. QED
    BY <1>3, <2>1
<1>5. f = [k \in 0 .. Last |-> IF k = Last THEN v ELSE f[k + 1] \div Byte]
  <2>1. \A k \in 0 .. Last : k # Last => k \in 0 .. Last - 1
    BY Sizes
  <2>2. QED
    BY <1>3, <1>4, <2>1
<1>6. Quotients(v)
        = [k \in 0 .. Last |-> IF k = Last THEN v ELSE Quotients(v)[k + 1] \div Byte]
  BY <1>5 DEF Quotients
<1> DEFINE g == Quotients(v)
<1> HIDE DEF g
<1>7. g = [k \in 0 .. Last |-> IF k = Last THEN v ELSE g[k + 1] \div Byte]
  BY <1>6 DEF g
<1>8. g[Last] = v /\ \A k \in 0 .. Last - 1 : g[k] = g[k + 1] \div Byte
  <2>1. \A k \in 0 .. Last - 1 : k \in 0 .. Last /\ k # Last
    BY Sizes
  <2>2. QED
    BY <1>7, <2>1, Sizes
<1>9. \A k \in 0 .. Last : g[k] \in Nat
  <2> DEFINE S == {k \in 0 .. Last : g[k] \in Nat}
  <2>1. Last \in S
    BY <1>8, Sizes
  <2>2. \A k \in 0 .. Last - 1 : k + 1 \in S => k \in S
    <3>1. \A k \in 0 .. Last - 1 : k \in 0 .. Last
      BY Sizes
    <3>2. QED
      BY <1>1, <1>8, <3>1
  <2> HIDE DEF S
  <2>3. \A k \in 0 .. Last : k \in S
    BY <2>1, <2>2, Downwards
  <2>4. QED
    BY <2>3 DEF S
<1>10. g \in [0 .. Last -> Nat]
  BY <1>7, <1>9
<1>11. QED
  BY <1>8, <1>10 DEF g

-----------------------------------------------------------------------------
(* The loop adds. *)

LEMMA AddAddrType ==
    ASSUME NEW a \in Addresses, NEW delta \in Nat
    PROVE  AddAddr(a, delta) \in Addresses
<1>1. ASSUME NEW k \in 0 .. Last
      PROVE  (Carries(a, delta)[k] + a[k]) % Byte \in 0 .. Byte - 1
  <2>1. Carries(a, delta)[k] \in Nat /\ a[k] \in Nat
    BY CarriesAre, Digits
  <2>2. QED
    BY <2>1, DivMod, Sizes
<1>2. QED
  BY <1>1 DEF AddAddr, Addresses

LEMMA ValueType ==
    ASSUME NEW a \in Addresses
    PROVE  Value(a) \in Nat
  BY PrefixesAre, Sizes DEF Value

\* One digit of a sum, and what it carries on.
LEMMA DigitOf ==
    ASSUME NEW a \in Addresses, NEW delta \in Nat, NEW k \in 0 .. Last
    PROVE  LET sum == Carries(a, delta)[k] + a[k]
           IN  /\ sum \in Nat /\ sum \div Byte \in Nat
               /\ AddAddr(a, delta)[k] = sum % Byte
               /\ sum = (sum \div Byte) * Byte + AddAddr(a, delta)[k]
               /\ k # 0 => Carries(a, delta)[k - 1] = sum \div Byte
<1> DEFINE sum == Carries(a, delta)[k] + a[k]
<1>1. sum \in Nat
  <2>1. Carries(a, delta)[k] \in Nat /\ a[k] \in Nat
    BY CarriesAre, Digits
  <2>2. QED
    BY <2>1
<1>2. AddAddr(a, delta)[k] = sum % Byte
  BY DEF AddAddr
<1>3. k # 0 => Carries(a, delta)[k - 1] = sum \div Byte
  <2>1. k # 0 => k - 1 \in 0 .. Last - 1 /\ (k - 1) + 1 = k
    BY Sizes
  <2>2. QED
    BY <2>1, CarriesAre
<1> HIDE DEF sum
<1>4. sum \div Byte \in Nat /\ sum = (sum \div Byte) * Byte + (sum % Byte)
  BY <1>1, DivMod, Sizes
<1>5. QED
  BY <1>1, <1>2, <1>3, <1>4 DEF sum

\* Of the sum, the loop drops what is carried out of the first byte.
LEMMA LoopSums ==
    ASSUME NEW a \in Addresses, NEW delta \in Nat
    PROVE  \E out \in Nat :
              Value(AddAddr(a, delta)) + out * Capacity = Value(a) + delta
<1> DEFINE r == AddAddr(a, delta)
           c == Carries(a, delta)
           p == Prefixes(a)
           q == Prefixes(r)
           out == (c[0] + a[0]) \div Byte
<1>1. r \in Addresses
  BY AddAddrType
<1>2. /\ p \in [0 .. Last -> Nat] /\ p[0] = a[0]
      /\ \A k \in 0 .. Last - 1 : p[k + 1] = p[k] * Byte + a[k + 1]
  BY PrefixesAre
<1>3. /\ q \in [0 .. Last -> Nat] /\ q[0] = r[0]
      /\ \A k \in 0 .. Last - 1 : q[k + 1] = q[k] * Byte + r[k + 1]
  BY <1>1, PrefixesAre
<1>4. /\ c \in [0 .. Last -> Nat] /\ c[Last] = delta
  BY CarriesAre
<1>5. out \in Nat /\ c[0] + a[0] = out * Byte + r[0]
  BY DigitOf, Sizes
<1>6. ASSUME NEW k \in 0 .. Last - 1
      PROVE  c[k + 1] + a[k + 1] = c[k] * Byte + r[k + 1]
  <2>1. k + 1 \in 0 .. Last /\ k + 1 # 0 /\ (k + 1) - 1 = k
    BY Sizes
  <2>2. QED
    BY <2>1, DigitOf
<1> HIDE DEF r, c, p, q, out
<1> DEFINE S == {k \in 0 .. Last : q[k] + out * Powers[k] = p[k] + c[k]}
<1>7. 0 \in S
  <2>1. q[0] + out * Powers[0] = p[0] + c[0]
    <3>1. r[0] \in Nat /\ a[0] \in Nat /\ c[0] \in Nat
      BY <1>1, <1>4, Digits, Sizes
    <3>2. out * Powers[0] = out * Byte
      BY PowersAre
    <3>3. out * Byte \in Nat
      BY <1>5, Sizes
    <3>4. QED
      BY <1>2, <1>3, <1>5, <3>1, <3>2, <3>3
  <2>2. QED
    BY <2>1, Sizes
<1>8. ASSUME NEW k \in 0 .. Last - 1, k \in S
      PROVE  k + 1 \in S
  <2>1. k \in 0 .. Last /\ k + 1 \in 0 .. Last
    BY Sizes
  <2>2. /\ p[k] \in Nat /\ q[k] \in Nat /\ c[k] \in Nat /\ c[k + 1] \in Nat
        /\ r[k + 1] \in Nat /\ a[k + 1] \in Nat /\ Powers[k] \in Nat
    BY <1>1, <1>2, <1>3, <1>4, <2>1, PowersAre, Digits
  <2>3. q[k] + out * Powers[k] = p[k] + c[k]
    BY <1>8
  <2>4. (q[k] + out * Powers[k]) * Byte = (p[k] + c[k]) * Byte
    BY <2>3
  <2>5. q[k] * Byte + out * (Powers[k] * Byte) = p[k] * Byte + c[k] * Byte
    BY <1>5, <2>2, <2>4, Sizes
  <2>6. /\ q[k + 1] = q[k] * Byte + r[k + 1]
        /\ p[k + 1] = p[k] * Byte + a[k + 1]
        /\ Powers[k + 1] = Powers[k] * Byte
        /\ c[k + 1] + a[k + 1] = c[k] * Byte + r[k + 1]
    BY <1>2, <1>3, <1>6, PowersAre
  <2>7. /\ q[k] * Byte \in Nat /\ p[k] * Byte \in Nat /\ c[k] * Byte \in Nat
        /\ out * Powers[k + 1] \in Nat
    <3>1. Powers[k + 1] \in Nat
      BY <2>1, PowersAre
    <3>2. \A x, y \in Nat : x * y \in Nat
      OBVIOUS
    <3>3. QED
      BY <1>5, <2>2, <3>1, <3>2, Sizes
  <2>8. q[k + 1] + out * Powers[k + 1] = p[k + 1] + c[k + 1]
    BY <2>2, <2>5, <2>6, <2>7
  <2>9. QED
    BY <2>1, <2>8
<1>9. Last \in S
  <2> HIDE DEF S
  <2>1. QED
    BY <1>7, <1>8, Upwards, Sizes
<1>10. q[Last] + out * Powers[Last] = p[Last] + delta
  BY <1>4, <1>9
<1>11. QED
  BY <1>5, <1>10 DEF Value, Capacity, r, p, q

LEMMA PrefixesBounded ==
    ASSUME NEW a \in Addresses, NEW k \in 0 .. Last
    PROVE  Prefixes(a)[k] < Powers[k]
<1> DEFINE p == Prefixes(a)
           S == {i \in 0 .. Last : p[i] + 1 <= Powers[i]}
<1>1. /\ p \in [0 .. Last -> Nat] /\ p[0] = a[0]
      /\ \A i \in 0 .. Last - 1 : p[i + 1] = p[i] * Byte + a[i + 1]
  BY PrefixesAre
<1> HIDE DEF p
<1>2. 0 \in S
  BY <1>1, PowersAre, Digits, Sizes
<1>3. ASSUME NEW i \in 0 .. Last - 1, i \in S
      PROVE  i + 1 \in S
  <2>1. i \in 0 .. Last /\ i + 1 \in 0 .. Last
    BY Sizes
  <2>2. /\ p[i] \in Nat /\ Powers[i] \in Nat /\ p[i] + 1 <= Powers[i]
        /\ a[i + 1] \in Nat /\ a[i + 1] + 1 <= Byte
    <3>1. p[i] \in Nat /\ Powers[i] \in Nat
      BY <1>1, <2>1, PowersAre
    <3>2. a[i + 1] \in Nat /\ a[i + 1] \in 0 .. Byte - 1
      BY <2>1, Digits
    <3>3. a[i + 1] + 1 <= Byte
      BY <3>2, Sizes
    <3>4. p[i] + 1 <= Powers[i]
      BY <1>3
    <3>5. QED
      BY <3>1, <3>2, <3>3, <3>4
  <2>3. (p[i] + 1) * Byte <= Powers[i] * Byte
    <3>1. \A x, y, b \in Nat : x <= y => x * b <= y * b
      OBVIOUS
    <3>2. QED
      BY <2>2, <3>1, Sizes
  <2>4. (p[i] + 1) * Byte = p[i] * Byte + Byte /\ p[i] * Byte \in Nat /\ Powers[i] * Byte \in Nat
    BY <2>2, Sizes
  <2>5. p[i + 1] = p[i] * Byte + a[i + 1] /\ Powers[i + 1] = Powers[i] * Byte
    BY <1>1, PowersAre
  <2>6. p[i + 1] + 1 <= Powers[i + 1]
    BY <2>2, <2>3, <2>4, <2>5, Sizes
  <2>7. QED
    BY <2>1, <2>6
<1>4. k \in S
  <2> HIDE DEF S
  <2>1. QED
    BY <1>2, <1>3, Upwards
<1>5. p[k] \in Nat /\ Powers[k] \in Nat
  BY <1>1, PowersAre
<1>6. QED
  BY <1>4, <1>5 DEF p

LEMMA CapacityType == Capacity \in Nat
  BY PowersAre, Sizes DEF Capacity

LEMMA ValueBounded ==
    ASSUME NEW a \in Addresses
    PROVE  Value(a) < Capacity
  BY PrefixesBounded, Sizes DEF Value, Capacity

\* pkg/allocator/allocator.go:493-497: the loop adds a number to an address, through
\* every byte and around the end of the address space.
THEOREM AddAddrAdds ==
    \A a \in Addresses, delta \in Nat :
        Value(AddAddr(a, delta)) = (Value(a) + delta) % Capacity
<1> SUFFICES ASSUME NEW a \in Addresses, NEW delta \in Nat
             PROVE  Value(AddAddr(a, delta)) = (Value(a) + delta) % Capacity
  OBVIOUS
<1>1. PICK out \in Nat : Value(AddAddr(a, delta)) + out * Capacity = Value(a) + delta
  BY LoopSums
<1>2. Value(AddAddr(a, delta)) \in Nat /\ Value(AddAddr(a, delta)) < Capacity
  BY AddAddrType, ValueType, ValueBounded
<1>3. out * Capacity + Value(AddAddr(a, delta)) = Value(a) + delta
  <2>1. out * Capacity \in Nat
    BY CapacityType
  <2>2. QED
    BY <1>1, <1>2, <2>1
<1>4. Value(AddAddr(a, delta)) \in 0 .. Capacity - 1 /\ Capacity > 0
  BY <1>2, CapacityType
<1>5. QED
  BY <1>3, <1>4, CapacityType, DivModIs

\* A sum has the bytes of the integer that it is.
LEMMA AddAddrIs ==
    ASSUME NEW a \in Addresses, NEW delta \in Nat
    PROVE  AddAddr(a, delta) = OfValue(Value(a) + delta)
<1> DEFINE v == Value(a) + delta
           c == Carries(a, delta)
           p == Prefixes(a)
           q == Quotients(v)
           S == {k \in 0 .. Last : q[k] = p[k] + c[k]}
<1>0. v \in Nat
  BY ValueType
<1>1. /\ p \in [0 .. Last -> Nat] /\ p[0] = a[0] /\ Value(a) = p[Last]
      /\ \A k \in 0 .. Last - 1 : p[k + 1] = p[k] * Byte + a[k + 1]
  BY PrefixesAre DEF Value
<1>2. /\ c \in [0 .. Last -> Nat] /\ c[Last] = delta
      /\ \A k \in 0 .. Last - 1 : c[k] = (c[k + 1] + a[k + 1]) \div Byte
  BY CarriesAre
<1> HIDE DEF v
<1>3. /\ q \in [0 .. Last -> Nat] /\ q[Last] = v
      /\ \A k \in 0 .. Last - 1 : q[k] = q[k + 1] \div Byte
  BY <1>0, QuotientsAre
<1> HIDE DEF c, p, q
<1>4. Last \in S
  BY <1>1, <1>2, <1>3, Sizes DEF v
<1>5. \A k \in 0 .. Last - 1 :
          k + 1 \in S => /\ q[k + 1] = p[k] * Byte + (c[k + 1] + a[k + 1])
                         /\ p[k] \in Nat /\ c[k + 1] + a[k + 1] \in Nat
  <2> SUFFICES ASSUME NEW k \in 0 .. Last - 1, q[k + 1] = p[k + 1] + c[k + 1]
               PROVE  /\ q[k + 1] = p[k] * Byte + (c[k + 1] + a[k + 1])
                      /\ p[k] \in Nat /\ c[k + 1] + a[k + 1] \in Nat
    OBVIOUS
  <2>1. k \in 0 .. Last /\ k + 1 \in 0 .. Last
    BY Sizes
  <2>2. p[k] \in Nat /\ c[k + 1] \in Nat /\ a[k + 1] \in Nat
    BY <1>1, <1>2, <2>1, Digits
  <2>3. p[k] * Byte \in Nat
    BY <2>2, Sizes
  <2>4. QED
    BY <1>1, <2>2, <2>3
<1>6. ASSUME NEW k \in 0 .. Last - 1, k + 1 \in S
      PROVE  k \in S
  <2>1. k \in 0 .. Last
    BY Sizes
  <2>2. q[k + 1] \div Byte = p[k] + ((c[k + 1] + a[k + 1]) \div Byte)
    BY <1>5, <1>6, DivModPlus, Sizes
  <2>3. QED
    BY <1>2, <1>3, <2>1, <2>2
<1>7. \A k \in 0 .. Last : k \in S
  <2> HIDE DEF S
  <2>1. QED
    BY <1>4, <1>6, Downwards
<1>8. ASSUME NEW k \in 0 .. Last
      PROVE  (c[k] + a[k]) % Byte = q[k] % Byte
  <2>1. CASE k = 0
    <3>1. q[0] = c[0] + a[0]
      <4>1. c[0] \in Nat /\ a[0] \in Nat
        BY <1>2, Digits, Sizes
      <4>2. q[0] = a[0] + c[0]
        BY <1>1, <1>7, Sizes
      <4>3. QED
        BY <4>1, <4>2
    <3>2. QED
      BY <2>1, <3>1
  <2>2. CASE k # 0
    <3>1. k - 1 \in 0 .. Last - 1 /\ (k - 1) + 1 = k
      BY <2>2, Sizes
    <3>2. q[k] = p[k - 1] * Byte + (c[k] + a[k]) /\ p[k - 1] \in Nat /\ c[k] + a[k] \in Nat
      <4> HIDE DEF S
      <4>1. QED
        BY <1>5, <1>7, <3>1
    <3>3. (p[k - 1] * Byte + (c[k] + a[k])) % Byte = (c[k] + a[k]) % Byte
      <4> DEFINE x == c[k] + a[k]
      <4>1. x \in Nat
        BY <3>2
      <4> HIDE DEF x
      <4>2. (p[k - 1] * Byte + x) % Byte = x % Byte
        BY <3>2, <4>1, DivModPlus, Sizes
      <4>3. QED
        BY <4>2 DEF x
    <3>4. QED
      BY <3>2, <3>3, Zenon
  <2>3. QED
    BY <2>1, <2>2
<1>9. QED
  BY <1>8 DEF AddAddr, OfValue, c, q, v

\* Two sums are one: the slices of a subnet, and the addresses in each, follow upon one
\* another.
LEMMA AddAddrTwice ==
    ASSUME NEW a \in Addresses, NEW x \in Nat, NEW y \in Nat
    PROVE  AddAddr(AddAddr(a, x), y) = AddAddr(a, x + y)
<1> DEFINE r == AddAddr(a, x)
           cx == Carries(a, x)
           cy == Carries(r, y)
           c == Carries(a, x + y)
           S == {k \in 0 .. Last : c[k] = cx[k] + cy[k]}
<1>1. r \in Addresses /\ x + y \in Nat
  BY AddAddrType
<1>2. /\ cx \in [0 .. Last -> Nat] /\ cx[Last] = x
      /\ \A k \in 0 .. Last - 1 : cx[k] = (cx[k + 1] + a[k + 1]) \div Byte
  BY CarriesAre
<1>3. /\ cy \in [0 .. Last -> Nat] /\ cy[Last] = y
      /\ \A k \in 0 .. Last - 1 : cy[k] = (cy[k + 1] + r[k + 1]) \div Byte
  BY <1>1, CarriesAre
<1>4. /\ c \in [0 .. Last -> Nat] /\ c[Last] = x + y
      /\ \A k \in 0 .. Last - 1 : c[k] = (c[k + 1] + a[k + 1]) \div Byte
  BY <1>1, CarriesAre
<1>5. \A k \in 0 .. Last :
          LET q == (cx[k] + a[k]) \div Byte
          IN  q \in Nat /\ cx[k] + a[k] = q * Byte + r[k]
  BY DigitOf
<1>6. ASSUME NEW k \in 0 .. Last, k \in S
      PROVE  LET q == (cx[k] + a[k]) \div Byte
             IN  /\ c[k] + a[k] = q * Byte + (cy[k] + r[k])
                 /\ q \in Nat /\ cy[k] + r[k] \in Nat
  <2> DEFINE q == (cx[k] + a[k]) \div Byte
  <2>1. q \in Nat /\ cx[k] + a[k] = q * Byte + r[k]
    BY <1>5
  <2>2. c[k] = cx[k] + cy[k]
    BY <1>6
  <2>3. cx[k] \in Nat /\ cy[k] \in Nat /\ a[k] \in Nat /\ r[k] \in Nat
    <3> HIDE DEF r, cx, cy
    <3>1. QED
      BY <1>1, <1>2, <1>3, Digits
  <2> HIDE DEF q, r, cx, cy, c
  <2>4. q * Byte \in Nat
    BY <2>1, Sizes
  <2>5. c[k] + a[k] = q * Byte + (cy[k] + r[k]) /\ cy[k] + r[k] \in Nat
    BY <2>1, <2>2, <2>3, <2>4
  <2>6. QED
    BY <2>1, <2>5 DEF q
<1> HIDE DEF r, cx, cy, c
<1>7. Last \in S
  BY <1>2, <1>3, <1>4, Sizes
<1>8. ASSUME NEW k \in 0 .. Last - 1, k + 1 \in S
      PROVE  k \in S
  <2>1. k \in 0 .. Last /\ k + 1 \in 0 .. Last
    BY Sizes
  <2> DEFINE q == (cx[k + 1] + a[k + 1]) \div Byte
  <2>2. /\ c[k + 1] + a[k + 1] = q * Byte + (cy[k + 1] + r[k + 1])
        /\ q \in Nat /\ cy[k + 1] + r[k + 1] \in Nat
    BY <1>6, <1>8, <2>1
  <2>3. q = cx[k]
    BY <1>2
  <2> HIDE DEF q
  <2>4. (c[k + 1] + a[k + 1]) \div Byte = q + ((cy[k + 1] + r[k + 1]) \div Byte)
    BY <2>2, DivModPlus, Sizes
  <2>5. QED
    BY <1>3, <1>4, <2>1, <2>3, <2>4
<1>9. \A k \in 0 .. Last : k \in S
  <2> HIDE DEF S
  <2>1. QED
    BY <1>7, <1>8, Downwards
<1>10. ASSUME NEW k \in 0 .. Last
       PROVE  (cy[k] + r[k]) % Byte = (c[k] + a[k]) % Byte
  <2> DEFINE q == (cx[k] + a[k]) \div Byte
  <2>1. /\ c[k] + a[k] = q * Byte + (cy[k] + r[k])
        /\ q \in Nat /\ cy[k] + r[k] \in Nat
    BY <1>6, <1>9
  <2> HIDE DEF q
  <2>2. (q * Byte + (cy[k] + r[k])) % Byte = (cy[k] + r[k]) % Byte
    <3> DEFINE sum == cy[k] + r[k]
    <3>1. sum \in Nat
      BY <2>1
    <3> HIDE DEF sum
    <3>2. (q * Byte + sum) % Byte = sum % Byte
      BY <2>1, <3>1, DivModPlus, Sizes
    <3>3. QED
      BY <3>2 DEF sum
  <2>3. QED
    BY <2>1, <2>2, Zenon
<1>11. AddAddr(r, y) = [k \in 0 .. Last |-> (cy[k] + r[k]) % Byte]
  BY DEF AddAddr, cy
<1>12. AddAddr(a, x + y) = [k \in 0 .. Last |-> (c[k] + a[k]) % Byte]
  BY DEF AddAddr, c
<1>13. QED
  BY <1>10, <1>11, <1>12 DEF r
-----------------------------------------------------------------------------
(* Slices are aligned. *)

\* Multiples of the size of a slice.
Multiples == {q * Hosts : q \in Nat}

LEMMA MultiplesAre ==
    ASSUME NEW x \in Nat
    PROVE  x \in Multiples <=> (x % Hosts) = 0
<1> DEFINE q == x \div Hosts
           r == x % Hosts
<1>1. q \in Nat /\ r \in 0 .. Hosts - 1 /\ x = q * Hosts + r
  BY DivMod, Sizes
<1>2. r = 0 => x \in Multiples
  <2> HIDE DEF q, r
  <2>1. r = 0 => x = q * Hosts
    BY <1>1, Sizes
  <2>2. QED
    BY <1>1, <2>1 DEF Multiples
<1>3. ASSUME x \in Multiples
      PROVE  r = 0
  <2>1. PICK p \in Nat : x = p * Hosts
    BY <1>3 DEF Multiples
  <2>2. (p * Hosts + 0) % Hosts = 0
    BY Sizes, DivModIs
  <2>3. QED
    BY <2>1, <2>2, Sizes
<1>4. QED
  BY <1>2, <1>3

\* A byte's values are whole slices; the number is of the slices in it.
LEMMA ByteIs == \E h \in Nat : Byte = h * Hosts
  BY MultiplesAre, Sizes DEF Multiples

LEMMA MultiplesSum ==
    ASSUME NEW x \in Multiples, NEW y \in Multiples
    PROVE  x + y \in Multiples
<1>1. PICK p \in Nat : x = p * Hosts
  BY DEF Multiples
<1>2. PICK q \in Nat : y = q * Hosts
  BY DEF Multiples
<1>3. p + q \in Nat /\ x + y = (p + q) * Hosts
  BY <1>1, <1>2, Sizes
<1>4. QED
  BY <1>3 DEF Multiples

\* What remains of a multiple in a byte is one.
LEMMA MultiplesRemain ==
    ASSUME NEW x \in Multiples
    PROVE  x \in Nat /\ x % Byte \in Multiples
<1>1. PICK p \in Nat : x = p * Hosts
  BY DEF Multiples
<1>2. x \in Nat
  BY <1>1, Sizes
<1>3. PICK h \in Nat : Byte = h * Hosts
  BY ByteIs
<1> DEFINE t == x \div Byte
           r == x % Byte
<1>4. t \in Nat /\ r \in Nat /\ x = t * Byte + r
  BY <1>2, DivMod, Sizes
<1> HIDE DEF t, r
<1>5. r = (p - t * h) * Hosts
  <2>1. x = t * (h * Hosts) + r
    BY <1>3, <1>4
  <2>2. t * (h * Hosts) = (t * h) * Hosts
    BY <1>3, <1>4, Sizes
  <2> DEFINE th == t * h
  <2>3. th \in Nat
    BY <1>3, <1>4
  <2>4. x = th * Hosts + r
    BY <2>1, <2>2
  <2> HIDE DEF th
  <2>5. th * Hosts \in Nat
    BY <2>3, Sizes
  <2>6. (p - th) * Hosts = p * Hosts - th * Hosts
    BY <2>3, Sizes
  <2>7. r = (p - th) * Hosts
    BY <1>1, <1>2, <1>4, <2>4, <2>5, <2>6
  <2>8. QED
    BY <2>7 DEF th
<1>6. r % Hosts = 0
  <2> DEFINE d == p - t * h
  <2>1. d \in Int
    <3>1. t * h \in Nat
      BY <1>3, <1>4
    <3>2. QED
      BY <3>1
  <2>2. r = d * Hosts
    BY <1>5
  <2> HIDE DEF d
  <2>3. (d * Hosts + 0) % Hosts = 0
    BY <2>1, Sizes, DivModIs
  <2>4. d * Hosts \in Int
    BY <2>1, Sizes
  <2>5. QED
    BY <2>2, <2>3, <2>4
<1>7. r \in Multiples
  BY <1>4, <1>6, MultiplesAre
<1>8. QED
  BY <1>2, <1>7 DEF r

LEMMA LastDigit ==
    ASSUME NEW a \in Addresses
    PROVE  a[Last] \in Nat /\ a[Last] < Byte
  BY Digits, Sizes

\* An address is the network address of its slice if its last byte is a multiple.
LEMMA AlignedIs ==
    ASSUME NEW a \in Addresses
    PROVE  Masked(a) = a <=> a[Last] \in Multiples
<1> DEFINE x == a[Last]
           r == x % Hosts
<1>1. x \in Nat /\ r \in Nat
  BY LastDigit, DivMod, Sizes
<1>2. x \in Multiples <=> r = 0
  BY <1>1, MultiplesAre
<1>3. Masked(a)[Last] = x - r
  BY Sizes DEF Masked, Addresses
<1>4. Masked(a) = a => r = 0
  <2> SUFFICES ASSUME Masked(a) = a
               PROVE  r = 0
    OBVIOUS
  <2>1. x - r = x
    BY <1>3
  <2> HIDE DEF x, r
  <2>2. QED
    BY <1>1, <2>1
<1>5. r = 0 => Masked(a) = a
  <2> SUFFICES ASSUME r = 0
               PROVE  Masked(a) = a
    OBVIOUS
  <2>1. x - r = x
    BY <1>1
  <2>2. QED
    BY <2>1, Sizes DEF Masked, Addresses
<1>6. QED
  BY <1>2, <1>4, <1>5

LEMMA OfValueType ==
    ASSUME NEW v \in Nat
    PROVE  OfValue(v) \in Addresses /\ OfValue(v)[Last] = v % Byte
<1>1. ASSUME NEW k \in 0 .. Last
      PROVE  Quotients(v)[k] % Byte \in 0 .. Byte - 1
  <2>1. Quotients(v)[k] \in Nat
    BY QuotientsAre
  <2>2. QED
    BY <2>1, DivMod, Sizes
<1>2. Quotients(v)[Last] = v
  BY QuotientsAre
<1>3. QED
  BY <1>1, <1>2, Sizes DEF OfValue, Addresses

\* The address of a multiple is aligned.
LEMMA OfMultiple ==
    ASSUME NEW v \in Multiples
    PROVE  OfValue(v) \in Addresses /\ Masked(OfValue(v)) = OfValue(v)
<1>1. v \in Nat /\ v % Byte \in Multiples
  BY MultiplesRemain
<1>2. QED
  BY <1>1, OfValueType, AlignedIs

\* The sum of an aligned address and a multiple is aligned.
LEMMA AddMultiple ==
    ASSUME NEW a \in Addresses, Masked(a) = a, NEW delta \in Multiples
    PROVE  /\ AddAddr(a, delta) \in Addresses
           /\ Masked(AddAddr(a, delta)) = AddAddr(a, delta)
<1>1. delta \in Nat
  BY MultiplesRemain
<1>2. AddAddr(a, delta) \in Addresses
  BY <1>1, AddAddrType
<1>3. AddAddr(a, delta)[Last] = (delta + a[Last]) % Byte
  BY <1>1, CarriesAre, Sizes DEF AddAddr
<1>4. delta + a[Last] \in Multiples
  BY AlignedIs, MultiplesSum
<1>5. QED
  BY <1>2, <1>3, <1>4, MultiplesRemain, AlignedIs

\* A slice lies in one last byte.
LEMMA SliceInByte ==
    ASSUME NEW a \in Addresses, Masked(a) = a, NEW o \in Offsets
    PROVE  /\ a[Last] \in Nat /\ o \in Nat /\ a[Last] + o < Byte /\ o < Byte
           /\ (a[Last] + o) % Hosts = o
<1>1. PICK q \in Nat : a[Last] = q * Hosts
  BY AlignedIs DEF Multiples
<1>2. PICK h \in Nat : Byte = h * Hosts
  BY ByteIs
<1>3. o \in 0 .. Hosts - 1 /\ o \in Nat /\ o + 1 <= Hosts
  BY Sizes DEF Offsets
<1>4. a[Last] \in Nat /\ a[Last] < Byte
  BY LastDigit
<1>5. q + 1 <= h
  <2> SUFFICES ASSUME h <= q
               PROVE  FALSE
    BY <1>1, <1>2
  <2>1. \A x, y, b \in Nat : x <= y => x * b <= y * b
    OBVIOUS
  <2>2. h * Hosts <= q * Hosts
    BY <1>1, <1>2, <2>1, Sizes
  <2>3. QED
    BY <1>1, <1>2, <1>4, <2>2, Sizes
<1>6. (q + 1) * Hosts <= h * Hosts
  <2>1. \A x, y, b \in Nat : x <= y => x * b <= y * b
    OBVIOUS
  <2>2. q + 1 \in Nat
    BY <1>1
  <2>3. QED
    BY <1>2, <1>5, <2>1, <2>2, Sizes
<1>7. (q + 1) * Hosts = q * Hosts + Hosts
  BY <1>1, Sizes
<1>8. a[Last] + o < Byte
  BY <1>1, <1>2, <1>3, <1>4, <1>6, <1>7, Sizes
<1>9. (q * Hosts + o) % Hosts = o
  BY <1>1, <1>3, DivModIs, Sizes
<1>10. QED
  BY <1>1, <1>3, <1>4, <1>8, <1>9, Sizes

\* In a slice nothing is carried: the loop adds to the last byte alone, as the policy does.
LEMMA LoopRenders ==
    ASSUME NEW a \in Addresses, Masked(a) = a, NEW o \in Offsets
    PROVE  AddAddr(a, o) = Rendered(a, o)
<1> DEFINE c == Carries(a, o)
           S == {k \in 0 .. Last : k # Last => c[k] = 0}
<1>1. o \in Nat /\ a[Last] \in Nat /\ a[Last] + o < Byte
  BY SliceInByte
<1>2. /\ c \in [0 .. Last -> Nat] /\ c[Last] = o
      /\ \A k \in 0 .. Last - 1 : c[k] = (c[k + 1] + a[k + 1]) \div Byte
  BY <1>1, CarriesAre
<1>3. \A x \in Nat : x < Byte => x \div Byte = 0 /\ x % Byte = x
  BY Sizes
<1> HIDE DEF c
<1>4. Last \in S
  BY Sizes
<1>5. ASSUME NEW k \in 0 .. Last - 1, k + 1 \in S
      PROVE  k \in S
  <2>1. k \in 0 .. Last /\ k + 1 \in 0 .. Last
    BY Sizes
  <2>2. c[k + 1] + a[k + 1] \in Nat /\ c[k + 1] + a[k + 1] < Byte
    <3>1. CASE k + 1 = Last
      <4>1. c[k + 1] = o /\ a[k + 1] = a[Last]
        BY <1>2, <3>1
      <4>2. o + a[Last] \in Nat /\ o + a[Last] < Byte
        BY <1>1, Sizes
      <4>3. QED
        BY <4>1, <4>2
    <3>2. CASE k + 1 # Last
      <4>1. c[k + 1] = 0
        BY <1>5, <3>2
      <4>2. a[k + 1] \in Nat /\ a[k + 1] \in 0 .. Byte - 1
        BY <2>1, Digits
      <4>3. a[k + 1] < Byte
        BY <4>2, Sizes
      <4>4. QED
        BY <4>1, <4>2, <4>3
    <3>3. QED
      BY <3>1, <3>2
  <2>3. c[k] = 0
    BY <1>2, <1>3, <2>2
  <2>4. QED
    BY <2>1, <2>3
<1>6. \A k \in 0 .. Last : k \in S
  <2> HIDE DEF S
  <2>1. QED
    BY <1>4, <1>5, Downwards
<1>7. ASSUME NEW k \in 0 .. Last
      PROVE  (c[k] + a[k]) % Byte = Rendered(a, o)[k]
  <2>1. CASE k = Last
    <3>1. (o + a[Last]) % Byte = a[Last] + o
      <4>1. o + a[Last] \in Nat /\ o + a[Last] < Byte /\ o + a[Last] = a[Last] + o
        BY <1>1, Sizes
      <4>2. QED
        BY <1>3, <4>1
    <3>2. Rendered(a, o)[Last] = a[Last] + o
      BY Sizes DEF Rendered, Addresses
    <3>3. QED
      BY <1>2, <2>1, <3>1, <3>2
  <2>2. CASE k # Last
    <3>1. c[k] = 0
      BY <1>6, <2>2
    <3>2. a[k] \in Nat /\ a[k] \in 0 .. Byte - 1
      BY Digits
    <3>3. (0 + a[k]) % Byte = a[k]
      <4>1. 0 + a[k] = a[k] /\ a[k] < Byte
        BY <3>2, Sizes
      <4>2. QED
        BY <1>3, <3>2, <4>1
    <3>4. Rendered(a, o)[k] = a[k]
      BY <2>2 DEF Rendered, Addresses
    <3>5. QED
      BY <3>1, <3>3, <3>4
  <2>3. QED
    BY <2>1, <2>2
<1>8. Rendered(a, o) = [k \in 0 .. Last |-> Rendered(a, o)[k]]
  BY DEF Rendered, Addresses
<1>9. AddAddr(a, o) = [k \in 0 .. Last |-> (c[k] + a[k]) % Byte]
  BY DEF AddAddr, c
<1>10. QED
  BY <1>7, <1>8, <1>9

\* An address leads back to its slice and its offset there.
LEMMA AddressIn ==
    ASSUME NEW a \in Addresses, Masked(a) = a, NEW o \in Offsets
    PROVE  /\ AddAddr(a, o) \in Addresses
           /\ Masked(AddAddr(a, o)) = a
           /\ OffsetForAddr(a, AddAddr(a, o)) = o
<1> DEFINE r == AddAddr(a, o)
<1>1. /\ a[Last] \in Nat /\ o \in Nat /\ o < Byte
      /\ (a[Last] + o) % Hosts = o
  BY SliceInByte
<1>2. r \in Addresses
  BY <1>1, AddAddrType
<1>3. r = [a EXCEPT ![Last] = @ + o]
  BY LoopRenders DEF Rendered
<1>4. r[Last] = a[Last] + o /\ \A k \in 0 .. Last : k # Last => r[k] = a[k]
  BY <1>3, Sizes DEF Addresses
<1> HIDE DEF r
<1>5. Masked(r) = a
  <2>1. r[Last] - (r[Last] % Hosts) = a[Last]
    <3>1. \A x, y \in Nat : (x + y) - y = x
      OBVIOUS
    <3>2. QED
      BY <1>1, <1>4, <3>1
  <2>2. /\ Masked(r)[Last] = r[Last] - (r[Last] % Hosts)
        /\ \A k \in 0 .. Last : k # Last => Masked(r)[k] = r[k]
        /\ Masked(r) = [k \in 0 .. Last |-> Masked(r)[k]]
    BY <1>2, Sizes DEF Masked, Addresses
  <2>3. \A k \in 0 .. Last : Masked(r)[k] = a[k]
    BY <1>4, <2>1, <2>2
  <2>4. a = [k \in 0 .. Last |-> a[k]]
    BY DEF Addresses
  <2>5. QED
    BY <2>2, <2>3, <2>4
<1>6. OffsetForAddr(a, r) = o
  <2>1. \A x, y \in Nat : (x + y) - x = y
    OBVIOUS
  <2>2. r[Last] - a[Last] = o
    BY <1>1, <1>4, <2>1
  <2>3. o % Byte = o
    BY <1>1, Sizes
  <2>4. QED
    BY <2>2, <2>3 DEF OffsetForAddr
<1>7. QED
  BY <1>2, <1>5, <1>6 DEF r
=============================================================================
