---------------------------- MODULE RC632Proofs ----------------------------
(***************************************************************************)
(* Proofs about the exchange with the RC632: for a FIFO of any size,       *)
(* commands and answers of any length, any number of exchanges and, where  *)
(* the property does not exclude them, any number of failing accesses.     *)
(***************************************************************************)
EXTENDS RC632, SequenceTheorems, WellFoundedInduction, TLAPS

---------------------------------------------------------------------------
(* best_prescaler.                                                         *)

(* A set of numbers that is not empty has a least element. *)
LEMMA LeastOf ==
    ASSUME NEW T, T \subseteq Nat, T # {}
    PROVE  \E x \in T : \A y \in T : x <= y
<1> DEFINE R == OpToRel(<, Nat)
<1>1. IsWellFoundedOn(R, Nat)
  BY NatLessThanWellFounded, Zenon
<1>2. \A x, y \in Nat : y < x => <<y, x>> \in R
  BY DEF OpToRel
<1> HIDE DEF R
<1>3. PICK x \in T : \A y \in T : ~(<<y, x>> \in R)
  BY <1>1, WFMin
<1>4. ASSUME NEW y \in T PROVE x <= y
  <2>1. ~(y < x)
    BY <1>2, <1>3
  <2> QED BY <2>1
<1> QED BY <1>4

(* A number is put together from its parts. *)
LEMMA Parts ==
    ASSUME NEW n \in Nat
    PROVE  n = (n \div 1000000) * 1000000 + ((n % 1000000) \div 1000) * 1000 + (n % 1000)
  OBVIOUS

(* So is a product. *)
LEMMA PartsProduct ==
    ASSUME NEW q \in Nat, NEW r1 \in Nat, NEW r0 \in Nat,
           NEW c2 \in Nat, NEW c1 \in Nat, NEW c0 \in Nat, NEW clk \in Nat, NEW t \in Nat,
           t = q * 1000000 + r1 * 1000 + r0, clk = c2 * 1000000 + c1 * 1000 + c0
    PROVE  clk * t = 1000000 * (clk * q + c2 * (r1 * 1000 + r0) + c1 * r1)
                     + ((c1 * r0 + c0 * r1) * 1000 + c0 * r0)
  OBVIOUS

(* Rounding down. *)
LEMMA Rounds ==
    ASSUME NEW n \in Nat, NEW a \in Nat
    PROVE  /\ 1000000 * (a + n \div 1000000) <= 1000000 * a + n
           /\ 1000000 * a + n < 1000000 * (a + n \div 1000000) + 1000000
  OBVIOUS

(* Sums and products of natural numbers. *)
LEMMA Products == \A m, n \in Nat : m * n \in Nat /\ m + n \in Nat
  OBVIOUS

(* m is n millionths, rounded down. *)
Millionths(m, n) == 1000000 * m <= n /\ n < 1000000 * m + 1000000

(* Micro rounds the quotient down. *)
LEMMA MicroIs ==
    ASSUME NEW clk \in Nat, NEW t \in Nat
    PROVE  Micro(clk, t) \in Nat /\ Millionths(Micro(clk, t), clk * t)
<1> DEFINE q == t \div 1000000
           r1 == (t % 1000000) \div 1000
           r0 == t % 1000
           c2 == clk \div 1000000
           c1 == (clk % 1000000) \div 1000
           c0 == clk % 1000
           high == clk * q + c2 * (r1 * 1000 + r0) + c1 * r1
           low == (c1 * r0 + c0 * r1) * 1000 + c0 * r0
<1>1. q \in Nat /\ r1 \in Nat /\ r0 \in Nat /\ c2 \in Nat /\ c1 \in Nat /\ c0 \in Nat
  OBVIOUS
<1>2. Micro(clk, t) = high + low \div 1000000
  BY DEF Micro
<1>3. t = q * 1000000 + r1 * 1000 + r0 /\ clk = c2 * 1000000 + c1 * 1000 + c0
  BY Parts
<1> HIDE DEF q, r1, r0, c2, c1, c0
<1>4. clk * t = 1000000 * high + low
  BY <1>1, <1>3, PartsProduct
<1>5. high \in Nat
  <2>1. clk * q \in Nat /\ c1 * r1 \in Nat /\ r1 * 1000 + r0 \in Nat
    BY <1>1, Products
  <2>2. c2 * (r1 * 1000 + r0) \in Nat
    BY <1>1, <2>1, Products
  <2> QED BY <2>1, <2>2
<1>6. low \in Nat
  <2>1. c1 * r0 \in Nat /\ c0 * r1 \in Nat /\ c0 * r0 \in Nat
    BY <1>1, Products
  <2> QED BY <2>1
<1> HIDE DEF high, low
<1> QED BY <1>2, <1>4, <1>5, <1>6, Rounds DEF Millionths

(* The factors and the clocks of the prescalers. *)
Table(i, p, c) == 2^i = p /\ Clk(i) = c
LEMMA Clocks ==
    /\ Table(0, 1, 13560000) /\ Table(1, 2, 6780000) /\ Table(2, 4, 3390000)
    /\ Table(3, 8, 1695000) /\ Table(4, 16, 847500) /\ Table(5, 32, 423750)
    /\ Table(6, 64, 211875) /\ Table(7, 128, 105937) /\ Table(8, 256, 52968)
    /\ Table(9, 512, 26484) /\ Table(10, 1024, 13242) /\ Table(11, 2048, 6621)
    /\ Table(12, 4096, 3310) /\ Table(13, 8192, 1655) /\ Table(14, 16384, 827)
    /\ Table(15, 32768, 413) /\ Table(16, 65536, 206) /\ Table(17, 131072, 103)
    /\ Table(18, 262144, 51) /\ Table(19, 524288, 25) /\ Table(20, 1048576, 12)
  BY SMT DEF Table, Clk

(* One tick of clock c is p of 13.56 MHz, rounded. *)
Spans(p, c) == p >= 1 /\ c >= 12 /\ p * c <= 13560000 /\ p * c >= 12582912

(* They all do. *)
LEMMA ClockIs ==
    ASSUME NEW i \in 0..20
    PROVE  2^i \in Nat /\ Clk(i) \in Nat /\ Spans(2^i, Clk(i))
<1> DEFINE Row(j) == 2^j \in Nat /\ Clk(j) \in Nat /\ Spans(2^j, Clk(j))
<1>1. /\ Row(0) /\ Row(1) /\ Row(2) /\ Row(3) /\ Row(4) /\ Row(5) /\ Row(6)
      /\ Row(7) /\ Row(8) /\ Row(9) /\ Row(10) /\ Row(11) /\ Row(12) /\ Row(13)
      /\ Row(14) /\ Row(15) /\ Row(16) /\ Row(17) /\ Row(18) /\ Row(19) /\ Row(20)
  BY Clocks, SMT DEF Table, Spans
<1>2. \/ i = 0 \/ i = 1 \/ i = 2 \/ i = 3 \/ i = 4 \/ i = 5 \/ i = 6
      \/ i = 7 \/ i = 8 \/ i = 9 \/ i = 10 \/ i = 11 \/ i = 12 \/ i = 13
      \/ i = 14 \/ i = 15 \/ i = 16 \/ i = 17 \/ i = 18 \/ i = 19 \/ i = 20
  BY SMT
<1> HIDE DEF Row
<1>3. Row(i)
  BY <1>1, <1>2, Zenon
<1> QED BY <1>3, SMT DEF Row

(* A prescaler halves the clock of the one before. *)
LEMMA ClockBefore ==
    ASSUME NEW i \in 1..20
    PROVE  i - 1 \in 0..20 /\ Clk(i - 1) <= 2 * Clk(i) + 1 /\ Clk(i) <= 6780000
<1> DEFINE Row(j) == Clk(j - 1) <= 2 * Clk(j) + 1 /\ Clk(j) <= 6780000
<1>1. /\ Row(1) /\ Row(2) /\ Row(3) /\ Row(4) /\ Row(5) /\ Row(6) /\ Row(7)
      /\ Row(8) /\ Row(9) /\ Row(10) /\ Row(11) /\ Row(12) /\ Row(13) /\ Row(14)
      /\ Row(15) /\ Row(16) /\ Row(17) /\ Row(18) /\ Row(19) /\ Row(20)
  BY Clocks, SMT DEF Table
<1>2. \/ i = 1 \/ i = 2 \/ i = 3 \/ i = 4 \/ i = 5 \/ i = 6 \/ i = 7
      \/ i = 8 \/ i = 9 \/ i = 10 \/ i = 11 \/ i = 12 \/ i = 13 \/ i = 14
      \/ i = 15 \/ i = 16 \/ i = 17 \/ i = 18 \/ i = 19 \/ i = 20
  BY SMT
<1> HIDE DEF Row
<1>3. Row(i)
  BY <1>1, <1>2, Zenon
<1> QED BY <1>3, SMT DEF Row

(* With the clock of the prescaler before, the divisor is above 255 only   *)
(* when one tick of this one is little beside the time limit.              *)
LEMMA TickIsShort ==
    ASSUME NEW t \in Nat, NEW c \in Nat, NEW b \in Nat, NEW d \in Nat, NEW x \in Nat,
           c >= 12, c <= 6780000, b <= 2 * c + 1,
           1000000 * (d - 1) <= c * (10 * t), 255000000 <= b * (10 * t),
           100 * x + 100 > 1356 * t
    PROVE  13560000 * d <= 11 * (x * c)
<1> DEFINE ct == c * t
<1>1. c * (10 * t) = 10 * ct /\ ct \in Nat
  <2>1. c * (10 * t) = 10 * (c * t)
    OBVIOUS
  <2> QED BY <2>1, Products
<1>2. 255000000 <= 20 * ct + 10 * t
  <2>1. b * (10 * t) <= (2 * c + 1) * (10 * t)
    OBVIOUS
  <2>2. (2 * c + 1) * (10 * t) = 20 * (c * t) + 10 * t
    OBVIOUS
  <2> QED BY <2>1, <2>2
<1>3. 12 * t <= ct
  OBVIOUS
<1>4. 100 * (x * c) + 100 * c >= 1356 * ct
  <2>1. (100 * x + 100) * c >= (1356 * t) * c
    OBVIOUS
  <2>2. (100 * x + 100) * c = 100 * (x * c) + 100 * c /\ (1356 * t) * c = 1356 * ct
    OBVIOUS
  <2> QED BY <2>1, <2>2
<1>5. x * c \in Nat
  BY Products
<1> DEFINE xc == x * c
<1> HIDE DEF ct, xc
<1>6. 13560000 * d <= 11 * xc
  <2>1. 100 * xc + 100 * c >= 1356 * ct /\ xc \in Nat
    BY <1>4, <1>5 DEF xc
  <2> QED BY <1>1, <1>2, <1>3, <2>1
<1> QED BY <1>6 DEF xc

(* The divisor of a prescaler is the least number of its ticks that lasts  *)
(* longer than t.                                                          *)
LEMMA DivisorIs ==
    ASSUME NEW t \in Nat, NEW i \in 0..20
    PROVE  /\ Clk(i) \in Nat /\ Divisor(t, i) \in Nat /\ Divisor(t, i) >= 1
           /\ \E c \in Nat, m \in Nat : /\ c = Clk(i) /\ m + 1 = Divisor(t, i)
                                        /\ Millionths(m, c * t)
<1>1. Clk(i) \in Nat
  BY ClockIs, Zenon
<1>2. PICK c \in Nat : c = Clk(i)
  BY <1>1
<1>3. PICK m \in Nat : m = Micro(c, t) /\ Millionths(m, c * t)
  BY MicroIs, Zenon
<1>4. m + 1 = Divisor(t, i)
  BY <1>2, <1>3, Zenon DEF Divisor
<1>5. Divisor(t, i) \in Nat /\ Divisor(t, i) >= 1
  BY <1>4
<1> QED BY <1>1, <1>2, <1>3, <1>4, <1>5, Zenon

(* It is at most the clock for every time below a second, and more than it *)
(* from there on.                                                          *)
LEMMA DivisorBelowClock ==
    ASSUME NEW t \in Nat, NEW i \in 0..20
    PROVE  Divisor(t, i) <= Clk(i) <=> t < 1000000
<1>1. PICK c \in Nat, m \in Nat : c = Clk(i) /\ m + 1 = Divisor(t, i) /\ Millionths(m, c * t)
  BY DivisorIs, Zenon
<1>2. c >= 12
  BY <1>1, ClockIs DEF Spans
<1>3. ASSUME t < 1000000 PROVE m + 1 <= c
  <2>1. c * t <= c * 999999 /\ c * t \in Nat
    BY <1>3
  <2> QED BY <1>1, <1>2, <2>1 DEF Millionths
<1>4. ASSUME t >= 1000000 PROVE m + 1 > c
  <2>1. c * t >= c * 1000000 /\ c * t \in Nat
    BY <1>4
  <2> QED BY <1>1, <2>1 DEF Millionths
<1> QED BY <1>1, <1>3, <1>4

(* n divided by q is at least t if t times q is at most n. *)
LEMMA QuotientIsAtLeast ==
    ASSUME NEW n \in Nat, NEW q \in Nat, q >= 1, NEW t \in Nat, q * t <= n
    PROVE  n \div q \in Nat /\ n \div q >= t
<1>1. PICK r \in Nat : r = n \div q /\ n < q * (r + 1)
  OBVIOUS
<1>2. ASSUME r + 1 <= t PROVE FALSE
  <2>1. q * (r + 1) <= q * t
    BY <1>2
  <2>2. q * (r + 1) \in Nat /\ q * t \in Nat
    BY Products
  <2> QED BY <1>1, <2>1, <2>2
<1> QED BY <1>1, <1>2

(* The time it stands for is never short, however it is rounded. *)
LEMMA ExcessIs ==
    ASSUME NEW t \in Nat, NEW i \in 0..20, Divisor(t, i) <= Clk(i)
    PROVE  Excess(t, i) \in Nat
<1>1. PICK c \in Nat, m \in Nat : c = Clk(i) /\ m + 1 = Divisor(t, i) /\ Millionths(m, c * t)
  BY DivisorIs, Zenon
<1>2. PICK d \in Nat : d = Divisor(t, i) /\ d >= 1 /\ d <= c /\ c * t < 1000000 * d
  <2>1. c * t \in Nat
    BY Products
  <2> QED BY <1>1, <2>1 DEF Millionths
<1>3. PICK q \in Nat : q = c \div d /\ q >= 1 /\ q * d <= c
  BY <1>2
<1>4. q * t <= 1000000
  <2> SUFFICES ASSUME q * t > 1000000 PROVE FALSE
    <3>1. q * t \in Nat
      BY Products
    <3> QED BY <3>1
  <2>1. (q * d) * t <= c * t
    BY <1>3
  <2>2. (q * t) * d >= 1000000 * d
    BY Products
  <2>3. (q * d) * t = (q * t) * d
    OBVIOUS
  <2>4. (q * d) * t \in Nat /\ c * t \in Nat /\ (q * t) * d \in Nat
    BY Products
  <2> QED BY <1>2, <2>1, <2>2, <2>3, <2>4
<1>5. 1000000 \div q \in Nat /\ 1000000 \div q >= t
  BY <1>3, <1>4, QuotientIsAtLeast
<1>6. Excess(t, i) = (1000000 \div q) - t
  BY <1>1, <1>2, <1>3 DEF Excess
<1> QED BY <1>5, <1>6

(* A larger quotient leaves less. *)
LEMMA LargerQuotient ==
    ASSUME NEW n \in Nat, NEW p \in Nat, NEW q \in Nat, p >= 1, q >= 1, n \div p < n \div q
    PROVE  q < p
<1>1. PICK r \in Nat : r = n \div p /\ n < p * (r + 1)
  OBVIOUS
<1>2. PICK s \in Nat : s = n \div q /\ q * s <= n
  OBVIOUS
<1>3. ASSUME p <= q PROVE FALSE
  <2>1. p * (r + 1) <= p * s
    BY <1>1, <1>2
  <2>2. p * s <= q * s
    BY <1>3
  <2>3. p * (r + 1) \in Nat /\ p * s \in Nat /\ q * s \in Nat
    BY Products
  <2> QED BY <1>1, <1>2, <2>1, <2>2, <2>3
<1> QED BY <1>3

(* Of two prescalers the one with less excess is, before rounding, nearer  *)
(* to the time limit.                                                      *)
LEMMA LessExcess ==
    ASSUME NEW t \in Nat, NEW i \in 0..20, NEW j \in 0..20,
           Divisor(t, i) <= Clk(i), Divisor(t, j) <= Clk(j), Excess(t, i) < Excess(t, j)
    PROVE  Divisor(t, i) * Clk(j) <= Divisor(t, j) * Clk(i)
<1>1. PICK ci \in Nat, di \in Nat : ci = Clk(i) /\ di = Divisor(t, i) /\ di >= 1 /\ di <= ci
  BY DivisorIs, Zenon
<1>2. PICK cj \in Nat, dj \in Nat : cj = Clk(j) /\ dj = Divisor(t, j) /\ dj >= 1 /\ dj <= cj
  BY DivisorIs, Zenon
<1>3. PICK qi \in Nat : qi = ci \div di /\ qi >= 1 /\ di * qi <= ci
  BY <1>1
<1>4. PICK qj \in Nat : qj = cj \div dj /\ qj >= 1 /\ cj < dj * (qj + 1)
  BY <1>2
<1>5. qi > qj
  <2>1. PICK n \in Nat : n = 1000000
    OBVIOUS
  <2>2. n \div qi \in Nat /\ n \div qj \in Nat
    BY <1>3, <1>4
  <2>3. n \div qi < n \div qj
    BY <1>1, <1>2, <1>3, <1>4, <2>1, <2>2 DEF Excess
  <2>4. qj < qi
    BY <1>3, <1>4, <2>3, LargerQuotient, Zenon
  <2> QED BY <2>4
<1>6. di * cj <= di * (dj * (qj + 1))
  BY <1>4
<1>7. di * (dj * (qj + 1)) <= di * (dj * qi)
  <2>1. dj * (qj + 1) <= dj * qi
    BY <1>5
  <2>2. dj * (qj + 1) \in Nat /\ dj * qi \in Nat
    BY Products
  <2> QED BY <2>1, <2>2
<1>8. di * (dj * qi) = dj * (di * qi) /\ dj * (di * qi) <= dj * ci
  <2>1. di * (dj * qi) = dj * (di * qi)
    OBVIOUS
  <2>2. di * qi \in Nat
    BY Products
  <2> QED BY <1>3, <2>1, <2>2
<1>9. di * cj <= dj * ci
  <2>1. /\ di * cj \in Nat /\ di * (dj * (qj + 1)) \in Nat /\ di * (dj * qi) \in Nat
        /\ dj * (di * qi) \in Nat /\ dj * ci \in Nat
    BY Products
  <2> QED BY <1>6, <1>7, <1>8, <2>1
<1> QED BY <1>1, <1>2, <1>9

(* best_prescaler takes the prescaler with the least excess, the first of  *)
(* several.                                                                *)
LEMMA ChosenIs ==
    ASSUME NEW t \in Nat, NEW ok, ok \subseteq 0..20, ok # {},
           \A i \in ok : Divisor(t, i) <= Clk(i)
    PROVE  \E i \in ok : /\ \A j \in ok : /\ Excess(t, i) <= Excess(t, j)
                                          /\ Excess(t, i) = Excess(t, j) => i <= j
                         /\ Chosen(t, ok) = {[prescaler |-> i, divisor |-> Divisor(t, i) % 256]}
<1> DEFINE Good(i) == \A j \in ok : /\ Excess(t, i) <= Excess(t, j)
                                    /\ Excess(t, i) = Excess(t, j) => i <= j
<1>1. ASSUME NEW i \in ok PROVE i \in 0..20 /\ Excess(t, i) \in Nat
  BY ExcessIs
<1>2. PICK m \in {Excess(t, i) : i \in ok} : \A y \in {Excess(t, i) : i \in ok} : m <= y
  <2>1. {Excess(t, i) : i \in ok} \subseteq Nat /\ {Excess(t, i) : i \in ok} # {}
    BY <1>1
  <2> QED BY <2>1, LeastOf
<1>3. PICK k \in {i \in ok : Excess(t, i) = m} : \A j \in {i \in ok : Excess(t, i) = m} : k <= j
  <2>1. {i \in ok : Excess(t, i) = m} \subseteq Nat /\ {i \in ok : Excess(t, i) = m} # {}
    BY <1>1, <1>2
  <2> QED BY <2>1, LeastOf
<1>4. k \in ok /\ Good(k)
  BY <1>2, <1>3
<1>5. PICK i : i = (CHOOSE c \in ok : Good(c)) /\ i \in ok /\ Good(i)
  BY <1>4
<1>6. Chosen(t, ok) = {[prescaler |-> i, divisor |-> Divisor(t, i) % 256]}
  BY <1>5 DEF Chosen
<1> QED BY <1>5, <1>6

(* The prescalers that best_prescaler may take. *)
Usable(t) == {i \in 0..20 : Divisor(t, i) <= 255}

(* From a second on there is none. *)
LEMMA NoneIsUsable ==
    ASSUME NEW t \in Nat, t >= 1000000, NEW l \in best_prescaler(t)
    PROVE  l \in [prescaler : {0}, divisor : {0, 255}]
<1> DEFINE ok == {i \in 0..20 : /\ Divisor(t, i) <= 255 /\ Divisor(t, i) <= Clk(i)
                                /\ Excess(t, i) >= 0}
<1>1. l \in Chosen(t, ok)
  BY DEF best_prescaler
<1>2. ok = {}
  BY DivisorBelowClock
<1> HIDE DEF ok
<1> QED BY <1>1, <1>2 DEF Chosen

(* Below a second they are those whose divisor fits 8 bits, and the last   *)
(* one's always does.                                                      *)
LEMMA UsableIs ==
    ASSUME NEW t \in Nat, t < 1000000
    PROVE  best_prescaler(t) = Chosen(t, Usable(t)) /\ 20 \in Usable(t)
<1> DEFINE ok == {i \in 0..20 : /\ Divisor(t, i) <= 255 /\ Divisor(t, i) <= Clk(i)
                                /\ Excess(t, i) >= 0}
<1>1. best_prescaler(t) = Chosen(t, ok)
  BY DEF best_prescaler
<1>2. ASSUME NEW i \in 0..20 PROVE Divisor(t, i) <= Clk(i) /\ Excess(t, i) >= 0
  BY DivisorBelowClock, ExcessIs
<1>3. ok = Usable(t)
  BY <1>2 DEF Usable
<1>4. Clk(20) = 12
  BY Clocks, SMT DEF Table
<1>5. Divisor(t, 20) <= 255
  <2>1. 20 \in 0..20
    OBVIOUS
  <2>2. Divisor(t, 20) \in Nat /\ Divisor(t, 20) <= Clk(20)
    BY <2>1, DivisorBelowClock, DivisorIs
  <2> QED BY <1>4, <2>2
<1> QED BY <1>1, <1>3, <1>5 DEF Usable

(* best_prescaler always has a value, and it fits the registers. *)
LEMMA best_prescalerType ==
    ASSUME NEW t \in Nat
    PROVE  best_prescaler(t) \subseteq [prescaler : 0..20, divisor : 0..255]
<1>1. CASE t >= 1000000
  <2>1. ASSUME NEW l \in best_prescaler(t) PROVE l \in [prescaler : 0..20, divisor : 0..255]
    <3>1. l \in [prescaler : {0}, divisor : {0, 255}]
      BY <1>1, NoneIsUsable
    <3> QED BY <3>1
  <2> QED BY <2>1
<1>2. CASE t < 1000000
  <2>1. best_prescaler(t) = Chosen(t, Usable(t)) /\ Usable(t) # {}
    BY <1>2, UsableIs
  <2>2. Usable(t) \subseteq 0..20 /\ \A i \in Usable(t) : Divisor(t, i) <= Clk(i)
    BY <1>2, DivisorBelowClock DEF Usable
  <2>3. PICK i \in Usable(t) :
           Chosen(t, Usable(t)) = {[prescaler |-> i, divisor |-> Divisor(t, i) % 256]}
    BY <2>1, <2>2, ChosenIs
  <2>4. i \in 0..20 /\ Divisor(t, i) \in Nat
    BY <2>2, DivisorIs, Zenon
  <2> QED BY <2>1, <2>3, <2>4
<1> QED BY <1>1, <1>2

(* Ten times the time limit t, in ticks of 13.56 MHz and in tenths. *)
Covers(t, l) ==
    t < 100000 =>
        LET ticks == 2^l.prescaler * l.divisor
        IN /\ ticks >= 9 * ((t * 1356) \div 100)
           /\ ticks <= 11 * ((t * 1356) \div 100)

(* The first usable prescaler is not much too long, *)
LEMMA FirstIsNear ==
    ASSUME NEW t \in Nat, t >= 1, NEW x \in Nat, 100 * x + 100 > 1356 * t,
           NEW j \in Usable(10 * t), \A k \in Usable(10 * t) : j <= k
    PROVE  13560000 * Divisor(10 * t, j) <= 11 * (x * Clk(j))
<1>1. 10 * t \in Nat /\ j \in 0..20
  BY DEF Usable
<1>2. PICK c \in Nat, m \in Nat : /\ c = Clk(j) /\ m + 1 = Divisor(10 * t, j)
                                 /\ Millionths(m, c * (10 * t))
  BY <1>1, DivisorIs, ZenonT(30)
<1>3. PICK d \in Nat : d = m + 1 /\ 1000000 * (d - 1) <= c * (10 * t) /\ c >= 12
  <2>1. c >= 12
    BY <1>1, <1>2, ClockIs DEF Spans
  <2> QED BY <1>2, <2>1 DEF Millionths
<1>4. CASE j = 0
  <2>1. c = 13560000
    BY <1>2, <1>4, Clocks, SMT DEF Table
  <2>2. 13560000 * d <= 11 * (x * c)
    BY <1>3, <2>1
  <2> QED BY <1>2, <1>3, <2>2
<1>5. CASE j # 0
  <2>1. j \in 1..20 /\ j - 1 \in 0..20
    BY <1>1, <1>5
  <2>2. PICK b \in Nat, e \in Nat : /\ b = Clk(j - 1) /\ e + 1 = Divisor(10 * t, j - 1)
                                   /\ Millionths(e, b * (10 * t))
    BY <1>1, <2>1, DivisorIs, ZenonT(30)
  <2>3. b <= 2 * c + 1 /\ c <= 6780000
    BY <1>2, <2>1, <2>2, ClockBefore
  <2>4. e >= 255
    <3>1. j - 1 \notin Usable(10 * t)
      BY <1>1, <2>1
    <3> QED BY <2>1, <2>2, <3>1 DEF Usable
  <2>5. 255000000 <= b * (10 * t)
    <3>1. b * (10 * t) \in Nat
      BY <1>1, Products
    <3> QED BY <2>2, <2>4, <3>1 DEF Millionths
  <2>6. 13560000 * d <= 11 * (x * c)
    BY <1>3, <2>3, <2>5, TickIsShort
  <2> QED BY <1>2, <1>3, <2>6
<1> QED BY <1>4, <1>5

(* and the one that is taken is not longer than that by its rounding.      *)
LEMMA TakenIsNear ==
    ASSUME NEW t \in Nat, t >= 1, NEW x \in Nat, 100 * x + 100 > 1356 * t,
           \A j \in Usable(10 * t) : Divisor(10 * t, j) <= Clk(j),
           NEW i \in Usable(10 * t),
           \A j \in Usable(10 * t) : /\ Excess(10 * t, i) <= Excess(10 * t, j)
                                     /\ Excess(10 * t, i) = Excess(10 * t, j) => i <= j
    PROVE  2^i * Divisor(10 * t, i) <= 11 * x
<1>1. 10 * t \in Nat /\ Usable(10 * t) \subseteq 0..20 /\ i \in 0..20
  BY DEF Usable
<1>2. PICK j \in Usable(10 * t) : \A k \in Usable(10 * t) : j <= k
  BY <1>1, LeastOf
<1>3. j \in 0..20
  BY <1>1
<1>4. PICK ci \in Nat, di \in Nat : ci = Clk(i) /\ di = Divisor(10 * t, i)
  BY <1>1, DivisorIs, ZenonT(30)
<1>5. PICK cj \in Nat, dj \in Nat : cj = Clk(j) /\ dj = Divisor(10 * t, j)
  BY <1>1, <1>3, DivisorIs, ZenonT(30)
<1>6. di * cj <= dj * ci
  <2>1. CASE i = j
    BY <1>4, <1>5, <2>1
  <2>2. CASE i # j
    <3>1. Excess(10 * t, i) \in Nat /\ Excess(10 * t, j) \in Nat
      BY <1>1, <1>2, <1>3, ExcessIs
    <3>2. Excess(10 * t, i) < Excess(10 * t, j)
      <4>1. j <= i
        BY <1>2
      <4> QED BY <1>1, <1>2, <1>3, <2>2, <3>1, <4>1
    <3> QED BY <1>1, <1>2, <1>3, <1>4, <1>5, <3>2, LessExcess, SMTT(30)
  <2> QED BY <2>1, <2>2
<1>7. 13560000 * dj <= 11 * (x * cj) /\ cj >= 12
  <2>1. 13560000 * dj <= 11 * (x * cj)
    BY <1>2, <1>5, FirstIsNear
  <2> QED BY <1>3, <1>5, <2>1, ClockIs DEF Spans
<1>8. PICK p \in Nat : p = 2^i /\ Spans(p, ci)
  BY <1>1, <1>4, ClockIs, ZenonT(30)
<1>9. (p * di) * cj <= (11 * x) * cj
  <2>1. p * (di * cj) <= p * (dj * ci)
    <3>1. di * cj \in Nat /\ dj * ci \in Nat
      BY Products
    <3> QED BY <1>6, <3>1
  <2>2. p * (dj * ci) = dj * (p * ci)
    OBVIOUS
  <2>3. dj * (p * ci) <= dj * 13560000
    <3>1. p * ci \in Nat
      BY Products
    <3> QED BY <1>8, <3>1 DEF Spans
  <2>4. p * (di * cj) = (p * di) * cj /\ 11 * (x * cj) = (11 * x) * cj
    OBVIOUS
  <2>5. p * (di * cj) \in Int /\ p * (dj * ci) \in Int /\ dj * (p * ci) \in Int /\ x * cj \in Int
    <3>1. di * cj \in Nat /\ dj * ci \in Nat /\ p * ci \in Nat /\ x * cj \in Nat
      BY Products
    <3> QED BY <3>1, Products
  <2> QED BY <1>7, <2>1, <2>2, <2>3, <2>4, <2>5
<1>10. p * di <= 11 * x
  <2>1. p * di \in Nat /\ 11 * x \in Nat
    BY Products
  <2> DEFINE y == p * di
             z == 11 * x
  <2> HIDE DEF y, z
  <2>2. ASSUME y \in Nat, z \in Nat, y * cj <= z * cj PROVE y <= z
    BY <1>7, <2>2
  <2> QED BY <1>9, <2>1, <2>2 DEF y, z
<1> QED BY <1>4, <1>8, <1>10

(* x ticks are at most t. *)
AtMost(x, t) == 100 * x <= 1356 * t

(* No prescaler is much too short. *)
LEMMA NotTooShort ==
    ASSUME NEW t \in Nat, NEW x \in Nat, AtMost(x, t), NEW i \in 0..20
    PROVE  2^i * Divisor(10 * t, i) >= 9 * x
<1>1. 10 * t \in Nat /\ 100 * x <= 1356 * t
  BY DEF AtMost
<1>2. PICK c \in Nat, m \in Nat : /\ c = Clk(i) /\ m + 1 = Divisor(10 * t, i)
                                 /\ Millionths(m, c * (10 * t))
  BY <1>1, DivisorIs, ZenonT(30)
<1>3. PICK d \in Nat : d = m + 1 /\ c * (10 * t) < 1000000 * d
  <2>1. c * (10 * t) \in Nat
    BY <1>1, Products
  <2> QED BY <1>2, <2>1 DEF Millionths
<1>4. PICK p \in Nat : p = 2^i /\ Spans(p, c)
  BY <1>2, ClockIs, Zenon
<1>5. p * (c * (10 * t)) <= p * (1000000 * d)
  <2>1. c * (10 * t) \in Nat
    BY <1>1, Products
  <2> QED BY <1>3, <2>1
<1>6. p * (c * (10 * t)) = (p * c) * (10 * t) /\ p * (1000000 * d) = 1000000 * (p * d)
  OBVIOUS
<1>7. (p * c) * (10 * t) >= 12582912 * (10 * t)
  <2>1. p * c \in Nat
    BY Products
  <2> QED BY <1>4, <2>1 DEF Spans
<1>8. p * d >= 9 * x
  <2> DEFINE pd == p * d
             pct == (p * c) * (10 * t)
  <2>1. pd \in Nat /\ pct \in Nat
    <3>1. p * c \in Nat
      BY Products
    <3> QED BY <1>1, <3>1, Products
  <2>2. pct <= 1000000 * pd /\ pct >= 125829120 * t
    BY <1>5, <1>6, <1>7
  <2> HIDE DEF pd, pct
  <2>3. pd >= 9 * x
    BY <1>1, <2>1, <2>2
  <2> QED BY <2>3 DEF pd
<1> QED BY <1>2, <1>3, <1>4, <1>8

(* What best_prescaler finds for ten times a time limit covers it. *)
LEMMA best_prescalerCovers ==
    ASSUME NEW t \in Nat, t >= 1, NEW l \in best_prescaler(10 * t)
    PROVE  Covers(t, l)
<1>1. 10 * t \in Nat
  OBVIOUS
<1>2. CASE ~(t < 100000)
  BY <1>2 DEF Covers
<1>3. CASE t < 100000
  <2>1. best_prescaler(10 * t) = Chosen(10 * t, Usable(10 * t)) /\ Usable(10 * t) # {}
    BY <1>1, <1>3, UsableIs
  <2>2. Usable(10 * t) \subseteq 0..20 /\ \A i \in Usable(10 * t) : Divisor(10 * t, i) <= Clk(i)
    BY <1>1, <1>3, DivisorBelowClock DEF Usable
  <2>3. PICK i \in Usable(10 * t) :
           /\ \A j \in Usable(10 * t) : /\ Excess(10 * t, i) <= Excess(10 * t, j)
                                        /\ Excess(10 * t, i) = Excess(10 * t, j) => i <= j
           /\ Chosen(10 * t, Usable(10 * t)) =
                {[prescaler |-> i, divisor |-> Divisor(10 * t, i) % 256]}
    BY <1>1, <2>1, <2>2, ChosenIs
  <2>4. l.prescaler = i /\ l.divisor = Divisor(10 * t, i)
    <3>1. Divisor(10 * t, i) \in Nat /\ Divisor(10 * t, i) <= 255
      BY <1>1, DivisorIs, Zenon DEF Usable
    <3>2. Divisor(10 * t, i) % 256 = Divisor(10 * t, i)
      BY <3>1
    <3> QED BY <2>1, <2>3, <3>2
  <2>5. PICK x \in Nat : x = (t * 1356) \div 100 /\ 100 * x <= 1356 * t /\ 100 * x + 100 > 1356 * t
    OBVIOUS
  <2>6. 2^i * Divisor(10 * t, i) <= 11 * x
    BY <2>2, <2>3, <2>5, TakenIsNear
  <2>7. 2^i * Divisor(10 * t, i) >= 9 * x
    <3>1. i \in 0..20 /\ AtMost(x, t)
      BY <2>2, <2>5 DEF AtMost
    <3> QED BY <3>1, NotTooShort, Zenon
  <2> QED BY <1>3, <2>4, <2>5, <2>6, <2>7, SMT DEF Covers
<1> QED BY <1>2, <1>3

---------------------------------------------------------------------------
(* The FIFO.                                                               *)

(* A function on 1..n is a sequence of length n. *)
LEMMA FunctionIsSeq ==
    ASSUME NEW S, NEW n \in Nat, NEW f \in [1..n -> S]
    PROVE  f \in Seq(S) /\ Len(f) = n
<1>1. f \in Seq(S)
  BY SeqDef, Zenon
<1>2. Len(f) \in Nat /\ DOMAIN f = 1..Len(f)
  BY <1>1, LenProperties
<1>3. DOMAIN f = 1..n
  OBVIOUS
<1>4. Len(f) = n
  BY <1>2, <1>3
<1> QED BY <1>1, <1>4

(* The bytes of a command or an answer, and how many they are. *)
LEMMA BytesAre ==
    ASSUME NEW n \in Nat, NEW d \in {"cmd", "rsp"}, NEW from \in Nat, NEW len \in Nat
    PROVE  /\ Bytes(n, d, from, len) \in Seq(Byte) /\ Len(Bytes(n, d, from, len)) = len
           /\ \A k \in 1..len : Bytes(n, d, from, len)[k] = [of |-> n, dir |-> d, i |-> from + k]
<1>1. \A k \in 1..len : [of |-> n, dir |-> d, i |-> from + k] \in Byte
  BY DEF Byte
<1>2. Bytes(n, d, from, len) \in [1..len -> Byte]
  BY <1>1 DEF Bytes
<1>3. Bytes(n, d, from, len) \in Seq(Byte) /\ Len(Bytes(n, d, from, len)) = len
  BY <1>2, FunctionIsSeq
<1> QED BY <1>3 DEF Bytes

(* The smaller of two numbers. *)
LEMMA LeastIs ==
    ASSUME NEW m \in Nat, NEW n \in Nat
    PROVE  Least(m, n) \in Nat /\ Least(m, n) <= m /\ Least(m, n) <= n /\ Least(m, n) \in {m, n}
  BY DEF Least

(* The FIFO takes bytes up to its size. *)
LEMMA PushedType ==
    ASSUME FIFO \in Nat, fifo \in Seq(Byte), NEW s \in Seq(Byte)
    PROVE  Pushed(s) \in Seq(Byte) /\ Len(Pushed(s)) = Least(FIFO, Len(fifo) + Len(s))
<1> DEFINE all == fifo \o s
<1>1. all \in Seq(Byte) /\ Len(all) = Len(fifo) + Len(s) /\ Len(all) \in Nat
  BY ConcatProperties, LenProperties
<1>2. Pushed(s) = SubSeq(all, 1, Least(FIFO, Len(all)))
  BY DEF Pushed
<1> HIDE DEF all
<1>3. Least(FIFO, Len(all)) \in Nat /\ Least(FIFO, Len(all)) <= Len(all)
  BY <1>1, LeastIs
<1>4. \A i \in 1..Least(FIFO, Len(all)) : all[i] \in Byte
  BY <1>1, <1>3, ElementOfSeq
<1>5. /\ SubSeq(all, 1, Least(FIFO, Len(all))) \in Seq(Byte)
      /\ Len(SubSeq(all, 1, Least(FIFO, Len(all)))) =
            IF 1 <= Least(FIFO, Len(all)) THEN Least(FIFO, Len(all)) - 1 + 1 ELSE 0
  BY <1>3, <1>4, SubSeqProperties
<1> QED BY <1>1, <1>2, <1>3, <1>5

(* The beginning of an answer. *)
LEMMA AnswerIs ==
    ASSUME NEW n \in Nat, NEW len \in Nat
    PROVE  /\ Bytes(n, "rsp", 0, len) \in Seq(Byte) /\ Len(Bytes(n, "rsp", 0, len)) = len
           /\ \A k \in 1..len : Bytes(n, "rsp", 0, len)[k] = [of |-> n, dir |-> "rsp", i |-> k]
<1>1. 0 \in Nat /\ "rsp" \in {"cmd", "rsp"}
  OBVIOUS
<1>2. /\ Bytes(n, "rsp", 0, len) \in Seq(Byte) /\ Len(Bytes(n, "rsp", 0, len)) = len
      /\ \A k \in 1..len : Bytes(n, "rsp", 0, len)[k] = [of |-> n, dir |-> "rsp", i |-> 0 + k]
  BY <1>1, BytesAre, ZenonT(60)
<1>3. \A k \in 1..len : 0 + k = k
  OBVIOUS
<1> QED BY <1>2, <1>3

(* A sequence to which an element is appended, and its beginnings. *)
LEMMA TakeAll ==
    ASSUME NEW S, NEW s \in Seq(S), NEW b \in S
    PROVE  /\ s \o <<b>> \in Seq(S) /\ Len(s \o <<b>>) = Len(s) + 1
           /\ \A i \in 1..Len(s) : (s \o <<b>>)[i] = s[i]
           /\ (s \o <<b>>)[Len(s) + 1] = b
           /\ SubSeq(s \o <<b>>, 1, Len(s)) = s
           /\ SubSeq(s \o <<b>>, 1, Len(s) + 1) = s \o <<b>>
<1> DEFINE all == s \o <<b>>
<1>0. Len(s) \in Nat
  BY LenProperties
<1>1. all = Append(s, b)
  BY AppendIsConcat
<1>2. /\ all \in Seq(S) /\ Len(all) = Len(s) + 1 /\ \A i \in 1..Len(s) : all[i] = s[i]
      /\ all[Len(s) + 1] = b
  BY <1>1, AppendProperties
<1> HIDE DEF all
<1>3. /\ SubSeq(all, 1, Len(s)) \in Seq(S) /\ Len(SubSeq(all, 1, Len(s))) = Len(s)
      /\ \A i \in 1..Len(s) : SubSeq(all, 1, Len(s))[i] = all[i]
  <2>1. \A i \in 1..Len(s) : all[i] \in S
    BY <1>2, ElementOfSeq
  <2>2. /\ SubSeq(all, 1, Len(s)) \in Seq(S)
        /\ Len(SubSeq(all, 1, Len(s))) = IF 1 <= Len(s) THEN Len(s) - 1 + 1 ELSE 0
        /\ \A i \in 1..Len(s) - 1 + 1 : SubSeq(all, 1, Len(s))[i] = all[1 + i - 1]
    BY <1>0, <2>1, SubSeqProperties
  <2>3. Len(s) - 1 + 1 = Len(s) /\ \A i \in 1..Len(s) : 1 + i - 1 = i
    BY <1>0
  <2> QED BY <1>0, <2>2, <2>3
<1>4. SubSeq(all, 1, Len(s)) = s
  BY <1>2, <1>3, SeqEqual
<1>5. SubSeq(all, 1, Len(all)) = all
  BY <1>2, SubSeqFull
<1> QED BY <1>2, <1>4, <1>5 DEF all

(* The next byte of an answer of which the FIFO has taken what fits. *)
LEMMA PushedNext ==
    ASSUME FIFO \in Nat, NEW n \in Nat, NEW k \in Nat,
           fifo = Bytes(n, "rsp", 0, Least(FIFO, k)),
           NEW b, b = [of |-> n, dir |-> "rsp", i |-> k + 1]
    PROVE  Pushed(<<b>>) = Bytes(n, "rsp", 0, Least(FIFO, k + 1))
<1> DEFINE all == fifo \o <<b>>
           new == Bytes(n, "rsp", 0, k + 1)
<1>0. b \in Byte
  BY DEF Byte
<1>1. PICK m \in Nat : m = Least(FIFO, k) /\ m <= FIFO /\ m <= k /\ (m = FIFO \/ m = k)
  BY LeastIs
<1>2. fifo = Bytes(n, "rsp", 0, m)
  BY <1>1
<1>3. fifo \in Seq(Byte) /\ Len(fifo) = m /\ \A i \in 1..m : fifo[i] = [of |-> n, dir |-> "rsp", i |-> i]
  <2>1. /\ Bytes(n, "rsp", 0, m) \in Seq(Byte) /\ Len(Bytes(n, "rsp", 0, m)) = m
        /\ \A i \in 1..m : Bytes(n, "rsp", 0, m)[i] = [of |-> n, dir |-> "rsp", i |-> i]
    BY AnswerIs
  <2> QED BY <1>2, <2>1, Zenon
<1>4. /\ all \in Seq(Byte) /\ Len(all) = m + 1 /\ \A i \in 1..m : all[i] = fifo[i]
      /\ all[m + 1] = b /\ SubSeq(all, 1, m) = fifo /\ SubSeq(all, 1, m + 1) = all
  <2>1. /\ all \in Seq(Byte) /\ Len(all) = Len(fifo) + 1 /\ \A i \in 1..Len(fifo) : all[i] = fifo[i]
        /\ all[Len(fifo) + 1] = b /\ SubSeq(all, 1, Len(fifo)) = fifo
        /\ SubSeq(all, 1, Len(fifo) + 1) = all
    <3>1. fifo \in Seq(Byte)
      BY <1>3
    <3> QED BY <1>0, <3>1, TakeAll
  <2> HIDE DEF all
  <2> QED BY <1>3, <2>1, Zenon
<1>5. Pushed(<<b>>) = SubSeq(all, 1, Least(FIFO, m + 1))
  BY <1>4 DEF Pushed
<1> HIDE DEF all
<1>6. CASE m = FIFO
  <2>1. Least(FIFO, k + 1) = m /\ Least(FIFO, m + 1) = m
    BY <1>1, <1>6 DEF Least
  <2> QED BY <1>2, <1>4, <1>5, <2>1
<1>7. CASE m = k /\ k < FIFO
  <2>1. Least(FIFO, k + 1) = k + 1 /\ Least(FIFO, m + 1) = m + 1
    BY <1>1, <1>7 DEF Least
  <2>2. k + 1 \in Nat
    OBVIOUS
  <2>3. /\ new \in Seq(Byte) /\ Len(new) = k + 1
        /\ \A i \in 1..k + 1 : new[i] = [of |-> n, dir |-> "rsp", i |-> i]
    BY <2>2, AnswerIs
  <2> HIDE DEF new
  <2>4. ASSUME NEW i \in 1..k + 1 PROVE all[i] = new[i]
    <3>1. CASE i = k + 1
      BY <1>4, <1>7, <2>3, <3>1
    <3>2. CASE i # k + 1
      <4>1. i \in 1..m
        BY <1>7, <3>2
      <4> QED BY <1>3, <1>4, <2>3, <4>1
    <3> QED BY <3>1, <3>2
  <2>5. Len(all) = k + 1
    BY <1>4, <1>7
  <2>6. all = new
    BY <1>4, <2>3, <2>4, <2>5, SeqEqual
  <2> QED BY <1>4, <1>5, <2>1, <2>6 DEF new
<1> QED BY <1>1, <1>6, <1>7

(* The rest of an answer. *)
LEMMA RestIs ==
    ASSUME NEW n \in Nat, NEW k \in Nat, NEW len \in Nat
    PROVE  /\ Bytes(n, "rsp", k, len) \in Seq(Byte) /\ Len(Bytes(n, "rsp", k, len)) = len
           /\ \A i \in 1..len : Bytes(n, "rsp", k, len)[i] = [of |-> n, dir |-> "rsp", i |-> k + i]
  BY BytesAre, ZenonT(60)

(* The first byte of an answer, and the rest of it. *)
LEMMA BytesTail ==
    ASSUME NEW n \in Nat, NEW k \in Nat, NEW len \in Nat, len >= 1
    PROVE  /\ Head(Bytes(n, "rsp", k, len)) = [of |-> n, dir |-> "rsp", i |-> k + 1]
           /\ Tail(Bytes(n, "rsp", k, len)) = Bytes(n, "rsp", k + 1, len - 1)
<1> DEFINE s == Bytes(n, "rsp", k, len)
           r == Bytes(n, "rsp", k + 1, len - 1)
<1>1. /\ s \in Seq(Byte) /\ Len(s) = len
      /\ \A i \in 1..len : s[i] = [of |-> n, dir |-> "rsp", i |-> k + i]
  BY BytesAre, ZenonT(60)
<1>a. k + 1 \in Nat /\ len - 1 \in Nat /\ "rsp" \in {"cmd", "rsp"}
  OBVIOUS
<1>2. /\ r \in Seq(Byte) /\ Len(r) = len - 1
      /\ \A i \in 1..len - 1 : r[i] = [of |-> n, dir |-> "rsp", i |-> (k + 1) + i]
  <2>1. PICK from \in Nat, l \in Nat : from = k + 1 /\ l = len - 1
    BY <1>a
  <2>2. /\ Bytes(n, "rsp", from, l) \in Seq(Byte) /\ Len(Bytes(n, "rsp", from, l)) = l
        /\ \A i \in 1..l : Bytes(n, "rsp", from, l)[i] = [of |-> n, dir |-> "rsp", i |-> from + i]
    BY RestIs, ZenonT(60)
  <2> QED BY <2>1, <2>2
<1> HIDE DEF s, r
<1>3. s # <<>>
  BY <1>1
<1>4. /\ Tail(s) \in Seq(Byte) /\ Len(Tail(s)) = len - 1
      /\ \A i \in 1..len - 1 : Tail(s)[i] = s[i + 1]
  BY <1>1, <1>3, HeadTailProperties
<1>5. \A i \in 1..len - 1 : Tail(s)[i] = r[i]
  <2>1. ASSUME NEW i \in 1..len - 1 PROVE Tail(s)[i] = r[i]
    <3>1. i + 1 \in 1..len /\ k + (i + 1) = (k + 1) + i
      OBVIOUS
    <3> QED BY <1>1, <1>2, <1>4, <3>1
  <2> QED BY <2>1
<1>6. Tail(s) = r
  BY <1>2, <1>4, <1>5, SeqEqual
<1>7. Head(s) = s[1]
  BY <1>1, <1>3
<1>8. s[1] = [of |-> n, dir |-> "rsp", i |-> k + 1]
  BY <1>1
<1> QED BY <1>6, <1>7, <1>8 DEF s, r

---------------------------------------------------------------------------
(* Case distinctions of the host.                                          *)

Five == {"ab", "acf", "sf", "key", "auth"}

(* The kinds of calls. *)
LEMMA KindIs ==
    ASSUME TypeOK
    PROVE  call.kind \in Five /\ call.kind \in Kinds \cup {"ab"}
  BY KindsAssumption DEF TypeOK, Five

(* The callers send at least a byte and have room for one. *)
LEMMA ArgumentsAre ==
    ASSUME NEW kind \in Five, NEW a \in Arguments(kind)
    PROVE  /\ a[1] \in Nat /\ a[1] >= 1 /\ a[2] \in Nat /\ a[2] >= 1
           /\ kind \notin Transceives => a[1] = 1
<1>1. /\ kind \in {"ab", "acf"} => Arguments(kind) = TxLens \X Rooms
      /\ kind = "sf" => Arguments(kind) = {<<1, 2>>}
      /\ kind \in {"key", "auth"} => Arguments(kind) = {<<1, 1>>}
  BY Zenon DEF Arguments
<1>2. CASE kind \in {"ab", "acf"}
  <2>1. PICK x \in TxLens, y \in Rooms : a = <<x, y>>
    BY <1>1, <1>2
  <2>2. x \in Nat /\ x >= 1 /\ y \in Nat /\ y >= 1
    BY LensAssumption
  <2> QED BY <1>2, <2>1, <2>2 DEF Transceives
<1>3. CASE kind = "sf"
  BY <1>1, <1>3 DEF Transceives
<1>4. CASE kind \in {"key", "auth"}
  BY <1>1, <1>4
<1> QED BY <1>2, <1>3, <1>4 DEF Five

(* The time limits that the callers pass. *)
LEMMA LimitsAre ==
    ASSUME NEW kind \in Five
    PROVE  Limits(kind) \subseteq Timeouts \cup {50, 92, 140} /\ Limits(kind) \subseteq Nat
<1>1. /\ kind = "ab" => Limits(kind) = Timeouts
      /\ kind = "acf" => Limits(kind) = {50}
      /\ kind = "sf" => Limits(kind) = {92}
      /\ kind \in {"key", "auth"} => Limits(kind) = {140}
  BY Zenon DEF Limits
<1>2. \A t \in Timeouts : t \in Nat
  BY TimeoutsAssumption, SMT
<1>3. 50 \in Nat /\ 92 \in Nat /\ 140 \in Nat
  BY SMT
<1>4. kind = "ab" \/ kind = "acf" \/ kind = "sf" \/ kind \in {"key", "auth"}
  BY SMT DEF Five
<1>5. CASE kind = "ab"
  BY <1>1, <1>2, <1>5, Zenon
<1>6. CASE kind # "ab"
  <2>1. Limits(kind) = {50} \/ Limits(kind) = {92} \/ Limits(kind) = {140}
    BY <1>1, <1>4, <1>6, Zenon
  <2> QED BY <2>1, SMT
<1> QED BY <1>5, <1>6

(* Where rc632_timer_set returns to. *)
LEMMA AfterTimerIs ==
    /\ call.kind \in Transceives => AfterTimer = "fill"
    /\ call.kind = "key" => AfterTimer = "status"
    /\ call.kind = "auth" /\ call.second => AfterTimer = "start"
    /\ call.kind = "auth" /\ ~call.second => AfterTimer = "status"
  BY Zenon DEF AfterTimer, Transceives

(* Where rc632_wait_idle_timer returns to. *)
LEMMA AfterWaitIs ==
    /\ call.kind \in Transceives => AfterWait = "length"
    /\ call.kind = "key" => AfterWait = "keyerr"
    /\ call.kind = "auth" => AfterWait = IF call.second THEN "crypto" ELSE "bitframe"
  BY Zenon DEF AfterWait, Transceives

(* COMMAND is written, and the host goes on. *)
StartGoes(c, next) ==
    /\ Checks(next) /\ cmd' = c
    /\ modem' = IF call.kind = "key" THEN modem ELSE "tx"

(* Which command is started, and the access after it. *)
LEMMA StartIs ==
    ASSUME StartCommand
    PROVE  /\ pc = "start" /\ err' = {} /\ air' = [by |-> call.n, bytes |-> <<>>] /\ answer' = <<>>
           /\ UNCHANGED <<call, sent, cur, stat, load, fifo, irq, timer>>
           /\ call.kind \in Transceives /\ ~call.second => StartGoes("TRANSCEIVE", "more")
           /\ call.kind = "key" /\ ~call.second => StartGoes("LOAD_KEY", "control")
           /\ call.kind = "auth" /\ call.second => StartGoes("AUTHENT2", "status")
           /\ call.kind = "auth" /\ ~call.second => StartGoes("AUTHENT1", "control")
<1>1. /\ pc = "start" /\ err' = {} /\ air' = [by |-> call.n, bytes |-> <<>>] /\ answer' = <<>>
      /\ UNCHANGED <<call, sent, cur, stat, load, fifo, irq, timer>>
  BY Zenon DEF StartCommand
<1> DEFINE next == CASE call.kind \in Transceives -> "more" [] call.second -> "status" [] OTHER -> "control"
           c == CASE call.kind \in Transceives -> "TRANSCEIVE" [] call.kind = "key" -> "LOAD_KEY"
                  [] call.second -> "AUTHENT2" [] OTHER -> "AUTHENT1"
<1>2. StartGoes(c, next)
  BY Zenon DEF StartCommand, StartGoes
<1>3. /\ call.kind \in Transceives /\ ~call.second => next = "more" /\ c = "TRANSCEIVE"
      /\ call.kind = "key" /\ ~call.second => next = "control" /\ c = "LOAD_KEY"
      /\ call.kind = "auth" /\ call.second => next = "status" /\ c = "AUTHENT2"
      /\ call.kind = "auth" /\ ~call.second => next = "control" /\ c = "AUTHENT1"
  <2>1. call.kind \in Transceives /\ ~call.second => next = "more" /\ c = "TRANSCEIVE"
    BY Zenon DEF Transceives
  <2>2. call.kind = "key" /\ ~call.second => next = "control" /\ c = "LOAD_KEY"
    BY Zenon DEF Transceives
  <2>3. call.kind = "auth" /\ call.second => next = "status" /\ c = "AUTHENT2"
    BY Zenon DEF Transceives
  <2>4. call.kind = "auth" /\ ~call.second => next = "control" /\ c = "AUTHENT1"
    BY Zenon DEF Transceives
  <2> QED BY <2>1, <2>2, <2>3, <2>4, Zenon
<1> HIDE DEF next, c
<1> QED BY <1>1, <1>2, <1>3, Zenon

---------------------------------------------------------------------------
(* Types.                                                                  *)

PCs == Checked \cup {"ready", "idle", "clear", "status", "cleartimer", "clearrx"}
Rets == {"ok", "EIO", "ETIMEDOUT", "EINVAL", "EACCES", "short", "fault"}
CallType == [n : Nat, kind : Kinds \cup {"ab"}, tx_len : Nat, room : Nat, timeout : Nat,
             second : BOOLEAN]
LoadType == [prescaler : 0..20, divisor : 0..255]
OutType == [ret : Rets, rx : Seq(Byte), boc : BOOLEAN]
TimerType == [start : BOOLEAN, stop : BOOLEAN, running : BOOLEAN]
PastType == [expired : BOOLEAN, len : Nat, errs : SUBSET Errors, fault : BOOLEAN, lost : BOOLEAN]
Flags == {"COL", "PARITY", "CRC", "KEY"}

(* The types of the host's variables, and of the chip's and the card's. *)
HostOK ==
    /\ pc \in PCs /\ call \in CallType /\ load \in LoadType
    /\ sent \in Nat /\ cur \in 0..FIFO /\ stat \in Status \cup {Unset} /\ out \in OutType
ChipOK ==
    /\ cmd \in {"IDLE", "TRANSCEIVE", "LOAD_KEY", "AUTHENT1", "AUTHENT2"}
    /\ modem \in {"idle", "tx", "await", "recv"}
    /\ fifo \in Seq(Byte) /\ Len(fifo) <= FIFO
    /\ irq \subseteq {"TIMER", "RX", "IDLE"} /\ err \subseteq Flags
    /\ timer \in TimerType
    /\ air \in [by : Nat, bytes : Seq(Byte)] /\ answer \in Seq(Byte)
GhostOK == past \in PastType /\ faults \in Nat

(* TypeOK in three parts. *)
LEMMA TypesAre == TypeOK <=> HostOK /\ ChipOK /\ GhostOK
  BY DEF TypeOK, HostOK, ChipOK, GhostOK, PCs, Rets, CallType, LoadType, OutType, TimerType,
         PastType, Flags

(* The same after a step. *)
LEMMA PrimedTypesAre == HostOK' /\ ChipOK' /\ GhostOK' => TypeOK'
  BY DEF TypeOK, HostOK, ChipOK, GhostOK, PCs, Rets, CallType, LoadType, OutType, TimerType,
         PastType, Flags

(* How an access ends. *)
LEMMA AccessTypes ==
    ASSUME HostOK, GhostOK
    PROVE  /\ Works => GhostOK'
           /\ Fails => GhostOK'
           /\ \A r \in Rets : Return(r) => pc' \in PCs /\ out' \in OutType
           /\ \A p \in PCs : Checks(p) => pc' \in PCs /\ out' \in OutType /\ GhostOK'
           /\ \A p \in PCs : Drops(p) => pc' \in PCs /\ out' \in OutType /\ GhostOK'
<1>1. Works => GhostOK'
  BY DEF Works, GhostOK
<1>2. Fails => GhostOK'
  <2> SUFFICES ASSUME Fails PROVE past' \in PastType /\ faults' \in Nat
    BY DEF GhostOK
  <2>1. /\ past.expired \in BOOLEAN /\ past.len \in Nat /\ past.errs \in SUBSET Errors
        /\ past.lost \in BOOLEAN
    BY DEF GhostOK, PastType
  <2>2. past' = [expired |-> past.expired, len |-> past.len, errs |-> past.errs, fault |-> TRUE,
                 lost |-> past.lost]
    BY DEF Fails, GhostOK, PastType
  <2>3. past' \in PastType
    BY <2>1, <2>2 DEF PastType
  <2> QED BY <2>3 DEF Fails, GhostOK
<1>3. \A r \in Rets : Return(r) => pc' \in PCs /\ out' \in OutType
  BY DEF Return, HostOK, OutType, PCs
<1>4. out' = out => out' \in OutType
  BY DEF HostOK
<1>5. "fault" \in Rets
  BY DEF Rets
<1> QED BY <1>1, <1>2, <1>3, <1>4, <1>5 DEF Checks, Drops

(* A step of the chip keeps the types of the host. *)
LEMMA HostUnchanged == HostOK /\ UNCHANGED host => HostOK'
  BY DEF HostOK, host

(* A look keeps the types of the chip. *)
LEMMA ChipUnchanged == ChipOK /\ UNCHANGED <<chip, card>> => ChipOK'
  BY DEF ChipOK, chip, card

(* rc632_timer_set finds a prescaler and a divisor of 8 bits. *)
LEMMA TimerSetTypes ==
    ASSUME HostOK, TimerSet, call.kind \in Five
    PROVE  /\ load' \in LoadType /\ call' \in CallType
           /\ \E t \in Nat : call' = [call EXCEPT !.timeout = t]
<1>1. PICK t \in Limits(call.kind) : load' \in Prescaled[t] /\ call' = [call EXCEPT !.timeout = t]
  BY DEF TimerSet
<1>2. t \in Timeouts \cup {50, 92, 140} /\ t \in Nat
  BY LimitsAre, Zenon
<1>3. load' \in best_prescaler(t * TIMER_RELAX_FACTOR)
  BY <1>1, <1>2, Zenon DEF Prescaled
<1>4. t * TIMER_RELAX_FACTOR \in Nat
  BY <1>2 DEF TIMER_RELAX_FACTOR
<1>5. load' \in LoadType
  BY <1>3, <1>4, best_prescalerType DEF LoadType
<1>6. call' \in CallType
  BY <1>1, <1>2 DEF HostOK, CallType
<1> QED BY <1>1, <1>2, <1>5, <1>6

(* A call begins. *)
LEMMA EnterTypes ==
    ASSUME TypeOK, NEW kind \in Kinds, NEW a \in Arguments(kind),
           Enter(kind, a[1], a[2]) \/ EnterAuth(kind, a[1], a[2]), kind = "auth" => EnterAuth(kind, a[1], a[2]),
           kind # "auth" => Enter(kind, a[1], a[2])
    PROVE  TypeOK'
<1>0. HostOK /\ ChipOK /\ GhostOK /\ kind \in Five /\ FIFO \in Nat /\ FIFO >= 1
  BY TypesAre, KindsAssumption, SizeAssumption DEF Five
<1>1. a[1] \in Nat /\ a[1] >= 1 /\ a[2] \in Nat /\ (kind \notin Transceives => a[1] = 1)
  BY <1>0, ArgumentsAre
<1>2. Enters(kind, a[1], a[2])
  BY DEF Enter, EnterAuth
<1>3. /\ call' = [n |-> call.n + 1, kind |-> kind, tx_len |-> a[1], room |-> a[2],
                  timeout |-> 0, second |-> FALSE]
      /\ sent' = 0 /\ out' = [ret |-> "ok", rx |-> <<>>, boc |-> FALSE] /\ stat' = Unset
      /\ UNCHANGED <<load, chip, card, faults>>
  BY <1>2 DEF Enters
<1>4. pc' \in PCs /\ cur' \in 0..FIFO
  <2>1. CASE kind = "auth"
    <3>1. a[1] = 1 /\ cur' = a[1] /\ pc' = "fill"
      BY <1>1, <2>1 DEF EnterAuth, Transceives
    <3> QED BY <1>0, <3>1 DEF PCs, Checked
  <2>2. CASE kind # "auth"
    <3>1. cur' = Least(a[1], FIFO) /\ pc' = "idle"
      BY <2>2 DEF Enter
    <3>2. PICK len \in Nat : len = a[1]
      BY <1>1
    <3>3. Least(len, FIFO) \in 0..FIFO
      BY <1>0 DEF Least
    <3> QED BY <3>1, <3>2, <3>3 DEF PCs
  <2> QED BY <2>1, <2>2
<1>5. call' \in CallType
  <2>1. call.n + 1 \in Nat
    BY <1>0 DEF HostOK, CallType
  <2> QED BY <1>1, <1>3, <2>1 DEF CallType
<1>6. out' \in OutType
  <2>1. <<>> \in Seq(Byte)
    OBVIOUS
  <2> QED BY <1>3, <2>1 DEF OutType, Rets
<1>7. past' \in PastType
  <2>1. ("RX" \in irq) \in BOOLEAN
    OBVIOUS
  <2>2. past' = NoPast \/ past' = [NoPast EXCEPT !.lost = "RX" \in irq]
    BY DEF Enter, EnterAuth
  <2>3. NoPast \in PastType
    BY DEF NoPast, PastType
  <2> QED BY <2>1, <2>2, <2>3 DEF PastType
<1>8. HostOK'
  BY <1>0, <1>3, <1>4, <1>5, <1>6 DEF HostOK
<1>9. ChipOK' /\ GhostOK'
  BY <1>0, <1>3, <1>7, ChipUnchanged DEF GhostOK
<1> QED BY <1>8, <1>9, PrimedTypesAre

(* Accesses that leave the chip as it is. *)
LEMMA LookTypes ==
    ASSUME TypeOK,
           \/ FillMore \/ ReadStatus \/ ReadErrorFlag \/ ReadLength \/ ReadCollision
           \/ ReadKeyError \/ ReadSecondaryStatus \/ ReadControl
           \/ ReadInterruptRq \/ ReadCommand \/ AccessFails
    PROVE  TypeOK'
<1>0. HostOK /\ ChipOK /\ GhostOK /\ FIFO \in Nat /\ FIFO >= 1 /\ call.kind \in Five
  BY TypesAre, KindIs, SizeAssumption
<1>a. Len(fifo) \in Nat /\ Len(fifo) <= FIFO
  BY <1>0, LenProperties DEF ChipOK
<1>b. \A s \in Status : AfterStatus(s) \in PCs /\ AfterError(s) \in PCs
  BY DEF AfterStatus, AfterError, PCs, Checked
<1>c. stat \in Status \cup {Unset} => AfterError(stat) \in PCs
  BY DEF AfterError, PCs, Checked
<1>d. Rets = {"ok", "EIO", "ETIMEDOUT", "EINVAL", "EACCES", "short", "fault"}
  BY DEF Rets
<1>1. CASE FillMore
  <2>1. /\ sent' = sent + cur /\ cur' = (IF sent + cur < call.tx_len THEN FIFO - Len(fifo) ELSE 0)
        /\ pc' \in {"status", "fill"} /\ Works /\ UNCHANGED <<call, stat, load, out, chip, card>>
    BY <1>1 DEF FillMore
  <2>2. sent' \in Nat /\ cur' \in 0..FIFO
    BY <1>0, <1>a, <2>1 DEF HostOK
  <2>3. HostOK'
    BY <1>0, <2>1, <2>2 DEF HostOK, PCs, Checked
  <2> QED BY <1>0, <2>1, <2>3, AccessTypes, ChipUnchanged, PrimedTypesAre
<1>2. CASE ReadStatus \/ StatusLost
  <2>1. stat' \in Status /\ pc' = AfterStatus(stat') /\ (Works \/ Fails)
        /\ UNCHANGED <<call, sent, cur, load, out, chip, card>>
    <3>1. CASE ReadStatus
      <4>1. stat' \in Status
        BY <3>1 DEF ReadStatus, Status
      <4> QED BY <3>1, <4>1 DEF ReadStatus
    <3>2. CASE StatusLost
      <4>1. stat' \in Status
        <5>1. stat' \in (IF stat.set THEN {stat} ELSE Status)
          BY <3>2 DEF StatusLost
        <5>2. stat.set => stat \in Status
          BY <1>0 DEF HostOK, Unset
        <5> QED BY <5>1, <5>2
      <4> QED BY <3>2, <4>1 DEF StatusLost
    <3> QED BY <1>2, <3>1, <3>2
  <2>2. HostOK'
    BY <1>0, <1>b, <2>1 DEF HostOK
  <2> QED BY <1>0, <2>1, <2>2, AccessTypes, ChipUnchanged, PrimedTypesAre
<1>3. CASE ReadErrorFlag
  <2>1. Works /\ UNCHANGED <<call, sent, cur, stat, load, chip, card>>
        /\ (Return("EIO") \/ (pc' = AfterError(stat) /\ UNCHANGED out))
    BY <1>3 DEF ReadErrorFlag
  <2>2. pc' \in PCs /\ out' \in OutType
    BY <1>0, <1>c, <1>d, <2>1, AccessTypes DEF HostOK
  <2>3. HostOK'
    BY <1>0, <2>1, <2>2 DEF HostOK
  <2> QED BY <1>0, <2>1, <2>3, AccessTypes, ChipUnchanged, PrimedTypesAre
<1>4. CASE ReadLength
  <2>1. Works /\ UNCHANGED <<sent, cur, stat, load, chip, card>>
        /\ \/ Return("EIO") /\ UNCHANGED call
           \/ /\ pc' = "read" /\ call' = [call EXCEPT !.room = Least(@, Len(fifo))]
              /\ UNCHANGED out
    BY <1>4 DEF ReadLength
  <2>2. pc' \in PCs /\ out' \in OutType
    BY <1>0, <1>d, <2>1, AccessTypes DEF HostOK, PCs, Checked
  <2>3. call' \in CallType
    <3>1. Least(call.room, Len(fifo)) \in Nat
      BY <1>0, <1>a, LeastIs DEF HostOK, CallType
    <3> QED BY <1>0, <2>1, <3>1 DEF HostOK, CallType
  <2>4. HostOK'
    BY <1>0, <2>1, <2>2, <2>3 DEF HostOK
  <2> QED BY <1>0, <2>1, <2>4, AccessTypes, ChipUnchanged, PrimedTypesAre
<1>5. CASE ReadCollision
  <2>1. Works /\ UNCHANGED <<call, sent, cur, stat, load, chip, card>>
        /\ \/ pc' = "ready" /\ out' = [out EXCEPT !.boc = "COL" \in err]
           \/ \E r \in {"ok", "short"} : Return(r)
    BY <1>5 DEF ReadCollision
  <2>2. pc' \in PCs /\ out' \in OutType
    <3>1. CASE pc' = "ready" /\ out' = [out EXCEPT !.boc = "COL" \in err]
      <4>1. ("COL" \in err) \in BOOLEAN
        OBVIOUS
      <4>2. out' \in OutType
        BY <1>0, <3>1, <4>1 DEF HostOK, OutType
      <4> QED BY <3>1, <4>2 DEF PCs
    <3>2. CASE \E r \in {"ok", "short"} : Return(r)
      BY <1>0, <1>d, <3>2, AccessTypes
    <3> QED BY <2>1, <3>1, <3>2
  <2>3. HostOK'
    BY <1>0, <2>1, <2>2 DEF HostOK
  <2> QED BY <1>0, <2>1, <2>3, AccessTypes, ChipUnchanged, PrimedTypesAre
<1>6. CASE ReadKeyError \/ ReadControl
  <2>1. Works /\ UNCHANGED <<call, sent, cur, stat, load, chip, card>>
        /\ \E r \in {"ok", "EINVAL", "EACCES"} : Return(r)
    BY <1>6 DEF ReadKeyError, ReadControl
  <2>2. pc' \in PCs /\ out' \in OutType
    BY <1>0, <1>d, <2>1, AccessTypes
  <2>3. HostOK'
    BY <1>0, <2>1, <2>2 DEF HostOK
  <2> QED BY <1>0, <2>1, <2>3, AccessTypes, ChipUnchanged, PrimedTypesAre
<1>7. CASE ReadSecondaryStatus
  <2>1. Works /\ UNCHANGED <<sent, cur, stat, load, chip, card>>
        /\ \/ Return("EIO") /\ UNCHANGED call
           \/ pc' = "control" /\ UNCHANGED out /\ call' = [call EXCEPT !.second = TRUE]
    BY <1>7 DEF ReadSecondaryStatus
  <2>2. pc' \in PCs /\ out' \in OutType
    BY <1>0, <1>d, <2>1, AccessTypes DEF HostOK, PCs, Checked
  <2>3. call' \in CallType
    BY <1>0, <2>1 DEF HostOK, CallType
  <2>4. HostOK'
    BY <1>0, <2>1, <2>2, <2>3 DEF HostOK
  <2> QED BY <1>0, <2>1, <2>4, AccessTypes, ChipUnchanged, PrimedTypesAre
<1>8. CASE TimerControlLost
  <2>1. Fails /\ pc' = "reload" /\ TimerSet /\ UNCHANGED <<sent, cur, stat, out, chip, card>>
    BY <1>8 DEF TimerControlLost
  <2>2. HostOK'
    BY <1>0, <2>1, TimerSetTypes DEF HostOK, PCs, Checked
  <2> QED BY <1>0, <2>1, <2>2, AccessTypes, ChipUnchanged, PrimedTypesAre
<1>9. CASE \/ \E p \in Checked \cup {"idle"} : Aborts(p)
           \/ Ignored("idle", "clear") \/ Ignored("clear", "control")
           \/ Ignored("clearrx", AfterWait) \/ ClearTimerLost
  <2>1. /\ Fails /\ UNCHANGED <<call, sent, cur, stat, load, chip, card>>
        /\ \/ Return("fault") \/ Return("ETIMEDOUT")
           \/ pc' \in {"clear", "control", AfterWait} /\ UNCHANGED out
    BY <1>9 DEF Aborts, Ignored, ClearTimerLost
  <2>a. AfterWait \in PCs
    BY <1>0, AfterWaitIs DEF Five, Transceives, PCs, Checked
  <2>2. pc' \in PCs /\ out' \in OutType
    BY <1>0, <1>d, <2>1, <2>a, AccessTypes DEF HostOK, PCs, Checked
  <2>3. HostOK'
    BY <1>0, <2>1, <2>2 DEF HostOK
  <2> QED BY <1>0, <2>1, <2>3, AccessTypes, ChipUnchanged, PrimedTypesAre
<1>10. CASE ReadInterruptRq \/ ReadCommand
  <2>1. /\ Works /\ UNCHANGED <<call, sent, cur, stat, load, out, chip, card>>
        /\ pc' \in {"cleartimer", "command", "clearrx", "status"}
    BY <1>10 DEF ReadInterruptRq, ReadCommand
  <2>2. HostOK'
    BY <1>0, <2>1 DEF HostOK, PCs, Checked
  <2> QED BY <1>0, <2>1, <2>2, AccessTypes, ChipUnchanged, PrimedTypesAre
<1> QED BY <1>1, <1>2, <1>3, <1>4, <1>5, <1>6, <1>7, <1>8, <1>9, <1>10 DEF AccessFails

(* The command that is started and the access after it. *)
LEMMA StartTypes ==
    ASSUME TypeOK, StartCommand
    PROVE  \E c \in {"TRANSCEIVE", "LOAD_KEY", "AUTHENT1", "AUTHENT2"}, p \in PCs : StartGoes(c, p)
<1> DEFINE next == CASE call.kind \in Transceives -> "more" [] call.second -> "status" [] OTHER -> "control"
           c == CASE call.kind \in Transceives -> "TRANSCEIVE" [] call.kind = "key" -> "LOAD_KEY"
                  [] call.second -> "AUTHENT2" [] OTHER -> "AUTHENT1"
<1>1. StartGoes(c, next)
  BY Zenon DEF StartCommand, StartGoes
<1>2. c \in {"TRANSCEIVE", "LOAD_KEY", "AUTHENT1", "AUTHENT2"}
  BY Zenon
<1>3. next \in {"more", "status", "control"}
  BY Zenon
<1> HIDE DEF next, c
<1> QED BY <1>1, <1>2, <1>3 DEF PCs, Checked

(* Accesses that write to the chip or clear its requests. *)
LEMMA WriteTypes ==
    ASSUME TypeOK,
           \/ CommandIdle \/ ClearInterrupts \/ TimerControl \/ TimerReload \/ FifoWrite
           \/ StartCommand \/ ClearTimer \/ ClearRx \/ FifoRead
    PROVE  TypeOK'
<1>0. HostOK /\ ChipOK /\ GhostOK /\ FIFO \in Nat /\ FIFO >= 1 /\ call.kind \in Five
  BY TypesAre, KindIs, SizeAssumption
<1>a. Len(fifo) \in Nat /\ Len(fifo) <= FIFO
  BY <1>0, LenProperties DEF ChipOK
<1>b. \A p \in {"fill", "clear", "control", "reload", "start", "more", "status", "command",
                "length", "keyerr", "crypto", "bitframe"} : p \in PCs
  BY DEF PCs, Checked
<1>c. "fault" \in Rets /\ "ETIMEDOUT" \in Rets
  BY DEF Rets
<1>1. CASE CommandIdle
  <2>1. pc' \in PCs /\ out' \in OutType /\ GhostOK'
    <3>1. Checks("fill") \/ Drops("clear")
      BY <1>1 DEF CommandIdle
    <3> QED BY <1>0, <1>b, <3>1, AccessTypes
  <2>2. StopModem /\ UNCHANGED <<call, sent, cur, stat, load, fifo, irq, err, timer>>
    BY <1>1 DEF CommandIdle
  <2>3. <<>> \in Seq(Byte) /\ 0 \in Nat
    OBVIOUS
  <2>4. HostOK' /\ ChipOK'
    BY <1>0, <2>1, <2>2, <2>3 DEF HostOK, ChipOK, StopModem, NoFrame
  <2> QED BY <2>1, <2>4, PrimedTypesAre
<1>2. CASE ClearInterrupts
  <2>1. pc' \in PCs /\ out' \in OutType /\ GhostOK'
    <3>1. Drops("control")
      BY <1>2 DEF ClearInterrupts
    <3> QED BY <1>0, <1>b, <3>1, AccessTypes
  <2>2. irq' = {} /\ UNCHANGED <<call, sent, cur, stat, load, cmd, modem, fifo, err, timer, card>>
    BY <1>2 DEF ClearInterrupts
  <2>3. HostOK' /\ ChipOK'
    BY <1>0, <2>1, <2>2 DEF HostOK, ChipOK, card
  <2> QED BY <2>1, <2>3, PrimedTypesAre
<1>3. CASE TimerControl
  <2>1. pc' \in PCs /\ out' \in OutType /\ GhostOK'
    <3>1. Drops("reload")
      BY <1>3 DEF TimerControl
    <3> QED BY <1>0, <1>b, <3>1, AccessTypes
  <2>2. /\ timer' = [timer EXCEPT !.start = TRUE, !.stop = TRUE] /\ TimerSet
        /\ UNCHANGED <<sent, cur, stat, cmd, modem, fifo, irq, err, card>>
    BY <1>3 DEF TimerControl
  <2>3. timer' \in TimerType
    BY <1>0, <2>2 DEF ChipOK, TimerType
  <2>4. load' \in LoadType /\ call' \in CallType
    BY <1>0, <2>2, TimerSetTypes
  <2>5. HostOK' /\ ChipOK'
    BY <1>0, <2>1, <2>2, <2>3, <2>4 DEF HostOK, ChipOK, card
  <2> QED BY <2>1, <2>5, PrimedTypesAre
<1>4. CASE TimerReload
  <2>1. pc' \in PCs /\ out' \in OutType /\ GhostOK'
    <3>1. CASE /\ pc' = AfterTimer /\ UNCHANGED <<out, faults>>
               /\ past' = [past EXCEPT !.lost = @ \/ (past.expired /\ "TIMER" \in irq)]
      <4>1. call.kind \in Transceives \/ call.kind = "key" \/ call.kind = "auth"
        BY <1>0 DEF Five, Transceives
      <4>2. AfterTimer \in {"fill", "status", "start"}
        BY <4>1, AfterTimerIs, Zenon
      <4>3. \E l \in BOOLEAN : past' = [past EXCEPT !.lost = l]
        <5>1. (past.lost \/ (past.expired /\ "TIMER" \in irq)) \in BOOLEAN
          OBVIOUS
        <5> QED BY <3>1, <5>1
      <4>4. past' \in PastType
        BY <1>0, <4>3 DEF GhostOK, PastType
      <4> QED BY <1>0, <1>b, <3>1, <4>2, <4>4 DEF HostOK, GhostOK
    <3>2. CASE Fails /\ Return("fault")
      BY <1>0, <1>c, <3>2, AccessTypes
    <3> QED BY <1>4, <3>1, <3>2 DEF TimerReload
  <2>2. /\ irq' = irq \ {"TIMER"} /\ call' = [call EXCEPT !.timeout = 0] /\ load' = NoLoad
        /\ UNCHANGED <<sent, cur, stat, cmd, modem, fifo, err, timer, card>>
    BY <1>4 DEF TimerReload
  <2>3. call' \in CallType /\ load' \in LoadType
    BY <1>0, <2>2 DEF HostOK, CallType, LoadType, NoLoad
  <2>4. HostOK' /\ ChipOK'
    BY <1>0, <2>1, <2>2, <2>3 DEF HostOK, ChipOK, card
  <2> QED BY <2>1, <2>4, PrimedTypesAre
<1>5. CASE FifoWrite
  <2>1. pc' \in PCs /\ out' \in OutType /\ GhostOK'
    <3>1. Checks("start") \/ Checks("more")
      BY <1>5 DEF FifoWrite
    <3> QED BY <1>0, <1>b, <3>1, AccessTypes
  <2>2. /\ fifo' = Pushed(Bytes(call.n, "cmd", sent, cur))
        /\ UNCHANGED <<call, sent, cur, stat, load, cmd, modem, irq, err, timer, card>>
    BY <1>5 DEF FifoWrite
  <2>3. fifo' \in Seq(Byte) /\ Len(fifo') <= FIFO
    <3>1. call.n \in Nat /\ sent \in Nat /\ cur \in Nat /\ "cmd" \in {"cmd", "rsp"}
      BY <1>0 DEF HostOK, CallType
    <3>2. PICK s \in Seq(Byte) : s = Bytes(call.n, "cmd", sent, cur)
      BY <3>1, BytesAre
    <3>3. fifo \in Seq(Byte) /\ Len(s) \in Nat
      BY <1>0, LenProperties DEF ChipOK
    <3>4. Pushed(s) \in Seq(Byte) /\ Len(Pushed(s)) = Least(FIFO, Len(fifo) + Len(s))
      BY <1>0, <3>3, PushedType
    <3>5. Least(FIFO, Len(fifo) + Len(s)) <= FIFO
      BY <1>0, <1>a, <3>3 DEF Least
    <3> QED BY <2>2, <3>2, <3>4, <3>5
  <2>4. HostOK' /\ ChipOK'
    BY <1>0, <2>1, <2>2, <2>3 DEF HostOK, ChipOK, card
  <2> QED BY <2>1, <2>4, PrimedTypesAre
<1>6. CASE StartCommand
  <2>1. PICK c \in {"TRANSCEIVE", "LOAD_KEY", "AUTHENT1", "AUTHENT2"}, p \in PCs : StartGoes(c, p)
    BY <1>6, StartTypes
  <2>2. /\ err' = {} /\ air' = [by |-> call.n, bytes |-> <<>>] /\ answer' = <<>>
        /\ UNCHANGED <<call, sent, cur, stat, load, fifo, irq, timer>>
    BY <1>6, StartIs
  <2>3. pc' \in PCs /\ out' \in OutType /\ GhostOK'
    BY <1>0, <2>1, AccessTypes DEF StartGoes
  <2>4. cmd' = c /\ modem' \in {modem, "tx"}
    BY <2>1 DEF StartGoes
  <2>5. <<>> \in Seq(Byte) /\ call.n \in Nat
    BY <1>0 DEF HostOK, CallType
  <2>6. HostOK' /\ ChipOK'
    BY <1>0, <2>2, <2>3, <2>4, <2>5 DEF HostOK, ChipOK
  <2> QED BY <2>3, <2>6, PrimedTypesAre
<1>7. CASE ClearTimer
  <2>1. /\ Works \/ Fails
        /\ irq' = irq \ {"TIMER"} /\ Return("ETIMEDOUT")
        /\ UNCHANGED <<call, sent, cur, stat, load, cmd, modem, fifo, err, timer, card>>
    BY <1>7 DEF ClearTimer
  <2>2. pc' \in PCs /\ out' \in OutType /\ GhostOK'
    BY <1>0, <1>b, <1>c, <2>1, AccessTypes DEF HostOK
  <2>3. HostOK' /\ ChipOK'
    BY <1>0, <2>1, <2>2 DEF HostOK, ChipOK, card
  <2> QED BY <2>2, <2>3, PrimedTypesAre
<1>8. CASE ClearRx
  <2>1. /\ Drops(AfterWait) /\ irq' = irq \ {"RX"}
        /\ UNCHANGED <<call, sent, cur, stat, load, cmd, modem, fifo, err, timer, card>>
    BY <1>8 DEF ClearRx
  <2>2. call.kind \in Transceives \/ call.kind = "key" \/ call.kind = "auth"
    BY <1>0 DEF Five, Transceives
  <2>3. AfterWait \in {"length", "keyerr", "crypto", "bitframe"}
    BY <2>2, AfterWaitIs
  <2>4. pc' \in PCs /\ out' \in OutType /\ GhostOK'
    BY <1>0, <1>b, <2>1, <2>3, AccessTypes DEF HostOK
  <2>5. HostOK' /\ ChipOK'
    BY <1>0, <2>1, <2>4 DEF HostOK, ChipOK, card
  <2> QED BY <2>4, <2>5, PrimedTypesAre
<1>9. CASE FifoRead
  <2> DEFINE got == Least(call.room, Len(fifo))
  <2>1. /\ Works /\ fifo' = SubSeq(fifo, got + 1, Len(fifo))
        /\ out' = [out EXCEPT !.rx = SubSeq(fifo, 1, got)] /\ pc' \in {"ready", "collision"}
        /\ UNCHANGED <<call, sent, cur, stat, load, cmd, modem, irq, err, timer, card>>
    BY <1>9 DEF FifoRead
  <2>2. call.room \in Nat /\ fifo \in Seq(Byte)
    BY <1>0 DEF HostOK, CallType, ChipOK
  <2>3. got \in Nat /\ got <= Len(fifo)
    BY <1>a, <2>2 DEF Least
  <2> HIDE DEF got
  <2>4. /\ SubSeq(fifo, 1, got) \in Seq(Byte)
        /\ SubSeq(fifo, got + 1, Len(fifo)) \in Seq(Byte)
        /\ Len(SubSeq(fifo, got + 1, Len(fifo))) <= FIFO
    <3>1. SubSeq(fifo, 1, got) \in Seq(Byte) /\ SubSeq(fifo, got + 1, Len(fifo)) \in Seq(Byte)
      BY <1>a, <2>2, <2>3, SubSeqProperties
    <3>2. Len(SubSeq(fifo, got + 1, Len(fifo))) = IF got + 1 <= Len(fifo) THEN Len(fifo) - got ELSE 0
      BY <1>a, <2>2, <2>3
    <3> QED BY <1>0, <1>a, <2>3, <3>1, <3>2
  <2>5. pc' \in PCs /\ out' \in OutType /\ GhostOK'
    BY <1>0, <2>1, <2>4, AccessTypes DEF HostOK, OutType, PCs, Checked
  <2>6. HostOK' /\ ChipOK'
    BY <1>0, <2>1, <2>4, <2>5 DEF HostOK, ChipOK, card
  <2> QED BY <2>5, <2>6, PrimedTypesAre
<1> QED BY <1>1, <1>2, <1>3, <1>4, <1>5, <1>6, <1>7, <1>8, <1>9

(* What the chip and the card do meanwhile. *)
LEMMA ChipTypes ==
    ASSUME TypeOK, Chip
    PROVE  TypeOK'
<1>0. HostOK /\ ChipOK /\ GhostOK /\ FIFO \in Nat /\ FIFO >= 1
  BY TypesAre, SizeAssumption
<1>a. Len(fifo) \in Nat /\ Len(fifo) <= FIFO /\ fifo \in Seq(Byte) /\ answer \in Seq(Byte)
  BY <1>0, LenProperties DEF ChipOK
<1>b. UNCHANGED host
  BY DEF Chip, ChipTransmits, ChipTxEnd, TimerExpires, ChipRxBegin, ChipReceives, ChipRxEnd,
         ChipLoadsKey
<1>c. HostOK'
  BY <1>0, <1>b, HostUnchanged
<1>1. CASE ChipTransmits
  <2>1. /\ fifo # <<>> /\ air' = [air EXCEPT !.bytes = Append(@, Head(fifo))] /\ fifo' = Tail(fifo)
        /\ UNCHANGED <<cmd, modem, irq, err, timer, answer, past, faults>>
    BY <1>1 DEF ChipTransmits
  <2>2. Head(fifo) \in Byte /\ Tail(fifo) \in Seq(Byte) /\ Len(Tail(fifo)) = Len(fifo) - 1
    BY <1>a, <2>1, HeadTailProperties
  <2>3. air.bytes \in Seq(Byte) /\ air.by \in Nat
    BY <1>0 DEF ChipOK
  <2>4. Append(air.bytes, Head(fifo)) \in Seq(Byte)
    BY <2>2, <2>3, AppendProperties
  <2>5. air' \in [by : Nat, bytes : Seq(Byte)]
    BY <1>0, <2>1, <2>4 DEF ChipOK
  <2>6. fifo' \in Seq(Byte) /\ Len(fifo') <= FIFO
    BY <1>0, <1>a, <2>1, <2>2
  <2>7. ChipOK' /\ GhostOK'
    BY <1>0, <2>1, <2>5, <2>6 DEF ChipOK, GhostOK
  <2> QED BY <1>c, <2>7, PrimedTypesAre
<1>2. CASE ChipTxEnd
  <2>1. /\ modem' = "await" /\ timer' = [timer EXCEPT !.running = timer.start] /\ air' = NoFrame
        /\ UNCHANGED <<cmd, fifo, irq, err, faults>>
    BY <1>2 DEF ChipTxEnd
  <2>2. PICK n \in RespLens :
           /\ answer' = Bytes(air.by, "rsp", 0, n)
           /\ past' = [past EXCEPT !.len = n, !.errs = {}, !.expired = FALSE,
                                 !.lost = @ \/ (cmd = "AUTHENT1" /\ ~timer.start)]
    BY <1>2 DEF ChipTxEnd
  <2>3. n \in Nat /\ air.by \in Nat
    BY <1>0, LensAssumption DEF ChipOK
  <2>4. answer' \in Seq(Byte)
    BY <2>2, <2>3, AnswerIs
  <2>5. timer' \in TimerType
    BY <1>0, <2>1 DEF ChipOK, TimerType
  <2>6. air' \in [by : Nat, bytes : Seq(Byte)]
    BY <2>1 DEF NoFrame
  <2>7. past' \in PastType
    <3>1. \E l \in BOOLEAN :
             past' = [past EXCEPT !.len = n, !.errs = {}, !.expired = FALSE, !.lost = l]
      <4>1. (past.lost \/ (cmd = "AUTHENT1" /\ ~timer.start)) \in BOOLEAN
        OBVIOUS
      <4> QED BY <2>2, <4>1
    <3> QED BY <1>0, <2>3, <3>1 DEF GhostOK, PastType
  <2>8. ChipOK' /\ GhostOK'
    BY <1>0, <2>1, <2>4, <2>5, <2>6, <2>7 DEF ChipOK, GhostOK
  <2> QED BY <1>c, <2>8, PrimedTypesAre
<1>3. CASE TimerExpires
  <2>1. /\ timer' = [timer EXCEPT !.running = FALSE] /\ irq' = irq \cup {"TIMER"}
        /\ past' = [past EXCEPT !.expired = modem = "await"]
        /\ UNCHANGED <<cmd, modem, fifo, err, card, faults>>
    BY <1>3 DEF TimerExpires
  <2>2. timer' \in TimerType
    BY <1>0, <2>1 DEF ChipOK, TimerType
  <2>3. (modem = "await") \in BOOLEAN
    OBVIOUS
  <2>4. past' \in PastType
    BY <1>0, <2>1, <2>3 DEF GhostOK, PastType
  <2>5. ChipOK' /\ GhostOK'
    BY <1>0, <2>1, <2>2, <2>4 DEF ChipOK, GhostOK, card
  <2> QED BY <1>c, <2>5, PrimedTypesAre
<1>4. CASE ChipRxBegin
  <2>1. /\ modem' = "recv" /\ timer' = [timer EXCEPT !.running = @ /\ ~timer.stop]
        /\ UNCHANGED <<cmd, fifo, irq, err, card, past, faults>>
    BY <1>4 DEF ChipRxBegin
  <2>2. (timer.running /\ ~timer.stop) \in BOOLEAN
    OBVIOUS
  <2>3. timer' \in TimerType
    BY <1>0, <2>1, <2>2 DEF ChipOK, TimerType
  <2>4. ChipOK' /\ GhostOK'
    BY <1>0, <2>1, <2>3 DEF ChipOK, GhostOK, card
  <2> QED BY <1>c, <2>4, PrimedTypesAre
<1>5. CASE ChipReceives
  <2>1. /\ answer # <<>> /\ fifo' = (IF cmd = "TRANSCEIVE" THEN Pushed(<<Head(answer)>>) ELSE fifo)
        /\ answer' = Tail(answer) /\ UNCHANGED <<cmd, modem, irq, timer, air, faults>>
    BY <1>5 DEF ChipReceives
  <2>2. PICK e \in {{}} \cup {{x} : x \in Errors} :
           err' = err \cup e /\ past' = [past EXCEPT !.errs = @ \cup e]
    BY <1>5 DEF ChipReceives
  <2>3. e \subseteq Errors /\ e \subseteq Flags
    BY ErrorsAssumption DEF Flags
  <2>4. err' \subseteq Flags
    BY <1>0, <2>2, <2>3 DEF ChipOK
  <2>5. past' \in PastType
    <3>1. past.errs \cup e \in SUBSET Errors
      BY <1>0, <2>3 DEF GhostOK, PastType
    <3> QED BY <1>0, <2>2, <3>1 DEF GhostOK, PastType
  <2>6. Head(answer) \in Byte /\ Tail(answer) \in Seq(Byte)
    BY <1>a, <2>1, HeadTailProperties
  <2>7. fifo' \in Seq(Byte) /\ Len(fifo') <= FIFO
    <3>a. PICK b \in Byte : b = Head(answer)
      BY <2>6
    <3>b. <<b>> \in Seq(Byte)
      OBVIOUS
    <3>1. PICK s \in Seq(Byte) : s = <<Head(answer)>>
      BY <3>a, <3>b
    <3>2. Len(s) \in Nat
      BY LenProperties
    <3>3. Pushed(s) \in Seq(Byte) /\ Len(Pushed(s)) = Least(FIFO, Len(fifo) + Len(s))
      BY <1>0, <1>a, PushedType
    <3>4. Least(FIFO, Len(fifo) + Len(s)) <= FIFO
      BY <1>0, <1>a, <3>2 DEF Least
    <3> QED BY <1>a, <2>1, <3>1, <3>3, <3>4
  <2>8. ChipOK' /\ GhostOK'
    BY <1>0, <2>1, <2>4, <2>5, <2>6, <2>7 DEF ChipOK, GhostOK
  <2> QED BY <1>c, <2>8, PrimedTypesAre
<1>6. CASE ChipRxEnd
  <2>1. /\ modem' = "idle" /\ cmd' = "IDLE" /\ irq' = irq \cup {"RX", "IDLE"}
        /\ UNCHANGED <<fifo, err, timer, card, past, faults>>
    BY <1>6 DEF ChipRxEnd
  <2>2. ChipOK' /\ GhostOK'
    BY <1>0, <2>1 DEF ChipOK, GhostOK, card
  <2> QED BY <1>c, <2>2, PrimedTypesAre
<1>7. CASE ChipLoadsKey
  <2>1. /\ cmd' = "IDLE" /\ irq' = irq \cup {"IDLE"} /\ fifo' = <<>>
        /\ err' \in {err, err \cup {"KEY"}} /\ UNCHANGED <<modem, timer, card, past, faults>>
    BY <1>7 DEF ChipLoadsKey
  <2>2. fifo' \in Seq(Byte) /\ Len(fifo') <= FIFO
    BY <1>0, <2>1
  <2>3. err' \subseteq Flags
    BY <1>0, <2>1 DEF ChipOK, Flags
  <2>4. ChipOK' /\ GhostOK'
    BY <1>0, <2>1, <2>2, <2>3 DEF ChipOK, GhostOK, card
  <2> QED BY <1>c, <2>4, PrimedTypesAre
<1> QED BY <1>1, <1>2, <1>3, <1>4, <1>5, <1>6, <1>7 DEF Chip

(* The variables have their types at first. *)
LEMMA TypeInit == Init => TypeOK
<1> SUFFICES ASSUME Init PROVE TypeOK
  OBVIOUS
<1>1. <<>> \in Seq(Byte) /\ Len(<<>>) = 0 /\ FIFO \in Nat /\ FIFO >= 1
  BY SizeAssumption
<1>2. HostOK
  BY <1>1 DEF Init, HostOK, PCs, CallType, NoCall, LoadType, NoLoad, OutType, Rets
<1>3. ChipOK
  BY <1>1 DEF Init, ChipOK, TimerType, NoFrame
<1>4. GhostOK
  BY DEF Init, GhostOK, PastType, NoPast
<1> QED BY <1>2, <1>3, <1>4, TypesAre

(* Each step keeps the types. *)
LEMMA TypeStep == TypeOK /\ [Next]_vars => TypeOK'
<1> SUFFICES ASSUME TypeOK, [Next]_vars PROVE TypeOK'
  OBVIOUS
<1>1. CASE Chip
  BY <1>1, ChipTypes
<1>2. CASE \E kind \in Kinds \ {"auth"} : \E a \in Arguments(kind) : Enter(kind, a[1], a[2])
  <2>1. PICK kind \in Kinds \ {"auth"} : \E a \in Arguments(kind) : Enter(kind, a[1], a[2])
    BY <1>2
  <2>2. PICK a \in Arguments(kind) : Enter(kind, a[1], a[2])
    BY <2>1
  <2> QED BY <2>2, EnterTypes
<1>3. CASE \E kind \in Kinds \cap {"auth"} : \E a \in Arguments(kind) : EnterAuth(kind, a[1], a[2])
  <2>1. PICK kind \in Kinds \cap {"auth"} : \E a \in Arguments(kind) : EnterAuth(kind, a[1], a[2])
    BY <1>3
  <2>2. PICK a \in Arguments(kind) : EnterAuth(kind, a[1], a[2])
    BY <2>1
  <2> QED BY <2>2, EnterTypes
<1>4. CASE Access
  BY <1>4, WriteTypes, LookTypes DEF Access
<1>5. CASE AccessFails
  BY <1>5, LookTypes
<1>6. CASE UNCHANGED vars
  <2>1. HostOK /\ ChipOK /\ GhostOK
    BY TypesAre
  <2>2. HostOK' /\ ChipOK' /\ GhostOK'
    BY <1>6, <2>1, HostUnchanged, ChipUnchanged DEF vars, GhostOK
  <2> QED BY <2>2, PrimedTypesAre
<1> QED BY <1>1, <1>2, <1>3, <1>4, <1>5, <1>6 DEF Next, Host

(* Type correctness, for every FIFO size, every set of lengths, kinds and  *)
(* time limits, and any number of failing accesses: the FIFO never holds   *)
(* more than its size, and rc632_fifo_write is never asked for more bytes  *)
(* than that.                                                              *)
THEOREM TypeCorrect == Spec => []TypeOK
<1> QED BY TypeInit, TypeStep, PTL DEF Spec

---------------------------------------------------------------------------
(* The host's steps.  An exchange sets the chip up (Early), waits for the  *)
(* command to end (Waiting) and reads what came of it (Done).              *)

Early == {"idle", "clear", "control", "reload", "fill", "start", "more"}
Waiting == {"status", "errflag", "irqrq", "cleartimer", "command"}
Done == {"clearrx", "length", "read", "collision", "keyerr", "bitframe", "crypto"}
Trans == call.kind \in Transceives

(* Where each kind of exchange can be: the first filling comes before      *)
(* COMMAND and sends at least a byte, and the caller's buffer has room.    *)
KeySteps ==
    call.kind = "key" =>
        pc \notin {"more", "clear", "length", "read", "collision", "bitframe", "crypto"}
        /\ sent = 0 /\ ~call.second
AuthSteps ==
    call.kind = "auth" =>
        pc \notin {"idle", "clear", "more", "length", "read", "collision", "keyerr"} /\ sent = 0
TransSteps ==
    Trans => /\ pc \notin {"keyerr", "bitframe", "crypto"} /\ ~call.second
             /\ pc \in {"idle", "clear", "control", "reload", "start"} => sent = 0
             /\ pc \in Early => cur >= 1
             /\ pc \in Waiting \cup Done => sent >= 1
             /\ pc # "ready" => call.room >= 1
Steps == KeySteps /\ AuthSteps /\ TransSteps

(* No call has been made at first. *)
LEMMA StepsInit == Init => Steps
  BY DEF Init, Steps, KeySteps, AuthSteps, TransSteps, Trans, Transceives, NoCall, Early, Waiting,
         Done

(* A call begins. *)
LEMMA StepsEnter ==
    ASSUME TypeOK, NEW kind \in Kinds, NEW a \in Arguments(kind),
           kind = "auth" => EnterAuth(kind, a[1], a[2]),
           kind # "auth" => Enter(kind, a[1], a[2])
    PROVE  Steps'
<1>0. kind \in Five /\ FIFO \in Nat /\ FIFO >= 1
  BY KindsAssumption, SizeAssumption DEF Five
<1>1. a[1] \in Nat /\ a[1] >= 1 /\ a[2] \in Nat /\ a[2] >= 1
  BY <1>0, ArgumentsAre
<1>2. Enters(kind, a[1], a[2])
  BY DEF Enter, EnterAuth
<1>3. call'.kind = kind /\ call'.room = a[2] /\ call'.second = FALSE /\ sent' = 0
  BY <1>2 DEF Enters
<1>4. kind = "auth" => pc' = "fill"
  BY DEF EnterAuth
<1>5. kind # "auth" => pc' = "idle" /\ cur' >= 1
  <2> SUFFICES ASSUME kind # "auth" PROVE pc' = "idle" /\ cur' >= 1
    OBVIOUS
  <2>1. PICK len \in Nat : len = a[1]
    BY <1>1
  <2>2. pc' = "idle" /\ cur' = Least(len, FIFO)
    BY <2>1 DEF Enter
  <2>3. Least(len, FIFO) >= 1
    BY <1>0, <1>1, <2>1 DEF Least
  <2> QED BY <2>2, <2>3
<1> QED BY <1>0, <1>1, <1>3, <1>4, <1>5 DEF Steps, KeySteps, AuthSteps, TransSteps, Trans,
      Transceives, Early, Waiting, Done, Five

(* Each access and each step of the chip keeps the order of the steps. *)
LEMMA StepsAccess ==
    ASSUME TypeOK, Steps, Access \/ AccessFails \/ Chip \/ UNCHANGED vars
    PROVE  Steps'
<1> USE DEF Steps, KeySteps, AuthSteps, TransSteps, Trans, Early, Waiting, Done
<1>0. /\ call.kind \in Five /\ FIFO \in Nat /\ FIFO >= 1 /\ cur \in 0..FIFO /\ sent \in Nat
      /\ call \in CallType /\ call.room \in Nat
  BY TypesAre, KindIs, SizeAssumption DEF HostOK, CallType
<1>a. Len(fifo) \in Nat /\ Len(fifo) <= FIFO /\ fifo \in Seq(Byte)
  BY LenProperties DEF TypeOK
<1>b. call.kind = "key" \/ call.kind = "auth" \/ Trans
  BY <1>0 DEF Five, Transceives
<1>c. Trans => call.kind # "key" /\ call.kind # "auth"
  BY DEF Transceives
<1>d. pc' = "ready" /\ UNCHANGED <<call, sent>> => Steps'
  BY <1>c
<1>1. CASE CommandIdle
  BY <1>1, <1>b, <1>c DEF CommandIdle, Checks, Drops, Return
<1>2. CASE ClearInterrupts
  BY <1>2, <1>b, <1>c DEF ClearInterrupts, Drops
<1>3. CASE TimerControl \/ TimerControlLost
  <2>1. TimerSet /\ pc = "control" /\ pc' = "reload" /\ UNCHANGED <<sent, cur>>
    BY <1>3 DEF TimerControl, TimerControlLost, Drops
  <2>2. PICK t \in Limits(call.kind) : call' = [call EXCEPT !.timeout = t]
    BY <2>1 DEF TimerSet
  <2>3. call'.kind = call.kind /\ call'.second = call.second /\ call'.room = call.room
    BY <1>0, <2>2 DEF CallType
  <2> QED BY <1>b, <1>c, <2>1, <2>3
<1>4. CASE TimerReload
  <2>1. call'.kind = call.kind /\ call'.second = call.second /\ call'.room = call.room
    BY <1>0, <1>4 DEF TimerReload, CallType
  <2>2. pc = "reload" /\ pc' \in {AfterTimer, "ready"} /\ UNCHANGED <<sent, cur>>
    BY <1>4 DEF TimerReload, Return
  <2>3. CASE Trans
    BY <1>c, <2>1, <2>2, <2>3, AfterTimerIs
  <2>4. CASE call.kind = "key"
    BY <1>c, <2>1, <2>2, <2>4, AfterTimerIs
  <2>5. CASE call.kind = "auth"
    BY <1>c, <2>1, <2>2, <2>5, AfterTimerIs
  <2> QED BY <1>b, <2>3, <2>4, <2>5
<1>5. CASE FifoWrite
  BY <1>5, <1>0, <1>b, <1>c DEF FifoWrite, Checks, Return
<1>6. CASE StartCommand
  <2>1. pc = "start" /\ UNCHANGED <<call, sent, cur>>
    BY <1>6, StartIs
  <2>2. /\ Trans => pc' \in {"more", "ready"}
        /\ call.kind # "key" \/ pc' \in {"control", "ready"}
        /\ call.kind # "auth" \/ pc' \in {"control", "status", "ready"}
    BY <1>6, <1>0, <1>c, StartIs DEF StartGoes, Checks, Return, CallType
  <2> QED BY <1>b, <1>c, <2>1, <2>2
<1>7. CASE FillMore
  <2>1. /\ pc = "more" /\ sent' = sent + cur /\ UNCHANGED call
        /\ cur' = (IF sent + cur < call.tx_len THEN FIFO - Len(fifo) ELSE 0)
        /\ pc' = IF cur' = 0 THEN "status" ELSE "fill"
    BY <1>7 DEF FillMore
  <2>2. Trans /\ cur >= 1
    BY <1>b, <2>1
  <2>3. cur' \in Nat /\ sent' >= 1
    BY <1>0, <1>a, <2>1, <2>2
  <2> QED BY <1>c, <2>1, <2>2, <2>3
<1>8. CASE ReadStatus \/ StatusLost
  <2>1. pc = "status" /\ pc' \in {"errflag", "irqrq", "command"} /\ UNCHANGED <<call, sent, cur>>
    BY <1>8 DEF ReadStatus, StatusLost, AfterStatus, AfterError
  <2> QED BY <1>b, <1>c, <2>1
<1>9. CASE ReadErrorFlag \/ ReadInterruptRq
  <2>1. /\ pc \in {"errflag", "irqrq"} /\ pc' \in {"irqrq", "command", "cleartimer", "ready"}
        /\ UNCHANGED <<call, sent, cur>>
    BY <1>9 DEF ReadErrorFlag, ReadInterruptRq, AfterError, Return
  <2> QED BY <1>b, <1>c, <2>1
<1>10. CASE ReadCommand
  <2>1. pc = "command" /\ pc' \in {"clearrx", "status"} /\ UNCHANGED <<call, sent, cur>>
    BY <1>10 DEF ReadCommand
  <2> QED BY <1>b, <1>c, <2>1
<1>18. CASE ClearTimer \/ ClearTimerLost
  BY <1>18, <1>d DEF ClearTimer, ClearTimerLost, Return
<1>19. CASE ClearRx \/ Ignored("clearrx", AfterWait)
  <2>1. pc = "clearrx" /\ pc' = AfterWait /\ UNCHANGED <<call, sent, cur>>
    BY <1>19 DEF ClearRx, Ignored, Drops
  <2> QED BY <1>b, <1>c, <2>1, AfterWaitIs
<1>11. CASE ReadLength
  <2>1. CASE fifo = <<>>
    BY <1>11, <1>d, <2>1 DEF ReadLength, Return
  <2>2. CASE fifo # <<>>
    <3>1. pc = "length" /\ pc' = "read" /\ call' = [call EXCEPT !.room = Least(@, Len(fifo))]
          /\ UNCHANGED <<sent, cur>>
      BY <1>11, <2>2 DEF ReadLength
    <3>2. Trans /\ call.room >= 1 /\ Len(fifo) >= 1
      BY <1>b, <1>a, <2>2, <3>1, EmptySeq
    <3>3. Least(call.room, Len(fifo)) >= 1
      BY <1>0, <1>a, <3>2 DEF Least
    <3>4. call'.kind = call.kind /\ call'.second = call.second /\ call'.room >= 1
      BY <1>0, <3>1, <3>3 DEF CallType
    <3> QED BY <1>c, <3>1, <3>2, <3>4
  <2> QED BY <2>1, <2>2
<1>12. CASE FifoRead
  BY <1>12, <1>b, <1>c DEF FifoRead
<1>13. CASE ReadCollision \/ ReadKeyError \/ ReadControl
  BY <1>13, <1>d DEF ReadCollision, ReadKeyError, ReadControl, Return
<1>14. CASE ReadSecondaryStatus
  <2>1. CASE Return("EIO") /\ UNCHANGED call
    BY <1>14, <1>d, <2>1 DEF ReadSecondaryStatus, Return
  <2>2. CASE pc' = "control" /\ UNCHANGED out /\ call' = [call EXCEPT !.second = TRUE]
    <3>1. pc = "bitframe" /\ UNCHANGED <<sent, cur>> /\ call.kind = "auth"
      BY <1>14, <1>b DEF ReadSecondaryStatus
    <3>2. call'.kind = call.kind
      BY <1>0, <2>2 DEF CallType
    <3> QED BY <1>c, <2>2, <3>1, <3>2
  <2> QED BY <1>14, <2>1, <2>2 DEF ReadSecondaryStatus
<1>15. CASE \E p \in Checked \cup {"idle"} : Aborts(p)
  BY <1>15, <1>d DEF Aborts, Return
<1>16. CASE (call.kind # "key" /\ Ignored("idle", "clear")) \/ Ignored("clear", "control")
  BY <1>16, <1>b, <1>c DEF Ignored
<1>17. CASE Chip \/ UNCHANGED vars
  <2>1. UNCHANGED host
    BY <1>17 DEF Chip, ChipTransmits, ChipTxEnd, TimerExpires, ChipRxBegin, ChipReceives,
         ChipRxEnd, ChipLoadsKey, vars
  <2> QED BY <2>1 DEF host
<1> QED BY <1>1, <1>2, <1>3, <1>4, <1>5, <1>6, <1>7, <1>8, <1>9, <1>10, <1>11, <1>12, <1>13,
      <1>14, <1>15, <1>16, <1>17, <1>18, <1>19 DEF Access, AccessFails

(* What COMMAND says: no modem runs without a command that uses it, the    *)
(* wait ends with the command, and an exchange that succeeds leaves none   *)
(* behind, so that rc632_mifare_auth may start without stopping one.       *)
CommandSteps ==
    /\ pc \in Done => cmd = "IDLE"
    /\ call.kind = "key" /\ pc \in {"fill", "start"} => cmd = "IDLE"
    /\ call.kind = "key" /\ pc \in Waiting \cup {"control", "reload"} => cmd \in {"IDLE", "LOAD_KEY"}
    /\ call.kind = "auth" /\ pc \in {"fill", "start"} => cmd = "IDLE"
    /\ call.kind = "auth" /\ call.second /\ pc \in {"control", "reload"} => cmd = "IDLE"
    /\ pc = "ready" /\ out.ret = "ok" => cmd = "IDLE"
ModemSteps ==
    /\ cmd \in {"IDLE", "LOAD_KEY"} => modem = "idle"
    /\ modem \in {"tx", "await"} => err = {}
    /\ timer.start = timer.stop /\ (timer.running => timer.start)
Commands == CommandSteps /\ ModemSteps

(* The chip is idle at first. *)
LEMMA CommandsInit == Init => Commands
  BY DEF Init, Commands, CommandSteps, ModemSteps, Done, Waiting, NoCall

(* A call begins; an authentication meets an idle chip. *)
LEMMA CommandsEnter ==
    ASSUME TypeOK, Commands, NEW kind \in Kinds, NEW a \in Arguments(kind),
           kind = "auth" => EnterAuth(kind, a[1], a[2]),
           kind # "auth" => Enter(kind, a[1], a[2])
    PROVE  Commands'
<1>1. Enters(kind, a[1], a[2])
  BY DEF Enter, EnterAuth
<1>2. pc = "ready" /\ call'.kind = kind /\ call'.second = FALSE /\ UNCHANGED chip
  BY <1>1 DEF Enters
<1>3. kind = "auth" => pc' = "fill" /\ out.ret = "ok"
  BY DEF EnterAuth
<1>4. kind # "auth" => pc' = "idle"
  BY DEF Enter
<1>5. kind = "auth" => cmd = "IDLE"
  BY <1>2, <1>3 DEF Commands, CommandSteps
<1>6. CommandSteps'
  BY <1>2, <1>3, <1>4, <1>5 DEF CommandSteps, Done, Waiting, chip
<1>7. ModemSteps'
  BY <1>2 DEF Commands, ModemSteps, chip
<1> QED BY <1>6, <1>7 DEF Commands

(* Each access and each step of the chip keeps COMMAND in line with the    *)
(* steps.                                                                  *)
LEMMA CommandsAccess ==
    ASSUME TypeOK, Steps, Commands, Access \/ AccessFails \/ Chip \/ UNCHANGED vars
    PROVE  Commands'
<1>0. /\ call.kind \in Five /\ call \in CallType /\ out \in OutType /\ timer \in TimerType
      /\ call.second \in BOOLEAN
  BY TypesAre, KindIs DEF HostOK, ChipOK, CallType
<1>b. call.kind = "key" \/ call.kind = "auth" \/ Trans
  BY <1>0 DEF Five, Trans, Transceives
<1>c. Trans => call.kind # "key" /\ call.kind # "auth"
  BY DEF Trans, Transceives
<1>k. KeySteps /\ AuthSteps /\ TransSteps /\ CommandSteps /\ ModemSteps
  BY DEF Steps, Commands
<1>d. \A r \in Rets \ {"ok"} : Return(r) => CommandSteps'
  BY <1>0 DEF CommandSteps, Done, Waiting, Return, OutType
<1>e. UNCHANGED <<cmd, modem, err, timer>> => ModemSteps'
  BY <1>k DEF ModemSteps
<1>f. {"fault", "EIO", "ETIMEDOUT", "EINVAL", "EACCES", "short"} \subseteq Rets \ {"ok"}
  BY DEF Rets
<1>1. CASE CommandIdle
  <2>1. cmd' = "IDLE" /\ modem' = "idle" /\ UNCHANGED timer
    BY <1>1 DEF CommandIdle, StopModem
  <2> QED BY <1>k, <2>1 DEF Commands, CommandSteps, ModemSteps
<1>2. CASE ClearInterrupts
  <2>1. pc = "clear" /\ pc' = "control" /\ UNCHANGED <<call, cmd, modem, err, timer>>
    BY <1>2 DEF ClearInterrupts, Drops
  <2> QED BY <1>b, <1>c, <1>e, <1>k, <2>1 DEF Commands, CommandSteps, KeySteps, AuthSteps, Done, Waiting
<1>3. CASE TimerControl \/ TimerControlLost
  <2>1. /\ TimerSet /\ pc = "control" /\ pc' = "reload" /\ UNCHANGED <<cmd, modem, err>>
        /\ timer' = timer \/ timer' = [timer EXCEPT !.start = TRUE, !.stop = TRUE]
    BY <1>3 DEF TimerControl, TimerControlLost, Drops, chip
  <2>2. PICK t \in Limits(call.kind) : call' = [call EXCEPT !.timeout = t]
    BY <2>1 DEF TimerSet
  <2>3. call'.kind = call.kind /\ call'.second = call.second
    BY <1>0, <2>2 DEF CallType
  <2>4. CommandSteps'
    BY <1>k, <2>1, <2>3 DEF CommandSteps, Done, Waiting
  <2>5. timer'.start = timer'.stop /\ (timer'.running => timer'.start)
    BY <1>0, <1>k, <2>1 DEF ModemSteps, TimerType
  <2> QED BY <1>k, <2>1, <2>4, <2>5 DEF Commands, ModemSteps
<1>4. CASE TimerReload
  <2>1. call'.kind = call.kind /\ call'.second = call.second
    BY <1>0, <1>4 DEF TimerReload, CallType
  <2>2. pc = "reload" /\ (pc' = AfterTimer \/ Return("fault")) /\ UNCHANGED <<cmd, modem, err, timer>>
    BY <1>4 DEF TimerReload
  <2>3. CommandSteps'
    <3>1. CASE Return("fault")
      BY <1>d, <1>f, <3>1
    <3>2. CASE pc' = AfterTimer
      BY <1>b, <1>c, <1>k, <2>1, <2>2, <3>2, AfterTimerIs DEF CommandSteps, Done, Waiting, Trans
    <3> QED BY <2>2, <3>1, <3>2
  <2> QED BY <1>e, <2>2, <2>3 DEF Commands
<1>5. CASE FifoWrite
  <2>1. /\ pc = "fill" /\ UNCHANGED <<call, cmd, modem, err, timer>>
        /\ Return("fault") \/ pc' = IF sent = 0 THEN "start" ELSE "more"
    BY <1>5 DEF FifoWrite, Checks
  <2>2. CommandSteps'
    <3>1. CASE Return("fault")
      BY <1>d, <1>f, <3>1
    <3>2. CASE pc' = IF sent = 0 THEN "start" ELSE "more"
      BY <1>k, <2>1, <3>2 DEF CommandSteps, Done, Waiting
    <3> QED BY <2>1, <3>1, <3>2
  <2> QED BY <1>e, <2>1, <2>2 DEF Commands
<1>6. CASE StartCommand
  <2>1. pc = "start" /\ UNCHANGED <<call, timer>> /\ err' = {}
    BY <1>6, StartIs
  <2>2. CASE call.kind = "key"
    <3>1. /\ cmd = "IDLE" /\ cmd' = "LOAD_KEY" /\ modem' = modem
          /\ pc' = "control" \/ Return("fault")
      BY <1>6, <1>k, <2>1, <2>2, StartIs DEF StartGoes, Checks, KeySteps, CommandSteps
    <3>2. CommandSteps'
      BY <1>d, <1>f, <2>1, <2>2, <3>1 DEF CommandSteps, Done, Waiting
    <3>3. ModemSteps'
      BY <1>k, <2>1, <3>1 DEF ModemSteps
    <3> QED BY <3>2, <3>3 DEF Commands
  <2>3. CASE call.kind # "key"
    <3>1. /\ cmd' \in {"TRANSCEIVE", "AUTHENT1", "AUTHENT2"} /\ modem' = "tx"
          /\ pc' \in {"more", "status"} \/ (pc' = "control" /\ ~call.second) \/ Return("fault")
      BY <1>6, <1>b, <1>k, <1>0, <2>1, <2>3, StartIs DEF StartGoes, Checks, TransSteps, Trans
    <3>2. CommandSteps'
      BY <1>d, <1>f, <2>1, <2>3, <3>1 DEF CommandSteps, Done, Waiting
    <3>3. ModemSteps'
      BY <1>k, <2>1, <3>1 DEF ModemSteps
    <3> QED BY <3>2, <3>3 DEF Commands
  <2> QED BY <2>2, <2>3
<1>7. CASE FillMore
  <2>1. pc = "more" /\ pc' \in {"status", "fill"} /\ UNCHANGED <<call, cmd, modem, err, timer>>
    BY <1>7 DEF FillMore, chip
  <2> QED BY <1>b, <1>c, <1>e, <1>k, <2>1 DEF Commands, CommandSteps, KeySteps, AuthSteps, Done, Waiting
<1>8. CASE ReadStatus \/ StatusLost
  <2>1. /\ pc = "status" /\ pc' \in {"errflag", "irqrq", "command"}
        /\ UNCHANGED <<call, cmd, modem, err, timer>>
    BY <1>8 DEF ReadStatus, StatusLost, AfterStatus, AfterError, chip
  <2> QED BY <1>e, <1>k, <2>1 DEF Commands, CommandSteps, Done, Waiting
<1>9. CASE ReadErrorFlag \/ ReadInterruptRq
  <2>1. /\ pc \in {"errflag", "irqrq"}
        /\ pc' \in {"irqrq", "command", "cleartimer"} \/ Return("EIO")
        /\ UNCHANGED <<call, cmd, modem, err, timer>>
    BY <1>9 DEF ReadErrorFlag, ReadInterruptRq, AfterError, chip
  <2>2. CommandSteps'
    <3>1. CASE Return("EIO")
      BY <1>d, <1>f, <3>1
    <3>2. CASE pc' \in {"irqrq", "command", "cleartimer"}
      BY <1>k, <2>1, <3>2 DEF CommandSteps, Done, Waiting
    <3> QED BY <2>1, <3>1, <3>2
  <2> QED BY <1>e, <2>1, <2>2 DEF Commands
<1>10. CASE ReadCommand
  <2>1. /\ pc = "command" /\ UNCHANGED <<call, cmd, modem, err, timer>>
        /\ \/ cmd = "IDLE" /\ pc' = "clearrx"
           \/ pc' = "status"
    BY <1>10 DEF ReadCommand, chip
  <2>2. CommandSteps'
    BY <1>k, <2>1 DEF CommandSteps, Done, Waiting
  <2> QED BY <1>e, <2>1, <2>2 DEF Commands
<1>19. CASE ClearTimer \/ ClearTimerLost
  <2>1. Return("ETIMEDOUT") /\ UNCHANGED <<cmd, modem, err, timer>>
    BY <1>19 DEF ClearTimer, ClearTimerLost, chip
  <2> QED BY <1>d, <1>e, <1>f, <2>1 DEF Commands
<1>20. CASE ClearRx \/ Ignored("clearrx", AfterWait)
  <2>1. pc = "clearrx" /\ UNCHANGED <<cmd, modem, err, timer>>
    BY <1>20 DEF ClearRx, Ignored, chip
  <2>2. cmd = "IDLE"
    BY <1>k, <2>1 DEF CommandSteps, Done
  <2> QED BY <1>e, <2>1, <2>2 DEF Commands, CommandSteps
<1>11. CASE ReadLength
  <2>1. /\ pc = "length" /\ UNCHANGED <<cmd, modem, err, timer>>
        /\ pc' = "read" \/ Return("EIO")
    BY <1>11 DEF ReadLength, chip
  <2>2. cmd = "IDLE"
    BY <1>k, <2>1 DEF CommandSteps, Done
  <2> QED BY <1>e, <2>1, <2>2 DEF Commands, CommandSteps
<1>12. CASE FifoRead \/ ReadCollision \/ ReadKeyError \/ ReadControl
  <2>1. /\ pc \in {"read", "collision", "keyerr", "crypto"} /\ UNCHANGED <<cmd, modem, err, timer>>
    BY <1>12 DEF FifoRead, ReadCollision, ReadKeyError, ReadControl, chip
  <2>2. cmd = "IDLE"
    BY <1>k, <2>1 DEF CommandSteps, Done
  <2> QED BY <1>e, <2>1, <2>2 DEF Commands, CommandSteps
<1>14. CASE ReadSecondaryStatus
  <2>1. pc = "bitframe" /\ UNCHANGED <<cmd, modem, err, timer>>
    BY <1>14 DEF ReadSecondaryStatus, chip
  <2>2. cmd = "IDLE"
    BY <1>k, <2>1 DEF CommandSteps, Done
  <2> QED BY <1>e, <2>1, <2>2 DEF Commands, CommandSteps
<1>15. CASE \E p \in Checked \cup {"idle"} : Aborts(p)
  <2>1. Return("fault") /\ UNCHANGED chip
    BY <1>15 DEF Aborts
  <2> QED BY <1>d, <1>e, <1>f, <2>1 DEF chip, Commands
<1>16. CASE (call.kind # "key" /\ Ignored("idle", "clear")) \/ Ignored("clear", "control")
  <2>1. /\ pc \in {"idle", "clear"} /\ pc' \in {"clear", "control"} /\ UNCHANGED <<call, chip>>
        /\ pc = "idle" => call.kind # "key"
    BY <1>16 DEF Ignored
  <2>2. Trans
    BY <1>b, <1>k, <2>1 DEF KeySteps, AuthSteps
  <2> QED BY <1>c, <1>e, <2>1, <2>2 DEF Commands, CommandSteps, chip, Done, Waiting
<1>17. CASE UNCHANGED vars
  BY <1>k, <1>17 DEF vars, host, chip, Commands, CommandSteps, ModemSteps
<1>18. CASE Chip
  <2>1. UNCHANGED host
    BY <1>18 DEF Chip, ChipTransmits, ChipTxEnd, TimerExpires, ChipRxBegin, ChipReceives,
         ChipRxEnd, ChipLoadsKey
  <2>2. cmd' = cmd \/ cmd' = "IDLE"
    BY <1>18 DEF Chip, ChipTransmits, ChipTxEnd, TimerExpires, ChipRxBegin, ChipReceives,
         ChipRxEnd, ChipLoadsKey
  <2>3. CommandSteps'
    BY <1>k, <2>1, <2>2 DEF CommandSteps, host
  <2>4. ModemSteps'
    <3>1. CASE ChipTransmits
      BY <1>k, <3>1 DEF ModemSteps, ChipTransmits
    <3>2. CASE ChipTxEnd
      BY <1>0, <1>k, <3>2 DEF ModemSteps, ChipTxEnd, TimerType
    <3>3. CASE TimerExpires
      BY <1>0, <1>k, <3>3 DEF ModemSteps, TimerExpires, TimerType
    <3>4. CASE ChipRxBegin
      BY <1>0, <1>k, <3>4 DEF ModemSteps, ChipRxBegin, TimerType
    <3>5. CASE ChipReceives
      BY <1>k, <3>5 DEF ModemSteps, ChipReceives
    <3>6. CASE ChipRxEnd
      BY <1>k, <3>6 DEF ModemSteps, ChipRxEnd
    <3>7. CASE ChipLoadsKey
      BY <1>k, <3>7 DEF ModemSteps, ChipLoadsKey
    <3> QED BY <1>18, <3>1, <3>2, <3>3, <3>4, <3>5, <3>6, <3>7 DEF Chip
  <2> QED BY <2>3, <2>4 DEF Commands
<1> QED BY <1>1, <1>2, <1>3, <1>4, <1>5, <1>6, <1>7, <1>8, <1>9, <1>10, <1>11, <1>12,
      <1>14, <1>15, <1>16, <1>17, <1>18, <1>19, <1>20 DEF Access, AccessFails

---------------------------------------------------------------------------
(* The timer, as long as every access works.                               *)

BeforeStart == pc \in {"clear", "control", "reload", "start"} \/ (pc = "fill" /\ sent = 0)

(* It runs only while the chip waits for an answer, and is not running,    *)
(* nor about to, when an exchange begins. *)
RunningSteps ==
    /\ timer.running => modem = "await" /\ "TIMER" \notin irq
    /\ modem = "tx" => "TIMER" \notin irq
    /\ pc \in {"ready", "idle"} => ~timer.running /\ modem # "tx"
    /\ Trans /\ BeforeStart => cmd = "IDLE"
(* Its request is cleared before a command is started, so that a request   *)
(* the host sees later is one of this exchange.                            *)
RequestSteps ==
    /\ Trans /\ BeforeStart /\ pc # "clear" => "TIMER" \notin irq
    /\ call.kind = "auth" /\ pc \in {"fill", "start"} => "TIMER" \notin irq
    /\ call.kind = "key" /\ pc \in Waiting \cup {"clearrx", "keyerr"} => "TIMER" \notin irq
    /\ call.kind = "key" /\ pc = "ready" /\ out.ret = "ok" => "TIMER" \notin irq
    /\ call.kind # "key" /\ pc \notin {"ready", "idle", "clear"} /\ "TIMER" \in irq => past.expired
    /\ pc = "cleartimer" => "TIMER" \in irq
    /\ pc = "ready" /\ out.ret = "ETIMEDOUT" => past.expired
    /\ pc # "ready" => out.ret = "ok"
Timers == faults = 0 => RunningSteps /\ RequestSteps

(* No timer is running at first. *)
LEMMA TimersInit == Init => Timers
  BY DEF Init, Timers, RunningSteps, RequestSteps, BeforeStart, Trans, Transceives, NoCall, Waiting

(* A call begins; no timer is running. *)
LEMMA TimersEnter ==
    ASSUME TypeOK, Commands, Timers, NEW kind \in Kinds, NEW a \in Arguments(kind),
           kind = "auth" => EnterAuth(kind, a[1], a[2]),
           kind # "auth" => Enter(kind, a[1], a[2])
    PROVE  Timers'
<1> SUFFICES ASSUME faults' = 0 PROVE RunningSteps' /\ RequestSteps'
  BY DEF Timers
<1>1. Enters(kind, a[1], a[2])
  BY DEF Enter, EnterAuth
<1>2. pc = "ready" /\ call'.kind = kind /\ out'.ret = "ok" /\ UNCHANGED <<chip, faults>>
  BY <1>1 DEF Enters
<1>3. kind = "auth" => pc' = "fill" /\ call.kind = "key" /\ out.ret = "ok"
  BY DEF EnterAuth
<1>4. kind # "auth" => pc' = "idle"
  BY DEF Enter
<1>5. RunningSteps /\ RequestSteps
  BY <1>2 DEF Timers
<1>6. kind = "auth" => "TIMER" \notin irq /\ cmd = "IDLE"
  BY <1>2, <1>3, <1>5 DEF RequestSteps, Commands, CommandSteps
<1>7. UNCHANGED <<cmd, modem, irq, timer>>
  BY <1>2 DEF chip
<1>8. RunningSteps'
  BY <1>2, <1>3, <1>4, <1>5, <1>6, <1>7 DEF RunningSteps, BeforeStart, Trans, Transceives
<1>9. RequestSteps'
  BY <1>2, <1>3, <1>4, <1>6, <1>7 DEF RequestSteps, BeforeStart, Trans, Transceives, Waiting
<1> QED BY <1>8, <1>9

(* Each access that works keeps the timer in line with the steps. *)
LEMMA TimersAccess ==
    ASSUME TypeOK, Steps, Commands, Timers, Access
    PROVE  Timers'
<1> SUFFICES ASSUME faults' = 0 PROVE RunningSteps' /\ RequestSteps'
  BY DEF Timers
<1>0. /\ call.kind \in Five /\ call \in CallType /\ out \in OutType /\ timer \in TimerType
      /\ call.second \in BOOLEAN /\ faults \in Nat /\ past \in PastType
  BY TypesAre, KindIs DEF HostOK, ChipOK, CallType, GhostOK
<1>a. ~Fails
  BY <1>0 DEF Fails
<1>b. call.kind = "key" \/ call.kind = "auth" \/ Trans
  BY <1>0 DEF Five, Trans, Transceives
<1>c. Trans => call.kind # "key" /\ call.kind # "auth"
  BY DEF Trans, Transceives
<1>f. faults = 0
  BY <1>a DEF Access, CommandIdle, ClearInterrupts, TimerControl, TimerReload, FifoWrite,
       StartCommand, FillMore, ReadStatus, ReadErrorFlag, ReadInterruptRq, ClearTimer, ReadCommand, ClearRx,
       ReadLength, FifoRead, ReadCollision, ReadKeyError, ReadSecondaryStatus, ReadControl, Checks, Drops, Works
<1>k. KeySteps /\ AuthSteps /\ TransSteps /\ CommandSteps /\ ModemSteps /\ RunningSteps /\ RequestSteps
  BY <1>f DEF Steps, Commands, Timers
<1>m. cmd \in {"IDLE", "LOAD_KEY"} => modem = "idle" /\ ~timer.running
  BY <1>k DEF ModemSteps, RunningSteps
<1>n. pc' = "ready" /\ UNCHANGED <<modem, irq, timer, call, past>> /\ ~timer.running /\ modem # "tx"
         => RunningSteps'
  BY <1>k DEF RunningSteps, BeforeStart
<1>1. CASE CommandIdle
  <2>1. /\ pc = "idle" /\ pc' \in {"fill", "clear"} /\ cmd' = "IDLE" /\ modem' = "idle"
        /\ call.kind = "key" => pc' = "fill"
        /\ call.kind # "key" => pc' = "clear"
        /\ UNCHANGED <<call, sent, irq, timer, past, out>>
    BY <1>1, <1>a DEF CommandIdle, StopModem, Checks, Drops, Works
  <2> QED BY <1>b, <1>c, <1>k, <2>1 DEF RunningSteps, RequestSteps, AuthSteps, Waiting, Trans
<1>2. CASE ClearInterrupts
  <2>1. pc = "clear" /\ pc' = "control" /\ irq' = {} /\ UNCHANGED <<call, sent, cmd, modem, timer, out>>
    BY <1>2 DEF ClearInterrupts, Drops
  <2> QED BY <1>b, <1>c, <1>k, <2>1 DEF RunningSteps, RequestSteps, AuthSteps, KeySteps, Waiting, Trans,
             BeforeStart
<1>3. CASE TimerControl
  <2>1. /\ TimerSet /\ pc = "control" /\ pc' = "reload" /\ UNCHANGED <<sent, cmd, modem, irq, past, out>>
        /\ timer' = [timer EXCEPT !.start = TRUE, !.stop = TRUE]
    BY <1>3, <1>a DEF TimerControl, Drops, Works
  <2>2. PICK t \in Limits(call.kind) : call' = [call EXCEPT !.timeout = t]
    BY <2>1 DEF TimerSet
  <2>3. call'.kind = call.kind /\ timer'.running = timer.running
    BY <1>0, <2>1, <2>2 DEF CallType, TimerType
  <2> QED BY <1>k, <2>1, <2>3 DEF RunningSteps, RequestSteps, Waiting, Trans, BeforeStart
<1>4. CASE TimerReload
  <2>1. call'.kind = call.kind /\ past'.expired = past.expired
    BY <1>0, <1>4, <1>a DEF TimerReload, CallType, PastType
  <2>2. /\ pc = "reload" /\ pc' = AfterTimer /\ irq' = irq \ {"TIMER"}
        /\ UNCHANGED <<sent, cmd, modem, timer, out>>
    BY <1>4, <1>a DEF TimerReload
  <2>3. pc' \in {"fill", "status", "start"} /\ (Trans => pc' = "fill")
    BY <1>b, <2>2, AfterTimerIs, Zenon DEF Trans
  <2> QED BY <1>k, <2>1, <2>2, <2>3 DEF RunningSteps, RequestSteps, Trans, BeforeStart
<1>5. CASE FifoWrite
  <2>1. /\ pc = "fill" /\ UNCHANGED <<call, sent, cmd, modem, irq, timer, past, out>>
        /\ pc' = IF sent = 0 THEN "start" ELSE "more"
    BY <1>5, <1>a DEF FifoWrite, Checks, Works
  <2> QED BY <1>k, <2>1 DEF RunningSteps, RequestSteps, Waiting, Trans, BeforeStart
<1>6. CASE StartCommand
  <2>1. pc = "start" /\ UNCHANGED <<call, sent, irq, timer>>
    BY <1>6, StartIs
  <2>2. /\ UNCHANGED <<past, out>>
        /\ Trans => modem' = "tx" /\ pc' = "more"
        /\ call.kind = "auth" => modem' = "tx" /\ pc' \in {"control", "status"}
        /\ call.kind = "key" => modem' = modem /\ pc' = "control"
    <3>1. CASE Trans
      <4>1. StartGoes("TRANSCEIVE", "more")
        BY <1>6, <1>k, <3>1, StartIs DEF Trans, TransSteps
      <4> QED BY <1>a, <1>c, <3>1, <4>1 DEF StartGoes, Checks, Works
    <3>2. CASE call.kind = "auth"
      <4>1. StartGoes("AUTHENT1", "control") \/ StartGoes("AUTHENT2", "status")
        BY <1>6, <3>2, StartIs
      <4> QED BY <1>a, <1>c, <3>2, <4>1 DEF StartGoes, Checks, Works
    <3>3. CASE call.kind = "key"
      <4>1. StartGoes("LOAD_KEY", "control")
        BY <1>6, <1>k, <3>3, StartIs DEF KeySteps
      <4> QED BY <1>a, <1>c, <3>3, <4>1 DEF StartGoes, Checks, Works
    <3> QED BY <1>b, <3>1, <3>2, <3>3
  <2>3. cmd = "IDLE" /\ ~timer.running
    BY <1>b, <1>k, <1>m, <2>1 DEF RunningSteps, CommandSteps, BeforeStart
  <2>4. call.kind # "key" => "TIMER" \notin irq
    BY <1>b, <1>k, <2>1 DEF RequestSteps, BeforeStart
  <2>5. RunningSteps'
    BY <1>b, <1>c, <1>k, <2>1, <2>2, <2>3, <2>4 DEF RunningSteps, Trans, BeforeStart
  <2>6. RequestSteps'
    BY <1>b, <1>c, <1>k, <2>1, <2>2, <2>4 DEF RequestSteps, Waiting, Trans, BeforeStart
  <2> QED BY <2>5, <2>6
<1>7. CASE FillMore
  <2>1. /\ pc = "more" /\ pc' \in {"status", "fill"} /\ sent' = sent + cur
        /\ UNCHANGED <<call, cmd, modem, irq, timer, past, out>>
    BY <1>7 DEF FillMore, chip, Works
  <2>2. Trans /\ sent' # 0
    <3>1. Trans /\ cur >= 1
      BY <1>b, <1>k, <2>1 DEF KeySteps, AuthSteps, TransSteps, Early
    <3> QED BY <2>1, <3>1 DEF TypeOK
  <2> QED BY <1>c, <1>k, <2>1, <2>2 DEF RunningSteps, RequestSteps, Waiting, Trans, BeforeStart
<1>8. CASE ReadStatus
  <2>1. /\ pc = "status" /\ pc' \in {"errflag", "irqrq", "command"}
        /\ UNCHANGED <<call, cmd, modem, irq, timer, past, out>>
    BY <1>8 DEF ReadStatus, AfterStatus, AfterError, chip, Works
  <2> QED BY <1>k, <2>1 DEF RunningSteps, RequestSteps, Waiting, Trans, BeforeStart
<1>9. CASE ReadErrorFlag
  <2>1. pc = "errflag" /\ UNCHANGED <<call, cmd, modem, irq, timer, err, past>>
    BY <1>9 DEF ReadErrorFlag, chip, Works
  <2>2. CASE err \cap {"COL", "PARITY"} # {}
    <3>1. pc' = "ready" /\ out'.ret = "EIO"
      BY <1>0, <1>9, <2>2 DEF ReadErrorFlag, Return, OutType
    <3>2. modem # "tx" /\ ~timer.running
      BY <1>k, <2>2 DEF ModemSteps, RunningSteps
    <3>3. RunningSteps'
      BY <1>n, <2>1, <3>1, <3>2
    <3> QED BY <3>1, <3>3 DEF RequestSteps, BeforeStart, Waiting
  <2>3. CASE ~(err \cap {"COL", "PARITY"} # {})
    <3>1. pc' \in {"irqrq", "command"} /\ UNCHANGED out
      BY <1>9, <2>3 DEF ReadErrorFlag, AfterError
    <3> QED BY <1>k, <2>1, <3>1 DEF RunningSteps, RequestSteps, Waiting, Trans, BeforeStart
  <2> QED BY <2>2, <2>3
<1>10. CASE ReadInterruptRq
  <2>1. /\ pc = "irqrq" /\ UNCHANGED <<call, cmd, modem, irq, timer, past, out>>
        /\ pc' = "command" \/ (pc' = "cleartimer" /\ "TIMER" \in irq)
    BY <1>10 DEF ReadInterruptRq, Works, chip
  <2> QED BY <1>k, <2>1 DEF RunningSteps, RequestSteps, Waiting, Trans, BeforeStart
<1>16. CASE ClearTimer
  <2>1. /\ pc = "cleartimer" /\ UNCHANGED <<call, cmd, modem, timer, past>>
        /\ pc' = "ready" /\ out'.ret = "ETIMEDOUT" /\ irq' = irq \ {"TIMER"}
    BY <1>0, <1>16, <1>a DEF ClearTimer, Works, Return, OutType
  <2>2. "TIMER" \in irq /\ modem # "tx" /\ ~timer.running
    BY <1>k, <2>1 DEF RunningSteps, RequestSteps
  <2>3. past.expired
    BY <1>k, <2>1, <2>2 DEF RequestSteps, Waiting
  <2>4. RunningSteps'
    BY <1>k, <2>1, <2>2 DEF RunningSteps, BeforeStart
  <2> QED BY <2>1, <2>3, <2>4 DEF RequestSteps, BeforeStart, Waiting
<1>11. CASE ReadCommand
  <2>1. /\ pc = "command" /\ pc' \in {"clearrx", "status"}
        /\ UNCHANGED <<call, cmd, modem, irq, timer, past, out>>
    BY <1>11 DEF ReadCommand, Works, chip
  <2> QED BY <1>k, <2>1 DEF RunningSteps, RequestSteps, Waiting, Trans, BeforeStart
<1>17. CASE ClearRx
  <2>1. /\ pc = "clearrx" /\ pc' = AfterWait /\ irq' = irq \ {"RX"}
        /\ UNCHANGED <<call, cmd, modem, timer, past, out>>
    BY <1>17, <1>a DEF ClearRx, Drops, Works
  <2>2. pc' \in {"length", "keyerr", "bitframe", "crypto"}
    BY <1>b, <2>1, AfterWaitIs DEF Trans
  <2>3. "TIMER" \in irq' <=> "TIMER" \in irq
    BY <2>1
  <2> QED BY <1>k, <2>1, <2>2, <2>3 DEF RunningSteps, RequestSteps, Waiting, Trans, BeforeStart
<1>12. CASE ReadLength
  <2>1. /\ pc = "length" /\ UNCHANGED <<cmd, modem, irq, timer, past>> /\ call'.kind = call.kind
        /\ (pc' = "read" /\ UNCHANGED out) \/ (pc' = "ready" /\ out'.ret = "EIO")
    BY <1>0, <1>12 DEF ReadLength, chip, Works, Return, OutType, CallType
  <2>2. modem = "idle" /\ ~timer.running /\ Trans
    BY <1>b, <1>k, <1>m, <2>1 DEF CommandSteps, Done, KeySteps, AuthSteps
  <2> QED BY <1>c, <1>k, <2>1, <2>2 DEF RunningSteps, RequestSteps, Waiting, Trans, BeforeStart
<1>13. CASE FifoRead \/ ReadCollision
  <2>1. /\ pc \in {"read", "collision"} /\ UNCHANGED <<call, cmd, modem, irq, timer, past>>
        /\ pc' = "ready" \/ (pc' = "collision" /\ out'.ret = out.ret)
        /\ out'.ret \in {out.ret, "ok", "short"}
    BY <1>0, <1>13 DEF FifoRead, ReadCollision, chip, Works, Return, OutType
  <2>2. modem = "idle" /\ ~timer.running /\ Trans /\ out.ret = "ok"
    BY <1>b, <1>k, <1>m, <2>1 DEF CommandSteps, RequestSteps, Done, KeySteps, AuthSteps
  <2> QED BY <1>c, <1>k, <2>1, <2>2 DEF RunningSteps, RequestSteps, Waiting, Trans, BeforeStart
<1>14. CASE ReadKeyError \/ ReadControl
  <2>1. /\ pc \in {"keyerr", "crypto"} /\ UNCHANGED <<call, cmd, modem, irq, timer, past>>
        /\ pc' = "ready" /\ out'.ret \in {"ok", "EINVAL", "EACCES"}
    BY <1>0, <1>14 DEF ReadKeyError, ReadControl, chip, Works, Return, OutType
  <2>2. modem = "idle" /\ ~timer.running
    BY <1>k, <1>m, <2>1 DEF CommandSteps, Done
  <2>3. call.kind = "key" => "TIMER" \notin irq
    BY <1>k, <2>1 DEF KeySteps, RequestSteps
  <2> QED BY <1>k, <2>1, <2>2, <2>3 DEF RunningSteps, RequestSteps, Waiting, Trans, BeforeStart
<1>15. CASE ReadSecondaryStatus
  <2>1. /\ pc = "bitframe" /\ UNCHANGED <<cmd, modem, irq, timer, past>> /\ call'.kind = call.kind
        /\ (pc' = "control" /\ UNCHANGED out) \/ (pc' = "ready" /\ out'.ret = "EIO")
    BY <1>0, <1>15 DEF ReadSecondaryStatus, chip, Works, Return, OutType, CallType
  <2>2. modem = "idle" /\ ~timer.running /\ call.kind = "auth"
    BY <1>b, <1>k, <1>m, <2>1 DEF CommandSteps, Done, KeySteps, TransSteps
  <2> QED BY <1>c, <1>k, <2>1, <2>2 DEF RunningSteps, RequestSteps, Waiting, Trans, BeforeStart
<1> QED BY <1>1, <1>2, <1>3, <1>4, <1>5, <1>6, <1>7, <1>8, <1>9, <1>10, <1>11, <1>12, <1>13,
      <1>14, <1>15, <1>16, <1>17 DEF Access

(* Each step of the chip keeps the timer in line with the steps. *)
LEMMA TimersChip ==
    ASSUME TypeOK, Steps, Commands, Timers, Chip
    PROVE  Timers'
<1> SUFFICES ASSUME faults' = 0 PROVE RunningSteps' /\ RequestSteps'
  BY DEF Timers
<1>0. timer \in TimerType /\ past \in PastType
  BY TypesAre DEF ChipOK, GhostOK
<1>1. UNCHANGED <<pc, call, sent, out, faults>>
  BY DEF Chip, ChipTransmits, ChipTxEnd, TimerExpires, ChipRxBegin, ChipReceives,
         ChipRxEnd, ChipLoadsKey, host
<1>k. CommandSteps /\ ModemSteps /\ RunningSteps /\ RequestSteps
  BY <1>1 DEF Commands, Timers
<1>m. cmd \in {"IDLE", "LOAD_KEY"} => modem = "idle" /\ ~timer.running
  BY <1>k DEF ModemSteps, RunningSteps
<1>2. CASE ChipTransmits
  BY <1>1, <1>2, <1>k DEF ChipTransmits, RunningSteps, RequestSteps, Trans, BeforeStart
<1>3. CASE ChipTxEnd
  <2>1. modem = "tx" /\ modem' = "await" /\ UNCHANGED <<cmd, irq>>
    BY <1>3 DEF ChipTxEnd
  <2>2. "TIMER" \notin irq /\ pc \notin {"ready", "idle"}
    BY <1>k, <2>1 DEF RunningSteps
  <2> QED BY <1>1, <1>k, <2>1, <2>2 DEF RunningSteps, RequestSteps, Trans, BeforeStart
<1>4. CASE TimerExpires
  <2>1. /\ timer.running /\ timer'.running = FALSE /\ irq' = irq \cup {"TIMER"}
        /\ past'.expired = (modem = "await") /\ UNCHANGED <<cmd, modem>>
    BY <1>0, <1>4 DEF TimerExpires, TimerType, PastType
  <2>2. modem = "await" /\ past'.expired /\ pc \notin {"ready", "idle"}
    BY <1>k, <2>1 DEF RunningSteps
  <2>3. /\ cmd \notin {"IDLE", "LOAD_KEY"}
    BY <1>m, <2>1
  <2> QED BY <1>1, <1>k, <2>1, <2>2, <2>3 DEF RunningSteps, RequestSteps, Trans, BeforeStart,
        CommandSteps, Done, Waiting
<1>5. CASE ChipRxBegin
  <2>1. /\ modem' = "recv" /\ timer'.running = (timer.running /\ ~timer.stop) /\ UNCHANGED <<cmd, irq, past>>
    BY <1>0, <1>5 DEF ChipRxBegin, TimerType
  <2>2. ~timer'.running
    BY <1>k, <2>1 DEF ModemSteps
  <2> QED BY <1>1, <1>k, <2>1, <2>2 DEF RunningSteps, RequestSteps, Trans, BeforeStart
<1>6. CASE ChipReceives
  <2>1. past'.expired = past.expired /\ UNCHANGED <<cmd, modem, irq, timer>>
    BY <1>0, <1>6 DEF ChipReceives, PastType
  <2> QED BY <1>1, <1>k, <2>1 DEF RunningSteps, RequestSteps, Trans, BeforeStart
<1>7. CASE ChipRxEnd \/ ChipLoadsKey
  <2>1. /\ cmd' = "IDLE" /\ modem' = "idle" /\ ~timer.running /\ UNCHANGED <<timer, past>>
        /\ "TIMER" \in irq' <=> "TIMER" \in irq
    BY <1>7, <1>k DEF ChipRxEnd, ChipLoadsKey, RunningSteps, ModemSteps
  <2> QED BY <1>1, <1>k, <2>1 DEF RunningSteps, RequestSteps, Trans, BeforeStart
<1> QED BY <1>2, <1>3, <1>4, <1>5, <1>6, <1>7 DEF Chip

(* Each step keeps the timer in line with the steps. *)
LEMMA TimersStep ==
    ASSUME TypeOK, Steps, Commands, Timers, Access \/ AccessFails \/ Chip \/ UNCHANGED vars
    PROVE  Timers'
<1>1. CASE Access
  BY <1>1, TimersAccess
<1>2. CASE Chip
  BY <1>2, TimersChip
<1>3. CASE AccessFails
  <2>1. Fails
    BY <1>3 DEF AccessFails, Aborts, Ignored, TimerControlLost, ClearTimerLost, StatusLost
  <2>2. faults' # 0
    BY <2>1 DEF Fails, TypeOK
  <2> QED BY <2>2 DEF Timers
<1>4. CASE UNCHANGED vars
  BY <1>4 DEF vars, host, chip, Timers, RunningSteps, RequestSteps, Trans, BeforeStart
<1> QED BY <1>1, <1>2, <1>3, <1>4

---------------------------------------------------------------------------
(* A step that is neither an access nor one of the chip begins a call. *)
LEMMA Entered ==
    ASSUME Next, ~(Access \/ AccessFails \/ Chip)
    PROVE  \E kind \in Kinds : \E a \in Arguments(kind) :
              /\ kind = "auth" => EnterAuth(kind, a[1], a[2])
              /\ kind # "auth" => Enter(kind, a[1], a[2])
<1>1. CASE \E kind \in Kinds \ {"auth"} : \E a \in Arguments(kind) : Enter(kind, a[1], a[2])
  <2>1. PICK kind \in Kinds \ {"auth"} : \E a \in Arguments(kind) : Enter(kind, a[1], a[2])
    BY <1>1
  <2>2. PICK a \in Arguments(kind) : Enter(kind, a[1], a[2])
    BY <2>1
  <2> QED BY <2>1, <2>2
<1>2. CASE \E kind \in Kinds \cap {"auth"} : \E a \in Arguments(kind) : EnterAuth(kind, a[1], a[2])
  <2>1. PICK kind \in Kinds \cap {"auth"} : \E a \in Arguments(kind) : EnterAuth(kind, a[1], a[2])
    BY <1>2
  <2>2. PICK a \in Arguments(kind) : EnterAuth(kind, a[1], a[2])
    BY <2>1
  <2> QED BY <2>1, <2>2
<1> QED BY <1>1, <1>2 DEF Next, Host

(* The part of the inductive invariant that every theorem below needs. *)
BaseInv == TypeOK /\ Steps /\ Commands

(* Each step keeps types, steps and commands. *)
LEMMA BaseStep == BaseInv /\ [Next]_vars => BaseInv'
<1> SUFFICES ASSUME TypeOK, Steps, Commands, [Next]_vars PROVE TypeOK' /\ Steps' /\ Commands'
  BY DEF BaseInv
<1>1. TypeOK'
  BY TypeStep
<1>2. CASE Access \/ AccessFails \/ Chip \/ UNCHANGED vars
  BY <1>1, <1>2, StepsAccess, CommandsAccess
<1>3. CASE ~(Access \/ AccessFails \/ Chip \/ UNCHANGED vars)
  <2>1. PICK kind \in Kinds : \E a \in Arguments(kind) :
              /\ kind = "auth" => EnterAuth(kind, a[1], a[2])
              /\ kind # "auth" => Enter(kind, a[1], a[2])
    BY <1>3, Entered
  <2>2. PICK a \in Arguments(kind) :
              /\ kind = "auth" => EnterAuth(kind, a[1], a[2])
              /\ kind # "auth" => Enter(kind, a[1], a[2])
    BY <2>1
  <2> QED BY <1>1, <2>2, StepsEnter, CommandsEnter
<1> QED BY <1>2, <1>3

(* Types, steps and commands, at every step. *)
LEMMA BaseHolds == Spec => []BaseInv
<1>1. Init => BaseInv
  BY TypeInit, StepsInit, CommandsInit DEF BaseInv
<1> QED BY <1>1, BaseStep, PTL DEF Spec

(* A timeout that is reported, if every access works, is one of this       *)
(* exchange: whatever earlier exchanges left in the chip, neither the      *)
(* request of an old timer, nor a timer still running, is taken for it.    *)
THEOREM TimeoutIsRealHolds == Spec => []TimeoutIsReal
<1>1. Init => Timers
  BY TimersInit
<1>2. BaseInv /\ Timers /\ [Next]_vars => Timers'
  <2> SUFFICES ASSUME TypeOK, Steps, Commands, Timers, [Next]_vars PROVE Timers'
    BY DEF BaseInv
  <2>1. CASE Access \/ AccessFails \/ Chip \/ UNCHANGED vars
    BY <2>1, TimersStep
  <2>2. CASE ~(Access \/ AccessFails \/ Chip \/ UNCHANGED vars)
    <3>1. PICK kind \in Kinds : \E a \in Arguments(kind) :
              /\ kind = "auth" => EnterAuth(kind, a[1], a[2])
              /\ kind # "auth" => Enter(kind, a[1], a[2])
      BY <2>2, Entered
    <3>2. PICK a \in Arguments(kind) :
              /\ kind = "auth" => EnterAuth(kind, a[1], a[2])
              /\ kind # "auth" => Enter(kind, a[1], a[2])
      BY <3>1
    <3> QED BY <3>2, TimersEnter
  <2> QED BY <2>1, <2>2
<1>3. Timers => TimeoutIsReal
  BY DEF Timers, RequestSteps, TimeoutIsReal, Returned
<1> QED BY <1>1, <1>2, <1>3, BaseHolds, PTL DEF Spec

---------------------------------------------------------------------------
(* Collisions.                                                             *)

(* After COMMAND has been written. *)
Started == pc \in Waiting \cup Done \cup {"more"} \/ (pc = "fill" /\ sent > 0)

(* From the end of transmission on, ERROR_FLAG has the collision of this   *)
(* answer and no other.                                                    *)
Seen == Trans /\ Started /\ modem # "tx" => ("COL" \in err <=> "COL" \in past.errs)

(* A call begins. *)
LEMMA SeenEnter ==
    ASSUME NEW kind \in Kinds, NEW a \in Arguments(kind),
           kind = "auth" => EnterAuth(kind, a[1], a[2]),
           kind # "auth" => Enter(kind, a[1], a[2])
    PROVE  Seen' /\ CollisionNotMissed'
<1>1. sent' = 0 /\ pc' \in {"idle", "fill"}
  BY DEF Enter, EnterAuth, Enters
<1> QED BY <1>1 DEF Seen, CollisionNotMissed, Returned, Started, Waiting, Done

(* Each access keeps the collision flag that of this answer. *)
LEMMA SeenAccess ==
    ASSUME BaseInv, Seen, CollisionNotMissed, Access \/ AccessFails
    PROVE  Seen' /\ CollisionNotMissed'
<1>0. /\ call.kind \in Five /\ call \in CallType /\ out \in OutType /\ past \in PastType
      /\ call.second \in BOOLEAN /\ sent \in Nat /\ cur \in Nat
  BY TypesAre, KindIs, SizeAssumption DEF BaseInv, HostOK, CallType, GhostOK
<1>b. call.kind = "key" \/ call.kind = "auth" \/ Trans
  BY <1>0 DEF Five, Trans, Transceives
<1>c. Trans => call.kind # "key" /\ call.kind # "auth"
  BY DEF Trans, Transceives
<1>d. call.kind = "acf" => Trans
  BY DEF Trans, Transceives
<1>k. KeySteps /\ AuthSteps /\ TransSteps /\ CommandSteps /\ ModemSteps
  BY DEF BaseInv, Steps, Commands
<1>e. Works \/ Fails => past'.errs = past.errs
  BY <1>0 DEF Works, Fails, PastType
<1>f. \A r \in Rets \ {"ok"} : Return(r) => pc' = "ready" /\ CollisionNotMissed'
  BY <1>0 DEF CollisionNotMissed, Returned, Return, OutType
<1>g. "fault" \in Rets \ {"ok"} /\ "EIO" \in Rets \ {"ok"} /\ "ETIMEDOUT" \in Rets \ {"ok"}
  BY DEF Rets
<1>h. pc' # "ready" => CollisionNotMissed'
  BY DEF CollisionNotMissed, Returned
<1>i. pc' = "ready" => Seen'
  BY DEF Seen, Started, Waiting, Done
<1>j. \A r \in Rets \ {"ok"} : Return(r) => Seen' /\ CollisionNotMissed'
  BY <1>f, <1>i
<1>1. CASE CommandIdle \/ ClearInterrupts
  <2>1. /\ pc' \in {"fill", "clear", "control"} \/ Return("fault")
        /\ pc' = "fill" => call.kind = "key"
        /\ UNCHANGED <<call, sent>>
    BY <1>1 DEF CommandIdle, ClearInterrupts, Checks, Drops
  <2> QED BY <1>c, <1>g, <1>h, <1>j, <2>1 DEF Seen, Started, Waiting, Done, Trans
<1>2. CASE TimerControl \/ TimerControlLost
  <2>1. pc' = "reload"
    BY <1>2 DEF TimerControl, TimerControlLost, Drops
  <2> QED BY <1>h, <2>1 DEF Seen, Started, Waiting, Done
<1>3. CASE TimerReload
  <2>1. pc = "reload" /\ (pc' = AfterTimer \/ Return("fault")) /\ call'.kind = call.kind /\ UNCHANGED sent
    BY <1>0, <1>3 DEF TimerReload, CallType
  <2>2. CASE Return("fault")
    BY <1>g, <1>j, <2>2
  <2>3. CASE pc' = AfterTimer /\ Trans
    <3>1. pc' = "fill" /\ sent' = 0
      BY <1>k, <2>1, <2>3, AfterTimerIs DEF Trans, TransSteps
    <3> QED BY <1>h, <3>1 DEF Seen, Started, Waiting, Done
  <2>4. CASE pc' = AfterTimer /\ ~Trans
    <3>1. pc' # "ready" /\ ~Trans'
      BY <1>b, <2>1, <2>4, AfterTimerIs DEF Trans
    <3> QED BY <1>h, <3>1 DEF Seen
  <2> QED BY <2>1, <2>2, <2>3, <2>4
<1>4. CASE FifoWrite
  <2>1. /\ pc = "fill" /\ UNCHANGED <<call, sent, modem, err>> /\ past'.errs = past.errs
        /\ Return("fault") \/ pc' = IF sent = 0 THEN "start" ELSE "more"
    BY <1>4, <1>e DEF FifoWrite, Checks
  <2>2. CASE Return("fault")
    BY <1>g, <1>j, <2>2
  <2>3. CASE pc' = "start"
    BY <1>h, <2>3 DEF Seen, Started, Waiting, Done
  <2>4. CASE pc' = "more" /\ sent # 0
    <3>1. Started
      BY <1>0, <2>1, <2>4 DEF Started
    <3> QED BY <1>h, <2>1, <2>4, <3>1 DEF Seen, Trans
  <2> QED BY <2>1, <2>2, <2>3, <2>4
<1>5. CASE StartCommand
  <2>1. UNCHANGED call /\ pc = "start"
    BY <1>5, StartIs
  <2>2. CASE Trans
    <3>1. modem' = "tx" /\ (pc' = "more" \/ Return("fault"))
      BY <1>5, <1>c, <1>k, <2>2, StartIs DEF StartGoes, Checks, TransSteps, Trans
    <3>2. Seen'
      BY <3>1 DEF Seen
    <3> QED BY <1>g, <1>h, <1>j, <3>1, <3>2
  <2>3. CASE ~Trans
    <3>1. pc' \in {"control", "status"} \/ Return("fault")
      BY <1>5, <1>0, <1>b, <1>k, <2>3, StartIs DEF StartGoes, Checks, KeySteps
    <3>2. ~Trans'
      BY <2>1, <2>3 DEF Trans
    <3> QED BY <1>g, <1>h, <1>j, <3>1, <3>2 DEF Seen
  <2> QED BY <2>2, <2>3
<1>6. CASE \/ FillMore \/ ReadStatus \/ StatusLost \/ ReadErrorFlag \/ ReadInterruptRq
           \/ ClearTimer \/ ClearTimerLost \/ ReadCommand \/ ClearRx
           \/ Ignored("clearrx", AfterWait) \/ ReadLength
  <2>1. /\ pc \in Waiting \cup {"more", "clearrx", "length"}
        /\ UNCHANGED <<modem, err>> /\ call'.kind = call.kind /\ past'.errs = past.errs
    BY <1>0, <1>6, <1>e DEF FillMore, ReadStatus, StatusLost, ReadErrorFlag, ReadInterruptRq,
         ClearTimer, ClearTimerLost, ReadCommand, ClearRx, Ignored, Drops, ReadLength, chip,
         Waiting, CallType
  <2>2. Started
    BY <2>1 DEF Started, Done
  <2>3. Seen'
    BY <2>1, <2>2 DEF Seen, Trans
  <2>4. Return("EIO") \/ Return("ETIMEDOUT") \/ pc' # "ready"
    <3>1. AfterWait # "ready"
      BY <1>b, AfterWaitIs DEF Trans
    <3> QED BY <1>6, <3>1 DEF FillMore, ReadStatus, StatusLost, ReadErrorFlag, ReadInterruptRq,
         ClearTimer, ClearTimerLost, ReadCommand, ClearRx, Ignored, Drops, ReadLength,
         AfterStatus, AfterError
  <2> QED BY <1>g, <1>h, <1>j, <2>3, <2>4
<1>7. CASE FifoRead
  <2>1. /\ pc = "read" /\ UNCHANGED <<call, modem, err>> /\ past'.errs = past.errs
        /\ pc' = IF call.kind = "ab" THEN "ready" ELSE "collision"
    BY <1>7, <1>e DEF FifoRead
  <2>2. Started
    BY <2>1 DEF Started, Done
  <2>3. Seen'
    BY <2>1, <2>2 DEF Seen, Trans
  <2> QED BY <2>1, <2>3 DEF CollisionNotMissed, Returned
<1>8. CASE ReadCollision
  <2>1. pc = "collision" /\ pc' = "ready" /\ UNCHANGED <<call, modem, err>> /\ past'.errs = past.errs
    BY <1>8, <1>e DEF ReadCollision, Return, chip
  <2>2. call.kind = "acf" => out'.boc = ("COL" \in err)
    BY <1>0, <1>8 DEF ReadCollision, OutType
  <2>3. call.kind = "acf" => ("COL" \in err <=> "COL" \in past.errs)
    <3>1. cmd = "IDLE" /\ modem # "tx" /\ Started
      BY <1>k, <2>1 DEF CommandSteps, ModemSteps, Done, Started
    <3> QED BY <1>d, <3>1 DEF Seen
  <2>4. CollisionNotMissed'
    BY <2>1, <2>2, <2>3 DEF CollisionNotMissed
  <2> QED BY <1>i, <2>1, <2>4
<1>9. CASE ReadKeyError \/ ReadControl
  <2>1. pc \in {"keyerr", "crypto"} /\ UNCHANGED call /\ pc' = "ready"
    BY <1>9 DEF ReadKeyError, ReadControl, Return
  <2>2. call.kind # "acf"
    BY <1>d, <1>k, <2>1 DEF TransSteps
  <2> QED BY <1>i, <2>1, <2>2 DEF CollisionNotMissed
<1>10. CASE ReadSecondaryStatus
  BY <1>10, <1>g, <1>h, <1>j DEF ReadSecondaryStatus, Seen, Started, Waiting, Done
<1>11. CASE \E p \in Checked \cup {"idle"} : Aborts(p)
  BY <1>11, <1>g, <1>j DEF Aborts
<1>12. CASE Ignored("idle", "clear") \/ Ignored("clear", "control")
  BY <1>12, <1>h DEF Ignored, Seen, Started, Waiting, Done
<1> QED BY <1>1, <1>2, <1>3, <1>4, <1>5, <1>6, <1>7, <1>8, <1>9, <1>10, <1>11, <1>12
      DEF Access, AccessFails

(* Each step of the chip keeps the collision flag that of this answer. *)
LEMMA SeenChip ==
    ASSUME BaseInv, Seen, CollisionNotMissed, Chip
    PROVE  Seen' /\ CollisionNotMissed'
<1>0. past \in PastType /\ CommandSteps /\ ModemSteps
  BY TypesAre DEF BaseInv, GhostOK, Commands
<1>1. UNCHANGED <<pc, call, sent, out>>
  BY DEF Chip, ChipTransmits, ChipTxEnd, TimerExpires, ChipRxBegin, ChipReceives,
         ChipRxEnd, ChipLoadsKey, host
<1>2. CASE ChipTxEnd
  <2>1. modem = "tx" /\ UNCHANGED err /\ past'.errs = {}
    BY <1>0, <1>2 DEF ChipTxEnd, PastType
  <2>2. err = {} /\ ~(pc = "ready" /\ out.ret = "ok")
    BY <1>0, <2>1 DEF ModemSteps, CommandSteps
  <2> QED BY <1>1, <2>1, <2>2 DEF Seen, CollisionNotMissed, Returned
<1>3. CASE ChipReceives
  <2>1. PICK e \in {{}} \cup {{x} : x \in Errors} :
           err' = err \cup e /\ past' = [past EXCEPT !.errs = @ \cup e]
    BY <1>3 DEF ChipReceives
  <2>2. modem = "recv" /\ UNCHANGED modem /\ past'.errs = past.errs \cup e
    BY <1>0, <1>3, <2>1 DEF ChipReceives, PastType
  <2>3. ~(pc = "ready" /\ out.ret = "ok")
    BY <1>0, <2>2 DEF ModemSteps, CommandSteps
  <2>4. Seen'
    BY <1>1, <2>1, <2>2 DEF Seen, Trans, Started
  <2> QED BY <1>1, <2>3, <2>4 DEF CollisionNotMissed, Returned
<1>4. CASE ChipTransmits \/ TimerExpires \/ ChipRxBegin \/ ChipRxEnd \/ ChipLoadsKey
  <2>1. /\ past'.errs = past.errs /\ ("COL" \in err' <=> "COL" \in err)
        /\ modem' = "tx" <=> modem = "tx"
    BY <1>0, <1>4 DEF ChipTransmits, TimerExpires, ChipRxBegin, ChipRxEnd, ChipLoadsKey, PastType
  <2> QED BY <1>1, <2>1 DEF Seen, Trans, Started, CollisionNotMissed, Returned
<1> QED BY <1>2, <1>3, <1>4 DEF Chip

(* A collision in an anticollision frame is never missed, whenever it      *)
(* happens between the host's looks at the status, the command register    *)
(* and the FIFO, and whichever accesses fail.                              *)
THEOREM CollisionNotMissedHolds == Spec => []CollisionNotMissed
<1>1. Init => Seen /\ CollisionNotMissed
  BY DEF Init, Seen, CollisionNotMissed, Returned, NoCall, Started, Waiting, Done
<1>2. BaseInv /\ Seen /\ CollisionNotMissed /\ [Next]_vars => Seen' /\ CollisionNotMissed'
  <2> SUFFICES ASSUME BaseInv, Seen, CollisionNotMissed, [Next]_vars
               PROVE  Seen' /\ CollisionNotMissed'
    OBVIOUS
  <2>1. CASE Access \/ AccessFails
    BY <2>1, SeenAccess
  <2>2. CASE Chip
    BY <2>2, SeenChip
  <2>3. CASE UNCHANGED vars
    BY <2>3 DEF vars, host, chip, Seen, Trans, Started, CollisionNotMissed, Returned
  <2>4. CASE ~(Access \/ AccessFails \/ Chip \/ UNCHANGED vars)
    <3>1. PICK kind \in Kinds : \E a \in Arguments(kind) :
              /\ kind = "auth" => EnterAuth(kind, a[1], a[2])
              /\ kind # "auth" => Enter(kind, a[1], a[2])
      BY <2>4, Entered
    <3>2. PICK a \in Arguments(kind) :
              /\ kind = "auth" => EnterAuth(kind, a[1], a[2])
              /\ kind # "auth" => Enter(kind, a[1], a[2])
      BY <3>1
    <3> QED BY <3>2, SeenEnter
  <2> QED BY <2>1, <2>2, <2>3, <2>4
<1> QED BY <1>1, <1>2, BaseHolds, PTL DEF Spec

---------------------------------------------------------------------------
(* Whose answer it is.                                                     *)

(* An answer of no bytes is empty. *)
LEMMA NoBytes == \A n \in Nat : Bytes(n, "rsp", 0, 0) = <<>>
<1> SUFFICES ASSUME NEW n \in Nat PROVE Bytes(n, "rsp", 0, 0) = <<>>
  OBVIOUS
<1>1. 0 \in Nat
  OBVIOUS
<1>2. Bytes(n, "rsp", 0, 0) \in Seq(Byte) /\ Len(Bytes(n, "rsp", 0, 0)) = 0
  BY <1>1, AnswerIs
<1> QED BY <1>2, EmptySeq

(* Reading the beginning of a sequence leaves the rest of it. *)
LEMMA ReadRest ==
    ASSUME NEW S, NEW s \in Seq(S), NEW got \in Nat, got <= Len(s)
    PROVE  /\ SubSeq(s, 1, got) \o SubSeq(s, got + 1, Len(s)) = s
           /\ got >= 1 => SubSeq(s, 1, got) # <<>>
<1> DEFINE u == SubSeq(s, 1, got)
           v == SubSeq(s, got + 1, Len(s))
<1>0. Len(s) \in Nat
  BY LenProperties
<1>1. u \in Seq(S) /\ Len(u) = got /\ \A i \in 1..got : u[i] = s[i]
  BY <1>0, SubSeqProperties
<1>2. v \in Seq(S) /\ Len(v) = Len(s) - got /\ \A i \in 1..Len(s) - got : v[i] = s[got + i]
  <2>1. CASE got + 1 <= Len(s)
    BY <1>0, <2>1, SubSeqProperties
  <2>2. CASE got = Len(s)
    BY <1>0, <2>2, SubSeqProperties
  <2> QED BY <1>0, <2>1, <2>2
<1> HIDE DEF u, v
<1>3. /\ u \o v \in Seq(S) /\ Len(u \o v) = Len(s)
      /\ \A i \in 1..Len(s) : (u \o v)[i] = IF i <= got THEN u[i] ELSE v[i - got]
  BY <1>0, <1>1, <1>2, ConcatProperties
<1>4. \A i \in 1..Len(s) : (u \o v)[i] = s[i]
  <2>1. ASSUME NEW i \in 1..Len(s) PROVE (u \o v)[i] = s[i]
    <3>1. CASE i <= got
      BY <1>0, <1>1, <1>3, <3>1
    <3>2. CASE ~(i <= got)
      <4>1. i - got \in 1..Len(s) - got /\ got + (i - got) = i
        BY <1>0, <3>2
      <4> QED BY <1>2, <1>3, <3>2, <4>1
    <3> QED BY <3>1, <3>2
  <2> QED BY <2>1
<1>5. u \o v = s
  BY <1>3, <1>4, SeqEqual
<1>6. got >= 1 => u # <<>>
  BY <1>1, EmptySeq
<1> QED BY <1>5, <1>6 DEF u, v

(* The whole answer, as far as the FIFO takes it; and the answer when k    *)
(* bytes of it have been received.                                         *)
Whole == Bytes(call.n, "rsp", 0, Least(FIFO, past.len))
Coming(k) == /\ answer = Bytes(call.n, "rsp", k, past.len - k)
             /\ fifo = Bytes(call.n, "rsp", 0, Least(FIFO, k))
Fits == call.tx_len <= FIFO

(* An exchange stops what an earlier one left and sends its own frame; a   *)
(* command that fits the FIFO goes there at once.                          *)
OwnFrame ==
    /\ Trans /\ BeforeStart => cmd = "IDLE"
    /\ Trans /\ Started => cmd \in {"IDLE", "TRANSCEIVE"}
    /\ Trans /\ Started /\ modem = "tx" => air.by = call.n
    /\ Trans /\ Fits /\ pc \in Early => sent = 0 /\ cur = call.tx_len
(* From the end of transmission on, what is in the FIFO and what is still  *)
(* to come make up the answer to that frame.                               *)
OwnAnswer ==
    /\ Trans /\ Fits /\ Started /\ modem \in {"await", "recv"} => \E k \in 0..past.len : Coming(k)
    /\ Trans /\ Fits /\ Started /\ pc # "collision" /\ modem = "idle" => fifo = Whole
    /\ Trans /\ pc = "read" => fifo # <<>>
    /\ Trans /\ Fits /\ pc = "collision" => out.rx # <<>> /\ out.rx \o fifo = Whole
(* An authentication ends only with an answer to its second command. *)
OwnAuth ==
    /\ call.kind = "auth" /\ modem = "await" /\ answer # <<>> => past.len > 0
    /\ call.kind = "auth" /\ modem = "recv" => past.len > 0
    /\ call.kind = "auth" /\ call.second /\ pc \in Waiting \cup Done /\ cmd = "IDLE" => past.len > 0
    /\ pc = "crypto" => call.second
    /\ call.kind = "auth" => cmd # "LOAD_KEY"
Ours == /\ ~past.fault => OwnFrame /\ OwnAnswer /\ OwnAuth
        /\ AnswerIsOurs

(* A call begins. *)
LEMMA OursEnter ==
    ASSUME BaseInv, NEW kind \in Kinds, NEW a \in Arguments(kind),
           kind = "auth" => EnterAuth(kind, a[1], a[2]),
           kind # "auth" => Enter(kind, a[1], a[2])
    PROVE  Ours'
<1>0. a[1] \in Nat /\ FIFO \in Nat /\ kind \in Five
  BY KindsAssumption, SizeAssumption, ArgumentsAre DEF Five
<1>1. Enters(kind, a[1], a[2])
  BY DEF Enter, EnterAuth
<1>2. pc = "ready" /\ call'.kind = kind /\ call'.tx_len = a[1] /\ sent' = 0 /\ UNCHANGED <<chip, card>>
  BY <1>1 DEF Enters
<1>3. kind = "auth" => pc' = "fill" /\ out.ret = "ok"
  BY DEF EnterAuth
<1>4. kind # "auth" => pc' = "idle" /\ cur' = Least(a[1], FIFO)
  BY DEF Enter
<1>5. a[1] <= FIFO => Least(a[1], FIFO) = a[1]
  <2>1. PICK len \in Nat : len = a[1]
    BY <1>0
  <2>2. len <= FIFO => Least(len, FIFO) = len
    BY <1>0 DEF Least
  <2> QED BY <2>1, <2>2
<1>6. kind = "auth" => modem' = "idle" /\ cmd' = "IDLE"
  BY <1>2, <1>3 DEF BaseInv, Commands, CommandSteps, ModemSteps, chip
<1>7. OwnFrame'
  BY <1>2, <1>3, <1>4, <1>5 DEF OwnFrame, Trans, Transceives, BeforeStart, Started, Fits, Waiting, Done
<1>8. OwnAnswer'
  BY <1>2, <1>3, <1>4 DEF OwnAnswer, Started, Waiting, Done
<1>9. OwnAuth'
  BY <1>2, <1>3, <1>4, <1>6 DEF OwnAuth, Waiting, Done
<1>10. AnswerIsOurs'
  BY <1>3, <1>4 DEF AnswerIsOurs, Returned
<1> QED BY <1>7, <1>8, <1>9, <1>10 DEF Ours

(* What a step that works keeps of the call and of the answer. *)
Kept == /\ call'.n = call.n /\ call'.kind = call.kind /\ call'.tx_len = call.tx_len
        /\ past'.len = past.len

(* The answer looks the same after such a step. *)
LEMMA KeptMeans ==
    ASSUME Kept
    PROVE  /\ Trans' <=> Trans
           /\ Fits' <=> Fits
           /\ Whole' = Whole
           /\ \A k : UNCHANGED <<answer, fifo>> => (Coming(k) <=> Coming(k)')
<1>1. Trans' <=> Trans
  BY DEF Kept, Trans
<1>2. Fits' <=> Fits
  BY DEF Kept, Fits
<1>3. Whole' = Whole
  BY DEF Kept, Whole
<1>4. \A k : UNCHANGED <<answer, fifo>> => (Coming(k) <=> Coming(k)')
  BY DEF Kept, Coming
<1> QED BY <1>1, <1>2, <1>3, <1>4

(* The answer stays what it is while the chip and the card rest. *)
LEMMA AnswerStays ==
    ASSUME Kept, OwnAnswer, UNCHANGED <<modem, answer, fifo>>,
           Started' => Started, pc # "collision", pc' \notin {"read", "collision"}
    PROVE  OwnAnswer'
<1>1. Trans /\ Fits /\ Started /\ modem \in {"await", "recv"} => \E k \in 0..past.len : Coming(k)'
  BY KeptMeans DEF OwnAnswer
<1>2. past'.len = past.len
  BY DEF Kept
<1> QED BY <1>1, <1>2, KeptMeans DEF OwnAnswer

(* Each access that works keeps frame and answer those of this exchange. *)
LEMMA OursAccess ==
    ASSUME BaseInv, Ours, Access, ~past'.fault
    PROVE  OwnFrame' /\ OwnAnswer' /\ OwnAuth'
<1>0. /\ call.kind \in Five /\ call \in CallType /\ out \in OutType /\ past \in PastType
      /\ call.second \in BOOLEAN /\ sent \in Nat /\ cur \in Nat /\ FIFO \in Nat
      /\ fifo \in Seq(Byte) /\ Len(fifo) \in Nat /\ call.room \in Nat /\ call.tx_len \in Nat
  BY TypesAre, KindIs, SizeAssumption, LenProperties
     DEF BaseInv, HostOK, ChipOK, CallType, GhostOK
<1>a. ~Fails
  BY <1>0 DEF Fails, PastType
<1>b. call.kind = "key" \/ call.kind = "auth" \/ Trans
  BY <1>0 DEF Five, Trans, Transceives
<1>c. Trans => call.kind # "key" /\ call.kind # "auth"
  BY DEF Trans, Transceives
<1>d. UNCHANGED <<call, past>> => Kept
  BY DEF Kept
<1>f. ~past.fault
  BY <1>0, <1>a DEF Access, CommandIdle, ClearInterrupts, TimerControl, TimerReload, FifoWrite,
       StartCommand, FillMore, ReadStatus, ReadErrorFlag, ReadInterruptRq, ClearTimer, ReadCommand, ClearRx,
       ReadLength, FifoRead, ReadCollision, ReadKeyError, ReadSecondaryStatus, ReadControl, Checks, Drops, Works,
       PastType
<1>k. KeySteps /\ AuthSteps /\ TransSteps /\ CommandSteps /\ ModemSteps /\ OwnFrame /\ OwnAnswer /\ OwnAuth
  BY <1>f DEF BaseInv, Steps, Commands, Ours
<1>1. CASE CommandIdle
  <2>1. /\ pc = "idle" /\ cmd' = "IDLE" /\ modem' = "idle"
        /\ call.kind = "key" => pc' = "fill"
        /\ call.kind # "key" => pc' = "clear"
        /\ UNCHANGED <<call, sent, cur, past>>
    BY <1>1, <1>a DEF CommandIdle, StopModem, Checks, Drops, Works
  <2>2. Trans' = Trans /\ Fits' = Fits
    BY <2>1 DEF Trans, Fits
  <2>3. OwnFrame'
    BY <1>c, <1>k, <2>1, <2>2 DEF OwnFrame, Early, Started, Waiting, Done, Trans
  <2>4. OwnAnswer'
    BY <1>c, <2>1, <2>2 DEF OwnAnswer, Started, Waiting, Done, Trans
  <2>5. OwnAuth'
    BY <2>1 DEF OwnAuth, Waiting, Done
  <2> QED BY <2>3, <2>4, <2>5
<1>2. CASE ClearInterrupts
  <2>1. pc = "clear" /\ pc' = "control" /\ UNCHANGED <<call, sent, cur, cmd, modem, answer, past>>
    BY <1>2, <1>a DEF ClearInterrupts, Drops, Works, card
  <2>2. Trans' = Trans /\ Fits' = Fits
    BY <2>1 DEF Trans, Fits
  <2>3. OwnFrame'
    BY <1>k, <2>1, <2>2 DEF OwnFrame, Early, Started, Waiting, Done, BeforeStart
  <2>4. OwnAnswer'
    BY <2>1, <2>2 DEF OwnAnswer, Started, Waiting, Done
  <2>5. OwnAuth'
    BY <1>k, <2>1 DEF OwnAuth, Waiting, Done
  <2> QED BY <2>3, <2>4, <2>5
<1>3. CASE TimerControl
  <2>1. /\ TimerSet /\ pc = "control" /\ pc' = "reload"
        /\ UNCHANGED <<sent, cur, cmd, modem, answer, past>>
    BY <1>3, <1>a DEF TimerControl, Drops, Works, card
  <2>2. PICK t \in Limits(call.kind) : call' = [call EXCEPT !.timeout = t]
    BY <2>1 DEF TimerSet
  <2>3. call'.kind = call.kind /\ call'.tx_len = call.tx_len /\ call'.second = call.second
    BY <1>0, <2>2 DEF CallType
  <2>4. Trans' = Trans /\ Fits' = Fits
    BY <2>3 DEF Trans, Fits
  <2>5. OwnFrame'
    BY <1>k, <2>1, <2>3, <2>4 DEF OwnFrame, Early, Started, Waiting, Done, BeforeStart
  <2>6. OwnAnswer'
    BY <2>1, <2>4 DEF OwnAnswer, Started, Waiting, Done
  <2>7. OwnAuth'
    BY <1>k, <2>1, <2>3 DEF OwnAuth, Waiting, Done
  <2> QED BY <2>5, <2>6, <2>7
<1>4. CASE TimerReload
  <2>1. /\ pc = "reload" /\ pc' = AfterTimer /\ UNCHANGED <<sent, cur, cmd, modem, answer>>
    BY <1>4, <1>a DEF TimerReload, card
  <2>2. /\ call'.kind = call.kind /\ call'.tx_len = call.tx_len /\ call'.second = call.second
        /\ past'.len = past.len
    BY <1>0, <1>4, <1>a DEF TimerReload, CallType, PastType
  <2>3. Trans' = Trans /\ Fits' = Fits
    BY <2>2 DEF Trans, Fits
  <2>4. /\ Trans => pc' = "fill" /\ sent' = 0
        /\ call.kind = "key" => pc' = "status"
        /\ call.kind = "auth" => pc' = IF call.second THEN "start" ELSE "status"
    BY <1>0, <1>k, <2>1, AfterTimerIs DEF Trans, TransSteps
  <2>5. OwnFrame'
    BY <1>k, <2>1, <2>2, <2>3, <2>4 DEF OwnFrame, Early, Started, Waiting, Done, BeforeStart
  <2>6. OwnAnswer'
    BY <2>1, <2>3, <2>4 DEF OwnAnswer, Started, Waiting, Done
  <2>7. OwnAuth'
    BY <1>b, <1>k, <2>1, <2>2, <2>4 DEF OwnAuth, Waiting, Done
  <2> QED BY <2>5, <2>6, <2>7
<1>5. CASE FifoWrite
  <2>1. /\ pc = "fill" /\ UNCHANGED <<call, sent, cur, cmd, modem, air, answer, past>>
        /\ pc' = IF sent = 0 THEN "start" ELSE "more"
    BY <1>5, <1>a DEF FifoWrite, Checks, Works, card
  <2>2. Trans' = Trans /\ Fits' = Fits
    BY <2>1 DEF Trans, Fits
  <2>3. Trans /\ Fits => pc' = "start"
    BY <1>k, <2>1 DEF OwnFrame, Early
  <2>4. pc' = "more" => Started
    BY <1>0, <2>1 DEF Started
  <2>5. OwnFrame'
    BY <1>k, <2>1, <2>2, <2>4 DEF OwnFrame, Early, Started, Waiting, Done, BeforeStart
  <2>6. OwnAnswer'
    BY <2>1, <2>2, <2>3 DEF OwnAnswer, Started, Waiting, Done
  <2>7. OwnAuth'
    BY <1>k, <2>1 DEF OwnAuth, Waiting, Done
  <2> QED BY <2>5, <2>6, <2>7
<1>6. CASE StartCommand
  <2>1. pc = "start" /\ UNCHANGED <<call, sent, cur>> /\ air' = [by |-> call.n, bytes |-> <<>>]
    BY <1>6, StartIs
  <2>2. Trans' = Trans /\ Fits' = Fits
    BY <2>1 DEF Trans, Fits
  <2>3. CASE Trans
    <3>1. StartGoes("TRANSCEIVE", "more")
      BY <1>6, <1>k, <2>3, StartIs DEF Trans, TransSteps
    <3>2. pc' = "more" /\ cmd' = "TRANSCEIVE" /\ modem' = "tx"
      BY <1>a, <1>c, <2>3, <3>1 DEF StartGoes, Checks
    <3>3. OwnFrame'
      BY <1>k, <2>1, <2>2, <3>2 DEF OwnFrame, Early, BeforeStart
    <3>4. OwnAnswer' /\ OwnAuth'
      BY <3>2 DEF OwnAnswer, OwnAuth
    <3> QED BY <3>3, <3>4
  <2>4. CASE call.kind = "auth"
    <3>1. /\ call.second => StartGoes("AUTHENT2", "status")
          /\ ~call.second => StartGoes("AUTHENT1", "control")
      BY <1>6, <2>4, StartIs
    <3>2. /\ modem' = "tx" /\ pc' \in {"control", "status"}
          /\ pc' = "status" => cmd' = "AUTHENT2"
          /\ cmd' # "LOAD_KEY"
      BY <1>a, <2>4, <3>1 DEF StartGoes, Checks
    <3> QED BY <1>c, <2>1, <2>2, <2>4, <3>2 DEF OwnFrame, OwnAnswer, OwnAuth, Waiting, Done
  <2>5. CASE call.kind = "key"
    <3>1. StartGoes("LOAD_KEY", "control")
      BY <1>6, <1>k, <2>5, StartIs DEF KeySteps
    <3>2. pc' = "control"
      BY <1>a, <3>1 DEF StartGoes, Checks
    <3> QED BY <1>c, <2>1, <2>2, <2>5, <3>2 DEF OwnFrame, OwnAnswer, OwnAuth
  <2> QED BY <1>b, <2>3, <2>4, <2>5
<1>7. CASE FillMore
  <2>1. /\ pc = "more" /\ sent' = sent + cur
        /\ UNCHANGED <<call, cmd, modem, air, answer, fifo, past>>
        /\ cur' = (IF sent + cur < call.tx_len THEN FIFO - Len(fifo) ELSE 0)
        /\ pc' = IF cur' = 0 THEN "status" ELSE "fill"
    BY <1>7 DEF FillMore, chip, card, Works
  <2>2. Trans /\ cur >= 1 /\ Started
    BY <1>b, <1>k, <2>1 DEF KeySteps, AuthSteps, TransSteps, Early, Started
  <2>3. Fits => pc' = "status"
    <3>1. Fits => ~(sent + cur < call.tx_len)
      BY <1>0, <1>k, <2>1, <2>2 DEF OwnFrame, Early
    <3> QED BY <2>1, <3>1
  <2>4. Trans' = Trans /\ Fits' = Fits /\ sent' # 0
    BY <1>0, <2>1, <2>2 DEF Trans, Fits
  <2>5. OwnFrame'
    BY <1>k, <2>1, <2>2, <2>3, <2>4 DEF OwnFrame, Early, BeforeStart
  <2>6. OwnAnswer'
    BY <1>d, <1>k, <2>1, <2>2, AnswerStays
  <2>7. OwnAuth'
    BY <1>c, <2>1, <2>2 DEF OwnAuth
  <2> QED BY <2>5, <2>6, <2>7
<1>8. CASE \/ ReadStatus \/ ReadErrorFlag \/ ReadInterruptRq \/ ClearTimer
           \/ ReadCommand \/ ClearRx
  <2>1. /\ pc \in Waiting \cup {"clearrx"} /\ UNCHANGED <<call, sent, cur, cmd, modem, air, answer, fifo, past>>
    BY <1>8, <1>a DEF ReadStatus, ReadErrorFlag, ReadInterruptRq, ClearTimer, ReadCommand, ClearRx,
         Waiting, Works, Drops, chip, card
  <2>2. /\ pc' \in Waiting \cup {"ready", "clearrx", "length", "keyerr", "crypto", "bitframe"}
        /\ pc' = "crypto" => call.second /\ call.kind = "auth" /\ cmd = "IDLE"
    <3>1. CASE ClearRx
      <4>1. pc = "clearrx" /\ pc' = AfterWait
        BY <3>1 DEF ClearRx, Drops
      <4>2. cmd = "IDLE"
        BY <1>k, <4>1 DEF CommandSteps, Done
      <4> QED BY <1>b, <4>1, <4>2, AfterWaitIs DEF Trans
    <3>2. CASE ReadStatus \/ ReadErrorFlag \/ ReadInterruptRq \/ ClearTimer \/ ReadCommand
      BY <3>2 DEF ReadStatus, ReadErrorFlag, ReadInterruptRq, ClearTimer, ReadCommand, AfterStatus,
           AfterError, Return, Waiting
    <3> QED BY <1>8, <3>1, <3>2
  <2>3. Started /\ pc \notin Early /\ pc' \notin Early /\ pc' \notin {"read", "collision"}
    BY <2>1, <2>2 DEF Started, Waiting, Done, Early
  <2>4. Trans' = Trans /\ Fits' = Fits
    BY <2>1 DEF Trans, Fits
  <2>5. OwnFrame'
    BY <1>k, <2>1, <2>3, <2>4 DEF OwnFrame, BeforeStart, Early
  <2>6. OwnAnswer'
    BY <1>d, <1>k, <2>1, <2>3, AnswerStays DEF Waiting
  <2>7. OwnAuth'
    BY <1>k, <2>1, <2>2 DEF OwnAuth, Waiting, Done
  <2> QED BY <2>5, <2>6, <2>7
<1>9. CASE ReadLength
  <2>1. /\ pc = "length" /\ UNCHANGED <<sent, cur, cmd, modem, air, answer, fifo, past>>
        /\ pc' = "ready" \/ (pc' = "read" /\ fifo # <<>>)
        /\ call'.n = call.n /\ call'.kind = call.kind /\ call'.tx_len = call.tx_len
    BY <1>0, <1>9 DEF ReadLength, chip, card, Works, CallType, Return
  <2>2. Trans /\ Started /\ cmd = "IDLE" /\ modem = "idle"
    BY <1>b, <1>k, <2>1 DEF KeySteps, AuthSteps, Started, Done, CommandSteps, ModemSteps
  <2>3. Kept
    BY <2>1 DEF Kept
  <2>4. Trans' /\ (Fits' <=> Fits) /\ Whole' = Whole
    BY <2>2, <2>3, KeptMeans
  <2>5. OwnFrame'
    BY <2>1, <2>2 DEF OwnFrame, BeforeStart, Early
  <2>6. OwnAnswer'
    BY <1>k, <2>1, <2>2, <2>4 DEF OwnAnswer
  <2>7. OwnAuth'
    BY <1>c, <2>1, <2>2 DEF OwnAuth
  <2> QED BY <2>5, <2>6, <2>7
<1>10. CASE FifoRead
  <2> DEFINE got == Least(call.room, Len(fifo))
  <2>1. /\ pc = "read" /\ UNCHANGED <<call, cmd, modem, past>>
        /\ fifo' = SubSeq(fifo, got + 1, Len(fifo))
        /\ out' = [out EXCEPT !.rx = SubSeq(fifo, 1, got)] /\ pc' \in {"ready", "collision"}
    BY <1>10 DEF FifoRead, Works
  <2>2. Trans /\ Started /\ cmd = "IDLE" /\ modem = "idle" /\ call.room >= 1 /\ fifo # <<>>
    BY <1>b, <1>k, <2>1 DEF KeySteps, AuthSteps, TransSteps, Started, Done, CommandSteps, ModemSteps,
         OwnAnswer
  <2>3. got \in Nat /\ got <= Len(fifo) /\ got >= 1
    <3>1. Len(fifo) >= 1
      BY <1>0, <2>2, EmptySeq
    <3> QED BY <1>0, <2>2, <3>1 DEF Least
  <2>4. out'.rx = SubSeq(fifo, 1, got)
    BY <1>0, <2>1 DEF OutType
  <2> HIDE DEF got
  <2>5. out'.rx # <<>> /\ out'.rx \o fifo' = fifo
    BY <1>0, <2>1, <2>3, <2>4, ReadRest
  <2>6. Kept
    BY <2>1 DEF Kept
  <2>7. Trans' /\ (Fits' <=> Fits) /\ Whole' = Whole
    BY <2>2, <2>6, KeptMeans
  <2>8. Fits => fifo = Whole
    BY <1>k, <2>1, <2>2 DEF OwnAnswer
  <2>9. OwnFrame'
    BY <2>1, <2>2 DEF OwnFrame, BeforeStart, Early
  <2>10. OwnAnswer'
    BY <2>1, <2>2, <2>5, <2>7, <2>8 DEF OwnAnswer, Started, Waiting, Done
  <2>11. OwnAuth'
    BY <1>c, <2>1, <2>2 DEF OwnAuth
  <2> QED BY <2>9, <2>10, <2>11
<1>11. CASE ReadCollision \/ ReadKeyError \/ ReadControl
  <2>1. /\ pc' = "ready" /\ UNCHANGED <<call, cmd, modem, answer, past>>
    BY <1>11 DEF ReadCollision, ReadKeyError, ReadControl, chip, card, Works, Return
  <2> QED BY <1>k, <2>1 DEF OwnFrame, BeforeStart, Early, OwnAnswer, Started, Waiting, Done, OwnAuth
<1>12. CASE ReadSecondaryStatus
  <2>1. /\ pc = "bitframe" /\ pc' \in {"ready", "control"} /\ UNCHANGED <<cmd, modem, past>>
        /\ call'.kind = call.kind
    BY <1>0, <1>12 DEF ReadSecondaryStatus, chip, Works, Return, CallType
  <2>2. ~Trans' /\ modem = "idle"
    BY <1>k, <2>1 DEF TransSteps, Trans, CommandSteps, ModemSteps, Done
  <2> QED BY <1>k, <2>1, <2>2 DEF OwnFrame, OwnAnswer, OwnAuth, Waiting, Done
<1> QED BY <1>1, <1>2, <1>3, <1>4, <1>5, <1>6, <1>7, <1>8, <1>9, <1>10, <1>11, <1>12 DEF Access

(* What a successful return has read. *)
LEMMA OursReturned ==
    ASSUME BaseInv, Ours, Access \/ AccessFails
    PROVE  AnswerIsOurs'
<1>0. /\ call.kind \in Five /\ call \in CallType /\ out \in OutType /\ past \in PastType
      /\ call.second \in BOOLEAN /\ FIFO \in Nat
      /\ fifo \in Seq(Byte) /\ Len(fifo) \in Nat /\ call.room \in Nat
  BY TypesAre, KindIs, SizeAssumption, LenProperties
     DEF BaseInv, HostOK, ChipOK, CallType, GhostOK
<1>b. call.kind = "key" \/ call.kind = "auth" \/ Trans
  BY <1>0 DEF Five, Trans, Transceives
<1>c. Trans => call.kind # "key" /\ call.kind # "auth"
  BY DEF Trans, Transceives
<1>e. \A r \in Rets \ {"ok"} : Return(r) => AnswerIsOurs'
  BY <1>0 DEF AnswerIsOurs, Returned, Return, OutType
<1>g. "fault" \in Rets \ {"ok"} /\ "EIO" \in Rets \ {"ok"} /\ "ETIMEDOUT" \in Rets \ {"ok"}
  BY DEF Rets
<1>h. pc' # "ready" => AnswerIsOurs'
  BY DEF AnswerIsOurs, Returned
<1>k. KeySteps /\ AuthSteps /\ TransSteps /\ CommandSteps /\ ModemSteps
  BY DEF BaseInv, Steps, Commands
<1>1. CASE FifoRead
  <2> SUFFICES ASSUME ~past'.fault, pc' = "ready", (call.tx_len <= FIFO)'
               PROVE  AnswerIsOurs'
    BY DEF AnswerIsOurs, Returned
  <2> DEFINE got == Least(call.room, Len(fifo))
  <2>1. /\ pc = "read" /\ UNCHANGED <<call, cmd, modem, past>>
        /\ fifo' = SubSeq(fifo, got + 1, Len(fifo))
        /\ out' = [out EXCEPT !.rx = SubSeq(fifo, 1, got)]
    BY <1>1 DEF FifoRead, Works
  <2>2. OwnAnswer /\ Fits
    BY <2>1 DEF Ours, Fits
  <2>3. Trans /\ Started /\ modem = "idle" /\ call.room >= 1 /\ fifo # <<>>
    BY <1>b, <1>k, <2>1, <2>2 DEF KeySteps, AuthSteps, TransSteps, Started, Done, CommandSteps,
         ModemSteps, OwnAnswer
  <2>4. got \in Nat /\ got <= Len(fifo) /\ got >= 1
    <3>1. Len(fifo) >= 1
      BY <1>0, <2>3, EmptySeq
    <3> QED BY <1>0, <2>3, <3>1 DEF Least
  <2>5. out'.rx = SubSeq(fifo, 1, got)
    BY <1>0, <2>1 DEF OutType
  <2> HIDE DEF got
  <2>6. out'.rx # <<>> /\ out'.rx \o fifo' = fifo
    BY <1>0, <2>1, <2>4, <2>5, ReadRest
  <2>7. fifo = Whole
    BY <2>1, <2>2, <2>3 DEF OwnAnswer
  <2>8. call'.kind # "auth"
    BY <1>c, <2>1, <2>3
  <2>9. out'.rx \o fifo' = Bytes(call'.n, "rsp", 0, Least(FIFO, past'.len))
    BY <2>1, <2>6, <2>7 DEF Whole
  <2> QED BY <2>6, <2>8, <2>9 DEF AnswerIsOurs
<1>2. CASE ReadCollision
  <2> SUFFICES ASSUME ~past'.fault, (call.tx_len <= FIFO)' PROVE AnswerIsOurs'
    BY DEF AnswerIsOurs, Returned
  <2>1. pc = "collision" /\ UNCHANGED <<call, fifo, past>> /\ out'.rx = out.rx
    BY <1>0, <1>2 DEF ReadCollision, Works, chip, Return, OutType
  <2>2. OwnAnswer /\ Fits /\ Trans
    BY <1>b, <1>k, <2>1 DEF Ours, Fits, KeySteps, AuthSteps
  <2>3. out.rx # <<>> /\ out.rx \o fifo = Whole
    BY <2>1, <2>2 DEF OwnAnswer
  <2>4. call'.kind # "auth"
    BY <1>c, <2>1, <2>2
  <2>5. out'.rx # <<>> /\ out'.rx \o fifo' = Bytes(call'.n, "rsp", 0, Least(FIFO, past'.len))
    BY <2>1, <2>3 DEF Whole
  <2> QED BY <2>4, <2>5 DEF AnswerIsOurs
<1>3. CASE ReadKeyError
  <2>1. pc = "keyerr" /\ UNCHANGED call
    BY <1>3 DEF ReadKeyError
  <2>2. call.kind = "key"
    BY <1>b, <1>k, <2>1 DEF AuthSteps, TransSteps
  <2> QED BY <1>c, <2>1, <2>2 DEF AnswerIsOurs, Trans
<1>4. CASE ReadControl
  <2> SUFFICES ASSUME ~past'.fault PROVE AnswerIsOurs'
    BY DEF AnswerIsOurs
  <2>1. pc = "crypto" /\ UNCHANGED <<call, past>>
    BY <1>4 DEF ReadControl, Works
  <2>2. call.kind = "auth" /\ cmd = "IDLE"
    BY <1>b, <1>k, <2>1 DEF KeySteps, TransSteps, CommandSteps, Done
  <2>3. past.len > 0
    BY <2>1, <2>2 DEF Ours, OwnAuth, Done
  <2> QED BY <1>c, <2>1, <2>2, <2>3 DEF AnswerIsOurs, Trans
<1>5. CASE \/ CommandIdle \/ ClearInterrupts \/ TimerControl \/ TimerReload \/ FifoWrite \/ StartCommand
  <2>1. AfterTimer # "ready"
    BY <1>b, AfterTimerIs DEF Trans
  <2>2. CASE StartCommand
    <3>1. pc' # "ready" \/ Return("fault")
      BY <1>0, <1>b, <1>k, <2>2, StartIs DEF StartGoes, Checks, KeySteps, TransSteps, Trans
    <3> QED BY <1>e, <1>g, <1>h, <3>1
  <2>3. CASE ~StartCommand
    <3>1. pc' # "ready" \/ Return("fault")
      BY <1>5, <2>1, <2>3 DEF CommandIdle, ClearInterrupts, TimerControl, TimerReload, FifoWrite,
           Checks, Drops
    <3> QED BY <1>e, <1>g, <1>h, <3>1
  <2> QED BY <2>2, <2>3
<1>6. CASE \/ FillMore \/ ReadStatus \/ ReadErrorFlag \/ ReadInterruptRq \/ ClearTimer
           \/ ReadCommand \/ ClearRx \/ ReadLength \/ ReadSecondaryStatus
  <2>1. AfterWait # "ready"
    BY <1>b, AfterWaitIs DEF Trans
  <2>2. pc' # "ready" \/ Return("EIO") \/ Return("ETIMEDOUT")
    BY <1>6, <2>1 DEF FillMore, ReadStatus, ReadErrorFlag, ReadInterruptRq, ClearTimer, ReadCommand,
         ClearRx, Drops, ReadLength, ReadSecondaryStatus, AfterStatus, AfterError
  <2> QED BY <1>e, <1>g, <1>h, <2>2
<1>7. CASE AccessFails
  <2>a. AfterWait # "ready"
    BY <1>b, AfterWaitIs DEF Trans
  <2>1. pc' # "ready" \/ Return("fault") \/ Return("ETIMEDOUT")
    BY <1>7, <2>a DEF AccessFails, Aborts, Ignored, TimerControlLost, ClearTimerLost, StatusLost,
         AfterStatus, AfterError
  <2> QED BY <1>e, <1>g, <1>h, <2>1
<1> QED BY <1>1, <1>2, <1>3, <1>4, <1>5, <1>6, <1>7 DEF Access

(* The chip ends the frame of this exchange, and the answer to it comes    *)
(* into an empty FIFO byte by byte.                                        *)
LEMMA OursChip ==
    ASSUME BaseInv, Ours, Chip
    PROVE  Ours'
<1>0. /\ past \in PastType /\ past.len \in Nat /\ FIFO \in Nat /\ call.n \in Nat /\ sent \in Nat
      /\ air.by \in Nat /\ CommandSteps /\ ModemSteps /\ answer \in Seq(Byte) /\ fifo \in Seq(Byte)
  BY TypesAre, SizeAssumption DEF BaseInv, GhostOK, PastType, Commands, HostOK, ChipOK, CallType
<1>1. UNCHANGED <<pc, call, sent, cur, out>>
  BY DEF Chip, ChipTransmits, ChipTxEnd, TimerExpires, ChipRxBegin, ChipReceives,
         ChipRxEnd, ChipLoadsKey, host
<1>2. past'.fault = past.fault
  BY <1>0 DEF Chip, ChipTransmits, ChipTxEnd, TimerExpires, ChipRxBegin, ChipReceives,
         ChipRxEnd, ChipLoadsKey, PastType
<1>3. /\ Trans' = Trans /\ Fits' = Fits /\ Started' = Started /\ BeforeStart' = BeforeStart
  BY <1>1 DEF Trans, Fits, Started, BeforeStart
<1>4. cmd' = cmd \/ cmd' = "IDLE"
  BY DEF Chip, ChipTransmits, ChipTxEnd, TimerExpires, ChipRxBegin, ChipReceives,
         ChipRxEnd, ChipLoadsKey
<1>5. modem' = "tx" => modem = "tx" /\ air'.by = air.by
  <2>1. CASE ChipTransmits
    BY <1>0, <2>1, TypesAre DEF ChipTransmits, BaseInv, ChipOK
  <2>2. CASE ChipTxEnd \/ TimerExpires \/ ChipRxBegin \/ ChipReceives \/ ChipRxEnd \/ ChipLoadsKey
    BY <2>2 DEF ChipTxEnd, TimerExpires, ChipRxBegin, ChipReceives, ChipRxEnd, ChipLoadsKey, card
  <2> QED BY <2>1, <2>2 DEF Chip
<1>6. ~past.fault => OwnFrame'
  <2>1. Ours => (~past.fault => OwnFrame)
    BY DEF Ours
  <2> QED BY <1>1, <1>3, <1>4, <1>5, <2>1 DEF OwnFrame
<1>7. pc = "ready" /\ out.ret = "ok" => UNCHANGED <<fifo, call>> /\ past'.len = past.len
  <2> SUFFICES ASSUME pc = "ready", out.ret = "ok" PROVE UNCHANGED <<fifo, call>> /\ past'.len = past.len
    OBVIOUS
  <2>1. cmd = "IDLE" /\ modem = "idle"
    BY <1>0 DEF CommandSteps, ModemSteps
  <2>2. TimerExpires
    BY <2>1 DEF Chip, ChipTransmits, ChipTxEnd, ChipRxBegin, ChipReceives, ChipRxEnd, ChipLoadsKey
  <2> QED BY <1>0, <1>1, <2>2 DEF TimerExpires, PastType
<1>8. AnswerIsOurs'
  BY <1>1, <1>2, <1>7 DEF Ours, AnswerIsOurs, Returned
<1>9. ~past.fault => OwnAnswer'
  <2> SUFFICES ASSUME ~past.fault PROVE OwnAnswer'
    OBVIOUS
  <2>1. OwnFrame /\ OwnAnswer
    BY DEF Ours
  <2>2. CASE cmd = "IDLE"
    <3>1. modem = "idle"
      BY <1>0, <2>2 DEF ModemSteps
    <3>2. TimerExpires
      BY <2>2, <3>1 DEF Chip, ChipTransmits, ChipTxEnd, ChipRxBegin, ChipReceives, ChipRxEnd, ChipLoadsKey
    <3>3. Kept /\ UNCHANGED <<modem, answer, fifo>>
      BY <1>0, <1>1, <3>2 DEF TimerExpires, PastType, Kept, card
    <3>4. Whole' = Whole
      BY <3>3, KeptMeans
    <3> QED BY <1>1, <1>3, <2>1, <3>1, <3>3, <3>4 DEF OwnAnswer
  <2>3. CASE cmd # "IDLE" /\ ~(Trans /\ Started)
    BY <1>1, <1>3, <2>3 DEF OwnAnswer, Started, Done
  <2>4. CASE cmd # "IDLE" /\ Trans /\ Started
    <3>1. cmd = "TRANSCEIVE" /\ pc \notin Done
      BY <1>0, <2>1, <2>4 DEF OwnFrame, CommandSteps
    <3>2. pc \notin {"read", "collision"}
      BY <3>1 DEF Done
    <3> SUFFICES ASSUME Fits
                 PROVE  /\ modem' \in {"await", "recv"} => \E k \in 0..past'.len : Coming(k)'
                        /\ modem' = "idle" => fifo' = Whole'
      BY <1>1, <1>3, <3>2 DEF OwnAnswer
    <3>3. CASE ChipTransmits
      BY <3>3 DEF ChipTransmits
    <3>4. CASE ChipTxEnd
      <4>1. PICK n \in RespLens :
               /\ answer' = Bytes(air.by, "rsp", 0, n)
               /\ past' = [past EXCEPT !.len = n, !.errs = {}, !.expired = FALSE,
                                     !.lost = @ \/ (cmd = "AUTHENT1" /\ ~timer.start)]
        BY <3>4 DEF ChipTxEnd
      <4>2. n \in Nat /\ past'.len = n /\ modem' = "await" /\ UNCHANGED fifo /\ fifo = <<>> /\ modem = "tx"
        BY <1>0, <3>1, <3>4, <4>1, LensAssumption DEF ChipTxEnd, PastType
      <4>3. air.by = call.n
        BY <2>1, <2>4, <4>2 DEF OwnFrame
      <4>4. Least(FIFO, 0) = 0 /\ n - 0 = n
        BY <1>0, <4>2 DEF Least
      <4>5. Bytes(call.n, "rsp", 0, 0) = <<>>
        BY <1>0, NoBytes
      <4>6. answer' = Bytes(call'.n, "rsp", 0, past'.len - 0)
        BY <1>1, <4>1, <4>2, <4>3, <4>4
      <4>7. fifo' = Bytes(call'.n, "rsp", 0, Least(FIFO, 0))
        BY <1>1, <4>2, <4>4, <4>5
      <4>8. Coming(0)' /\ 0 \in 0..past'.len
        BY <4>2, <4>6, <4>7 DEF Coming
      <4> QED BY <4>2, <4>8
    <3>5. CASE TimerExpires
      <4>1. Kept /\ UNCHANGED <<modem, answer, fifo>>
        BY <1>0, <1>1, <3>5 DEF TimerExpires, PastType, Kept, card
      <4>2. past'.len = past.len
        BY <4>1 DEF Kept
      <4>3. Whole' = Whole /\ \A k : Coming(k) <=> Coming(k)'
        BY <4>1, KeptMeans
      <4> QED BY <2>1, <2>4, <3>2, <4>1, <4>2, <4>3 DEF OwnAnswer
    <3>6. CASE ChipRxBegin
      <4>1. Kept /\ modem = "await" /\ modem' = "recv" /\ UNCHANGED <<answer, fifo>>
        BY <1>1, <3>6 DEF ChipRxBegin, Kept, card
      <4>2. past'.len = past.len
        BY <4>1 DEF Kept
      <4>3. \A k : Coming(k) <=> Coming(k)'
        BY <4>1, KeptMeans
      <4> QED BY <2>1, <2>4, <4>1, <4>2, <4>3 DEF OwnAnswer
    <3>7. CASE ChipReceives
      <4>1. /\ modem = "recv" /\ modem' = "recv" /\ answer # <<>> /\ answer' = Tail(answer)
            /\ fifo' = Pushed(<<Head(answer)>>)
        BY <3>1, <3>7 DEF ChipReceives
      <4>2. past'.len = past.len
        BY <1>0, <3>7 DEF ChipReceives, PastType
      <4>3. PICK k \in 0..past.len : Coming(k)
        BY <2>1, <2>4, <4>1 DEF OwnAnswer
      <4>4. k \in Nat /\ past.len - k \in Nat
        BY <1>0
      <4>5. PICK len \in Nat : len = past.len - k
        BY <4>4
      <4>6. answer = Bytes(call.n, "rsp", k, len) /\ fifo = Bytes(call.n, "rsp", 0, Least(FIFO, k))
        BY <4>3, <4>5 DEF Coming
      <4>7. len >= 1
        <5>1. Len(answer) = len
          BY <1>0, <4>4, <4>6, RestIs
        <5>2. Len(answer) # 0
          BY <1>0, <4>1, EmptySeq
        <5> QED BY <5>1, <5>2
      <4>8. /\ Head(answer) = [of |-> call.n, dir |-> "rsp", i |-> k + 1]
            /\ Tail(answer) = Bytes(call.n, "rsp", k + 1, len - 1)
        <5>1. /\ Head(Bytes(call.n, "rsp", k, len)) = [of |-> call.n, dir |-> "rsp", i |-> k + 1]
              /\ Tail(Bytes(call.n, "rsp", k, len)) = Bytes(call.n, "rsp", k + 1, len - 1)
          BY <1>0, <4>4, <4>7, BytesTail, ZenonT(60)
        <5> QED BY <4>6, <5>1, Zenon
      <4>9. fifo' = Bytes(call.n, "rsp", 0, Least(FIFO, k + 1))
        <5>1. PICK b : b = Head(answer)
          OBVIOUS
        <5>2. Pushed(<<b>>) = Bytes(call.n, "rsp", 0, Least(FIFO, k + 1))
          BY <1>0, <4>4, <4>6, <4>8, <5>1, PushedNext
        <5> QED BY <4>1, <5>1, <5>2
      <4>10. k + 1 \in 0..past'.len /\ len - 1 = past'.len - (k + 1)
        BY <1>0, <4>2, <4>4, <4>5, <4>7
      <4>11. answer' = Bytes(call'.n, "rsp", k + 1, past'.len - (k + 1))
        BY <1>1, <4>1, <4>8, <4>10
      <4>12. Coming(k + 1)'
        BY <1>1, <4>9, <4>11 DEF Coming
      <4> QED BY <4>1, <4>10, <4>12
    <3>8. CASE ChipRxEnd
      <4>1. modem = "recv" /\ modem' = "idle" /\ answer = <<>> /\ Kept /\ UNCHANGED fifo
        BY <1>1, <3>8 DEF ChipRxEnd, Kept
      <4>2. PICK k \in 0..past.len : Coming(k)
        BY <2>1, <2>4, <4>1 DEF OwnAnswer
      <4>3. k \in Nat /\ past.len - k \in Nat
        BY <1>0
      <4>4. PICK len \in Nat : len = past.len - k
        BY <4>3
      <4>5. answer = Bytes(call.n, "rsp", k, len) /\ fifo = Bytes(call.n, "rsp", 0, Least(FIFO, k))
        BY <4>2, <4>4 DEF Coming
      <4>6. len = 0
        <5>1. Len(answer) = len
          BY <1>0, <4>3, <4>5, RestIs
        <5>2. Len(answer) = 0
          BY <4>1
        <5> QED BY <5>1, <5>2
      <4>7. k = past.len
        BY <1>0, <4>3, <4>4, <4>6
      <4>8. fifo = Whole
        BY <4>5, <4>7 DEF Whole
      <4> QED BY <4>1, <4>8, KeptMeans
    <3>9. CASE ChipLoadsKey
      BY <3>1, <3>9 DEF ChipLoadsKey
    <3> QED BY <3>3, <3>4, <3>5, <3>6, <3>7, <3>8, <3>9 DEF Chip
  <2> QED BY <2>2, <2>3, <2>4
<1>10. ~past.fault => OwnAuth'
  <2> SUFFICES ASSUME ~past.fault PROVE OwnAuth'
    OBVIOUS
  <2>1. OwnAuth
    BY DEF Ours
  <2>2. CASE ChipTxEnd
    <3>1. PICK n \in RespLens :
             /\ answer' = Bytes(air.by, "rsp", 0, n)
             /\ past' = [past EXCEPT !.len = n, !.errs = {}, !.expired = FALSE,
                                   !.lost = @ \/ (cmd = "AUTHENT1" /\ ~timer.start)]
      BY <2>2 DEF ChipTxEnd
    <3>2. n \in Nat /\ past'.len = n /\ modem' = "await" /\ modem = "tx" /\ UNCHANGED cmd
      BY <1>0, <2>2, <3>1, LensAssumption DEF ChipTxEnd, PastType
    <3>3. cmd # "IDLE"
      BY <1>0, <3>2 DEF ModemSteps
    <3>4. answer' # <<>> => past'.len > 0
      <4>1. n = 0 => answer' = <<>>
        BY <1>0, <3>1, NoBytes
      <4> QED BY <3>2, <4>1
    <3> QED BY <1>1, <2>1, <3>2, <3>3, <3>4 DEF OwnAuth
  <2>3. CASE ChipRxBegin
    BY <1>1, <2>1, <2>3 DEF ChipRxBegin, OwnAuth
  <2>4. CASE ChipTransmits \/ TimerExpires
    <3>1. past'.len = past.len /\ UNCHANGED <<modem, cmd, answer>>
      BY <1>0, <2>4 DEF ChipTransmits, TimerExpires, PastType, card
    <3> QED BY <1>1, <2>1, <3>1 DEF OwnAuth
  <2>5. CASE ChipReceives
    <3>1. past'.len = past.len /\ UNCHANGED <<modem, cmd>> /\ modem = "recv"
      BY <1>0, <2>5 DEF ChipReceives, PastType
    <3> QED BY <1>1, <2>1, <3>1 DEF OwnAuth
  <2>6. CASE ChipRxEnd
    BY <1>1, <2>1, <2>6 DEF ChipRxEnd, OwnAuth
  <2>7. CASE ChipLoadsKey
    <3>1. /\ cmd = "LOAD_KEY" /\ UNCHANGED <<modem, answer, past>>
      BY <2>7 DEF ChipLoadsKey, card
    <3> QED BY <1>0, <1>1, <2>1, <3>1 DEF OwnAuth, CommandSteps, ModemSteps
  <2> QED BY <2>2, <2>3, <2>4, <2>5, <2>6, <2>7 DEF Chip
<1> QED BY <1>2, <1>6, <1>8, <1>9, <1>10 DEF Ours

(* An exchange that succeeds, in which no access failed, has read the      *)
(* answer to its own frame: for every FIFO size, every sequence of         *)
(* exchanges before it (timed out, failed halfway, with an answer still on *)
(* its way) and every interleaving with the chip.                          *)
THEOREM AnswerIsOursHolds == Spec => []AnswerIsOurs
<1>1. Init => Ours
  <2> SUFFICES ASSUME Init PROVE Ours
    OBVIOUS
  <2>1. pc = "ready" /\ call.kind = "ab" /\ call.n = 0 /\ cmd = "IDLE"
    BY DEF Init, NoCall
  <2> QED BY <2>1 DEF Ours, OwnFrame, OwnAnswer, OwnAuth, AnswerIsOurs, Returned, Started, BeforeStart,
        Early, Waiting, Done
<1>2. BaseInv /\ Ours /\ [Next]_vars => Ours'
  <2> SUFFICES ASSUME BaseInv, Ours, [Next]_vars PROVE Ours'
    OBVIOUS
  <2>1. CASE Access
    BY <2>1, OursAccess, OursReturned DEF Ours
  <2>2. CASE AccessFails
    <3>1. Fails
      BY <2>2 DEF AccessFails, Aborts, Ignored, TimerControlLost, ClearTimerLost, StatusLost
    <3>2. past \in PastType
      BY TypesAre DEF BaseInv, GhostOK
    <3>3. past'.fault
      BY <3>1, <3>2 DEF Fails, PastType
    <3> QED BY <2>2, <3>3, OursReturned DEF Ours
  <2>3. CASE Chip
    BY <2>3, OursChip
  <2>4. CASE UNCHANGED vars
    <3>1. Kept /\ UNCHANGED <<answer, fifo>>
      BY <2>4 DEF Kept, vars, host, chip, card
    <3>2. UNCHANGED <<pc, call, sent, cur, out, cmd, modem, air, answer, fifo, past>>
      BY <2>4 DEF vars, host, chip, card
    <3>3. \A k : Coming(k) <=> Coming(k)'
      BY <3>1, KeptMeans
    <3>4. Trans' = Trans /\ Fits' = Fits /\ Whole' = Whole /\ Started' = Started /\ BeforeStart' = BeforeStart
      BY <3>2 DEF Trans, Fits, Whole, Started, BeforeStart
    <3>5. ~past.fault => OwnFrame' /\ OwnAuth'
      BY <3>2, <3>4 DEF Ours, OwnFrame, OwnAuth
    <3>6. ~past.fault => OwnAnswer'
      BY <3>2, <3>3, <3>4 DEF Ours, OwnAnswer
    <3>7. AnswerIsOurs'
      BY <3>2 DEF Ours, AnswerIsOurs, Returned
    <3> QED BY <3>2, <3>5, <3>6, <3>7 DEF Ours
  <2>5. CASE ~(Access \/ AccessFails \/ Chip \/ UNCHANGED vars)
    <3>1. PICK kind \in Kinds : \E a \in Arguments(kind) :
              /\ kind = "auth" => EnterAuth(kind, a[1], a[2])
              /\ kind # "auth" => Enter(kind, a[1], a[2])
      BY <2>5, Entered
    <3>2. PICK a \in Arguments(kind) :
              /\ kind = "auth" => EnterAuth(kind, a[1], a[2])
              /\ kind # "auth" => Enter(kind, a[1], a[2])
      BY <3>1
    <3> QED BY <3>2, OursEnter
  <2> QED BY <2>1, <2>2, <2>3, <2>4, <2>5
<1>3. Ours => AnswerIsOurs
  BY DEF Ours
<1> QED BY <1>1, <1>2, <1>3, BaseHolds, PTL DEF Spec

---------------------------------------------------------------------------
(* The time limit.                                                         *)

(* rc632_timer_set finds a time that covers the caller's. *)
LEMMA TimerSetCovers ==
    ASSUME HostOK, TimerSet, call.kind \in Five
    PROVE  Covers(call'.timeout, load')
<1>1. PICK t \in Limits(call.kind) : load' \in Prescaled[t] /\ call' = [call EXCEPT !.timeout = t]
  BY DEF TimerSet
<1>2. t \in Timeouts \cup {50, 92, 140} /\ t \in Nat
  BY LimitsAre, Zenon
<1>3. t >= 1
  BY <1>2, TimeoutsAssumption, SMT
<1>4. load' \in best_prescaler(10 * t)
  <2>1. load' \in best_prescaler(t * TIMER_RELAX_FACTOR)
    BY <1>1, <1>2, Zenon DEF Prescaled
  <2>2. t * TIMER_RELAX_FACTOR = 10 * t
    BY <1>2, SMT DEF TIMER_RELAX_FACTOR
  <2> QED BY <2>1, <2>2, Zenon
<1>5. call'.timeout = t
  BY <1>1 DEF HostOK, CallType
<1>6. Covers(t, load')
  BY <1>2, <1>3, <1>4, best_prescalerCovers, SMT
<1> QED BY <1>5, <1>6, Zenon

(* No other access is followed by the one that loads the timer. *)
LEMMA ReloadFollows ==
    ASSUME TypeOK, Access \/ AccessFails, pc' = "reload"
    PROVE  TimerSet
<1>0. call.kind \in Five
  BY KindIs
<1>1. AfterTimer # "reload" /\ AfterWait # "reload"
  BY <1>0, AfterTimerIs, AfterWaitIs DEF Five, Transceives
<1>2. \A s : AfterStatus(s) # "reload" /\ AfterError(s) # "reload"
  BY DEF AfterStatus, AfterError
<1>3. ~StartCommand
  <2> SUFFICES ASSUME StartCommand PROVE FALSE
    OBVIOUS
  <2> DEFINE next == CASE call.kind \in Transceives -> "more" [] call.second -> "status"
                       [] OTHER -> "control"
  <2>1. Checks(next)
    BY Zenon DEF StartCommand
  <2>2. next # "reload"
    OBVIOUS
  <2> HIDE DEF next
  <2> QED BY <2>1, <2>2 DEF Checks, Return
<1>4. CASE TimerControl \/ TimerControlLost
  BY <1>4 DEF TimerControl, TimerControlLost
<1>5. CASE Access /\ ~TimerControl
  BY <1>1, <1>2, <1>3, <1>5 DEF Access, CommandIdle, ClearInterrupts, TimerReload, FifoWrite,
       FillMore, ReadStatus, ReadErrorFlag, ReadInterruptRq, ClearTimer, ReadCommand, ClearRx,
       ReadLength, FifoRead, ReadCollision, ReadKeyError, ReadSecondaryStatus, ReadControl, Checks, Drops, Return
<1>6. CASE AccessFails /\ ~TimerControlLost
  BY <1>1, <1>2, <1>6 DEF AccessFails, Aborts, Ignored, ClearTimerLost, StatusLost, Return
<1> QED BY <1>4, <1>5, <1>6

(* The timer is loaded with the time that the caller asked for, ten times, *)
(* up to a tenth more or less, whatever the time limit below 100 ms: of    *)
(* the prescalers whose divisor fits 8 bits the finest is near enough, and *)
(* the one whose time in whole microseconds is least is, before rounding,  *)
(* no longer.                                                              *)
THEOREM TimerCoversHolds == Spec => []TimerCovers
<1>1. Init => TimerCovers
  BY DEF Init, TimerCovers, Covered
<1>2. BaseInv /\ TimerCovers /\ [Next]_vars => TimerCovers'
  <2> SUFFICES ASSUME TypeOK, TimerCovers, [Next]_vars, pc' = "reload"
               PROVE  Covers(call'.timeout, load')
    BY SMT DEF BaseInv, TimerCovers, Covered, Covers
  <2>1. CASE Access \/ AccessFails
    <3>1. HostOK /\ call.kind \in Five
      BY TypesAre, KindIs
    <3> QED BY <2>1, <3>1, ReloadFollows, TimerSetCovers, Zenon
  <2>2. CASE Chip \/ UNCHANGED vars
    <3>1. UNCHANGED <<pc, call, load>>
      BY <2>2 DEF Chip, ChipTransmits, ChipTxEnd, TimerExpires, ChipRxBegin, ChipReceives,
             ChipRxEnd, ChipLoadsKey, host, vars
    <3>2. Covers(call.timeout, load)
      BY <3>1, SMT DEF TimerCovers, Covered, Covers
    <3> QED BY <3>1, <3>2, Zenon
  <2>3. CASE ~(Access \/ AccessFails \/ Chip \/ UNCHANGED vars)
    <3>1. PICK kind \in Kinds : \E a \in Arguments(kind) :
              /\ kind = "auth" => EnterAuth(kind, a[1], a[2])
              /\ kind # "auth" => Enter(kind, a[1], a[2])
      BY <2>3, Entered
    <3>2. PICK a \in Arguments(kind) :
              /\ kind = "auth" => EnterAuth(kind, a[1], a[2])
              /\ kind # "auth" => Enter(kind, a[1], a[2])
      BY <3>1
    <3>3. pc' \in {"idle", "fill"}
      BY <3>2 DEF Enter, EnterAuth
    <3> QED BY <3>3
  <2> QED BY <2>1, <2>2, <2>3
<1> QED BY <1>1, <1>2, BaseHolds, PTL DEF Spec
=============================================================================
