---------------------------- MODULE TargetsProofs ----------------------------
(***************************************************************************)
(* For every width of a byte and of a limb and every number of limbs: the  *)
(* shifts and comparisons of limbs are those of the numbers the limbs      *)
(* stand for, so the pool judges a share by its number, the compact form   *)
(* rounds the share target down by less than a unit, and the two ways to   *)
(* the target of a block agree.                                            *)
(***************************************************************************)
EXTENDS TargetsProperties, NaturalsInduction, WellFoundedInduction, TLAPS

\* What the code keeps: each target is the number it was computed from, and the
\* verdict is that on the last hash.
TargetsInv ==
  /\ shareTargetCoeff \in Coeffs
  /\ shareTarget = ToUint(Limit \div shareTargetCoeff)
  /\ shareTargetBits = GetCompact(shareTarget)
  /\ hash \in 0..(Limit - 1)
  /\ IF bits = NoBlock
     THEN blockTarget = ToUint(0) /\ verdict = "none"
     ELSE /\ bits \in Bits /\ FromBits(bits) \in 1..(Limit - 1)
          /\ blockTarget = ToUint(FromBits(bits))
          /\ verdict \in {"none", Judged(ToUint(hash))}

-----------------------------------------------------------------------------
\* Widths and powers

\* A limb has bits, a number has limbs; three bytes fit two limbs.
LEMMA Widths ==
  /\ LimbBits \in Nat \ {0, 1} /\ WIDTH \in Nat \ {0, 1} /\ ByteBits \in Nat \ {0}
  /\ Size \in Nat /\ Size > 3
  /\ LimbBits * WIDTH \in Nat /\ LimbBits * (WIDTH + 1) = LimbBits * WIDTH + LimbBits
  /\ ByteBits * Size = LimbBits * WIDTH
  /\ ByteBits * (Size - 3) \in Nat
  /\ ByteBits * (Size - 3) + 3 * ByteBits = LimbBits * WIDTH
  /\ 3 * ByteBits <= LimbBits + LimbBits
  /\ LimbBits + LimbBits <= LimbBits * WIDTH
<1>1. /\ ByteBits \in Nat \ {0} /\ WIDTH \in Nat \ {0, 1}
      /\ LimbBytes \in Nat \ {0, 1}
  BY WidthsAssumption
<1>2. LimbBits \in Nat \ {0, 1}
  BY WidthsAssumption DEF LimbBits
<1>3. PICK w \in Nat : WIDTH = 2 + w
  <2>1. WIDTH - 2 \in Nat
    BY <1>1
  <2> QED BY <1>1, <2>1
<1>4. /\ LimbBits * WIDTH = LimbBits + LimbBits + LimbBits * w
      /\ LimbBits * w \in Nat
      /\ LimbBits * (WIDTH + 1) = LimbBits * WIDTH + LimbBits
  <2> HIDE DEF LimbBits
  <2> QED BY <1>2, <1>3
<1>5. Size \in Nat /\ Size > 3
  BY <1>3, WidthsAssumption DEF Size
<1>6. ByteBits * Size = LimbBits * WIDTH
  BY <1>1 DEF Size, LimbBits
<1>7. 3 * ByteBits <= LimbBits + LimbBits
  BY WidthsAssumption DEF LimbBits
<1>8. PICK z \in Nat : Size = 3 + z /\ Size - 3 = z
  <2>1. Size - 3 \in Nat
    BY <1>5
  <2> QED BY <1>5, <2>1
<1>9. /\ ByteBits * (Size - 3) \in Nat
      /\ ByteBits * (Size - 3) + 3 * ByteBits = ByteBits * Size
  <2> HIDE DEF Size
  <2> QED BY <1>1, <1>8
<1> QED BY <1>1, <1>2, <1>4, <1>5, <1>6, <1>7, <1>9

\* A set of numbers has a least one.
LEMMA Least ==
  ASSUME NEW S \in SUBSET Nat, S # {}
  PROVE  \E p \in S : \A q \in S : p <= q
<1> DEFINE Before == OpToRel(<, Nat)
<1>1. PICK p \in S : \A q \in S : ~(<<q, p>> \in Before)
  <2>1. IsWellFoundedOn(Before, Nat)
    BY NatLessThanWellFounded
  <2> HIDE DEF Before
  <2> QED BY <2>1, WFMin
<1>2. ASSUME NEW q \in S PROVE p <= q
  <2>1. p \in Nat /\ q \in Nat /\ ~(q < p)
    BY <1>1 DEF OpToRel
  <2> QED BY <2>1
<1> QED BY <1>2

\* A power of two is a positive number.
LEMMA PowerNat ==
  ASSUME NEW n \in Nat, n <= LimbBits * WIDTH
  PROVE  2^n \in Nat \ {0}
<1>1. n \in 0..(LimbBits * (WIDTH + 1))
  BY Widths
<1> QED BY <1>1, PowersAssumption

\* Powers multiply.
LEMMA PowerSum ==
  ASSUME NEW a \in Nat, NEW b \in Nat, a + b <= LimbBits * (WIDTH + 1)
  PROVE  2^(a + b) = 2^a * 2^b
<1> DEFINE S == {n \in 0..b : 2^(a + n) # 2^a * 2^n}
<1>1. LimbBits * (WIDTH + 1) \in Nat
  BY Widths
<1>2. \A n \in 0..b : n \in Nat /\ a + n \in 0..(LimbBits * (WIDTH + 1)) /\ n \in 0..(LimbBits * (WIDTH + 1))
  BY <1>1
<1>3. \A n \in 0..b : 2^n \in Nat /\ 2^(a + n) \in Nat
  BY <1>2, PowersAssumption
<1>4. S = {}
  <2> SUFFICES ASSUME S # {} PROVE FALSE
    OBVIOUS
  <2>1. PICK p \in S : \A q \in S : p <= q
    <3>1. S \in SUBSET Nat
      OBVIOUS
    <3> HIDE DEF S
    <3> QED BY <3>1, Least
  <2>2. p \in 0..b /\ 2^(a + p) # 2^a * 2^p
    OBVIOUS
  <2>3. p # 0
    <3> SUFFICES ASSUME p = 0 PROVE FALSE
      OBVIOUS
    <3>1. a + p = a /\ 2^p = 1
      OBVIOUS
    <3>2. 2^a \in Nat
      BY <1>1, PowersAssumption
    <3> QED BY <2>2, <3>1, <3>2
  <2>4. PICK n \in 0..b : p = n + 1 /\ a + p = (a + n) + 1
    <3>1. p - 1 \in 0..b /\ p = (p - 1) + 1 /\ a + p = (a + (p - 1)) + 1
      BY <2>2, <2>3
    <3> QED BY <3>1
  <2>5. 2^(a + n) = 2^a * 2^n
    <3>1. ~(p <= n)
      BY <2>4
    <3> QED BY <2>1, <3>1
  <2>6. 2^p = 2 * 2^n /\ 2^(a + p) = 2 * 2^(a + n)
    BY <1>2, <2>4, PowersAssumption
  <2> DEFINE x == 2^a
             y == 2^n
  <2>7. x \in Nat /\ y \in Nat
    BY <1>1, <1>3, PowersAssumption
  <2>8. 2^(a + p) = 2 * (x * y) /\ 2^a * 2^p = x * (2 * y)
    BY <2>5, <2>6
  <2> HIDE DEF x, y
  <2>9. 2 * (x * y) = x * (2 * y)
    BY <2>7
  <2> QED BY <2>2, <2>8, <2>9
<1>5. b \in 0..b
  OBVIOUS
<1> QED BY <1>4, <1>5

\* Quotient and rest are the only ones.
LEMMA Euclid ==
  ASSUME NEW b \in Nat \ {0}, NEW q \in Nat, NEW r \in 0..(b - 1)
  PROVE  /\ q * b + r \in Nat
         /\ (q * b + r) \div b = q /\ (q * b + r) % b = r
<1> DEFINE x == q * b + r
           k == x \div b
           t == x % b
<1>1. q * b \in Nat /\ x \in Nat
  OBVIOUS
<1>2. k \in Nat /\ t \in 0..(b - 1) /\ x = b * k + t
  <2> HIDE DEF x
  <2> QED BY <1>1
<1> HIDE DEF k, t
<1>3. ASSUME k > q PROVE FALSE
  <2>1. PICK d \in Nat : k = q + 1 + d
    <3>1. k - q - 1 \in Nat
      BY <1>2, <1>3
    <3> QED BY <1>2, <3>1
  <2>2. b * k = q * b + b + d * b /\ d * b \in Nat
    BY <2>1
  <2> QED BY <1>1, <1>2, <2>2 DEF x
<1>4. ASSUME k < q PROVE FALSE
  <2>1. PICK d \in Nat : q = k + 1 + d
    <3>1. q - k - 1 \in Nat
      BY <1>2, <1>4
    <3> QED BY <1>2, <3>1
  <2>2. q * b = b * k + b + d * b /\ d * b \in Nat /\ b * k \in Nat
    BY <1>2, <2>1
  <2> QED BY <1>1, <1>2, <2>2 DEF x
<1>5. k = q
  BY <1>2, <1>3, <1>4
<1>6. t = r
  <2>1. b * k = q * b
    BY <1>5
  <2> QED BY <1>1, <1>2, <2>1 DEF x
<1> QED BY <1>1, <1>5, <1>6 DEF k, t

\* Quotients of quotients.
LEMMA QuotientTwice ==
  ASSUME NEW x \in Nat, NEW a \in Nat \ {0}, NEW b \in Nat \ {0}
  PROVE  (x \div a) \div b = x \div (a * b)
<1> DEFINE k == x \div a
           r == x % a
           q == k \div b
           s == k % b
<1>1. k \in Nat /\ r \in 0..(a - 1) /\ x = a * k + r
  OBVIOUS
<1> HIDE DEF k, r
<1>2. q \in Nat /\ s \in 0..(b - 1) /\ k = b * q + s
  BY <1>1
<1> HIDE DEF q, s
<1>3. a * b \in Nat \ {0}
  OBVIOUS
<1>4. a * s + r \in 0..(a * b - 1)
  <2>1. PICK d \in Nat : b = s + 1 + d
    <3>1. b - s - 1 \in Nat
      BY <1>2
    <3> QED BY <1>2, <3>1
  <2>2. a * b = a * s + a + a * d /\ a * d \in Nat /\ a * s \in Nat
    BY <1>2, <2>1
  <2> QED BY <1>1, <1>3, <2>2
<1>5. x = q * (a * b) + (a * s + r)
  <2>1. a * k = q * (a * b) + a * s
    BY <1>2
  <2>2. q * (a * b) \in Nat /\ a * s \in Nat
    BY <1>2, <1>3
  <2> QED BY <1>1, <2>1, <2>2
<1>6. x \div (a * b) = q
  BY <1>2, <1>3, <1>4, <1>5, Euclid
<1> QED BY <1>6 DEF q, k

\* Quotients keep the order and are small for a small number.
LEMMA QuotientOrder ==
  ASSUME NEW a \in Nat \ {0}, NEW x \in Nat, NEW y \in Nat
  PROVE  /\ x <= y => x \div a <= y \div a
         /\ \A c \in Nat : x < a * c => x \div a < c
         /\ a * (x \div a) <= x /\ x < a * (x \div a) + a
<1> DEFINE p == x \div a
           q == y \div a
<1>1. p \in Nat /\ x % a \in 0..(a - 1) /\ x = a * p + (x % a)
  OBVIOUS
<1>2. q \in Nat /\ y % a \in 0..(a - 1) /\ y = a * q + (y % a)
  OBVIOUS
<1> HIDE DEF p, q
<1>3. ASSUME NEW c \in Nat, c <= p PROVE a * c <= a * p
  <2>1. PICK d \in Nat : p = c + d
    <3>1. p - c \in Nat
      BY <1>1, <1>3
    <3> QED BY <1>1, <3>1
  <2>2. a * p = a * c + a * d /\ a * d \in Nat /\ a * c \in Nat
    BY <2>1
  <2> QED BY <2>2
<1>4. ASSUME NEW c \in Nat, x < a * c PROVE p < c
  <2> SUFFICES ASSUME c <= p PROVE FALSE
    BY <1>1
  <2>1. a * c <= a * p /\ a * c \in Nat /\ a * p \in Nat
    BY <1>1, <1>3
  <2> QED BY <1>1, <1>4, <2>1
<1>5. ASSUME x <= y PROVE p <= q
  <2>1. q + 1 \in Nat /\ a * (q + 1) = a * q + a /\ a * q \in Nat
    BY <1>2
  <2>2. x < a * (q + 1)
    BY <1>2, <1>5, <2>1
  <2>3. p < q + 1
    BY <1>4, <2>1, <2>2
  <2> QED BY <1>1, <1>2, <2>3
<1>6. a * p \in Nat
  BY <1>1
<1>7. a * p <= x /\ x < a * p + a
  BY <1>1, <1>6
<1> QED BY <1>4, <1>5, <1>7 DEF p, q

\* A common factor falls out of a quotient.
LEMMA Cancel ==
  ASSUME NEW n \in Nat, NEW a \in Nat \ {0}, NEW c \in Nat \ {0}
  PROVE  (n * c) \div c = n /\ (n * c) \div (c * a) = n \div a
<1>1. n * c \in Nat /\ n * c = n * c + 0 /\ 0 \in 0..(c - 1)
  OBVIOUS
<1>2. (n * c) \div c = n
  BY <1>1, Euclid
<1> QED BY <1>1, <1>2, QuotientTwice

\* A rest of a multiple, taken of the number or of its rest.
LEMMA RestOfMultiple ==
  ASSUME NEW x \in Nat, NEW u \in Nat \ {0}, NEW v \in Nat \ {0}
  PROVE  /\ (x * v) % (u * v) = (x % u) * v
         /\ ((x % (u * v)) * v) % (u * v) = (x % u) * v
<1>1. ASSUME NEW y \in Nat PROVE (y * v) % (u * v) = (y % u) * v
  <2> DEFINE p == y \div u
             q == y % u
  <2>1. p \in Nat /\ q \in 0..(u - 1) /\ y = u * p + q
    OBVIOUS
  <2> HIDE DEF p, q
  <2>2. PICK d \in Nat : u = q + 1 + d
    <3>1. u - q - 1 \in Nat
      BY <2>1
    <3> QED BY <2>1, <3>1
  <2>3. u * v = q * v + v + d * v /\ d * v \in Nat /\ q * v \in Nat /\ u * v \in Nat
    BY <2>1, <2>2
  <2>4. u * v \in Nat \ {0} /\ q * v \in 0..(u * v - 1)
    BY <2>3
  <2>5. y * v = p * (u * v) + q * v
    BY <2>1
  <2>6. (y * v) % (u * v) = q * v
    <3> DEFINE m == u * v
               z == q * v
    <3>1. m \in Nat \ {0} /\ z \in 0..(m - 1)
      BY <2>4
    <3>2. y * v = p * m + z
      BY <2>5
    <3> HIDE DEF m, z
    <3>3. (p * m + z) % m = z
      BY <2>1, <3>1, Euclid
    <3>4. (y * v) % m = z
      BY <3>2, <3>3
    <3> QED BY <3>4 DEF m, z
  <2> QED BY <2>6 DEF q
<1> DEFINE m == u * v
           s == x \div m
           r == x % m
<1>2. m \in Nat \ {0}
  OBVIOUS
<1>3. s \in Nat /\ r \in 0..(m - 1) /\ x = m * s + r
  <2> HIDE DEF m
  <2> QED BY <1>2
<1> HIDE DEF s, r
<1>4. r \in Nat
  BY <1>2, <1>3
<1> DEFINE p == r \div u
           q == r % u
<1>5. p \in Nat /\ q \in 0..(u - 1) /\ r = u * p + q
  BY <1>4
<1> HIDE DEF p, q
<1>6. v * s + p \in Nat /\ x = (v * s + p) * u + q
  <2>1. m * s = (v * s) * u
    BY <1>3
  <2>2. (v * s + p) * u = (v * s) * u + u * p /\ v * s \in Nat
    BY <1>3, <1>5
  <2>3. (v * s) * u \in Nat /\ u * p \in Nat
    BY <1>5, <2>2
  <2> HIDE DEF m
  <2> QED BY <1>3, <1>5, <2>1, <2>2, <2>3
<1>7. x % u = q
  BY <1>5, <1>6, Euclid
<1>8. (r * v) % m = q * v
  BY <1>1, <1>4 DEF q
<1> QED BY <1>1, <1>7, <1>8 DEF r

\* A window across two limbs: the low part of the quotient comes from the limb,
\* the high part from its neighbour.
LEMMA TwoLimbs ==
  ASSUME NEW n \in Nat, NEW u \in Nat \ {0}, NEW v \in Nat \ {0}
  PROVE  (n \div u) % (u * v)
         = ((n % (u * v)) \div u) + ((((n \div (u * v)) % (u * v)) * v) % (u * v))
<1> DEFINE m == u * v
           y == n \div m
           r == n % m
<1>1. m \in Nat \ {0}
  OBVIOUS
<1>2. y \in Nat /\ r \in 0..(m - 1) /\ n = m * y + r
  <2> HIDE DEF m
  <2> QED BY <1>1
<1> HIDE DEF y, r
<1> DEFINE k == r \div u
           j == r % u
<1>3. r \in Nat
  BY <1>1, <1>2
<1>4. k \in Nat /\ j \in 0..(u - 1) /\ r = u * k + j
  BY <1>3
<1>5. k < v
  BY <1>1, <1>2, <1>3, QuotientOrder
<1> HIDE DEF k, j
<1>6. n \div u = v * y + k
  <2>1. m * y = (v * y) * u
    BY <1>2
  <2>2. v * y \in Nat /\ (v * y + k) * u = (v * y) * u + u * k
    BY <1>2, <1>4
  <2>3. (v * y) * u \in Nat /\ u * k \in Nat /\ v * y + k \in Nat
    BY <1>4, <2>2
  <2>4. n = (v * y + k) * u + j
    <3> HIDE DEF m
    <3> QED BY <1>2, <1>4, <2>1, <2>2, <2>3
  <2> QED BY <1>4, <2>3, <2>4, Euclid
<1> DEFINE p == y \div u
           q == y % u
<1>7. p \in Nat /\ q \in 0..(u - 1) /\ y = u * p + q
  BY <1>2
<1>8. ((y % m) * v) % m = q * v
  BY <1>2, RestOfMultiple
<1> HIDE DEF p, q
<1>9. q * v + k \in 0..(m - 1)
  <2>1. PICK d \in Nat : u = q + 1 + d
    <3>1. u - q - 1 \in Nat
      BY <1>7
    <3> QED BY <1>7, <3>1
  <2>2. m = q * v + v + d * v /\ d * v \in Nat /\ q * v \in Nat
    BY <1>7, <2>1
  <2> HIDE DEF m
  <2> QED BY <1>1, <1>4, <1>5, <2>2
<1>10. v * y + k = p * m + (q * v + k)
  <2>1. v * y = p * m + q * v
    BY <1>7
  <2>2. p * m \in Nat /\ q * v \in Nat
    BY <1>1, <1>7
  <2> HIDE DEF m
  <2> QED BY <1>4, <2>1, <2>2
<1>11. (v * y + k) % m = q * v + k
  <2> DEFINE z == q * v + k
  <2>1. z \in 0..(m - 1) /\ v * y + k = p * m + z
    BY <1>9, <1>10
  <2> HIDE DEF m, z
  <2>2. (p * m + z) % m = z
    BY <1>1, <1>7, <2>1, Euclid
  <2>3. (v * y + k) % m = z
    BY <2>1, <2>2
  <2> QED BY <2>3 DEF z
<1>12. q * v \in Nat
  BY <1>7
<1>13. k + q * v = q * v + k
  BY <1>4, <1>12
<1> QED BY <1>6, <1>8, <1>11, <1>13 DEF k, y, r

-----------------------------------------------------------------------------
\* Limbs and shifts

\* Where a limb begins.
LEMMA Place ==
  ASSUME NEW t \in Nat
  PROVE  /\ LimbBits * t \in Nat /\ LimbBits * (t + 1) = LimbBits * t + LimbBits
         /\ t <= WIDTH => LimbBits * t <= LimbBits * WIDTH
         /\ t < WIDTH => LimbBits * t + LimbBits <= LimbBits * WIDTH
<1>1. LimbBits \in Nat \ {0} /\ WIDTH \in Nat
  BY Widths
<1> HIDE DEF LimbBits
<1>2. LimbBits * t \in Nat /\ LimbBits * (t + 1) = LimbBits * t + LimbBits
  BY <1>1
<1>3. ASSUME t <= WIDTH
      PROVE  /\ LimbBits * t <= LimbBits * WIDTH
             /\ t < WIDTH => LimbBits * t + LimbBits <= LimbBits * WIDTH
  <2>1. PICK d \in Nat : WIDTH = t + d
    <3>1. WIDTH - t \in Nat
      BY <1>1, <1>3
    <3> QED BY <1>1, <3>1
  <2>2. LimbBits * WIDTH = LimbBits * t + LimbBits * d /\ LimbBits * d \in Nat
    BY <1>1, <2>1
  <2>3. d # 0 => LimbBits * d >= LimbBits
    <3> SUFFICES ASSUME d # 0 PROVE LimbBits * d >= LimbBits
      OBVIOUS
    <3>1. PICK e \in Nat : d = e + 1
      <4>1. d - 1 \in Nat
        OBVIOUS
      <4> QED BY <4>1
    <3>2. LimbBits * d = LimbBits * e + LimbBits /\ LimbBits * e \in Nat
      BY <1>1, <3>1
    <3> QED BY <1>1, <3>2
  <2> QED BY <1>1, <1>2, <2>1, <2>2, <2>3
<1>4. t < WIDTH => t <= WIDTH
  BY <1>1
<1> QED BY <1>2, <1>3, <1>4

\* The number above a limb's begin.
Above(n, t) == n \div 2^(LimbBits * t)

\* Above the next limb is above this one by a limb; above all is nothing.
LEMMA NextLimb ==
  ASSUME NEW n \in Nat, NEW t \in 0..WIDTH
  PROVE  /\ Above(n, t) \in Nat
         /\ t # WIDTH => Above(n, t + 1) = Above(n, t) \div 2^LimbBits
         /\ n < Limit => Above(n, WIDTH) = 0
<1>1. t \in Nat /\ t <= WIDTH /\ (t # WIDTH => t < WIDTH) /\ LimbBits \in Nat
  BY Widths
<1>2. LimbBits * t \in Nat /\ LimbBits * t <= LimbBits * WIDTH
  BY <1>1, Place
<1>3. 2^(LimbBits * t) \in Nat \ {0}
  BY <1>2, PowerNat
<1>4. 2^LimbBits \in Nat \ {0}
  BY Widths, PowerNat
<1>5. ASSUME t # WIDTH PROVE Above(n, t + 1) = Above(n, t) \div 2^LimbBits
  <2>1. LimbBits * (t + 1) = LimbBits * t + LimbBits
    BY <1>1, Place
  <2>2. LimbBits * t + LimbBits <= LimbBits * (WIDTH + 1)
    BY <1>1, <1>2, Widths
  <2>3. 2^(LimbBits * (t + 1)) = 2^(LimbBits * t) * 2^LimbBits
    BY <1>1, <1>2, <2>1, <2>2, PowerSum
  <2> QED BY <1>3, <1>4, <2>3, QuotientTwice DEF Above
<1>6. ASSUME n < Limit PROVE Above(n, WIDTH) = 0
  <2>1. Limit \in Nat \ {0}
    BY Widths, PowerNat DEF Limit
  <2>2. n \div Limit < 1 /\ n \div Limit \in Nat
    BY <1>6, <2>1, QuotientOrder
  <2> QED BY <2>2 DEF Above, Limit
<1>7. Above(n, t) \in Nat
  BY <1>3 DEF Above
<1> QED BY <1>5, <1>6, <1>7

\* A limb is what is above its begin, up to its width.
LEMMA LimbOf ==
  ASSUME NEW n \in Nat
  PROVE  /\ ToUint(n) \in [Limbs -> 0..(2^LimbBits - 1)]
         /\ \A t \in Limbs : ToUint(n)[t] = Above(n, t) % 2^LimbBits
         /\ \A t \in 0..WIDTH : n < Limit => At(ToUint(n), t) = Above(n, t) % 2^LimbBits
<1>1. 2^LimbBits \in Nat \ {0}
  BY Widths, PowerNat
<1>2. ASSUME NEW t \in Limbs
      PROVE  /\ ToUint(n)[t] = Above(n, t) % 2^LimbBits
             /\ ToUint(n)[t] \in 0..(2^LimbBits - 1)
  <2>1. t \in 0..WIDTH
    BY Widths DEF Limbs
  <2>2. Above(n, t) \in Nat
    BY <2>1, NextLimb
  <2>3. ToUint(n)[t] = Above(n, t) % 2^LimbBits
    BY DEF ToUint, Limb, Above
  <2> QED BY <1>1, <2>2, <2>3
<1>3. ToUint(n) \in [Limbs -> 0..(2^LimbBits - 1)]
  BY <1>2 DEF ToUint
<1>4. ASSUME NEW t \in 0..WIDTH, n < Limit
      PROVE  At(ToUint(n), t) = Above(n, t) % 2^LimbBits
  <2>1. CASE t \in Limbs
    BY <1>2, <2>1 DEF At
  <2>2. CASE t \notin Limbs
    <3>1. t = WIDTH
      BY <2>2, Widths DEF Limbs
    <3>2. Above(n, t) = 0
      BY <1>4, <3>1, NextLimb
    <3>3. 0 % 2^LimbBits = 0
      BY <1>1
    <3> QED BY <2>2, <3>2, <3>3 DEF At
  <2> QED BY <2>1, <2>2
<1> QED BY <1>2, <1>3, <1>4

\* A shift is by whole limbs and by bits within a limb.
LEMMA ShiftParts ==
  ASSUME NEW shift \in Nat
  PROVE  /\ shift \div LimbBits \in Nat
         /\ shift % LimbBits \in 0..(LimbBits - 1)
         /\ shift = LimbBits * (shift \div LimbBits) + (shift % LimbBits)
<1>1. LimbBits \in Nat \ {0}
  BY Widths
<1> HIDE DEF LimbBits
<1> QED BY <1>1

\* Bits within a limb: a limb is the bits moved out and the bits that stay.
LEMMA WithinLimb ==
  ASSUME NEW s \in 0..(LimbBits - 1)
  PROVE  /\ LimbBits - s \in 1..LimbBits
         /\ 2^s \in Nat \ {0} /\ 2^(LimbBits - s) \in Nat \ {0}
         /\ 2^LimbBits = 2^s * 2^(LimbBits - s) /\ 2^LimbBits = 2^(LimbBits - s) * 2^s
         /\ 2^LimbBits \in Nat \ {0}
<1>1. /\ s \in Nat /\ LimbBits - s \in 1..LimbBits /\ LimbBits - s \in Nat
      /\ s + (LimbBits - s) = LimbBits
  BY Widths
<1>2. s <= LimbBits * WIDTH /\ LimbBits - s <= LimbBits * WIDTH
  BY Widths
<1>3. s + (LimbBits - s) <= LimbBits * (WIDTH + 1)
  BY <1>1, Widths
<1>4. 2^s \in Nat \ {0} /\ 2^(LimbBits - s) \in Nat \ {0} /\ 2^LimbBits \in Nat \ {0}
  BY <1>1, <1>2, PowerNat, Widths
<1>5. 2^(s + (LimbBits - s)) = 2^s * 2^(LimbBits - s)
  BY <1>1, <1>3, PowerSum
<1>6. 2^LimbBits = 2^s * 2^(LimbBits - s)
  BY <1>1, <1>5
<1>7. 2^s * 2^(LimbBits - s) = 2^(LimbBits - s) * 2^s
  <2> DEFINE x == 2^s
             y == 2^(LimbBits - s)
  <2>1. x \in Nat /\ y \in Nat
    BY <1>4
  <2> HIDE DEF x, y
  <2>2. x * y = y * x
    BY <2>1
  <2> QED BY <2>2 DEF x, y
<1> QED BY <1>1, <1>4, <1>6, <1>7

\* A window that begins s bits into limb p, in limbs and of the number.
LEMMA Window ==
  ASSUME NEW n \in Nat, NEW p \in Limbs, NEW s \in 0..LimbBits
  PROVE  /\ LimbBits * p + s \in Nat /\ LimbBits * p + s <= LimbBits * WIDTH
         /\ n \div 2^(LimbBits * p + s) = Above(n, p) \div 2^s
<1>1. p \in Nat /\ p < WIDTH /\ p <= WIDTH /\ s \in Nat /\ s <= LimbBits
  BY Widths DEF Limbs
<1>2. /\ LimbBits * p \in Nat /\ LimbBits * p <= LimbBits * WIDTH
      /\ LimbBits * p + LimbBits <= LimbBits * WIDTH
  BY <1>1, Place
<1>3. LimbBits * p + s \in Nat /\ LimbBits * p + s <= LimbBits * WIDTH
  BY <1>1, <1>2, Widths
<1>4. LimbBits * p + s <= LimbBits * (WIDTH + 1)
  BY <1>1, <1>3, Widths
<1>5. 2^(LimbBits * p + s) = 2^(LimbBits * p) * 2^s
  BY <1>1, <1>2, <1>4, PowerSum
<1>6. s <= LimbBits * WIDTH
  BY <1>1, Widths
<1>7. 2^(LimbBits * p) \in Nat \ {0} /\ 2^s \in Nat \ {0}
  BY <1>1, <1>2, <1>6, PowerNat
<1>8. n \div 2^(LimbBits * p + s) = (n \div 2^(LimbBits * p)) \div 2^s
  BY <1>5, <1>7, QuotientTwice
<1> QED BY <1>3, <1>8 DEF Above

\* operator>>= divides.
LEMMA ShiftRightDivides ==
  ASSUME NEW n \in 0..(Limit - 1), NEW shift \in 0..(LimbBits * WIDTH)
  PROVE  ShiftRight(ToUint(n), shift) = ToUint(n \div 2^shift)
<1> DEFINE k == shift \div LimbBits
           s == shift % LimbBits
           B == 2^LimbBits
<1>1. Limit \in Nat \ {0} /\ n \in Nat /\ n < Limit
  BY Widths, PowerNat DEF Limit
<1>2. shift \in Nat /\ shift <= LimbBits * WIDTH /\ 2^shift \in Nat \ {0}
  BY Widths, PowerNat
<1>3. k \in Nat /\ s \in 0..(LimbBits - 1) /\ s \in Nat /\ shift = LimbBits * k + s
  BY <1>2, ShiftParts, Widths
<1>4. /\ 2^s \in Nat \ {0} /\ 2^(LimbBits - s) \in Nat \ {0}
      /\ B = 2^s * 2^(LimbBits - s) /\ B \in Nat \ {0}
  BY <1>3, WithinLimb
<1> HIDE DEF k, s
<1>5. ASSUME NEW t \in Limbs
      PROVE  At(ToUint(n), t + k) \div 2^s + Limb(At(ToUint(n), t + k + 1) * 2^(LimbBits - s))
             = Limb((n \div 2^shift) \div 2^(LimbBits * t))
  <2>1. /\ t \in Nat /\ t < WIDTH /\ t <= WIDTH
        /\ WIDTH \in Nat /\ t + k \in Nat /\ t + k + 1 = (t + k) + 1
    BY <1>3, Widths DEF Limbs
  <2>2. LimbBits * t \in Nat /\ LimbBits * t <= LimbBits * WIDTH
    BY <2>1, Place
  <2>3. 2^(LimbBits * t) \in Nat \ {0}
    BY <2>2, PowerNat
  <2>4. (n \div 2^shift) \div 2^(LimbBits * t) = n \div (2^shift * 2^(LimbBits * t))
    BY <1>1, <1>2, <2>3, QuotientTwice
  <2>5. shift + LimbBits * t = LimbBits * (t + k) + s
    <3>1. LimbBits * (t + k) = LimbBits * t + LimbBits * k
      <4>1. LimbBits \in Nat
        BY Widths
      <4> HIDE DEF LimbBits
      <4> QED BY <1>3, <2>1, <4>1
    <3>2. LimbBits * k \in Nat
      BY <1>3, Place
    <3> QED BY <1>3, <2>2, <3>1, <3>2
  <2>6. CASE t + k < WIDTH
    <3> DEFINE p == t + k
               x == Above(n, p)
    <3>1. p \in Limbs /\ p \in 0..WIDTH /\ p + 1 \in 0..WIDTH /\ p # WIDTH
      BY <2>1, <2>6 DEF Limbs
    <3>2. /\ At(ToUint(n), p) = x % B
          /\ At(ToUint(n), p + 1) = (x \div B) % B
          /\ x \in Nat
      BY <1>1, <3>1, LimbOf, NextLimb
    <3>3. s \in 0..LimbBits
      BY <1>3, Widths
    <3>4. /\ LimbBits * p + s <= LimbBits * WIDTH
          /\ n \div 2^(LimbBits * p + s) = x \div 2^s
      BY <1>1, <3>1, <3>3, Window
    <3>5. shift + LimbBits * t <= LimbBits * (WIDTH + 1)
      BY <2>5, <3>4, Widths, <1>2, <2>2
    <3>6. 2^(shift + LimbBits * t) = 2^shift * 2^(LimbBits * t)
      BY <1>2, <2>2, <3>5, PowerSum
    <3>7. (n \div 2^shift) \div 2^(LimbBits * t) = x \div 2^s
      BY <2>4, <2>5, <3>4, <3>6
    <3>8. (x \div 2^s) % B
         = ((x % B) \div 2^s) + ((((x \div B) % B) * 2^(LimbBits - s)) % B)
      <4> DEFINE u == 2^s
                 v == 2^(LimbBits - s)
      <4>1. u \in Nat \ {0} /\ v \in Nat \ {0} /\ B = u * v
        BY <1>4
      <4> HIDE DEF u, v, x, B
      <4>2. (x \div u) % (u * v)
            = ((x % (u * v)) \div u) + ((((x \div (u * v)) % (u * v)) * v) % (u * v))
        BY <3>2, <4>1, TwoLimbs
      <4>3. (x \div u) % B = ((x % B) \div u) + ((((x \div B) % B) * v) % B)
        BY <4>1, <4>2
      <4> QED BY <4>3 DEF u, v
    <3> QED BY <2>1, <3>2, <3>7, <3>8 DEF Limb
  <2>7. CASE ~(t + k < WIDTH)
    <3>1. /\ At(ToUint(n), t + k) = 0
          /\ At(ToUint(n), t + k + 1) = 0
      BY <2>1, <2>7 DEF At, Limbs
    <3>2. 0 \div 2^s = 0 /\ 0 * 2^(LimbBits - s) = 0 /\ 0 % B = 0
      BY <1>4
    <3>3. n < 2^shift * 2^(LimbBits * t)
      <4> DEFINE rest == LimbBits * WIDTH - LimbBits * t
      <4>1. rest \in Nat /\ rest + LimbBits * t = LimbBits * WIDTH
        BY <2>2, Widths
      <4>2. rest <= shift
        <5>1. LimbBits * WIDTH <= LimbBits * (t + k)
          <6>1. PICK d \in Nat : t + k = WIDTH + d
            <7>1. (t + k) - WIDTH \in Nat
              BY <2>1, <2>7
            <7> QED BY <2>1, <7>1
          <6>2. LimbBits * (t + k) = LimbBits * WIDTH + LimbBits * d /\ LimbBits * d \in Nat
            <7>1. LimbBits \in Nat
              BY Widths
            <7> HIDE DEF LimbBits
            <7> QED BY <2>1, <6>1, <7>1
          <6> QED BY <6>2, Widths
        <5>2. LimbBits * (t + k) \in Nat
          BY <2>1, Place
        <5> QED BY <1>2, <1>3, <2>2, <2>5, <4>1, <5>1, <5>2, Widths
      <4>3. PICK d \in Nat : shift = rest + d /\ d <= LimbBits * WIDTH
        <5> HIDE DEF rest
        <5>1. shift - rest \in Nat /\ shift = rest + (shift - rest)
          BY <1>2, <4>1, <4>2
        <5>2. shift - rest <= LimbBits * WIDTH
          BY <1>2, <4>1, <5>1, Widths
        <5> QED BY <5>1, <5>2
      <4>4. 2^shift = 2^rest * 2^d
        <5>1. rest + d <= LimbBits * (WIDTH + 1)
          BY <1>2, <4>3, Widths
        <5> QED BY <4>1, <4>3, <5>1, PowerSum
      <4>5. 2^rest * 2^(LimbBits * t) = Limit
        <5>1. rest + LimbBits * t <= LimbBits * (WIDTH + 1)
          BY <4>1, Widths
        <5>2. 2^(rest + LimbBits * t) = 2^rest * 2^(LimbBits * t)
          BY <2>2, <4>1, <5>1, PowerSum
        <5> QED BY <4>1, <5>2 DEF Limit
      <4>6. 2^rest \in Nat /\ 2^d \in Nat \ {0}
        <5>1. rest <= LimbBits * WIDTH
          BY <4>1, <2>2, Widths
        <5> QED BY <4>1, <4>3, <5>1, PowerNat
      <4> DEFINE a == 2^rest
                 b == 2^(LimbBits * t)
                 c == 2^d
      <4>7. a \in Nat /\ b \in Nat /\ c \in Nat \ {0}
        BY <2>3, <4>6
      <4>8. 2^shift * 2^(LimbBits * t) = (a * c) * b /\ a * b = Limit
        BY <4>4, <4>5
      <4> HIDE DEF a, b, c, rest
      <4>9. (a * c) * b = (a * b) * c
        BY <4>7
      <4>10. PICK e \in Nat : c = 1 + e
        <5>1. c - 1 \in Nat
          BY <4>7
        <5> QED BY <4>7, <5>1
      <4>11. Limit * c = Limit + Limit * e /\ Limit * e \in Nat
        BY <1>1, <4>10
      <4>12. 2^shift * 2^(LimbBits * t) = Limit + Limit * e
        BY <4>8, <4>9, <4>11
      <4> QED BY <1>1, <4>11, <4>12
    <3>4. n \div (2^shift * 2^(LimbBits * t)) = 0
      <4> DEFINE a == 2^shift
                 b == 2^(LimbBits * t)
      <4>1. a * b \in Nat \ {0} /\ n < (a * b) * 1
        <5>1. a \in Nat \ {0} /\ b \in Nat \ {0} /\ n < a * b
          BY <1>2, <2>3, <3>3
        <5> HIDE DEF a, b
        <5> QED BY <5>1
      <4>2. n \div (a * b) < 1 /\ n \div (a * b) \in Nat
        <5> HIDE DEF a, b
        <5> QED BY <1>1, <4>1, QuotientOrder
      <4> QED BY <4>2
    <3> QED BY <2>4, <3>1, <3>2, <3>4 DEF Limb
  <2> QED BY <2>6, <2>7
<1> QED BY <1>5 DEF ShiftRight, ToUint, k, s

\* operator<<= multiplies, up to what no limb holds.
LEMMA ShiftLeftMultiplies ==
  ASSUME NEW n \in Nat, NEW shift \in 0..(LimbBits * WIDTH)
  PROVE  ShiftLeft(ToUint(n), shift) = ToUint(n * 2^shift)
<1> DEFINE k == shift \div LimbBits
           s == shift % LimbBits
           B == 2^LimbBits
<1>1. shift \in Nat /\ shift <= LimbBits * WIDTH /\ 2^shift \in Nat \ {0}
  BY Widths, PowerNat
<1>2. k \in Nat /\ s \in 0..(LimbBits - 1) /\ s \in Nat /\ shift = LimbBits * k + s
  BY <1>1, ShiftParts, Widths
<1>3. /\ 2^s \in Nat \ {0} /\ 2^(LimbBits - s) \in Nat \ {0}
      /\ B = 2^(LimbBits - s) * 2^s /\ B \in Nat \ {0} /\ LimbBits - s \in 1..LimbBits
  BY <1>2, WithinLimb
<1> DEFINE u == 2^(LimbBits - s)
           v == 2^s
<1>4. u \in Nat \ {0} /\ v \in Nat \ {0} /\ B = u * v
  BY <1>3
<1>5. LimbBits * k \in Nat /\ LimbBits \in Nat \ {0, 1}
  BY <1>2, Place, Widths
<1> HIDE DEF k, s, u, v
<1>6. ASSUME NEW t \in Limbs
      PROVE  LeftOf(ToUint(n), shift, t) = ((n * 2^shift) \div 2^(LimbBits * t)) % B
  <2>1. /\ t \in Nat /\ t < WIDTH /\ t <= WIDTH /\ WIDTH \in Nat
    BY Widths DEF Limbs
  <2>2. LimbBits * t \in Nat /\ LimbBits * t <= LimbBits * WIDTH
    BY <2>1, Place
  <2>3. 2^(LimbBits * t) \in Nat \ {0}
    BY <2>2, PowerNat
  <2>4. LeftOf(ToUint(n), shift, t)
        = ((At(ToUint(n), t - k) * v) % B) + (At(ToUint(n), t - k - 1) \div u)
    BY DEF LeftOf, Limb, k, s, u, v
  <2>5. CASE t < k
    <3>1. At(ToUint(n), t - k) = 0 /\ At(ToUint(n), t - k - 1) = 0
      BY <1>2, <2>1, <2>5 DEF At, Limbs
    <3>2. (0 * v) % B = 0 /\ 0 \div u = 0
      BY <1>3, <1>4
    <3>3. PICK d \in Nat : shift = LimbBits * t + LimbBits + d
      <4>1. PICK e \in Nat : k = t + 1 + e
        <5>1. k - t - 1 \in Nat
          BY <1>2, <2>1, <2>5
        <5> QED BY <1>2, <2>1, <5>1
      <4>2. LimbBits * k = LimbBits * t + LimbBits + LimbBits * e /\ LimbBits * e \in Nat
        <5> HIDE DEF LimbBits
        <5> QED BY <1>5, <2>1, <4>1
      <4>3. LimbBits * e + s \in Nat
        BY <1>2, <4>2
      <4>4. shift = LimbBits * t + LimbBits + (LimbBits * e + s)
        BY <1>2, <1>5, <2>2, <4>2
      <4> QED BY <4>3, <4>4
    <3>4. 2^shift = (B * 2^d) * 2^(LimbBits * t) /\ 2^d \in Nat \ {0}
      <4>1. /\ shift <= LimbBits * (WIDTH + 1)
            /\ LimbBits + d <= LimbBits * (WIDTH + 1)
            /\ d <= LimbBits * WIDTH
        BY <1>1, <1>5, <2>2, <3>3, Widths
      <4>2. shift = (LimbBits + d) + LimbBits * t
        BY <1>5, <2>2, <3>3
      <4>3. LimbBits + d \in Nat
        BY <1>5
      <4>4. 2^((LimbBits + d) + LimbBits * t) = 2^(LimbBits + d) * 2^(LimbBits * t)
        BY <2>2, <4>1, <4>2, <4>3, PowerSum
      <4>5. 2^(LimbBits + d) = B * 2^d
        BY <1>5, <4>1, PowerSum
      <4> QED BY <4>1, <4>2, <4>4, <4>5, PowerNat
    <3>5. (n * 2^shift) \div 2^(LimbBits * t) = (n * 2^d) * B
      <4> DEFINE c == 2^(LimbBits * t)
                 e == 2^d
      <4>1. c \in Nat \ {0} /\ e \in Nat
        BY <2>3, <3>4
      <4>2. n * 2^shift = n * ((B * e) * c)
        BY <3>4
      <4> HIDE DEF c, e, B
      <4>3. n * ((B * e) * c) = ((n * e) * B) * c /\ (n * e) * B \in Nat
        BY <1>3, <4>1
      <4>4. (((n * e) * B) * c) \div c = (n * e) * B
        BY <4>1, <4>3, Cancel
      <4> QED BY <4>2, <4>3, <4>4 DEF c, e
    <3>6. ((n * 2^d) * B) % B = 0
      <4> DEFINE y == n * 2^d
      <4>1. y \in Nat
        BY <3>4
      <4> HIDE DEF y, B
      <4>2. y * B \in Nat /\ y * B + 0 = y * B /\ 0 \in 0..(B - 1)
        BY <1>3, <4>1
      <4>3. (y * B + 0) % B = 0
        BY <1>3, <4>1, <4>2, Euclid
      <4> QED BY <4>2, <4>3 DEF y
    <3> QED BY <2>4, <3>1, <3>2, <3>5, <3>6
  <2>6. CASE t = k
    <3>1. At(ToUint(n), t - k - 1) = 0 /\ 0 \div u = 0
      BY <1>2, <1>4, <2>1, <2>6 DEF At, Limbs
    <3>2. t - k = 0 /\ 0 \in Limbs
      BY <1>2, <2>1, <2>6 DEF Limbs
    <3>3. At(ToUint(n), 0) = n % B
      <4>1. At(ToUint(n), 0) = Above(n, 0) % B
        BY <3>2, LimbOf DEF At
      <4>2. LimbBits * 0 = 0 /\ 2^0 = 1 /\ n \div 1 = n
        BY <1>5
      <4> QED BY <4>1, <4>2 DEF Above
    <3>4. 2^shift = v * 2^(LimbBits * t)
      <4>1. s + LimbBits * t <= LimbBits * (WIDTH + 1) /\ shift = s + LimbBits * t
        BY <1>1, <1>2, <1>5, <2>2, <2>6, Widths
      <4> QED BY <1>2, <2>2, <4>1, PowerSum DEF v
    <3>5. (n * 2^shift) \div 2^(LimbBits * t) = n * v
      <4> DEFINE c == 2^(LimbBits * t)
      <4>1. c \in Nat \ {0} /\ n * 2^shift = n * (v * c)
        BY <2>3, <3>4
      <4> HIDE DEF c
      <4>2. n * (v * c) = (n * v) * c /\ n * v \in Nat
        BY <1>4, <4>1
      <4>3. ((n * v) * c) \div c = n * v
        BY <4>1, <4>2, Cancel
      <4> QED BY <4>1, <4>2, <4>3 DEF c
    <3>6. ((n % B) * v) % B = (n * v) % B /\ ((n % B) * v) % B \in Nat
      <4>1. ((n % (u * v)) * v) % (u * v) = (n * v) % (u * v)
        <5>1. (n * v) % (u * v) = (n % u) * v
          BY <1>4, RestOfMultiple
        <5>2. ((n % (u * v)) * v) % (u * v) = (n % u) * v
          BY <1>4, RestOfMultiple
        <5> QED BY <5>1, <5>2
      <4>2. n * v \in Nat
        BY <1>4
      <4> HIDE DEF B
      <4>3. (n * v) % B \in Nat
        BY <1>3, <4>2
      <4> QED BY <1>4, <4>1, <4>3
    <3>7. (((n % B) * v) % B) + 0 = ((n % B) * v) % B
      BY <3>6
    <3> QED BY <2>4, <3>1, <3>2, <3>3, <3>5, <3>6, <3>7
  <2>7. CASE t > k
    <3> DEFINE p == t - k - 1
               x == Above(n, p)
    <3>1. /\ p \in Limbs /\ p \in 0..WIDTH /\ p # WIDTH
          /\ p + 1 \in Limbs /\ t - k = p + 1 /\ t = (k + p) + 1
      BY <1>2, <2>1, <2>7 DEF Limbs
    <3>2. p \in Nat
      BY <3>1
    <3>3. /\ At(ToUint(n), p) = x % B
          /\ At(ToUint(n), p + 1) = (x \div B) % B
          /\ x \in Nat
      <4> HIDE DEF p
      <4> QED BY <3>1, LimbOf, NextLimb DEF At
    <3> HIDE DEF p, x
    <3>4. LimbBits - s \in 0..LimbBits /\ LimbBits - s \in Nat
      BY <1>2, <1>3, <1>5
    <3>5. /\ LimbBits * p + (LimbBits - s) \in Nat
          /\ LimbBits * p + (LimbBits - s) <= LimbBits * WIDTH
          /\ n \div 2^(LimbBits * p + (LimbBits - s)) = x \div u
      BY <3>1, <3>4, Window DEF x, u
    <3>6. LimbBits * t = shift + (LimbBits * p + (LimbBits - s))
      <4>1. LimbBits * t = LimbBits * k + LimbBits * p + LimbBits /\ LimbBits * p \in Nat
        <5> HIDE DEF LimbBits
        <5> QED BY <1>2, <1>5, <3>1, <3>2
      <4> QED BY <1>2, <1>5, <4>1
    <3> DEFINE a == 2^(LimbBits * p + (LimbBits - s))
               c == 2^shift
    <3>7. a \in Nat \ {0} /\ c \in Nat \ {0}
      BY <1>1, <3>5, PowerNat
    <3>8. 2^(LimbBits * t) = c * a
      <4>1. shift + (LimbBits * p + (LimbBits - s)) <= LimbBits * (WIDTH + 1)
        BY <2>2, <3>6, Widths
      <4> QED BY <1>1, <3>5, <3>6, <4>1, PowerSum
    <3>9. n \div a = x \div u
      BY <3>5
    <3> HIDE DEF a, c
    <3>10. (n * c) \div (c * a) = x \div u
      BY <3>7, <3>9, Cancel
    <3>11. (n * 2^shift) \div 2^(LimbBits * t) = x \div u
      BY <3>8, <3>10 DEF c
    <3>12. (x \div u) % B = ((x % B) \div u) + ((((x \div B) % B) * v) % B)
      <4>1. (x \div u) % (u * v)
            = ((x % (u * v)) \div u) + ((((x \div (u * v)) % (u * v)) * v) % (u * v))
        BY <1>4, <3>3, TwoLimbs
      <4> QED BY <1>4, <4>1
    <3>13. (x % B) \div u \in Nat /\ (((x \div B) % B) * v) % B \in Nat
      <4>1. x % B \in Nat /\ (x \div B) % B \in Nat
        <5> HIDE DEF B
        <5> QED BY <1>3, <3>3
      <4>2. ((x \div B) % B) * v \in Nat
        BY <1>4, <4>1
      <4> HIDE DEF B
      <4> QED BY <1>3, <1>4, <4>1, <4>2
    <3>14. LeftOf(ToUint(n), shift, t)
           = ((((x \div B) % B) * v) % B) + ((x % B) \div u)
      BY <2>4, <3>1, <3>3 DEF p
    <3> QED BY <3>11, <3>12, <3>13, <3>14
  <2> QED BY <1>2, <2>1, <2>5, <2>6, <2>7
<1> QED BY <1>6 DEF ShiftLeft, ToUint, Limb

-----------------------------------------------------------------------------
\* Comparisons

\* One direction: the smaller number has a limb that is smaller under limbs that
\* are the same.
LEMMA SmallerIsLess ==
  ASSUME NEW a \in 0..(Limit - 1), NEW b \in 0..(Limit - 1), a < b
  PROVE  Less(ToUint(a), ToUint(b))
<1> DEFINE Same == {t \in 0..WIDTH : Above(a, t) = Above(b, t)}
           B == 2^LimbBits
<1>1. /\ Limit \in Nat \ {0} /\ a \in Nat /\ b \in Nat /\ a < Limit /\ b < Limit
      /\ WIDTH \in Nat \ {0} /\ B \in Nat \ {0}
  BY Widths, PowerNat DEF Limit
<1>2. \A t \in 0..WIDTH : Above(a, t) \in Nat /\ Above(b, t) \in Nat
  BY <1>1, NextLimb
<1>3. WIDTH \in Same
  <2>1. WIDTH \in 0..WIDTH
    BY <1>1
  <2>2. Above(a, WIDTH) = 0 /\ Above(b, WIDTH) = 0
    BY <1>1, <2>1, NextLimb
  <2> QED BY <2>1, <2>2
<1>4. PICK p \in Same : \A q \in Same : p <= q
  <2>1. Same \in SUBSET Nat
    BY <1>1
  <2> HIDE DEF Same
  <2> QED BY <1>3, <2>1, Least
<1>5. p # 0
  <2> SUFFICES ASSUME p = 0 PROVE FALSE
    OBVIOUS
  <2>1. LimbBits * 0 = 0
    BY Widths
  <2>2. 2^0 = 1 /\ a \div 1 = a /\ b \div 1 = b
    BY <1>1
  <2>3. Above(a, 0) = a /\ Above(b, 0) = b
    BY <2>1, <2>2 DEF Above
  <2> QED BY <1>1, <1>4, <2>3
<1>6. PICK t \in Limbs : p = t + 1
  <2>1. p - 1 \in Limbs /\ p = (p - 1) + 1
    BY <1>1, <1>4, <1>5 DEF Limbs
  <2> QED BY <2>1
<1>7. t \in 0..WIDTH /\ t # WIDTH /\ t \in Nat
  BY <1>1, <1>6 DEF Limbs
<1>8. Above(a, t) # Above(b, t)
  <2>1. t \notin Same
    <3> HIDE DEF Same
    <3>1. ~(p <= t)
      BY <1>6, <1>7
    <3> QED BY <1>4, <3>1
  <2> QED BY <1>7, <2>1
<1>9. Above(a, t) <= Above(b, t)
  <2>1. 2^(LimbBits * t) \in Nat \ {0}
    <3>1. t <= WIDTH
      BY <1>1, <1>7
    <3> QED BY <1>7, <3>1, Place, PowerNat
  <2>2. a <= b
    BY <1>1
  <2> QED BY <1>1, <2>1, <2>2, QuotientOrder DEF Above
<1> DEFINE x == Above(a, t)
           y == Above(b, t)
<1>10. x \in Nat /\ y \in Nat /\ x < y
  BY <1>2, <1>7, <1>8, <1>9
<1>11. x \div B = y \div B
  <2>1. Above(a, p) = Above(b, p)
    BY <1>4
  <2> QED BY <1>1, <1>6, <1>7, <2>1, NextLimb
<1>12. x % B < y % B
  <2> HIDE DEF x, y, B
  <2> DEFINE q == x \div B
  <2>1. q \in Nat /\ x = B * q + (x % B) /\ y = B * (y \div B) + (y % B)
        /\ x % B \in Nat /\ y % B \in Nat
    BY <1>1, <1>10
  <2>2. y = B * q + (y % B)
    BY <1>11, <2>1
  <2> HIDE DEF q
  <2>3. B * q \in Nat
    BY <1>1, <2>1
  <2> QED BY <1>10, <2>1, <2>2, <2>3
<1>13. ToUint(a)[t] < ToUint(b)[t]
  BY <1>1, <1>6, <1>12, LimbOf
<1>14. ASSUME NEW w \in (t + 1)..(WIDTH - 1) PROVE ToUint(a)[w] = ToUint(b)[w]
  <2>1. w \in Limbs /\ w \in Nat /\ w <= WIDTH /\ p \in Nat /\ p <= WIDTH
    BY <1>1, <1>6, <1>7 DEF Limbs
  <2>2. PICK d \in Nat : w = p + d
    <3>1. w - p \in Nat
      BY <1>1, <1>6, <1>7
    <3> QED BY <2>1, <3>1
  <2>3. /\ LimbBits * w = LimbBits * p + LimbBits * d
        /\ LimbBits * p \in Nat /\ LimbBits * d \in Nat
    <3>1. LimbBits \in Nat
      BY Widths
    <3> HIDE DEF LimbBits
    <3> QED BY <2>1, <2>2, <3>1
  <2>4. LimbBits * w <= LimbBits * WIDTH
    BY <2>1, Place
  <2>5. /\ LimbBits * p + LimbBits * d <= LimbBits * (WIDTH + 1)
        /\ LimbBits * p <= LimbBits * WIDTH /\ LimbBits * d <= LimbBits * WIDTH
    BY <2>3, <2>4, Widths
  <2>6. 2^(LimbBits * w) = 2^(LimbBits * p) * 2^(LimbBits * d)
    BY <2>3, <2>5, PowerSum
  <2>7. 2^(LimbBits * p) \in Nat \ {0} /\ 2^(LimbBits * d) \in Nat \ {0}
    BY <2>3, <2>5, PowerNat
  <2>8. ASSUME NEW n \in Nat PROVE Above(n, w) = Above(n, p) \div 2^(LimbBits * d)
    BY <2>6, <2>7, QuotientTwice DEF Above
  <2>9. Above(a, w) = Above(b, w)
    BY <1>1, <1>4, <2>8
  <2> QED BY <1>1, <2>1, <2>9, LimbOf
<1> QED BY <1>6, <1>13, <1>14 DEF Less

\* operator< on limbs is < on the numbers.
LEMMA LessIsSmaller ==
  ASSUME NEW a \in 0..(Limit - 1), NEW b \in 0..(Limit - 1)
  PROVE  Less(ToUint(a), ToUint(b)) <=> a < b
<1>1. /\ Limit \in Nat \ {0} /\ a \in Nat /\ b \in Nat
      /\ WIDTH \in Nat \ {0} /\ 2^LimbBits \in Nat \ {0}
  BY Widths, PowerNat DEF Limit
<1>2. \A t \in Limbs : t \in Nat /\ t <= WIDTH - 1 /\ ToUint(a)[t] \in Nat /\ ToUint(b)[t] \in Nat
  <2>1. /\ ToUint(a) \in [Limbs -> 0..(2^LimbBits - 1)]
        /\ ToUint(b) \in [Limbs -> 0..(2^LimbBits - 1)]
    BY <1>1, LimbOf
  <2>2. \A t \in Limbs : t \in Nat /\ t <= WIDTH - 1
    BY <1>1 DEF Limbs
  <2>3. 0..(2^LimbBits - 1) \subseteq Nat
    BY <1>1
  <2> QED BY <2>1, <2>2, <2>3
<1>3. ASSUME Less(ToUint(a), ToUint(b)), b <= a PROVE FALSE
  <2>1. PICK t \in Limbs : /\ ToUint(a)[t] < ToUint(b)[t]
                           /\ \A w \in (t + 1)..(WIDTH - 1) : ToUint(a)[w] = ToUint(b)[w]
    BY <1>3 DEF Less
  <2>2. a # b
    BY <1>2, <2>1
  <2>3. Less(ToUint(b), ToUint(a))
    BY <1>1, <1>3, <2>2, SmallerIsLess
  <2>4. PICK r \in Limbs : /\ ToUint(b)[r] < ToUint(a)[r]
                           /\ \A w \in (r + 1)..(WIDTH - 1) : ToUint(b)[w] = ToUint(a)[w]
    BY <2>3 DEF Less
  <2>5. t # r
    BY <1>2, <2>1, <2>4
  <2>6. r \in (t + 1)..(WIDTH - 1) \/ t \in (r + 1)..(WIDTH - 1)
    BY <1>1, <1>2, <2>5
  <2> QED BY <1>2, <2>1, <2>4, <2>6
<1> QED BY <1>1, <1>3, SmallerIsLess

-----------------------------------------------------------------------------
\* The compact form

\* Powers keep the order.
LEMMA PowerOrder ==
  ASSUME NEW a \in Nat, NEW b \in Nat, a <= b, b <= LimbBits * WIDTH
  PROVE  2^a <= 2^b
<1>1. LimbBits * WIDTH \in Nat
  BY Widths
<1>2. PICK d \in Nat : b = a + d /\ d <= LimbBits * WIDTH /\ a <= LimbBits * WIDTH
  <2>1. b - a \in Nat /\ b = a + (b - a) /\ b - a <= LimbBits * WIDTH
    BY <1>1
  <2>2. a <= LimbBits * WIDTH
    BY <1>1
  <2> QED BY <2>1, <2>2
<1>3. 2^b = 2^a * 2^d
  <2>1. a + d <= LimbBits * (WIDTH + 1)
    BY <1>1, <1>2, Widths
  <2> QED BY <1>2, <2>1, PowerSum
<1> DEFINE x == 2^a
           y == 2^d
<1>4. x \in Nat /\ y \in Nat \ {0} /\ 2^b = x * y
  BY <1>2, <1>3, PowerNat
<1> HIDE DEF x, y
<1>5. PICK e \in Nat : y = 1 + e
  <2>1. y - 1 \in Nat
    BY <1>4
  <2> QED BY <1>4, <2>1
<1>6. x * y = x + x * e /\ x * e \in Nat
  BY <1>4, <1>5
<1> QED BY <1>4, <1>6 DEF x

\* The sign bit is the upper half of three bytes and more than two.
LEMMA Sign ==
  /\ SignBit \in Nat \ {0} /\ 2^(3 * ByteBits) = 2 * SignBit
  /\ 2^ByteBits \in Nat \ {0}
  /\ \A m \in Nat : m < 2 * SignBit => m \div 2^ByteBits < SignBit
  /\ SignBit <= Limit - 1 /\ Limit \in Nat \ {0}
<1>1. /\ ByteBits \in Nat \ {0} /\ 3 * ByteBits <= LimbBits * WIDTH
      /\ 3 * ByteBits - 1 \in Nat /\ 3 * ByteBits - 1 <= LimbBits * WIDTH
      /\ 3 * ByteBits = (3 * ByteBits - 1) + 1 /\ 3 * ByteBits \in Nat
      /\ LimbBits * WIDTH \in Nat /\ ByteBits <= LimbBits * WIDTH
  BY Widths
<1>2. SignBit \in Nat \ {0} /\ 2^ByteBits \in Nat \ {0} /\ Limit \in Nat \ {0}
  BY <1>1, PowerNat DEF SignBit, Limit
<1>3. 2^(3 * ByteBits) = 2 * SignBit
  <2>1. 3 * ByteBits - 1 \in 0..(LimbBits * (WIDTH + 1))
    BY <1>1, Widths
  <2> QED BY <1>1, <2>1, PowersAssumption DEF SignBit
<1>4. ASSUME NEW m \in Nat, m < 2 * SignBit PROVE m \div 2^ByteBits < SignBit
  <2>1. /\ ByteBits + ByteBits \in Nat
        /\ ByteBits + (ByteBits + ByteBits) = 3 * ByteBits
        /\ ByteBits + ByteBits <= 3 * ByteBits - 1
        /\ 3 * ByteBits <= LimbBits * (WIDTH + 1)
    BY <1>1, Widths
  <2>2. 2^(3 * ByteBits) = 2^ByteBits * 2^(ByteBits + ByteBits)
    BY <1>1, <2>1, PowerSum
  <2>3. 2^(ByteBits + ByteBits) <= SignBit
    BY <1>1, <2>1, PowerOrder DEF SignBit
  <2>4. ByteBits + ByteBits <= LimbBits * WIDTH
    BY <1>1, <2>1
  <2>5. 2^(ByteBits + ByteBits) \in Nat \ {0}
    BY <2>1, <2>4, PowerNat
  <2> DEFINE c == 2^(ByteBits + ByteBits)
  <2>6. c \in Nat /\ m < 2^ByteBits * c
    BY <1>3, <1>4, <2>2, <2>5
  <2> HIDE DEF c
  <2>7. m \div 2^ByteBits < c
    BY <1>2, <2>6, QuotientOrder
  <2>8. m \div 2^ByteBits \in Nat
    BY <1>2
  <2> QED BY <1>2, <2>3, <2>5, <2>7, <2>8 DEF c
<1>5. 2^(3 * ByteBits) <= Limit
  BY <1>1, PowerOrder DEF Limit
<1> QED BY <1>2, <1>3, <1>4, <1>5

\* GetCompact keeps three bytes, moved down by one if the first has the sign bit.
LEMMA CompactForm ==
  ASSUME NEW n \in 0..(Limit - 1)
  PROVE  LET m == n \div 2^(ByteBits * (Size - 3))
         IN /\ m \in Nat /\ m < 2 * SignBit
            /\ GetCompact(ToUint(n)) =
                 IF m >= SignBit THEN [size |-> Size + 1, mantissa |-> m \div 2^ByteBits]
                                 ELSE [size |-> Size, mantissa |-> m]
<1> DEFINE low == ByteBits * (Size - 3)
           unit == 2^low
           m == n \div unit
           B == 2^LimbBits
<1>1. /\ low \in Nat /\ low + 3 * ByteBits = LimbBits * WIDTH /\ low <= LimbBits * WIDTH
      /\ 3 * ByteBits \in Nat /\ LimbBits * WIDTH \in Nat
  BY Widths
<1>2. unit \in Nat \ {0} /\ B \in Nat \ {0} /\ n \in Nat /\ n < Limit
  BY <1>1, PowerNat, Widths, Sign
<1>3. Limit = unit * (2 * SignBit)
  <2>1. low + 3 * ByteBits <= LimbBits * (WIDTH + 1)
    BY <1>1, Widths
  <2>2. 2^(low + 3 * ByteBits) = 2^low * 2^(3 * ByteBits)
    <3> HIDE DEF low
    <3> QED BY <1>1, <2>1, PowerSum
  <2> QED BY <1>1, <2>2, Sign DEF Limit
<1>4. m \in Nat /\ m < 2 * SignBit
  <2> DEFINE two == 2 * SignBit
  <2>1. two \in Nat /\ n < unit * two
    BY <1>2, <1>3, Sign
  <2> HIDE DEF unit, two
  <2>2. m < two /\ m \in Nat
    BY <1>2, <2>1, QuotientOrder
  <2> QED BY <2>2 DEF two
<1>5. ShiftRight(ToUint(n), low) = ToUint(m)
  <2>1. low \in 0..(LimbBits * WIDTH)
    BY <1>1
  <2> HIDE DEF low
  <2> QED BY <2>1, ShiftRightDivides
<1> HIDE DEF m
<1>6. ToUint(m)[0] + ToUint(m)[1] * B = m
  <2>1. /\ 0 \in Limbs /\ 1 \in Limbs /\ 0 \in 0..WIDTH /\ 0 # WIDTH
        /\ 0 + 1 = 1 /\ LimbBits \in Nat
    BY Widths DEF Limbs
  <2>2. Above(m, 0) = m
    <3>1. LimbBits * 0 = 0 /\ 2^0 = 1 /\ m \div 1 = m
      BY <1>4, <2>1
    <3> QED BY <3>1 DEF Above
  <2>3. Above(m, 1) = m \div B
    BY <1>4, <2>1, <2>2, NextLimb
  <2>4. ToUint(m)[0] = m % B /\ ToUint(m)[1] = (m \div B) % B
    BY <1>4, <2>1, <2>2, <2>3, LimbOf
  <2>5. m < B * B
    <3>1. /\ LimbBits + LimbBits <= LimbBits * WIDTH
          /\ 3 * ByteBits <= LimbBits + LimbBits /\ LimbBits + LimbBits \in Nat
          /\ LimbBits + LimbBits <= LimbBits * (WIDTH + 1)
      BY Widths
    <3>2. 2^(3 * ByteBits) <= 2^(LimbBits + LimbBits)
      BY <1>1, <3>1, PowerOrder
    <3>3. 2^(LimbBits + LimbBits) = B * B
      BY <2>1, <3>1, PowerSum
    <3>4. B * B \in Nat
      BY <1>2
    <3> QED BY <1>4, <3>2, <3>3, <3>4, Sign
  <2> HIDE DEF B
  <2> DEFINE q == m \div B
  <2>6. q \in Nat /\ q < B /\ m % B \in Nat /\ m = B * q + (m % B)
    BY <1>2, <1>4, <2>5, QuotientOrder
  <2> HIDE DEF q
  <2>7. q % B = q
    BY <1>2, <2>6
  <2>8. B * q = q * B /\ q * B \in Nat
    BY <1>2, <2>6
  <2>9. (m % B) + q * B = m
    BY <2>6, <2>8
  <2> QED BY <2>4, <2>7, <2>9 DEF q
<1>7. GetCompact(ToUint(n)) =
        IF m >= SignBit THEN [size |-> Size + 1, mantissa |-> m \div 2^ByteBits]
                        ELSE [size |-> Size, mantissa |-> m]
  BY <1>5, <1>6 DEF GetCompact
<1> QED BY <1>4, <1>7 DEF m

\* What it stands for is the number, less what it leaves out.
LEMMA CompactValue ==
  ASSUME NEW n \in 0..(Limit - 1)
  PROVE  LET compact == GetCompact(ToUint(n))
             unit == 2^(ByteBits * (compact.size - 3))
         IN /\ compact \in [size : {Size, Size + 1}, mantissa : 0..(SignBit - 1)]
            /\ FromBits(compact) <= n /\ n < FromBits(compact) + unit
<1> DEFINE low == ByteBits * (Size - 3)
           m == n \div 2^low
           compact == GetCompact(ToUint(n))
<1>1. /\ ByteBits \in Nat \ {0} /\ Size \in Nat /\ Size > 3
      /\ low \in Nat /\ low <= LimbBits * WIDTH /\ low + ByteBits <= LimbBits * WIDTH
      /\ low + ByteBits <= LimbBits * (WIDTH + 1)
  BY Widths
<1>2. n \in Nat /\ 2^low \in Nat \ {0} /\ SignBit \in Nat \ {0} /\ 2^ByteBits \in Nat \ {0}
  BY <1>1, Sign, PowerNat
<1>3. /\ m \in Nat /\ m < 2 * SignBit
      /\ compact = IF m >= SignBit THEN [size |-> Size + 1, mantissa |-> m \div 2^ByteBits]
                                   ELSE [size |-> Size, mantissa |-> m]
  BY CompactForm
<1>4. CASE m < SignBit
  <2>1. compact = [size |-> Size, mantissa |-> m] /\ m % SignBit = m /\ m \in 0..(SignBit - 1)
    BY <1>2, <1>3, <1>4
  <2>2. FromBits(compact) = m * 2^low
    <3>1. ~(Size <= 3)
      BY <1>1
    <3> HIDE DEF m
    <3>2. compact.size = Size /\ compact.mantissa % SignBit = m
      BY <2>1
    <3> HIDE DEF compact
    <3> QED BY <3>1, <3>2 DEF FromBits
  <2>3. 2^low * m <= n /\ n < 2^low * m + 2^low
    <3> DEFINE u == 2^low
    <3> HIDE DEF u
    <3> QED BY <1>2, QuotientOrder DEF u
  <2>4. 2^low * m = m * 2^low
    BY <1>2, <1>3
  <2> QED BY <2>1, <2>2, <2>3, <2>4
<1>5. CASE m >= SignBit
  <2> DEFINE k == m \div 2^ByteBits
             high == 2^(low + ByteBits)
  <2>1. k \in Nat /\ k < SignBit /\ k \in 0..(SignBit - 1)
    <3>1. k \in Nat /\ k < SignBit
      BY <1>2, <1>3, Sign
    <3> HIDE DEF k
    <3> QED BY <1>2, <3>1
  <2>2. compact = [size |-> Size + 1, mantissa |-> k] /\ k % SignBit = k
    <3>1. k % SignBit = k
      <4> HIDE DEF k
      <4> QED BY <1>2, <2>1
    <3> QED BY <1>3, <1>5, <3>1
  <2>3. ByteBits * ((Size + 1) - 3) = low + ByteBits /\ ~(Size + 1 <= 3)
    <3>1. PICK z \in Nat : Size - 3 = z /\ (Size + 1) - 3 = z + 1
      <4>1. Size - 3 \in Nat /\ (Size + 1) - 3 = (Size - 3) + 1
        BY <1>1
      <4> QED BY <4>1
    <3>2. ByteBits * (z + 1) = ByteBits * z + ByteBits
      BY <1>1, <3>1
    <3>3. ~(Size + 1 <= 3)
      BY <1>1
    <3> QED BY <3>1, <3>2, <3>3
  <2>4. FromBits(compact) = k * high
    BY <2>2, <2>3 DEF FromBits
  <2>5. high = 2^low * 2^ByteBits
    <3> HIDE DEF low
    <3> QED BY <1>1, PowerSum
  <2>6. high \in Nat \ {0}
    <3>1. low + ByteBits \in Nat
      BY <1>1
    <3> HIDE DEF low
    <3> QED BY <1>1, <3>1, PowerNat
  <2>7. k = n \div high
    <3> HIDE DEF low
    <3> QED BY <1>2, <2>5, QuotientTwice
  <2>8. high * k <= n /\ n < high * k + high
    <3> HIDE DEF high, k
    <3> QED BY <1>2, <2>6, <2>7, QuotientOrder
  <2>9. high * k = k * high
    <3> HIDE DEF high, k
    <3> QED BY <2>1, <2>6
  <2> HIDE DEF k, high
  <2>10. 2^(ByteBits * (compact.size - 3)) = high
    BY <2>2, <2>3 DEF high
  <2>11. compact \in [size : {Size, Size + 1}, mantissa : 0..(SignBit - 1)]
    BY <2>1, <2>2
  <2> QED BY <2>4, <2>8, <2>9, <2>10, <2>11
<1>6. m < SignBit \/ m >= SignBit
  BY <1>2, <1>3
<1> QED BY <1>4, <1>5, <1>6

\* Both ways from bits to a target.
LEMMA SameTarget ==
  ASSUME NEW nBits \in Bits
  PROVE  hashTargetFromBits(nBits) = ToUint(FromBits(nBits))
<1> DEFINE target == nBits.mantissa % SignBit
<1>1. nBits.size \in 0..Size /\ nBits.mantissa \in Nat
  BY BitsAssumption, Sign
<1>2. target \in Nat /\ target \in 0..(Limit - 1)
  <2>1. target \in 0..(SignBit - 1)
    BY <1>1, Sign
  <2> HIDE DEF target
  <2> QED BY <2>1, Sign
<1>3. /\ ByteBits \in Nat \ {0} /\ Size \in Nat /\ Size > 3
      /\ 3 * ByteBits <= LimbBits * WIDTH /\ LimbBits * WIDTH \in Nat
      /\ ByteBits * Size = LimbBits * WIDTH
  BY Widths
<1> HIDE DEF target
<1>4. CASE nBits.size <= 3
  <2>1. ByteBits * (3 - nBits.size) \in 0..(LimbBits * WIDTH)
    <3>1. nBits.size \in {0, 1, 2, 3}
      BY <1>1, <1>3, <1>4
    <3> QED BY <1>3, <3>1
  <2>2. hashTargetFromBits(nBits) = ShiftRight(ToUint(target), ByteBits * (3 - nBits.size))
    BY <1>4 DEF hashTargetFromBits, target
  <2>3. FromBits(nBits) = target \div 2^(ByteBits * (3 - nBits.size))
    BY <1>4 DEF FromBits, target
  <2> QED BY <1>2, <2>1, <2>2, <2>3, ShiftRightDivides
<1>5. CASE ~(nBits.size <= 3)
  <2>1. ByteBits * (nBits.size - 3) \in 0..(LimbBits * WIDTH)
    <3>1. PICK d \in Nat, z \in Nat : nBits.size - 3 = z /\ Size = z + d
      <4>1. nBits.size - 3 \in Nat /\ Size - (nBits.size - 3) \in Nat
            /\ Size = (nBits.size - 3) + (Size - (nBits.size - 3))
        BY <1>1, <1>3, <1>5
      <4> QED BY <4>1
    <3>2. ByteBits * Size = ByteBits * z + ByteBits * d /\ ByteBits * z \in Nat
          /\ ByteBits * d \in Nat
      BY <1>3, <3>1
    <3> QED BY <1>3, <3>1, <3>2
  <2>2. hashTargetFromBits(nBits) = ShiftLeft(ToUint(target), ByteBits * (nBits.size - 3))
    BY <1>5 DEF hashTargetFromBits, target
  <2>3. FromBits(nBits) = target * 2^(ByteBits * (nBits.size - 3))
    BY <1>5 DEF FromBits, target
  <2> QED BY <1>2, <2>1, <2>2, <2>3, ShiftLeftMultiplies
<1> QED BY <1>4, <1>5

-----------------------------------------------------------------------------
\* The invariant

\* The share target fits a number of all limbs.
LEMMA ShareTargetFits ==
  ASSUME NEW coeff \in Coeffs
  PROVE  Limit \div coeff \in 0..(Limit - 1)
<1>1. coeff \in Nat \ {0, 1} /\ Limit \in Nat \ {0}
  BY CoeffsAssumption, Sign
<1>2. PICK c \in Nat : coeff = c + 2
  <2>1. coeff - 2 \in Nat
    BY <1>1
  <2> QED BY <1>1, <2>1
<1>3. coeff * Limit = Limit + Limit + c * Limit /\ c * Limit \in Nat
  BY <1>1, <1>2
<1>4. Limit < coeff * Limit
  BY <1>1, <1>3
<1> HIDE DEF Limit
<1>5. Limit \div coeff \in Nat /\ Limit \div coeff < Limit
  BY <1>1, <1>4, QuotientOrder
<1> QED BY <1>1, <1>5

\* The program starts with a share target and no block.
LEMMA InitTargets == Init => TargetsInv
BY Sign DEF Init, TargetsInv

\* A block brings its target, a share its verdict.
LEMMA StepTargets == TargetsInv /\ [Next]_vars => TargetsInv'
<1> SUFFICES ASSUME TargetsInv, [Next]_vars
             PROVE  TargetsInv'
  OBVIOUS
<1>1. 0 \in 0..(Limit - 1)
  BY Sign
<1>2. ASSUME NEW nBits \in Bits, NewBlock(nBits) PROVE TargetsInv'
  <2>1. nBits # NoBlock
    <3> SUFFICES ASSUME nBits = NoBlock PROVE FALSE
      OBVIOUS
    <3>1. nBits.size = 0 /\ nBits.mantissa = 0
      BY DEF NoBlock
    <3>2. 0 % SignBit = 0
      BY Sign
    <3>3. FromBits(nBits) = 0 \div 2^(ByteBits * 3)
      BY <3>1, <3>2 DEF FromBits
    <3>4. ByteBits * 3 = 3 * ByteBits
      BY Widths
    <3>5. 2^(3 * ByteBits) \in Nat \ {0}
      BY Sign
    <3>6. 0 \div 2^(3 * ByteBits) = 0
      <4> DEFINE p == 2^(3 * ByteBits)
      <4>1. p \in Nat \ {0}
        BY <3>5
      <4> HIDE DEF p
      <4>2. 0 \div p = 0
        BY <4>1
      <4> QED BY <4>2 DEF p
    <3> QED BY <1>2, <3>3, <3>4, <3>6 DEF NewBlock
  <2> QED BY <1>1, <1>2, <2>1 DEF NewBlock, TargetsInv, config
<1>3. ASSUME NEW n \in Hashes, Judge(n) PROVE TargetsInv'
  <2>1. n \in 0..(Limit - 1)
    BY HashesAssumption
  <2>2. verdict' = Judged(ToUint(hash))'
    BY <1>3 DEF Judge, Judged, config
  <2> QED BY <1>3, <2>1, <2>2 DEF Judge, TargetsInv, config
<1>4. CASE UNCHANGED vars
  BY <1>4 DEF vars, TargetsInv, Judged
<1> QED BY <1>2, <1>3, <1>4 DEF Next

\* The inductive invariant of the targets.
THEOREM TargetsInvariant == Spec => []TargetsInv
BY InitTargets, StepTargets, PTL DEF Spec

\* Limbs stay limbs, and the compact form has a clear sign bit.
THEOREM TargetsTypes == Spec => []TargetsTypeOK
<1>1. TargetsInv => TargetsTypeOK
  <2> SUFFICES ASSUME TargetsInv PROVE TargetsTypeOK
    OBVIOUS
  <2>1. Limit \div shareTargetCoeff \in 0..(Limit - 1) /\ Limit \div shareTargetCoeff \in Nat
    BY ShareTargetFits, Sign DEF TargetsInv
  <2>2. shareTarget \in [Limbs -> 0..(2^LimbBits - 1)]
    BY <2>1, LimbOf DEF TargetsInv
  <2>3. shareTargetBits \in [size : {Size, Size + 1}, mantissa : 0..(SignBit - 1)]
    BY <2>1, CompactValue DEF TargetsInv
  <2>4. blockTarget \in [Limbs -> 0..(2^LimbBits - 1)]
    <3>1. FromBits(bits) \in 1..(Limit - 1) => FromBits(bits) \in Nat
      BY Sign
    <3>2. 0 \in Nat
      OBVIOUS
    <3> QED BY <3>1, <3>2, LimbOf DEF TargetsInv
  <2>5. verdict \in {"none", "too small", "share", "block"}
    BY DEF TargetsInv, Judged
  <2> QED BY <2>2, <2>3, <2>4, <2>5 DEF TargetsInv, TargetsTypeOK
<1> QED BY <1>1, TargetsInvariant, PTL

\* A share that meets the target its miner was given is never too small, and the
\* miner is asked for less than one unit more than the pool wants.
THEOREM AdvertisedIsFair == Spec => []AdvertisedTargetIsFair
<1>1. TargetsInv => AdvertisedTargetIsFair
  <2> SUFFICES ASSUME TargetsInv PROVE AdvertisedTargetIsFair
    OBVIOUS
  <2>1. Limit \div shareTargetCoeff \in 0..(Limit - 1)
    BY ShareTargetFits DEF TargetsInv
  <2>2. shareTargetBits = GetCompact(ToUint(Limit \div shareTargetCoeff))
    BY DEF TargetsInv
  <2> QED BY <2>1, <2>2, CompactValue DEF AdvertisedTargetIsFair
<1> QED BY <1>1, TargetsInvariant, PTL

\* The pool's comparisons of limbs judge every share by its number.
THEOREM JudgedRight == Spec => []JudgedByNumber
<1>1. TargetsInv => JudgedByNumber
  <2> SUFFICES ASSUME TargetsInv, verdict # "none" PROVE JudgedByNumber
    BY DEF JudgedByNumber
  <2> DEFINE share == Limit \div shareTargetCoeff
             block == FromBits(bits)
  <2>1. share \in 0..(Limit - 1) /\ block \in 0..(Limit - 1) /\ hash \in 0..(Limit - 1)
    BY ShareTargetFits, Sign DEF TargetsInv
  <2>2. /\ shareTarget = ToUint(share) /\ blockTarget = ToUint(block)
        /\ verdict = Judged(ToUint(hash))
    BY DEF TargetsInv
  <2> HIDE DEF share, block
  <2>3. /\ Less(shareTarget, ToUint(hash)) <=> share < hash
        /\ Less(blockTarget, ToUint(hash)) <=> block < hash
    BY <2>1, <2>2, LessIsSmaller
  <2>4. share \in Nat /\ block \in Nat /\ hash \in Nat
    BY <2>1, Sign
  <2>5. JudgedByNumber <=>
          CASE hash > share                     -> verdict = "too small"
            [] hash <= share /\ hash > block   -> verdict = "share"
            [] OTHER                            -> verdict = "block"
    BY DEF JudgedByNumber, share, block
  <2>6. CASE hash > share
    <3>1. verdict = "too small"
      BY <2>2, <2>3, <2>4, <2>6 DEF Judged
    <3>2. ~(hash <= share)
      BY <2>4, <2>6
    <3> QED BY <2>5, <2>6, <3>1, <3>2
  <2>7. CASE ~(hash > share) /\ hash > block
    <3>1. verdict = "share"
      BY <2>2, <2>3, <2>4, <2>7 DEF Judged
    <3>2. hash <= share
      BY <2>4, <2>7
    <3> QED BY <2>5, <2>7, <3>1, <3>2
  <2>8. CASE ~(hash > share) /\ ~(hash > block)
    <3>1. verdict = "block"
      BY <2>2, <2>3, <2>4, <2>8 DEF Judged
    <3> QED BY <2>5, <2>8, <3>1
  <2> QED BY <2>6, <2>7, <2>8
<1> QED BY <1>1, TargetsInvariant, PTL

\* The shifts of uint256 and the arithmetic of mpz_class give the same target.
THEOREM ConversionsHold == Spec => []ConversionsAgree
<1>1. TargetsInv => ConversionsAgree
  BY SameTarget DEF TargetsInv, ConversionsAgree
<1> QED BY <1>1, TargetsInvariant, PTL
==============================================================================
