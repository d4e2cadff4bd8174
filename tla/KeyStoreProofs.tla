--------------------------- MODULE KeyStoreProofs ---------------------------
(***************************************************************************)
(* Proofs about the arithmetic of Shamir and about KeyStore, for every     *)
(* threshold, number of shares, secret and polynomial.                     *)
(***************************************************************************)
EXTENDS KeyStore, FiniteSetTheorems, SequenceTheorems, WellFoundedInduction, TLAPS

(***************************************************************************)
(* Exclusive or.                                                           *)
(***************************************************************************)
Byte == 0 .. 255

Wide == 0 .. 511

Places9 == {1, 2, 4, 8, 16, 32, 64, 128, 256}

Bits(a) == [w \in Places9 |-> (a \div w) % 2]

Number(d) ==
    d[1] + 2 * d[2] + 4 * d[4] + 8 * d[8] + 16 * d[16] + 32 * d[32] + 64 * d[64]
    + 128 * d[128] + 256 * d[256]

LEMMA BitsAre ==
    ASSUME NEW a \in Wide
    PROVE  Bits(a) \in [Places9 -> {0, 1}] /\ Number(Bits(a)) = a
<1>1. Bits(a) \in [Places9 -> {0, 1}]
  <2>1. \A w \in Places9 : (a \div w) % 2 \in {0, 1}
    BY DEF Wide, Places9
  <2>2. QED
    BY <2>1 DEF Bits
<1>2. Number(Bits(a)) = a
  BY DEF Wide, Bits, Places9, Number
<1>3. QED
  BY <1>1, <1>2

LEMMA BitsDecide ==
    ASSUME NEW a \in Wide, NEW b \in Wide, \A w \in Places9 : Bits(a)[w] = Bits(b)[w]
    PROVE  a = b
<1>1. Bits(a) = Bits(b)
  BY DEF Bits
<1>2. QED
  BY <1>1, BitsAre

LEMMA NumberBits ==
    ASSUME NEW d \in [Places9 -> {0, 1}]
    PROVE  Number(d) \in Wide /\ Bits(Number(d)) = d
<1> DEFINE x == Number(d)
<1>0. \A w \in Places9 : d[w] \in {0, 1}
  OBVIOUS
<1>1. x \in Wide
  BY <1>0 DEF Wide, Number, Places9
<1>2. (x \div 1) % 2 = d[1] /\ (x \div 2) % 2 = d[2] /\ (x \div 4) % 2 = d[4]
  BY <1>0 DEF Number, Places9
<1>3. (x \div 8) % 2 = d[8] /\ (x \div 16) % 2 = d[16] /\ (x \div 32) % 2 = d[32]
  BY <1>0 DEF Number, Places9
<1>4. (x \div 64) % 2 = d[64] /\ (x \div 128) % 2 = d[128] /\ (x \div 256) % 2 = d[256]
  BY <1>0 DEF Number, Places9
<1> HIDE DEF x
<1>5. \A w \in Places9 : (x \div w) % 2 = d[w]
  BY <1>2, <1>3, <1>4 DEF Places9
<1>6. Bits(x) = d
  BY <1>5 DEF Bits
<1>7. QED
  BY <1>1, <1>6 DEF x

LEMMA DigitSum ==
    ASSUME NEW a \in Nat, NEW b \in Nat
    PROVE  (a + b) % 2 = ((a % 2) + (b % 2)) % 2 /\ (a + b) % 2 \in {0, 1}
  OBVIOUS

LEMMA XorBits ==
    ASSUME NEW a \in Wide, NEW b \in Wide
    PROVE  /\ xor(a, b) \in Wide
           /\ \A w \in Places9 : Bits(xor(a, b))[w] = (Bits(a)[w] + Bits(b)[w]) % 2
<1> DEFINE d == [w \in Places9 |-> (a \div w + b \div w) % 2]
<1>1. ASSUME NEW w \in Places9 PROVE d[w] \in {0, 1} /\ d[w] = (Bits(a)[w] + Bits(b)[w]) % 2
  <2>1. PICK x, y : x = a \div w /\ y = b \div w
    OBVIOUS
  <2>2. x \in Nat /\ y \in Nat
    BY <2>1 DEF Places9, Wide
  <2>3. Bits(a)[w] = x % 2 /\ Bits(b)[w] = y % 2
    BY <2>1 DEF Bits
  <2>4. QED
    BY <2>1, <2>2, <2>3, DigitSum
<1>2. d \in [Places9 -> {0, 1}]
  BY <1>1
<1>3. xor(a, b) = Number(d)
  <2>1. d[1] \in Int /\ 1 * d[1] = d[1]
    BY <1>1 DEF Places9
  <2>2. QED
    BY <2>1 DEF xor, Number, Places9
<1> HIDE DEF d
<1>4. xor(a, b) \in Wide /\ Bits(xor(a, b)) = d
  BY <1>2, <1>3, NumberBits
<1>5. QED
  BY <1>1, <1>4

LEMMA XorBytes ==
    ASSUME NEW a \in Byte, NEW b \in Byte
    PROVE  xor(a, b) \in Byte
<1>1. a \in Wide /\ b \in Wide
  BY DEF Byte, Wide
<1>2. Bits(a)[256] = 0 /\ Bits(b)[256] = 0
  BY DEF Bits, Byte, Places9
<1>3. Bits(xor(a, b))[256] = 0 /\ xor(a, b) \in Wide
  BY <1>1, <1>2, XorBits DEF Places9
<1>4. QED
  BY <1>3 DEF Bits, Places9, Wide, Byte

LEMMA BitsIn ==
    ASSUME NEW a \in Wide, NEW w \in Places9
    PROVE  Bits(a)[w] \in {0, 1}
  BY BitsAre

LEMMA XorComm ==
    ASSUME NEW a \in Wide, NEW b \in Wide
    PROVE  xor(a, b) = xor(b, a)
<1>1. \A w \in Places9 : Bits(xor(a, b))[w] = Bits(xor(b, a))[w]
  <2>1. ASSUME NEW w \in Places9 PROVE Bits(xor(a, b))[w] = Bits(xor(b, a))[w]
    BY XorBits, BitsIn
  <2>2. QED
    BY <2>1
<1>2. QED
  BY <1>1, XorBits, BitsDecide

LEMMA XorAssoc ==
    ASSUME NEW a \in Wide, NEW b \in Wide, NEW c \in Wide
    PROVE  xor(xor(a, b), c) = xor(a, xor(b, c))
<1>1. xor(a, b) \in Wide /\ xor(b, c) \in Wide
  BY XorBits
<1>2. ASSUME NEW w \in Places9
      PROVE Bits(xor(xor(a, b), c))[w] = Bits(xor(a, xor(b, c)))[w]
  <2>1. PICK x, y, z : x = Bits(a)[w] /\ y = Bits(b)[w] /\ z = Bits(c)[w]
    OBVIOUS
  <2>2. x \in {0, 1} /\ y \in {0, 1} /\ z \in {0, 1}
    BY <2>1, BitsIn
  <2>3. Bits(xor(a, b))[w] = (x + y) % 2 /\ Bits(xor(b, c))[w] = (y + z) % 2
    BY <2>1, XorBits
  <2>4. /\ Bits(xor(xor(a, b), c))[w] = (((x + y) % 2) + z) % 2
        /\ Bits(xor(a, xor(b, c)))[w] = (x + ((y + z) % 2)) % 2
    BY <1>1, <2>1, <2>3, XorBits
  <2>5. QED
    BY <2>2, <2>4
<1>3. xor(xor(a, b), c) \in Wide /\ xor(a, xor(b, c)) \in Wide
  BY <1>1, XorBits
<1>4. QED
  BY <1>2, <1>3, BitsDecide

LEMMA XorSelf ==
    ASSUME NEW a \in Wide
    PROVE  xor(a, a) = 0 /\ xor(a, 0) = a /\ xor(0, a) = a
<1>1. 0 \in Wide
  BY DEF Wide
<1>2. \A w \in Places9 : Bits(0)[w] = 0
  BY DEF Bits, Places9
<1>3. ASSUME NEW w \in Places9
      PROVE Bits(xor(a, a))[w] = Bits(0)[w] /\ Bits(xor(a, 0))[w] = Bits(a)[w]
  <2>1. Bits(a)[w] \in {0, 1}
    BY BitsIn
  <2>2. Bits(xor(a, a))[w] = (Bits(a)[w] + Bits(a)[w]) % 2
    BY XorBits
  <2>3. Bits(xor(a, 0))[w] = (Bits(a)[w] + Bits(0)[w]) % 2
    BY <1>1, XorBits
  <2>4. QED
    BY <1>2, <2>1, <2>2, <2>3
<1>4. xor(a, a) \in Wide /\ xor(a, 0) \in Wide
  BY <1>1, XorBits
<1>5. xor(a, a) = 0 /\ xor(a, 0) = a
  BY <1>1, <1>3, <1>4, BitsDecide
<1>6. QED
  BY <1>1, <1>5, XorComm

LEMMA ByteWide == Byte \subseteq Wide
  BY DEF Byte, Wide

(* Doubling moves the digits up.                                           *)
LEMMA XorDouble ==
    ASSUME NEW a \in Byte, NEW b \in Byte
    PROVE  /\ 2 * a \in Wide /\ 2 * b \in Wide /\ xor(a, b) \in Byte
           /\ 2 * xor(a, b) = xor(2 * a, 2 * b)
<1>1. 2 * a \in Wide /\ 2 * b \in Wide /\ a \in Wide /\ b \in Wide
  BY DEF Byte, Wide
<1>2. PICK x : x = xor(a, b)
  OBVIOUS
<1>3. x \in Byte /\ 2 * x \in Wide
  <2>1. x \in Byte
    BY <1>2, XorBytes
  <2>2. QED
    BY <2>1 DEF Byte, Wide
<1>4. ASSUME NEW c \in Byte
      PROVE  /\ Bits(2 * c)[1] = 0 /\ Bits(2 * c)[2] = Bits(c)[1] /\ Bits(2 * c)[4] = Bits(c)[2]
             /\ Bits(2 * c)[8] = Bits(c)[4] /\ Bits(2 * c)[16] = Bits(c)[8]
             /\ Bits(2 * c)[32] = Bits(c)[16] /\ Bits(2 * c)[64] = Bits(c)[32]
             /\ Bits(2 * c)[128] = Bits(c)[64] /\ Bits(2 * c)[256] = Bits(c)[128]
  BY DEF Bits, Byte, Places9
<1>5. \A w \in Places9 : Bits(x)[w] = (Bits(a)[w] + Bits(b)[w]) % 2
  BY <1>1, <1>2, XorBits
<1>6. PICK y : y = xor(2 * a, 2 * b)
  OBVIOUS
<1>7. \A w \in Places9 : Bits(y)[w] = (Bits(2 * a)[w] + Bits(2 * b)[w]) % 2
  BY <1>1, <1>6, XorBits
<1>8. \A w \in Places9 : Bits(2 * x)[w] = Bits(y)[w]
  BY <1>3, <1>4, <1>5, <1>7 DEF Places9
<1>9. 2 * x = y
  BY <1>1, <1>3, <1>6, <1>8, XorBits, BitsDecide
<1>10. QED
  BY <1>1, <1>2, <1>3, <1>6, <1>9

(***************************************************************************)
(* Multiplication.                                                         *)
(***************************************************************************)
(* Four summands, crosswise.                                               *)
LEMMA XorCross ==
    ASSUME NEW a \in Wide, NEW b \in Wide, NEW c \in Wide, NEW d \in Wide
    PROVE  xor(xor(a, b), xor(c, d)) = xor(xor(a, c), xor(b, d))
<1>1. xor(a, b) \in Wide /\ xor(c, d) \in Wide /\ xor(a, c) \in Wide /\ xor(b, d) \in Wide
  BY XorBits
<1>2. xor(xor(a, b), xor(c, d)) = xor(xor(xor(a, b), c), d)
  BY <1>1, XorAssoc
<1>3. xor(xor(a, b), c) = xor(a, xor(b, c)) /\ xor(xor(a, c), b) = xor(a, xor(c, b))
  BY XorAssoc
<1>4. xor(b, c) = xor(c, b)
  BY XorComm
<1>5. xor(xor(xor(a, c), b), d) = xor(xor(a, c), xor(b, d))
  BY <1>1, XorAssoc
<1>6. QED
  BY <1>2, <1>3, <1>4, <1>5

(* The reduction is by the highest bit.                                    *)
Reduced(y) == IF y > 255 THEN xor(y, 283) ELSE y

LEMMA HighBit ==
    ASSUME NEW y \in Wide
    PROVE  (y > 255) = (Bits(y)[256] = 1) /\ Bits(y)[256] \in {0, 1}
  BY DEF Bits, Places9, Wide

LEMMA ReducedXor ==
    ASSUME NEW y \in Wide, NEW z \in Wide
    PROVE  /\ Reduced(y) \in Byte
           /\ Reduced(xor(y, z)) = xor(Reduced(y), Reduced(z))
<1>0. 283 \in Wide /\ 0 \in Wide
  BY DEF Wide
<1>1. Bits(283)[256] = 1
  BY DEF Bits, Places9
<1>2. 256 \in Places9
  BY DEF Places9
<1>3. xor(y, z) \in Wide /\ Bits(xor(y, z))[256] = (Bits(y)[256] + Bits(z)[256]) % 2
  BY <1>2, XorBits
<1>4. y > 255 => ~ (xor(y, 283) > 255)
  <2> SUFFICES ASSUME y > 255 PROVE ~ (xor(y, 283) > 255)
    OBVIOUS
  <2>1. xor(y, 283) \in Wide /\ Bits(xor(y, 283))[256] = (Bits(y)[256] + Bits(283)[256]) % 2
    BY <1>0, <1>2, XorBits
  <2>2. Bits(y)[256] = 1
    BY HighBit
  <2>3. Bits(xor(y, 283))[256] = 0
    BY <1>1, <2>1, <2>2
  <2>4. QED
    BY <2>1, <2>3, HighBit
<1>5. Reduced(y) \in Byte
  <2>1. xor(y, 283) \in Wide
    BY <1>0, XorBits
  <2>2. QED
    BY <1>4, <2>1 DEF Reduced, Byte, Wide
<1>6. (xor(y, z) > 255) <=> (y > 255) # (z > 255)
  <2>1. Bits(y)[256] \in {0, 1} /\ Bits(z)[256] \in {0, 1}
    BY HighBit
  <2>2. (y > 255) = (Bits(y)[256] = 1) /\ (z > 255) = (Bits(z)[256] = 1)
    BY HighBit
  <2>3. (xor(y, z) > 255) = (Bits(xor(y, z))[256] = 1)
    BY <1>3, HighBit
  <2>4. QED
    BY <1>3, <2>1, <2>2, <2>3
<1>7. CASE y > 255 /\ z > 255
  <2>1. xor(xor(y, 283), xor(z, 283)) = xor(xor(y, z), xor(283, 283))
    BY <1>0, XorCross
  <2>2. xor(283, 283) = 0 /\ xor(xor(y, z), 0) = xor(y, z)
    BY <1>0, <1>3, XorSelf
  <2>3. QED
    BY <1>5, <1>6, <1>7, <2>1, <2>2 DEF Reduced
<1>8. CASE y > 255 /\ ~ (z > 255)
  <2>1. xor(xor(y, z), xor(283, 0)) = xor(xor(y, 283), xor(z, 0))
    BY <1>0, XorCross
  <2>2. xor(283, 0) = 283 /\ xor(z, 0) = z
    BY <1>0, XorSelf
  <2>3. QED
    BY <1>5, <1>6, <1>8, <2>1, <2>2 DEF Reduced
<1>9. CASE ~ (y > 255) /\ z > 255
  <2>1. xor(xor(y, z), 283) = xor(y, xor(z, 283))
    BY <1>0, XorAssoc
  <2>2. QED
    BY <1>5, <1>6, <1>9, <2>1 DEF Reduced
<1>10. CASE ~ (y > 255) /\ ~ (z > 255)
  BY <1>5, <1>6, <1>10 DEF Reduced
<1>11. QED
  BY <1>7, <1>8, <1>9, <1>10

(* Multiplying by three is linear.                                         *)
LEMMA TimesThreeXor ==
    ASSUME NEW a \in Byte, NEW b \in Byte
    PROVE  /\ TimesThree(a) \in Byte
           /\ TimesThree(xor(a, b)) = xor(TimesThree(a), TimesThree(b))
<1>1. a \in Wide /\ b \in Wide /\ xor(a, b) \in Byte
  BY ByteWide, XorBytes
<1>2. 2 * a \in Wide /\ 2 * b \in Wide /\ 2 * xor(a, b) = xor(2 * a, 2 * b)
  BY XorDouble
<1>3. TimesThree(a) = Reduced(xor(a, 2 * a)) /\ TimesThree(b) = Reduced(xor(b, 2 * b))
  BY DEF TimesThree, Reduced
<1>4. TimesThree(xor(a, b)) = Reduced(xor(xor(a, b), 2 * xor(a, b)))
  BY DEF TimesThree, Reduced
<1>5. xor(xor(a, b), xor(2 * a, 2 * b)) = xor(xor(a, 2 * a), xor(b, 2 * b))
  BY <1>1, <1>2, XorCross
<1>6. xor(a, 2 * a) \in Wide /\ xor(b, 2 * b) \in Wide
  BY <1>1, <1>2, XorBits
<1>7. QED
  BY <1>2, <1>3, <1>4, <1>5, <1>6, ReducedXor

Power(k) == gf_exp[k + 1]

Unit == 1 .. 255

LEMMA PowerZero == Power(0) = 1
<1>1. gf_exp[1] = 1
  BY TablesAssumption
<1>2. 0 + 1 = 1
  OBVIOUS
<1>3. QED
  BY <1>1, <1>2 DEF Power

LEMMA PowerIs ==
    ASSUME NEW k \in 0 .. 254
    PROVE  Power(k) \in Unit /\ gf_log[Power(k)] = k
<1>1. PICK j : j = k + 1
  OBVIOUS
<1>2. j \in 1 .. 255 /\ j - 1 = k
  BY <1>1
<1>3. gf_exp[j] \in 1 .. 255 /\ gf_log[gf_exp[j]] = j - 1
  BY <1>2, TablesAssumption, Zenon
<1>4. QED
  BY <1>1, <1>2, <1>3 DEF Power, Unit

LEMMA PowerNext ==
    ASSUME NEW k \in 0 .. 254
    PROVE  Power((k + 1) % 255) = TimesThree(Power(k))
<1>1. PICK j : j = k + 1
  OBVIOUS
<1>2. j \in 1 .. 255
  BY <1>1
<1>3. gf_exp[(j % 255) + 1] = TimesThree(gf_exp[j])
  BY <1>2, TablesAssumption, Zenon
<1>4. QED
  BY <1>1, <1>3 DEF Power

LEMMA LogIs ==
    ASSUME NEW a \in Unit
    PROVE  gf_log[a] \in 0 .. 254 /\ Power(gf_log[a]) = a
  BY TablesAssumption, Zenon DEF Power, Unit

LEMMA Mod255 == \A n \in Int : n % 255 \in 0 .. 254
  OBVIOUS

LEMMA Units == Unit \subseteq Byte /\ 1 \in Unit /\ 0 \in Byte /\ 0 \notin Unit /\ Byte = Unit \cup {0}
  BY DEF Byte, Unit

LEMMA LogOne == gf_log[1] = 0
<1>1. 0 \in 0 .. 254
  OBVIOUS
<1>2. QED
  BY <1>1, PowerZero, PowerIs

LEMMA MulZero ==
    ASSUME NEW a
    PROVE  gf_mul(a, 0) = 0 /\ gf_mul(0, a) = 0
  BY DEF gf_mul

LEMMA MulUnits ==
    ASSUME NEW a \in Unit, NEW b \in Unit
    PROVE  /\ gf_mul(a, b) = Power((gf_log[a] + gf_log[b]) % 255)
           /\ gf_mul(a, b) \in Unit
           /\ gf_log[gf_mul(a, b)] = (gf_log[a] + gf_log[b]) % 255
<1>1. gf_mul(a, b) = Power((gf_log[a] + gf_log[b]) % 255)
  BY DEF gf_mul, Power, Unit
<1>2. gf_log[a] \in 0 .. 254 /\ gf_log[b] \in 0 .. 254
  BY LogIs
<1>3. (gf_log[a] + gf_log[b]) % 255 \in 0 .. 254
  <2>1. PICK i, j : i = gf_log[a] /\ j = gf_log[b]
    OBVIOUS
  <2>2. i \in 0 .. 254 /\ j \in 0 .. 254
    BY <1>2, <2>1
  <2>3. i + j \in Int
    BY <2>2
  <2>4. QED
    BY <2>1, <2>3, Mod255
<1>4. QED
  BY <1>1, <1>3, PowerIs

LEMMA MulBytes ==
    ASSUME NEW a \in Byte, NEW b \in Byte
    PROVE  gf_mul(a, b) \in Byte
  BY MulUnits, MulZero, Units

LEMMA MulComm ==
    ASSUME NEW a \in Byte, NEW b \in Byte
    PROVE  gf_mul(a, b) = gf_mul(b, a)
<1>1. CASE a \in Unit /\ b \in Unit
  <2>1. gf_log[a] \in Int /\ gf_log[b] \in Int
    BY <1>1, LogIs, LogOne
  <2>2. gf_log[a] + gf_log[b] = gf_log[b] + gf_log[a]
    BY <2>1
  <2>3. QED
    BY <1>1, <2>2, MulUnits
<1>2. CASE a = 0 \/ b = 0
  BY <1>2, MulZero
<1>3. QED
  BY <1>1, <1>2, Units

LEMMA MulAssoc ==
    ASSUME NEW a \in Byte, NEW b \in Byte, NEW c \in Byte
    PROVE  gf_mul(gf_mul(a, b), c) = gf_mul(a, gf_mul(b, c))
<1>1. CASE a \in Unit /\ b \in Unit /\ c \in Unit
  <2>1. PICK i, j, k : i = gf_log[a] /\ j = gf_log[b] /\ k = gf_log[c]
    OBVIOUS
  <2>2. i \in 0 .. 254 /\ j \in 0 .. 254 /\ k \in 0 .. 254
    BY <1>1, <2>1, LogIs
  <2>3. /\ gf_mul(a, b) \in Unit /\ gf_log[gf_mul(a, b)] = (i + j) % 255
        /\ gf_mul(b, c) \in Unit /\ gf_log[gf_mul(b, c)] = (j + k) % 255
    BY <1>1, <2>1, MulUnits
  <2>4. /\ gf_mul(gf_mul(a, b), c) = Power((((i + j) % 255) + k) % 255)
        /\ gf_mul(a, gf_mul(b, c)) = Power((i + ((j + k) % 255)) % 255)
    BY <1>1, <2>1, <2>3, MulUnits
  <2>5. (((i + j) % 255) + k) % 255 = (i + ((j + k) % 255)) % 255
    BY <2>2
  <2>6. QED
    BY <2>4, <2>5
<1>2. CASE a = 0 \/ b = 0 \/ c = 0
  BY <1>2, MulZero
<1>3. QED
  BY <1>1, <1>2, Units

LEMMA MulOne ==
    ASSUME NEW a \in Byte
    PROVE  gf_mul(a, 1) = a /\ gf_mul(1, a) = a
<1>1. CASE a \in Unit
  <2>1. gf_log[1] = 0 /\ gf_log[a] \in 0 .. 254 /\ Power(gf_log[a]) = a
    BY <1>1, LogIs, LogOne
  <2>2. (gf_log[a] + gf_log[1]) % 255 = gf_log[a]
    BY <2>1
  <2>3. gf_mul(a, 1) = a
    BY <1>1, <2>1, <2>2, MulUnits, Units
  <2>4. QED
    BY <2>3, MulComm, Units
<1>2. CASE a = 0
  BY <1>2, MulZero
<1>3. QED
  BY <1>1, <1>2, Units

Inv(b) == gf_div(1, b)

LEMMA InvIs ==
    ASSUME NEW b \in Unit
    PROVE  Inv(b) \in Unit /\ gf_mul(b, Inv(b)) = 1
<1>1. gf_log[1] = 0 /\ gf_log[b] \in 0 .. 254
  BY LogIs, LogOne, Units
<1>2. PICK k : k = (255 - gf_log[b]) % 255
  OBVIOUS
<1>3. k \in 0 .. 254 /\ (gf_log[b] + k) % 255 = 0 /\ k = (gf_log[1] + 255 - gf_log[b]) % 255
  BY <1>1, <1>2
<1>4. Inv(b) = Power(k)
  BY <1>3 DEF Inv, gf_div, Power
<1>5. Inv(b) \in Unit /\ gf_log[Inv(b)] = k
  BY <1>3, <1>4, PowerIs
<1>6. QED
  BY <1>3, <1>5, MulUnits, PowerZero

LEMMA DivIs ==
    ASSUME NEW a \in Byte, NEW b \in Unit
    PROVE  gf_div(a, b) = gf_mul(a, Inv(b))
<1>1. CASE a = 0
  BY <1>1, MulZero DEF gf_div
<1>2. CASE a \in Unit
  <2>1. gf_log[1] = 0 /\ gf_log[b] \in 0 .. 254 /\ gf_log[a] \in 0 .. 254
    BY <1>2, LogIs, LogOne, Units
  <2>2. PICK k : k = (255 - gf_log[b]) % 255
    OBVIOUS
  <2>3. k \in 0 .. 254 /\ k = (gf_log[1] + 255 - gf_log[b]) % 255
    BY <2>1, <2>2
  <2>4. Inv(b) = Power(k)
    BY <2>3 DEF Inv, gf_div, Power
  <2>5. Inv(b) \in Unit /\ gf_log[Inv(b)] = k
    BY <2>3, <2>4, PowerIs
  <2>6. (gf_log[a] + k) % 255 = (gf_log[a] + 255 - gf_log[b]) % 255
    BY <2>1, <2>2
  <2>7. gf_div(a, b) = Power((gf_log[a] + 255 - gf_log[b]) % 255)
    BY <1>2, Units DEF gf_div, Power
  <2>8. QED
    BY <1>2, <2>5, <2>6, <2>7, MulUnits
<1>3. QED
  BY <1>1, <1>2, Units

LEMMA MulNext ==
    ASSUME NEW k \in 0 .. 253, NEW x \in Byte
    PROVE  gf_mul(Power(k + 1), x) = TimesThree(gf_mul(Power(k), x))
<1>0. k \in 0 .. 254 /\ k + 1 \in 0 .. 254
  OBVIOUS
<1>1. CASE x = 0
  <2>1. TimesThree(xor(0, 0)) = xor(TimesThree(0), TimesThree(0)) /\ TimesThree(0) \in Byte
    BY TimesThreeXor, Units
  <2>2. TimesThree(0) = 0
    BY <2>1, XorSelf, ByteWide, Units
  <2>3. QED
    BY <1>1, <2>2, MulZero
<1>2. CASE x \in Unit
  <2>1. PICK j : j = gf_log[x]
    OBVIOUS
  <2>2. j \in 0 .. 254
    BY <1>2, <2>1, LogIs
  <2>3. gf_log[Power(k)] = k /\ gf_log[Power(k + 1)] = k + 1 /\ Power(k) \in Unit /\ Power(k + 1) \in Unit
    BY <1>0, PowerIs
  <2>4. gf_mul(Power(k), x) = Power((k + j) % 255) /\ gf_mul(Power(k + 1), x) = Power((k + 1 + j) % 255)
    BY <1>2, <2>1, <2>3, MulUnits
  <2>5. PICK m : m = (k + j) % 255
    OBVIOUS
  <2>6. m \in 0 .. 254 /\ (m + 1) % 255 = (k + 1 + j) % 255
    BY <2>2, <2>5
  <2>7. QED
    BY <2>4, <2>5, <2>6, PowerNext
<1>3. QED
  BY <1>1, <1>2, Units

(* Induction over the natural numbers, by the least one that is missing.   *)
LEMMA AllNumbers ==
    ASSUME NEW S, 0 \in S, \A n \in Nat : n \in S => n + 1 \in S
    PROVE  Nat \subseteq S
<1> SUFFICES ASSUME Nat \ S # {} PROVE FALSE
  OBVIOUS
<1>1. PICK h0 \in Nat \ S : \A k \in Nat \ S : ~ (<<k, h0>> \in OpToRel(<, Nat))
  BY NatLessThanWellFounded, WFMin
<1>2. h0 # 0 /\ h0 \in Nat
  BY <1>1
<1>3. h0 - 1 \in Nat /\ (h0 - 1) + 1 = h0 /\ h0 - 1 < h0
  BY <1>2
<1>4. h0 - 1 \in Nat \ S
  BY <1>1, <1>3
<1>5. <<h0 - 1, h0>> \in OpToRel(<, Nat)
  BY <1>2, <1>3 DEF OpToRel
<1>6. QED
  BY <1>1, <1>4, <1>5

LEMMA Distributive ==
    ASSUME NEW a \in Byte, NEW x \in Byte, NEW y \in Byte
    PROVE  gf_mul(a, xor(x, y)) = xor(gf_mul(a, x), gf_mul(a, y))
<1> DEFINE Linear(k) == \A u, v \in Byte :
               gf_mul(Power(k), xor(u, v)) = xor(gf_mul(Power(k), u), gf_mul(Power(k), v))
           S == {k \in Nat : k <= 254 => Linear(k)}
<1>1. 0 \in S
  <2>1. \A u \in Byte : gf_mul(Power(0), u) = u
    BY PowerZero, MulOne
  <2>2. Linear(0)
    BY <2>1, XorBytes
  <2>3. QED
    BY <2>2
<1>2. ASSUME NEW k \in Nat, k \in S PROVE k + 1 \in S
  <2> SUFFICES ASSUME k + 1 <= 254 PROVE Linear(k + 1)
    OBVIOUS
  <2>1. Linear(k) /\ k \in 0 .. 253 /\ k \in 0 .. 254
    BY <1>2
  <2>2. Power(k) \in Byte
    BY <2>1, PowerIs, Units
  <2> HIDE DEF S
  <2>3. ASSUME NEW u \in Byte, NEW v \in Byte
        PROVE gf_mul(Power(k + 1), xor(u, v)) = xor(gf_mul(Power(k + 1), u), gf_mul(Power(k + 1), v))
    <3>1. PICK w : w = xor(u, v)
      OBVIOUS
    <3>2. w \in Byte
      BY <3>1, XorBytes
    <3>3. PICK p, q : p = gf_mul(Power(k), u) /\ q = gf_mul(Power(k), v)
      OBVIOUS
    <3>4. p \in Byte /\ q \in Byte
      BY <2>2, <3>3, MulBytes
    <3>5. gf_mul(Power(k), w) = xor(p, q)
      BY <2>1, <3>1, <3>3
    <3>6. gf_mul(Power(k + 1), w) = TimesThree(gf_mul(Power(k), w))
      BY <2>1, <3>2, MulNext
    <3>7. gf_mul(Power(k + 1), u) = TimesThree(p) /\ gf_mul(Power(k + 1), v) = TimesThree(q)
      BY <2>1, <3>3, MulNext
    <3>8. TimesThree(xor(p, q)) = xor(TimesThree(p), TimesThree(q))
      BY <3>4, TimesThreeXor
    <3>9. QED
      BY <3>1, <3>5, <3>6, <3>7, <3>8
  <2>4. QED
    BY <2>3
<1>3. Nat \subseteq S
  <2> HIDE DEF S
  <2>1. QED
    BY <1>1, <1>2, AllNumbers
<1>4. CASE a = 0
  <2>1. xor(0, 0) = 0
    BY XorSelf, ByteWide, Units
  <2>2. QED
    BY <1>4, <2>1, MulZero
<1>5. CASE a \in Unit
  <2>1. PICK k : k = gf_log[a]
    OBVIOUS
  <2>2. k \in 0 .. 254 /\ Power(k) = a
    BY <1>5, <2>1, LogIs
  <2>3. k \in Nat /\ k <= 254
    BY <2>2
  <2>4. Linear(k)
    BY <1>3, <2>3
  <2> HIDE DEF S
  <2>5. QED
    BY <2>2, <2>4
<1>6. QED
  BY <1>4, <1>5, Units

(***************************************************************************)
(* Consequences of the laws.                                               *)
(***************************************************************************)
LEMMA Spread ==
    ASSUME NEW a \in Byte, NEW b \in Byte, NEW c \in Byte
    PROVE  gf_mul(xor(a, b), c) = xor(gf_mul(a, c), gf_mul(b, c))
<1>1. xor(a, b) \in Byte
  BY XorBytes
<1>2. gf_mul(xor(a, b), c) = gf_mul(c, xor(a, b))
  BY <1>1, MulComm
<1>3. gf_mul(c, xor(a, b)) = xor(gf_mul(c, a), gf_mul(c, b))
  BY Distributive
<1>4. gf_mul(c, a) = gf_mul(a, c) /\ gf_mul(c, b) = gf_mul(b, c)
  BY MulComm
<1>5. QED
  BY <1>2, <1>3, <1>4

LEMMA Swap ==
    ASSUME NEW a \in Byte, NEW b \in Byte, NEW c \in Byte
    PROVE  gf_mul(a, gf_mul(b, c)) = gf_mul(b, gf_mul(a, c))
<1>1. gf_mul(gf_mul(a, b), c) = gf_mul(a, gf_mul(b, c))
  BY MulAssoc
<1>2. gf_mul(gf_mul(b, a), c) = gf_mul(b, gf_mul(a, c))
  BY MulAssoc
<1>3. gf_mul(a, b) = gf_mul(b, a)
  BY MulComm
<1>4. QED
  BY <1>1, <1>2, <1>3

LEMMA MulCross ==
    ASSUME NEW a \in Byte, NEW b \in Byte, NEW c \in Byte, NEW d \in Byte
    PROVE  gf_mul(gf_mul(a, b), gf_mul(c, d)) = gf_mul(gf_mul(a, c), gf_mul(b, d))
<1>1. gf_mul(c, d) \in Byte /\ gf_mul(b, d) \in Byte
  BY MulBytes
<1>2. gf_mul(gf_mul(a, b), gf_mul(c, d)) = gf_mul(a, gf_mul(b, gf_mul(c, d)))
  BY <1>1, MulAssoc
<1>3. gf_mul(b, gf_mul(c, d)) = gf_mul(c, gf_mul(b, d))
  BY Swap
<1>4. gf_mul(a, gf_mul(c, gf_mul(b, d))) = gf_mul(gf_mul(a, c), gf_mul(b, d))
  BY <1>1, MulAssoc
<1>5. QED
  BY <1>2, <1>3, <1>4

LEMMA InvMul ==
    ASSUME NEW a \in Unit, NEW b \in Unit
    PROVE  gf_mul(a, b) \in Unit /\ Inv(gf_mul(a, b)) = gf_mul(Inv(a), Inv(b))
<1>1. PICK p : p = gf_mul(a, b)
  OBVIOUS
<1>2. p \in Unit /\ Inv(p) \in Unit /\ gf_mul(p, Inv(p)) = 1
  BY <1>1, MulUnits, InvIs
<1>3. PICK q : q = gf_mul(Inv(a), Inv(b))
  OBVIOUS
<1>4. /\ Inv(a) \in Unit /\ gf_mul(a, Inv(a)) = 1 /\ Inv(b) \in Unit /\ gf_mul(b, Inv(b)) = 1
  BY InvIs
<1>5. q \in Byte /\ p \in Byte /\ Inv(p) \in Byte
  BY <1>2, <1>3, <1>4, MulBytes, Units
<1>6. gf_mul(p, q) = gf_mul(gf_mul(a, Inv(a)), gf_mul(b, Inv(b)))
  BY <1>1, <1>3, <1>4, MulCross, Units
<1>7. gf_mul(p, q) = 1
  BY <1>4, <1>6, MulOne, Units
<1>8. gf_mul(Inv(p), gf_mul(p, q)) = gf_mul(p, gf_mul(Inv(p), q))
  BY <1>5, Swap
<1>9. gf_mul(gf_mul(p, Inv(p)), q) = gf_mul(p, gf_mul(Inv(p), q))
  BY <1>5, MulAssoc
<1>10. Inv(p) = q
  BY <1>2, <1>5, <1>7, <1>8, <1>9, MulOne
<1>11. QED
  BY <1>1, <1>2, <1>3, <1>10

(* Different bytes have a difference that can be divided by.               *)
LEMMA Differ ==
    ASSUME NEW a \in Byte, NEW b \in Byte
    PROVE  xor(a, b) \in Byte /\ (a # b => xor(a, b) \in Unit) /\ xor(a, a) = 0
<1>1. xor(a, b) \in Byte /\ xor(a, a) = 0 /\ xor(b, b) = 0 /\ xor(a, 0) = a /\ xor(0, b) = b
  BY XorBytes, XorSelf, ByteWide
<1>2. xor(xor(a, b), b) = xor(a, xor(b, b))
  BY XorAssoc, ByteWide
<1>3. xor(a, b) = 0 => a = b
  BY <1>1, <1>2
<1>4. QED
  BY <1>1, <1>3, Units

LEMMA Telescope ==
    ASSUME NEW a \in Byte, NEW b \in Byte, NEW c \in Byte
    PROVE  xor(xor(a, b), xor(a, c)) = xor(b, c) /\ xor(xor(b, a), xor(a, c)) = xor(b, c)
<1>1. xor(a, b) = xor(b, a) /\ xor(a, c) \in Byte /\ xor(0, c) = c /\ xor(a, a) = 0
  BY XorComm, XorBytes, XorSelf, ByteWide
<1>2. xor(xor(b, a), xor(a, c)) = xor(b, xor(a, xor(a, c)))
  BY <1>1, XorAssoc, ByteWide
<1>3. xor(xor(a, a), c) = xor(a, xor(a, c))
  BY XorAssoc, ByteWide
<1>4. QED
  BY <1>1, <1>2, <1>3

(***************************************************************************)
(* Products and sums.                                                      *)
(***************************************************************************)
Steps(f, base, n, step) == f[0] = base /\ \A k \in 1 .. n : f[k] = step[<<k, f[k - 1]>>]

LEMMA Recursion ==
    ASSUME NEW V, NEW base \in V, NEW n \in Nat, NEW step \in [(1 .. n) \X V -> V]
    PROVE  \E f \in [0 .. n -> V] : Steps(f, base, n, step)
<1> DEFINE Begun(f, k) == f[0] = base /\ \A j \in 1 .. k : f[j] = step[<<j, f[j - 1]>>]
           S == {k \in Nat : k <= n => \E f \in [0 .. n -> V] : Begun(f, k)}
<1>1. 0 \in S
  <2>1. [j \in 0 .. n |-> base] \in [0 .. n -> V] /\ Begun([j \in 0 .. n |-> base], 0)
    OBVIOUS
  <2>2. QED
    BY <2>1
<1>2. ASSUME NEW k \in Nat, k \in S PROVE k + 1 \in S
  <2> SUFFICES ASSUME k + 1 <= n PROVE \E f \in [0 .. n -> V] : Begun(f, k + 1)
    OBVIOUS
  <2>1. PICK f \in [0 .. n -> V] : Begun(f, k)
    BY <1>2
  <2>2. PICK v : v = step[<<k + 1, f[k]>>]
    OBVIOUS
  <2>3. k \in 0 .. n /\ k + 1 \in 1 .. n /\ k + 1 \in 0 .. n /\ f[k] \in V
    OBVIOUS
  <2>4. <<k + 1, f[k]>> \in (1 .. n) \X V
    BY <2>3
  <2>5. v \in V
    BY <2>2, <2>4
  <2>6. PICK g : g = [f EXCEPT ![k + 1] = v]
    OBVIOUS
  <2>7. g \in [0 .. n -> V] /\ g[k + 1] = v /\ \A j \in 0 .. k : g[j] = f[j]
    BY <2>3, <2>5, <2>6
  <2>8. g[0] = base
    BY <2>1, <2>7
  <2>9. ASSUME NEW j \in 1 .. k + 1 PROVE g[j] = step[<<j, g[j - 1]>>]
    <3>1. CASE j = k + 1
      <4>1. j - 1 = k /\ k \in 0 .. k
        BY <3>1
      <4>2. QED
        BY <2>2, <2>7, <3>1, <4>1
    <3>2. CASE j \in 1 .. k
      <4>1. j \in 0 .. k /\ j - 1 \in 0 .. k
        BY <3>2
      <4>2. f[j] = step[<<j, f[j - 1]>>]
        BY <2>1, <3>2
      <4>3. QED
        BY <2>7, <4>1, <4>2
    <3>3. QED
      BY <3>1, <3>2
  <2>10. QED
    BY <2>7, <2>8, <2>9
<1> HIDE DEF S
<1>3. n \in S
  BY <1>1, <1>2, AllNumbers
<1>4. QED
  BY <1>3 DEF S, Steps

(* The first so many of Product, and of a sum such as Interpolate's.       *)
Parts(s, i) ==
    LET p[k \in 0 .. Len(s)] ==
            IF k = 0 THEN 1 ELSE IF k = i THEN p[k - 1] ELSE gf_mul(p[k - 1], s[k])
    IN  p

Sums(t) ==
    LET v[k \in 0 .. Len(t)] == IF k = 0 THEN 0 ELSE xor(v[k - 1], t[k])
    IN  v

LEMMA PartsAre ==
    ASSUME NEW m \in Nat, NEW s \in [1 .. m -> Byte], NEW i
    PROVE  /\ Parts(s, i) \in [0 .. m -> Byte]
           /\ Parts(s, i)[0] = 1
           /\ \A k \in 1 .. m :
                 Parts(s, i)[k] = IF k = i THEN Parts(s, i)[k - 1]
                                  ELSE gf_mul(Parts(s, i)[k - 1], s[k])
           /\ Product(s, i) = Parts(s, i)[m]
<1> DEFINE step == [x \in (1 .. m) \X Byte |-> IF x[1] = i THEN x[2] ELSE gf_mul(x[2], s[x[1]])]
           Body(p) == [k \in 0 .. Len(s) |->
                          IF k = 0 THEN 1 ELSE IF k = i THEN p[k - 1] ELSE gf_mul(p[k - 1], s[k])]
<1>0. s \in Seq(Byte) /\ Len(s) = m
  OBVIOUS
<1>1. step \in [(1 .. m) \X Byte -> Byte]
  BY MulBytes
<1>2. ASSUME NEW k \in 1 .. m, NEW b \in Byte
      PROVE step[<<k, b>>] = IF k = i THEN b ELSE gf_mul(b, s[k])
  OBVIOUS
<1> HIDE DEF step
<1>3. PICK f \in [0 .. m -> Byte] : Steps(f, 1, m, step)
  BY <1>1, Recursion, Units
<1>4. \A k \in 1 .. m : k - 1 \in 0 .. m /\ f[k - 1] \in Byte /\ k # 0
  OBVIOUS
<1>5. \A k \in 1 .. m : f[k] = IF k = i THEN f[k - 1] ELSE gf_mul(f[k - 1], s[k])
  BY <1>2, <1>3, <1>4 DEF Steps
<1>6. f[0] = 1
  BY <1>3 DEF Steps
<1>7. \A k \in 0 .. m : f[k] = Body(f)[k]
  BY <1>0, <1>5, <1>6
<1>8. f = Body(f)
  BY <1>0, <1>7
<1>9. Parts(s, i) = CHOOSE p : p = Body(p)
  BY DEF Parts
<1>10. PICK p : p = Parts(s, i)
  OBVIOUS
<1>11. p = Body(p)
  BY <1>8, <1>9, <1>10
<1>12. p[0] = 1 /\ \A k \in 1 .. m : p[k] = IF k = i THEN p[k - 1] ELSE gf_mul(p[k - 1], s[k])
  <2>1. \A k \in 0 .. m : p[k] = Body(p)[k]
    BY <1>11
  <2>2. QED
    BY <1>0, <1>4, <2>1
<1>13. p \in [0 .. m -> Byte]
  <2> DEFINE S == {k \in Nat : k <= m => p[k] \in Byte}
  <2>1. 0 \in S
    BY <1>12, Units
  <2>2. ASSUME NEW k \in Nat, k \in S PROVE k + 1 \in S
    <3> SUFFICES ASSUME k + 1 <= m PROVE p[k + 1] \in Byte
      OBVIOUS
    <3>1. k + 1 \in 1 .. m /\ (k + 1) - 1 = k /\ p[k] \in Byte /\ s[k + 1] \in Byte
      BY <2>2
    <3>2. p[k + 1] = IF k + 1 = i THEN p[k] ELSE gf_mul(p[k], s[k + 1])
      BY <1>12, <3>1
    <3>3. QED
      BY <3>1, <3>2, MulBytes
  <2> HIDE DEF S
  <2>3. Nat \subseteq S
    BY <2>1, <2>2, AllNumbers
  <2>4. \A k \in 0 .. m : p[k] \in Byte
    BY <2>3 DEF S
  <2>5. p = [k \in 0 .. m |-> p[k]]
    BY <1>0, <1>11
  <2>6. QED
    BY <2>4, <2>5
<1>14. Product(s, i) = p[m]
  BY <1>0, <1>10 DEF Product, Parts
<1>15. QED
  BY <1>10, <1>12, <1>13, <1>14

LEMMA SumsAre ==
    ASSUME NEW m \in Nat, NEW t \in [1 .. m -> Byte]
    PROVE  /\ Sums(t) \in [0 .. m -> Byte]
           /\ Sums(t)[0] = 0
           /\ \A k \in 1 .. m : Sums(t)[k] = xor(Sums(t)[k - 1], t[k])
<1> DEFINE step == [x \in (1 .. m) \X Byte |-> xor(x[2], t[x[1]])]
           Body(v) == [k \in 0 .. Len(t) |-> IF k = 0 THEN 0 ELSE xor(v[k - 1], t[k])]
<1>0. t \in Seq(Byte) /\ Len(t) = m
  OBVIOUS
<1>1. step \in [(1 .. m) \X Byte -> Byte]
  BY XorBytes
<1>2. ASSUME NEW k \in 1 .. m, NEW b \in Byte PROVE step[<<k, b>>] = xor(b, t[k])
  OBVIOUS
<1> HIDE DEF step
<1>3. PICK f \in [0 .. m -> Byte] : Steps(f, 0, m, step)
  BY <1>1, Recursion, Units
<1>4. \A k \in 1 .. m : k - 1 \in 0 .. m /\ f[k - 1] \in Byte /\ k # 0
  OBVIOUS
<1>5. \A k \in 1 .. m : f[k] = xor(f[k - 1], t[k])
  BY <1>2, <1>3, <1>4 DEF Steps
<1>6. f[0] = 0
  BY <1>3 DEF Steps
<1>7. \A k \in 0 .. m : f[k] = Body(f)[k]
  BY <1>0, <1>5, <1>6
<1>8. f = Body(f)
  BY <1>0, <1>7
<1>9. Sums(t) = CHOOSE v : v = Body(v)
  BY DEF Sums
<1>10. PICK v : v = Sums(t)
  OBVIOUS
<1>11. v = Body(v)
  BY <1>8, <1>9, <1>10
<1>12. v[0] = 0 /\ \A k \in 1 .. m : v[k] = xor(v[k - 1], t[k])
  <2>1. \A k \in 0 .. m : v[k] = Body(v)[k]
    BY <1>11
  <2>2. QED
    BY <1>0, <1>4, <2>1
<1>13. v \in [0 .. m -> Byte]
  <2> DEFINE S == {k \in Nat : k <= m => v[k] \in Byte}
  <2>1. 0 \in S
    BY <1>12, Units
  <2>2. ASSUME NEW k \in Nat, k \in S PROVE k + 1 \in S
    <3> SUFFICES ASSUME k + 1 <= m PROVE v[k + 1] \in Byte
      OBVIOUS
    <3>1. k + 1 \in 1 .. m /\ (k + 1) - 1 = k /\ v[k] \in Byte /\ t[k + 1] \in Byte
      BY <2>2
    <3>2. v[k + 1] = xor(v[k], t[k + 1])
      BY <1>12, <3>1
    <3>3. QED
      BY <3>1, <3>2, XorBytes
  <2> HIDE DEF S
  <2>3. Nat \subseteq S
    BY <2>1, <2>2, AllNumbers
  <2>4. \A k \in 0 .. m : v[k] \in Byte
    BY <2>3 DEF S
  <2>5. v = [k \in 0 .. m |-> v[k]]
    BY <1>0, <1>11
  <2>6. QED
    BY <2>4, <2>5
<1>14. QED
  BY <1>10, <1>12, <1>13

LEMMA InterpolateIs ==
    ASSUME NEW m \in Nat, NEW ys \in [1 .. m -> Byte], NEW basis \in [1 .. m -> Byte]
    PROVE  Interpolate(ys, basis) = Sums([k \in 1 .. m |-> gf_mul(ys[k], basis[k])])[m]
<1> DEFINE t == [k \in 1 .. m |-> gf_mul(ys[k], basis[k])]
           Mine(v) == [k \in 0 .. m |-> IF k = 0 THEN 0 ELSE xor(v[k - 1], gf_mul(ys[k], basis[k]))]
           Body(v) == [k \in 0 .. Len(t) |-> IF k = 0 THEN 0 ELSE xor(v[k - 1], t[k])]
<1>1. t \in [1 .. m -> Byte]
  BY MulBytes
<1>2. Len(ys) = m /\ Len(t) = m
  <2>1. Len(ys) = m
    OBVIOUS
  <2>2. QED
    BY <1>1, <2>1
<1>3. ASSUME NEW v PROVE Mine(v) = Body(v)
  BY <1>2
<1>4. Interpolate(ys, basis) = (CHOOSE v : v = Mine(v))[m]
  BY <1>2 DEF Interpolate
<1>5. Sums(t) = CHOOSE v : v = Body(v)
  BY DEF Sums
<1> HIDE DEF Mine, Body
<1>6. (CHOOSE v : v = Mine(v)) = (CHOOSE v : v = Body(v))
  <2>1. \A v : (v = Mine(v)) = (v = Body(v))
    BY <1>3
  <2>2. QED
    BY <2>1
<1>7. QED
  BY <1>4, <1>5, <1>6

(* Sums are linear.                                                        *)
Linear(t, u, r, c, n) == \A i \in 1 .. n : t[i] = xor(u[i], gf_mul(c, r[i]))

LEMMA SumLinear ==
    ASSUME NEW m \in Nat, NEW n \in 0 .. m,
           NEW t \in [1 .. m -> Byte], NEW u \in [1 .. m -> Byte], NEW r \in [1 .. m -> Byte],
           NEW c \in Byte, Linear(t, u, r, c, n)
    PROVE  Sums(t)[n] = xor(Sums(u)[n], gf_mul(c, Sums(r)[n]))
<1> DEFINE S == {k \in Nat : k <= n => Sums(t)[k] = xor(Sums(u)[k], gf_mul(c, Sums(r)[k]))}
<1>1. 0 \in S
  <2>1. Sums(t)[0] = 0 /\ Sums(u)[0] = 0 /\ Sums(r)[0] = 0
    BY SumsAre
  <2>2. gf_mul(c, 0) = 0 /\ xor(0, 0) = 0
    BY MulZero, XorSelf, ByteWide, Units
  <2>3. QED
    BY <2>1, <2>2
<1>2. ASSUME NEW k \in Nat, k \in S PROVE k + 1 \in S
  <2> SUFFICES ASSUME k + 1 <= n
               PROVE Sums(t)[k + 1] = xor(Sums(u)[k + 1], gf_mul(c, Sums(r)[k + 1]))
    OBVIOUS
  <2>1. k + 1 \in 1 .. m /\ k + 1 \in 1 .. n /\ (k + 1) - 1 = k /\ k \in 0 .. m
    OBVIOUS
  <2>2. PICK p, q, v, w : p = Sums(u)[k] /\ q = Sums(r)[k] /\ v = u[k + 1] /\ w = r[k + 1]
    OBVIOUS
  <2>3. p \in Byte /\ q \in Byte /\ v \in Byte /\ w \in Byte
    BY <2>1, <2>2, SumsAre
  <2>4. Sums(u)[k + 1] = xor(p, v) /\ Sums(r)[k + 1] = xor(q, w)
    BY <2>1, <2>2, SumsAre
  <2>5. Sums(t)[k + 1] = xor(Sums(t)[k], t[k + 1])
    BY <2>1, SumsAre
  <2>6. Sums(t)[k] = xor(p, gf_mul(c, q)) /\ t[k + 1] = xor(v, gf_mul(c, w))
    BY <1>2, <2>1, <2>2 DEF Linear
  <2>7. gf_mul(c, xor(q, w)) = xor(gf_mul(c, q), gf_mul(c, w))
    BY <2>3, Distributive
  <2>8. gf_mul(c, q) \in Byte /\ gf_mul(c, w) \in Byte
    BY <2>3, MulBytes
  <2>9. xor(xor(p, gf_mul(c, q)), xor(v, gf_mul(c, w))) = xor(xor(p, v), xor(gf_mul(c, q), gf_mul(c, w)))
    BY <2>3, <2>8, XorCross, ByteWide
  <2>10. QED
    BY <2>4, <2>5, <2>6, <2>7, <2>9
<1> HIDE DEF S
<1>3. n \in S
  BY <1>1, <1>2, AllNumbers
<1>4. QED
  BY <1>3 DEF S

Scaled(t, c, r, n) == \A i \in 1 .. n : t[i] = gf_mul(c, r[i])

LEMMA SumScaled ==
    ASSUME NEW m \in Nat, NEW n \in 0 .. m,
           NEW t \in [1 .. m -> Byte], NEW r \in [1 .. m -> Byte], NEW c \in Byte,
           Scaled(t, c, r, n)
    PROVE  Sums(t)[n] = gf_mul(c, Sums(r)[n])
<1>0. PICK z : z = [i \in 1 .. m |-> 0]
  OBVIOUS
<1>1. z \in [1 .. m -> Byte] /\ \A i \in 1 .. n : z[i] = 0
  BY <1>0, Units
<1>2. Sums(z)[n] \in Byte /\ Sums(r)[n] \in Byte
  BY <1>1, SumsAre
<1>3. gf_mul(1, 0) = 0 /\ xor(0, 0) = 0 /\ 1 \in Byte
  BY MulZero, XorSelf, ByteWide, Units
<1>4. Linear(z, z, z, 1, n)
  BY <1>1, <1>3 DEF Linear
<1>5. Sums(z)[n] = xor(Sums(z)[n], gf_mul(1, Sums(z)[n]))
  BY <1>1, <1>3, <1>4, SumLinear
<1>6. Sums(z)[n] = 0
  BY <1>2, <1>5, MulOne, XorSelf, ByteWide
<1>7. ASSUME NEW i \in 1 .. n PROVE t[i] = xor(z[i], gf_mul(c, r[i]))
  <2>1. r[i] \in Byte /\ t[i] = gf_mul(c, r[i])
    BY DEF Scaled
  <2>2. gf_mul(c, r[i]) \in Byte
    BY <2>1, MulBytes
  <2>3. xor(0, gf_mul(c, r[i])) = gf_mul(c, r[i])
    BY <2>2, XorSelf, ByteWide
  <2>4. QED
    BY <1>1, <2>1, <2>3
<1>8. Linear(t, z, r, c, n)
  BY <1>7 DEF Linear
<1>9. Sums(t)[n] = xor(Sums(z)[n], gf_mul(c, Sums(r)[n]))
  BY <1>1, <1>8, SumLinear
<1>10. gf_mul(c, Sums(r)[n]) \in Byte
  BY <1>2, MulBytes
<1>11. QED
  BY <1>6, <1>9, <1>10, XorSelf, ByteWide

(***************************************************************************)
(* The coefficients of the interpolation through the first n of the nodes  *)
(* x, at any point w.  The code's Basis is that of all of them at zero.    *)
(***************************************************************************)
Nodes(x, m) ==
    /\ m \in Nat
    /\ x \in [1 .. m -> Unit]
    /\ \A i, j \in 1 .. m : x[i] = x[j] => i = j

Shifted(x, m, w) == [k \in 1 .. m |-> xor(x[k], w)]

(* The product of all x[k] - w, k up to n and not i.                       *)
Num(x, m, i, w, n) == Parts(Shifted(x, m, w), i)[n]

Coef(x, m, i, w, n) == gf_mul(Num(x, m, i, w, n), Inv(Num(x, m, i, x[i], n)))

NumNext(x, m, i, w, n) ==
    Num(x, m, i, w, n + 1) = IF n + 1 = i THEN Num(x, m, i, w, n)
                             ELSE gf_mul(Num(x, m, i, w, n), xor(x[n + 1], w))

LEMMA NumIs ==
    ASSUME NEW m, NEW x, Nodes(x, m), NEW i, NEW w \in Byte
    PROVE  /\ Shifted(x, m, w) \in [1 .. m -> Byte]
           /\ Num(x, m, i, w, 0) = 1
           /\ \A n \in 0 .. m : Num(x, m, i, w, n) \in Byte
           /\ \A n \in 0 .. m - 1 : NumNext(x, m, i, w, n)
<1>1. m \in Nat /\ \A k \in 1 .. m : x[k] \in Byte
  BY Units DEF Nodes
<1>2. Shifted(x, m, w) \in [1 .. m -> Byte]
  BY <1>1, XorBytes DEF Shifted
<1>3. PICK s : s = Shifted(x, m, w)
  OBVIOUS
<1>4. s \in [1 .. m -> Byte] /\ \A k \in 1 .. m : s[k] = xor(x[k], w)
  BY <1>2, <1>3 DEF Shifted
<1>5. PICK p : p = Parts(s, i)
  OBVIOUS
<1>6. /\ p \in [0 .. m -> Byte] /\ p[0] = 1
      /\ \A k \in 1 .. m : p[k] = IF k = i THEN p[k - 1] ELSE gf_mul(p[k - 1], s[k])
  BY <1>1, <1>4, <1>5, PartsAre
<1>7. \A n \in 0 .. m : Num(x, m, i, w, n) = p[n]
  BY <1>3, <1>5 DEF Num
<1>8. ASSUME NEW n \in 0 .. m - 1
      PROVE  p[n + 1] = IF n + 1 = i THEN p[n] ELSE gf_mul(p[n], xor(x[n + 1], w))
  <2>1. n + 1 \in 1 .. m /\ (n + 1) - 1 = n
    BY <1>1
  <2>2. QED
    BY <1>4, <1>6, <2>1
<1>9. \A n \in 0 .. m - 1 : n + 1 \in 0 .. m /\ n \in 0 .. m
  BY <1>1
<1>10. 0 \in 0 .. m
  BY <1>1
<1>11. \A n \in 0 .. m - 1 : NumNext(x, m, i, w, n)
  BY <1>7, <1>8, <1>9 DEF NumNext
<1>12. QED
  BY <1>2, <1>6, <1>7, <1>10, <1>11

(* Without node i the product is the whole one before i, and the whole one *)
(* divided by its factor after.                                            *)
LEMMA NumWhole ==
    ASSUME NEW m, NEW x, Nodes(x, m), NEW i \in 1 .. m, NEW w \in Byte, NEW n \in 0 .. m
    PROVE  /\ n < i => Num(x, m, i, w, n) = Num(x, m, 0, w, n)
           /\ i <= n => gf_mul(Num(x, m, i, w, n), xor(x[i], w)) = Num(x, m, 0, w, n)
<1> DEFINE Claim(k) == /\ k < i => Num(x, m, i, w, k) = Num(x, m, 0, w, k)
                       /\ i <= k => gf_mul(Num(x, m, i, w, k), xor(x[i], w)) = Num(x, m, 0, w, k)
           S == {k \in Nat : k <= n => Claim(k)}
<1>0. m \in Nat /\ \A k \in 1 .. m : x[k] \in Byte /\ xor(x[k], w) \in Byte
  BY XorBytes, Units DEF Nodes
<1>1. 0 \in S
  BY NumIs
<1>2. ASSUME NEW k \in Nat, k \in S PROVE k + 1 \in S
  <2> SUFFICES ASSUME k + 1 <= n PROVE Claim(k + 1)
    OBVIOUS
  <2>1. k \in 0 .. m - 1 /\ k + 1 \in 1 .. m /\ k + 1 # 0 /\ k \in 0 .. m
    BY <1>0
  <2>2. Claim(k)
    BY <1>2, <2>1
  <2> HIDE DEF S
  <2>3. PICK p, q, d : p = Num(x, m, i, w, k) /\ q = Num(x, m, 0, w, k) /\ d = xor(x[k + 1], w)
    OBVIOUS
  <2>4. p \in Byte /\ q \in Byte /\ d \in Byte
    BY <1>0, <2>1, <2>3, NumIs
  <2>5. /\ Num(x, m, i, w, k + 1) = IF k + 1 = i THEN p ELSE gf_mul(p, d)
        /\ Num(x, m, 0, w, k + 1) = gf_mul(q, d)
    <3>1. NumNext(x, m, i, w, k) /\ NumNext(x, m, 0, w, k)
      BY <2>1, NumIs
    <3>2. QED
      BY <2>1, <2>3, <3>1 DEF NumNext
  <2>6. CASE k + 1 < i
    <3>1. k < i /\ k + 1 # i /\ ~ (i <= k + 1)
      BY <2>6
    <3>2. p = q
      BY <2>2, <2>3, <3>1
    <3>3. QED
      BY <2>5, <3>1, <3>2
  <2>7. CASE k + 1 = i
    <3>1. k < i
      BY <2>7
    <3>2. p = q
      BY <2>2, <2>3, <3>1
    <3>3. QED
      BY <2>3, <2>5, <2>7, <3>2
  <2>8. CASE i < k + 1
    <3>1. i <= k /\ k + 1 # i /\ ~ (k + 1 < i)
      BY <2>8
    <3>2. PICK e : e = xor(x[i], w)
      OBVIOUS
    <3>3. e \in Byte /\ gf_mul(p, e) = q
      BY <1>0, <2>2, <2>3, <3>1, <3>2
    <3>4. gf_mul(gf_mul(p, d), e) = gf_mul(p, gf_mul(d, e))
      BY <2>4, <3>3, MulAssoc
    <3>5. gf_mul(gf_mul(p, e), d) = gf_mul(p, gf_mul(e, d)) /\ gf_mul(d, e) = gf_mul(e, d)
      BY <2>4, <3>3, MulAssoc, MulComm
    <3>6. QED
      BY <2>5, <3>1, <3>2, <3>3, <3>4, <3>5
  <2>9. QED
    BY <2>6, <2>7, <2>8
<1> HIDE DEF S
<1>3. n \in S
  BY <1>1, <1>2, AllNumbers
<1>4. QED
  BY <1>3 DEF S

LEMMA NumUnit ==
    ASSUME NEW m, NEW x, Nodes(x, m), NEW i, NEW w \in Byte, NEW n \in 0 .. m,
           \A j \in 1 .. n : j # i => x[j] # w
    PROVE  Num(x, m, i, w, n) \in Unit
<1> DEFINE S == {k \in Nat : k <= n => Num(x, m, i, w, k) \in Unit}
<1>0. m \in Nat /\ \A k \in 1 .. m : x[k] \in Byte
  BY Units DEF Nodes
<1>1. 0 \in S
  BY NumIs, Units
<1>2. ASSUME NEW k \in Nat, k \in S PROVE k + 1 \in S
  <2> SUFFICES ASSUME k + 1 <= n PROVE Num(x, m, i, w, k + 1) \in Unit
    OBVIOUS
  <2>1. k \in 0 .. m - 1 /\ k + 1 \in 1 .. m /\ k + 1 \in 1 .. n
    BY <1>0
  <2>2. Num(x, m, i, w, k) \in Unit
    BY <1>2
  <2>3. Num(x, m, i, w, k + 1) = IF k + 1 = i THEN Num(x, m, i, w, k)
                                 ELSE gf_mul(Num(x, m, i, w, k), xor(x[k + 1], w))
    <3>1. NumNext(x, m, i, w, k)
      BY <2>1, NumIs
    <3>2. QED
      BY <3>1 DEF NumNext
  <2>4. k + 1 # i => xor(x[k + 1], w) \in Unit
    BY <1>0, <2>1, Differ
  <2>5. QED
    BY <2>2, <2>3, <2>4, MulUnits
<1> HIDE DEF S
<1>3. n \in S
  BY <1>1, <1>2, AllNumbers
<1>4. QED
  BY <1>3 DEF S

LEMMA CoefByte ==
    ASSUME NEW m, NEW x, Nodes(x, m), NEW i \in 1 .. m, NEW w \in Byte, NEW n \in 0 .. m
    PROVE  /\ Num(x, m, i, x[i], n) \in Unit
           /\ Inv(Num(x, m, i, x[i], n)) \in Byte
           /\ Num(x, m, i, w, n) \in Byte
           /\ Coef(x, m, i, w, n) \in Byte
<1>1. x[i] \in Byte /\ \A j \in 1 .. n : j # i => x[j] # x[i]
  BY Units DEF Nodes
<1>2. Num(x, m, i, x[i], n) \in Unit
  BY <1>1, NumUnit
<1>3. Inv(Num(x, m, i, x[i], n)) \in Byte
  BY <1>2, InvIs, Units
<1>4. Num(x, m, i, w, n) \in Byte
  BY NumIs
<1>5. QED
  BY <1>2, <1>3, <1>4, MulBytes DEF Coef

(* The factor that one more node z brings.                                 *)
LEMMA CoefNext ==
    ASSUME NEW m, NEW x, Nodes(x, m), NEW n \in 0 .. m - 1, NEW i \in 1 .. n, NEW w \in Byte
    PROVE  Coef(x, m, i, w, n + 1)
             = gf_mul(Coef(x, m, i, w, n), gf_mul(xor(x[n + 1], w), Inv(xor(x[i], x[n + 1]))))
<1>0. /\ m \in Nat /\ i \in 1 .. m /\ n + 1 \in 1 .. m /\ n + 1 # i /\ n \in 0 .. m
      /\ x[i] \in Byte /\ x[n + 1] \in Byte /\ x[n + 1] # x[i]
  BY Units DEF Nodes
<1>1. PICK p, d, q, e : /\ p = Num(x, m, i, w, n) /\ d = Num(x, m, i, x[i], n)
                        /\ q = xor(x[n + 1], w) /\ e = xor(x[n + 1], x[i])
  OBVIOUS
<1>2. p \in Byte /\ d \in Unit /\ Inv(d) \in Byte
  BY <1>0, <1>1, CoefByte
<1>3. q \in Byte /\ e \in Unit /\ Inv(e) \in Byte
  BY <1>0, <1>1, XorBytes, Differ, InvIs, Units
<1>4. NumNext(x, m, i, w, n) /\ NumNext(x, m, i, x[i], n)
  BY <1>0, NumIs
<1>5. Num(x, m, i, w, n + 1) = gf_mul(p, q) /\ Num(x, m, i, x[i], n + 1) = gf_mul(d, e)
  BY <1>0, <1>1, <1>4 DEF NumNext
<1>6. Inv(gf_mul(d, e)) = gf_mul(Inv(d), Inv(e))
  BY <1>2, <1>3, InvMul
<1>7. gf_mul(gf_mul(p, q), gf_mul(Inv(d), Inv(e))) = gf_mul(gf_mul(p, Inv(d)), gf_mul(q, Inv(e)))
  BY <1>2, <1>3, MulCross
<1>8. e = xor(x[i], x[n + 1])
  BY <1>0, <1>1, XorComm, ByteWide
<1>9. Coef(x, m, i, w, n) = gf_mul(p, Inv(d))
  BY <1>1 DEF Coef
<1>10. Coef(x, m, i, w, n + 1) = gf_mul(gf_mul(p, q), gf_mul(Inv(d), Inv(e)))
  BY <1>5, <1>6 DEF Coef
<1>11. QED
  BY <1>1, <1>7, <1>8, <1>9, <1>10

LEMMA CoefLast ==
    ASSUME NEW m, NEW x, Nodes(x, m), NEW n \in 0 .. m - 1, NEW w \in Byte
    PROVE  /\ Coef(x, m, n + 1, w, n + 1)
                = gf_mul(Num(x, m, 0, w, n), Inv(Num(x, m, 0, x[n + 1], n)))
           /\ Num(x, m, 0, x[n + 1], n) \in Unit
<1>0. /\ m \in Nat /\ n + 1 \in 1 .. m /\ n < n + 1 /\ n \in 0 .. m /\ x[n + 1] \in Byte
      /\ \A j \in 1 .. n : j # n + 1 /\ x[j] # x[n + 1]
  BY Units DEF Nodes
<1>1. PICK i : i = n + 1
  OBVIOUS
<1>2. NumNext(x, m, i, w, n) /\ NumNext(x, m, i, x[i], n)
  BY <1>0, <1>1, NumIs
<1>3. /\ Num(x, m, i, w, n + 1) = Num(x, m, i, w, n)
      /\ Num(x, m, i, x[i], n + 1) = Num(x, m, i, x[i], n)
  BY <1>1, <1>2 DEF NumNext
<1>4. /\ Num(x, m, i, w, n) = Num(x, m, 0, w, n)
      /\ Num(x, m, i, x[i], n) = Num(x, m, 0, x[i], n)
  BY <1>0, <1>1, NumWhole
<1>5. Num(x, m, 0, x[i], n) \in Unit
  BY <1>0, <1>1, NumUnit
<1>6. QED
  BY <1>1, <1>3, <1>4, <1>5 DEF Coef

LEMMA CoefWhole ==
    ASSUME NEW m, NEW x, Nodes(x, m), NEW n \in 0 .. m, NEW i \in 1 .. n, NEW w \in Byte
    PROVE  gf_mul(Coef(x, m, i, w, n), xor(x[i], w))
             = gf_mul(Num(x, m, 0, w, n), Inv(Num(x, m, i, x[i], n)))
<1>0. m \in Nat /\ i \in 1 .. m /\ i <= n /\ x[i] \in Byte /\ xor(x[i], w) \in Byte
  BY Units, XorBytes DEF Nodes
<1>1. PICK p, d, q : p = Num(x, m, i, w, n) /\ d = Inv(Num(x, m, i, x[i], n)) /\ q = xor(x[i], w)
  OBVIOUS
<1>2. p \in Byte /\ d \in Byte /\ q \in Byte
  BY <1>0, <1>1, CoefByte
<1>3. gf_mul(p, q) = Num(x, m, 0, w, n)
  BY <1>0, <1>1, NumWhole
<1>4. gf_mul(gf_mul(p, d), q) = gf_mul(p, gf_mul(d, q)) /\ gf_mul(d, q) = gf_mul(q, d)
  BY <1>2, MulAssoc, MulComm
<1>5. gf_mul(gf_mul(p, q), d) = gf_mul(p, gf_mul(q, d))
  BY <1>2, MulAssoc
<1>6. QED
  BY <1>1, <1>3, <1>4, <1>5 DEF Coef

LEMMA CoefGrows ==
    ASSUME NEW m, NEW x, Nodes(x, m), NEW n \in 0 .. m - 1, NEW i \in 1 .. n, NEW w \in Byte
    PROVE  Coef(x, m, i, w, n + 1)
             = xor(Coef(x, m, i, w, n),
                   gf_mul(Coef(x, m, n + 1, w, n + 1), Coef(x, m, i, x[n + 1], n)))
<1>0. /\ m \in Nat /\ i \in 1 .. m /\ n + 1 \in 1 .. m /\ n \in 0 .. m /\ n + 1 # i
      /\ x[i] \in Byte /\ x[n + 1] \in Byte /\ x[n + 1] # x[i]
  BY Units DEF Nodes
<1>1. PICK z, p, q, e : z = x[n + 1] /\ p = xor(x[i], z) /\ q = xor(x[i], w) /\ e = Inv(p)
  OBVIOUS
<1>2. z \in Byte /\ p \in Unit /\ p \in Byte /\ q \in Byte /\ e \in Byte /\ gf_mul(p, e) = 1
  BY <1>0, <1>1, Differ, InvIs, Units
<1>3. PICK a, b, r : a = Coef(x, m, i, w, n) /\ b = Coef(x, m, i, z, n)
                     /\ r = Coef(x, m, n + 1, w, n + 1)
  OBVIOUS
<1>4. PICK u, v, d : /\ u = Num(x, m, 0, w, n) /\ v = Num(x, m, 0, z, n)
                     /\ d = Inv(Num(x, m, i, x[i], n))
  OBVIOUS
<1>5. /\ a \in Byte /\ b \in Byte /\ u \in Byte /\ d \in Byte
      /\ v \in Unit /\ v \in Byte /\ Inv(v) \in Byte /\ gf_mul(v, Inv(v)) = 1
  BY <1>0, <1>1, <1>2, <1>3, <1>4, CoefByte, CoefLast, NumIs, InvIs, Units
<1>6. gf_mul(a, q) = gf_mul(u, d) /\ gf_mul(b, p) = gf_mul(v, d)
  BY <1>0, <1>1, <1>2, <1>3, <1>4, CoefWhole
<1>7. r = gf_mul(u, Inv(v))
  BY <1>1, <1>3, <1>4, CoefLast
<1>8. b = gf_mul(gf_mul(v, d), e)
  <2>1. gf_mul(gf_mul(b, p), e) = gf_mul(b, gf_mul(p, e))
    BY <1>2, <1>5, MulAssoc
  <2>2. QED
    BY <1>2, <1>5, <1>6, <2>1, MulOne
<1>9. gf_mul(r, b) = gf_mul(gf_mul(a, q), e)
  <2>1. gf_mul(v, d) \in Byte /\ gf_mul(d, e) \in Byte
    BY <1>2, <1>5, MulBytes
  <2>2. b = gf_mul(v, gf_mul(d, e))
    BY <1>2, <1>5, <1>8, MulAssoc
  <2>3. gf_mul(r, b) = gf_mul(gf_mul(u, gf_mul(d, e)), gf_mul(Inv(v), v))
    <3>1. gf_mul(gf_mul(u, Inv(v)), gf_mul(gf_mul(d, e), v))
            = gf_mul(gf_mul(u, gf_mul(d, e)), gf_mul(Inv(v), v))
      BY <1>5, <2>1, MulCross
    <3>2. gf_mul(v, gf_mul(d, e)) = gf_mul(gf_mul(d, e), v)
      BY <1>5, <2>1, MulComm
    <3>3. QED
      BY <1>7, <2>2, <3>1, <3>2
  <2>4. gf_mul(Inv(v), v) = 1
    BY <1>5, MulComm
  <2>5. gf_mul(u, gf_mul(d, e)) \in Byte
    BY <1>5, <2>1, MulBytes
  <2>6. gf_mul(r, b) = gf_mul(u, gf_mul(d, e))
    BY <2>3, <2>4, <2>5, MulOne
  <2>7. gf_mul(u, gf_mul(d, e)) = gf_mul(gf_mul(u, d), e)
    BY <1>2, <1>5, MulAssoc
  <2>8. QED
    BY <1>6, <2>6, <2>7
<1>10. gf_mul(xor(z, w), e) = xor(1, gf_mul(q, e))
  <2>1. xor(p, q) = xor(z, w)
    BY <1>0, <1>1, <1>2, Telescope
  <2>2. gf_mul(xor(p, q), e) = xor(gf_mul(p, e), gf_mul(q, e))
    BY <1>2, Spread
  <2>3. QED
    BY <1>2, <2>1, <2>2
<1>11. gf_mul(a, xor(1, gf_mul(q, e))) = xor(a, gf_mul(gf_mul(a, q), e))
  <2>1. gf_mul(q, e) \in Byte
    BY <1>2, MulBytes
  <2>2. gf_mul(a, xor(1, gf_mul(q, e))) = xor(gf_mul(a, 1), gf_mul(a, gf_mul(q, e)))
    BY <1>5, <2>1, Distributive, Units
  <2>3. gf_mul(a, gf_mul(q, e)) = gf_mul(gf_mul(a, q), e)
    BY <1>2, <1>5, MulAssoc
  <2>4. QED
    BY <1>5, <2>2, <2>3, MulOne
<1>12. Coef(x, m, i, w, n + 1) = gf_mul(a, gf_mul(xor(z, w), e))
  BY <1>1, <1>3, CoefNext
<1>13. QED
  BY <1>1, <1>3, <1>9, <1>10, <1>11, <1>12

Row(x, m, w, n) == [i \in 1 .. m |-> Coef(x, m, i, w, n)]

(* The coefficients of any point add up to one.                            *)
LEMMA CoefSum ==
    ASSUME NEW m, NEW x, Nodes(x, m), NEW n \in 1 .. m, NEW w \in Byte
    PROVE  Sums(Row(x, m, w, n))[n] = 1
<1> DEFINE Claim(k) == \A v \in Byte : Sums(Row(x, m, v, k))[k] = 1
           S == {k \in Nat : k + 1 <= m => Claim(k + 1)}
<1>0. m \in Nat
  BY DEF Nodes
<1>1. ASSUME NEW k \in 0 .. m, NEW v \in Byte
      PROVE  /\ Row(x, m, v, k) \in [1 .. m -> Byte]
             /\ \A i \in 1 .. m : Row(x, m, v, k)[i] = Coef(x, m, i, v, k)
  BY CoefByte DEF Row
<1>2. 0 \in S
  <2> SUFFICES ASSUME 1 <= m, NEW v \in Byte PROVE Sums(Row(x, m, v, 1))[1] = 1
    BY <1>0
  <2>1. 0 \in 0 .. m - 1 /\ 1 \in 0 .. m /\ 1 \in 1 .. m /\ 0 + 1 = 1 /\ 1 - 1 = 0
    BY <1>0
  <2>2. x[1] \in Byte
    BY <2>1, Units DEF Nodes
  <2>3. Num(x, m, 0, v, 0) = 1 /\ Num(x, m, 0, x[1], 0) = 1
    BY <2>2, NumIs
  <2>4. Coef(x, m, 1, v, 1) = gf_mul(1, Inv(1))
    <3>1. Coef(x, m, 0 + 1, v, 0 + 1) = gf_mul(Num(x, m, 0, v, 0), Inv(Num(x, m, 0, x[0 + 1], 0)))
      BY <2>1, CoefLast
    <3>2. QED
      BY <2>1, <2>3, <3>1
  <2>5. Coef(x, m, 1, v, 1) = 1
    BY <2>4, InvIs, Units
  <2>6. /\ Sums(Row(x, m, v, 1))[0] = 0
        /\ Sums(Row(x, m, v, 1))[1] = xor(Sums(Row(x, m, v, 1))[0], Row(x, m, v, 1)[1])
    <3>1. PICK t : t = Row(x, m, v, 1)
      OBVIOUS
    <3>2. t \in [1 .. m -> Byte]
      BY <1>1, <2>1, <3>1
    <3>3. Sums(t)[0] = 0 /\ Sums(t)[1] = xor(Sums(t)[1 - 1], t[1])
      BY <1>0, <2>1, <3>2, SumsAre
    <3>4. QED
      BY <2>1, <3>1, <3>3
  <2>7. xor(0, 1) = 1
    BY XorSelf, ByteWide, Units
  <2>8. QED
    BY <1>1, <2>1, <2>5, <2>6, <2>7
<1>3. ASSUME NEW k \in Nat, k \in S PROVE k + 1 \in S
  <2> SUFFICES ASSUME k + 1 + 1 <= m, NEW v \in Byte PROVE Sums(Row(x, m, v, k + 1 + 1))[k + 1 + 1] = 1
    OBVIOUS
  <2>1. PICK j : j = k + 1
    OBVIOUS
  <2>2. /\ j \in 1 .. m /\ j \in 0 .. m - 1 /\ j \in 0 .. m /\ (j + 1) - 1 = j
        /\ j + 1 \in 1 .. m /\ j + 1 \in 0 .. m
    BY <1>0, <2>1
  <2>3. Claim(j)
    BY <1>0, <1>3, <2>1
  <2> HIDE DEF S
  <2>4. PICK z : z = x[j + 1]
    OBVIOUS
  <2>5. z \in Byte
    BY <2>2, <2>4, Units DEF Nodes
  <2>6. PICK t, u, r, c : /\ t = Row(x, m, v, j + 1) /\ u = Row(x, m, v, j) /\ r = Row(x, m, z, j)
                          /\ c = Coef(x, m, j + 1, v, j + 1)
    OBVIOUS
  <2>7. t \in [1 .. m -> Byte] /\ u \in [1 .. m -> Byte] /\ r \in [1 .. m -> Byte] /\ c \in Byte
    BY <1>1, <2>2, <2>5, <2>6, CoefByte
  <2>8. ASSUME NEW i \in 1 .. j PROVE t[i] = xor(u[i], gf_mul(c, r[i]))
    <3>1. i \in 1 .. m
      <4>1. j \in Nat /\ j <= m
        BY <1>0, <2>2
      <4>2. QED
        BY <1>0, <4>1
    <3>2. t[i] = Coef(x, m, i, v, j + 1) /\ u[i] = Coef(x, m, i, v, j) /\ r[i] = Coef(x, m, i, z, j)
      BY <1>1, <2>2, <2>5, <2>6, <3>1
    <3>3. QED
      BY <2>2, <2>4, <2>6, <3>2, CoefGrows
  <2>9. Sums(t)[j] = xor(Sums(u)[j], gf_mul(c, Sums(r)[j]))
    <3>1. Linear(t, u, r, c, j)
      BY <2>8 DEF Linear
    <3>2. QED
      BY <1>0, <2>2, <2>7, <3>1, SumLinear
  <2>10. Sums(u)[j] = 1 /\ Sums(r)[j] = 1
    BY <2>3, <2>5, <2>6
  <2>11. Sums(t)[j] = xor(1, c)
    BY <2>7, <2>9, <2>10, MulOne
  <2>12. Sums(t)[j + 1] = xor(Sums(t)[j], c)
    <3>1. t[j + 1] = c
      BY <1>1, <2>2, <2>6
    <3>2. Sums(t)[j + 1] = xor(Sums(t)[(j + 1) - 1], t[j + 1])
      BY <1>0, <2>2, <2>7, SumsAre
    <3>3. QED
      BY <2>2, <3>1, <3>2
  <2>13. xor(xor(1, c), c) = xor(1, xor(c, c)) /\ xor(c, c) = 0 /\ xor(1, 0) = 1
    BY <2>7, XorAssoc, XorSelf, ByteWide, Units
  <2>14. QED
    BY <2>1, <2>6, <2>11, <2>12, <2>13
<1> HIDE DEF S
<1>4. PICK k : k = n - 1
  OBVIOUS
<1>5. k \in Nat /\ k + 1 = n /\ k + 1 <= m
  BY <1>0, <1>4
<1>6. k \in S
  BY <1>2, <1>3, <1>5, AllNumbers
<1>7. QED
  BY <1>5, <1>6 DEF S

(***************************************************************************)
(* Polynomials, as the functions they compute: zero, and by a step of      *)
(* Horner's rule x * g + c.                                                *)
(***************************************************************************)
Curve == [Byte -> Byte]

Zero == [x \in Byte |-> 0]

Horner(g, c) == [x \in Byte |-> xor(gf_mul(x, g[x]), c)]

Tower(F, n) == F[0] = Zero /\ \A k \in 1 .. n : \E c \in Byte : F[k] = Horner(F[k - 1], c)

Poly(n) == {f \in Curve : \E F \in [0 .. n -> Curve] : Tower(F, n) /\ F[n] = f}

LEMMA HornerIs ==
    ASSUME NEW g \in Curve, NEW c \in Byte
    PROVE  Horner(g, c) \in Curve /\ \A x \in Byte : Horner(g, c)[x] = xor(gf_mul(x, g[x]), c)
<1>1. ASSUME NEW x \in Byte PROVE xor(gf_mul(x, g[x]), c) \in Byte
  <2>1. g[x] \in Byte
    BY DEF Curve
  <2>2. QED
    BY <2>1, MulBytes, XorBytes
<1>2. QED
  BY <1>1 DEF Horner, Curve

LEMMA ZeroIs == Zero \in Curve /\ Zero \in Poly(0) /\ \A x \in Byte : Zero[x] = 0
<1>1. Zero \in Curve /\ \A x \in Byte : Zero[x] = 0
  BY Units DEF Zero, Curve
<1>2. PICK F : F = [k \in 0 .. 0 |-> Zero]
  OBVIOUS
<1>3. F \in [0 .. 0 -> Curve] /\ F[0] = Zero
  BY <1>1, <1>2
<1>4. Tower(F, 0)
  BY <1>3 DEF Tower
<1>5. QED
  BY <1>1, <1>3, <1>4 DEF Poly

LEMMA PolyFlat ==
    ASSUME NEW f \in Poly(0)
    PROVE  f = Zero
  BY DEF Poly, Tower

LEMMA PolyCurve ==
    ASSUME NEW n, NEW f \in Poly(n)
    PROVE  f \in Curve
  BY DEF Poly

LEMMA PolyPeel ==
    ASSUME NEW n \in Nat, NEW f \in Poly(n + 1)
    PROVE  \E g \in Poly(n), c \in Byte : f = Horner(g, c)
<1>1. PICK F \in [0 .. n + 1 -> Curve] : Tower(F, n + 1) /\ F[n + 1] = f
  BY DEF Poly
<1>2. n + 1 \in 1 .. n + 1 /\ (n + 1) - 1 = n /\ n \in 0 .. n + 1 /\ n \in 0 .. n
  OBVIOUS
<1>3. PICK c \in Byte : F[n + 1] = Horner(F[n], c)
  BY <1>1, <1>2 DEF Tower
<1>4. PICK G : G = [k \in 0 .. n |-> F[k]]
  OBVIOUS
<1>5. G \in [0 .. n -> Curve] /\ G[n] = F[n] /\ F[n] \in Curve
  BY <1>1, <1>2, <1>4
<1>6. Tower(G, n)
  <2>1. G[0] = Zero
    BY <1>1, <1>4 DEF Tower
  <2>2. ASSUME NEW k \in 1 .. n PROVE \E d \in Byte : G[k] = Horner(G[k - 1], d)
    <3>1. k \in 0 .. n /\ k - 1 \in 0 .. n /\ k \in 1 .. n + 1
      OBVIOUS
    <3>2. \E d \in Byte : F[k] = Horner(F[k - 1], d)
      BY <1>1, <3>1 DEF Tower
    <3>3. G[k] = F[k] /\ G[k - 1] = F[k - 1]
      BY <1>4, <3>1
    <3>4. QED
      BY <3>2, <3>3
  <2>3. QED
    BY <2>1, <2>2 DEF Tower
<1>7. G[n] \in Poly(n)
  BY <1>5, <1>6 DEF Poly
<1>8. QED
  BY <1>1, <1>3, <1>5, <1>7

LEMMA PolyGrow ==
    ASSUME NEW n \in Nat, NEW g \in Poly(n), NEW c \in Byte
    PROVE  Horner(g, c) \in Poly(n + 1)
<1>1. PICK F \in [0 .. n -> Curve] : Tower(F, n) /\ F[n] = g
  BY DEF Poly
<1>2. g \in Curve
  BY PolyCurve
<1>3. PICK h : h = Horner(g, c)
  OBVIOUS
<1>4. h \in Curve
  BY <1>2, <1>3, HornerIs
<1>5. PICK G : G = [k \in 0 .. n + 1 |-> IF k = n + 1 THEN h ELSE F[k]]
  OBVIOUS
<1>6. G \in [0 .. n + 1 -> Curve] /\ G[n + 1] = h /\ \A k \in 0 .. n : G[k] = F[k]
  <2>1. ASSUME NEW k \in 0 .. n + 1, k # n + 1 PROVE k \in 0 .. n
    BY <2>1
  <2>2. ASSUME NEW k \in 0 .. n PROVE k \in 0 .. n + 1 /\ k # n + 1
    OBVIOUS
  <2>3. n + 1 \in 0 .. n + 1
    OBVIOUS
  <2>4. QED
    BY <1>4, <1>5, <2>1, <2>2, <2>3
<1>7. Tower(G, n + 1)
  <2>1. G[0] = Zero
    BY <1>1, <1>6 DEF Tower
  <2>2. ASSUME NEW k \in 1 .. n + 1 PROVE \E d \in Byte : G[k] = Horner(G[k - 1], d)
    <3>1. CASE k = n + 1
      <4>1. k - 1 = n /\ n \in 0 .. n
        BY <3>1
      <4>2. QED
        BY <1>1, <1>3, <1>6, <3>1, <4>1
    <3>2. CASE k # n + 1
      <4>1. k \in 1 .. n /\ k \in 0 .. n /\ k - 1 \in 0 .. n
        BY <3>2
      <4>2. \E d \in Byte : F[k] = Horner(F[k - 1], d)
        BY <1>1, <4>1 DEF Tower
      <4>3. QED
        BY <1>6, <4>1, <4>2
    <3>3. QED
      BY <3>1, <3>2
  <2>3. QED
    BY <2>1, <2>2 DEF Tower
<1>8. QED
  BY <1>3, <1>4, <1>6, <1>7 DEF Poly

(* Two values of a polynomial differ by a multiple of the difference of    *)
(* the points, the quotient a polynomial of one degree less.               *)
Quotient(f, z, g) == \A x \in Byte : xor(f[x], f[z]) = gf_mul(xor(x, z), g[x])

LEMMA Divides ==
    ASSUME NEW n \in Nat, NEW f \in Poly(n + 1), NEW z \in Byte
    PROVE  \E g \in Poly(n) : Quotient(f, z, g)
<1> DEFINE S == {k \in Nat : \A e \in Poly(k + 1) : \E g \in Poly(k) : Quotient(e, z, g)}
<1>1. 0 \in S
  <2> SUFFICES ASSUME NEW e \in Poly(0 + 1) PROVE \E g \in Poly(0) : Quotient(e, z, g)
    OBVIOUS
  <2>1. PICK h \in Poly(0), c \in Byte : e = Horner(h, c)
    <3>1. 0 \in Nat
      OBVIOUS
    <3>2. QED
      BY <3>1, PolyPeel
  <2>2. h = Zero
    BY PolyFlat
  <2>3. ASSUME NEW x \in Byte PROVE e[x] = c
    <3>1. Horner(Zero, c)[x] = xor(gf_mul(x, Zero[x]), c) /\ Zero[x] = 0
      BY HornerIs, ZeroIs
    <3>2. gf_mul(x, 0) = 0 /\ xor(0, c) = c
      BY MulZero, XorSelf, ByteWide
    <3>3. QED
      BY <2>1, <2>2, <3>1, <3>2
  <2>4. ASSUME NEW x \in Byte PROVE xor(e[x], e[z]) = gf_mul(xor(x, z), Zero[x])
    <3>1. xor(c, c) = 0 /\ Zero[x] = 0 /\ gf_mul(xor(x, z), 0) = 0
      BY XorSelf, ByteWide, ZeroIs, MulZero
    <3>2. QED
      BY <2>3, <3>1
  <2>5. QED
    BY <2>4, ZeroIs DEF Quotient
<1>2. ASSUME NEW k \in Nat, k \in S PROVE k + 1 \in S
  <2> SUFFICES ASSUME NEW e \in Poly(k + 1 + 1) PROVE \E g \in Poly(k + 1) : Quotient(e, z, g)
    OBVIOUS
  <2>1. PICK h \in Poly(k + 1), c \in Byte : e = Horner(h, c)
    <3>1. k + 1 \in Nat
      OBVIOUS
    <3>2. QED
      BY <3>1, PolyPeel
  <2>2. PICK q \in Poly(k) : Quotient(h, z, q)
    BY <1>2
  <2>3. h \in Curve /\ q \in Curve /\ h[z] \in Byte
    <3>1. h \in Curve /\ q \in Curve
      BY PolyCurve
    <3>2. QED
      BY <3>1 DEF Curve
  <2>4. Horner(q, h[z]) \in Poly(k + 1)
    BY <2>3, PolyGrow
  <2>5. ASSUME NEW x \in Byte PROVE xor(e[x], e[z]) = gf_mul(xor(x, z), Horner(q, h[z])[x])
    <3>1. PICK a, b, d, p : a = h[x] /\ b = h[z] /\ d = q[x] /\ p = xor(x, z)
      OBVIOUS
    <3>2. a \in Byte /\ b \in Byte /\ d \in Byte /\ p \in Byte
      BY <2>3, <3>1, XorBytes DEF Curve
    <3>3. e[x] = xor(gf_mul(x, a), c) /\ e[z] = xor(gf_mul(z, b), c)
      BY <2>1, <2>3, <3>1, HornerIs
    <3>4. Horner(q, b)[x] = xor(gf_mul(x, d), b)
      BY <2>3, <3>1, <3>2, HornerIs
    <3>5. xor(a, b) = gf_mul(p, d)
      BY <2>2, <3>1 DEF Quotient
    <3>6. PICK xa, xb, zb, xd, pd : /\ xa = gf_mul(x, a) /\ xb = gf_mul(x, b) /\ zb = gf_mul(z, b)
                                    /\ xd = gf_mul(x, d) /\ pd = gf_mul(p, d)
      OBVIOUS
    <3>7. xa \in Byte /\ xb \in Byte /\ zb \in Byte /\ xd \in Byte /\ pd \in Byte
      BY <3>2, <3>6, MulBytes
    <3>8. xor(xor(xa, c), xor(zb, c)) = xor(xa, zb)
      <4>1. xor(xor(xa, c), xor(c, zb)) = xor(xa, zb)
        <5>1. xor(c, xa) = xor(xa, c)
          BY <3>7, XorComm, ByteWide
        <5>2. xor(xor(c, xa), xor(c, zb)) = xor(xa, zb)
          BY <3>7, Telescope
        <5>3. QED
          BY <5>1, <5>2
      <4>2. xor(zb, c) = xor(c, zb)
        BY <3>7, XorComm, ByteWide
      <4>3. QED
        BY <4>1, <4>2
    <3>9. xor(xor(xa, xb), xor(xb, zb)) = xor(xa, zb)
      <4>1. xor(xb, xa) = xor(xa, xb)
        BY <3>7, XorComm, ByteWide
      <4>2. xor(xor(xb, xa), xor(xb, zb)) = xor(xa, zb)
        BY <3>7, Telescope
      <4>3. QED
        BY <4>1, <4>2
    <3>10. xor(xa, xb) = gf_mul(x, pd)
      BY <3>2, <3>5, <3>6, Distributive
    <3>11. xor(xb, zb) = gf_mul(p, b)
      BY <3>1, <3>2, <3>6, Spread
    <3>12. gf_mul(x, pd) = gf_mul(p, xd)
      BY <3>2, <3>6, Swap
    <3>13. gf_mul(p, xor(xd, b)) = xor(gf_mul(p, xd), gf_mul(p, b))
      BY <3>2, <3>7, Distributive
    <3>14. QED
      BY <3>1, <3>3, <3>4, <3>6, <3>8, <3>9, <3>10, <3>11, <3>12, <3>13
  <2>6. QED
    BY <2>4, <2>5 DEF Quotient
<1> HIDE DEF S
<1>3. n \in S
  BY <1>1, <1>2, AllNumbers
<1>4. QED
  BY <1>3 DEF S

(***************************************************************************)
(* Lagrange: the values at n distinct points, weighted, give the value of  *)
(* a polynomial of degree below n at any point.                            *)
(***************************************************************************)
Weighted(x, m, f, w, n) == [i \in 1 .. m |-> gf_mul(f[x[i]], Coef(x, m, i, w, n))]

LEMMA WeightedIs ==
    ASSUME NEW m, NEW x, Nodes(x, m), NEW n \in 0 .. m, NEW f \in Curve, NEW w \in Byte
    PROVE  /\ Weighted(x, m, f, w, n) \in [1 .. m -> Byte]
           /\ \A i \in 1 .. m : Weighted(x, m, f, w, n)[i] = gf_mul(f[x[i]], Coef(x, m, i, w, n))
<1>1. ASSUME NEW i \in 1 .. m PROVE gf_mul(f[x[i]], Coef(x, m, i, w, n)) \in Byte
  <2>1. x[i] \in Byte
    BY Units DEF Nodes
  <2>2. f[x[i]] \in Byte
    BY <2>1 DEF Curve
  <2>3. QED
    BY <2>2, CoefByte, MulBytes
<1>2. QED
  BY <1>1 DEF Weighted

LEMMA RowIs ==
    ASSUME NEW m, NEW x, Nodes(x, m), NEW n \in 0 .. m, NEW w \in Byte
    PROVE  /\ Row(x, m, w, n) \in [1 .. m -> Byte]
           /\ \A i \in 1 .. m : Row(x, m, w, n)[i] = Coef(x, m, i, w, n)
  BY CoefByte DEF Row

(* The new point's factor cancels against the denominator it brought.      *)
LEMMA CoefCancel ==
    ASSUME NEW m, NEW x, Nodes(x, m), NEW n \in 0 .. m - 1, NEW i \in 1 .. n, NEW w \in Byte,
           NEW g \in Byte
    PROVE  gf_mul(gf_mul(xor(x[i], x[n + 1]), g), Coef(x, m, i, w, n + 1))
             = gf_mul(xor(x[n + 1], w), gf_mul(g, Coef(x, m, i, w, n)))
<1>0. /\ m \in Nat /\ i \in 1 .. m /\ n + 1 \in 1 .. m /\ n \in 0 .. m /\ n + 1 # i
      /\ x[i] \in Byte /\ x[n + 1] \in Byte /\ x[n + 1] # x[i]
  BY Units DEF Nodes
<1>1. PICK p, q, e, c : /\ p = xor(x[i], x[n + 1]) /\ q = xor(x[n + 1], w) /\ e = Inv(p)
                        /\ c = Coef(x, m, i, w, n)
  OBVIOUS
<1>2. p \in Unit /\ p \in Byte /\ q \in Byte /\ e \in Byte /\ c \in Byte /\ gf_mul(p, e) = 1
  BY <1>0, <1>1, Differ, InvIs, Units, CoefByte
<1>3. Coef(x, m, i, w, n + 1) = gf_mul(c, gf_mul(q, e))
  BY <1>1, CoefNext
<1>4. gf_mul(c, gf_mul(q, e)) = gf_mul(e, gf_mul(q, c))
  <2>1. gf_mul(c, gf_mul(q, e)) = gf_mul(q, gf_mul(c, e)) /\ gf_mul(c, e) = gf_mul(e, c)
    BY <1>2, Swap, MulComm
  <2>2. gf_mul(q, gf_mul(e, c)) = gf_mul(e, gf_mul(q, c))
    BY <1>2, Swap
  <2>3. QED
    BY <2>1, <2>2
<1>5. gf_mul(q, c) \in Byte
  BY <1>2, MulBytes
<1>6. gf_mul(gf_mul(p, g), gf_mul(e, gf_mul(q, c))) = gf_mul(gf_mul(p, e), gf_mul(g, gf_mul(q, c)))
  BY <1>2, <1>5, MulCross
<1>7. gf_mul(g, gf_mul(q, c)) = gf_mul(q, gf_mul(g, c))
  BY <1>2, Swap
<1>8. gf_mul(1, gf_mul(g, gf_mul(q, c))) = gf_mul(g, gf_mul(q, c))
  BY <1>5, MulBytes, MulOne
<1>9. QED
  BY <1>1, <1>2, <1>3, <1>4, <1>6, <1>7, <1>8

LEMMA Lagrange ==
    ASSUME NEW m, NEW x, Nodes(x, m), NEW n \in 0 .. m, NEW f \in Poly(n), NEW w \in Byte
    PROVE  Sums(Weighted(x, m, f, w, n))[n] = f[w]
<1> DEFINE Claim(k) == \A h \in Poly(k), v \in Byte : Sums(Weighted(x, m, h, v, k))[k] = h[v]
           S == {k \in Nat : k <= m => Claim(k)}
<1>0. m \in Nat
  BY DEF Nodes
<1>1. 0 \in S
  <2> SUFFICES ASSUME NEW h \in Poly(0), NEW v \in Byte PROVE Sums(Weighted(x, m, h, v, 0))[0] = h[v]
    OBVIOUS
  <2>1. h = Zero /\ h \in Curve /\ h[v] = 0
    BY PolyFlat, ZeroIs
  <2>2. 0 \in 0 .. m
    BY <1>0
  <2>3. PICK t : t = Weighted(x, m, h, v, 0)
    OBVIOUS
  <2>4. t \in [1 .. m -> Byte]
    BY <2>1, <2>2, <2>3, WeightedIs
  <2>5. Sums(t)[0] = 0
    BY <1>0, <2>4, SumsAre
  <2>6. QED
    BY <2>1, <2>3, <2>5
<1>2. ASSUME NEW k \in Nat, k \in S PROVE k + 1 \in S
  <2> SUFFICES ASSUME k + 1 <= m, NEW h \in Poly(k + 1), NEW v \in Byte
               PROVE  Sums(Weighted(x, m, h, v, k + 1))[k + 1] = h[v]
    OBVIOUS
  <2>1. /\ k \in 0 .. m - 1 /\ k \in 0 .. m /\ k + 1 \in 1 .. m /\ k + 1 \in 0 .. m
        /\ (k + 1) - 1 = k /\ k + 1 \in 1 .. k + 1
    BY <1>0
  <2>2. Claim(k)
    BY <1>0, <1>2
  <2> HIDE DEF S
  <2>3. PICK z : z = x[k + 1]
    OBVIOUS
  <2>4. z \in Byte
    BY <2>1, <2>3, Units DEF Nodes
  <2>5. PICK g \in Poly(k) : Quotient(h, z, g)
    BY <2>4, Divides
  <2>6. h \in Curve /\ g \in Curve
    BY PolyCurve
  <2>7. PICK fz, q : fz = h[z] /\ q = xor(z, v)
    OBVIOUS
  <2>8. fz \in Byte /\ q \in Byte /\ h[v] \in Byte
    BY <2>4, <2>6, <2>7, XorBytes DEF Curve
  <2>9. PICK t, r, u : /\ t = Weighted(x, m, h, v, k + 1) /\ r = Row(x, m, v, k + 1)
                       /\ u = Weighted(x, m, g, v, k)
    OBVIOUS
  <2>10. t \in [1 .. m -> Byte] /\ r \in [1 .. m -> Byte] /\ u \in [1 .. m -> Byte]
    BY <2>1, <2>6, <2>9, WeightedIs, RowIs
  <2>11. PICK s : s = [i \in 1 .. m |-> gf_mul(gf_mul(xor(x[i], z), g[x[i]]), r[i])]
    OBVIOUS
  <2>12. ASSUME NEW i \in 1 .. m
         PROVE  /\ x[i] \in Byte /\ g[x[i]] \in Byte /\ xor(x[i], z) \in Byte /\ r[i] \in Byte
                /\ s[i] = gf_mul(gf_mul(xor(x[i], z), g[x[i]]), r[i])
                /\ r[i] = Coef(x, m, i, v, k + 1)
                /\ t[i] = gf_mul(h[x[i]], r[i])
                /\ u[i] = gf_mul(g[x[i]], Coef(x, m, i, v, k))
    <3>1. x[i] \in Byte
      BY Units DEF Nodes
    <3>2. g[x[i]] \in Byte /\ xor(x[i], z) \in Byte /\ r[i] \in Byte
      BY <2>4, <2>6, <2>10, <3>1, XorBytes DEF Curve
    <3>3. r[i] = Coef(x, m, i, v, k + 1) /\ t[i] = gf_mul(h[x[i]], Coef(x, m, i, v, k + 1))
      <4>1. PICK l : l = k + 1
        OBVIOUS
      <4>2. l \in 0 .. m /\ h \in Curve
        BY <2>1, <2>6, <4>1
      <4>3. \A j \in 1 .. m : Weighted(x, m, h, v, l)[j] = gf_mul(h[x[j]], Coef(x, m, j, v, l))
        BY <4>2, WeightedIs
      <4>4. \A j \in 1 .. m : Row(x, m, v, l)[j] = Coef(x, m, j, v, l)
        BY <4>2, RowIs
      <4>5. QED
        BY <2>9, <4>1, <4>3, <4>4
    <3>4. u[i] = gf_mul(g[x[i]], Coef(x, m, i, v, k))
      <4>1. k \in 0 .. m /\ g \in Curve
        BY <2>1, <2>6
      <4>2. \A j \in 1 .. m : Weighted(x, m, g, v, k)[j] = gf_mul(g[x[j]], Coef(x, m, j, v, k))
        BY <4>1, WeightedIs
      <4>3. QED
        BY <2>9, <4>2
    <3>5. QED
      BY <2>11, <3>1, <3>2, <3>3, <3>4
  <2>13. s \in [1 .. m -> Byte]
    <3>1. ASSUME NEW i \in 1 .. m PROVE gf_mul(gf_mul(xor(x[i], z), g[x[i]]), r[i]) \in Byte
      BY <2>12, MulBytes
    <3>2. QED
      BY <2>11, <3>1
  <2>14. ASSUME NEW i \in 1 .. k + 1 PROVE t[i] = xor(s[i], gf_mul(fz, r[i]))
    <3>1. i \in 1 .. m
      BY <1>0
    <3>2. PICK y, d, a, c : y = x[i] /\ d = gf_mul(xor(x[i], z), g[x[i]]) /\ a = h[x[i]] /\ c = r[i]
      OBVIOUS
    <3>3. y \in Byte /\ d \in Byte /\ c \in Byte /\ a \in Byte
      <4>1. d \in Byte
        BY <2>12, <3>1, <3>2, MulBytes
      <4>2. a \in Byte
        BY <2>6, <2>12, <3>1, <3>2 DEF Curve
      <4>3. QED
        BY <2>12, <3>1, <3>2, <4>1, <4>2
    <3>4. xor(a, fz) = d
      BY <2>5, <2>7, <2>12, <3>1, <3>2 DEF Quotient
    <3>5. a = xor(d, fz)
      BY <2>8, <3>3, <3>4, XorAssoc, XorSelf, ByteWide
    <3>6. gf_mul(xor(d, fz), c) = xor(gf_mul(d, c), gf_mul(fz, c))
      BY <2>8, <3>3, Spread
    <3>7. QED
      BY <2>12, <3>1, <3>2, <3>5, <3>6
  <2>15. Sums(t)[k + 1] = xor(Sums(s)[k + 1], gf_mul(fz, Sums(r)[k + 1]))
    <3>1. PICK l : l = k + 1
      OBVIOUS
    <3>2. l \in 0 .. m /\ \A i \in 1 .. l : t[i] = xor(s[i], gf_mul(fz, r[i]))
      BY <2>1, <2>14, <3>1
    <3>3. /\ t \in [1 .. m -> Byte] /\ s \in [1 .. m -> Byte] /\ r \in [1 .. m -> Byte]
          /\ fz \in Byte
      BY <2>8, <2>10, <2>13
    <3>4. Linear(t, s, r, fz, l)
      BY <3>2 DEF Linear
    <3>5. l \in 0 .. m
      BY <3>2
    <3>6. Sums(t)[l] = xor(Sums(s)[l], gf_mul(fz, Sums(r)[l]))
      BY <1>0, <3>3, <3>4, <3>5, SumLinear
    <3>7. QED
      BY <3>1, <3>6
  <2>16. Sums(r)[k + 1] = 1
    BY <2>1, <2>9, CoefSum
  <2>17. Sums(s)[k + 1] = Sums(s)[k]
    <3>1. Sums(s)[k + 1] = xor(Sums(s)[(k + 1) - 1], s[k + 1])
      BY <1>0, <2>1, <2>13, SumsAre
    <3>2. xor(z, z) = 0
      BY <2>4, Differ
    <3>3. s[k + 1] = gf_mul(gf_mul(0, g[z]), r[k + 1])
      BY <2>1, <2>3, <2>12, <3>2
    <3>4. s[k + 1] = 0
      BY <3>3, MulZero
    <3>5. Sums(s)[k] \in Byte
      BY <1>0, <2>1, <2>13, SumsAre
    <3>6. xor(Sums(s)[k], 0) = Sums(s)[k]
      BY <3>5, XorSelf, ByteWide
    <3>7. QED
      BY <2>1, <3>1, <3>4, <3>6
  <2>18. Sums(s)[k] = gf_mul(q, Sums(u)[k])
    <3>1. ASSUME NEW i \in 1 .. k PROVE s[i] = gf_mul(q, u[i])
      <4>1. i \in 1 .. m
        BY <1>0
      <4>2. gf_mul(gf_mul(xor(x[i], x[k + 1]), g[x[i]]), Coef(x, m, i, v, k + 1))
              = gf_mul(xor(x[k + 1], v), gf_mul(g[x[i]], Coef(x, m, i, v, k)))
        BY <2>1, <2>12, <4>1, CoefCancel
      <4>3. QED
        BY <2>3, <2>7, <2>12, <4>1, <4>2
    <3>2. Scaled(s, q, u, k)
      BY <3>1 DEF Scaled
    <3>3. QED
      BY <1>0, <2>1, <2>8, <2>10, <2>13, <3>2, SumScaled
  <2>19. Sums(u)[k] = g[v]
    BY <2>2, <2>9
  <2>20. gf_mul(q, g[v]) = xor(h[v], fz)
    <3>1. xor(h[v], h[z]) = gf_mul(xor(v, z), g[v])
      BY <2>5 DEF Quotient
    <3>2. xor(v, z) = xor(z, v)
      BY <2>4, XorComm, ByteWide
    <3>3. QED
      BY <2>7, <3>1, <3>2
  <2>21. xor(xor(h[v], fz), fz) = h[v] /\ gf_mul(fz, 1) = fz
    BY <2>8, XorAssoc, XorSelf, ByteWide, MulOne
  <2>22. QED
    BY <2>9, <2>15, <2>16, <2>17, <2>18, <2>19, <2>20, <2>21
<1> HIDE DEF S
<1>3. n \in S
  BY <1>0, <1>1, <1>2, AllNumbers
<1>4. QED
  BY <1>0, <1>3 DEF S

(***************************************************************************)
(* Shares: as functions of the index they are a polynomial, of degree      *)
(* below the threshold, whose value at zero is the secret.                 *)
(***************************************************************************)
Ladder(co, x) ==
    LET y[d \in 1 .. (Len(co) + 1)] ==
            IF d > Len(co) THEN 0 ELSE xor(gf_mul(y[d + 1], x), co[d])
    IN  y

(* The polynomials ShareAt goes through, from the highest coefficient on.  *)
Rises(F, n, co) == F[0] = Zero /\ \A k \in 1 .. n : F[k] = Horner(F[k - 1], co[n + 1 - k])

LEMMA RisesExist ==
    ASSUME NEW n \in Nat, NEW co \in [1 .. n -> Byte]
    PROVE  \E F \in [0 .. n -> Curve] : Rises(F, n, co)
<1> DEFINE step == [x \in (1 .. n) \X Curve |-> Horner(x[2], co[n + 1 - x[1]])]
<1>1. ASSUME NEW k \in 1 .. n PROVE n + 1 - k \in 1 .. n /\ co[n + 1 - k] \in Byte
  OBVIOUS
<1>2. step \in [(1 .. n) \X Curve -> Curve]
  BY <1>1, HornerIs
<1>3. ASSUME NEW k \in 1 .. n, NEW g \in Curve PROVE step[<<k, g>>] = Horner(g, co[n + 1 - k])
  OBVIOUS
<1> HIDE DEF step
<1>4. PICK F \in [0 .. n -> Curve] : Steps(F, Zero, n, step)
  BY <1>2, Recursion, ZeroIs
<1>5. ASSUME NEW k \in 1 .. n PROVE F[k] = Horner(F[k - 1], co[n + 1 - k])
  <2>1. k - 1 \in 0 .. n
    OBVIOUS
  <2>2. F[k - 1] \in Curve
    BY <2>1
  <2>3. F[k] = step[<<k, F[k - 1]>>]
    BY <1>4 DEF Steps
  <2>4. QED
    BY <1>3, <2>2, <2>3
<1>6. QED
  BY <1>4, <1>5 DEF Steps, Rises

LEMMA LadderIs ==
    ASSUME NEW n \in Nat, NEW co \in [1 .. n -> Byte], NEW F \in [0 .. n -> Curve],
           Rises(F, n, co), NEW x \in Byte
    PROVE  Ladder(co, x)[1] = F[n][x]
<1> DEFINE Body(y) == [d \in 1 .. (Len(co) + 1) |->
                          IF d > Len(co) THEN 0 ELSE xor(gf_mul(y[d + 1], x), co[d])]
<1>0. co \in Seq(Byte) /\ Len(co) = n
  OBVIOUS
<1>1. PICK f : f = [d \in 1 .. n + 1 |-> F[n + 1 - d][x]]
  OBVIOUS
<1>2. ASSUME NEW k \in 1 .. n
      PROVE  F[k][x] = xor(gf_mul(F[k - 1][x], x), co[n + 1 - k]) /\ F[k - 1][x] \in Byte
  <2>1. k - 1 \in 0 .. n /\ n + 1 - k \in 1 .. n
    OBVIOUS
  <2>2. F[k - 1] \in Curve /\ co[n + 1 - k] \in Byte
    BY <2>1
  <2>3. F[k - 1][x] \in Byte
    BY <2>2 DEF Curve
  <2>4. F[k] = Horner(F[k - 1], co[n + 1 - k])
    BY DEF Rises
  <2>5. F[k][x] = xor(gf_mul(x, F[k - 1][x]), co[n + 1 - k])
    <3>1. PICK g, c : g = F[k - 1] /\ c = co[n + 1 - k]
      OBVIOUS
    <3>2. Horner(g, c)[x] = xor(gf_mul(x, g[x]), c)
      BY <2>2, <3>1, HornerIs
    <3>3. QED
      BY <2>4, <3>1, <3>2
  <2>6. QED
    BY <2>3, <2>5, MulComm
<1>3. F[0][x] = 0
  BY ZeroIs DEF Rises
<1>4. ASSUME NEW d \in 1 .. n + 1
      PROVE  f[d] = IF d > n THEN 0 ELSE xor(gf_mul(f[d + 1], x), co[d])
  <2>1. CASE d = n + 1
    <3>1. n + 1 - d = 0 /\ d > n
      BY <2>1
    <3>2. QED
      BY <1>1, <1>3, <3>1
  <2>2. CASE d # n + 1
    <3>1. PICK k : k = n + 1 - d
      OBVIOUS
    <3>2. /\ k \in 1 .. n /\ n + 1 - k = d /\ n + 1 - (d + 1) = k - 1 /\ d + 1 \in 1 .. n + 1
          /\ ~ (d > n)
      BY <2>2, <3>1
    <3>3. f[d] = F[k][x] /\ f[d + 1] = F[k - 1][x]
      BY <1>1, <3>1, <3>2
    <3>4. F[k][x] = xor(gf_mul(F[k - 1][x], x), co[n + 1 - k])
      BY <1>2, <3>2
    <3>5. QED
      BY <3>2, <3>3, <3>4
  <2>3. QED
    BY <2>1, <2>2
<1>5. f = Body(f)
  <2>1. f = [d \in 1 .. n + 1 |-> f[d]]
    BY <1>1
  <2>2. QED
    BY <1>0, <1>4, <2>1
<1>6. Ladder(co, x) = CHOOSE y : y = Body(y)
  BY DEF Ladder
<1>7. PICK y : y = Ladder(co, x)
  OBVIOUS
<1>8. y = Body(y)
  BY <1>5, <1>6, <1>7
<1>9. ASSUME NEW d \in 1 .. n + 1
      PROVE  y[d] = IF d > n THEN 0 ELSE xor(gf_mul(y[d + 1], x), co[d])
  BY <1>0, <1>8
<1> HIDE DEF Body
<1> DEFINE S == {k \in Nat : k <= n => y[n + 1 - k] = F[k][x]}
<1>10. 0 \in S
  <2>1. n + 1 - 0 = n + 1 /\ n + 1 \in 1 .. n + 1 /\ n + 1 > n
    OBVIOUS
  <2>2. QED
    BY <1>3, <1>9, <2>1
<1>11. ASSUME NEW k \in Nat, k \in S PROVE k + 1 \in S
  <2> SUFFICES ASSUME k + 1 <= n PROVE y[n + 1 - (k + 1)] = F[k + 1][x]
    OBVIOUS
  <2>1. PICK d : d = n + 1 - (k + 1)
    OBVIOUS
  <2>2. d \in 1 .. n + 1 /\ ~ (d > n) /\ d + 1 = n + 1 - k /\ k + 1 \in 1 .. n /\ (k + 1) - 1 = k
    BY <2>1
  <2>3. y[d + 1] = F[k][x]
    BY <1>11, <2>2
  <2>4. y[d] = xor(gf_mul(y[d + 1], x), co[d])
    BY <1>9, <2>2
  <2>5. F[k + 1][x] = xor(gf_mul(F[(k + 1) - 1][x], x), co[n + 1 - (k + 1)])
    BY <1>2, <2>2
  <2>6. QED
    BY <2>1, <2>2, <2>3, <2>4, <2>5
<1> HIDE DEF S
<1>12. n \in S
  BY <1>10, <1>11, AllNumbers
<1>13. n + 1 - n = 1
  OBVIOUS
<1>14. QED
  BY <1>7, <1>12, <1>13 DEF S

LEMMA ShareCurve ==
    ASSUME NEW n \in Nat, NEW co \in [1 .. n -> Byte], NEW s \in Byte
    PROVE  \E f \in Poly(n + 1) : f[0] = s /\ \A x \in Byte : ShareAt(x, s, co) = f[x]
<1>1. PICK F \in [0 .. n -> Curve] : Rises(F, n, co)
  BY RisesExist
<1>2. Tower(F, n)
  <2>1. ASSUME NEW k \in 1 .. n PROVE \E c \in Byte : F[k] = Horner(F[k - 1], c)
    <3>1. n + 1 - k \in 1 .. n
      OBVIOUS
    <3>2. co[n + 1 - k] \in Byte
      BY <3>1
    <3>3. QED
      BY <1>1, <3>2 DEF Rises
  <2>2. QED
    BY <1>1, <2>1 DEF Rises, Tower
<1>3. PICK g : g = F[n]
  OBVIOUS
<1>4. g \in Curve /\ g \in Poly(n)
  <2>1. n \in 0 .. n
    OBVIOUS
  <2>2. g \in Curve
    BY <1>3, <2>1
  <2>3. QED
    BY <1>2, <1>3, <2>2 DEF Poly
<1>5. PICK f : f = Horner(g, s)
  OBVIOUS
<1>6. f \in Poly(n + 1)
  BY <1>4, <1>5, PolyGrow
<1>7. ASSUME NEW x \in Byte PROVE ShareAt(x, s, co) = f[x]
  <2>1. ShareAt(x, s, co) = xor(gf_mul(Ladder(co, x)[1], x), s)
    BY DEF ShareAt, Ladder
  <2>2. Ladder(co, x)[1] = g[x]
    BY <1>1, <1>3, LadderIs
  <2>3. g[x] \in Byte
    BY <1>4 DEF Curve
  <2>4. f[x] = xor(gf_mul(x, g[x]), s)
    BY <1>4, <1>5, HornerIs
  <2>5. gf_mul(x, g[x]) = gf_mul(g[x], x)
    BY <2>3, MulComm
  <2>6. QED
    BY <2>1, <2>2, <2>4, <2>5
<1>8. f[0] = s
  <2>1. f[0] = xor(gf_mul(0, g[0]), s)
    BY <1>4, <1>5, HornerIs, Units
  <2>2. xor(0, s) = s
    BY XorSelf, ByteWide
  <2>3. QED
    BY <2>1, <2>2, MulZero
<1>9. QED
  BY <1>6, <1>7, <1>8

LEMMA BasisIs ==
    ASSUME NEW m, NEW x, Nodes(x, m), NEW i \in 1 .. m
    PROVE  Basis(x, i) = Coef(x, m, i, 0, m)
<1>0. m \in Nat /\ m \in 0 .. m /\ x \in [1 .. m -> Byte] /\ 0 \in Byte /\ x[i] \in Byte
  BY Units DEF Nodes
<1>1. x = Shifted(x, m, 0)
  <2>1. ASSUME NEW k \in 1 .. m PROVE x[k] = xor(x[k], 0)
    BY <1>0, XorSelf, ByteWide
  <2>2. x = [k \in 1 .. m |-> x[k]]
    BY <1>0
  <2>3. QED
    BY <2>1, <2>2 DEF Shifted
<1>2. Product(x, i) = Num(x, m, i, 0, m)
  <2>1. Product(x, i) = Parts(x, i)[m]
    BY <1>0, PartsAre
  <2>2. QED
    BY <1>1, <2>1 DEF Num
<1>3. PICK d : d = Shifted(x, m, x[i])
  OBVIOUS
<1>4. d = [k \in DOMAIN x |-> xor(x[k], x[i])]
  BY <1>0, <1>3 DEF Shifted
<1>5. Product(d, i) = Num(x, m, i, x[i], m)
  <2>1. d \in [1 .. m -> Byte]
    BY <1>0, <1>3, NumIs
  <2>2. Product(d, i) = Parts(d, i)[m]
    BY <1>0, <2>1, PartsAre
  <2>3. QED
    BY <1>3, <2>2 DEF Num
<1>6. Num(x, m, i, 0, m) \in Byte /\ Num(x, m, i, x[i], m) \in Unit
  BY <1>0, CoefByte
<1>7. Basis(x, i) = gf_div(Product(x, i), Product(d, i))
  BY <1>4 DEF Basis
<1>8. QED
  <2>1. PICK a, b : a = Num(x, m, i, 0, m) /\ b = Num(x, m, i, x[i], m)
    OBVIOUS
  <2>2. gf_div(a, b) = gf_mul(a, Inv(b))
    BY <1>6, <2>1, DivIs
  <2>3. QED
    BY <1>2, <1>5, <1>7, <2>1, <2>2 DEF Coef

LEMMA SharesInterpolate ==
    ASSUME NEW m, NEW x, Nodes(x, m), NEW n \in Nat, n + 1 = m, NEW s \in Byte,
           NEW co \in [1 .. n -> Byte]
    PROVE  Interpolate([k \in 1 .. m |-> ShareAt(x[k], s, co)], [k \in 1 .. m |-> Basis(x, k)]) = s
<1>0. m \in Nat /\ m \in 0 .. m /\ 0 \in Byte
  BY Units DEF Nodes
<1>1. PICK f \in Poly(n + 1) : f[0] = s /\ \A z \in Byte : ShareAt(z, s, co) = f[z]
  BY ShareCurve
<1>2. f \in Poly(m) /\ f \in Curve
  BY <1>1, PolyCurve
<1>3. PICK ys, b : /\ ys = [k \in 1 .. m |-> ShareAt(x[k], s, co)]
                   /\ b = [k \in 1 .. m |-> Basis(x, k)]
  OBVIOUS
<1>4. ASSUME NEW k \in 1 .. m
      PROVE  /\ x[k] \in Byte /\ ys[k] = f[x[k]] /\ ys[k] \in Byte
             /\ b[k] = Coef(x, m, k, 0, m) /\ b[k] \in Byte
  <2>1. x[k] \in Byte
    BY Units DEF Nodes
  <2>2. f[x[k]] \in Byte
    BY <1>2, <2>1 DEF Curve
  <2>3. b[k] = Coef(x, m, k, 0, m)
    BY <1>3, BasisIs
  <2>4. Coef(x, m, k, 0, m) \in Byte
    BY <1>0, CoefByte
  <2>5. ys[k] = f[x[k]]
    BY <1>1, <1>3, <2>1
  <2>6. QED
    BY <2>1, <2>2, <2>3, <2>4, <2>5
<1>5. ys \in [1 .. m -> Byte] /\ b \in [1 .. m -> Byte]
  BY <1>3, <1>4
<1>6. PICK t : t = [k \in 1 .. m |-> gf_mul(ys[k], b[k])]
  OBVIOUS
<1>7. Interpolate(ys, b) = Sums(t)[m]
  BY <1>0, <1>5, <1>6, InterpolateIs
<1>8. t = Weighted(x, m, f, 0, m)
  BY <1>4, <1>6 DEF Weighted
<1>9. Sums(Weighted(x, m, f, 0, m))[m] = f[0]
  BY <1>0, <1>2, Lagrange
<1>10. QED
  BY <1>1, <1>3, <1>7, <1>8, <1>9

(***************************************************************************)
(* The invariant of KeyStore.                                              *)
(***************************************************************************)
ShareFile == [st : {"none", "torn", "whole"}, set : Nat, idx : Nat, t : Nat, y : Byte, digest : Byte]

Ranges ==
    /\ count \in [commands : Nat, faults : Nat, sets : Nat, random : Nat]
    /\ split \in [set : Nat, ys : [Index -> Byte] \cup {<<>>}, next : Nat]
    /\ shares \in [Index -> ShareFile]
    /\ origin \in Seq([secret : Byte, ys : [Index -> Byte]])
    /\ made \subseteq Secrets

(* Every share set has the values of one polynomial at the secret it was   *)
(* made from, and a whole share file names the set it is of.               *)
Split(s, ys) == \E co \in Polys : ys = [i \in Index |-> ShareAt(i, s, co)]

Origins ==
    /\ Len(origin) = count.sets
    /\ \A n \in DOMAIN origin : origin[n].secret \in made /\ Split(origin[n].secret, origin[n].ys)

Labelled ==
    \A i \in Index : shares[i].st = "whole" =>
        /\ shares[i].idx = i /\ shares[i].t = Threshold
        /\ shares[i].set \in DOMAIN origin /\ shares[i].digest = origin[shares[i].set].secret

(* What a command has in its hands, and what it has on disk by then.       *)
Passes == Typed \cup {Random(n) : n \in 1 .. count.random}

NewPass(c) == IF c.op = "rekey" THEN c.new ELSE OldPass(c)

Chaining ==
    /\ pc \in {"kc_delete", "kc_add"} => cmd.op \in {"keygen", "join"} /\ cmd.keychain /\ secret \in made
    /\ pc = "kc_add" => chain = NoPass

Saving ==
    /\ pc \in {"save_open", "save_write"} =>
          /\ cmd.op \in {"keygen", "join", "rekey"} /\ secret \in made
          /\ pass \in Passes /\ pass = NewPass(cmd)
    /\ pc = "save_write" => key.st = "torn"
    /\ pc \in {"pub_open", "pub_write"} =>
          /\ cmd.op = "keygen"
          /\ ~unflushed => key = Wrapped(secret, OldPass(cmd)) /\ secret \in saved

Written(i) == shares[i].st = "whole" /\ shares[i].set = split.set /\ shares[i].y = split.ys[i]

Holding ==
    /\ cmd.op = "split" /\ split.set \in DOMAIN origin
    /\ origin[split.set].secret = secret /\ origin[split.set].ys = split.ys

Splitting ==
    pc = "split" =>
        /\ Holding /\ split.next \in Index
        /\ key.st = "whole" /\ key.secret = secret /\ key.pass \in Typed \cup {chain}
        /\ ~unflushed => \A i \in Index : i < split.next => Written(i)

Done ==
    pc = "ret" /\ rc = "ok" /\ ~unflushed =>
        /\ cmd.op \in {"keygen", "join"} => Loads(OldPass(cmd)) /\ key.secret = secret
        /\ cmd.op = "rekey" => Loads(cmd.new) /\ key.secret = secret
        /\ cmd.op = "keygen" => pub = PubOf(secret)
        /\ cmd.op = "split" => Holding /\ \A i \in Index : Written(i)

StoreInv == TypeOK /\ Ranges /\ Origins /\ Labelled /\ Chaining /\ Saving /\ Splitting /\ Done /\ JoinExact

LEMMA SizesAre ==
    /\ Threshold \in 2 .. 16 /\ NShares \in Threshold .. 255 /\ Threshold \in Nat /\ NShares \in Nat
    /\ Index \subseteq Unit /\ Index \subseteq Byte /\ Index \subseteq Nat /\ 1 \in Index
    /\ Threshold - 1 \in Nat /\ (Threshold - 1) + 1 = Threshold
    /\ Secrets \subseteq Byte /\ Polys \subseteq [1 .. (Threshold - 1) -> Byte]
<1>1. Threshold \in 2 .. 16 /\ NShares \in Threshold .. 255
  BY KeyStoreAssumption
<1>2. Threshold \in Nat /\ NShares \in Nat /\ Threshold - 1 \in Nat /\ (Threshold - 1) + 1 = Threshold
  BY <1>1
<1>3. \A i \in Index : i \in Unit /\ i \in Byte /\ i \in Nat
  BY <1>1 DEF Index, Unit, Byte
<1>4. 1 \in Index
  BY <1>1 DEF Index
<1>5. Secrets \subseteq Byte /\ Polys \subseteq [1 .. (Threshold - 1) -> Byte]
  BY KeyStoreAssumption DEF Byte
<1>6. QED
  BY <1>1, <1>2, <1>3, <1>4, <1>5

LEMMA CommandIs ==
    ASSUME NEW c \in Command
    PROVE  /\ c.op \in {"keygen", "join", "rekey", "split"}
           /\ c.keychain \in BOOLEAN /\ c.typed \in Typed
           /\ c.op = "join" => c.paths \in Paths
           /\ c.op = "rekey" => c.new \in Typed
  BY DEF Command

LEMMA PathsAre ==
    ASSUME NEW p \in Paths
    PROVE  \E n \in 2 .. Threshold : p \in [1 .. n -> Index]
  BY DEF Paths

LEMMA QuorumsAre ==
    ASSUME NEW q \in Quorums
    PROVE  /\ q \in [1 .. Threshold -> Index]
           /\ \A i, j \in 1 .. Threshold : q[i] = q[j] => i = j
           /\ Nodes(q, Threshold) /\ q \in DOMAIN Bases
<1>1. q \in Paths /\ Len(q) = Threshold /\ IsInjective(q)
  BY DEF Quorums
<1>2. PICK n \in 2 .. Threshold : q \in [1 .. n -> Index]
  BY <1>1, PathsAre
<1>3. n = Threshold
  <2>1. n \in Nat
    BY SizesAre
  <2>2. Len(q) = n
    BY <1>2, <2>1
  <2>3. QED
    BY <1>1, <2>2
<1>4. q \in [1 .. Threshold -> Index]
  BY <1>2, <1>3
<1>5. \A i, j \in 1 .. Threshold : q[i] = q[j] => i = j
  BY <1>1, <1>4 DEF IsInjective
<1>6. q \in [1 .. Threshold -> Unit]
  BY <1>4, SizesAre
<1>7. QED
  BY <1>1, <1>4, <1>5, <1>6, SizesAre DEF Nodes, Bases

LEMMA ShareByte ==
    ASSUME NEW s \in Byte, NEW co \in Polys, NEW i \in Index
    PROVE  ShareAt(i, s, co) \in Byte
<1>1. co \in [1 .. (Threshold - 1) -> Byte] /\ Threshold - 1 \in Nat /\ i \in Byte
  BY SizesAre
<1>2. PICK f \in Poly((Threshold - 1) + 1) : f[0] = s /\ \A x \in Byte : ShareAt(x, s, co) = f[x]
  BY <1>1, ShareCurve
<1>3. f \in Curve
  BY PolyCurve
<1>4. QED
  BY <1>1, <1>2, <1>3 DEF Curve

(* sss_join_files on shares as they were written.                          *)
LEMMA JoinWorks ==
    ASSUME Ranges, Origins, Labelled, NEW q \in Quorums, Together(q)
    PROVE  /\ JoinOk(ReadShares(q))
           /\ shares[q[1]].digest = origin[shares[q[1]].set].secret
<1>1. /\ q \in [1 .. Threshold -> Index] /\ DOMAIN q = 1 .. Threshold /\ 1 \in 1 .. Threshold
      /\ \A i, j \in 1 .. Threshold : q[i] = q[j] => i = j
  <2>1. q \in [1 .. Threshold -> Index] /\ \A i, j \in 1 .. Threshold : q[i] = q[j] => i = j
    BY QuorumsAre
  <2>2. 1 \in 1 .. Threshold
    BY SizesAre
  <2>3. QED
    BY <2>1, <2>2
<1>2. PICK n, s, ss : n = shares[q[1]].set /\ s = origin[n].secret /\ ss = ReadShares(q)
  OBVIOUS
<1>3. ASSUME NEW k \in 1 .. Threshold
      PROVE  /\ ss[k] = shares[q[k]] /\ ss[k].st = "whole" /\ ss[k].set = n /\ ss[k].idx = q[k]
             /\ ss[k].t = Threshold /\ ss[k].digest = s /\ ss[k].y = origin[n].ys[q[k]]
             /\ n \in DOMAIN origin /\ q[k] \in Index
  <2>1. q[k] \in Index /\ ss[k] = shares[q[k]]
    BY <1>1, <1>2 DEF ReadShares
  <2>2. Sound(q[k]) /\ shares[q[k]].set = n
    BY <1>1, <1>2 DEF Together
  <2>3. QED
    BY <1>2, <2>1, <2>2 DEF Sound, Labelled
<1>4. n \in DOMAIN origin
  BY <1>1, <1>3
<1>5. s \in Byte
  <2>1. s \in made
    BY <1>2, <1>4 DEF Origins
  <2>2. QED
    BY <2>1, SizesAre DEF Ranges
<1>6. PICK co \in Polys : origin[n].ys = [i \in Index |-> ShareAt(i, s, co)]
  <2>1. Split(s, origin[n].ys)
    BY <1>2, <1>4 DEF Origins
  <2>2. QED
    BY <2>1 DEF Split
<1>7. ss \in [1 .. Threshold -> ShareFile] /\ Len(ss) = Threshold /\ DOMAIN ss = 1 .. Threshold
  <2>1. ss = [k \in 1 .. Threshold |-> shares[q[k]]]
    BY <1>1, <1>2 DEF ReadShares
  <2>2. ss \in [1 .. Threshold -> ShareFile]
    BY <1>1, <2>1 DEF Ranges
  <2>3. QED
    BY <2>2, SizesAre
<1>8. Belong(ss)
  <2>1. \A k \in 1 .. Threshold : ss[k].st = "whole"
    BY <1>3
  <2>2. ss[1].set = n /\ ss[1].t = Threshold /\ ss[1].digest = s
    BY <1>1, <1>3
  <2>3. \A k \in 1 .. Threshold : ss[k].set = n /\ ss[k].t = Threshold /\ ss[k].digest = s
    BY <1>3
  <2>4. \A k, l \in 1 .. Threshold : k # l => ss[k].idx # ss[l].idx
    BY <1>1, <1>3
  <2>5. Len(ss) >= ss[1].t
    BY <1>7, <2>2, SizesAre
  <2>6. QED
    BY <1>7, <2>1, <2>2, <2>3, <2>4, <2>5 DEF Belong
<1>9. Joined(ss) = s
  <2>1. [k \in 1 .. Threshold |-> ss[k].y] = [k \in 1 .. Threshold |-> ShareAt(q[k], s, co)]
    BY <1>3, <1>6
  <2>2. [k \in 1 .. Threshold |-> ss[k].idx] = q
    <3>1. q = [k \in 1 .. Threshold |-> q[k]]
      BY <1>1
    <3>2. \A k \in 1 .. Threshold : ss[k].idx = q[k]
      BY <1>3
    <3>3. QED
      BY <3>1, <3>2
  <2>3. Bases[q] = [k \in 1 .. Threshold |-> Basis(q, k)]
    BY QuorumsAre DEF Bases
  <2>4. PICK m, d : m = Threshold /\ d = Threshold - 1
    OBVIOUS
  <2>5. Nodes(q, m) /\ d \in Nat /\ d + 1 = m /\ co \in [1 .. d -> Byte]
    BY <2>4, SizesAre, QuorumsAre
  <2>6. Interpolate([k \in 1 .. m |-> ShareAt(q[k], s, co)], [k \in 1 .. m |-> Basis(q, k)]) = s
    BY <1>5, <2>5, SharesInterpolate
  <2>7. QED
    BY <2>1, <2>2, <2>3, <2>4, <2>6 DEF Joined
<1>10. QED
  BY <1>1, <1>2, <1>3, <1>8, <1>9 DEF JoinOk

LEMMA LeastByte ==
    ASSUME NEW S, S \subseteq Nat, S # {}
    PROVE  Min(S) \in S
<1>1. PICK x \in S : \A y \in S : ~ (<<y, x>> \in OpToRel(<, Nat))
  BY NatLessThanWellFounded, WFMin
<1>2. \A y \in S : x <= y
  <2> SUFFICES ASSUME NEW y \in S PROVE x <= y
    OBVIOUS
  <2>1. x \in Nat /\ y \in Nat
    OBVIOUS
  <2>2. ~ (y < x)
    BY <1>1, <2>1 DEF OpToRel
  <2>3. QED
    BY <2>1, <2>2
<1>3. QED
  BY <1>2 DEF Min

(***************************************************************************)
(* Every step keeps it.  The steps that save a key file first.             *)
(***************************************************************************)
LEMMA KcDeleteKeeps ==
    ASSUME StoreInv, KcDelete
    PROVE  StoreInv'
<1>0. /\ pc = "kc_delete" /\ pc' = "kc_add" /\ chain' = NoPass
      /\ UNCHANGED <<key, pub, shares, cmd, secret, pass, split, rc, count, made, saved, origin, unflushed>>
  BY DEF KcDelete, locals, history
<1>1. TypeOK'
  BY <1>0 DEF StoreInv, TypeOK
<1>2. Ranges'
  BY <1>0 DEF StoreInv, Ranges
<1>3. Origins'
  BY <1>0 DEF StoreInv, Origins
<1>4. Labelled'
  BY <1>0 DEF StoreInv, Labelled
<1>5. Chaining' /\ Saving' /\ Splitting' /\ Done'
  BY <1>0 DEF StoreInv, Chaining, Saving, Splitting, Done
<1>6. JoinExact'
  BY <1>0 DEF StoreInv, JoinExact
<1>7. QED
  BY <1>1, <1>2, <1>3, <1>4, <1>5, <1>6 DEF StoreInv

LEMMA KcAddKeeps ==
    ASSUME StoreInv, KcAdd
    PROVE  StoreInv'
<1>0. /\ pc = "kc_add" /\ pc' = "save_open" /\ count' = [count EXCEPT !.random = @ + 1]
      /\ pass' = Random(count'.random) /\ chain' = pass'
      /\ UNCHANGED <<key, pub, shares, cmd, secret, split, rc, made, saved, origin, unflushed>>
  BY DEF KcAdd, history
<1>1. /\ count.random \in Nat /\ count'.random = count.random + 1 /\ count'.faults = count.faults
      /\ count'.sets = count.sets
      /\ count' \in [commands : Nat, faults : Nat, sets : Nat, random : Nat]
  BY <1>0 DEF StoreInv, Ranges
<1>2. Passes \subseteq Passes' /\ pass' \in Passes'
  <2>1. \A n \in 1 .. count.random : n \in 1 .. count'.random
    BY <1>1
  <2>2. count'.random \in 1 .. count'.random
    BY <1>1
  <2>3. QED
    BY <1>0, <2>1, <2>2 DEF Passes
<1>3. TypeOK'
  BY <1>0, <1>1, <1>2 DEF StoreInv, TypeOK, Passes
<1>4. Ranges'
  BY <1>0, <1>1 DEF StoreInv, Ranges
<1>5. Origins'
  BY <1>0, <1>1 DEF StoreInv, Origins
<1>6. Labelled'
  BY <1>0 DEF StoreInv, Labelled
<1>7. Chaining' /\ Splitting' /\ Done'
  BY <1>0 DEF StoreInv, Chaining, Splitting, Done
<1>8. Saving'
  <2>1. cmd.op \in {"keygen", "join"} /\ cmd.keychain /\ secret \in made
    BY <1>0 DEF StoreInv, Chaining
  <2>2. NewPass(cmd)' = pass'
    BY <1>0, <2>1 DEF NewPass, OldPass
  <2>3. QED
    BY <1>0, <1>2, <2>1, <2>2 DEF Saving
<1>9. JoinExact'
  BY <1>0 DEF StoreInv, JoinExact
<1>10. QED
  BY <1>3, <1>4, <1>5, <1>6, <1>7, <1>8, <1>9 DEF StoreInv

LEMMA SaveOpenKeeps ==
    ASSUME StoreInv, SaveOpen
    PROVE  StoreInv'
<1>0. /\ pc = "save_open"
      /\ UNCHANGED <<pub, chain, shares, cmd, secret, pass, split, count, made, saved, origin, unflushed>>
      /\ \/ key' = TornKey /\ pc' = "save_write" /\ rc' = rc
         \/ pc' = "ret" /\ rc' = "declined" /\ key' = key
  BY DEF SaveOpen, Return, locals, history
<1>1. TypeOK'
  BY <1>0 DEF StoreInv, TypeOK, TornKey, NoKey
<1>2. Ranges'
  BY <1>0 DEF StoreInv, Ranges
<1>3. Origins'
  BY <1>0 DEF StoreInv, Origins
<1>4. Labelled'
  BY <1>0 DEF StoreInv, Labelled
<1>5. Chaining' /\ Splitting' /\ Done'
  BY <1>0 DEF Chaining, Splitting, Done
<1>6. Saving'
  <2>1. Passes' = Passes /\ NewPass(cmd)' = NewPass(cmd)
    BY <1>0 DEF Passes, NewPass, OldPass
  <2>2. TornKey.st = "torn"
    BY DEF TornKey, NoKey
  <2>3. QED
    BY <1>0, <2>1, <2>2 DEF StoreInv, Saving
<1>7. JoinExact'
  BY <1>0 DEF StoreInv, JoinExact
<1>8. QED
  BY <1>1, <1>2, <1>3, <1>4, <1>5, <1>6, <1>7 DEF StoreInv

LEMMA SaveWriteKeeps ==
    ASSUME StoreInv, SaveWrite
    PROVE  StoreInv'
<1>0. /\ pc = "save_write" /\ key' = Wrapped(secret, pass) /\ saved' = saved \cup {secret}
      /\ UNCHANGED <<pub, chain, shares, cmd, secret, pass, split, count, made, origin, unflushed>>
      /\ \/ cmd.op = "keygen" /\ pc' = "pub_open" /\ rc' = rc
         \/ cmd.op # "keygen" /\ pc' = "ret" /\ rc' = "ok"
  BY DEF SaveWrite, AfterSave, Return, locals
<1>1. /\ cmd.op \in {"keygen", "join", "rekey"} /\ secret \in made
      /\ pass \in Passes /\ pass = NewPass(cmd)
  BY <1>0 DEF StoreInv, Saving
<1>2. Wrapped(secret, pass).st = "whole" /\ Wrapped(secret, pass).secret = secret
      /\ Wrapped(secret, pass).pass = pass
  BY DEF Wrapped
<1>3. TypeOK'
  BY <1>0, <1>1, <1>2 DEF StoreInv, TypeOK, Passes
<1>4. Ranges'
  BY <1>0 DEF StoreInv, Ranges
<1>5. Origins'
  BY <1>0 DEF StoreInv, Origins
<1>6. Labelled'
  BY <1>0 DEF StoreInv, Labelled
<1>7. Chaining' /\ Splitting'
  BY <1>0 DEF Chaining, Splitting
<1>8. Saving'
  <2>1. cmd.op = "keygen" => OldPass(cmd)' = pass
    BY <1>0, <1>1 DEF NewPass, OldPass
  <2>2. QED
    BY <1>0, <2>1 DEF Saving, Wrapped
<1>9. Done'
  <2>1. cmd.op = "join" => OldPass(cmd)' = pass
    BY <1>0, <1>1 DEF NewPass, OldPass
  <2>2. cmd.op = "rekey" => cmd'.new = pass
    BY <1>0, <1>1 DEF NewPass
  <2>3. QED
    BY <1>0, <1>1, <1>2, <2>1, <2>2 DEF Done, Loads
<1>10. JoinExact'
  BY <1>0 DEF StoreInv, JoinExact
<1>11. QED
  BY <1>3, <1>4, <1>5, <1>6, <1>7, <1>8, <1>9, <1>10 DEF StoreInv

LEMMA PubOpenKeeps ==
    ASSUME StoreInv, PubOpen
    PROVE  StoreInv'
<1>0. /\ pc = "pub_open"
      /\ UNCHANGED <<key, chain, shares, cmd, secret, pass, split, count, made, saved, origin, unflushed>>
      /\ \/ pub' = TornPub /\ pc' = "pub_write" /\ rc' = rc
         \/ pc' = "ret" /\ rc' = "declined" /\ pub' = pub
  BY DEF PubOpen, Return, locals, history
<1>1. TypeOK'
  BY <1>0 DEF StoreInv, TypeOK, TornPub, NoPub
<1>2. Ranges'
  BY <1>0 DEF StoreInv, Ranges
<1>3. Origins'
  BY <1>0 DEF StoreInv, Origins
<1>4. Labelled'
  BY <1>0 DEF StoreInv, Labelled
<1>5. Chaining' /\ Splitting' /\ Done'
  BY <1>0 DEF Chaining, Splitting, Done
<1>6. Saving'
  BY <1>0 DEF StoreInv, Saving, OldPass
<1>7. JoinExact'
  BY <1>0 DEF StoreInv, Saving, JoinExact
<1>8. QED
  BY <1>1, <1>2, <1>3, <1>4, <1>5, <1>6, <1>7 DEF StoreInv

LEMMA PubWriteKeeps ==
    ASSUME StoreInv, PubWrite
    PROVE  StoreInv'
<1>0. /\ pc = "pub_write" /\ pub' = PubOf(secret) /\ pc' = "ret" /\ rc' = "ok"
      /\ UNCHANGED <<key, chain, shares, cmd, secret, pass, split, count, made, saved, origin, unflushed>>
  BY DEF PubWrite, Return, locals, history
<1>1. cmd.op = "keygen" /\ (~unflushed => key = Wrapped(secret, OldPass(cmd)) /\ secret \in saved)
  BY <1>0 DEF StoreInv, Saving
<1>2. TypeOK'
  BY <1>0, <1>1 DEF StoreInv, TypeOK, PubOf
<1>3. Ranges'
  BY <1>0 DEF StoreInv, Ranges
<1>4. Origins'
  BY <1>0 DEF StoreInv, Origins
<1>5. Labelled'
  BY <1>0 DEF StoreInv, Labelled
<1>6. Chaining' /\ Saving' /\ Splitting'
  BY <1>0 DEF Chaining, Saving, Splitting
<1>7. Done'
  <2>1. OldPass(cmd)' = OldPass(cmd) /\ PubOf(secret)' = PubOf(secret)
    BY <1>0 DEF OldPass, PubOf
  <2>2. QED
    BY <1>0, <1>1, <2>1 DEF Done, Loads, Wrapped
<1>8. JoinExact'
  BY <1>0, <1>1 DEF JoinExact
<1>9. QED
  BY <1>2, <1>3, <1>4, <1>5, <1>6, <1>7, <1>8 DEF StoreInv

(* A share being written: it gets out whole, or what is left of it is torn.*)
LEMMA TornShares ==
    ASSUME StoreInv, shares' \in {shares, ShareTorn}, origin' = origin
    PROVE  shares' \in [Index -> ShareFile] /\ Labelled'
<1>1. TornShare \in ShareFile /\ TornShare.st = "torn"
  BY Units DEF TornShare, NoShare, ShareFile, Byte
<1>2. shares \in [Index -> ShareFile] /\ Labelled
  BY DEF StoreInv, Ranges
<1>3. CASE shares' = shares
  BY <1>2, <1>3 DEF Labelled
<1>4. CASE shares' = ShareTorn
  <2>1. shares' \in [Index -> ShareFile]
    BY <1>1, <1>2, <1>4 DEF ShareTorn
  <2>2. ASSUME NEW i \in Index PROVE shares'[i] \in {shares[i], TornShare}
    BY <1>2, <1>4 DEF ShareTorn
  <2>3. ASSUME NEW i \in Index, shares'[i].st = "whole" PROVE shares'[i] = shares[i]
    BY <1>1, <2>2, <2>3
  <2>4. QED
    BY <1>2, <2>1, <2>3 DEF Labelled
<1>5. QED
  BY <1>3, <1>4

LEMMA ShareWriteKeeps ==
    ASSUME StoreInv, ShareWrite
    PROVE  StoreInv'
<1>0. /\ pc = "split"
      /\ shares' = [shares EXCEPT ![split.next] = Share(split.set, split.next, secret, split.ys)]
      /\ split' = [split EXCEPT !.next = @ + 1]
      /\ UNCHANGED <<key, pub, chain, cmd, secret, pass, count, made, saved, origin, unflushed>>
      /\ \/ split.next = NShares /\ pc' = "ret" /\ rc' = "ok"
         \/ split.next # NShares /\ pc' = pc /\ rc' = rc
  BY DEF ShareWrite, NextShare, Return, history
<1>1. /\ Holding /\ split.next \in Index
      /\ key.st = "whole" /\ key.secret = secret /\ key.pass \in Typed \cup {chain}
      /\ ~unflushed => \A i \in Index : i < split.next => Written(i)
  BY <1>0 DEF StoreInv, Splitting
<1>2. PICK n, w : n = split.next /\ w = Share(split.set, n, secret, split.ys)
  OBVIOUS
<1>3. /\ cmd.op = "split" /\ split.set \in DOMAIN origin /\ n \in Index /\ n \in Nat
      /\ origin[split.set].secret = secret /\ origin[split.set].ys = split.ys
  BY <1>1, <1>2, SizesAre DEF Holding
<1>4. /\ split' \in [set : Nat, ys : [Index -> Byte] \cup {<<>>}, next : Nat]
      /\ split'.set = split.set /\ split'.ys = split.ys /\ split'.next = n + 1
  <2>1. split \in [set : Nat, ys : [Index -> Byte] \cup {<<>>}, next : Nat]
    BY DEF StoreInv, Ranges
  <2>2. PICK l : l = n + 1
    OBVIOUS
  <2>3. l \in Nat /\ split' = [split EXCEPT !.next = l]
    BY <1>0, <1>2, <1>3, <2>2
  <2>4. QED
    BY <2>1, <2>2, <2>3
<1>5. shares \in [Index -> ShareFile] /\ split.set \in Nat
  BY DEF StoreInv, Ranges
<1>6. split.ys \in [Index -> Byte] /\ secret \in Byte
  <2>1. origin[split.set] \in [secret : Byte, ys : [Index -> Byte]]
    <3>1. origin \in Seq([secret : Byte, ys : [Index -> Byte]])
      BY DEF StoreInv, Ranges
    <3>2. PICK R : R = [secret : Byte, ys : [Index -> Byte]]
      OBVIOUS
    <3>3. \A j \in 1 .. Len(origin) : origin[j] \in R
      BY <3>1, <3>2, ElementOfSeq
    <3>4. DOMAIN origin = 1 .. Len(origin)
      BY <3>1, <3>2, LenProperties
    <3>5. QED
      BY <1>3, <3>2, <3>3, <3>4
  <2>2. QED
    BY <1>3, <2>1
<1>7. /\ w.st = "whole" /\ w.set = split.set /\ w.idx = n /\ w.t = Threshold
      /\ w.y = split.ys[n] /\ w.digest = secret
  BY <1>2 DEF Share
<1>8. w \in ShareFile
  BY <1>2, <1>3, <1>5, <1>6, SizesAre DEF Share, ShareFile
<1>9. /\ shares' \in [Index -> ShareFile] /\ shares'[n] = w
      /\ \A i \in Index : i # n => shares'[i] = shares[i]
  BY <1>0, <1>2, <1>3, <1>5, <1>8
<1>10. TypeOK'
  <2>1. ASSUME NEW i \in Index, shares'[i].st = "whole"
        PROVE  shares'[i].idx = i /\ shares'[i].set \in DOMAIN origin
    <3>1. CASE i = n
      BY <1>3, <1>7, <1>9, <3>1
    <3>2. CASE i # n
      BY <1>9, <2>1, <3>2 DEF StoreInv, TypeOK
    <3>3. QED
      BY <3>1, <3>2
  <2>2. QED
    BY <1>0, <2>1 DEF StoreInv, TypeOK
<1>11. Ranges'
  BY <1>0, <1>4, <1>9 DEF StoreInv, Ranges
<1>12. Origins'
  BY <1>0 DEF StoreInv, Origins
<1>13. Labelled'
  <2>1. ASSUME NEW i \in Index, shares'[i].st = "whole"
        PROVE  /\ shares'[i].idx = i /\ shares'[i].t = Threshold
               /\ shares'[i].set \in DOMAIN origin
               /\ shares'[i].digest = origin[shares'[i].set].secret
    <3>1. CASE i = n
      BY <1>3, <1>7, <1>9, <3>1
    <3>2. CASE i # n
      BY <1>9, <2>1, <3>2 DEF StoreInv, Labelled
    <3>3. QED
      BY <3>1, <3>2
  <2>2. QED
    BY <1>0, <2>1 DEF Labelled
<1>14. Chaining' /\ Saving'
  BY <1>0 DEF Chaining, Saving
<1>15. Holding'
  BY <1>0, <1>3, <1>4 DEF Holding
<1>16. ASSUME ~unflushed, NEW i \in Index, i < n + 1 PROVE Written(i)'
  <2>1. CASE i = n
    BY <1>4, <1>7, <1>9, <2>1 DEF Written
  <2>2. CASE i # n
    <3>1. i < n
      BY <1>3, <1>16, <2>2, SizesAre
    <3>2. Written(i)
      BY <1>1, <1>2, <1>16, <3>1
    <3>3. QED
      BY <1>4, <1>9, <2>2, <3>2 DEF Written
  <2>3. QED
    BY <2>1, <2>2
<1>17. Splitting'
  <2>1. CASE n # NShares
    <3>1. n + 1 \in Index
      BY <1>3, <2>1, SizesAre DEF Index
    <3>2. QED
      BY <1>0, <1>1, <1>4, <1>15, <1>16, <3>1 DEF Splitting
  <2>2. CASE n = NShares
    BY <1>0, <1>2, <2>2 DEF Splitting
  <2>3. QED
    BY <2>1, <2>2
<1>18. Done'
  <2>1. ASSUME n = NShares, NEW i \in Index PROVE i < n + 1
    BY <2>1, SizesAre DEF Index
  <2>2. QED
    BY <1>0, <1>2, <1>3, <1>15, <1>16, <2>1 DEF Done
<1>19. JoinExact'
  BY <1>0, <1>3 DEF JoinExact
<1>20. QED
  BY <1>10, <1>11, <1>12, <1>13, <1>14, <1>17, <1>18, <1>19 DEF StoreInv

(* What a failure leaves behind.                                           *)
LEMMA FaultIs ==
    ASSUME StoreInv, Fault
    PROVE  /\ count' \in [commands : Nat, faults : Nat, sets : Nat, random : Nat]
           /\ count'.faults > 0 /\ count'.sets = count.sets /\ count'.random = count.random
           /\ Passes' = Passes
<1>1. count \in [commands : Nat, faults : Nat, sets : Nat, random : Nat]
  BY DEF StoreInv, Ranges
<1>2. count' = [count EXCEPT !.faults = @ + 1]
  BY DEF Fault
<1>3. /\ count' \in [commands : Nat, faults : Nat, sets : Nat, random : Nat]
      /\ count'.faults > 0 /\ count'.sets = count.sets /\ count'.random = count.random
  BY <1>1, <1>2
<1>4. QED
  BY <1>3 DEF Passes

LEMMA StopKeeps ==
    ASSUME StoreInv, Fault, shares' \in {shares, ShareTorn}, pc # "split" => shares' = shares,
           UNCHANGED <<key, pub, chain, locals, history>>,
           \/ pc' = "ret" /\ rc' = "io" /\ pc \notin {"idle", "ret"}
           \/ pc' = "idle" /\ rc' = "crash"
    PROVE  StoreInv'
<1>0. UNCHANGED <<key, pub, chain, cmd, secret, pass, split, made, saved, origin, unflushed>>
  BY DEF locals, history
<1>1. shares' \in [Index -> ShareFile] /\ Labelled'
  BY <1>0, TornShares
<1>2. TypeOK'
  <2>1. \A i \in Index : shares'[i].st = "whole" => shares'[i].idx = i /\ shares'[i].set \in DOMAIN origin
    BY <1>0, <1>1 DEF Labelled
  <2>2. QED
    BY <1>0, <2>1, FaultIs DEF StoreInv, TypeOK
<1>3. Ranges'
  BY <1>0, <1>1, FaultIs DEF StoreInv, Ranges
<1>4. Origins'
  BY <1>0, FaultIs DEF StoreInv, Origins
<1>5. Chaining' /\ Saving' /\ Splitting' /\ Done'
  BY DEF Chaining, Saving, Splitting, Done
<1>6. JoinExact'
  <2>1. pc = "split" => cmd.op = "split"
    BY DEF StoreInv, Splitting, Holding
  <2>2. pc \in {"pub_open", "pub_write"} => cmd.op = "keygen"
    BY DEF StoreInv, Saving
  <2>3. pc \in {"idle", "kc_delete", "kc_add", "save_open", "save_write", "pub_open", "pub_write",
                "split", "ret"}
    BY DEF StoreInv, TypeOK
  <2>4. QED
    BY <1>0, <2>1, <2>2, <2>3 DEF StoreInv, JoinExact
<1>7. QED
  BY <1>1, <1>2, <1>3, <1>4, <1>5, <1>6 DEF StoreInv

LEMMA StepFailsKeeps ==
    ASSUME StoreInv, StepFails
    PROVE  StoreInv'
  BY StopKeeps DEF StepFails, Return

LEMMA CrashKeeps ==
    ASSUME StoreInv, Crash
    PROVE  StoreInv'
  BY StopKeeps DEF Crash

LEMMA FlushLostKeeps ==
    ASSUME StoreInv, FlushLost
    PROVE  StoreInv'
<1>0. /\ Fault /\ unflushed' = TRUE
      /\ UNCHANGED <<key, pub, chain, cmd, secret, pass, made, saved, origin>>
      /\ shares' \in {shares, ShareTorn}
      /\ \/ /\ pc = "save_write" /\ shares' = shares /\ split' = split
            /\ \/ cmd.op = "keygen" /\ pc' = "pub_open" /\ rc' = rc
               \/ cmd.op # "keygen" /\ pc' = "ret" /\ rc' = "ok"
         \/ pc = "pub_write" /\ shares' = shares /\ split' = split /\ pc' = "ret" /\ rc' = "ok"
         \/ /\ pc = "split" /\ split' = [split EXCEPT !.next = @ + 1]
            /\ \/ split.next = NShares /\ pc' = "ret" /\ rc' = "ok"
               \/ split.next # NShares /\ pc' = pc /\ rc' = rc
  BY DEF FlushLost, AfterSave, NextShare, Return
<1>1. shares' \in [Index -> ShareFile] /\ Labelled'
  BY <1>0, TornShares
<1>2. TypeOK'
  <2>1. \A i \in Index : shares'[i].st = "whole" => shares'[i].idx = i /\ shares'[i].set \in DOMAIN origin
    BY <1>0, <1>1 DEF Labelled
  <2>2. QED
    BY <1>0, <2>1, FaultIs DEF StoreInv, TypeOK
<1>3. split \in [set : Nat, ys : [Index -> Byte] \cup {<<>>}, next : Nat]
  BY DEF StoreInv, Ranges
<1>4. /\ split' \in [set : Nat, ys : [Index -> Byte] \cup {<<>>}, next : Nat]
      /\ split'.set = split.set /\ split'.ys = split.ys
      /\ pc = "split" => split'.next = split.next + 1
  <2>1. PICK w : w = [split EXCEPT !.next = @ + 1]
    OBVIOUS
  <2>2. /\ w \in [set : Nat, ys : [Index -> Byte] \cup {<<>>}, next : Nat]
        /\ w.set = split.set /\ w.ys = split.ys /\ w.next = split.next + 1
    BY <1>3, <2>1
  <2>3. split' = split \/ split' = w
    BY <1>0, <2>1
  <2>4. pc = "split" => split' = w
    BY <1>0, <2>1
  <2>5. QED
    BY <1>3, <2>2, <2>3, <2>4
<1>5. Ranges'
  BY <1>0, <1>1, <1>4, FaultIs DEF StoreInv, Ranges
<1>6. Origins'
  BY <1>0, FaultIs DEF StoreInv, Origins
<1>7. Chaining'
  BY <1>0 DEF Chaining
<1>8. Saving'
  BY <1>0 DEF Saving
<1>9. Splitting'
  <2> SUFFICES ASSUME pc' = "split" PROVE Splitting'
    BY DEF Splitting
  <2>1. pc = "split" /\ split.next # NShares
    BY <1>0
  <2>2. Holding /\ split.next \in Index /\ key.st = "whole" /\ key.secret = secret
        /\ key.pass \in Typed \cup {chain}
    BY <2>1 DEF StoreInv, Splitting
  <2>3. Holding'
    BY <1>0, <1>4, <2>2 DEF Holding
  <2>4. split'.next \in Index
    BY <1>4, <2>1, <2>2, SizesAre DEF Index
  <2>5. QED
    BY <1>0, <2>2, <2>3, <2>4 DEF Splitting
<1>10. Done'
  BY <1>0 DEF Done
<1>11. JoinExact'
  <2>1. pc = "split" => cmd.op = "split"
    BY DEF StoreInv, Splitting, Holding
  <2>2. pc \in {"pub_open", "pub_write"} => cmd.op = "keygen"
    BY DEF StoreInv, Saving
  <2>3. QED
    BY <1>0, <2>1, <2>2 DEF StoreInv, JoinExact
<1>12. QED
  BY <1>1, <1>2, <1>5, <1>6, <1>7, <1>8, <1>9, <1>10, <1>11 DEF StoreInv

LEMMA RotKeeps ==
    ASSUME StoreInv, Rot
    PROVE  StoreInv'
<1>0. /\ Fault /\ pc' = "idle"
      /\ UNCHANGED <<pub, chain, cmd, secret, pass, split, rc, made, saved, origin, unflushed>>
      /\ \/ \E i \in Index : shares' = [shares EXCEPT ![i].y = xor(@, 1)] /\ key' = key
         \/ key' = NoKey /\ shares' = shares
  BY DEF Rot, locals, history
<1>1. shares \in [Index -> ShareFile] /\ Labelled
  BY DEF StoreInv, Ranges
<1>2. shares' \in [Index -> ShareFile] /\ Labelled'
  <2>1. CASE shares' = shares
    BY <1>0, <1>1, <2>1 DEF Labelled
  <2>2. ASSUME NEW i \in Index, shares' = [shares EXCEPT ![i].y = xor(@, 1)]
        PROVE  shares' \in [Index -> ShareFile] /\ Labelled'
    <3>1. PICK f : f = shares[i]
      OBVIOUS
    <3>2. f \in ShareFile
      BY <1>1, <3>1
    <3>3. PICK b : b = xor(f.y, 1)
      OBVIOUS
    <3>4. b \in Byte
      <4>1. f.y \in Byte
        BY <3>2 DEF ShareFile
      <4>2. QED
        BY <3>3, <4>1, XorBytes, Units
    <3>5. PICK g : g = [f EXCEPT !.y = b]
      OBVIOUS
    <3>6. /\ g \in ShareFile
          /\ g.st = f.st /\ g.set = f.set /\ g.idx = f.idx /\ g.t = f.t /\ g.digest = f.digest
      BY <3>2, <3>4, <3>5 DEF ShareFile
    <3>7. shares' = [shares EXCEPT ![i] = g]
      BY <2>2, <3>1, <3>3, <3>5
    <3>8. shares' \in [Index -> ShareFile]
      BY <1>1, <3>6, <3>7
    <3>9. ASSUME NEW j \in Index
          PROVE  /\ shares'[j].st = shares[j].st /\ shares'[j].set = shares[j].set
                 /\ shares'[j].idx = shares[j].idx /\ shares'[j].t = shares[j].t
                 /\ shares'[j].digest = shares[j].digest
      <4>1. CASE j = i
        BY <1>1, <3>1, <3>6, <3>7, <4>1
      <4>2. CASE j # i
        BY <1>1, <3>7, <4>2
      <4>3. QED
        BY <4>1, <4>2
    <3>10. QED
      BY <1>0, <1>1, <3>8, <3>9 DEF Labelled
  <2>3. QED
    BY <1>0, <2>1, <2>2
<1>3. TypeOK'
  <2>1. \A i \in Index : shares'[i].st = "whole" => shares'[i].idx = i /\ shares'[i].set \in DOMAIN origin
    BY <1>0, <1>2 DEF Labelled
  <2>2. NoKey.st = "none"
    BY DEF NoKey
  <2>3. count'.random = count.random /\ count'.faults > 0
    BY <1>0, FaultIs
  <2>4. QED
    BY <1>0, <2>1, <2>2, <2>3 DEF StoreInv, TypeOK
<1>4. Ranges'
  BY <1>0, <1>2, FaultIs DEF StoreInv, Ranges
<1>5. Origins'
  BY <1>0, FaultIs DEF StoreInv, Origins
<1>6. Chaining' /\ Saving' /\ Splitting' /\ Done' /\ JoinExact'
  BY <1>0 DEF Chaining, Saving, Splitting, Done, JoinExact
<1>7. QED
  BY <1>2, <1>3, <1>4, <1>5, <1>6 DEF StoreInv

(* Commands.  A refused one changes nothing but what it returns.           *)
Counted == count' = [count EXCEPT !.commands = @ + 1]

LEMMA CountedIs ==
    ASSUME StoreInv, Counted
    PROVE  /\ count' \in [commands : Nat, faults : Nat, sets : Nat, random : Nat]
           /\ count'.faults = count.faults /\ count'.sets = count.sets
           /\ count'.random = count.random /\ Passes' = Passes
<1>1. count \in [commands : Nat, faults : Nat, sets : Nat, random : Nat]
  BY DEF StoreInv, Ranges
<1>2. /\ count' \in [commands : Nat, faults : Nat, sets : Nat, random : Nat]
      /\ count'.faults = count.faults /\ count'.sets = count.sets
      /\ count'.random = count.random
  BY <1>1 DEF Counted
<1>3. QED
  BY <1>2 DEF Passes

LEMMA RefusalKeeps ==
    ASSUME StoreInv, pc \in {"idle", "ret"}, Return("refused"), Counted,
           UNCHANGED <<files, secret, pass, split, history>>
    PROVE  StoreInv'
<1>0. /\ pc' = "ret" /\ rc' = "refused"
      /\ UNCHANGED <<key, pub, chain, shares, secret, pass, split, made, saved, origin, unflushed>>
  BY DEF Return, files, history
<1>1. pc # "save_write"
  OBVIOUS
<1>2. TypeOK'
  BY <1>0, <1>1, CountedIs DEF StoreInv, TypeOK
<1>3. Ranges'
  BY <1>0, CountedIs DEF StoreInv, Ranges
<1>4. Origins'
  BY <1>0, CountedIs DEF StoreInv, Origins
<1>5. Labelled'
  BY <1>0 DEF StoreInv, Labelled
<1>6. Chaining' /\ Saving' /\ Splitting' /\ Done' /\ JoinExact'
  BY <1>0 DEF Chaining, Saving, Splitting, Done, JoinExact
<1>7. QED
  BY <1>2, <1>3, <1>4, <1>5, <1>6 DEF StoreInv

(* keygen and join-key have a secret and turn to the passphrase.           *)
Creating(c, s) ==
    /\ Create(c, s) /\ cmd' = c /\ Counted /\ UNCHANGED <<files, saved, origin, unflushed>>
    /\ made \subseteq made' /\ made' \subseteq Secrets /\ s \in made'

LEMMA CreateKeeps ==
    ASSUME StoreInv, pc \in {"idle", "ret"}, NEW c \in Command, c.op \in {"keygen", "join"}, NEW s,
           Creating(c, s),
           c.op = "join" => LET set == shares[c.paths[1]].set
                            IN  /\ s = origin[set].secret
                                /\ \A k \in DOMAIN c.paths : shares[c.paths[k]].set = set
    PROVE  StoreInv'
<1>0. /\ secret' = s /\ s \in made' /\ cmd' = c
      /\ UNCHANGED <<key, pub, chain, shares, split, rc, saved, origin, unflushed>>
      /\ \/ c.keychain /\ pc' = "kc_delete" /\ pass' = pass
         \/ ~ c.keychain /\ pc' = "save_open" /\ pass' = c.typed
  BY DEF Creating, Create, files
<1>1. made \subseteq made' /\ made' \subseteq Secrets /\ Counted
  BY DEF Creating
<1>2. TypeOK'
  BY <1>0, <1>1, CountedIs DEF StoreInv, TypeOK
<1>3. Ranges'
  BY <1>0, <1>1, CountedIs DEF StoreInv, Ranges
<1>4. Origins'
  BY <1>0, <1>1, CountedIs DEF StoreInv, Origins
<1>5. Labelled'
  BY <1>0 DEF StoreInv, Labelled
<1>6. Chaining'
  BY <1>0 DEF Chaining
<1>7. Saving'
  <2> SUFFICES ASSUME pc' = "save_open" PROVE Saving'
    BY <1>0 DEF Saving
  <2>1. ~ c.keychain /\ pass' = c.typed
    BY <1>0
  <2>2. c.typed \in Typed
    BY CommandIs
  <2>3. pass' \in Passes'
    BY <2>1, <2>2 DEF Passes
  <2>4. NewPass(cmd)' = pass'
    BY <1>0, <2>1 DEF NewPass, OldPass
  <2>5. QED
    BY <1>0, <2>3, <2>4 DEF Saving
<1>8. Splitting' /\ Done'
  BY <1>0 DEF Splitting, Done
<1>9. JoinExact'
  BY <1>0 DEF JoinExact
<1>10. QED
  BY <1>2, <1>3, <1>4, <1>5, <1>6, <1>7, <1>8, <1>9 DEF StoreInv

LEMMA KeygenKeeps ==
    ASSUME StoreInv, pc \in {"idle", "ret"}, NEW c \in Command, cmd' = c, Keygen(c)
    PROVE  StoreInv'
<1>1. PICK s : s = Min(Secrets \ made)
  OBVIOUS
<1>2. c.op = "keygen" /\ Secrets # made /\ Create(c, s) /\ made' = made \cup {s} /\ Counted
      /\ UNCHANGED <<files, saved, origin, unflushed>>
  BY <1>1 DEF Keygen, Counted
<1>3. s \in Secrets
  <2>1. made \subseteq Secrets /\ Secrets \subseteq Nat
    BY SizesAre DEF StoreInv, Ranges, Byte
  <2>2. Secrets \ made # {} /\ Secrets \ made \subseteq Nat
    BY <1>2, <2>1
  <2>3. QED
    BY <1>1, <2>2, LeastByte
<1>4. Creating(c, s)
  BY <1>2, <1>3 DEF Creating, StoreInv, Ranges
<1>5. QED
  BY <1>2, <1>4, CreateKeeps

(* What sss_join_files takes for a key is the secret of the shares' set.   *)
LEMMA JoinMeans ==
    ASSUME StoreInv, NEW p \in Paths, JoinOk(ReadShares(p))
    PROVE  /\ Joined(ReadShares(p)) = origin[shares[p[1]].set].secret
           /\ \A k \in DOMAIN p : shares[p[k]].set = shares[p[1]].set
           /\ origin[shares[p[1]].set].secret \in made
<1>1. PICK n \in 2 .. Threshold : p \in [1 .. n -> Index]
  BY PathsAre
<1>2. n \in Nat /\ 1 \in 1 .. n /\ p[1] \in Index /\ DOMAIN p = 1 .. n
  BY <1>1, SizesAre
<1>3. PICK ss : ss = ReadShares(p)
  OBVIOUS
<1>4. DOMAIN ss = DOMAIN p /\ \A k \in DOMAIN p : ss[k] = shares[p[k]]
  BY <1>3 DEF ReadShares
<1>5. Belong(ss) /\ Joined(ss) = ss[1].digest
  BY <1>3 DEF JoinOk
<1>6. ss[1].st = "whole" /\ \A k \in DOMAIN ss : ss[k].set = ss[1].set
  BY <1>2, <1>4, <1>5 DEF Belong
<1>7. ss[1] = shares[p[1]]
  BY <1>2, <1>4
<1>8. shares[p[1]].set \in DOMAIN origin /\ ss[1].digest = origin[shares[p[1]].set].secret
  BY <1>2, <1>6, <1>7 DEF StoreInv, Labelled
<1>9. origin[shares[p[1]].set].secret \in made
  BY <1>8 DEF StoreInv, Origins
<1>10. QED
  BY <1>3, <1>4, <1>5, <1>6, <1>7, <1>8, <1>9

LEMMA JoinKeyKeeps ==
    ASSUME StoreInv, pc \in {"idle", "ret"}, NEW c \in Command, cmd' = c, JoinKey(c)
    PROVE  StoreInv'
<1>1. PICK ss, s : ss = ReadShares(c.paths) /\ s = Joined(ss)
  OBVIOUS
<1>2. c.op = "join" /\ Counted /\ UNCHANGED <<files, history>> /\ c.paths \in Paths
  BY CommandIs DEF JoinKey, Counted
<1>3. CASE JoinOk(ss)
  <2>1. Create(c, s)
    BY <1>1, <1>3 DEF JoinKey
  <2>2. /\ s = origin[shares[c.paths[1]].set].secret /\ s \in made
        /\ \A k \in DOMAIN c.paths : shares[c.paths[k]].set = shares[c.paths[1]].set
    BY <1>1, <1>2, <1>3, JoinMeans
  <2>3. Creating(c, s)
    BY <1>2, <2>1, <2>2 DEF Creating, history, StoreInv, Ranges
  <2>4. QED
    BY <1>2, <2>2, <2>3, CreateKeeps
<1>4. CASE ~ JoinOk(ss)
  <2>1. Return("refused") /\ UNCHANGED <<secret, pass, split>>
    BY <1>1, <1>4 DEF JoinKey
  <2>2. UNCHANGED <<files, secret, pass, split, history>>
    BY <1>2, <2>1
  <2>3. QED
    BY <1>2, <2>1, <2>2, RefusalKeeps
<1>5. QED
  BY <1>3, <1>4

LEMMA RekeyKeeps ==
    ASSUME StoreInv, pc \in {"idle", "ret"}, NEW c \in Command, cmd' = c, Rekey(c)
    PROVE  StoreInv'
<1>1. c.op = "rekey" /\ Counted /\ UNCHANGED <<files, history>> /\ c.new \in Typed
  BY CommandIs DEF Rekey, Counted
<1>2. CASE Loads(OldPass(c))
  <2>0. /\ secret' = key.secret /\ pass' = c.new /\ pc' = "save_open" /\ cmd' = c
        /\ UNCHANGED <<key, pub, chain, shares, split, rc, made, saved, origin, unflushed>>
    BY <1>1, <1>2 DEF Rekey, files, history
  <2>1. key.st = "whole" /\ key.secret \in made
    BY <1>2 DEF Loads, StoreInv, TypeOK
  <2>2. TypeOK'
    BY <1>1, <2>0, CountedIs DEF StoreInv, TypeOK
  <2>3. Ranges'
    BY <1>1, <2>0, CountedIs DEF StoreInv, Ranges
  <2>4. Origins'
    BY <1>1, <2>0, CountedIs DEF StoreInv, Origins
  <2>5. Labelled'
    BY <2>0 DEF StoreInv, Labelled
  <2>6. Chaining' /\ Splitting' /\ Done'
    BY <2>0 DEF Chaining, Splitting, Done
  <2>7. Saving'
    <3>1. pass' \in Passes' /\ NewPass(cmd)' = pass'
      BY <1>1, <2>0 DEF Passes, NewPass
    <3>2. QED
      BY <1>1, <2>0, <2>1, <3>1 DEF Saving
  <2>8. JoinExact'
    BY <1>1, <2>0 DEF JoinExact
  <2>9. QED
    BY <2>2, <2>3, <2>4, <2>5, <2>6, <2>7, <2>8 DEF StoreInv
<1>3. CASE ~ Loads(OldPass(c))
  <2>1. Return("refused") /\ UNCHANGED <<secret, pass, split>>
    BY <1>3 DEF Rekey
  <2>2. UNCHANGED <<files, secret, pass, split, history>>
    BY <1>1, <2>1
  <2>3. QED
    BY <1>1, <2>1, <2>2, RefusalKeeps
<1>4. QED
  BY <1>2, <1>3

(* A new share set is recorded, and no share of it is on disk yet.         *)
LEMMA NewSet ==
    ASSUME StoreInv, NEW ys \in [Index -> Byte], key.secret \in made, Split(key.secret, ys),
           origin' = Append(origin, [secret |-> key.secret, ys |-> ys])
    PROVE  /\ origin' \in Seq([secret : Byte, ys : [Index -> Byte]])
           /\ Len(origin') = count.sets + 1
           /\ DOMAIN origin \subseteq DOMAIN origin'
           /\ \A n \in DOMAIN origin : origin'[n] = origin[n]
           /\ count.sets + 1 \in DOMAIN origin' /\ count.sets + 1 \in Nat
           /\ origin'[count.sets + 1] = [secret |-> key.secret, ys |-> ys]
           /\ \A n \in DOMAIN origin' :
                 origin'[n].secret \in made /\ Split(origin'[n].secret, origin'[n].ys)
<1>1. PICK R, r : R = [secret : Byte, ys : [Index -> Byte]] /\ r = [secret |-> key.secret, ys |-> ys]
  OBVIOUS
<1>2. key.secret \in Byte
  BY SizesAre DEF StoreInv, Ranges
<1>3. r \in R /\ r.secret = key.secret /\ r.ys = ys
  BY <1>1, <1>2
<1>4. origin \in Seq(R) /\ count.sets \in Nat /\ Len(origin) = count.sets
  BY <1>1 DEF StoreInv, Ranges, Origins
<1>5. origin' = Append(origin, r)
  BY <1>1
<1>6. /\ origin' \in Seq(R) /\ Len(origin') = count.sets + 1
      /\ \A n \in 1 .. count.sets : origin'[n] = origin[n]
      /\ origin'[count.sets + 1] = r
  BY <1>3, <1>4, <1>5, AppendProperties
<1>7. DOMAIN origin = 1 .. count.sets /\ DOMAIN origin' = 1 .. count.sets + 1
  BY <1>4, <1>6, LenProperties
<1>8. ASSUME NEW n \in DOMAIN origin'
      PROVE  origin'[n].secret \in made /\ Split(origin'[n].secret, origin'[n].ys)
  <2>1. CASE n = count.sets + 1
    BY <1>3, <1>6, <2>1
  <2>2. CASE n \in DOMAIN origin
    <3>1. origin'[n] = origin[n]
      BY <1>6, <1>7, <2>2
    <3>2. QED
      BY <2>2, <3>1 DEF StoreInv, Origins
  <2>3. QED
    BY <1>4, <1>7, <2>1, <2>2
<1>9. /\ DOMAIN origin \subseteq DOMAIN origin' /\ count.sets + 1 \in DOMAIN origin'
      /\ count.sets + 1 \in Nat /\ \A n \in DOMAIN origin : origin'[n] = origin[n]
  BY <1>4, <1>6, <1>7
<1>10. QED
  BY <1>1, <1>6, <1>8, <1>9

LEMMA SplitKeyKeeps ==
    ASSUME StoreInv, pc \in {"idle", "ret"}, NEW c \in Command, cmd' = c, SplitKey(c)
    PROVE  StoreInv'
<1>1. c.op = "split" /\ UNCHANGED <<files, made, saved, unflushed>> /\ c.typed \in Typed
  BY CommandIs DEF SplitKey
<1>2. CASE Loads(OldPass(c))
  <2>1. PICK ys \in {[i \in Index |-> ShareAt(i, key.secret, co)] : co \in Polys} :
           /\ secret' = key.secret
           /\ split' = [set |-> count.sets + 1, ys |-> ys, next |-> 1]
           /\ origin' = Append(origin, [secret |-> key.secret, ys |-> ys])
           /\ count' = [count EXCEPT !.commands = @ + 1, !.sets = @ + 1]
           /\ pc' = "split"
           /\ UNCHANGED <<pass, rc>>
    BY <1>2 DEF SplitKey
  <2>2. PICK co \in Polys : ys = [i \in Index |-> ShareAt(i, key.secret, co)]
    OBVIOUS
  <2>3. /\ secret' = key.secret /\ split' = [set |-> count.sets + 1, ys |-> ys, next |-> 1]
        /\ origin' = Append(origin, [secret |-> key.secret, ys |-> ys])
        /\ count' = [count EXCEPT !.commands = @ + 1, !.sets = @ + 1]
        /\ pc' = "split" /\ cmd' = c
        /\ UNCHANGED <<key, pub, chain, shares, pass, rc, made, saved, unflushed>>
    BY <1>1, <2>1 DEF files
  <2>4. /\ key.st = "whole" /\ key.secret \in made /\ key.secret \in Byte
        /\ key.pass \in Typed \cup {chain}
    <3>1. key.st = "whole" /\ key.pass = OldPass(c)
      BY <1>2 DEF Loads
    <3>2. key.secret \in made /\ made \subseteq Byte
      BY <3>1, SizesAre DEF StoreInv, TypeOK, Ranges
    <3>3. QED
      BY <1>1, <3>1, <3>2 DEF OldPass
  <2>5. ys \in [Index -> Byte]
    BY <2>2, <2>4, ShareByte
  <2>6. Split(key.secret, ys)
    BY <2>2 DEF Split
  <2>7. /\ origin' \in Seq([secret : Byte, ys : [Index -> Byte]])
        /\ Len(origin') = count.sets + 1
        /\ DOMAIN origin \subseteq DOMAIN origin'
        /\ \A n \in DOMAIN origin : origin'[n] = origin[n]
        /\ count.sets + 1 \in DOMAIN origin' /\ count.sets + 1 \in Nat
        /\ origin'[count.sets + 1] = [secret |-> key.secret, ys |-> ys]
        /\ \A n \in DOMAIN origin' :
              origin'[n].secret \in made /\ Split(origin'[n].secret, origin'[n].ys)
    BY <2>3, <2>4, <2>5, <2>6, NewSet
  <2>8. /\ count' \in [commands : Nat, faults : Nat, sets : Nat, random : Nat]
        /\ count'.faults = count.faults /\ count'.sets = count.sets + 1
        /\ count'.random = count.random
    <3>1. count \in [commands : Nat, faults : Nat, sets : Nat, random : Nat]
      BY DEF StoreInv, Ranges
    <3>2. PICK a, b : a = count.commands + 1 /\ b = count.sets + 1
      OBVIOUS
    <3>3. a \in Nat /\ b \in Nat /\ count' = [count EXCEPT !.commands = a, !.sets = b]
      BY <2>3, <3>1, <3>2
    <3>4. /\ count' \in [commands : Nat, faults : Nat, sets : Nat, random : Nat]
          /\ count'.faults = count.faults /\ count'.sets = b /\ count'.random = count.random
      BY <3>1, <3>3
    <3>5. QED
      BY <3>2, <3>4
  <2>9. TypeOK'
    <3>1. \A i \in Index : shares[i].st = "whole" => shares[i].idx = i /\ shares[i].set \in DOMAIN origin'
      BY <2>7 DEF StoreInv, TypeOK
    <3>2. key.st # "torn"
      BY <2>4
    <3>3. QED
      BY <2>3, <2>8, <3>1, <3>2 DEF StoreInv, TypeOK
  <2>10. /\ split' \in [set : Nat, ys : [Index -> Byte] \cup {<<>>}, next : Nat]
         /\ split'.set = count.sets + 1 /\ split'.ys = ys /\ split'.next = 1
    BY <2>3, <2>5, <2>7
  <2>11. Ranges'
    BY <2>3, <2>7, <2>8, <2>10 DEF StoreInv, Ranges
  <2>12. Origins'
    BY <2>3, <2>7, <2>8 DEF Origins
  <2>13. Labelled'
    BY <2>3, <2>7 DEF StoreInv, Labelled
  <2>14. Chaining' /\ Saving' /\ Done'
    BY <2>3 DEF Chaining, Saving, Done
  <2>15. Splitting'
    <3>1. Holding'
      BY <1>1, <2>3, <2>7, <2>10 DEF Holding
    <3>2. 1 \in Index /\ \A i \in Index : ~ (i < 1)
      BY SizesAre DEF Index
    <3>3. QED
      BY <2>3, <2>4, <2>10, <3>1, <3>2 DEF Splitting
  <2>16. JoinExact'
    BY <1>1, <2>3 DEF JoinExact
  <2>17. QED
    BY <2>9, <2>11, <2>12, <2>13, <2>14, <2>15, <2>16 DEF StoreInv
<1>3. CASE ~ Loads(OldPass(c))
  <2>1. Return("refused") /\ Counted /\ UNCHANGED <<secret, pass, split, origin>>
    BY <1>3 DEF SplitKey, Counted
  <2>2. UNCHANGED <<files, secret, pass, split, history>>
    BY <1>1, <2>1 DEF history
  <2>3. QED
    BY <2>1, <2>2, RefusalKeeps
<1>4. QED
  BY <1>2, <1>3

LEMMA BeginKeeps ==
    ASSUME StoreInv, Begin
    PROVE  StoreInv'
<1>1. PICK c \in Command : cmd' = c /\ (Keygen(c) \/ JoinKey(c) \/ Rekey(c) \/ SplitKey(c))
  BY DEF Begin
<1>2. pc \in {"idle", "ret"}
  BY DEF Begin
<1>3. QED
  BY <1>1, <1>2, KeygenKeeps, JoinKeyKeeps, RekeyKeeps, SplitKeyKeeps

LEMMA StoreInvHolds == Spec => []StoreInv
<1>1. Init => StoreInv
  <2> SUFFICES ASSUME Init PROVE StoreInv
    OBVIOUS
  <2>1. TypeOK
    BY DEF Init, TypeOK, NoKey, NoPub, NoShare
  <2>2. Ranges
    <3>1. NoShare \in ShareFile
      BY Units DEF NoShare, ShareFile, Byte
    <3>2. NoSplit \in [set : Nat, ys : [Index -> Byte] \cup {<<>>}, next : Nat]
      BY DEF NoSplit
    <3>3. <<>> \in Seq([secret : Byte, ys : [Index -> Byte]])
      BY EmptySeq
    <3>4. QED
      BY <3>1, <3>2, <3>3 DEF Init, Ranges
  <2>3. Origins /\ Labelled
    BY DEF Init, Origins, Labelled, NoShare
  <2>4. Chaining /\ Saving /\ Splitting /\ Done /\ JoinExact
    BY DEF Init, Chaining, Saving, Splitting, Done, JoinExact
  <2>5. QED
    BY <2>1, <2>2, <2>3, <2>4 DEF StoreInv
<1>2. StoreInv /\ [Next]_vars => StoreInv'
  <2> SUFFICES ASSUME StoreInv, [Next]_vars PROVE StoreInv'
    OBVIOUS
  <2>1. CASE Next
    BY <2>1, BeginKeeps, KcDeleteKeeps, KcAddKeeps, SaveOpenKeeps, SaveWriteKeeps, PubOpenKeeps,
       PubWriteKeeps, ShareWriteKeeps, StepFailsKeeps, FlushLostKeeps, CrashKeeps, RotKeeps DEF Next
  <2>2. CASE UNCHANGED vars
    <3>1. UNCHANGED <<key, pub, chain, shares, pc, cmd, secret, pass, split, rc, count, made, saved,
                      origin, unflushed>>
      BY <2>2 DEF vars, files, locals, history
    <3>2. TypeOK' /\ Ranges' /\ Origins' /\ Labelled'
      BY <3>1 DEF StoreInv, TypeOK, Ranges, Origins, Labelled
    <3>3. Chaining' /\ Saving' /\ Splitting' /\ Done' /\ JoinExact'
      BY <3>1 DEF StoreInv, Chaining, Saving, Splitting, Done, JoinExact, Passes, NewPass, OldPass,
                  Holding, Written, Loads
    <3>4. QED
      BY <3>2, <3>3 DEF StoreInv
  <2>3. QED
    BY <2>1, <2>2
<1>3. QED
  BY <1>1, <1>2, PTL DEF Spec

(***************************************************************************)
(* What follows.                                                           *)
(***************************************************************************)
(* The files, the shares' labels and the pair of public and secret key are *)
(* as crypto_save_secret_key, crypto_save_public_key and                   *)
(* sss_split_to_files of src/src leave them, after any failure or crash.   *)
THEOREM KeyStoreTypeCorrect == Spec => []TypeOK
<1>1. StoreInv => TypeOK
  BY DEF StoreInv
<1>2. QED
  BY <1>1, StoreInvHolds, PTL

(* Whatever was split, for any threshold, number of shares and random      *)
(* coefficients, any threshold many shares of one set, as                  *)
(* sss_split_to_files wrote them, are joined by sss_join_files to the      *)
(* secret of that set.                                                     *)
THEOREM ThresholdRecovers == Spec => []AnyThresholdJoins
<1>1. StoreInv => AnyThresholdJoins
  <2> SUFFICES ASSUME StoreInv, NEW q \in Quorums, Together(q)
               PROVE  /\ JoinOk(ReadShares(q))
                      /\ shares[q[1]].digest = origin[shares[q[1]].set].secret
    BY DEF AnyThresholdJoins
  <2>1. QED
    BY JoinWorks DEF StoreInv
<1>2. QED
  BY <1>1, StoreInvHolds, PTL

(* A key that join-key takes from sss_join_files is the one the shares'    *)
(* set was split from.                                                     *)
THEOREM JoinIsExact == Spec => []JoinExact
<1>1. StoreInv => JoinExact
  BY DEF StoreInv
<1>2. QED
  BY <1>1, StoreInvHolds, PTL

(* What keygen, rekey, join-key and split-key of src/src/main.c report as  *)
(* done is on disk, under the passphrase the user has.                     *)
THEOREM SuccessIsUsable == Spec => []SuccessUsable
<1>1. StoreInv => SuccessUsable
  <2> SUFFICES ASSUME StoreInv, pc = "ret", rc = "ok", ~unflushed
               PROVE  /\ cmd.op \in {"keygen", "join"} => Loads(OldPass(cmd)) /\ key.secret = secret
                      /\ cmd.op = "rekey" => Loads(cmd.new) /\ key.secret = secret
                      /\ cmd.op = "keygen" => pub = PubOf(secret)
                      /\ cmd.op = "split" => \A q \in Quorums :
                            shares[q[1]].digest = secret /\ JoinOk(ReadShares(q))
    BY DEF SuccessUsable
  <2>1. /\ cmd.op \in {"keygen", "join"} => Loads(OldPass(cmd)) /\ key.secret = secret
        /\ cmd.op = "rekey" => Loads(cmd.new) /\ key.secret = secret
        /\ cmd.op = "keygen" => pub = PubOf(secret)
        /\ cmd.op = "split" => Holding /\ \A i \in Index : Written(i)
    BY DEF StoreInv, Done
  <2>2. ASSUME cmd.op = "split", NEW q \in Quorums
        PROVE  shares[q[1]].digest = secret /\ JoinOk(ReadShares(q))
    <3>1. Holding /\ \A i \in Index : Written(i)
      BY <2>1, <2>2
    <3>2. q \in [1 .. Threshold -> Index] /\ DOMAIN q = 1 .. Threshold /\ 1 \in 1 .. Threshold
      <4>1. q \in [1 .. Threshold -> Index]
        BY QuorumsAre
      <4>2. QED
        BY <4>1, SizesAre
    <3>3. ASSUME NEW k \in 1 .. Threshold
          PROVE  Sound(q[k]) /\ shares[q[k]].set = split.set
      <4>1. Written(q[k])
        BY <3>1, <3>2
      <4>2. QED
        BY <3>1, <4>1 DEF Written, Holding, Sound
    <3>4. Together(q)
      BY <3>2, <3>3 DEF Together
    <3>5. /\ JoinOk(ReadShares(q))
          /\ shares[q[1]].digest = origin[shares[q[1]].set].secret
      BY <3>4, JoinWorks DEF StoreInv
    <3>6. shares[q[1]].set = split.set
      BY <3>2, <3>3
    <3>7. QED
      BY <3>1, <3>5, <3>6 DEF Holding
  <2>3. QED
    BY <2>1, <2>2
<1>2. QED
  BY <1>1, StoreInvHolds, PTL

(* What is asked of a step that none of the named causes is behind.        *)
Kept == \A s \in Secrets : Recoverable(s) => Recoverable(s)' \/ (pc = "split" /\ s # secret)

LEMMA StillRecoverable ==
    ASSUME key' = key \/ key.st # "whole", chain' = chain \/ (chain = NoPass /\ key.pass # NoPass),
           shares' = shares, origin' = origin
    PROVE  Kept
<1> SUFFICES ASSUME NEW s \in Secrets, Recoverable(s) PROVE Recoverable(s)'
  BY DEF Kept
<1>1. CASE SharesGive(s)
  <2>1. SharesGive(s)'
    BY <1>1 DEF SharesGive, Together, Sound
  <2>2. QED
    BY <2>1 DEF Recoverable
<1>2. CASE key.st = "whole" /\ key.secret = s /\ key.pass \in Typed \cup {chain}
  BY <1>2 DEF Recoverable
<1>3. QED
  BY <1>1, <1>2 DEF Recoverable

LEMMA StepKeeps ==
    ASSUME StoreInv, [Next]_vars, ~ Explained
    PROVE  Kept
<1>0. pc \in {"kc_add", "save_open", "save_write", "pub_open", "pub_write", "split"}
      /\ ~ (pc = "save_open" /\ cmd.yes)
  BY DEF StoreInv, TypeOK, Explained
<1>1. CASE pc = "split"
  <2>1. key.st = "whole" /\ key.secret = secret /\ key.pass \in Typed \cup {chain}
    BY <1>1 DEF StoreInv, Splitting
  <2>2. key' = key /\ chain' = chain
    BY <1>1 DEF Next, Begin, KcDelete, KcAdd, SaveOpen, SaveWrite, PubOpen, PubWrite, ShareWrite,
                StepFails, FlushLost, Crash, Rot, vars, files
  <2>3. ASSUME NEW s \in Secrets, s = secret PROVE Recoverable(s)'
    BY <2>1, <2>2, <2>3 DEF Recoverable
  <2>4. QED
    BY <1>1, <2>3 DEF Kept
<1>2. CASE pc = "kc_add"
  <2>1. chain = NoPass
    BY <1>2 DEF StoreInv, Chaining
  <2>2. key' = key /\ shares' = shares /\ origin' = origin
    BY <1>2 DEF Next, Begin, KcDelete, KcAdd, SaveOpen, SaveWrite, PubOpen, PubWrite, ShareWrite,
                StepFails, FlushLost, Crash, Rot, vars, files, history
  <2>3. key.st = "whole" => key.pass # NoPass
    BY DEF StoreInv, TypeOK, Typed, Type, Random, NoPass
  <2>4. CASE key.st = "whole"
    BY <2>1, <2>2, <2>3, <2>4, StillRecoverable
  <2>5. CASE key.st # "whole"
    <3> SUFFICES ASSUME NEW s \in Secrets, Recoverable(s) PROVE Recoverable(s)'
      BY DEF Kept
    <3>1. SharesGive(s)
      BY <2>5 DEF Recoverable
    <3>2. SharesGive(s)'
      BY <2>2, <3>1 DEF SharesGive, Together, Sound
    <3>3. QED
      BY <3>2 DEF Recoverable
  <2>6. QED
    BY <2>4, <2>5
<1>3. CASE pc = "save_open" /\ ~ cmd.yes
  <2>1. key' = key \/ key.st # "whole"
    BY <1>3 DEF Next, Begin, KcDelete, KcAdd, SaveOpen, ShouldWrite, SaveWrite, PubOpen, PubWrite,
                ShareWrite, StepFails, FlushLost, Crash, Rot, vars, files
  <2>2. chain' = chain /\ shares' = shares /\ origin' = origin
    BY <1>3 DEF Next, Begin, KcDelete, KcAdd, SaveOpen, SaveWrite, PubOpen, PubWrite, ShareWrite,
                StepFails, FlushLost, Crash, Rot, vars, files, history
  <2>3. QED
    BY <2>1, <2>2, StillRecoverable
<1>4. CASE pc = "save_write"
  <2>1. key.st # "whole"
    BY <1>4 DEF StoreInv, Saving
  <2>2. chain' = chain /\ shares' = shares /\ origin' = origin
    BY <1>4 DEF Next, Begin, KcDelete, KcAdd, SaveOpen, SaveWrite, PubOpen, PubWrite, ShareWrite,
                StepFails, FlushLost, Crash, Rot, vars, files, history
  <2>3. QED
    BY <2>1, <2>2, StillRecoverable
<1>5. CASE pc \in {"pub_open", "pub_write"}
  <2>1. key' = key /\ chain' = chain /\ shares' = shares /\ origin' = origin
    BY <1>5 DEF Next, Begin, KcDelete, KcAdd, SaveOpen, SaveWrite, PubOpen, PubWrite, ShareWrite,
                StepFails, FlushLost, Crash, Rot, vars, files, history
  <2>2. QED
    BY <2>1, StillRecoverable
<1>6. QED
  BY <1>0, <1>1, <1>2, <1>3, <1>4, <1>5

(* No failed write, lost flush, refusal or crash of a command of           *)
(* src/src/main.c takes the last way to a secret away: only a replaced key *)
(* file, a replaced key chain entry, the shares of another secret written  *)
(* over, and rot do.                                                       *)
THEOREM LossIsExplained == Spec => LossExplained
<1>1. StoreInv /\ [Next]_vars => [Explained \/ Kept]_vars
  BY StepKeeps
<1>2. QED
  BY <1>1, StoreInvHolds, PTL DEF Spec, LossExplained, Kept
==============================================================================
