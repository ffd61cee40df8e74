---------------------------- MODULE RcMemory_proofs ----------------------------
(***************************************************************************
 What is proved of the conditions of an achievement (RcMemory), for every chain of
 conditions and every sequence of memories: the left operand evaluates to the sum that is
 written, the verdict is that of the comparison that is written, and a Prior reads the
 last other value of its part of the memory.

 The proof follows the code.  The parser's part says what it makes of a chain, whatever
 the references it shares: Made.  The frame's part says that every reference holds what
 it reads: Image, once of the present values and the memory, once of the deltas and the
 memory before.  Then the sum that the parser carries along the chain is the one that is
 written: SumHeld.
 ***************************************************************************)
EXTENDS RcMemory, FiniteSetTheorems, WellFoundedInduction, TLAPS

(***************************************************************************
 Recursion over the numbers up to n.
 ***************************************************************************)
(* Induction up to n, for a property given as a set. *)
LEMMA UpTo ==
    ASSUME NEW n \in Nat, NEW P, 0 \in P, \A k \in 1..n : k - 1 \in P => k \in P
    PROVE  \A k \in 0..n : k \in P
<1> DEFINE R == OpToRel(<, Nat)
           T == {k \in 0..n : k \notin P}
<1>1. IsWellFoundedOn(R, Nat)
  BY NatLessThanWellFounded
<1>2. \A x, y \in Nat : x < y => <<x, y>> \in R
  BY DEF OpToRel
<1> HIDE DEF R
<1>3. CASE T = {}
  BY <1>3
<1>4. CASE T # {}
  <2>1. T \subseteq Nat
    OBVIOUS
  <2>2. PICK x \in T : \A y \in T : ~ (<<y, x>> \in R)
    BY <1>1, <1>4, <2>1, WFMin
  <2>3. x \in 1..n /\ x - 1 \in 0..n /\ x - 1 < x
    OBVIOUS
  <2>4. x - 1 \in T
    BY <2>3
  <2>5. <<x - 1, x>> \in R
    BY <1>2, <2>3
  <2>6. QED
    BY <2>2, <2>4, <2>5
<1>5. QED
  BY <1>3, <1>4

(* A recursion over 0..n has a solution, and every solution stays in S. *)
Solves(f, n, first, step) ==
    f = [k \in 0..n |-> IF k = 0 THEN first ELSE step[k][f[k - 1]]]

LEMMA RecursionExists ==
    ASSUME NEW S, NEW n \in Nat, NEW first \in S, NEW step \in [1..n -> [S -> S]]
    PROVE  \E f \in [0..n -> S] : Solves(f, n, first, step)
<1> DEFINE P == {m \in 0..n : \E f \in [0..m -> S] : Solves(f, m, first, step)}
<1>1. 0 \in P
  <2> DEFINE f == [k \in 0..0 |-> first]
  <2>1. f \in [0..0 -> S]
    OBVIOUS
  <2>2. Solves(f, 0, first, step)
    BY DEF Solves
  <2>3. QED
    BY <2>1, <2>2
<1>2. ASSUME NEW m \in 1..n, m - 1 \in P
      PROVE  m \in P
  <2>1. PICK f \in [0..(m - 1) -> S] : Solves(f, m - 1, first, step)
    BY <1>2
  <2> DEFINE g == [k \in 0..m |-> IF k = m THEN step[m][f[m - 1]] ELSE f[k]]
  <2>2. m - 1 \in 0..(m - 1) /\ m \in Nat /\ m # 0
    OBVIOUS
  <2>3. step[m][f[m - 1]] \in S
    BY <2>1, <2>2
  <2>4. \A k \in 0..m : k # m => k \in 0..(m - 1)
    OBVIOUS
  <2>5. g \in [0..m -> S]
    BY <2>1, <2>3, <2>4
  <2>6. ASSUME NEW k \in 0..m
        PROVE  g[k] = IF k = 0 THEN first ELSE step[k][g[k - 1]]
    <3>1. CASE k = m
      BY <2>2, <3>1
    <3>2. CASE k # m
      <4>1. k \in 0..(m - 1)
        BY <3>2
      <4>2. f[k] = IF k = 0 THEN first ELSE step[k][f[k - 1]]
        BY <2>1, <4>1 DEF Solves
      <4>3. k # 0 => k - 1 \in 0..m /\ k - 1 # m
        BY <4>1
      <4>4. QED
        BY <3>2, <4>2, <4>3
    <3>3. QED
      BY <3>1, <3>2
  <2>7. Solves(g, m, first, step)
    <3> HIDE DEF g
    <3>1. g = [k \in 0..m |-> g[k]]
      BY <2>5
    <3>2. QED
      BY <2>6, <3>1 DEF Solves
  <2>8. QED
    BY <2>5, <2>7
<1>3. n \in P
  <2> HIDE DEF P
  <2>1. \A k \in 0..n : k \in P
    BY <1>1, <1>2, UpTo
  <2>2. QED
    BY <2>1
<1>4. QED
  BY <1>3

(* Whatever a recursion starts in and each of its steps stays in. *)
LEMMA RecursionIn ==
    ASSUME NEW S, NEW n \in Nat, NEW f, f[0] \in S,
           \A k \in 1..n : f[k - 1] \in S => f[k] \in S
    PROVE  \A k \in 0..n : f[k] \in S
<1> DEFINE P == {k \in 0..n : f[k] \in S}
<1>1. 0 \in P
  OBVIOUS
<1>2. \A k \in 1..n : k - 1 \in P => k \in P
  OBVIOUS
<1> HIDE DEF P
<1>3. \A k \in 0..n : k \in P
  BY <1>1, <1>2, UpTo
<1>4. QED
  BY <1>3 DEF P

(***************************************************************************
 Numbers.
 ***************************************************************************)
(* Nibbles, bytes and words. *)
LEMMA Widths ==
    /\ Nibble \in Nat /\ Byte \in Nat /\ Word \in Nat
    /\ Nibble >= 2 /\ Byte >= 4 /\ Word >= 16
    /\ Nibble < Byte /\ Byte < Word /\ Byte >= 2 * Nibble /\ Word >= 4 * Byte
    /\ Byte = Nibble * Nibble /\ Word = Byte * Byte
<1>0. Nibble \in Nat /\ Nibble >= 2
  BY BitsAssumption
<1>1. Byte = Nibble * Nibble /\ Word = Byte * Byte
  BY DEF Byte, Word
<1>2. Byte \in Nat /\ Byte >= 2 * Nibble
  BY <1>0, <1>1
<1>3. Byte >= 4 /\ Nibble < Byte
  BY <1>2, <1>0
<1>4. Word \in Nat /\ Word >= 4 * Byte
  BY <1>1, <1>2, <1>3
<1>5. QED
  BY <1>0, <1>1, <1>2, <1>3, <1>4

(* Division, with a remainder that is one only. *)
LEMMA DivMod ==
    ASSUME NEW x \in Int, NEW w \in Nat, w > 0
    PROVE  /\ x \div w \in Int /\ x % w \in 0..(w - 1)
           /\ x = (x \div w) * w + (x % w)
OBVIOUS

(* A number has one quotient and one remainder ... *)
LEMMA OneRemainder ==
    ASSUME NEW w \in Nat, w > 0, NEW q \in Int, NEW p \in Int,
           NEW r \in 0..(w - 1), NEW s \in 0..(w - 1), q * w + r = p * w + s
    PROVE  q = p /\ r = s
<1>1. (q - p) * w = s - r
  OBVIOUS
<1>2. q - p \in Int /\ s - r < w /\ s - r > -w
  OBVIOUS
<1>3. CASE q - p >= 1
  <2>1. (q - p) * w >= w
    BY <1>2, <1>3
  <2>2. QED
    BY <1>1, <1>2, <2>1
<1>4. CASE q - p <= -1
  <2>1. (q - p) * w <= -w
    BY <1>2, <1>4
  <2>2. QED
    BY <1>1, <1>2, <2>1
<1>5. CASE q - p = 0
  BY <1>1, <1>5
<1>6. QED
  BY <1>2, <1>3, <1>4, <1>5

(* ... so that a remainder that fits is the one. *)
LEMMA Remainder ==
    ASSUME NEW w \in Nat, w > 0, NEW q \in Int, NEW r \in 0..(w - 1), NEW x \in Int, x = q * w + r
    PROVE  x % w = r /\ x \div w = q
<1>1. x \div w \in Int /\ x % w \in 0..(w - 1) /\ x = (x \div w) * w + (x % w)
  BY DivMod
<1>2. QED
  BY <1>1, OneRemainder

(* A remainder taken early is the remainder taken late. *)
LEMMA EarlyRemainder ==
    ASSUME NEW w \in Nat, w > 0, NEW x \in Int, NEW y \in Int
    PROVE  /\ ((x % w) + y) % w = (x + y) % w
           /\ (y + (x % w)) % w = (x + y) % w
           /\ (y - (x % w)) % w = (y - x) % w
<1>1. PICK q \in Int, r \in 0..(w - 1) : x = q * w + r /\ r = x % w
  BY DivMod
<1>2. PICK p \in Int, s \in 0..(w - 1) : r + y = p * w + s
  <2>1. r + y \in Int
    BY <1>1
  <2>2. QED
    BY <2>1, DivMod
<1>3. PICK p2 \in Int, s2 \in 0..(w - 1) : y - r = p2 * w + s2
  <2>1. y - r \in Int
    BY <1>1
  <2>2. QED
    BY <2>1, DivMod
<1>4. (r + y) % w = s /\ (y - r) % w = s2
  <2>1. r + y \in Int /\ y - r \in Int
    BY <1>1
  <2>2. QED
    BY <1>2, <1>3, <2>1, Remainder
<1>9. \A v, z \in Int : v = z * w + s => v % w = s
  BY Remainder
<1>5. (x + y) % w = s
  <2>1. x + y \in Int /\ q + p \in Int /\ q * w \in Int /\ p * w \in Int
    OBVIOUS
  <2>2. (q + p) * w = q * w + p * w
    OBVIOUS
  <2>3. x + y = (q * w + p * w) + s
    <3>1. PICK a \in Int, b \in Int : a = q * w /\ b = p * w
      BY <2>1
    <3>2. x = a + r /\ r + y = b + s /\ r \in Int /\ s \in Int
      BY <1>1, <1>2, <3>1
    <3>3. x + y = (a + b) + s
      BY <3>2
    <3>4. QED
      BY <3>1, <3>3
  <2>4. x + y = (q + p) * w + s
    BY <2>2, <2>3
  <2>5. PICK z \in Int, v \in Int : z = q + p /\ v = x + y /\ v = z * w + s
    BY <2>1, <2>4
  <2>6. v % w = s
    BY <1>9, <2>5
  <2>7. QED
    BY <2>5, <2>6
<1>6. (y - x) % w = s2
  <2>1. y - x \in Int /\ p2 - q \in Int
    OBVIOUS
  <2>2. y - x = (p2 - q) * w + s2
    BY <1>1, <1>3
  <2>3. QED
    BY <2>1, <2>2, Remainder
<1>7. r + y = y + r
  BY <1>1
<1>8. QED
  BY <1>1, <1>4, <1>5, <1>6, <1>7

(* Memory holds bytes. *)
Sound(m) == \A a \in DOMAIN m : m[a] \in Bytes

(* The mask of a size is a number. *)
LEMMA MaskNumber ==
    ASSUME NEW size \in Sizes
    PROVE  Mask(size) \in Numbers
<1>1. (Nibble - 1) * Nibble = Byte - Nibble
  BY Widths
<1>2. QED
  BY <1>1, Widths DEF Mask, Sizes, Numbers

(* What is read from the memory is a number. *)
LEMMA PeekNumber ==
    ASSUME NEW m, Sound(m), NEW a, NEW size \in Sizes
    PROVE  Peek(m, a, size) \in Numbers
<1>1. \A x : ByteAt(m, x) \in Bytes
  <2>1. 0 \in Bytes
    BY Widths DEF Bytes
  <2>2. QED
    BY <2>1 DEF ByteAt, Sound
<1> DEFINE fetched == IF SharedSize(size) = "8" THEN ByteAt(m, a)
                      ELSE ByteAt(m, a) + Byte * ByteAt(m, (a + 1) % Word)
<1>2. fetched \in Numbers
  <2>1. CASE SharedSize(size) = "8"
    <3>1. ByteAt(m, a) \in 0..(Byte - 1)
      BY <1>1 DEF Bytes
    <3>2. fetched \in 0..(Byte - 1)
      BY <2>1, <3>1
    <3> HIDE DEF fetched
    <3>3. QED
      BY <3>2, Widths DEF Numbers
  <2>2. CASE SharedSize(size) # "8"
    <3>1. PICK x \in 0..(Byte - 1), y \in 0..(Byte - 1) : x = ByteAt(m, a)
              /\ y = ByteAt(m, (a + 1) % Word)
      BY <1>1 DEF Bytes
    <3>2. fetched = x + Byte * y
      BY <2>2, <3>1
    <3> HIDE DEF fetched
    <3>3. PICK z \in Int : z = Byte * y
      BY Widths
    <3>4. z >= 0 /\ z <= Byte * Byte - Byte
      <4>1. Byte * y <= Byte * (Byte - 1) /\ Byte * y >= 0
        BY Widths
      <4>2. Byte * (Byte - 1) = Byte * Byte - Byte
        BY Widths
      <4>3. QED
        BY <3>3, <4>1, <4>2
    <3>5. QED
      BY <3>2, <3>3, <3>4, Widths DEF Numbers
  <2>3. QED
    BY <2>1, <2>2
<1>3. Peek(m, a, size) = BitAnd(fetched, Mask(size))
  BY DEF Peek
<1> HIDE DEF fetched
<1>4. QED
  BY <1>2, <1>3, MaskNumber, MasksAssumption

(* The parts of a number that the sizes keep. *)
LEMMA TransformNumber ==
    ASSUME NEW n \in Numbers, NEW size \in Sizes
    PROVE  /\ Transform(n, size) \in Numbers
           /\ size = "8" => Transform(n, size) \in 0..(Byte - 1)
           /\ size \in {"LOW", "HIGH"} => Transform(n, size) \in 0..(Nibble - 1)
<1>0. n \in Nat /\ n < Word
  BY Widths DEF Numbers
<1>1. CASE size = "8"
  <2>1. n % Byte \in 0..(Byte - 1)
    BY <1>0, Widths, DivMod
  <2>2. Transform(n, size) = n % Byte
    BY <1>1 DEF Transform
  <2>3. QED
    BY <1>1, <2>1, <2>2, Widths DEF Numbers
<1>2. CASE size = "32"
  BY <1>2 DEF Transform
<1>3. CASE size = "32BE"
  <2>1. PICK q \in Int, r \in 0..(Byte - 1) : q = n \div Byte /\ r = n % Byte /\ n = q * Byte + r
    BY <1>0, Widths, DivMod
  <2>2. q >= 0
    <3>1. SUFFICES ASSUME q <= -1
                   PROVE  FALSE
      BY <2>1
    <3>2. q * Byte <= (-1) * Byte
      BY <2>1, <3>1, Widths
    <3>3. QED
      BY <1>0, <2>1, <3>2, Widths
  <2>3. q <= Byte - 1
    <3>1. SUFFICES ASSUME q >= Byte
                   PROVE  FALSE
      BY <2>1, Widths
    <3>2. q * Byte >= Byte * Byte
      BY <2>1, <3>1, Widths
    <3>3. QED
      BY <1>0, <2>1, <3>2, Widths
  <2>4. Transform(n, size) = (r * Byte) + q
    BY <1>3, <2>1 DEF Transform
  <2>5. r * Byte >= 0 /\ r * Byte <= (Byte - 1) * Byte /\ r * Byte \in Int
    BY <2>1, Widths
  <2>6. (Byte - 1) * Byte = Byte * Byte - Byte
    BY Widths
  <2>7. PICK z \in Int : z = r * Byte
    BY <2>5
  <2>8. z + q \in Numbers
    BY <2>1, <2>2, <2>3, <2>5, <2>6, <2>7, Widths DEF Numbers
  <2>9. QED
    BY <1>3, <2>4, <2>7, <2>8
<1>4. CASE size \in {"LOW", "HIGH"}
  <2>1. n % Nibble \in 0..(Nibble - 1)
    BY <1>0, Widths, DivMod
  <2>2. n \div Nibble \in Int
    BY <1>0, Widths, DivMod
  <2>3. (n \div Nibble) % Nibble \in 0..(Nibble - 1)
    BY <2>2, Widths, DivMod
  <2>4. Transform(n, size) \in {n % Nibble, (n \div Nibble) % Nibble}
    BY <1>4 DEF Transform
  <2>5. QED
    BY <1>4, <2>1, <2>3, <2>4, Widths DEF Numbers
<1>5. CASE size = "BIT0"
  <2>1. n % 2 \in 0..1
    BY <1>0
  <2>2. QED
    BY <1>5, <2>1, Widths DEF Transform, Numbers
<1>6. CASE size = "BITCOUNT"
  <2> DEFINE K == 0..(2 * NibbleBits - 1)
             T == {k \in K : BitAt(n, k) = 1}
  <2>0. 2 * NibbleBits \in Nat /\ 2 * NibbleBits - 1 \in Int /\ 2 * NibbleBits < Word
    BY BitsAssumption
  <2>1. IsFiniteSet(K) /\ Cardinality(K) = 2 * NibbleBits
    <3>1. 0 \in Int /\ 0 <= 2 * NibbleBits - 1
      BY BitsAssumption
    <3>2. (2 * NibbleBits - 1) - 0 + 1 = 2 * NibbleBits
      BY <2>0
    <3>3. QED
      BY <2>0, <3>1, <3>2, FS_Interval
  <2>2. T \subseteq K
    OBVIOUS
  <2> HIDE DEF K
  <2>3. IsFiniteSet(T) /\ Cardinality(T) <= Cardinality(K)
    BY <2>1, <2>2, FS_Subset
  <2>4. Cardinality(T) \in Nat
    BY <2>3, FS_CardinalityType
  <2>5. Transform(n, size) = Cardinality(T)
    BY <1>6 DEF Transform, K
  <2> HIDE DEF T
  <2>6. QED
    BY <1>6, <2>0, <2>1, <2>3, <2>4, <2>5, Widths DEF Numbers
<1>7. QED
  BY <1>1, <1>2, <1>3, <1>4, <1>5, <1>6 DEF Sizes

(* What an operand decodes to. *)
LEMMA DecodedNumber ==
    ASSUME NEW x \in Numbers, NEW size \in Sizes, NEW type
    PROVE  Decoded(Transform(x, size), type, size) \in Numbers
<1>1. PICK n : n = Transform(x, size)
  OBVIOUS
<1>2. /\ n \in Numbers
      /\ size = "8" => n \in 0..(Byte - 1)
      /\ size \in {"LOW", "HIGH"} => n \in 0..(Nibble - 1)
  BY <1>1, TransformNumber
<1>3. n \in Nat
  BY <1>2, Widths DEF Numbers
<1>4. \A place \in Nat \ {0} : Digit(n, place) \in 0..(Nibble - 1)
  <2>1. TAKE place \in Nat \ {0}
  <2>2. n \div place \in Int
    BY <1>3, DivMod
  <2>3. QED
    BY <2>2, Widths, DivMod DEF Digit
<1>5. CASE type = "BCD" /\ size = "8"
  <2>1. PICK c \in 0..(Nibble - 1), d \in 0..(Nibble - 1) : c = Digit(n, Nibble) /\ d = Digit(n, 1)
    BY <1>4, Widths
  <2>2. Decoded(n, type, size) = 10 * c + d
    BY <1>5, <2>1 DEF Decoded
  <2>3. 11 * (Nibble - 1) < Word
    <3>1. CASE Nibble = 2
      BY <3>1, Widths
    <3>2. CASE Nibble = 3
      BY <3>2, Widths
    <3>3. CASE Nibble >= 4
      <4>1. Byte >= 4 * Nibble
        BY <3>3, Widths
      <4>2. QED
        BY <4>1, Widths
    <3>4. QED
      BY <3>1, <3>2, <3>3, Widths
  <2>4. QED
    BY <1>1, <2>1, <2>2, <2>3, Widths DEF Numbers
<1>6. CASE type = "BCD" /\ size \in {"32", "32BE"}
  <2>1. PICK d \in Int :
          d = 1000 * Digit(n, Byte * Nibble) + 100 * Digit(n, Byte)
                + 10 * Digit(n, Nibble) + Digit(n, 1)
    <3>1. Byte * Nibble \in Nat \ {0}
      BY Widths
    <3>2. \A place \in {Byte * Nibble, Byte, Nibble, 1} : Digit(n, place) \in Int
      BY <1>4, <3>1, Widths
    <3>3. QED
      BY <3>2
  <2>2. Decoded(n, type, size) = d % Word
    BY <1>6, <2>1 DEF Decoded
  <2>3. QED
    BY <1>1, <2>1, <2>2, Widths, DivMod DEF Numbers
<1>7. CASE type = "Inverted" /\ size \in {"LOW", "HIGH"}
  BY <1>1, <1>2, <1>7, Widths DEF Decoded, Numbers
<1>8. CASE type = "Inverted" /\ size = "8"
  BY <1>1, <1>2, <1>8, Widths DEF Decoded, Numbers
<1>9. CASE type = "Inverted" /\ size \in {"32", "32BE"}
  BY <1>1, <1>2, <1>9, Widths DEF Decoded, Numbers
<1>10. CASE type = "Inverted" /\ size \in {"BIT0", "BITCOUNT"}
  <2>1. 1 \in Numbers
    BY Widths DEF Numbers
  <2>2. BitXor(n, 1) \in Numbers
    BY <1>2, <2>1, MasksAssumption
  <2>3. QED
    BY <1>1, <1>10, <2>2 DEF Decoded
<1>11. CASE ~ \/ type = "BCD" /\ size \in {"8", "32", "32BE"}
              \/ type = "Inverted"
  <2>1. Decoded(n, type, size) = n
    BY <1>11 DEF Decoded
  <2>2. QED
    BY <1>1, <1>2, <2>1
<1>12. CASE type = "BCD" /\ size \notin {"8", "32", "32BE"}
  <2>1. Decoded(n, type, size) = n
    BY <1>12 DEF Decoded
  <2>2. QED
    BY <1>1, <1>2, <2>1
<1>13. QED
  BY <1>5, <1>6, <1>7, <1>8, <1>9, <1>10, <1>11, <1>12 DEF Sizes

(* Arithmetic on numbers stays among them. *)
LEMMA CombineNumber ==
    ASSUME NEW a \in Numbers, NEW b \in Numbers, NEW oper \in Arithmetic
    PROVE  Combine(a, oper, b) \in Numbers
<1>0. a \in Nat /\ b \in Nat /\ a < Word /\ 0 \in Numbers
  BY Widths DEF Numbers
<1>1. CASE oper \in {"Add", "Sub", "Mult"}
  <2>1. a + b \in Int /\ a - b \in Int /\ a * b \in Int
    BY <1>0
  <2>2. \A x \in Int : x % Word \in Numbers
    BY Widths, DivMod DEF Numbers
  <2>3. Combine(a, oper, b) \in {(a + b) % Word, (a - b) % Word, (a * b) % Word}
    BY <1>1 DEF Combine
  <2>4. QED
    BY <2>1, <2>2, <2>3
<1>2. CASE oper = "Div"
  <2>1. CASE b = 0
    BY <1>0, <1>2, <2>1 DEF Combine
  <2>2. CASE b # 0
    <3>1. PICK q \in Int, r \in 0..(b - 1) : q = a \div b /\ a = q * b + r
      BY <1>0, <2>2, DivMod
    <3>2. q >= 0
      <4>1. SUFFICES ASSUME q <= -1
                     PROVE  FALSE
        BY <3>1
      <4>2. q * b <= (-1) * b
        BY <1>0, <3>1, <4>1
      <4>3. QED
        BY <1>0, <3>1, <4>2
    <3>3. q <= a
      <4>1. q * b >= q
        BY <1>0, <2>2, <3>2
      <4>2. QED
        BY <1>0, <3>1, <4>1
    <3>4. Combine(a, oper, b) = q
      BY <1>2, <2>2, <3>1 DEF Combine
    <3>5. QED
      BY <1>0, <3>2, <3>3, <3>4, Widths DEF Numbers
  <2>3. QED
    BY <2>1, <2>2
<1>3. CASE oper = "Mod"
  <2>1. CASE b = 0
    BY <1>0, <1>3, <2>1 DEF Combine
  <2>2. CASE b # 0
    <3>1. a % b \in 0..(b - 1)
      BY <1>0, <2>2, DivMod
    <3>2. Combine(a, oper, b) = a % b
      BY <1>3, <2>2 DEF Combine
    <3>3. b <= Word - 1 /\ b \in Nat
      BY Widths DEF Numbers
    <3>4. QED
      BY <3>1, <3>2, <3>3, Widths DEF Numbers
  <2>3. QED
    BY <2>1, <2>2
<1>4. CASE oper \in {"And", "Xor"}
  BY <1>4, MasksAssumption DEF Combine
<1>5. QED
  BY <1>1, <1>2, <1>3, <1>4 DEF Arithmetic

(* Operands as they are written. *)
Operands == MemoryOperands \cup ConstantOperands

(* What is written reads as a number ... *)
LEMMA ReadNumber ==
    ASSUME NEW m, Sound(m), NEW o \in Operands, NEW base
    PROVE  Read(o, base, m) \in Numbers
<1>1. CASE o.type = "Const"
  <2>1. o.num \in Numbers
    BY <1>1 DEF Operands, MemoryOperands, ConstantOperands, Types
  <2>2. QED
    BY <1>1, <2>1 DEF Read
<1>2. CASE o.type # "Const"
  <2>1. o.size \in Sizes /\ SharedSize(o.size) \in Sizes
    BY <1>2 DEF Operands, MemoryOperands, ConstantOperands, Sizes, SharedSize
  <2>2. Peek(m, (base + o.addr) % Word, SharedSize(o.size)) \in Numbers
    BY <2>1, PeekNumber
  <2>3. QED
    BY <1>2, <2>1, <2>2, DecodedNumber DEF Read, Now
<1>3. QED
  BY <1>1, <1>2

(* ... and so does a pointer. *)
LEMMA PointerNumber ==
    ASSUME NEW m, Sound(m), NEW s \in Sources, NEW base
    PROVE  Pointer(s, base, m) \in Numbers
<1>0. s.left \in Operands /\ s.right \in Operands /\ s.oper \in Arithmetic \cup {"None"}
          /\ 0 \in Numbers
  BY Widths DEF Sources, Operands, Numbers
<1>1. Read(s.left, base, m) \in Numbers /\ Read(s.right, base, m) \in Numbers
  BY <1>0, ReadNumber
<1>2. s.oper # "None" => Combine(Read(s.left, base, m), s.oper, Read(s.right, base, m)) \in Numbers
  BY <1>0, <1>1, CombineNumber
<1>3. QED
  BY <1>0, <1>1, <1>2 DEF Pointer

(***************************************************************************
 What the parser makes.  An operand refers to memory, or to one of the modified
 references numbered in N; an entry of a list refers to earlier ones.
 ***************************************************************************)
RefsTo(N) == (Numbers \X Sizes) \cup {<<n>> : n \in N}
OpsOn(N) ==
    [type: {"Const"}, size: {"32"}, ref: {NoRef}, num: Numbers]
      \cup [type: Types, size: Sizes, ref: RefsTo(N), num: {0}]
EntriesOn(N) ==
    [parent: OpsOn(N), oper: Arithmetic \cup {"IndirectRead", "SubParent", "SubAccumulator",
        "AddAccumulator"},
     modifier: OpsOn(N), size: Sizes]
Lists == {l \in Seq(EntriesOn(Nat)) : \A n \in DOMAIN l : l[n] \in EntriesOn(1..(n - 1))}

Begins(l, list) == Len(l) <= Len(list) /\ \A n \in DOMAIN l : list[n] = l[n]

(* What may refer to some references may refer to more. *)
LEMMA OpsGrow ==
    ASSUME NEW N, NEW M, N \subseteq M
    PROVE  OpsOn(N) \subseteq OpsOn(M) /\ EntriesOn(N) \subseteq EntriesOn(M)
<1>1. RefsTo(N) \subseteq RefsTo(M)
  BY DEF RefsTo
<1>2. OpsOn(N) \subseteq OpsOn(M)
  BY <1>1 DEF OpsOn
<1>3. QED
  BY <1>2 DEF EntriesOn

(* What a list refers to is in the lists that begin with it. *)
LEMMA BeginsOn ==
    ASSUME NEW l \in Lists, NEW list \in Lists, Begins(l, list)
    PROVE  /\ DOMAIN l \subseteq DOMAIN list /\ DOMAIN l \subseteq Nat
           /\ OpsOn(DOMAIN l) \subseteq OpsOn(DOMAIN list)
           /\ EntriesOn(DOMAIN l) \subseteq EntriesOn(DOMAIN list)
<1>1. DOMAIN l = 1..Len(l) /\ DOMAIN list = 1..Len(list) /\ Len(l) \in Nat /\ Len(list) \in Nat
  BY DEF Lists
<1>2. DOMAIN l \subseteq DOMAIN list /\ DOMAIN l \subseteq Nat
  BY <1>1 DEF Begins
<1>3. QED
  BY <1>2, OpsGrow

(* A list that begins one that begins a third begins the third. *)
LEMMA BeginsOnwards ==
    ASSUME NEW k \in Lists, NEW l \in Lists, NEW m \in Lists, Begins(k, l), Begins(l, m)
    PROVE  Begins(k, m)
<1>1. Len(k) \in Nat /\ Len(l) \in Nat /\ Len(m) \in Nat
  BY DEF Lists
<1>2. DOMAIN k \subseteq DOMAIN l
  BY BeginsOn
<1>3. QED
  BY <1>1, <1>2 DEF Begins

(* A list begins with itself. *)
LEMMA BeginsItself ==
    ASSUME NEW l \in Lists
    PROVE  Begins(l, l)
BY DEF Begins, Lists

(* A reference that is included is in the list, which begins as before. *)
LEMMA IncludingIs ==
    ASSUME NEW list \in Lists, NEW m \in EntriesOn(DOMAIN list)
    PROVE  /\ Including(list, m) \in Lists
           /\ IndexIn(list, m) \in DOMAIN Including(list, m)
           /\ Including(list, m)[IndexIn(list, m)] = m
           /\ Begins(list, Including(list, m))
<1>1. list \in Seq(EntriesOn(Nat)) /\ Len(list) \in Nat /\ DOMAIN list = 1..Len(list)
  BY DEF Lists
<1>2. CASE Known(list, m)
  <2>1. Including(list, m) = list
    BY <1>2 DEF Including
  <2>2. IndexIn(list, m) \in DOMAIN list /\ list[IndexIn(list, m)] = m
    <3>1. PICK n \in DOMAIN list : list[n] = m
      BY <1>2 DEF Known
    <3>2. IndexIn(list, m) = CHOOSE i \in DOMAIN list : list[i] = m
      BY <1>2 DEF IndexIn
    <3>3. QED
      BY <3>1, <3>2
  <2>3. QED
    BY <2>1, <2>2, BeginsItself
<1>3. CASE ~Known(list, m)
  <2>1. Including(list, m) = Append(list, m) /\ IndexIn(list, m) = Len(list) + 1
    BY <1>3 DEF Including, IndexIn
  <2>2. m \in EntriesOn(Nat)
    <3>1. DOMAIN list \subseteq Nat
      BY <1>1
    <3>2. QED
      BY <3>1, OpsGrow
  <2>3. PICK new : new = Append(list, m)
    OBVIOUS
  <2>4. /\ new \in Seq(EntriesOn(Nat)) /\ Len(new) = Len(list) + 1 /\ DOMAIN new = 1..(Len(list) + 1)
        /\ new[Len(list) + 1] = m /\ \A n \in DOMAIN list : new[n] = list[n]
    BY <1>1, <2>2, <2>3
  <2>5. \A n \in DOMAIN new : new[n] \in EntriesOn(1..(n - 1))
    <3>1. TAKE n \in DOMAIN new
    <3>2. CASE n = Len(list) + 1
      <4>1. 1..(n - 1) = DOMAIN list
        BY <1>1, <3>2
      <4>2. QED
        BY <2>4, <3>2, <4>1
    <3>3. CASE n # Len(list) + 1
      <4>1. n \in DOMAIN list
        BY <1>1, <2>4, <3>3
      <4>2. QED
        BY <2>4, <4>1 DEF Lists
    <3>4. QED
      BY <3>2, <3>3
  <2>6. new \in Lists /\ Begins(list, new) /\ Len(list) + 1 \in DOMAIN new
    BY <1>1, <2>4, <2>5 DEF Lists, Begins
  <2>7. QED
    BY <2>1, <2>3, <2>4, <2>6
<1>4. QED
  BY <1>2, <1>3

(* An operand of the list, that the parser made of the operand o behind the pointer ind. *)
Reads(op, list, o, ind) ==
    IF o.type = "Const" THEN op = ConstOf(o.num)
    ELSE /\ op.type = o.type /\ op.size = o.size
         /\ ind = Absent => op.ref = <<o.addr, RefSize(o)>>
         /\ ind # Absent => \E n \in DOMAIN list :
               /\ op.ref = <<n>>
               /\ list[n] = Modified(ind, "IndirectRead", ConstOf(o.addr), RefSize(o))

(* ... and of a condition. *)
Converts(op, list, c, ind) ==
    IF c.oper = "None" THEN Reads(op, list, c.left, ind)
    ELSE \E left \in OpsOn(DOMAIN list), right \in OpsOn(DOMAIN list), n \in DOMAIN list :
            /\ Reads(left, list, c.left, ind) /\ Reads(right, list, c.right, ind)
            /\ op = Reference(n) /\ list[n] = Modified(left, c.oper, right, "32")

(* ... and of a source and an operand. *)
Adds(op, list, src, oper, added) ==
    \E n \in DOMAIN list, size \in Sizes :
        \/ /\ op = Reference(n)
           /\ list[n] = Modified(src, oper, added, size)
           /\ src.type # added.type \/ src.type \notin {"Delta", "Prior"}
        \/ /\ src.type = added.type /\ src.type \in {"Delta", "Prior"}
           /\ op = [Reference(n) EXCEPT !.type = src.type]
           /\ list[n] = Modified([src EXCEPT !.type = "Address"], oper,
                  [added EXCEPT !.type = "Address"], size)

(* What the parser made of an operand stays so as the list grows ... *)
LEMMA ReadsOnwards ==
    ASSUME NEW l \in Lists, NEW list \in Lists, Begins(l, list), NEW op, NEW o, NEW ind
    PROVE  Reads(op, l, o, ind) => Reads(op, list, o, ind)
<1>1. DOMAIN l \subseteq DOMAIN list /\ \A n \in DOMAIN l : list[n] = l[n]
  BY BeginsOn DEF Begins
<1>2. QED
  BY <1>1 DEF Reads

(* ... and what it made of a condition ... *)
LEMMA ConvertsOnwards ==
    ASSUME NEW l \in Lists, NEW list \in Lists, Begins(l, list), NEW op, NEW c, NEW ind
    PROVE  Converts(op, l, c, ind) => Converts(op, list, c, ind)
<1>1. DOMAIN l \subseteq DOMAIN list /\ OpsOn(DOMAIN l) \subseteq OpsOn(DOMAIN list)
  BY BeginsOn
<1>2. \A n \in DOMAIN l : list[n] = l[n]
  BY DEF Begins
<1>3. \A p, o : Reads(p, l, o, ind) => Reads(p, list, o, ind)
  BY ReadsOnwards
<1>4. QED
  BY <1>1, <1>2, <1>3 DEF Converts

(* ... and of a sum. *)
LEMMA AddsOnwards ==
    ASSUME NEW l \in Lists, NEW list \in Lists, Begins(l, list), NEW op, NEW src, NEW oper, NEW added
    PROVE  Adds(op, l, src, oper, added) => Adds(op, list, src, oper, added)
<1>1. DOMAIN l \subseteq DOMAIN list /\ \A n \in DOMAIN l : list[n] = l[n]
  BY BeginsOn DEF Begins
<1>2. QED
  BY <1>1 DEF Adds

(* The sizes and the addresses of operands. *)
LEMMA OperandSizes ==
    ASSUME NEW o \in MemoryOperands
    PROVE  /\ o.type \in Types /\ o.addr \in Numbers /\ o.size \in Sizes /\ o.type # "Const"
           /\ RefSize(o) \in Sizes
           /\ o.type # "Prior" => RefSize(o) = SharedSize(o.size)
BY DEF MemoryOperands, Types, RefSize, SharedSize, Sizes

(* A constant is an operand. *)
LEMMA ConstIn ==
    ASSUME NEW N, NEW n \in Numbers
    PROVE  ConstOf(n) \in OpsOn(N)
BY DEF ConstOf, OpsOn

(* A reference to an entry is an operand. *)
LEMMA ReferenceIn ==
    ASSUME NEW N, NEW n \in N, NEW type \in Types
    PROVE  /\ [Reference(n) EXCEPT !.type = type] \in OpsOn(N)
           /\ Reference(n) \in OpsOn(N)
<1>1. <<n>> \in RefsTo(N)
  BY DEF RefsTo
<1>2. "32" \in Sizes /\ "Address" \in Types
  BY DEF Sizes, Types
<1>3. QED
  BY <1>1, <1>2 DEF Reference, OpsOn

(* The parser's state: what it refers to is in its list. *)
ParseStates ==
    [list: Lists, src: OpsOn(Nat) \cup {Absent}, ind: OpsOn(Nat) \cup {Absent},
     srcOper: {"None", "Add", "AddAccumulator", "SubParent", "SubAccumulator"}]

ParserState(ps) ==
    /\ ps \in ParseStates
    /\ ps.ind \in OpsOn(DOMAIN ps.list) \cup {Absent}
    /\ ps.src \in OpsOn(DOMAIN ps.list) \cup {Absent}
    /\ ps.src = Absent <=> ps.srcOper = "None"

(* A state of the parser stays one as its list grows. *)
LEMMA ParserStateOnwards ==
    ASSUME NEW ps, ParserState(ps), NEW list \in Lists, Begins(ps.list, list)
    PROVE  LET qs == [ps EXCEPT !.list = list]
           IN  /\ ParserState(qs)
               /\ qs.list = list /\ qs.ind = ps.ind /\ qs.src = ps.src /\ qs.srcOper = ps.srcOper
<1>1. ps.list \in Lists
  BY DEF ParserState, ParseStates
<1>2. OpsOn(DOMAIN ps.list) \subseteq OpsOn(DOMAIN list)
  BY <1>1, BeginsOn
<1>3. PICK qs : qs = [ps EXCEPT !.list = list]
  OBVIOUS
<1>4. /\ qs \in ParseStates
      /\ qs.list = list /\ qs.ind = ps.ind /\ qs.src = ps.src /\ qs.srcOper = ps.srcOper
  BY <1>3 DEF ParserState, ParseStates
<1>5. ParserState(qs)
  BY <1>2, <1>4 DEF ParserState
<1>6. QED
  BY <1>3, <1>4, <1>5

(* An operand that is parsed reads what is written. *)
LEMMA OperandIs ==
    ASSUME NEW ps, ParserState(ps), NEW o \in Operands
    PROVE  LET r == Operand(ps, o)
           IN  /\ r.list \in Lists /\ Begins(ps.list, r.list)
               /\ r.op \in OpsOn(DOMAIN r.list) /\ Reads(r.op, r.list, o, ps.ind)
<1>0. ps.list \in Lists
  BY DEF ParserState, ParseStates
<1>1. CASE o.type = "Const"
  <2>1. o.num \in Numbers
    BY <1>1 DEF Operands, MemoryOperands, Types, ConstantOperands
  <2>2. Operand(ps, o) = [list |-> ps.list, op |-> ConstOf(o.num)]
    BY <1>1 DEF Operand
  <2>3. QED
    BY <1>0, <1>1, <2>1, <2>2, ConstIn, BeginsItself DEF Reads
<1>2. CASE o.type # "Const"
  <2>1. o \in MemoryOperands
    BY <1>2 DEF Operands, ConstantOperands
  <2>2. o.type \in Types /\ o.addr \in Numbers /\ o.size \in Sizes /\ RefSize(o) \in Sizes
    BY <2>1, OperandSizes
  <2>3. CASE ps.ind = Absent
    <3>1. PICK op : op = [type |-> o.type, size |-> o.size, ref |-> <<o.addr, RefSize(o)>>, num |-> 0]
      OBVIOUS
    <3>2. Operand(ps, o) = [list |-> ps.list, op |-> op]
      BY <1>2, <2>3, <3>1 DEF Operand
    <3>3. <<o.addr, RefSize(o)>> \in RefsTo(DOMAIN ps.list)
      BY <2>2 DEF RefsTo
    <3>4. op \in OpsOn(DOMAIN ps.list)
      BY <2>2, <3>1, <3>3 DEF OpsOn
    <3>5. Reads(op, ps.list, o, ps.ind)
      BY <1>2, <2>3, <3>1 DEF Reads
    <3>6. QED
      BY <1>0, <3>2, <3>4, <3>5, BeginsItself
  <2>4. CASE ps.ind # Absent
    <3>1. PICK m : m = Modified(ps.ind, "IndirectRead", ConstOf(o.addr), RefSize(o))
      OBVIOUS
    <3>2. m \in EntriesOn(DOMAIN ps.list)
      BY <2>2, <2>4, <3>1, ConstIn DEF ParserState, EntriesOn, Modified
    <3>3. PICK list, i : list = Including(ps.list, m) /\ i = IndexIn(ps.list, m)
      OBVIOUS
    <3>4. list \in Lists /\ i \in DOMAIN list /\ list[i] = m /\ Begins(ps.list, list)
      BY <1>0, <3>2, <3>3, IncludingIs
    <3>5. PICK op : op = [type |-> o.type, size |-> o.size, ref |-> <<i>>, num |-> 0]
      OBVIOUS
    <3>6. Operand(ps, o) = [list |-> list, op |-> op]
      BY <1>2, <2>4, <3>1, <3>3, <3>5 DEF Operand
    <3>7. <<i>> \in RefsTo(DOMAIN list)
      BY <3>4 DEF RefsTo
    <3>8. op \in OpsOn(DOMAIN list)
      BY <2>2, <3>5, <3>7 DEF OpsOn
    <3>9. Reads(op, list, o, ps.ind)
      BY <1>2, <2>4, <3>1, <3>4, <3>5 DEF Reads
    <3>10. QED
      BY <3>4, <3>6, <3>8, <3>9
  <2>5. QED
    BY <2>3, <2>4
<1>3. QED
  BY <1>1, <1>2

(* Two operands, one after the other. *)
LEMMA OperandsAre ==
    ASSUME NEW ps, ParserState(ps), NEW o \in Operands, NEW p \in Operands,
           NEW left, NEW right, left = Operand(ps, o),
           right = Operand([ps EXCEPT !.list = left.list], p)
    PROVE  /\ right.list \in Lists /\ Begins(ps.list, right.list)
           /\ left.op \in OpsOn(DOMAIN right.list) /\ right.op \in OpsOn(DOMAIN right.list)
           /\ Reads(left.op, right.list, o, ps.ind) /\ Reads(right.op, right.list, p, ps.ind)
<1>0. ps.list \in Lists
  BY DEF ParserState, ParseStates
<1>1. /\ left.list \in Lists /\ Begins(ps.list, left.list)
      /\ left.op \in OpsOn(DOMAIN left.list) /\ Reads(left.op, left.list, o, ps.ind)
  BY OperandIs
<1>2. PICK qs : qs = [ps EXCEPT !.list = left.list]
  OBVIOUS
<1>3. ParserState(qs) /\ qs.list = left.list /\ qs.ind = ps.ind
  BY <1>1, <1>2, ParserStateOnwards
<1>5. /\ right.list \in Lists /\ Begins(left.list, right.list)
      /\ right.op \in OpsOn(DOMAIN right.list) /\ Reads(right.op, right.list, p, ps.ind)
  BY <1>2, <1>3, OperandIs
<1>6. Begins(ps.list, right.list)
  BY <1>0, <1>1, <1>5, BeginsOnwards
<1>7. left.op \in OpsOn(DOMAIN right.list)
  BY <1>1, <1>5, BeginsOn
<1>8. Reads(left.op, right.list, o, ps.ind)
  BY <1>1, <1>5, ReadsOnwards
<1>9. QED
  BY <1>5, <1>6, <1>7, <1>8

(* A condition made an operand. *)
LEMMA ConvertedIs ==
    ASSUME NEW ps, ParserState(ps), NEW c \in Sources
    PROVE  LET v == Converted(ps, c)
           IN  /\ v.list \in Lists /\ Begins(ps.list, v.list)
               /\ v.op \in OpsOn(DOMAIN v.list) /\ Converts(v.op, v.list, c, ps.ind)
<1>0. /\ ps.list \in Lists /\ c.left \in Operands /\ c.right \in Operands
      /\ c.oper \in Arithmetic \cup {"None"} /\ "32" \in Sizes
  BY DEF ParserState, ParseStates, Sources, Operands, Sizes
<1>1. PICK left : left = Operand(ps, c.left)
  OBVIOUS
<1>2. CASE c.oper = "None"
  <2>1. Converted(ps, c) = left
    BY <1>1, <1>2 DEF Converted
  <2>2. QED
    BY <1>0, <1>1, <1>2, <2>1, OperandIs DEF Converts
<1>3. CASE c.oper # "None"
  <2>1. PICK right : right = Operand([ps EXCEPT !.list = left.list], c.right)
    OBVIOUS
  <2>2. /\ right.list \in Lists /\ Begins(ps.list, right.list)
        /\ left.op \in OpsOn(DOMAIN right.list) /\ right.op \in OpsOn(DOMAIN right.list)
        /\ Reads(left.op, right.list, c.left, ps.ind) /\ Reads(right.op, right.list, c.right, ps.ind)
    BY <1>0, <1>1, <2>1, OperandsAre
  <2>3. PICK m : m = Modified(left.op, c.oper, right.op, "32")
    OBVIOUS
  <2>4. m \in EntriesOn(DOMAIN right.list)
    BY <1>0, <1>3, <2>2, <2>3 DEF Modified, EntriesOn
  <2>5. PICK list, i : list = Including(right.list, m) /\ i = IndexIn(right.list, m)
    OBVIOUS
  <2>6. list \in Lists /\ i \in DOMAIN list /\ list[i] = m /\ Begins(right.list, list)
    BY <2>2, <2>4, <2>5, IncludingIs
  <2>7. Converted(ps, c) = [list |-> list, op |-> Reference(i)]
    BY <1>1, <1>3, <2>1, <2>3, <2>5 DEF Converted
  <2>8. Begins(ps.list, list)
    BY <1>0, <2>2, <2>6, BeginsOnwards
  <2>9. /\ Reads(left.op, list, c.left, ps.ind) /\ Reads(right.op, list, c.right, ps.ind)
        /\ left.op \in OpsOn(DOMAIN list) /\ right.op \in OpsOn(DOMAIN list)
    BY <2>2, <2>6, ReadsOnwards, BeginsOn
  <2>10. Converts(Reference(i), list, c, ps.ind)
    BY <1>3, <2>3, <2>6, <2>9 DEF Converts
  <2>11. Reference(i) \in OpsOn(DOMAIN list)
    <3>1. "Address" \in Types
      BY DEF Types
    <3>2. QED
      BY <2>6, <3>1, ReferenceIn
  <2>12. QED
    BY <2>6, <2>7, <2>8, <2>10, <2>11
<1>4. QED
  BY <1>2, <1>3

(* A type that an operand may be given. *)
LEMMA RetypedIn ==
    ASSUME NEW N, NEW op \in OpsOn(N), op.type # "Const"
    PROVE  /\ [op EXCEPT !.type = "Address"] \in OpsOn(N)
           /\ op.type \in Types
BY DEF OpsOn, Types

(* A source and an operand added up. *)
LEMMA AddToSourceIs ==
    ASSUME NEW ps, ps \in ParseStates, NEW size \in Sizes, NEW op \in OpsOn(DOMAIN ps.list),
           ps.src \in OpsOn(DOMAIN ps.list), ps.srcOper # "None"
    PROVE  LET s == AddToSource(ps, op, size)
           IN  /\ s.list \in Lists /\ Begins(ps.list, s.list)
               /\ s.op \in OpsOn(DOMAIN s.list) /\ Adds(s.op, s.list, ps.src, ps.srcOper, op)
<1>0. ps.list \in Lists /\ ps.srcOper \in {"Add", "AddAccumulator", "SubParent", "SubAccumulator"}
  BY DEF ParseStates
<1> DEFINE both == op.type \in {"Delta", "Prior"} /\ op.type = ps.src.type
<1>1. PICK m : m = IF both THEN Modified([ps.src EXCEPT !.type = "Address"], ps.srcOper,
                                         [op EXCEPT !.type = "Address"], size)
                   ELSE Modified(ps.src, ps.srcOper, op, size)
  OBVIOUS
<1>2. m \in EntriesOn(DOMAIN ps.list)
  <2>1. CASE both
    <3>1. [ps.src EXCEPT !.type = "Address"] \in OpsOn(DOMAIN ps.list)
      BY <2>1, RetypedIn
    <3>2. [op EXCEPT !.type = "Address"] \in OpsOn(DOMAIN ps.list)
      BY <2>1, RetypedIn
    <3>3. QED
      BY <1>0, <1>1, <2>1, <3>1, <3>2 DEF Modified, EntriesOn, Arithmetic
  <2>2. CASE ~both
    BY <1>0, <1>1, <2>2 DEF Modified, EntriesOn, Arithmetic
  <2>3. QED
    BY <2>1, <2>2
<1>3. PICK list, i : list = Including(ps.list, m) /\ i = IndexIn(ps.list, m)
  OBVIOUS
<1>4. list \in Lists /\ i \in DOMAIN list /\ list[i] = m /\ Begins(ps.list, list)
  BY <1>0, <1>2, <1>3, IncludingIs
<1>5. PICK r : r = [Reference(i) EXCEPT !.type = IF both THEN op.type ELSE "Address"]
  OBVIOUS
<1>6. AddToSource(ps, op, size) = [list |-> list, op |-> r]
  BY <1>1, <1>3, <1>5 DEF AddToSource
<1>7. r \in OpsOn(DOMAIN list)
  <2>1. (IF both THEN op.type ELSE "Address") \in Types
    BY DEF Types
  <2>2. QED
    BY <1>4, <1>5, <2>1, ReferenceIn
<1>8. Adds(r, list, ps.src, ps.srcOper, op)
  <2>1. CASE both
    BY <1>1, <1>4, <1>5, <2>1 DEF Adds
  <2>2. CASE ~both
    <3>1. r = Reference(i)
      BY <1>5, <2>2 DEF Reference
    <3>2. QED
      BY <1>1, <1>4, <2>2, <3>1 DEF Adds
  <2>3. QED
    BY <2>1, <2>2
<1>9. QED
  BY <1>4, <1>6, <1>7, <1>8

(* What the parser carries from one condition to the next, and what each condition
   of a chain makes of it. *)
HandedOn(ps) == ParserState(ps) /\ ps.srcOper \in {"None", "AddAccumulator", "SubParent"}

Readied(ready, list, src, oper) ==
    CASE oper = "AddAccumulator" /\ ~IsMemref(src) ->
            \E n \in DOMAIN list :
               ready = Reference(n) /\ list[n] = Modified(src, oper, ConstOf(0), "32")
      [] oper = "SubParent" /\ IsMemref(src) ->
            \E n \in DOMAIN list :
               /\ ready = [Reference(n) EXCEPT !.type = src.type]
               /\ list[n] = Modified(src, oper, ConstOf(0), "32")
      [] oper = "SubParent" /\ ~IsMemref(src) -> ready = ConstOf(PointerBits)
      [] OTHER -> ready = src

MovesOn(ps, qs, list, c) ==
    /\ c.flag = "AddAddress"
    /\ qs.src = ps.src /\ qs.srcOper = ps.srcOper
    /\ qs.ind # Absent /\ Converts(qs.ind, list, c, ps.ind)

Accumulates(ps, qs, list, c, op) ==
    /\ c.flag = "AddSource"
    /\ qs.ind = Absent /\ qs.srcOper = "AddAccumulator"
    /\ IF ps.src = Absent THEN qs.src = op ELSE Adds(qs.src, list, ps.src, ps.srcOper, op)

Subtracts(ps, qs, list, c, op) ==
    /\ c.flag = "SubSource"
    /\ qs.ind = Absent
    /\ IF ps.src = Absent THEN qs.src = op /\ qs.srcOper = "SubParent"
       ELSE /\ qs.srcOper = "AddAccumulator"
            /\ \E ready \in OpsOn(DOMAIN list) :
                  /\ Readied(ready, list, ps.src, ps.srcOper)
                  /\ Adds(qs.src, list, ready,
                          IF IsMemref(ready) THEN "SubAccumulator" ELSE "SubParent", op)

Follows(ps, qs, list, c) ==
    \/ MovesOn(ps, qs, list, c)
    \/ \E op \in OpsOn(DOMAIN list) :
          /\ Converts(op, list, c, ps.ind)
          /\ Accumulates(ps, qs, list, c, op) \/ Subtracts(ps, qs, list, c, op)

(* What was made ready stays so as the list grows ... *)
LEMMA ReadiedOnwards ==
    ASSUME NEW l \in Lists, NEW list \in Lists, Begins(l, list), NEW ready, NEW src, NEW oper
    PROVE  Readied(ready, l, src, oper) => Readied(ready, list, src, oper)
<1>1. DOMAIN l \subseteq DOMAIN list /\ \A n \in DOMAIN l : list[n] = l[n]
  BY BeginsOn DEF Begins
<1>2. CASE oper = "AddAccumulator" /\ ~IsMemref(src)
  BY <1>1, <1>2 DEF Readied
<1>3. CASE oper = "SubParent" /\ IsMemref(src)
  BY <1>1, <1>3 DEF Readied
<1>4. CASE oper = "SubParent" /\ ~IsMemref(src)
  BY <1>4 DEF Readied
<1>5. CASE ~ (oper = "AddAccumulator" /\ ~IsMemref(src)) /\ oper # "SubParent"
  BY <1>5 DEF Readied
<1>6. QED
  BY <1>2, <1>3, <1>4, <1>5

(* ... and so does what the parser made of a condition of the chain. *)
LEMMA FollowsOnwards ==
    ASSUME NEW l \in Lists, NEW list \in Lists, Begins(l, list), NEW ps, NEW qs, NEW c
    PROVE  Follows(ps, qs, l, c) => Follows(ps, qs, list, c)
<1>1. OpsOn(DOMAIN l) \subseteq OpsOn(DOMAIN list)
  BY BeginsOn
<1>2. \A op : Converts(op, l, c, ps.ind) => Converts(op, list, c, ps.ind)
  BY ConvertsOnwards
<1>3. \A op, src, oper, added : Adds(op, l, src, oper, added) => Adds(op, list, src, oper, added)
  BY AddsOnwards
<1>4. \A ready, src, oper : Readied(ready, l, src, oper) => Readied(ready, list, src, oper)
  BY ReadiedOnwards
<1>5. MovesOn(ps, qs, l, c) => MovesOn(ps, qs, list, c)
  BY <1>2 DEF MovesOn
<1>6. \A op : Accumulates(ps, qs, l, c, op) => Accumulates(ps, qs, list, c, op)
  BY <1>3 DEF Accumulates
<1>7. \A op : Subtracts(ps, qs, l, c, op) => Subtracts(ps, qs, list, c, op)
  BY <1>1, <1>3, <1>4 DEF Subtracts
<1>8. QED
  BY <1>1, <1>2, <1>5, <1>6, <1>7 DEF Follows

(* An operand is never the absent one. *)
LEMMA NotAbsent ==
    ASSUME NEW N, NEW op \in OpsOn(N)
    PROVE  op # Absent
BY DEF OpsOn, Absent, Types

(* What rc_operand_addsource is given to subtract from. *)
LEMMA SubtractableIs ==
    ASSUME NEW ps, HandedOn(ps), ps.src # Absent
    PROVE  LET r == Subtractable(ps)
           IN  /\ ParserState(r) /\ Begins(ps.list, r.list) /\ r.ind = ps.ind /\ r.src # Absent
               /\ Readied(r.src, r.list, ps.src, ps.srcOper)
<1>0. /\ ps.list \in Lists /\ ps \in ParseStates /\ ps.src \in OpsOn(DOMAIN ps.list)
      /\ ps.srcOper \in {"AddAccumulator", "SubParent"}
      /\ ps.ind \in OpsOn(DOMAIN ps.list) \cup {Absent}
  BY DEF HandedOn, ParserState, ParseStates
<1>1. PICK m : m = Modified(ps.src, ps.srcOper, ConstOf(0), "32")
  OBVIOUS
<1>2. m \in EntriesOn(DOMAIN ps.list)
  <2>1. ConstOf(0) \in OpsOn(DOMAIN ps.list)
    BY ConstIn, Widths DEF Numbers
  <2>2. QED
    BY <1>0, <1>1, <2>1 DEF Modified, EntriesOn, Sizes
<1>3. PICK list, n : list = Including(ps.list, m) /\ n = IndexIn(ps.list, m)
  OBVIOUS
<1>4. list \in Lists /\ n \in DOMAIN list /\ list[n] = m /\ Begins(ps.list, list)
  BY <1>0, <1>2, <1>3, IncludingIs
<1>5. OpsOn(DOMAIN ps.list) \subseteq OpsOn(DOMAIN list) /\ OpsOn(DOMAIN list) \subseteq OpsOn(Nat)
  <2>1. DOMAIN list \subseteq Nat
    BY <1>4, BeginsItself, BeginsOn
  <2>2. QED
    BY <1>0, <1>4, <2>1, BeginsOn, OpsGrow
<1>6. \A src \in OpsOn(DOMAIN list) :
         LET r == [ps EXCEPT !.list = list, !.src = src]
         IN  ParserState(r) /\ r.list = list /\ r.ind = ps.ind /\ r.src = src /\ r.src # Absent
  <2>1. TAKE src \in OpsOn(DOMAIN list)
  <2>2. PICK r : r = [ps EXCEPT !.list = list, !.src = src]
    OBVIOUS
  <2>3. r \in ParseStates /\ r.list = list /\ r.ind = ps.ind /\ r.src = src /\ r.srcOper = ps.srcOper
    BY <1>0, <1>4, <1>5, <2>2 DEF ParseStates
  <2>4. r.src # Absent
    BY <2>3, NotAbsent
  <2>5. QED
    BY <1>0, <1>5, <2>2, <2>3, <2>4 DEF ParserState
<1>7. CASE ps.srcOper = "AddAccumulator" /\ ~IsMemref(ps.src)
  <2>1. Subtractable(ps) = [ps EXCEPT !.list = list, !.src = Reference(n)]
    BY <1>1, <1>3, <1>7 DEF Subtractable
  <2>2. Reference(n) \in OpsOn(DOMAIN list)
    BY <1>4, ReferenceIn DEF Types
  <2>3. PICK r : r = [ps EXCEPT !.list = list, !.src = Reference(n)]
    OBVIOUS
  <2>4. ParserState(r) /\ r.list = list /\ r.ind = ps.ind /\ r.src = Reference(n) /\ r.src # Absent
    BY <1>6, <2>2, <2>3
  <2>5. Readied(r.src, list, ps.src, ps.srcOper)
    BY <1>1, <1>4, <1>7, <2>4 DEF Readied
  <2>6. QED
    BY <1>4, <2>1, <2>3, <2>4, <2>5
<1>8. CASE ps.srcOper = "SubParent" /\ IsMemref(ps.src)
  <2>1. PICK x : x = [Reference(n) EXCEPT !.type = ps.src.type]
    OBVIOUS
  <2>2. x \in OpsOn(DOMAIN list)
    <3>1. ps.src.type \in Types
      BY <1>0, <1>8, RetypedIn DEF IsMemref
    <3>2. QED
      BY <1>4, <2>1, <3>1, ReferenceIn
  <2>3. PICK r : r = [ps EXCEPT !.list = list, !.src = x]
    OBVIOUS
  <2>4. ParserState(r) /\ r.list = list /\ r.ind = ps.ind /\ r.src = x /\ r.src # Absent
    BY <1>6, <2>2, <2>3
  <2>5. Readied(x, list, ps.src, ps.srcOper)
    BY <1>1, <1>4, <1>8, <2>1 DEF Readied
  <2>6. Subtractable(ps) = r
    BY <1>1, <1>3, <1>8, <2>1, <2>3 DEF Subtractable
  <2>7. QED
    BY <1>4, <2>4, <2>5, <2>6
<1>9. CASE ps.srcOper = "SubParent" /\ ~IsMemref(ps.src)
  <2>1. PICK x : x = ConstOf(PointerBits)
    OBVIOUS
  <2>2. x \in OpsOn(DOMAIN list)
    BY <2>1, ConstIn, BitsAssumption
  <2>3. PICK r : r = [ps EXCEPT !.list = list, !.src = x]
    OBVIOUS
  <2>4. ParserState(r) /\ r.list = list /\ r.ind = ps.ind /\ r.src = x /\ r.src # Absent
    BY <1>6, <2>2, <2>3
  <2>5. Readied(x, list, ps.src, ps.srcOper)
    BY <1>9, <2>1 DEF Readied
  <2>6. Subtractable(ps) = r
    BY <1>1, <1>3, <1>9, <2>1, <2>3 DEF Subtractable
  <2>7. QED
    BY <1>4, <2>4, <2>5, <2>6
<1>10. CASE ps.srcOper = "AddAccumulator" /\ IsMemref(ps.src)
  <2>1. Subtractable(ps) = ps
    BY <1>10 DEF Subtractable
  <2>2. Readied(ps.src, ps.list, ps.src, ps.srcOper)
    BY <1>10 DEF Readied
  <2>3. QED
    BY <1>0, <2>1, <2>2, BeginsItself DEF HandedOn
<1>11. QED
  BY <1>0, <1>7, <1>8, <1>9, <1>10

(* The parser follows the chain, condition by condition. *)
LEMMA ParseSourceIs ==
    ASSUME NEW ps, HandedOn(ps), NEW c \in Sources
    PROVE  LET qs == ParseSource(ps, c)
           IN  /\ HandedOn(qs) /\ Begins(ps.list, qs.list) /\ Follows(ps, qs, qs.list, c)
<1>0. /\ ParserState(ps) /\ ps \in ParseStates /\ ps.list \in Lists
      /\ ps.ind \in OpsOn(DOMAIN ps.list) \cup {Absent}
      /\ ps.src \in OpsOn(DOMAIN ps.list) \cup {Absent}
      /\ ps.src = Absent <=> ps.srcOper = "None"
      /\ ps.srcOper \in {"None", "AddAccumulator", "SubParent"}
      /\ c.flag \in {"AddAddress", "AddSource", "SubSource"} /\ "32" \in Sizes
  BY DEF HandedOn, ParserState, ParseStates, Sources, Sizes
<1>1. \A list \in Lists : OpsOn(DOMAIN list) \subseteq OpsOn(Nat)
  <2>1. \A list \in Lists : DOMAIN list \subseteq Nat
    BY BeginsItself, BeginsOn
  <2>2. QED
    BY <2>1, OpsGrow
<1>2. CASE c.flag = "AddAddress"
  <2>1. PICK v : v = Converted(ps, c)
    OBVIOUS
  <2>2. /\ v.list \in Lists /\ Begins(ps.list, v.list)
        /\ v.op \in OpsOn(DOMAIN v.list) /\ Converts(v.op, v.list, c, ps.ind)
    BY <1>0, <2>1, ConvertedIs
  <2>3. PICK qs : qs = [ps EXCEPT !.list = v.list, !.ind = v.op]
    OBVIOUS
  <2>4. ParseSource(ps, c) = qs
    BY <1>2, <2>1, <2>3 DEF ParseSource, ParseAddAddress
  <2>5. /\ qs \in ParseStates /\ qs.list = v.list /\ qs.ind = v.op
        /\ qs.src = ps.src /\ qs.srcOper = ps.srcOper
    BY <1>0, <1>1, <2>2, <2>3 DEF ParseStates
  <2>6. HandedOn(qs)
    <3>1. OpsOn(DOMAIN ps.list) \subseteq OpsOn(DOMAIN v.list)
      BY <1>0, <2>2, BeginsOn
    <3>2. QED
      BY <1>0, <2>2, <2>5, <3>1 DEF HandedOn, ParserState
  <2>7. Follows(ps, qs, qs.list, c)
    <3>1. qs.ind # Absent
      BY <2>2, <2>5, NotAbsent
    <3>2. QED
      BY <1>2, <2>2, <2>5, <3>1 DEF Follows, MovesOn
  <2>8. QED
    BY <2>2, <2>4, <2>5, <2>6, <2>7
<1>3. CASE c.flag = "AddSource"
  <2>1. PICK v : v = Converted(ps, c)
    OBVIOUS
  <2>2. /\ v.list \in Lists /\ Begins(ps.list, v.list)
        /\ v.op \in OpsOn(DOMAIN v.list) /\ Converts(v.op, v.list, c, ps.ind)
    BY <1>0, <2>1, ConvertedIs
  <2>3. PICK s : s = IF ps.src = Absent THEN v
                     ELSE AddToSource([ps EXCEPT !.list = v.list], v.op, "32")
    OBVIOUS
  <2>4. PICK qs : qs = [list |-> s.list, src |-> s.op, srcOper |-> "AddAccumulator", ind |-> Absent]
    OBVIOUS
  <2>5. ParseSource(ps, c) = qs
    BY <1>3, <2>1, <2>3, <2>4 DEF ParseSource, ParseAddSource
  <2>6. /\ s.list \in Lists /\ Begins(v.list, s.list) /\ s.op \in OpsOn(DOMAIN s.list)
        /\ ps.src = Absent => s = v
        /\ ps.src # Absent => Adds(s.op, s.list, ps.src, ps.srcOper, v.op)
    <3>1. CASE ps.src = Absent
      BY <2>2, <2>3, <3>1, BeginsItself
    <3>2. CASE ps.src # Absent
      <4>1. PICK rs : rs = [ps EXCEPT !.list = v.list]
        OBVIOUS
      <4>2. ParserState(rs) /\ rs.list = v.list /\ rs.src = ps.src /\ rs.srcOper = ps.srcOper
        BY <1>0, <2>2, <4>1, ParserStateOnwards
      <4>3. rs \in ParseStates /\ rs.src \in OpsOn(DOMAIN rs.list) /\ rs.srcOper # "None"
        BY <1>0, <3>2, <4>2 DEF ParserState
      <4>4. s = AddToSource(rs, v.op, "32")
        BY <2>3, <3>2, <4>1
      <4>5. /\ s.list \in Lists /\ Begins(rs.list, s.list) /\ s.op \in OpsOn(DOMAIN s.list)
            /\ Adds(s.op, s.list, rs.src, rs.srcOper, v.op)
        BY <1>0, <2>2, <4>2, <4>3, <4>4, AddToSourceIs
      <4>6. QED
        BY <3>2, <4>2, <4>5
    <3>3. QED
      BY <3>1, <3>2
  <2>7. Begins(ps.list, s.list) /\ v.op \in OpsOn(DOMAIN s.list) /\ Converts(v.op, s.list, c, ps.ind)
    BY <1>0, <2>2, <2>6, BeginsOnwards, BeginsOn, ConvertsOnwards
  <2>8. qs.list = s.list /\ qs.src = s.op /\ qs.srcOper = "AddAccumulator" /\ qs.ind = Absent
    BY <2>4
  <2>9. HandedOn(qs)
    <3>1. qs \in ParseStates
      BY <1>1, <2>4, <2>6 DEF ParseStates
    <3>2. qs.src # Absent
      BY <2>6, <2>8, NotAbsent
    <3>3. QED
      BY <2>6, <2>8, <3>1, <3>2 DEF HandedOn, ParserState
  <2>10. Accumulates(ps, qs, s.list, c, v.op)
    BY <1>3, <2>6, <2>8 DEF Accumulates
  <2>11. QED
    BY <2>5, <2>7, <2>8, <2>9, <2>10 DEF Follows
<1>4. CASE c.flag = "SubSource"
  <2>1. CASE ps.src = Absent
    <3>1. Subtractable(ps) = ps
      BY <1>0, <2>1 DEF Subtractable
    <3>2. PICK v : v = Converted(ps, c)
      OBVIOUS
    <3>3. /\ v.list \in Lists /\ Begins(ps.list, v.list)
          /\ v.op \in OpsOn(DOMAIN v.list) /\ Converts(v.op, v.list, c, ps.ind)
      BY <1>0, <3>2, ConvertedIs
    <3>4. PICK qs : qs = [list |-> v.list, src |-> v.op, srcOper |-> "SubParent", ind |-> Absent]
      OBVIOUS
    <3>5. ParseSource(ps, c) = qs
      BY <1>4, <2>1, <3>1, <3>2, <3>4 DEF ParseSource, ParseSubSource
    <3>6. qs.list = v.list /\ qs.src = v.op /\ qs.srcOper = "SubParent" /\ qs.ind = Absent
      BY <3>4
    <3>7. HandedOn(qs)
      <4>1. qs \in ParseStates
        BY <1>1, <3>3, <3>4 DEF ParseStates
      <4>2. qs.src # Absent
        BY <3>3, <3>6, NotAbsent
      <4>3. QED
        BY <3>3, <3>6, <4>1, <4>2 DEF HandedOn, ParserState
    <3>8. Subtracts(ps, qs, v.list, c, v.op)
      BY <1>4, <2>1, <3>6 DEF Subtracts
    <3>9. QED
      BY <3>3, <3>5, <3>6, <3>7, <3>8 DEF Follows
  <2>2. CASE ps.src # Absent
    <3>1. PICK r : r = Subtractable(ps)
      OBVIOUS
    <3>2. /\ ParserState(r) /\ Begins(ps.list, r.list) /\ r.ind = ps.ind /\ r.src # Absent
          /\ Readied(r.src, r.list, ps.src, ps.srcOper)
      BY <2>2, <3>1, SubtractableIs
    <3>3. r.list \in Lists /\ r.src \in OpsOn(DOMAIN r.list) /\ r.srcOper # "None"
              /\ r \in ParseStates
      BY <3>2 DEF ParserState, ParseStates
    <3>4. PICK v : v = Converted(r, c)
      OBVIOUS
    <3>5. /\ v.list \in Lists /\ Begins(r.list, v.list)
          /\ v.op \in OpsOn(DOMAIN v.list) /\ Converts(v.op, v.list, c, ps.ind)
      BY <3>2, <3>4, ConvertedIs
    <3>6. PICK oper : oper = IF IsMemref(r.src) THEN "SubAccumulator" ELSE "SubParent"
      OBVIOUS
    <3>7. PICK rs : rs = [r EXCEPT !.list = v.list, !.srcOper = oper]
      OBVIOUS
    <3>8. rs \in ParseStates /\ rs.list = v.list /\ rs.src = r.src /\ rs.srcOper = oper
              /\ oper # "None"
      BY <3>3, <3>5, <3>6, <3>7 DEF ParseStates
    <3>9. PICK s : s = AddToSource(rs, v.op, "32")
      OBVIOUS
    <3>10. r.src \in OpsOn(DOMAIN v.list)
      BY <3>3, <3>5, BeginsOn
    <3>11. /\ s.list \in Lists /\ Begins(v.list, s.list) /\ s.op \in OpsOn(DOMAIN s.list)
           /\ Adds(s.op, s.list, r.src, oper, v.op)
      BY <1>0, <3>5, <3>8, <3>9, <3>10, AddToSourceIs
    <3>12. PICK qs : qs = [list |-> s.list, src |-> s.op, srcOper |-> "AddAccumulator",
               ind |-> Absent]
      OBVIOUS
    <3>13. ParseSource(ps, c) = qs
      BY <1>4, <2>2, <3>1, <3>4, <3>6, <3>7, <3>9, <3>12 DEF ParseSource, ParseSubSource
    <3>14. qs.list = s.list /\ qs.src = s.op /\ qs.srcOper = "AddAccumulator" /\ qs.ind = Absent
      BY <3>12
    <3>15. HandedOn(qs)
      <4>1. qs \in ParseStates
        BY <1>1, <3>11, <3>12 DEF ParseStates
      <4>2. qs.src # Absent
        BY <3>11, <3>14, NotAbsent
      <4>3. QED
        BY <3>11, <3>14, <4>1, <4>2 DEF HandedOn, ParserState
    <3>16. Begins(r.list, s.list)
      BY <3>3, <3>5, <3>11, BeginsOnwards
    <3>17. Begins(ps.list, s.list)
      BY <1>0, <3>2, <3>3, <3>11, <3>16, BeginsOnwards
    <3>18. /\ Readied(r.src, s.list, ps.src, ps.srcOper) /\ Converts(v.op, s.list, c, ps.ind)
           /\ v.op \in OpsOn(DOMAIN s.list) /\ r.src \in OpsOn(DOMAIN s.list)
      BY <3>2, <3>3, <3>5, <3>10, <3>11, <3>16, ReadiedOnwards, ConvertsOnwards, BeginsOn
    <3>19. Subtracts(ps, qs, s.list, c, v.op)
      BY <1>4, <2>2, <3>6, <3>11, <3>14, <3>18 DEF Subtracts
    <3>20. QED
      BY <3>13, <3>14, <3>15, <3>17, <3>18, <3>19 DEF Follows
  <2>3. QED
    BY <2>1, <2>2
<1>5. QED
  BY <1>0, <1>2, <1>3, <1>4

(* What the parser carries after each condition of a chain. *)
LEMMA ParsedIs ==
    ASSUME NEW c, c.sources \in Seq(Sources)
    PROVE  /\ Parsed(c)[0] = Parsing
           /\ \A k \in 0..Len(c.sources) : HandedOn(Parsed(c)[k])
           /\ \A k \in 1..Len(c.sources) : Parsed(c)[k] = ParseSource(Parsed(c)[k - 1], c.sources[k])
<1> DEFINE n == Len(c.sources)
           S == {ps \in ParseStates : HandedOn(ps)}
           step == [k \in 1..n |-> [ps \in S |-> ParseSource(ps, c.sources[k])]]
           Eq(g) == g = [k \in 0..n |-> IF k = 0 THEN Parsing ELSE ParseSource(g[k - 1],
               c.sources[k])]
           Q == Parsed(c)
<1>1. n \in Nat /\ \A k \in 1..n : c.sources[k] \in Sources
  OBVIOUS
<1>2. Parsing \in S
  <2>1. <<>> \in Lists
    BY DEF Lists
  <2>2. Parsing \in ParseStates
    BY <2>1 DEF Parsing, ParseStates
  <2>3. HandedOn(Parsing)
    BY <2>1, <2>2 DEF HandedOn, ParserState, Parsing
  <2>4. QED
    BY <2>2, <2>3
<1>3. \A k \in 1..n : \A ps \in S : ParseSource(ps, c.sources[k]) \in S
  <2>1. TAKE k \in 1..n
  <2>2. TAKE ps \in S
  <2>3. HandedOn(ParseSource(ps, c.sources[k]))
    BY <1>1, ParseSourceIs
  <2>4. QED
    BY <2>3 DEF HandedOn, ParserState
<1>4. step \in [1..n -> [S -> S]]
  <2> HIDE DEF S, n
  <2>1. QED
    BY <1>3
<1>5. PICK f \in [0..n -> S] : Solves(f, n, Parsing, step)
  <2> HIDE DEF S, n, step
  <2>1. QED
    BY <1>1, <1>2, <1>4, RecursionExists
<1>6. Eq(f)
  <2> HIDE DEF S, n
  <2>1. \A k \in 0..n : f[k] = IF k = 0 THEN Parsing ELSE step[k][f[k - 1]]
    BY <1>5 DEF Solves
  <2>2. \A k \in 1..n : k \in 0..n /\ k # 0 /\ k - 1 \in 0..n
    BY <1>1
  <2>3. \A k \in 1..n : f[k] = ParseSource(f[k - 1], c.sources[k])
    BY <1>5, <2>1, <2>2
  <2>4. \A k \in 0..n : f[k] = IF k = 0 THEN Parsing ELSE ParseSource(f[k - 1], c.sources[k])
    <3>1. \A k \in 0..n : k = 0 \/ k \in 1..n
      BY <1>1
    <3>2. QED
      BY <2>1, <2>3, <3>1
  <2>5. f = [k \in 0..n |-> f[k]]
    BY <1>5
  <2>6. QED
    BY <2>4, <2>5
<1>7. Q = CHOOSE g : Eq(g)
  BY Zenon DEF Parsed
<1>8. Eq(Q)
  <2> HIDE DEF Eq
  <2>1. QED
    BY <1>6, <1>7
<1>9. Q[0] = Parsing /\ \A k \in 1..n : Q[k] = ParseSource(Q[k - 1], c.sources[k])
  <2> HIDE DEF S, step, n
  <2>1. \A k \in 0..n : Q[k] = IF k = 0 THEN Parsing ELSE ParseSource(Q[k - 1], c.sources[k])
    BY <1>8
  <2>2. \A k \in 1..n : k \in 0..n /\ k # 0
    BY <1>1
  <2>3. 0 \in 0..n
    BY <1>1
  <2>4. QED
    BY <2>1, <2>2, <2>3
<1>10. \A k \in 0..n : Q[k] \in S
  <2> HIDE DEF S, n, step, Eq, Q
  <2>1. Q[0] \in S
    BY <1>2, <1>9
  <2>2. \A k \in 1..n : Q[k - 1] \in S => Q[k] \in S
    BY <1>3, <1>9
  <2>3. QED
    BY <1>1, <2>1, <2>2, RecursionIn
<1>11. QED
  BY <1>9, <1>10

LeafOper(oper) == IF oper = "AddAccumulator" THEN "Add" ELSE oper

(* The comparison at the end of a chain. *)
EndsChain(ps, p, list, c) ==
    /\ p.left \in OpsOn(DOMAIN list) /\ p.right \in OpsOn(DOMAIN list)
    /\ Reads(p.right, list, c.right, ps.ind)
    /\ \E op \in OpsOn(DOMAIN list) :
          /\ Reads(op, list, c.left, ps.ind)
          /\ IF ps.src = Absent THEN p.left = op
             ELSE Adds(p.left, list, ps.src, LeafOper(ps.srcOper), op)

(* What the parser makes of the comparison. *)
LEMMA ParseLeafIs ==
    ASSUME NEW ps, HandedOn(ps), NEW c, c.left \in Operands, c.right \in Operands
    PROVE  LET p == ParseLeaf(ps, c)
           IN  p.list \in Lists /\ Begins(ps.list, p.list) /\ EndsChain(ps, p, p.list, c)
<1>0. /\ ParserState(ps) /\ ps \in ParseStates /\ ps.list \in Lists
      /\ ps.src \in OpsOn(DOMAIN ps.list) \cup {Absent}
      /\ ps.src = Absent <=> ps.srcOper = "None"
      /\ ps.srcOper \in {"None", "AddAccumulator", "SubParent"}
  BY DEF HandedOn, ParserState, ParseStates
<1>1. PICK left : left = Operand(ps, c.left)
  OBVIOUS
<1>2. PICK right : right = Operand([ps EXCEPT !.list = left.list], c.right)
  OBVIOUS
<1>3. /\ right.list \in Lists /\ Begins(ps.list, right.list)
      /\ left.op \in OpsOn(DOMAIN right.list) /\ right.op \in OpsOn(DOMAIN right.list)
      /\ Reads(left.op, right.list, c.left, ps.ind) /\ Reads(right.op, right.list, c.right, ps.ind)
  BY <1>0, <1>1, <1>2, OperandsAre
<1>4. CASE ps.src = Absent
  <2>1. PICK p : p = [list |-> right.list, left |-> left.op, right |-> right.op]
    OBVIOUS
  <2>2. ParseLeaf(ps, c) = p
    BY <1>1, <1>2, <1>4, <2>1 DEF ParseLeaf
  <2>3. EndsChain(ps, p, right.list, c)
    BY <1>3, <1>4, <2>1 DEF EndsChain
  <2>4. QED
    BY <1>3, <2>1, <2>2, <2>3
<1>5. CASE ps.src # Absent
  <2>1. PICK oper : oper = LeafOper(ps.srcOper)
    OBVIOUS
  <2>2. PICK rs : rs = [ps EXCEPT !.list = right.list, !.srcOper = oper]
    OBVIOUS
  <2>3. /\ rs \in ParseStates /\ rs.list = right.list /\ rs.src = ps.src /\ rs.srcOper = oper
        /\ oper # "None"
    BY <1>0, <1>3, <1>5, <2>1, <2>2 DEF ParseStates, LeafOper
  <2>4. ps.src \in OpsOn(DOMAIN right.list)
    BY <1>0, <1>3, <1>5, BeginsOn
  <2>5. c.left.size \in Sizes
    BY DEF Operands, MemoryOperands, ConstantOperands, Sizes
  <2>6. PICK s : s = AddToSource(rs, left.op, c.left.size)
    OBVIOUS
  <2>7. /\ s.list \in Lists /\ Begins(right.list, s.list) /\ s.op \in OpsOn(DOMAIN s.list)
        /\ Adds(s.op, s.list, ps.src, oper, left.op)
    BY <1>3, <2>3, <2>4, <2>5, <2>6, AddToSourceIs
  <2>8. PICK p : p = [list |-> s.list, left |-> s.op, right |-> right.op]
    OBVIOUS
  <2>9. ParseLeaf(ps, c) = p
    BY <1>1, <1>2, <1>5, <2>1, <2>2, <2>6, <2>8 DEF ParseLeaf, LeafOper
  <2>10. Begins(ps.list, s.list)
    BY <1>0, <1>3, <2>7, BeginsOnwards
  <2>11. /\ left.op \in OpsOn(DOMAIN s.list) /\ right.op \in OpsOn(DOMAIN s.list)
         /\ Reads(left.op, s.list, c.left, ps.ind) /\ Reads(right.op, s.list, c.right, ps.ind)
    BY <1>3, <2>7, BeginsOn, ReadsOnwards
  <2>12. EndsChain(ps, p, s.list, c)
    BY <1>5, <2>1, <2>7, <2>8, <2>11 DEF EndsChain
  <2>13. QED
    BY <2>7, <2>8, <2>9, <2>10, <2>12
<1>6. QED
  BY <1>4, <1>5

(* The chain c, the states P of the parser and the program p it makes. *)
Made(c, P, p) ==
    /\ p.list \in Lists
    /\ P[0] = Parsing
    /\ \A k \in 0..Len(c.sources) : HandedOn(P[k]) /\ Begins(P[k].list, p.list)
    /\ \A k \in 1..Len(c.sources) : Follows(P[k - 1], P[k], p.list, c.sources[k])
    /\ EndsChain(P[Len(c.sources)], p, p.list, c)

(* What the parser makes of every condition. *)
LEMMA CompiledIs ==
    ASSUME NEW c \in Conditions
    PROVE  Made(c, Parsed(c), Compiled(c))
<1> DEFINE P == Parsed(c)
           n == Len(c.sources)
<1>0. /\ c.sources \in Seq(Sources) /\ n \in Nat /\ \A k \in 1..n : c.sources[k] \in Sources
      /\ c.left \in Operands /\ c.right \in Operands
  <2>1. c.sources \in Seq(Sources) /\ {c.left, c.right} \subseteq MemoryOperands \cup ConstantOperands
    BY ConditionsAssumption
  <2>2. QED
    BY <2>1 DEF Operands
<1>1. /\ P[0] = Parsing
      /\ \A k \in 0..n : HandedOn(P[k])
      /\ \A k \in 1..n : P[k] = ParseSource(P[k - 1], c.sources[k])
  BY <1>0, ParsedIs
<1>2. PICK p : p = Compiled(c)
  OBVIOUS
<1>3. p = ParseLeaf(P[n], c)
  BY <1>2 DEF Compiled
<1> HIDE DEF P, n
<1>4. n \in 0..n
  BY <1>0
<1>5. p.list \in Lists /\ Begins(P[n].list, p.list) /\ EndsChain(P[n], p, p.list, c)
  BY <1>0, <1>1, <1>3, <1>4, ParseLeafIs
<1>6. \A k \in 1..n : /\ Begins(P[k - 1].list, P[k].list)
                     /\ Follows(P[k - 1], P[k], P[k].list, c.sources[k])
  <2>1. TAKE k \in 1..n
  <2>2. k - 1 \in 0..n
    BY <1>0
  <2>3. QED
    BY <1>0, <1>1, <2>2, ParseSourceIs
<1>7. \A k \in 0..n : P[k].list \in Lists
  BY <1>1 DEF HandedOn, ParserState, ParseStates
<1>8. \A k \in 0..n : Begins(P[n - k].list, p.list)
  <2> DEFINE T == {k \in 0..n : Begins(P[n - k].list, p.list)}
  <2>1. 0 \in T
    BY <1>0, <1>5
  <2>2. ASSUME NEW k \in 1..n, k - 1 \in T
        PROVE  k \in T
    <3>1. n - k \in 0..n /\ n - (k - 1) \in 1..n /\ (n - (k - 1)) - 1 = n - k /\ n - (k - 1) \in 0..n
      BY <1>0
    <3>2. Begins(P[n - k].list, P[n - (k - 1)].list)
      BY <1>6, <3>1
    <3>3. Begins(P[n - k].list, p.list)
      BY <1>5, <1>7, <2>2, <3>1, <3>2, BeginsOnwards
    <3>4. QED
      BY <1>0, <3>3
  <2> HIDE DEF T
  <2>3. \A k \in 0..n : k \in T
    BY <1>0, <2>1, <2>2, UpTo
  <2>4. QED
    BY <2>3 DEF T
<1>9. \A k \in 0..n : Begins(P[k].list, p.list)
  <2>1. TAKE k \in 0..n
  <2>2. n - k \in 0..n /\ n - (n - k) = k
    BY <1>0
  <2>3. QED
    BY <1>8, <2>2
<1>10. \A k \in 1..n : Follows(P[k - 1], P[k], p.list, c.sources[k])
  <2>1. TAKE k \in 1..n
  <2>2. k \in 0..n
    BY <1>0
  <2>3. QED
    BY <1>5, <1>6, <1>7, <1>9, <2>2, FollowsOnwards
<1>11. Made(c, P, p)
  BY <1>1, <1>5, <1>9, <1>10 DEF Made, n
<1>12. QED
  BY <1>2, <1>11 DEF P

(* References that remember, and operands whose reference is among R. *)
Remembering == [value: Numbers, prior: Numbers, changed: BOOLEAN]
Within(op, R) == IsPlain(op) => op.ref \in R

(* The kinds of operands. *)
LEMMA OpShape ==
    ASSUME NEW N, NEW op \in OpsOn(N)
    PROVE  \/ op.type = "Const" /\ op.num \in Numbers /\ op = ConstOf(op.num)
           \/ /\ op.type \in Types /\ op.type # "Const" /\ op.size \in Sizes
              /\ \/ IsPlain(op) /\ op.ref \in Numbers \X Sizes
                 \/ ~IsPlain(op) /\ \E n \in N : op.ref = <<n>> /\ op.ref[1] = n
<1>1. CASE op \in [type: {"Const"}, size: {"32"}, ref: {NoRef}, num: Numbers]
  BY <1>1 DEF ConstOf
<1>2. CASE op \in [type: Types, size: Sizes, ref: RefsTo(N), num: {0}]
  <2>1. op.type \in Types /\ op.type # "Const" /\ op.size \in Sizes /\ op.ref \in RefsTo(N)
    BY <1>2 DEF Types
  <2>2. CASE op.ref \in Numbers \X Sizes
    <3>1. Len(op.ref) = 2
      BY <2>2
    <3>2. QED
      BY <2>1, <2>2, <3>1 DEF IsPlain
  <2>3. CASE op.ref \in {<<n>> : n \in N}
    <3>1. PICK n \in N : op.ref = <<n>>
      BY <2>3
    <3>2. Len(op.ref) = 1 /\ op.ref[1] = n
      BY <3>1
    <3>3. QED
      BY <2>1, <3>1, <3>2 DEF IsPlain
  <2>4. QED
    BY <2>1, <2>2, <2>3 DEF RefsTo
<1>3. QED
  BY <1>1, <1>2 DEF OpsOn

(* A reference remembers numbers. *)
LEMMA RememberedNumber ==
    ASSUME NEW r \in Remembering, NEW type
    PROVE  Remembered(r, type) \in Numbers
BY DEF Remembering, Remembered

(* An operand evaluates to a number. *)
LEMMA EvaluateNumber ==
    ASSUME NEW R, NEW N, NEW refs \in [R -> Remembering], NEW modified \in [N -> Remembering],
           NEW op \in OpsOn(N), Within(op, R)
    PROVE  EvaluateOperand(op, refs, modified) \in Numbers
<1>1. CASE op.type = "Const"
  <2>1. op.num \in Numbers
    BY <1>1, OpShape DEF Types
  <2>2. QED
    BY <1>1, <2>1 DEF EvaluateOperand
<1>2. CASE op.type # "Const"
  <2>1. PICK r : r = IF IsPlain(op) THEN refs[op.ref] ELSE modified[op.ref[1]]
    OBVIOUS
  <2>2. op.size \in Sizes
    BY <1>2, OpShape
  <2>3. r \in Remembering
    <3>1. CASE IsPlain(op)
      BY <2>1, <3>1 DEF Within
    <3>2. CASE ~IsPlain(op)
      <4>1. op.ref[1] \in N
        BY <1>2, <3>2, OpShape
      <4>2. QED
        BY <2>1, <3>2, <4>1
    <3>3. QED
      BY <3>1, <3>2
  <2>4. EvaluateOperand(op, refs, modified)
          = Decoded(Transform(Remembered(r, op.type), op.size), op.type, op.size)
    BY <1>2, <2>1 DEF EvaluateOperand
  <2>5. QED
    BY <2>2, <2>3, <2>4, RememberedNumber, DecodedNumber
<1>3. QED
  BY <1>1, <1>2

(* Only the earlier references matter to an operand. *)
LEMMA OperandSame ==
    ASSUME NEW N, NEW op \in OpsOn(N), NEW refs, NEW modified, NEW other,
           \A n \in N : modified[n] = other[n]
    PROVE  EvaluateOperand(op, refs, modified) = EvaluateOperand(op, refs, other)
<1>1. CASE op.type = "Const"
  BY <1>1 DEF EvaluateOperand
<1>2. CASE op.type # "Const"
  <2>1. IsPlain(op) \/ op.ref[1] \in N
    BY <1>2, OpShape
  <2>2. QED
    BY <1>2, <2>1 DEF EvaluateOperand
<1>3. QED
  BY <1>1, <1>2

(* A modified reference is given a number. *)
LEMMA ModifiedNumber ==
    ASSUME NEW R, NEW N, NEW refs \in [R -> Remembering], NEW modified \in [N -> Remembering],
           NEW e \in EntriesOn(N), Within(e.parent, R), Within(e.modifier, R), NEW m, Sound(m)
    PROVE  ModifiedValue(e, m, refs, modified) \in Numbers
<1>1. PICK a, b : a = EvaluateOperand(e.parent, refs, modified)
          /\ b = EvaluateOperand(e.modifier, refs, modified)
  OBVIOUS
<1>2. /\ a \in Numbers /\ b \in Numbers /\ e.size \in Sizes
      /\ e.oper \in Arithmetic \cup {"IndirectRead", "SubParent", "SubAccumulator", "AddAccumulator"}
  BY <1>1, EvaluateNumber DEF EntriesOn
<1>3. \A x \in Int : x % Word \in Numbers
  BY Widths, DivMod DEF Numbers
<1>4. (b - a) % Word \in Numbers /\ (a - b) % Word \in Numbers /\ (a + b) % Word \in Numbers
  BY <1>2, <1>3, Widths DEF Numbers
<1>5. Peek(m, (a + b) % Word, e.size) \in Numbers
  BY <1>2, PeekNumber
<1>6. e.oper \in Arithmetic => Combine(a, e.oper, b) \in Numbers
  BY <1>2, CombineNumber
<1>7. QED
  BY <1>1, <1>2, <1>4, <1>5, <1>6 DEF ModifiedValue

(* Only the earlier references matter to a modified one. *)
LEMMA ModifiedSame ==
    ASSUME NEW N, NEW e \in EntriesOn(N), NEW m, NEW refs, NEW modified, NEW other,
           \A n \in N : modified[n] = other[n]
    PROVE  ModifiedValue(e, m, refs, modified) = ModifiedValue(e, m, refs, other)
<1>1. e.parent \in OpsOn(N) /\ e.modifier \in OpsOn(N)
  BY DEF EntriesOn
<1>2. /\ EvaluateOperand(e.parent, refs, modified) = EvaluateOperand(e.parent, refs, other)
      /\ EvaluateOperand(e.modifier, refs, modified) = EvaluateOperand(e.modifier, refs, other)
  BY <1>1, OperandSame
<1>3. QED
  BY <1>2 DEF ModifiedValue

(* What an update makes of a value that is remembered. *)
LEMMA UpdatedToIs ==
    ASSUME NEW r \in Remembering, NEW new \in Numbers
    PROVE  /\ UpdatedTo(r, new) \in Remembering
           /\ UpdatedTo(r, new).value = new
           /\ Remembered(UpdatedTo(r, new), "Delta") = r.value
           /\ UpdatedTo(r, new).prior = IF r.value = new THEN r.prior ELSE r.value
BY DEF UpdatedTo, Remembering, Remembered

(* The operands of a program are within its references. *)
LEMMA ProgramWithin ==
    ASSUME NEW p
    PROVE  /\ Within(p.left, References(p)) /\ Within(p.right, References(p))
           /\ \A n \in DOMAIN p.list : /\ Within(p.list[n].parent, References(p))
                                       /\ Within(p.list[n].modifier, References(p))
<1>1. \A op \in OperandsOf(p) : Within(op, References(p))
  BY DEF Within, References
<1>2. p.left \in OperandsOf(p) /\ p.right \in OperandsOf(p)
  BY DEF OperandsOf
<1>3. \A n \in DOMAIN p.list : p.list[n].parent \in OperandsOf(p)
          /\ p.list[n].modifier \in OperandsOf(p)
  BY DEF OperandsOf
<1>4. QED
  BY <1>1, <1>2, <1>3

(* The references of a program, and its list. *)
LEMMA ProgramReferences ==
    ASSUME NEW p, p.list \in Lists, p.left \in OpsOn(DOMAIN p.list), p.right \in OpsOn(DOMAIN p.list)
    PROVE  /\ References(p) \subseteq Numbers \X Sizes
           /\ \A n \in DOMAIN p.list : /\ n \in Nat /\ 1..(n - 1) \subseteq DOMAIN p.list
                                       /\ p.list[n] \in EntriesOn(1..(n - 1))
                                       /\ p.list[n] \in EntriesOn(DOMAIN p.list)
<1>1. DOMAIN p.list = 1..Len(p.list) /\ Len(p.list) \in Nat
  BY DEF Lists
<1>2. \A n \in DOMAIN p.list : /\ n \in Nat /\ 1..(n - 1) \subseteq DOMAIN p.list
                               /\ p.list[n] \in EntriesOn(1..(n - 1))
  BY <1>1 DEF Lists
<1>3. \A n \in DOMAIN p.list : p.list[n] \in EntriesOn(DOMAIN p.list)
  <2>1. TAKE n \in DOMAIN p.list
  <2>2. EntriesOn(1..(n - 1)) \subseteq EntriesOn(DOMAIN p.list)
    BY <1>2, OpsGrow
  <2>3. QED
    BY <1>2, <2>2
<1>4. \A op \in OperandsOf(p) : op \in OpsOn(DOMAIN p.list)
  BY <1>3 DEF OperandsOf, EntriesOn
<1>5. References(p) \subseteq Numbers \X Sizes
  <2>1. \A op \in OperandsOf(p) : IsPlain(op) => op.ref \in Numbers \X Sizes
    <3>1. TAKE op \in OperandsOf(p)
    <3>2. HAVE IsPlain(op)
    <3>3. op \in OpsOn(DOMAIN p.list)
      BY <1>4
    <3>4. op # ConstOf(op.num)
      <4>1. Len(NoRef) # 2
        BY DEF NoRef
      <4>2. QED
        BY <3>2, <4>1 DEF ConstOf, IsPlain
    <3>5. QED
      BY <3>2, <3>3, <3>4, OpShape
  <2>2. QED
    BY <2>1 DEF References
<1>6. QED
  BY <1>2, <1>3, <1>5

(* The modified references after an update: each has the value of what it now reads. *)
LEMMA UpdatedModsAre ==
    ASSUME program.list \in Lists, program.left \in OpsOn(DOMAIN program.list),
           program.right \in OpsOn(DOMAIN program.list),
           mods \in [DOMAIN program.list -> Remembering],
           NEW refs \in [References(program) -> Remembering], NEW new, Sound(new)
    PROVE  /\ UpdatedMods(new, refs) \in [DOMAIN program.list -> Remembering]
           /\ \A n \in DOMAIN program.list :
                 UpdatedMods(new, refs)[n] =
                    UpdatedTo(mods[n], ModifiedValue(program.list[n], new, refs,
                        UpdatedMods(new, refs)))
<1> DEFINE list == program.list
           n == Len(list)
           D == DOMAIN list
           S == [D -> Remembering]
           Value(k, g) == ModifiedValue(list[k], new, refs, g)
           Step(k, g) == [g EXCEPT ![k] = UpdatedTo(@, Value(k, g))]
           step == [k \in 1..n |-> [g \in S |-> Step(k, g)]]
           Eq(g) == g = [k \in 0..n |-> IF k = 0 THEN mods ELSE Step(k, g[k - 1])]
           Q == ModsAfter(new, refs)
<1>1. n \in Nat /\ D = 1..n
  BY DEF Lists
<1>2. \A k \in D : \A g \in S : Value(k, g) \in Numbers
  <2>1. TAKE k \in D
  <2>2. TAKE g \in S
  <2>3. list[k] \in EntriesOn(D)
    BY ProgramReferences
  <2>4. Within(list[k].parent, References(program)) /\ Within(list[k].modifier, References(program))
    BY ProgramWithin
  <2> HIDE DEF list, D
  <2>5. QED
    BY <2>3, <2>4, ModifiedNumber
<1>3. \A k \in 1..n : \A g \in S : Step(k, g) \in S
  <2>1. TAKE k \in 1..n
  <2>2. TAKE g \in S
  <2>3. Value(k, g) \in Numbers /\ g[k] \in Remembering
    BY <1>1, <1>2
  <2> HIDE DEF Value
  <2>4. UpdatedTo(g[k], Value(k, g)) \in Remembering
    BY <2>3, UpdatedToIs
  <2>5. QED
    BY <1>1, <2>4
<1>4. step \in [1..n -> [S -> S]]
  <2> HIDE DEF S, n, Step
  <2>1. QED
    BY <1>3
<1>5. PICK f \in [0..n -> S] : Solves(f, n, mods, step)
  <2>1. mods \in S
    OBVIOUS
  <2> HIDE DEF S, n, step
  <2>2. QED
    BY <1>1, <1>4, <2>1, RecursionExists
<1>6. Eq(f)
  <2> HIDE DEF S, n, Step
  <2>1. \A k \in 0..n : f[k] = IF k = 0 THEN mods ELSE step[k][f[k - 1]]
    BY <1>5 DEF Solves
  <2>2. \A k \in 1..n : k \in 0..n /\ k # 0 /\ k - 1 \in 0..n
    BY <1>1
  <2>3. \A k \in 1..n : f[k] = Step(k, f[k - 1])
    BY <1>5, <2>1, <2>2
  <2>4. \A k \in 0..n : f[k] = IF k = 0 THEN mods ELSE Step(k, f[k - 1])
    <3>1. \A k \in 0..n : k = 0 \/ k \in 1..n
      BY <1>1
    <3>2. QED
      BY <2>1, <2>3, <3>1
  <2>5. f = [k \in 0..n |-> f[k]]
    BY <1>5
  <2>6. QED
    BY <2>4, <2>5
<1>7. Q = CHOOSE g : Eq(g)
  BY Zenon DEF ModsAfter
<1>8. Eq(Q)
  <2> HIDE DEF Eq
  <2>1. QED
    BY <1>6, <1>7
<1>9. Q[0] = mods /\ \A k \in 1..n : Q[k] = Step(k, Q[k - 1])
  <2> HIDE DEF S, step, n, Step
  <2>1. \A k \in 0..n : Q[k] = IF k = 0 THEN mods ELSE Step(k, Q[k - 1])
    BY <1>8
  <2>2. \A k \in 1..n : k \in 0..n /\ k # 0
    BY <1>1
  <2>3. 0 \in 0..n
    BY <1>1
  <2>4. QED
    BY <2>1, <2>2, <2>3
<1>10. \A k \in 0..n : Q[k] \in S
  <2>1. Q[0] \in S
    BY <1>9
  <2> HIDE DEF S, n, step, Eq, Q, Step
  <2>2. \A k \in 1..n : Q[k - 1] \in S => Q[k] \in S
    BY <1>3, <1>9
  <2>3. QED
    BY <1>1, <2>1, <2>2, RecursionIn
<1>11. UpdatedMods(new, refs) = Q[n]
  BY DEF UpdatedMods
<1>12. \A k \in 1..n : \A i \in D : Q[k][i] = IF i = k THEN UpdatedTo(Q[k - 1][k], Value(k, Q[k - 1]))
                                             ELSE Q[k - 1][i]
  <2>1. TAKE k \in 1..n
  <2>2. TAKE i \in D
  <2>3. Q[k] = Step(k, Q[k - 1]) /\ Q[k - 1] \in S
    <3>1. k - 1 \in 0..n
      BY <1>1
    <3>2. QED
      BY <1>9, <1>10, <3>1
  <2> HIDE DEF Q, Value
  <2>4. QED
    BY <2>3
<1> HIDE DEF Q, Value, Step, step, Eq, S, n, D
\* Entry i has its old value until its turn, and keeps the new one.
<1>13. \A k \in 0..n : \A i \in D : i > k => Q[k][i] = mods[i]
  <2> DEFINE T == {k \in 0..n : \A i \in D : i > k => Q[k][i] = mods[i]}
  <2>1. 0 \in T
    BY <1>1, <1>9
  <2>2. ASSUME NEW k \in 1..n, k - 1 \in T
        PROVE  k \in T
    <3>1. ASSUME NEW i \in D, i > k
          PROVE  Q[k][i] = Q[k - 1][i] /\ i > k - 1
      <4>1. i # k /\ i > k - 1
        BY <1>1, <3>1
      <4>2. QED
        BY <1>12, <4>1
    <3>2. QED
      BY <1>1, <2>2, <3>1
  <2> HIDE DEF T
  <2>3. \A k \in 0..n : k \in T
    BY <1>1, <2>1, <2>2, UpTo
  <2>4. QED
    BY <2>3 DEF T
<1>14. \A i \in D : \A d \in 0..n : i + d <= n => Q[i + d][i] = Q[i][i]
  <2>1. TAKE i \in D
  <2> DEFINE T == {d \in 0..n : i + d <= n => Q[i + d][i] = Q[i][i]}
  <2>2. 0 \in T
    BY <1>1
  <2>3. ASSUME NEW d \in 1..n, d - 1 \in T
        PROVE  d \in T
    <3>1. SUFFICES ASSUME i + d <= n
                   PROVE  Q[i + d][i] = Q[i][i]
      BY <1>1
    <3>2. i + d \in 1..n /\ i # i + d /\ (i + d) - 1 = i + (d - 1) /\ i + (d - 1) <= n
      BY <1>1, <3>1
    <3>3. Q[i + d][i] = Q[(i + d) - 1][i]
      BY <1>12, <3>2
    <3>4. Q[i + (d - 1)][i] = Q[i][i]
      BY <2>3, <3>2
    <3>5. QED
      BY <3>2, <3>3, <3>4
  <2> HIDE DEF T
  <2>4. \A d \in 0..n : d \in T
    BY <1>1, <2>2, <2>3, UpTo
  <2>5. QED
    BY <2>4 DEF T
<1>15. \A i \in D : \A k \in i..n : Q[k][i] = Q[i][i]
  <2>1. TAKE i \in D
  <2>2. TAKE k \in i..n
  <2>3. k - i \in 0..n /\ i + (k - i) = k /\ i + (k - i) <= n
    BY <1>1
  <2>4. Q[i + (k - i)][i] = Q[i][i]
    BY <1>14, <2>3
  <2>5. QED
    BY <2>3, <2>4
<1>16. ASSUME NEW i \in D
       PROVE  Q[n][i] = UpdatedTo(mods[i], Value(i, Q[n]))
  <2>1. i \in 1..n /\ i - 1 \in 0..n /\ i > i - 1 /\ n \in i..n
    BY <1>1
  <2>2. Q[n][i] = Q[i][i]
    BY <1>15, <2>1
  <2>3. Q[i][i] = UpdatedTo(Q[i - 1][i], Value(i, Q[i - 1]))
    BY <1>12, <2>1
  <2>4. Q[i - 1][i] = mods[i]
    BY <1>13, <2>1
  <2>5. \A j \in 1..(i - 1) : Q[i - 1][j] = Q[n][j]
    <3>1. TAKE j \in 1..(i - 1)
    <3>2. j \in D /\ i - 1 \in j..n /\ n \in j..n
      BY <1>1
    <3>3. QED
      BY <1>15, <3>2
  <2>6. Value(i, Q[i - 1]) = Value(i, Q[n])
    <3>1. list[i] \in EntriesOn(1..(i - 1))
      BY ProgramReferences DEF D
    <3>2. PICK x, y : x = Q[i - 1] /\ y = Q[n]
      OBVIOUS
    <3>3. PICK N, e : N = 1..(i - 1) /\ e = list[i]
      OBVIOUS
    <3>4. e \in EntriesOn(N) /\ \A j \in N : x[j] = y[j]
      BY <2>5, <3>1, <3>2, <3>3
    <3>5. ModifiedValue(e, new, refs, x) = ModifiedValue(e, new, refs, y)
      BY <3>4, ModifiedSame
    <3>6. QED
      BY <3>2, <3>3, <3>5 DEF Value
  <2>7. QED
    BY <2>2, <2>3, <2>4, <2>6
<1>17. n \in 0..n
  BY <1>1
<1>18. Q[n] \in [DOMAIN program.list -> Remembering]
  BY <1>10, <1>17 DEF S, D
<1>19. \A i \in DOMAIN program.list :
          Q[n][i] = UpdatedTo(mods[i], ModifiedValue(program.list[i], new, refs, Q[n]))
  BY <1>16 DEF Value, D
<1>20. QED
  BY <1>11, <1>18, <1>19

(* By how much the pointers of a chain move, in a memory m. *)
LEMMA BasesAre ==
    ASSUME NEW c, c.sources \in Seq(Sources), NEW m, Sound(m)
    PROVE  /\ Bases(c, m)[0] = 0
           /\ \A k \in 0..Len(c.sources) : Bases(c, m)[k] \in Numbers
           /\ \A k \in 1..Len(c.sources) : Bases(c, m)[k]
                  = Pointer(c.sources[k], Bases(c, m)[k - 1], m)
<1> DEFINE n == Len(c.sources)
           S == Numbers
           Step(k, x) == Pointer(c.sources[k], x, m)
           step == [k \in 1..n |-> [x \in S |-> Step(k, x)]]
           Eq(g) == g = [k \in 0..n |-> IF k = 0 THEN 0 ELSE Step(k, g[k - 1])]
           Q == Bases(c, m)
<1>1. n \in Nat /\ \A k \in 1..n : c.sources[k] \in Sources
  OBVIOUS
<1>2. 0 \in S
  BY Widths DEF Numbers
<1>3. \A k \in 1..n : \A x \in S : Step(k, x) \in S
  <2> HIDE DEF n
  <2>1. QED
    BY <1>1, PointerNumber
<1>4. step \in [1..n -> [S -> S]]
  <2> HIDE DEF S, n, Step
  <2>1. QED
    BY <1>3
<1>5. PICK f \in [0..n -> S] : Solves(f, n, 0, step)
  <2> HIDE DEF S, n, step
  <2>1. QED
    BY <1>1, <1>2, <1>4, RecursionExists
<1>6. Eq(f)
  <2> HIDE DEF S, n, Step
  <2>1. \A k \in 0..n : f[k] = IF k = 0 THEN 0 ELSE step[k][f[k - 1]]
    BY <1>5 DEF Solves
  <2>2. \A k \in 1..n : k \in 0..n /\ k # 0 /\ k - 1 \in 0..n
    BY <1>1
  <2>3. \A k \in 1..n : f[k] = Step(k, f[k - 1])
    BY <1>5, <2>1, <2>2
  <2>4. \A k \in 0..n : f[k] = IF k = 0 THEN 0 ELSE Step(k, f[k - 1])
    <3>1. \A k \in 0..n : k = 0 \/ k \in 1..n
      BY <1>1
    <3>2. QED
      BY <2>1, <2>3, <3>1
  <2>5. f = [k \in 0..n |-> f[k]]
    BY <1>5
  <2>6. QED
    BY <2>4, <2>5
<1>7. Q = CHOOSE g : Eq(g)
  BY Zenon DEF Bases
<1>8. Eq(Q)
  <2> HIDE DEF Eq
  <2>1. QED
    BY <1>6, <1>7
<1>9. Q[0] = 0 /\ \A k \in 1..n : Q[k] = Step(k, Q[k - 1])
  <2> HIDE DEF S, step, n, Step
  <2>1. \A k \in 0..n : Q[k] = IF k = 0 THEN 0 ELSE Step(k, Q[k - 1])
    BY <1>8
  <2>2. \A k \in 1..n : k \in 0..n /\ k # 0
    BY <1>1
  <2>3. 0 \in 0..n
    BY <1>1
  <2>4. QED
    BY <2>1, <2>2, <2>3
<1>10. \A k \in 0..n : Q[k] \in S
  <2> HIDE DEF S, n, step, Eq, Q, Step
  <2>1. Q[0] \in S
    BY <1>2, <1>9
  <2>2. \A k \in 1..n : Q[k - 1] \in S => Q[k] \in S
    BY <1>3, <1>9
  <2>3. QED
    BY <1>1, <2>1, <2>2, RecursionIn
<1>11. QED
  BY <1>9, <1>10

(***************************************************************************
 What references have to do with the memory.  v are the values of references,
 taken as they are now or as they were.
 ***************************************************************************)
ValuesOf(records, type) == [n \in DOMAIN records |-> Remembered(records[n], type)]

ReadsMemory(v, m) == \A r \in DOMAIN v : v[r] = Peek(m, r[1], r[2])

(* The reads behind the pointer of the k-th condition of c. *)
PointsAt(c, P, list, v, m, k) ==
    \A n \in DOMAIN list, a \in Numbers, size \in Sizes :
        list[n] = Modified(P[k].ind, "IndirectRead", ConstOf(a), size) =>
            v[n] = Peek(m, (Bases(c, m)[k] + a) % Word, size)

Points(c, P, list, v, m) == \A k \in 0..Len(c.sources) : PointsAt(c, P, list, v, m, k)

OperandAt(op, rv, mv) ==
    IF op.type = "Const" THEN op.num
    ELSE Decoded(Transform(IF IsPlain(op) THEN rv[op.ref] ELSE mv[op.ref[1]], op.size), op.type,
        op.size)

(* An operand evaluates to what it reads of the values it asks for. *)
LEMMA EvaluatesAt ==
    ASSUME NEW R, NEW N, NEW refs \in [R -> Remembering], NEW modified \in [N -> Remembering],
           NEW op \in OpsOn(N), Within(op, R)
    PROVE  EvaluateOperand(op, refs, modified)
             = OperandAt(op, ValuesOf(refs, op.type), ValuesOf(modified, op.type))
<1>1. CASE op.type = "Const"
  BY <1>1 DEF EvaluateOperand, OperandAt
<1>2. CASE op.type # "Const"
  <2>1. CASE IsPlain(op)
    <3>1. op.ref \in R
      BY <2>1 DEF Within
    <3>2. ValuesOf(refs, op.type)[op.ref] = Remembered(refs[op.ref], op.type)
      BY <3>1 DEF ValuesOf
    <3>3. QED
      BY <1>2, <2>1, <3>2 DEF EvaluateOperand, OperandAt
  <2>2. CASE ~IsPlain(op)
    <3>1. op.ref[1] \in N
      BY <1>2, <2>2, OpShape
    <3>2. ValuesOf(modified, op.type)[op.ref[1]] = Remembered(modified[op.ref[1]], op.type)
      BY <3>1 DEF ValuesOf
    <3>3. QED
      BY <1>2, <2>2, <3>2 DEF EvaluateOperand, OperandAt
  <2>3. QED
    BY <2>1, <2>2
<1>3. QED
  BY <1>1, <1>2

(* The present values are the values. *)
LEMMA PresentValues ==
    ASSUME NEW records, NEW type, type \notin {"Delta", "Prior"}
    PROVE  ValuesOf(records, type) = [n \in DOMAIN records |-> records[n].value]
BY DEF ValuesOf, Remembered

(* Where nothing points, nothing moves. *)
LEMMA NoPointer ==
    ASSUME NEW c \in Conditions, NEW P, NEW p, Made(c, P, p), NEW m, Sound(m),
           NEW k \in 0..Len(c.sources), P[k].ind = Absent
    PROVE  Bases(c, m)[k] = 0
<1>0. c.sources \in Seq(Sources)
  BY ConditionsAssumption
<1>1. CASE k = 0
  BY <1>0, <1>1, BasesAre
<1>2. CASE k # 0
  <2>1. k \in 1..Len(c.sources)
    BY <1>0, <1>2
  <2>2. Follows(P[k - 1], P[k], p.list, c.sources[k])
    BY <2>1 DEF Made
  <2>3. c.sources[k].flag # "AddAddress"
    BY <2>2 DEF Follows, MovesOn, Accumulates, Subtracts
  <2>4. Pointer(c.sources[k], Bases(c, m)[k - 1], m) = 0
    BY <2>3 DEF Pointer
  <2>5. QED
    BY <1>0, <2>1, <2>4, BasesAre
<1>3. QED
  BY <1>1, <1>2

(* An operand reads what is written, whatever it is shared with. *)
LEMMA OperandReads ==
    ASSUME NEW c \in Conditions, NEW P, NEW p, Made(c, P, p), NEW m, Sound(m), NEW rv, NEW mv,
           DOMAIN rv = References(p), ReadsMemory(rv, m), NEW k \in 0..Len(c.sources),
           PointsAt(c, P, p.list, mv, m, k),
           NEW o \in Operands, o.type # "Prior",
           NEW op, Reads(op, p.list, o, P[k].ind), Within(op, References(p))
    PROVE  OperandAt(op, rv, mv) = Read(o, Bases(c, m)[k], m)
<1>1. CASE o.type = "Const"
  BY <1>1 DEF Reads, ConstOf, OperandAt, Read
<1>2. CASE o.type # "Const"
  <2>1. o \in MemoryOperands
    BY <1>2 DEF Operands, ConstantOperands
  <2>2. /\ o.addr \in Numbers /\ o.size \in Sizes /\ RefSize(o) \in Sizes
        /\ RefSize(o) = SharedSize(o.size)
    BY <2>1, OperandSizes
  <2>3. op.type = o.type /\ op.size = o.size
    BY <1>2 DEF Reads
  <2>4. PICK x : x = IF IsPlain(op) THEN rv[op.ref] ELSE mv[op.ref[1]]
    OBVIOUS
  <2>5. OperandAt(op, rv, mv) = Decoded(Transform(x, o.size), o.type, o.size)
    BY <1>2, <2>3, <2>4 DEF OperandAt
  <2>6. x = Peek(m, (Bases(c, m)[k] + o.addr) % Word, SharedSize(o.size))
    <3>1. CASE P[k].ind = Absent
      <4>1. op.ref = <<o.addr, RefSize(o)>> /\ IsPlain(op)
        <5>1. op.ref = <<o.addr, RefSize(o)>>
          BY <1>2, <3>1 DEF Reads
        <5>2. QED
          BY <5>1 DEF IsPlain
      <4>2. x = Peek(m, o.addr, RefSize(o))
        <5>1. op.ref \in DOMAIN rv
          BY <4>1 DEF Within
        <5>2. rv[op.ref] = Peek(m, op.ref[1], op.ref[2])
          BY <5>1 DEF ReadsMemory
        <5>3. op.ref[1] = o.addr /\ op.ref[2] = RefSize(o)
          BY <4>1
        <5>4. QED
          BY <2>4, <4>1, <5>2, <5>3
      <4>3. Bases(c, m)[k] = 0
        BY <3>1, NoPointer
      <4>4. (0 + o.addr) % Word = o.addr
        BY <2>2, Widths DEF Numbers
      <4>5. QED
        BY <2>2, <4>2, <4>3, <4>4
    <3>2. CASE P[k].ind # Absent
      <4>1. PICK n \in DOMAIN p.list :
              /\ op.ref = <<n>>
              /\ p.list[n] = Modified(P[k].ind, "IndirectRead", ConstOf(o.addr), RefSize(o))
        BY <1>2, <3>2 DEF Reads
      <4>2. ~IsPlain(op) /\ op.ref[1] = n
        BY <4>1 DEF IsPlain
      <4>3. mv[n] = Peek(m, (Bases(c, m)[k] + o.addr) % Word, RefSize(o))
        BY <2>2, <4>1 DEF PointsAt
      <4>4. QED
        BY <2>2, <2>4, <4>2, <4>3
    <3>3. QED
      BY <3>1, <3>2
  <2>7. QED
    BY <1>2, <2>5, <2>6 DEF Read, Now
<1>3. QED
  BY <1>1, <1>2

(* What a reference to a modified reference evaluates to. *)
LEMMA ReferenceEvaluates ==
    ASSUME NEW n, NEW refs, NEW modified, NEW type \in {"Address", "Delta"}
    PROVE  EvaluateOperand([Reference(n) EXCEPT !.type = type], refs, modified)
             = Remembered(modified[n], type)
<1>1. PICK op : op = [Reference(n) EXCEPT !.type = type]
  OBVIOUS
<1>2. op.type = type /\ op.size = "32" /\ op.ref = <<n>> /\ ~IsPlain(op) /\ op.ref[1] = n
  BY <1>1 DEF Reference, IsPlain
<1>3. \A x : Decoded(Transform(x, "32"), type, "32") = x
  BY DEF Transform, Decoded
<1>4. EvaluateOperand(op, refs, modified) = Remembered(modified[n], type)
  BY <1>2, <1>3 DEF EvaluateOperand
<1>5. QED
  BY <1>1, <1>4

(* The type of a reference is Address. *)
LEMMA PlainReference ==
    ASSUME NEW n
    PROVE  Reference(n) = [Reference(n) EXCEPT !.type = "Address"]
BY DEF Reference

(* The modified references hold what they read. *)
ReadsNow(list, m, refs, modified) ==
    \A n \in DOMAIN list : modified[n].value = ModifiedValue(list[n], m, refs, modified)

(* The pointers of a chain move by what is written, however they are built. *)
LEMMA PointersPoint ==
    ASSUME NEW c \in Conditions, NEW P, NEW p, Made(c, P, p), NEW m, Sound(m),
           NEW refs \in [References(p) -> Remembering],
               NEW modified \in [DOMAIN p.list -> Remembering],
           ReadsMemory(ValuesOf(refs, "Address"), m), ReadsNow(p.list, m, refs, modified)
    PROVE  Points(c, P, p.list, ValuesOf(modified, "Address"), m)
<1> DEFINE list == p.list
           D == DOMAIN p.list
           R == References(p)
           rv == ValuesOf(refs, "Address")
           mv == ValuesOf(modified, "Address")
           Eval(op) == EvaluateOperand(op, refs, modified)
<1>0. /\ c.sources \in Seq(Sources) /\ Len(c.sources) \in Nat
      /\ \A k \in 1..Len(c.sources) : c.sources[k] \in Sources
      /\ \A k \in 1..Len(c.sources) : c.sources[k].flag = "AddAddress" =>
              {c.sources[k].left.type, c.sources[k].right.type} \cap {"Delta", "Prior"} = {}
  <2>1. c.sources \in Seq(Sources)
    BY ConditionsAssumption
  <2>2. DOMAIN c.sources = 1..Len(c.sources)
    BY <2>1
  <2>3. QED
    BY <2>1, <2>2, ConditionsAssumption
<1>1. /\ p.list \in Lists /\ p.left \in OpsOn(D) /\ p.right \in OpsOn(D)
      /\ \A k \in 1..Len(c.sources) : Follows(P[k - 1], P[k], list, c.sources[k])
      /\ P[0] = Parsing
  BY DEF Made, EndsChain
<1>2. \A n \in D : /\ list[n] \in EntriesOn(D) /\ list[n].parent \in OpsOn(D)
          /\ list[n].modifier \in OpsOn(D)
                   /\ Within(list[n].parent, R) /\ Within(list[n].modifier, R)
                   /\ list[n].parent # Absent
  <2>1. \A n \in D : list[n] \in EntriesOn(D)
    BY <1>1, ProgramReferences
  <2>2. QED
    BY <2>1, ProgramWithin, NotAbsent DEF EntriesOn
<1>3. DOMAIN rv = R /\ DOMAIN mv = D /\ \A n \in D : mv[n] = modified[n].value
  BY DEF ValuesOf, Remembered
<1>4. \A op \in OpsOn(D) : Within(op, R)
          /\ op.type \notin {"Delta", "Prior"} => Eval(op) = OperandAt(op, rv, mv)
  <2>1. TAKE op \in OpsOn(D)
  <2>2. HAVE Within(op, R) /\ op.type \notin {"Delta", "Prior"}
  <2>3. ValuesOf(refs, op.type) = rv /\ ValuesOf(modified, op.type) = mv
    BY <2>2, PresentValues
  <2>4. QED
    BY <2>2, <2>3, EvaluatesAt
<1> HIDE DEF rv, mv, R, D
<1>5. ASSUME NEW k \in 0..Len(c.sources), PointsAt(c, P, list, mv, m, k),
             NEW o \in Operands, o.type \notin {"Delta", "Prior"}, NEW op \in OpsOn(D),
             Reads(op, list, o, P[k].ind), Within(op, R)
      PROVE  Eval(op) = Read(o, Bases(c, m)[k], m)
  <2>1. op.type \notin {"Delta", "Prior"}
    BY <1>5 DEF Reads, ConstOf
  <2>2. OperandAt(op, rv, mv) = Read(o, Bases(c, m)[k], m)
    BY <1>3, <1>5, OperandReads DEF R, rv
  <2>3. QED
    BY <1>4, <1>5, <2>1, <2>2
<1>6. ASSUME NEW k \in 1..Len(c.sources), PointsAt(c, P, list, mv, m, k - 1)
      PROVE  PointsAt(c, P, list, mv, m, k)
  <2>1. SUFFICES ASSUME NEW n \in DOMAIN list, NEW a \in Numbers, NEW size \in Sizes,
                        list[n] = Modified(P[k].ind, "IndirectRead", ConstOf(a), size)
                 PROVE  mv[n] = Peek(m, (Bases(c, m)[k] + a) % Word, size)
    BY DEF PointsAt
  <2> DEFINE s == c.sources[k]
             base == Bases(c, m)[k - 1]
  <2>2. list[n].parent = P[k].ind /\ list[n].modifier = ConstOf(a)
            /\ list[n].oper = "IndirectRead" /\ list[n].size = size
    BY <2>1 DEF Modified
  <2>3. n \in D /\ P[k].ind # Absent /\ Within(P[k].ind, R) /\ P[k].ind \in OpsOn(D)
    <3>1. n \in D
      BY DEF D
    <3>2. QED
      BY <1>2, <2>2, <3>1
  <2>4. k - 1 \in 0..Len(c.sources) /\ s \in Sources
    BY <1>0
  <2>5. MovesOn(P[k - 1], P[k], list, s)
    <3>1. Follows(P[k - 1], P[k], list, s)
      BY <1>1
    <3>2. QED
      BY <2>3, <3>1 DEF Follows, Accumulates, Subtracts
  <2>6. /\ s.flag = "AddAddress" /\ Converts(P[k].ind, list, s, P[k - 1].ind)
        /\ s.left.type \notin {"Delta", "Prior"} /\ s.right.type \notin {"Delta", "Prior"}
    BY <1>0, <2>5 DEF MovesOn
  <2>7. s.left \in Operands /\ s.right \in Operands /\ s.oper \in Arithmetic \cup {"None"}
    BY <2>4 DEF Sources, Operands
  <2> HIDE DEF s
  <2>8. Eval(P[k].ind) = Pointer(s, base, m)
    <3>1. CASE s.oper = "None"
      <4>1. Reads(P[k].ind, list, s.left, P[k - 1].ind)
        BY <2>6, <3>1 DEF Converts
      <4>2. Eval(P[k].ind) = Read(s.left, base, m)
        BY <1>5, <1>6, <2>3, <2>4, <2>6, <2>7, <4>1
      <4>3. QED
        BY <2>6, <3>1, <4>2 DEF Pointer
    <3>2. CASE s.oper # "None"
      <4>1. PICK left \in OpsOn(D), right \in OpsOn(D), i \in D :
              /\ Reads(left, list, s.left, P[k - 1].ind) /\ Reads(right, list, s.right, P[k - 1].ind)
              /\ P[k].ind = Reference(i) /\ list[i] = Modified(left, s.oper, right, "32")
        BY <2>6, <3>2 DEF Converts, D
      <4>2. list[i].parent = left /\ list[i].modifier = right /\ list[i].oper = s.oper
        BY <4>1 DEF Modified
      <4>3. Within(left, R) /\ Within(right, R)
        BY <1>2, <4>1, <4>2
      <4>4. Eval(left) = Read(s.left, base, m) /\ Eval(right) = Read(s.right, base, m)
        BY <1>5, <1>6, <2>4, <2>6, <2>7, <4>1, <4>3
      <4>5. modified[i].value = ModifiedValue(list[i], m, refs, modified)
        BY <4>1 DEF ReadsNow, D
      <4>6. ModifiedValue(list[i], m, refs, modified) = Combine(Eval(left), s.oper, Eval(right))
        BY <2>7, <3>2, <4>2 DEF ModifiedValue, Arithmetic
      <4>7. Eval(P[k].ind) = modified[i].value
        <5>1. EvaluateOperand([Reference(i) EXCEPT !.type = "Address"], refs, modified)
                  = Remembered(modified[i], "Address")
          BY ReferenceEvaluates
        <5>2. QED
          BY <4>1, <5>1, PlainReference DEF Remembered
      <4>8. QED
        BY <2>6, <3>2, <4>4, <4>5, <4>6, <4>7 DEF Pointer
    <3>3. QED
      BY <3>1, <3>2
  <2>9. Bases(c, m)[k] = Pointer(s, base, m)
    BY <1>0, BasesAre DEF s
  <2>10. modified[n].value = ModifiedValue(list[n], m, refs, modified)
    BY <2>3 DEF ReadsNow, D
  <2>11. Eval(ConstOf(a)) = a
    BY DEF EvaluateOperand, ConstOf
  <2>12. ModifiedValue(list[n], m, refs, modified) = Peek(m, (Eval(P[k].ind) + a) % Word, size)
    BY <2>2, <2>11 DEF ModifiedValue
  <2>13. QED
    BY <1>3, <2>3, <2>8, <2>9, <2>10, <2>12
<1>7. PointsAt(c, P, list, mv, m, 0)
  <2>1. P[0].ind = Absent
    BY <1>1 DEF Parsing
  <2>2. \A n \in DOMAIN list : list[n].parent # P[0].ind
    BY <1>2, <2>1 DEF D
  <2>3. QED
    BY <2>2 DEF PointsAt, Modified
<1>8. \A k \in 0..Len(c.sources) : PointsAt(c, P, list, mv, m, k)
  <2> DEFINE T == {k \in 0..Len(c.sources) : PointsAt(c, P, list, mv, m, k)}
  <2>1. 0 \in T
    BY <1>0, <1>7
  <2>2. \A k \in 1..Len(c.sources) : k - 1 \in T => k \in T
    BY <1>0, <1>6
  <2> HIDE DEF T
  <2>3. \A k \in 0..Len(c.sources) : k \in T
    BY <1>0, <2>1, <2>2, UpTo
  <2>4. QED
    BY <2>3 DEF T
<1>9. QED
  BY <1>8 DEF Points, mv

(* The sums that the parser makes of two references. *)
SumOpers == {"Add", "AddAccumulator", "SubParent", "SubAccumulator"}
SumOf(oper, a, b) ==
    CASE oper = "SubParent" -> (b - a) % Word
      [] oper = "SubAccumulator" -> (a - b) % Word
      [] oper \in {"Add", "AddAccumulator"} -> (a + b) % Word

SumsHold(list, rv, mv) ==
    \A n \in DOMAIN list :
        list[n].oper \in SumOpers /\ list[n].parent.type = "Address"
            /\ list[n].modifier.type = "Address" =>
            mv[n] = SumOf(list[n].oper, OperandAt(list[n].parent, rv, mv),
                OperandAt(list[n].modifier, rv, mv))

(* The values of the references are an image of the memory m. *)
Image(c, P, list, rv, mv, m) ==
    ReadsMemory(rv, m) /\ Points(c, P, list, mv, m) /\ SumsHold(list, rv, mv)

(* What a list makes of references that hold what they read. *)
LEMMA SumsNow ==
    ASSUME NEW R, NEW list, NEW D, D = DOMAIN list,
           \A n \in D : /\ list[n] \in EntriesOn(D)
                        /\ Within(list[n].parent, R) /\ Within(list[n].modifier, R),
           NEW refs \in [R -> Remembering], NEW modified \in [D -> Remembering],
           NEW m, ReadsNow(list, m, refs, modified)
    PROVE  /\ \A n \in D : list[n].oper \in SumOpers =>
                 modified[n].value = SumOf(list[n].oper,
                     EvaluateOperand(list[n].parent, refs, modified),
                                           EvaluateOperand(list[n].modifier, refs, modified))
           /\ SumsHold(list, ValuesOf(refs, "Address"), ValuesOf(modified, "Address"))
<1>1. ASSUME NEW n \in D, list[n].oper \in SumOpers
      PROVE  modified[n].value = SumOf(list[n].oper, EvaluateOperand(list[n].parent, refs, modified),
                                       EvaluateOperand(list[n].modifier, refs, modified))
  <2>1. modified[n].value = ModifiedValue(list[n], m, refs, modified)
    BY DEF ReadsNow
  <2>2. PICK a, b : /\ a = EvaluateOperand(list[n].parent, refs, modified)
                    /\ b = EvaluateOperand(list[n].modifier, refs, modified)
    OBVIOUS
  <2>3. ModifiedValue(list[n], m, refs, modified) = SumOf(list[n].oper, a, b)
    BY <1>1, <2>2 DEF ModifiedValue, SumOf, SumOpers, Combine
  <2>4. QED
    BY <2>1, <2>2, <2>3
<1>2. ASSUME NEW n \in D, list[n].oper \in SumOpers,
             list[n].parent.type = "Address", list[n].modifier.type = "Address"
      PROVE  ValuesOf(modified, "Address")[n]
               = SumOf(list[n].oper,
                       OperandAt(list[n].parent, ValuesOf(refs, "Address"),
                           ValuesOf(modified, "Address")),
                       OperandAt(list[n].modifier, ValuesOf(refs, "Address"),
                           ValuesOf(modified, "Address")))
  <2>1. list[n].parent \in OpsOn(D) /\ list[n].modifier \in OpsOn(D)
    BY DEF EntriesOn
  <2>2. /\ EvaluateOperand(list[n].parent, refs, modified)
              = OperandAt(list[n].parent, ValuesOf(refs, "Address"), ValuesOf(modified, "Address"))
        /\ EvaluateOperand(list[n].modifier, refs, modified)
              = OperandAt(list[n].modifier, ValuesOf(refs, "Address"), ValuesOf(modified, "Address"))
    BY <1>2, <2>1, EvaluatesAt
  <2>3. ValuesOf(modified, "Address")[n] = modified[n].value
    BY DEF ValuesOf, Remembered
  <2>4. QED
    BY <1>1, <1>2, <2>2, <2>3
<1>3. QED
  BY <1>1, <1>2 DEF SumsHold

(* Before the first frame everything reads as zero. *)
LEMMA EmptyPeek ==
    ASSUME NEW a, NEW size \in Sizes
    PROVE  Peek(<<>>, a, size) = 0
<1>1. \A x : ByteAt(<<>>, x) = 0
  BY DEF ByteAt
<1>2. PICK fetched : fetched = IF SharedSize(size) = "8" THEN ByteAt(<<>>, a)
                               ELSE ByteAt(<<>>, a) + Byte * ByteAt(<<>>, (a + 1) % Word)
  OBVIOUS
<1>3. fetched = 0
  BY <1>1, <1>2, Widths
<1>4. 0 \in Numbers /\ 0 % Byte = 0 /\ 0 % Nibble = 0 /\ 0 % 2 = 0 /\ 0 \div Nibble = 0
          /\ 0 * Nibble = 0
  <2>1. 0 \in Numbers
    BY Widths DEF Numbers
  <2>2. \A w \in Nat \ {0} : 0 % w = 0 /\ 0 \div w = 0
    <3>1. TAKE w \in Nat \ {0}
    <3>2. 0 = 0 * w + 0 /\ 0 \in 0..(w - 1)
      OBVIOUS
    <3>3. QED
      BY <3>2, Remainder
  <2>3. QED
    BY <2>1, <2>2, Widths
<1>5. BitAnd(0, Mask(size)) = 0
  <2>1. /\ BitAnd(0, Word - 1) = 0
        /\ BitAnd(0, Byte - 1) = 0 % Byte
        /\ BitAnd(0, Nibble - 1) = 0 % Nibble
        /\ BitAnd(0, (Nibble - 1) * Nibble) = ((0 \div Nibble) % Nibble) * Nibble
        /\ BitAnd(0, 1) = 0 % 2
    BY <1>4, MasksAssumption
  <2>2. /\ BitAnd(0, Word - 1) = 0 /\ BitAnd(0, Byte - 1) = 0 /\ BitAnd(0, Nibble - 1) = 0
        /\ BitAnd(0, (Nibble - 1) * Nibble) = 0 /\ BitAnd(0, 1) = 0
    BY <1>4, <2>1
  <2>3. QED
    BY <2>2 DEF Mask, Sizes
<1>6. QED
  BY <1>2, <1>3, <1>5 DEF Peek

(* Every part of zero is zero. *)
LEMMA ZeroTransform ==
    ASSUME NEW size \in Sizes
    PROVE  Transform(0, size) = 0
<1>1. \A w \in Nat \ {0} : 0 % w = 0 /\ 0 \div w = 0
  <2>1. TAKE w \in Nat \ {0}
  <2>2. 0 = 0 * w + 0 /\ 0 \in 0..(w - 1)
    OBVIOUS
  <2>3. QED
    BY <2>2, Remainder
<1>2. CASE size # "BITCOUNT"
  <2>1. 0 % Byte = 0 /\ 0 \div Byte = 0 /\ 0 % Nibble = 0 /\ 0 \div Nibble = 0 /\ 0 % 2 = 0
            /\ 0 * Byte = 0
    BY <1>1, Widths
  <2>2. QED
    BY <1>2, <2>1 DEF Transform, Sizes
<1>3. CASE size = "BITCOUNT"
  <2>1. \A k \in 0..(2 * NibbleBits - 1) : BitAt(0, k) # 1
    <3>1. TAKE k \in 0..(2 * NibbleBits - 1)
    <3>2. PICK w : w = 2 ^ k
      OBVIOUS
    <3>3. w \in Nat \ {0}
      BY <3>2, BitsAssumption
    <3>4. 0 \div w = 0 /\ 0 % 2 = 0
      BY <1>1, <3>3
    <3>5. BitAt(0, k) = (0 \div w) % 2
      BY <3>2 DEF BitAt
    <3>6. QED
      BY <3>4, <3>5
  <2>2. Transform(0, size) = Cardinality({})
    BY <1>3, <2>1 DEF Transform
  <2>3. QED
    BY <2>2, FS_EmptySet
<1>4. QED
  BY <1>2, <1>3

(* ... so that every reference holds what it reads. *)
LEMMA ZeroImage ==
    ASSUME NEW c \in Conditions, NEW P, NEW p, Made(c, P, p),
           NEW rv, rv = [r \in References(p) |-> 0], NEW mv, mv = [n \in DOMAIN p.list |-> 0]
    PROVE  Image(c, P, p.list, rv, mv, <<>>)
<1>0. /\ p.list \in Lists
      /\ p.left \in OpsOn(DOMAIN p.list) /\ p.right \in OpsOn(DOMAIN p.list)
  BY DEF Made, EndsChain
<1>1. /\ References(p) \subseteq Numbers \X Sizes
      /\ \A n \in DOMAIN p.list : p.list[n] \in EntriesOn(DOMAIN p.list)
      /\ \A n \in DOMAIN p.list : /\ Within(p.list[n].parent, References(p))
                                  /\ Within(p.list[n].modifier, References(p))
  BY <1>0, ProgramReferences, ProgramWithin
<1>2. ReadsMemory(rv, <<>>)
  BY <1>1, EmptyPeek DEF ReadsMemory
<1>3. Points(c, P, p.list, mv, <<>>)
  BY EmptyPeek DEF Points, PointsAt
<1>4. ASSUME NEW op \in OpsOn(DOMAIN p.list), Within(op, References(p)), op.type = "Address"
      PROVE  OperandAt(op, rv, mv) = 0
  <2>1. op.size \in Sizes
    BY <1>4 DEF OpsOn
  <2>2. IsPlain(op) => rv[op.ref] = 0
    BY <1>4 DEF Within
  <2>3. ~IsPlain(op) => mv[op.ref[1]] = 0
    BY <1>4, OpShape
  <2>4. OperandAt(op, rv, mv) = Decoded(Transform(0, op.size), "Address", op.size)
    BY <1>4, <2>2, <2>3 DEF OperandAt
  <2>5. QED
    BY <2>1, <2>4, ZeroTransform DEF Decoded
<1>5. \A oper \in SumOpers : SumOf(oper, 0, 0) = 0
  <2>1. 0 % Word = 0
    <3>1. 0 = 0 * Word + 0 /\ 0 \in 0..(Word - 1) /\ Word \in Nat /\ Word > 0
      BY Widths
    <3>2. QED
      BY <3>1, Remainder
  <2>2. QED
    BY <2>1 DEF SumOf, SumOpers
<1>6. ASSUME NEW n \in DOMAIN p.list, p.list[n].oper \in SumOpers,
             p.list[n].parent.type = "Address", p.list[n].modifier.type = "Address"
      PROVE  mv[n] = SumOf(p.list[n].oper, OperandAt(p.list[n].parent, rv, mv),
                           OperandAt(p.list[n].modifier, rv, mv))
  <2>1. /\ p.list[n].parent \in OpsOn(DOMAIN p.list) /\ p.list[n].modifier \in OpsOn(DOMAIN p.list)
        /\ Within(p.list[n].parent, References(p)) /\ Within(p.list[n].modifier, References(p))
    BY <1>1 DEF EntriesOn
  <2>2. OperandAt(p.list[n].parent, rv, mv) = 0 /\ OperandAt(p.list[n].modifier, rv, mv) = 0
    BY <1>4, <1>6, <2>1
  <2>3. QED
    BY <1>5, <1>6, <2>2
<1>7. QED
  BY <1>2, <1>3, <1>6 DEF Image, SumsHold

(***************************************************************************
 The invariant.  The references hold what the frame found, and remember as deltas
 what the frame before it found.
 ***************************************************************************)
HoldsImage(type, m) ==
    Image(condition, Parsed(condition), program.list,
          ValuesOf(memrefs, type), ValuesOf(mods, type), m)

MemoryHeld ==
    /\ condition \in Conditions /\ program = Compiled(condition)
    /\ Sound(memory) /\ Sound(before) /\ started \in BOOLEAN
    /\ memrefs \in [References(program) -> Remembering]
    /\ mods \in [DOMAIN program.list -> Remembering]
    /\ HoldsImage("Address", memory) /\ HoldsImage("Delta", before)
    /\ started => ReadsNow(program.list, memory, memrefs, mods)

(* The invariant holds at the start: every reference is zero, and nothing is in memory. *)
LEMMA MemoryHeldInitially ==
    ASSUME MemoryInit
    PROVE  MemoryHeld
<1>1. /\ condition \in Conditions /\ program = Compiled(condition)
      /\ Sound(memory) /\ Sound(before) /\ started = FALSE
      /\ memory = <<>> /\ before = <<>>
      /\ memrefs = [r \in References(program) |-> NeverRead]
      /\ mods = [n \in DOMAIN program.list |-> NeverRead]
  BY DEF MemoryInit, Sound
<1>2. NeverRead \in Remembering
  BY Widths DEF NeverRead, Remembering, Numbers
<1>3. ASSUME NEW type
      PROVE  HoldsImage(type, <<>>)
  <2>1. Remembered(NeverRead, type) = 0
    BY DEF NeverRead, Remembered
  <2>2. /\ ValuesOf(memrefs, type) = [r \in References(program) |-> 0]
        /\ ValuesOf(mods, type) = [n \in DOMAIN program.list |-> 0]
    BY <1>1, <2>1 DEF ValuesOf
  <2>3. PICK P : P = Parsed(condition)
    OBVIOUS
  <2>4. Made(condition, P, program)
    BY <1>1, <2>3, CompiledIs
  <2>5. Image(condition, P, program.list, ValuesOf(memrefs, type), ValuesOf(mods, type), <<>>)
    BY <1>1, <2>2, <2>4, ZeroImage
  <2>6. QED
    BY <2>3, <2>5 DEF HoldsImage
<1>4. QED
  BY <1>1, <1>2, <1>3 DEF MemoryHeld

(* What a frame makes of the references. *)
LEMMA FrameReads ==
    ASSUME MemoryHeld, NEW new \in Contents,
           NEW refs, refs = [r \in DOMAIN memrefs |-> UpdatedTo(memrefs[r], Peek(new, r[1], r[2]))],
           NEW modified, modified = UpdatedMods(new, refs)
    PROVE  /\ Sound(new)
           /\ refs \in [References(program) -> Remembering]
           /\ modified \in [DOMAIN program.list -> Remembering]
           /\ ReadsNow(program.list, new, refs, modified)
           /\ Image(condition, Parsed(condition), program.list,
                    ValuesOf(refs, "Address"), ValuesOf(modified, "Address"), new)
           /\ ValuesOf(refs, "Delta") = ValuesOf(memrefs, "Address")
           /\ ValuesOf(modified, "Delta") = ValuesOf(mods, "Address")
           /\ \A r \in References(program) : refs[r] = UpdatedTo(memrefs[r], refs[r].value)
           /\ \A n \in DOMAIN program.list : modified[n] = UpdatedTo(mods[n], modified[n].value)
<1> DEFINE R == References(program)
           list == program.list
           D == DOMAIN program.list
<1>1. Sound(new)
  BY ContentsAssumption DEF Sound
<1>2. PICK P : P = Parsed(condition)
  OBVIOUS
<1>3. /\ condition \in Conditions /\ Made(condition, P, program)
      /\ memrefs \in [R -> Remembering] /\ mods \in [D -> Remembering]
  BY <1>2, CompiledIs DEF MemoryHeld
<1>4. list \in Lists /\ program.left \in OpsOn(D) /\ program.right \in OpsOn(D)
  BY <1>3 DEF Made, EndsChain
<1>5. /\ R \subseteq Numbers \X Sizes
      /\ \A n \in D : /\ list[n] \in EntriesOn(D)
                      /\ Within(list[n].parent, R) /\ Within(list[n].modifier, R)
  BY <1>4, ProgramReferences, ProgramWithin
<1>6. \A r \in R : memrefs[r] \in Remembering /\ Peek(new, r[1], r[2]) \in Numbers
  BY <1>1, <1>3, <1>5, PeekNumber
<1>7. /\ refs \in [R -> Remembering]
      /\ \A r \in R : /\ refs[r].value = Peek(new, r[1], r[2])
                      /\ Remembered(refs[r], "Delta") = memrefs[r].value
  BY <1>3, <1>6, UpdatedToIs
<1>8. /\ modified \in [D -> Remembering]
      /\ \A n \in D : modified[n] = UpdatedTo(mods[n], ModifiedValue(list[n], new, refs, modified))
  BY <1>1, <1>3, <1>4, <1>7, UpdatedModsAre
<1>9. \A n \in D : /\ mods[n] \in Remembering
                   /\ ModifiedValue(list[n], new, refs, modified) \in Numbers
  BY <1>1, <1>3, <1>5, <1>7, <1>8, ModifiedNumber
<1>10. \A n \in D : /\ modified[n].value = ModifiedValue(list[n], new, refs, modified)
                    /\ Remembered(modified[n], "Delta") = mods[n].value
  BY <1>8, <1>9, UpdatedToIs
<1>11. ReadsNow(list, new, refs, modified)
  BY <1>10 DEF ReadsNow
<1>12. /\ ValuesOf(refs, "Delta") = ValuesOf(memrefs, "Address")
       /\ ValuesOf(modified, "Delta") = ValuesOf(mods, "Address")
  <2>1. /\ ValuesOf(memrefs, "Address") = [r \in R |-> memrefs[r].value]
        /\ ValuesOf(mods, "Address") = [n \in D |-> mods[n].value]
    BY <1>3, PresentValues
  <2>2. /\ ValuesOf(refs, "Delta") = [r \in R |-> memrefs[r].value]
        /\ ValuesOf(modified, "Delta") = [n \in D |-> mods[n].value]
    BY <1>7, <1>8, <1>10 DEF ValuesOf
  <2>3. QED
    BY <2>1, <2>2
<1>13. ReadsMemory(ValuesOf(refs, "Address"), new)
  BY <1>7, PresentValues DEF ReadsMemory
<1>14. Points(condition, P, list, ValuesOf(modified, "Address"), new)
  BY <1>1, <1>3, <1>7, <1>8, <1>11, <1>13, PointersPoint
<1>15. SumsHold(list, ValuesOf(refs, "Address"), ValuesOf(modified, "Address"))
  BY <1>5, <1>7, <1>8, <1>11, SumsNow
<1>16. \A r \in R : refs[r] = UpdatedTo(memrefs[r], refs[r].value)
  <2>1. TAKE r \in R
  <2>2. refs[r] = UpdatedTo(memrefs[r], Peek(new, r[1], r[2]))
            /\ refs[r].value = Peek(new, r[1], r[2])
    BY <1>3, <1>7
  <2>3. QED
    BY <2>2
<1>17. \A n \in D : modified[n] = UpdatedTo(mods[n], modified[n].value)
  <2>1. TAKE n \in D
  <2>2. PICK v : v = ModifiedValue(list[n], new, refs, modified)
    OBVIOUS
  <2>3. modified[n] = UpdatedTo(mods[n], v) /\ modified[n].value = v
    BY <1>8, <1>10, <2>2
  <2>4. QED
    BY <2>3
<1>18. QED
  BY <1>1, <1>2, <1>7, <1>8, <1>11, <1>12, <1>13, <1>14, <1>15, <1>16, <1>17 DEF Image

(* Every frame keeps the invariant. *)
LEMMA MemoryHeldOnwards ==
    ASSUME MemoryHeld, [MemoryNext]_memoryVars
    PROVE  MemoryHeld'
<1>1. CASE UNCHANGED memoryVars
  BY <1>1 DEF memoryVars, MemoryHeld, HoldsImage
<1>2. ASSUME NEW new \in Contents, UpdateMemrefs(new)
      PROVE  MemoryHeld'
  <2>1. PICK refs : refs = memrefs'
    OBVIOUS
  <2>2. PICK modified : modified = mods'
    OBVIOUS
  <2>3. /\ refs = [r \in DOMAIN memrefs |-> UpdatedTo(memrefs[r], Peek(new, r[1], r[2]))]
        /\ modified = UpdatedMods(new, refs)
        /\ memory' = new /\ before' = memory /\ started' = TRUE
        /\ condition' = condition /\ program' = program
    BY <1>2, <2>1, <2>2 DEF UpdateMemrefs
  <2>4. /\ Sound(new)
        /\ refs \in [References(program) -> Remembering]
        /\ modified \in [DOMAIN program.list -> Remembering]
        /\ ReadsNow(program.list, new, refs, modified)
        /\ Image(condition, Parsed(condition), program.list,
                 ValuesOf(refs, "Address"), ValuesOf(modified, "Address"), new)
        /\ ValuesOf(refs, "Delta") = ValuesOf(memrefs, "Address")
        /\ ValuesOf(modified, "Delta") = ValuesOf(mods, "Address")
    BY <2>3, FrameReads
  <2>5. /\ condition \in Conditions /\ program = Compiled(condition) /\ Sound(memory)
        /\ Image(condition, Parsed(condition), program.list,
                 ValuesOf(memrefs, "Address"), ValuesOf(mods, "Address"), memory)
    BY DEF MemoryHeld, HoldsImage
  <2>6. (HoldsImage("Address", memory))' /\ (HoldsImage("Delta", before))'
    BY <2>1, <2>2, <2>3, <2>4, <2>5 DEF HoldsImage
  <2>7. (started => ReadsNow(program.list, memory, memrefs, mods))'
    BY <2>1, <2>2, <2>3, <2>4
  <2>8. QED
    BY <2>1, <2>2, <2>3, <2>4, <2>5, <2>6, <2>7 DEF MemoryHeld
<1>3. QED
  BY <1>1, <1>2 DEF MemoryNext

(***************************************************************************
 A Prior: the parts of the memory that it reads, and what it remembers of them.
 ***************************************************************************)
LEMMA SwapTells ==
    ASSUME NEW x \in Numbers, NEW y \in Numbers, Transform(x, "32BE") = Transform(y, "32BE")
    PROVE  x = y
<1>1. /\ Byte \in Nat /\ Byte > 0 /\ x \in Int /\ y \in Int
      /\ x >= 0 /\ x < Byte * Byte /\ y >= 0 /\ y < Byte * Byte
  BY Widths DEF Numbers
<1>2. PICK q, r : q = x \div Byte /\ r = x % Byte
  OBVIOUS
<1>3. PICK p, s : p = y \div Byte /\ s = y % Byte
  OBVIOUS
<1>4. /\ q \in Int /\ r \in 0..(Byte - 1) /\ x = q * Byte + r
      /\ p \in Int /\ s \in 0..(Byte - 1) /\ y = p * Byte + s
  BY <1>1, <1>2, <1>3, DivMod
<1>5. q \in 0..(Byte - 1) /\ p \in 0..(Byte - 1)
  <2>1. \A z, w, t \in Int : w > 0 /\ t \in 0..(w - 1) /\ z * w + t >= 0
            /\ z * w + t < w * w => z \in 0..(w - 1)
    <3>1. TAKE z, w, t \in Int
    <3>2. SUFFICES ASSUME w > 0, t \in 0..(w - 1), z * w + t >= 0, z * w + t < w * w
                   PROVE  z \in 0..(w - 1)
      OBVIOUS
    <3>3. z >= 0
      <4>1. SUFFICES ASSUME z <= -1 PROVE FALSE
        BY <3>2
      <4>2. z * w <= -w
        BY <3>2, <4>1
      <4>3. QED
        BY <3>2, <4>2
    <3>4. z <= w - 1
      <4>1. SUFFICES ASSUME z >= w PROVE FALSE
        BY <3>2
      <4>2. z * w >= w * w
        BY <3>2, <4>1
      <4>3. QED
        BY <3>2, <4>2
    <3>5. QED
      BY <3>3, <3>4
  <2>2. QED
    BY <1>1, <1>4, <2>1
<1>6. Transform(x, "32BE") = r * Byte + q /\ Transform(y, "32BE") = s * Byte + p
  BY <1>2, <1>3 DEF Transform
<1>7. r = s /\ q = p
  BY <1>1, <1>4, <1>5, <1>6, OneRemainder
<1>8. QED
  BY <1>4, <1>7

(* The part of the memory that a size fetches, and the bits of it that the size keeps. *)
LEMMA PeekIs ==
    ASSUME NEW m, Sound(m), NEW a
    PROVE  \E x \in 0..(Byte - 1) :
               /\ Peek(m, a, "8") = x
               /\ Peek(m, a, "LOW") = x % Nibble
               /\ Peek(m, a, "HIGH") = ((x \div Nibble) % Nibble) * Nibble
               /\ Peek(m, a, "BIT0") = x % 2
<1>1. PICK x : x = ByteAt(m, a)
  OBVIOUS
<1>2. x \in 0..(Byte - 1) /\ x \in Numbers
  BY <1>1, Widths DEF ByteAt, Sound, Bytes, Numbers
<1>3. x % Byte = x
  <2>1. x = 0 * Byte + x /\ x \in Int /\ Byte \in Nat /\ Byte > 0
    BY <1>2, Widths
  <2>2. QED
    BY <1>2, <2>1, Remainder
<1>4. /\ BitAnd(x, Byte - 1) = x
      /\ BitAnd(x, Nibble - 1) = x % Nibble
      /\ BitAnd(x, (Nibble - 1) * Nibble) = ((x \div Nibble) % Nibble) * Nibble
      /\ BitAnd(x, 1) = x % 2
  BY <1>2, <1>3, MasksAssumption
<1>5. /\ SharedSize("8") = "8" /\ SharedSize("LOW") = "8"
      /\ SharedSize("HIGH") = "8" /\ SharedSize("BIT0") = "8"
      /\ Mask("8") = Byte - 1 /\ Mask("LOW") = Nibble - 1
      /\ Mask("HIGH") = (Nibble - 1) * Nibble /\ Mask("BIT0") = 1
  BY DEF SharedSize, Mask
<1>6. /\ Peek(m, a, "8") = BitAnd(x, Mask("8")) /\ Peek(m, a, "LOW") = BitAnd(x, Mask("LOW"))
      /\ Peek(m, a, "HIGH") = BitAnd(x, Mask("HIGH")) /\ Peek(m, a, "BIT0") = BitAnd(x, Mask("BIT0"))
  BY <1>1, <1>5 DEF Peek
<1>7. QED
  BY <1>2, <1>4, <1>5, <1>6

(* What is left of a remainder, or of a part moved up, when it is taken again. *)
LEMMA TakenAgain ==
    ASSUME NEW w \in Nat, w > 0, NEW x \in Int
    PROVE  /\ (x % w) % w = x % w
           /\ (((x % w) * w) \div w) % w = x % w
<1>1. PICK r : r = x % w
  OBVIOUS
<1>2. r \in 0..(w - 1)
  BY <1>1, DivMod
<1>3. r % w = r
  <2>1. r = 0 * w + r /\ r \in Int
    BY <1>2
  <2>2. QED
    BY <1>2, <2>1, Remainder
<1>4. (r * w) \div w = r
  <2>1. r * w = r * w + 0 /\ r * w \in Int /\ r \in Int /\ 0 \in 0..(w - 1)
    BY <1>2
  <2>2. PICK z : z = r * w
    OBVIOUS
  <2>3. z = r * w + 0 /\ z \in Int
    BY <2>1, <2>2
  <2>4. z \div w = r
    BY <2>1, <2>3, Remainder
  <2>5. QED
    BY <2>2, <2>4
<1>5. QED
  BY <1>1, <1>3, <1>4

(* The size of the reference of a Prior. *)
LEMMA PriorSizes ==
    ASSUME NEW o, o.type = "Prior", o.size \in Sizes, o.size # "BITCOUNT"
    PROVE  RefSize(o) = IF o.size = "32BE" THEN "32" ELSE o.size
<1>1. Nibble - 1 # Byte - 1 /\ (Nibble - 1) * Nibble # Byte - 1 /\ 1 # Byte - 1
  <2>1. (Nibble - 1) * Nibble = Byte - Nibble
    <3>1. \A n \in Nat : (n - 1) * n = n * n - n
      OBVIOUS
    <3>2. QED
      BY <3>1, Widths
  <2>2. QED
    BY <2>1, Widths
<1>2. QED
  BY <1>1 DEF RefSize, SharedSize, Mask, Sizes

(* The reference of a Prior keeps what its size tells, and no more. *)
LEMMA PriorTells ==
    ASSUME NEW o, o.type = "Prior", o.size \in Sizes, o.size # "BITCOUNT",
           NEW m, Sound(m), NEW a, NEW n, Sound(n), NEW b
    PROVE  /\ Transform(Peek(m, a, RefSize(o)), o.size)
                  = Transform(Peek(m, a, SharedSize(o.size)), o.size)
           /\ Transform(Peek(m, a, SharedSize(o.size)), o.size)
                  = Transform(Peek(n, b, SharedSize(o.size)), o.size)
                <=> Peek(m, a, RefSize(o)) = Peek(n, b, RefSize(o))
<1>1. RefSize(o) = IF o.size = "32BE" THEN "32" ELSE o.size
  BY PriorSizes
<1>2. SharedSize(o.size) = IF o.size \in {"32", "32BE"} THEN "32" ELSE "8"
  BY DEF SharedSize
<1>3. CASE o.size = "32"
  BY <1>1, <1>2, <1>3 DEF Transform
<1>4. CASE o.size = "32BE"
  <2>1. Peek(m, a, "32") \in Numbers /\ Peek(n, b, "32") \in Numbers
    BY PeekNumber DEF Sizes
  <2>2. QED
    BY <1>1, <1>2, <1>4, <2>1, SwapTells
<1>5. CASE o.size \in {"8", "LOW", "HIGH", "BIT0"}
  <2>1. PICK x \in 0..(Byte - 1) :
             /\ Peek(m, a, "8") = x
             /\ Peek(m, a, "LOW") = x % Nibble
             /\ Peek(m, a, "HIGH") = ((x \div Nibble) % Nibble) * Nibble
             /\ Peek(m, a, "BIT0") = x % 2
    BY PeekIs
  <2>2. PICK y \in 0..(Byte - 1) :
             /\ Peek(n, b, "8") = y
             /\ Peek(n, b, "LOW") = y % Nibble
             /\ Peek(n, b, "HIGH") = ((y \div Nibble) % Nibble) * Nibble
             /\ Peek(n, b, "BIT0") = y % 2
    BY PeekIs
  <2>3. RefSize(o) = o.size /\ SharedSize(o.size) = "8"
    BY <1>1, <1>2, <1>5
  <2>4. x \in Int /\ y \in Int /\ x \div Nibble \in Int /\ y \div Nibble \in Int
    BY Widths, DivMod
  <2>5. CASE o.size = "8"
    <3>1. x % Byte = x /\ y % Byte = y
      <4>1. x = 0 * Byte + x /\ y = 0 * Byte + y /\ Byte \in Nat /\ Byte > 0
        BY <2>4, Widths
      <4>2. QED
        BY <2>4, <4>1, Remainder
    <3>2. QED
      BY <2>1, <2>2, <2>3, <2>5, <3>1 DEF Transform
  <2>6. CASE o.size = "LOW"
    <3>1. (x % Nibble) % Nibble = x % Nibble /\ (y % Nibble) % Nibble = y % Nibble
      BY <2>4, Widths, TakenAgain
    <3>2. QED
      BY <2>1, <2>2, <2>3, <2>6, <3>1 DEF Transform
  <2>7. CASE o.size = "HIGH"
    <3>1. PICK p, q : p = x \div Nibble /\ q = y \div Nibble
      OBVIOUS
    <3>2. /\ (((p % Nibble) * Nibble) \div Nibble) % Nibble = p % Nibble
          /\ (((q % Nibble) * Nibble) \div Nibble) % Nibble = q % Nibble
      <4>1. p \in Int /\ q \in Int
        BY <2>4, <3>1
      <4>2. PICK w : w = Nibble
        OBVIOUS
      <4>3. w \in Nat /\ w > 0
        BY <4>2, Widths
      <4>4. (((p % w) * w) \div w) % w = p % w
        BY <4>1, <4>3, TakenAgain
      <4>5. (((q % w) * w) \div w) % w = q % w
        BY <4>1, <4>3, TakenAgain
      <4>6. QED
        BY <4>2, <4>4, <4>5
    <3>3. QED
      BY <2>1, <2>2, <2>3, <2>7, <3>1, <3>2 DEF Transform
  <2>8. CASE o.size = "BIT0"
    <3>1. (x % 2) % 2 = x % 2 /\ (y % 2) % 2 = y % 2
      BY <2>4, TakenAgain
    <3>2. QED
      BY <2>1, <2>2, <2>3, <2>8, <3>1 DEF Transform
  <2>9. QED
    BY <1>5, <2>5, <2>6, <2>7, <2>8
<1>6. QED
  BY <1>3, <1>4, <1>5 DEF Sizes

(* A chain that sums nothing leaves no source to its condition. *)
LEMMA NothingSummed ==
    ASSUME NEW c \in Conditions, NEW P, NEW p, Made(c, P, p), Summed(c) = {}
    PROVE  /\ \A k \in 0..Len(c.sources) : P[k].src = Absent
           /\ Reads(p.left, p.list, c.left, P[Len(c.sources)].ind)
<1> DEFINE N == Len(c.sources)
           S == {k \in 0..N : P[k].src = Absent}
<1>1. N \in Nat /\ DOMAIN c.sources = 1..N
  BY ConditionsAssumption
<1>2. 0 \in S
  BY <1>1 DEF Made, Parsing
<1>3. ASSUME NEW k \in 1..N, k - 1 \in S
      PROVE  k \in S
  <2>1. Follows(P[k - 1], P[k], p.list, c.sources[k])
    BY DEF Made
  <2>2. c.sources[k].flag = "AddAddress"
    BY <1>1 DEF Summed
  <2>3. MovesOn(P[k - 1], P[k], p.list, c.sources[k])
    BY <2>1, <2>2 DEF Follows, Accumulates, Subtracts
  <2>4. QED
    BY <1>1, <1>3, <2>3 DEF MovesOn
<1>4. \A k \in 0..N : k \in S
  <2> HIDE DEF S, N
  <2>1. QED
    BY <1>1, <1>2, <1>3, UpTo
<1>5. P[N].src = Absent
  BY <1>1, <1>4
<1>6. QED
  BY <1>4, <1>5 DEF Made, EndsChain

PriorRecord(op, refs, modified) == IF IsPlain(op) THEN refs[op.ref] ELSE modified[op.ref[1]]

(* The reference of a Prior has the part of the memory that it tells. *)
LEMMA PriorReads ==
    ASSUME NEW c \in Conditions, NEW P, NEW p, Made(c, P, p), ReadsPrior(c), NEW m, Sound(m),
           NEW refs \in [References(p) -> Remembering],
               NEW modified \in [DOMAIN p.list -> Remembering],
           Image(c, P, p.list, ValuesOf(refs, "Address"), ValuesOf(modified, "Address"), m)
    PROVE  /\ PriorRecord(p.left, refs, modified) \in Remembering
           /\ PriorRecord(p.left, refs, modified).value
                = Peek(m, (Bases(c, m)[Len(c.sources)] + c.left.addr) % Word, RefSize(c.left))
           /\ p.left.type = "Prior" /\ p.left.size = c.left.size
<1> DEFINE o == c.left
           N == Len(c.sources)
           base == Bases(c, m)[N]
<1>1. o \in MemoryOperands /\ o.type = "Prior"
  BY ConditionsAssumption DEF ReadsPrior, ConstantOperands
<1>2. o.addr \in Numbers /\ RefSize(o) \in Sizes
  BY <1>1, OperandSizes
<1>3. N \in Nat /\ N \in 0..N
  BY ConditionsAssumption
<1>4. Reads(p.left, p.list, o, P[N].ind)
  BY NothingSummed DEF ReadsPrior
<1>5. p.left.type = "Prior" /\ p.left.size = o.size
  BY <1>1, <1>4 DEF Reads
<1>6. Within(p.left, References(p))
  BY ProgramWithin
<1>7. CASE P[N].ind = Absent
  <2>1. p.left.ref = <<o.addr, RefSize(o)>>
    BY <1>1, <1>4, <1>7 DEF Reads
  <2>2. IsPlain(p.left) /\ p.left.ref[1] = o.addr /\ p.left.ref[2] = RefSize(o)
    BY <2>1 DEF IsPlain
  <2>3. p.left.ref \in References(p)
    BY <1>6, <2>2 DEF Within
  <2>4. refs[p.left.ref] \in Remembering /\ refs[p.left.ref].value = Peek(m, o.addr, RefSize(o))
    BY <2>2, <2>3, PresentValues DEF Image, ReadsMemory
  <2>5. base = 0
    BY <1>3, <1>7, NoPointer
  <2>6. (0 + o.addr) % Word = o.addr
    <3>1. o.addr = 0 * Word + o.addr /\ o.addr \in Int /\ o.addr \in 0..(Word - 1) /\ Word \in Nat
              /\ Word > 0
      BY <1>2, Widths DEF Numbers
    <3>2. PICK a : a = o.addr
      OBVIOUS
    <3>3. a % Word = a /\ 0 + a = a
      BY <3>1, <3>2, Remainder
    <3>4. QED
      BY <3>2, <3>3
  <2>7. QED
    BY <1>5, <2>2, <2>4, <2>5, <2>6 DEF PriorRecord
<1>8. CASE P[N].ind # Absent
  <2>1. PICK n \in DOMAIN p.list :
             /\ p.left.ref = <<n>>
             /\ p.list[n] = Modified(P[N].ind, "IndirectRead", ConstOf(o.addr), RefSize(o))
    BY <1>1, <1>4, <1>8 DEF Reads
  <2>2. ~IsPlain(p.left) /\ p.left.ref[1] = n
    BY <2>1 DEF IsPlain
  <2>3. PointsAt(c, P, p.list, ValuesOf(modified, "Address"), m, N)
    BY <1>3 DEF Image, Points
  <2>4. ValuesOf(modified, "Address")[n] = Peek(m, (base + o.addr) % Word, RefSize(o))
    BY <1>2, <2>1, <2>3 DEF PointsAt
  <2>5. modified[n] \in Remembering /\ modified[n].value = Peek(m, (base + o.addr) % Word, RefSize(o))
    BY <2>4, PresentValues
  <2>6. QED
    BY <1>5, <2>2, <2>5 DEF PriorRecord
<1>9. QED
  BY <1>7, <1>8

PriorHeld ==
    ReadsPrior(condition) =>
        Transform(PriorRecord(program.left, memrefs, mods).prior, condition.left.size) = lastOther

(* Nothing was other than zero at the start. *)
LEMMA PriorHeldInitially ==
    ASSUME MemoryInit
    PROVE  PriorHeld
<1>1. SUFFICES ASSUME ReadsPrior(condition)
               PROVE  Transform(PriorRecord(program.left, memrefs, mods).prior,
                          condition.left.size) = lastOther
  BY DEF PriorHeld
<1>2. MemoryHeld
  BY MemoryHeldInitially
<1>3. condition \in Conditions /\ condition.left.size \in Sizes
  BY <1>1, ConditionsAssumption DEF MemoryInit, ReadsPrior, MemoryOperands, ConstantOperands
<1>4. PICK P : P = Parsed(condition)
  OBVIOUS
<1>5. Made(condition, P, program) /\ ReadsPrior(condition)
  BY <1>1, <1>3, <1>4, CompiledIs DEF MemoryInit
<1>6. program.left \in OpsOn(DOMAIN program.list) /\ program.left.type # "Const"
  BY <1>1, <1>4, <1>5, <1>2, <1>3, PriorReads DEF Made, EndsChain, MemoryHeld, HoldsImage
<1>7. Within(program.left, References(program))
  BY ProgramWithin
<1>8. PriorRecord(program.left, memrefs, mods) = NeverRead
  BY <1>6, <1>7, OpShape DEF PriorRecord, Within, MemoryInit
<1>9. QED
  BY <1>3, <1>8, ZeroTransform DEF MemoryInit, NeverRead

(* Every frame keeps what the Prior remembers. *)
LEMMA PriorHeldOnwards ==
    ASSUME MemoryHeld, PriorHeld, [MemoryNext]_memoryVars
    PROVE  PriorHeld'
<1>1. CASE UNCHANGED memoryVars
  BY <1>1 DEF memoryVars, PriorHeld
<1>2. ASSUME NEW new \in Contents, UpdateMemrefs(new)
      PROVE  PriorHeld'
  <2>1. SUFFICES ASSUME ReadsPrior(condition)
                 PROVE  Transform(PriorRecord(program.left, memrefs', mods').prior,
                            condition.left.size) = lastOther'
    BY <1>2 DEF PriorHeld, UpdateMemrefs
  <2> DEFINE o == condition.left
             size == condition.left.size
             N == Len(condition.sources)
             Place(m) == (Bases(condition, m)[N] + condition.left.addr) % Word
  <2>2. PICK refs : refs = memrefs'
    OBVIOUS
  <2>3. PICK modified : modified = mods'
    OBVIOUS
  <2>4. /\ refs = [r \in DOMAIN memrefs |-> UpdatedTo(memrefs[r], Peek(new, r[1], r[2]))]
        /\ modified = UpdatedMods(new, refs)
        /\ lastOther' = IF LeftNow(new) # LeftNow(memory) THEN LeftNow(memory) ELSE lastOther
    BY <1>2, <2>2, <2>3 DEF UpdateMemrefs
  <2>5. PICK P : P = Parsed(condition)
    OBVIOUS
  <2>6. /\ condition \in Conditions /\ Made(condition, P, program)
        /\ Sound(memory) /\ memrefs \in [References(program) -> Remembering]
        /\ mods \in [DOMAIN program.list -> Remembering]
        /\ Image(condition, P, program.list,
                 ValuesOf(memrefs, "Address"), ValuesOf(mods, "Address"), memory)
    BY <2>5, CompiledIs DEF MemoryHeld, HoldsImage
  <2>7. /\ Sound(new)
        /\ refs \in [References(program) -> Remembering]
        /\ modified \in [DOMAIN program.list -> Remembering]
        /\ Image(condition, P, program.list,
                 ValuesOf(refs, "Address"), ValuesOf(modified, "Address"), new)
        /\ \A r \in References(program) : refs[r] = UpdatedTo(memrefs[r], refs[r].value)
        /\ \A n \in DOMAIN program.list : modified[n] = UpdatedTo(mods[n], modified[n].value)
    BY <2>4, <2>5, FrameReads
  <2>8. PICK old : old = PriorRecord(program.left, memrefs, mods)
    OBVIOUS
  <2>9. PICK now : now = PriorRecord(program.left, refs, modified)
    OBVIOUS
  <2>10. /\ old \in Remembering /\ old.value = Peek(memory, Place(memory), RefSize(o))
         /\ program.left.type = "Prior"
    BY <2>1, <2>6, <2>8, PriorReads
  <2>11. now \in Remembering /\ now.value = Peek(new, Place(new), RefSize(o))
    BY <2>1, <2>6, <2>7, <2>9, PriorReads
  <2>12. now = UpdatedTo(old, now.value)
    <3>1. program.left \in OpsOn(DOMAIN program.list) /\ Within(program.left, References(program))
      BY <2>6, ProgramWithin DEF Made, EndsChain
    <3>2. CASE IsPlain(program.left)
      BY <2>7, <2>8, <2>9, <3>1, <3>2 DEF PriorRecord, Within
    <3>3. CASE ~IsPlain(program.left)
      <4>1. PICK n \in DOMAIN program.list : program.left.ref[1] = n
        BY <2>10, <3>1, <3>3, OpShape
      <4>2. old = mods[n] /\ now = modified[n]
        BY <2>8, <2>9, <3>3, <4>1 DEF PriorRecord
      <4>3. QED
        BY <2>7, <4>2
    <3>4. QED
      BY <3>2, <3>3
  <2>13. now.prior = IF old.value = now.value THEN old.prior ELSE old.value
    <3>1. PICK v : v = now.value
      OBVIOUS
    <3>2. v \in Numbers /\ now = UpdatedTo(old, v)
      BY <2>11, <2>12, <3>1 DEF Remembering
    <3>3. QED
      BY <2>10, <3>1, <3>2, UpdatedToIs
  <2>14. o.type = "Prior" /\ o.size \in Sizes /\ o.size # "BITCOUNT" /\ o.type # "Const"
    BY <2>1, <2>6, ConditionsAssumption DEF ReadsPrior, MemoryOperands, ConstantOperands
  <2>15. \A m : LeftNow(m) = Transform(Peek(m, Place(m), SharedSize(size)), size)
    BY <2>14 DEF LeftNow, Now
  <2>16. PICK a, b : a = Place(memory) /\ b = Place(new)
    OBVIOUS
  <2>17. /\ Transform(old.value, size) = LeftNow(memory)
         /\ LeftNow(new) = LeftNow(memory) <=> old.value = now.value
    <3> HIDE DEF Place
    <3>1. /\ old.value = Peek(memory, a, RefSize(o)) /\ now.value = Peek(new, b, RefSize(o))
          /\ LeftNow(memory) = Transform(Peek(memory, a, SharedSize(size)), size)
          /\ LeftNow(new) = Transform(Peek(new, b, SharedSize(size)), size)
      BY <2>10, <2>11, <2>15, <2>16
    <3>2. /\ Transform(Peek(memory, a, RefSize(o)), size)
                 = Transform(Peek(memory, a, SharedSize(size)), size)
          /\ Transform(Peek(memory, a, SharedSize(size)), size)
                 = Transform(Peek(new, b, SharedSize(size)), size)
               <=> Peek(memory, a, RefSize(o)) = Peek(new, b, RefSize(o))
      BY <2>6, <2>7, <2>14, PriorTells
    <3>3. QED
      BY <3>1, <3>2
  <2>18. Transform(old.prior, size) = lastOther
    BY <2>1, <2>8 DEF PriorHeld
  <2>19. Transform(now.prior, size) = lastOther'
    BY <2>4, <2>13, <2>17, <2>18
  <2>20. QED
    BY <2>2, <2>3, <2>9, <2>19
<1>3. QED
  BY <1>1, <1>2 DEF MemoryNext

(* So it reads the last other value. *)
LEMMA PriorIsKept ==
    ASSUME MemoryHeld, PriorHeld
    PROVE  PriorKept
<1>1. SUFFICES ASSUME ReadsPrior(condition)
               PROVE  EvaluateOperand(program.left, memrefs, mods) = lastOther
  BY DEF PriorKept
<1>2. PICK P : P = Parsed(condition)
  OBVIOUS
<1>3. /\ condition \in Conditions /\ Made(condition, P, program)
      /\ Sound(memory) /\ memrefs \in [References(program) -> Remembering]
      /\ mods \in [DOMAIN program.list -> Remembering]
      /\ Image(condition, P, program.list,
               ValuesOf(memrefs, "Address"), ValuesOf(mods, "Address"), memory)
  BY <1>2, CompiledIs DEF MemoryHeld, HoldsImage
<1>4. program.left.type = "Prior" /\ program.left.size = condition.left.size
  BY <1>1, <1>3, PriorReads
<1>5. EvaluateOperand(program.left, memrefs, mods)
        = Transform(PriorRecord(program.left, memrefs, mods).prior, program.left.size)
  BY <1>4 DEF EvaluateOperand, PriorRecord, Remembered, Decoded
<1>6. QED
  BY <1>1, <1>4, <1>5 DEF PriorHeld

(* A Prior operand reads the last value of its part of the memory that differed from
   the present one, in every frame, of every condition. *)
THEOREM PriorKeptHolds == MemorySpec => []PriorKept
<1>1. MemoryInit => MemoryHeld /\ PriorHeld
  BY MemoryHeldInitially, PriorHeldInitially
<1>2. MemoryHeld /\ PriorHeld /\ [MemoryNext]_memoryVars => (MemoryHeld /\ PriorHeld)'
  BY MemoryHeldOnwards, PriorHeldOnwards
<1>3. MemoryHeld /\ PriorHeld => PriorKept
  BY PriorIsKept
<1>4. QED
  BY <1>1, <1>2, <1>3, PTL DEF MemorySpec

(***************************************************************************
 What is written, and what its parts evaluate to.
 ***************************************************************************)
(* A condition, the parser's states and the program, in a state of the invariant. *)
LEMMA ConditionIs ==
    ASSUME MemoryHeld
    PROVE  /\ condition \in Conditions /\ Made(condition, Parsed(condition), program)
           /\ condition.sources \in Seq(Sources) /\ Len(condition.sources) \in Nat
           /\ DOMAIN condition.sources = 1..Len(condition.sources)
           /\ condition.left \in Operands /\ condition.right \in Operands
           /\ program.list \in Lists
           /\ program.left \in OpsOn(DOMAIN program.list)
                  /\ program.right \in OpsOn(DOMAIN program.list)
           /\ \A n \in DOMAIN program.list : /\ program.list[n] \in EntriesOn(DOMAIN program.list)
                                             /\ Within(program.list[n].parent, References(program))
                                             /\ Within(program.list[n].modifier, References(program))
           /\ Within(program.left, References(program)) /\ Within(program.right, References(program))
           /\ memrefs \in [References(program) -> Remembering]
           /\ mods \in [DOMAIN program.list -> Remembering]
<1>1. condition \in Conditions /\ program = Compiled(condition)
  BY DEF MemoryHeld
<1>2. Made(condition, Parsed(condition), program)
  BY <1>1, CompiledIs
<1>3. /\ program.list \in Lists
      /\ program.left \in OpsOn(DOMAIN program.list) /\ program.right \in OpsOn(DOMAIN program.list)
  BY <1>2 DEF Made, EndsChain
<1>4. condition.sources \in Seq(Sources) /\ {condition.left, condition.right} \subseteq Operands
  BY <1>1, ConditionsAssumption DEF Operands
<1>5. \A n \in DOMAIN program.list : program.list[n] \in EntriesOn(DOMAIN program.list)
  BY <1>3, ProgramReferences
<1>6. Len(condition.sources) \in Nat /\ DOMAIN condition.sources = 1..Len(condition.sources)
  BY <1>4
<1>7. /\ \A n \in DOMAIN program.list : /\ Within(program.list[n].parent, References(program))
                                        /\ Within(program.list[n].modifier, References(program))
      /\ Within(program.left, References(program)) /\ Within(program.right, References(program))
  BY ProgramWithin
<1>8. /\ memrefs \in [References(program) -> Remembering]
      /\ mods \in [DOMAIN program.list -> Remembering]
  BY DEF MemoryHeld
<1>9. QED
  BY <1>1, <1>2, <1>3, <1>4, <1>5, <1>6, <1>7, <1>8

(* What is written is a number. *)
LEMMA WrittenNumber ==
    ASSUME MemoryHeld, NEW o \in Operands, NEW k
    PROVE  Written(o, k) \in Numbers
BY ReadNumber DEF Written, MemoryHeld

SourceValue(k) ==
    LET s == condition.sources[k]
    IN  IF s.oper = "None" THEN Written(s.left, k - 1)
        ELSE Combine(Written(s.left, k - 1), s.oper, Written(s.right, k - 1))

(* Each source adds a number, or takes one away. *)
LEMMA TermIs ==
    ASSUME MemoryHeld, NEW k \in 1..Len(condition.sources)
    PROVE  /\ SourceValue(k) \in Numbers
           /\ Term(k) \in Int
           /\ condition.sources[k].flag = "AddAddress" => Term(k) = 0
           /\ condition.sources[k].flag = "AddSource" => Term(k) = SourceValue(k)
           /\ condition.sources[k].flag = "SubSource" => Term(k) = 0 - SourceValue(k)
<1>1. PICK s : s = condition.sources[k]
  OBVIOUS
<1>2. s \in Sources
  BY <1>1, ConditionIs
<1>3. /\ s.flag \in {"AddAddress", "AddSource", "SubSource"} /\ s.oper \in Arithmetic \cup {"None"}
      /\ s.left \in Operands /\ s.right \in Operands
  BY <1>2 DEF Sources, Operands
<1>4. Written(s.left, k - 1) \in Numbers /\ Written(s.right, k - 1) \in Numbers
  BY <1>3, WrittenNumber
<1>5. SourceValue(k) \in Numbers
  <2>1. CASE s.oper = "None"
    BY <1>1, <1>4, <2>1 DEF SourceValue
  <2>2. CASE s.oper # "None"
    <3>1. s.oper \in Arithmetic
      BY <1>3, <2>2
    <3>2. Combine(Written(s.left, k - 1), s.oper, Written(s.right, k - 1)) \in Numbers
      BY <1>4, <3>1, CombineNumber
    <3>3. QED
      BY <1>1, <2>2, <3>2 DEF SourceValue
  <2>3. QED
    BY <2>1, <2>2
<1>6. SourceValue(k) \in Int
  BY <1>5, Widths DEF Numbers
<1>7. Term(k) = CASE s.flag = "AddAddress" -> 0 [] s.flag = "AddSource" -> SourceValue(k)
                  [] s.flag = "SubSource" -> -SourceValue(k)
  BY <1>1 DEF Term, SourceValue
<1>8. QED
  BY <1>1, <1>3, <1>5, <1>6, <1>7

(* The sums of a chain, one by one. *)
LEMMA SumsAre ==
    ASSUME MemoryHeld
    PROVE  /\ Sums[0] = 0
           /\ \A k \in 0..Len(condition.sources) : Sums[k] \in Int
           /\ \A k \in 1..Len(condition.sources) : Sums[k] = Sums[k - 1] + Term(k)
<1> DEFINE n == Len(condition.sources)
           S == Int
           Step(k, x) == x + Term(k)
           step == [k \in 1..n |-> [x \in S |-> Step(k, x)]]
           Eq(g) == g = [k \in 0..n |-> IF k = 0 THEN 0 ELSE Step(k, g[k - 1])]
           Q == Sums
<1>1. n \in Nat
  BY ConditionIs
<1>2. \A k \in 1..n : Term(k) \in Int
  BY TermIs
<1>3. \A k \in 1..n : \A x \in S : Step(k, x) \in S
  BY <1>2
<1>4. step \in [1..n -> [S -> S]]
  <2> HIDE DEF S, n, Step
  <2>1. QED
    BY <1>3
<1>5. PICK f \in [0..n -> S] : Solves(f, n, 0, step)
  <2>1. 0 \in S
    OBVIOUS
  <2> HIDE DEF S, n, step
  <2>2. QED
    BY <1>1, <1>4, <2>1, RecursionExists
<1>6. Eq(f)
  <2> HIDE DEF S, n, Step
  <2>1. \A k \in 0..n : f[k] = IF k = 0 THEN 0 ELSE step[k][f[k - 1]]
    BY <1>5 DEF Solves
  <2>2. \A k \in 1..n : k \in 0..n /\ k # 0 /\ k - 1 \in 0..n
    BY <1>1
  <2>3. \A k \in 1..n : f[k] = Step(k, f[k - 1])
    BY <1>5, <2>1, <2>2
  <2>4. \A k \in 0..n : f[k] = IF k = 0 THEN 0 ELSE Step(k, f[k - 1])
    <3>1. \A k \in 0..n : k = 0 \/ k \in 1..n
      BY <1>1
    <3>2. QED
      BY <2>1, <2>3, <3>1
  <2>5. f = [k \in 0..n |-> f[k]]
    BY <1>5
  <2>6. QED
    BY <2>4, <2>5
<1>7. Q = CHOOSE g : Eq(g)
  BY Zenon DEF Sums
<1>8. Eq(Q)
  <2> HIDE DEF Eq
  <2>1. QED
    BY <1>6, <1>7
<1>9. Q[0] = 0 /\ \A k \in 1..n : Q[k] = Step(k, Q[k - 1])
  <2> HIDE DEF S, step, n, Step
  <2>1. \A k \in 0..n : Q[k] = IF k = 0 THEN 0 ELSE Step(k, Q[k - 1])
    BY <1>8
  <2>2. \A k \in 1..n : k \in 0..n /\ k # 0
    BY <1>1
  <2>3. 0 \in 0..n
    BY <1>1
  <2>4. QED
    BY <2>1, <2>2, <2>3
<1>10. \A k \in 0..n : Q[k] \in S
  <2> HIDE DEF S, n, step, Eq, Q, Step
  <2>1. Q[0] \in S
    BY <1>9 DEF S
  <2>2. \A k \in 1..n : Q[k - 1] \in S => Q[k] \in S
    BY <1>3, <1>9
  <2>3. QED
    BY <1>1, <2>1, <2>2, RecursionIn
<1>11. QED
  BY <1>9, <1>10

(* An operand of the program reads what is written. *)
LEMMA WrittenEvaluates ==
    ASSUME MemoryHeld, NEW k \in 0..Len(condition.sources), NEW o \in Operands, o.type # "Prior",
           NEW op \in OpsOn(DOMAIN program.list), Within(op, References(program)),
           Reads(op, program.list, o, Parsed(condition)[k].ind)
    PROVE  EvaluateOperand(op, memrefs, mods) = Written(o, k)
<1>1. PICK m : m = IF o.type = "Delta" THEN before ELSE memory
  OBVIOUS
<1>2. PICK rv, mv : rv = ValuesOf(memrefs, op.type) /\ mv = ValuesOf(mods, op.type)
  OBVIOUS
<1>3. PICK P : P = Parsed(condition)
  OBVIOUS
<1>4. condition \in Conditions /\ Made(condition, P, program)
  BY <1>3, ConditionIs
<1>5. op.type = o.type
  BY DEF Reads, ConstOf
<1>6. Image(condition, P, program.list, rv, mv, m) /\ Sound(m)
  <2>1. CASE o.type = "Delta"
    BY <1>1, <1>2, <1>3, <1>5, <2>1 DEF MemoryHeld, HoldsImage
  <2>2. CASE o.type # "Delta"
    <3>1. rv = ValuesOf(memrefs, "Address") /\ mv = ValuesOf(mods, "Address")
      BY <1>2, <1>5, <2>2, PresentValues
    <3>2. QED
      BY <1>1, <1>3, <2>2, <3>1 DEF MemoryHeld, HoldsImage
  <2>3. QED
    BY <2>1, <2>2
<1>7. DOMAIN rv = References(program)
  BY <1>2 DEF ValuesOf, MemoryHeld
<1>8. ReadsMemory(rv, m) /\ PointsAt(condition, P, program.list, mv, m, k)
  BY <1>6 DEF Image, Points
<1>9. OperandAt(op, rv, mv) = Read(o, Bases(condition, m)[k], m)
  BY <1>3, <1>4, <1>6, <1>7, <1>8, OperandReads
<1>10. EvaluateOperand(op, memrefs, mods) = OperandAt(op, rv, mv)
  BY <1>2, ConditionIs, EvaluatesAt
<1>11. QED
  BY <1>1, <1>9, <1>10 DEF Written

(* What a modified reference evaluates to. *)
LEMMA ReferenceIs ==
    ASSUME NEW n, NEW refs, NEW modified
    PROVE  EvaluateOperand(Reference(n), refs, modified) = modified[n].value
<1>1. EvaluateOperand([Reference(n) EXCEPT !.type = "Address"], refs, modified)
          = Remembered(modified[n], "Address")
  BY ReferenceEvaluates
<1>2. QED
  BY <1>1, PlainReference DEF Remembered

(* A source of the chain evaluates to what is written. *)
LEMMA SourceEvaluates ==
    ASSUME MemoryHeld, started, NEW k \in 1..Len(condition.sources),
           condition.sources[k].left.type # "Prior", condition.sources[k].right.type # "Prior",
           NEW op \in OpsOn(DOMAIN program.list), Within(op, References(program)),
           Converts(op, program.list, condition.sources[k], Parsed(condition)[k - 1].ind)
    PROVE  EvaluateOperand(op, memrefs, mods) = SourceValue(k)
<1>1. PICK s : s = condition.sources[k]
  OBVIOUS
<1>2. PICK ind : ind = Parsed(condition)[k - 1].ind
  OBVIOUS
<1>3. s \in Sources /\ k - 1 \in 0..Len(condition.sources)
  BY <1>1, ConditionIs
<1>4. s.oper \in Arithmetic \cup {"None"} /\ s.left \in Operands /\ s.right \in Operands
  BY <1>3 DEF Sources, Operands
<1>5. CASE s.oper = "None"
  <2>1. Reads(op, program.list, s.left, ind)
    BY <1>1, <1>2, <1>5 DEF Converts
  <2>2. EvaluateOperand(op, memrefs, mods) = Written(s.left, k - 1)
    BY <1>1, <1>2, <1>3, <1>4, <2>1, WrittenEvaluates
  <2>3. QED
    BY <1>1, <1>5, <2>2 DEF SourceValue
<1>6. CASE s.oper # "None"
  <2>1. PICK left \in OpsOn(DOMAIN program.list), right \in OpsOn(DOMAIN program.list),
             i \in DOMAIN program.list :
          /\ Reads(left, program.list, s.left, ind) /\ Reads(right, program.list, s.right, ind)
          /\ op = Reference(i) /\ program.list[i] = Modified(left, s.oper, right, "32")
    BY <1>1, <1>2, <1>6 DEF Converts
  <2>2. /\ program.list[i].parent = left /\ program.list[i].modifier = right
        /\ program.list[i].oper = s.oper
    BY <2>1 DEF Modified
  <2>3. Within(left, References(program)) /\ Within(right, References(program))
    BY <2>1, <2>2, ConditionIs
  <2>4. EvaluateOperand(left, memrefs, mods) = Written(s.left, k - 1)
    BY <1>1, <1>2, <1>3, <1>4, <2>1, <2>3, WrittenEvaluates
  <2>5. EvaluateOperand(right, memrefs, mods) = Written(s.right, k - 1)
    BY <1>1, <1>2, <1>3, <1>4, <2>1, <2>3, WrittenEvaluates
  <2>6. mods[i].value = ModifiedValue(program.list[i], memory, memrefs, mods)
    BY <2>1 DEF MemoryHeld, ReadsNow
  <2>7. PICK a, b : a = Written(s.left, k - 1) /\ b = Written(s.right, k - 1)
    OBVIOUS
  <2>8. ModifiedValue(program.list[i], memory, memrefs, mods) = Combine(a, s.oper, b)
    BY <1>4, <1>6, <2>2, <2>4, <2>5, <2>7 DEF ModifiedValue, Arithmetic
  <2>9. EvaluateOperand(op, memrefs, mods) = Combine(a, s.oper, b)
    BY <2>1, <2>6, <2>8, ReferenceIs
  <2>10. QED
    BY <1>1, <1>6, <2>7, <2>9 DEF SourceValue
<1>7. QED
  BY <1>5, <1>6

(* The parser's sum of a source and an operand evaluates to their sum, taken of
   present values or of deltas. *)
LEMMA AddsEvaluates ==
    ASSUME MemoryHeld, started, NEW src \in OpsOn(DOMAIN program.list),
           NEW added \in OpsOn(DOMAIN program.list), NEW oper \in SumOpers, NEW op,
           src.type # "Prior", Adds(op, program.list, src, oper, added)
    PROVE  /\ EvaluateOperand(op, memrefs, mods)
                = SumOf(oper, EvaluateOperand(src, memrefs, mods),
                    EvaluateOperand(added, memrefs, mods))
           /\ op.type # "Prior" /\ IsMemref(op)
           /\ Within(src, References(program)) /\ Within(added, References(program))
<1> DEFINE list == program.list
           D == DOMAIN program.list
           R == References(program)
<1>1. /\ \A n \in D : list[n] \in EntriesOn(D) /\ Within(list[n].parent, R)
             /\ Within(list[n].modifier, R)
      /\ memrefs \in [R -> Remembering] /\ mods \in [D -> Remembering]
  BY ConditionIs
<1>2. PICK n \in D, size \in Sizes :
        \/ /\ op = Reference(n)
           /\ list[n] = Modified(src, oper, added, size)
           /\ src.type # added.type \/ src.type \notin {"Delta", "Prior"}
        \/ /\ src.type = added.type /\ src.type \in {"Delta", "Prior"}
           /\ op = [Reference(n) EXCEPT !.type = src.type]
           /\ list[n] = Modified([src EXCEPT !.type = "Address"], oper,
                  [added EXCEPT !.type = "Address"], size)
  BY DEF Adds
<1>3. CASE op = Reference(n) /\ list[n] = Modified(src, oper, added, size)
  <2>1. list[n].parent = src /\ list[n].modifier = added /\ list[n].oper = oper
    BY <1>3 DEF Modified
  <2>2. ReadsNow(list, memory, memrefs, mods)
    BY DEF MemoryHeld
  <2>3. mods[n].value = SumOf(list[n].oper, EvaluateOperand(list[n].parent, memrefs, mods),
                              EvaluateOperand(list[n].modifier, memrefs, mods))
    <3>1. \A i \in D : list[i].oper \in SumOpers =>
             mods[i].value = SumOf(list[i].oper, EvaluateOperand(list[i].parent, memrefs, mods),
                                   EvaluateOperand(list[i].modifier, memrefs, mods))
      <4>1. PICK l, d, r : l = list /\ d = D /\ r = R
        OBVIOUS
      <4>2. /\ d = DOMAIN l /\ memrefs \in [r -> Remembering] /\ mods \in [d -> Remembering]
            /\ ReadsNow(l, memory, memrefs, mods)
            /\ \A i \in d : l[i] \in EntriesOn(d) /\ Within(l[i].parent, r)
                   /\ Within(l[i].modifier, r)
        BY <1>1, <2>2, <4>1
      <4>3. \A i \in d : l[i].oper \in SumOpers =>
               mods[i].value = SumOf(l[i].oper, EvaluateOperand(l[i].parent, memrefs, mods),
                                     EvaluateOperand(l[i].modifier, memrefs, mods))
        BY <4>2, SumsNow
      <4>4. QED
        BY <4>1, <4>3
    <3>2. QED
      BY <2>1, <3>1
  <2>4. EvaluateOperand(op, memrefs, mods) = mods[n].value
    BY <1>3, ReferenceIs
  <2>5. op.type = "Address"
    BY <1>3 DEF Reference
  <2>6. Within(src, R) /\ Within(added, R)
    BY <1>1, <2>1
  <2>7. QED
    BY <2>1, <2>3, <2>4, <2>5, <2>6 DEF IsMemref
<1>4. CASE /\ src.type = "Delta" /\ added.type = "Delta"
           /\ op = [Reference(n) EXCEPT !.type = "Delta"]
           /\ list[n] = Modified([src EXCEPT !.type = "Address"], oper,
                  [added EXCEPT !.type = "Address"], size)
  <2>1. PICK a, b : a = [src EXCEPT !.type = "Address"] /\ b = [added EXCEPT !.type = "Address"]
    OBVIOUS
  <2>2. list[n].parent = a /\ list[n].modifier = b /\ list[n].oper = oper
    BY <1>4, <2>1 DEF Modified
  <2>3. /\ DOMAIN src = {"type", "size", "ref", "num"}
               /\ DOMAIN added = {"type", "size", "ref", "num"}
    BY DEF OpsOn
  <2>4. /\ a.type = "Address" /\ a.size = src.size /\ a.ref = src.ref
        /\ b.type = "Address" /\ b.size = added.size /\ b.ref = added.ref
    BY <2>1, <2>3
  <2>5. Within(src, R) /\ Within(added, R)
    <3>1. Within(a, R) /\ Within(b, R)
      BY <1>1, <2>2
    <3>2. QED
      BY <2>4, <3>1 DEF Within, IsPlain
  <2>6. PICK rv, mv : rv = ValuesOf(memrefs, "Delta") /\ mv = ValuesOf(mods, "Delta")
    OBVIOUS
  <2>7. OperandAt(a, rv, mv) = OperandAt(src, rv, mv)
            /\ OperandAt(b, rv, mv) = OperandAt(added, rv, mv)
    BY <1>4, <2>4 DEF OperandAt, IsPlain, Decoded
  <2>8. EvaluateOperand(src, memrefs, mods) = OperandAt(src, rv, mv)
    BY <1>1, <1>4, <2>5, <2>6, EvaluatesAt
  <2>9. EvaluateOperand(added, memrefs, mods) = OperandAt(added, rv, mv)
    BY <1>1, <1>4, <2>5, <2>6, EvaluatesAt
  <2>10. SumsHold(list, rv, mv)
    BY <2>6 DEF MemoryHeld, HoldsImage, Image
  <2>11. mv[n] = SumOf(oper, OperandAt(a, rv, mv), OperandAt(b, rv, mv))
    BY <2>2, <2>4, <2>10 DEF SumsHold
  <2>12. EvaluateOperand(op, memrefs, mods) = Remembered(mods[n], "Delta")
    BY <1>4, ReferenceEvaluates
  <2>13. mv[n] = Remembered(mods[n], "Delta")
    BY <1>1, <2>6 DEF ValuesOf
  <2>14. op.type = "Delta"
    BY <1>4 DEF Reference
  <2>15. QED
    BY <2>5, <2>7, <2>8, <2>9, <2>11, <2>12, <2>13, <2>14 DEF IsMemref
<1>5. QED
  BY <1>2, <1>3, <1>4

(* Sums modulo the word. *)
LEMMA SumSteps ==
    ASSUME NEW x \in Int, NEW v \in Int
    PROVE  /\ SumOf("AddAccumulator", x % Word, v) = (x + v) % Word
           /\ SumOf("Add", x % Word, v) = (x + v) % Word
           /\ SumOf("SubParent", (0 - x) % Word, v) = (x + v) % Word
           /\ SumOf("SubAccumulator", x % Word, v) = (x - v) % Word
           /\ SumOf("SubParent", (0 - x) % Word, 0) = x % Word
           /\ SumOf("AddAccumulator", x % Word, 0) = x % Word
<1>1. PICK w : w = Word
  OBVIOUS
<1>2. w \in Nat /\ w > 0
  BY <1>1, Widths
<1>3. ((x % w) + v) % w = (x + v) % w
  BY <1>2, EarlyRemainder
<1>4. ((x % w) + 0) % w = (x + 0) % w
  BY <1>2, EarlyRemainder
<1>5. PICK y, z : y = 0 - x /\ z = 0 - v
  OBVIOUS
<1>6. y \in Int /\ z \in Int
  BY <1>5
<1>7. ((x % w) + z) % w = (x + z) % w
  BY <1>2, <1>6, EarlyRemainder
<1>8. (v - (y % w)) % w = (v - y) % w
  BY <1>2, <1>6, EarlyRemainder
<1>9. (0 - (y % w)) % w = (0 - y) % w
  <2>1. \A t \in Int : (t - (y % w)) % w = (t - y) % w
    BY <1>2, <1>6, EarlyRemainder
  <2>2. QED
    BY <2>1
<1>10. x % w \in Int /\ y % w \in Int
  BY <1>2, <1>6, DivMod
<1>11. (x % w) + z = (x % w) - v /\ x + z = x - v /\ v - y = x + v /\ 0 - y = x /\ x + 0 = x
  BY <1>5, <1>10
<1>12. QED
  BY <1>1, <1>3, <1>4, <1>5, <1>7, <1>8, <1>9, <1>11 DEF SumOf

(* A number is its own remainder. *)
LEMMA NumberRemains ==
    ASSUME NEW v \in Numbers
    PROVE  v \in Int /\ v % Word = v
<1>1. v \in 0..(Word - 1) /\ Word \in Nat /\ Word > 0 /\ v \in Int /\ v = 0 * Word + v
  BY Widths DEF Numbers
<1>2. QED
  BY <1>1, Remainder

(***************************************************************************
 The sum that the parser carries along a chain.  After k conditions its source is
 the sum so far, or the opposite of it when nothing but one SubSource came before.
 ***************************************************************************)
Opposed(ps, k) ==
    \E j \in 1..k :
        /\ \A i \in 1..k : i \in Summed(condition) <=> i = j
        /\ condition.sources[j].flag = "SubSource"
        /\ ps.src.type # "Address" =>
              condition.sources[j].oper = "None" /\ condition.sources[j].left.type # "Address"

SumHeld(ps, k) ==
    /\ ps.src = Absent => Sums[k] = 0 /\ \A i \in 1..k : i \notin Summed(condition)
    /\ ps.src # Absent =>
          /\ ps.src.type # "Prior"
          /\ ps.srcOper = "SubParent" => Opposed(ps, k)
          /\ Within(ps.src, References(program)) =>
                EvaluateOperand(ps.src, memrefs, mods)
                   = IF ps.srcOper = "AddAccumulator" THEN Sums[k] % Word ELSE (0 - Sums[k]) % Word

(* Where no Prior is used, no operand is one. *)
LEMMA NoneUsesPrior ==
    ASSUME MemoryHeld, ~UsesPrior(condition)
    PROVE  /\ condition.left.type # "Prior" /\ condition.right.type # "Prior"
           /\ \A k \in 1..Len(condition.sources) : /\ condition.sources[k].left.type # "Prior"
                                                   /\ condition.sources[k].right.type # "Prior"
BY ConditionIs DEF UsesPrior

(* The type of what a source is converted to. *)
LEMMA SourceType ==
    ASSUME NEW list, NEW op, NEW s, NEW ind, Converts(op, list, s, ind),
           s.left.type # "Prior", s.right.type # "Prior"
    PROVE  /\ op.type # "Prior"
           /\ op.type # "Address" => s.oper = "None" /\ s.left.type # "Address"
BY DEF Converts, Reads, ConstOf, Reference

(* A sum is not absent. *)
LEMMA AddsNotAbsent ==
    ASSUME NEW op, NEW list, NEW src, NEW oper, NEW added, Adds(op, list, src, oper, added)
    PROVE  op # Absent
BY DEF Adds, Reference, Absent

(* The chain moves on: an AddAddress. *)
LEMMA SumMoves ==
    ASSUME MemoryHeld, NEW k \in 1..Len(condition.sources), NEW ps, NEW qs, SumHeld(ps, k - 1),
           MovesOn(ps, qs, program.list, condition.sources[k])
    PROVE  SumHeld(qs, k)
<1>1. k \in Nat /\ k - 1 \in Nat /\ k \in DOMAIN condition.sources
  BY ConditionIs
<1>2. /\ qs.src = ps.src /\ qs.srcOper = ps.srcOper /\ condition.sources[k].flag = "AddAddress"
  BY DEF MovesOn
<1>3. k \notin Summed(condition) /\ \A i \in 1..k : i = k \/ i \in 1..(k - 1)
  BY <1>1, <1>2 DEF Summed
<1>4. Sums[k] = Sums[k - 1]
  <2>1. Sums[k] = Sums[k - 1] + Term(k) /\ Term(k) = 0
    BY <1>2, SumsAre, TermIs
  <2>2. Sums[k - 1] \in Int
    BY ConditionIs, SumsAre
  <2>3. QED
    BY <2>1, <2>2
<1>5. Opposed(ps, k - 1) => Opposed(qs, k)
  <2>1. SUFFICES ASSUME Opposed(ps, k - 1) PROVE Opposed(qs, k)
    OBVIOUS
  <2>2. PICK j \in 1..(k - 1) :
          /\ \A i \in 1..(k - 1) : i \in Summed(condition) <=> i = j
          /\ condition.sources[j].flag = "SubSource"
          /\ ps.src.type # "Address" =>
                condition.sources[j].oper = "None" /\ condition.sources[j].left.type # "Address"
    BY <2>1 DEF Opposed
  <2>3. j \in 1..k /\ j # k
    BY <1>1
  <2>4. \A i \in 1..k : i \in Summed(condition) <=> i = j
    BY <1>3, <2>2, <2>3
  <2>5. QED
    BY <1>2, <2>2, <2>3, <2>4 DEF Opposed
<1>6. QED
  BY <1>2, <1>3, <1>4, <1>5 DEF SumHeld

(* The first source of a sum. *)
LEMMA SumStarts ==
    ASSUME MemoryHeld, started, ~UsesPrior(condition),
           NEW k \in 1..Len(condition.sources), NEW ps, NEW qs,
           SumHeld(ps, k - 1), ps.src = Absent, NEW op \in OpsOn(DOMAIN program.list), qs.src = op,
           Converts(op, program.list, condition.sources[k], Parsed(condition)[k - 1].ind),
           \/ condition.sources[k].flag = "AddSource" /\ qs.srcOper = "AddAccumulator"
           \/ condition.sources[k].flag = "SubSource" /\ qs.srcOper = "SubParent"
    PROVE  SumHeld(qs, k)
<1>1. k \in Nat /\ k - 1 \in Nat /\ k \in DOMAIN condition.sources
  BY ConditionIs
<1>2. k \in Summed(condition) /\ \A i \in 1..k : i = k \/ i \in 1..(k - 1)
  BY <1>1 DEF Summed
<1>3. PICK v : v = SourceValue(k)
  OBVIOUS
<1>4. v \in Numbers /\ v \in Int /\ v % Word = v
  BY <1>3, TermIs, NumberRemains
<1>5. Sums[k - 1] = 0 /\ \A i \in 1..(k - 1) : i \notin Summed(condition)
  BY DEF SumHeld
<1>6. op # Absent
  BY NotAbsent
<1>7. Sums[k] = 0 + Term(k)
  BY <1>5, SumsAre
<1>8. condition.sources[k].left.type # "Prior" /\ condition.sources[k].right.type # "Prior"
  BY NoneUsesPrior
<1>9. Within(op, References(program)) => EvaluateOperand(op, memrefs, mods) = v
  BY <1>3, <1>8, SourceEvaluates
<1>10. /\ op.type # "Prior"
       /\ op.type # "Address" => /\ condition.sources[k].oper = "None"
                                 /\ condition.sources[k].left.type # "Address"
  BY <1>8, SourceType
<1>11. CASE condition.sources[k].flag = "AddSource" /\ qs.srcOper = "AddAccumulator"
  <2>1. Sums[k] = v
    BY <1>3, <1>4, <1>7, <1>11, TermIs
  <2>2. QED
    BY <1>4, <1>6, <1>9, <1>10, <1>11, <2>1 DEF SumHeld
<1>12. CASE condition.sources[k].flag = "SubSource" /\ qs.srcOper = "SubParent"
  <2>1. Sums[k] = 0 - v
    BY <1>3, <1>4, <1>7, <1>12, TermIs
  <2>2. 0 - Sums[k] = v
    BY <1>4, <2>1
  <2>3. Opposed(qs, k)
    <3>1. \A i \in 1..k : i \in Summed(condition) <=> i = k
      BY <1>1, <1>2, <1>5
    <3>2. k \in 1..k
      BY <1>1
    <3>3. QED
      BY <1>10, <1>12, <3>1, <3>2 DEF Opposed
  <2>4. QED
    BY <1>4, <1>6, <1>9, <1>10, <1>12, <2>2, <2>3 DEF SumHeld
<1>13. QED
  BY <1>11, <1>12

(* A source more. *)
LEMMA SumAdds ==
    ASSUME MemoryHeld, started, ~UsesPrior(condition),
           NEW k \in 1..Len(condition.sources), NEW ps, NEW qs, SumHeld(ps, k - 1),
           ps.src \in OpsOn(DOMAIN program.list), ps.srcOper \in {"AddAccumulator", "SubParent"},
           NEW op \in OpsOn(DOMAIN program.list),
           Converts(op, program.list, condition.sources[k], Parsed(condition)[k - 1].ind),
           condition.sources[k].flag = "AddSource", qs.srcOper = "AddAccumulator",
           Adds(qs.src, program.list, ps.src, ps.srcOper, op)
    PROVE  SumHeld(qs, k)
<1>1. ps.src # Absent
  BY NotAbsent
<1>2. PICK v : v = SourceValue(k)
  OBVIOUS
<1>3. PICK x : x = Sums[k - 1]
  OBVIOUS
<1>4. v \in Int /\ x \in Int /\ Sums[k] = x + v
  <2>1. v \in Numbers /\ Term(k) = v
    BY <1>2, TermIs
  <2>2. k - 1 \in 0..Len(condition.sources)
    BY ConditionIs
  <2>3. QED
    BY <1>3, <2>1, <2>2, NumberRemains, SumsAre
<1>5. ps.src.type # "Prior" /\ ps.srcOper \in SumOpers
  BY <1>1 DEF SumHeld, SumOpers
<1>6. /\ EvaluateOperand(qs.src, memrefs, mods)
           = SumOf(ps.srcOper, EvaluateOperand(ps.src, memrefs, mods),
               EvaluateOperand(op, memrefs, mods))
      /\ qs.src.type # "Prior" /\ IsMemref(qs.src)
      /\ Within(ps.src, References(program)) /\ Within(op, References(program))
  BY <1>5, AddsEvaluates
<1>7. EvaluateOperand(op, memrefs, mods) = v
  <2>1. condition.sources[k].left.type # "Prior" /\ condition.sources[k].right.type # "Prior"
    BY NoneUsesPrior
  <2>2. QED
    BY <1>2, <1>6, <2>1, SourceEvaluates
<1>8. EvaluateOperand(ps.src, memrefs, mods)
        = IF ps.srcOper = "AddAccumulator" THEN x % Word ELSE (0 - x) % Word
  BY <1>1, <1>3, <1>6 DEF SumHeld
<1>9. EvaluateOperand(qs.src, memrefs, mods) = (x + v) % Word
  BY <1>4, <1>6, <1>7, <1>8, SumSteps
<1>10. qs.src # Absent
  BY AddsNotAbsent
<1>11. QED
  BY <1>4, <1>6, <1>9, <1>10 DEF SumHeld

(* A source less.  A sum that would subtract twice is left out. *)
LEMMA SumSubtracts ==
    ASSUME MemoryHeld, started, ~UsesPrior(condition), ~SubtractsTwice(condition),
           NEW k \in 1..Len(condition.sources), NEW ps, NEW qs, SumHeld(ps, k - 1),
           ps.src \in OpsOn(DOMAIN program.list), ps.srcOper \in {"AddAccumulator", "SubParent"},
           NEW op \in OpsOn(DOMAIN program.list),
           Converts(op, program.list, condition.sources[k], Parsed(condition)[k - 1].ind),
           condition.sources[k].flag = "SubSource", qs.srcOper = "AddAccumulator",
           NEW ready \in OpsOn(DOMAIN program.list),
           Readied(ready, program.list, ps.src, ps.srcOper),
           Adds(qs.src, program.list, ready,
               IF IsMemref(ready) THEN "SubAccumulator" ELSE "SubParent", op)
    PROVE  SumHeld(qs, k)
<1>1. ps.src # Absent
  BY NotAbsent
<1>2. PICK v : v = SourceValue(k)
  OBVIOUS
<1>3. PICK x : x = Sums[k - 1]
  OBVIOUS
<1>4. v \in Int /\ x \in Int /\ Sums[k] = x - v
  <2>1. v \in Numbers /\ Term(k) = 0 - v
    BY <1>2, TermIs
  <2>2. k - 1 \in 0..Len(condition.sources)
    BY ConditionIs
  <2>3. v \in Int /\ Sums[k - 1] \in Int /\ Sums[k] = Sums[k - 1] + Term(k)
    BY <2>1, <2>2, NumberRemains, SumsAre
  <2>4. QED
    BY <1>3, <2>1, <2>3
<1>5. ps.srcOper = "SubParent" => ps.src.type = "Address"
  <2>1. SUFFICES ASSUME ps.srcOper = "SubParent", ps.src.type # "Address" PROVE FALSE
    OBVIOUS
  <2>2. PICK j \in 1..(k - 1) :
          /\ \A i \in 1..(k - 1) : i \in Summed(condition) <=> i = j
          /\ condition.sources[j].flag = "SubSource"
          /\ condition.sources[j].oper = "None" /\ condition.sources[j].left.type # "Address"
    BY <1>1, <2>1 DEF SumHeld, Opposed
  <2>3. /\ DOMAIN condition.sources = 1..Len(condition.sources) /\ Len(condition.sources) \in Nat
        /\ k \in Nat /\ j \in Nat /\ j < k
    BY ConditionIs
  <2>4. j \in Summed(condition) /\ k \in Summed(condition)
    BY <2>2, <2>3 DEF Summed
  <2>5. \A i \in Summed(condition) : i >= j /\ (i # j => i >= k)
    <3>1. TAKE i \in Summed(condition)
    <3>2. i \in Nat /\ i >= 1
      BY <2>3 DEF Summed
    <3>3. i >= k \/ i \in 1..(k - 1)
      BY <2>3, <3>2
    <3>4. QED
      BY <2>2, <2>3, <3>2, <3>3
  <2>6. SubtractsTwice(condition)
    BY <2>2, <2>3, <2>4, <2>5 DEF SubtractsTwice
  <2>7. QED
    BY <2>6
<1>6. /\ IsMemref(ready) /\ ready.type # "Prior"
      /\ Within(ready, References(program)) => EvaluateOperand(ready, memrefs, mods) = x % Word
  <2>1. CASE ps.srcOper = "AddAccumulator" /\ IsMemref(ps.src)
    <3>1. ready = ps.src
      BY <2>1 DEF Readied
    <3>2. QED
      BY <1>1, <1>3, <2>1, <3>1 DEF SumHeld
  <2>2. CASE ps.srcOper = "SubParent" \/ ~IsMemref(ps.src)
    <3>1. IsMemref(ps.src) <=> ps.srcOper = "SubParent"
      BY <1>5, <2>2 DEF IsMemref
    <3>2. PICK n \in DOMAIN program.list :
            ready = Reference(n) /\ program.list[n] = Modified(ps.src, ps.srcOper, ConstOf(0), "32")
      <4>1. CASE ps.srcOper = "SubParent"
        <5>1. PICK n \in DOMAIN program.list :
                /\ ready = [Reference(n) EXCEPT !.type = ps.src.type]
                /\ program.list[n] = Modified(ps.src, ps.srcOper, ConstOf(0), "32")
          BY <3>1, <4>1 DEF Readied
        <5>2. QED
          BY <1>5, <4>1, <5>1, PlainReference
      <4>2. CASE ps.srcOper = "AddAccumulator"
        BY <3>1, <4>2 DEF Readied
      <4>3. QED
        BY <4>1, <4>2
    <3>3. /\ ConstOf(0) \in OpsOn(DOMAIN program.list)
                 /\ EvaluateOperand(ConstOf(0), memrefs, mods) = 0
          /\ ConstOf(0).type = "Const"
      <4>1. 0 \in Numbers
        BY Widths DEF Numbers
      <4>2. QED
        BY <4>1, ConstIn DEF ConstOf, EvaluateOperand
    <3>4. Adds(ready, program.list, ps.src, ps.srcOper, ConstOf(0))
      <4>1. ps.src.type # "Const" \/ ps.src.type \notin {"Delta", "Prior"}
        OBVIOUS
      <4>2. ps.src.type # ConstOf(0).type \/ ps.src.type \notin {"Delta", "Prior"}
        BY <3>3, <4>1
      <4>3. "32" \in Sizes
        BY DEF Sizes
      <4>4. QED
        BY <3>2, <4>2, <4>3 DEF Adds
    <3>5. ps.src.type # "Prior" /\ ps.srcOper \in SumOpers
      BY <1>1 DEF SumHeld, SumOpers
    <3>6. /\ EvaluateOperand(ready, memrefs, mods)
               = SumOf(ps.srcOper, EvaluateOperand(ps.src, memrefs, mods), 0)
          /\ ready.type # "Prior" /\ IsMemref(ready) /\ Within(ps.src, References(program))
      <4>1. PICK zero : zero = ConstOf(0)
        OBVIOUS
      <4>2. zero \in OpsOn(DOMAIN program.list) /\ Adds(ready, program.list, ps.src, ps.srcOper, zero)
        BY <3>3, <3>4, <4>1
      <4>3. /\ EvaluateOperand(ready, memrefs, mods)
                 = SumOf(ps.srcOper, EvaluateOperand(ps.src, memrefs, mods),
                         EvaluateOperand(zero, memrefs, mods))
            /\ ready.type # "Prior" /\ IsMemref(ready) /\ Within(ps.src, References(program))
        BY <3>5, <4>2, AddsEvaluates
      <4>4. QED
        BY <3>3, <4>1, <4>3
    <3>7. EvaluateOperand(ps.src, memrefs, mods)
            = IF ps.srcOper = "AddAccumulator" THEN x % Word ELSE (0 - x) % Word
      BY <1>1, <1>3, <3>6 DEF SumHeld
    <3>8. QED
      BY <1>4, <3>6, <3>7, SumSteps
  <2>3. QED
    BY <2>1, <2>2
<1>7. /\ EvaluateOperand(qs.src, memrefs, mods)
           = SumOf("SubAccumulator", EvaluateOperand(ready, memrefs, mods),
               EvaluateOperand(op, memrefs, mods))
      /\ qs.src.type # "Prior" /\ IsMemref(qs.src)
      /\ Within(ready, References(program)) /\ Within(op, References(program))
  <2>1. Adds(qs.src, program.list, ready, "SubAccumulator", op) /\ "SubAccumulator" \in SumOpers
    BY <1>6 DEF SumOpers
  <2>2. QED
    BY <1>6, <2>1, AddsEvaluates
<1>8. EvaluateOperand(op, memrefs, mods) = v
  <2>1. condition.sources[k].left.type # "Prior" /\ condition.sources[k].right.type # "Prior"
    BY NoneUsesPrior
  <2>2. QED
    BY <1>2, <1>7, <2>1, SourceEvaluates
<1>9. EvaluateOperand(qs.src, memrefs, mods) = (x - v) % Word
  BY <1>4, <1>6, <1>7, <1>8, SumSteps
<1>10. qs.src # Absent
  BY AddsNotAbsent
<1>11. QED
  BY <1>4, <1>7, <1>9, <1>10 DEF SumHeld

(* The source that the parser carries is the sum so far, all along the chain. *)
LEMMA SumCarried ==
    ASSUME MemoryHeld, started, ~UsesPrior(condition), ~SubtractsTwice(condition)
    PROVE  \A k \in 0..Len(condition.sources) : SumHeld(Parsed(condition)[k], k)
<1> DEFINE N == Len(condition.sources)
           S == {k \in 0..N : SumHeld(Parsed(condition)[k], k)}
<1>1. PICK P : P = Parsed(condition)
  OBVIOUS
<1>2. /\ N \in Nat /\ Made(condition, P, program) /\ program.list \in Lists
  BY <1>1, ConditionIs
<1>3. 0 \in S
  <2>1. P[0].src = Absent
    BY <1>2 DEF Made, Parsing
  <2>2. SumHeld(P[0], 0)
    BY <2>1, SumsAre DEF SumHeld
  <2>3. QED
    BY <1>1, <1>2, <2>2
<1>4. ASSUME NEW k \in 1..N, k - 1 \in S
      PROVE  k \in S
  <2>1. PICK ps, qs : ps = P[k - 1] /\ qs = P[k]
    OBVIOUS
  <2>2. k - 1 \in 0..N /\ k \in 0..N /\ SumHeld(ps, k - 1)
    BY <1>1, <1>2, <1>4, <2>1
  <2>3. Follows(ps, qs, program.list, condition.sources[k])
    BY <1>2, <2>1 DEF Made
  <2>4. /\ HandedOn(ps) /\ Begins(ps.list, program.list)
    BY <1>2, <2>1, <2>2 DEF Made
  <2>5. ps.src # Absent => /\ ps.src \in OpsOn(DOMAIN program.list)
                           /\ ps.srcOper \in {"AddAccumulator", "SubParent"}
    <3>1. ps.list \in Lists
      BY <2>4 DEF HandedOn, ParserState, ParseStates
    <3>2. OpsOn(DOMAIN ps.list) \subseteq OpsOn(DOMAIN program.list)
      BY <1>2, <2>4, <3>1, BeginsOn
    <3>3. QED
      BY <2>4, <3>2 DEF HandedOn, ParserState
  <2>6. SumHeld(qs, k)
    <3>1. CASE MovesOn(ps, qs, program.list, condition.sources[k])
      BY <2>2, <3>1, SumMoves
    <3>2. ASSUME NEW op \in OpsOn(DOMAIN program.list),
                 Converts(op, program.list, condition.sources[k], ps.ind),
                 \/ Accumulates(ps, qs, program.list, condition.sources[k], op)
                 \/ Subtracts(ps, qs, program.list, condition.sources[k], op)
          PROVE  SumHeld(qs, k)
      <4>1. Converts(op, program.list, condition.sources[k], Parsed(condition)[k - 1].ind)
        BY <1>1, <2>1, <3>2
      <4>2. CASE ps.src = Absent
        <5>1. /\ qs.src = op
              /\ \/ condition.sources[k].flag = "AddSource" /\ qs.srcOper = "AddAccumulator"
                 \/ condition.sources[k].flag = "SubSource" /\ qs.srcOper = "SubParent"
          BY <3>2, <4>2 DEF Accumulates, Subtracts
        <5>2. QED
          BY <2>2, <4>1, <4>2, <5>1, SumStarts
      <4>3. CASE ps.src # Absent /\ Accumulates(ps, qs, program.list, condition.sources[k], op)
        <5>1. /\ condition.sources[k].flag = "AddSource" /\ qs.srcOper = "AddAccumulator"
              /\ Adds(qs.src, program.list, ps.src, ps.srcOper, op)
          BY <4>3 DEF Accumulates
        <5>2. QED
          BY <2>2, <2>5, <4>1, <4>3, <5>1, SumAdds
      <4>4. CASE ps.src # Absent /\ Subtracts(ps, qs, program.list, condition.sources[k], op)
        <5>1. PICK ready \in OpsOn(DOMAIN program.list) :
                /\ Readied(ready, program.list, ps.src, ps.srcOper)
                /\ Adds(qs.src, program.list, ready,
                        IF IsMemref(ready) THEN "SubAccumulator" ELSE "SubParent", op)
          BY <4>4 DEF Subtracts
        <5>2. condition.sources[k].flag = "SubSource" /\ qs.srcOper = "AddAccumulator"
          BY <4>4 DEF Subtracts
        <5>3. QED
          BY <2>2, <2>5, <4>1, <4>4, <5>1, <5>2, SumSubtracts
      <4>5. QED
        BY <3>2, <4>2, <4>3, <4>4
    <3>3. QED
      BY <2>3, <3>1, <3>2 DEF Follows
  <2>7. QED
    BY <1>1, <2>1, <2>2, <2>6
<1>5. \A k \in 0..N : k \in S
  <2> HIDE DEF S, N
  <2>1. QED
    BY <1>2, <1>3, <1>4, UpTo
<1>6. QED
  BY <1>5

(* The left operand of the comparison evaluates to the sum ... *)
LEMMA LeftEvaluates ==
    ASSUME MemoryHeld, started, ~UsesPrior(condition), ~SubtractsTwice(condition)
    PROVE  EvaluateOperand(program.left, memrefs, mods) = Sum
<1> DEFINE N == Len(condition.sources)
           list == program.list
<1>1. PICK ps : ps = Parsed(condition)[N]
  OBVIOUS
<1>2. /\ N \in Nat /\ N \in 0..N /\ Made(condition, Parsed(condition), program)
      /\ list \in Lists /\ condition.left \in Operands
      /\ Within(program.left, References(program))
  BY ConditionIs
<1>3. SumHeld(ps, N)
  BY <1>1, <1>2, SumCarried
<1>4. EndsChain(ps, program, list, condition) /\ HandedOn(ps) /\ Begins(ps.list, list)
  BY <1>1, <1>2 DEF Made
<1>5. condition.left.type # "Prior"
  BY NoneUsesPrior
<1>6. PICK w : w = Written(condition.left, N)
  OBVIOUS
<1>7. PICK x : x = Sums[N]
  OBVIOUS
<1>8. w \in Numbers /\ w \in Int /\ w % Word = w /\ x \in Int
  BY <1>2, <1>6, <1>7, WrittenNumber, NumberRemains, SumsAre
<1>9. Sum = (x + w) % Word
  BY <1>6, <1>7 DEF Sum
<1>10. CASE ps.src = Absent
  <2>1. program.left \in OpsOn(DOMAIN list) /\ Reads(program.left, list, condition.left, ps.ind)
    BY <1>4, <1>10 DEF EndsChain
  <2>2. EvaluateOperand(program.left, memrefs, mods) = w
    BY <1>1, <1>2, <1>5, <1>6, <2>1, WrittenEvaluates
  <2>3. x = 0
    BY <1>3, <1>7, <1>10 DEF SumHeld
  <2>4. x + w = w
    BY <1>8, <2>3
  <2>5. QED
    BY <1>8, <1>9, <2>2, <2>4
<1>11. CASE ps.src # Absent
  <2>1. PICK op \in OpsOn(DOMAIN list) :
          /\ Reads(op, list, condition.left, ps.ind)
          /\ Adds(program.left, list, ps.src, LeafOper(ps.srcOper), op)
    BY <1>4, <1>11 DEF EndsChain
  <2>2. ps.src \in OpsOn(DOMAIN list) /\ ps.srcOper \in {"AddAccumulator", "SubParent"}
    <3>1. ps.list \in Lists
      BY <1>4 DEF HandedOn, ParserState, ParseStates
    <3>2. OpsOn(DOMAIN ps.list) \subseteq OpsOn(DOMAIN list)
      BY <1>2, <1>4, <3>1, BeginsOn
    <3>3. QED
      BY <1>4, <1>11, <3>2 DEF HandedOn, ParserState
  <2>3. PICK oper : oper = LeafOper(ps.srcOper)
    OBVIOUS
  <2>4. /\ oper \in SumOpers
        /\ ps.srcOper = "AddAccumulator" => oper = "Add"
        /\ ps.srcOper = "SubParent" => oper = "SubParent"
    BY <2>2, <2>3 DEF LeafOper, SumOpers
  <2>5. ps.src.type # "Prior"
    BY <1>3, <1>11 DEF SumHeld
  <2>6. /\ EvaluateOperand(program.left, memrefs, mods)
             = SumOf(oper, EvaluateOperand(ps.src, memrefs, mods), EvaluateOperand(op, memrefs, mods))
        /\ Within(ps.src, References(program)) /\ Within(op, References(program))
    BY <2>1, <2>2, <2>3, <2>4, <2>5, AddsEvaluates
  <2>7. EvaluateOperand(op, memrefs, mods) = w
    BY <1>1, <1>2, <1>5, <1>6, <2>1, <2>6, WrittenEvaluates
  <2>8. EvaluateOperand(ps.src, memrefs, mods)
          = IF ps.srcOper = "AddAccumulator" THEN x % Word ELSE (0 - x) % Word
    BY <1>3, <1>7, <1>11, <2>6 DEF SumHeld
  <2>9. EvaluateOperand(program.left, memrefs, mods) = (x + w) % Word
    <3>1. /\ SumOf("Add", x % Word, w) = (x + w) % Word
          /\ SumOf("SubParent", (0 - x) % Word, w) = (x + w) % Word
      BY <1>8, SumSteps
    <3>2. QED
      BY <2>2, <2>4, <2>6, <2>7, <2>8, <3>1
  <2>10. QED
    BY <1>9, <2>9
<1>12. QED
  BY <1>10, <1>11

(* ... and the right one to what is written. *)
LEMMA RightEvaluates ==
    ASSUME MemoryHeld, ~UsesPrior(condition)
    PROVE  EvaluateOperand(program.right, memrefs, mods)
             = Written(condition.right, Len(condition.sources))
<1>1. /\ Len(condition.sources) \in 0..Len(condition.sources)
      /\ Made(condition, Parsed(condition), program) /\ condition.right \in Operands
      /\ program.right \in OpsOn(DOMAIN program.list) /\ Within(program.right, References(program))
  BY ConditionIs
<1>2. Reads(program.right, program.list, condition.right,
          Parsed(condition)[Len(condition.sources)].ind)
  BY <1>1 DEF Made, EndsChain
<1>3. condition.right.type # "Prior"
  BY NoneUsesPrior
<1>4. QED
  BY <1>1, <1>2, <1>3, WrittenEvaluates

(* The forms of the comparison. *)
LEMMA RawEvaluates ==
    ASSUME NEW op, Simple(op)
    PROVE  Raw(op) = EvaluateOperand(op, memrefs, mods)
BY DEF Simple, Raw, EvaluateOperand, Decoded

(* A number compared with itself. *)
LEMMA CompareSame ==
    ASSUME NEW a \in Int, NEW oper \in {"=", "!=", "<", "<=", ">", ">="}
    PROVE  Compare(a, oper, a) <=> oper \in {"=", "<=", ">="}
<1>1. CASE oper = "="
  BY <1>1 DEF Compare
<1>2. CASE oper = "!="
  BY <1>2 DEF Compare
<1>3. CASE oper = "<"
  BY <1>3 DEF Compare
<1>4. CASE oper = "<="
  BY <1>4 DEF Compare
<1>5. CASE oper = ">"
  BY <1>5 DEF Compare
<1>6. CASE oper = ">="
  BY <1>6 DEF Compare
<1>7. QED
  BY <1>1, <1>2, <1>3, <1>4, <1>5, <1>6

(* Each form of the comparison tells what the operands evaluate to. *)
LEMMA VerdictEvaluates ==
    ASSUME MemoryHeld, ~ComparesParts(program)
    PROVE  TestCondition <=> Compare(EvaluateOperand(program.left, memrefs, mods), condition.oper,
                                     EvaluateOperand(program.right, memrefs, mods))
<1>1. PICK left, right : left = program.left /\ right = program.right
  OBVIOUS
<1>2. PICK a, b : /\ a = EvaluateOperand(left, memrefs, mods)
                  /\ b = EvaluateOperand(right, memrefs, mods)
  OBVIOUS
<1>3. PICK oper : oper = condition.oper
  OBVIOUS
<1>4. oper \in {"=", "!=", "<", "<=", ">", ">="}
  BY <1>3, ConditionsAssumption DEF MemoryHeld
<1>5. a \in Int
  <2>1. a \in Numbers
    BY <1>1, <1>2, ConditionIs, EvaluateNumber
  <2>2. QED
    BY <2>1, NumberRemains
<1>6. PICK form : form = Comparator(left, right)
  OBVIOUS
<1>7. /\ Simple(left) => Raw(left) = a
      /\ Simple(right) => Raw(right) = b
      /\ left.type = "Const" => a = left.num
      /\ right.type = "Const" => b = right.num
  <2>1. left.type = "Const" => a = left.num
    BY <1>2 DEF EvaluateOperand
  <2>2. right.type = "Const" => b = right.num
    BY <1>2 DEF EvaluateOperand
  <2>3. QED
    BY <1>2, <2>1, <2>2, RawEvaluates
<1>8. left \in OpsOn(DOMAIN program.list) /\ right \in OpsOn(DOMAIN program.list)
  BY <1>1, ConditionIs
<1>9. \/ form = "ToConst" /\ Simple(left) /\ right.type = "Const"
      \/ form = "ToMemref" /\ Simple(left) /\ Simple(right)
      \/ form = "Constant" /\ Simple(left) /\ Simple(right) /\ left.type = right.type
            /\ left.ref = right.ref /\ left.size = right.size
      \/ form = "Constant" /\ left.type = "Const" /\ right.type = "Const"
      \/ form = "ToItself" /\ Simple(left) /\ Simple(right) /\ left.type # right.type
             /\ left.ref = right.ref
      \/ form = "Default"
  BY <1>6 DEF Comparator, Simple
<1>10. TestCondition =
         CASE form = "ToConst" -> Compare(Raw(left), oper, right.num)
           [] form = "ToMemref" -> Compare(Raw(left), oper, Raw(right))
           [] form = "ToItself" -> IF memrefs[left.ref].changed
                                   THEN Compare(Raw(left), oper, Raw(right))
                                   ELSE oper \in {"=", "<=", ">="}
           [] form = "Constant" -> Compare(left.num, oper, right.num)
           [] form = "Default" -> Compare(a, oper, b)
  BY <1>1, <1>2, <1>3, <1>6 DEF TestCondition
<1>11. CASE form = "ToConst" /\ Simple(left) /\ right.type = "Const"
  BY <1>1, <1>2, <1>3, <1>7, <1>10, <1>11
<1>12. CASE form = "ToMemref" /\ Simple(left) /\ Simple(right)
  BY <1>1, <1>2, <1>3, <1>7, <1>10, <1>12
<1>13. CASE form = "Constant" /\ left.type = "Const" /\ right.type = "Const"
  BY <1>1, <1>2, <1>3, <1>7, <1>10, <1>13
<1>14. CASE form = "Default"
  BY <1>1, <1>2, <1>3, <1>10, <1>14
<1>15. CASE form = "Constant" /\ Simple(left) /\ Simple(right) /\ left.type = right.type
            /\ left.ref = right.ref /\ left.size = right.size
  <2>1. left.num = 0 /\ right.num = 0
    BY <1>8, <1>15 DEF Simple, OpsOn
  <2>2. a = b
    BY <1>7, <1>15 DEF Raw
  <2>3. Compare(0, oper, 0) <=> Compare(a, oper, a)
    BY <1>4, <1>5, CompareSame
  <2>4. QED
    BY <1>1, <1>2, <1>3, <1>10, <1>15, <2>1, <2>2, <2>3
<1>16. CASE form = "ToItself" /\ Simple(left) /\ Simple(right) /\ left.type # right.type
                /\ left.ref = right.ref
  <2>1. CASE memrefs[left.ref].changed
    BY <1>1, <1>2, <1>3, <1>7, <1>10, <1>16, <2>1
  <2>2. CASE ~memrefs[left.ref].changed
    <3>1. left.size = right.size
      BY <1>1, <1>16 DEF ComparesParts
    <3>2. Raw(left) = Raw(right)
      BY <1>16, <2>2, <3>1 DEF Raw, Remembered, Simple
    <3>3. a = b
      BY <1>7, <1>16, <3>2
    <3>4. Compare(a, oper, a) <=> oper \in {"=", "<=", ">="}
      BY <1>4, <1>5, CompareSame
    <3>5. QED
      BY <1>1, <1>2, <1>3, <1>10, <1>16, <2>2, <3>3, <3>4
  <2>3. QED
    BY <2>1, <2>2
<1>17. QED
  BY <1>9, <1>11, <1>12, <1>13, <1>14, <1>15, <1>16

(* The condition reads the sum that is written, in every frame, of every chain. *)
THEOREM SumKeptHolds == MemorySpec => []SumKept
<1>1. MemoryInit => MemoryHeld
  BY MemoryHeldInitially
<1>2. MemoryHeld /\ [MemoryNext]_memoryVars => MemoryHeld'
  BY MemoryHeldOnwards
<1>3. MemoryHeld => SumKept
  BY LeftEvaluates DEF SumKept
<1>4. QED
  BY <1>1, <1>2, <1>3, PTL DEF MemorySpec

(* The verdict of a condition is that of its comparison on what is written,
   whichever form the parser chose. *)
THEOREM VerdictKeptHolds == MemorySpec => []VerdictKept
<1>1. MemoryInit => MemoryHeld
  BY MemoryHeldInitially
<1>2. MemoryHeld /\ [MemoryNext]_memoryVars => MemoryHeld'
  BY MemoryHeldOnwards
<1>3. MemoryHeld => VerdictKept
  BY LeftEvaluates, RightEvaluates, VerdictEvaluates DEF VerdictKept
<1>4. QED
  BY <1>1, <1>2, <1>3, PTL DEF MemorySpec
=============================================================================
