-------------------------- MODULE IPv4PingerProofs --------------------------
(***************************************************************************)
(* Proofs about the checksum of IPv4Pinger, for bytes of any width and     *)
(* packets of any length below Base.                                       *)
(*                                                                         *)
(* A checksum is right if the words add up to a multiple of Base - 1       *)
(* (RightIsMultiple), and one fold tells those from all others, as long as *)
(* the sum is no larger than that of Base - 1 words (FoldIsMultiple).      *)
(***************************************************************************)
EXTENDS IPv4Pinger, WellFoundedInduction, SequenceTheorems,
        FiniteSetTheorems, TLAPS

(* Division with a remainder, and that it is the only one. *)
LEMMA DivFacts ==
  ASSUME NEW a \in Nat, NEW b \in Nat \ {0}
  PROVE  /\ a \div b \in Nat /\ a % b \in 0 .. b - 1
         /\ a = b * (a \div b) + (a % b)
<1> DEFINE q == a \div b
           r == a % b
           p == b * q
<1>1. q \in Nat /\ r \in 0 .. b - 1 /\ p \in Int
  OBVIOUS
<1>2. q = a \div b /\ r = a % b /\ p = b * q
  OBVIOUS
<1> HIDE DEF p, q, r
<1>3. p + r = a
  BY <1>1, <1>2
<1> QED
  BY <1>1, <1>2, <1>3

LEMMA Multiples ==
  ASSUME NEW b \in Nat \ {0}, NEW p \in Int, NEW q \in Int, p < q
  PROVE  b * p + b <= b * q
<1>1. q - p - 1 \in Nat /\ b \in Nat
  OBVIOUS
<1>2. b * (q - p - 1) >= 0
  BY <1>1
<1>3. b * (q - p - 1) = b * q - b * p - b
  OBVIOUS
<1>4. b * q \in Int /\ b * p \in Int
  OBVIOUS
<1> QED
  BY <1>2, <1>3, <1>4

LEMMA DivUnique ==
  ASSUME NEW b \in Nat \ {0}, NEW q \in Nat, NEW r \in 0 .. b - 1
  PROVE  /\ (b * q + r) \div b = q
         /\ (b * q + r) % b = r
<1> DEFINE a == b * q + r
           p == a \div b
           s == a % b
<1>1. a \in Nat
  OBVIOUS
<1>2. p \in Nat /\ s \in 0 .. b - 1 /\ a = b * p + s
  BY <1>1, DivFacts
<1> HIDE DEF p, s
<1>3. ~(p < q)
  BY <1>2, Multiples
<1>4. ~(q < p)
  BY <1>2, Multiples
<1>5. p = q
  BY <1>2, <1>3, <1>4
<1>6. s = r
  BY <1>2, <1>5
<1> QED
  BY <1>5, <1>6 DEF p, s

(* A set that holds 0, and with every number up to n the next one, holds   *)
(* every number up to n.                                                   *)
LEMMA UpTo ==
  ASSUME NEW n \in Nat, NEW S, 0 \in S,
         \A i \in 1 .. n : i - 1 \in S => i \in S
  PROVE  0 .. n \subseteq S
<1> DEFINE T == (0 .. n) \ S
<1>1. SUFFICES ASSUME T # {} PROVE FALSE
  OBVIOUS
<1>2. \E m \in T : \A k \in T : <<k, m>> \notin OpToRel(<, Nat)
  <2>1. T \subseteq Nat
    OBVIOUS
  <2> HIDE DEF T
  <2> QED
    BY <1>1, <2>1, NatLessThanWellFounded, WFMin, Zenon
<1>3. PICK m \in T : \A k \in T : <<k, m>> \notin OpToRel(<, Nat)
  BY <1>2
<1>4. \A k \in T : ~(k < m)
  <2>1. T \subseteq Nat
    OBVIOUS
  <2> HIDE DEF T
  <2> QED
    BY <1>3, <2>1 DEF OpToRel
<1>5. m \in 1 .. n /\ m - 1 \in S
  BY <1>4
<1> QED
  BY <1>5

-----------------------------------------------------------------------------
(* The sums of the loop: before any word, and after each. *)
IsSums(words, sum) ==
  /\ sum \in [0 .. Len(words) -> Int]
  /\ sum[0] = 0
  /\ \A i \in 1 .. Len(words) : sum[i] = sum[i - 1] + words[i]

(* The recursion defines the sums, and no two functions are.               *)
LEMMA SumsExist ==
  ASSUME NEW words \in Seq(Int)
  PROVE  \E sum : IsSums(words, sum)
<1> DEFINE n == Len(words)
           Upto(k, f) == /\ f \in [0 .. k -> Int]
                         /\ f[0] = 0
                         /\ \A i \in 1 .. k : f[i] = f[i - 1] + words[i]
           S == {k \in 0 .. n : \E f : Upto(k, f)}
<1>1. n \in Nat /\ \A i \in 1 .. n : words[i] \in Int
  OBVIOUS
<1> HIDE DEF n
<1>2. 0 \in S
  <2> DEFINE f == [i \in 0 .. 0 |-> 0]
  <2>1. f \in [0 .. 0 -> Int] /\ f[0] = 0 /\ 1 .. 0 = {}
    OBVIOUS
  <2> HIDE DEF f
  <2>2. Upto(0, f)
    BY <2>1
  <2> QED
    BY <1>1, <2>2
<1>3. ASSUME NEW k \in 1 .. n, k - 1 \in S
      PROVE  k \in S
  <2>1. PICK f : Upto(k - 1, f)
    BY <1>3
  <2> DEFINE g == [i \in 0 .. k |-> IF i = k THEN f[k - 1] + words[k] ELSE f[i]]
  <2>2. g \in [0 .. k -> Int]
    BY <1>1, <2>1
  <2>3. \A i \in 0 .. k - 1 : g[i] = f[i]
    OBVIOUS
  <2>4. g[k] = f[k - 1] + words[k]
    OBVIOUS
  <2> HIDE DEF g
  <2>5. g[0] = 0
    BY <1>1, <2>1, <2>3
  <2>6. ASSUME NEW i \in 1 .. k
        PROVE  g[i] = g[i - 1] + words[i]
    <3>1. CASE i = k
      BY <1>1, <2>3, <2>4, <3>1
    <3>2. CASE i # k
      BY <1>1, <2>1, <2>3, <3>2
    <3> QED
      BY <3>1, <3>2
  <2>7. Upto(k, g)
    BY <2>2, <2>5, <2>6
  <2>8. k \in 0 .. n
    BY <1>1
  <2> HIDE DEF Upto
  <2> QED
    BY <2>7, <2>8
<1>4. n \in S
  <2> HIDE DEF S
  <2>1. 0 .. n \subseteq S
    BY <1>1, <1>2, <1>3, UpTo
  <2> QED
    BY <1>1, <2>1
<1> QED
  BY <1>4 DEF IsSums, n

LEMMA TotalSums ==
  ASSUME NEW words \in Seq(Int), NEW sum, IsSums(words, sum)
  PROVE  Total(words) = sum[Len(words)]
<1> DEFINE Rec(f) == f = [i \in 0 .. Len(words) |->
                            IF i = 0 THEN 0 ELSE f[i - 1] + words[i]]
           loop == CHOOSE f : Rec(f)
<1>1. Len(words) \in Nat
  OBVIOUS
<1>2. Rec(sum)
  <2>1. sum = [i \in 0 .. Len(words) |-> sum[i]]
    BY DEF IsSums
  <2>2. \A i \in 0 .. Len(words) :
          sum[i] = IF i = 0 THEN 0 ELSE sum[i - 1] + words[i]
    BY <1>1 DEF IsSums
  <2> QED
    BY <2>1, <2>2, Zenon
<1>3. Rec(loop)
  <2> HIDE DEF Rec
  <2> QED
    BY <1>2, Zenon
<1>4. Total(words) = loop[Len(words)]
  BY Zenon DEF Total
<1> DEFINE S == {i \in 0 .. Len(words) : loop[i] = sum[i]}
<1> HIDE DEF loop
<1>5. 0 \in S
  BY <1>1, <1>3 DEF IsSums
<1>6. ASSUME NEW i \in 1 .. Len(words), i - 1 \in S
      PROVE  i \in S
  BY <1>1, <1>3, <1>6 DEF IsSums
<1>7. 0 .. Len(words) \subseteq S
  <2> HIDE DEF S
  <2> QED
    BY <1>1, <1>5, <1>6, UpTo
<1> QED
  BY <1>1, <1>4, <1>7

-----------------------------------------------------------------------------
(* The words of a packet are what two bytes can say. *)
LEMMA BaseFacts ==
  /\ Byte \in Nat \ {0} /\ Base \in Nat /\ Base >= 4
  /\ EchoRequest * Byte \in Word /\ EchoRequest * Byte > 0
  /\ EchoReply * Byte = 0
<1>1. Byte \in Nat \ {0} /\ Byte >= 2 /\ EchoRequest \in 1 .. Byte - 1
  BY IPv4PingerAssumption
<1>2. Byte * 1 + Byte <= Byte * Byte
  BY <1>1, Multiples
<1>3. Byte * EchoRequest + Byte <= Byte * Byte
  BY <1>1, Multiples
<1>4. Byte * 0 + Byte <= Byte * EchoRequest
  BY <1>1, Multiples
<1> QED
  BY <1>1, <1>2, <1>3, <1>4 DEF Base, Word, EchoReply

LEMMA WordFacts ==
  /\ Word \subseteq Nat
  /\ \A w \in Word : w \in Int /\ w <= Base - 1
  /\ \A w \in Int : 0 <= w /\ w <= Base - 1 => w \in Word
  BY BaseFacts DEF Word

LEMMA WordsAreNumbers ==
  ASSUME NEW words \in Seq(Word)
  PROVE  /\ words \in Seq(Int) /\ Len(words) \in Nat
         /\ \A i \in 1 .. Len(words) : words[i] \in Nat /\ words[i] <= Base - 1
<1>1. Len(words) \in Nat /\ \A i \in 1 .. Len(words) : words[i] \in Word
  OBVIOUS
<1>2. words = [i \in 1 .. Len(words) |-> words[i]]
  OBVIOUS
<1>3. \A i \in 1 .. Len(words) : words[i] \in Int
  BY <1>1, WordFacts
<1>4. words \in Seq(Int)
  BY <1>1, <1>2, <1>3
<1> QED
  BY <1>1, <1>4, WordFacts

(* The total of a packet is no less than any of its words, and bounded by  *)
(* their number.                                                           *)
LEMMA TotalFacts ==
  ASSUME NEW words \in Seq(Word)
  PROVE  /\ Total(words) \in Nat
         /\ Total(words) <= (Base - 1) * Len(words)
         /\ \A i \in 1 .. Len(words) : words[i] <= Total(words)
<1> DEFINE n == Len(words)
           R == Base - 1
<1>1. /\ words \in Seq(Int) /\ n \in Nat /\ R \in Nat
      /\ \A i \in 1 .. n : words[i] \in Nat /\ words[i] <= R
  BY WordsAreNumbers, BaseFacts
<1>2. PICK sum : IsSums(words, sum)
  BY <1>1, SumsExist
<1>3. /\ sum \in [0 .. n -> Int] /\ sum[0] = 0
      /\ \A i \in 1 .. n : sum[i] = sum[i - 1] + words[i]
  BY <1>2 DEF IsSums
<1>4. Total(words) = sum[n]
  BY <1>1, <1>2, TotalSums
<1> HIDE DEF n, R
<1>5. ASSUME NEW i \in 0 .. n
      PROVE  sum[i] \in Nat /\ sum[i] <= R * i
  <2> DEFINE S == {k \in 0 .. n : sum[k] \in Nat /\ sum[k] <= R * k}
  <2>1. 0 \in S
    BY <1>1, <1>3
  <2>2. ASSUME NEW k \in 1 .. n, k - 1 \in S
        PROVE  k \in S
    <3>1. /\ sum[k] = sum[k - 1] + words[k] /\ words[k] \in Nat
          /\ words[k] <= R
      BY <1>1, <1>3
    <3>2. sum[k - 1] \in Nat /\ sum[k - 1] <= R * (k - 1)
      BY <2>2
    <3>3. R * (k - 1) + R = R * k /\ R * (k - 1) \in Int /\ R * k \in Int
      BY <1>1
    <3> QED
      BY <1>1, <3>1, <3>2, <3>3
  <2> HIDE DEF S
  <2>3. 0 .. n \subseteq S
    BY <1>1, <2>1, <2>2, UpTo
  <2> QED
    BY <2>3 DEF S
<1>6. ASSUME NEW i \in 1 .. n
      PROVE  words[i] <= sum[n]
  <2> DEFINE S == {k \in 0 .. n : k >= i => words[i] <= sum[k]}
  <2>1. 0 \in S
    BY <1>1
  <2>2. ASSUME NEW k \in 1 .. n, k - 1 \in S
        PROVE  k \in S
    <3>1. k - 1 \in 0 .. n /\ k \in 0 .. n
      BY <1>1
    <3>2. sum[k] = sum[k - 1] + words[k] /\ words[k] \in Nat
      BY <1>1, <1>3
    <3>3. sum[k - 1] \in Nat /\ words[i] \in Nat
      BY <1>1, <1>5, <3>1
    <3>4. k - 1 >= i => words[i] <= sum[k - 1]
      BY <2>2
    <3>5. CASE k = i
      BY <3>1, <3>2, <3>3, <3>5
    <3>6. CASE k # i
      BY <3>1, <3>2, <3>3, <3>4, <3>6
    <3> QED
      BY <3>5, <3>6
  <2> HIDE DEF S
  <2>3. 0 .. n \subseteq S
    BY <1>1, <2>1, <2>2, UpTo
  <2> QED
    BY <1>1, <2>3 DEF S
<1>7. n \in 0 .. n
  BY <1>1
<1> QED
  BY <1>4, <1>5, <1>6, <1>7 DEF n, R

(* Another word changes the total by the difference. *)
LEMMA TotalChanged ==
  ASSUME NEW words \in Seq(Word), NEW i \in 1 .. Len(words), NEW w \in Word
  PROVE  /\ [words EXCEPT ![i] = w] \in Seq(Word)
         /\ Total([words EXCEPT ![i] = w]) = Total(words) - words[i] + w
<1> DEFINE other == [words EXCEPT ![i] = w]
           n == Len(words)
<1>1. /\ other \in Seq(Word) /\ Len(other) = n /\ n \in Nat
      /\ other[i] = w /\ \A k \in 1 .. n : k # i => other[k] = words[k]
  OBVIOUS
<1>2. /\ words \in Seq(Int) /\ other \in Seq(Int) /\ w \in Int
      /\ \A k \in 1 .. n : words[k] \in Int
  BY <1>1, WordsAreNumbers, WordFacts
<1> HIDE DEF other, n
<1>3. PICK sum : IsSums(words, sum)
  BY <1>2, SumsExist
<1>4. PICK sum2 : IsSums(other, sum2)
  BY <1>2, SumsExist
<1>5. Total(words) = sum[n] /\ Total(other) = sum2[n]
  BY <1>1, <1>2, <1>3, <1>4, TotalSums DEF n
<1>6. /\ sum \in [0 .. n -> Int] /\ sum[0] = 0
      /\ \A k \in 1 .. n : sum[k] = sum[k - 1] + words[k]
  BY <1>3 DEF IsSums, n
<1>7. /\ sum2 \in [0 .. n -> Int] /\ sum2[0] = 0
      /\ \A k \in 1 .. n : sum2[k] = sum2[k - 1] + other[k]
  BY <1>1, <1>4 DEF IsSums
<1> DEFINE After(k) ==
             /\ k < i => sum2[k] = sum[k]
             /\ k >= i => sum2[k] = sum[k] - words[i] + w
           S == {k \in 0 .. n : After(k)}
<1>8. 0 \in S
  BY <1>1, <1>6, <1>7
<1>9. i \in 1 .. n
  BY DEF n
<1>10. ASSUME NEW k \in 1 .. n, k - 1 \in S
       PROVE  k \in S
  <2>1. k - 1 \in 0 .. n /\ k \in 0 .. n
    BY <1>1
  <2>2. sum[k] = sum[k - 1] + words[k] /\ sum2[k] = sum2[k - 1] + other[k]
    BY <1>6, <1>7
  <2>3. sum[k - 1] \in Int /\ sum2[k - 1] \in Int
    BY <1>6, <1>7, <2>1
  <2>4. words[k] \in Int /\ words[i] \in Int
    BY <1>2, <1>9
  <2>5. /\ k - 1 < i => sum2[k - 1] = sum[k - 1]
        /\ k - 1 >= i => sum2[k - 1] = sum[k - 1] - words[i] + w
    BY <1>10
  <2>6. CASE k = i
    <3>1. sum2[k] = sum[k] - words[i] + w
      BY <1>1, <1>2, <2>2, <2>3, <2>4, <2>5, <2>6
    <3> QED
      BY <2>1, <2>6, <3>1
  <2>7. CASE k # i
    <3>1. other[k] = words[k]
      BY <1>1, <2>7
    <3>2. k < i => sum2[k] = sum[k]
      BY <1>9, <2>1, <2>2, <2>5, <2>7, <3>1
    <3>3. k >= i => sum2[k] = sum[k] - words[i] + w
      BY <1>2, <1>9, <2>2, <2>3, <2>4, <2>5, <2>7, <3>1
    <3> QED
      BY <2>1, <3>2, <3>3
  <2> QED
    BY <2>6, <2>7
<1>11. 0 .. n \subseteq S
  <2> HIDE DEF S
  <2> QED
    BY <1>1, <1>8, <1>10, UpTo
<1>12. Total(other) = Total(words) - words[i] + w
  BY <1>1, <1>5, <1>9, <1>11
<1> QED
  BY <1>1, <1>12 DEF other

-----------------------------------------------------------------------------
(* A checksum is right if the words add up to a multiple of Base - 1 that  *)
(* is not zero.                                                            *)
LEMMA RightIsMultiple ==
  ASSUME NEW words \in Seq(Word)
  PROVE  Right(words) <=>
           \E k \in Nat \ {0} : Total(words) = (Base - 1) * k
<1> DEFINE t == Total(words)
           R == Base - 1
<1>1. t \in Nat /\ R \in Nat \ {0}
  BY TotalFacts, BaseFacts
<1>2. Right(words) <=> (IF t = 0 THEN 0 ELSE 1 + ((t - 1) % R)) = R
  BY DEF Right, OnesSum
<1> SUFFICES Right(words) <=> \E k \in Nat \ {0} : t = R * k
  OBVIOUS
<1> HIDE DEF t, R
<1>3. CASE t = 0
  <2>1. ASSUME NEW k \in Nat \ {0}
        PROVE  R * k # 0
    <3>1. R * 0 + R <= R * k
      BY <1>1, Multiples
    <3> QED
      BY <1>1, <3>1
  <2>2. ~Right(words)
    BY <1>1, <1>2, <1>3
  <2> QED
    BY <1>3, <2>1, <2>2
<1>4. CASE t > 0
  <2> DEFINE q == (t - 1) \div R
             r == (t - 1) % R
  <2>1. t - 1 \in Nat
    BY <1>1, <1>4
  <2>2. q \in Nat /\ r \in 0 .. R - 1 /\ t - 1 = R * q + r
    BY <1>1, <2>1, DivFacts
  <2>3. Right(words) <=> 1 + r = R
    BY <1>1, <1>2, <1>4
  <2> HIDE DEF q, r
  <2>4. 1 + r = R => t = R * (q + 1)
    BY <1>1, <2>2
  <2>5. ASSUME NEW k \in Nat \ {0}, t = R * k
        PROVE  1 + r = R
    <3>1. t - 1 = R * (k - 1) + (R - 1)
      BY <1>1, <2>5
    <3>2. (t - 1) % R = R - 1
      <4>1. k - 1 \in Nat /\ R - 1 \in 0 .. R - 1
        BY <1>1
      <4>2. (R * (k - 1) + (R - 1)) % R = R - 1
        BY <1>1, <4>1, DivUnique
      <4> QED
        BY <3>1, <4>2
    <3> QED
      BY <1>1, <3>2 DEF r
  <2>6. q + 1 \in Nat \ {0}
    BY <2>2
  <2>7. Right(words) => \E k \in Nat \ {0} : t = R * k
    BY <2>3, <2>4, <2>6
  <2> QED
    BY <2>3, <2>5, <2>7
<1> QED
  BY <1>1, <1>3, <1>4

(* What one fold makes of a sum that is not too large. *)
LEMMA FoldFacts ==
  ASSUME NEW s \in Nat, s <= (Base - 1) * (Base - 1)
  PROVE  \E q \in 0 .. Base - 2, r \in 0 .. Base - 1 :
           /\ s \div Base = q /\ s % Base = r
           /\ s = (Base - 1) * q + (q + r)
           /\ Fold(s) = IF q + r < Base THEN q + r ELSE q + r - Base
<1> DEFINE q == s \div Base
           r == s % Base
<1>1. Base \in Nat \ {0} /\ Base >= 4
  BY BaseFacts
<1>2. q \in Nat /\ r \in 0 .. Base - 1 /\ s = Base * q + r
  BY <1>1, DivFacts
<1>3. Fold(s) = (s + q) % Base
  BY DEF Fold
<1>4. q = s \div Base /\ r = s % Base
  OBVIOUS
<1> HIDE DEF q, r
<1>5. (Base - 1) * (Base - 1) + (Base - 1) = Base * (Base - 1)
  BY <1>1
<1>6. q < Base - 1
  <2>1. SUFFICES ASSUME Base - 1 <= q PROVE FALSE
    BY <1>1, <1>2
  <2>2. Base * (Base - 1) <= Base * q
    <3>1. CASE Base - 1 = q
      BY <1>1, <1>2, <3>1
    <3>2. CASE Base - 1 < q
      <4>1. Base * (Base - 1) + Base <= Base * q
        BY <1>1, <1>2, <3>2, Multiples
      <4> QED
        BY <1>1, <1>2, <4>1
    <3> QED
      BY <1>1, <1>2, <2>1, <3>1, <3>2
  <2>3. Base * (Base - 1) \in Int /\ Base * q \in Int
    BY <1>1, <1>2
  <2> QED
    BY <1>1, <1>2, <1>5, <2>2, <2>3
<1>7. s = (Base - 1) * q + (q + r)
  BY <1>1, <1>2
<1>8. CASE q + r < Base
  <2>1. s + q = Base * q + (q + r) /\ q + r \in 0 .. Base - 1
    BY <1>1, <1>2, <1>8
  <2>2. (s + q) % Base = q + r
    BY <1>1, <1>2, <2>1, DivUnique
  <2> QED
    BY <1>1, <1>2, <1>3, <1>4, <1>6, <1>7, <1>8, <2>2
<1>9. CASE q + r >= Base
  <2>1. s + q = Base * (q + 1) + (q + r - Base) /\ q + 1 \in Nat
    BY <1>1, <1>2
  <2>2. q + r - Base \in 0 .. Base - 1
    BY <1>1, <1>2, <1>6, <1>9
  <2>3. (s + q) % Base = q + r - Base
    BY <1>1, <2>1, <2>2, DivUnique
  <2>4. ~(q + r < Base)
    BY <1>1, <1>2, <1>9
  <2> QED
    BY <1>1, <1>2, <1>3, <1>4, <1>6, <1>7, <2>3, <2>4
<1> QED
  BY <1>1, <1>2, <1>8, <1>9

(* One fold finds exactly the multiples of Base - 1. *)
LEMMA FoldIsMultiple ==
  ASSUME NEW s \in Nat, s <= (Base - 1) * (Base - 1)
  PROVE  Fold(s) = Base - 1 <=> \E k \in Nat \ {0} : s = (Base - 1) * k
<1>1. Base \in Nat /\ Base >= 4 /\ Base - 1 \in Nat \ {0}
  BY BaseFacts
<1>2. PICK q \in 0 .. Base - 2, r \in 0 .. Base - 1 :
        /\ s = (Base - 1) * q + (q + r)
        /\ Fold(s) = IF q + r < Base THEN q + r ELSE q + r - Base
  BY FoldFacts
<1>3. Fold(s) = Base - 1 <=> q + r = Base - 1
  BY <1>1, <1>2
<1>4. q + r = Base - 1 => s = (Base - 1) * (q + 1) /\ q + 1 \in Nat \ {0}
  BY <1>1, <1>2
<1>5. ASSUME NEW k \in Nat \ {0}, s = (Base - 1) * k
      PROVE  q + r = Base - 1
  <2> DEFINE R == Base - 1
  <2>1. R * k = R * q + (q + r) /\ R \in Nat \ {0} /\ q \in Nat /\ r \in Nat
    BY <1>1, <1>2, <1>5
  <2>2. q + r <= 2 * R - 1 /\ R >= 3 /\ R * q \in Int /\ R * k \in Int
    BY <1>1, <1>2
  <2>3. Base = R + 1
    BY <1>1
  <2> HIDE DEF R
  <2>4. ~(k < q)
    <3>1. ASSUME k < q PROVE R * k + R <= R * q
      BY <2>1, <3>1, Multiples
    <3> QED
      BY <2>1, <2>2, <3>1
  <2>5. k # q
    <3>1. SUFFICES ASSUME k = q PROVE FALSE
      OBVIOUS
    <3>2. q + r = 0
      BY <2>1, <2>2, <3>1
    <3> QED
      BY <2>1, <3>1, <3>2
  <2>6. ~(q + 1 < k)
    <3>1. ASSUME q + 1 < k PROVE R * (q + 1) + R <= R * k
      BY <2>1, <3>1, Multiples
    <3>2. R * (q + 1) = R * q + R
      BY <2>1
    <3> QED
      BY <2>1, <2>2, <3>1, <3>2
  <2>7. k = q + 1
    BY <2>1, <2>4, <2>5, <2>6
  <2>8. R * k = R * q + R
    BY <2>1, <2>7
  <2> QED
    BY <2>1, <2>2, <2>3, <2>8
<1> QED
  BY <1>3, <1>4, <1>5

-----------------------------------------------------------------------------
(* The packets of module IPv4Pinger.                                       *)
Packet == {p \in Seq(Word) : Len(p) \in 4 .. Base - 1}

Blank(seqno, id, data) == <<EchoRequest * Byte, 0, id, seqno>> \o data

BlankAnswer(request) ==
  <<EchoReply * Byte, 0>> \o SubSeq(request, 3, Len(request))

(* No packet has a total that one fold cannot deal with. *)
LEMMA PacketTotal ==
  ASSUME NEW p \in Packet
  PROVE  /\ p \in Seq(Word) /\ Len(p) \in Nat /\ Len(p) >= 4
         /\ Total(p) \in Nat /\ Total(p) <= (Base - 1) * (Base - 1)
<1>1. /\ p \in Seq(Word) /\ Len(p) \in Nat /\ Len(p) >= 4
      /\ Len(p) <= Base - 1
  BY BaseFacts DEF Packet
<1>2. Total(p) \in Nat /\ Total(p) <= (Base - 1) * Len(p)
  BY <1>1, TotalFacts
<1>3. Base - 1 \in Nat \ {0}
  BY BaseFacts
<1>4. (Base - 1) * Len(p) <= (Base - 1) * (Base - 1)
  <2> DEFINE R == Base - 1
  <2>1. Len(p) = R \/ Len(p) < R
    BY <1>1, <1>3
  <2>2. Len(p) < R => R * Len(p) + R <= R * R
    BY <1>1, <1>3, Multiples
  <2>3. R * Len(p) \in Int /\ R * R \in Int /\ R \in Nat
    BY <1>1, <1>3
  <2> HIDE DEF R
  <2>4. R * Len(p) <= R * R
    BY <2>1, <2>2, <2>3
  <2> QED
    BY <2>4 DEF R
<1>5. (Base - 1) * Len(p) \in Int /\ (Base - 1) * (Base - 1) \in Int
  BY <1>1, <1>3
<1> QED
  BY <1>1, <1>2, <1>4, <1>5

(* The check of a packet of even length is the right one. *)
LEMMA CheckIsRight ==
  ASSUME NEW p \in Packet
  PROVE  CheckPacket(p) <=> p[1] \div Byte = EchoReply /\ Right(p)
<1>1. Fold(Total(p)) = Base - 1 <=> Right(p)
  BY PacketTotal, FoldIsMultiple, RightIsMultiple
<1>2. Fold(Total(p)) \in Int /\ Base \in Int
  <2>1. Base \in Nat \ {0} /\ Total(p) \in Nat
    BY PacketTotal, BaseFacts
  <2>2. Total(p) \div Base \in Nat
    BY <2>1, DivFacts
  <2>3. (Total(p) + Total(p) \div Base) % Base \in Int
    BY <2>1, <2>2, DivFacts
  <2> QED
    BY <2>1, <2>3 DEF Fold
<1>3. Checksum(p) = 0 <=> Fold(Total(p)) = Base - 1
  BY <1>2 DEF Checksum
<1> QED
  BY <1>1, <1>3 DEF CheckPacket

(* A request before its checksum. *)
LEMMA BlankFacts ==
  ASSUME NEW seqno \in Seqnos, NEW id \in Ids, NEW data \in Data
  PROVE  LET blank == Blank(seqno, id, data)
         IN  /\ blank \in Packet
             /\ blank[1] = EchoRequest * Byte /\ blank[2] = 0
             /\ blank[3] = id /\ blank[4] = seqno
<1> DEFINE head == <<EchoRequest * Byte, 0, id, seqno>>
<1>1. /\ EchoRequest * Byte \in Word /\ 0 \in Word
      /\ id \in Word /\ seqno \in Word
  BY BaseFacts, WordFacts, IPv4PingerAssumption
<1>2. head \in Seq(Word) /\ Len(head) = 4
  BY <1>1
<1>3. /\ head[1] = EchoRequest * Byte /\ head[2] = 0
      /\ head[3] = id /\ head[4] = seqno
  BY Zenon
<1>4. data \in Seq(Word) /\ Len(data) \in Nat /\ Len(data) + 4 < Base
  BY IPv4PingerAssumption
<1> HIDE DEF head
<1>5. /\ head \o data \in Seq(Word) /\ Len(head \o data) = 4 + Len(data)
      /\ \A i \in 1 .. 4 + Len(data) :
           (head \o data)[i] = IF i <= 4 THEN head[i] ELSE data[i - 4]
  <2>1. /\ head \o data \in Seq(Word)
        /\ Len(head \o data) = Len(head) + Len(data)
        /\ \A i \in 1 .. Len(head) + Len(data) :
             (head \o data)[i] = IF i <= Len(head) THEN head[i]
                                                 ELSE data[i - Len(head)]
    BY <1>2, <1>4, ConcatProperties, Zenon
  <2> QED
    BY <1>2, <2>1
<1>6. \A i \in 1 .. 4 : (head \o data)[i] = head[i]
  BY <1>4, <1>5
<1>7. head \o data \in Packet
  BY <1>4, <1>5, BaseFacts DEF Packet
<1> QED
  BY <1>3, <1>6, <1>7 DEF Blank, head

(* GeneratePacket(): the request is what it should be, and its checksum is *)
(* right unless adding the carry carries once more.                        *)
LEMMA RequestFacts ==
  ASSUME NEW seqno \in Seqnos, NEW id \in Ids, NEW data \in Data
  PROVE  LET p == GeneratePacket(seqno, id, data)
             sum == Total(p) - p[2]
         IN  /\ p \in Packet /\ p[3] = id /\ p[4] = seqno
             /\ Right(p) <=> (sum % Base) + (sum \div Base) < Base
<1> DEFINE blank == Blank(seqno, id, data)
           s == Total(blank)
           c == Checksum(blank)
           p == GeneratePacket(seqno, id, data)
           R == Base - 1
<1>1. /\ blank \in Packet /\ blank[2] = 0
      /\ blank[3] = id /\ blank[4] = seqno
  BY BlankFacts
<1>2. /\ blank \in Seq(Word) /\ Len(blank) \in Nat /\ Len(blank) >= 4
      /\ Len(blank) <= Base - 1
      /\ s \in Nat /\ s <= (Base - 1) * (Base - 1)
  BY <1>1, PacketTotal, BaseFacts DEF Packet
<1>3. p = [blank EXCEPT ![2] = c]
  BY DEF GeneratePacket, Blank
<1>4. Base \in Nat /\ Base >= 4 /\ R \in Nat \ {0} /\ R >= 3 /\ Base = R + 1
  BY BaseFacts
<1>5. PICK q \in 0 .. Base - 2, r \in 0 .. Base - 1 :
        /\ s \div Base = q /\ s % Base = r
        /\ s = (Base - 1) * q + (q + r)
        /\ Fold(s) = IF q + r < Base THEN q + r ELSE q + r - Base
  BY <1>2, FoldFacts
<1>6. c = R - Fold(s)
  BY DEF Checksum
<1> HIDE DEF blank, s, c, p
<1>7. c \in Word
  BY <1>4, <1>5, <1>6, WordFacts
<1>8. p \in Seq(Word) /\ Total(p) = s - 0 + c
  <2>1. 2 \in 1 .. Len(blank)
    BY <1>2
  <2>2. /\ [blank EXCEPT ![2] = c] \in Seq(Word)
        /\ Total([blank EXCEPT ![2] = c]) = Total(blank) - blank[2] + c
    BY <1>2, <1>7, <2>1, TotalChanged
  <2> QED
    BY <1>1, <1>3, <2>2 DEF s
<1>9. Len(p) = Len(blank) /\ p[2] = c /\ p[3] = id /\ p[4] = seqno
  BY <1>1, <1>2, <1>3
<1>10. p \in Packet
  BY <1>2, <1>4, <1>8, <1>9 DEF Packet
<1>11. c \in Int /\ Total(p) = s + c /\ Total(p) - p[2] = s
  BY <1>2, <1>7, <1>8, <1>9, WordFacts
<1>12. Right(p) <=> \E k \in Nat \ {0} : s + c = R * k
  BY <1>8, <1>11, RightIsMultiple
<1>13. s = R * q + (q + r) /\ R * q \in Int /\ q \in Nat /\ r \in Nat
  BY <1>4, <1>5
<1> HIDE DEF R
<1>14. ASSUME q + r < Base
       PROVE  Right(p)
  <2>1. s + c = R * (q + 1) /\ q + 1 \in Nat \ {0}
    BY <1>2, <1>4, <1>5, <1>6, <1>11, <1>13, <1>14
  <2> QED
    BY <1>12, <2>1
<1>15. ASSUME ~(q + r < Base)
       PROVE  ~Right(p)
  <2>1. s + c = R * (q + 2) + 1
    BY <1>2, <1>4, <1>5, <1>6, <1>11, <1>13, <1>15
  <2>2. ASSUME NEW k \in Nat \ {0}, s + c = R * k
        PROVE  FALSE
    <3>1. R * k = R * (q + 2) + 1
      BY <2>1, <2>2
    <3>2. R * k \in Int /\ R * (q + 2) \in Int /\ q + 2 \in Int
      BY <1>4, <1>13
    <3>3. ASSUME k < q + 2 PROVE FALSE
      <4>1. R * k + R <= R * (q + 2)
        BY <1>4, <3>2, <3>3, Multiples
      <4> QED
        BY <1>4, <3>1, <3>2, <4>1
    <3>4. ASSUME q + 2 < k PROVE FALSE
      <4>1. R * (q + 2) + R <= R * k
        BY <1>4, <3>2, <3>4, Multiples
      <4> QED
        BY <1>4, <3>1, <3>2, <4>1
    <3>5. k = q + 2
      BY <1>13, <3>3, <3>4
    <3> QED
      BY <3>1, <3>2, <3>5
  <2> QED
    BY <1>12, <2>2
<1>16. Right(p) <=> q + r < Base
  BY <1>14, <1>15
<1> QED
  BY <1>5, <1>9, <1>10, <1>11, <1>16 DEF p

(* The answer carries the fields of the request and a right checksum.      *)
LEMMA AnswerFacts ==
  ASSUME NEW p \in Packet
  PROVE  /\ Answer(p) \in Packet /\ Len(Answer(p)) = Len(p)
         /\ Answer(p)[1] \div Byte = EchoReply
         /\ Answer(p)[3] = p[3] /\ Answer(p)[4] = p[4]
         /\ Right(Answer(p))
<1> DEFINE blank == BlankAnswer(p)
           rest == SubSeq(p, 3, Len(p))
           head == <<EchoReply * Byte, 0>>
           t == Total(blank)
           o == OnesSum(blank)
           a == Answer(p)
           R == Base - 1
<1>1. /\ p \in Seq(Word) /\ Len(p) \in Nat /\ Len(p) >= 4
      /\ \A i \in 3 .. Len(p) : p[i] \in Word
  BY PacketTotal
<1>2. /\ rest \in Seq(Word) /\ Len(rest) = Len(p) - 2
      /\ \A i \in 1 .. Len(p) - 2 : rest[i] = p[i + 2]
  <2>1. /\ SubSeq(p, 3, Len(p)) \in Seq(Word)
        /\ Len(SubSeq(p, 3, Len(p))) =
             IF 3 <= Len(p) THEN Len(p) - 3 + 1 ELSE 0
        /\ \A i \in 1 .. Len(p) - 3 + 1 : SubSeq(p, 3, Len(p))[i] = p[3 + i - 1]
    BY <1>1, SubSeqProperties
  <2> QED
    BY <1>1, <2>1
<1>3. head \in Seq(Word) /\ Len(head) = 2
  BY BaseFacts, WordFacts
<1>4. head[1] = EchoReply * Byte /\ head[2] = 0
  BY Zenon
<1>5. blank = head \o rest
  BY DEF BlankAnswer
<1> HIDE DEF head, rest
<1>6. /\ blank \in Seq(Word) /\ Len(blank) = 2 + Len(rest)
      /\ \A i \in 1 .. 2 + Len(rest) :
           blank[i] = IF i <= 2 THEN head[i] ELSE rest[i - 2]
  <2>1. /\ head \o rest \in Seq(Word)
        /\ Len(head \o rest) = Len(head) + Len(rest)
        /\ \A i \in 1 .. Len(head) + Len(rest) :
             (head \o rest)[i] = IF i <= Len(head) THEN head[i]
                                                 ELSE rest[i - Len(head)]
    BY <1>2, <1>3, ConcatProperties, Zenon
  <2> QED
    BY <1>3, <1>5, <2>1
<1> HIDE DEF blank
<1>7. /\ Len(blank) = Len(p)
      /\ blank[1] = EchoReply * Byte /\ blank[2] = 0
      /\ blank[3] = p[3] /\ blank[4] = p[4]
  BY <1>1, <1>2, <1>4, <1>6
<1>8. a = [blank EXCEPT ![2] = Base - 1 - o]
  BY DEF Answer, BlankAnswer, blank
<1>9. t \in Nat /\ R \in Nat \ {0} /\ R >= 3 /\ Base = R + 1 /\ Base \in Nat
  BY <1>6, TotalFacts, BaseFacts
<1>10. o = IF t = 0 THEN 0 ELSE 1 + ((t - 1) % R)
  BY DEF OnesSum
<1> HIDE DEF t, o, a, R
<1>11. o \in 0 .. R /\ \E k \in Nat \ {0} : t + R - o = R * k
  <2>1. CASE t = 0
    <3>1. o = 0 /\ t + R - o = R * 1 /\ 1 \in Nat \ {0}
      BY <1>9, <1>10, <2>1
    <3> QED
      BY <1>9, <3>1
  <2>2. CASE t > 0
    <3> DEFINE q == (t - 1) \div R
               r == (t - 1) % R
    <3>1. t - 1 \in Nat
      BY <1>9, <2>2
    <3>2. q \in Nat /\ r \in 0 .. R - 1 /\ t - 1 = R * q + r
      BY <1>9, <3>1, DivFacts
    <3>3. o = 1 + r
      BY <1>9, <1>10, <2>2
    <3> HIDE DEF q, r
    <3>4. t + R - o = R * (q + 1) /\ q + 1 \in Nat \ {0}
      BY <1>9, <3>2, <3>3
    <3> QED
      BY <1>9, <3>2, <3>3, <3>4
  <2> QED
    BY <1>9, <2>1, <2>2
<1>12. Base - 1 - o \in Word
  BY <1>9, <1>11, WordFacts
<1>13. a \in Seq(Word) /\ Total(a) = t - 0 + (Base - 1 - o)
  <2> DEFINE w == Base - 1 - o
  <2>1. 2 \in 1 .. Len(blank) /\ w \in Word /\ a = [blank EXCEPT ![2] = w]
    BY <1>1, <1>7, <1>8, <1>12
  <2> HIDE DEF w
  <2>2. /\ [blank EXCEPT ![2] = w] \in Seq(Word)
        /\ Total([blank EXCEPT ![2] = w]) = Total(blank) - blank[2] + w
    BY <1>6, <2>1, TotalChanged
  <2>3. a \in Seq(Word) /\ Total(a) = t - 0 + w
    BY <1>7, <2>1, <2>2 DEF t
  <2> QED
    BY <2>3 DEF w
<1>14. Total(a) = t + R - o
  BY <1>9, <1>11, <1>13
<1>15. Right(a)
  BY <1>11, <1>13, <1>14, RightIsMultiple DEF R
<1>16. Len(a) = Len(p) /\ a[1] = 0 /\ a[3] = p[3] /\ a[4] = p[4]
  BY <1>1, <1>6, <1>7, <1>8, BaseFacts
<1>17. a \in Packet
  BY <1>13, <1>16 DEF Packet
<1>18. a[1] \div Byte = EchoReply
  BY <1>16, BaseFacts DEF EchoReply
<1> QED
  BY <1>15, <1>16, <1>17, <1>18 DEF a

-----------------------------------------------------------------------------
(* What is out is a request of the program, with the fields it is known by. *)
PingIsRequest ==
  ping # <<>> =>
    \E seqno \in Seqnos, id \in Ids, data \in Data :
      ping = GeneratePacket(seqno, id, data) /\ asked = <<id, seqno>>

(* What comes in is a packet. *)
WireIsPacket == wire # <<>> => wire \in Packet

IInv == PingIsRequest /\ WireIsPacket

LEMMA PingFacts ==
  ASSUME PingIsRequest, ping # <<>>
  PROVE  ping \in Packet /\ asked = <<ping[3], ping[4]>>
<1>1. PICK seqno \in Seqnos, id \in Ids, data \in Data :
        ping = GeneratePacket(seqno, id, data) /\ asked = <<id, seqno>>
  BY DEF PingIsRequest
<1> QED
  BY <1>1, RequestFacts

(* A packet with another word is a packet. *)
LEMMA DamagedIsPacket ==
  ASSUME NEW p \in Packet, NEW i \in DOMAIN p, NEW w \in Word
  PROVE  [p EXCEPT ![i] = w] \in Packet
<1>1. p \in Seq(Word) /\ i \in 1 .. Len(p)
  BY DEF Packet
<1>2. /\ [p EXCEPT ![i] = w] \in Seq(Word)
      /\ Len([p EXCEPT ![i] = w]) = Len(p)
  BY <1>1
<1> QED
  BY <1>2 DEF Packet

LEMMA InitIInv == Init => IInv
  BY DEF Init, IInv, PingIsRequest, WireIsPacket

LEMMA NextIInv == IInv /\ [Next]_vars => IInv'
<1> SUFFICES ASSUME PingIsRequest, WireIsPacket, [Next]_vars
             PROVE  PingIsRequest' /\ WireIsPacket'
  BY DEF IInv
<1>1. ASSUME NEW seqno \in Seqnos, NEW id \in Ids, SendPing(seqno, id)
      PROVE  PingIsRequest' /\ WireIsPacket'
  <2>1. \E data \in Data : ping' = GeneratePacket(seqno, id, data)
    BY <1>1 DEF SendPing
  <2>2. asked' = <<id, seqno>> /\ wire' = wire
    BY <1>1 DEF SendPing
  <2>3. PingIsRequest'
    BY <2>1, <2>2 DEF PingIsRequest
  <2> QED
    BY <2>2, <2>3 DEF WireIsPacket
<1>2. ASSUME Reply
      PROVE  PingIsRequest' /\ WireIsPacket'
  <2>1. wire' \in Packet
    BY <1>2, PingFacts, AnswerFacts DEF Reply
  <2> QED
    BY <1>2, <2>1 DEF Reply, PingIsRequest, WireIsPacket
<1>3. ASSUME Done
      PROVE  PingIsRequest' /\ WireIsPacket'
  BY <1>3 DEF Done, PingIsRequest, WireIsPacket
<1>4. ASSUME Damage
      PROVE  PingIsRequest' /\ WireIsPacket'
  <2>1. wire \in Packet
    BY <1>4, PingFacts, AnswerFacts DEF Damage
  <2>2. PICK i \in DOMAIN wire, w \in Word : wire' = [wire EXCEPT ![i] = w]
    BY <1>4 DEF Damage
  <2>3. wire' \in Packet
    BY <2>1, <2>2, DamagedIsPacket
  <2> QED
    BY <1>4, <2>3 DEF Damage, PingIsRequest, WireIsPacket
<1>5. ASSUME Stray
      PROVE  PingIsRequest' /\ WireIsPacket'
  <2>1. Strays \subseteq Packet
    BY IPv4PingerAssumption DEF Packet
  <2>2. wire' \in Packet
    BY <1>5, <2>1, PingFacts DEF Stray
  <2> QED
    BY <1>5, <2>2 DEF Stray, PingIsRequest, WireIsPacket
<1>6. ASSUME ReadyReadData
      PROVE  PingIsRequest' /\ WireIsPacket'
  BY <1>6 DEF ReadyReadData, PingIsRequest, WireIsPacket
<1>7. ASSUME UNCHANGED vars
      PROVE  PingIsRequest' /\ WireIsPacket'
  BY <1>7 DEF vars, PingIsRequest, WireIsPacket
<1> QED
  BY <1>1, <1>2, <1>3, <1>4, <1>5, <1>6, <1>7 DEF Next

(* The request that is out was put together by GeneratePacket() from what  *)
(* the program asked for, and the socket gets packets with a header.       *)
THEOREM PacketsAreWellFormed == Spec => []IInv
  BY InitIInv, NextIInv, PTL DEF Spec

(* A request has the right checksum exactly if adding the carry does not   *)
(* carry once more, for bytes of any width, any data and any length.       *)
THEOREM RequestChecksum == Spec => []PingIsRight
<1>1. IInv => PingIsRight
  <2> SUFFICES ASSUME PingIsRequest, ping # <<>>
               PROVE  LET sum == Total(ping) - ping[2]
                      IN  Right(ping) <=>
                            (sum % Base) + (sum \div Base) < Base
    BY DEF IInv, PingIsRight
  <2>1. PICK seqno \in Seqnos, id \in Ids, data \in Data :
          ping = GeneratePacket(seqno, id, data)
    BY DEF PingIsRequest
  <2> QED
    BY <2>1, RequestFacts
<1> QED
  BY <1>1, PacketsAreWellFormed, PTL

-----------------------------------------------------------------------------
(* What readyReadData() makes of a packet of even length. *)
LEMMA Heard ==
  ASSUME WireIsPacket, ReadyReadData, ~odd
  PROVE  /\ wire \in Packet
         /\ heard' # <<>> <=> wire[1] \div Byte = EchoReply /\ Right(wire)
         /\ heard' # <<>> => heard' = <<wire[3], wire[4]>>
<1>1. wire \in Packet
  BY DEF ReadyReadData, WireIsPacket
<1>2. heard' = IF CheckPacket(wire) THEN Fields(wire) ELSE <<>>
  <2>1. Seen = {wire}
    BY DEF Seen
  <2> QED
    BY <2>1 DEF ReadyReadData
<1>3. Fields(wire) # <<>> /\ Fields(wire) = <<wire[3], wire[4]>>
  BY DEF Fields
<1> QED
  BY <1>1, <1>2, <1>3, CheckIsRight

(* CheckPacket() takes exactly the echo replies whose checksum is right.   *)
THEOREM CheckTakesTheRight == Spec => HearsTheRight
<1>1. IInv /\ [Next]_vars =>
        [ReadyReadData /\ ~odd =>
           (heard' # <<>> <=>
              wire[1] \div Byte = EchoReply /\ Right(wire))]_vars
  BY Heard DEF IInv
<1> QED
  BY <1>1, PacketsAreWellFormed, PTL DEF Spec, HearsTheRight

(* Two packets that differ in one word have totals that differ by as much; *)
(* if both are right it is Base - 1, from one zero of one's complement to  *)
(* the other.                                                              *)
LEMMA OneWordDamaged ==
  ASSUME NEW p \in Packet, NEW q \in Packet, Right(p), Right(q),
         Len(p) = Len(q), NEW i \in DOMAIN p, p[i] # q[i],
         \A j \in DOMAIN p : j # i => p[j] = q[j]
  PROVE  {p[i], q[i]} = {0, Base - 1}
<1> DEFINE R == Base - 1
<1>1. /\ p \in Seq(Word) /\ q \in Seq(Word) /\ i \in 1 .. Len(q)
      /\ Total(p) \in Nat /\ Total(q) \in Nat
  BY PacketTotal
<1>2. p[i] \in Word /\ q[i] \in Word
  BY <1>1
<1>3. R \in Nat \ {0} /\ \A w \in Word : w \in 0 .. R
  BY WordFacts, BaseFacts
<1>4. p = [q EXCEPT ![i] = p[i]]
  BY <1>1
<1>5. Total(p) = Total(q) - q[i] + p[i]
  <2> DEFINE w == p[i]
             other == [q EXCEPT ![i] = w]
  <2>1. w \in Word /\ p = other
    BY <1>2, <1>4
  <2> HIDE DEF w
  <2>2. Total(other) = Total(q) - q[i] + w
    BY <1>1, <2>1, TotalChanged
  <2>3. Total(p) = Total(q) - q[i] + w
    BY <2>1, <2>2
  <2> QED
    BY <2>3 DEF w
<1>6. PICK k \in Nat \ {0} : Total(p) = R * k
  BY <1>1, RightIsMultiple
<1>7. PICK l \in Nat \ {0} : Total(q) = R * l
  BY <1>1, RightIsMultiple
<1> HIDE DEF R
<1> DEFINE a == p[i]
           b == q[i]
<1>8. /\ R * k \in Int /\ R * l \in Int /\ R * k = R * l - b + a
      /\ a \in 0 .. R /\ b \in 0 .. R /\ a # b
  BY <1>2, <1>3, <1>5, <1>6, <1>7
<1> HIDE DEF a, b
<1>9. CASE k = l
  BY <1>8, <1>9
<1>10. CASE k < l
  <2>1. R * k + R <= R * l
    BY <1>3, <1>10, Multiples
  <2>2. a = 0 /\ b = R
    BY <1>3, <1>8, <2>1
  <2> QED
    BY <2>2 DEF a, b, R
<1>11. CASE l < k
  <2>1. R * l + R <= R * k
    BY <1>3, <1>11, Multiples
  <2>2. a = R /\ b = 0
    BY <1>3, <1>8, <2>1
  <2> QED
    BY <2>2 DEF a, b, R
<1>12. k = l \/ k < l \/ l < k
  BY <1>6, <1>7
<1> QED
  BY <1>9, <1>10, <1>11, <1>12

(* The answer to a ping is heard as that ping's, and no damage to one word *)
(* goes unnoticed but that of one zero into the other.                     *)
THEOREM AnswersAreHeard == Spec => AnswerIsHeard
<1>1. IInv /\ [Next]_vars =>
        [ReadyReadData /\ ~odd /\ ping # <<>> /\ Len(wire) = Len(ping) =>
           LET sent == Answer(ping)
               damaged == {i \in DOMAIN wire : wire[i] # sent[i]}
           IN  /\ damaged = {} => heard' = asked
               /\ Cardinality(damaged) = 1 /\ heard' # <<>> =>
                    \A i \in damaged :
                      {wire[i], sent[i]} = {0, Base - 1}]_vars
  <2> SUFFICES ASSUME PingIsRequest, WireIsPacket, ReadyReadData, ~odd,
                      ping # <<>>, Len(wire) = Len(ping)
               PROVE  LET sent == Answer(ping)
                          damaged == {i \in DOMAIN wire : wire[i] # sent[i]}
                      IN  /\ damaged = {} => heard' = asked
                          /\ Cardinality(damaged) = 1 /\ heard' # <<>> =>
                               \A i \in damaged :
                                 {wire[i], sent[i]} = {0, Base - 1}
    BY DEF IInv
  <2> DEFINE sent == Answer(ping)
             damaged == {i \in DOMAIN wire : wire[i] # sent[i]}
  <2>1. ping \in Packet /\ asked = <<ping[3], ping[4]>>
    BY PingFacts
  <2>2. /\ sent \in Packet /\ Len(sent) = Len(wire)
        /\ sent[1] \div Byte = EchoReply
        /\ sent[3] = ping[3] /\ sent[4] = ping[4] /\ Right(sent)
    BY <2>1, AnswerFacts
  <2>3. /\ wire \in Packet
        /\ heard' # <<>> <=> wire[1] \div Byte = EchoReply /\ Right(wire)
        /\ heard' # <<>> => heard' = <<wire[3], wire[4]>>
    BY Heard
  <2> HIDE DEF sent
  <2>4. /\ wire \in Seq(Word) /\ sent \in Seq(Word)
        /\ DOMAIN wire = 1 .. Len(wire) /\ Len(wire) \in Nat
        /\ DOMAIN sent = 1 .. Len(wire)
    BY <2>2, <2>3 DEF Packet
  <2>5. ASSUME damaged = {}
        PROVE  heard' = asked
    <3>1. wire = sent
      BY <2>4, <2>5
    <3> QED
      BY <2>1, <2>2, <2>3, <3>1
  <2>6. ASSUME Cardinality(damaged) = 1, heard' # <<>>, NEW i \in damaged
        PROVE  {wire[i], sent[i]} = {0, Base - 1}
    <3>1. IsFiniteSet(damaged)
      <4>1. IsFiniteSet(1 .. Len(wire)) /\ damaged \subseteq 1 .. Len(wire)
        BY <2>4, FS_Interval
      <4> HIDE DEF damaged
      <4> QED
        BY <4>1, FS_Subset
    <3>2. damaged = {i}
      <4> HIDE DEF damaged
      <4>1. PICK x : damaged = {x}
        BY <2>6, <3>1, FS_Singleton
      <4> QED
        BY <2>6, <4>1
    <3>3. i \in DOMAIN wire /\ wire[i] # sent[i]
      BY <2>6
    <3>4. \A j \in DOMAIN wire : j # i => wire[j] = sent[j]
      BY <3>2
    <3> QED
      BY <2>2, <2>3, <2>6, <3>3, <3>4, OneWordDamaged
  <2> QED
    BY <2>5, <2>6 DEF sent
<1> QED
  BY <1>1, PacketsAreWellFormed, PTL DEF Spec, AnswerIsHeard
=============================================================================
