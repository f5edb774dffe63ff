------------------------ MODULE Sha1GeneratorProofs ------------------------
(***************************************************************************)
(* Proofs about Sha1Generator, for words and blocks of any width, those of *)
(* the code among them.                                                    *)
(***************************************************************************)
EXTENDS Sha1Generator, SequenceTheorems, Recursion, TLAPS

\* The two counters can hold the length in bits of each message.
Countable == 8 * MaxTotal < Word * Word

-----------------------------------------------------------------------------
(* Division, and what the widths have to do with each other.               *)

\* The number a is q times b and a rest of r.
Splits(a, b, q, r) ==
  /\ b \in Nat \ {0} /\ q \in Int /\ r \in 0 .. b - 1
  /\ a = b * q + r

\* There is only one quotient with a remainder that is small enough.
LEMMA DivUnique ==
  ASSUME NEW a, NEW b, NEW q, NEW r, Splits(a, b, q, r)
  PROVE  a \div b = q /\ a % b = r
<1>0. b \in Nat \ {0} /\ q \in Int /\ r \in 0 .. b - 1 /\ a = b * q + r
  BY DEF Splits
<1> DEFINE d == a \div b
           s == a % b
<1>1. a \in Int
  BY <1>0
<1>2. a = b * d + s /\ s \in 0 .. b - 1 /\ d \in Int
  BY <1>0, <1>1
<1> HIDE DEF d, s
<1>3. b * q + r = b * d + s
  BY <1>0, <1>2
<1>4. d = q
  <2>1. CASE d >= q + 1
    <3>1. b * d >= b * (q + 1)
      BY <1>0, <1>2, <2>1
    <3> QED BY <1>0, <1>2, <1>3, <3>1
  <2>2. CASE d <= q - 1
    <3>1. b * d <= b * (q - 1)
      BY <1>0, <1>2, <2>2
    <3> QED BY <1>0, <1>2, <1>3, <3>1
  <2> QED BY <1>0, <1>2, <2>1, <2>2
<1>5. s = r
  BY <1>0, <1>2, <1>3, <1>4
<1> QED BY <1>4, <1>5 DEF d, s

\* Each number splits.
LEMMA DivSplits ==
  ASSUME NEW a \in Int, NEW b \in Nat \ {0}
  PROVE  Splits(a, b, a \div b, a % b)
BY DEF Splits

\* A remainder may be taken of a summand first.
LEMMA ModAdd ==
  ASSUME NEW a \in Int, NEW c \in Int, NEW b \in Nat \ {0}
  PROVE  ((a % b) + c) % b = (a + c) % b
<1> DEFINE q == a \div b
           r == a % b
           d == (r + c) \div b
           s == (r + c) % b
<1>1. a = b * q + r /\ q \in Int /\ r \in Int
  BY DivSplits DEF Splits
<1>2. r + c \in Int
  BY <1>1
<1> HIDE DEF q, r
<1>3. r + c = b * d + s /\ d \in Int /\ s \in 0 .. b - 1
  BY <1>2, DivSplits DEF Splits
<1> HIDE DEF d, s
<1>4. b * (q + d) = b * q + b * d /\ b * q \in Int /\ b * d \in Int
  BY <1>1, <1>3
<1>5. a + c = b * (q + d) + s
  <2> DEFINE x == b * q
             y == b * d
  <2>1. x \in Int /\ y \in Int /\ a = x + r /\ r + c = y + s
    BY <1>1, <1>3, <1>4
  <2> HIDE DEF x, y
  <2>2. a + c = (x + y) + s
    BY <1>1, <1>3, <2>1
  <2> QED BY <1>4, <2>2 DEF x, y
<1>6. Splits(a + c, b, q + d, s)
  BY <1>1, <1>3, <1>5 DEF Splits
<1>7. (a + c) % b = s
  BY <1>6, DivUnique
<1> QED BY <1>7 DEF s, r

\* So it may of what is subtracted.
LEMMA ModSub ==
  ASSUME NEW a \in Int, NEW c \in Int, NEW b \in Nat \ {0}
  PROVE  (c - (a % b)) % b = (c - a) % b
<1> DEFINE q == a \div b
           r == a % b
           d == (c - r) \div b
           s == (c - r) % b
<1>1. a = b * q + r /\ q \in Int /\ r \in Int
  BY DivSplits DEF Splits
<1>2. c - r \in Int
  BY <1>1
<1> HIDE DEF q, r
<1>3. c - r = b * d + s /\ d \in Int /\ s \in 0 .. b - 1
  BY <1>2, DivSplits DEF Splits
<1> HIDE DEF d, s
<1>4. b * (d - q) = b * d - b * q /\ b * q \in Int /\ b * d \in Int
  BY <1>1, <1>3
<1>5. c - a = b * (d - q) + s
  <2> DEFINE x == b * q
             y == b * d
  <2>1. x \in Int /\ y \in Int /\ a = x + r /\ c - r = y + s
    BY <1>1, <1>3, <1>4
  <2> HIDE DEF x, y
  <2>2. c - a = (y - x) + s
    BY <1>1, <1>3, <2>1
  <2> QED BY <1>4, <2>2 DEF x, y
<1>6. Splits(c - a, b, d - q, s)
  BY <1>1, <1>3, <1>5 DEF Splits
<1>7. (c - a) % b = s
  BY <1>6, DivUnique
<1> QED BY <1>7 DEF s, r

\* A word is a multiple of a block, in bits.
LEMMA Widths ==
  /\ BlockLen \in Nat \ {0} /\ Word \in Nat \ {0} /\ BlockLen < Word
  /\ \E q \in Int : Word = BlockLen * (8 * q)
<1>1. BlockLen \in Nat /\ Word \in Nat /\ 8 * BlockLen < Word
  BY WidthAssumption
<1>2. BlockLen # 0
  <2>1. WordBits \div 8 \in Int /\ WordBits \div 8 >= 0
    BY WidthAssumption
  <2> QED BY <2>1, WidthAssumption DEF LenLen
<1>3. Word = BlockLen * (8 * (Word \div (8 * BlockLen)))
  <2> DEFINE w == Word
             q == w \div (8 * BlockLen)
  <2>1. w \in Int /\ 8 * BlockLen \in Nat \ {0} /\ w % (8 * BlockLen) = 0
    BY <1>1, <1>2, WidthAssumption
  <2>2. w = (8 * BlockLen) * q + 0 /\ q \in Int
    BY <2>1
  <2> HIDE DEF w, q
  <2>3. w = BlockLen * (8 * q)
    BY <1>1, <2>2
  <2> QED BY <2>3 DEF w, q
<1>4. Word \div (8 * BlockLen) \in Int
  BY <1>1, <1>2
<1> QED BY <1>1, <1>2, <1>3, <1>4

\* The low counter alone tells the position in the buffer, also after it has
\* overflowed.
LEMMA Position ==
  ASSUME NEW g, NEW n \in Nat, g.lo = (8 * n) % Word
  PROVE  Used(g) = n % BlockLen
<1>1. PICK q \in Int : Word = BlockLen * (8 * q)
  BY Widths
<1> DEFINE h == (8 * n) \div Word
           m == n - BlockLen * (h * q)
           e == n \div BlockLen
           r == n % BlockLen
<1>0. BlockLen \in Nat \ {0} /\ 8 * n = Word * h + g.lo /\ h \in Int /\ g.lo \in Int
  <2>1. BlockLen \in Nat \ {0} /\ Word \in Nat \ {0} /\ 8 * n \in Int
    BY Widths
  <2>2. Splits(8 * n, Word, h, g.lo)
    BY <2>1, DivSplits
  <2> QED BY <2>1, <2>2 DEF Splits
<1> HIDE DEF h
<1>2. BlockLen \in Nat \ {0} /\ h \in Int /\ m \in Int
  BY <1>0
<1>3. g.lo = 8 * m + 0
  <2>1. g.lo = 8 * n - h * (BlockLen * (8 * q))
    BY <1>0, <1>1
  <2>2. h * (BlockLen * (8 * q)) = 8 * (BlockLen * (h * q))
    BY <1>2
  <2> QED BY <1>2, <2>1, <2>2
<1>4. g.lo \div 8 = m
  BY <1>2, <1>3
<1>5. n = BlockLen * e + r /\ r \in 0 .. BlockLen - 1 /\ e \in Int
  BY <1>2
<1> HIDE DEF e, r
<1>6. m = BlockLen * (e - h * q) + r
  BY <1>2, <1>5
<1> HIDE DEF m
<1>7. m % BlockLen = r
  <2>1. Splits(m, BlockLen, e - h * q, r)
    BY <1>1, <1>2, <1>5, <1>6 DEF Splits
  <2> QED BY <2>1, DivUnique
<1> QED BY <1>4, <1>7 DEF Used, r

-----------------------------------------------------------------------------
(* How a piece is cut.                                                     *)

\* A piece whose length does not wrap is cut so that the rest is what does
\* not fill a block, and one that wraps overruns the buffer.
LEMMA Cut ==
  ASSUME NEW g, g.lo \in Int, NEW n \in 0 .. Word - 1
  PROVE  /\ Used(g) \in 0 .. BlockLen - 1
         /\ Overruns(g, n) <=> Used(g) + n >= Word
         /\ Used(g) + n < BlockLen => Direct(g, n) = 0
         /\ BlockLen <= Used(g) + n /\ Used(g) + n < Word =>
              /\ Direct(g, n) \in 1 .. n
              /\ n - Direct(g, n) = (Used(g) + n) % BlockLen
<1> DEFINE u == Used(g)
           first == BlockLen - u
           e == (n - first) \div BlockLen
           r == (n - first) % BlockLen
<1>1. BlockLen \in Nat \ {0} /\ Word \in Nat \ {0} /\ BlockLen < Word
  BY Widths
<1>2. u \in 0 .. BlockLen - 1
  BY <1>1 DEF Used
<1>3. n - first = BlockLen * e + r /\ r \in 0 .. BlockLen - 1 /\ e \in Int
  BY <1>1, <1>2
<1>4. Direct(g, n) = IF Completes(g, n) THEN first + BlockLen * e ELSE 0
  BY DEF Direct
<1>5. Completes(g, n) <=> (u + n) % Word > BlockLen - 1
  BY DEF Completes
<1>6. Overruns(g, n) <=>
        (IF Direct(g, n) = 0 THEN u ELSE 0) + n - Direct(g, n) > BlockLen
  BY DEF Overruns
<1> HIDE DEF u, e, r
<1>7. CASE u + n < BlockLen
  <2>1. (u + n) % Word = u + n
    <3>1. Splits(u + n, Word, 0, u + n)
      BY <1>1, <1>2, <1>7 DEF Splits
    <3> QED BY <3>1, DivUnique
  <2>2. Direct(g, n) = 0
    BY <1>1, <1>2, <1>4, <1>5, <1>7, <2>1
  <2> QED BY <1>1, <1>2, <1>6, <1>7, <2>2 DEF u
<1>8. CASE BlockLen <= u + n /\ u + n < Word
  <2>1. (u + n) % Word = u + n
    <3>1. Splits(u + n, Word, 0, u + n)
      BY <1>1, <1>2, <1>8 DEF Splits
    <3> QED BY <3>1, DivUnique
  <2>2. Direct(g, n) = first + BlockLen * e
    BY <1>1, <1>2, <1>4, <1>5, <1>8, <2>1
  <2>3. n - Direct(g, n) = r
    BY <1>1, <1>2, <1>3, <2>2
  <2>4. e >= 0
    <3> SUFFICES ASSUME e <= -1 PROVE FALSE
      BY <1>3
    <3>1. BlockLen * e <= BlockLen * (-1)
      BY <1>1, <1>3
    <3> QED BY <1>1, <1>2, <1>3, <1>8, <3>1
  <2>5. BlockLen * e >= 0 /\ BlockLen * e \in Int
    BY <1>1, <1>3, <2>4
  <2>6. Direct(g, n) \in 1 .. n
    BY <1>1, <1>2, <1>3, <2>2, <2>3, <2>5
  <2>7. u + n = BlockLen * (e + 1) + r
    <3> DEFINE y == BlockLen * e
    <3>1. BlockLen * (e + 1) = y + BlockLen /\ y \in Int
      BY <1>1, <1>3
    <3>2. n - (BlockLen - u) = y + r
      BY <1>3
    <3> HIDE DEF y
    <3>3. u + n = (y + BlockLen) + r
      BY <1>1, <1>2, <1>3, <3>1, <3>2
    <3> QED BY <3>1, <3>3
  <2>8. (u + n) % BlockLen = r
    <3>1. Splits(u + n, BlockLen, e + 1, r)
      BY <1>1, <1>2, <1>3, <2>7 DEF Splits
    <3> QED BY <3>1, DivUnique
  <2>9. ~Overruns(g, n)
    <3>1. Direct(g, n) # 0 /\ 0 + n - Direct(g, n) = r /\ ~(r > BlockLen)
      BY <1>1, <1>3, <2>3, <2>6
    <3> QED BY <1>6, <3>1
  <2>10. ~(u + n >= Word) /\ ~(u + n < BlockLen)
    BY <1>1, <1>2, <1>8
  <2>11. n - Direct(g, n) = (u + n) % BlockLen
    BY <2>3, <2>8
  <2> QED BY <1>2, <2>6, <2>9, <2>10, <2>11 DEF u
<1>9. CASE u + n >= Word
  <2>1. u + n = Word * 1 + (u + n - Word) /\ u + n - Word \in 0 .. BlockLen - 2
    BY <1>1, <1>2, <1>9
  <2>2. (u + n) % Word = u + n - Word
    <3>1. Splits(u + n, Word, 1, u + n - Word)
      BY <1>1, <1>2, <2>1 DEF Splits
    <3> QED BY <3>1, DivUnique
  <2>3. Direct(g, n) = 0
    BY <1>1, <1>2, <1>4, <1>5, <2>1, <2>2
  <2> QED BY <1>1, <1>2, <1>6, <1>9, <2>3 DEF u
<1> QED BY <1>1, <1>2, <1>7, <1>8, <1>9
-----------------------------------------------------------------------------
(* One update().                                                           *)

\* The two counters are two words of the number of bits of t bytes.
Counts(g, t) ==
  /\ g.lo = (8 * t) % Word
  /\ g.hi = ((8 * t) \div Word) % Word

\* A product with a sum of three.
LEMMA Distribute ==
  ASSUME NEW w \in Int, NEW a \in Int, NEW b \in Int, NEW c \in Int
  PROVE  w * (a + b + c) = w * a + w * b + w * c
<1>1. \A p, q \in Int : w * (p + q) = w * p + w * q
  OBVIOUS
<1>2. a + b \in Int /\ w * (a + b + c) = w * (a + b) + w * c
  BY <1>1
<1>3. w * (a + b) = w * a + w * b
  BY <1>1
<1> QED BY <1>2, <1>3

\* Two numbers of bits with their multiples of the word, and their sum.
LEMMA Carried ==
  ASSUME NEW w \in Nat, NEW a \in Int, NEW m \in Int, NEW x \in Int, NEW y \in Int,
         NEW lo \in Int, NEW bits \in Int, NEW r \in Int, NEW v \in Int,
         a = x + lo, m = y + bits, lo + bits = r + v
  PROVE  a + m = (x + v + y) + r
OBVIOUS

\* They are words.
LEMMA CountsWords ==
  ASSUME NEW g, NEW t \in Nat, Counts(g, t)
  PROVE  g.lo \in 0 .. Word - 1 /\ g.hi \in 0 .. Word - 1
<1>1. Word \in Nat \ {0} /\ 8 * t \in Int
  BY Widths
<1>2. (8 * t) \div Word \in Int /\ g.lo \in 0 .. Word - 1
  BY <1>1 DEF Counts
<1>3. g.hi \in 0 .. Word - 1
  <2> DEFINE q == (8 * t) \div Word
  <2>1. q \in Int /\ g.hi = q % Word
    BY <1>2 DEF Counts
  <2> HIDE DEF q
  <2> QED BY <1>1, <2>1
<1> QED BY <1>2, <1>3

\* They go on to count the bits, with the carry.
LEMMA Counted ==
  ASSUME NEW g, NEW b, NEW t \in Nat, NEW n \in 0 .. Word - 1, Len(b) = n,
         Counts(g, t)
  PROVE  Counts(Update(g, b), t + n)
<1> DEFINE w == Word
           m == 8 * n
           q == (8 * t) \div w
           c == m \div w
           bits == m % w
           lo == (g.lo + bits) % w
           carry == IF lo < bits THEN 1 ELSE 0
           x == w * q
           y == w * c
<1>1. w \in Nat \ {0} /\ m \in Int
  BY Widths
<1>2. Update(g, b).lo = lo /\ Update(g, b).hi = (g.hi + carry + c) % w
  BY DEF Update
<1>3. g.lo \in 0 .. w - 1 /\ g.hi = q % w
  BY CountsWords DEF Counts
<1>4. 8 * t = x + g.lo /\ q \in Int /\ x \in Int
  BY <1>1, DivSplits DEF Splits, Counts
<1> HIDE DEF w, m, q
<1>5. m = y + bits /\ bits \in 0 .. w - 1 /\ c \in Int /\ y \in Int
  BY <1>1, DivSplits DEF Splits
<1> HIDE DEF c, bits
<1>6. /\ lo \in 0 .. w - 1 /\ carry \in {0, 1}
      /\ g.lo + bits = lo + (IF carry = 1 THEN w ELSE 0)
  <2>1. CASE g.lo + bits < w
    <3>1. Splits(g.lo + bits, w, 0, g.lo + bits)
      BY <1>1, <1>3, <1>5, <2>1 DEF Splits
    <3>2. lo = g.lo + bits
      BY <3>1, DivUnique
    <3> HIDE DEF lo
    <3> QED BY <1>1, <1>3, <1>5, <2>1, <3>2
  <2>2. CASE g.lo + bits >= w
    <3>1. Splits(g.lo + bits, w, 1, g.lo + bits - w)
      BY <1>1, <1>3, <1>5, <2>2 DEF Splits
    <3>2. lo = g.lo + bits - w
      BY <3>1, DivUnique
    <3> HIDE DEF lo
    <3> QED BY <1>1, <1>3, <1>5, <2>2, <3>2
  <2> QED BY <1>1, <1>3, <1>5, <2>1, <2>2
<1> HIDE DEF lo, carry
<1>7. w * (q + carry + c) = x + (IF carry = 1 THEN w ELSE 0) + y
  <2>1. carry \in Int /\ w \in Int
    BY <1>1, <1>6
  <2>2. w * (q + carry + c) = w * q + w * carry + w * c
    BY <1>4, <1>5, <2>1, Distribute
  <2>3. w * carry = IF carry = 1 THEN w ELSE 0
    BY <1>1, <1>6
  <2> QED BY <2>2, <2>3
<1>8. 8 * (t + n) = w * (q + carry + c) + lo
  <2> DEFINE z == w * (q + carry + c)
  <2>1. z = x + (IF carry = 1 THEN w ELSE 0) + y
    BY <1>7
  <2>2. 8 * (t + n) = 8 * t + m
    BY DEF m
  <2> DEFINE v == IF carry = 1 THEN w ELSE 0
  <2>3. v \in Int /\ lo \in Int /\ g.lo \in Int /\ bits \in Int /\ g.lo + bits = lo + v
    BY <1>1, <1>3, <1>5, <1>6
  <2>4. z = x + v + y /\ 8 * t \in Int
    BY <2>1
  <2> HIDE DEF x, y, z, v
  <2>5. 8 * t + m = (x + v + y) + lo
    BY <1>1, <1>4, <1>5, <2>3, <2>4, Carried
  <2> QED BY <2>2, <2>4, <2>5 DEF z
<1>9. /\ (8 * (t + n)) \div w = q + carry + c
      /\ (8 * (t + n)) % w = lo
  <2>1. Splits(8 * (t + n), w, q + carry + c, lo)
    BY <1>1, <1>4, <1>5, <1>6, <1>8 DEF Splits
  <2> QED BY <2>1, DivUnique
<1>10. (g.hi + carry + c) % w = (q + carry + c) % w
  <2>1. carry + c \in Int
    BY <1>5, <1>6
  <2>2. ((q % w) + (carry + c)) % w = (q + (carry + c)) % w
    BY <1>1, <1>4, <2>1, ModAdd
  <2>3. q % w \in Int
    BY <1>1, <1>4
  <2>4. (q % w) + carry + c = (q % w) + (carry + c) /\ q + carry + c = q + (carry + c)
    BY <1>4, <1>5, <1>6, <2>3
  <2> QED BY <1>3, <2>2, <2>4
<1> QED BY <1>2, <1>9, <1>10 DEF w, Counts

\* The bytes of a message.
Item == {<<"byte", k>> : k \in Nat}

\* A piece of the message has the bytes that it should.
LEMMA Piece ==
  ASSUME NEW t \in Nat, NEW n \in Nat
  PROVE  /\ Bytes(t + 1, t + n) \in Seq(Item)
         /\ Len(Bytes(t + 1, t + n)) = n
         /\ \A i \in 1 .. n : Bytes(t + 1, t + n)[i] = <<"byte", t + i>>
<1>1. Bytes(t + 1, t + n) = [i \in 1 .. n |-> <<"byte", t + i>>]
  <2>1. t + n - (t + 1) + 1 = n /\ \A i \in 1 .. n : t + 1 + i - 1 = t + i
    OBVIOUS
  <2> QED BY <2>1 DEF Bytes
<1> DEFINE p == Bytes(t + 1, t + n)
<1>2. \A i \in 1 .. n : p[i] = <<"byte", t + i>> /\ p[i] \in Item
  BY <1>1 DEF Item
<1>3. p \in [1 .. n -> Item]
  BY <1>1, <1>2
<1>4. p \in Seq(Item) /\ Len(p) = n
  BY <1>3
<1> QED BY <1>2, <1>4

\* The message from its first byte on.
LEMMA FirstPiece ==
  ASSUME NEW n \in Nat
  PROVE  /\ Bytes(1, n) \in Seq(Item)
         /\ Len(Bytes(1, n)) = n
         /\ \A i \in 1 .. n : Bytes(1, n)[i] = <<"byte", i>>
<1>1. 0 \in Nat /\ 0 + 1 = 1 /\ 0 + n = n /\ \A i \in 1 .. n : 0 + i = i
  OBVIOUS
<1>2. /\ Bytes(0 + 1, 0 + n) \in Seq(Item)
      /\ Len(Bytes(0 + 1, 0 + n)) = n
      /\ \A i \in 1 .. n : Bytes(0 + 1, 0 + n)[i] = <<"byte", 0 + i>>
  BY <1>1, Piece
<1>3. Bytes(0 + 1, 0 + n) = Bytes(1, n)
  BY <1>1
<1> QED BY <1>1, <1>2, <1>3

\* The next piece continues what came before.
LEMMA Continued ==
  ASSUME NEW t \in Nat, NEW n \in Nat
  PROVE  Bytes(1, t) \o Bytes(t + 1, t + n) = Bytes(1, t + n)
<1> DEFINE s == Bytes(1, t)
           p == Bytes(t + 1, t + n)
           q == Bytes(1, t + n)
<1>1. /\ s \in Seq(Item) /\ Len(s) = t
      /\ \A i \in 1 .. t : s[i] = <<"byte", i>>
  BY FirstPiece
<1>2. /\ p \in Seq(Item) /\ Len(p) = n
      /\ \A i \in 1 .. n : p[i] = <<"byte", t + i>>
  BY Piece
<1>3. /\ q \in Seq(Item) /\ Len(q) = t + n
      /\ \A i \in 1 .. t + n : q[i] = <<"byte", i>>
  <2>1. t + n \in Nat
    OBVIOUS
  <2> HIDE DEF q
  <2>2. q = Bytes(1, t + n)
    BY DEF q
  <2> QED BY <2>1, <2>2, FirstPiece
<1> HIDE DEF s, p, q
<1>4. /\ s \o p \in Seq(Item) /\ Len(s \o p) = t + n
      /\ \A i \in 1 .. t + n :
           (s \o p)[i] = IF i <= t THEN s[i] ELSE p[i - t]
  BY <1>1, <1>2, ConcatProperties
<1>5. \A i \in 1 .. t + n : (s \o p)[i] = q[i]
  <2> SUFFICES ASSUME NEW i \in 1 .. t + n PROVE (s \o p)[i] = q[i]
    OBVIOUS
  <2>1. CASE i <= t
    <3>1. i \in 1 .. t
      BY <2>1
    <3> QED BY <1>1, <1>3, <1>4, <2>1, <3>1
  <2>2. CASE ~(i <= t)
    <3>1. i - t \in 1 .. n /\ t + (i - t) = i
      BY <2>2
    <3> QED BY <1>2, <1>3, <1>4, <2>2, <3>1
  <2> QED BY <2>1, <2>2
<1>6. s \o p = q
  BY <1>3, <1>4, <1>5, SeqEqual
<1> QED BY <1>6 DEF s, p, q

\* What update() is called with.
CountByte == {WordBytes(v)[i] : v \in 0 .. Word - 1, i \in 1 .. WordBits \div 8}
Datum == Item \cup {Stop, Zero} \cup CountByte

\* Messages and their concatenation, by names that are not expanded: the
\* lemmas below say all of them that is needed.
Message == Seq(Datum)
Cat(a, b) == a \o b

\* Two messages make one, as long as both.
LEMMA CatMessage ==
  \A a, b \in Message : Cat(a, b) \in Message /\ Len(Cat(a, b)) = Len(a) + Len(b)
<1> SUFFICES ASSUME NEW a \in Seq(Datum), NEW b \in Seq(Datum)
             PROVE  a \o b \in Seq(Datum) /\ Len(a \o b) = Len(a) + Len(b)
  BY DEF Message, Cat
<1> HIDE DEF Datum
<1> QED BY ConcatProperties

\* How three are put together does not matter.
LEMMA CatAssociative ==
  \A a, b, c \in Message : Cat(a, Cat(b, c)) = Cat(Cat(a, b), c)
<1> SUFFICES ASSUME NEW a \in Seq(Datum), NEW b \in Seq(Datum), NEW c \in Seq(Datum)
             PROVE  a \o (b \o c) = (a \o b) \o c
  BY DEF Message, Cat
<1> QED BY ConcatAssociative

\* A part may be compressed with the buffer at once.
LEMMA CatCut ==
  ASSUME NEW done \in Message, NEW buf \in Message,
         NEW front \in Message, NEW rest \in Message
  PROVE  Cat(Cat(done, Cat(buf, front)), rest) = Cat(Cat(done, buf), Cat(front, rest))
<1>1. Cat(done, buf) \in Message /\ Cat(buf, front) \in Message
  BY CatMessage
<1>2. Cat(done, Cat(buf, front)) = Cat(Cat(done, buf), front)
  BY CatAssociative
<1>3. Cat(Cat(Cat(done, buf), front), rest) = Cat(Cat(done, buf), Cat(front, rest))
  BY <1>1, CatAssociative
<1> QED BY <1>2, <1>3

\* Bytes are written behind those that are in the buffer, or at its start.
LEMMA WrittenBehind ==
  ASSUME NEW buf \in Message, NEW b \in Message
  PROVE  Written(buf, Len(buf), b) = Cat(buf, b) /\ Written(buf, 0, b) = b
<1> USE DEF Message
<1>1. [i \in 1 .. Len(buf) |->
         IF i <= Len(buf) THEN buf[i] ELSE <<"stale", 0>>] = buf
  OBVIOUS
<1>2. [i \in 1 .. 0 |-> IF i <= Len(buf) THEN buf[i] ELSE <<"stale", 0>>] = <<>>
  OBVIOUS
<1>3. <<>> \o b = b
  BY ConcatEmptySeq
<1> QED BY <1>1, <1>2, <1>3 DEF Written, Cat

\* Compressed bytes and buffer are the message s, and as much is in the buffer
\* as does not fill a block.
Holds(g, s) ==
  /\ g.done \in Message /\ g.buf \in Message
  /\ Cat(g.done, g.buf) = s
  /\ Len(g.buf) = Len(s) % BlockLen

\* The position that the counter tells is that of the message's end.
Placed(g, t) == Used(g) = t % BlockLen

\* What is left of the first of two pieces joins the second.
LEMMA Rest ==
  ASSUME NEW t \in Int, NEW n \in Int, NEW u \in Int, NEW r \in Int,
         NEW x \in Int, NEW y \in Int, t = x + u, u + n = y + r
  PROVE  t + n = (x + y) + r
OBVIOUS

\* They go on to be the message.
LEMMA Kept ==
  ASSUME NEW g, NEW s \in Message, NEW b \in Message,
         NEW n \in 0 .. Word - 1, Len(b) = n, g.lo \in Int, Placed(g, Len(s)), Holds(g, s), Used(g) + n < Word,
         NEW h, h = Update(g, b)
  PROVE  Holds(h, Cat(s, b))
<1> DEFINE t == Len(s)
           u == Used(g)
           i == Direct(g, n)
           rest == SubSeq(b, i + 1, n)
           front == SubSeq(b, 1, i)
           r == (u + n) % BlockLen
<1>1. BlockLen \in Nat \ {0} /\ Word \in Nat \ {0} /\ n \in Nat
  BY Widths
<1>2. t \in Nat /\ Len(Cat(s, b)) = t + n
  <2>1. Len(Cat(s, b)) = Len(s) + Len(b)
    BY CatMessage
  <2> QED BY <2>1
<1>3. /\ h.buf = Written(g.buf, IF i = 0 THEN u ELSE 0, rest)
      /\ h.done = IF i = 0 THEN g.done ELSE g.done \o Written(g.buf, u, front)
  BY DEF Update
<1>4. u \in 0 .. BlockLen - 1 /\ u = Len(g.buf)
  BY Cut DEF Holds, Placed
<1>5. g.done \in Message /\ g.buf \in Message
  BY DEF Holds
<1>6. (t + n) % BlockLen = r
  <2> DEFINE d == t \div BlockLen
             e == (u + n) \div BlockLen
  <2>1. t = BlockLen * d + u /\ d \in Int
    BY <1>1 DEF Placed
  <2>2. u + n = BlockLen * e + r /\ r \in 0 .. BlockLen - 1 /\ e \in Int
    <3> DEFINE k == u + n
    <3>1. k \in Int
      BY <1>1, <1>4
    <3> HIDE DEF k
    <3>2. /\ k = BlockLen * (k \div BlockLen) + (k % BlockLen)
          /\ k % BlockLen \in 0 .. BlockLen - 1 /\ k \div BlockLen \in Int
      BY <1>1, <3>1
    <3> QED BY <3>2 DEF k
  <2> HIDE DEF u, d, e, r
  <2>3. t + n = BlockLen * (d + e) + r
    <3> DEFINE x == BlockLen * d
               y == BlockLen * e
    <3>1. BlockLen * (d + e) = x + y /\ x \in Int /\ y \in Int
      BY <1>1, <2>1, <2>2
    <3>2. t = x + u /\ u + n = y + r
      BY <2>1, <2>2
    <3> HIDE DEF x, y
    <3>3. t \in Int /\ n \in Int /\ u \in Int /\ r \in Int
      BY <1>1, <1>4, <2>2
    <3>4. t + n = (x + y) + r
      BY <3>1, <3>2, <3>3, Rest
    <3> QED BY <3>1, <3>4
  <2>4. Splits(t + n, BlockLen, d + e, r)
    BY <1>1, <2>1, <2>2, <2>3 DEF Splits
  <2> QED BY <2>4, DivUnique
<1> HIDE DEF t, r
<1>7. CASE u + n < BlockLen
  <2>1. i = 0
    BY <1>7, Cut
  <2>2. rest = b
    <3>1. SubSeq(b, 1, Len(b)) = b
      BY SubSeqFull DEF Message
    <3> QED BY <2>1, <3>1
  <2>3. h.buf = Cat(g.buf, b) /\ h.done = g.done
    <3>1. Written(g.buf, Len(g.buf), b) = Cat(g.buf, b)
      BY <1>5, WrittenBehind
    <3> QED BY <1>3, <1>4, <2>1, <2>2, <3>1
  <2>4. Cat(h.done, h.buf) = Cat(Cat(g.done, g.buf), b)
    <3>1. Cat(g.done, Cat(g.buf, b)) = Cat(Cat(g.done, g.buf), b)
      BY <1>5, CatAssociative
    <3> QED BY <2>3, <3>1
  <2>5. h.buf \in Message /\ Len(h.buf) = u + n
    <3>1. Cat(g.buf, b) \in Message /\ Len(Cat(g.buf, b)) = Len(g.buf) + Len(b)
      BY <1>5, CatMessage
    <3> QED BY <1>4, <2>3, <3>1
  <2>6. r = u + n
    <3>1. Splits(u + n, BlockLen, 0, u + n)
      <4>1. u + n \in 0 .. BlockLen - 1 /\ BlockLen * 0 = 0
        BY <1>1, <1>4, <1>7
      <4> QED BY <1>1, <4>1 DEF Splits
    <3> QED BY <3>1, DivUnique DEF r
  <2> HIDE DEF u, r
  <2> QED BY <1>2, <1>6, <1>5, <2>3, <2>4, <2>5, <2>6 DEF Holds
<1>8. CASE BlockLen <= u + n
  <2>1. i \in 1 .. n /\ n - i = r
    BY <1>8, Cut DEF r
  <2> HIDE DEF i, u
  <2>2. /\ rest \in Message /\ front \in Message /\ Len(rest) = r
        /\ Cat(front, rest) = b
    <3> USE DEF Message
    <3>1. \A k \in 1 .. n : b[k] \in Datum
      BY <1>2
    <3>2. front \in Message
      BY <1>1, <2>1, <3>1, SubSeqProperties
    <3>3. rest \in Message /\ Len(rest) = r
      <4>1. \A k \in i + 1 .. n : b[k] \in Datum
        BY <1>1, <2>1, <3>1
      <4>2. i + 1 \in Int /\ n \in Int
        BY <1>1, <2>1
      <4>3. /\ SubSeq(b, i + 1, n) \in Message
            /\ Len(SubSeq(b, i + 1, n)) = IF i + 1 <= n THEN n - (i + 1) + 1 ELSE 0
        BY <4>1, <4>2, SubSeqProperties
      <4> QED BY <1>1, <2>1, <4>3
    <3>4. Cat(front, rest) = b
      <4>1. SubSeq(b, 1, i) \o SubSeq(b, i + 1, n) = SubSeq(b, 1, n)
        BY <1>1, <1>2, <2>1, ConcatAdjacentSubSeq
      <4> QED BY <1>2, <4>1, SubSeqFull DEF Cat
    <3> QED BY <3>2, <3>3, <3>4
  <2> HIDE DEF rest, front
  <2>3. h.buf = rest /\ h.done = Cat(g.done, Cat(g.buf, front))
    <3>1. i # 0
      BY <1>1, <2>1
    <3>2. h.buf = Written(g.buf, 0, rest)
          /\ h.done = g.done \o Written(g.buf, Len(g.buf), front)
      BY <1>3, <1>4, <3>1
    <3>3. Written(g.buf, 0, rest) = rest
      BY <1>5, <2>2, WrittenBehind
    <3>4. Written(g.buf, Len(g.buf), front) = Cat(g.buf, front)
      BY <1>5, <2>2, WrittenBehind
    <3> QED BY <3>2, <3>3, <3>4 DEF Cat
  <2>4. h.done \in Message /\ Cat(h.done, h.buf) = Cat(Cat(g.done, g.buf), b)
    <3>1. Cat(Cat(g.done, Cat(g.buf, front)), rest)
            = Cat(Cat(g.done, g.buf), Cat(front, rest))
      BY <1>5, <2>2, CatCut
    <3>2. Cat(g.buf, front) \in Message
      BY <1>5, <2>2, CatMessage
    <3>3. Cat(g.done, Cat(g.buf, front)) \in Message
      BY <1>5, <3>2, CatMessage
    <3> QED BY <2>2, <2>3, <3>1, <3>3
  <2> QED BY <1>2, <1>6, <1>5, <2>2, <2>3, <2>4 DEF Holds
<1> QED BY <1>1, <1>4, <1>7, <1>8
-----------------------------------------------------------------------------
(* Any number of update()s.                                                *)

\* What a generator is that did not overrun.
States == [lo : 0 .. Word - 1, hi : 0 .. Word - 1, buf : Message, done : Message]

\* The generator has taken the message s.
Good(g, s) == g \in States /\ Counts(g, Len(s)) /\ Holds(g, s)

\* A generator that has taken s and is given b has taken both.
LEMMA Fed ==
  ASSUME NEW g, NEW s \in Message, NEW b \in Message, Good(g, s),
         Len(b) \in 0 .. Word - 1, Used(g) + Len(b) < Word
  PROVE  Good(Update(g, b), Cat(s, b))
<1> DEFINE h == Update(g, b)
           n == Len(b)
           t == Len(s)
<1>1. Word \in Nat \ {0} /\ BlockLen \in Nat \ {0} /\ t \in Nat /\ n \in Nat
  BY Widths DEF Message
<1>2. Counts(g, t) /\ Holds(g, s) /\ g.lo \in Int
  BY <1>1, CountsWords DEF Good
<1>3. Len(Cat(s, b)) = t + n
  BY CatMessage
<1>4. Counts(h, t + n)
  BY <1>1, <1>2, Counted
<1>5. Holds(h, Cat(s, b))
  <2>1. Placed(g, t)
    BY <1>1, <1>2, Position DEF Placed, Counts
  <2> HIDE DEF h, n, t
  <2>2. h = Update(g, b) /\ n = Len(b) /\ t = Len(s)
    BY DEF h, n, t
  <2> QED BY <1>2, <2>1, <2>2, Kept
<1>6. h \in States
  <2>1. h.lo \in 0 .. Word - 1 /\ h.hi \in 0 .. Word - 1
    BY <1>1, <1>4, CountsWords
  <2>2. h.buf \in Message /\ h.done \in Message
    BY <1>5 DEF Holds
  <2>3. h = [lo |-> h.lo, hi |-> h.hi, buf |-> h.buf, done |-> h.done]
    BY DEF Update
  <2> HIDE DEF h
  <2> QED BY <2>1, <2>2, <2>3 DEF States
<1> QED BY <1>3, <1>4, <1>5, <1>6 DEF Good

\* The length of a piece that is less than a block never wraps.
LEMMA FedShort ==
  ASSUME NEW g, NEW s \in Message, NEW b \in Message, Good(g, s), Len(b) < BlockLen
  PROVE  Good(Update(g, b), Cat(s, b))
<1>1. BlockLen \in Nat \ {0} /\ Word \in Nat \ {0} /\ 8 * BlockLen < Word
  BY Widths, WidthAssumption
<1>2. Len(b) \in Nat
  BY DEF Message
<1>3. g.lo \in Int
  BY <1>1 DEF Good, States
<1>4. Used(g) \in 0 .. BlockLen - 1
  BY <1>1, <1>3 DEF Used
<1>5. Len(b) \in 0 .. Word - 1 /\ Used(g) + Len(b) < Word
  BY <1>1, <1>2, <1>4
<1> QED BY <1>5, Fed

\* A zero more.
LEMMA ZerosMore ==
  ASSUME NEW k \in Nat
  PROVE  /\ Zeros(k) \in Message /\ Len(Zeros(k)) = k
         /\ Cat(Zeros(k), <<Zero>>) = Zeros(k + 1)
<1>1. Zero \in Datum
  BY DEF Datum
<1> DEFINE z(n) == [i \in 1 .. n |-> Zero]
<1>2. \A n \in Nat : z(n) \in Seq(Datum) /\ Len(z(n)) = n
  <2> HIDE DEF Datum, Zero
  <2> QED BY <1>1
<1>3. z(k) \o <<Zero>> = z(k + 1)
  <2> DEFINE p == z(k) \o <<Zero>>
  <2>1. z(k) \in Seq(Datum) /\ Len(z(k)) = k /\ \A i \in 1 .. k : z(k)[i] = Zero
    BY <1>2
  <2>2. z(k + 1) \in Seq(Datum) /\ Len(z(k + 1)) = k + 1
        /\ \A i \in 1 .. k + 1 : z(k + 1)[i] = Zero
    BY <1>2
  <2>3. <<Zero>> \in Seq(Datum) /\ Len(<<Zero>>) = 1 /\ <<Zero>>[1] = Zero
    BY <1>1
  <2> HIDE DEF Datum, Zero, z
  <2>4. /\ p \in Seq(Datum) /\ Len(p) = k + 1
        /\ \A i \in 1 .. k + 1 : p[i] = IF i <= k THEN z(k)[i] ELSE <<Zero>>[i - k]
    BY <2>1, <2>3, ConcatProperties
  <2>5. \A i \in 1 .. k + 1 : p[i] = Zero
    BY <2>1, <2>3, <2>4
  <2> HIDE DEF p
  <2>6. p = z(k + 1)
    BY <2>2, <2>4, <2>5, SeqEqual
  <2> QED BY <2>6 DEF p
<1> QED BY <1>2, <1>3 DEF Zeros, Message, Cat

\* The loop of finalize() appends its zeros: by induction over its rounds.
LEMMA ZeroedGood ==
  ASSUME NEW g, NEW s \in Message, Good(g, s), NEW n \in Nat, 1 < BlockLen
  PROVE  Good(Zeroed(g, n), Cat(s, Zeros(n)))
<1> DEFINE A == {x \in States : \E m \in Message : Good(x, m)}
           G == [p \in (1 .. n) \X States |-> Update(p[2], <<Zero>>)]
           z == <<Zero>>
<1>1. z \in Message /\ Len(z) = 1
  BY DEF Message, Datum
<1>2. \A x, m : m \in Message /\ Good(x, m) => Good(Update(x, z), Cat(m, z))
  BY <1>1, FedShort
<1>3. \A x \in A : Update(x, z) \in A
  <2> SUFFICES ASSUME NEW x \in States, NEW m \in Message, Good(x, m)
               PROVE  Update(x, z) \in A
    OBVIOUS
  <2>1. Good(Update(x, z), Cat(m, z)) /\ Cat(m, z) \in Message
    BY <1>1, <1>2, CatMessage
  <2>2. Update(x, z) \in States
    BY <2>1 DEF Good
  <2> QED BY <2>1, <2>2
<1>4. \A k \in 1 .. n : \A x \in A : G[<<k, x>>] = Update(x, z)
  OBVIOUS
<1>5. g \in A
  BY DEF Good
<1> HIDE DEF A, G
<1>6. Closed(G, A, n)
  BY <1>3, <1>4 DEF Closed
<1>7. PICK f : Iterated(f, G, A, g, n)
  BY <1>5, <1>6, Iterates
<1> DEFINE IsPut(p) ==
      p = [k \in 0 .. n |-> IF k = 0 THEN g ELSE Update(p[k - 1], z)]
           put == CHOOSE p : IsPut(p)
<1>8. IsPut(f)
  <2>1. \A k \in 1 .. n : f[k] = Update(f[k - 1], z)
    <3> SUFFICES ASSUME NEW k \in 1 .. n PROVE f[k] = Update(f[k - 1], z)
      OBVIOUS
    <3>1. f[k - 1] \in A
      BY <1>7 DEF Iterated
    <3> QED BY <1>4, <1>7, <3>1 DEF Iterated
  <2>2. \A k \in 0 .. n : f[k] = IF k = 0 THEN g ELSE Update(f[k - 1], z)
    BY <1>7, <2>1 DEF Iterated
  <2>3. f = [k \in 0 .. n |-> f[k]]
    BY <1>7 DEF Iterated
  <2> QED BY <2>2, <2>3
<1>9. IsPut(put)
  <2> HIDE DEF IsPut
  <2> QED BY <1>8
<1>10. Zeroed(g, n) = put[n]
  BY DEF Zeroed
<1> HIDE DEF put
<1>11. put[0] = g /\ \A k \in 1 .. n : put[k] = Update(put[k - 1], z)
  BY <1>9
<1> HIDE DEF IsPut
<1> DEFINE S == {k \in Nat : Good(put[k], Cat(s, Zeros(k)))}
<1>12. 0 \in S
  <2>1. Zeros(0) = <<>>
    BY DEF Zeros
  <2>2. Cat(s, <<>>) = s
    BY ConcatEmptySeq DEF Cat, Message
  <2> QED BY <1>11, <2>1, <2>2
<1>13. ASSUME NEW k \in 0 .. n - 1, k \in S PROVE k + 1 \in S
  <2>1. k \in Nat /\ k + 1 \in 1 .. n /\ k + 1 - 1 = k /\ k + 1 \in Nat
    OBVIOUS
  <2>2. Zeros(k) \in Message /\ Cat(Zeros(k), z) = Zeros(k + 1)
    BY <2>1, ZerosMore
  <2>3. Good(put[k], Cat(s, Zeros(k))) /\ Cat(s, Zeros(k)) \in Message
    BY <1>13, <2>2, CatMessage
  <2>4. Good(Update(put[k], z), Cat(Cat(s, Zeros(k)), z))
    BY <1>2, <2>3
  <2>5. Cat(s, Cat(Zeros(k), z)) = Cat(Cat(s, Zeros(k)), z)
    BY <1>1, <2>2, CatAssociative
  <2>6. put[k + 1] = Update(put[k], z)
    BY <1>11, <2>1
  <2> QED BY <2>1, <2>2, <2>4, <2>5, <2>6
<1> HIDE DEF S
<1>14. \A k \in 0 .. n : k \in S
  BY <1>12, <1>13, BoundedInduction
<1> QED BY <1>10, <1>14 DEF S

\* The bytes of a word.
LEMMA WordBytesMessage ==
  ASSUME NEW v \in 0 .. Word - 1
  PROVE  WordBytes(v) \in Message /\ Len(WordBytes(v)) = WordBits \div 8
<1>1. WordBits \div 8 \in Nat
  BY WidthAssumption
<1>2. \A i \in 1 .. WordBits \div 8 : WordBytes(v)[i] \in Datum
  BY DEF CountByte, Datum
<1> DEFINE w == WordBytes(v)
<1>3. w = [i \in 1 .. WordBits \div 8 |-> w[i]]
  BY DEF WordBytes
<1> DEFINE m == WordBits \div 8
<1>4. m \in Nat /\ w = [i \in 1 .. m |-> w[i]] /\ \A i \in 1 .. m : w[i] \in Datum
  BY <1>1, <1>2, <1>3
<1> HIDE DEF w, m
<1>5. w \in [1 .. m -> Datum]
  BY <1>4
<1>6. w \in Seq(Datum) /\ Len(w) = m
  BY <1>4, <1>5
<1> QED BY <1>6 DEF w, m, Message

\* The zeros that the loop of finalize() puts behind n + 1 bytes, if blocks
\* have b bytes and the count has l.
Loops(b, l, n) == (2 * b - l - ((n + 1) % b)) % b

\* That z zeros are those of the standard, and complete a block.
Fills(z, b, l, n) ==
  /\ z \in 0 .. b - 1
  /\ z = (2 * b - l - 1 - (n % b)) % b
  /\ (n + 1 + z + l) % b = 0

\* It does not matter whether n or n + 1 is reduced first.
LEMMA Completing ==
  ASSUME NEW b \in Nat \ {0}, NEW l \in Int, NEW n \in Nat
  PROVE  Fills(Loops(b, l, n), b, l, n)
<1> DEFINE z == Loops(b, l, n)
           a == n + 1
           c == 2 * b - l
           d == c - 1
           e == c - a
           f == a + l
<1>1. a \in Int /\ c \in Int /\ d \in Int /\ e \in Int /\ f \in Int /\ n \in Int
  OBVIOUS
<1>2. d - n = e /\ e + f = b * 2 + 0 /\ z = (c - (a % b)) % b /\ d = 2 * b - l - 1
  BY DEF Loops
<1>3. f = n + 1 + l
  OBVIOUS
<1> HIDE DEF a, c, d, e, f, z
<1>4. z = e % b
  <2>1. (c - (a % b)) % b = (c - a) % b
    BY <1>1, ModSub
  <2> QED BY <1>2, <2>1 DEF e
<1>5. z \in 0 .. b - 1
  BY <1>1, <1>4
<1>6. (d - (n % b)) % b = z
  <2>1. (d - (n % b)) % b = (d - n) % b
    BY <1>1, ModSub
  <2> QED BY <1>2, <1>4, <2>1
<1>7. (z + f) % b = 0
  <2>1. ((e % b) + f) % b = (e + f) % b
    BY <1>1, ModAdd
  <2>2. Splits(e + f, b, 2, 0)
    BY <1>1, <1>2 DEF Splits
  <2>3. (e + f) % b = 0
    BY <2>2, DivUnique
  <2> QED BY <1>4, <2>1, <2>3
<1>8. n + 1 + z + l = z + f
  BY <1>3, <1>5
<1> QED BY <1>2, <1>5, <1>6, <1>7, <1>8 DEF Fills, z

\* finalize() completes the message to what the standard demands, and leaves
\* nothing in the buffer.
LEMMA PaddedGood ==
  ASSUME NEW g, NEW n \in Nat, Good(g, Bytes(1, n))
  PROVE  /\ Good(Padded(g), Standard(n))
         /\ Padded(g).done = Standard(n) /\ Padded(g).buf = <<>>
<1> DEFINE s == Bytes(1, n)
           stop == <<Stop>>
           x == Update(g, stop)
           z == ZerosAfter(x)
           y == Zeroed(x, z)
           hi == WordBytes(g.hi)
           lo == WordBytes(g.lo)
           count == hi \o lo
<1>1. BlockLen \in Nat \ {0} /\ 1 < BlockLen /\ LenLen < BlockLen
      /\ LenLen = WordBits \div 8 + WordBits \div 8 /\ WordBits \div 8 \in Nat
  BY Widths, WidthAssumption DEF LenLen
<1>2. s \in Message /\ Len(s) = n
  <2>1. \A p : p \in Seq(Item) => p \in Seq(Datum)
    BY DEF Datum
  <2> QED BY <2>1, FirstPiece DEF Message
<1>3. stop \in Message /\ Len(stop) = 1
  BY DEF Message, Datum
<1>4. g.hi \in 0 .. Word - 1 /\ g.lo \in 0 .. Word - 1
      /\ g.hi = ((8 * n) \div Word) % Word /\ g.lo = (8 * n) % Word
  BY <1>2 DEF Good, States, Counts
<1>5. hi \in Message /\ lo \in Message
      /\ Len(hi) = WordBits \div 8 /\ Len(lo) = WordBits \div 8
  BY <1>4, WordBytesMessage
<1>6. Standard(n) = Cat(Cat(Cat(Cat(s, stop),
        Zeros((2 * BlockLen - LenLen - 1 - (n % BlockLen)) % BlockLen)), hi), lo)
  BY <1>4 DEF Standard, Cat
<1>7. Padded(g) = Update(y, Cat(hi, lo))
  BY DEF Padded, Cat
<1> HIDE DEF s, stop, hi, lo, count, x, y, z
<1>8. Good(x, Cat(s, stop)) /\ Cat(s, stop) \in Message /\ Len(Cat(s, stop)) = n + 1
  <2>1. Good(Update(g, stop), Cat(s, stop))
    BY <1>1, <1>2, <1>3, FedShort DEF s
  <2> QED BY <1>2, <1>3, <2>1, CatMessage DEF x
<1>9. z = (2 * BlockLen - LenLen - ((n + 1) % BlockLen)) % BlockLen
  <2>1. x.lo = (8 * (n + 1)) % Word
    BY <1>8 DEF Good, Counts
  <2>2. n + 1 \in Nat
    OBVIOUS
  <2>3. Used(x) = (n + 1) % BlockLen
    BY <2>1, <2>2, Position
  <2> QED BY <2>3 DEF z, ZerosAfter
<1>10. z \in 0 .. BlockLen - 1
       /\ z = (2 * BlockLen - LenLen - 1 - (n % BlockLen)) % BlockLen
       /\ (n + 1 + z + LenLen) % BlockLen = 0
  <2>1. BlockLen \in Nat \ {0} /\ LenLen \in Int
    BY <1>1
  <2>2. Fills(Loops(BlockLen, LenLen, n), BlockLen, LenLen, n)
    BY <2>1, Completing
  <2>3. z = Loops(BlockLen, LenLen, n)
    BY <1>9 DEF Loops
  <2> QED BY <2>2, <2>3 DEF Fills
<1> DEFINE m == Cat(Cat(s, stop), Zeros(z))
<1>11. z \in Nat /\ Zeros(z) \in Message /\ Len(Zeros(z)) = z
  BY <1>1, <1>10, ZerosMore
<1>12. m \in Message /\ Len(m) = n + 1 + z
  BY <1>8, <1>11, CatMessage
<1>13. Good(y, m)
  BY <1>1, <1>8, <1>11, ZeroedGood DEF y
<1> HIDE DEF m
<1>14. Cat(hi, lo) \in Message /\ Len(Cat(hi, lo)) = LenLen
  BY <1>1, <1>5, CatMessage
<1>15. Good(Padded(g), Cat(m, Cat(hi, lo)))
  BY <1>1, <1>7, <1>12, <1>13, <1>14, FedShort
<1>16. Cat(m, Cat(hi, lo)) = Standard(n)
  <2>1. Cat(m, Cat(hi, lo)) = Cat(Cat(m, hi), lo)
    BY <1>5, <1>12, CatAssociative
  <2> QED BY <1>6, <1>10, <2>1 DEF m
<1>17. Len(Standard(n)) % BlockLen = 0
  <2>1. Len(Cat(m, Cat(hi, lo))) = n + 1 + z + LenLen
    BY <1>12, <1>14, CatMessage
  <2> QED BY <1>10, <1>16, <2>1
<1> DEFINE h == Padded(g)
           t == Standard(n)
<1>18. h.buf = <<>> /\ h.done = t
  <2>1. Good(h, t) /\ Len(t) % BlockLen = 0
    BY <1>15, <1>16, <1>17
  <2> HIDE DEF h, t
  <2>2. h.done \in Message /\ h.buf \in Message /\ Cat(h.done, h.buf) = t /\ Len(h.buf) = 0
    BY <2>1 DEF Good, Holds
  <2>3. h.buf = <<>>
    BY <2>2, EmptySeq DEF Message
  <2>4. Cat(h.done, <<>>) = h.done
    BY <2>2, ConcatEmptySeq DEF Cat, Message
  <2> QED BY <2>2, <2>3, <2>4
<1> QED BY <1>15, <1>16, <1>18
-----------------------------------------------------------------------------
(* The theorems.                                                           *)

\* What every step preserves: the low counter is a word, and an overrun has
\* the one cause.
OInv == /\ total \in Nat
        /\ ~final => gen.lo \in Nat
        /\ OverrunOnlyByWrap

\* A piece is as long as it says, and the position stays one of the buffer.
LEMMA FeedOverrun ==
  ASSUME OInv, NEW n \in Lengths, Feed(n)
  PROVE  OInv'
<1>1. n \in 0 .. Word - 1 /\ n \in Nat /\ Word \in Nat \ {0}
  BY LengthAssumption, Widths
<1>2. total \in Nat /\ gen.lo \in Nat
  BY DEF OInv, Feed
<1>3. total' \in Nat
  BY <1>1, <1>2 DEF Feed
<1>4. gen'.lo \in Nat
  <2> DEFINE bits == (8 * Len(Bytes(total + 1, total + n))) % Word
             m == gen.lo + bits
  <2>1. gen'.lo = m % Word
    BY DEF Feed, Update
  <2>2. bits \in Int
    BY <1>1, <1>2, Piece
  <2>3. m \in Int
    BY <1>2, <2>2
  <2> HIDE DEF m
  <2> QED BY <1>1, <2>1, <2>3
<1>5. OverrunOnlyByWrap'
  <2>1. Overruns(gen, n) <=> Used(gen) + n >= Word
    BY <1>1, <1>2, Cut
  <2> QED BY <2>1 DEF Feed, OverrunOnlyByWrap
<1> QED BY <1>3, <1>4, <1>5 DEF OInv

\* The buffer is only overrun by a piece whose length wraps around the word:
\* every other piece that is left after update()'s loop fits the buffer.
THEOREM OverrunBounded == Spec => []OverrunOnlyByWrap
<1>1. Init => OInv
  BY DEF Init, OInv, Fresh, OverrunOnlyByWrap
<1>2. OInv /\ [Next]_vars => OInv'
  <2> SUFFICES ASSUME OInv, [Next]_vars PROVE OInv'
    OBVIOUS
  <2>1. CASE Reset
    BY <2>1 DEF Reset, Fresh, OInv, OverrunOnlyByWrap
  <2>2. CASE Finalize \/ Digest
    BY <2>2 DEF Finalize, Digest, OInv, OverrunOnlyByWrap
  <2>3. ASSUME NEW n \in Lengths, Feed(n) PROVE OInv'
    BY <2>3, FeedOverrun
  <2>4. CASE UNCHANGED vars
    BY <2>4 DEF vars, OInv, OverrunOnlyByWrap
  <2> QED BY <2>1, <2>2, <2>3, <2>4 DEF Next
<1>3. OInv => OverrunOnlyByWrap
  BY DEF OInv
<1> QED BY <1>1, <1>2, <1>3, PTL DEF Spec

\* The parts of the state that are never touched by an overrun.
Flags == /\ total \in 0 .. MaxTotal
         /\ updated \in BOOLEAN /\ final \in BOOLEAN /\ overrun \in BOOLEAN

\* Unless it overran, the generator has taken the message, and all that the
\* standard adds to it when it is final; the digest is what was compressed.
KInv == /\ Flags
        /\ ~final => Counts(gen, total)
        /\ ~final /\ ~overrun => Good(gen, Bytes(1, total))
        /\ final => /\ ~overrun
                    /\ Good(gen, Standard(total))
                    /\ gen.buf = <<>> /\ gen.done = Standard(total)
                    /\ digest = gen.done

\* The message that was fed is one of bytes.
LEMMA BytesMessage ==
  ASSUME NEW n \in Nat
  PROVE  Bytes(1, n) \in Message /\ Len(Bytes(1, n)) = n
<1>1. \A p : p \in Seq(Item) => p \in Seq(Datum)
  BY DEF Datum
<1> QED BY <1>1, FirstPiece DEF Message

\* A new generator holds the empty message.
LEMMA FreshHolds ==
  gen = Fresh /\ total = 0 /\ Flags /\ final = FALSE => KInv
<1> SUFFICES ASSUME gen = Fresh, total = 0, Flags, final = FALSE
             PROVE  KInv
  OBVIOUS
<1>1. Word \in Nat \ {0} /\ BlockLen \in Nat \ {0} /\ 0 \in Nat
  BY Widths
<1>2. gen = [lo |-> 0, hi |-> 0, buf |-> <<>>, done |-> <<>>]
  BY DEF Fresh
<1>3. Counts(gen, 0)
  <2>1. Splits(0, Word, 0, 0) /\ 8 * 0 = 0
    BY <1>1 DEF Splits
  <2>2. 0 \div Word = 0 /\ 0 % Word = 0
    BY <2>1, DivUnique
  <2> QED BY <1>2, <2>1, <2>2 DEF Counts
<1>4. <<>> \in Message /\ Cat(<<>>, <<>>) = <<>> /\ Len(<<>>) = 0
  BY DEF Message, Cat
<1>5. Holds(gen, <<>>)
  <2>1. 0 % BlockLen = 0
    <3>1. Splits(0, BlockLen, 0, 0)
      BY <1>1 DEF Splits
    <3> QED BY <3>1, DivUnique
  <2> QED BY <1>2, <1>4, <2>1 DEF Holds
<1>6. gen \in States
  BY <1>1, <1>2, <1>4 DEF States
<1>7. Bytes(1, 0) = <<>>
  BY DEF Bytes
<1> QED BY <1>3, <1>4, <1>5, <1>6, <1>7 DEF KInv, Good

\* Whatever the piece, the message goes on.
LEMMA FeedHolds ==
  ASSUME KInv, NEW n \in Lengths, Feed(n)
  PROVE  KInv'
<1>1. n \in 0 .. Word - 1 /\ n \in Nat /\ Word \in Nat \ {0} /\ MaxTotal \in Nat
  BY LengthAssumption, Widths
<1>2. ~final /\ ~overrun /\ final' = final /\ final \in BOOLEAN
  BY DEF Feed, KInv, Flags
<1>3. Counts(gen, total) /\ Good(gen, Bytes(1, total)) /\ total \in Nat
  BY <1>1, <1>2 DEF KInv, Flags
<1>4. total' = total + n /\ total' \in 0 .. MaxTotal
  BY <1>1, <1>3 DEF Feed
<1>5. Flags'
  <2>1. updated' = TRUE /\ overrun' = Overruns(gen, n)
    BY DEF Feed
  <2>2. Overruns(gen, n) \in BOOLEAN
    BY DEF Overruns
  <2> QED BY <1>2, <1>4, <2>1, <2>2 DEF Flags
<1> DEFINE b == Bytes(total + 1, total + n)
           s == Bytes(1, total)
<1>6. b \in Message /\ Len(b) = n
  <2>1. \A p : p \in Seq(Item) => p \in Seq(Datum)
    BY DEF Datum
  <2> QED BY <1>1, <1>3, <2>1, Piece DEF Message
<1>7. s \in Message
  BY <1>3, BytesMessage
<1>8. Cat(s, b) = Bytes(1, total + n)
  BY <1>1, <1>3, Continued DEF Cat
<1>9. gen' = Update(gen, b)
  BY DEF Feed
<1> HIDE DEF b, s
<1>10. Counts(gen', total + n)
  BY <1>1, <1>3, <1>6, <1>9, Counted
<1>11. ASSUME ~overrun' PROVE Good(gen', Bytes(1, total + n))
  <2>1. gen.lo \in Int /\ Good(gen, s)
    BY <1>1, <1>3 DEF Good, States, s
  <2>2. ~Overruns(gen, n)
    BY <1>11 DEF Feed
  <2>3. Used(gen) \in 0 .. BlockLen - 1 /\ ~(Used(gen) + n >= Word)
    BY <1>1, <2>1, <2>2, Cut
  <2>4. Used(gen) + n < Word
    BY <1>1, <2>3, Widths
  <2>5. Good(Update(gen, b), Cat(s, b))
    BY <1>1, <1>6, <1>7, <2>1, <2>4, Fed
  <2> QED BY <1>8, <1>9, <2>5
<1> QED BY <1>2, <1>4, <1>5, <1>10, <1>11 DEF KInv

\* Both ways to finalize pad the message.
LEMMA PaddedHolds ==
  ASSUME KInv, ~final, ~overrun, gen' = Padded(gen), digest' = gen'.done,
         final' = TRUE, updated' = TRUE, total' = total, overrun' = overrun
  PROVE  KInv'
<1>1. Good(gen, Bytes(1, total)) /\ total \in Nat
  BY LengthAssumption DEF KInv, Flags
<1>2. /\ Good(gen', Standard(total))
      /\ gen'.done = Standard(total) /\ gen'.buf = <<>>
  BY <1>1, PaddedGood
<1>3. Flags'
  BY DEF KInv, Flags
<1> QED BY <1>2, <1>3 DEF KInv

\* All of it, in every step.
LEMMA KInvInductive == KInv /\ [Next]_vars => KInv'
<1> SUFFICES ASSUME KInv, [Next]_vars PROVE KInv'
  OBVIOUS
<1>1. CASE Reset
  <2>1. gen' = Fresh /\ total' = 0 /\ Flags' /\ final' = FALSE
    <3>1. 0 \in 0 .. MaxTotal
      BY LengthAssumption
    <3>2. overrun' = overrun /\ updated' = FALSE
      BY <1>1 DEF Reset
    <3> QED BY <1>1, <3>1, <3>2 DEF Reset, KInv, Flags
  <2>2. (gen = Fresh /\ total = 0 /\ Flags /\ final = FALSE => KInv)'
    BY FreshHolds, PTL
  <2> QED BY <2>1, <2>2
<1>2. CASE Finalize
  BY <1>2, PaddedHolds DEF Finalize
<1>3. CASE Digest
  BY <1>3, PaddedHolds DEF Digest
<1>4. ASSUME NEW n \in Lengths, Feed(n) PROVE KInv'
  BY <1>4, FeedHolds
<1>5. CASE UNCHANGED vars
  BY <1>5 DEF vars, KInv, Flags
<1> QED BY <1>1, <1>2, <1>3, <1>4, <1>5 DEF Next

\* The invariant of what was fed and compressed holds in every state.
LEMMA KInvHolds == Spec => []KInv
<1>1. Init => KInv
  <2>1. Init => gen = Fresh /\ total = 0 /\ Flags /\ final = FALSE
    <3>1. 0 \in 0 .. MaxTotal
      BY LengthAssumption
    <3> QED BY <3>1 DEF Init, Flags
  <2> QED BY <2>1, FreshHolds
<1> QED BY <1>1, KInvInductive, PTL DEF Spec

\* Two words hold a number that is less than their product.
LEMMA TwoWords ==
  ASSUME NEW w \in Nat \ {0}, NEW a \in Nat, a < w * w
  PROVE  ((a \div w) % w) * w + (a % w) = a
<1> DEFINE q == a \div w
           r == a % w
<1>1. a = w * q + r /\ q \in Int /\ r \in 0 .. w - 1
  BY DivSplits DEF Splits
<1> HIDE DEF q, r
<1>2. q >= 0
  <2> SUFFICES ASSUME q <= -1 PROVE FALSE
    BY <1>1
  <2>1. w * q <= w * (-1)
    BY <1>1
  <2>2. w * (-1) = -w /\ w * q \in Int
    BY <1>1
  <2> QED BY <1>1, <2>1, <2>2
<1>3. q <= w - 1
  <2> SUFFICES ASSUME q >= w PROVE FALSE
    BY <1>1
  <2>1. w * q >= w * w
    BY <1>1
  <2> QED BY <1>1, <2>1
<1>4. q % w = q
  <2>1. Splits(q, w, 0, q)
    BY <1>1, <1>2, <1>3 DEF Splits
  <2> QED BY <2>1, DivUnique
<1>5. q * w + r = a
  BY <1>1
<1> QED BY <1>4, <1>5 DEF q, r

\* However the message is cut into pieces, and however often the low counter
\* overflows, compressed bytes and buffer are the message and the counters its
\* length, as long as its length fits the counters and no piece overran.
THEOREM MessageKept ==
  ASSUME Countable
  PROVE  Spec => []NothingLost
<1>1. KInv => NothingLost
  <2> SUFFICES ASSUME KInv, ~final, ~overrun
               PROVE  /\ gen.done \o gen.buf = Bytes(1, total)
                      /\ gen.hi * Word + gen.lo = 8 * total
    BY DEF NothingLost
  <2>1. Good(gen, Bytes(1, total)) /\ Counts(gen, total) /\ total \in 0 .. MaxTotal
    BY DEF KInv, Flags
  <2>2. gen.done \o gen.buf = Bytes(1, total)
    BY <2>1 DEF Good, Holds, Cat
  <2>3. gen.hi * Word + gen.lo = 8 * total
    <3> DEFINE w == Word
               s == w * w
               a == 8 * total
    <3>1. w \in Nat \ {0} /\ MaxTotal \in Nat /\ total \in Nat
      BY <2>1, LengthAssumption, Widths
    <3>2. s \in Int /\ 8 * MaxTotal < s
      BY <3>1 DEF Countable
    <3> HIDE DEF s
    <3>3. a \in Nat /\ a < s
      BY <2>1, <3>1, <3>2
    <3>4. gen.hi = (a \div w) % w /\ gen.lo = a % w
      BY <2>1 DEF Counts
    <3> HIDE DEF a, w
    <3>5. ((a \div w) % w) * w + (a % w) = a
      BY <3>1, <3>3, TwoWords DEF s
    <3> QED BY <3>4, <3>5 DEF a, w
  <2> QED BY <2>2, <2>3
<1> QED BY <1>1, KInvHolds, PTL

\* The digest is that of the message as the standard pads it, however it was
\* cut into pieces: the zeros that finalize() counts out one by one complete a
\* block with the bit count, which was taken before they were.
THEOREM DigestCorrect == Spec => []DigestStandard
<1>1. KInv => DigestStandard
  BY DEF KInv, DigestStandard
<1> QED BY <1>1, KInvHolds, PTL

\* The counters stay words, the buffer never holds a whole block, and only
\* whole blocks are compressed, unless the buffer was overrun.
THEOREM TypesOfGenerator == Spec => []TypeOK
<1>1. KInv => TypeOK
  <2> SUFFICES ASSUME KInv PROVE TypeOK
    OBVIOUS
  <2>1. Flags /\ BlockLen \in Nat \ {0}
    BY Widths DEF KInv
  <2>2. gen.lo \in 0 .. Word - 1 /\ gen.hi \in 0 .. Word - 1
    <3>1. CASE final
      BY <3>1 DEF KInv, Good, States
    <3>2. CASE ~final
      <4>1. Counts(gen, total) /\ total \in Nat
        BY <3>2, <2>1, LengthAssumption DEF KInv, Flags
      <4> QED BY <4>1, CountsWords
    <3> QED BY <3>1, <3>2
  <2>3. ASSUME ~overrun
        PROVE  Len(gen.buf) < BlockLen /\ Len(gen.done) % BlockLen = 0
    <3>1. PICK s : Good(gen, s) /\ Len(s) \in Nat
      <4>1. CASE final
        <5>1. Good(gen, Standard(total)) /\ gen.done = Standard(total)
          BY <4>1 DEF KInv
        <5>2. gen.done \in Message
          BY <5>1 DEF Good, Holds
        <5>3. Len(Standard(total)) \in Nat
          BY <5>1, <5>2 DEF Message
        <5> QED BY <5>1, <5>3
      <4>2. CASE ~final
        <5>1. Good(gen, Bytes(1, total)) /\ total \in Nat
          BY <2>1, <2>3, <4>2, LengthAssumption DEF KInv, Flags
        <5> QED BY <5>1, BytesMessage
      <4> QED BY <4>1, <4>2
    <3> DEFINE b == BlockLen
               x == Len(gen.done)
               y == Len(gen.buf)
               n == Len(s)
    <3>2. /\ gen.done \in Message /\ gen.buf \in Message /\ y = n % b
          /\ Cat(gen.done, gen.buf) = s
      BY <3>1 DEF Good, Holds
    <3>3. n = x + y
      BY <3>2, CatMessage
    <3>4. x \in Nat /\ y \in Nat /\ n \in Nat /\ b \in Nat \ {0}
      BY <2>1, <3>1, <3>2 DEF Message
    <3> HIDE DEF b, x, y, n
    <3>5. y < b
      BY <3>2, <3>4
    <3>6. x % b = 0
      <4> DEFINE q == n \div b
      <4>1. n = b * q + y /\ q \in Int
        BY <3>2, <3>4, DivSplits DEF Splits
      <4> HIDE DEF q
      <4>2. x = b * q + 0
        BY <3>3, <3>4, <4>1
      <4>3. Splits(x, b, q, 0)
        BY <3>4, <4>1, <4>2 DEF Splits
      <4> QED BY <4>3, DivUnique
    <3> QED BY <3>5, <3>6 DEF b, x, y
  <2>4. overrun \in BOOLEAN
    BY <2>1 DEF Flags
  <2> QED BY <2>1, <2>2, <2>3, <2>4 DEF TypeOK, Flags
<1> QED BY <1>1, KInvHolds, PTL

\* A digest that was taken is final.
THEOREM DigestKept == Spec => DigestFinal
<1>1. [Next]_vars => [final => \/ gen' = gen /\ total' = total /\ digest' = digest
                               \/ gen' = Fresh /\ digest' = <<>>]_vars
  BY DEF Next, Reset, Finalize, Digest, Feed
<1> QED BY <1>1, PTL DEF Spec, DigestFinal
=============================================================================
