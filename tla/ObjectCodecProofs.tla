------------------------- MODULE ObjectCodecProofs -------------------------
(***************************************************************************)
(* Proofs about ObjectText and ObjectCodec: keys, modes and offsets are    *)
(* read as they were written, and so are objects of all four kinds, for    *)
(* any number of parents, elements and pieces of a message.                *)
(***************************************************************************)
EXTENDS ObjectCodec, SequenceTheorems, FiniteSetTheorems, Recursion, TLAPS

-----------------------------------------------------------------------------
(* Conversions.  Keys are written as hexadecimal digits, in texts and as   *)
(* paths; both are undone, for keys of any length.                         *)

\* The two digits of a byte.
LEMMA ByteDigits ==
  ASSUME NEW b \in Byte
  PROVE  b \div 16 \in 0 .. 15 /\ b % 16 \in 0 .. 15
<1>1. b \in Int /\ 0 <= b /\ b <= 255
  BY DEF Byte
<1>2. b % 16 \in 0 .. 15
  BY <1>1
<1>3. b \div 16 \in 0 .. 15
  BY <1>1
<1> QED BY <1>2, <1>3

\* The byte of two digits.
LEMMA DigitsByte ==
  ASSUME NEW b \in Byte, NEW q \in Int, NEW r \in Int, q = b \div 16, r = b % 16
  PROVE  16 * q + r = b
BY DEF Byte

\* The digits of a key are two for each byte.
LEMMA KeyDigits ==
  ASSUME NEW key \in Seq(Byte)
  PROVE  /\ Len(ToHex(key)) = 2 * Len(key)
         /\ ToHex(key) \in Seq(0 .. 15)
         /\ \A i \in 1 .. Len(key) : /\ ToHex(key)[2 * i - 1] = key[i] \div 16
                                    /\ ToHex(key)[2 * i] = key[i] % 16
<1>1. Len(key) \in Nat /\ \A i \in 1 .. Len(key) : key[i] \in Byte
  OBVIOUS
<1>2. ASSUME NEW i \in 1 .. 2 * Len(key)
      PROVE  ToHex(key)[i] \in 0 .. 15
  <2>1. CASE i % 2 = 1
    <3>1. (i + 1) \div 2 \in 1 .. Len(key)
      BY <1>1, <2>1
    <3>2. key[(i + 1) \div 2] \div 16 \in 0 .. 15
      BY <1>1, <3>1, ByteDigits
    <3> QED BY <2>1, <3>2 DEF ToHex
  <2>2. CASE i % 2 # 1
    <3>1. i \div 2 \in 1 .. Len(key)
      BY <1>1, <2>2
    <3>2. key[i \div 2] % 16 \in 0 .. 15
      BY <1>1, <3>1, ByteDigits
    <3> QED BY <2>2, <3>2 DEF ToHex
  <2> QED BY <2>1, <2>2
<1>3. Len(ToHex(key)) = 2 * Len(key) /\ ToHex(key) \in Seq(0 .. 15)
  BY <1>1, <1>2 DEF ToHex
<1>4. ASSUME NEW i \in 1 .. Len(key)
      PROVE  /\ ToHex(key)[2 * i - 1] = key[i] \div 16
             /\ ToHex(key)[2 * i] = key[i] % 16
  <2>1. /\ 2 * i - 1 \in 1 .. 2 * Len(key) /\ 2 * i \in 1 .. 2 * Len(key)
        /\ (2 * i - 1) % 2 = 1 /\ (2 * i) % 2 = 0
        /\ (2 * i - 1 + 1) \div 2 = i /\ (2 * i) \div 2 = i
    BY <1>1
  <2> QED BY <2>1 DEF ToHex
<1> QED BY <1>3, <1>4

\* Reading a written key gives the key (tohex, fromhex).
THEOREM HexInverse ==
  ASSUME NEW key \in Seq(Byte)
  PROVE  FromHex(ToHex(key)) = key
<1>1. Len(key) \in Nat /\ \A i \in 1 .. Len(key) : key[i] \in Byte
  OBVIOUS
<1>2. Len(ToHex(key)) \div 2 = Len(key)
  BY <1>1, KeyDigits
<1>3. ASSUME NEW i \in 1 .. Len(key)
      PROVE  16 * ToHex(key)[2 * i - 1] + ToHex(key)[2 * i] = key[i]
  <2>1. /\ ToHex(key)[2 * i - 1] = key[i] \div 16
        /\ ToHex(key)[2 * i] = key[i] % 16
    BY KeyDigits
  <2>2. ToHex(key)[2 * i - 1] \in Int /\ ToHex(key)[2 * i] \in Int
    BY <1>1, <2>1, ByteDigits
  <2> QED BY <1>1, <2>1, <2>2, DigitsByte
<1>4. FromHex(ToHex(key)) = [i \in 1 .. Len(key) |-> key[i]]
  BY <1>2, <1>3 DEF FromHex, ByteOf
<1> QED BY <1>1, <1>4

\* The key of an object's path is the key that the path was made of
\* (path_from_key and loose_accessor::key), so that no two keys share a path.
THEOREM PathInverse ==
  ASSUME NEW key \in Seq(Byte), NEW prefix \in 0 .. Len(key)
  PROVE  KeyOf(PathOf(key, prefix)) = key
<1> DEFINE hex == ToHex(key)
<1>1. hex \in Seq(0 .. 15) /\ Len(hex) = 2 * Len(key) /\ Len(key) \in Nat
  BY KeyDigits
<1>2. 2 * prefix \in 0 .. Len(hex)
  BY <1>1
<1>3. SubSeq(hex, 1, 2 * prefix) \o SubSeq(hex, 2 * prefix + 1, Len(hex)) = hex
  <2> HIDE DEF hex
  <2>1. SubSeq(hex, 1, Len(hex)) = hex
    BY <1>1, SubSeqFull
  <2>2. SubSeq(hex, 1, 2 * prefix) \o SubSeq(hex, 2 * prefix + 1, Len(hex))
          = SubSeq(hex, 1, Len(hex))
    <3>1. /\ 1 \in 1 .. Len(hex) + 1 /\ 2 * prefix \in 1 - 1 .. Len(hex)
          /\ Len(hex) \in 2 * prefix .. Len(hex)
      BY <1>1, <1>2
    <3> QED BY <1>1, <3>1, ConcatAdjacentSubSeq
  <2> QED BY <2>1, <2>2
<1>4. KeyOf(PathOf(key, prefix)) = FromHex(hex)
  BY <1>1, <1>3 DEF KeyOf, PathOf
<1> QED BY <1>4, HexInverse

\* A timezone offset is read as it was written, but for the one whose magnitude
\* is no short, which fails the stream.
LEMMA ZoneInverse ==
  ASSUME NEW z \in Zones
  PROVE  /\ ZoneValue(ZoneText(z)) \in Zones
         /\ ZoneText(z).digits <= ShortMax => ZoneValue(ZoneText(z)) = z
         /\ z > -ShortMax - 1 => ZoneText(z).digits <= ShortMax
         /\ ZoneText(z).digits \in Int
<1>1. ShortMax \in Nat
  BY DEF ShortMax
<1>2. z \in Int /\ -ShortMax - 1 <= z /\ z <= ShortMax
  BY <1>1 DEF Zones
<1>3. CASE z < 0
  <2>1. ZoneText(z).sign = -1 /\ ZoneText(z).digits = -z
    BY <1>3 DEF ZoneText
  <2>2. \A y \in Int : -1 * y = -y
    OBVIOUS
  <2>3. ZoneValue(ZoneText(z)) = IF -z > ShortMax THEN -ShortMax ELSE z
    BY <1>1, <1>2, <2>1, <2>2 DEF ZoneValue
  <2> QED BY <1>1, <1>2, <1>3, <2>1, <2>3 DEF Zones
<1>4. CASE ~(z < 0)
  <2>1. ZoneText(z).sign = 1 /\ ZoneText(z).digits = z
    BY <1>4 DEF ZoneText
  <2>2. \A y \in Int : 1 * y = y
    OBVIOUS
  <2>3. ZoneValue(ZoneText(z)) = z
    BY <1>1, <1>2, <2>1, <2>2 DEF ZoneValue
  <2> QED BY <1>1, <1>2, <1>4, <2>1, <2>3 DEF Zones
<1> QED BY <1>3, <1>4

\* What is left of an offset when its sign breaks off.
LEMMA ZoneSign ==
  ASSUME NEW z \in Zones
  PROVE  Negated(z) \in Zones
<1>1. ShortMax \in Nat
  BY DEF ShortMax
<1> QED BY <1>1 DEF Zones, Negated

\* The first digits of a number are a number.
LEMMA DigitsLeft ==
  ASSUME NEW n \in Nat
  PROVE  /\ FirstDigits(n) \subseteq Nat
         /\ \A d \in {10, 100, 1000} : n \div d \in Nat
BY DEF FirstDigits

\* An offset whose last digits are missing is an offset.
LEMMA ZoneLeft ==
  ASSUME NEW z \in Zones, NEW t \in ZoneStarts(ZoneText(z))
  PROVE  ZoneValue(t) \in Zones
<1>1. ShortMax \in Nat
  BY DEF ShortMax
<1>2. z \in Int
  BY <1>1 DEF Zones
<1>3. ZoneText(z).digits \in Nat /\ ZoneText(z).sign \in {-1, 1}
  BY <1>2 DEF ZoneText
<1>4. PICK n \in Nat : t = [ZoneText(z) EXCEPT !.digits = n]
  BY <1>3, DigitsLeft DEF ZoneStarts
<1>5. t.digits = n /\ t.sign = ZoneText(z).sign
  BY <1>4 DEF ZoneText
<1> DEFINE m == IF n > ShortMax THEN ShortMax ELSE n
<1>6. m \in 0 .. ShortMax
  BY <1>1, <1>4
<1>7. ZoneValue(t) = t.sign * m
  BY <1>5 DEF ZoneValue
<1> HIDE DEF m
<1>8. CASE t.sign = 1
  <2>1. ZoneValue(t) = m
    BY <1>6, <1>7, <1>8
  <2> QED BY <1>1, <1>6, <2>1 DEF Zones
<1>9. CASE t.sign = -1
  <2>1. ZoneValue(t) = -m
    BY <1>1, <1>6, <1>7, <1>9
  <2> QED BY <1>1, <1>6, <2>1 DEF Zones
<1> QED BY <1>3, <1>5, <1>8, <1>9

\* A mode loses its lowest digit with each shift.
LEMMA Shifts ==
  ASSUME NEW mode \in Nat
  PROVE  /\ \A m \in 0 .. 6 : Shifted(mode, m) \in Nat /\ Shifted(mode, m) <= mode
         /\ Shifted(mode, 0) = mode
         /\ \A m \in 0 .. 5 :
              Shifted(mode, m) = 8 * Shifted(mode, m + 1) + (Shifted(mode, m) % 8)
<1>1. /\ Shifted(mode, 0) = mode \div 1 /\ Shifted(mode, 1) = mode \div 8
      /\ Shifted(mode, 2) = mode \div 64 /\ Shifted(mode, 3) = mode \div 512
      /\ Shifted(mode, 4) = mode \div 4096 /\ Shifted(mode, 5) = mode \div 32768
      /\ Shifted(mode, 6) = mode \div 262144
  BY DEF Shifted
<1>2. \A m \in 0 .. 6 : m = 0 \/ m = 1 \/ m = 2 \/ m = 3 \/ m = 4 \/ m = 5 \/ m = 6
  OBVIOUS
<1>3. /\ Shifted(mode, 0) \in Nat /\ Shifted(mode, 0) = mode
      /\ Shifted(mode, 1) \in Nat /\ Shifted(mode, 1) <= mode
      /\ Shifted(mode, 2) \in Nat /\ Shifted(mode, 2) <= mode
      /\ Shifted(mode, 3) \in Nat /\ Shifted(mode, 3) <= mode
      /\ Shifted(mode, 4) \in Nat /\ Shifted(mode, 4) <= mode
      /\ Shifted(mode, 5) \in Nat /\ Shifted(mode, 5) <= mode
      /\ Shifted(mode, 6) \in Nat /\ Shifted(mode, 6) <= mode
  BY <1>1
<1>4. /\ Shifted(mode, 1) = Shifted(mode, 0) \div 8
      /\ Shifted(mode, 2) = Shifted(mode, 1) \div 8
      /\ Shifted(mode, 3) = Shifted(mode, 2) \div 8
      /\ Shifted(mode, 4) = Shifted(mode, 3) \div 8
      /\ Shifted(mode, 5) = Shifted(mode, 4) \div 8
      /\ Shifted(mode, 6) = Shifted(mode, 5) \div 8
  BY <1>1
<1>5. ASSUME NEW a \in Nat, NEW b \in Nat, b = a \div 8 PROVE a = 8 * b + (a % 8)
  BY <1>5
<1>6. ASSUME NEW m \in 0 .. 5
      PROVE  Shifted(mode, m) = 8 * Shifted(mode, m + 1) + (Shifted(mode, m) % 8)
  <2>1. /\ Shifted(mode, m) \in Nat /\ Shifted(mode, m + 1) \in Nat
        /\ Shifted(mode, m + 1) = Shifted(mode, m) \div 8
    <3>1. m = 0 \/ m = 1 \/ m = 2 \/ m = 3 \/ m = 4 \/ m = 5
      OBVIOUS
    <3> QED BY <1>3, <1>4, <3>1
  <2> QED BY <1>5, <2>1
<1>7. ASSUME NEW m \in 0 .. 6
      PROVE  Shifted(mode, m) \in Nat /\ Shifted(mode, m) <= mode
  BY <1>2, <1>3
<1> QED BY <1>3, <1>6, <1>7

\* The digits of a mode that is written.
LEMMA ModeWritten ==
  ASSUME NEW mode \in Nat
  PROVE  /\ ModeDigits(mode) \in Seq(0 .. 7)
         /\ Len(ModeDigits(mode)) \in {5, 6}
         /\ \A i \in 1 .. Len(ModeDigits(mode)) :
              ModeDigits(mode)[i] = Shifted(mode, Len(ModeDigits(mode)) - i) % 8
         /\ Shifted(mode, 6) = 0 => Shifted(mode, Len(ModeDigits(mode))) = 0
<1> DEFINE n == IF Shifted(mode, 5) % 8 = 0 THEN 5 ELSE 6
<1>1. ModeDigits(mode) = [i \in 1 .. n |-> Shifted(mode, n - i) % 8]
  BY DEF ModeDigits
<1>2. \A i \in 1 .. n : Shifted(mode, n - i) % 8 \in 0 .. 7
  <2> SUFFICES ASSUME NEW i \in 1 .. n PROVE Shifted(mode, n - i) % 8 \in 0 .. 7
    OBVIOUS
  <2>1. n - i \in 0 .. 6
    OBVIOUS
  <2>2. Shifted(mode, n - i) \in Nat
    BY <2>1, Shifts
  <2> QED BY <2>2
<1>3. Shifted(mode, 6) = 0 => Shifted(mode, n) = 0
  <2>1. Shifted(mode, 5) = 8 * Shifted(mode, 6) + (Shifted(mode, 5) % 8)
    <3>1. 5 \in 0 .. 5 /\ 5 + 1 = 6
      OBVIOUS
    <3> QED BY <3>1, Shifts
  <2>2. Shifted(mode, 5) \in Nat /\ Shifted(mode, 6) \in Nat
    BY Shifts
  <2> DEFINE a == Shifted(mode, 5)
             b == Shifted(mode, 6)
  <2>3. b = 0 /\ a % 8 = 0 => a = 0
    BY <2>1, <2>2
  <2> QED BY <2>3
<1>4. n \in {5, 6}
  OBVIOUS
<1> HIDE DEF n
<1>5. n \in Nat /\ Len(ModeDigits(mode)) = n /\ ModeDigits(mode) \in Seq(0 .. 7)
  BY <1>1, <1>2, <1>4
<1>6. \A i \in 1 .. n : ModeDigits(mode)[i] = Shifted(mode, n - i) % 8
  BY <1>1
<1> QED BY <1>3, <1>4, <1>5, <1>6

\* Reading one digit more of a mode.
LEMMA ModeReadOn ==
  ASSUME NEW mode \in Modes, NEW i \in 1 .. Len(ModeDigits(mode)),
         NEW d, d = Len(ModeDigits(mode))
  PROVE  (8 * Shifted(mode, d - i + 1) + ModeDigits(mode)[i]) % 2 ^ ModeBits
           = Shifted(mode, d - i)
<1>1. mode \in Nat /\ 2 ^ ModeBits \in Nat \ {0} /\ mode < 2 ^ ModeBits
  BY BoundAssumption DEF Modes
<1> DEFINE m == d - i
<1>2. m \in 0 .. 5 /\ d - i + 1 = m + 1
  <2>1. d = 5 \/ d = 6
    BY <1>1, ModeWritten
  <2> QED BY <2>1
<1>3. ModeDigits(mode)[i] = Shifted(mode, m) % 8
  BY <1>1, ModeWritten
<1>4. Shifted(mode, m) = 8 * Shifted(mode, m + 1) + (Shifted(mode, m) % 8)
  BY <1>1, <1>2, Shifts
<1>5. Shifted(mode, m) \in Nat /\ Shifted(mode, m) < 2 ^ ModeBits
  <2>1. m \in 0 .. 6
    BY <1>2
  <2>2. Shifted(mode, m) \in Nat /\ Shifted(mode, m) <= mode
    BY <1>1, <2>1, Shifts
  <2> QED BY <1>1, <2>2
<1> DEFINE w == 2 ^ ModeBits
           s == Shifted(mode, m)
<1>6. s % w = s
  <2>1. w \in Nat \ {0} /\ s \in Nat /\ s < w
    BY <1>1, <1>5
  <2> HIDE DEF w, s
  <2> QED BY <2>1
<1>7. 8 * Shifted(mode, d - i + 1) + ModeDigits(mode)[i] = s
  BY <1>2, <1>3, <1>4
<1> QED BY <1>6, <1>7

-----------------------------------------------------------------------------
(* Texts: which token is where.                                            *)

\* The sequence t starts with c, or has s behind its first a elements.
Starts(t, c) == \A i \in 1 .. Len(c) : t[i] = c[i]
Placed(t, a, s) == \A i \in 1 .. Len(s) : t[a + i] = s[i]

\* Sequences that are put together, and what starts with them.
LEMMA Joining ==
  ASSUME NEW T, NEW c \in Seq(T), NEW s \in Seq(T)
  PROVE  /\ c \o s \in Seq(T) /\ Len(c \o s) = Len(c) + Len(s)
         /\ \A t : Starts(t, c \o s) => Starts(t, c) /\ Placed(t, Len(c), s)
<1>1. /\ c \o s \in Seq(T) /\ Len(c \o s) = Len(c) + Len(s)
      /\ \A i \in 1 .. Len(c) + Len(s) :
           (c \o s)[i] = IF i <= Len(c) THEN c[i] ELSE s[i - Len(c)]
  BY ConcatProperties
<1>2. Len(c) \in Nat /\ Len(s) \in Nat
  BY LenProperties
<1>3. ASSUME NEW t, Starts(t, c \o s), NEW i \in 1 .. Len(c) PROVE t[i] = c[i]
  <2>1. i \in 1 .. Len(c) + Len(s) /\ i <= Len(c)
    BY <1>2
  <2> QED BY <1>1, <1>3, <2>1 DEF Starts
<1>4. ASSUME NEW t, Starts(t, c \o s), NEW i \in 1 .. Len(s) PROVE t[Len(c) + i] = s[i]
  <2>1. /\ Len(c) + i \in 1 .. Len(c) + Len(s)
        /\ ~(Len(c) + i <= Len(c)) /\ Len(c) + i - Len(c) = i
    BY <1>2
  <2> QED BY <1>1, <1>4, <2>1 DEF Starts
<1> QED BY <1>1, <1>3, <1>4 DEF Starts, Placed

\* A function on 1 to n is a sequence.
LEMMA MadeSeq ==
  ASSUME NEW T, NEW n \in Nat, NEW f \in [1 .. n -> T]
  PROVE  f \in Seq(T) /\ Len(f) = n
OBVIOUS

\* The tokens of an actor's stamp stand behind the first p tokens.
StampAt(t, p, a) ==
  /\ t[p + 1].value = a.name /\ t[p + 2].value = a.email
  /\ t[p + 3].value = a.time /\ t[p + 4].value = a.time
  /\ t[p + 5].value = ZoneText(a.zone) /\ t[p + 6].value = ZoneText(a.zone)

\* The kinds of a stamp's tokens.
StampKinds == {"name", "email", "digits", "time", "offset", "zone"}

\* A stamp is a sequence of six tokens.
LEMMA StampMade ==
  ASSUME NEW T, NEW a,
         \A k \in StampKinds : /\ Token(k, a.name) \in T /\ Token(k, a.email) \in T
                               /\ Token(k, a.time) \in T /\ Token(k, ZoneText(a.zone)) \in T
  PROVE  Stamp(a) \in Seq(T)
BY DEF Stamp, StampKinds

\* What a text with a stamp at a place has there.
LEMMA StampPlaced ==
  ASSUME NEW t, NEW p, NEW a, Placed(t, p, Stamp(a))
  PROVE  StampAt(t, p, a)
<1>1. /\ Len(Stamp(a)) = 6
      /\ Stamp(a)[1] = Token("name", a.name) /\ Stamp(a)[2] = Token("email", a.email)
      /\ Stamp(a)[3] = Token("digits", a.time) /\ Stamp(a)[4] = Token("time", a.time)
      /\ Stamp(a)[5] = Token("offset", ZoneText(a.zone))
      /\ Stamp(a)[6] = Token("zone", ZoneText(a.zone))
  BY DEF Stamp
<1>2. \A i \in 1 .. 6 : t[p + i] = Stamp(a)[i]
  BY <1>1 DEF Placed
<1>3. \A k, v : Token(k, v).value = v
  BY DEF Token
<1> QED BY <1>1, <1>2, <1>3 DEF StampAt

\* The tokens of a commit's text, as far as its parser looks at them.
CommitTokens(o, t) ==
  LET n == 2 * Len(o.parents)
      b == IF o.encoding = DefaultEncoding THEN n + 18 ELSE n + 21
  IN /\ Len(t) = b + Len(o.message)
     /\ t[1].value = "tree" /\ t[2].value = ToHex(o.tree)
     /\ \A k \in 1 .. Len(o.parents) : /\ t[2 * k + 1].value = "parent"
                                      /\ t[2 * k + 2].value = ToHex(o.parents[k])
     /\ t[n + 3].value = "author" /\ StampAt(t, n + 3, o.author)
     /\ t[n + 10].value = "committer" /\ StampAt(t, n + 10, o.committer)
     /\ IF o.encoding = DefaultEncoding
        THEN t[n + 18].value = NoName
        ELSE t[n + 18].value = "encoding" /\ t[n + 19].value = o.encoding
     /\ \A i \in 1 .. Len(o.message) : t[b + i].value = o.message[i]

\* The text of any commit has each token where CommitTokens says.
LEMMA CommitWritten ==
  ASSUME NEW o, IsCommit(o, Keys)
  PROVE  CommitTokens(o, CommitText(o))
<1> DEFINE V  == {"tree", "parent", "author", "committer", "encoding", NoName}
                   \cup Strings \cup Seq(0 .. 15) \cup Nat \cup {ZoneText(z) : z \in Zones}
           T  == [kind : {"word", "hex", "newline", "text"} \cup StampKinds, value : V]
           m  == Len(o.parents)
           ps == [i \in 1 .. 2 * m |-> IF i % 2 = 1 THEN Word("parent")
                                       ELSE KeyText(o.parents[i \div 2])]
           en == IF o.encoding = DefaultEncoding THEN <<>>
                 ELSE <<Word("encoding"), Token("text", o.encoding), Newline>>
           ms == [i \in DOMAIN o.message |-> Token("text", o.message[i])]
           s1 == <<Word("tree"), KeyText(o.tree)>>
           s3 == <<Word("author")>>
           s4 == Stamp(o.author)
           s5 == <<Word("committer")>>
           s6 == Stamp(o.committer)
           s7 == <<Newline>>
<1>1. /\ o.tree \in Keys /\ o.parents \in Seq(Keys)
      /\ o.author \in Stamps /\ o.committer \in Stamps
      /\ o.encoding \in Strings /\ o.message \in Seq(Strings)
  BY DEF IsCommit
<1>2. m \in Nat /\ \A i \in 1 .. m : o.parents[i] \in Keys
  BY <1>1
<1>3. \A k \in Keys : KeyText(k) \in T
  BY KeyDigits DEF Keys, KeyText, Token
<1>4. /\ \A w \in {"tree", "parent", "author", "committer", "encoding"} : Word(w) \in T
      /\ Newline \in T /\ \A w \in Strings : Token("text", w) \in T
  BY DEF Word, Newline, Token
<1>5. \A a \in Stamps : Stamp(a) \in Seq(T)
  <2>1. \A a \in Stamps, k \in StampKinds : Token(k, a.name) \in T /\ Token(k, a.email) \in T
                                           /\ Token(k, a.time) \in T /\ Token(k, ZoneText(a.zone)) \in T
    BY DEF Stamps, Token
  <2> HIDE DEF T
  <2> QED BY <2>1, StampMade
<1> HIDE DEF T, V
<1>6. \A i \in 1 .. 2 * m : ps[i] \in T
  <2> SUFFICES ASSUME NEW i \in 1 .. 2 * m PROVE ps[i] \in T
    OBVIOUS
  <2>1. CASE i % 2 = 1
    BY <1>4, <2>1
  <2>2. CASE i % 2 # 1
    <3>1. i \div 2 \in 1 .. m
      BY <1>2, <2>2
    <3>2. KeyText(o.parents[i \div 2]) \in T
      BY <1>2, <1>3, <3>1
    <3> QED BY <2>2, <3>2
  <2> QED BY <2>1, <2>2
<1>7. /\ ps \in Seq(T) /\ Len(ps) = 2 * m
      /\ \A k \in 1 .. m : ps[2 * k - 1] = Word("parent") /\ ps[2 * k] = KeyText(o.parents[k])
  <2>1. 2 * m \in Nat
    BY <1>2
  <2>2. ps \in Seq(T) /\ Len(ps) = 2 * m
    <3>1. ps \in [1 .. 2 * m -> T]
      BY <1>6
    <3> HIDE DEF ps
    <3> QED BY <2>1, <3>1, MadeSeq
  <2>3. ASSUME NEW k \in 1 .. m
        PROVE  ps[2 * k - 1] = Word("parent") /\ ps[2 * k] = KeyText(o.parents[k])
    <3>1. /\ 2 * k - 1 \in 1 .. 2 * m /\ (2 * k - 1) % 2 = 1
          /\ 2 * k \in 1 .. 2 * m /\ (2 * k) % 2 = 0 /\ (2 * k) \div 2 = k
      BY <1>2
    <3> QED BY <3>1
  <2> QED BY <2>2, <2>3
<1>8. /\ s1 \in Seq(T) /\ Len(s1) = 2 /\ s1[1] = Word("tree") /\ s1[2] = KeyText(o.tree)
      /\ s3 \in Seq(T) /\ Len(s3) = 1 /\ s3[1] = Word("author")
      /\ s5 \in Seq(T) /\ Len(s5) = 1 /\ s5[1] = Word("committer")
      /\ s7 \in Seq(T) /\ Len(s7) = 1 /\ s7[1] = Newline
  BY <1>1, <1>3, <1>4
<1>9. s4 \in Seq(T) /\ Len(s4) = 6
  BY <1>1, <1>5 DEF Stamp
<1>10. s6 \in Seq(T) /\ Len(s6) = 6
  BY <1>1, <1>5 DEF Stamp
<1>11. /\ en \in Seq(T) /\ Len(en) = IF o.encoding = DefaultEncoding THEN 0 ELSE 3
       /\ o.encoding # DefaultEncoding => /\ en[1] = Word("encoding")
                                          /\ en[2] = Token("text", o.encoding)
  BY <1>1, <1>4
<1>12. /\ ms \in Seq(T) /\ Len(ms) = Len(o.message) /\ Len(o.message) \in Nat
       /\ \A i \in 1 .. Len(o.message) : ms[i] = Token("text", o.message[i])
  BY <1>1, <1>4
<1> DEFINE c2 == s1 \o ps
           c3 == c2 \o s3
           c4 == c3 \o s4
           c5 == c4 \o s5
           c6 == c5 \o s6
           c7 == c6 \o s7
           c8 == c7 \o en
           c9 == c8 \o s7
           t  == c9 \o ms
<1>13. CommitText(o) = t
  BY DEF CommitText
<1> HIDE DEF ps, en, ms, s1, s3, s4, s5, s6, s7, m
<1> DEFINE n == 2 * m
           l == Len(en)
<1>14. n \in Nat /\ l \in Nat
  BY <1>2, <1>11
<1> HIDE DEF n, l
<1>15. /\ c2 \in Seq(T) /\ Len(c2) = n + 2
       /\ \A q : Starts(q, c2) => Starts(q, s1) /\ Placed(q, 2, ps)
  <2>1. /\ c2 \in Seq(T) /\ Len(c2) = Len(s1) + Len(ps)
        /\ \A q : Starts(q, c2) => Starts(q, s1) /\ Placed(q, Len(s1), ps)
    BY <1>7, <1>8, Joining
  <2> QED BY <2>1, <1>14, <1>7, <1>8 DEF n
<1> HIDE DEF c2
<1>16. /\ c3 \in Seq(T) /\ Len(c3) = n + 3
       /\ \A q : Starts(q, c3) => Starts(q, c2) /\ Placed(q, n + 2, s3)
  <2>1. /\ c3 \in Seq(T) /\ Len(c3) = Len(c2) + Len(s3)
        /\ \A q : Starts(q, c3) => Starts(q, c2) /\ Placed(q, Len(c2), s3)
    BY <1>8, <1>15, Joining
  <2> QED BY <2>1, <1>14, <1>8, <1>15
<1> HIDE DEF c3
<1>17. /\ c4 \in Seq(T) /\ Len(c4) = n + 9
       /\ \A q : Starts(q, c4) => Starts(q, c3) /\ Placed(q, n + 3, s4)
  <2>1. /\ c4 \in Seq(T) /\ Len(c4) = Len(c3) + Len(s4)
        /\ \A q : Starts(q, c4) => Starts(q, c3) /\ Placed(q, Len(c3), s4)
    BY <1>9, <1>16, Joining
  <2> QED BY <2>1, <1>14, <1>9, <1>16
<1> HIDE DEF c4
<1>18. /\ c5 \in Seq(T) /\ Len(c5) = n + 10
       /\ \A q : Starts(q, c5) => Starts(q, c4) /\ Placed(q, n + 9, s5)
  <2>1. /\ c5 \in Seq(T) /\ Len(c5) = Len(c4) + Len(s5)
        /\ \A q : Starts(q, c5) => Starts(q, c4) /\ Placed(q, Len(c4), s5)
    BY <1>8, <1>17, Joining
  <2> QED BY <2>1, <1>14, <1>8, <1>17
<1> HIDE DEF c5
<1>19. /\ c6 \in Seq(T) /\ Len(c6) = n + 16
       /\ \A q : Starts(q, c6) => Starts(q, c5) /\ Placed(q, n + 10, s6)
  <2>1. /\ c6 \in Seq(T) /\ Len(c6) = Len(c5) + Len(s6)
        /\ \A q : Starts(q, c6) => Starts(q, c5) /\ Placed(q, Len(c5), s6)
    BY <1>10, <1>18, Joining
  <2> QED BY <2>1, <1>14, <1>10, <1>18
<1> HIDE DEF c6
<1>20. /\ c7 \in Seq(T) /\ Len(c7) = n + 17
       /\ \A q : Starts(q, c7) => Starts(q, c6) /\ Placed(q, n + 16, s7)
  <2>1. /\ c7 \in Seq(T) /\ Len(c7) = Len(c6) + Len(s7)
        /\ \A q : Starts(q, c7) => Starts(q, c6) /\ Placed(q, Len(c6), s7)
    BY <1>8, <1>19, Joining
  <2> QED BY <2>1, <1>14, <1>8, <1>19
<1> HIDE DEF c7
<1>21. /\ c8 \in Seq(T) /\ Len(c8) = n + 17 + l
       /\ \A q : Starts(q, c8) => Starts(q, c7) /\ Placed(q, n + 17, en)
  <2>1. /\ c8 \in Seq(T) /\ Len(c8) = Len(c7) + Len(en)
        /\ \A q : Starts(q, c8) => Starts(q, c7) /\ Placed(q, Len(c7), en)
    BY <1>11, <1>20, Joining
  <2> QED BY <2>1, <1>14, <1>11, <1>20 DEF l
<1> HIDE DEF c8
<1>22. /\ c9 \in Seq(T) /\ Len(c9) = n + 18 + l
       /\ \A q : Starts(q, c9) => Starts(q, c8) /\ Placed(q, n + 17 + l, s7)
  <2>1. /\ c9 \in Seq(T) /\ Len(c9) = Len(c8) + Len(s7)
        /\ \A q : Starts(q, c9) => Starts(q, c8) /\ Placed(q, Len(c8), s7)
    BY <1>8, <1>21, Joining
  <2> QED BY <2>1, <1>14, <1>8, <1>21
<1> HIDE DEF c9
<1>23. /\ t \in Seq(T) /\ Len(t) = n + 18 + l + Len(o.message)
       /\ \A q : Starts(q, t) => Starts(q, c9) /\ Placed(q, n + 18 + l, ms)
  <2>1. /\ t \in Seq(T) /\ Len(t) = Len(c9) + Len(ms)
        /\ \A q : Starts(q, t) => Starts(q, c9) /\ Placed(q, Len(c9), ms)
    BY <1>12, <1>22, Joining
  <2> QED BY <2>1, <1>14, <1>12, <1>22
<1> HIDE DEF t
<1>24. /\ Starts(t, s1) /\ Placed(t, 2, ps) /\ Placed(t, n + 2, s3)
       /\ Placed(t, n + 3, s4) /\ Placed(t, n + 9, s5) /\ Placed(t, n + 10, s6)
       /\ Placed(t, n + 17, en) /\ Placed(t, n + 17 + l, s7)
       /\ Placed(t, n + 18 + l, ms)
  <2>1. Starts(t, t)
    BY DEF Starts
  <2> QED BY <2>1, <1>15, <1>16, <1>17, <1>18, <1>19, <1>20, <1>21, <1>22, <1>23
<1>25. ASSUME NEW k \in 1 .. m
       PROVE  t[2 * k + 1].value = "parent" /\ t[2 * k + 2].value = ToHex(o.parents[k])
  <2>1. /\ 2 * k + 1 = 2 + (2 * k - 1) /\ 2 * k + 2 = 2 + 2 * k
        /\ 2 * k - 1 \in 1 .. n /\ 2 * k \in 1 .. n
    BY <1>2 DEF n
  <2>2. t[2 * k + 1] = ps[2 * k - 1] /\ t[2 * k + 2] = ps[2 * k]
    BY <1>7, <1>24, <2>1 DEF Placed, n
  <2>3. t[2 * k + 1] = Word("parent") /\ t[2 * k + 2] = KeyText(o.parents[k])
    BY <1>7, <2>2
  <2> QED BY <2>3 DEF Word, KeyText, Token
<1>26. t[1] = s1[1] /\ t[2] = s1[2]
  BY <1>8, <1>24 DEF Starts
<1>27. t[n + 3] = s3[1] /\ t[n + 10] = s5[1]
  <2>1. t[n + 2 + 1] = s3[1] /\ t[n + 9 + 1] = s5[1]
    BY <1>8, <1>24 DEF Placed
  <2> QED BY <1>14, <2>1
<1>28. StampAt(t, n + 3, o.author)
  BY <1>24, StampPlaced DEF s4
<1>29. StampAt(t, n + 10, o.committer)
  BY <1>24, StampPlaced DEF s6
<1>30. IF o.encoding = DefaultEncoding
       THEN l = 0 /\ t[n + 18] = Newline
       ELSE l = 3 /\ t[n + 18] = en[1] /\ t[n + 19] = en[2]
  <2>1. l = IF o.encoding = DefaultEncoding THEN 0 ELSE 3
    BY <1>11 DEF l
  <2>2. CASE o.encoding = DefaultEncoding
    <3>1. t[n + 17 + l + 1] = Newline
      BY <1>8, <1>24 DEF Placed
    <3> QED BY <1>14, <2>1, <2>2, <3>1
  <2>3. CASE o.encoding # DefaultEncoding
    <3>1. t[n + 17 + 1] = en[1] /\ t[n + 17 + 2] = en[2]
      BY <1>24, <2>1, <2>3 DEF Placed, l
    <3> QED BY <1>14, <2>1, <2>3, <3>1
  <2> QED BY <2>2, <2>3
<1>31. \A i \in 1 .. Len(o.message) : t[n + 18 + l + i] = ms[i]
  BY <1>12, <1>24 DEF Placed
<1>32. \A k, v : Token(k, v).value = v
  BY DEF Token
<1>33. /\ t[1].value = "tree" /\ t[2].value = ToHex(o.tree)
       /\ t[n + 3].value = "author" /\ t[n + 10].value = "committer"
  BY <1>8, <1>26, <1>27, <1>32 DEF Word, KeyText
<1>34. IF o.encoding = DefaultEncoding
       THEN t[n + 18].value = NoName
       ELSE t[n + 18].value = "encoding" /\ t[n + 19].value = o.encoding
  BY <1>11, <1>30, <1>32 DEF Word, Newline
<1> DEFINE b == IF o.encoding = DefaultEncoding THEN n + 18 ELSE n + 21
<1>35. b = n + 18 + l
  BY <1>14, <1>30
<1>36. /\ \A i \in 1 .. Len(o.message) : t[b + i].value = o.message[i]
       /\ Len(t) = b + Len(o.message)
  <2>1. ASSUME NEW i \in 1 .. Len(o.message) PROVE t[b + i].value = o.message[i]
    <3>1. t[b + i] = Token("text", o.message[i])
      BY <1>12, <1>31, <1>35
    <3> QED BY <1>32, <3>1
  <2> QED BY <1>23, <1>35, <2>1
<1> QED BY <1>13, <1>25, <1>28, <1>29, <1>33, <1>34, <1>36 DEF CommitTokens, n, m

\* The tokens of a tag's text.
TagTokens(o, t) ==
  /\ Len(t) = IF o.message = <<>> THEN 14 ELSE 15 + Len(o.message)
  /\ t[1].value = "object" /\ t[2].value = ToHex(o.object)
  /\ t[3].value = "type" /\ t[4].value = o.target
  /\ t[5].value = "tag" /\ t[6].value = o.name
  /\ t[7].value = "tagger" /\ StampAt(t, 7, o.tagger)
  /\ \A i \in 1 .. Len(o.message) : t[15 + i].value = o.message[i]

\* The text of any tag has each token where TagTokens says.
LEMMA TagWritten ==
  ASSUME NEW o, IsTag(o, Keys)
  PROVE  TagTokens(o, TagText(o))
<1> DEFINE Targets == {"none", "commit", "tag", "tree", "blob"}
           V  == {"object", "type", "tag", "tagger", NoName} \cup Targets
                   \cup Strings \cup Seq(0 .. 15) \cup Nat \cup {ZoneText(z) : z \in Zones}
           T  == [kind : {"word", "hex", "newline", "text", "type"} \cup StampKinds, value : V]
           s1 == <<Word("object"), KeyText(o.object), Word("type"),
                   Token("type", o.target), Word("tag"), Token("text", o.name),
                   Word("tagger")>>
           s2 == Stamp(o.tagger)
           s3 == <<Newline>>
           s4 == IF o.message = <<>> THEN <<>> ELSE <<Newline>>
           ms == [i \in DOMAIN o.message |-> Token("text", o.message[i])]
<1>1. /\ o.object \in Keys /\ o.target \in Targets /\ o.name \in Strings
      /\ o.tagger \in Stamps /\ o.message \in Seq(Strings)
  BY DEF IsTag
<1>2. \A k \in Keys : KeyText(k) \in T
  BY KeyDigits DEF Keys, KeyText, Token
<1>3. /\ \A w \in {"object", "type", "tag", "tagger"} : Word(w) \in T
      /\ Newline \in T /\ \A w \in Strings : Token("text", w) \in T
      /\ \A w \in Targets : Token("type", w) \in T
  BY DEF Word, Newline, Token
<1>4. \A a \in Stamps : Stamp(a) \in Seq(T)
  <2>1. \A a \in Stamps, k \in StampKinds : Token(k, a.name) \in T /\ Token(k, a.email) \in T
                                           /\ Token(k, a.time) \in T /\ Token(k, ZoneText(a.zone)) \in T
    BY DEF Stamps, Token
  <2> HIDE DEF T
  <2> QED BY <2>1, StampMade
<1> HIDE DEF T, V, Targets
<1>5. /\ s1 \in Seq(T) /\ Len(s1) = 7
      /\ s1[1] = Word("object") /\ s1[2] = KeyText(o.object) /\ s1[3] = Word("type")
      /\ s1[4] = Token("type", o.target) /\ s1[5] = Word("tag")
      /\ s1[6] = Token("text", o.name) /\ s1[7] = Word("tagger")
  BY <1>1, <1>2, <1>3
<1>6. s2 \in Seq(T) /\ Len(s2) = 6
  BY <1>1, <1>4 DEF Stamp
<1>7. /\ s3 \in Seq(T) /\ Len(s3) = 1
      /\ s4 \in Seq(T) /\ Len(s4) = IF o.message = <<>> THEN 0 ELSE 1
  BY <1>3
<1>8. /\ ms \in Seq(T) /\ Len(ms) = Len(o.message) /\ Len(o.message) \in Nat
      /\ \A i \in 1 .. Len(o.message) : ms[i] = Token("text", o.message[i])
  BY <1>1, <1>3
<1> DEFINE c2 == s1 \o s2
           c3 == c2 \o s3
           c4 == c3 \o s4
           t  == c4 \o ms
           l  == Len(s4)
<1>9. TagText(o) = t
  BY DEF TagText
<1>10. l = IF o.message = <<>> THEN 0 ELSE 1
  BY <1>7
<1> HIDE DEF s1, s2, s3, s4, ms, l
<1>11. c2 \in Seq(T) /\ Len(c2) = 13 /\ \A q : Starts(q, c2) => Starts(q, s1) /\ Placed(q, 7, s2)
  <2>1. /\ c2 \in Seq(T) /\ Len(c2) = Len(s1) + Len(s2)
        /\ \A q : Starts(q, c2) => Starts(q, s1) /\ Placed(q, Len(s1), s2)
    BY <1>5, <1>6, Joining
  <2> QED BY <2>1, <1>5, <1>6
<1> HIDE DEF c2
<1>12. c3 \in Seq(T) /\ Len(c3) = 14 /\ \A q : Starts(q, c3) => Starts(q, c2)
  <2>1. /\ c3 \in Seq(T) /\ Len(c3) = Len(c2) + Len(s3)
        /\ \A q : Starts(q, c3) => Starts(q, c2)
    BY <1>7, <1>11, Joining
  <2> QED BY <2>1, <1>7, <1>11
<1> HIDE DEF c3
<1>13. c4 \in Seq(T) /\ Len(c4) = 14 + l /\ \A q : Starts(q, c4) => Starts(q, c3)
  <2>1. /\ c4 \in Seq(T) /\ Len(c4) = Len(c3) + Len(s4)
        /\ \A q : Starts(q, c4) => Starts(q, c3)
    BY <1>7, <1>12, Joining
  <2> QED BY <2>1, <1>7, <1>12 DEF l
<1> HIDE DEF c4
<1>14. /\ Len(t) = 14 + l + Len(o.message)
       /\ \A q : Starts(q, t) => Starts(q, c4) /\ Placed(q, 14 + l, ms)
  <2>1. /\ Len(t) = Len(c4) + Len(ms)
        /\ \A q : Starts(q, t) => Starts(q, c4) /\ Placed(q, Len(c4), ms)
    BY <1>8, <1>13, Joining
  <2> QED BY <2>1, <1>8, <1>13
<1> HIDE DEF t
<1>15. Starts(t, s1) /\ Placed(t, 7, s2) /\ Placed(t, 14 + l, ms)
  <2>1. Starts(t, t)
    BY DEF Starts
  <2> QED BY <2>1, <1>11, <1>12, <1>13, <1>14
<1>16. \A k, v : Token(k, v).value = v
  BY DEF Token
<1>17. /\ t[1] = s1[1] /\ t[2] = s1[2] /\ t[3] = s1[3] /\ t[4] = s1[4]
       /\ t[5] = s1[5] /\ t[6] = s1[6] /\ t[7] = s1[7]
  BY <1>5, <1>15 DEF Starts
<1>18. StampAt(t, 7, o.tagger)
  BY <1>15, StampPlaced DEF s2
<1>19. ASSUME NEW i \in 1 .. Len(o.message) PROVE t[15 + i].value = o.message[i]
  <2>1. o.message # <<>>
    BY <1>8, <1>19
  <2>2. l = 1 /\ 14 + l + i = 15 + i
    BY <1>8, <1>10, <2>1
  <2>3. t[14 + l + i] = ms[i]
    BY <1>8, <1>15 DEF Placed
  <2> QED BY <1>8, <1>16, <2>2, <2>3
<1>20. Len(t) = IF o.message = <<>> THEN 14 ELSE 15 + Len(o.message)
  <2>1. CASE o.message = <<>>
    <3>1. Len(o.message) = 0 /\ l = 0
      BY <1>10, <2>1
    <3> QED BY <1>14, <2>1, <3>1
  <2>2. CASE o.message # <<>>
    <3>1. l = 1
      BY <1>10, <2>2
    <3> QED BY <1>8, <1>14, <2>2, <3>1
  <2> QED BY <2>1, <2>2
<1>21. /\ t[1].value = "object" /\ t[2].value = ToHex(o.object)
       /\ t[3].value = "type" /\ t[4].value = o.target
       /\ t[5].value = "tag" /\ t[6].value = o.name /\ t[7].value = "tagger"
  BY <1>5, <1>16, <1>17 DEF Word, KeyText
<1> QED BY <1>9, <1>18, <1>19, <1>20, <1>21 DEF TagTokens

\* The elements of a tree in their order, and where the text of each ends.
Elements(o) == Cardinality(DOMAIN o.elements)
NameAt(o, j) == InOrder(DOMAIN o.elements)[j]
ElementAt(o, j) == o.elements[NameAt(o, j)]
Names(o, j) == {NameAt(o, i) : i \in 1 .. j}
End(o, j) == Len(UpTo(o)[j])
ModeLength(e) == Len(ModeDigits(e.mode))

\* A set with its n elements in their order.
Ordered(s, A, n) == s \in [1 .. n -> A] /\ \A i, j \in 1 .. n : i < j => s[i] < s[j]

\* A finite set of numbers can be ordered: its least element goes first.
LEMMA Ordering ==
  ASSUME NEW A, A \subseteq Nat, IsFiniteSet(A)
  PROVE  \E s : Ordered(s, A, Cardinality(A))
<1> DEFINE S == {n \in Nat : \A B \in SUBSET Nat :
                   IsFiniteSet(B) /\ Cardinality(B) = n => \E s : Ordered(s, B, n)}
<1>1. 0 \in S
  <2> SUFFICES ASSUME NEW B \in SUBSET Nat, IsFiniteSet(B), Cardinality(B) = 0
               PROVE  \E s : Ordered(s, B, 0)
    OBVIOUS
  <2>1. B = {}
    BY FS_EmptySet
  <2> DEFINE s == [i \in 1 .. 0 |-> 0]
  <2>2. s \in [1 .. 0 -> B] /\ 1 .. 0 = {}
    BY <2>1
  <2>3. Ordered(s, B, 0)
    BY <2>2 DEF Ordered
  <2> QED BY <2>3
<1>2. ASSUME NEW n \in Nat, n \in S PROVE n + 1 \in S
  <2> SUFFICES ASSUME NEW B \in SUBSET Nat, IsFiniteSet(B), Cardinality(B) = n + 1
               PROVE  \E s : Ordered(s, B, n + 1)
    OBVIOUS
  <2>1. B # {}
    <3>1. Cardinality({}) = 0
      BY FS_EmptySet
    <3> QED BY <3>1
  <2>2. PICK x \in B : \A y \in B : x <= y
    BY <2>1, LeastNumber
  <2> DEFINE C == B \ {x}
  <2>3. IsFiniteSet(C) /\ Cardinality(C) = n /\ C \in SUBSET Nat
    BY FS_RemoveElement
  <2>4. PICK r : Ordered(r, C, n)
    BY <1>2, <2>3
  <2> DEFINE s == [i \in 1 .. n + 1 |-> IF i = 1 THEN x ELSE r[i - 1]]
  <2>5. ASSUME NEW i \in 1 .. n PROVE r[i] \in B /\ x < r[i]
    <3>1. r[i] \in C
      BY <2>4 DEF Ordered
    <3>2. r[i] \in B /\ r[i] # x /\ x <= r[i] /\ x \in Nat /\ r[i] \in Nat
      BY <2>2, <3>1
    <3> QED BY <3>2
  <2>6. \A i \in 1 .. n + 1 : i # 1 => i - 1 \in 1 .. n
    OBVIOUS
  <2>7. s \in [1 .. n + 1 -> B]
    BY <2>5, <2>6
  <2>8. ASSUME NEW i \in 1 .. n + 1, NEW j \in 1 .. n + 1, i < j PROVE s[i] < s[j]
    <3>1. j # 1 /\ j - 1 \in 1 .. n /\ s[j] = r[j - 1]
      BY <2>6, <2>8
    <3>2. CASE i = 1
      BY <2>5, <3>1, <3>2
    <3>3. CASE i # 1
      <4>1. i - 1 \in 1 .. n /\ i - 1 < j - 1 /\ s[i] = r[i - 1]
        BY <2>6, <2>8, <3>3
      <4> QED BY <2>4, <3>1, <4>1 DEF Ordered
    <3> QED BY <3>2, <3>3
  <2>9. Ordered(s, B, n + 1)
    <3> HIDE DEF s
    <3> QED BY <2>7, <2>8 DEF Ordered
  <2> QED BY <2>9
<1> HIDE DEF S
<1>3. \A n \in Nat : n \in S
  BY <1>1, <1>2, SetInduction
<1>4. Cardinality(A) \in S
  BY <1>3, FS_CardinalityType
<1> QED BY <1>4 DEF S

\* What is known of a tree that is written.
IsWritten(o) == IsTree(o, Keys) /\ DOMAIN o.elements \subseteq Nat

\* Each name has one place in the order.
LEMMA NamesOrdered ==
  ASSUME NEW o, IsWritten(o)
  PROVE  /\ Elements(o) \in Nat
         /\ \A j \in 1 .. Elements(o) : NameAt(o, j) \in DOMAIN o.elements
         /\ \A i, j \in 1 .. Elements(o) : NameAt(o, i) = NameAt(o, j) => i = j
         /\ Names(o, Elements(o)) = DOMAIN o.elements
<1> DEFINE A == DOMAIN o.elements
           n == Cardinality(A)
           s == InOrder(A)
<1>1. A \subseteq Nat /\ IsFiniteSet(A)
  BY DEF IsWritten, IsTree
<1> HIDE DEF A
<1>2. n \in Nat
  BY <1>1, FS_CardinalityType
<1>3. PICK r : Ordered(r, A, n)
  BY <1>1, Ordering
<1>4. s \in [1 .. n -> A] /\ \A i, j \in 1 .. n : i < j => s[i] < s[j]
  <2>1. r \in [1 .. n -> A] /\ \A i, j \in DOMAIN r : i < j => r[i] < r[j]
    BY <1>3 DEF Ordered
  <2>2. s \in [1 .. n -> A] /\ \A i, j \in DOMAIN s : i < j => s[i] < s[j]
    BY <2>1 DEF InOrder
  <2> QED BY <2>2
<1> HIDE DEF s, n
<1>5. ASSUME NEW i \in 1 .. n, NEW j \in 1 .. n, s[i] = s[j] PROVE i = j
  <2>1. s[i] \in Nat
    BY <1>1, <1>4
  <2>2. ~(s[i] < s[j]) /\ ~(s[j] < s[i])
    BY <1>5, <2>1
  <2>3. ~(i < j) /\ ~(j < i)
    BY <1>4, <2>2
  <2> QED BY <1>2, <2>3
<1>6. \A x \in A : \E i \in 1 .. n : s[i] = x
  <2>1. s \in Injection(1 .. n, A)
    BY <1>4, <1>5 DEF Injection, IsInjective
  <2>2. Cardinality(1 .. n) = n
    BY <1>2, FS_Interval
  <2>3. s \in Surjection(1 .. n, A)
    BY <1>1, <2>1, <2>2, FS_Injection DEF n
  <2> QED BY <2>3 DEF Surjection
<1>7. {s[i] : i \in 1 .. n} = A
  BY <1>4, <1>6
<1>8. Elements(o) = n /\ \A j : NameAt(o, j) = s[j]
  BY DEF Elements, NameAt, n, s, A
<1>9. Names(o, Elements(o)) = A
  BY <1>7, <1>8 DEF Names
<1> QED BY <1>2, <1>4, <1>5, <1>8, <1>9 DEF A

\* The text of an element, behind the first a tokens of a text.
ElementTokens(t, a, name, e) ==
  LET d == ModeLength(e)
  IN /\ \A i \in 1 .. d : t[a + i] = Token("digit", ModeDigits(e.mode)[i])
     /\ t[a + d + 1] = Space
     /\ t[a + d + 2] = Token("text", name)
     /\ t[a + d + 3] = Token("bytes", e.key)

\* The tokens of trees.
TreeToken == [kind : {"digit", "space", "text", "bytes"},
              value : 0 .. 7 \cup {NoName} \cup Nat \cup Keys]

\* The text of an element has each token where ElementTokens says, wherever it
\* stands in a tree's.
LEMMA ElementWritten ==
  ASSUME NEW name \in Nat, NEW e \in [mode : Modes, key : Keys]
  PROVE  /\ ElementText(name, e) \in Seq(TreeToken)
         /\ ModeLength(e) \in 5 .. 6
         /\ Len(ElementText(name, e)) = ModeLength(e) + 3
         /\ \A t, a : a \in Nat /\ Placed(t, a, ElementText(name, e))
                       => ElementTokens(t, a, name, e)
<1> DEFINE d  == ModeLength(e)
           ms == ModeDigits(e.mode)
           ds == [i \in DOMAIN ms |-> Token("digit", ms[i])]
           r  == <<Space, Token("text", name), Token("bytes", e.key)>>
           x  == ElementText(name, e)
<1>1. e.mode \in Nat /\ e.key \in Keys
  BY BoundAssumption DEF Modes
<1>2. ms \in Seq(0 .. 7) /\ d \in 5 .. 6 /\ Len(ms) = d
  BY <1>1, ModeWritten DEF ModeLength
<1>3. /\ ds \in Seq(TreeToken) /\ Len(ds) = d
      /\ \A i \in 1 .. d : ds[i] = Token("digit", ms[i])
  <2>1. DOMAIN ms = 1 .. d /\ \A i \in 1 .. d : ms[i] \in 0 .. 7
    BY <1>2
  <2>2. \A v \in 0 .. 7 : Token("digit", v) \in TreeToken
    BY DEF Token, TreeToken
  <2>3. ds \in [1 .. d -> TreeToken]
    BY <2>1, <2>2
  <2>4. \A i \in 1 .. d : ds[i] = Token("digit", ms[i])
    BY <2>1
  <2> HIDE DEF ds
  <2> QED BY <1>2, <2>3, <2>4, MadeSeq
<1>4. /\ r \in Seq(TreeToken) /\ Len(r) = 3
      /\ r[1] = Space /\ r[2] = Token("text", name) /\ r[3] = Token("bytes", e.key)
  BY <1>1 DEF Space, Token, TreeToken
<1>5. x = ds \o r
  BY DEF ElementText
<1> HIDE DEF x, ds, r, d
<1>6. /\ x \in Seq(TreeToken) /\ Len(x) = d + 3
      /\ Starts(x, ds) /\ Placed(x, d, r)
  <2>1. Starts(x, x)
    BY DEF Starts
  <2>2. /\ x \in Seq(TreeToken) /\ Len(x) = Len(ds) + Len(r)
        /\ \A t : Starts(t, x) => Starts(t, ds) /\ Placed(t, Len(ds), r)
    BY <1>3, <1>4, <1>5, Joining
  <2> QED BY <1>3, <1>4, <2>1, <2>2
<1>7. ASSUME NEW t, NEW a \in Nat, Placed(t, a, x) PROVE ElementTokens(t, a, name, e)
  <2>1. ASSUME NEW i \in 1 .. d PROVE t[a + i] = Token("digit", ms[i])
    <3>1. i \in 1 .. d + 3
      BY <1>2
    <3>2. t[a + i] = x[i]
      BY <1>6, <1>7, <3>1 DEF Placed
    <3>3. x[i] = ds[i]
      BY <1>3, <1>6 DEF Starts
    <3> QED BY <1>3, <3>2, <3>3
  <2>2. x[d + 1] = r[1] /\ x[d + 2] = r[2] /\ x[d + 3] = r[3]
    BY <1>4, <1>6 DEF Placed
  <2>3. d + 1 \in 1 .. d + 3 /\ d + 2 \in 1 .. d + 3 /\ d + 3 \in 1 .. d + 3
    BY <1>2
  <2>4. t[a + (d + 1)] = r[1] /\ t[a + (d + 2)] = r[2] /\ t[a + (d + 3)] = r[3]
    BY <1>6, <1>7, <2>2, <2>3 DEF Placed
  <2>5. /\ a + (d + 1) = a + d + 1 /\ a + (d + 2) = a + d + 2
        /\ a + (d + 3) = a + d + 3
    BY <1>2
  <2> QED BY <1>4, <2>1, <2>4, <2>5 DEF ElementTokens, d
<1> QED BY <1>2, <1>6, <1>7 DEF x, d

\* The text s of the first elements, and element j.
Added(s, o, j) == s \o ElementText(NameAt(o, j), ElementAt(o, j))

\* The text of a tree is made element by element.
LEMMA TreeMade ==
  ASSUME NEW o, IsWritten(o)
  PROVE  /\ \A j \in 0 .. Elements(o) : UpTo(o)[j] \in Seq(TreeToken)
         /\ UpTo(o)[0] = <<>>
         /\ \A j \in 1 .. Elements(o) :
              UpTo(o)[j] = Added(UpTo(o)[j - 1], o, j)
<1> DEFINE n == Elements(o)
           A == Seq(TreeToken)
           G == [p \in (1 .. n) \X A |-> Added(p[2], o, p[1])]
<1>1. n \in Nat
  BY NamesOrdered
<1>2. \A j \in 1 .. n : \A x \in A : Added(x, o, j) \in A
  <2> SUFFICES ASSUME NEW j \in 1 .. n, NEW x \in A PROVE Added(x, o, j) \in A
    OBVIOUS
  <2>1. NameAt(o, j) \in DOMAIN o.elements
    BY NamesOrdered
  <2>2. NameAt(o, j) \in Nat /\ ElementAt(o, j) \in [mode : Modes, key : Keys]
    BY <2>1 DEF IsWritten, IsTree, ElementAt
  <2>3. ElementText(NameAt(o, j), ElementAt(o, j)) \in A
    BY <2>2, ElementWritten
  <2> QED BY <2>3, Joining DEF Added
<1>3. \A j \in 1 .. n : \A x \in A : G[<<j, x>>] = Added(x, o, j)
  OBVIOUS
<1>4. <<>> \in A
  BY EmptySeq
<1> HIDE DEF A, G
<1>5. Closed(G, A, n)
  BY <1>2, <1>3 DEF Closed
<1>6. PICK f : Iterated(f, G, A, <<>>, n)
  BY <1>1, <1>4, <1>5, Iterates
<1> DEFINE Made(p) == p = [j \in 0 .. n |-> IF j = 0 THEN <<>> ELSE Added(p[j - 1], o, j)]
<1>7. Made(f)
  <2>1. f = [j \in 0 .. n |-> f[j]] /\ f[0] = <<>>
    BY <1>6 DEF Iterated
  <2>2. ASSUME NEW j \in 1 .. n PROVE f[j] = Added(f[j - 1], o, j)
    <3>1. f[j - 1] \in A
      BY <1>1, <1>6 DEF Iterated
    <3>2. f[j] = G[<<j, f[j - 1]>>]
      BY <1>6 DEF Iterated
    <3> QED BY <1>3, <3>1, <3>2
  <2>3. ASSUME NEW j \in 0 .. n
        PROVE  f[j] = IF j = 0 THEN <<>> ELSE Added(f[j - 1], o, j)
    <3>1. j = 0 \/ j \in 1 .. n
      BY <1>1
    <3>2. CASE j = 0
      BY <2>1, <3>2
    <3>3. CASE j # 0
      BY <2>2, <3>1, <3>3
    <3> QED BY <3>2, <3>3
  <2> QED BY <2>1, <2>3
<1>8. UpTo(o) = CHOOSE p : Made(p)
  BY DEF UpTo, Added, NameAt, ElementAt, Elements
<1> DEFINE u == UpTo(o)
<1>9. Made(u)
  <2> HIDE DEF Made
  <2> QED BY <1>7, <1>8
<1> HIDE DEF u
<1>10. u[0] = <<>> /\ \A j \in 1 .. n : u[j] = Added(u[j - 1], o, j)
  BY <1>1, <1>9
<1> HIDE DEF Made
<1> DEFINE S == {k \in Nat : u[k] \in A}
<1>11. 0 \in S
  BY <1>4, <1>10
<1>12. ASSUME NEW k \in 0 .. n - 1, k \in S PROVE k + 1 \in S
  <2>1. k + 1 \in 1 .. n /\ k + 1 - 1 = k /\ k + 1 \in Nat
    BY <1>1
  <2>2. u[k + 1] = Added(u[k], o, k + 1) /\ u[k] \in A
    BY <1>10, <1>12, <2>1
  <2>3. Added(u[k], o, k + 1) \in A
    BY <1>2, <2>1, <2>2
  <2> QED BY <2>1, <2>2, <2>3
<1> HIDE DEF S
<1>13. \A k \in 0 .. n : k \in S
  BY <1>1, <1>11, <1>12, BoundedInduction
<1> QED BY <1>10, <1>13 DEF S, u, A

\* Where the text of each element is.
LEMMA TreeWritten ==
  ASSUME NEW o, IsWritten(o), NEW n, n = Elements(o)
  PROVE  /\ n \in Nat /\ End(o, 0) = 0 /\ End(o, n) = Len(TreeText(o))
         /\ \A j \in 0 .. n : End(o, j) \in 0 .. Len(TreeText(o))
         /\ \A j \in 1 .. n :
              LET e == ElementAt(o, j)
              IN /\ e = o.elements[NameAt(o, j)] /\ NameAt(o, j) \in Nat
                 /\ e \in [mode : Modes, key : Keys] /\ ModeLength(e) \in 5 .. 6
                 /\ End(o, j) = End(o, j - 1) + ModeLength(e) + 3
                 /\ ElementTokens(TreeText(o), End(o, j - 1), NameAt(o, j), e)
<1> DEFINE u == UpTo(o)
           E(j) == ElementText(NameAt(o, j), ElementAt(o, j))
           t == u[n]
           S == {k \in Nat : Starts(t, u[n - k]) /\ Len(u[n - k]) <= Len(t)}
<1>1. n \in Nat /\ TreeText(o) = t
  BY NamesOrdered DEF TreeText, Elements
<1>2. ASSUME NEW j \in 1 .. n
      PROVE  /\ NameAt(o, j) \in Nat /\ ElementAt(o, j) \in [mode : Modes, key : Keys]
             /\ ElementAt(o, j) = o.elements[NameAt(o, j)]
  <2>1. NameAt(o, j) \in DOMAIN o.elements
    BY NamesOrdered
  <2> QED BY <2>1 DEF IsWritten, IsTree, ElementAt
<1>3. ASSUME NEW j \in 1 .. n
      PROVE  /\ E(j) \in Seq(TreeToken) /\ Len(E(j)) = ModeLength(ElementAt(o, j)) + 3
             /\ ModeLength(ElementAt(o, j)) \in 5 .. 6
             /\ \A q, a : a \in Nat /\ Placed(q, a, E(j))
                  => ElementTokens(q, a, NameAt(o, j), ElementAt(o, j))
  BY <1>2, ElementWritten
<1>4. /\ \A j \in 0 .. n : u[j] \in Seq(TreeToken)
      /\ u[0] = <<>> /\ \A j \in 1 .. n : u[j] = Added(u[j - 1], o, j)
  BY TreeMade
<1>5. \A j \in 0 .. n : Len(u[j]) \in Nat
  BY <1>4, LenProperties
<1> HIDE DEF u, t, E
<1>6. ASSUME NEW j \in 1 .. n
      PROVE  /\ Len(u[j]) = Len(u[j - 1]) + Len(E(j))
             /\ \A q : Starts(q, u[j]) => Starts(q, u[j - 1]) /\ Placed(q, Len(u[j - 1]), E(j))
  <2>1. j - 1 \in 0 .. n
    BY <1>1
  <2>2. u[j - 1] \in Seq(TreeToken) /\ E(j) \in Seq(TreeToken) /\ u[j] = u[j - 1] \o E(j)
    BY <1>3, <1>4, <2>1 DEF Added, E
  <2> QED BY <2>2, Joining
<1>7. 0 \in S
  <2>1. n - 0 = n /\ n \in 0 .. n
    BY <1>1
  <2>2. Starts(t, t)
    BY DEF Starts
  <2> QED BY <1>5, <2>1, <2>2 DEF t
<1>8. ASSUME NEW k \in 0 .. n - 1, k \in S PROVE k + 1 \in S
  <2> DEFINE j == n - k
  <2>1. j \in 1 .. n /\ j - 1 \in 0 .. n /\ n - (k + 1) = j - 1 /\ k + 1 \in Nat
    BY <1>1
  <2>2. Starts(t, u[j]) /\ Len(u[j]) <= Len(t)
    BY <1>8
  <2> HIDE DEF j
  <2>3. Starts(t, u[j - 1]) /\ Len(u[j]) = Len(u[j - 1]) + Len(E(j))
    BY <1>6, <2>1, <2>2
  <2>4. /\ Len(u[j - 1]) \in Nat /\ Len(E(j)) \in Nat /\ Len(t) \in Nat
    <3>1. Len(E(j)) \in Nat
      BY <1>3, <2>1
    <3> QED BY <1>1, <1>5, <2>1, <3>1 DEF t
  <2>5. Len(u[j - 1]) <= Len(t)
    BY <2>2, <2>3, <2>4
  <2> QED BY <2>1, <2>3, <2>5
<1> HIDE DEF S
<1>9. \A k \in 0 .. n : k \in S
  BY <1>1, <1>7, <1>8, BoundedInduction
<1>10. ASSUME NEW j \in 0 .. n PROVE Starts(t, u[j]) /\ Len(u[j]) <= Len(t)
  <2>1. n - j \in 0 .. n /\ n - (n - j) = j
    BY <1>1
  <2>2. n - j \in S
    BY <1>9, <2>1
  <2> QED BY <2>1, <2>2 DEF S
<1>11. \A j : End(o, j) = Len(u[j])
  BY DEF End, u
<1>12. Len(u[0]) = 0
  BY <1>4
<1>13. ASSUME NEW j \in 0 .. n PROVE End(o, j) \in 0 .. Len(t)
  <2>1. Len(u[j]) \in Nat /\ Len(t) \in Nat
    BY <1>1, <1>5 DEF t
  <2> QED BY <1>10, <1>11, <2>1
<1>14. ASSUME NEW j \in 1 .. n
       PROVE  LET e == ElementAt(o, j)
              IN /\ e = o.elements[NameAt(o, j)] /\ NameAt(o, j) \in Nat
                 /\ e \in [mode : Modes, key : Keys] /\ ModeLength(e) \in 5 .. 6
                 /\ End(o, j) = End(o, j - 1) + ModeLength(e) + 3
                 /\ ElementTokens(t, End(o, j - 1), NameAt(o, j), e)
  <2>1. j \in 0 .. n /\ j - 1 \in 0 .. n
    BY <1>1
  <2>2. Starts(t, u[j]) /\ Len(u[j - 1]) \in Nat
    BY <1>5, <1>10, <2>1
  <2>3. Placed(t, End(o, j - 1), E(j)) /\ End(o, j - 1) \in Nat
    BY <1>6, <1>11, <2>2
  <2>4. ElementTokens(t, End(o, j - 1), NameAt(o, j), ElementAt(o, j))
    BY <1>3, <2>3
  <2>5. End(o, j) = End(o, j - 1) + ModeLength(ElementAt(o, j)) + 3
    <3>1. Len(u[j]) = Len(u[j - 1]) + Len(E(j))
      BY <1>6
    <3>2. Len(E(j)) = ModeLength(ElementAt(o, j)) + 3 /\ ModeLength(ElementAt(o, j)) \in Nat
      BY <1>3
    <3> QED BY <1>11, <2>2, <3>1, <3>2
  <2> QED BY <1>2, <1>3, <2>4, <2>5
<1> QED BY <1>1, <1>11, <1>12, <1>13, <1>14 DEF t
-----------------------------------------------------------------------------
(* The invariant: where the parser is in the text, and what it has read.   *)

\* What there is of the text is a part of the object's, from its start.
TextOK ==
  /\ Len(text) \in 0 .. Len(Text(obj))
  /\ \A i \in 1 .. Len(text) : text[i] = Text(obj)[i]
  /\ whole => Len(text) = Len(Text(obj))

\* The parser is at token p, unless the stream has failed.
At(p) == ~bad => pos = p

\* What is parsed into is new.
New == used = None

\* Nothing may go wrong: the whole text of an object it can express, parsed
\* into what RoundTrip allows.
Smooth == whole /\ Representable(obj) /\ (New \/ obj.kind = "tag")

CommitPhases == {"commit", "tree key", "parent or author", "parent key",
  "author", "committer word", "committer", "separator", "encoding", "message"}
TagPhases == {"tag", "object key", "type word", "type", "tag word", "name",
  "tagger word", "tagger", "tag message"}
TreePhases == {"tree", "mode"}
PhasesOf(kind) == CASE kind = "commit" -> CommitPhases
                    [] kind = "tag"    -> TagPhases
                    [] kind = "tree"   -> TreePhases
                    [] kind = "blob"   -> {"blob"}

\* What a commit has before its tree is read, and with k parents.
Bare == dest.encoding = DefaultEncoding /\ dest.message = <<>>
Blank == New => Bare /\ dest.parents = <<>>
Begun(k) ==
  New => /\ Bare /\ dest.tree = obj.tree
         /\ dest.parents \in [1 .. k -> Keys \cup {None}]
         /\ \A i \in 1 .. k : dest.parents[i] = obj.parents[i]

\* What is read of it later: tree and parents, the author, the committer.
Rooted     == dest.tree = obj.tree /\ dest.parents = obj.parents
Authored   == Rooted /\ dest.author = obj.author
Committed  == Authored /\ dest.committer = obj.committer

\* The phases of the parser of commits, with the place of each.
CommitInv ==
  LET n == 2 * Len(obj.parents) IN
  CASE phase = "write"    -> Blank
    [] phase = "commit"   -> Blank /\ At(1)
    [] phase = "tree key" -> Blank /\ At(2) /\ tmp = "tree"
    [] phase = "parent or author" ->
         /\ tmp \in {"tree", "parent"}
         /\ ~bad => \E k \in 0 .. Len(obj.parents) : pos = 2 * k + 3 /\ Begun(k)
    [] phase = "parent key" ->
         /\ tmp = "parent"
         /\ ~bad => \E k \in 0 .. Len(obj.parents) - 1 : pos = 2 * k + 4 /\ Begun(k)
    [] phase = "author" ->
         ~bad /\ pos = n + 4 /\ tmp = "author" /\ (New => Bare /\ Rooted)
    [] phase = "committer word" ->
         At(n + 10) /\ tmp = "author" /\ (New => Bare /\ Rooted /\ (~bad => Authored))
    [] phase = "committer" -> ~bad /\ pos = n + 11 /\ (New => Bare /\ Authored)
    [] phase = "separator" -> At(n + 17) /\ (New => Bare /\ Authored /\ (~bad => Committed))
    [] phase = "encoding"  ->
         /\ ~bad /\ pos = n + 19 /\ obj.encoding # DefaultEncoding
         /\ New => Bare /\ Committed
    [] phase = "message" ->
         /\ bad => pos = Len(text) + 1
         /\ ~bad => pos = IF obj.encoding = DefaultEncoding THEN n + 19 ELSE n + 22
         /\ New => /\ dest.message = <<>> /\ Committed
                   /\ ~bad => dest.encoding = obj.encoding
    [] phase = "done"  -> New => Committed
    [] phase = "error" -> TRUE

\* What is read of a tag, whether it is new or not.
Aimed   == dest.object = obj.object
Typed   == Aimed /\ dest.target = obj.target
Named   == Typed /\ dest.name = obj.name
Tagged  == Named /\ dest.tagger = obj.tagger

TagInv ==
  CASE phase = "write"       -> TRUE
    [] phase = "tag"         -> At(1)
    [] phase = "object key"  -> At(2) /\ tmp = "object"
    [] phase = "type word"   -> At(3) /\ tmp = "object" /\ (~bad => Aimed)
    [] phase = "type"        -> ~bad /\ pos = 4 /\ tmp = "type" /\ Aimed
    [] phase = "tag word"    -> At(5) /\ tmp = "type" /\ Aimed /\ (~bad => Typed)
    [] phase = "name"        -> ~bad /\ pos = 6 /\ tmp = "tag" /\ Typed
    [] phase = "tagger word" -> At(7) /\ tmp = "tag" /\ Typed /\ (~bad => Named)
    [] phase = "tagger"      -> ~bad /\ pos = 8 /\ Named
    [] phase = "tag message" ->
         At(14) /\ Named /\ dest.tagger.name = obj.tagger.name /\ (~bad => Tagged)
    [] phase = "done"        ->
         Named /\ dest.tagger.name = obj.tagger.name /\ (~bad => Tagged)
    [] phase = "error"       -> TRUE

\* The first j elements are read, and besides what is in lost: their keys, and
\* the modes of a tree that can be expressed.
ElementsRead(j, lost) ==
  New => /\ DOMAIN dest.elements = Names(obj, j) \cup lost
         /\ \A i \in 1 .. j :
              LET got == dest.elements[NameAt(obj, i)]
                  e   == ElementAt(obj, i)
              IN got.key = e.key /\ (Representable(obj) => got.mode = e.mode)

\* An element that broke off.
Lost(j, lost) ==
  \A x \in lost : /\ lost = {x} /\ x \notin Names(obj, j)
                  /\ New => dest.elements[x].key = None

\* The parser is at digit i of the mode of element j, or behind the last one.
InMode(j, i) ==
  LET e == ElementAt(obj, j) IN
  /\ pos = End(obj, j - 1) + i + 1 /\ elem.c = text[pos - 1]
  /\ Representable(obj) => elem.mode = Shifted(e.mode, ModeLength(e) - i + 1)

TreeInv ==
  CASE phase = "write" -> New => dest.elements = <<>>
    [] phase = "tree"  ->
         \/ /\ ~bad
            /\ \E j \in 0 .. Elements(obj) : pos = End(obj, j) + 1 /\ ElementsRead(j, {})
         \/ /\ bad /\ ~whole
            /\ \E j \in 0 .. Elements(obj) :
                 \E lost \in SUBSET DOMAIN dest.elements :
                   ElementsRead(j, lost) /\ Lost(j, lost)
    [] phase = "mode"  ->
         \/ /\ ~bad
            /\ \E j \in 1 .. Elements(obj) :
                 /\ ElementsRead(j - 1, {})
                 /\ \E i \in 1 .. ModeLength(ElementAt(obj, j)) + 1 : InMode(j, i)
         \/ bad /\ ~whole /\ elem.c.kind = "digit" /\ elem.c.value \in 0 .. 7
    [] phase = "done"  ->
         \E j \in 0 .. Elements(obj) :
           \E lost \in SUBSET DOMAIN dest.elements :
             /\ ElementsRead(j, lost) /\ Lost(j, lost)
             /\ whole => j = Elements(obj) /\ lost = {}
    [] phase = "error" -> TRUE

BlobInv ==
  CASE phase = "write" -> New => dest.data = <<>>
    [] phase = "blob"  -> pos = 1 /\ ~bad /\ (New => dest.data = <<>>)
    [] phase = "done"  -> New => /\ IsPrefix(dest.data, obj.data)
                                 /\ whole => dest.data = obj.data
    [] phase = "error" -> TRUE

KindInv == CASE obj.kind = "commit" -> CommitInv
             [] obj.kind = "tag"    -> TagInv
             [] obj.kind = "tree"   -> TreeInv
             [] obj.kind = "blob"   -> BlobInv

\* An object that can be read back is, without an exception.
SmoothInv ==
  Smooth => /\ phase # "error"
            /\ phase \in PhasesOf(obj.kind) => ~bad
            /\ phase = "done" => dest = obj

\* What all kinds have in common.
Common ==
  /\ obj \in Subjects
  /\ used \in {o \in Subjects : o.kind = obj.kind} \cup {None}
  /\ TextOK /\ whole \in BOOLEAN
  /\ pos \in 1 .. Len(text) + 1 /\ bad \in BOOLEAN
  /\ elem.mode \in Modes
  /\ phase \in {"write", "done", "error"} \cup PhasesOf(obj.kind)
  /\ phase = "write" => pos = 1 /\ ~bad /\ ~whole

\* What is parsed into is an object of the kind.
DestOK ==
  /\ dest.kind = obj.kind /\ IsObject(dest, Keys \cup {None})
  /\ dest.kind = "commit" => Len(dest.parents) <= MaxParents

CodecInv == Common /\ DestOK /\ KindInv /\ SmoothInv

-----------------------------------------------------------------------------
(* What the steps that read have in common.                                *)

\* The kind of the object is told by the phase of its parser.
LEMMA PhaseKind ==
  ASSUME Common
  PROVE  /\ obj.kind \in {"commit", "tag", "tree", "blob"}
         /\ phase \in CommitPhases => obj.kind = "commit"
         /\ phase \in TagPhases    => obj.kind = "tag"
         /\ phase \in TreePhases   => obj.kind = "tree"
         /\ phase = "blob"         => obj.kind = "blob"
<1>1. obj.kind \in {"commit", "tag", "tree", "blob"}
  BY SubjectAssumption DEF Common
<1>2. phase \in {"write", "done", "error"} \cup PhasesOf(obj.kind)
  BY DEF Common
<1>3. /\ obj.kind = "commit" => PhasesOf(obj.kind) = CommitPhases
      /\ obj.kind = "tag"    => PhasesOf(obj.kind) = TagPhases
      /\ obj.kind = "tree"   => PhasesOf(obj.kind) = TreePhases
      /\ obj.kind = "blob"   => PhasesOf(obj.kind) = {"blob"}
  BY <1>1 DEF PhasesOf
<1> QED BY <1>1, <1>2, <1>3 DEF CommitPhases, TagPhases, TreePhases

\* The phases that each kind goes on to.
LEMMA KindPhases ==
  ASSUME Common
  PROVE  /\ obj.kind = "commit" => PhasesOf(obj.kind) = CommitPhases
         /\ obj.kind = "tag"    => PhasesOf(obj.kind) = TagPhases
         /\ obj.kind = "tree"   => PhasesOf(obj.kind) = TreePhases
         /\ obj.kind = "blob"   => PhasesOf(obj.kind) = {"blob"}
         /\ "write" \notin PhasesOf(obj.kind)
         /\ "done" \notin PhasesOf(obj.kind)
         /\ "error" \notin PhasesOf(obj.kind)
<1>1. obj.kind \in {"commit", "tag", "tree", "blob"}
  BY SubjectAssumption DEF Common
<1>2. /\ obj.kind = "commit" => PhasesOf(obj.kind) = CommitPhases
      /\ obj.kind = "tag"    => PhasesOf(obj.kind) = TagPhases
      /\ obj.kind = "tree"   => PhasesOf(obj.kind) = TreePhases
      /\ obj.kind = "blob"   => PhasesOf(obj.kind) = {"blob"}
  BY <1>1 DEF PhasesOf
<1> QED BY <1>1, <1>2 DEF CommitPhases, TagPhases, TreePhases

\* The object and its text are what they were.
Kept == obj' = obj /\ used' = used /\ text' = text /\ whole' = whole

\* A step of a parser leaves what is common to all kinds alone.
LEMMA CommonStep ==
  ASSUME Common, Kept, pos' \in 1 .. Len(text) + 1, bad' \in BOOLEAN,
         elem'.mode \in Modes, phase' \in {"done", "error"} \cup PhasesOf(obj.kind)
  PROVE  Common'
<1>1. phase' # "write"
  BY KindPhases
<1>2. TextOK' /\ obj' \in Subjects /\ whole' \in BOOLEAN
      /\ used' \in {o \in Subjects : o.kind = obj'.kind} \cup {None}
  BY DEF Common, Kept, TextOK
<1>3. pos' \in 1 .. Len(text') + 1 /\ phase' \in {"write", "done", "error"} \cup PhasesOf(obj'.kind)
  BY DEF Kept
<1> QED BY <1>1, <1>2, <1>3 DEF Common

\* Nothing goes wrong in a step of a parser that does not end.
LEMMA SmoothStep ==
  ASSUME Kept, phase' # "done", Smooth => phase' # "error" /\ ~bad'
  PROVE  SmoothInv'
BY DEF Kept, Smooth, New, SmoothInv

\* The n-th of the next tokens is one of the object's text, if it is there.
LEMMA Reading ==
  ASSUME Common, NEW n \in Nat \ {0}
  PROVE  /\ More(n) => /\ ~bad /\ Here(n) = Text(obj)[pos + n - 1].value
                       /\ pos + n - 1 <= Len(Text(obj))
                       /\ pos + n \in 1 .. Len(text) + 1
                       /\ pos \in Nat
         /\ whole /\ ~bad /\ pos + n - 1 <= Len(Text(obj)) => More(n)
<1>1. pos \in Nat /\ Len(text) \in Nat /\ Len(Text(obj)) \in Nat
      /\ Len(text) <= Len(Text(obj)) /\ pos >= 1
  <2>1. Len(text) \in 0 .. Len(Text(obj)) /\ pos \in 1 .. Len(text) + 1
    BY DEF Common, TextOK
  <2>2. Len(Text(obj)) \in Int
    OBVIOUS
  <2> QED BY <2>1, <2>2
<1>2. CASE More(n)
  <2>1. ~bad /\ pos + n - 1 <= Len(text)
    BY <1>2 DEF More
  <2>2. pos + n - 1 \in 1 .. Len(text)
    BY <1>1, <2>1
  <2>3. text[pos + n - 1] = Text(obj)[pos + n - 1]
    BY <2>2 DEF Common, TextOK
  <2> QED BY <1>1, <1>2, <2>1, <2>2, <2>3 DEF Here, More
<1>3. CASE ~More(n)
  BY <1>3 DEF More, Common, TextOK
<1> QED BY <1>2, <1>3

\* A word is read, or the stream fails.
LEMMA Expecting ==
  ASSUME Common, NEW at, NEW word, NEW next, Expect(at, word, next),
         next \in PhasesOf(obj.kind)
  PROVE  /\ Common' /\ Kept /\ dest' = dest
         /\ phase' = IF tmp' = word THEN next ELSE "error"
         /\ \/ ~bad /\ ~bad' /\ pos' = pos + 1 /\ tmp' = Text(obj)[pos].value
            \/ bad' /\ tmp' = tmp /\ (whole => bad \/ pos > Len(Text(obj)))
<1>1. Kept /\ dest' = dest /\ elem' = elem /\ ReadWord
      /\ phase' = IF tmp' = word THEN next ELSE "error"
  BY DEF Expect, input, Kept
<1>2. \/ More(1) /\ tmp' = Here(1) /\ pos' = pos + 1 /\ bad' = bad
      \/ ~More(1) /\ bad' = TRUE /\ tmp' = tmp /\ pos' = pos
  BY <1>1 DEF ReadWord, Skip
<1>3. /\ More(1) => /\ ~bad /\ Here(1) = Text(obj)[pos].value
                    /\ pos + 1 \in 1 .. Len(text) + 1
      /\ whole /\ ~bad /\ pos <= Len(Text(obj)) => More(1)
  <2>1. pos \in Nat
    BY DEF Common
  <2>2. pos + 1 - 1 = pos
    BY <2>1
  <2> QED BY <2>2, Reading
<1>4. pos' \in 1 .. Len(text) + 1 /\ bad' \in BOOLEAN
  BY <1>2, <1>3 DEF Common
<1>5. Common'
  <2>1. elem'.mode \in Modes
    BY <1>1 DEF Common
  <2> QED BY <1>1, <1>4, <2>1, CommonStep
<1>6. CASE More(1)
  BY <1>1, <1>2, <1>3, <1>5, <1>6
<1>7. CASE ~More(1)
  <2>1. whole => bad \/ pos > Len(Text(obj))
    <3>1. pos \in Nat /\ Len(Text(obj)) \in Int
      BY DEF Common
    <3> QED BY <1>3, <1>7, <3>1 DEF Common
  <2> QED BY <1>1, <1>2, <1>5, <1>7, <2>1
<1> QED BY <1>6, <1>7

\* The lengths of the texts, as numbers.
LEMMA TextBounds ==
  ASSUME Common, NEW a, a = Len(text), NEW b, b = Len(Text(obj))
  PROVE  /\ a \in Nat /\ b \in Nat /\ a <= b /\ (whole => a = b)
         /\ pos \in Nat /\ pos >= 1 /\ pos <= a + 1
         /\ bad \in BOOLEAN /\ whole \in BOOLEAN
<1>1. /\ a \in 0 .. b /\ (whole => a = b) /\ pos \in 1 .. a + 1
      /\ bad \in BOOLEAN /\ whole \in BOOLEAN
  BY DEF Common, TextOK
<1>2. b \in Int
  OBVIOUS
<1> QED BY <1>1, <1>2

\* A step that reads one token, or finds none.
LEMMA Taking ==
  ASSUME Common, Kept,
         IF More(1) THEN Skip(1) /\ UNCHANGED bad ELSE bad' = TRUE /\ UNCHANGED pos,
         elem'.mode \in Modes, phase' \in {"done", "error"} \cup PhasesOf(obj.kind)
  PROVE  /\ Common'
         /\ \/ /\ More(1) /\ ~bad /\ ~bad' /\ pos' = pos + 1
               /\ Here(1) = Text(obj)[pos].value /\ pos <= Len(Text(obj))
            \/ /\ ~More(1) /\ bad' /\ pos' = pos
               /\ whole => bad \/ pos > Len(Text(obj))
<1>1. \/ More(1) /\ pos' = pos + 1 /\ bad' = bad
      \/ ~More(1) /\ bad' = TRUE /\ pos' = pos
  BY DEF Skip
<1>2. /\ More(1) => /\ ~bad /\ Here(1) = Text(obj)[pos].value
                    /\ pos <= Len(Text(obj)) /\ pos + 1 \in 1 .. Len(text) + 1
      /\ whole /\ ~bad /\ pos <= Len(Text(obj)) => More(1)
  <2>1. pos \in Nat
    BY DEF Common
  <2>2. pos + 1 - 1 = pos
    BY <2>1
  <2> QED BY <2>2, Reading
<1>3. pos' \in 1 .. Len(text) + 1 /\ bad' \in BOOLEAN
  BY <1>1, <1>2 DEF Common
<1>4. Common'
  BY <1>3, CommonStep
<1>5. CASE More(1)
  BY <1>1, <1>2, <1>4, <1>5
<1>6. CASE ~More(1)
  <2>1. whole => bad \/ pos > Len(Text(obj))
    <3>1. pos \in Nat /\ Len(Text(obj)) \in Int
      BY DEF Common
    <3> QED BY <1>2, <1>6, <3>1
  <2> QED BY <1>1, <1>4, <1>6, <2>1
<1> QED BY <1>5, <1>6

\* A key is read, or it is indeterminate.
LEMMA Keyed ==
  ASSUME Common, NEW at, NEW field, NEW next, Key(at, field, next),
         next \in PhasesOf(obj.kind)
  PROVE  /\ Common' /\ Kept /\ tmp' = tmp /\ phase' = next
         /\ \/ /\ ~bad /\ ~bad' /\ pos' = pos + 1
               /\ dest' = [dest EXCEPT ![field] = FromHex(Text(obj)[pos].value)]
            \/ /\ bad' /\ dest' = [dest EXCEPT ![field] = None]
               /\ whole => bad \/ pos > Len(Text(obj))
<1>1. /\ Kept /\ tmp' = tmp /\ elem' = elem /\ phase' = next
      /\ dest' = [dest EXCEPT ![field] = IF More(1) THEN FromHex(Here(1)) ELSE None]
      /\ IF More(1) THEN Skip(1) /\ UNCHANGED bad ELSE bad' = TRUE /\ UNCHANGED pos
  BY DEF Key, ReadKey, input, Kept
<1>2. elem'.mode \in Modes
  BY <1>1 DEF Common
<1>3. /\ Common'
      /\ \/ /\ More(1) /\ ~bad /\ ~bad' /\ pos' = pos + 1
            /\ Here(1) = Text(obj)[pos].value /\ pos <= Len(Text(obj))
         \/ /\ ~More(1) /\ bad' /\ pos' = pos
            /\ whole => bad \/ pos > Len(Text(obj))
  BY <1>1, <1>2, Taking
<1>4. CASE More(1)
  BY <1>1, <1>3, <1>4
<1>5. CASE ~More(1)
  BY <1>1, <1>3, <1>5
<1> QED BY <1>4, <1>5

\* What can be read of the n-th next token of a stamp.
LEMMA StampRead ==
  ASSUME Common, ~bad, NEW p \in Nat, pos = p + 1, NEW a, StampAt(Text(obj), p, a),
         pos + 5 <= Len(Text(obj))
  PROVE  /\ More(1) => Here(1) = a.name /\ pos + 1 \in 1 .. Len(text) + 1
         /\ More(2) => Here(2) = a.email
         /\ More(3) => Here(3) = a.time
         /\ More(4) => Here(4) = a.time
         /\ More(5) => Here(5) = ZoneText(a.zone)
         /\ More(6) => Here(6) = ZoneText(a.zone) /\ pos + 6 \in 1 .. Len(text) + 1
         /\ whole => More(1) /\ More(6)
         /\ More(6) => More(2) /\ More(4)
<1> DEFINE t == Text(obj)
           l == Len(text)
           b == Len(t)
<1>1. l \in Nat /\ b \in Nat /\ pos \in Nat
  BY TextBounds
<1>2. /\ pos + 1 - 1 = p + 1 /\ pos + 2 - 1 = p + 2 /\ pos + 3 - 1 = p + 3
      /\ pos + 4 - 1 = p + 4 /\ pos + 5 - 1 = p + 5 /\ pos + 6 - 1 = p + 6
  OBVIOUS
<1>3. pos + 1 - 1 <= b /\ pos + 6 - 1 <= b
  <2> HIDE DEF b
  <2>1. pos + 5 <= b
    BY DEF b
  <2> QED BY <1>1, <2>1
<1>4. \A n \in Nat \ {0} : /\ More(n) => /\ Here(n) = t[pos + n - 1].value
                                         /\ pos + n \in 1 .. l + 1
                           /\ whole /\ ~bad /\ pos + n - 1 <= b => More(n)
  BY Reading
<1>5. More(6) => More(2) /\ More(4)
  <2> HIDE DEF l
  <2>1. \A n \in Nat : More(n) <=> pos + n - 1 <= l
    BY DEF More, l
  <2> QED BY <1>1, <2>1
<1> HIDE DEF t, l, b
<1>6. /\ t[p + 1].value = a.name /\ t[p + 2].value = a.email
      /\ t[p + 3].value = a.time /\ t[p + 4].value = a.time
      /\ t[p + 5].value = ZoneText(a.zone) /\ t[p + 6].value = ZoneText(a.zone)
  BY DEF StampAt, t
<1>7. 1 \in Nat \ {0} /\ 2 \in Nat \ {0} /\ 3 \in Nat \ {0} /\ 4 \in Nat \ {0}
      /\ 5 \in Nat \ {0} /\ 6 \in Nat \ {0}
  OBVIOUS
<1>8. /\ More(1) => Here(1) = a.name /\ pos + 1 \in 1 .. l + 1
      /\ whole => More(1)
  BY <1>2, <1>3, <1>4, <1>6, <1>7
<1>9. /\ More(6) => Here(6) = ZoneText(a.zone) /\ pos + 6 \in 1 .. l + 1
      /\ whole => More(6)
  BY <1>2, <1>3, <1>4, <1>6, <1>7
<1>10. /\ More(2) => Here(2) = a.email
       /\ More(3) => Here(3) = a.time
       /\ More(4) => Here(4) = a.time
       /\ More(5) => Here(5) = ZoneText(a.zone)
  BY <1>2, <1>4, <1>6, <1>7
<1> QED BY <1>5, <1>8, <1>9, <1>10 DEF l

\* A name is read with what there is behind it, or the parser throws; unless
\* the stream fails, the email, the time and the offset are those that were
\* written.
LEMMA Stamped ==
  ASSUME Common, ~bad, NEW at, NEW field, NEW next, StampOrThrow(at, field, next),
         next \in PhasesOf(obj.kind), NEW a \in Stamps, dest[field] \in Stamps,
         NEW p \in Nat, pos = p + 1, StampAt(Text(obj), p, a),
         pos + 5 <= Len(Text(obj))
  PROVE  /\ Common' /\ Kept /\ tmp' = tmp
         /\ \/ phase' = "error" /\ dest' = dest /\ ~whole
            \/ /\ phase' = next /\ (~bad' => pos' = pos + 6)
               /\ \E s \in Stamps :
                    /\ dest' = [dest EXCEPT ![field] = s]
                    /\ s.name = a.name
                    /\ ~bad' => s = a
               /\ whole /\ a.zone > -ShortMax - 1 => ~bad'
<1>1. Kept /\ tmp' = tmp /\ elem' = elem
  BY DEF StampOrThrow, input, Kept
<1>2. elem'.mode \in Modes
  BY <1>1 DEF Common
<1>3. pos \in 1 .. Len(text) + 1 /\ whole \in BOOLEAN /\ bad \in BOOLEAN
      /\ Len(text) \in Nat
  BY TextBounds DEF Common
<1>4. /\ More(1) => Here(1) = a.name
      /\ More(2) => Here(2) = a.email
      /\ More(3) => Here(3) = a.time
      /\ More(4) => Here(4) = a.time
      /\ More(5) => Here(5) = ZoneText(a.zone)
      /\ More(6) => Here(6) = ZoneText(a.zone) /\ pos + 6 \in 1 .. Len(text) + 1
      /\ whole => More(1) /\ More(6)
      /\ More(6) => More(2) /\ More(4)
  BY StampRead
<1>5. CASE ~More(1)
  <2>1. phase' = "error" /\ dest' = dest /\ pos' = pos /\ bad' = bad
    BY <1>5 DEF StampOrThrow
  <2>2. Common'
    BY <1>1, <1>2, <1>3, <2>1, CommonStep
  <2> QED BY <1>1, <1>4, <1>5, <2>1, <2>2
<1>6. CASE More(1)
  <2> DEFINE old == dest[field]
  <2>1. phase' = next /\ ReadStamp(field)
    BY <1>6 DEF StampOrThrow
  <2>2. /\ a.name \in Strings /\ a.email \in Strings /\ a.time \in Nat /\ a.zone \in Zones
        /\ old.time \in Nat /\ old.zone \in Zones
    BY DEF Stamps
  <2> HIDE DEF old
  <2>3. Email \in Strings /\ (More(2) => Email = a.email)
    BY <1>4, <2>2, NameAssumption DEF Email
  <2>4. Times(old.time) \subseteq Nat /\ (More(4) => Times(old.time) = {a.time})
    BY <1>4, <2>2, DigitsLeft DEF Times
  <2>5. ZoneValue(ZoneText(a.zone)) \in Zones
    BY <2>2, ZoneInverse
  <2>6. /\ Offsets(old.zone) \subseteq Zones
        /\ More(6) => Offsets(old.zone) = {ZoneValue(ZoneText(a.zone))}
    <3>1. \A t \in ZoneStarts(ZoneText(a.zone)) : ZoneValue(t) \in Zones
      BY <2>2, ZoneLeft
    <3>2. Negated(old.zone) \in Zones
      BY <2>2, ZoneSign
    <3> QED BY <1>4, <2>2, <2>5, <3>1, <3>2 DEF Offsets
  <2>7. PICK time \in Times(old.time), zone \in Offsets(old.zone) :
          /\ dest' = [dest EXCEPT ![field] =
                        [name |-> Here(1), email |-> Email, time |-> time, zone |-> zone]]
          /\ IF More(6) THEN Skip(6) /\ bad' = (Here(6).digits > ShortMax)
                        ELSE pos' = Len(text) + 1 /\ bad' = TRUE
    BY <2>1 DEF ReadStamp, old
  <2> DEFINE s == [name |-> a.name, email |-> Email, time |-> time, zone |-> zone]
  <2>8. time \in Nat /\ zone \in Zones
    BY <2>4, <2>6, <2>7
  <2>9. s \in Stamps /\ s.name = a.name
    BY <2>2, <2>3, <2>8 DEF Stamps
  <2>10. dest' = [dest EXCEPT ![field] = s]
    BY <1>4, <1>6, <2>7
  <2>11. CASE More(6)
    <3>1. pos' = pos + 6 /\ bad' = (ZoneText(a.zone).digits > ShortMax)
      BY <1>4, <2>7, <2>11 DEF Skip
    <3>2. ShortMax \in Int
      BY DEF ShortMax
    <3>3. /\ ZoneText(a.zone).digits \in Int
          /\ ZoneText(a.zone).digits <= ShortMax => ZoneValue(ZoneText(a.zone)) = a.zone
          /\ a.zone > -ShortMax - 1 => ZoneText(a.zone).digits <= ShortMax
      BY <2>2, ZoneInverse
    <3>4. ~bad' <=> ZoneText(a.zone).digits <= ShortMax
      <4>1. (ZoneText(a.zone).digits > ShortMax) <=> ~(ZoneText(a.zone).digits <= ShortMax)
        BY <3>2, <3>3
      <4> QED BY <3>1, <4>1
    <3>5. Common'
      BY <1>1, <1>2, <1>4, <2>1, <2>11, <3>1, CommonStep
    <3>6. ~bad' => s = a
      <4>1. zone = ZoneValue(ZoneText(a.zone)) /\ time = a.time /\ Email = a.email
        BY <1>4, <2>3, <2>4, <2>6, <2>7, <2>11
      <4>2. a = [name |-> a.name, email |-> a.email, time |-> a.time, zone |-> a.zone]
        BY DEF Stamps
      <4> QED BY <3>3, <3>4, <4>1, <4>2
    <3> HIDE DEF s
    <3> QED BY <1>1, <2>1, <2>9, <2>10, <3>1, <3>3, <3>4, <3>5, <3>6
  <2>12. CASE ~More(6)
    <3>1. pos' = Len(text) + 1 /\ bad' = TRUE
      BY <2>7, <2>12
    <3>2. Common'
      BY <1>1, <1>2, <1>3, <2>1, <3>1, CommonStep
    <3> HIDE DEF s
    <3> QED BY <1>1, <1>4, <2>1, <2>9, <2>10, <2>12, <3>1, <3>2
  <2> QED BY <2>11, <2>12
<1> QED BY <1>5, <1>6


-----------------------------------------------------------------------------
(* Commits: every step of the parser preserves the invariant.              *)

\* While a parser reads a text that can be read back, the stream is good.
LEMMA SmoothNow ==
  ASSUME CodecInv, phase \in PhasesOf(obj.kind), Smooth
  PROVE  whole /\ ~bad
BY DEF CodecInv, SmoothInv, Smooth

\* What is known of a commit that is parsed.
LEMMA CommitFacts ==
  ASSUME CodecInv, obj.kind = "commit"
  PROVE  /\ Common /\ DestOK /\ CommitInv /\ SmoothInv
         /\ IsCommit(obj, Keys) /\ CommitTokens(obj, Text(obj))
         /\ dest.kind = "commit" /\ IsCommit(dest, Keys \cup {None})
         /\ Len(dest.parents) <= MaxParents
         /\ Len(obj.parents) \in Nat /\ 2 * Len(obj.parents) < MaxParents
         /\ PhasesOf(obj.kind) = CommitPhases
<1>1. Common /\ DestOK /\ CommitInv /\ SmoothInv
  BY DEF CodecInv, KindInv
<1>2. obj \in Subjects /\ IsCommit(obj, Keys)
  BY SubjectAssumption DEF CodecInv, Common, IsObject
<1>3. Text(obj) = CommitText(obj)
  BY DEF Text
<1>4. CommitTokens(obj, Text(obj))
  BY <1>2, <1>3, CommitWritten
<1>5. /\ dest.kind = "commit" /\ IsCommit(dest, Keys \cup {None})
      /\ Len(dest.parents) <= MaxParents
  BY <1>1 DEF DestOK, IsObject
<1>6. Len(obj.parents) \in Nat /\ 2 * Len(obj.parents) < MaxParents
  BY <1>2, BoundAssumption DEF IsCommit
<1>7. PhasesOf(obj.kind) = CommitPhases
  BY DEF PhasesOf
<1> QED BY <1>1, <1>2, <1>4, <1>5, <1>6, <1>7

\* What is to be shown of a step of the parser.
LEMMA CommitStep ==
  ASSUME obj.kind = "commit", Kept, Common', CommitInv', SmoothInv',
         IsCommit(dest', Keys \cup {None}), Len(dest'.parents) <= MaxParents
  PROVE  CodecInv'
<1>1. dest'.kind = "commit" /\ obj'.kind = "commit"
  BY DEF IsCommit, Kept
<1>2. DestOK'
  BY <1>1 DEF DestOK, IsObject
<1> QED BY <1>1, <1>2 DEF CodecInv, KindInv

\* A step that leaves the destination alone.
LEMMA CommitStays ==
  ASSUME CodecInv, obj.kind = "commit", Kept, dest' = dest, Common', CommitInv', SmoothInv'
  PROVE  CodecInv'
BY CommitFacts, CommitStep

\* The word "tree".
LEMMA CommitTreeInv == ASSUME CodecInv, CommitTree PROVE CodecInv'
<1>1. phase = "commit" /\ Common
  BY DEF CommitTree, Expect, CodecInv
<1>2. obj.kind = "commit" /\ phase \in CommitPhases
  BY <1>1, PhaseKind DEF CommitPhases
<1>3. Blank /\ At(1)
  BY <1>1, <1>2, CommitFacts DEF CommitInv
<1>4. Text(obj)[1].value = "tree" /\ ~(1 > Len(Text(obj)))
  BY <1>2, CommitFacts DEF CommitTokens, IsCommit
<1>5. "tree key" \in PhasesOf(obj.kind)
  BY <1>2, CommitFacts DEF CommitPhases
<1>6. /\ Common' /\ Kept /\ dest' = dest
      /\ phase' = IF tmp' = "tree" THEN "tree key" ELSE "error"
      /\ \/ ~bad /\ ~bad' /\ pos' = pos + 1 /\ tmp' = Text(obj)[pos].value
         \/ bad' /\ tmp' = tmp /\ (whole => bad \/ pos > Len(Text(obj)))
  BY <1>1, <1>5, Expecting DEF CommitTree
<1>7. Blank'
  BY <1>3, <1>6 DEF Blank, Bare, New, Kept
<1>8. CommitInv' /\ (Smooth => phase' # "error" /\ ~bad')
  <2>1. CASE ~bad /\ ~bad' /\ pos' = pos + 1 /\ tmp' = Text(obj)[pos].value
    <3>1. pos = 1
      BY <1>3, <2>1 DEF At
    <3>2. pos' = 2 /\ tmp' = "tree"
      BY <1>4, <2>1, <3>1
    <3>3. phase' = "tree key"
      BY <1>6, <3>2
    <3> QED BY <1>7, <2>1, <3>2, <3>3 DEF CommitInv, At
  <2>2. CASE bad' /\ tmp' = tmp /\ (whole => bad \/ pos > Len(Text(obj)))
    <3>1. ~Smooth
      BY <1>2, <1>3, <1>4, <2>2, SmoothNow, CommitFacts DEF At
    <3>2. CommitInv'
      BY <1>6, <1>7, <2>2 DEF CommitInv, At
    <3> QED BY <3>1, <3>2
  <2> QED BY <1>6, <2>1, <2>2
<1>9. SmoothInv'
  BY <1>6, <1>8, SmoothStep
<1> QED BY <1>2, <1>6, <1>8, <1>9, CommitStays

\* The tree's key, which Begun(0) has from here on.
LEMMA CommitTreeKeyInv == ASSUME CodecInv, CommitTreeKey PROVE CodecInv'
<1>1. phase = "tree key" /\ Common
  BY DEF CommitTreeKey, Key, CodecInv
<1>2. obj.kind = "commit" /\ phase \in CommitPhases
  BY <1>1, PhaseKind DEF CommitPhases
<1>3. Blank /\ At(2) /\ tmp = "tree"
  BY <1>1, <1>2, CommitFacts DEF CommitInv
<1>4. Text(obj)[2].value = ToHex(obj.tree) /\ ~(2 > Len(Text(obj))) /\ obj.tree \in Seq(Byte)
  BY <1>2, CommitFacts DEF CommitTokens, IsCommit, Keys
<1>5. "parent or author" \in PhasesOf(obj.kind)
  BY <1>2, CommitFacts DEF CommitPhases
<1>6. /\ Common' /\ Kept /\ tmp' = tmp /\ phase' = "parent or author"
      /\ \/ /\ ~bad /\ ~bad' /\ pos' = pos + 1
            /\ dest' = [dest EXCEPT !["tree"] = FromHex(Text(obj)[pos].value)]
         \/ /\ bad' /\ dest' = [dest EXCEPT !["tree"] = None]
            /\ whole => bad \/ pos > Len(Text(obj))
  BY <1>1, <1>5, Keyed DEF CommitTreeKey
<1>7. CASE ~bad /\ ~bad' /\ pos' = pos + 1 /\ dest' = [dest EXCEPT !["tree"] = FromHex(Text(obj)[pos].value)]
  <2>1. pos' = 3 /\ dest' = [dest EXCEPT !["tree"] = obj.tree]
    <3>1. pos = 2
      BY <1>3, <1>7 DEF At
    <3>2. FromHex(Text(obj)[pos].value) = obj.tree
      BY <1>4, <3>1, HexInverse
    <3> QED BY <1>7, <3>1, <3>2
  <2>2. /\ IsCommit(dest', Keys \cup {None}) /\ Len(dest'.parents) <= MaxParents
        /\ dest'.tree = obj.tree /\ dest'.parents = dest.parents
        /\ dest'.encoding = dest.encoding /\ dest'.message = dest.message
    BY <1>2, <1>4, <2>1, CommitFacts DEF IsCommit, Keys
  <2>3. Begun(0)'
    <3>1. <<>> \in [1 .. 0 -> Keys \cup {None}] /\ ~(\E i \in 1 .. 0 : TRUE)
      OBVIOUS
    <3>2. Blank' /\ New' = New /\ (New => dest'.parents = <<>> /\ dest'.tree = obj'.tree)
      BY <1>3, <1>6, <2>2 DEF Blank, Bare, New, Kept
    <3> QED BY <3>1, <3>2 DEF Begun, Blank
  <2>4. 0 \in 0 .. Len(obj'.parents) /\ pos' = 2 * 0 + 3
    <3>1. obj' = obj /\ Len(obj.parents) \in Nat
      BY <1>2, <1>6, CommitFacts DEF Kept
    <3> QED BY <2>1, <3>1
  <2>5. CommitInv'
    BY <1>3, <1>6, <2>3, <2>4 DEF CommitInv
  <2>6. SmoothInv'
    BY <1>6, <1>7, SmoothStep
  <2> QED BY <1>2, <1>6, <2>2, <2>5, <2>6, CommitStep
<1>8. CASE /\ bad' /\ dest' = [dest EXCEPT !["tree"] = None]
           /\ whole => bad \/ pos > Len(Text(obj))
  <2>1. ~Smooth
    BY <1>2, <1>3, <1>4, <1>8, SmoothNow, CommitFacts DEF At
  <2>2. IsCommit(dest', Keys \cup {None}) /\ Len(dest'.parents) <= MaxParents
    BY <1>2, <1>8, CommitFacts DEF IsCommit
  <2>3. CommitInv'
    BY <1>3, <1>6, <1>8 DEF CommitInv
  <2>4. SmoothInv'
    BY <1>6, <1>8, <2>1, SmoothStep
  <2> QED BY <1>2, <1>6, <2>2, <2>3, <2>4, CommitStep
<1> QED BY <1>6, <1>7, <1>8

\* Two more facts about parents: the tokens they are at, and when all are read.
LEMMA ParentTokens ==
  ASSUME IsCommit(obj, Keys), CommitTokens(obj, Text(obj)), NEW k \in 0 .. Len(obj.parents)
  PROVE  /\ 2 * k + 3 <= Len(Text(obj))
         /\ k < Len(obj.parents) => /\ k \in 0 .. Len(obj.parents) - 1
                                    /\ Text(obj)[2 * k + 3].value = "parent"
                                    /\ Text(obj)[2 * k + 4].value = ToHex(obj.parents[k + 1])
                                    /\ 2 * k + 4 <= Len(Text(obj))
                                    /\ obj.parents[k + 1] \in Seq(Byte)
         /\ ~(k < Len(obj.parents)) => /\ k = Len(obj.parents)
                                       /\ Text(obj)[2 * k + 3].value = "author"
<1>1. /\ Len(obj.parents) \in Nat /\ Len(obj.message) \in Nat /\ Len(Text(obj)) \in Nat
      /\ obj.parents \in Seq(Keys)
  BY DEF IsCommit
<1>2. Len(Text(obj)) >= 2 * Len(obj.parents) + 18
  <2>1. \/ Len(Text(obj)) = 2 * Len(obj.parents) + 18 + Len(obj.message)
        \/ Len(Text(obj)) = 2 * Len(obj.parents) + 21 + Len(obj.message)
    BY DEF CommitTokens
  <2>2. \A l, n, m \in Nat : l = 2 * n + 18 + m \/ l = 2 * n + 21 + m => l >= 2 * n + 18
    OBVIOUS
  <2> QED BY <1>1, <2>1, <2>2
<1>3. CASE k < Len(obj.parents)
  <2>1. /\ k + 1 \in 1 .. Len(obj.parents) /\ k \in 0 .. Len(obj.parents) - 1
        /\ 2 * (k + 1) + 1 = 2 * k + 3 /\ 2 * (k + 1) + 2 = 2 * k + 4
    BY <1>1, <1>3
  <2>2. obj.parents[k + 1] \in Seq(Byte)
    BY <1>1, <2>1 DEF Keys
  <2>3. 2 * k + 4 <= Len(Text(obj))
    BY <1>1, <1>2, <1>3
  <2>4. /\ Text(obj)[2 * (k + 1) + 1].value = "parent"
        /\ Text(obj)[2 * (k + 1) + 2].value = ToHex(obj.parents[k + 1])
    BY <2>1 DEF CommitTokens
  <2> QED BY <1>1, <1>3, <2>1, <2>2, <2>3, <2>4
<1>4. CASE ~(k < Len(obj.parents))
  <2>1. k = Len(obj.parents)
    BY <1>1, <1>4
  <2>2. Text(obj)[2 * Len(obj.parents) + 3].value = "author"
    BY DEF CommitTokens
  <2> QED BY <1>1, <1>2, <1>4, <2>1, <2>2
<1> QED BY <1>3, <1>4

\* What is read of a commit with its parents.
LEMMA ParentsRead ==
  ASSUME IsCommit(obj, Keys), NEW k, k = Len(obj.parents), Begun(k), New
  PROVE  Bare /\ Rooted
<1>1. obj.parents \in Seq(Keys) /\ k \in Nat
  BY DEF IsCommit
<1>2. obj.parents \in [1 .. k -> Keys]
  BY <1>1
<1> QED BY <1>2 DEF Begun, Rooted

\* A word: "parent" while parents are left, and then "author".
LEMMA CommitParentsInv == ASSUME CodecInv, CommitParents PROVE CodecInv'
<1>1. phase = "parent or author" /\ Common
  BY DEF CommitParents, CodecInv
<1>2. obj.kind = "commit" /\ phase \in CommitPhases
  BY <1>1, PhaseKind DEF CommitPhases
<1>3. /\ tmp \in {"tree", "parent"}
      /\ ~bad => \E k \in 0 .. Len(obj.parents) : pos = 2 * k + 3 /\ Begun(k)
  BY <1>1, <1>2, CommitFacts DEF CommitInv
<1>4. /\ Kept /\ dest' = dest /\ elem' = elem
      /\ tmp' = IF More(1) THEN Here(1) ELSE tmp
      /\ IF More(1) THEN Skip(1) /\ UNCHANGED bad ELSE bad' = TRUE /\ UNCHANGED pos
      /\ phase' = CASE tmp' = "parent" -> "parent key"
                    [] tmp' = "author" -> "author"
                    [] OTHER           -> "error"
  BY DEF CommitParents, ReadWord, Kept, input
<1>5. /\ tmp' = "parent" => phase' = "parent key"
      /\ tmp' = "author" => phase' = "author"
      /\ tmp' = "tree"   => phase' = "error"
      /\ phase' \in {"parent key", "author", "error"}
  BY <1>4
<1>6. elem'.mode \in Modes /\ phase' \in {"done", "error"} \cup PhasesOf(obj.kind)
  BY <1>2, <1>4, <1>5, CommitFacts DEF CommitPhases, Common
<1>7. /\ Common'
      /\ \/ /\ More(1) /\ ~bad /\ ~bad' /\ pos' = pos + 1
            /\ Here(1) = Text(obj)[pos].value /\ pos <= Len(Text(obj))
         \/ /\ ~More(1) /\ bad' /\ pos' = pos
            /\ whole => bad \/ pos > Len(Text(obj))
  BY <1>1, <1>4, <1>6, Taking
<1>8. IsCommit(obj, Keys) /\ CommitTokens(obj, Text(obj)) /\ Len(obj.parents) \in Nat
  BY <1>2, CommitFacts
<1>9. CASE More(1)
  <2>1. PICK k \in 0 .. Len(obj.parents) : pos = 2 * k + 3 /\ Begun(k)
    BY <1>3, <1>7, <1>9
  <2>2. pos' = 2 * k + 4 /\ tmp' = Text(obj)[2 * k + 3].value /\ ~bad'
    <3>1. pos' = pos + 1 /\ ~bad' /\ Here(1) = Text(obj)[pos].value
      BY <1>7, <1>9
    <3>2. tmp' = Text(obj)[pos].value
      BY <1>4, <1>9, <3>1
    <3>3. k \in Int
      BY <1>8
    <3>4. pos' = 2 * k + 4
      BY <2>1, <3>1, <3>3
    <3> QED BY <2>1, <3>1, <3>2, <3>4
  <2>3. CASE k < Len(obj.parents)
    <3>1. tmp' = "parent" /\ phase' = "parent key" /\ k \in 0 .. Len(obj.parents) - 1
      BY <1>5, <1>8, <2>2, <2>3, ParentTokens
    <3>2. Begun(k)'
      BY <1>4, <2>1 DEF Begun, New, Bare, Kept
    <3>3. k \in 0 .. Len(obj'.parents) - 1
      BY <1>4, <3>1 DEF Kept
    <3>4. CommitInv'
      BY <2>2, <3>1, <3>2, <3>3 DEF CommitInv
    <3>5. SmoothInv'
      BY <1>4, <2>2, <3>1, SmoothStep
    <3> QED BY <1>2, <1>4, <1>7, <3>4, <3>5, CommitStays
  <2>4. CASE ~(k < Len(obj.parents))
    <3>1. tmp' = "author" /\ phase' = "author" /\ k = Len(obj.parents)
      BY <1>5, <1>8, <2>2, <2>4, ParentTokens
    <3>2. New => Bare /\ Rooted
      BY <1>8, <2>1, <3>1, ParentsRead
    <3>3. (New => Bare /\ Rooted)'
      BY <1>4, <3>2 DEF New, Bare, Rooted, Kept
    <3>4. pos' = 2 * Len(obj'.parents) + 4
      BY <1>4, <2>2, <3>1 DEF Kept
    <3>5. CommitInv'
      BY <2>2, <3>1, <3>3, <3>4 DEF CommitInv
    <3>6. SmoothInv'
      BY <1>4, <2>2, <3>1, SmoothStep
    <3> QED BY <1>2, <1>4, <1>7, <3>5, <3>6, CommitStays
  <2> QED BY <2>3, <2>4
<1>10. CASE ~More(1)
  <2>1. tmp' = tmp /\ bad' /\ (whole => bad \/ pos > Len(Text(obj)))
    BY <1>4, <1>7, <1>10
  <2>2. ~Smooth
    <3> SUFFICES ASSUME Smooth PROVE FALSE
      OBVIOUS
    <3>1. whole /\ ~bad
      BY <1>2, SmoothNow, CommitFacts
    <3>2. PICK k \in 0 .. Len(obj.parents) : pos = 2 * k + 3
      BY <1>3, <3>1
    <3>3. 2 * k + 3 <= Len(Text(obj)) /\ Len(Text(obj)) \in Int
      BY <1>8, ParentTokens
    <3>4. k \in Int /\ 2 * k + 3 > Len(Text(obj))
      BY <1>8, <2>1, <3>1, <3>2
    <3> QED BY <3>3, <3>4
  <2>3. CommitInv'
    BY <1>3, <1>5, <2>1 DEF CommitInv
  <2>4. SmoothInv'
    BY <1>4, <1>5, <2>2, SmoothStep
  <2> QED BY <1>2, <1>4, <1>7, <2>3, <2>4, CommitStays
<1> QED BY <1>9, <1>10

\* One parent more is read.
LEMMA CommitParentInv == ASSUME CodecInv, CommitParent PROVE CodecInv'
<1>1. phase = "parent key" /\ Common
  BY DEF CommitParent, CodecInv
<1>2. obj.kind = "commit" /\ phase \in CommitPhases
  BY <1>1, PhaseKind DEF CommitPhases
<1>3. /\ tmp = "parent"
      /\ ~bad => \E k \in 0 .. Len(obj.parents) - 1 : pos = 2 * k + 4 /\ Begun(k)
  BY <1>1, <1>2, CommitFacts DEF CommitInv
<1> DEFINE key == IF More(1) THEN FromHex(Here(1)) ELSE None
<1>4. /\ Kept /\ elem' = elem /\ tmp' = tmp /\ phase' = "parent or author"
      /\ dest' = IF Len(dest.parents) < MaxParents
                 THEN [dest EXCEPT !.parents = Append(@, key)] ELSE dest
      /\ IF More(1) THEN Skip(1) /\ UNCHANGED bad ELSE bad' = TRUE /\ UNCHANGED pos
  BY DEF CommitParent, Kept, input
<1>5. elem'.mode \in Modes /\ phase' \in {"done", "error"} \cup PhasesOf(obj.kind)
  BY <1>2, <1>4, CommitFacts DEF CommitPhases, Common
<1>6. /\ Common'
      /\ \/ /\ More(1) /\ ~bad /\ ~bad' /\ pos' = pos + 1
            /\ Here(1) = Text(obj)[pos].value /\ pos <= Len(Text(obj))
         \/ /\ ~More(1) /\ bad' /\ pos' = pos
            /\ whole => bad \/ pos > Len(Text(obj))
  BY <1>1, <1>4, <1>5, Taking
<1>7. IsCommit(obj, Keys) /\ CommitTokens(obj, Text(obj)) /\ Len(obj.parents) \in Nat
      /\ 2 * Len(obj.parents) < MaxParents
  BY <1>2, CommitFacts
<1>8. MaxParents \in Nat
  BY BoundAssumption
<1>9. IsCommit(dest, Keys \cup {None}) /\ Len(dest.parents) <= MaxParents
  BY <1>2, CommitFacts
<1>10. ASSUME key \in Keys \cup {None}
       PROVE  /\ IsCommit(dest', Keys \cup {None}) /\ Len(dest'.parents) <= MaxParents
              /\ dest'.tree = dest.tree /\ dest'.message = dest.message
              /\ dest'.encoding = dest.encoding
              /\ Len(dest.parents) < MaxParents => dest'.parents = Append(dest.parents, key)
  <2> HIDE DEF key
  <2>1. dest.parents \in Seq(Keys \cup {None})
    BY <1>9 DEF IsCommit
  <2>2. /\ Append(dest.parents, key) \in Seq(Keys \cup {None})
        /\ Len(Append(dest.parents, key)) = Len(dest.parents) + 1
    BY <1>10, <2>1
  <2>3. CASE Len(dest.parents) < MaxParents
    <3>1. dest' = [dest EXCEPT !.parents = Append(dest.parents, key)]
      BY <1>4, <2>3
    <3>2. /\ IsCommit(dest', Keys \cup {None}) /\ dest'.parents = Append(dest.parents, key)
          /\ dest'.tree = dest.tree /\ dest'.message = dest.message
          /\ dest'.encoding = dest.encoding
      BY <1>9, <2>2, <3>1 DEF IsCommit
    <3>3. Len(dest.parents) + 1 <= MaxParents
      BY <1>8, <2>1, <2>3
    <3> QED BY <2>2, <2>3, <3>2, <3>3
  <2>4. CASE ~(Len(dest.parents) < MaxParents)
    BY <1>4, <1>9, <2>4
  <2> QED BY <2>3, <2>4
<1>11. CASE More(1)
  <2>1. PICK k \in 0 .. Len(obj.parents) - 1 : pos = 2 * k + 4 /\ Begun(k)
    BY <1>3, <1>6, <1>11
  <2>2. k \in 0 .. Len(obj.parents) /\ k < Len(obj.parents) /\ k \in Nat
        /\ k + 1 \in 0 .. Len(obj.parents) /\ k + 1 \in 1 .. Len(obj.parents)
        /\ k < MaxParents
    BY <1>7, <1>8
  <2>3. /\ Text(obj)[2 * k + 4].value = ToHex(obj.parents[k + 1])
        /\ obj.parents[k + 1] \in Seq(Byte)
    BY <1>7, <2>2, ParentTokens
  <2>4. key = obj.parents[k + 1] /\ key \in Keys
    BY <1>6, <1>11, <2>1, <2>3, HexInverse DEF Keys
  <2> HIDE DEF key
  <2>5. Begun(k + 1)'
    <3> SUFFICES ASSUME New' PROVE Begun(k + 1)'
      BY DEF Begun
    <3>1. /\ Bare /\ dest.tree = obj.tree /\ New
          /\ dest.parents \in [1 .. k -> Keys \cup {None}]
          /\ \A i \in 1 .. k : dest.parents[i] = obj.parents[i]
      BY <1>4, <2>1 DEF Begun, New, Kept
    <3>2. dest.parents \in Seq(Keys \cup {None}) /\ Len(dest.parents) = k
      BY <2>2, <3>1, MadeSeq
    <3>3. /\ dest'.parents = Append(dest.parents, key) /\ dest'.tree = obj'.tree
          /\ Bare'
      BY <1>4, <1>10, <2>2, <2>4, <3>1, <3>2 DEF Bare, Kept
    <3>4. /\ Append(dest.parents, key) \in Seq(Keys \cup {None})
          /\ Len(Append(dest.parents, key)) = k + 1
          /\ \A i \in 1 .. k : Append(dest.parents, key)[i] = dest.parents[i]
          /\ Append(dest.parents, key)[k + 1] = key
      BY <2>2, <2>4, <3>2
    <3>5. Append(dest.parents, key) \in [1 .. k + 1 -> Keys \cup {None}]
      <4> DEFINE s == Append(dest.parents, key)
      <4>1. s \in Seq(Keys \cup {None}) /\ Len(s) = k + 1
        BY <3>4
      <4> HIDE DEF s
      <4>2. s \in [1 .. k + 1 -> Keys \cup {None}]
        BY <4>1
      <4> QED BY <4>2 DEF s
    <3>6. \A i \in 1 .. k + 1 : i \in 1 .. k \/ i = k + 1
      BY <2>2
    <3>7. \A i \in 1 .. k + 1 : Append(dest.parents, key)[i] = obj.parents[i]
      BY <2>4, <3>1, <3>4, <3>6
    <3>8. obj' = obj
      BY <1>4 DEF Kept
    <3> QED BY <3>3, <3>5, <3>7, <3>8 DEF Begun
  <2>6. k + 1 \in 0 .. Len(obj'.parents) /\ pos' = 2 * (k + 1) + 3 /\ ~bad'
    <3>1. pos' = 2 * k + 4 + 1 /\ obj' = obj /\ ~bad'
      BY <1>4, <1>6, <1>11, <2>1 DEF Kept
    <3> QED BY <2>2, <3>1
  <2>7. CommitInv'
    BY <1>3, <1>4, <2>5, <2>6 DEF CommitInv
  <2>8. SmoothInv'
    BY <1>4, <2>6, SmoothStep
  <2> QED BY <1>2, <1>4, <1>6, <1>10, <2>4, <2>7, <2>8, CommitStep
<1>12. CASE ~More(1)
  <2>1. key = None
    BY <1>12
  <2> HIDE DEF key
  <2>2. bad' /\ (whole => bad \/ pos > Len(Text(obj)))
    BY <1>6, <1>12
  <2>3. ~Smooth
    <3> SUFFICES ASSUME Smooth PROVE FALSE
      OBVIOUS
    <3>1. whole /\ ~bad
      BY <1>2, SmoothNow, CommitFacts
    <3>2. PICK k \in 0 .. Len(obj.parents) - 1 : pos = 2 * k + 4
      BY <1>3, <3>1
    <3>3. k \in 0 .. Len(obj.parents) /\ k < Len(obj.parents) /\ k \in Int
      BY <1>7
    <3>4. 2 * k + 4 <= Len(Text(obj)) /\ Len(Text(obj)) \in Int
      BY <1>7, <3>3, ParentTokens
    <3>5. 2 * k + 4 > Len(Text(obj))
      BY <2>2, <3>1, <3>2
    <3> QED BY <3>3, <3>4, <3>5
  <2>4. CommitInv'
    BY <1>3, <1>4, <2>2 DEF CommitInv
  <2>5. SmoothInv'
    BY <1>4, <2>3, SmoothStep
  <2> QED BY <1>2, <1>4, <1>6, <1>10, <2>1, <2>4, <2>5, CommitStep
<1> QED BY <1>11, <1>12

\* The tokens behind the parents.
LEMMA LaterTokens ==
  ASSUME IsCommit(obj, Keys), CommitTokens(obj, Text(obj)),
         NEW n, n = 2 * Len(obj.parents), NEW t, t = Text(obj)
  PROVE  /\ n \in Nat /\ Len(t) \in Nat /\ n + 18 <= Len(t)
         /\ obj.author \in Stamps /\ obj.committer \in Stamps
         /\ StampAt(t, n + 3, obj.author) /\ StampAt(t, n + 10, obj.committer)
         /\ t[n + 10].value = "committer"
         /\ obj.encoding = DefaultEncoding => t[n + 18].value # "encoding"
         /\ obj.encoding # DefaultEncoding =>
              /\ t[n + 18].value = "encoding" /\ t[n + 19].value = obj.encoding
              /\ n + 21 <= Len(t)
<1>1. /\ Len(obj.parents) \in Nat /\ Len(obj.message) \in Nat /\ Len(Text(obj)) \in Nat
      /\ obj.author \in Stamps /\ obj.committer \in Stamps
  BY DEF IsCommit
<1>2. /\ obj.encoding = DefaultEncoding => Len(t) = n + 18 + Len(obj.message)
      /\ obj.encoding # DefaultEncoding => Len(t) = n + 21 + Len(obj.message)
  BY DEF CommitTokens
<1>3. \A x, y, z \in Nat : /\ x = y + 18 + z => y + 18 <= x
                           /\ x = y + 21 + z => y + 18 <= x /\ y + 21 <= x
  OBVIOUS
<1>4. n \in Nat /\ Len(t) \in Nat
  BY <1>1
<1>5. n + 18 <= Len(t) /\ (obj.encoding # DefaultEncoding => n + 21 <= Len(t))
  BY <1>1, <1>2, <1>3, <1>4
<1>6. /\ StampAt(t, n + 3, obj.author) /\ StampAt(t, n + 10, obj.committer)
      /\ t[n + 10].value = "committer"
      /\ obj.encoding = DefaultEncoding => t[n + 18].value = NoName
      /\ obj.encoding # DefaultEncoding =>
           t[n + 18].value = "encoding" /\ t[n + 19].value = obj.encoding
  BY DEF CommitTokens
<1> QED BY <1>1, <1>4, <1>5, <1>6, NameAssumption

\* An actor is set.
LEMMA ActorSet ==
  ASSUME IsCommit(dest, Keys \cup {None}), Len(dest.parents) <= MaxParents,
         NEW s \in Stamps, NEW field \in {"author", "committer"},
         dest' = [dest EXCEPT ![field] = s]
  PROVE  /\ IsCommit(dest', Keys \cup {None}) /\ Len(dest'.parents) <= MaxParents
         /\ dest'.tree = dest.tree /\ dest'.parents = dest.parents
         /\ dest'.encoding = dest.encoding /\ dest'.message = dest.message
         /\ field = "author" => /\ dest'.committer = dest.committer
                                /\ dest'.author = s
         /\ field = "committer" => /\ dest'.author = dest.author
                                   /\ dest'.committer = s
<1>1. CASE field = "author"
  BY <1>1 DEF IsCommit
<1>2. CASE field = "committer"
  BY <1>2 DEF IsCommit
<1> QED BY <1>1, <1>2

\* The author, whose offset may fail the stream.
LEMMA CommitAuthorInv == ASSUME CodecInv, CommitAuthor PROVE CodecInv'
<1>1. phase = "author" /\ Common
  BY DEF CommitAuthor, StampOrThrow, CodecInv
<1>2. obj.kind = "commit" /\ phase \in CommitPhases
  BY <1>1, PhaseKind DEF CommitPhases
<1> DEFINE n == 2 * Len(obj.parents)
<1>3. ~bad /\ pos = n + 4 /\ tmp = "author" /\ (New => Bare /\ Rooted)
  BY <1>1, <1>2, CommitFacts DEF CommitInv
<1>4. /\ n \in Nat /\ Len(Text(obj)) \in Nat /\ n + 18 <= Len(Text(obj))
      /\ obj.author \in Stamps
      /\ StampAt(Text(obj), n + 3, obj.author)
  BY <1>2, CommitFacts, LaterTokens
<1>5. /\ IsCommit(dest, Keys \cup {None}) /\ Len(dest.parents) <= MaxParents
      /\ "committer word" \in PhasesOf(obj.kind)
  BY <1>2, CommitFacts DEF CommitPhases
<1>6. dest["author"] \in Stamps
  BY <1>5 DEF IsCommit
<1>7. obj' = obj /\ Kept /\ n' = n
  BY DEF CommitAuthor, StampOrThrow, input, Kept
<1> HIDE DEF n
<1>8. /\ n + 3 \in Nat /\ pos = n + 3 + 1 /\ pos + 5 <= Len(Text(obj))
      /\ pos + 6 = n + 10
  BY <1>3, <1>4
<1>9. /\ Common' /\ tmp' = tmp
      /\ \/ phase' = "error" /\ dest' = dest /\ ~whole
         \/ /\ phase' = "committer word" /\ (~bad' => pos' = pos + 6)
            /\ \E s \in Stamps :
                 /\ dest' = [dest EXCEPT !["author"] = s]
                 /\ s.name = obj.author.name
                 /\ ~bad' => s = obj.author
            /\ whole /\ obj.author.zone > -ShortMax - 1 => ~bad'
  <2>1. StampOrThrow("author", "author", "committer word") /\ pos = (n + 3) + 1
    BY <1>8 DEF CommitAuthor
  <2> QED BY <1>1, <1>3, <1>4, <1>5, <1>6, <1>8, <2>1, Stamped
<1>10. CASE phase' = "error" /\ dest' = dest /\ ~whole
  <2>1. CommitInv'
    BY <1>10 DEF CommitInv
  <2>2. SmoothInv'
    BY <1>7, <1>10, SmoothStep DEF Smooth
  <2> QED BY <1>2, <1>7, <1>9, <1>10, <2>1, <2>2, CommitStays
<1>11. CASE /\ phase' = "committer word" /\ (~bad' => pos' = pos + 6)
            /\ \E s \in Stamps :
                 /\ dest' = [dest EXCEPT !["author"] = s]
                 /\ s.name = obj.author.name
                 /\ ~bad' => s = obj.author
            /\ whole /\ obj.author.zone > -ShortMax - 1 => ~bad'
  <2>1. PICK s \in Stamps :
          /\ dest' = [dest EXCEPT !["author"] = s]
          /\ ~bad' => s = obj.author
    BY <1>11
  <2>2. /\ IsCommit(dest', Keys \cup {None}) /\ Len(dest'.parents) <= MaxParents
        /\ dest'.tree = dest.tree /\ dest'.parents = dest.parents
        /\ dest'.encoding = dest.encoding /\ dest'.message = dest.message
        /\ ~bad' => dest'.author = obj.author
    BY <1>4, <1>5, <2>1, ActorSet
  <2>3. (New => Bare /\ Rooted /\ (~bad => Authored))'
    BY <1>3, <1>7, <2>2 DEF New, Bare, Rooted, Authored, Kept
  <2>4. At(n + 10)'
    BY <1>7, <1>8, <1>11 DEF At
  <2>5. CommitInv'
    BY <1>3, <1>9, <1>11, <2>3, <2>4 DEF CommitInv, n
  <2>6. Smooth => ~bad'
    BY <1>2, <1>11 DEF Smooth, Representable
  <2>7. SmoothInv'
    BY <1>7, <1>11, <2>6, SmoothStep
  <2> QED BY <1>2, <1>7, <1>9, <2>2, <2>5, <2>7, CommitStep
<1> QED BY <1>9, <1>10, <1>11

\* The committer, as the author was.
LEMMA CommitCommitInv == ASSUME CodecInv, CommitCommit PROVE CodecInv'
<1>1. phase = "committer" /\ Common
  BY DEF CommitCommit, StampOrThrow, CodecInv
<1>2. obj.kind = "commit" /\ phase \in CommitPhases
  BY <1>1, PhaseKind DEF CommitPhases
<1> DEFINE n == 2 * Len(obj.parents)
<1>3. ~bad /\ pos = n + 11 /\ (New => Bare /\ Authored)
  BY <1>1, <1>2, CommitFacts DEF CommitInv
<1>4. /\ n \in Nat /\ Len(Text(obj)) \in Nat /\ n + 18 <= Len(Text(obj))
      /\ obj.committer \in Stamps
      /\ StampAt(Text(obj), n + 10, obj.committer)
  BY <1>2, CommitFacts, LaterTokens
<1>5. /\ IsCommit(dest, Keys \cup {None}) /\ Len(dest.parents) <= MaxParents
      /\ "separator" \in PhasesOf(obj.kind)
  BY <1>2, CommitFacts DEF CommitPhases
<1>6. dest["committer"] \in Stamps
  BY <1>5 DEF IsCommit
<1>7. obj' = obj /\ Kept /\ n' = n
  BY DEF CommitCommit, StampOrThrow, input, Kept
<1> HIDE DEF n
<1>8. /\ n + 10 \in Nat /\ pos = n + 10 + 1 /\ pos + 5 <= Len(Text(obj))
      /\ pos + 6 = n + 17
  BY <1>3, <1>4
<1>9. /\ Common' /\ tmp' = tmp
      /\ \/ phase' = "error" /\ dest' = dest /\ ~whole
         \/ /\ phase' = "separator" /\ (~bad' => pos' = pos + 6)
            /\ \E s \in Stamps :
                 /\ dest' = [dest EXCEPT !["committer"] = s]
                 /\ s.name = obj.committer.name
                 /\ ~bad' => s = obj.committer
            /\ whole /\ obj.committer.zone > -ShortMax - 1 => ~bad'
  <2>1. StampOrThrow("committer", "committer", "separator") /\ pos = (n + 10) + 1
    BY <1>8 DEF CommitCommit
  <2> QED BY <1>1, <1>3, <1>4, <1>5, <1>6, <1>8, <2>1, Stamped
<1>10. CASE phase' = "error" /\ dest' = dest /\ ~whole
  <2>1. CommitInv'
    BY <1>10 DEF CommitInv
  <2>2. SmoothInv'
    BY <1>7, <1>10, SmoothStep DEF Smooth
  <2> QED BY <1>2, <1>7, <1>9, <1>10, <2>1, <2>2, CommitStays
<1>11. CASE /\ phase' = "separator" /\ (~bad' => pos' = pos + 6)
            /\ \E s \in Stamps :
                 /\ dest' = [dest EXCEPT !["committer"] = s]
                 /\ s.name = obj.committer.name
                 /\ ~bad' => s = obj.committer
            /\ whole /\ obj.committer.zone > -ShortMax - 1 => ~bad'
  <2>1. PICK s \in Stamps :
          /\ dest' = [dest EXCEPT !["committer"] = s]
          /\ ~bad' => s = obj.committer
    BY <1>11
  <2>2. /\ IsCommit(dest', Keys \cup {None}) /\ Len(dest'.parents) <= MaxParents
        /\ dest'.tree = dest.tree /\ dest'.parents = dest.parents
        /\ dest'.encoding = dest.encoding /\ dest'.message = dest.message
        /\ dest'.author = dest.author
        /\ ~bad' => dest'.committer = obj.committer
    BY <1>4, <1>5, <2>1, ActorSet
  <2>3. (New => Bare /\ Authored /\ (~bad => Committed))'
    BY <1>3, <1>7, <2>2 DEF New, Bare, Rooted, Authored, Committed, Kept
  <2>4. At(n + 17)'
    BY <1>7, <1>8, <1>11 DEF At
  <2>5. CommitInv'
    BY <1>9, <1>11, <2>3, <2>4 DEF CommitInv, n
  <2>6. Smooth => ~bad'
    BY <1>2, <1>11 DEF Smooth, Representable
  <2>7. SmoothInv'
    BY <1>7, <1>11, <2>6, SmoothStep
  <2> QED BY <1>2, <1>7, <1>9, <2>2, <2>5, <2>7, CommitStep
<1> QED BY <1>9, <1>10, <1>11

\* The word "committer".
LEMMA CommitCommitterInv == ASSUME CodecInv, CommitCommitter PROVE CodecInv'
<1>1. phase = "committer word" /\ Common
  BY DEF CommitCommitter, Expect, CodecInv
<1>2. obj.kind = "commit" /\ phase \in CommitPhases
  BY <1>1, PhaseKind DEF CommitPhases
<1> DEFINE n == 2 * Len(obj.parents)
<1>3. At(n + 10) /\ tmp = "author" /\ (New => Bare /\ Rooted /\ (~bad => Authored))
  BY <1>1, <1>2, CommitFacts DEF CommitInv
<1>4. /\ n \in Nat /\ Len(Text(obj)) \in Nat /\ n + 18 <= Len(Text(obj))
      /\ Text(obj)[n + 10].value = "committer"
  BY <1>2, CommitFacts, LaterTokens
<1>5. "committer" \in PhasesOf(obj.kind)
  BY <1>2, CommitFacts DEF CommitPhases
<1>6. /\ Common' /\ Kept /\ dest' = dest
      /\ phase' = IF tmp' = "committer" THEN "committer" ELSE "error"
      /\ \/ ~bad /\ ~bad' /\ pos' = pos + 1 /\ tmp' = Text(obj)[pos].value
         \/ bad' /\ tmp' = tmp /\ (whole => bad \/ pos > Len(Text(obj)))
  BY <1>1, <1>5, Expecting DEF CommitCommitter
<1>7. n' = n
  BY <1>6 DEF Kept
<1> HIDE DEF n
<1>8. CommitInv' /\ (Smooth => phase' # "error" /\ ~bad')
  <2>1. CASE ~bad /\ ~bad' /\ pos' = pos + 1 /\ tmp' = Text(obj)[pos].value
    <3>1. pos = n + 10
      BY <1>3, <2>1 DEF At
    <3>2. pos' = n + 11 /\ tmp' = "committer"
      BY <1>4, <2>1, <3>1
    <3>3. phase' = "committer"
      BY <1>6, <3>2
    <3>4. (New => Bare /\ Authored)'
      BY <1>3, <1>6, <2>1 DEF New, Bare, Rooted, Authored, Kept
    <3> QED BY <1>7, <2>1, <3>2, <3>3, <3>4 DEF CommitInv, n
  <2>2. CASE bad' /\ tmp' = tmp /\ (whole => bad \/ pos > Len(Text(obj)))
    <3>1. ~Smooth
      <4> SUFFICES ASSUME Smooth PROVE FALSE
        OBVIOUS
      <4>1. whole /\ ~bad
        BY <1>2, SmoothNow, CommitFacts
      <4>2. pos = n + 10
        BY <1>3, <4>1 DEF At
      <4>3. pos > Len(Text(obj))
        BY <2>2, <4>1
      <4> QED BY <1>4, <4>2, <4>3
    <3>2. phase' = "error"
      BY <1>3, <1>6, <2>2
    <3> QED BY <3>1, <3>2 DEF CommitInv
  <2> QED BY <1>6, <2>1, <2>2
<1>9. SmoothInv'
  <2>1. phase' # "done"
    BY <1>6
  <2> QED BY <1>6, <1>8, <2>1, SmoothStep
<1> QED BY <1>2, <1>6, <1>8, <1>9, CommitStays

\* What follows the newline tells whether there is an encoding.
LEMMA CommitSeparatorInv == ASSUME CodecInv, CommitSeparator PROVE CodecInv'
<1>1. phase = "separator" /\ Common
  BY DEF CommitSeparator, CodecInv
<1>2. obj.kind = "commit" /\ phase \in CommitPhases
  BY <1>1, PhaseKind DEF CommitPhases
<1> DEFINE n == 2 * Len(obj.parents)
<1>3. At(n + 17) /\ (New => Bare /\ Authored /\ (~bad => Committed))
  BY <1>1, <1>2, CommitFacts DEF CommitInv
<1>4. /\ n \in Nat /\ Len(Text(obj)) \in Nat /\ n + 18 <= Len(Text(obj))
      /\ obj.encoding = DefaultEncoding => Text(obj)[n + 18].value # "encoding"
      /\ obj.encoding # DefaultEncoding => Text(obj)[n + 18].value = "encoding"
  BY <1>2, CommitFacts, LaterTokens
<1>5. {"message", "encoding"} \subseteq PhasesOf(obj.kind)
  BY <1>2, CommitFacts DEF CommitPhases
<1>6. Kept /\ dest' = dest /\ elem' = elem /\ tmp' = tmp
  BY DEF CommitSeparator, input, Kept
<1>7. n' = n /\ elem'.mode \in Modes
  BY <1>1, <1>6 DEF Kept, Common
<1> HIDE DEF n
<1>8. pos \in Nat /\ Len(text) \in Nat /\ pos \in 1 .. Len(text) + 1 /\ bad \in BOOLEAN
  BY <1>1 DEF Common
<1>9. /\ pos + 1 - 1 = pos /\ pos + 2 - 1 = pos + 1
  BY <1>8
<1>10. /\ More(1) => ~bad /\ pos <= Len(text) /\ pos + 1 \in 1 .. Len(text) + 1
       /\ More(2) => /\ Here(2) = Text(obj)[pos + 1].value
                     /\ pos + 2 \in 1 .. Len(text) + 1
       /\ More(1) /\ ~More(2) => ~(pos + 1 <= Len(text))
       /\ whole /\ ~bad /\ pos + 1 <= Len(Text(obj)) => More(2)
       /\ More(2) => More(1)
  <2>1. More(1) => pos + 1 \in 1 .. Len(text) + 1
    BY <1>1, Reading
  <2>2. /\ More(2) => Here(2) = Text(obj)[pos + 1].value /\ pos + 2 \in 1 .. Len(text) + 1
        /\ whole /\ ~bad /\ pos + 1 <= Len(Text(obj)) => More(2)
    BY <1>1, <1>9, Reading
  <2>3. More(1) <=> ~bad /\ pos <= Len(text)
    BY <1>9 DEF More
  <2>4. More(2) <=> ~bad /\ pos + 1 <= Len(text)
    BY <1>9 DEF More
  <2>5. pos + 1 <= Len(text) => pos <= Len(text)
    BY <1>8
  <2> QED BY <2>1, <2>2, <2>3, <2>4, <2>5
<1>11. Smooth => More(2) /\ ~bad
  <2> SUFFICES ASSUME Smooth PROVE More(2) /\ ~bad
    OBVIOUS
  <2>1. whole /\ ~bad
    BY <1>2, SmoothNow, CommitFacts
  <2>2. pos = n + 17
    BY <1>3, <2>1 DEF At
  <2>3. pos + 1 <= Len(Text(obj))
    BY <1>4, <2>2
  <2> QED BY <1>10, <2>1, <2>3
<1>12. CASE ~More(1)
  <2>1. phase' = "error" /\ pos' = pos /\ bad' = bad
    BY <1>12 DEF CommitSeparator
  <2>2. Common'
    BY <1>1, <1>6, <1>7, <1>8, <2>1, CommonStep
  <2>3. CommitInv'
    BY <2>1 DEF CommitInv
  <2>4. SmoothInv'
    BY <1>6, <1>10, <1>11, <1>12, <2>1, SmoothStep
  <2> QED BY <1>2, <1>6, <2>2, <2>3, <2>4, CommitStays
<1>13. CASE More(1) /\ ~More(2)
  <2>1. phase' = "message" /\ pos' = pos + 1 /\ bad' = TRUE
    BY <1>13 DEF CommitSeparator, Skip
  <2>2. Common'
    BY <1>1, <1>5, <1>6, <1>7, <1>10, <1>13, <2>1, CommonStep
  <2>3. pos' = Len(text') + 1
    BY <1>6, <1>8, <1>10, <1>13, <2>1 DEF Kept
  <2>4. (New => dest.message = <<>> /\ Committed)'
    BY <1>3, <1>6, <1>10, <1>13 DEF New, Bare, Rooted, Authored, Committed, Kept
  <2>5. CommitInv'
    BY <2>1, <2>3, <2>4 DEF CommitInv
  <2>6. SmoothInv'
    BY <1>6, <1>11, <1>13, <2>1, SmoothStep
  <2> QED BY <1>2, <1>6, <2>2, <2>5, <2>6, CommitStays
<1>14. CASE More(2)
  <2>1. /\ phase' = IF Here(2) = "encoding" THEN "encoding" ELSE "message"
        /\ pos' = pos + 2 /\ bad' = bad
    BY <1>10, <1>14 DEF CommitSeparator, Skip
  <2>2. Common'
    BY <1>1, <1>5, <1>6, <1>7, <1>8, <1>10, <1>14, <2>1, CommonStep
  <2>3. pos = n + 17 /\ ~bad'
    BY <1>3, <1>10, <1>14, <2>1 DEF At
  <2>4. pos' = n + 19 /\ pos + 1 = n + 18
    BY <1>4, <2>1, <2>3
  <2>5. (New => Bare /\ Committed)'
    BY <1>3, <1>6, <1>10, <1>14 DEF New, Bare, Rooted, Authored, Committed, Kept
  <2>6. CASE obj.encoding = DefaultEncoding
    <3>1. phase' = "message"
      BY <1>4, <1>10, <1>14, <2>1, <2>4, <2>6
    <3>2. obj'.encoding = DefaultEncoding
      BY <1>6, <2>6 DEF Kept
    <3>3. CommitInv'
      BY <1>7, <2>3, <2>4, <2>5, <3>1, <3>2 DEF CommitInv, Bare, n
    <3>4. SmoothInv'
      BY <1>6, <2>3, <3>1, SmoothStep
    <3> QED BY <1>2, <1>6, <2>2, <3>3, <3>4, CommitStays
  <2>7. CASE obj.encoding # DefaultEncoding
    <3>1. phase' = "encoding"
      BY <1>4, <1>10, <1>14, <2>1, <2>4, <2>7
    <3>2. obj'.encoding # DefaultEncoding
      BY <1>6, <2>7 DEF Kept
    <3>3. CommitInv'
      BY <1>7, <2>3, <2>4, <2>5, <3>1, <3>2 DEF CommitInv, n
    <3>4. SmoothInv'
      BY <1>6, <2>3, <3>1, SmoothStep
    <3> QED BY <1>2, <1>6, <2>2, <3>3, <3>4, CommitStays
  <2> QED BY <2>6, <2>7
<1> QED BY <1>12, <1>13, <1>14

\* The encoding is read when it is there.
LEMMA CommitEncodingInv == ASSUME CodecInv, CommitEncoding PROVE CodecInv'
<1>1. phase = "encoding" /\ Common
  BY DEF CommitEncoding, CodecInv
<1>2. obj.kind = "commit" /\ phase \in CommitPhases
  BY <1>1, PhaseKind DEF CommitPhases
<1> DEFINE n == 2 * Len(obj.parents)
<1>3. /\ ~bad /\ pos = n + 19 /\ obj.encoding # DefaultEncoding
      /\ New => Bare /\ Committed
  BY <1>1, <1>2, CommitFacts DEF CommitInv
<1>4. /\ n \in Nat /\ Len(Text(obj)) \in Nat /\ n + 21 <= Len(Text(obj))
      /\ Text(obj)[n + 19].value = obj.encoding
  BY <1>2, <1>3, CommitFacts, LaterTokens
<1>5. /\ IsCommit(dest, Keys \cup {None}) /\ Len(dest.parents) <= MaxParents
      /\ "message" \in PhasesOf(obj.kind) /\ obj.encoding \in Strings
  BY <1>2, CommitFacts DEF CommitPhases, IsCommit
<1>6. /\ Kept /\ elem' = elem /\ phase' = "message"
      /\ dest' = IF More(1) THEN [dest EXCEPT !.encoding = Here(1)] ELSE dest
  BY DEF CommitEncoding, input, Kept
<1>7. n' = n /\ elem'.mode \in Modes
  BY <1>1, <1>6 DEF Kept, Common
<1> HIDE DEF n
<1>8. pos \in Nat /\ Len(text) \in Nat /\ bad \in BOOLEAN
  BY <1>1 DEF Common
<1>9. /\ pos + 1 - 1 = pos /\ pos + 3 - 1 = pos + 2
  BY <1>8
<1>10. /\ More(1) => Here(1) = obj.encoding
       /\ More(3) => pos + 3 \in 1 .. Len(text) + 1
       /\ whole /\ ~bad /\ pos + 2 <= Len(Text(obj)) => More(3)
       /\ More(3) => More(1)
  <2>1. More(1) => Here(1) = Text(obj)[pos].value
    BY <1>1, <1>9, Reading
  <2>2. /\ More(3) => pos + 3 \in 1 .. Len(text) + 1
        /\ whole /\ ~bad /\ pos + 2 <= Len(Text(obj)) => More(3)
    BY <1>1, <1>9, Reading
  <2>3. More(3) => More(1)
    BY <1>8, <1>9 DEF More
  <2> QED BY <1>3, <1>4, <2>1, <2>2, <2>3
<1>11. /\ IsCommit(dest', Keys \cup {None}) /\ Len(dest'.parents) <= MaxParents
       /\ dest'.message = dest.message /\ dest'.tree = dest.tree
       /\ dest'.parents = dest.parents /\ dest'.author = dest.author
       /\ dest'.committer = dest.committer
       /\ More(1) => dest'.encoding = obj.encoding
  <2>1. CASE More(1)
    <3>1. dest' = [dest EXCEPT !.encoding = obj.encoding]
      BY <1>6, <1>10, <2>1
    <3> QED BY <1>5, <3>1 DEF IsCommit
  <2>2. CASE ~More(1)
    BY <1>5, <1>6, <2>2
  <2> QED BY <2>1, <2>2
<1>12. (New => dest.message = <<>> /\ Committed)'
  BY <1>3, <1>6, <1>11 DEF New, Bare, Rooted, Authored, Committed, Kept
<1>13. obj'.encoding # DefaultEncoding /\ obj' = obj
  BY <1>3, <1>6 DEF Kept
<1>14. CASE More(3)
  <2>1. pos' = pos + 3 /\ bad' = bad
    BY <1>14 DEF CommitEncoding, Skip
  <2>2. Common'
    BY <1>1, <1>5, <1>6, <1>7, <1>8, <1>10, <1>14, <2>1, CommonStep
  <2>3. pos' = n + 22 /\ ~bad'
    BY <1>3, <1>4, <2>1
  <2>4. CommitInv'
    BY <1>6, <1>7, <1>10, <1>11, <1>12, <1>13, <1>14, <2>3 DEF CommitInv, n
  <2>5. SmoothInv'
    BY <1>6, <2>3, SmoothStep
  <2> QED BY <1>2, <1>6, <1>11, <2>2, <2>4, <2>5, CommitStep
<1>15. CASE ~More(3)
  <2>1. pos' = Len(text) + 1 /\ bad' = TRUE
    BY <1>15 DEF CommitEncoding
  <2>2. pos' \in 1 .. Len(text) + 1 /\ pos' = Len(text') + 1
    BY <1>6, <1>8, <2>1 DEF Kept
  <2>3. Common'
    BY <1>1, <1>5, <1>6, <1>7, <2>1, <2>2, CommonStep
  <2>4. CommitInv'
    BY <1>6, <1>12, <2>1, <2>2 DEF CommitInv
  <2>5. ~Smooth
    <3>1. pos + 2 <= Len(Text(obj))
      BY <1>3, <1>4
    <3> QED BY <1>3, <1>10, <1>15, <3>1 DEF Smooth
  <2>6. SmoothInv'
    BY <1>6, <2>5, SmoothStep
  <2> QED BY <1>2, <1>6, <1>11, <2>3, <2>4, <2>6, CommitStep
<1> QED BY <1>14, <1>15

\* The rest of a text, whose tokens behind b are those of the message.
LEMMA RestRead ==
  ASSUME Common, NEW b \in Nat, pos = b + 1, NEW message \in Seq(Strings),
         Len(Text(obj)) = b + Len(message),
         \A i \in 1 .. Len(message) : Text(obj)[b + i].value = message[i]
  PROVE  /\ Rest \in Seq(Strings) /\ Len(Rest) <= Len(message)
         /\ \A i \in 1 .. Len(Rest) : Rest[i] = message[i]
         /\ whole => Rest = message
<1>1. /\ Len(text) \in Nat /\ Len(text) <= Len(Text(obj)) /\ pos \in 1 .. Len(text) + 1
      /\ Len(message) \in Nat /\ whole => Len(text) = Len(Text(obj))
  <2>1. Len(message) \in Nat
    OBVIOUS
  <2>2. Len(text) \in 0 .. Len(Text(obj)) /\ pos \in 1 .. Len(text) + 1
        /\ (whole => Len(text) = Len(Text(obj)))
    BY DEF Common, TextOK
  <2>3. Len(Text(obj)) \in Int
    BY <2>1
  <2> QED BY <2>1, <2>2, <2>3
<1> DEFINE l == Len(text) - pos + 1
<1>2. l \in 0 .. Len(message) /\ (whole => l = Len(message))
  BY <1>1
<1>3. ASSUME NEW i \in 1 .. l
      PROVE  text[pos + i - 1].value = message[i] /\ message[i] \in Strings
  <2>1. i \in 1 .. Len(message) /\ pos + i - 1 = b + i /\ b + i \in 1 .. Len(text)
    BY <1>1, <1>2
  <2>2. text[b + i] = Text(obj)[b + i]
    BY <2>1 DEF Common, TextOK
  <2> QED BY <2>1, <2>2
<1>4. Rest = [i \in 1 .. l |-> message[i]]
  BY <1>3 DEF Rest
<1> HIDE DEF l
<1>5. Rest \in Seq(Strings) /\ Len(Rest) = l /\ \A i \in 1 .. l : Rest[i] = message[i]
  <2>1. \A i \in 1 .. l : message[i] \in Strings
    BY <1>3
  <2>2. l \in Nat
    BY <1>1, <1>2
  <2> QED BY <1>4, <2>1, <2>2
<1>6. whole => Rest = message
  <2>1. message = [i \in 1 .. Len(message) |-> message[i]]
    OBVIOUS
  <2> QED BY <1>2, <1>4, <2>1
<1>7. Len(Rest) <= Len(message)
  BY <1>1, <1>2, <1>5
<1> QED BY <1>5, <1>6, <1>7

\* Nothing is left of a text that was read to its end.
LEMMA RestEmpty ==
  ASSUME pos = Len(text) + 1, Len(text) \in Nat
  PROVE  Rest = <<>>
<1>1. Len(text) - pos + 1 = 0
  OBVIOUS
<1> QED BY <1>1 DEF Rest

\* A commit is what its fields are.
LEMMA CommitFields ==
  ASSUME NEW c, NEW d, NEW keys, IsCommit(c, Keys), IsCommit(d, keys),
         d.tree = c.tree, d.parents = c.parents, d.author = c.author,
         d.committer = c.committer, d.encoding = c.encoding, d.message = c.message
  PROVE  d = c
<1>1. c = [kind |-> "commit", tree |-> c.tree, parents |-> c.parents,
           author |-> c.author, committer |-> c.committer,
           encoding |-> c.encoding, message |-> c.message]
  BY DEF IsCommit
<1>2. d = [kind |-> "commit", tree |-> d.tree, parents |-> d.parents,
           author |-> d.author, committer |-> d.committer,
           encoding |-> d.encoding, message |-> d.message]
  BY DEF IsCommit
<1> QED BY <1>1, <1>2

\* The rest is the message, and the parser ends.
LEMMA CommitMessageInv == ASSUME CodecInv, CommitMessage PROVE CodecInv'
<1>1. phase = "message" /\ Common
  BY DEF CommitMessage, CodecInv
<1>2. obj.kind = "commit" /\ phase \in CommitPhases
  BY <1>1, PhaseKind DEF CommitPhases
<1> DEFINE n == 2 * Len(obj.parents)
           b == IF obj.encoding = DefaultEncoding THEN n + 18 ELSE n + 21
<1>3. /\ bad => pos = Len(text) + 1
      /\ ~bad => pos = IF obj.encoding = DefaultEncoding THEN n + 19 ELSE n + 22
      /\ New => /\ dest.message = <<>> /\ Committed
                /\ ~bad => dest.encoding = obj.encoding
  BY <1>1, <1>2, CommitFacts DEF CommitInv
<1>4. IsCommit(obj, Keys) /\ CommitTokens(obj, Text(obj)) /\ Len(obj.parents) \in Nat
      /\ IsCommit(dest, Keys \cup {None}) /\ Len(dest.parents) <= MaxParents
  BY <1>2, CommitFacts
<1>5. /\ n \in Nat /\ b \in Nat /\ obj.message \in Seq(Strings)
      /\ ~bad => pos = b + 1
  BY <1>3, <1>4 DEF IsCommit
<1>6. /\ Len(Text(obj)) = b + Len(obj.message)
      /\ \A i \in 1 .. Len(obj.message) : Text(obj)[b + i].value = obj.message[i]
  BY <1>4 DEF CommitTokens
<1> HIDE DEF b, n
<1>7. Len(text) \in Nat /\ bad \in BOOLEAN
  BY <1>1 DEF Common
<1>8. Rest \in Seq(Strings) /\ (whole /\ ~bad => Rest = obj.message)
  <2>1. CASE bad
    BY <1>3, <1>7, <2>1, RestEmpty
  <2>2. CASE ~bad
    BY <1>1, <1>5, <1>6, <2>2, RestRead
  <2> QED BY <2>1, <2>2
<1>9. /\ Kept /\ elem' = elem /\ phase' = "done" /\ bad' = bad /\ pos' = Len(text) + 1
      /\ dest' = [dest EXCEPT !.message = dest.message \o Rest]
  BY DEF CommitMessage, input, Kept
<1>10. Common'
  <2>1. elem'.mode \in Modes /\ pos' \in 1 .. Len(text) + 1
    BY <1>1, <1>7, <1>9 DEF Common
  <2> QED BY <1>1, <1>7, <1>9, <2>1, CommonStep
<1> HIDE DEF Rest
<1>11. /\ IsCommit(dest', Keys \cup {None}) /\ Len(dest'.parents) <= MaxParents
       /\ dest'.message = dest.message \o Rest /\ dest'.tree = dest.tree
       /\ dest'.parents = dest.parents /\ dest'.author = dest.author
       /\ dest'.committer = dest.committer /\ dest'.encoding = dest.encoding
  <2>1. dest.message \o Rest \in Seq(Strings)
    BY <1>4, <1>8 DEF IsCommit
  <2> QED BY <1>4, <1>9, <2>1 DEF IsCommit
<1>12. (New => Committed)'
  BY <1>3, <1>9, <1>11 DEF New, Rooted, Authored, Committed, Kept
<1>13. CommitInv'
  BY <1>9, <1>12 DEF CommitInv
<1>14. SmoothInv'
  <2>1. (Smooth' <=> Smooth) /\ "done" \notin PhasesOf(obj.kind) /\ obj' = obj
    BY <1>1, <1>9, KindPhases DEF Smooth, New, Kept
  <2>2. ASSUME Smooth PROVE dest' = obj
    <3>1. whole /\ ~bad /\ New
      BY <1>2, <2>2, SmoothNow, CommitFacts DEF Smooth
    <3>2. <<>> \o Rest = Rest
      BY <1>8
    <3>3. /\ dest'.message = obj.message /\ dest'.tree = obj.tree
          /\ dest'.parents = obj.parents /\ dest'.author = obj.author
          /\ dest'.committer = obj.committer /\ dest'.encoding = obj.encoding
      BY <1>3, <1>8, <1>11, <3>1, <3>2 DEF Committed, Authored, Rooted
    <3> QED BY <1>4, <1>11, <3>3, CommitFields
  <2> QED BY <1>9, <2>1, <2>2 DEF SmoothInv
<1> QED BY <1>2, <1>9, <1>10, <1>11, <1>13, <1>14, CommitStep

\* Parsing a commit.
LEMMA CommitParses == ASSUME CodecInv, Commit PROVE CodecInv'
BY CommitTreeInv, CommitTreeKeyInv, CommitParentsInv, CommitParentInv, CommitAuthorInv,
   CommitCommitterInv, CommitCommitInv, CommitSeparatorInv, CommitEncodingInv,
   CommitMessageInv DEF Commit

-----------------------------------------------------------------------------
(* Tags: every step of the parser preserves the invariant.                 *)

\* What is known of a tag that is parsed.
LEMMA TagFacts ==
  ASSUME CodecInv, obj.kind = "tag"
  PROVE  /\ Common /\ TagInv /\ SmoothInv
         /\ IsTag(obj, Keys) /\ TagTokens(obj, Text(obj))
         /\ IsTag(dest, Keys \cup {None})
         /\ Len(Text(obj)) \in Nat /\ 14 <= Len(Text(obj))
         /\ PhasesOf(obj.kind) = TagPhases
<1>1. Common /\ DestOK /\ TagInv /\ SmoothInv
  BY DEF CodecInv, KindInv
<1>2. obj \in Subjects /\ IsTag(obj, Keys)
  BY SubjectAssumption DEF CodecInv, Common, IsObject
<1>3. Text(obj) = TagText(obj)
  BY DEF Text
<1>4. TagTokens(obj, Text(obj))
  BY <1>2, <1>3, TagWritten
<1>5. dest.kind = "tag" /\ IsTag(dest, Keys \cup {None})
  BY <1>1 DEF DestOK, IsObject
<1>6. Len(Text(obj)) \in Nat /\ 14 <= Len(Text(obj))
  <2>1. Len(obj.message) \in Nat
    BY <1>2 DEF IsTag
  <2>2. \/ Len(Text(obj)) = 14
        \/ Len(Text(obj)) = 15 + Len(obj.message)
    BY <1>4 DEF TagTokens
  <2>3. \A x, y \in Nat : x = 14 \/ x = 15 + y => 14 <= x
    OBVIOUS
  <2>4. Len(Text(obj)) \in Nat
    BY <2>1, <2>2
  <2> QED BY <2>1, <2>2, <2>3, <2>4
<1>7. PhasesOf(obj.kind) = TagPhases
  BY DEF PhasesOf
<1> QED BY <1>1, <1>2, <1>4, <1>5, <1>6, <1>7

\* What is to be shown of a step of the parser.
LEMMA TagStep ==
  ASSUME obj.kind = "tag", Kept, Common', TagInv', SmoothInv', IsTag(dest', Keys \cup {None})
  PROVE  CodecInv'
<1>1. dest'.kind = "tag" /\ obj'.kind = "tag"
  BY DEF IsTag, Kept
<1>2. DestOK'
  BY <1>1 DEF DestOK, IsObject
<1> QED BY <1>1, <1>2 DEF CodecInv, KindInv

\* A step that leaves the destination alone.
LEMMA TagStays ==
  ASSUME CodecInv, obj.kind = "tag", Kept, dest' = dest, Common', TagInv', SmoothInv'
  PROVE  CodecInv'
BY TagFacts, TagStep

\* A tag whose text can be read back is, as far as the place p, where the
\* parser is.
LEMMA TagReadable ==
  ASSUME CodecInv, obj.kind = "tag", phase \in TagPhases, NEW p \in 1 .. 14, At(p),
         whole => bad \/ pos > Len(Text(obj))
  PROVE  ~Smooth
<1> SUFFICES ASSUME Smooth PROVE FALSE
  OBVIOUS
<1>1. whole /\ ~bad
  BY SmoothNow, TagFacts
<1>2. pos = p
  BY <1>1 DEF At
<1>3. pos > Len(Text(obj))
  BY <1>1
<1>4. 14 <= Len(Text(obj)) /\ Len(Text(obj)) \in Nat
  BY TagFacts
<1> QED BY <1>2, <1>3, <1>4

\* The word "object".
LEMMA TagObjectInv == ASSUME CodecInv, TagObject PROVE CodecInv'
<1>1. phase = "tag" /\ Common
  BY DEF TagObject, Expect, CodecInv
<1>2. obj.kind = "tag" /\ phase \in TagPhases
  BY <1>1, PhaseKind DEF TagPhases
<1>3. At(1)
  BY <1>1, <1>2, TagFacts DEF TagInv
<1>4. Text(obj)[1].value = "object"
  BY <1>2, TagFacts DEF TagTokens
<1>5. "object key" \in PhasesOf(obj.kind)
  BY <1>2, TagFacts DEF TagPhases
<1>6. /\ Common' /\ Kept /\ dest' = dest
      /\ phase' = IF tmp' = "object" THEN "object key" ELSE "error"
      /\ \/ ~bad /\ ~bad' /\ pos' = pos + 1 /\ tmp' = Text(obj)[pos].value
         \/ bad' /\ tmp' = tmp /\ (whole => bad \/ pos > Len(Text(obj)))
  BY <1>1, <1>5, Expecting DEF TagObject
<1>7. TagInv' /\ (Smooth => phase' # "error" /\ ~bad')
  <2>1. CASE ~bad /\ ~bad' /\ pos' = pos + 1 /\ tmp' = Text(obj)[pos].value
    <3>1. pos = 1
      BY <1>3, <2>1 DEF At
    <3>2. pos' = 2 /\ tmp' = "object"
      BY <1>4, <2>1, <3>1
    <3>3. phase' = "object key"
      BY <1>6, <3>2
    <3> QED BY <2>1, <3>2, <3>3 DEF TagInv, At
  <2>2. CASE bad' /\ tmp' = tmp /\ (whole => bad \/ pos > Len(Text(obj)))
    <3>1. ~Smooth
      BY <1>2, <1>3, <2>2, TagReadable
    <3>2. TagInv'
      BY <1>6, <2>2 DEF TagInv, At
    <3> QED BY <3>1, <3>2
  <2> QED BY <1>6, <2>1, <2>2
<1>8. SmoothInv'
  <2>1. phase' # "done"
    BY <1>6
  <2> QED BY <1>6, <1>7, <2>1, SmoothStep
<1> QED BY <1>2, <1>6, <1>7, <1>8, TagStays

\* The word "type".
LEMMA TagTypeWordInv == ASSUME CodecInv, TagTypeWord PROVE CodecInv'
<1>1. phase = "type word" /\ Common
  BY DEF TagTypeWord, Expect, CodecInv
<1>2. obj.kind = "tag" /\ phase \in TagPhases
  BY <1>1, PhaseKind DEF TagPhases
<1>3. At(3) /\ tmp = "object" /\ (~bad => Aimed)
  BY <1>1, <1>2, TagFacts DEF TagInv
<1>4. Text(obj)[3].value = "type"
  BY <1>2, TagFacts DEF TagTokens
<1>5. "type" \in PhasesOf(obj.kind)
  BY <1>2, TagFacts DEF TagPhases
<1>6. /\ Common' /\ Kept /\ dest' = dest
      /\ phase' = IF tmp' = "type" THEN "type" ELSE "error"
      /\ \/ ~bad /\ ~bad' /\ pos' = pos + 1 /\ tmp' = Text(obj)[pos].value
         \/ bad' /\ tmp' = tmp /\ (whole => bad \/ pos > Len(Text(obj)))
  BY <1>1, <1>5, Expecting DEF TagTypeWord
<1>7. TagInv' /\ (Smooth => phase' # "error" /\ ~bad')
  <2>1. CASE ~bad /\ ~bad' /\ pos' = pos + 1 /\ tmp' = Text(obj)[pos].value
    <3>1. pos = 3
      BY <1>3, <2>1 DEF At
    <3>2. pos' = 4 /\ tmp' = "type"
      BY <1>4, <2>1, <3>1
    <3>3. phase' = "type"
      BY <1>6, <3>2
    <3>4. Aimed'
      BY <1>3, <1>6, <2>1 DEF Aimed, Typed, Named, Kept
    <3> QED BY <2>1, <3>2, <3>3, <3>4 DEF TagInv
  <2>2. CASE bad' /\ tmp' = tmp /\ (whole => bad \/ pos > Len(Text(obj)))
    <3>1. ~Smooth
      BY <1>2, <1>3, <2>2, TagReadable
    <3>2. phase' = "error"
      BY <1>3, <1>6, <2>2
    <3>3. TagInv'
      BY <3>2 DEF TagInv
    <3> QED BY <3>1, <3>3
  <2> QED BY <1>6, <2>1, <2>2
<1>8. SmoothInv'
  <2>1. phase' # "done"
    BY <1>6
  <2> QED BY <1>6, <1>7, <2>1, SmoothStep
<1> QED BY <1>2, <1>6, <1>7, <1>8, TagStays

\* The word "tag".
LEMMA TagWordInv == ASSUME CodecInv, TagWord PROVE CodecInv'
<1>1. phase = "tag word" /\ Common
  BY DEF TagWord, Expect, CodecInv
<1>2. obj.kind = "tag" /\ phase \in TagPhases
  BY <1>1, PhaseKind DEF TagPhases
<1>3. At(5) /\ tmp = "type" /\ Aimed /\ (~bad => Typed)
  BY <1>1, <1>2, TagFacts DEF TagInv
<1>4. Text(obj)[5].value = "tag"
  BY <1>2, TagFacts DEF TagTokens
<1>5. "name" \in PhasesOf(obj.kind)
  BY <1>2, TagFacts DEF TagPhases
<1>6. /\ Common' /\ Kept /\ dest' = dest
      /\ phase' = IF tmp' = "tag" THEN "name" ELSE "error"
      /\ \/ ~bad /\ ~bad' /\ pos' = pos + 1 /\ tmp' = Text(obj)[pos].value
         \/ bad' /\ tmp' = tmp /\ (whole => bad \/ pos > Len(Text(obj)))
  BY <1>1, <1>5, Expecting DEF TagWord
<1>7. TagInv' /\ (Smooth => phase' # "error" /\ ~bad')
  <2>1. CASE ~bad /\ ~bad' /\ pos' = pos + 1 /\ tmp' = Text(obj)[pos].value
    <3>1. pos = 5
      BY <1>3, <2>1 DEF At
    <3>2. pos' = 6 /\ tmp' = "tag"
      BY <1>4, <2>1, <3>1
    <3>3. phase' = "name"
      BY <1>6, <3>2
    <3>4. Typed'
      BY <1>3, <1>6, <2>1 DEF Aimed, Typed, Named, Kept
    <3> QED BY <2>1, <3>2, <3>3, <3>4 DEF TagInv
  <2>2. CASE bad' /\ tmp' = tmp /\ (whole => bad \/ pos > Len(Text(obj)))
    <3>1. ~Smooth
      BY <1>2, <1>3, <2>2, TagReadable
    <3>2. phase' = "error"
      BY <1>3, <1>6, <2>2
    <3>3. TagInv'
      BY <3>2 DEF TagInv
    <3> QED BY <3>1, <3>3
  <2> QED BY <1>6, <2>1, <2>2
<1>8. SmoothInv'
  <2>1. phase' # "done"
    BY <1>6
  <2> QED BY <1>6, <1>7, <2>1, SmoothStep
<1> QED BY <1>2, <1>6, <1>7, <1>8, TagStays

\* The word "tagger".
LEMMA TagTaggerWordInv == ASSUME CodecInv, TagTaggerWord PROVE CodecInv'
<1>1. phase = "tagger word" /\ Common
  BY DEF TagTaggerWord, Expect, CodecInv
<1>2. obj.kind = "tag" /\ phase \in TagPhases
  BY <1>1, PhaseKind DEF TagPhases
<1>3. At(7) /\ tmp = "tag" /\ Typed /\ (~bad => Named)
  BY <1>1, <1>2, TagFacts DEF TagInv
<1>4. Text(obj)[7].value = "tagger"
  BY <1>2, TagFacts DEF TagTokens
<1>5. "tagger" \in PhasesOf(obj.kind)
  BY <1>2, TagFacts DEF TagPhases
<1>6. /\ Common' /\ Kept /\ dest' = dest
      /\ phase' = IF tmp' = "tagger" THEN "tagger" ELSE "error"
      /\ \/ ~bad /\ ~bad' /\ pos' = pos + 1 /\ tmp' = Text(obj)[pos].value
         \/ bad' /\ tmp' = tmp /\ (whole => bad \/ pos > Len(Text(obj)))
  BY <1>1, <1>5, Expecting DEF TagTaggerWord
<1>7. TagInv' /\ (Smooth => phase' # "error" /\ ~bad')
  <2>1. CASE ~bad /\ ~bad' /\ pos' = pos + 1 /\ tmp' = Text(obj)[pos].value
    <3>1. pos = 7
      BY <1>3, <2>1 DEF At
    <3>2. pos' = 8 /\ tmp' = "tagger"
      BY <1>4, <2>1, <3>1
    <3>3. phase' = "tagger"
      BY <1>6, <3>2
    <3>4. Named'
      BY <1>3, <1>6, <2>1 DEF Aimed, Typed, Named, Kept
    <3> QED BY <2>1, <3>2, <3>3, <3>4 DEF TagInv
  <2>2. CASE bad' /\ tmp' = tmp /\ (whole => bad \/ pos > Len(Text(obj)))
    <3>1. ~Smooth
      BY <1>2, <1>3, <2>2, TagReadable
    <3>2. phase' = "error"
      BY <1>3, <1>6, <2>2
    <3>3. TagInv'
      BY <3>2 DEF TagInv
    <3> QED BY <3>1, <3>3
  <2> QED BY <1>6, <2>1, <2>2
<1>8. SmoothInv'
  <2>1. phase' # "done"
    BY <1>6
  <2> QED BY <1>6, <1>7, <2>1, SmoothStep
<1> QED BY <1>2, <1>6, <1>7, <1>8, TagStays

\* The key of the tag's object.
LEMMA TagObjectKeyInv == ASSUME CodecInv, TagObjectKey PROVE CodecInv'
<1>1. phase = "object key" /\ Common
  BY DEF TagObjectKey, Key, CodecInv
<1>2. obj.kind = "tag" /\ phase \in TagPhases
  BY <1>1, PhaseKind DEF TagPhases
<1>3. At(2) /\ tmp = "object"
  BY <1>1, <1>2, TagFacts DEF TagInv
<1>4. Text(obj)[2].value = ToHex(obj.object) /\ obj.object \in Seq(Byte)
  BY <1>2, TagFacts DEF TagTokens, IsTag, Keys
<1>5. "type word" \in PhasesOf(obj.kind) /\ IsTag(dest, Keys \cup {None})
  BY <1>2, TagFacts DEF TagPhases
<1>6. /\ Common' /\ Kept /\ tmp' = tmp /\ phase' = "type word"
      /\ \/ /\ ~bad /\ ~bad' /\ pos' = pos + 1
            /\ dest' = [dest EXCEPT !["object"] = FromHex(Text(obj)[pos].value)]
         \/ /\ bad' /\ dest' = [dest EXCEPT !["object"] = None]
            /\ whole => bad \/ pos > Len(Text(obj))
  BY <1>1, <1>5, Keyed DEF TagObjectKey
<1>7. CASE /\ ~bad /\ ~bad' /\ pos' = pos + 1
           /\ dest' = [dest EXCEPT !["object"] = FromHex(Text(obj)[pos].value)]
  <2>1. pos' = 3 /\ dest' = [dest EXCEPT !["object"] = obj.object]
    <3>1. pos = 2
      BY <1>3, <1>7 DEF At
    <3>2. FromHex(Text(obj)[pos].value) = obj.object
      BY <1>4, <3>1, HexInverse
    <3> QED BY <1>7, <3>1, <3>2
  <2>2. IsTag(dest', Keys \cup {None}) /\ dest'.object = obj.object
    BY <1>4, <1>5, <2>1 DEF IsTag, Keys
  <2>3. Aimed'
    BY <1>6, <2>2 DEF Aimed, Kept
  <2>4. TagInv'
    BY <1>3, <1>6, <2>1, <2>3 DEF TagInv, At
  <2>5. SmoothInv'
    BY <1>6, <1>7, SmoothStep
  <2> QED BY <1>2, <1>6, <2>2, <2>4, <2>5, TagStep
<1>8. CASE /\ bad' /\ dest' = [dest EXCEPT !["object"] = None]
           /\ whole => bad \/ pos > Len(Text(obj))
  <2>1. ~Smooth
    BY <1>2, <1>3, <1>8, TagReadable
  <2>2. IsTag(dest', Keys \cup {None})
    BY <1>5, <1>8 DEF IsTag
  <2>3. TagInv'
    BY <1>3, <1>6, <1>8 DEF TagInv, At
  <2>4. SmoothInv'
    BY <1>6, <1>8, <2>1, SmoothStep
  <2> QED BY <1>2, <1>6, <2>2, <2>3, <2>4, TagStep
<1> QED BY <1>6, <1>7, <1>8

\* The type of the tag's object; no type throws unless there is no object.
LEMMA TagTypeInv == ASSUME CodecInv, TagType PROVE CodecInv'
<1>1. phase = "type" /\ Common
  BY DEF TagType, CodecInv
<1>2. obj.kind = "tag" /\ phase \in TagPhases
  BY <1>1, PhaseKind DEF TagPhases
<1>3. ~bad /\ pos = 4 /\ tmp = "type" /\ Aimed
  BY <1>1, <1>2, TagFacts DEF TagInv
<1>4. /\ Text(obj)[4].value = obj.target
      /\ obj.target \in {"none", "commit", "tag", "tree", "blob"}
  BY <1>2, TagFacts DEF TagTokens, IsTag
<1>5. "tag word" \in PhasesOf(obj.kind) /\ IsTag(dest, Keys \cup {None})
  BY <1>2, TagFacts DEF TagPhases
<1> DEFINE type == IF More(1) THEN Here(1) ELSE "none"
<1>6. /\ Kept /\ elem' = elem /\ tmp' = tmp
      /\ dest' = [dest EXCEPT !.target = type]
      /\ phase' = IF type = "none" /\ dest.object # NullKey THEN "error" ELSE "tag word"
      /\ IF More(1) THEN Skip(1) /\ UNCHANGED bad ELSE bad' = TRUE /\ UNCHANGED pos
  BY DEF TagType, Kept, input
<1>7. elem'.mode \in Modes /\ phase' \in {"done", "error"} \cup PhasesOf(obj.kind)
  BY <1>1, <1>5, <1>6 DEF Common
<1>8. /\ Common'
      /\ \/ /\ More(1) /\ ~bad /\ ~bad' /\ pos' = pos + 1
            /\ Here(1) = Text(obj)[pos].value /\ pos <= Len(Text(obj))
         \/ /\ ~More(1) /\ bad' /\ pos' = pos
            /\ whole => bad \/ pos > Len(Text(obj))
  BY <1>1, <1>6, <1>7, Taking
<1>9. (More(1) => type = obj.target) /\ (~More(1) => type = "none")
  BY <1>3, <1>4, <1>8
<1> HIDE DEF type
<1>10. /\ IsTag(dest', Keys \cup {None}) /\ dest'.object = dest.object
       /\ dest'.target = type
  <2>1. type \in {"none", "commit", "tag", "tree", "blob"}
    BY <1>4, <1>9
  <2> QED BY <1>5, <1>6, <2>1 DEF IsTag
<1>11. Aimed'
  BY <1>3, <1>6, <1>10 DEF Aimed, Kept
<1>12. Smooth => More(1)
  <2>1. ~More(1) => ~Smooth
    BY <1>2, <1>3, <1>8, TagReadable DEF At
  <2> QED BY <2>1
<1>13. TagInv'
  <2>1. CASE phase' = "error"
    BY <2>1 DEF TagInv
  <2>2. CASE phase' = "tag word"
    <3>1. ~bad' => More(1) /\ pos' = 5
      BY <1>3, <1>8
    <3>2. ~bad' => Typed'
      BY <1>6, <1>9, <1>10, <1>11, <3>1 DEF Typed, Kept
    <3> QED BY <1>3, <1>6, <1>11, <2>2, <3>1, <3>2 DEF TagInv, At
  <2> QED BY <1>6, <2>1, <2>2
<1>14. Smooth => phase' # "error" /\ ~bad'
  <2> SUFFICES ASSUME Smooth PROVE phase' # "error" /\ ~bad'
    OBVIOUS
  <2>1. More(1) /\ ~bad' /\ type = obj.target
    BY <1>8, <1>9, <1>12
  <2>2. obj.target = "none" => obj.object = NullKey
    BY <1>2 DEF Smooth, Representable
  <2>3. dest.object = obj.object
    BY <1>3 DEF Aimed
  <2> QED BY <1>6, <2>1, <2>2, <2>3
<1>15. SmoothInv'
  <2>1. phase' # "done"
    BY <1>6
  <2> QED BY <1>6, <1>14, <2>1, SmoothStep
<1> QED BY <1>2, <1>6, <1>8, <1>10, <1>13, <1>15, TagStep

\* The tag's name, which stays when it cannot be read.
LEMMA TagNameInv == ASSUME CodecInv, TagName PROVE CodecInv'
<1>1. phase = "name" /\ Common
  BY DEF TagName, CodecInv
<1>2. obj.kind = "tag" /\ phase \in TagPhases
  BY <1>1, PhaseKind DEF TagPhases
<1>3. ~bad /\ pos = 6 /\ tmp = "tag" /\ Typed
  BY <1>1, <1>2, TagFacts DEF TagInv
<1>4. Text(obj)[6].value = obj.name /\ obj.name \in Strings
  BY <1>2, TagFacts DEF TagTokens, IsTag
<1>5. "tagger word" \in PhasesOf(obj.kind) /\ IsTag(dest, Keys \cup {None})
  BY <1>2, TagFacts DEF TagPhases
<1>6. /\ Kept /\ elem' = elem /\ tmp' = tmp /\ phase' = "tagger word"
      /\ dest' = IF More(1) THEN [dest EXCEPT !.name = Here(1)] ELSE dest
      /\ IF More(1) THEN Skip(1) /\ UNCHANGED bad ELSE bad' = TRUE /\ UNCHANGED pos
  BY DEF TagName, Kept, input
<1>7. elem'.mode \in Modes
  BY <1>1, <1>6 DEF Common
<1>8. /\ Common'
      /\ \/ /\ More(1) /\ ~bad /\ ~bad' /\ pos' = pos + 1
            /\ Here(1) = Text(obj)[pos].value /\ pos <= Len(Text(obj))
         \/ /\ ~More(1) /\ bad' /\ pos' = pos
            /\ whole => bad \/ pos > Len(Text(obj))
  BY <1>1, <1>5, <1>6, <1>7, Taking
<1>9. CASE More(1)
  <2>1. pos' = 7 /\ ~bad' /\ dest' = [dest EXCEPT !.name = obj.name]
    <3>1. pos' = pos + 1 /\ ~bad' /\ Here(1) = Text(obj)[pos].value
      BY <1>8, <1>9
    <3>2. pos' = 7 /\ Here(1) = obj.name
      BY <1>3, <1>4, <3>1
    <3> QED BY <1>6, <1>9, <3>1, <3>2
  <2>2. /\ IsTag(dest', Keys \cup {None}) /\ dest'.object = dest.object
        /\ dest'.target = dest.target /\ dest'.name = obj.name
    BY <1>4, <1>5, <2>1 DEF IsTag
  <2>3. Named'
    BY <1>3, <1>6, <2>2 DEF Named, Typed, Aimed, Kept
  <2>4. TagInv'
    BY <1>3, <1>6, <2>1, <2>3 DEF TagInv, At, Named
  <2>5. SmoothInv'
    BY <1>6, <2>1, SmoothStep
  <2> QED BY <1>2, <1>6, <1>8, <2>2, <2>4, <2>5, TagStep
<1>10. CASE ~More(1)
  <2>1. dest' = dest /\ bad' /\ (whole => bad \/ pos > Len(Text(obj)))
    BY <1>6, <1>8, <1>10
  <2>2. ~Smooth
    BY <1>2, <1>3, <2>1, TagReadable DEF At
  <2>3. Typed'
    BY <1>3, <1>6, <2>1 DEF Typed, Aimed, Kept
  <2>4. TagInv'
    BY <1>3, <1>6, <2>1, <2>3 DEF TagInv, At
  <2>5. SmoothInv'
    BY <1>6, <2>2, SmoothStep
  <2> QED BY <1>2, <1>6, <1>8, <2>1, <2>4, <2>5, TagStays
<1> QED BY <1>9, <1>10

\* The tagger, whose offset may fail the stream.
LEMMA TagTaggerInv == ASSUME CodecInv, TagTagger PROVE CodecInv'
<1>1. phase = "tagger" /\ Common
  BY DEF TagTagger, StampOrThrow, CodecInv
<1>2. obj.kind = "tag" /\ phase \in TagPhases
  BY <1>1, PhaseKind DEF TagPhases
<1>3. ~bad /\ pos = 8 /\ Named
  BY <1>1, <1>2, TagFacts DEF TagInv
<1>4. /\ Len(Text(obj)) \in Nat /\ 14 <= Len(Text(obj)) /\ obj.tagger \in Stamps
      /\ StampAt(Text(obj), 7, obj.tagger)
  BY <1>2, TagFacts DEF TagTokens, IsTag
<1>5. IsTag(dest, Keys \cup {None}) /\ "tag message" \in PhasesOf(obj.kind)
  BY <1>2, TagFacts DEF TagPhases
<1>6. dest["tagger"] \in Stamps
  BY <1>5 DEF IsTag
<1>7. Kept /\ obj' = obj
  BY DEF TagTagger, StampOrThrow, input, Kept
<1>8. 7 \in Nat /\ pos = 7 + 1 /\ pos + 5 <= Len(Text(obj)) /\ pos + 6 = 14
  BY <1>3, <1>4
<1>9. /\ Common' /\ tmp' = tmp
      /\ \/ phase' = "error" /\ dest' = dest /\ ~whole
         \/ /\ phase' = "tag message" /\ (~bad' => pos' = pos + 6)
            /\ \E s \in Stamps :
                 /\ dest' = [dest EXCEPT !["tagger"] = s]
                 /\ s.name = obj.tagger.name
                 /\ ~bad' => s = obj.tagger
            /\ whole /\ obj.tagger.zone > -ShortMax - 1 => ~bad'
  BY <1>1, <1>3, <1>4, <1>5, <1>6, <1>8, Stamped DEF TagTagger
<1>10. CASE phase' = "error" /\ dest' = dest /\ ~whole
  <2>1. TagInv'
    BY <1>10 DEF TagInv
  <2>2. SmoothInv'
    BY <1>7, <1>10, SmoothStep DEF Smooth
  <2> QED BY <1>2, <1>7, <1>9, <1>10, <2>1, <2>2, TagStays
<1>11. CASE /\ phase' = "tag message" /\ (~bad' => pos' = pos + 6)
            /\ \E s \in Stamps :
                 /\ dest' = [dest EXCEPT !["tagger"] = s]
                 /\ s.name = obj.tagger.name
                 /\ ~bad' => s = obj.tagger
            /\ whole /\ obj.tagger.zone > -ShortMax - 1 => ~bad'
  <2>1. PICK s \in Stamps :
          /\ dest' = [dest EXCEPT !["tagger"] = s] /\ s.name = obj.tagger.name
          /\ ~bad' => s = obj.tagger
    BY <1>11
  <2>2. /\ IsTag(dest', Keys \cup {None}) /\ dest'.object = dest.object
        /\ dest'.target = dest.target /\ dest'.name = dest.name
        /\ dest'.tagger.name = obj.tagger.name
        /\ ~bad' => dest'.tagger = obj.tagger
    BY <1>5, <2>1 DEF IsTag
  <2>3. Named' /\ (~bad' => Tagged')
    BY <1>3, <1>7, <2>2 DEF Aimed, Typed, Named, Tagged
  <2>4. At(14)'
    BY <1>8, <1>11 DEF At
  <2>5. TagInv'
    BY <1>7, <1>11, <2>2, <2>3, <2>4 DEF TagInv
  <2>6. Smooth => ~bad'
    BY <1>2, <1>11 DEF Smooth, Representable
  <2>7. SmoothInv'
    BY <1>7, <1>11, <2>6, SmoothStep
  <2> QED BY <1>2, <1>7, <1>9, <2>2, <2>5, <2>7, TagStep
<1> QED BY <1>9, <1>10, <1>11

\* The message behind the two newlines.
LEMMA TagRest ==
  ASSUME Common, pos = 14, More(2), TagTokens(obj, Text(obj)), obj.message \in Seq(Strings)
  PROVE  /\ SubSeq(Rest, 3, Len(Rest)) \in Seq(Strings)
         /\ whole => SubSeq(Rest, 3, Len(Rest)) = obj.message
<1> DEFINE l == Len(obj.message)
           r == Rest
           s == SubSeq(r, 3, Len(r))
<1>1. /\ Len(text) \in Nat /\ 15 <= Len(text) /\ Len(text) <= Len(Text(obj))
      /\ whole => Len(text) = Len(Text(obj))
  <2> DEFINE a == Len(text)
             b == Len(Text(obj))
  <2>1. a \in Nat /\ b \in Nat /\ a <= b /\ (whole => a = b)
    BY TextBounds
  <2>2. 14 + 2 - 1 <= a
    BY DEF More
  <2> HIDE DEF a, b
  <2>3. 15 <= a
    BY <2>1, <2>2
  <2> QED BY <2>1, <2>3 DEF a, b
<1>2. l \in Nat /\ Len(Text(obj)) = 15 + l
  <2>1. Len(Text(obj)) = IF obj.message = <<>> THEN 14 ELSE 15 + l
    BY DEF TagTokens
  <2>2. l \in Nat
    OBVIOUS
  <2> HIDE DEF l
  <2> DEFINE b == Len(Text(obj))
  <2>3. b \in Nat /\ Len(text) <= b
    BY TextBounds
  <2>4. 15 <= b
    <3> HIDE DEF b
    <3> QED BY <1>1, <2>3
  <2>5. b # 14
    <3> HIDE DEF b
    <3> QED BY <2>3, <2>4
  <2> QED BY <2>1, <2>2, <2>5
<1>3. r = [i \in 1 .. Len(text) - 13 |-> text[i + 13].value]
  <2>1. Len(text) - pos + 1 = Len(text) - 13
    BY <1>1
  <2>2. \A i \in 1 .. Len(text) - 13 : pos + i - 1 = i + 13
    OBVIOUS
  <2> QED BY <2>1, <2>2 DEF Rest
<1> HIDE DEF r
<1>4. Len(r) = Len(text) - 13 /\ Len(text) - 13 \in Nat
  BY <1>1, <1>3
<1> DEFINE k == Len(text) - 15
<1>5. k \in 0 .. l /\ (whole => k = l)
  BY <1>1, <1>2
<1>6. ASSUME NEW i \in 3 .. Len(r)
      PROVE  /\ r[i] = obj.message[i - 2] /\ i - 2 \in 1 .. l /\ i - 2 \in 1 .. k
             /\ obj.message[i - 2] \in Strings
  <2>1. /\ i \in 1 .. Len(text) - 13 /\ i + 13 \in 1 .. Len(text) /\ i - 2 \in 1 .. k
        /\ i - 2 \in 1 .. l /\ 15 + (i - 2) = i + 13
    BY <1>1, <1>4, <1>5
  <2>2. text[i + 13] = Text(obj)[i + 13]
    BY <2>1 DEF Common, TextOK
  <2>3. Text(obj)[15 + (i - 2)].value = obj.message[i - 2]
    BY <2>1 DEF TagTokens
  <2> QED BY <1>3, <2>1, <2>2, <2>3
<1>7. 3 \in Int /\ Len(r) \in Int
  BY <1>4
<1>8. /\ s \in Seq(Strings)
      /\ Len(s) = IF 3 <= Len(r) THEN Len(r) - 3 + 1 ELSE 0
      /\ \A i \in 1 .. Len(r) - 3 + 1 : s[i] = r[3 + i - 1]
  <2>1. \A i \in 3 .. Len(r) : r[i] \in Strings
    BY <1>6
  <2> QED BY <1>7, <2>1, SubSeqProperties
<1> HIDE DEF s
<1>9. Len(s) = k
  BY <1>1, <1>4, <1>8
<1>10. ASSUME NEW i \in 1 .. k PROVE s[i] = obj.message[i]
  <2>1. i \in 1 .. Len(r) - 3 + 1 /\ 3 + i - 1 \in 3 .. Len(r) /\ 3 + i - 1 - 2 = i
    BY <1>1, <1>4
  <2> QED BY <1>6, <1>8, <2>1
<1>11. whole => s = obj.message
  <2> HIDE DEF k, l
  <2> SUFFICES ASSUME whole PROVE s = obj.message
    OBVIOUS
  <2>1. Len(s) = Len(obj.message) /\ \A i \in 1 .. Len(s) : s[i] = obj.message[i]
    BY <1>5, <1>9, <1>10 DEF l
  <2> QED BY <1>8, <2>1
<1> QED BY <1>8, <1>11 DEF s, r

\* A tag is what its fields are.
LEMMA TagFields ==
  ASSUME NEW c, NEW d, NEW keys, IsTag(c, Keys), IsTag(d, keys),
         d.object = c.object, d.target = c.target, d.name = c.name,
         d.tagger = c.tagger, d.message = c.message
  PROVE  d = c
<1>1. c = [kind |-> "tag", object |-> c.object, target |-> c.target,
           name |-> c.name, tagger |-> c.tagger, message |-> c.message]
  BY DEF IsTag
<1>2. d = [kind |-> "tag", object |-> d.object, target |-> d.target,
           name |-> d.name, tagger |-> d.tagger, message |-> d.message]
  BY DEF IsTag
<1> QED BY <1>1, <1>2

\* A negation is a truth value.
LEMMA BoolNot == \A p, q : q = ~p => q \in BOOLEAN
OBVIOUS

\* The message replaces what was there, and the parser ends.
LEMMA TagMessageInv == ASSUME CodecInv, TagMessage PROVE CodecInv'
<1>1. phase = "tag message" /\ Common
  BY DEF TagMessage, CodecInv
<1>2. obj.kind = "tag" /\ phase \in TagPhases
  BY <1>1, PhaseKind DEF TagPhases
<1>3. At(14) /\ Named /\ dest.tagger.name = obj.tagger.name /\ (~bad => Tagged)
  BY <1>1, <1>2, TagFacts DEF TagInv
<1>4. /\ IsTag(obj, Keys) /\ TagTokens(obj, Text(obj)) /\ IsTag(dest, Keys \cup {None})
      /\ obj.message \in Seq(Strings)
  BY <1>2, TagFacts DEF IsTag
<1> DEFINE m == IF More(2) THEN SubSeq(Rest, 3, Len(Rest)) ELSE <<>>
<1>5. /\ Kept /\ elem' = elem /\ phase' = "done" /\ bad' = ~More(2) /\ pos' = Len(text) + 1
      /\ dest' = [dest EXCEPT !.message = m]
  BY DEF TagMessage, input, Kept
<1>6. m \in Seq(Strings) /\ (Smooth => m = obj.message)
  <2>1. CASE More(2)
    <3>1. pos = 14
      BY <1>3, <2>1 DEF At, More
    <3> QED BY <1>1, <1>4, <2>1, <3>1, TagRest DEF Smooth
  <2>2. CASE ~More(2)
    <3>1. ASSUME Smooth PROVE obj.message = <<>>
      <4>1. whole /\ ~bad
        BY <1>2, <3>1, SmoothNow, TagFacts
      <4>2. pos = 14
        BY <1>3, <4>1 DEF At
      <4>3. Len(text) = Len(Text(obj)) /\ Len(text) \in Nat
        BY <1>1, <4>1, TextBounds
      <4>4. ~(15 <= Len(Text(obj)))
        <5>1. ~(pos + 2 - 1 <= Len(text))
          BY <2>2, <4>1 DEF More
        <5>2. pos + 2 - 1 = 15
          BY <4>2
        <5>3. ~(15 <= Len(text))
          BY <5>1, <5>2
        <5> QED BY <4>3, <5>3
      <4>5. Len(obj.message) \in Nat
        BY <1>4
      <4>6. Len(Text(obj)) = IF obj.message = <<>> THEN 14 ELSE 15 + Len(obj.message)
        BY <1>4 DEF TagTokens
      <4> QED BY <4>4, <4>5, <4>6
    <3> QED BY <2>2, <3>1
  <2> QED BY <2>1, <2>2
<1> HIDE DEF m
<1>7. Common'
  <2>1. elem'.mode \in Modes /\ Len(text) \in Nat
    BY <1>1, <1>5, TextBounds DEF Common
  <2>2. pos' \in 1 .. Len(text) + 1
    BY <1>5, <2>1
  <2>3. bad' \in BOOLEAN
    BY <1>5, BoolNot
  <2> QED BY <1>1, <1>5, <2>1, <2>2, <2>3, CommonStep
<1>8. /\ IsTag(dest', Keys \cup {None}) /\ dest'.message = m
      /\ dest'.object = dest.object /\ dest'.target = dest.target
      /\ dest'.name = dest.name /\ dest'.tagger = dest.tagger
  BY <1>4, <1>5, <1>6 DEF IsTag
<1>9. (Named /\ dest.tagger.name = obj.tagger.name /\ (~bad => Tagged))'
  <2>1. ~bad' => ~bad
    BY <1>5 DEF More
  <2> QED BY <1>3, <1>5, <1>8, <2>1 DEF Tagged, Named, Typed, Aimed, Kept
<1>10. TagInv'
  BY <1>5, <1>9 DEF TagInv
<1>11. SmoothInv'
  <2>1. (Smooth' <=> Smooth) /\ "done" \notin PhasesOf(obj.kind) /\ obj' = obj
    BY <1>1, <1>5, KindPhases DEF Smooth, New, Kept
  <2>2. ASSUME Smooth PROVE dest' = obj
    <3>1. whole /\ ~bad
      BY <1>2, <2>2, SmoothNow, TagFacts
    <3>2. /\ dest'.message = obj.message /\ dest'.object = obj.object
          /\ dest'.target = obj.target /\ dest'.name = obj.name
          /\ dest'.tagger = obj.tagger
      BY <1>3, <1>6, <1>8, <2>2, <3>1 DEF Tagged, Named, Typed, Aimed
    <3> QED BY <1>4, <1>8, <3>2, TagFields
  <2> QED BY <1>5, <2>1, <2>2 DEF SmoothInv
<1> QED BY <1>2, <1>5, <1>7, <1>8, <1>10, <1>11, TagStep

\* Parsing a tag.
LEMMA TagParses == ASSUME CodecInv, Tag PROVE CodecInv'
BY TagObjectInv, TagObjectKeyInv, TagTypeWordInv, TagTypeInv, TagWordInv, TagNameInv,
   TagTaggerWordInv, TagTaggerInv, TagMessageInv DEF Tag

-----------------------------------------------------------------------------
(* Trees: every step of the parser preserves the invariant.                *)

\* What is known of a tree that is parsed.
LEMMA TreeFacts ==
  ASSUME CodecInv, obj.kind = "tree"
  PROVE  /\ Common /\ TreeInv /\ SmoothInv
         /\ IsWritten(obj) /\ Text(obj) = TreeText(obj)
         /\ IsTree(dest, Keys \cup {None})
         /\ PhasesOf(obj.kind) = TreePhases
<1>1. Common /\ DestOK /\ TreeInv /\ SmoothInv
  BY DEF CodecInv, KindInv
<1>2. obj \in Subjects /\ IsWritten(obj)
  BY SubjectAssumption DEF CodecInv, Common, IsObject, IsWritten
<1>3. Text(obj) = TreeText(obj)
  BY DEF Text
<1>4. dest.kind = "tree" /\ IsTree(dest, Keys \cup {None})
  BY <1>1 DEF DestOK, IsObject
<1>5. PhasesOf(obj.kind) = TreePhases
  BY DEF PhasesOf
<1> QED BY <1>1, <1>2, <1>3, <1>4, <1>5

\* What is to be shown of a step of the parser.
LEMMA TreeStep ==
  ASSUME obj.kind = "tree", Kept, Common', TreeInv', SmoothInv', IsTree(dest', Keys \cup {None})
  PROVE  CodecInv'
<1>1. dest'.kind = "tree" /\ obj'.kind = "tree"
  BY DEF IsTree, Kept
<1>2. DestOK'
  BY <1>1 DEF DestOK, IsObject
<1> QED BY <1>1, <1>2 DEF CodecInv, KindInv

\* A step that leaves the destination alone.
LEMMA TreeStays ==
  ASSUME CodecInv, obj.kind = "tree", Kept, dest' = dest, Common', TreeInv', SmoothInv'
  PROVE  CodecInv'
BY TreeFacts, TreeStep

\* The places of element j: its digits, the space, the name and the key.
LEMMA ElementPlaces ==
  ASSUME IsWritten(obj), Text(obj) = TreeText(obj),
         NEW j \in 1 .. Elements(obj), NEW a, a = End(obj, j - 1),
         NEW e, e = ElementAt(obj, j), NEW d, d = ModeLength(e), NEW l, l = Len(Text(obj))
  PROVE  /\ a \in Nat /\ l \in Nat /\ d \in 5 .. 6 /\ End(obj, j) = a + d + 3 /\ a + d + 3 <= l
         /\ e \in [mode : Modes, key : Keys] /\ e = obj.elements[NameAt(obj, j)]
         /\ NameAt(obj, j) \in Nat
         /\ \A i \in 1 .. d : /\ Text(obj)[a + i].kind = "digit"
                              /\ Text(obj)[a + i].value = ModeDigits(e.mode)[i]
         /\ Text(obj)[a + d + 1].kind = "space"
         /\ Text(obj)[a + d + 2].value = NameAt(obj, j)
         /\ Text(obj)[a + d + 3].value = e.key
<1> DEFINE n == Elements(obj)
<1>1. /\ n \in Nat /\ \A k \in 0 .. n : End(obj, k) \in 0 .. Len(TreeText(obj))
      /\ e = obj.elements[NameAt(obj, j)] /\ NameAt(obj, j) \in Nat
      /\ e \in [mode : Modes, key : Keys] /\ d \in 5 .. 6
      /\ End(obj, j) = a + d + 3
      /\ ElementTokens(TreeText(obj), a, NameAt(obj, j), e)
  BY TreeWritten
<1>2. j - 1 \in 0 .. n /\ j \in 0 .. n
  BY <1>1
<1>3. a \in 0 .. l /\ End(obj, j) \in 0 .. l
  BY <1>1, <1>2
<1>4. l \in Nat
  <2>1. l \in Int
    OBVIOUS
  <2> QED BY <1>3, <2>1
<1>5. a \in Nat /\ End(obj, j) <= l
  BY <1>3, <1>4
<1>6. /\ \A i \in 1 .. d : Text(obj)[a + i] = Token("digit", ModeDigits(e.mode)[i])
      /\ Text(obj)[a + d + 1] = Space
      /\ Text(obj)[a + d + 2] = Token("text", NameAt(obj, j))
      /\ Text(obj)[a + d + 3] = Token("bytes", e.key)
  BY <1>1 DEF ElementTokens
<1>7. /\ \A i \in 1 .. d : /\ Text(obj)[a + i].kind = "digit"
                          /\ Text(obj)[a + i].value = ModeDigits(e.mode)[i]
      /\ Text(obj)[a + d + 1].kind = "space"
      /\ Text(obj)[a + d + 2].value = NameAt(obj, j)
      /\ Text(obj)[a + d + 3].value = e.key
  <2>1. (\A k, v : Token(k, v).kind = k /\ Token(k, v).value = v) /\ Space.kind = "space"
    BY DEF Token, Space
  <2>2. \A i \in 1 .. d : /\ Text(obj)[a + i].kind = "digit"
                         /\ Text(obj)[a + i].value = ModeDigits(e.mode)[i]
    BY <1>6, <2>1
  <2>3. /\ Text(obj)[a + d + 1].kind = "space"
        /\ Text(obj)[a + d + 2].value = NameAt(obj, j)
        /\ Text(obj)[a + d + 3].value = e.key
    BY <1>6, <2>1
  <2> QED BY <2>2, <2>3
<1> QED BY <1>1, <1>4, <1>5, <1>7

\* The text ends behind the last element, and no sooner.
LEMMA LastElement ==
  ASSUME IsWritten(obj), Text(obj) = TreeText(obj), NEW j \in 0 .. Elements(obj)
  PROVE  /\ Elements(obj) \in Nat /\ End(obj, j) \in Nat
         /\ End(obj, j) + 1 <= Len(Text(obj)) => j + 1 \in 1 .. Elements(obj)
         /\ End(obj, j) + 1 > Len(Text(obj)) => j = Elements(obj)
<1> DEFINE n == Elements(obj)
           l == Len(Text(obj))
           a == End(obj, j)
<1>1. n \in Nat /\ End(obj, n) = l /\ a \in 0 .. l
  BY TreeWritten
<1>2. l \in Int
  OBVIOUS
<1>3. a \in Nat
  BY <1>1, <1>2
<1>4. CASE j = n
  <2>1. ~(a + 1 <= l)
    BY <1>1, <1>2, <1>4
  <2> QED BY <1>1, <1>3, <1>4, <2>1
<1>5. CASE j # n
  <2>1. j + 1 \in 1 .. n /\ j + 1 - 1 = j
    BY <1>1, <1>5
  <2> DEFINE d == ModeLength(ElementAt(obj, j + 1))
  <2>2. d \in 5 .. 6 /\ a + d + 3 <= l
    BY <2>1, ElementPlaces
  <2>3. ~(a + 1 > l)
    <3> HIDE DEF d, a, l
    <3> QED BY <1>2, <1>3, <2>2
  <2> QED BY <1>1, <1>3, <2>1, <2>3
<1> QED BY <1>4, <1>5

\* The names of one element more.
LEMMA NextName ==
  ASSUME IsWritten(obj), NEW j \in 1 .. Elements(obj)
  PROVE  /\ NameAt(obj, j) \notin Names(obj, j - 1)
         /\ Names(obj, j) = Names(obj, j - 1) \cup {NameAt(obj, j)}
         /\ \A i \in 1 .. j - 1 : /\ NameAt(obj, i) \in Names(obj, j - 1)
                                  /\ NameAt(obj, i) # NameAt(obj, j)
<1>1. Elements(obj) \in Nat
      /\ \A h, i \in 1 .. Elements(obj) : NameAt(obj, h) = NameAt(obj, i) => h = i
  BY NamesOrdered
<1>2. \A i \in 1 .. j - 1 : i \in 1 .. Elements(obj) /\ i # j /\ i \in 1 .. j
  BY <1>1
<1>3. \A i \in 1 .. j - 1 : NameAt(obj, i) # NameAt(obj, j)
  BY <1>1, <1>2
<1>4. \A i \in 1 .. j : i \in 1 .. j - 1 \/ i = j
  BY <1>1
<1>5. j \in 1 .. j
  BY <1>1
<1> QED BY <1>2, <1>3, <1>4, <1>5 DEF Names

\* Nothing is read of a tree at first.
LEMMA NothingRead ==
  ASSUME IsWritten(obj), New => dest.elements = <<>>
  PROVE  0 \in 0 .. Elements(obj) /\ End(obj, 0) = 0 /\ ElementsRead(0, {})
<1>1. Elements(obj) \in Nat /\ End(obj, 0) = 0
  BY TreeWritten
<1>2. ~(\E i \in 1 .. 0 : TRUE) /\ DOMAIN <<>> = {}
  OBVIOUS
<1>3. Names(obj, 0) = {}
  BY <1>2 DEF Names
<1>4. ElementsRead(0, {})
  <2> SUFFICES ASSUME New
               PROVE  /\ DOMAIN dest.elements = {}
                      /\ \A i \in 1 .. 0 : FALSE
    BY <1>2, <1>3 DEF ElementsRead
  <2> QED BY <1>2
<1> QED BY <1>1, <1>4

\* What is read stays so when the destination does.
LEMMA StaysRead ==
  ASSUME Kept, dest' = dest, NEW j, NEW lost
  PROVE  /\ ElementsRead(j, lost) => ElementsRead(j, lost)'
         /\ Lost(j, lost) => Lost(j, lost)'
BY DEF Kept, ElementsRead, Lost, New, Names, NameAt, ElementAt, Representable

\* A tree is what its elements are.
LEMMA TreeFields ==
  ASSUME IsWritten(obj), IsTree(dest, Keys \cup {None}), New, Representable(obj),
         ElementsRead(Elements(obj), {})
  PROVE  dest = obj
<1> DEFINE n == Elements(obj)
<1>1. /\ Names(obj, n) = DOMAIN obj.elements /\ DOMAIN dest.elements = DOMAIN obj.elements
      /\ \A i \in 1 .. n :
           /\ dest.elements[NameAt(obj, i)].key = obj.elements[NameAt(obj, i)].key
           /\ dest.elements[NameAt(obj, i)].mode = obj.elements[NameAt(obj, i)].mode
  BY NamesOrdered DEF ElementsRead, ElementAt
<1>2. ASSUME NEW x \in DOMAIN obj.elements PROVE dest.elements[x] = obj.elements[x]
  <2>1. PICK i \in 1 .. n : x = NameAt(obj, i)
    BY <1>1 DEF Names
  <2>2. /\ dest.elements[x] \in [mode : Modes, key : Keys \cup {None}]
        /\ obj.elements[x] \in [mode : Modes, key : Keys]
    BY <1>1 DEF IsTree, IsWritten
  <2> DEFINE p == dest.elements[x]
             q == obj.elements[x]
  <2>3. p.key = q.key /\ p.mode = q.mode
    BY <1>1, <2>1
  <2> HIDE DEF p, q
  <2>4. /\ p = [mode |-> p.mode, key |-> p.key]
        /\ q = [mode |-> q.mode, key |-> q.key]
    BY <2>2 DEF p, q
  <2> QED BY <2>3, <2>4 DEF p, q
<1>3. /\ dest.elements = [x \in DOMAIN dest.elements |-> dest.elements[x]]
      /\ obj.elements = [x \in DOMAIN obj.elements |-> obj.elements[x]]
  BY DEF IsTree, IsWritten
<1>4. dest.elements = obj.elements
  BY <1>1, <1>2, <1>3
<1>5. /\ dest = [kind |-> "tree", elements |-> dest.elements]
      /\ obj = [kind |-> "tree", elements |-> obj.elements]
  BY DEF IsTree, IsWritten
<1> QED BY <1>4, <1>5

\* At the end of an element: the next one's first digit, or the end.
LEMMA TreeNextInv == ASSUME CodecInv, TreeNext PROVE CodecInv'
<1>1. phase = "tree" /\ Common
  BY DEF TreeNext, CodecInv
<1>2. obj.kind = "tree" /\ phase \in TreePhases
  BY <1>1, PhaseKind DEF TreePhases
<1>3. /\ IsWritten(obj) /\ Text(obj) = TreeText(obj) /\ IsTree(dest, Keys \cup {None})
      /\ "mode" \in PhasesOf(obj.kind) /\ "tree" \in PhasesOf(obj.kind)
  BY <1>2, TreeFacts DEF TreePhases
<1>4. \/ /\ ~bad
         /\ \E j \in 0 .. Elements(obj) : pos = End(obj, j) + 1 /\ ElementsRead(j, {})
      \/ /\ bad /\ ~whole
         /\ \E j \in 0 .. Elements(obj) :
              \E lost \in SUBSET DOMAIN dest.elements :
                ElementsRead(j, lost) /\ Lost(j, lost)
  BY <1>1, <1>2, TreeFacts DEF TreeInv
<1>5. Kept /\ dest' = dest /\ obj' = obj
  BY DEF TreeNext, input, Kept
<1>6. CASE More(1)
  <2>1. /\ elem' = [c |-> text[pos], mode |-> 0] /\ phase' = "mode"
        /\ Skip(1) /\ UNCHANGED bad
    BY <1>6 DEF TreeNext
  <2>2. elem'.mode \in Modes
    <3>1. elem'.mode = 0
      BY <2>1
    <3> QED BY <3>1, BoundAssumption DEF Modes
  <2>3. /\ Common' /\ ~bad /\ ~bad' /\ pos' = pos + 1
        /\ pos <= Len(Text(obj))
    BY <1>1, <1>3, <1>5, <1>6, <2>1, <2>2, Taking
  <2>4. PICK j \in 0 .. Elements(obj) : pos = End(obj, j) + 1 /\ ElementsRead(j, {})
    BY <1>4, <2>3
  <2>5. j + 1 \in 1 .. Elements(obj) /\ End(obj, j) \in Nat /\ j \in Nat
    BY <1>3, <2>3, <2>4, LastElement
  <2> DEFINE e == ElementAt(obj, j + 1)
             d == ModeLength(e)
  <2>6. j + 1 - 1 = j
    BY <2>5
  <2>7. /\ d \in 5 .. 6 /\ e \in [mode : Modes, key : Keys]
        /\ e = obj.elements[NameAt(obj, j + 1)]
    <3>1. d \in 5 .. 6
      BY <1>3, <2>5, ElementPlaces
    <3>2. e \in [mode : Modes, key : Keys] /\ e = obj.elements[NameAt(obj, j + 1)]
      BY <1>3, <2>5, TreeWritten
    <3> QED BY <3>1, <3>2
  <2>8. Representable(obj) => Shifted(e.mode, d) = 0
    <3>1. NameAt(obj, j + 1) \in DOMAIN obj.elements
      BY <1>3, <2>5, NamesOrdered
    <3>2. Representable(obj) => Shifted(e.mode, 6) = 0
      BY <1>2, <2>7, <3>1 DEF Representable
    <3>3. e.mode \in Nat
      <4>1. e.mode \in Modes
        BY <2>7
      <4> HIDE DEF e
      <4> QED BY <4>1, BoundAssumption DEF Modes
    <3> QED BY <3>2, <3>3, ModeWritten DEF ModeLength
  <2>9. InMode(j + 1, 1)'
    <3>1. /\ pos' = End(obj, j) + 1 + 1 /\ pos' - 1 = pos
          /\ d - 1 + 1 = d
      BY <2>3, <2>4, <2>5, <2>7
    <3>2. elem'.c = text[pos' - 1] /\ elem'.mode = 0
      BY <2>1, <3>1
    <3>3. text' = text /\ obj' = obj
      BY <1>5 DEF Kept
    <3> QED BY <2>6, <2>8, <3>1, <3>2, <3>3 DEF InMode, ElementAt, NameAt, End, Representable
  <2>10. ElementsRead(j, {})'
    BY <1>5, <2>4, StaysRead
  <2>11. /\ j + 1 \in 1 .. Elements(obj)' /\ 1 \in 1 .. ModeLength(ElementAt(obj, j + 1)) + 1
         /\ ElementAt(obj, j + 1)' = ElementAt(obj, j + 1)
    <3>1. 1 \in 1 .. d + 1
      BY <2>7
    <3> QED BY <1>5, <2>5, <3>1 DEF Elements, ElementAt, NameAt
  <2>12. TreeInv'
    <3>1. /\ ElementsRead(j + 1 - 1, {})' /\ 1 \in 1 .. ModeLength(ElementAt(obj, j + 1)') + 1
      BY <2>6, <2>10, <2>11
    <3> QED BY <2>1, <2>3, <2>9, <2>11, <3>1 DEF TreeInv
  <2>13. SmoothInv'
    BY <1>5, <2>1, <2>3, SmoothStep
  <2> QED BY <1>2, <1>5, <2>3, <2>12, <2>13, TreeStays
<1>7. CASE ~More(1)
  <2>1. /\ phase' = IF DOMAIN dest.elements = {} THEN "error" ELSE "done"
        /\ bad' = TRUE /\ elem' = elem /\ pos' = pos
    BY <1>7 DEF TreeNext
  <2>2. elem'.mode \in Modes /\ phase' \in {"done", "error"} \cup PhasesOf(obj.kind)
    BY <1>1, <2>1 DEF Common
  <2>3. /\ Common' /\ (whole => bad \/ pos > Len(Text(obj)))
    BY <1>1, <1>5, <1>7, <2>1, <2>2, Taking
  <2>4. \E j \in 0 .. Elements(obj) :
          \E lost \in SUBSET DOMAIN dest.elements :
            /\ ElementsRead(j, lost) /\ Lost(j, lost)
            /\ whole => j = Elements(obj) /\ lost = {}
    <3>1. CASE ~bad
      <4>1. PICK j \in 0 .. Elements(obj) : pos = End(obj, j) + 1 /\ ElementsRead(j, {})
        BY <1>4, <3>1
      <4>2. Lost(j, {}) /\ {} \in SUBSET DOMAIN dest.elements
        BY DEF Lost
      <4>3. whole => j = Elements(obj)
        BY <1>3, <2>3, <3>1, <4>1, LastElement
      <4> QED BY <4>1, <4>2, <4>3
    <3>2. CASE bad
      BY <1>4, <3>2
    <3> QED BY <3>1, <3>2
  <2>5. PICK j \in 0 .. Elements(obj), lost \in SUBSET DOMAIN dest.elements :
          /\ ElementsRead(j, lost) /\ Lost(j, lost)
          /\ whole => j = Elements(obj) /\ lost = {}
    BY <2>4
  <2>6. TreeInv'
    <3>1. CASE phase' = "error"
      BY <3>1 DEF TreeInv
    <3>2. CASE phase' = "done"
      <4>1. /\ ElementsRead(j, lost)' /\ Lost(j, lost)'
            /\ whole' => j = Elements(obj)' /\ lost = {}
        BY <1>5, <2>5, StaysRead DEF Kept, Elements
      <4>2. j \in 0 .. Elements(obj)' /\ lost \in SUBSET DOMAIN dest'.elements
        BY <1>5 DEF Elements
      <4> QED BY <3>2, <4>1, <4>2 DEF TreeInv
    <3> QED BY <2>1, <3>1, <3>2
  <2>7. SmoothInv'
    <3>1. (Smooth' <=> Smooth) /\ "done" \notin PhasesOf(obj.kind)
      BY <1>1, <1>5, KindPhases DEF Smooth, New, Kept
    <3>2. ASSUME Smooth PROVE dest' = obj /\ phase' # "error"
      <4>1. whole /\ New /\ Representable(obj)
        BY <1>2, <3>2 DEF Smooth
      <4>2. ElementsRead(Elements(obj), {})
        BY <2>5, <4>1
      <4>3. dest = obj
        BY <1>3, <4>1, <4>2, TreeFields
      <4>4. DOMAIN obj.elements # {}
        BY <1>2, <4>1 DEF Representable
      <4> QED BY <1>5, <2>1, <4>3, <4>4
    <3>3. phase' \notin PhasesOf(obj.kind)
      BY <1>1, <2>1, KindPhases
    <3> QED BY <1>5, <3>1, <3>2, <3>3 DEF SmoothInv
  <2> QED BY <1>2, <1>5, <2>3, <2>6, <2>7, TreeStays
<1> QED BY <1>6, <1>7

\* A digit that is taken to the mode leaves it a mode.
LEMMA ModeTaken ==
  ASSUME NEW v \in Int, NEW m \in Modes
  PROVE  (8 * m + v) % 2 ^ ModeBits \in Modes
<1> DEFINE w == 2 ^ ModeBits
<1>1. w \in Nat \ {0} /\ m \in 0 .. w - 1
  BY BoundAssumption DEF Modes
<1> HIDE DEF w
<1>2. (8 * m + v) % w \in 0 .. w - 1
  BY <1>1
<1> QED BY <1>2 DEF w, Modes

\* A digit is taken into the mode.
LEMMA TreeModeInv == ASSUME CodecInv, TreeMode PROVE CodecInv'
<1>1. phase = "mode" /\ Common /\ elem.c.kind = "digit"
  BY DEF TreeMode, CodecInv
<1>2. obj.kind = "tree" /\ phase \in TreePhases
  BY <1>1, PhaseKind DEF TreePhases
<1>3. /\ IsWritten(obj) /\ Text(obj) = TreeText(obj) /\ IsTree(dest, Keys \cup {None})
      /\ "mode" \in PhasesOf(obj.kind)
  BY <1>2, TreeFacts DEF TreePhases
<1>4. \/ /\ ~bad
         /\ \E j \in 1 .. Elements(obj) :
              /\ ElementsRead(j - 1, {})
              /\ \E i \in 1 .. ModeLength(ElementAt(obj, j)) + 1 : InMode(j, i)
      \/ bad /\ ~whole /\ elem.c.kind = "digit" /\ elem.c.value \in 0 .. 7
  BY <1>1, <1>2, TreeFacts DEF TreeInv
<1>5. /\ Kept /\ dest' = dest /\ obj' = obj /\ phase' = "mode"
      /\ elem' = [c    |-> IF More(1) THEN text[pos] ELSE elem.c,
                  mode |-> (8 * elem.mode + elem.c.value) % 2 ^ ModeBits]
      /\ IF More(1) THEN Skip(1) /\ UNCHANGED bad ELSE bad' = TRUE /\ UNCHANGED pos
  BY <1>1 DEF TreeMode, input, Kept
<1>6. CASE bad
  <2>1. ~whole /\ elem.c.value \in 0 .. 7 /\ ~More(1)
    BY <1>4, <1>6 DEF More
  <2>2. elem'.mode \in Modes
    BY <1>1, <1>5, <2>1, ModeTaken DEF Common
  <2>3. Common' /\ bad'
    BY <1>1, <1>3, <1>5, <2>1, <2>2, Taking
  <2>4. elem'.c = elem.c /\ whole' = whole
    BY <1>5, <2>1 DEF Kept
  <2>5. TreeInv'
    BY <1>1, <1>5, <2>1, <2>3, <2>4 DEF TreeInv
  <2>6. SmoothInv'
    BY <1>5, <2>1, SmoothStep DEF Smooth
  <2> QED BY <1>2, <1>5, <2>3, <2>5, <2>6, TreeStays
<1>7. CASE ~bad
  <2>0. PICK j \in 1 .. Elements(obj) :
          /\ ElementsRead(j - 1, {})
          /\ \E i \in 1 .. ModeLength(ElementAt(obj, j)) + 1 : InMode(j, i)
    BY <1>4, <1>7
  <2>1. PICK i \in 1 .. ModeLength(ElementAt(obj, j)) + 1 :
          ElementsRead(j - 1, {}) /\ InMode(j, i)
    BY <2>0
  <2> DEFINE a == End(obj, j - 1)
             e == ElementAt(obj, j)
             d == ModeLength(e)
             l == Len(Text(obj))
  <2>2. /\ a \in Nat /\ l \in Nat /\ d \in 5 .. 6 /\ a + d + 3 <= l
        /\ e \in [mode : Modes, key : Keys]
        /\ \A k \in 1 .. d : Text(obj)[a + k].value = ModeDigits(e.mode)[k]
        /\ Text(obj)[a + d + 1].kind = "space"
    BY <1>3, ElementPlaces
  <2>3. /\ pos = a + i + 1 /\ elem.c = text[pos - 1]
        /\ Representable(obj) => elem.mode = Shifted(e.mode, d - i + 1)
    BY <2>1 DEF InMode
  <2>4. i \in 1 .. d + 1
    OBVIOUS
  <2> HIDE DEF a, d, e, l
  <2>5. pos - 1 = a + i /\ a + i \in Nat /\ pos <= l /\ a + i >= 1 /\ i \in Nat
    BY <2>2, <2>3, <2>4
  <2>6. elem.c = Text(obj)[a + i]
    <3> DEFINE t == Len(text)
    <3>1. t \in Nat /\ pos \in Nat /\ pos <= t + 1
      BY <1>1, TextBounds
    <3>2. a + i \in 1 .. t
      <4> HIDE DEF t
      <4>1. a + i <= t
        BY <2>5, <3>1
      <4> QED BY <2>5, <3>1, <4>1
    <3> QED BY <1>1, <2>3, <2>5, <3>2 DEF Common, TextOK
  <2>7. i \in 1 .. d
    <3>1. i # d + 1
      <4> SUFFICES ASSUME i = d + 1 PROVE FALSE
        OBVIOUS
      <4>1. a + i = a + d + 1
        BY <2>2
      <4> QED BY <1>1, <2>2, <2>6, <4>1
    <3> QED BY <2>2, <2>4, <3>1
  <2>8. elem.c.value = ModeDigits(e.mode)[i] /\ elem.c.value \in 0 .. 7
    <3>1. elem.c.value = ModeDigits(e.mode)[i]
      BY <2>2, <2>6, <2>7
    <3>2. e.mode \in Modes /\ 2 ^ ModeBits \in Nat
      BY <2>2, BoundAssumption
    <3>3. e.mode \in Nat
      BY <3>2 DEF Modes
    <3>4. ModeDigits(e.mode) \in Seq(0 .. 7) /\ i \in 1 .. Len(ModeDigits(e.mode))
      BY <2>7, <3>3, ModeWritten DEF d, ModeLength
    <3> QED BY <3>1, <3>4
  <2>9. elem.mode \in Modes /\ elem'.mode = (8 * elem.mode + elem.c.value) % 2 ^ ModeBits
    BY <1>1, <1>5 DEF Common
  <2>10. elem'.mode \in Modes
    <3>1. elem.c.value \in Int
      BY <2>8
    <3> QED BY <2>9, <3>1, ModeTaken
  <2>11. /\ Common'
         /\ \/ /\ More(1) /\ ~bad' /\ pos' = pos + 1
            \/ /\ ~More(1) /\ bad' /\ pos' = pos
               /\ whole => pos > l
    BY <1>1, <1>3, <1>5, <1>7, <2>10, Taking DEF l
  <2>12. CASE ~More(1)
    <3>1. bad' /\ ~whole
      <4>1. pos \in Nat
        BY <1>1, TextBounds
      <4>2. ~(pos > l)
        BY <2>2, <2>5, <4>1
      <4> QED BY <2>11, <2>12, <4>2
    <3>2. elem'.c = elem.c /\ whole' = whole
      BY <1>5, <2>12 DEF Kept
    <3>3. TreeInv'
      BY <1>1, <1>5, <2>8, <3>1, <3>2 DEF TreeInv
    <3>4. SmoothInv'
      BY <1>5, <3>1, SmoothStep DEF Smooth
    <3> QED BY <1>2, <1>5, <2>11, <3>3, <3>4, TreeStays
  <2>13. CASE More(1)
    <3>1. pos' = pos + 1 /\ ~bad' /\ elem'.c = text[pos]
      BY <1>5, <2>11, <2>13
    <3>2. pos' = a + (i + 1) + 1 /\ pos' - 1 = pos
      BY <2>3, <2>5, <3>1, <2>2
    <3>3. Representable(obj) => elem'.mode = Shifted(e.mode, d - (i + 1) + 1)
      <4> SUFFICES ASSUME Representable(obj)
                   PROVE  elem'.mode = Shifted(e.mode, d - (i + 1) + 1)
        OBVIOUS
      <4>1. d - (i + 1) + 1 = d - i
        BY <2>2, <2>5
      <4>2. e.mode \in Modes /\ d = Len(ModeDigits(e.mode))
        BY <2>2 DEF d, ModeLength
      <4>3. (8 * Shifted(e.mode, d - i + 1) + ModeDigits(e.mode)[i]) % 2 ^ ModeBits
              = Shifted(e.mode, d - i)
        BY <2>7, <4>2, ModeReadOn
      <4> QED BY <2>3, <2>8, <2>9, <4>1, <4>3
    <3>4. text' = text /\ (Representable(obj) <=> Representable(obj)')
          /\ End(obj, j - 1)' = a /\ ElementAt(obj, j)' = e
      BY <1>5 DEF Kept, Representable, End, ElementAt, NameAt, a, e
    <3>5. InMode(j, i + 1)'
      BY <3>1, <3>2, <3>3, <3>4 DEF InMode, d
    <3>6. i + 1 \in 1 .. ModeLength(ElementAt(obj, j)') + 1
      <4>1. i + 1 \in 1 .. d + 1
        BY <2>2, <2>7
      <4> QED BY <3>4, <4>1 DEF d
    <3>7. ElementsRead(j - 1, {})' /\ j \in 1 .. Elements(obj)'
      BY <1>5, <2>1, StaysRead DEF Elements
    <3>8. TreeInv'
      BY <1>5, <3>1, <3>5, <3>6, <3>7 DEF TreeInv
    <3>9. SmoothInv'
      BY <1>5, <3>1, SmoothStep
    <3> QED BY <1>2, <1>5, <2>11, <3>8, <3>9, TreeStays
  <2> QED BY <2>12, <2>13
<1> QED BY <1>1, <1>6, <1>7 DEF Common

\* An element is inserted.
LEMMA Inserting ==
  ASSUME IsTree(dest, Keys \cup {None}), NEW name,
         NEW x \in [mode : Modes, key : Keys \cup {None}],
         dest' = [dest EXCEPT !.elements = Inserted(dest.elements, name, x)]
  PROVE  /\ IsTree(dest', Keys \cup {None})
         /\ DOMAIN dest'.elements = DOMAIN dest.elements \cup {name}
         /\ \A n \in DOMAIN dest.elements : dest'.elements[n] = dest.elements[n]
         /\ name \notin DOMAIN dest.elements => dest'.elements[name] = x
<1> DEFINE f == dest.elements
           g == Inserted(f, name, x)
<1>1. /\ dest = [kind |-> "tree", elements |-> f] /\ IsFiniteSet(DOMAIN f)
      /\ f \in [DOMAIN f -> [mode : Modes, key : Keys \cup {None}]]
  BY DEF IsTree
<1>2. dest' = [kind |-> "tree", elements |-> g] /\ dest'.elements = g
  <2> HIDE DEF g, f
  <2>1. dest' = [dest EXCEPT !.elements = g]
    BY DEF g, f
  <2> QED BY <1>1, <2>1
<1>3. IsFiniteSet(DOMAIN f \cup {name})
  <2>1. IsFiniteSet({name})
    BY FS_Singleton
  <2> QED BY <1>1, <2>1, FS_Union
<1>4. /\ g \in [DOMAIN f \cup {name} -> [mode : Modes, key : Keys \cup {None}]]
      /\ DOMAIN g = DOMAIN f \cup {name}
      /\ \A n \in DOMAIN f : g[n] = f[n]
      /\ name \notin DOMAIN f => g[name] = x
  BY <1>1 DEF Inserted
<1> HIDE DEF g, f
<1>5. IsTree(dest', Keys \cup {None})
  BY <1>2, <1>3, <1>4 DEF IsTree
<1> QED BY <1>2, <1>4, <1>5 DEF f

\* What is known of the elements that were read when one more is inserted.
LEMMA ReadMore ==
  ASSUME IsWritten(obj), Kept, NEW j \in 1 .. Elements(obj), ElementsRead(j - 1, {}),
         DOMAIN dest'.elements = DOMAIN dest.elements \cup {NameAt(obj, j)},
         \A n \in DOMAIN dest.elements : dest'.elements[n] = dest.elements[n],
         NameAt(obj, j) \notin DOMAIN dest.elements =>
           /\ dest'.elements[NameAt(obj, j)].key = ElementAt(obj, j).key
           /\ Representable(obj) =>
                dest'.elements[NameAt(obj, j)].mode = ElementAt(obj, j).mode
  PROVE  ElementsRead(j, {})'
<1>1. obj' = obj /\ New' = New /\ Representable(obj)' = Representable(obj)
      /\ Names(obj, j)' = Names(obj, j)
      /\ \A i : NameAt(obj, i)' = NameAt(obj, i) /\ ElementAt(obj, i)' = ElementAt(obj, i)
  BY DEF Kept, New, Representable, Names, NameAt, ElementAt
<1> SUFFICES ASSUME New
             PROVE  /\ DOMAIN dest'.elements = Names(obj, j)
                    /\ \A i \in 1 .. j :
                         /\ dest'.elements[NameAt(obj, i)].key = ElementAt(obj, i).key
                         /\ Representable(obj) =>
                              dest'.elements[NameAt(obj, i)].mode = ElementAt(obj, i).mode
  BY <1>1 DEF ElementsRead
<1>2. /\ NameAt(obj, j) \notin Names(obj, j - 1)
      /\ Names(obj, j) = Names(obj, j - 1) \cup {NameAt(obj, j)}
      /\ \A i \in 1 .. j - 1 : NameAt(obj, i) \in Names(obj, j - 1)
  BY NextName
<1>3. /\ DOMAIN dest.elements = Names(obj, j - 1)
      /\ \A i \in 1 .. j - 1 :
           /\ dest.elements[NameAt(obj, i)].key = ElementAt(obj, i).key
           /\ Representable(obj) =>
                dest.elements[NameAt(obj, i)].mode = ElementAt(obj, i).mode
  BY DEF ElementsRead
<1>4. Elements(obj) \in Nat
  BY NamesOrdered
<1>5. \A i \in 1 .. j : i \in 1 .. j - 1 \/ i = j
  BY <1>4
<1> QED BY <1>2, <1>3, <1>5

\* One element more is read, or the last one broke off.
LEMMA TreeElementInv == ASSUME CodecInv, TreeElement PROVE CodecInv'
<1>1. phase = "mode" /\ Common /\ elem.c.kind = "space"
  BY DEF TreeElement, CodecInv
<1>2. obj.kind = "tree" /\ phase \in TreePhases
  BY <1>1, PhaseKind DEF TreePhases
<1>3. /\ IsWritten(obj) /\ Text(obj) = TreeText(obj) /\ IsTree(dest, Keys \cup {None})
      /\ "tree" \in PhasesOf(obj.kind)
  BY <1>2, TreeFacts DEF TreePhases
<1>4. \/ /\ ~bad
         /\ \E j \in 1 .. Elements(obj) :
              /\ ElementsRead(j - 1, {})
              /\ \E i \in 1 .. ModeLength(ElementAt(obj, j)) + 1 : InMode(j, i)
      \/ elem.c.kind = "digit"
  BY <1>1, <1>2, TreeFacts DEF TreeInv
<1> DEFINE name == IF More(1) THEN Here(1) ELSE NoName
           key  == IF More(2) THEN Here(2) ELSE None
           x    == [mode |-> elem.mode, key |-> key]
<1>5. /\ Kept /\ elem' = elem /\ obj' = obj /\ phase' = "tree"
      /\ dest' = [dest EXCEPT !.elements = Inserted(dest.elements, name, x)]
      /\ IF More(2) THEN Skip(2) /\ UNCHANGED bad
                    ELSE bad' = TRUE /\ pos' = Len(text) + 1
  BY DEF TreeElement, input, Kept
<1>5a. PICK j \in 1 .. Elements(obj) :
         /\ ~bad /\ ElementsRead(j - 1, {})
         /\ \E i \in 1 .. ModeLength(ElementAt(obj, j)) + 1 : InMode(j, i)
  BY <1>1, <1>4
<1>6. PICK i \in 1 .. ModeLength(ElementAt(obj, j)) + 1 :
        ~bad /\ ElementsRead(j - 1, {}) /\ InMode(j, i)
  BY <1>5a
<1> DEFINE a == End(obj, j - 1)
           e == ElementAt(obj, j)
           d == ModeLength(e)
           l == Len(Text(obj))
<1>7. /\ a \in Nat /\ l \in Nat /\ d \in 5 .. 6 /\ a + d + 3 <= l
      /\ End(obj, j) = a + d + 3
      /\ e \in [mode : Modes, key : Keys]
      /\ \A k \in 1 .. d : Text(obj)[a + k].kind = "digit"
      /\ Text(obj)[a + d + 2].value = NameAt(obj, j)
      /\ Text(obj)[a + d + 3].value = e.key
  BY <1>3, ElementPlaces
<1>8. /\ pos = a + i + 1 /\ elem.c = text[pos - 1]
      /\ Representable(obj) => elem.mode = Shifted(e.mode, d - i + 1)
  BY <1>6 DEF InMode
<1>9. i \in 1 .. d + 1
  OBVIOUS
<1>10. /\ Len(text) \in Nat /\ pos <= Len(text) + 1 /\ Len(text) <= l
       /\ whole => Len(text) = l
  BY <1>1, TextBounds
<1> HIDE DEF a, d, e, l
<1>11. pos - 1 = a + i /\ a + i \in 1 .. Len(text) /\ i \in Nat
  BY <1>7, <1>8, <1>9, <1>10
<1>12. elem.c = Text(obj)[a + i]
  BY <1>1, <1>8, <1>11 DEF Common, TextOK
<1>13. i = d + 1
  <2>1. ~(i \in 1 .. d)
    BY <1>1, <1>7, <1>12
  <2> QED BY <1>7, <1>9, <2>1
<1>14. /\ pos = a + d + 2 /\ pos + 1 - 1 = a + d + 2 /\ pos + 2 - 1 = a + d + 3
       /\ pos + 2 = a + d + 3 + 1 /\ d - i + 1 = 0
  BY <1>7, <1>8, <1>13
<1>15. Representable(obj) => elem.mode = e.mode
  <2>1. e.mode \in Nat
    <3>1. e.mode \in Modes /\ 2 ^ ModeBits \in Nat
      BY <1>7, BoundAssumption
    <3> QED BY <3>1 DEF Modes
  <2> QED BY <1>8, <1>14, <2>1, Shifts
<1>16. /\ More(1) => Here(1) = NameAt(obj, j)
       /\ More(2) => Here(2) = e.key /\ pos + 2 \in 1 .. Len(text) + 1
       /\ whole => More(2)
       /\ More(2) => More(1)
  <2>1. More(1) => Here(1) = Text(obj)[pos + 1 - 1].value
    BY <1>1, Reading
  <2>2. /\ More(2) => /\ Here(2) = Text(obj)[pos + 2 - 1].value
                      /\ pos + 2 \in 1 .. Len(text) + 1
        /\ whole /\ ~bad /\ pos + 2 - 1 <= l => More(2)
    BY <1>1, Reading DEF l
  <2>3. More(2) => More(1)
    <3>1. a + d + 3 <= Len(text) => a + d + 2 <= Len(text)
      BY <1>7, <1>10
    <3> QED BY <1>14, <3>1 DEF More
  <2> QED BY <1>6, <1>7, <1>14, <2>1, <2>2, <2>3
<1>17. x \in [mode : Modes, key : Keys \cup {None}] /\ x.mode = elem.mode /\ x.key = key
  <2>1. elem.mode \in Modes
    BY <1>1 DEF Common
  <2>2. key \in Keys \cup {None}
    BY <1>7, <1>16
  <2> HIDE DEF key
  <2> QED BY <2>1, <2>2
<1>18. (More(1) => name = NameAt(obj, j)) /\ (More(2) => key = e.key) /\ (~More(2) => key = None)
  BY <1>16
<1> HIDE DEF x, key, name
<1>19. /\ IsTree(dest', Keys \cup {None})
       /\ DOMAIN dest'.elements = DOMAIN dest.elements \cup {name}
       /\ \A n \in DOMAIN dest.elements : dest'.elements[n] = dest.elements[n]
       /\ name \notin DOMAIN dest.elements => dest'.elements[name] = x
  BY <1>3, <1>5, <1>17, Inserting
<1>20. elem'.mode \in Modes
  BY <1>1, <1>5 DEF Common
<1>21. Elements(obj)' = Elements(obj) /\ Elements(obj) \in Nat
       /\ j \in 0 .. Elements(obj) /\ j - 1 \in 0 .. Elements(obj)
  <2>1. Elements(obj) \in Nat
    BY <1>3, NamesOrdered
  <2> QED BY <1>5, <2>1 DEF Elements
<1>22. CASE More(2)
  <2>1. pos' = pos + 2 /\ bad' = bad /\ ~bad'
    BY <1>5, <1>6, <1>22 DEF Skip
  <2>2. Common'
    BY <1>1, <1>3, <1>5, <1>16, <1>20, <1>22, <2>1, CommonStep DEF Common
  <2>3. name = NameAt(obj, j) /\ key = e.key
    BY <1>16, <1>18, <1>22
  <2>4. ElementsRead(j, {})'
    <3>1. name \notin DOMAIN dest.elements =>
            /\ dest'.elements[name].key = e.key
            /\ Representable(obj) => dest'.elements[name].mode = e.mode
      BY <1>15, <1>17, <1>19, <2>3
    <3> QED BY <1>3, <1>5, <1>6, <1>19, <2>3, <3>1, ReadMore DEF e
  <2>5. pos' = End(obj, j)' + 1
    <3>1. pos' = End(obj, j) + 1
      BY <1>7, <1>14, <2>1
    <3> QED BY <1>5, <3>1 DEF End
  <2>6. TreeInv'
    BY <1>5, <1>21, <2>1, <2>4, <2>5 DEF TreeInv
  <2>7. SmoothInv'
    BY <1>5, <2>1, SmoothStep
  <2> QED BY <1>2, <1>5, <1>19, <2>2, <2>6, <2>7, TreeStep
<1>23. CASE ~More(2)
  <2>1. pos' = Len(text) + 1 /\ bad' /\ ~whole /\ key = None /\ bad' \in BOOLEAN
    BY <1>5, <1>16, <1>18, <1>23
  <2>2. Common'
    <3>1. pos' \in 1 .. Len(text) + 1
      BY <1>10, <2>1
    <3> QED BY <1>1, <1>3, <1>5, <1>20, <2>1, <3>1, CommonStep
  <2>2a. PICK lost : lost = {name} \ Names(obj, j - 1)
    OBVIOUS
  <2>3. ElementsRead(j - 1, lost)' /\ Lost(j - 1, lost)' /\ lost \in SUBSET DOMAIN dest'.elements
    <3>1. obj' = obj /\ New' = New /\ Representable(obj)' = Representable(obj)
          /\ Names(obj, j - 1)' = Names(obj, j - 1)
          /\ \A k : NameAt(obj, k)' = NameAt(obj, k) /\ ElementAt(obj, k)' = ElementAt(obj, k)
      BY <1>5 DEF Kept, New, Representable, Names, NameAt, ElementAt
    <3>2. lost \in SUBSET DOMAIN dest'.elements
      BY <1>19, <2>2a
    <3>3. New => /\ DOMAIN dest.elements = Names(obj, j - 1)
                 /\ \A k \in 1 .. j - 1 :
                      /\ dest.elements[NameAt(obj, k)].key = ElementAt(obj, k).key
                      /\ Representable(obj) =>
                           dest.elements[NameAt(obj, k)].mode = ElementAt(obj, k).mode
      BY <1>6 DEF ElementsRead
    <3>4. \A k \in 1 .. j - 1 : NameAt(obj, k) \in Names(obj, j - 1)
      BY DEF Names
    <3>5. New => /\ DOMAIN dest'.elements = Names(obj, j - 1) \cup lost
                 /\ \A k \in 1 .. j - 1 :
                      /\ dest'.elements[NameAt(obj, k)].key = ElementAt(obj, k).key
                      /\ Representable(obj) =>
                           dest'.elements[NameAt(obj, k)].mode = ElementAt(obj, k).mode
      BY <1>19, <2>2a, <3>3, <3>4
    <3>6. ElementsRead(j - 1, lost)'
      BY <3>1, <3>5 DEF ElementsRead
    <3>7. \A n \in lost : /\ lost = {n} /\ n \notin Names(obj, j - 1)
                          /\ New => dest'.elements[n].key = None
      BY <1>17, <1>19, <2>1, <2>2a, <3>3
    <3>8. Lost(j - 1, lost)'
      BY <3>1, <3>7 DEF Lost
    <3> QED BY <3>2, <3>6, <3>8
  <2>4. ~whole' /\ j - 1 \in 0 .. Elements(obj)'
    BY <1>5, <1>21, <2>1 DEF Kept
  <2>5. TreeInv'
    BY <1>5, <2>1, <2>3, <2>4 DEF TreeInv
  <2>6. SmoothInv'
    BY <1>5, <2>1, SmoothStep DEF Smooth
  <2> QED BY <1>2, <1>5, <1>19, <2>2, <2>5, <2>6, TreeStep
<1> QED BY <1>22, <1>23

-----------------------------------------------------------------------------
(* Blobs.                                                                  *)

\* The text of a blob.
LEMMA BlobTokens ==
  ASSUME IsBlob(obj), Text(obj) = BlobText(obj)
  PROVE  /\ obj.data \in Seq(Strings) /\ Len(Text(obj)) = 0 + Len(obj.data)
         /\ \A i \in 1 .. Len(obj.data) : Text(obj)[0 + i].value = obj.data[i]
<1>1. obj.data \in Seq(Strings)
  BY DEF IsBlob
<1> DEFINE n == Len(obj.data)
           t == [i \in 1 .. n |-> Token("text", obj.data[i])]
<1>2. n \in Nat /\ DOMAIN obj.data = 1 .. n
  BY <1>1
<1>3. Text(obj) = t
  BY <1>2 DEF BlobText
<1>4. Len(t) = n /\ \A i \in 1 .. n : t[i].value = obj.data[i]
  BY <1>2 DEF Token
<1> HIDE DEF t, n
<1>5. Len(Text(obj)) = 0 + n /\ \A i \in 1 .. n : 0 + i = i
  BY <1>2, <1>3, <1>4
<1>6. \A i \in 1 .. n : Text(obj)[0 + i].value = obj.data[i]
  BY <1>3, <1>4, <1>5
<1> QED BY <1>1, <1>5, <1>6 DEF n

\* The data is the rest, and the parser ends.
LEMMA BlobDataInv == ASSUME CodecInv, BlobData PROVE CodecInv'
<1>1. phase = "blob" /\ Common
  BY DEF BlobData, CodecInv
<1>2. obj.kind = "blob" /\ PhasesOf(obj.kind) = {"blob"}
  BY <1>1, PhaseKind, KindPhases
<1>3. pos = 1 /\ ~bad /\ (New => dest.data = <<>>)
  BY <1>1, <1>2 DEF CodecInv, KindInv, BlobInv
<1>4. IsBlob(obj) /\ Text(obj) = BlobText(obj) /\ IsBlob(dest)
  BY <1>1, <1>2, SubjectAssumption DEF Common, CodecInv, DestOK, IsObject, Text
<1>5. /\ obj.data \in Seq(Strings) /\ Len(Text(obj)) = 0 + Len(obj.data)
      /\ \A i \in 1 .. Len(obj.data) : Text(obj)[0 + i].value = obj.data[i]
  BY <1>4, BlobTokens
<1>6. /\ Rest \in Seq(Strings) /\ Len(Rest) <= Len(obj.data)
      /\ \A i \in 1 .. Len(Rest) : Rest[i] = obj.data[i]
      /\ whole => Rest = obj.data
  <2>1. pos = 0 + 1 /\ 0 \in Nat
    BY <1>3
  <2> QED BY <1>1, <1>5, <2>1, RestRead
<1>7. /\ Kept /\ elem' = elem /\ phase' = "done" /\ bad' = bad /\ pos' = Len(text) + 1
      /\ dest' = [dest EXCEPT !.data = dest.data \o Rest]
  BY DEF BlobData, input, Kept
<1> HIDE DEF Rest
<1>8. Common'
  <2>1. elem'.mode \in Modes /\ pos' \in 1 .. Len(text) + 1 /\ bad' \in BOOLEAN
    BY <1>1, <1>7, TextBounds DEF Common
  <2> QED BY <1>1, <1>7, <2>1, CommonStep
<1>9. IsBlob(dest') /\ dest'.data = dest.data \o Rest
  <2>1. dest.data \o Rest \in Seq(Strings)
    BY <1>4, <1>6 DEF IsBlob
  <2> QED BY <1>4, <1>7, <2>1 DEF IsBlob
<1>10. DestOK' /\ obj'.kind = "blob" /\ obj' = obj
  BY <1>2, <1>7, <1>9 DEF DestOK, IsObject, IsBlob, Kept
<1>11. New => dest'.data = Rest
  <2>1. <<>> \o Rest = Rest
    BY <1>6
  <2> QED BY <1>3, <1>9, <2>1
<1>12. BlobInv'
  <2>1. New => IsPrefix(dest'.data, obj.data)
    <3>1. IsPrefix(Rest, obj.data)
      <4>1. Len(Rest) \in Nat /\ Len(obj.data) \in Nat
        BY <1>5, <1>6
      <4>2. Rest = SubSeq(obj.data, 1, Len(Rest))
        <5> DEFINE r == Rest
                   s == obj.data
        <5>1. \A i \in 1 .. Len(r) : s[i] \in Strings
          BY <1>5, <1>6
        <5> HIDE DEF r, s
        <5>2. /\ SubSeq(s, 1, Len(r)) \in Seq(Strings)
              /\ Len(SubSeq(s, 1, Len(r))) = IF 1 <= Len(r) THEN Len(r) - 1 + 1 ELSE 0
              /\ \A i \in 1 .. Len(r) - 1 + 1 : SubSeq(s, 1, Len(r))[i] = s[1 + i - 1]
          BY <4>1, <5>1, SubSeqProperties DEF r
        <5> DEFINE u == SubSeq(s, 1, Len(r))
        <5>3. Len(u) = Len(r) /\ \A i \in 1 .. Len(r) : u[i] = s[i]
          BY <4>1, <5>2 DEF r
        <5> HIDE DEF u
        <5>4. u \in Seq(Strings) /\ r \in Seq(Strings) /\ \A i \in 1 .. Len(r) : r[i] = s[i]
          BY <1>6, <5>2 DEF r, s, u
        <5>5. r = u
          BY <5>3, <5>4
        <5> QED BY <5>5 DEF r, s, u
      <4> QED BY <1>6, <4>1, <4>2 DEF IsPrefix
    <3> QED BY <1>11, <3>1
  <2>2. New /\ whole => dest'.data = obj.data
    BY <1>6, <1>11
  <2>3. New' = New /\ whole' = whole
    BY <1>7 DEF Kept, New
  <2> QED BY <1>7, <1>10, <2>1, <2>2, <2>3 DEF BlobInv
<1>13. SmoothInv'
  <2>1. (Smooth' <=> Smooth) /\ "done" \notin PhasesOf(obj.kind)
    BY <1>1, <1>7, KindPhases DEF Smooth, New, Kept
  <2>2. ASSUME Smooth PROVE dest' = obj
    <3>1. whole /\ New
      BY <1>2, <2>2 DEF Smooth
    <3>2. dest'.data = obj.data
      BY <1>6, <1>11, <3>1
    <3>3. dest' = [kind |-> "blob", data |-> dest'.data] /\ obj = [kind |-> "blob", data |-> obj.data]
      BY <1>4, <1>9 DEF IsBlob
    <3> QED BY <3>2, <3>3
  <2> QED BY <1>7, <1>10, <2>1, <2>2 DEF SmoothInv
<1> QED BY <1>8, <1>10, <1>12, <1>13 DEF CodecInv, KindInv

\* Parsing a tree or a blob.
LEMMA TreeOrBlobParses == ASSUME CodecInv, TreeOrBlob PROVE CodecInv'
BY TreeNextInv, TreeModeInv, TreeElementInv, BlobDataInv DEF TreeOrBlob

-----------------------------------------------------------------------------
(* The rest of the steps, and what follows.                                *)

\* Objects whose keys are set are objects.
LEMMA ObjectWider ==
  ASSUME NEW o \in Subjects
  PROVE  IsObject(o, Keys \cup {None})
<1>1. o.kind \in {"commit", "tag", "tree", "blob"} /\ IsObject(o, Keys)
  BY SubjectAssumption
<1>2. Seq(Keys) \subseteq Seq(Keys \cup {None})
  OBVIOUS
<1>3. CASE o.kind = "commit"
  <2>1. IsCommit(o, Keys)
    BY <1>1, <1>3 DEF IsObject
  <2>2. IsCommit(o, Keys \cup {None})
    BY <1>2, <2>1 DEF IsCommit
  <2> QED BY <1>3, <2>2 DEF IsObject
<1>4. CASE o.kind = "tag"
  <2>1. IsTag(o, Keys)
    BY <1>1, <1>4 DEF IsObject
  <2>2. IsTag(o, Keys \cup {None})
    BY <2>1 DEF IsTag
  <2> QED BY <1>4, <2>2 DEF IsObject
<1>5. CASE o.kind = "tree"
  <2>1. IsTree(o, Keys)
    BY <1>1, <1>5 DEF IsObject
  <2>2. o.elements \in [DOMAIN o.elements -> [mode : Modes, key : Keys \cup {None}]]
    <3> DEFINE f == o.elements
               D == DOMAIN f
    <3>1. f \in [D -> [mode : Modes, key : Keys]]
      BY <2>1 DEF IsTree
    <3>2. [mode : Modes, key : Keys] \subseteq [mode : Modes, key : Keys \cup {None}]
      OBVIOUS
    <3> HIDE DEF f, D
    <3>3. f \in [D -> [mode : Modes, key : Keys \cup {None}]]
      BY <3>1, <3>2
    <3> QED BY <3>3 DEF f, D
  <2>3. IsTree(o, Keys \cup {None})
    BY <2>1, <2>2 DEF IsTree
  <2> QED BY <1>5, <2>3 DEF IsObject
<1>6. CASE o.kind = "blob"
  BY <1>1, <1>6 DEF IsObject
<1> QED BY <1>1, <1>3, <1>4, <1>5, <1>6

\* What the constructors make.
LEMMA FreshObject ==
  ASSUME NEW kind \in {"commit", "tag", "tree", "blob"}, NEW d, d = Fresh(kind, NullKey)
  PROVE  /\ d.kind = kind /\ IsObject(d, Keys \cup {None})
         /\ kind = "commit" => /\ d.encoding = DefaultEncoding /\ d.message = <<>>
                               /\ d.parents = <<>> /\ Len(d.parents) <= MaxParents
         /\ kind = "tree" => d.elements = <<>>
         /\ kind = "blob" => d.data = <<>>
<1>1. NoStamp \in Stamps
  <2>1. ShortMax \in Nat
    BY DEF ShortMax
  <2>2. 0 \in Zones
    BY <2>1 DEF Zones
  <2> QED BY <2>2, NameAssumption DEF NoStamp, Stamps
<1>2. CASE kind = "commit"
  <2>1. d = [kind |-> "commit", tree |-> NullKey, parents |-> <<>>,
             author |-> NoStamp, committer |-> NoStamp,
             encoding |-> DefaultEncoding, message |-> <<>>]
    BY <1>2 DEF Fresh
  <2>2. <<>> \in Seq(Keys \cup {None}) /\ <<>> \in Seq(Strings) /\ Len(<<>>) = 0
    OBVIOUS
  <2>3. IsCommit(d, Keys \cup {None})
    BY <1>1, <2>1, <2>2, NameAssumption DEF IsCommit
  <2>4. /\ d.kind = "commit" /\ d.encoding = DefaultEncoding /\ d.message = <<>>
        /\ d.parents = <<>>
    BY <2>1
  <2>5. Len(d.parents) <= MaxParents
    BY <2>2, <2>4, BoundAssumption
  <2> QED BY <1>2, <2>3, <2>4, <2>5 DEF IsObject
<1>3. CASE kind = "tag"
  <2>1. d = [kind |-> "tag", object |-> NullKey, target |-> "none",
             name |-> NoName, tagger |-> NoStamp, message |-> <<>>]
    BY <1>3 DEF Fresh
  <2>2. IsTag(d, Keys \cup {None})
    BY <1>1, <2>1, NameAssumption DEF IsTag
  <2>3. d.kind = "tag"
    BY <2>1
  <2>4. IsObject(d, Keys \cup {None})
    BY <2>2, <2>3 DEF IsObject
  <2> QED BY <1>3, <2>3, <2>4
<1>4. CASE kind = "tree"
  <2>1. d = [kind |-> "tree", elements |-> <<>>]
    BY <1>4 DEF Fresh
  <2>2. DOMAIN <<>> = {} /\ IsFiniteSet({})
    BY FS_EmptySet
  <2>3. <<>> \in [{} -> [mode : Modes, key : Keys \cup {None}]]
    BY <2>2
  <2>4. IsTree(d, Keys \cup {None})
    BY <2>1, <2>2, <2>3 DEF IsTree
  <2>5. d.kind = "tree" /\ d.elements = <<>>
    BY <2>1
  <2>6. IsObject(d, Keys \cup {None})
    BY <2>4, <2>5 DEF IsObject
  <2> QED BY <1>4, <2>5, <2>6
<1>5. CASE kind = "blob"
  <2>1. d = [kind |-> "blob", data |-> <<>>]
    BY <1>5 DEF Fresh
  <2>2. IsBlob(d)
    BY <2>1 DEF IsBlob
  <2>3. d.kind = "blob" /\ d.data = <<>>
    BY <2>1
  <2>4. IsObject(d, Keys \cup {None})
    BY <2>2, <2>3 DEF IsObject
  <2> QED BY <1>5, <2>3, <2>4
<1> QED BY <1>2, <1>3, <1>4, <1>5

\* Nothing is wrong before the object is written.
LEMMA WriteInv ==
  ASSUME Common, DestOK, phase = "write",
         New => dest = Fresh(obj.kind, NullKey)
  PROVE  CodecInv
<1>1. obj.kind \in {"commit", "tag", "tree", "blob"}
  BY PhaseKind
<1>2. New => /\ obj.kind = "commit" => Blank
             /\ obj.kind = "tree" => dest.elements = <<>>
             /\ obj.kind = "blob" => dest.data = <<>>
  BY <1>1, FreshObject DEF Blank, Bare
<1>3. KindInv
  BY <1>1, <1>2 DEF KindInv, CommitInv, TagInv, TreeInv, BlobInv, Blank
<1>4. SmoothInv
  BY DEF Common, SmoothInv, Smooth
<1> QED BY <1>3, <1>4 DEF CodecInv

\* A text has a length.
LEMMA TextLength == ASSUME NEW o \in Subjects PROVE Len(Text(o)) \in Nat
<1>1. o.kind \in {"commit", "tag", "tree", "blob"} /\ IsObject(o, Keys)
  BY SubjectAssumption
<1>2. CASE o.kind = "commit"
  <2>1. Text(o) = CommitText(o) /\ IsCommit(o, Keys)
    BY <1>1, <1>2 DEF Text, IsObject
  <2>2. CommitTokens(o, CommitText(o))
    BY <2>1, CommitWritten
  <2>3. Len(o.parents) \in Nat /\ Len(o.message) \in Nat
    BY <2>1 DEF IsCommit
  <2>4. \/ Len(CommitText(o)) = 2 * Len(o.parents) + 18 + Len(o.message)
        \/ Len(CommitText(o)) = 2 * Len(o.parents) + 21 + Len(o.message)
    BY <2>2 DEF CommitTokens
  <2>5. \A x, y \in Nat : 2 * x + 18 + y \in Nat /\ 2 * x + 21 + y \in Nat
    OBVIOUS
  <2> QED BY <2>1, <2>3, <2>4, <2>5
<1>3. CASE o.kind = "tag"
  <2>1. Text(o) = TagText(o) /\ IsTag(o, Keys)
    BY <1>1, <1>3 DEF Text, IsObject
  <2>2. TagTokens(o, TagText(o))
    BY <2>1, TagWritten
  <2>3. Len(o.message) \in Nat
    BY <2>1 DEF IsTag
  <2> QED BY <2>1, <2>2, <2>3 DEF TagTokens
<1>4. CASE o.kind = "tree"
  <2>1. Text(o) = TreeText(o) /\ IsWritten(o)
    BY <1>1, <1>4, SubjectAssumption DEF Text, IsObject, IsWritten
  <2>2. Elements(o) \in Nat /\ TreeText(o) = UpTo(o)[Elements(o)]
    BY <2>1, NamesOrdered DEF TreeText, Elements
  <2>3. UpTo(o)[Elements(o)] \in Seq(TreeToken)
    BY <2>1, <2>2, TreeMade
  <2> QED BY <2>1, <2>2, <2>3
<1>5. CASE o.kind = "blob"
  <2>1. Text(o) = BlobText(o) /\ IsBlob(o)
    BY <1>1, <1>5 DEF Text, IsObject
  <2>2. Len(o.data) \in Nat /\ DOMAIN o.data = 1 .. Len(o.data)
    BY <2>1 DEF IsBlob
  <2>3. Text(o) = [i \in 1 .. Len(o.data) |-> Token("text", o.data[i])]
    BY <2>1, <2>2 DEF BlobText
  <2> QED BY <2>2, <2>3
<1> QED BY <1>1, <1>2, <1>3, <1>4, <1>5

\* A new destination, or one that was parsed into before.
LEMMA InitInv == ASSUME Init PROVE CodecInv
<1>1. /\ obj \in Subjects /\ used \in {o \in Subjects : o.kind = obj.kind} \cup {None}
      /\ dest = IF used = None THEN Fresh(obj.kind, NullKey) ELSE used
      /\ text = <<>> /\ whole = FALSE /\ pos = 1 /\ bad = FALSE
      /\ elem.mode = 0 /\ phase = "write"
  BY DEF Init
<1>2. obj.kind \in {"commit", "tag", "tree", "blob"}
  BY <1>1, SubjectAssumption
<1>3. Common
  <2>1. Len(text) = 0 /\ Len(Text(obj)) \in Nat /\ Len(text) \in 0 .. Len(Text(obj))
        /\ pos \in 1 .. Len(text) + 1 /\ \A i \in 1 .. Len(text) : FALSE
    <3>1. Len(text) = 0
      BY <1>1
    <3> DEFINE l == Len(Text(obj))
    <3>2. l \in Nat
      BY <1>1, TextLength
    <3> HIDE DEF l
    <3>3. 0 \in 0 .. l /\ 1 \in 1 .. 0 + 1 /\ \A i \in 1 .. 0 : FALSE
      BY <3>2
    <3> QED BY <1>1, <3>1, <3>2, <3>3 DEF l
  <2>2. elem.mode \in Modes
    BY <1>1, BoundAssumption DEF Modes
  <2> QED BY <1>1, <2>1, <2>2 DEF Common, TextOK
<1>4. DestOK
  <2>1. CASE used = None
    BY <1>1, <1>2, <2>1, FreshObject DEF DestOK
  <2>2. CASE used # None
    <3>1. dest \in Subjects /\ dest.kind = obj.kind
      BY <1>1, <2>2
    <3>2. IsObject(dest, Keys \cup {None})
      BY <3>1, ObjectWider
    <3>3. dest.kind = "commit" => Len(dest.parents) <= MaxParents
      <4> SUFFICES ASSUME dest.kind = "commit" PROVE Len(dest.parents) <= MaxParents
        OBVIOUS
      <4>1. IsCommit(dest, Keys)
        BY <3>1, SubjectAssumption DEF IsObject
      <4>2. Len(dest.parents) \in Nat
        BY <4>1 DEF IsCommit
      <4>3. 2 * Len(dest.parents) < MaxParents /\ MaxParents \in Nat
        BY <3>1, BoundAssumption
      <4> QED BY <4>2, <4>3
    <3> QED BY <3>1, <3>2, <3>3 DEF DestOK
  <2> QED BY <2>1, <2>2
<1> QED BY <1>1, <1>3, <1>4, WriteInv DEF New

\* What arrives of the text.
LEMMA WritesInv == ASSUME CodecInv, Write PROVE CodecInv'
<1>1. phase = "write" /\ Common /\ DestOK /\ pos = 1 /\ ~bad
  BY DEF Write, CodecInv, Common
<1>2. obj.kind \in {"commit", "tag", "tree", "blob"}
  BY <1>1, PhaseKind
<1>3. PICK n \in 0 .. Len(Text(obj)) :
        text' = SubSeq(Text(obj), 1, n) /\ whole' = (n = Len(Text(obj)))
  BY DEF Write
<1>4. /\ obj' = obj /\ used' = used /\ pos' = pos /\ bad' = bad
      /\ elem' = elem /\ dest' = dest /\ phase' = obj.kind
  BY DEF Write
<1> DEFINE t == Text(obj)
<1>5. Len(t) \in Nat /\ n \in Nat /\ n <= Len(t)
  <2>1. Len(t) \in Nat
    BY <1>1, TextBounds
  <2> QED BY <2>1
<1> HIDE DEF t
<1>6. Len(text') = n /\ \A i \in 1 .. n : text'[i] = t[i]
  <2> DEFINE S == {t[i] : i \in 1 .. n}
  <2>1. \A i \in 1 .. n : t[i] \in S
    OBVIOUS
  <2> HIDE DEF S
  <2> DEFINE u == SubSeq(t, 1, n)
  <2>2. /\ u \in Seq(S) /\ Len(u) = IF 1 <= n THEN n - 1 + 1 ELSE 0
        /\ \A i \in 1 .. n - 1 + 1 : u[i] = t[1 + i - 1]
    BY <1>5, <2>1, SubSeqProperties
  <2> HIDE DEF u
  <2>3. Len(u) = n /\ \A i \in 1 .. n : u[i] = t[i]
    BY <1>5, <2>2
  <2>4. text' = u
    BY <1>3 DEF t, u
  <2> QED BY <2>3, <2>4
<1>7. TextOK'
  <2>1. n \in 0 .. Len(t) /\ (whole' => n = Len(t)) /\ Text(obj') = t
    BY <1>3, <1>4, <1>5 DEF t
  <2> QED BY <1>6, <2>1 DEF TextOK
<1>8. whole' \in BOOLEAN /\ pos' \in 1 .. Len(text') + 1
  <2>1. 1 \in 1 .. n + 1
    BY <1>5
  <2> QED BY <1>1, <1>3, <1>4, <1>6, <2>1
<1>9. phase' \in PhasesOf(obj.kind) /\ phase' # "write" /\ phase' # "done" /\ phase' # "error"
  BY <1>2, <1>4 DEF PhasesOf, CommitPhases, TagPhases, TreePhases
<1>10. Common'
  BY <1>1, <1>4, <1>7, <1>8, <1>9 DEF Common
<1>11. DestOK'
  BY <1>1, <1>4 DEF DestOK
<1>12. KindInv'
  <2>1. CASE obj.kind = "commit"
    <3>1. Blank
      BY <1>1, <2>1 DEF CodecInv, KindInv, CommitInv
    <3>2. Blank' /\ At(1)'
      BY <1>1, <1>4, <3>1 DEF Blank, Bare, New, At
    <3>3. CommitInv'
      BY <1>4, <2>1, <3>2 DEF CommitInv
    <3> QED BY <1>4, <2>1, <3>3 DEF KindInv
  <2>2. CASE obj.kind = "tag"
    <3>1. At(1)'
      BY <1>1, <1>4 DEF At
    <3>2. TagInv'
      BY <1>4, <2>2, <3>1 DEF TagInv
    <3> QED BY <1>4, <2>2, <3>2 DEF KindInv
  <2>3. CASE obj.kind = "tree"
    <3>1. New => dest.elements = <<>>
      BY <1>1, <2>3 DEF CodecInv, KindInv, TreeInv
    <3>2. IsWritten(obj)
      BY <2>3, TreeFacts
    <3>3. 0 \in 0 .. Elements(obj) /\ End(obj, 0) = 0 /\ ElementsRead(0, {})
      BY <3>1, <3>2, NothingRead
    <3>4. 0 \in 0 .. Elements(obj)' /\ End(obj, 0)' = 0 /\ ElementsRead(0, {})'
      BY <1>4, <3>3 DEF Elements, End, ElementsRead, New, Names, NameAt, ElementAt, Representable
    <3>5. pos' = End(obj, 0)' + 1 /\ ~bad'
      BY <1>1, <1>4, <3>4
    <3>6. TreeInv'
      BY <1>4, <2>3, <3>4, <3>5 DEF TreeInv
    <3> QED BY <1>4, <2>3, <3>6 DEF KindInv
  <2>4. CASE obj.kind = "blob"
    <3>1. New => dest.data = <<>>
      BY <1>1, <2>4 DEF CodecInv, KindInv, BlobInv
    <3>2. BlobInv'
      BY <1>1, <1>4, <2>4, <3>1 DEF BlobInv, New
    <3> QED BY <1>4, <2>4, <3>2 DEF KindInv
  <2> QED BY <1>2, <2>1, <2>2, <2>3, <2>4
<1>13. SmoothInv'
  BY <1>1, <1>4, <1>9 DEF SmoothInv
<1> QED BY <1>10, <1>11, <1>12, <1>13 DEF CodecInv

\* The text is not complete when an exception keeps it from being parsed.
LEMMA ThrowsInv ==
  ASSUME CodecInv, phase = "write", phase' = "error", Kept, pos' = pos, bad' = bad,
         elem' = elem, dest' = dest
  PROVE  CodecInv'
<1>1. Common /\ DestOK /\ ~whole
  BY DEF CodecInv, Common
<1>2. Common'
  <2>1. pos' \in 1 .. Len(text) + 1 /\ bad' \in BOOLEAN /\ elem'.mode \in Modes
    BY <1>1 DEF Common
  <2> QED BY <1>1, <2>1, CommonStep
<1>3. DestOK'
  BY <1>1 DEF DestOK, Kept
<1>4. obj'.kind \in {"commit", "tag", "tree", "blob"}
  BY <1>1, PhaseKind DEF Kept
<1>5. KindInv'
  BY <1>4 DEF KindInv, CommitInv, TagInv, TreeInv, BlobInv
<1>6. SmoothInv'
  BY <1>1 DEF SmoothInv, Smooth, Kept
<1> QED BY <1>2, <1>3, <1>5, <1>6 DEF CodecInv

\* The invariant is about the codec's variables only.
LEMMA CodecStays == ASSUME CodecInv, UNCHANGED vars PROVE CodecInv'
<1>1. /\ obj' = obj /\ used' = used /\ text' = text /\ whole' = whole /\ pos' = pos
      /\ bad' = bad /\ tmp' = tmp /\ elem' = elem /\ dest' = dest /\ phase' = phase
  BY DEF vars
<1>2. Common' /\ DestOK' /\ SmoothInv'
  <2>1. Common'
    BY <1>1 DEF CodecInv, Common, TextOK
  <2>2. DestOK'
    BY <1>1 DEF CodecInv, DestOK
  <2>3. SmoothInv'
    BY <1>1 DEF CodecInv, SmoothInv, Smooth, New
  <2> QED BY <2>1, <2>2, <2>3
<1>3. obj.kind \in {"commit", "tag", "tree", "blob"} /\ KindInv
  BY PhaseKind DEF CodecInv
<1>4. KindInv'
  <2>1. CASE obj.kind = "commit"
    <3>1. CommitInv
      BY <1>3, <2>1 DEF KindInv
    <3>2. CommitInv'
      BY <1>1, <3>1 DEF CommitInv, New, Blank, Bare, Begun, Rooted, Authored, Committed, At
    <3> QED BY <1>1, <2>1, <3>2 DEF KindInv
  <2>2. CASE obj.kind = "tag"
    <3>1. TagInv
      BY <1>3, <2>2 DEF KindInv
    <3>2. TagInv'
      BY <1>1, <3>1 DEF TagInv, Aimed, Typed, Named, Tagged, At
    <3> QED BY <1>1, <2>2, <3>2 DEF KindInv
  <2>3. CASE obj.kind = "tree"
    <3>1. TreeInv
      BY <1>3, <2>3 DEF KindInv
    <3>2. \A k, lost : /\ ElementsRead(k, lost) => ElementsRead(k, lost)'
                       /\ Lost(k, lost) => Lost(k, lost)'
      BY <1>1, StaysRead DEF Kept
    <3>3. \A k, i : InMode(k, i) => InMode(k, i)'
      BY <1>1 DEF InMode, Representable
    <3>4. phase \in {"write", "tree", "mode", "done", "error"}
      BY <2>3 DEF CodecInv, Common, PhasesOf, TreePhases
    <3>5. TreeInv'
      <4>1. CASE phase \in {"write", "error"}
        BY <1>1, <3>1, <4>1 DEF TreeInv, New
      <4>2. CASE phase = "tree"
        BY <1>1, <3>1, <3>2, <4>2 DEF TreeInv
      <4>3. CASE phase = "mode"
        BY <1>1, <3>1, <3>2, <3>3, <4>3 DEF TreeInv
      <4>4. CASE phase = "done"
        BY <1>1, <3>1, <3>2, <4>4 DEF TreeInv
      <4> QED BY <2>3, <3>4, <4>1, <4>2, <4>3, <4>4
    <3> QED BY <1>1, <2>3, <3>5 DEF KindInv
  <2>4. CASE obj.kind = "blob"
    <3>1. BlobInv
      BY <1>3, <2>4 DEF KindInv
    <3>2. BlobInv'
      BY <1>1, <3>1 DEF BlobInv, New
    <3> QED BY <1>1, <2>4, <3>2 DEF KindInv
  <2> QED BY <1>3, <2>1, <2>2, <2>3, <2>4
<1> QED BY <1>2, <1>4 DEF CodecInv

\* Every step preserves the invariant.
LEMMA NextInv == ASSUME CodecInv, [Next]_vars PROVE CodecInv'
<1>1. CASE WriteThrows
  BY <1>1, ThrowsInv DEF WriteThrows, Kept
<1>2. CASE Rests \/ UNCHANGED vars
  BY <1>2, CodecStays DEF Rests
<1> QED BY <1>1, <1>2, WritesInv, CommitParses, TagParses, TreeOrBlobParses DEF Next

\* Type correctness is a part of the invariant.
LEMMA CodecTyped == ASSUME CodecInv PROVE TypeOK
<1>1. Common /\ DestOK
  BY DEF CodecInv
<1>2. obj.kind \in {"commit", "tag", "tree", "blob"}
  BY <1>1, PhaseKind
<1>3. phase \in {"write", "done", "error"} \cup PhasesOf(obj.kind)
  BY <1>1 DEF Common
<1>4. phase \in Phases
  BY <1>2, <1>3 DEF Phases, PhasesOf, CommitPhases, TagPhases, TreePhases
<1> QED BY <1>1, <1>4 DEF Common, DestOK, TypeOK

\* When a parser ends, what is smooth is read back.
LEMMA CodecRoundTrip == ASSUME CodecInv PROVE RoundTrip
BY DEF CodecInv, SmoothInv, Smooth, New, RoundTrip, Ended

\* What is accepted of a tree whose text broke off.
LEMMA TreeAccepted ==
  ASSUME IsWritten(obj), New, NEW j \in 0 .. Elements(obj),
         NEW broken \in SUBSET DOMAIN dest.elements,
         ElementsRead(j, broken), Lost(j, broken)
  PROVE  LET lost == {n \in DOMAIN dest.elements : dest.elements[n].key = None}
         IN /\ Cardinality(lost) <= 1
            /\ \A n \in DOMAIN dest.elements \ lost :
                 /\ n \in DOMAIN obj.elements
                 /\ dest.elements[n].key = obj.elements[n].key
<1> DEFINE lost == {n \in DOMAIN dest.elements : dest.elements[n].key = None}
<1>1. /\ DOMAIN dest.elements = Names(obj, j) \cup broken
      /\ \A i \in 1 .. j : dest.elements[NameAt(obj, i)].key = ElementAt(obj, i).key
  BY DEF ElementsRead
<1>2. Elements(obj) \in Nat /\ \A i \in 1 .. j : i \in 1 .. Elements(obj)
  <2>1. Elements(obj) \in Nat
    BY NamesOrdered
  <2> QED BY <2>1
<1>3. ASSUME NEW n \in Names(obj, j)
      PROVE  /\ n \in DOMAIN obj.elements /\ n \notin lost
             /\ dest.elements[n].key = obj.elements[n].key
  <2>1. PICK i \in 1 .. j : n = NameAt(obj, i)
    BY DEF Names
  <2>2. i \in 1 .. Elements(obj)
    BY <1>2
  <2>3. n \in DOMAIN obj.elements
    BY <2>1, <2>2, NamesOrdered
  <2>4. ElementAt(obj, i) = obj.elements[n] /\ obj.elements[n] \in [mode : Modes, key : Keys]
    BY <2>1, <2>3 DEF ElementAt, IsWritten, IsTree
  <2>5. dest.elements[n].key = obj.elements[n].key /\ obj.elements[n].key \in Keys
    BY <1>1, <2>1, <2>4
  <2> QED BY <2>3, <2>5, NameAssumption
<1>4. lost \subseteq broken
  BY <1>1, <1>3
<1>5. Cardinality(lost) <= 1
  <2>1. CASE lost = {}
    BY <2>1, FS_EmptySet
  <2>2. CASE lost # {}
    <3>1. PICK x : x \in lost
      BY <2>2
    <3>2. lost = {x}
      BY <1>4, <3>1 DEF Lost
    <3>3. Cardinality({x}) = 1
      BY FS_Singleton
    <3> HIDE DEF lost
    <3> QED BY <3>2, <3>3
  <2> QED BY <2>1, <2>2
<1>6. \A n \in DOMAIN dest.elements \ lost : n \in Names(obj, j)
  BY <1>1 DEF Lost
<1> QED BY <1>3, <1>5, <1>6

\* When a parser ends without an exception, it was behind what makes the object.
LEMMA CodecAccepted == ASSUME CodecInv PROVE AcceptedSound
<1> SUFFICES ASSUME phase = "done", New PROVE AcceptedSound
  BY DEF AcceptedSound, New
<1>1. Common /\ KindInv /\ obj.kind \in {"commit", "tag", "tree", "blob"}
  BY PhaseKind DEF CodecInv
<1>2. CASE obj.kind = "commit"
  <2>1. Committed
    BY <1>1, <1>2 DEF KindInv, CommitInv
  <2> QED BY <1>2, <2>1 DEF Committed, Authored, Rooted, AcceptedSound
<1>3. CASE obj.kind = "tag"
  <2>1. Named /\ dest.tagger.name = obj.tagger.name /\ (~bad => Tagged)
    BY <1>1, <1>3 DEF KindInv, TagInv
  <2> QED BY <1>3, <2>1 DEF Tagged, Named, Typed, Aimed, AcceptedSound
<1>4. CASE obj.kind = "tree"
  <2>1. PICK j \in 0 .. Elements(obj) :
          \E broken \in SUBSET DOMAIN dest.elements :
            ElementsRead(j, broken) /\ Lost(j, broken)
    BY <1>1, <1>4 DEF KindInv, TreeInv
  <2>2. PICK broken \in SUBSET DOMAIN dest.elements :
          ElementsRead(j, broken) /\ Lost(j, broken)
    BY <2>1
  <2>3. IsWritten(obj)
    BY <1>4, TreeFacts
  <2> QED BY <1>4, <2>2, <2>3, TreeAccepted DEF AcceptedSound
<1>5. CASE obj.kind = "blob"
  <2>1. IsPrefix(dest.data, obj.data)
    BY <1>1, <1>5 DEF KindInv, BlobInv
  <2> QED BY <1>5, <2>1 DEF AcceptedSound
<1> QED BY <1>1, <1>2, <1>3, <1>4, <1>5

\* What is parsed stays an object of its kind, with offsets and modes of their
\* widths, wherever its text breaks off (operator >>).
THEOREM CodecTypes == Spec => []TypeOK
<1>1. CodecInv => TypeOK
  BY CodecTyped
<1> QED BY InitInv, NextInv, <1>1, PTL DEF Spec

\* What was written is read back, for any object that its text can express
\* (operator << and operator >>).
THEOREM CodecReadsBack == Spec => []RoundTrip
<1>1. CodecInv => RoundTrip
  BY CodecRoundTrip
<1> QED BY InitInv, NextInv, <1>1, PTL DEF Spec

\* A text that broke off is accepted only behind what makes the object; of a tag
\* that may be all but the tagger's email, time and offset, if the stream failed.
THEOREM CodecAcceptsSound == Spec => []AcceptedSound
<1>1. CodecInv => AcceptedSound
  BY CodecAccepted
<1> QED BY InitInv, NextInv, <1>1, PTL DEF Spec
=============================================================================
