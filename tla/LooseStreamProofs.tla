------------------------- MODULE LooseStreamProofs -------------------------
(***************************************************************************)
(* Proofs about LooseStream, for objects, headers and buffers of any size. *)
(***************************************************************************)
EXTENDS LooseStream, SequenceTheorems, TLAPS

\* The sizes of what an object is written and read with.
LEMMA SizeFacts ==
  ASSUME size \in Sizes
  PROVE  /\ size \in Nat /\ BufLen \in Nat /\ Capacity \in Nat
         /\ BufLen < Capacity
         /\ HeaderLen[size] \in 1 .. BufLen /\ HeaderLen[size] \in Nat
BY SizeAssumption, BufferAssumption

\* s is a header of h bytes with the first k bytes of the data behind it.
Framed(s, h, k) ==
  /\ s \in Seq(Int) /\ Len(s) = h + k
  /\ \A i \in 1 .. h + k : s[i] = IF i <= h THEN -i ELSE i - h

\* The bytes of a piece of the data.
LEMMA DataFacts ==
  ASSUME NEW a \in Nat, NEW n \in Nat
  PROVE  /\ Data(a + 1, a + n) \in Seq(Int) /\ Len(Data(a + 1, a + n)) = n
         /\ \A i \in 1 .. n : Data(a + 1, a + n)[i] = a + i
<1> DEFINE d == Data(a + 1, a + n)
<1>1. d = [i \in 1 .. n |-> a + i]
  <2>1. a + n - (a + 1) + 1 = n /\ \A i \in 1 .. n : a + 1 + i - 1 = a + i
    OBVIOUS
  <2> QED BY <2>1 DEF Data
<1> HIDE DEF d
<1>2. d \in [1 .. n -> Int] /\ \A i \in 1 .. n : d[i] = a + i
  BY <1>1
<1>3. d \in Seq(Int) /\ Len(d) = n
  BY <1>2
<1> QED BY <1>2, <1>3 DEF d

\* The whole data.
LEMMA AllData ==
  ASSUME NEW n \in Nat
  PROVE  /\ Data(1, n) \in Seq(Int) /\ Len(Data(1, n)) = n
         /\ \A i \in 1 .. n : Data(1, n)[i] = i
<1>1. Data(0 + 1, 0 + n) = Data(1, n)
  OBVIOUS
<1> QED BY <1>1, DataFacts

\* The bytes of the header.
LEMMA HeaderFacts ==
  ASSUME size \in Sizes
  PROVE  /\ Header \in Seq(Int) /\ Len(Header) = HeaderLen[size]
         /\ \A i \in 1 .. HeaderLen[size] : Header[i] = -i
<1> DEFINE h == HeaderLen[size]
           s == Header
<1>1. h \in Nat
  BY SizeFacts
<1>2. s = [i \in 1 .. h |-> -i]
  BY DEF Header
<1> HIDE DEF h, s
<1>3. s \in [1 .. h -> Int] /\ \A i \in 1 .. h : s[i] = -i
  BY <1>1, <1>2
<1>4. s \in Seq(Int) /\ Len(s) = h
  BY <1>1, <1>3
<1> QED BY <1>3, <1>4 DEF h, s

\* A first piece goes behind the header.
LEMMA FramedFirst ==
  ASSUME NEW s \in Seq(Int), NEW h \in Nat, NEW d \in Seq(Int),
         Len(s) = h, \A i \in 1 .. h : s[i] = -i,
         \A i \in 1 .. Len(d) : d[i] = i
  PROVE  Framed(s \o d, h, Len(d))
<1> DEFINE f == s \o d
<1>1. /\ f \in Seq(Int) /\ Len(f) = h + Len(d)
      /\ \A i \in 1 .. h + Len(d) : f[i] = IF i <= h THEN s[i] ELSE d[i - h]
  BY ConcatProperties
<1>2. Len(d) \in Nat
  OBVIOUS
<1> HIDE DEF f
<1>3. ASSUME NEW i \in 1 .. h + Len(d)
      PROVE  f[i] = IF i <= h THEN -i ELSE i - h
  <2>1. CASE i <= h
    BY <1>1, <1>2, <2>1
  <2>2. CASE ~(i <= h)
    <3>1. i - h \in 1 .. Len(d)
      BY <1>2, <2>2
    <3> QED BY <1>1, <1>2, <2>2, <3>1
  <2> QED BY <2>1, <2>2
<1> QED BY <1>1, <1>3 DEF f, Framed

\* A further piece goes behind those that are there.
LEMMA FramedNext ==
  ASSUME NEW s, NEW h \in Nat, NEW k \in Nat, NEW d \in Seq(Int),
         Framed(s, h, k), \A i \in 1 .. Len(d) : d[i] = k + i
  PROVE  Framed(s \o d, h, k + Len(d))
<1> DEFINE f == s \o d
<1>1. /\ s \in Seq(Int) /\ Len(s) = h + k
      /\ \A i \in 1 .. h + k : s[i] = IF i <= h THEN -i ELSE i - h
  BY DEF Framed
<1>2. Len(d) \in Nat
  OBVIOUS
<1>3. /\ f \in Seq(Int) /\ Len(f) = h + (k + Len(d))
      /\ \A i \in 1 .. h + (k + Len(d)) :
           f[i] = IF i <= h + k THEN s[i] ELSE d[i - (h + k)]
  <2>1. /\ f \in Seq(Int) /\ Len(f) = Len(s) + Len(d)
        /\ \A i \in 1 .. Len(s) + Len(d) :
             f[i] = IF i <= Len(s) THEN s[i] ELSE d[i - Len(s)]
    BY <1>1, ConcatProperties
  <2>2. Len(s) + Len(d) = h + (k + Len(d))
    BY <1>1, <1>2
  <2> QED BY <1>1, <2>1, <2>2
<1> HIDE DEF f
<1>4. ASSUME NEW i \in 1 .. h + (k + Len(d))
      PROVE  f[i] = IF i <= h THEN -i ELSE i - h
  <2>1. CASE i <= h + k
    BY <1>1, <1>2, <1>3, <2>1
  <2>2. CASE ~(i <= h + k)
    <3>1. i - (h + k) \in 1 .. Len(d) /\ ~(i <= h)
      BY <1>2, <2>2
    <3>2. f[i] = k + (i - (h + k))
      BY <1>3, <2>2, <3>1
    <3> QED BY <3>1, <3>2
  <2> QED BY <2>1, <2>2
<1> QED BY <1>3, <1>4 DEF f, Framed

-----------------------------------------------------------------------------
(* Writing.                                                                *)

\* What is in the file, and that it is read only when it was closed.
FInv ==
  /\ phase \in {"write", "closed", "read", "end", "undefined"}
  /\ size \in Sizes /\ written \in 0 .. size /\ pending \in BOOLEAN
  /\ hashed = file
  /\ pending <=> written = 0
  /\ written = 0 => file = <<>>
  /\ written > 0 => Framed(file, HeaderLen[size], written)
  /\ phase # "write" => written = size
  /\ phase \in {"read", "end"} => file # <<>>

\* A write puts the header before the first bytes, and the bytes into both
\* the file and the hash.
LEMMA WriteFile ==
  ASSUME FInv, NEW n \in 1 .. size, Write(n)
  PROVE  FInv'
<1> DEFINE h == HeaderLen[size]
           d == Data(written + 1, written + n)
           out == (IF pending THEN Header ELSE <<>>) \o d
<1>1. size \in Nat /\ h \in Nat /\ written \in Nat /\ n \in Nat
  BY SizeFacts DEF FInv
<1>2. d \in Seq(Int) /\ Len(d) = n /\ \A i \in 1 .. n : d[i] = written + i
  BY <1>1, DataFacts
<1>3. file' = file \o out /\ hashed' = hashed \o out
  BY DEF Write
<1>4. n \in 1 .. size - written /\ written' = written + n /\ size' = size
      /\ phase' = phase /\ phase = "write" /\ pending' = FALSE
  BY DEF Write
<1> HIDE DEF d
<1>5. Framed(file', h, written + n)
  <2>1. CASE pending
    <3>1. written = 0 /\ file = <<>>
      BY <2>1 DEF FInv
    <3>2. Header \in Seq(Int) /\ Len(Header) = h
          /\ \A i \in 1 .. h : Header[i] = -i
      BY HeaderFacts DEF FInv
    <3>3. Framed(Header \o d, h, n)
      <4>1. \A i \in 1 .. Len(d) : d[i] = i
        BY <1>2, <3>1
      <4> QED BY <1>1, <1>2, <3>2, <4>1, FramedFirst
    <3>4. out = Header \o d
      BY <2>1
    <3>5. file' = Header \o d
      <4>1. Header \o d \in Seq(Int)
        BY <3>3 DEF Framed
      <4>2. <<>> \o (Header \o d) = Header \o d
        BY <4>1, ConcatEmptySeq
      <4> QED BY <1>3, <3>1, <3>4, <4>2
    <3>6. written + n = n
      BY <1>1, <3>1
    <3> QED BY <3>3, <3>5, <3>6
  <2>2. CASE ~pending
    <3>1. Framed(file, h, written)
      BY <1>1, <2>2 DEF FInv
    <3>2. Framed(file \o d, h, written + n)
      BY <1>1, <1>2, <3>1, FramedNext
    <3>3. out = d
      BY <1>2, <2>2, ConcatEmptySeq
    <3> QED BY <1>3, <3>2, <3>3
  <2> QED BY <2>1, <2>2 DEF FInv
<1>6. hashed' = file'
  BY <1>3 DEF FInv
<1> HIDE DEF out
<1>7. written' \in 0 .. size /\ written' > 0 /\ written' # 0
  BY <1>1, <1>4
<1>8. Framed(file', HeaderLen[size'], written')
  BY <1>4, <1>5
<1>9. pending' \in BOOLEAN /\ (pending' <=> written' = 0)
  BY <1>4, <1>7
<1>10. phase' = "write" /\ size' \in Sizes
  BY <1>4 DEF FInv
<1> QED BY <1>4, <1>6, <1>7, <1>8, <1>9, <1>10 DEF FInv

\* The file is what was hashed, and complete when it is closed.
LEMMA FileInvariant == Spec => []FInv
<1>1. Init => FInv
  <2> SUFFICES ASSUME Init PROVE FInv
    OBVIOUS
  <2>1. size \in Nat
    BY SizeAssumption DEF Init
  <2> QED BY <2>1 DEF Init, FInv
<1>2. FInv /\ [Next]_vars => FInv'
  <2> SUFFICES ASSUME FInv, [Next]_vars PROVE FInv'
    OBVIOUS
  <2>1. ASSUME NEW n \in 1 .. size, Write(n) PROVE FInv'
    BY <2>1, WriteFile
  <2>2. CASE Pop
    BY <2>2 DEF Pop, writeVars, FInv
  <2>3. CASE Open \/ OpenNothing
    BY <2>3 DEF Open, OpenNothing, writeVars, FInv
  <2>4. ASSUME NEW n \in 1 .. Len(avail), Take(n) PROVE FInv'
    BY <2>4 DEF Take, writeVars, FInv
  <2>5. CASE Refill
    BY <2>5 DEF Refill, writeVars, FInv
  <2>6. CASE Done \/ UNCHANGED vars
    BY <2>6 DEF Done, vars, FInv
  <2> QED BY <2>1, <2>2, <2>3, <2>4, <2>5, <2>6 DEF Next
<1> QED BY <1>1, <1>2, PTL DEF Spec

\* However the data was cut into writes, the hash is that of the file, which
\* has the header once, first, and then the data.
THEOREM HashIsOfFile == Spec => []HashedFile
<1>1. FInv => HashedFile
  <2> SUFFICES ASSUME FInv, phase # "write", size > 0
               PROVE  file = Header \o Data(1, size)
    BY DEF FInv, HashedFile
  <2> DEFINE h == HeaderLen[size]
             f == Header \o Data(1, size)
  <2>1. size \in Nat /\ h \in Nat
    BY SizeFacts DEF FInv
  <2>2. Framed(file, h, size)
    BY DEF FInv
  <2>3. Framed(f, h, size)
    <3>1. Header \in Seq(Int) /\ Len(Header) = h
          /\ \A i \in 1 .. h : Header[i] = -i
      BY HeaderFacts DEF FInv
    <3>2. /\ Data(1, size) \in Seq(Int) /\ Len(Data(1, size)) = size
          /\ \A i \in 1 .. size : Data(1, size)[i] = i
      BY <2>1, AllData
    <3>3. Framed(f, h, Len(Data(1, size)))
      BY <2>1, <3>1, <3>2, FramedFirst
    <3> QED BY <3>2, <3>3
  <2> HIDE DEF f, h
  <2>4. file = f
    BY <2>2, <2>3, SeqEqual DEF Framed
  <2> QED BY <2>4 DEF f
<1> QED BY <1>1, FileInvariant, PTL
-----------------------------------------------------------------------------
(* Reading.                                                                *)

\* Bytes of n bytes of data in their order, none twice, none behind byte top.
Ordered(s, top, n) ==
  /\ s \in Seq(Int)
  /\ \A i \in 1 .. Len(s) : s[i] \in 1 .. n /\ s[i] <= top
  /\ \A i, j \in 1 .. Len(s) : i < j => s[i] < s[j]

\* The sequence w is what is between r and q behind a header of h bytes.
Between(w, h, r, q) ==
  /\ w \in Seq(Int)
  /\ Len(w) = IF r <= q THEN q - r + 1 ELSE 0
  /\ \A i \in 1 .. q - r + 1 : w[i] = r - 1 - h + i

\* A window of a file behind its header.
LEMMA Window ==
  ASSUME NEW h \in Nat, NEW k \in Nat, Framed(file, h, k),
         NEW r \in h + 1 .. h + k + 1, NEW q \in Int, q <= h + k
  PROVE  Between(SubSeq(file, r, q), h, r, q)
<1> DEFINE w == SubSeq(file, r, q)
<1>1. \A i \in 1 .. h + k : file[i] \in Int
  BY DEF Framed
<1>2. \A i \in r .. q : file[i] \in Int
  BY <1>1
<1>3. /\ w \in Seq(Int)
      /\ Len(w) = IF r <= q THEN q - r + 1 ELSE 0
      /\ \A i \in 1 .. q - r + 1 : w[i] = file[r + i - 1]
  BY <1>2, SubSeqProperties
<1> HIDE DEF w
<1>4. ASSUME NEW i \in 1 .. q - r + 1
      PROVE  w[i] = r - 1 - h + i
  <2>1. r + i - 1 \in 1 .. h + k /\ ~(r + i - 1 <= h)
    OBVIOUS
  <2>2. file[r + i - 1] = r + i - 1 - h
    BY <2>1 DEF Framed
  <2> QED BY <1>3, <2>1, <2>2
<1> QED BY <1>3, <1>4 DEF w, Between

\* What comes behind the last byte that was read goes on in order.
LEMMA OrderedNext ==
  ASSUME NEW g, NEW a \in Nat, NEW z \in Nat, Ordered(g, a, z),
         NEW w \in Seq(Int), \A i \in 1 .. Len(w) : w[i] = a + i,
         NEW t \in Int, a + Len(w) <= t, a + Len(w) <= z
  PROVE  Ordered(g \o w, t, z)
<1> DEFINE s == g \o w
           n == Len(g)
           m == Len(w)
<1>1. /\ g \in Seq(Int)
      /\ \A i \in 1 .. n : g[i] \in 1 .. z /\ g[i] <= a
      /\ \A i, j \in 1 .. n : i < j => g[i] < g[j]
  BY DEF Ordered
<1>2. /\ s \in Seq(Int) /\ Len(s) = n + m
      /\ \A i \in 1 .. n + m : s[i] = IF i <= n THEN g[i] ELSE w[i - n]
  BY <1>1, ConcatProperties
<1>3. n \in Nat /\ m \in Nat
  BY <1>1
<1>4. \A i \in 1 .. m : w[i] = a + i
  OBVIOUS
<1>5. a + m <= t /\ a + m <= z
  OBVIOUS
<1> HIDE DEF s, n, m
<1>6. ASSUME NEW i \in 1 .. n + m
      PROVE  \/ i \in 1 .. n /\ s[i] = g[i]
             \/ i - n \in 1 .. m /\ s[i] = a + (i - n)
  <2>1. CASE i <= n
    BY <1>2, <1>3, <2>1
  <2>2. CASE ~(i <= n)
    <3>1. i - n \in 1 .. m
      BY <1>3, <2>2
    <3>2. s[i] = w[i - n]
      BY <1>2, <2>2
    <3> QED BY <1>4, <3>1, <3>2
  <2> QED BY <2>1, <2>2
<1>7. ASSUME NEW i \in 1 .. n + m
      PROVE  s[i] \in 1 .. z /\ s[i] <= t
  BY <1>1, <1>3, <1>5, <1>6
<1>8. ASSUME NEW i \in 1 .. n + m, NEW j \in 1 .. n + m, i < j
      PROVE  s[i] < s[j]
  BY <1>1, <1>3, <1>6, <1>8
<1> QED BY <1>2, <1>7, <1>8 DEF Ordered, s

RInv ==
  /\ got \in Seq(Int) /\ avail \in Seq(Int)
  /\ pos \in 0 .. Len(file)
  /\ phase \in {"write", "closed", "undefined"} =>
       got = <<>> /\ avail = <<>> /\ pos = 0
  /\ phase \in {"read", "end"} =>
       HeaderLen[size] <= pos /\ Ordered(got \o avail, pos - HeaderLen[size], size)
  /\ phase \in {"read", "end"} /\ HeaderLen[size] + size <= Capacity =>
       pos = Len(file) /\ got \o avail = Data(1, size)
  /\ phase = "end" => avail = <<>>

\* A file that can be read has all of its object.
LEMMA FileFacts ==
  FInv => /\ size \in Nat /\ HeaderLen[size] \in Nat
          /\ Len(file) \in Nat
          /\ phase # "write" /\ file # <<>> =>
               /\ Framed(file, HeaderLen[size], size)
               /\ Len(file) = HeaderLen[size] + size
<1> SUFFICES ASSUME FInv
             PROVE  /\ size \in Nat /\ HeaderLen[size] \in Nat
                    /\ Len(file) \in Nat
                    /\ phase # "write" /\ file # <<>> =>
                         /\ Framed(file, HeaderLen[size], size)
                         /\ Len(file) = HeaderLen[size] + size
  OBVIOUS
<1>1. size \in Nat /\ HeaderLen[size] \in Nat /\ written \in Nat
  BY SizeFacts DEF FInv
<1>2. CASE written = 0
  BY <1>1, <1>2 DEF FInv
<1>3. CASE written > 0
  BY <1>1, <1>3 DEF FInv, Framed
<1> QED BY <1>1, <1>2, <1>3

\* The first read parses the header and leaves the data behind it.
LEMMA OpenRead ==
  ASSUME FInv, RInv, Open
  PROVE  RInv'
<1> DEFINE h == HeaderLen[size]
           nb == Least(BufLen, Len(file))
           n == Least(Capacity - nb, Len(file) - nb)
           m == nb + n
           w == SubSeq(file, h + 1, m)
<1>1. /\ size \in Nat /\ h \in Nat /\ h <= BufLen /\ BufLen \in Nat
      /\ Capacity \in Nat /\ BufLen < Capacity
  BY SizeFacts DEF FInv
<1>2. Framed(file, h, size) /\ Len(file) = h + size
  BY FileFacts DEF Open
<1>3. /\ got = <<>> /\ got' = <<>> /\ avail' = w /\ pos' = m
      /\ size' = size /\ file' = file
      /\ phase' = IF w = <<>> THEN "end" ELSE "read"
  BY DEF Open, writeVars, RInv
<1> HIDE DEF h
<1>4. /\ m \in h .. h + size
      /\ h + size <= Capacity => m = h + size
  <2>1. nb \in h .. h + size /\ nb < Capacity
    BY <1>1, <1>2 DEF Least
  <2> HIDE DEF nb
  <2>2. n = IF Capacity < h + size THEN Capacity - nb ELSE h + size - nb
    BY <1>1, <1>2, <2>1 DEF Least
  <2> HIDE DEF n
  <2> QED BY <1>1, <2>1, <2>2
<1> HIDE DEF m, n, nb
<1>5. /\ w \in Seq(Int) /\ Len(w) = m - h
      /\ \A i \in 1 .. m - h : w[i] = 0 + i
  <2> DEFINE r == h + 1
  <2>1. r \in h + 1 .. h + size + 1 /\ m \in Int /\ m <= h + size
    BY <1>1, <1>4
  <2>2. w = SubSeq(file, r, m) /\ r = h + 1
    OBVIOUS
  <2> HIDE DEF r, w
  <2>3. /\ w \in Seq(Int) /\ Len(w) = IF r <= m THEN m - r + 1 ELSE 0
        /\ \A i \in 1 .. m - r + 1 : w[i] = r - 1 - h + i
    <3>1. size \in Nat /\ h \in Nat /\ Framed(file, h, size)
      BY <1>1, <1>2
    <3>2. Between(SubSeq(file, r, m), h, r, m)
      BY <2>1, <3>1, Window
    <3> QED BY <2>2, <3>2 DEF Between
  <2>4. m - r + 1 = m - h /\ r - 1 - h = 0 /\ (r <= m \/ m - h = 0)
    BY <1>1, <1>4, <2>2
  <2>5. Len(w) = m - h
    BY <1>1, <1>4, <2>3, <2>4
  <2>6. \A i \in 1 .. m - h : w[i] = 0 + i
    BY <2>3, <2>4
  <2> QED BY <2>3, <2>5, <2>6
<1> HIDE DEF w
<1>6. <<>> \o w = w
  BY <1>5, ConcatEmptySeq
<1>7. Ordered(w, m - h, size)
  <2>1. Ordered(<<>>, 0, size)
    BY DEF Ordered
  <2>2. /\ \A i \in 1 .. Len(w) : w[i] = 0 + i
        /\ m - h \in Int /\ 0 + Len(w) <= m - h /\ 0 + Len(w) <= size
    BY <1>1, <1>4, <1>5
  <2>3. Ordered(<<>> \o w, m - h, size)
    BY <1>1, <1>5, <2>1, <2>2, OrderedNext
  <2> QED BY <1>6, <2>3
<1>8. ASSUME h + size <= Capacity
      PROVE  w = Data(1, size)
  <2>1. Len(w) = size /\ \A i \in 1 .. size : w[i] = i
    BY <1>1, <1>4, <1>5, <1>8
  <2>2. /\ Data(1, size) \in Seq(Int) /\ Len(Data(1, size)) = size
        /\ \A i \in 1 .. size : Data(1, size)[i] = i
    BY <1>1, AllData
  <2> QED BY <1>5, <2>1, <2>2, SeqEqual
<1>9. pos' \in 0 .. Len(file') /\ HeaderLen[size'] <= pos'
  BY <1>1, <1>2, <1>3, <1>4 DEF h
<1>10. Ordered(got' \o avail', pos' - HeaderLen[size'], size')
  BY <1>3, <1>6, <1>7 DEF h
<1>11. HeaderLen[size'] + size' <= Capacity =>
         pos' = Len(file') /\ got' \o avail' = Data(1, size')
  BY <1>2, <1>3, <1>4, <1>6, <1>8 DEF h
<1>12. /\ got' \in Seq(Int) /\ avail' \in Seq(Int)
       /\ phase' \in {"read", "end"} /\ (phase' = "end" => avail' = <<>>)
  BY <1>3, <1>5
<1> QED BY <1>9, <1>10, <1>11, <1>12 DEF RInv

\* Concatenation is associative.
LEMMA Regrouped ==
  ASSUME NEW s \in Seq(Int), NEW t \in Seq(Int), NEW u \in Seq(Int)
  PROVE  (s \o t) \o u = s \o (t \o u)
BY ConcatAssociative

\* Taking what is buffered moves it to what was read.
LEMMA TakeRead ==
  ASSUME RInv, NEW n \in 1 .. Len(avail), Take(n)
  PROVE  RInv'
<1> DEFINE x == SubSeq(avail, 1, n)
           y == SubSeq(avail, n + 1, Len(avail))
<1>1. got \in Seq(Int) /\ avail \in Seq(Int) /\ Len(avail) \in Nat /\ n \in Nat
  BY DEF RInv
<1>2. x \in Seq(Int) /\ y \in Seq(Int)
  <2>1. \A i \in 1 .. Len(avail) : avail[i] \in Int
    BY <1>1
  <2>2. \A i \in 1 .. n : avail[i] \in Int
    BY <1>1, <2>1
  <2>3. \A i \in n + 1 .. Len(avail) : avail[i] \in Int
    BY <1>1, <2>1
  <2>4. x \in Seq(Int)
    BY <1>1, <2>2, SubSeqProperties
  <2>5. n + 1 \in Int /\ Len(avail) \in Int
    BY <1>1
  <2>6. y \in Seq(Int)
    BY <2>3, <2>5, SubSeqProperties
  <2> QED BY <2>4, <2>6
<1>3. x \o y = avail
  <2>1. x \o y = SubSeq(avail, 1, Len(avail))
    BY <1>1, ConcatAdjacentSubSeq
  <2> QED BY <1>1, <2>1, SubSeqFull
<1>4. /\ got' = got \o x /\ avail' = y /\ phase = "read" /\ phase' = phase
      /\ pos' = pos /\ size' = size /\ file' = file
  BY DEF Take, writeVars
<1> HIDE DEF x, y
<1>5. got' \o avail' = got \o avail
  <2>1. (got \o x) \o y = got \o (x \o y)
    BY <1>1, <1>2, Regrouped
  <2> QED BY <1>3, <1>4, <2>1
<1>6. got' \in Seq(Int) /\ avail' \in Seq(Int)
  <2>1. got \o x \in Seq(Int)
    BY <1>1, <1>2, ConcatProperties
  <2> QED BY <1>2, <1>4, <2>1
<1> QED BY <1>4, <1>5, <1>6 DEF RInv

\* A refill loses bytes, and still goes on behind what was read before.
LEMMA RefillRead ==
  ASSUME FInv, RInv, Refill
  PROVE  RInv'
<1> DEFINE h == HeaderLen[size]
           n == Least(Capacity, Len(file) - pos)
           w == SubSeq(file, pos + 1, pos + n - 1)
<1>1. /\ size \in Nat /\ h \in Nat /\ Capacity \in Nat /\ Capacity > 0
  BY SizeFacts DEF FInv
<1>2. Framed(file, h, size) /\ Len(file) = h + size
  BY FileFacts DEF Refill, FInv
<1>3. /\ avail = <<>> /\ got' = got /\ avail' = w /\ pos' = pos + n
      /\ size' = size /\ file' = file
      /\ phase' = IF w = <<>> THEN "end" ELSE "read"
  BY DEF Refill, writeVars
<1>4. /\ got \in Seq(Int) /\ pos \in h .. h + size
      /\ Ordered(got, pos - h, size)
      /\ h + size <= Capacity => pos = h + size /\ got = Data(1, size)
  <2>1. got \in Seq(Int) /\ got \o avail = got
    BY <1>3, ConcatEmptySeq DEF RInv
  <2> QED BY <1>1, <1>2, <2>1 DEF RInv, Refill
<1> HIDE DEF h
<1>5. /\ n \in 0 .. h + size - pos
      /\ pos = h + size => n = 0
  BY <1>1, <1>2, <1>4 DEF Least
<1> HIDE DEF n
<1>6. /\ w \in Seq(Int) /\ Len(w) = IF n > 0 THEN n - 1 ELSE 0
      /\ \A i \in 1 .. Len(w) : w[i] = (pos - h) + i
  <2> DEFINE r == pos + 1
             q == pos + n - 1
  <2>1. r \in h + 1 .. h + size + 1 /\ q \in Int /\ q <= h + size
    BY <1>1, <1>4, <1>5
  <2>2. w = SubSeq(file, r, q) /\ r = pos + 1 /\ q = pos + n - 1 /\ pos \in Int
    BY <1>1, <1>4
  <2> HIDE DEF r, q, w
  <2>3. /\ w \in Seq(Int) /\ Len(w) = IF r <= q THEN q - r + 1 ELSE 0
        /\ \A i \in 1 .. q - r + 1 : w[i] = r - 1 - h + i
    <3>1. size \in Nat /\ h \in Nat /\ Framed(file, h, size)
      BY <1>1, <1>2
    <3>2. Between(SubSeq(file, r, q), h, r, q)
      BY <2>1, <3>1, Window
    <3> QED BY <2>2, <3>2 DEF Between
  <2>4. n \in Int /\ q - r + 1 = n - 1 /\ r - 1 - h = pos - h /\ (r <= q <=> n > 1)
    BY <1>1, <1>4, <1>5, <2>2
  <2>5. Len(w) = IF n > 0 THEN n - 1 ELSE 0
    <3>1. Len(w) = IF n > 1 THEN n - 1 ELSE 0
      BY <2>3, <2>4
    <3> QED BY <2>4, <3>1
  <2>6. \A i \in 1 .. n - 1 : w[i] = (pos - h) + i
    BY <2>3, <2>4
  <2>7. \A i \in 1 .. Len(w) : i \in 1 .. n - 1
    BY <2>4, <2>5
  <2> QED BY <2>3, <2>5, <2>6, <2>7
<1> HIDE DEF w
<1>7. Ordered(got \o w, pos + n - h, size)
  <2>1. /\ pos - h \in Nat /\ pos + n - h \in Int
        /\ (pos - h) + Len(w) <= pos + n - h /\ (pos - h) + Len(w) <= size
    BY <1>1, <1>4, <1>5, <1>6
  <2> QED BY <1>1, <1>4, <1>6, <2>1, OrderedNext
<1>8. pos' \in 0 .. Len(file') /\ HeaderLen[size'] <= pos'
  BY <1>1, <1>2, <1>3, <1>4, <1>5 DEF h
<1>9. Ordered(got' \o avail', pos' - HeaderLen[size'], size')
  <2>1. pos' - HeaderLen[size'] = pos + n - h
    <3>1. pos' = pos + n /\ size' = size
      BY <1>3
    <3>2. HeaderLen[size'] = h
      BY <3>1 DEF h
    <3> QED BY <1>1, <1>4, <1>5, <3>1, <3>2
  <2>2. got' \o avail' = got \o w
    BY <1>3
  <2> QED BY <1>3, <1>7, <2>1, <2>2
<1>10. ASSUME h + size <= Capacity
       PROVE  pos' = Len(file') /\ got' \o avail' = Data(1, size')
  <2>1. n = 0 /\ pos = h + size
    BY <1>4, <1>5, <1>10
  <2>2. w = <<>>
    BY <1>6, <2>1
  <2>3. got \o w = got
    BY <1>4, <2>2, ConcatEmptySeq
  <2> QED BY <1>1, <1>2, <1>3, <1>4, <1>10, <2>1, <2>3
<1>11. /\ got' \in Seq(Int) /\ avail' \in Seq(Int)
       /\ phase' \in {"read", "end"} /\ (phase' = "end" => avail' = <<>>)
  BY <1>3, <1>4, <1>6
<1> QED BY <1>3, <1>8, <1>9, <1>10, <1>11 DEF RInv, h

\* What was read and what is buffered is an ordered part of the data.
LEMMA ReadInvariant == Spec => [](FInv /\ RInv)
<1>1. Init => RInv
  BY DEF Init, RInv
<1>2. FInv /\ FInv' /\ RInv /\ [Next]_vars => RInv'
  <2> SUFFICES ASSUME FInv, FInv', RInv, [Next]_vars PROVE RInv'
    OBVIOUS
  <2>1. ASSUME NEW n \in 1 .. size, Write(n) PROVE RInv'
    <3>1. /\ phase = "write" /\ phase' = "write" /\ pos' = pos
          /\ avail' = avail /\ got' = got
      BY <2>1 DEF Write
    <3>2. pos = 0 /\ Len(file') \in Nat
      <4>1. (FInv => Len(file) \in Nat)'
        BY FileFacts, PTL
      <4> QED BY <3>1, <4>1 DEF RInv
    <3> QED BY <3>1, <3>2 DEF RInv
  <2>2. CASE Pop
    BY <2>2 DEF Pop, writeVars, RInv
  <2>3. CASE Open
    BY <2>3, OpenRead
  <2>4. CASE OpenNothing
    BY <2>4 DEF OpenNothing, writeVars, RInv
  <2>5. ASSUME NEW n \in 1 .. Len(avail), Take(n) PROVE RInv'
    BY <2>5, TakeRead
  <2>6. CASE Refill
    BY <2>6, RefillRead
  <2>7. CASE Done \/ UNCHANGED vars
    BY <2>7 DEF Done, vars, RInv
  <2> QED BY <2>1, <2>2, <2>3, <2>4, <2>5, <2>6, <2>7 DEF Next
<1> QED BY <1>1, <1>2, FileInvariant, PTL DEF Spec

\* No byte of the header reaches the client, and those of the data come in
\* order and once, although every refill loses one.
THEOREM OrderKept == Spec => []ReadInOrder
<1>1. FInv /\ RInv => ReadInOrder
  <2> SUFFICES ASSUME FInv, RInv PROVE ReadInOrder
    OBVIOUS
  <2>1. CASE phase \in {"read", "end"}
    <3> DEFINE s == got \o avail
    <3>1. got \in Seq(Int) /\ avail \in Seq(Int)
      BY DEF RInv
    <3>2. /\ Len(s) = Len(got) + Len(avail)
          /\ \A i \in 1 .. Len(got) + Len(avail) :
               s[i] = IF i <= Len(got) THEN got[i] ELSE avail[i - Len(got)]
      BY <3>1, ConcatProperties
    <3>3. /\ \A i \in 1 .. Len(s) : s[i] \in 1 .. size
          /\ \A i, j \in 1 .. Len(s) : i < j => s[i] < s[j]
      BY <2>1 DEF RInv, Ordered
    <3> HIDE DEF s
    <3>4. DOMAIN got = 1 .. Len(got) /\ Len(got) \in Nat /\ Len(avail) \in Nat
      BY <3>1
    <3>5. \A i \in DOMAIN got : i \in 1 .. Len(s) /\ s[i] = got[i]
      BY <3>2, <3>4
    <3> QED BY <3>3, <3>4, <3>5 DEF ReadInOrder
  <2>2. CASE phase \notin {"read", "end"}
    <3>1. got = <<>>
      BY <2>2 DEF FInv, RInv
    <3> QED BY <3>1 DEF ReadInOrder
  <2> QED BY <2>1, <2>2
<1> QED BY <1>1, ReadInvariant, PTL

\* An object that with its header fits the stream buffer is read back whole.
THEOREM SmallComplete == Spec => []SmallReadsBack
<1>1. RInv => SmallReadsBack
  <2> SUFFICES ASSUME RInv, phase = "end", HeaderLen[size] + size <= Capacity
               PROVE  got = Data(1, size)
    BY DEF SmallReadsBack
  <2>1. got \o avail = Data(1, size) /\ avail = <<>> /\ got \in Seq(Int)
    BY DEF RInv
  <2> QED BY <2>1, ConcatEmptySeq
<1> QED BY <1>1, ReadInvariant, PTL
\* The variables keep their types; the chain never consumes more than the file.
THEOREM StreamTypes == Spec => []TypeOK
<1>1. FInv /\ RInv => TypeOK
  <2> SUFFICES ASSUME FInv, RInv PROVE TypeOK
    OBVIOUS
  <2>1. file \in Seq(Int)
    <3>1. written \in Nat
      BY SizeFacts DEF FInv
    <3>2. CASE written = 0
      BY <3>2 DEF FInv
    <3>3. CASE written > 0
      BY <3>3 DEF FInv, Framed
    <3> QED BY <3>1, <3>2, <3>3
  <2>2. ASSUME NEW s \in Seq(Int)
        PROVE  \A i \in DOMAIN s : s[i] \in Int
    OBVIOUS
  <2>3. \A s \in {hashed, file, avail, got} : s \in Seq(Int)
    BY <2>1 DEF FInv, RInv
  <2>4. \A s \in {hashed, file, avail, got} : \A i \in DOMAIN s : s[i] \in Int
    BY <2>2, <2>3
  <2> QED BY <2>4 DEF FInv, RInv, TypeOK
<1> QED BY <1>1, ReadInvariant, PTL
=============================================================================
