---------------------------- MODULE ObjectText ----------------------------
(***************************************************************************)
(* How git's objects are written into a stream (git/obj/*.cpp, operator <<) *)
(* and the conversions of keys, file modes and timezones that the parsers  *)
(* undo.  A text is a sequence of tokens.  White space that a parser skips *)
(* is left out; a newline, space or terminator that it looks at is a token *)
(* of its own, and so are the digits of a file mode.                       *)
(***************************************************************************)
EXTENDS Integers, Sequences, SequencesExt, FiniteSets

CONSTANTS
  NoName,          (* the empty string                                    *)
  DefaultEncoding  (* Commit::default_encoding                            *)

\* what a key consists of
Byte == 0 .. 255

Token(kind, value) == [kind |-> kind, value |-> value]
Word(w)  == Token("word", w)
Newline  == Token("newline", NoName)
Space    == Token("space", NoName)

-----------------------------------------------------------------------------
(* Conversions.                                                            *)

\* tohex of each byte of a key: two hexadecimal digits
ToHex(key) ==
  [i \in 1 .. 2 * Len(key) |->
     IF i % 2 = 1 THEN key[(i + 1) \div 2] \div 16 ELSE key[i \div 2] % 16]

\* fromhex of two digits
ByteOf(high, low) == 16 * high + low

\* init_from_hex: each pair of digits gives a byte
FromHex(digits) ==
  [i \in 1 .. Len(digits) \div 2 |-> ByteOf(digits[2 * i - 1], digits[2 * i])]

\* path_from_key cuts the digits behind the bytes of the prefix
PathOf(key, prefix) ==
  [dir  |-> SubSeq(ToHex(key), 1, 2 * prefix),
   name |-> SubSeq(ToHex(key), 2 * prefix + 1, 2 * Len(key))]

\* loose_accessor::key() puts the two together
KeyOf(path) == FromHex(path.dir \o path.name)

\* a timezone offset is a short; its sign and magnitude are written
ShortMax == 32767
ZoneText(z) == [sign |-> IF z < 0 THEN -1 ELSE 1, digits |-> IF z < 0 THEN -z ELSE z]

\* mutant: the sign is not applied
ZoneValueUnsigned(t) == IF t.digits > ShortMax THEN ShortMax ELSE t.digits

\* mutant: the offset is an unsigned short
ZoneValueUShort(t) == (t.sign * t.digits) % 2 ^ 16

\* a magnitude that is no short is clipped (and fails the stream)
ZoneValue(t) == t.sign * (IF t.digits > ShortMax THEN ShortMax ELSE t.digits)

\* what a number of up to ten digits is read as if its last ones are missing
FirstDigits(n) ==
  {n} \cup ({n \div d : d \in {10, 100, 1000, 10000, 100000, 1000000, 10000000,
                               100000000, 1000000000}} \ {0})

\* the same of an offset, whose magnitude is filled up with zeros to four digits
ZoneStarts(t) ==
  {[t EXCEPT !.digits = n] :
     n \in FirstDigits(t.digits) \cup {t.digits \div d : d \in {10, 100, 1000}}}

\* utz_offset *= -1
Negated(z) == IF z = -ShortMax - 1 THEN z ELSE -z

\* mode >> 3 * m, for m up to 6
Shifted(mode, m) == mode \div <<1, 8, 64, 512, 4096, 32768, 262144>>[m + 1]

\* the lowest six octal digits of a mode, without the first if it is 0
ModeDigits(mode) ==
  LET Digit(m) == Shifted(mode, m) % 8
      count    == IF Digit(5) = 0 THEN 5 ELSE 6
  IN [i \in 1 .. count |-> Digit(count - i)]

-----------------------------------------------------------------------------
(* Texts.                                                                  *)

\* an email, a time and an offset are two tokens each, what comes first and the
\* rest, so that a text may break off within them
Stamp(a) ==
  <<Token("name", a.name), Token("email", a.email), Token("digits", a.time),
    Token("time", a.time), Token("offset", ZoneText(a.zone)),
    Token("zone", ZoneText(a.zone))>>

\* writing an actor without a name throws
Written(a) == a.name # NoName

\* a key as a stream has it
KeyText(key) == Token("hex", ToHex(key))

CommitText(c) ==
  <<Word("tree"), KeyText(c.tree)>>
    \o [i \in 1 .. 2 * Len(c.parents) |->
          IF i % 2 = 1 THEN Word("parent") ELSE KeyText(c.parents[i \div 2])]
    \o <<Word("author")>> \o Stamp(c.author)
    \o <<Word("committer")>> \o Stamp(c.committer) \o <<Newline>>
    \o (IF c.encoding = DefaultEncoding THEN <<>>
        ELSE <<Word("encoding"), Token("text", c.encoding), Newline>>)
    \o <<Newline>> \o [i \in DOMAIN c.message |-> Token("text", c.message[i])]

\* the newline before the message comes with a message only
TagText(t) ==
  <<Word("object"), KeyText(t.object),
    Word("type"), Token("type", t.target),
    Word("tag"), Token("text", t.name), Word("tagger")>> \o Stamp(t.tagger)
    \o <<Newline>>
    \o (IF t.message = <<>> THEN <<>> ELSE <<Newline>>)
    \o [i \in DOMAIN t.message |-> Token("text", t.message[i])]

ElementText(name, e) ==
  [i \in DOMAIN ModeDigits(e.mode) |-> Token("digit", ModeDigits(e.mode)[i])]
    \o <<Space, Token("text", name), Token("bytes", e.key)>>

\* the names in their order
InOrder(names) ==
  CHOOSE s \in [1 .. Cardinality(names) -> names] :
    \A i, j \in DOMAIN s : i < j => s[i] < s[j]

\* std::map iterates in the order of the names: the text of the first i elements
UpTo(t) ==
  LET names == InOrder(DOMAIN t.elements)
      upto[i \in 0 .. Cardinality(DOMAIN t.elements)] ==
        IF i = 0 THEN <<>>
        ELSE upto[i - 1] \o ElementText(names[i], t.elements[names[i]])
  IN upto

TreeText(t) == UpTo(t)[Cardinality(DOMAIN t.elements)]

BlobText(b) == [i \in DOMAIN b.data |-> Token("text", b.data[i])]

Text(o) ==
  CASE o.kind = "commit" -> CommitText(o)
    [] o.kind = "tag"    -> TagText(o)
    [] o.kind = "tree"   -> TreeText(o)
    [] o.kind = "blob"   -> BlobText(o)

CanWrite(o) ==
  /\ o.kind = "commit" => Written(o.author) /\ Written(o.committer)
  /\ o.kind = "tag"    => Written(o.tagger)
=============================================================================
