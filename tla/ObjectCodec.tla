---------------------------- MODULE ObjectCodec ----------------------------
(***************************************************************************)
(* The parsers of git's objects (git/obj/*.cpp, operator >>) as machines   *)
(* that read one token after the other from a stream, which may end too    *)
(* early, also within an email, a time or an offset.  The stream throws no *)
(* exceptions of its own: a read that fails sets its failbit, and leaves   *)
(* the variable it should read as it was.                                  *)
(***************************************************************************)
EXTENDS ObjectText

CONSTANTS
  Subjects,   (* the objects that are written and parsed                  *)
  ModeBits,   (* width of a file mode                                     *)
  Strings,    (* names, messages, in pieces, and encodings                *)
  MaxParents, (* bound on the parents a commit that never ends collects   *)
  Part,       (* what there is of an email that broke off                 *)
  NullKey,    (* key_type::null                                           *)
  None        (* bytes that were never set, or no object                  *)

-----------------------------------------------------------------------------
(* The objects, with keys that may be indeterminate if None is one.        *)

Keys   == Seq(Byte)
Zones  == -ShortMax - 1 .. ShortMax
Stamps == [name : Strings, email : Strings, time : Nat, zone : Zones]
Modes  == 0 .. 2 ^ ModeBits - 1

IsCommit(o, keys) ==
  o \in [kind : {"commit"}, tree : keys, parents : Seq(keys), author : Stamps,
         committer : Stamps, encoding : Strings, message : Seq(Strings)]

IsTag(o, keys) ==
  o \in [kind : {"tag"}, object : keys,
         target : {"none", "commit", "tag", "tree", "blob"},
         name : Strings, tagger : Stamps, message : Seq(Strings)]

IsTree(o, keys) ==
  /\ o = [kind |-> "tree", elements |-> o.elements]
  /\ IsFiniteSet(DOMAIN o.elements)
  /\ o.elements \in [DOMAIN o.elements -> [mode : Modes, key : keys]]

IsBlob(o) == o \in [kind : {"blob"}, data : Seq(Strings)]

IsObject(o, keys) ==
  CASE o.kind = "commit" -> IsCommit(o, keys)
    [] o.kind = "tag"    -> IsTag(o, keys)
    [] o.kind = "tree"   -> IsTree(o, keys)
    [] o.kind = "blob"   -> IsBlob(o)

ASSUME SubjectAssumption ==
  \A o \in Subjects :
    /\ o.kind \in {"commit", "tag", "tree", "blob"}
    /\ IsObject(o, Keys)
    /\ o.kind = "tree" => DOMAIN o.elements \subseteq Nat
    /\ o.kind = "commit" => o.encoding # NoName
ASSUME BoundAssumption ==
  /\ ModeBits \in Nat /\ 2 ^ ModeBits \in Nat \ {0} /\ MaxParents \in Nat
  /\ \A o \in Subjects :
       o.kind = "commit" => 2 * Len(o.parents) < MaxParents
ASSUME NameAssumption ==
  /\ {NoName, DefaultEncoding, Part} \subseteq Strings /\ NoName # "encoding"
  /\ NullKey \in Keys /\ None \notin Subjects /\ None \notin Keys

VARIABLES
  obj,    (* the object that is written                                   *)
  used,   (* object that was parsed into the destination before, or None  *)
  text,   (* what there is of its text                                    *)
  whole,  (* the text is complete                                         *)
  pos,    (* next token to read                                           *)
  bad,    (* the stream's failbit                                         *)
  tmp,    (* the parsers' string for words                                *)
  elem,   (* tree parser: c, and the mode of the element                  *)
  dest,   (* the object that is parsed into                               *)
  phase   (* next step, or "done" or "error"                              *)

vars == <<obj, used, text, whole, pos, bad, tmp, elem, dest, phase>>
input == <<obj, used, text, whole>>

NoStamp == [name |-> NoName, email |-> NoName, time |-> 0, zone |-> 0]

\* the constructors
Fresh(kind, null) ==
  CASE kind = "commit" -> [kind |-> kind, tree |-> null, parents |-> <<>>,
                           author |-> NoStamp, committer |-> NoStamp,
                           encoding |-> DefaultEncoding, message |-> <<>>]
    [] kind = "tag"    -> [kind |-> kind, object |-> null, target |-> "none",
                           name |-> NoName, tagger |-> NoStamp, message |-> <<>>]
    [] kind = "tree"   -> [kind |-> kind, elements |-> <<>>]
    [] kind = "blob"   -> [kind |-> kind, data |-> <<>>]

Init ==
  /\ obj \in Subjects
  /\ used \in {o \in Subjects : o.kind = obj.kind} \cup {None}
  /\ dest = IF used = None THEN Fresh(obj.kind, NullKey) ELSE used
  /\ text = <<>> /\ whole = FALSE
  /\ pos = 1 /\ bad = FALSE
  /\ tmp = NoName
  /\ elem = [c |-> None, mode |-> 0]
  /\ phase = "write"

\* operator <<: what arrives of the text is all of it or a part
Write ==
  /\ phase = "write"
  /\ CanWrite(obj)
  /\ \E n \in 0 .. Len(Text(obj)) :
       /\ text' = SubSeq(Text(obj), 1, n)
       /\ whole' = (n = Len(Text(obj)))
  /\ phase' = obj.kind
  /\ UNCHANGED <<obj, used, pos, bad, tmp, elem, dest>>

WriteThrows ==
  /\ phase = "write"
  /\ ~CanWrite(obj)
  /\ phase' = "error"
  /\ UNCHANGED <<obj, used, text, whole, pos, bad, tmp, elem, dest>>

-----------------------------------------------------------------------------
(* Reading.                                                                *)

\* the n-th of the next tokens can be read
More(n) == ~bad /\ pos + n - 1 <= Len(text)
Here(n) == text[pos + n - 1].value
Skip(n) == pos' = pos + n

\* stream >> tmp
ReadWord ==
  IF More(1) THEN tmp' = Here(1) /\ Skip(1) /\ UNCHANGED bad
             ELSE bad' = TRUE /\ UNCHANGED <<tmp, pos>>

\* one field of the destination is set, by a key that is indeterminate if the
\* stream has failed
ReadKey(field) ==
  /\ dest' = [dest EXCEPT ![field] = IF More(1) THEN FromHex(Here(1)) ELSE None]
  /\ IF More(1) THEN Skip(1) /\ UNCHANGED bad ELSE bad' = TRUE /\ UNCHANGED pos

\* getline ends at the end of the text, too: an email may be cut
Email == IF More(2) THEN Here(2) ELSE Part

\* a time may have lost its last digits, or stays what it was
Times(old) ==
  IF More(4) THEN {Here(4)} ELSE IF More(3) THEN FirstDigits(Here(3)) ELSE {old}

\* so may an offset; without a sign c is indeterminate, and without digits the
\* offset that was there may be negated
Offsets(old) ==
  IF More(6) THEN {ZoneValue(Here(6))}
  ELSE {old, Negated(old)}
         \cup (IF More(5) THEN {ZoneValue(t) : t \in ZoneStarts(Here(5))} ELSE {})

\* the name is there; what fails behind it is noticed by the next reads only
ReadStamp(field) ==
  \E time \in Times(dest[field].time), zone \in Offsets(dest[field].zone) :
    /\ dest' = [dest EXCEPT ![field] =
                  [name |-> Here(1), email |-> Email, time |-> time, zone |-> zone]]
    /\ IF More(6) THEN Skip(6) /\ bad' = (Here(6).digits > ShortMax)
                  ELSE pos' = Len(text) + 1 /\ bad' = TRUE

Rest == [i \in 1 .. Len(text) - pos + 1 |-> text[pos + i - 1].value]

\* a word, or the parser throws
Expect(at, word, next) ==
  /\ phase = at
  /\ ReadWord
  /\ phase' = IF tmp' = word THEN next ELSE "error"
  /\ UNCHANGED <<input, elem, dest>>

Key(at, field, next) ==
  /\ phase = at
  /\ ReadKey(field)
  /\ phase' = next
  /\ UNCHANGED <<input, tmp, elem>>

\* no '<' means no email: the parser throws
StampOrThrow(at, field, next) ==
  /\ phase = at
  /\ IF More(1) THEN ReadStamp(field) /\ phase' = next
                ELSE phase' = "error" /\ UNCHANGED <<dest, pos, bad>>
  /\ UNCHANGED <<input, tmp, elem>>

-----------------------------------------------------------------------------
(* Commits.                                                                *)

CommitTree    == Expect("commit", "tree", "tree key")
CommitTreeKey == Key("tree key", "tree", "parent or author")

\* for (stream >> tmp; tmp == t_parent; stream >> tmp)
CommitParents ==
  /\ phase = "parent or author"
  /\ ReadWord
  /\ phase' = CASE tmp' = "parent" -> "parent key"
                [] tmp' = "author" -> "author"
                [] OTHER           -> "error"
  /\ UNCHANGED <<input, elem, dest>>

\* mutant: one parent is kept
CommitParentOnly ==
  /\ phase = "parent key"
  /\ dest' = [dest EXCEPT !.parents = <<IF More(1) THEN FromHex(Here(1)) ELSE None>>]
  /\ IF More(1) THEN Skip(1) /\ UNCHANGED bad ELSE bad' = TRUE /\ UNCHANGED pos
  /\ phase' = "parent or author"
  /\ UNCHANGED <<input, tmp, elem>>

CommitParent ==
  /\ phase = "parent key"
  /\ LET key == IF More(1) THEN FromHex(Here(1)) ELSE None
     IN dest' = IF Len(dest.parents) < MaxParents
                THEN [dest EXCEPT !.parents = Append(@, key)] ELSE dest
  /\ IF More(1) THEN Skip(1) /\ UNCHANGED bad ELSE bad' = TRUE /\ UNCHANGED pos
  /\ phase' = "parent or author"
  /\ UNCHANGED <<input, tmp, elem>>

CommitAuthor    == StampOrThrow("author", "author", "committer word")
CommitCommitter == Expect("committer word", "committer", "committer")
CommitCommit    == StampOrThrow("committer", "committer", "separator")

\* a newline, and an 'e' or another one; at the end c is still the newline
CommitSeparator ==
  /\ phase = "separator"
  /\ IF ~More(1) THEN phase' = "error" /\ UNCHANGED <<pos, bad>>
     ELSE IF ~More(2) THEN phase' = "message" /\ Skip(1) /\ bad' = TRUE
     ELSE /\ phase' = IF Here(2) = "encoding" THEN "encoding" ELSE "message"
          /\ Skip(2) /\ UNCHANGED bad
  /\ UNCHANGED <<input, tmp, elem, dest>>

\* the encoding and the two newlines behind it
CommitEncoding ==
  /\ phase = "encoding"
  /\ dest' = IF More(1) THEN [dest EXCEPT !.encoding = Here(1)] ELSE dest
  /\ IF More(3) THEN Skip(3) /\ UNCHANGED bad
                ELSE bad' = TRUE /\ pos' = Len(text) + 1
  /\ phase' = "message"
  /\ UNCHANGED <<input, tmp, elem>>

\* the rest is appended to the message
CommitMessage ==
  /\ phase = "message"
  /\ dest' = [dest EXCEPT !.message = @ \o Rest]
  /\ pos' = Len(text) + 1
  /\ phase' = "done"
  /\ UNCHANGED <<input, bad, tmp, elem>>

Commit ==
  \/ CommitTree \/ CommitTreeKey \/ CommitParents \/ CommitParent
  \/ CommitAuthor \/ CommitCommitter \/ CommitCommit
  \/ CommitSeparator \/ CommitEncoding \/ CommitMessage

-----------------------------------------------------------------------------
(* Tags.                                                                   *)

TagObject    == Expect("tag", "object", "object key")
TagObjectKey == Key("object key", "object", "type word")
TagTypeWord  == Expect("type word", "type", "type")

\* no type is accepted for no object only
TagType ==
  /\ phase = "type"
  /\ LET type == IF More(1) THEN Here(1) ELSE "none"
     IN /\ dest' = [dest EXCEPT !.target = type]
        /\ phase' = IF type = "none" /\ dest.object # NullKey
                    THEN "error" ELSE "tag word"
  /\ IF More(1) THEN Skip(1) /\ UNCHANGED bad ELSE bad' = TRUE /\ UNCHANGED pos
  /\ UNCHANGED <<input, tmp, elem>>

TagWord == Expect("tag word", "tag", "name")

\* getline, which leaves the name alone if the stream has failed
TagName ==
  /\ phase = "name"
  /\ IF More(1) THEN dest' = [dest EXCEPT !.name = Here(1)] /\ Skip(1) /\ UNCHANGED bad
                ELSE bad' = TRUE /\ UNCHANGED <<dest, pos>>
  /\ phase' = "tagger word"
  /\ UNCHANGED <<input, tmp, elem>>

TagTaggerWord == Expect("tagger word", "tagger", "tagger")
TagTagger     == StampOrThrow("tagger", "tagger", "tag message")

\* two newlines and the message, which replaces the one that was there
TagMessage ==
  /\ phase = "tag message"
  /\ dest' = [dest EXCEPT !.message =
                IF More(2) THEN SubSeq(Rest, 3, Len(Rest)) ELSE <<>>]
  /\ bad' = ~More(2)
  /\ pos' = Len(text) + 1
  /\ phase' = "done"
  /\ UNCHANGED <<input, tmp, elem>>

Tag ==
  \/ TagObject \/ TagObjectKey \/ TagTypeWord \/ TagType \/ TagWord
  \/ TagName \/ TagTaggerWord \/ TagTagger \/ TagMessage

-----------------------------------------------------------------------------
(* Trees and blobs.                                                        *)

\* mutant: the end of the stream does not end the loop
TreeNextForever ==
  /\ phase = "tree"
  /\ IF More(1)
     THEN /\ elem' = [c |-> text[pos], mode |-> 0]
          /\ phase' = "mode"
          /\ Skip(1) /\ UNCHANGED bad
     ELSE bad' = TRUE /\ UNCHANGED <<elem, pos, phase>>
  /\ UNCHANGED <<input, tmp, dest>>

\* the first character of the next element, if there is one
TreeNext ==
  /\ phase = "tree"
  /\ IF More(1)
     THEN /\ elem' = [c |-> text[pos], mode |-> 0]
          /\ phase' = "mode"
          /\ Skip(1) /\ UNCHANGED bad
     ELSE /\ phase' = IF DOMAIN dest.elements = {} THEN "error" ELSE "done"
          /\ bad' = TRUE /\ UNCHANGED <<elem, pos>>
  /\ UNCHANGED <<input, tmp, dest>>

\* for (; c != ' '; stream.get(c)): at the end of the stream c stays a digit
TreeMode ==
  /\ phase = "mode"
  /\ elem.c.kind = "digit"
  /\ elem' = [c    |-> IF More(1) THEN text[pos] ELSE elem.c,
              mode |-> (8 * elem.mode + elem.c.value) % 2 ^ ModeBits]
  /\ IF More(1) THEN Skip(1) /\ UNCHANGED bad ELSE bad' = TRUE /\ UNCHANGED pos
  /\ UNCHANGED <<input, tmp, dest, phase>>

\* map::insert keeps an element that is there
Inserted(map, name, element) ==
  [n \in DOMAIN map \cup {name} |-> IF n \in DOMAIN map THEN map[n] ELSE element]

\* name and key, whatever there is of them
TreeElement ==
  /\ phase = "mode"
  /\ elem.c.kind = "space"
  /\ LET name == IF More(1) THEN Here(1) ELSE NoName
         key  == IF More(2) THEN Here(2) ELSE None
     IN dest' = [dest EXCEPT !.elements = Inserted(@, name, [mode |-> elem.mode, key |-> key])]
  /\ IF More(2) THEN Skip(2) /\ UNCHANGED bad
                ELSE bad' = TRUE /\ pos' = Len(text) + 1
  /\ phase' = "tree"
  /\ UNCHANGED <<input, tmp, elem>>

\* the rest is appended to the data
BlobData ==
  /\ phase = "blob"
  /\ dest' = [dest EXCEPT !.data = @ \o Rest]
  /\ pos' = Len(text) + 1
  /\ phase' = "done"
  /\ UNCHANGED <<input, bad, tmp, elem>>

TreeOrBlob == TreeNext \/ TreeMode \/ TreeElement \/ BlobData

-----------------------------------------------------------------------------
Ended == phase \in {"done", "error"}

\* an object was parsed, or the parser threw
Rests == Ended /\ UNCHANGED vars

Next == Write \/ WriteThrows \/ Commit \/ Tag \/ TreeOrBlob \/ Rests

Spec == Init /\ [][Next]_vars

-----------------------------------------------------------------------------
(* Properties.                                                             *)

Phases ==
  {"write", "done", "error", "commit", "tag", "tree", "blob", "tree key",
    "parent or author", "parent key", "author", "committer word", "committer",
    "separator", "encoding", "message", "object key", "type word", "type",
    "tag word", "name", "tagger word", "tagger", "tag message", "mode"}

\* Type correctness of the parsers' state: what is parsed stays an object of
\* its kind, with offsets that are shorts and modes of ModeBits bits, wherever
\* the text breaks off; only keys may be indeterminate.
TypeOK ==
  /\ obj \in Subjects /\ used \in Subjects \cup {None}
  /\ whole \in BOOLEAN /\ bad \in BOOLEAN
  /\ pos \in 1 .. Len(text) + 1
  /\ elem.mode \in Modes
  /\ phase \in Phases
  /\ dest.kind = obj.kind /\ IsObject(dest, Keys \cup {None})
  /\ dest.kind = "commit" => Len(dest.parents) <= MaxParents

\* what the texts can express: a short whose magnitude is no short, a mode of
\* more than six digits, an empty tree, and a key without a type can not be
Representable(o) ==
  LET ZoneOK(a) == a.zone > -ShortMax - 1 IN
  /\ CanWrite(o)
  /\ o.kind = "commit" => ZoneOK(o.author) /\ ZoneOK(o.committer)
  /\ o.kind = "tag"    => /\ ZoneOK(o.tagger)
                          /\ o.target = "none" => o.object = NullKey
  /\ o.kind = "tree"   => /\ DOMAIN o.elements # {}
                          /\ \A n \in DOMAIN o.elements : Shifted(o.elements[n].mode, 6) = 0

\* What was written is read back: parsing the whole text of an object yields
\* that object, and a tag also when it is parsed into one that was used
\* before, whose fields are all replaced (operator << and operator >>).
RoundTrip ==
  Ended /\ whole /\ Representable(obj) /\ (used = None \/ obj.kind = "tag")
    => phase = "done" /\ dest = obj

\* A text that broke off is only accepted behind what makes the object: a
\* commit that is accepted has the tree, the parents, the author and the
\* committer that were written, a tag its object, type, name and its tagger's
\* name, and the tagger's email, time and offset too unless the stream has failed,
\* a tree only elements that were written but for a last one without a key, and a
\* blob the first bytes.
AcceptedSound ==
  phase = "done" /\ used = None =>
    CASE obj.kind = "commit" ->
           \A f \in {"tree", "parents", "author", "committer"} : dest[f] = obj[f]
      [] obj.kind = "tag" ->
           /\ \A f \in {"object", "target", "name"} : dest[f] = obj[f]
           /\ dest.tagger.name = obj.tagger.name
           /\ bad \/ dest.tagger = obj.tagger
      [] obj.kind = "tree" ->
           LET lost == {n \in DOMAIN dest.elements : dest.elements[n].key = None}
           IN /\ Cardinality(lost) <= 1
              /\ \A n \in DOMAIN dest.elements \ lost :
                   /\ n \in DOMAIN obj.elements
                   /\ dest.elements[n].key = obj.elements[n].key
      [] obj.kind = "blob" -> IsPrefix(dest.data, obj.data)

\* the text breaks off behind "parent", or behind a parent's key, or in a mode
CutInLoop ==
  /\ ~whole /\ text # <<>>
  /\ \/ Last(text) = Word("parent")
     \/ Len(text) > 1 /\ Last(Front(text)) = Word("parent")
     \/ Last(text).kind = "digit"

\* Each parse comes to an end, with an object or an exception, unless the text
\* breaks off where one of the two loops does not look at the stream.
ParseEndsElse == []<>(Ended \/ (phase # "write" /\ CutInLoop))

\* A parser comes to an end, wherever the text breaks off: "if we are at the
\* end, abort this" (git/obj/tree.cpp).  It does not.
ParseEnds == <>Ended
=============================================================================
