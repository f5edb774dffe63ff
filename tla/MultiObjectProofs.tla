------------------------ MODULE MultiObjectProofs -------------------------
(***************************************************************************)
(* Proofs about MultiObject, for any objects and number of uses: what      *)
(* ObjectCodec promises of one parse holds of every parse into the union.  *)
(***************************************************************************)
EXTENDS MultiObject, ObjectCodecProofs

\* The union is empty whenever something is to be deserialized into it.
EmptyAtWrite == phase = "write" /\ used = None => tag = "none"

UInv == obj \in Subjects /\ MemberNamed /\ EmptyAtWrite

\* The four kinds are no types of an empty union.
LEMMA KindIsNoNone == ASSUME NEW o \in Subjects PROVE o.kind # "none"
BY SubjectAssumption

\* A new union is empty.
LEMMA UnionInit == ASSUME MultiInit PROVE UInv
BY DEF MultiInit, Init, UInv, MemberNamed, EmptyAtWrite

\* No parser goes back to where it is yet to be constructed what it parses into.
LEMMA ParserGoesOn ==
  ASSUME WriteThrows \/ Commit \/ Tag \/ TreeOrBlob \/ Rests
  PROVE  /\ UNCHANGED <<obj, used>>
         /\ phase' # "write"
         /\ phase = "write" => phase' = "error"
         /\ phase \in {"done", "error"} => phase' = phase
<1>1. CASE Commit
  BY <1>1 DEF Commit, CommitTree, CommitTreeKey, CommitParents, CommitParent,
       CommitAuthor, CommitCommitter, CommitCommit, CommitSeparator,
       CommitEncoding, CommitMessage, Expect, Key, StampOrThrow, input
<1>2. CASE Tag
  BY <1>2 DEF Tag, TagObject, TagObjectKey, TagTypeWord, TagType, TagWord,
       TagName, TagTaggerWord, TagTagger, TagMessage, Expect, Key,
       StampOrThrow, input
<1>3. CASE TreeOrBlob
  BY <1>3 DEF TreeOrBlob, TreeNext, TreeMode, TreeElement, BlobData, input
<1>4. CASE WriteThrows
  BY <1>4 DEF WriteThrows
<1>5. CASE Rests
  BY <1>5 DEF Rests, Ended, vars
<1> QED BY <1>1, <1>2, <1>3, <1>4, <1>5

\* A member is constructed in an empty union only.
LEMMA ConstructInv ==
  ASSUME UInv, phase = "write", Construct, obj' = obj, used' = used, phase' # "write"
  PROVE  UInv'
<1>1. tag = "none" /\ alive = {} /\ obj.kind # "none"
  BY KindIsNoNone DEF UInv, MemberNamed, EmptyAtWrite, Construct
<1> QED BY <1>1 DEF UInv, MemberNamed, EmptyAtWrite, Construct

\* Every step preserves the invariant.
LEMMA UnionNext == ASSUME UInv, [MultiNext]_multiVars PROVE UInv'
<1> USE DEF UInv, MemberNamed, EmptyAtWrite
<1>1. CASE Deserialize
  <2>1. phase = "write" /\ phase' = obj.kind /\ UNCHANGED <<obj, used>>
    BY <1>1 DEF Deserialize, Write
  <2>2. phase' # "write"
    BY <2>1, SubjectAssumption
  <2> QED BY <1>1, <2>1, <2>2, ConstructInv DEF Deserialize
<1>2. CASE HeaderThrows
  BY <1>2 DEF HeaderThrows, input, union
<1>3. CASE ReserveThrows
  <2>1. phase = "write" /\ phase' # "write" /\ UNCHANGED <<obj, used>> /\ Construct
    BY <1>3 DEF ReserveThrows, input
  <2> QED BY <2>1, ConstructInv
<1>4. CASE Parse
  <2>1. CASE used # None /\ Write
    BY <1>4, <2>1 DEF Parse, Write, union
  <2>2. CASE WriteThrows \/ Commit \/ Tag \/ TreeOrBlob \/ Rests
    <3>1. /\ UNCHANGED <<obj, used>> /\ phase' # "write"
          /\ phase = "write" => phase' = "error"
          /\ phase \in {"done", "error"} => phase' = phase
      BY <2>2, ParserGoesOn
    <3>2. UNCHANGED <<tag, built, alive>>
      BY <1>4 DEF Parse, union
    <3> QED BY <3>1, <3>2
  <2> QED BY <1>4, <2>1, <2>2 DEF Parse
<1>5. CASE Destroy
  BY <1>5 DEF Destroy, vars, Ended
<1>6. CASE Again
  BY <1>6 DEF Again, union
<1>7. CASE UNCHANGED multiVars
  BY <1>7 DEF multiVars, vars, union
<1> QED BY <1>1, <1>2, <1>3, <1>4, <1>5, <1>6, <1>7 DEF MultiNext

\* Whatever throws, and however often the union is used, its type names the
\* member that lives: none is lost, and none destroyed twice.
THEOREM UnionCorrect == MultiSpec => []MemberNamed
<1>1. UInv => MemberNamed
  BY DEF UInv
<1> QED BY UnionInit, UnionNext, <1>1, PTL DEF MultiSpec

-----------------------------------------------------------------------------
(* The codec's invariant holds of every use of the union.                  *)

\* What is deserialized into next is where a codec begins.
LEMMA BeginsAgain == Init' => CodecInv'
BY InitInv, PTL

\* The constructor of the next use leaves what a codec begins with.
LEMMA AgainBegins == ASSUME Again PROVE Init'
BY DEF Again, Init

\* Every step preserves the codec's invariant.
LEMMA ParsedNext == ASSUME CodecInv, [MultiNext]_multiVars PROVE CodecInv'
<1>1. CASE Deserialize
  BY <1>1, WritesInv DEF Deserialize
<1>2. CASE HeaderThrows
  BY <1>2, ThrowsInv DEF HeaderThrows, Kept, input
<1>3. CASE ReserveThrows
  BY <1>3, ThrowsInv DEF ReserveThrows, Kept, input
<1>4. CASE Parse
  BY <1>4, NextInv DEF Parse, Next
<1>5. CASE Destroy \/ UNCHANGED multiVars
  BY <1>5, CodecStays DEF Destroy, multiVars
<1>6. CASE Again
  BY <1>6, AgainBegins, BeginsAgain
<1> QED BY <1>1, <1>2, <1>3, <1>4, <1>5, <1>6 DEF MultiNext

\* The codec's invariant holds wherever the union is used.
LEMMA ParsedAlways == MultiSpec => []CodecInv
<1>1. MultiInit => CodecInv
  BY InitInv DEF MultiInit
<1> QED BY <1>1, ParsedNext, PTL DEF MultiSpec

\* What is parsed stays an object of its kind, with offsets and modes of their
\* widths, wherever its text breaks off and in every use (operator >>).
THEOREM ParsedTypes == MultiSpec => []TypeOK
<1>1. CodecInv => TypeOK
  BY CodecTyped
<1> QED BY <1>1, ParsedAlways, PTL

\* What was written is read back, for any object that its text can express,
\* also into a union that was used before (deserialize, operator >>).
THEOREM ReadsBack == MultiSpec => []RoundTrip
<1>1. CodecInv => RoundTrip
  BY CodecRoundTrip
<1> QED BY <1>1, ParsedAlways, PTL

\* A text that broke off is accepted only behind what makes the object; of a tag
\* that may be all but the tagger's email, time and offset, if the stream failed.
THEOREM AcceptsSound == MultiSpec => []AcceptedSound
<1>1. CodecInv => AcceptedSound
  BY CodecAccepted
<1> QED BY <1>1, ParsedAlways, PTL
=============================================================================
