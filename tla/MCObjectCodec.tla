--------------------------- MODULE MCObjectCodec ---------------------------
(* Objects for the codec model: offsets and modes at the limits of what is  *)
(* written, one to three parents, all kinds.  Keys have two bytes.          *)
EXTENDS MultiObject, TLC

CONSTANTS Ann, Bob, Mail, Latin1, Title, Body

Zero == <<0, 0>>
K1   == <<255, 16>>
K2   == <<10, 0>>

Who(w, z) == [name |-> w, email |-> Mail, time |-> 1300, zone |-> z]

ACommit(parents, author, committer, encoding, message) ==
  [kind |-> "commit", tree |-> K1, parents |-> parents, author |-> author,
   committer |-> committer, encoding |-> encoding, message |-> message]

ATag(object, target, name, tagger, message) ==
  [kind |-> "tag", object |-> object, target |-> target, name |-> name,
   tagger |-> tagger, message |-> message]

ATree(elements) == [kind |-> "tree", elements |-> elements]
AnElement(mode, key) == [mode |-> mode, key |-> key]

File == 33188   \* 0100644
Dir  == 16384   \* 040000
High == 8 ^ 6 + 1

MCSubjects ==
  { ACommit(<<>>, Who(Ann, 0), Who(Bob, -1), DefaultEncoding, <<>>),
    ACommit(<<K2>>, Who(Ann, 200), Who(Ann, ShortMax), Latin1, <<Title, Body>>),
    ACommit(<<K1, K2>>, Who(Bob, -ShortMax), Who(Ann, 0), DefaultEncoding, <<Title>>),
    ACommit(<<K1, K2, K1>>, Who(Bob, 0), Who(Ann, -ShortMax - 1), DefaultEncoding, <<Title>>),
    ACommit(<<>>, Who(Bob, 0), Who(NoName, 0), DefaultEncoding, <<>>),
    ATag(K1, "commit", Title, Who(Ann, -200), <<>>),
    ATag(K2, "tree", Title, Who(Bob, 200), <<Body, Title>>),
    ATag(Zero, "none", NoName, Who(Bob, -ShortMax - 1), <<Body>>),
    ATag(K1, "none", Title, Who(Ann, 1), <<Body>>),
    ATree(<<>>),
    ATree(1 :> AnElement(File, K1)),
    ATree(1 :> AnElement(Dir, K2) @@ 2 :> AnElement(File, K1)),
    ATree(2 :> AnElement(High, K2) @@ 3 :> AnElement(0, Zero)),
    [kind |-> "blob", data |-> <<>>],
    [kind |-> "blob", data |-> <<Title, Body, Title>>] }

MCNullKey == Zero
MCStrings == {NoName, DefaultEncoding, Part, Ann, Bob, Mail, Latin1, Title, Body}
=============================================================================
