------------------------ MODULE LooseIteratorProofs ------------------------
(***************************************************************************)
(* Proofs about LooseHandle and LooseIterator, for any files, directories  *)
(* and streams.                                                            *)
(***************************************************************************)
EXTENDS LooseIterator, TLAPS

-----------------------------------------------------------------------------
(* The object whose path anybody assigns, as LooseHandle has it.           *)

\* The invariants hold together, and are inductive as they stand.
IInv == TypeOK /\ OwnUntouched /\ InitializedCurrent /\ AnswersCurrent

\* A new object has no stream and has not answered anything.
LEMMA InitInv == Init => IInv
<1> SUFFICES ASSUME Init PROVE IInv
  OBVIOUS
<1> USE NoneAssumption DEF Init
<1>1. {s \in Streams : ~Free(s)} = given \cup ({own} \ {None})
  BY DEF Free
<1>2. answer \in (Paths \cup {None}) \X (Paths \cup {None})
  OBVIOUS
<1>3. parsed \in (Paths \cup {None}) \X (Paths \cup {None})
  OBVIOUS
<1>4. TypeOK
  BY <1>1, <1>2, <1>3 DEF TypeOK
<1> QED BY <1>4 DEF IInv, OwnUntouched, InitializedCurrent, AnswersCurrent

\* Asking for the type opens the own stream if it has to.
LEMMA QueryInv == ASSUME IInv, Query PROVE IInv'
<1> USE NoneAssumption DEF Query, IInv
<1>1. PICK s \in Streams : OpenOwn(s) /\ answer' = <<path, opened'[s]>>
  OBVIOUS
<1>2. CASE initialized /\ s = own /\ UNCHANGED <<own, initialized, opened>>
  BY <1>1, <1>2 DEF TypeOK, OwnUntouched, InitializedCurrent, AnswersCurrent, Free
<1>3. CASE /\ ~initialized
           /\ IF own = None THEN Free(s) ELSE s = own
           /\ own' = s /\ initialized' = TRUE
           /\ opened' = [opened EXCEPT ![s] = path]
  <2>1. TypeOK'
    BY <1>1, <1>3 DEF TypeOK, Free
  <2>2. OwnUntouched'
    BY <1>3 DEF TypeOK, OwnUntouched, Free
  <2>3. InitializedCurrent' /\ AnswersCurrent'
    BY <1>1, <1>3 DEF TypeOK, InitializedCurrent, AnswersCurrent
  <2> QED BY <2>1, <2>2, <2>3
<1> QED BY <1>1, <1>2, <1>3 DEF OpenOwn

\* A stream that is handed over is no longer the object's own.
LEMMA NewStreamInv == ASSUME IInv, NewStream PROVE IInv'
<1> USE NoneAssumption DEF NewStream, IInv
<1>1. TypeOK'
  <2>1. CASE own = None
    <3>1. PICK s \in Streams : /\ opened[s] = None
                               /\ opened' = [opened EXCEPT ![s] = path]
                               /\ given' = given \cup {s}
      BY <2>1 DEF Free
    <3> QED BY <2>1, <3>1 DEF TypeOK, Free
  <2>2. CASE own # None
    BY <2>2 DEF TypeOK, Free
  <2> QED BY <2>1, <2>2
<1>2. OwnUntouched'
  BY DEF TypeOK, OwnUntouched, Free
<1>3. InitializedCurrent' /\ AnswersCurrent'
  BY DEF TypeOK, InitializedCurrent, AnswersCurrent, Free
<1> QED BY <1>1, <1>2, <1>3

\* Clients open, read and close streams that are not the object's own.
LEMMA ClientInv ==
  ASSUME IInv, Stream \/ \E s \in Streams : Take(s) \/ Dispose(s)
  PROVE  IInv'
<1> USE NoneAssumption DEF Stream, Take, Dispose, IInv
<1>1. TypeOK'
  BY DEF TypeOK, OwnUntouched, Free
<1>2. OwnUntouched'
  BY DEF TypeOK, OwnUntouched, Free
<1>3. InitializedCurrent' /\ AnswersCurrent'
  BY DEF TypeOK, OwnUntouched, InitializedCurrent, AnswersCurrent, Free
<1> QED BY <1>1, <1>2, <1>3

\* Deserialization deletes the stream it took and leaves a new one.
LEMMA DeserializeInv == ASSUME IInv, Deserialize PROVE IInv'
<1> USE NoneAssumption DEF Deserialize, IInv
<1>1. TypeOK'
  BY DEF TypeOK, OwnUntouched, Free
<1>2. OwnUntouched'
  BY DEF TypeOK, OwnUntouched, Free
<1>3. InitializedCurrent' /\ AnswersCurrent'
  BY DEF TypeOK, InitializedCurrent, AnswersCurrent
<1> QED BY <1>1, <1>2, <1>3

\* Moving forgets the initialization.
LEMMA MoveInv == ASSUME IInv, Move PROVE IInv'
<1>1. PICK p \in Paths : MoveTo(p)
  BY DEF Move
<1> USE <1>1 DEF MoveTo, IInv
<1>2. TypeOK'
  BY DEF TypeOK, Free
<1>3. OwnUntouched' /\ InitializedCurrent' /\ AnswersCurrent'
  BY DEF OwnUntouched, InitializedCurrent, AnswersCurrent
<1> QED BY <1>2, <1>3

\* Every step preserves the invariants.
LEMMA NextInv == ASSUME IInv, [Next]_vars PROVE IInv'
<1>1. CASE UNCHANGED vars
  BY <1>1 DEF vars, IInv, TypeOK, OwnUntouched, InitializedCurrent,
              AnswersCurrent, Free
<1> QED BY <1>1, QueryInv, NewStreamInv, ClientInv, DeserializeInv, MoveInv
        DEF Next

\* The own stream and the streams of clients exist, and no other does.
THEOREM HandleTypes == Spec => []TypeOK
<1>1. IInv /\ [Next]_vars => IInv'
  BY NextInv
<1>2. IInv => TypeOK
  BY DEF IInv
<1> QED BY InitInv, <1>1, <1>2, PTL DEF Spec

\* type() and size() are always those of the path the object points to.
THEOREM AnswersCorrect == Spec => []AnswersCurrent
<1>1. IInv /\ [Next]_vars => IInv'
  BY NextInv
<1>2. IInv => AnswersCurrent
  BY DEF IInv
<1> QED BY InitInv, <1>1, <1>2, PTL DEF Spec

\* An object never uses a stream that a client holds or has read from.
THEOREM OwnershipCorrect == Spec => []OwnUntouched
<1>1. IInv /\ [Next]_vars => IInv'
  BY NextInv
<1>2. IInv => OwnUntouched
  BY DEF IInv
<1> QED BY InitInv, <1>1, <1>2, PTL DEF Spec

-----------------------------------------------------------------------------
(* The object of the iterator is one of LooseHandle.                       *)

\* What the iterator and its clients do to the object, LooseHandle allows.
LEMMA ObjectStep == ASSUME [IterNext]_iterVars PROVE [Next]_vars
<1>1. CASE Walk
  <2>1. ASSUME NEW entry, LookAt(entry) PROVE [Next]_vars
    BY <2>1, FileAssumption DEF LookAt, Next, Move, Files
  <2> QED BY <1>1, <2>1 DEF Walk, Begin, Increment, Descend, ReadSub, ReadRoot,
                            LeaveSub, LeaveRoot
<1>2. CASE Insertion
  BY <1>2 DEF Insertion
<1>3. CASE Client
  BY <1>3 DEF Client, Next
<1>4. CASE UNCHANGED iterVars
  BY <1>4 DEF iterVars
<1> QED BY <1>1, <1>2, <1>3, <1>4 DEF IterNext

\* Every behaviour of the iterator is one of the object: what is proved of
\* objects, whose path anybody assigns, holds of the iterator's.
THEOREM ObjectRefinement == IterSpec => Spec
<1>1. IterInit => Init
  BY DEF IterInit
<1> QED BY <1>1, ObjectStep, PTL DEF IterSpec, Spec

\* type() and size() are those of the file that the iterator is at.
THEOREM IteratorAnswers == IterSpec => []AnswersCurrent
BY ObjectRefinement, AnswersCorrect, PTL

\* The stream that the iterator's object keeps is read by no client.
THEOREM IteratorOwnership == IterSpec => []OwnUntouched
BY ObjectRefinement, OwnershipCorrect, PTL

-----------------------------------------------------------------------------
(* The inductive invariant.                                                *)

\* files of no insertion are in directories that exist
OthersOK == others \subseteq {f \in Others : DirOf[f] \in dirs \cup {Root}}

\* what was visited is an object's file or one of no insertion
VisitedExist == visited \subseteq present \cup others

\* streams give files and directories
StreamStates == [due : SUBSET (Files \cup Prefixes), seen : SUBSET (Files \cup Prefixes)]
StreamsOK == root \in StreamStates /\ sub \in StreamStates

\* A directory that is to be opened or is open was given by the root's stream.
StackOK ==
  /\ phase = "none" => visited = {} /\ cur = None /\ top = Root
  /\ phase \in {"at", "end"} => cur \notin dirs
  /\ phase = "end" => top = Root /\ root.due \subseteq root.seen
  /\ phase = "undefined" => started = {}
  /\ cur \in dirs => top = Root /\ cur \in root.seen
  /\ top # Root => top \in root.seen

\* An object that was there at begin() was visited, or will be: its directory's
\* stream still has to give it, or the root's has to give the directory.
Pending(k) ==
  \/ k \in visited
  \/ cur = DirOf[k]
  \/ top = DirOf[k] /\ k \in sub.due \ sub.seen
  \/ DirOf[k] \in root.due \ root.seen

AllPending == phase \in {"next", "at", "end"} => \A k \in started : Pending(k)

\* A file that was visited is not given again: its stream gave it, or its
\* directory was given and is not waiting to be opened.
GivenOnce(f) ==
  IF DirOf[f] = Root THEN f \in root.seen
  ELSE /\ DirOf[f] \in root.seen
       /\ cur # DirOf[f]
       /\ top = DirOf[f] => f \in sub.seen

AllGivenOnce == \A f \in visited : GivenOnce(f)

WInv ==
  /\ WalkOK /\ OthersOK /\ StreamsOK /\ StackOK
  /\ VisitedExist /\ AllPending /\ AllGivenOnce

\* Nothing was visited before begin().
LEMMA WInit == ASSUME IterInit PROVE WInv
<1> USE DEF IterInit
<1>1. WalkOK /\ OthersOK /\ StreamsOK
  BY DEF WalkOK, Tree!Init, OthersOK, StreamsOK, StreamStates, NoStream
<1>2. StackOK
  BY FileAssumption DEF StackOK, Tree!Init
<1>3. VisitedExist /\ AllPending /\ AllGivenOnce
  BY DEF VisitedExist, AllPending, AllGivenOnce
<1> QED BY <1>1, <1>2, <1>3 DEF WInv

\* What a stream gives is a file or a directory that exists; an object's file
\* and its directory are different entries of different streams.
LEMMA EntriesKind ==
  ASSUME WInv, NEW d \in dirs \cup {Root}, NEW entry \in Entries(d)
  PROVE  /\ entry \in Files \/ (entry \in dirs /\ d = Root)
         /\ entry \in Files => DirOf[entry] = d
         /\ entry \in Files /\ IsObjectName(entry) => entry \in present \cup others
         /\ entry \in Files => entry \notin dirs /\ entry \notin Prefixes
BY FileAssumption, LengthAssumption
   DEF WInv, WalkOK, Tree!Init, OthersOK, Entries, Files, IsObjectName

\* An object's file has an object's name, and is in its directory.
LEMMA KeyIsObject ==
  ASSUME WInv, NEW k \in present
  PROVE  /\ k \in Files /\ IsObjectName(k)
         /\ DirOf[k] \in dirs /\ DirOf[k] # Root /\ DirOf[k] # None
         /\ k \in Entries(DirOf[k]) /\ DirOf[k] \in Entries(Root)
<1>1. k \in Keys /\ k \in Files /\ DirOf[k] \in dirs
  BY FileAssumption DEF WInv, WalkOK, Tree!Init, Files
<1>2. DirOf[k] \in Prefixes /\ DirOf[k] # Root /\ DirOf[k] # None
  BY <1>1, FileAssumption DEF Files
<1>3. IsObjectName(k)
  BY <1>1, LengthAssumption DEF IsObjectName
<1>4. k \in Entries(DirOf[k]) /\ DirOf[k] \in Entries(Root)
  BY <1>1 DEF Entries
<1> QED BY <1>1, <1>2, <1>3, <1>4

\* What was visited is a file in the root or in another directory.
LEMMA VisitedFiles ==
  ASSUME WInv, NEW f \in visited
  PROVE  /\ f \in Files /\ f \notin temps
         /\ DirOf[f] # Root => DirOf[f] \in Prefixes /\ DirOf[f] # None
BY FileAssumption
   DEF WInv, VisitedExist, WalkOK, Tree!Init, OthersOK, Files

\* begin(): the first entry is an object's directory, or its directory is due.
LEMMA BeginWInv == ASSUME WInv, Begin PROVE WInv'
<1> USE DEF Begin, Given, Opened
<1>1. CASE Entries(Root) = {}
  <2>1. started' = {}
    BY <1>1, KeyIsObject
  <2>2. phase' = "undefined" /\ UNCHANGED <<cur, root>>
    BY <1>1
  <2> QED BY <2>1, <2>2, FileAssumption DEF WInv, WalkOK, Tree!Init, OthersOK, StreamsOK,
          StackOK, VisitedExist, AllPending, AllGivenOnce, GivenOnce, vars, tree
<1>2. CASE Entries(Root) # {}
  <2>1. PICK entry \in Entries(Root) :
          cur' = entry /\ root' = Given(Opened(Root), entry) /\ phase' = "next"
    BY <1>2
  <2>2. WalkOK' /\ OthersOK'
    BY <2>1, EntriesKind DEF WInv, WalkOK, Tree!Init, OthersOK, vars, tree
  <2>3. StreamsOK'
    <3>1. Entries(Root) \subseteq Files \cup Prefixes
      BY EntriesKind DEF WInv, WalkOK, Tree!Init
    <3> QED BY <2>1, <3>1 DEF WInv, StreamsOK, StreamStates
  <2>4. StackOK'
    BY <2>1, EntriesKind DEF WInv, StackOK, tree
  <2>5. AllPending'
    BY <2>1, KeyIsObject DEF AllPending, Pending
  <2>6. VisitedExist' /\ AllGivenOnce'
    BY DEF WInv, StackOK, VisitedExist, AllGivenOnce
  <2> QED BY <2>2, <2>3, <2>4, <2>5, <2>6 DEF WInv
<1> QED BY <1>1, <1>2

\* A directory is opened: it has everything that is to be visited in it.
LEMMA DescendWInv == ASSUME WInv, Descend PROVE WInv'
<1> USE DEF Descend, Opened
<1>1. top = Root /\ cur \in root.seen /\ cur # Root /\ None \notin dirs
  BY FileAssumption DEF WInv, StackOK, WalkOK, Tree!Init
<1>2. WalkOK' /\ OthersOK' /\ VisitedExist'
  BY DEF WInv, WalkOK, Tree!Init, OthersOK, VisitedExist, vars, tree
<1>3. StreamsOK'
  <2>1. Entries(cur) \subseteq Files \cup Prefixes
    BY EntriesKind DEF WInv, WalkOK, Tree!Init
  <2> QED BY <2>1 DEF WInv, StreamsOK, StreamStates
<1>4. StackOK'
  BY <1>1 DEF WInv, StackOK, tree
<1>5. AllPending'
  <2> SUFFICES ASSUME NEW k \in started PROVE Pending(k)'
    BY DEF AllPending
  <2>1. k \in present /\ Pending(k)
    BY DEF WInv, WalkOK, AllPending
  <2>2. DirOf[k] # Root /\ k \in Entries(DirOf[k])
    BY <2>1, KeyIsObject
  <2>3. CASE DirOf[k] = cur
    BY <2>2, <2>3 DEF Pending
  <2>4. CASE DirOf[k] # cur
    BY <1>1, <2>1, <2>2, <2>4 DEF Pending
  <2> QED BY <2>3, <2>4
<1>6. AllGivenOnce'
  <2> SUFFICES ASSUME NEW f \in visited PROVE GivenOnce(f)'
    BY DEF AllGivenOnce
  <2> QED BY <1>1, VisitedFiles DEF WInv, AllGivenOnce, GivenOnce
<1> QED BY <1>2, <1>3, <1>4, <1>5, <1>6 DEF WInv

\* Whatever the loop looks at, its types stay right.
LEMMA LookAtTypes ==
  ASSUME WInv, phase = "next",
         NEW d \in dirs \cup {Root}, NEW entry \in Entries(d), LookAt(entry)
  PROVE  /\ WalkOK' /\ OthersOK' /\ VisitedExist'
         /\ phase' \in {"next", "at"}
         /\ phase' = "at" => entry \in Files
         /\ visited' = visited \cup IF phase' = "at" THEN {entry} ELSE {}
<1> USE DEF LookAt
<1>1. CASE entry \in Files /\ IsObjectName(entry)
  <2>1. entry \in present \cup others
    BY <1>1, EntriesKind
  <2>2. path' = entry
    BY <1>1 DEF MoveTo
  <2>3. WalkOK'
    BY <1>1, <2>2 DEF WInv, WalkOK, Tree!Init, tree
  <2>4. VisitedExist'
    BY <1>1, <2>1 DEF WInv, VisitedExist, IsObjectName, tree
  <2>5. OthersOK'
    BY DEF WInv, OthersOK, tree
  <2> QED BY <1>1, <2>3, <2>4, <2>5
<1>2. CASE ~(entry \in Files /\ IsObjectName(entry))
  <2>1. entry \in Files \cup dirs
    BY EntriesKind
  <2>2. WalkOK'
    BY <1>2, <2>1 DEF WInv, WalkOK, Tree!Init, tree, vars
  <2> QED BY <1>2, <2>2 DEF WInv, VisitedExist, IsObjectName, OthersOK, tree
<1> QED BY <1>1, <1>2

\* An object that the loop looks at is visited.
LEMMA LookAtVisits ==
  ASSUME WInv, NEW k \in present, LookAt(k)
  PROVE  k \in visited'
BY KeyIsObject DEF LookAt

\* The directory that is open gives a file that was not visited.
LEMMA ReadSubWInv ==
  ASSUME WInv, ReadSub
  PROVE  WInv' /\ (phase' = "at" => path' \notin visited)
<1>1. PICK entry \in Unseen(sub, top) : LookAt(entry) /\ sub' = Given(sub, entry)
  BY DEF ReadSub
<1>2. phase = "next" /\ top \in dirs /\ top # Root /\ top \in root.seen
  BY DEF ReadSub, WInv, WalkOK, StackOK
<1>3. entry \in Entries(top) /\ entry \notin sub.seen
  BY <1>1 DEF Unseen
<1>4. entry \in Files /\ DirOf[entry] = top /\ entry \notin dirs /\ entry \notin Prefixes
  BY <1>2, <1>3, EntriesKind
<1>5. UNCHANGED <<tree, top, started, root>> /\ cur' = entry
  BY <1>1 DEF ReadSub, LookAt
<1>6. /\ WalkOK' /\ OthersOK' /\ VisitedExist'
      /\ phase' \in {"next", "at"}
      /\ visited' = visited \cup IF phase' = "at" THEN {entry} ELSE {}
  BY <1>1, <1>2, <1>3, LookAtTypes
<1>7. StreamsOK'
  BY <1>1, <1>4, <1>5 DEF WInv, StreamsOK, StreamStates, Given
<1>8. StackOK'
  BY <1>2, <1>4, <1>5, <1>6 DEF StackOK, tree
<1>9. AllPending'
  <2> SUFFICES ASSUME NEW k \in started PROVE Pending(k)'
    BY <1>5 DEF AllPending
  <2>1. k \in present /\ Pending(k) /\ DirOf[k] # cur
    <3>1. k \in present /\ Pending(k)
      BY <1>2 DEF WInv, WalkOK, AllPending
    <3> QED BY <1>2, <3>1, KeyIsObject DEF WInv, StackOK
  <2>2. CASE k = entry
    BY <1>1, <2>1, <2>2, LookAtVisits DEF Pending
  <2>3. CASE k # entry
    BY <1>1, <1>5, <1>6, <2>1, <2>3 DEF Pending, Given, WInv, StreamsOK, StreamStates
  <2> QED BY <2>2, <2>3
<1>10. AllGivenOnce'
  <2> SUFFICES ASSUME NEW f \in visited' PROVE GivenOnce(f)'
    BY DEF AllGivenOnce
  <2>1. f \in Files /\ DirOf[f] \in Prefixes \cup {Root}
    BY FileAssumption, VisitedFiles, <1>4, <1>6
  <2>2. sub'.seen = sub.seen \cup {entry}
    BY <1>1 DEF Given, WInv, StreamsOK, StreamStates
  <2>3. DirOf[f] # Root => entry # DirOf[f]
    BY <1>4, <2>1
  <2> QED BY <1>2, <1>4, <1>5, <1>6, <2>1, <2>2, <2>3 DEF WInv, AllGivenOnce, GivenOnce
<1>11. phase' = "at" => path' \notin visited
  <2>1. phase' = "at" => path' = entry
    BY <1>5, <1>6 DEF WalkOK
  <2>2. entry \notin visited
    BY <1>2, <1>3, <1>4 DEF WInv, AllGivenOnce, GivenOnce
  <2> QED BY <2>1, <2>2
<1> QED BY <1>6, <1>7, <1>8, <1>9, <1>10, <1>11 DEF WInv

\* The root gives a directory, or a file that was not visited.
LEMMA ReadRootWInv ==
  ASSUME WInv, ReadRoot
  PROVE  WInv' /\ (phase' = "at" => path' \notin visited)
<1>1. PICK entry \in Unseen(root, Root) : LookAt(entry) /\ root' = Given(root, entry)
  BY DEF ReadRoot
<1>2. phase = "next" /\ top = Root /\ cur \notin dirs
  BY DEF ReadRoot
<1>3. entry \in Entries(Root) /\ entry \notin root.seen
  BY <1>1 DEF Unseen
<1>4. /\ entry \in Files \/ entry \in dirs
      /\ entry \in Files => DirOf[entry] = Root /\ entry \notin Prefixes
  BY <1>3, EntriesKind
<1>5. UNCHANGED <<tree, top, started, sub>> /\ cur' = entry
  BY <1>1 DEF ReadRoot, LookAt
<1>6. /\ WalkOK' /\ OthersOK' /\ VisitedExist'
      /\ phase' \in {"next", "at"}
      /\ phase' = "at" => entry \in Files
      /\ visited' = visited \cup IF phase' = "at" THEN {entry} ELSE {}
  BY <1>1, <1>2, <1>3, LookAtTypes
<1>7. root' \in StreamStates /\ root'.seen = root.seen \cup {entry} /\ root'.due = root.due
  BY <1>1, <1>4 DEF WInv, WalkOK, Tree!Init, StreamsOK, StreamStates, Given
<1>8. StreamsOK'
  BY <1>5, <1>7 DEF WInv, StreamsOK
<1>9. StackOK'
  BY <1>2, <1>4, <1>5, <1>6, <1>7 DEF StackOK, WInv, WalkOK, Tree!Init, tree
<1>10. AllPending'
  <2> SUFFICES ASSUME NEW k \in started PROVE Pending(k)'
    BY <1>5 DEF AllPending
  <2>1. k \in present /\ Pending(k)
    BY <1>2 DEF WInv, WalkOK, AllPending
  <2>2. DirOf[k] # cur
    BY <1>2, <2>1, KeyIsObject
  <2> QED BY <1>5, <1>6, <1>7, <2>1, <2>2 DEF Pending
<1>11. AllGivenOnce'
  <2> SUFFICES ASSUME NEW f \in visited' PROVE GivenOnce(f)'
    BY DEF AllGivenOnce
  <2>1. CASE f \in visited
    BY <1>3, <1>5, <1>7, <2>1 DEF WInv, AllGivenOnce, GivenOnce
  <2>2. CASE f = entry /\ entry \in Files
    BY <1>4, <1>7, <2>2 DEF GivenOnce
  <2> QED BY <1>6, <2>1, <2>2
<1>12. phase' = "at" => path' \notin visited
  <2>1. phase' = "at" => path' = entry
    BY <1>5, <1>6 DEF WalkOK
  <2>2. entry \in Files => entry \notin visited
    BY <1>3, <1>4 DEF WInv, AllGivenOnce, GivenOnce
  <2> QED BY <1>6, <2>1, <2>2
<1> QED BY <1>6, <1>8, <1>9, <1>10, <1>11, <1>12 DEF WInv

\* A directory is only left when it has given everything that was due.
LEMMA LeaveWInv == ASSUME WInv, LeaveSub \/ LeaveRoot PROVE WInv'
<1> USE DEF LeaveSub, LeaveRoot, Ended
<1>1. phase = "next" /\ cur \notin dirs /\ cur' = None /\ None \notin dirs /\ Root \notin dirs
  BY FileAssumption DEF WInv, StackOK, WalkOK, Tree!Init
<1>2. WalkOK' /\ OthersOK' /\ VisitedExist'
  BY DEF WInv, WalkOK, Tree!Init, OthersOK, VisitedExist, vars, tree
<1>3. StreamsOK'
  BY DEF WInv, StreamsOK, StreamStates, NoStream
<1>4. StackOK'
  BY <1>1 DEF WInv, StackOK, tree
<1>5. AllPending'
  <2> SUFFICES ASSUME NEW k \in started PROVE Pending(k)'
    BY DEF AllPending
  <2>1. k \in present /\ Pending(k)
    BY <1>1 DEF WInv, WalkOK, AllPending
  <2>2. DirOf[k] # cur /\ DirOf[k] # Root
    BY <1>1, <2>1, KeyIsObject
  <2> QED BY <2>1, <2>2 DEF Pending
<1>6. AllGivenOnce'
  <2> SUFFICES ASSUME NEW f \in visited PROVE GivenOnce(f)'
    BY DEF AllGivenOnce
  <2> QED BY <1>1, VisitedFiles DEF WInv, AllGivenOnce, GivenOnce
<1> QED BY <1>2, <1>3, <1>4, <1>5, <1>6 DEF WInv

\* Insertions add files and directories, and remove temporary files only.
LEMMA InsertionWInv == ASSUME WInv, Insertion PROVE WInv'
<1> DEFINE gone == temps \ temps'
<1>1. /\ dirs \subseteq dirs' /\ present \subseteq present' /\ Tree!Init'
      /\ UNCHANGED <<vars, others, phase, cur, top, sub, started, visited>>
  BY DEF Insertion, Tree!Next, Tree!MakeTemp, Tree!MakeDir, Tree!Publish,
         Tree!RemoveTemp, WInv, WalkOK, Tree!Init
<1>2. /\ root' \in StreamStates
      /\ root'.due = root.due \ gone /\ root'.seen = root.seen \ gone
  BY DEF Insertion, WInv, StreamsOK, StreamStates
<1>3. gone \subseteq Names /\ gone \cap Prefixes = {}
  BY FileAssumption DEF WInv, WalkOK, Tree!Init, Files
<1>4. cur \in dirs' => cur \in dirs
  BY <1>1, FileAssumption DEF WInv, WalkOK, Tree!Init
<1>5. dirs \subseteq Prefixes /\ top \in dirs \cup {Root}
  BY DEF WInv, WalkOK, Tree!Init
<1>6. WalkOK'
  BY <1>1 DEF WInv, WalkOK, vars
<1>7. OthersOK' /\ VisitedExist'
  BY <1>1 DEF WInv, OthersOK, VisitedExist, IsObjectName
<1>8. StreamsOK'
  BY <1>1, <1>2 DEF WInv, StreamsOK
<1>9. StackOK'
  BY <1>1, <1>2, <1>3, <1>4, <1>5 DEF WInv, StackOK
<1>10. AllPending'
  <2> SUFFICES ASSUME NEW k \in started, Pending(k) PROVE Pending(k)'
    BY <1>1 DEF WInv, AllPending
  <2>1. DirOf[k] \in Prefixes
    BY <1>5, KeyIsObject DEF WInv, WalkOK
  <2> QED BY <1>1, <1>2, <1>3, <2>1 DEF Pending
<1>11. AllGivenOnce'
  <2> SUFFICES ASSUME NEW f \in visited PROVE GivenOnce(f)'
    BY <1>1 DEF AllGivenOnce
  <2>1. f \notin gone /\ (DirOf[f] # Root => DirOf[f] \notin gone)
    BY <1>3, VisitedFiles
  <2> QED BY <1>1, <1>2, <2>1 DEF WInv, AllGivenOnce, GivenOnce
<1> QED BY <1>6, <1>7, <1>8, <1>9, <1>10, <1>11 DEF WInv

\* Clients leave the walk alone, and ++ starts the loop.
LEMMA ClientWInv ==
  ASSUME WInv, Client \/ Increment \/ UNCHANGED iterVars
  PROVE  WInv'
<1>1. UNCHANGED <<tree, cur, top, root, sub, started, visited>> /\ UNCHANGED path
  BY DEF Client, Increment, iterVars, walk, vars, Query, NewStream, Stream,
         Deserialize, Take, Dispose
<1>2. phase' = phase \/ (phase = "at" /\ phase' = "next")
  BY DEF Client, Increment, iterVars, walk
<1> QED BY <1>1, <1>2 DEF WInv, WalkOK, Tree!Init, OthersOK, StreamsOK, StackOK,
       VisitedExist, IsObjectName, AllPending, Pending, AllGivenOnce, GivenOnce, tree

\* Every step preserves the invariant.
LEMMA WNext == ASSUME WInv, [IterNext]_iterVars PROVE WInv'
BY BeginWInv, DescendWInv, ReadSubWInv, ReadRootWInv, LeaveWInv, InsertionWInv,
   ClientWInv DEF IterNext, Walk

\* The invariant holds all along.
LEMMA WInvariance == IterSpec => []WInv
BY WInit, WNext, PTL DEF IterSpec

-----------------------------------------------------------------------------
(* What it implies.                                                        *)

\* The walk is in one of its states, in directories that exist, and its object
\* is that of the file it is at.
THEOREM IteratorTypes == IterSpec => []WalkOK
<1>1. WInv => WalkOK
  BY DEF WInv
<1> QED BY <1>1, WInvariance, PTL

\* Of the files that insertions make, the iterator stops at stored objects only.
THEOREM IteratorStopsAtStored == IterSpec => []VisitsStored
<1>1. WInv => VisitsStored
  BY DEF WInv, VisitedExist, OthersOK, VisitsStored
<1> QED BY <1>1, WInvariance, PTL

\* An iteration that ends has visited every object that was there at begin().
THEOREM IteratorComplete == IterSpec => []NoneMissed
<1>1. ASSUME WInv PROVE NoneMissed
  <2>1. CASE phase = "end"
    <3>1. cur \notin dirs /\ top = Root /\ root.due \subseteq root.seen
      BY <1>1, <2>1 DEF WInv, StackOK
    <3>2. ASSUME NEW k \in started PROVE k \in visited
      <4>1. k \in present /\ Pending(k)
        BY <1>1, <2>1 DEF WInv, WalkOK, AllPending
      <4> QED BY <1>1, <3>1, <4>1, KeyIsObject DEF Pending
    <3> QED BY <3>2 DEF NoneMissed
  <2>2. CASE phase # "end"
    BY <1>1, <2>2 DEF WInv, StackOK, NoneMissed
  <2> QED BY <2>1, <2>2
<1> QED BY <1>1, WInvariance, PTL

\* No object is visited twice.
THEOREM IteratorVisitsOnce == IterSpec => VisitedOnce
<1>1. ASSUME WInv, [IterNext]_iterVars
      PROVE  [phase = "next" /\ phase' = "at" => path' \notin visited]_iterVars
  <2> SUFFICES ASSUME phase = "next", phase' = "at", IterNext
               PROVE  path' \notin visited
    BY <1>1
  <2>1. ReadSub \/ ReadRoot
    <3>1. Begin \/ Increment \/ Descend \/ LeaveSub \/ LeaveRoot \/ Insertion \/ Client
            => phase' # "at" \/ phase' = phase
      BY DEF Begin, Increment, Descend, LeaveSub, LeaveRoot, Insertion, Client, walk
    <3> QED BY <3>1 DEF IterNext, Walk
  <2> QED BY <1>1, <2>1, ReadSubWInv, ReadRootWInv
<1> QED BY <1>1, WInvariance, PTL DEF IterSpec, VisitedOnce
=============================================================================
