-------------------------- MODULE LooseStoreProofs --------------------------
(***************************************************************************)
(* Proofs about LooseStore for any number of writers, readers, objects and *)
(* temporary names.  Crashes, and failures to open a file or to make a     *)
(* directory, are allowed; CleanWrites excludes the two faults under which *)
(* the model checker finds the properties violated.                        *)
(***************************************************************************)
EXTENDS LooseStore, TLAPS

CleanWrites == "short" \notin Faults /\ "collide" \notin Faults

\* None is no value of any kind.
LEMMA NoneFacts ==
  /\ None \notin Objects /\ None \notin Kinds /\ None \notin Names
  /\ None \notin Keys /\ None \notin Content
BY NoneAssumption

\* Blank and complete files are contents.
LEMMA ContentFacts ==
  /\ Blank \in Content
  /\ \A o \in Objects : Image(o) \in Content
BY DEF Blank, Image, Content

\* A key that two objects may have names the same content: hashes are
\* injective, and all empty objects have the same (headerless) image.
LEMMA SameKeySameImage ==
  ASSUME NEW o \in Objects, NEW p \in Objects,
         NEW k, k \in KeysOf(o), k \in KeysOf(p)
  PROVE  Image(o) = Image(p)
<1>1. CASE k = NullKey
  <2>1. o \in Empty /\ p \in Empty
    BY <1>1, ObjectAssumption DEF KeysOf, StreamKey
  <2> QED BY <2>1 DEF Image
<1>2. CASE k # NullKey
  <2>1. k = HashOf[o] /\ k = HashOf[p]
    BY <1>2, ObjectAssumption DEF KeysOf, StreamKey
  <2> QED BY <2>1, ObjectAssumption
<1> QED BY <1>1, <1>2

\* The name of an object's final file is one of the object's keys.
LEMMA DestFacts ==
  ASSUME NEW w \in Writers, job[w].obj \in Objects
  PROVE  Dest(w) \in Keys /\ Dest(w) \in KeysOf(job[w].obj)
BY ObjectAssumption DEF Dest, KeysOf, StreamKey

\* Nothing about a writer changes in a step that leaves its own state, its
\* temporary file and the stored files alone.
LEMMA OtherWriter ==
  ASSUME IInv, NEW v \in Writers,
         pc'[v] = pc[v], job'[v] = job[v], loc'[v] = loc[v],
         job[v].tmp \in Names => file'[job[v].tmp] = file[job[v].tmp],
         \A k \in Keys : file[k] # None => file'[k] # None
  PROVE  JobValid(v)' /\ TmpContent(v)' /\ DestPresent(v)'
<1>1. JobValid(v) /\ TmpContent(v) /\ DestPresent(v)
  BY DEF IInv
<1>2. JobValid(v)'
  BY <1>1 DEF JobValid
<1>3. TmpContent(v)'
  BY <1>1 DEF TmpContent, JobValid
<1>4. DestPresent(v)'
  <2> SUFFICES ASSUME pc[v] \in {"discard", "return"}
               PROVE  file'[Dest(v)'] # None
    BY DEF DestPresent
  <2>1. Dest(v)' = Dest(v)
    BY DEF Dest
  <2>2. Dest(v) \in Keys
    BY <1>1, DestFacts DEF JobValid
  <2> QED BY <1>1, <2>1, <2>2 DEF DestPresent
<1> QED BY <1>2, <1>3, <1>4

\* The stored files, acknowledgements and accessors stay good in a step that
\* changes none of them.
LEMMA StorePreserved ==
  ASSUME IInv, \A k \in Keys : file'[k] = file[k],
         acked' = acked, view' = view
  PROVE  StoredUnderOwnKey' /\ AckedPresent' /\ AccessorReads'
<1>1. StoredUnderOwnKey'
  BY DEF IInv, StoredUnderOwnKey
<1>2. AckedPresent'
  BY DEF IInv, AckedPresent, TypeOK
<1>3. AccessorReads'
  <2> SUFFICES ASSUME NEW r \in Readers, view[r].key # None
               PROVE  /\ file'[view[r].key] # None
                      /\ view[r].image \in {None, file'[view[r].key]}
    BY DEF AccessorReads
  <2>1. view[r].key \in Keys
    BY DEF IInv, TypeOK
  <2> QED BY <2>1 DEF IInv, AccessorReads
<1> QED BY <1>1, <1>2, <1>3

\* A call that ends leaves nothing to be true of its writer.
LEMMA LeaveInv ==
  ASSUME IInv, NEW w \in Writers, Leave(w), UNCHANGED <<file, dirs, view>>,
         acked' = acked
  PROVE  IInv'
<1> USE DEF Leave, Goto
<1>1. TypeOK'
  BY DEF IInv, TypeOK, Steps, NoJob
<1>2. TmpsDistinct'
  BY NoneFacts DEF IInv, TypeOK, TmpsDistinct, NoJob
<1>3. ASSUME NEW v \in Writers
      PROVE  JobValid(v)' /\ TmpContent(v)' /\ DestPresent(v)'
  <2>1. CASE v = w
    BY <2>1 DEF IInv, TypeOK, JobValid, TmpContent, DestPresent
  <2>2. CASE v # w
    BY <2>2, OtherWriter DEF IInv, TypeOK
  <2> QED BY <2>1, <2>2
<1>4. StoredUnderOwnKey' /\ AckedPresent' /\ AccessorReads'
  BY StorePreserved
<1> QED BY <1>1, <1>2, <1>3, <1>4 DEF IInv

-----------------------------------------------------------------------------
\* Initially every file is an object's image and no writer is at work.
LEMMA InitInv == Init => IInv
<1> SUFFICES ASSUME Init PROVE IInv
  OBVIOUS
<1>1. PICK S \in SUBSET Objects :
        /\ file = [p \in Paths |->
                     IF \E o \in S : HashOf[o] = p
                     THEN Image(CHOOSE o \in S : HashOf[o] = p) ELSE None]
        /\ dirs = {PrefixOf[HashOf[o]] : o \in S}
        /\ pc = [w \in Writers |-> "idle"]
        /\ job = [w \in Writers |-> NoJob]
        /\ loc = [w \in Writers |-> None]
        /\ acked = {}
        /\ view = [r \in Readers |-> NoView]
  BY DEF Init
<1>2. ASSUME NEW p \in Paths
      PROVE  \/ file[p] = None
             \/ \E o \in Objects : file[p] = Image(o) /\ p = HashOf[o]
  <2>1. CASE \E o \in S : HashOf[o] = p
    <3> DEFINE c == CHOOSE o \in S : HashOf[o] = p
    <3>1. c \in S /\ HashOf[c] = p
      BY <2>1
    <3>2. file[p] = Image(c)
      BY <1>1, <2>1
    <3> QED BY <3>1, <3>2
  <2>2. CASE ~ \E o \in S : HashOf[o] = p
    BY <1>1, <2>2
  <2> QED BY <2>1, <2>2
<1>3. TypeOK
  <2>1. file \in [Paths -> Content \cup {None}]
    <3>1. \A p \in Paths : file[p] \in Content \cup {None}
      BY <1>2, ContentFacts
    <3> QED BY <1>1, <3>1
  <2>2. dirs \subseteq Prefixes
    BY <1>1, ObjectAssumption, PathAssumption
  <2> QED BY <1>1, <2>1, <2>2 DEF TypeOK, Steps, NoJob, NoView
<1>4. TmpsDistinct
  BY <1>1 DEF TmpsDistinct, NoJob
<1>5. ASSUME NEW w \in Writers PROVE JobValid(w) /\ TmpContent(w) /\ DestPresent(w)
  BY <1>1 DEF JobValid, TmpContent, DestPresent
<1>6. StoredUnderOwnKey
  BY <1>2 DEF StoredUnderOwnKey, Paths, KeysOf
<1>7. AckedPresent /\ AccessorReads
  BY <1>1 DEF AckedPresent, AccessorReads, NoView
<1> QED BY <1>3, <1>4, <1>5, <1>6, <1>7 DEF IInv

-----------------------------------------------------------------------------
(* A step that changes only the writer's own state and its temporary file  *)
(* keeps the invariant if what it says of that writer holds afterwards.    *)

\* A step of one writer that leaves what all others rely on alone.
LEMMA OwnStep ==
  ASSUME IInv, TypeOK', NEW w \in Writers,
         \A v \in Writers \ {w} :
           pc'[v] = pc[v] /\ job'[v] = job[v] /\ loc'[v] = loc[v],
         job'[w].tmp = None \/ \A v \in Writers \ {w} : job[v].tmp # job'[w].tmp,
         \A p \in Paths : p # job'[w].tmp => file'[p] = file[p],
         job'[w].tmp \in Names \cup {None},
         acked' = acked, view' = view,
         JobValid(w)', TmpContent(w)', DestPresent(w)'
  PROVE  IInv'
<1>1. \A k \in Keys : file'[k] = file[k]
  BY NoneFacts, PathAssumption DEF Paths
<1>2. TmpsDistinct'
  <2> SUFFICES ASSUME NEW u \in Writers, NEW v \in Writers,
                      job'[u].tmp = job'[v].tmp, job'[v].tmp # None
               PROVE  u = v
    BY DEF TmpsDistinct
  <2>1. CASE u = w \/ v = w
    BY <2>1
  <2>2. CASE u # w /\ v # w
    BY <2>2 DEF IInv, TmpsDistinct
  <2> QED BY <2>1, <2>2
<1>3. ASSUME NEW v \in Writers
      PROVE  JobValid(v)' /\ TmpContent(v)' /\ DestPresent(v)'
  <2>1. CASE v = w
    BY <2>1
  <2>2. CASE v # w
    <3>1. job[v].tmp \in Names => file'[job[v].tmp] = file[job[v].tmp]
      BY <2>2, NoneFacts DEF Paths
    <3> QED BY <1>1, <2>2, <3>1, OtherWriter
  <2> QED BY <2>1, <2>2
<1>4. StoredUnderOwnKey' /\ AckedPresent' /\ AccessorReads'
  BY <1>1, StorePreserved
<1> QED BY <1>2, <1>3, <1>4 DEF IInv

\* A call begins: nothing is written yet.
LEMMA StartInv ==
  ASSUME IInv, NEW w \in Writers, Start(w)
  PROVE  IInv'
<1> USE DEF Start, Goto
<1>1. TypeOK'
  BY DEF IInv, TypeOK, Steps
<1>2. JobValid(w)' /\ TmpContent(w)' /\ DestPresent(w)'
  <2>1. PICK o \in Objects, kind \in Kinds :
          /\ job' = [job EXCEPT ![w] = [obj |-> o, kind |-> kind, tmp |-> None]]
          /\ pc' = [pc EXCEPT ![w] = IF kind = "keyed" THEN "lookup" ELSE "open"]
    OBVIOUS
  <2>2. loc'[w] = None
    BY DEF IInv, TypeOK, JobValid
  <2>3. /\ pc'[w] = IF kind = "keyed" THEN "lookup" ELSE "open"
        /\ job'[w].obj = o /\ job'[w].kind = kind
    BY <2>1 DEF IInv, TypeOK
  <2> QED BY <2>2, <2>3 DEF JobValid, TmpContent, DestPresent
<1>3. job'[w].tmp = None
  BY DEF IInv, TypeOK
<1>4. \A v \in Writers \ {w} :
        pc'[v] = pc[v] /\ job'[v] = job[v] /\ loc'[v] = loc[v]
  BY DEF IInv, TypeOK
<1> QED BY <1>1, <1>2, <1>3, <1>4, OwnStep

\* A keyed insertion that finds its object may acknowledge it.
LEMMA LookupInv ==
  ASSUME IInv, NEW w \in Writers, Lookup(w)
  PROVE  IInv'
<1> USE DEF Lookup, Goto
<1>1. TypeOK'
  BY DEF IInv, TypeOK, Steps
<1>2. JobValid(w)' /\ TmpContent(w)'
  BY DEF IInv, TypeOK, JobValid, TmpContent
<1>3. DestPresent(w)'
  BY DEF IInv, TypeOK, DestPresent, Dest
<1>4. \A v \in Writers \ {w} : job[w].tmp = None \/ job[v].tmp # job[w].tmp
  BY DEF IInv, TmpsDistinct
<1> QED BY <1>1, <1>2, <1>3, <1>4, OwnStep DEF IInv, TypeOK

\* An unused name is truncated: no other writer works on it.
LEMMA OpenTmpInv ==
  ASSUME IInv, CleanWrites, NEW w \in Writers, OpenTmp(w)
  PROVE  IInv'
<1> USE DEF OpenTmp, Goto
<1>1. PICK t \in Names :
        /\ Unused(t)
        /\ job' = [job EXCEPT ![w].tmp = t]
        /\ file' = [file EXCEPT ![t] = Blank]
        /\ loc' = [loc EXCEPT ![w] = t]
  BY DEF CleanWrites
<1>2. TypeOK'
  BY <1>1, ContentFacts DEF IInv, TypeOK, Steps, Paths
<1>3. JobValid(w)'
  BY <1>1 DEF IInv, TypeOK, JobValid
<1>4. TmpContent(w)' /\ DestPresent(w)'
  BY <1>1, NoneFacts DEF IInv, TypeOK, TmpContent, DestPresent, Paths
<1>5. job'[w].tmp = t /\ \A v \in Writers : job[v].tmp # t
  BY <1>1 DEF IInv, TypeOK, Unused
<1> QED BY <1>1, <1>2, <1>3, <1>4, <1>5, OwnStep DEF IInv, TypeOK

\* If the file cannot be opened, nothing is under the temporary name.
LEMMA OpenFailsInv ==
  ASSUME IInv, NEW w \in Writers, OpenFails(w)
  PROVE  IInv'
<1> USE DEF OpenFails, Goto
<1>1. PICK t \in Names : /\ Unused(t) /\ file[t] = None
                         /\ job' = [job EXCEPT ![w].tmp = t]
  OBVIOUS
<1>2. TypeOK'
  BY <1>1 DEF IInv, TypeOK, Steps
<1>3. JobValid(w)'
  BY <1>1 DEF IInv, TypeOK, JobValid
<1>4. loc[w] = None
  BY DEF IInv, JobValid
<1>5. TmpContent(w)' /\ DestPresent(w)'
  BY <1>1, <1>4 DEF IInv, TypeOK, TmpContent, DestPresent
<1>6. job'[w].tmp = t /\ \A v \in Writers : job[v].tmp # t
  BY <1>1 DEF IInv, TypeOK, Unused
<1> QED BY <1>1, <1>2, <1>3, <1>5, <1>6, OwnStep DEF IInv, TypeOK

\* While a writer works on a temporary file, no other writer has its name.
LEMMA OwnTmp ==
  ASSUME IInv, NEW w \in Writers,
         pc[w] \in {"write", "close", "mkdir", "rename", "replace", "discard"}
  PROVE  /\ job[w].obj \in Objects
         /\ job[w].tmp \in Names /\ job[w].tmp \in Paths
         /\ job[w].tmp # None
         /\ \A v \in Writers \ {w} : job[v].tmp # job[w].tmp
<1>1. job[w].tmp \in Names /\ job[w].obj \in Objects
  BY DEF IInv, JobValid
<1> QED BY <1>1, NoneFacts DEF IInv, TmpsDistinct, Paths

\* Only the writer's own, blank file gets its object's bytes.
LEMMA WriteInv ==
  ASSUME IInv, NEW w \in Writers, Write(w)
  PROVE  IInv'
<1> USE DEF Write, Goto
<1>1. /\ job[w].obj \in Objects /\ job[w].tmp \in Names /\ job[w].tmp \in Paths
      /\ \A v \in Writers \ {w} : job[v].tmp # job[w].tmp
  BY OwnTmp
<1>2. CASE loc[w] = None
  <2>1. TypeOK'
    BY <1>2 DEF IInv, TypeOK, Steps
  <2>2. JobValid(w)' /\ TmpContent(w)' /\ DestPresent(w)'
    BY <1>2 DEF IInv, TypeOK, JobValid, TmpContent, DestPresent
  <2> QED BY <1>1, <1>2, <2>1, <2>2, OwnStep DEF IInv, TypeOK
<1>3. CASE loc[w] # None
  <2> DEFINE partial == [data |-> {job[w].obj} \ Empty, whole |-> FALSE]
  <2>1. loc[w] = job[w].tmp
    BY <1>3 DEF IInv, JobValid
  <2>2. file[job[w].tmp] = Blank
    BY <1>3 DEF IInv, TmpContent
  <2>3. file' = [file EXCEPT ![job[w].tmp] = partial]
    BY <1>3, <2>1, <2>2 DEF Blank
  <2>4. partial \in Content
    BY <1>1 DEF Content
  <2>5. TypeOK'
    BY <1>1, <2>3, <2>4 DEF IInv, TypeOK, Steps
  <2>6. JobValid(w)'
    BY DEF IInv, TypeOK, JobValid
  <2>7. TmpContent(w)' /\ DestPresent(w)'
    BY <1>1, <1>3, <2>3 DEF IInv, TypeOK, TmpContent, DestPresent
  <2> QED BY <1>1, <2>3, <2>5, <2>6, <2>7, OwnStep DEF IInv, TypeOK
<1> QED BY <1>2, <1>3

\* Closing completes the image in the writer's own file.
LEMMA CloseInv ==
  ASSUME IInv, NEW w \in Writers, Close(w)
  PROVE  IInv'
<1> USE DEF Close, Goto
<1>1. /\ job[w].obj \in Objects /\ job[w].tmp \in Names /\ job[w].tmp \in Paths
      /\ \A v \in Writers \ {w} : job[v].tmp # job[w].tmp
  BY OwnTmp
<1>2. JobValid(w)' /\ DestPresent(w)'
  BY DEF IInv, TypeOK, JobValid, DestPresent
<1>3. CASE loc[w] = None
  <2>1. TypeOK'
    BY <1>3 DEF IInv, TypeOK, Steps
  <2>2. TmpContent(w)'
    BY <1>3 DEF IInv, TypeOK, TmpContent
  <2> QED BY <1>1, <1>2, <1>3, <2>1, <2>2, OwnStep DEF IInv, TypeOK
<1>4. CASE loc[w] # None
  <2>1. loc[w] = job[w].tmp
    BY <1>4 DEF IInv, JobValid
  <2>2. file[job[w].tmp] = [data |-> {job[w].obj} \ Empty, whole |-> FALSE]
    BY <1>4 DEF IInv, TmpContent
  <2>3. file' = [file EXCEPT ![job[w].tmp] = Image(job[w].obj)]
    BY <1>4, <2>1, <2>2 DEF Image
  <2>4. TypeOK'
    BY <1>1, <2>3, ContentFacts DEF IInv, TypeOK, Steps
  <2>5. TmpContent(w)'
    BY <1>1, <2>3 DEF IInv, TypeOK, TmpContent
  <2> QED BY <1>1, <1>2, <2>3, <2>4, <2>5, OwnStep DEF IInv, TypeOK
<1> QED BY <1>3, <1>4

\* Making a directory touches no file.
LEMMA MakeDirInv ==
  ASSUME IInv, NEW w \in Writers, MakeDir(w)
  PROVE  IInv'
<1> USE DEF MakeDir, Goto
<1>1. /\ job[w].obj \in Objects /\ job[w].tmp \in Names /\ job[w].tmp \in Paths
      /\ \A v \in Writers \ {w} : job[v].tmp # job[w].tmp
  BY OwnTmp
<1>2. TypeOK'
  <2>1. PrefixOf[Dest(w)] \in Prefixes
    BY <1>1, DestFacts, PathAssumption
  <2> QED BY <2>1 DEF IInv, TypeOK, Steps
<1>3. JobValid(w)' /\ TmpContent(w)' /\ DestPresent(w)'
  BY DEF IInv, TypeOK, JobValid, TmpContent, DestPresent
<1> QED BY <1>1, <1>2, <1>3, OwnStep DEF IInv, TypeOK

\* The temporary file is dropped only when the object is there.
LEMMA CheckTargetInv ==
  ASSUME IInv, NEW w \in Writers, CheckTarget(w)
  PROVE  IInv'
<1> USE DEF CheckTarget, Goto
<1>1. /\ job[w].obj \in Objects /\ job[w].tmp \in Names /\ job[w].tmp \in Paths
      /\ \A v \in Writers \ {w} : job[v].tmp # job[w].tmp
  BY OwnTmp
<1>2. TypeOK'
  BY DEF IInv, TypeOK, Steps
<1>3. JobValid(w)' /\ TmpContent(w)'
  BY DEF IInv, TypeOK, JobValid, TmpContent
<1>4. DestPresent(w)'
  BY DEF IInv, TypeOK, DestPresent, Dest
<1> QED BY <1>1, <1>2, <1>3, <1>4, OwnStep DEF IInv, TypeOK

\* Writers have no file open outside of write and close, and never under a
\* name that another writer works on: moving a temporary file moves no one.
LEMMA NoneFollows ==
  ASSUME IInv, NEW w \in Writers, pc[w] \in {"replace", "discard"},
         NEW to \in Keys \cup {None}
  PROVE  Followed(job[w].tmp, to) = loc
<1>1. ASSUME NEW v \in Writers
      PROVE  loc[v] # job[w].tmp /\ (loc[v] = to => loc[v] = None)
  <2>1. loc[v] # None => loc[v] = job[v].tmp /\ loc[v] \in Names /\ v # w
    BY DEF IInv, JobValid
  <2>2. job[w].tmp # None /\ (v # w => job[v].tmp # job[w].tmp)
    BY OwnTmp
  <2> QED BY <2>1, <2>2, PathAssumption
<1>2. loc = [v \in Writers |-> loc[v]]
  BY DEF IInv, TypeOK
<1> QED BY <1>1, <1>2 DEF Followed

\* Removing the temporary file touches no stored one.
LEMMA DiscardInv ==
  ASSUME IInv, NEW w \in Writers, Discard(w)
  PROVE  IInv'
<1> USE DEF Discard, Goto
<1>1. /\ job[w].obj \in Objects /\ job[w].tmp \in Names /\ job[w].tmp \in Paths
      /\ \A v \in Writers \ {w} : job[v].tmp # job[w].tmp
  BY OwnTmp
<1>2. loc' = loc
  BY NoneFollows
<1>3. TypeOK'
  BY <1>2 DEF IInv, TypeOK, Steps
<1>4. JobValid(w)' /\ TmpContent(w)'
  BY <1>2 DEF IInv, TypeOK, JobValid, TmpContent
<1>5. DestPresent(w)'
  <2>1. Dest(w) \in Keys /\ Dest(w) # job[w].tmp
    BY <1>1, DestFacts, PathAssumption
  <2>2. file'[Dest(w)] # None
    BY <2>1 DEF IInv, TypeOK, DestPresent, Paths
  <2> QED BY <2>2 DEF DestPresent, Dest
<1> QED BY <1>1, <1>2, <1>3, <1>4, <1>5, OwnStep DEF IInv, TypeOK

\* What rename(2) does when the file can be moved: the destination has the
\* image of the writer's object, and had no other one if it was there.
LEMMA RenameEffect ==
  ASSUME IInv, NEW w \in Writers, Rename(w)
  PROVE  /\ Dest(w) \in Keys
         /\ file'[Dest(w)] = Image(job[w].obj)
         /\ file[Dest(w)] \in {None, Image(job[w].obj)}
         /\ file'[job[w].tmp] = None
         /\ \A p \in Paths : p # Dest(w) /\ p # job[w].tmp => file'[p] = file[p]
<1> USE DEF Rename
<1>1. /\ job[w].obj \in Objects /\ job[w].tmp \in Names /\ job[w].tmp \in Paths
  BY OwnTmp
<1>2. Dest(w) \in Keys /\ Dest(w) \in KeysOf(job[w].obj)
      /\ Dest(w) # job[w].tmp /\ Dest(w) \in Paths
  BY <1>1, DestFacts, PathAssumption DEF Paths
<1>3. file[job[w].tmp] = Image(job[w].obj)
  BY DEF CanRename, IInv, TmpContent
<1>4. ASSUME file[Dest(w)] # None
      PROVE  file[Dest(w)] = Image(job[w].obj)
  <2>1. PICK o \in Objects : file[Dest(w)] = Image(o) /\ Dest(w) \in KeysOf(o)
    BY <1>2, <1>4 DEF IInv, StoredUnderOwnKey
  <2> QED BY <1>1, <1>2, <2>1, SameKeySameImage
<1> QED BY <1>1, <1>2, <1>3, <1>4 DEF IInv, TypeOK

\* A rename stores a complete image, or replaces it by the same one.
LEMMA RenameInv ==
  ASSUME IInv, NEW w \in Writers, Rename(w)
  PROVE  IInv'
<1> USE DEF Rename, Goto
<1>1. /\ job[w].obj \in Objects /\ job[w].tmp \in Names /\ job[w].tmp \in Paths
      /\ \A v \in Writers \ {w} : job[v].tmp # job[w].tmp
  BY OwnTmp
<1>2. Dest(w) \in Keys /\ Dest(w) \in KeysOf(job[w].obj)
  BY <1>1, DestFacts
<1>3. loc' = loc
  BY <1>2, NoneFollows
<1>4. \A k \in Keys : k # Dest(w) => file'[k] = file[k]
  BY <1>1, RenameEffect, PathAssumption DEF Paths
<1>5. \A k \in Keys : file[k] # None => file'[k] = file[k]
  BY <1>4, RenameEffect
<1>6. file'[Dest(w)] # None
  BY <1>1, RenameEffect, ContentFacts, NoneFacts
<1>7. TypeOK'
  BY <1>1, <1>2, <1>3 DEF IInv, TypeOK, Steps, Paths
<1>8. TmpsDistinct'
  BY DEF IInv, TmpsDistinct
<1>9. ASSUME NEW v \in Writers
      PROVE  JobValid(v)' /\ TmpContent(v)' /\ DestPresent(v)'
  <2>1. CASE v = w
    <3>1. JobValid(w)' /\ TmpContent(w)'
      BY <1>3 DEF IInv, TypeOK, JobValid, TmpContent
    <3>2. DestPresent(w)'
      BY <1>6 DEF DestPresent, Dest
    <3> QED BY <2>1, <3>1, <3>2
  <2>2. CASE v # w
    <3>1. job[v].tmp \in Names => file'[job[v].tmp] = file[job[v].tmp]
      BY <1>1, <1>2, <2>2, RenameEffect, PathAssumption DEF Paths
    <3>2. \A k \in Keys : file[k] # None => file'[k] # None
      BY <1>5
    <3> QED BY <1>3, <2>2, <3>1, <3>2, OtherWriter DEF IInv, TypeOK
  <2> QED BY <2>1, <2>2
<1>10. StoredUnderOwnKey'
  <2> SUFFICES ASSUME NEW k \in Keys, file'[k] # None
               PROVE  \E o \in Objects : file'[k] = Image(o) /\ k \in KeysOf(o)
    BY DEF StoredUnderOwnKey
  <2>1. CASE k = Dest(w)
    BY <1>1, <1>2, <2>1, RenameEffect
  <2>2. CASE k # Dest(w)
    BY <1>4, <2>2 DEF IInv, StoredUnderOwnKey
  <2> QED BY <2>1, <2>2
<1>11. AckedPresent'
  BY <1>5 DEF IInv, TypeOK, AckedPresent
<1>12. AccessorReads'
  <2> SUFFICES ASSUME NEW r \in Readers, view[r].key # None
               PROVE  /\ file'[view[r].key] # None
                      /\ view[r].image \in {None, file'[view[r].key]}
    BY DEF AccessorReads
  <2>1. view[r].key \in Keys
    BY DEF IInv, TypeOK
  <2> QED BY <1>5, <2>1 DEF IInv, AccessorReads
<1> QED BY <1>7, <1>8, <1>9, <1>10, <1>11, <1>12 DEF IInv

\* Returning acknowledges a key whose file is there.
LEMMA ReturnInv ==
  ASSUME IInv, NEW w \in Writers, Return(w)
  PROVE  IInv'
<1> USE DEF Return, Leave, Goto
<1>1. Dest(w) \in Keys /\ file[Dest(w)] # None
  BY DestFacts DEF IInv, JobValid, DestPresent
<1>2. TypeOK'
  BY <1>1 DEF IInv, TypeOK, Steps, NoJob
<1>3. TmpsDistinct'
  BY NoneFacts DEF IInv, TypeOK, TmpsDistinct, NoJob
<1>4. ASSUME NEW v \in Writers
      PROVE  JobValid(v)' /\ TmpContent(v)' /\ DestPresent(v)'
  <2>1. CASE v = w
    BY <2>1 DEF IInv, TypeOK, JobValid, TmpContent, DestPresent
  <2>2. CASE v # w
    BY <2>2, OtherWriter DEF IInv, TypeOK
  <2> QED BY <2>1, <2>2
<1>5. StoredUnderOwnKey' /\ AckedPresent' /\ AccessorReads'
  BY <1>1 DEF IInv, StoredUnderOwnKey, AckedPresent, AccessorReads
<1> QED BY <1>2, <1>3, <1>4, <1>5 DEF IInv

\* Readers change nothing but their own accessors.
LEMMA ReaderInv ==
  ASSUME IInv, NEW r \in Readers, Find(r) \/ Read(r) \/ Release(r)
  PROVE  IInv'
<1>1. UNCHANGED <<file, dirs, pc, job, loc, acked>>
  BY DEF Find, Read, Release
<1>2. AccessorReads' /\ view' \in [Readers -> [key : Keys \cup {None},
                                               image : Content \cup {None}]]
  <2>1. CASE Find(r)
    BY <1>1, <2>1 DEF Find, IInv, TypeOK, AccessorReads
  <2>2. CASE Read(r)
    <3>1. view[r].key \in Keys /\ file[view[r].key] \in Content \cup {None}
      BY <2>2 DEF Read, IInv, TypeOK, Paths
    <3> QED BY <1>1, <2>2, <3>1 DEF Read, IInv, TypeOK, AccessorReads
  <2>3. CASE Release(r)
    BY <1>1, <2>3 DEF Release, NoView, IInv, TypeOK, AccessorReads
  <2> QED BY <2>1, <2>2, <2>3
<1>3. TypeOK'
  BY <1>1, <1>2 DEF IInv, TypeOK
<1>4. ASSUME NEW v \in Writers
      PROVE  JobValid(v)' /\ TmpContent(v)' /\ DestPresent(v)'
  BY <1>1, OtherWriter
<1> QED BY <1>1, <1>2, <1>3, <1>4
        DEF IInv, TmpsDistinct, StoredUnderOwnKey, AckedPresent

-----------------------------------------------------------------------------
(* The theorems.                                                           *)

\* Every step preserves the inductive invariant.
LEMMA NextInv ==
  ASSUME CleanWrites, IInv, [Next]_vars
  PROVE  IInv'
<1>1. CASE UNCHANGED vars
  BY <1>1 DEF vars, IInv, TypeOK, TmpsDistinct, JobValid, TmpContent,
              DestPresent, Dest, StoredUnderOwnKey, AckedPresent, AccessorReads
<1>2. ASSUME NEW w \in Writers, Start(w)
      PROVE  IInv'
  BY <1>2, StartInv
<1>3. ASSUME NEW w \in Writers, Progress(w)
      PROVE  IInv'
  <2>1. CASE Lookup(w)
    BY <2>1, LookupInv
  <2>2. CASE OpenTmp(w)
    BY <2>2, OpenTmpInv
  <2>3. CASE Write(w)
    BY <2>3, WriteInv
  <2>4. CASE Close(w)
    BY <2>4, CloseInv
  <2>5. CASE AssertFails(w)
    BY <2>5, LeaveInv DEF AssertFails
  <2>6. CASE MakeDir(w)
    BY <2>6, MakeDirInv
  <2>7. CASE CheckTarget(w)
    BY <2>7, CheckTargetInv
  <2>8. CASE Rename(w)
    BY <2>8, RenameInv
  <2>9. CASE RenameFails(w)
    BY <2>9, LeaveInv DEF RenameFails
  <2>10. CASE Discard(w)
    BY <2>10, DiscardInv
  <2>11. CASE Return(w)
    BY <2>11, ReturnInv
  <2> QED BY <1>3, <2>1, <2>2, <2>3, <2>4, <2>5, <2>6, <2>7, <2>8, <2>9,
             <2>10, <2>11 DEF Progress
<1>4. ASSUME NEW w \in Writers, Failure(w)
      PROVE  IInv'
  <2>1. CASE OpenFails(w)
    BY <2>1, OpenFailsInv
  <2>2. CASE CloseShort(w)
    BY <2>2 DEF CloseShort, CleanWrites
  <2>3. CASE MakeDirFails(w)
    BY <2>3, LeaveInv DEF MakeDirFails
  <2>4. CASE Crash(w)
    BY <2>4, LeaveInv DEF Crash
  <2> QED BY <1>4, <2>1, <2>2, <2>3, <2>4 DEF Failure
<1>5. ASSUME NEW r \in Readers, Find(r) \/ Read(r) \/ Release(r)
      PROVE  IInv'
  BY <1>5, ReaderInv
<1> QED BY <1>1, <1>2, <1>3, <1>4, <1>5 DEF Next

\* IInv is an invariant of the loose database.
THEOREM Invariance == ASSUME CleanWrites PROVE Spec => []IInv
<1>1. Init => IInv
  BY InitInv
<1>2. IInv /\ [Next]_vars => IInv'
  BY NextInv
<1> QED BY <1>1, <1>2, PTL DEF Spec

\* The variables keep their types.
THEOREM TypeCorrect == ASSUME CleanWrites PROVE Spec => []TypeOK
<1>1. IInv => TypeOK
  BY DEF IInv
<1> QED BY <1>1, Invariance, PTL

\* No partial, mixed or misnamed file is ever visible, for any number of
\* writers that race, crash and fail to open files or make directories.
THEOREM StoredCorrect == ASSUME CleanWrites PROVE Spec => []StoredUnderOwnKey
<1>1. IInv => StoredUnderOwnKey
  BY DEF IInv
<1> QED BY <1>1, Invariance, PTL

\* The comment by which move_tmp_to_final ignores an existing file is true.
THEOREM DiscardSafe == ASSUME CleanWrites PROVE Spec => []SameHashSameContent
<1>1. IInv => SameHashSameContent
  <2> SUFFICES ASSUME IInv, NEW w \in Writers,
                      pc[w] = "discard", file[job[w].tmp] # None
               PROVE  file[Dest(w)] = file[job[w].tmp]
    BY DEF SameHashSameContent
  <2>1. job[w].obj \in Objects /\ file[job[w].tmp] = Image(job[w].obj)
    BY DEF IInv, JobValid, TmpContent
  <2>2. Dest(w) \in Keys /\ Dest(w) \in KeysOf(job[w].obj)
    BY <2>1, DestFacts
  <2>3. PICK o \in Objects : file[Dest(w)] = Image(o) /\ Dest(w) \in KeysOf(o)
    BY <2>2 DEF IInv, DestPresent, StoredUnderOwnKey
  <2> QED BY <2>1, <2>2, <2>3, SameKeySameImage
<1> QED BY <1>1, Invariance, PTL

\* An acknowledged object is there, and stays there.
THEOREM AckedStored == ASSUME CleanWrites PROVE Spec => []AckedPresent
<1>1. IInv => AckedPresent
  BY DEF IInv
<1> QED BY <1>1, Invariance, PTL

\* Accessors never dangle, and two reads of a key agree.
THEOREM AccessorsCorrect == ASSUME CleanWrites PROVE Spec => []AccessorReads
<1>1. IInv => AccessorReads
  BY DEF IInv
<1> QED BY <1>1, Invariance, PTL

\* A step other than a rename leaves the stored files as they are.
LEMMA StoredUnchanged ==
  ASSUME CleanWrites, IInv, NEW w \in Writers,
         Start(w) \/ Progress(w) \/ Failure(w), ~Rename(w)
  PROVE  /\ \A k \in Keys : file'[k] = file[k]
         /\ view' = view
         /\ Return(w) \/ acked' = acked
<1>1. view' = view /\ (Return(w) \/ acked' = acked)
  BY DEF Start, Progress, Failure, Lookup, OpenTmp, Write, Close, AssertFails,
         MakeDir, CheckTarget, Rename, RenameFails, Discard, Return,
         OpenFails, CloseShort, MakeDirFails, Crash
<1>2. ASSUME NEW k \in Keys
      PROVE  file'[k] = file[k]
  <2>1. CASE file' = file
    BY <2>1
  <2>2. CASE OpenTmp(w)
    BY <2>2, PathAssumption DEF OpenTmp, IInv, TypeOK
  <2>3. CASE Write(w) \/ Close(w)
    <3>1. loc[w] # None => loc[w] \in Names
      BY DEF IInv, JobValid
    <3>2. k # loc[w] \/ loc[w] = None
      BY <3>1, PathAssumption
    <3>3. CASE loc[w] = None
      BY <2>3, <3>3 DEF Write, Close
    <3>4. CASE loc[w] # None
      <4>1. PICK c : file' = [file EXCEPT ![loc[w]] = c]
        BY <2>3, <3>4 DEF Write, Close
      <4> QED BY <3>2, <3>4, <4>1 DEF IInv, TypeOK, Paths
    <3> QED BY <3>3, <3>4
  <2>4. CASE Discard(w)
    <3>1. job[w].tmp \in Names
      BY <2>4, OwnTmp DEF Discard
    <3> QED BY <2>4, <3>1, PathAssumption DEF Discard, IInv, TypeOK
  <2> QED BY <2>1, <2>2, <2>3, <2>4
          DEF Start, Progress, Failure, Lookup, AssertFails, MakeDir,
              CheckTarget, RenameFails, Return, OpenFails, CloseShort,
              MakeDirFails, Crash
<1> QED BY <1>1, <1>2

\* "Objects are always immutable": no step of any process changes or removes
\* a stored object.
THEOREM Immutable == ASSUME CleanWrites PROVE Spec => StoredForGood
<1>1. IInv /\ [Next]_vars =>
        [\A k \in Keys : file[k] # None => file'[k] = file[k]]_vars
  <2> SUFFICES ASSUME IInv, Next, NEW k \in Keys, file[k] # None
               PROVE  file'[k] = file[k]
    OBVIOUS
  <2>1. ASSUME NEW w \in Writers, Rename(w)
        PROVE  file'[k] = file[k]
    <3>1. job[w].tmp \in Names
      BY <2>1, OwnTmp DEF Rename
    <3> QED BY <2>1, <3>1, RenameEffect, PathAssumption DEF Paths
  <2>2. ASSUME NEW w \in Writers, Start(w) \/ Progress(w) \/ Failure(w), ~Rename(w)
        PROVE  file'[k] = file[k]
    BY <2>2, StoredUnchanged
  <2>3. ASSUME NEW r \in Readers, Find(r) \/ Read(r) \/ Release(r)
        PROVE  file'[k] = file[k]
    BY <2>3 DEF Find, Read, Release
  <2> QED BY <2>1, <2>2, <2>3 DEF Next
<1> QED BY <1>1, Invariance, PTL DEF Spec, StoredForGood

-----------------------------------------------------------------------------
(* The loose database implements the abstract object store.                *)

\* An object's image may be stored under the name of its final file.
LEMMA ImageFits ==
  ASSUME NEW o \in Objects, NEW k \in KeysOf(o)
  PROVE  Abs!Fits(k, Image(o))
BY DEF Abs!Fits

\* Initial states are initial states of the object store.
LEMMA InitRefines == Init => Abs!Init
<1> SUFFICES ASSUME Init PROVE Abs!Init
  OBVIOUS
<1>1. IInv
  BY InitInv
<1>2. acked = {} /\ view = [r \in Readers |-> NoView]
  BY DEF Init
<1>3. ASSUME NEW k \in Keys, file[k] # None
      PROVE  /\ file[k] \in {Image(o) : o \in Objects}
             /\ Abs!Fits(k, file[k])
  <2>1. PICK o \in Objects : file[k] = Image(o) /\ k \in KeysOf(o)
    BY <1>1, <1>3 DEF IInv, StoredUnderOwnKey
  <2> QED BY <2>1, ImageFits
<1> QED BY <1>2, <1>3 DEF Abs!Init, Abs!NoView, NoView

\* A rename publishes the object, or replaces a file by the same content.
LEMMA RenameRefines ==
  ASSUME IInv, NEW w \in Writers, Rename(w)
  PROVE  [Abs!Next]_(Abs!vars)
<1> DEFINE store == [k \in Keys |-> file[k]]
           img   == Image(job[w].obj)
<1>1. /\ job[w].obj \in Objects /\ job[w].tmp \in Names
  BY OwnTmp DEF Rename
<1>2. Dest(w) \in Keys /\ Dest(w) \in KeysOf(job[w].obj)
  BY <1>1, DestFacts
<1>3. \A k \in Keys : k # Dest(w) => file'[k] = file[k]
  BY <1>1, RenameEffect, PathAssumption DEF Paths
<1>4. UNCHANGED <<acked, view>>
  BY DEF Rename
<1>5. CASE file[Dest(w)] = None
  <2>1. store' = [store EXCEPT ![Dest(w)] = img]
    BY <1>2, <1>3, RenameEffect
  <2>2. PICK k \in Keys, v \in {Image(o) : o \in Objects} :
          k = Dest(w) /\ v = img
    BY <1>1, <1>2
  <2>3. Abs!Publish(k, v)
    BY <1>1, <1>2, <1>4, <1>5, <2>1, <2>2, ImageFits DEF Abs!Publish
  <2> QED BY <2>3 DEF Abs!Next
<1>6. CASE file[Dest(w)] # None
  <2>1. \A k \in Keys : file'[k] = file[k]
    BY <1>3, <1>6, RenameEffect
  <2> QED BY <1>4, <2>1 DEF Abs!vars
<1> QED BY <1>5, <1>6

\* Every step is a step of the object store, or none.
LEMMA NextRefines ==
  ASSUME CleanWrites, IInv, [Next]_vars
  PROVE  [Abs!Next]_(Abs!vars)
<1>1. CASE UNCHANGED vars
  BY <1>1 DEF vars, Abs!vars
<1>2. ASSUME NEW w \in Writers, Rename(w)
      PROVE  [Abs!Next]_(Abs!vars)
  BY <1>2, RenameRefines
<1>3. ASSUME NEW w \in Writers, Start(w) \/ Progress(w) \/ Failure(w), ~Rename(w)
      PROVE  [Abs!Next]_(Abs!vars)
  <2>1. (\A k \in Keys : file'[k] = file[k]) /\ view' = view
    BY <1>3, StoredUnchanged
  <2>2. CASE acked' = acked
    BY <2>1, <2>2 DEF Abs!vars
  <2>3. CASE Return(w)
    <3>1. Dest(w) \in Keys /\ file[Dest(w)] # None
      BY <2>3, DestFacts DEF Return, IInv, JobValid, DestPresent
    <3>2. Abs!Return(Dest(w))
      BY <2>1, <2>3, <3>1 DEF Return, Abs!Return
    <3> QED BY <3>1, <3>2 DEF Abs!Next
  <2> QED BY <1>3, <2>2, <2>3, StoredUnchanged
<1>4. ASSUME NEW r \in Readers, Find(r)
      PROVE  [Abs!Next]_(Abs!vars)
  <2>1. PICK k \in Keys :
          file[k] # None /\ view' = [view EXCEPT ![r] = [key |-> k, image |-> None]]
    BY <1>4 DEF Find
  <2>2. Abs!Find(r, k)
    BY <1>4, <2>1 DEF Find, Abs!Find
  <2> QED BY <2>2 DEF Abs!Next
<1>5. ASSUME NEW r \in Readers, Read(r)
      PROVE  [Abs!Next]_(Abs!vars)
  <2>1. view[r].key \in Keys
    BY <1>5 DEF Read, IInv, TypeOK
  <2>2. Abs!Read(r)
    BY <1>5, <2>1 DEF Read, Abs!Read
  <2> QED BY <2>2 DEF Abs!Next
<1>6. ASSUME NEW r \in Readers, Release(r)
      PROVE  [Abs!Next]_(Abs!vars)
  <2>1. Abs!Release(r)
    BY <1>6 DEF Release, NoView, Abs!Release, Abs!NoView
  <2> QED BY <2>1 DEF Abs!Next
<1> QED BY <1>1, <1>2, <1>3, <1>4, <1>5, <1>6 DEF Next

\* The loose database is an object store.
THEOREM Refinement == ASSUME CleanWrites PROVE Spec => AbsSpec
<1>1. Init => Abs!Init
  BY InitRefines
<1>2. IInv /\ [Next]_vars => [Abs!Next]_(Abs!vars)
  BY NextRefines
<1> QED BY <1>1, <1>2, Invariance, PTL DEF Spec, AbsSpec, Abs!Spec

-----------------------------------------------------------------------------
(* The directory of the loose database is a LooseTree.                     *)

\* Initial states are initial states of the tree.
LEMMA InitTree == Init => Tree!Init
<1> SUFFICES ASSUME Init PROVE Tree!Init
  OBVIOUS
<1>1. PICK S \in SUBSET Objects :
        /\ file = [p \in Paths |->
                     IF \E o \in S : HashOf[o] = p
                     THEN Image(CHOOSE o \in S : HashOf[o] = p) ELSE None]
        /\ dirs = {PrefixOf[HashOf[o]] : o \in S}
  BY DEF Init
<1>2. dirs \in SUBSET Prefixes
  BY <1>1, ObjectAssumption, PathAssumption
<1>3. ASSUME NEW k \in Keys, file[k] # None PROVE PrefixOf[k] \in dirs
  <2>1. \E o \in S : HashOf[o] = k
    BY <1>1, <1>3 DEF Paths
  <2> QED BY <1>1, <2>1
<1> QED BY <1>2, <1>3 DEF Tree!Init

\* A temporary file that is written or removed is no object's.
LEMMA TemporaryTree ==
  ASSUME IInv, NEW t \in Names, NEW c, file' = [file EXCEPT ![t] = c]
  PROVE  /\ {k \in Keys : file'[k] # None} = {k \in Keys : file[k] # None}
         /\ {u \in Names : file'[u] # None} =
              IF c # None THEN {u \in Names : file[u] # None} \cup {t}
                          ELSE {u \in Names : file[u] # None} \ {t}
<1>1. \A p \in Keys \cup Names : file'[p] = IF p = t THEN c ELSE file[p]
  BY DEF IInv, TypeOK, Paths
<1>2. t \notin Keys
  BY PathAssumption
<1> QED BY <1>1, <1>2

\* A rename is the publication of the temporary file.
LEMMA RenameTree ==
  ASSUME IInv, NEW w \in Writers, Rename(w)
  PROVE  Tree!Next
<1>1. /\ job[w].obj \in Objects /\ job[w].tmp \in Names
  BY OwnTmp DEF Rename
<1>2. Dest(w) \in Keys
  BY <1>1, DestFacts
<1>3. /\ file[job[w].tmp] # None /\ PrefixOf[Dest(w)] \in dirs /\ dirs' = dirs
  BY DEF Rename, CanRename
<1>4. /\ file'[Dest(w)] # None /\ file'[job[w].tmp] = None
      /\ \A p \in Paths \ {Dest(w), job[w].tmp} : file'[p] = file[p]
  BY <1>1, <1>2, <1>3, PathAssumption DEF Rename, IInv, TypeOK, Paths
<1>5. {k \in Keys : file'[k] # None} = {k \in Keys : file[k] # None} \cup {Dest(w)}
  BY <1>1, <1>2, <1>4, PathAssumption DEF Paths
<1>6. {t \in Names : file'[t] # None} = {t \in Names : file[t] # None} \ {job[w].tmp}
  BY <1>1, <1>2, <1>4, PathAssumption DEF Paths
<1>7. PICK t \in Names, k \in Keys : t = job[w].tmp /\ k = Dest(w)
  BY <1>1, <1>2
<1>8. Tree!Publish(t, k)
  BY <1>3, <1>5, <1>6, <1>7 DEF Tree!Publish
<1> QED BY <1>8 DEF Tree!Next

\* Every step is a step of the tree, or none.
LEMMA NextTree ==
  ASSUME CleanWrites, IInv, [Next]_vars
  PROVE  [Tree!Next]_(Tree!treeVars)
<1> USE DEF Tree!treeVars
<1>1. CASE UNCHANGED vars
  BY <1>1 DEF vars
<1>2. ASSUME NEW w \in Writers, Rename(w)
      PROVE  [Tree!Next]_(Tree!treeVars)
  BY <1>2, RenameTree
<1>3. ASSUME NEW w \in Writers, Start(w) \/ Progress(w) \/ Failure(w), ~Rename(w)
      PROVE  [Tree!Next]_(Tree!treeVars)
  <2>1. \A k \in Keys : file'[k] = file[k]
    BY <1>3, StoredUnchanged
  <2>2. CASE file' = file /\ dirs' = dirs
    BY <2>2
  <2>3. CASE MakeDir(w)
    <3>1. Dest(w) \in Keys /\ file' = file
      BY <2>3, DestFacts DEF MakeDir, IInv, JobValid
    <3>2. Tree!MakeDir(PrefixOf[Dest(w)])
      BY <2>3, <3>1 DEF MakeDir, Tree!MakeDir
    <3> QED BY <3>1, <3>2, PathAssumption DEF Tree!Next
  <2>4. CASE OpenTmp(w)
    <3>1. PICK t \in Names : file' = [file EXCEPT ![t] = Blank] /\ dirs' = dirs
      BY <2>4 DEF OpenTmp
    <3>2. Tree!MakeTemp(t)
      BY <3>1, TemporaryTree, NoneFacts, ContentFacts DEF Tree!MakeTemp
    <3> QED BY <3>2 DEF Tree!Next
  <2>5. CASE Write(w) \/ Close(w)
    <3>1. dirs' = dirs /\ (loc[w] = None => file' = file)
      BY <2>5 DEF Write, Close
    <3>2. CASE loc[w] # None
      <4>1. job[w].obj \in Objects /\ loc[w] \in Names /\ loc[w] = job[w].tmp
        BY <2>5, <3>2, OwnTmp DEF Write, Close, IInv, JobValid
      <4>2. file[loc[w]] \in Content
        <5>1. CASE Write(w)
          BY <3>2, <4>1, <5>1, ContentFacts DEF Write, IInv, TmpContent
        <5>2. CASE Close(w)
          <6>1. pc[w] = "close" /\ TmpContent(w)
            BY <5>2 DEF Close, IInv
          <6>2. file[loc[w]] = [data |-> {job[w].obj} \ Empty, whole |-> FALSE]
            BY <3>2, <4>1, <6>1 DEF TmpContent
          <6> QED BY <4>1, <6>2 DEF Content
        <5> QED BY <2>5, <5>1, <5>2
      <4>3. PICK c \in Content : file' = [file EXCEPT ![loc[w]] = c]
        BY <2>5, <3>2, <4>1, <4>2 DEF Write, Close, IInv, TypeOK, Content, Paths
      <4> QED BY <3>1, <4>1, <4>2, <4>3, TemporaryTree, NoneFacts
    <3> QED BY <3>1, <3>2, <2>2
  <2>6. CASE Discard(w)
    <3>1. PICK t \in Names : t = job[w].tmp
      BY <2>6, OwnTmp DEF Discard
    <3>2. Tree!RemoveTemp(t)
      BY <2>6, <3>1, TemporaryTree DEF Discard, Tree!RemoveTemp
    <3> QED BY <3>1, <3>2 DEF Tree!Next
  <2> QED BY <1>3, <2>2, <2>3, <2>4, <2>5, <2>6
          DEF Start, Progress, Failure, Lookup, AssertFails,
              CheckTarget, RenameFails, Return, OpenFails, CloseShort,
              MakeDirFails, Crash
<1>4. ASSUME NEW r \in Readers, Find(r) \/ Read(r) \/ Release(r)
      PROVE  file' = file /\ dirs' = dirs
  BY <1>4 DEF Find, Read, Release
<1> QED BY <1>1, <1>2, <1>3, <1>4 DEF Next

\* What LooseIterator walks over is what insertions make.
THEOREM TreeRefinement == ASSUME CleanWrites PROVE Spec => TreeSpec
<1>1. Init => Tree!Init
  BY InitTree
<1>2. IInv /\ [Next]_vars => [Tree!Next]_(Tree!treeVars)
  BY NextTree
<1> QED BY <1>1, <1>2, Invariance, PTL DEF Spec, TreeSpec, Tree!Spec
-----------------------------------------------------------------------------
(* No temporary file is left behind, unless a process dies, a directory    *)
(* cannot be made, a write falls short or an object is empty.              *)

\* The directory that a file is about to be moved into is there.
Made(w) == pc[w] \in {"rename", "replace", "discard"} => PrefixOf[Dest(w)] \in dirs

\* A writer that could forget its temporary name has no file of that name.
Cleared(w) ==
  /\ pc[w] \in {"idle", "lookup", "open"} => job[w].tmp = None
  /\ pc[w] = "return" /\ job[w].tmp # None => file[job[w].tmp] = None

TInv == TemporariesOwned /\ \A w \in Writers : Made(w) /\ Cleared(w)

\* A step of one writer, which may change its own temporary file only, and
\* has none of that name when it gives the name up.
LEMMA TmpStep ==
  ASSUME IInv, TInv, NEW w \in Writers,
         \A v \in Writers \ {w} : pc'[v] = pc[v] /\ job'[v] = job[v],
         dirs \subseteq dirs',
         \A t \in Names :
           t # job[w].tmp /\ t # job'[w].tmp => file'[t] = file[t],
         job[w].tmp \in Names /\ job'[w].tmp # job[w].tmp =>
           file'[job[w].tmp] = None,
         job'[w].tmp # None =>
           \A v \in Writers \ {w} : job[v].tmp # job'[w].tmp,
         Made(w)', Cleared(w)'
  PROVE  TInv'
<1>1. TemporariesOwned'
  <2> SUFFICES ASSUME NEW t \in Names, file'[t] # None
               PROVE  \E v \in Writers : job'[v].tmp = t
    BY DEF TemporariesOwned
  <2>1. CASE t = job'[w].tmp
    BY <2>1
  <2>2. CASE t # job'[w].tmp
    <3>1. t # job[w].tmp /\ file[t] # None
      BY <2>2
    <3>2. PICK v \in Writers : job[v].tmp = t
      BY <3>1 DEF TInv, TemporariesOwned
    <3> QED BY <3>1, <3>2
  <2> QED BY <2>1, <2>2
<1>2. ASSUME NEW v \in Writers, v # w
      PROVE  Made(v)' /\ Cleared(v)'
  <2>1. Made(v)'
    BY <1>2 DEF TInv, Made, Dest
  <2>2. ASSUME job[v].tmp # None
        PROVE  file'[job[v].tmp] = file[job[v].tmp]
    <3>1. job[v].tmp \in Names
      BY <2>2 DEF IInv, TypeOK
    <3>2. job[v].tmp # job[w].tmp
      BY <1>2, <2>2 DEF IInv, TmpsDistinct
    <3>3. job[v].tmp # job'[w].tmp
      BY <1>2, <2>2
    <3> QED BY <3>1, <3>2, <3>3
  <2>3. Cleared(v)'
    BY <1>2, <2>2 DEF TInv, Cleared
  <2> QED BY <2>1, <2>3
<1> QED BY <1>1, <1>2 DEF TInv

\* The temporary name of a writer is its own.
LEMMA TmpOwn ==
  ASSUME IInv, NEW w \in Writers, job[w].tmp # None
  PROVE  \A v \in Writers \ {w} : job[v].tmp # job[w].tmp
BY DEF IInv, TmpsDistinct

\* A call that ends with its temporary file gone leaves none.
LEMMA LeaveTmp ==
  ASSUME IInv, TInv, NEW w \in Writers, Leave(w), UNCHANGED <<file, dirs>>,
         job[w].tmp # None => file[job[w].tmp] = None
  PROVE  TInv'
<1> USE DEF Leave, Goto
<1>1. job'[w].tmp = None /\ pc'[w] = "idle"
  BY DEF IInv, TypeOK, NoJob
<1>2. Made(w)' /\ Cleared(w)'
  BY <1>1 DEF Made, Cleared
<1>3. \A v \in Writers \ {w} : pc'[v] = pc[v] /\ job'[v] = job[v]
  BY DEF IInv, TypeOK
<1> QED BY <1>1, <1>2, <1>3, NoneFacts, TmpStep

\* A writer that is at work on its temporary file keeps the name.
LEMMA WorkTmp ==
  ASSUME IInv, TInv, NEW w \in Writers, UNCHANGED <<job, dirs>>,
         NEW step, Goto(w, step), step \in {"close", "mkdir"},
         \A t \in Names : t # job[w].tmp => file'[t] = file[t]
  PROVE  TInv'
<1>1. pc'[w] = step
  BY DEF IInv, TypeOK, Goto
<1>2. Made(w)' /\ Cleared(w)'
  BY <1>1 DEF Made, Cleared
<1>3. \A v \in Writers \ {w} : pc'[v] = pc[v] /\ job'[v] = job[v]
  BY DEF IInv, TypeOK, Goto
<1> QED BY <1>2, <1>3, TmpOwn, TmpStep

\* Before the temporary file there is none to forget.
LEMMA OpeningTmp ==
  ASSUME CleanWrites, IInv, TInv, NEW w \in Writers,
         Start(w) \/ Lookup(w) \/ OpenTmp(w) \/ OpenFails(w)
  PROVE  TInv'
<1>1. job[w].tmp = None
  BY DEF Start, Lookup, OpenTmp, OpenFails, TInv, Cleared
<1>2. \A v \in Writers \ {w} : pc'[v] = pc[v] /\ job'[v] = job[v]
  BY DEF IInv, TypeOK, Start, Lookup, OpenTmp, OpenFails, Goto
<1>3. CASE Start(w) \/ Lookup(w)
  <2>1. job'[w].tmp = None /\ UNCHANGED <<file, dirs>>
    BY <1>1, <1>3 DEF IInv, TypeOK, Start, Lookup
  <2>2. pc'[w] \in {"lookup", "open", "return"}
    BY <1>3 DEF IInv, TypeOK, Start, Lookup, Goto
  <2>3. Made(w)' /\ Cleared(w)'
    BY <2>1, <2>2 DEF Made, Cleared
  <2> QED BY <1>1, <1>2, <2>1, <2>3, NoneFacts, TmpStep
<1>4. CASE OpenTmp(w) \/ OpenFails(w)
  <2>1. PICK t \in Names :
          /\ Unused(t)
          /\ job' = [job EXCEPT ![w].tmp = t]
          /\ \A p \in Names : p # t => file'[p] = file[p]
    <3>1. \A p \in Names : p \in DOMAIN file
      BY DEF IInv, TypeOK, Paths
    <3>2. CASE OpenTmp(w)
      <4>1. PICK t \in Names :
              /\ Unused(t)
              /\ job' = [job EXCEPT ![w].tmp = t]
              /\ file' = [file EXCEPT ![t] = Blank]
        BY <3>2 DEF OpenTmp, CleanWrites
      <4>2. \A p \in Names : p # t => file'[p] = file[p]
        BY <3>1, <4>1
      <4> QED BY <4>1, <4>2
    <3>3. CASE OpenFails(w)
      BY <3>3 DEF OpenFails
    <3> QED BY <1>4, <3>2, <3>3
  <2>2. pc'[w] = "write" /\ job'[w].tmp = t /\ dirs' = dirs
    BY <1>4, <2>1 DEF IInv, TypeOK, OpenTmp, OpenFails, Goto
  <2>3. Made(w)' /\ Cleared(w)'
    BY <2>2 DEF Made, Cleared
  <2>4. \A v \in Writers : job[v].tmp # t
    BY <2>1 DEF Unused
  <2> QED BY <1>1, <1>2, <2>1, <2>2, <2>3, <2>4, NoneFacts, TmpStep
<1> QED BY <1>3, <1>4

\* Directories are only added, and the one that is needed is.
LEMMA MovingTmp ==
  ASSUME IInv, TInv, NEW w \in Writers, MakeDir(w) \/ CheckTarget(w)
  PROVE  TInv'
<1>1. UNCHANGED <<job, file>> /\ dirs \subseteq dirs'
  BY DEF MakeDir, CheckTarget
<1>2. pc'[w] \in {"rename", "discard", "replace"}
  BY DEF IInv, TypeOK, MakeDir, CheckTarget, Goto
<1>3. Made(w)'
  BY <1>1 DEF MakeDir, CheckTarget, TInv, Made, Dest
<1>4. Cleared(w)'
  BY <1>2 DEF Cleared
<1>5. \A v \in Writers \ {w} : pc'[v] = pc[v] /\ job'[v] = job[v]
  BY <1>1 DEF IInv, TypeOK, MakeDir, CheckTarget, Goto
<1> QED BY <1>1, <1>3, <1>4, <1>5, TmpOwn, TmpStep

\* Whether it is moved or removed, the temporary file is gone before return.
LEMMA GoneTmp ==
  ASSUME IInv, TInv, NEW w \in Writers, Rename(w) \/ Discard(w)
  PROVE  TInv'
<1>1. job[w].obj \in Objects /\ job[w].tmp \in Names /\ job[w].tmp \in Paths
  BY OwnTmp DEF Rename, Discard
<1>2. Dest(w) \in Keys
  BY <1>1, DestFacts
<1>3. /\ file'[job[w].tmp] = None
      /\ \A t \in Names : t # job[w].tmp => file'[t] = file[t]
  <2>1. CASE Rename(w)
    BY <1>1, <1>2, <2>1, RenameEffect, PathAssumption DEF Paths
  <2>2. CASE Discard(w)
    BY <1>1, <2>2 DEF IInv, TypeOK, Discard, Paths
  <2> QED BY <2>1, <2>2
<1>4. UNCHANGED <<job, dirs>> /\ pc'[w] = "return"
  BY DEF IInv, TypeOK, Rename, Discard, Goto
<1>5. Made(w)' /\ Cleared(w)'
  BY <1>3, <1>4 DEF Made, Cleared
<1>6. \A v \in Writers \ {w} : pc'[v] = pc[v] /\ job'[v] = job[v]
  BY <1>4 DEF IInv, TypeOK, Rename, Discard, Goto
<1> QED BY <1>3, <1>4, <1>5, <1>6, TmpOwn, TmpStep

\* A rename that fails with the directory there has no file to move.
LEMMA LeavingTmp ==
  ASSUME Empty = {}, IInv, TInv, NEW w \in Writers,
         AssertFails(w) \/ RenameFails(w) \/ Return(w)
  PROVE  TInv'
<1>1. Leave(w) /\ UNCHANGED <<file, dirs>>
  BY DEF AssertFails, RenameFails, Return
<1>2. ~AssertFails(w)
  <2> SUFFICES ASSUME pc[w] = "mkdir", job[w].kind = "object"
               PROVE  Dest(w) # NullKey
    BY DEF AssertFails, HashAsserted
  <2>1. job[w].obj \in Objects
    BY DEF IInv, JobValid
  <2> QED BY <2>1, ObjectAssumption DEF Dest, StreamKey
<1>3. job[w].tmp # None => file[job[w].tmp] = None
  BY <1>2 DEF RenameFails, CanRename, Return, TInv, Made, Cleared
<1> QED BY <1>1, <1>3, LeaveTmp

\* Every step leaves the temporary files to writers that are at work.
LEMMA NextTmp ==
  ASSUME Faults \subseteq {"open"}, Empty = {}, IInv, TInv, [Next]_vars
  PROVE  TInv'
<1>1. CleanWrites
  BY DEF CleanWrites
<1>2. CASE UNCHANGED vars
  BY <1>2 DEF vars, TInv, TemporariesOwned, Made, Cleared, Dest
<1>3. ASSUME NEW w \in Writers, Start(w) \/ Lookup(w) \/ OpenTmp(w)
      PROVE  TInv'
  BY <1>1, <1>3, OpeningTmp
<1>4. ASSUME NEW w \in Writers, Write(w) \/ Close(w)
      PROVE  TInv'
  <2>1. loc[w] # None => loc[w] = job[w].tmp
    BY DEF IInv, JobValid
  <2>2. \A t \in Names : t # job[w].tmp => file'[t] = file[t]
    <3>1. \A t \in Names : t \in DOMAIN file
      BY DEF IInv, TypeOK, Paths
    <3>2. \/ file' = file
          \/ \E c : file' = [file EXCEPT ![job[w].tmp] = c]
      BY <1>4, <2>1 DEF Write, Close
    <3> QED BY <3>1, <3>2
  <2> QED BY <1>4, <2>2, WorkTmp DEF Write, Close
<1>5. ASSUME NEW w \in Writers, MakeDir(w) \/ CheckTarget(w)
      PROVE  TInv'
  BY <1>5, MovingTmp
<1>6. ASSUME NEW w \in Writers, Rename(w) \/ Discard(w)
      PROVE  TInv'
  BY <1>6, GoneTmp
<1>7. ASSUME NEW w \in Writers, AssertFails(w) \/ RenameFails(w) \/ Return(w)
      PROVE  TInv'
  BY <1>7, LeavingTmp
<1>8. ASSUME NEW w \in Writers, Failure(w)
      PROVE  TInv'
  <2>1. OpenFails(w)
    BY <1>8 DEF Failure, CloseShort, MakeDirFails, Crash
  <2> QED BY <1>1, <2>1, OpeningTmp
<1>9. ASSUME NEW r \in Readers, Find(r) \/ Read(r) \/ Release(r)
      PROVE  TInv'
  BY <1>9 DEF Find, Read, Release, TInv, TemporariesOwned, Made, Cleared, Dest
<1> QED BY <1>2, <1>3, <1>4, <1>5, <1>6, <1>7, <1>8, <1>9 DEF Next, Progress

\* Every temporary file belongs to a writer that is at work, also if files
\* cannot be opened: whichever way an insertion ends, move_tmp_to_final has
\* moved or removed its file before.
THEOREM NothingLeft ==
  ASSUME Faults \subseteq {"open"}, Empty = {}
  PROVE  Spec => []TemporariesOwned
<1>1. CleanWrites
  BY DEF CleanWrites
<1>2. Init => TInv
  <2> SUFFICES ASSUME Init PROVE TInv
    OBVIOUS
  <2>1. /\ pc = [w \in Writers |-> "idle"]
        /\ job = [w \in Writers |-> NoJob]
    BY DEF Init
  <2>2. \A t \in Names : file[t] = None
    BY ObjectAssumption, PathAssumption DEF Init, Paths
  <2> QED BY <2>1, <2>2 DEF TInv, TemporariesOwned, Made, Cleared, NoJob
<1>3. IInv /\ TInv /\ [Next]_vars => TInv'
  BY NextTmp
<1>4. TInv => TemporariesOwned
  BY DEF TInv
<1>5. Spec => []IInv
  BY <1>1, Invariance
<1> QED BY <1>2, <1>3, <1>4, <1>5, PTL DEF Spec
=============================================================================
