----------------------------- MODULE LooseStore -----------------------------
(***************************************************************************)
(* The loose object database (gtl/db/odb_loose.hpp) over a file system     *)
(* that several writers and readers share.  An insertion writes a file     *)
(* with a temporary name into the root directory, closes it, makes the     *)
(* directory of the object's key and moves the file to its final name; a   *)
(* file that is already there is kept and the temporary one removed.       *)
(*                                                                         *)
(* A file is abstracted to the objects whose bytes were written into it    *)
(* and to whether its writing was completed.  The file system is external: *)
(* Faults names the failures that a run lets it have.                      *)
(***************************************************************************)
CONSTANTS
  Writers, Readers,  (* threads or processes                              *)
  Objects,           (* the objects that may be inserted                  *)
  Empty,             (* those that serialise to no byte: no header is written *)
  Keys, NullKey,     (* hashes, and the null hash                         *)
  HashOf,            (* the hash of an object's header and data           *)
  Prefixes, PrefixOf,(* directories, and the one a key's file is in       *)
  Names,             (* temporary file names                              *)
  Faults,            (* which of AllFaults the environment may cause      *)
  None

AllFaults == {"crash", "open", "mkdir", "short", "collide"}
Kinds == {"stream", "keyed", "object"}

Content == [data : SUBSET Objects, whole : BOOLEAN]
Paths   == Names \cup Keys

ASSUME ObjectAssumption ==
  /\ Empty \subseteq Objects
  /\ NullKey \in Keys
  /\ HashOf \in [Objects -> Keys \ {NullKey}]
  /\ \A o, p \in Objects : HashOf[o] = HashOf[p] => o = p
ASSUME PathAssumption ==
  /\ PrefixOf \in [Keys -> Prefixes]
  /\ Names \cap Keys = {}
ASSUME FaultAssumption == Faults \subseteq AllFaults
ASSUME NoneAssumption ==
  None \notin Objects \cup Kinds \cup Names \cup Keys \cup Content

VARIABLES
  file,   (* content of the file at each path, or None                    *)
  dirs,   (* key directories that exist                                   *)
  pc,     (* next step of each writer                                     *)
  job,    (* object, kind of insertion and temporary name of each writer  *)
  loc,    (* where the file a writer has open is now, None if it has none *)
  acked,  (* keys whose insertion has returned                            *)
  view    (* path held, and image read, by each reader's accessor         *)

vars == <<file, dirs, pc, job, loc, acked, view>>

Steps == {"idle", "lookup", "open", "write", "close", "mkdir", "rename",
          "replace", "discard", "return"}
NoJob  == [obj |-> None, kind |-> None, tmp |-> None]
NoView == [key |-> None, image |-> None]
Blank  == [data |-> {}, whole |-> FALSE]

-----------------------------------------------------------------------------
(* The file of a complete insertion of o, and the keys it may have.        *)

Image(o) == [data |-> {o} \ Empty, whole |-> TRUE]

\* hash_filter()->hash(): no byte went through the filter for an empty object
StreamKey(o) == IF o \in Empty THEN NullKey ELSE HashOf[o]

KeysOf(o) == {HashOf[o], StreamKey(o)}

\* insert names the file after the key it is given, or after the hash
Dest(w) ==
  IF job[w].kind = "keyed" THEN HashOf[job[w].obj] ELSE StreamKey(job[w].obj)

\* mutant: the name is taken as tempnam gives it
UnusedMutant(t) == TRUE

Unused(t) == \A w \in Writers : job[w].tmp # t

\* an open file follows its rename; the one it replaces or that is removed has no path
Followed(from, to) ==
  [w \in Writers |-> IF loc[w] = from THEN to
                     ELSE IF loc[w] = to THEN None ELSE loc[w]]

-----------------------------------------------------------------------------
Init ==
  \E S \in SUBSET Objects :
    /\ file = [p \in Paths |->
                 IF \E o \in S : HashOf[o] = p
                 THEN Image(CHOOSE o \in S : HashOf[o] = p) ELSE None]
    /\ dirs = {PrefixOf[HashOf[o]] : o \in S}
    /\ pc = [w \in Writers |-> "idle"]
    /\ job = [w \in Writers |-> NoJob]
    /\ loc = [w \in Writers |-> None]
    /\ acked = {}
    /\ view = [r \in Readers |-> NoView]

Goto(w, step) == pc' = [pc EXCEPT ![w] = step]

\* the call ends, by return, exception or death of its process
Leave(w) ==
  /\ Goto(w, "idle")
  /\ job' = [job EXCEPT ![w] = NoJob]
  /\ loc' = [loc EXCEPT ![w] = None]

Start(w) ==
  /\ pc[w] = "idle"
  /\ \E o \in Objects, kind \in Kinds :
       /\ job' = [job EXCEPT ![w] = [obj |-> o, kind |-> kind, tmp |-> None]]
       /\ Goto(w, IF kind = "keyed" THEN "lookup" ELSE "open")
  /\ UNCHANGED <<file, dirs, loc, acked, view>>

\* insert with a key: object(key) returns, or throws and is caught
Lookup(w) ==
  /\ pc[w] = "lookup"
  /\ Goto(w, IF file[Dest(w)] # None THEN "return" ELSE "open")
  /\ UNCHANGED <<file, dirs, job, loc, acked, view>>

\* mutant: the sink appends to a left-over file instead of truncating it
OpenTmpMutant(w) ==
  /\ pc[w] = "open"
  /\ \E t \in Names :
       /\ Unused(t)
       /\ job' = [job EXCEPT ![w].tmp = t]
       /\ file' = [file EXCEPT ![t] = IF @ = None THEN Blank ELSE @]
       /\ loc' = [loc EXCEPT ![w] = t]
  /\ Goto(w, "write")
  /\ UNCHANGED <<dirs, acked, view>>

\* temppath draws a name from tempnam, which looks for it in another directory
OpenTmp(w) ==
  /\ pc[w] = "open"
  /\ \E t \in Names :
       /\ Unused(t) \/ "collide" \in Faults
       /\ job' = [job EXCEPT ![w].tmp = t]
       /\ file' = [file EXCEPT ![t] = Blank]
       /\ loc' = [loc EXCEPT ![w] = t]
  /\ Goto(w, "write")
  /\ UNCHANGED <<dirs, acked, view>>

\* the file cannot be created, which no one asks the sink; a left-over file
\* of that name would have been opened
OpenFails(w) ==
  /\ pc[w] = "open"
  /\ "open" \in Faults
  /\ \E t \in Names :
       /\ Unused(t) /\ file[t] = None
       /\ job' = [job EXCEPT ![w].tmp = t]
  /\ Goto(w, "write")
  /\ UNCHANGED <<file, dirs, loc, acked, view>>

Write(w) ==
  /\ pc[w] = "write"
  /\ file' = IF loc[w] = None THEN file
             ELSE [file EXCEPT ![loc[w]] =
                     [data |-> @.data \cup ({job[w].obj} \ Empty), whole |-> @.whole]]
  /\ Goto(w, "close")
  /\ UNCHANGED <<dirs, job, loc, acked, view>>

\* mutant: the stream is not popped, so that the file is moved while it is open
CloseMutant(w) ==
  /\ pc[w] = "close"
  /\ loc' = [loc EXCEPT ![w] = None]
  /\ Goto(w, "mkdir")
  /\ UNCHANGED <<file, dirs, job, acked, view>>

\* flush and pop: what is buffered reaches the file, and the file is closed
Close(w) ==
  /\ pc[w] = "close"
  /\ file' = IF loc[w] = None THEN file
             ELSE [file EXCEPT ![loc[w]] = [data |-> @.data, whole |-> TRUE]]
  /\ loc' = [loc EXCEPT ![w] = None]
  /\ Goto(w, "mkdir")
  /\ UNCHANGED <<dirs, job, acked, view>>

\* the last bytes do not reach the file, which no one asks the stream
CloseShort(w) ==
  /\ pc[w] = "close"
  /\ "short" \in Faults
  /\ loc' = [loc EXCEPT ![w] = None]
  /\ Goto(w, "mkdir")
  /\ UNCHANGED <<file, dirs, job, acked, view>>

\* insert_object asserts that the hash is not null
HashAsserted(w) == job[w].kind = "object" => Dest(w) # NullKey

AssertFails(w) ==
  /\ pc[w] = "mkdir"
  /\ ~HashAsserted(w)
  /\ Leave(w)
  /\ UNCHANGED <<file, dirs, acked, view>>

\* mutant: the directory is expected to exist
MakeDirMutant(w) ==
  /\ pc[w] = "mkdir"
  /\ HashAsserted(w)
  /\ Goto(w, "rename")
  /\ UNCHANGED <<file, dirs, job, loc, acked, view>>

MakeDir(w) ==
  /\ pc[w] = "mkdir"
  /\ HashAsserted(w)
  /\ dirs' = dirs \cup {PrefixOf[Dest(w)]}
  /\ Goto(w, "rename")
  /\ UNCHANGED <<file, job, loc, acked, view>>

\* create_directory throws, and the temporary file stays
MakeDirFails(w) ==
  /\ pc[w] = "mkdir"
  /\ HashAsserted(w)
  /\ "mkdir" \in Faults
  /\ PrefixOf[Dest(w)] \notin dirs
  /\ Leave(w)
  /\ UNCHANGED <<file, dirs, acked, view>>

\* mutant: the temporary file is forgotten when the object is there
CheckTargetForgets(w) ==
  /\ pc[w] = "rename"
  /\ Goto(w, IF file[Dest(w)] # None THEN "return" ELSE "replace")
  /\ UNCHANGED <<file, dirs, job, loc, acked, view>>

\* mutant: file_exists is retried
CheckTargetRetries(w) ==
  /\ pc[w] = "rename"
  /\ Goto(w, IF file[Dest(w)] # None THEN "rename" ELSE "replace")
  /\ UNCHANGED <<file, dirs, job, loc, acked, view>>

\* fs::rename, first half: an existing destination is the error file_exists
CheckTarget(w) ==
  /\ pc[w] = "rename"
  /\ Goto(w, IF file[Dest(w)] # None THEN "discard" ELSE "replace")
  /\ UNCHANGED <<file, dirs, job, loc, acked, view>>

CanRename(w) == file[job[w].tmp] # None /\ PrefixOf[Dest(w)] \in dirs

\* fs::rename, second half: rename(2) replaces whatever is there by now
Rename(w) ==
  /\ pc[w] = "replace"
  /\ CanRename(w)
  /\ file' = [file EXCEPT ![Dest(w)] = file[job[w].tmp], ![job[w].tmp] = None]
  /\ loc' = Followed(job[w].tmp, Dest(w))
  /\ Goto(w, "return")
  /\ UNCHANGED <<dirs, job, acked, view>>

\* mutant: every error of rename is ignored
RenameFailsMutant(w) ==
  /\ pc[w] = "replace"
  /\ ~CanRename(w)
  /\ Goto(w, "return")
  /\ UNCHANGED <<file, dirs, job, loc, acked, view>>

\* any other error of rename is thrown to the caller
RenameFails(w) ==
  /\ pc[w] = "replace"
  /\ ~CanRename(w)
  /\ Leave(w)
  /\ UNCHANGED <<file, dirs, acked, view>>

\* mutant: the existing file is removed to make place
DiscardMutant(w) ==
  /\ pc[w] = "discard"
  /\ file' = [file EXCEPT ![Dest(w)] = None]
  /\ loc' = Followed(Dest(w), None)
  /\ Goto(w, "rename")
  /\ UNCHANGED <<dirs, job, acked, view>>

\* "ignore existing files": the temporary file is removed
Discard(w) ==
  /\ pc[w] = "discard"
  /\ file' = [file EXCEPT ![job[w].tmp] = None]
  /\ loc' = Followed(job[w].tmp, None)
  /\ Goto(w, "return")
  /\ UNCHANGED <<dirs, job, acked, view>>

\* mutant: the accessor is made of the temporary path
ReturnMutant(w) ==
  /\ pc[w] = "return"
  /\ acked' = acked \cup {IF job[w].tmp = None THEN Dest(w) ELSE job[w].tmp}
  /\ Leave(w)
  /\ UNCHANGED <<file, dirs, view>>

Return(w) ==
  /\ pc[w] = "return"
  /\ acked' = acked \cup {Dest(w)}
  /\ Leave(w)
  /\ UNCHANGED <<file, dirs, view>>

Crash(w) ==
  /\ "crash" \in Faults
  /\ pc[w] # "idle"
  /\ Leave(w)
  /\ UNCHANGED <<file, dirs, acked, view>>

-----------------------------------------------------------------------------
\* object(k): an accessor of the path, if a regular file is there
Find(r) ==
  /\ view[r].key = None
  /\ \E k \in Keys :
       /\ file[k] # None
       /\ view' = [view EXCEPT ![r] = [key |-> k, image |-> None]]
  /\ UNCHANGED <<file, dirs, pc, job, loc, acked>>

\* type(), size() or stream() of the accessor's object opens the path
Read(r) ==
  /\ view[r].key # None
  /\ view[r].image = None
  /\ view' = [view EXCEPT ![r].image = file[view[r].key]]
  /\ UNCHANGED <<file, dirs, pc, job, loc, acked>>

Release(r) ==
  /\ view[r].key # None
  /\ view' = [view EXCEPT ![r] = NoView]
  /\ UNCHANGED <<file, dirs, pc, job, loc, acked>>

-----------------------------------------------------------------------------
\* what a writer does by itself once it was called
Progress(w) ==
  \/ Lookup(w) \/ OpenTmp(w) \/ Write(w) \/ Close(w) \/ AssertFails(w)
  \/ MakeDir(w) \/ CheckTarget(w) \/ Rename(w) \/ RenameFails(w) \/ Discard(w)
  \/ Return(w)

Failure(w) == OpenFails(w) \/ CloseShort(w) \/ MakeDirFails(w) \/ Crash(w)

Next ==
  \/ \E w \in Writers : Start(w) \/ Progress(w) \/ Failure(w)
  \/ \E r \in Readers : Find(r) \/ Read(r) \/ Release(r)

Spec == Init /\ [][Next]_vars

\* insert is straight-line code: a writer that runs is scheduled
Fairness == \A w \in Writers : WF_vars(Progress(w))
FairSpec == Spec /\ Fairness

-----------------------------------------------------------------------------
(* Properties.                                                             *)

\* The states the variables may be in.
TypeOK ==
  /\ file \in [Paths -> Content \cup {None}]
  /\ dirs \subseteq Prefixes
  /\ pc \in [Writers -> Steps]
  /\ job \in [Writers -> [obj : Objects \cup {None}, kind : Kinds \cup {None},
                          tmp : Names \cup {None}]]
  /\ loc \in [Writers -> Paths \cup {None}]
  /\ acked \subseteq Keys
  /\ view \in [Readers -> [key : Keys \cup {None}, image : Content \cup {None}]]

\* Whatever writers race or die and wherever they do, a file that has an
\* object's final name is the complete image of one object that this name is
\* for: no reader can find a partial or mixed file (move_tmp_to_final is the
\* only step that makes a final name, and comes after the file was closed).
StoredUnderOwnKey ==
  \A k \in Keys : file[k] # None =>
    \E o \in Objects : file[k] = Image(o) /\ k \in KeysOf(o)

\* The comment of move_tmp_to_final: an existing file may be kept and the new
\* one dropped, for "they have the same content as they have the same hash".
SameHashSameContent ==
  \A w \in Writers :
    pc[w] = "discard" /\ file[job[w].tmp] # None =>
      file[Dest(w)] = file[job[w].tmp]

\* An accessor that insert has returned names a file that is there.
AckedPresent == \A k \in acked : file[k] # None

\* odb.hpp, "Objects are always immutable": an accessor that object(k) has
\* returned never dangles, and what was read through it is what another
\* reader would read now.
AccessorReads ==
  \A r \in Readers : view[r].key # None =>
    /\ file[view[r].key] # None
    /\ view[r].image \in {None, file[view[r].key]}

\* A stored object is neither changed nor removed, also when a racing
\* insertion of the same object has rename(2) replace its file.
StoredForGood ==
  [][\A k \in Keys : file[k] # None => file'[k] = file[k]]_vars

\* Without crashes and errors every temporary file belongs to a writer that
\* is still at work: none is left in the root directory.
TemporariesOwned ==
  \A t \in Names : file[t] # None => \E w \in Writers : job[w].tmp = t

\* An insertion never blocks or repeats, whatever the other writers do.
InsertEnds == \A w \in Writers : pc[w] # "idle" ~> pc[w] = "idle"

\* If nothing is thrown, an insertion that was called ends with its object
\* stored under its key and acknowledged.
InsertStores ==
  \A w \in Writers, k \in Keys :
    (pc[w] # "idle" /\ Dest(w) = k) ~> (k \in acked /\ file[k] # None)

\* The strengthening of the safety properties that every step preserves
\* unless writes fall short or names collide: what each writer's temporary
\* file contains at each of its steps, and whose it is.
TmpsDistinct ==
  \A v, w \in Writers : job[v].tmp = job[w].tmp /\ job[w].tmp # None => v = w

JobValid(w) ==
  /\ pc[w] # "idle" => job[w].obj \in Objects /\ job[w].kind \in Kinds
  /\ pc[w] = "lookup" => job[w].kind = "keyed"
  /\ pc[w] \in {"write", "close", "mkdir", "rename", "replace", "discard"} =>
       job[w].tmp \in Names
  /\ loc[w] # None => pc[w] \in {"write", "close"} /\ loc[w] = job[w].tmp

TmpContent(w) ==
  /\ pc[w] = "write" =>
       file[job[w].tmp] = IF loc[w] = None THEN None ELSE Blank
  /\ pc[w] = "close" =>
       file[job[w].tmp] = IF loc[w] = None THEN None
                          ELSE [data |-> {job[w].obj} \ Empty, whole |-> FALSE]
  /\ pc[w] \in {"mkdir", "rename", "replace", "discard"} =>
       file[job[w].tmp] \in {None, Image(job[w].obj)}

DestPresent(w) == pc[w] \in {"discard", "return"} => file[Dest(w)] # None

IInv ==
  /\ TypeOK
  /\ TmpsDistinct
  /\ \A w \in Writers : JobValid(w) /\ TmpContent(w) /\ DestPresent(w)
  /\ StoredUnderOwnKey
  /\ AckedPresent
  /\ AccessorReads

\* The assertion of insert_object and the test of the null key: no object is
\* ever stored under the null hash.
NullKeyUnused == file[NullKey] = None

\* The loose database is an object store: the map it promises is its files
\* with final names.
Abs == INSTANCE ObjectStore WITH
  Values  <- {Image(o) : o \in Objects},
  Fitting <- UNION {{<<k, Image(o)>> : k \in KeysOf(o)} : o \in Objects},
  store   <- [k \in Keys |-> file[k]]

AbsSpec == Abs!Spec

\* Whoever lists the database's directory sees a LooseTree: an object's file
\* appears in a directory that exists, is moved there from a temporary file, and
\* never disappears, and nothing else comes or goes.
Tree == INSTANCE LooseTree WITH
  present <- {k \in Keys : file[k] # None},
  temps   <- {t \in Names : file[t] # None}

TreeSpec == Tree!Spec
=============================================================================
