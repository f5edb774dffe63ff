--------------------------- MODULE LooseIterator ---------------------------
(***************************************************************************)
(* loose_forward_iterator (gtl/db/odb_loose.hpp): a walk over the files of *)
(* a loose database while others insert into it.  It owns the object of    *)
(* LooseHandle, to which it assigns the path of each object file it finds. *)
(*                                                                         *)
(* The recursive_directory_iterator below it is external: a stack of at    *)
(* most two directory streams, each of which gives every entry that is     *)
(* there from its opening to its end, and may or may not give one that is  *)
(* added or removed meanwhile.                                             *)
(***************************************************************************)
EXTENDS LooseHandle, Naturals

CONSTANTS
  Keys, Names, Prefixes,  (* see LooseTree                                *)
  Others,     (* files that no insertion makes                            *)
  Root,       (* the database's directory                                 *)
  DirOf,      (* directory of each file                                   *)
  Length,     (* number of characters of each file's or directory's name  *)
  NameLength, PrefixLength, (* those of an object file and its directory  *)
  NoPath      (* the path of an object that has none yet                  *)

Files == Keys \cup Names \cup Others

ASSUME FileAssumption ==
  /\ Files \cap Prefixes = {} /\ Keys \cap (Names \cup Others) = {}
  /\ None \notin Files \cup Prefixes /\ NoPath \notin Files
  /\ Names \cap Others = {} /\ Root \notin Prefixes
  /\ Paths = Files \cup {NoPath}
  /\ DirOf \in [Files -> Prefixes \cup {Root}]
  /\ \A k \in Keys : DirOf[k] \in Prefixes
  /\ \A t \in Names : DirOf[t] = Root
ASSUME LengthAssumption ==
  /\ Length \in [Files \cup Prefixes \cup {Root} -> Nat]
  /\ NameLength \in Nat /\ PrefixLength \in Nat
  /\ \A k \in Keys : Length[k] = NameLength /\ Length[DirOf[k]] = PrefixLength
  /\ \A t \in Names : Length[t] \div 2 # NameLength \div 2

VARIABLES
  dirs, present, temps,  (* see LooseTree                                 *)
  others,   (* files that no insertion made                               *)
  phase,    (* "none", in "next", "at" an object, "end" or "undefined"    *)
  cur,      (* entry of the directory iterator, None between two          *)
  top,      (* directory of the innermost stream                          *)
  root,     (* stream of the root: entries it has to give and has given   *)
  sub,      (* stream of top, if that is not the root                     *)
  started,  (* keys that had a file at begin(), for the properties        *)
  visited   (* files that the iterator was at, for the properties         *)

tree     == <<dirs, present, temps, others>>
walk     == <<phase, cur, top, root, sub, started, visited>>
iterVars == <<vars, tree, walk>>

Tree == INSTANCE LooseTree WITH PrefixOf <- [k \in Keys |-> DirOf[k]]

NoStream == [due |-> {}, seen |-> {}]

IterInit ==
  /\ Init /\ path = NoPath
  /\ Tree!Init
  /\ others \in SUBSET {f \in Others : DirOf[f] \in dirs \cup {Root}}
  /\ phase = "none" /\ cur = None /\ top = Root
  /\ root = NoStream /\ sub = NoStream
  /\ started = {} /\ visited = {}

Entries(d) ==
  {f \in present \cup others : DirOf[f] = d}
    \cup IF d = Root THEN dirs \cup temps ELSE {}

Opened(d) == [due |-> Entries(d), seen |-> {}]

\* an entry the stream has not given may come next; it ends when none is due
Unseen(s, d)    == Entries(d) \ s.seen
Ended(s)        == s.due \subseteq s.seen
Given(s, entry) == [s EXCEPT !.seen = @ \cup {entry}]

-----------------------------------------------------------------------------
\* mutant: only the name of the directory is looked at
IsInObjectDirectory(f) == Length[DirOf[f]] \div 2 = PrefixLength \div 2

\* "verify path tokens are composed to be one of our known files"
IsObjectName(f) ==
  /\ Length[f] \div 2 = NameLength \div 2
  /\ Length[DirOf[f]] \div 2 = PrefixLength \div 2

\* key() makes a hash of both names, which throws unless it gets every digit
HasKey(f) == Length[DirOf[f]] + Length[f] = PrefixLength + NameLength

\* mutant: the entry that is skipped is not descended into
BeginSkips ==
  /\ phase = "none"
  /\ started' = present
  /\ phase' = "next"
  /\ \E entry \in Entries(Root) : root' = Given(Opened(Root), entry)
  /\ UNCHANGED <<vars, tree, cur, top, sub, visited>>

\* m_iter(root) takes the first entry, which nobody looks at, and next()
\* increments; if there is no entry, that is the end iterator
Begin ==
  /\ phase = "none"
  /\ started' = present
  /\ UNCHANGED <<vars, tree, top, sub, visited>>
  /\ \/ /\ Entries(Root) = {}
        /\ phase' = "undefined"
        /\ UNCHANGED <<cur, root>>
     \/ \E entry \in Entries(Root) :
          /\ cur' = entry /\ root' = Given(Opened(Root), entry)
          /\ phase' = "next"

\* mutant: the loop starts with the entry at which the last one stopped
IncrementStays ==
  /\ phase = "at"
  /\ phase' = "next"
  /\ root' = [root EXCEPT !.seen = @ \ {cur}]
  /\ sub' = [sub EXCEPT !.seen = @ \ {cur}]
  /\ UNCHANGED <<vars, tree, cur, top, started, visited>>

\* ++it of the client
Increment ==
  /\ phase = "at"
  /\ phase' = "next"
  /\ UNCHANGED <<vars, tree, cur, top, root, sub, started, visited>>

\* an entry that is a directory is opened next
Descend ==
  /\ phase = "next" /\ cur \in dirs
  /\ top' = cur /\ cur' = None
  /\ sub' = Opened(cur)
  /\ UNCHANGED <<vars, tree, phase, root, started, visited>>

\* mutant: the object file that was found is not assigned
LookAtOnly(entry) ==
  /\ cur' = entry
  /\ IF entry \in Files /\ IsObjectName(entry)
     THEN phase' = "at" /\ visited' = visited \cup {entry}
     ELSE UNCHANGED <<phase, visited>>
  /\ UNCHANGED <<vars, tree, top, started>>

\* the body of next()'s loop: an object file ends it, and becomes the path
LookAt(entry) ==
  /\ cur' = entry
  /\ IF entry \in Files /\ IsObjectName(entry)
     THEN /\ phase' = "at" /\ visited' = visited \cup {entry}
          /\ MoveTo(entry)
     ELSE UNCHANGED <<vars, phase, visited>>
  /\ UNCHANGED <<tree, top, started>>

\* the next entry of the innermost stream
ReadSub ==
  /\ phase = "next" /\ top # Root
  /\ \E entry \in Unseen(sub, top) : LookAt(entry) /\ sub' = Given(sub, entry)
  /\ UNCHANGED root

ReadRoot ==
  /\ phase = "next" /\ top = Root /\ cur \notin dirs
  /\ \E entry \in Unseen(root, Root) : LookAt(entry) /\ root' = Given(root, entry)
  /\ UNCHANGED sub

\* the stack is popped
LeaveSub ==
  /\ phase = "next" /\ top # Root /\ Ended(sub)
  /\ top' = Root /\ cur' = None
  /\ sub' = NoStream
  /\ UNCHANGED <<vars, tree, phase, root, started, visited>>

\* the stack is empty: the iterator is the end iterator
LeaveRoot ==
  /\ phase = "next" /\ top = Root /\ cur \notin dirs /\ Ended(root)
  /\ phase' = "end" /\ cur' = None
  /\ UNCHANGED <<vars, tree, top, root, sub, started, visited>>

Walk == Begin \/ Increment \/ Descend \/ ReadSub \/ ReadRoot \/ LeaveSub \/ LeaveRoot

\* an insertion; an entry that it removes is not due any more
Insertion ==
  /\ Tree!Next
  /\ LET gone == temps \ temps'
     IN root' = [due |-> root.due \ gone, seen |-> root.seen \ gone]
  /\ UNCHANGED <<vars, others, phase, cur, top, sub, started, visited>>

\* clients use the object where the iterator is at one, and their streams
Client ==
  /\ \/ phase = "at" /\ (Query \/ NewStream \/ Stream \/ Deserialize)
     \/ \E s \in Streams : Take(s) \/ Dispose(s)
  /\ UNCHANGED <<tree, walk>>

IterNext == Walk \/ Insertion \/ Client

IterSpec == IterInit /\ [][IterNext]_iterVars

\* count(), as any loop over the database, goes on until the end
IterFairSpec == IterSpec /\ WF_iterVars(phase # "none" /\ Walk)

-----------------------------------------------------------------------------
(* Properties.                                                             *)

\* The states of the walk: both streams are of directories that exist.
WalkOK ==
  /\ Tree!Init
  /\ phase \in {"none", "next", "at", "end", "undefined"}
  /\ cur \in Files \cup dirs \cup {None}
  /\ top \in dirs \cup {Root}
  /\ started \subseteq present
  /\ phase = "at" => path = cur /\ cur \in visited

\* Of the files that insertions make, the iterator stops at stored objects only,
\* never at a temporary file that is not moved yet, or stays after a failure.
VisitsStored == visited \ Others \subseteq present

\* "it must be possible to construct a key from it": key() does not throw at any
\* file the iterator stops at.
KeyConstructible == \A f \in visited : HasKey(f)

\* Whatever is inserted meanwhile, and in which order the directories are
\* listed: at the end every object was visited that was there at begin().
\* (odb_forward_iterator: "The iteration is unordered".)
NoneMissed == phase \in {"end", "undefined"} => started \subseteq visited

\* Each step leads to an object that was not visited before, so that count()
\* counts each object once, the insertions notwithstanding.
VisitedOnce ==
  [][phase = "next" /\ phase' = "at" => path' \notin visited]_iterVars

\* A loop over the database ends, if no temporary files are made forever: not
\* only the database, also the root directory has to come to rest.
CountEnds ==
  <>[][temps' \subseteq temps]_iterVars =>
    (phase # "none" ~> phase \in {"end", "undefined"})
=============================================================================
