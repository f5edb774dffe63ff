---------------------------- MODULE DatabaseCopy ----------------------------
(***************************************************************************)
(* The memory database (gtl/db/odb_mem.hpp) beside a loose one, and the     *)
(* copying of objects from one into the other through the adapter that      *)
(* makes an input object of an output object and a key                      *)
(* (gtl/db/odb_object.hpp).  A client inserts while it iterates.  The loose *)
(* database takes one step here: LooseStoreProofs shows that it may.        *)
(***************************************************************************)
EXTENDS Integers, FiniteSets, FiniteSetsExt

CONSTANTS
  Objects,  (* what clients have                                          *)
  Empty,    (* those that have no data                                    *)
  Long,     (* those that a loose stream loses data of when it reads them *)
  Hash(_),  (* SHA-1 of the header and the data of a value, a number      *)
  End       (* the iterator behind the last element                       *)

NullKey == 0

(* A value has an object's type and size, and what was read of its data.    *)
Whole(o) == [obj |-> o, data |-> IF o \in Empty THEN "none" ELSE "whole"]
Drained(o) == [obj |-> o, data |-> "none"]
Cut(o) == [obj |-> o, data |-> "cut"]
Values == UNION {{Whole(o), Drained(o), Cut(o)} : o \in Objects}

ASSUME ObjectAssumption ==
  /\ Empty \subseteq Objects /\ Long \subseteq Objects \ Empty
  /\ \A v \in Values : Hash(v) \in Nat \ {NullKey}
  /\ \A v, w \in Values : Hash(v) = Hash(w) => v = w

Keys == {NullKey} \cup {Hash(v) : v \in Values}

ASSUME EndAssumption == End \notin Keys

\* a file without a header, as nothing was written through the header filter
Blank == [obj |-> End, data |-> "none"]

VARIABLES
  mem,      (* m_objs, a std::map                                         *)
  loose,    (* the loose database's files                                 *)
  copy,     (* the loop that copies: "none", "dump" or "load"             *)
  at,       (* dump: key the iterator is at, or End                       *)
  visited,  (* load: keys that the iterator has been at                   *)
  start,    (* keys that the source had at begin()                        *)
  stopped   (* a failed assertion or an undefined read                    *)

vars == <<mem, loose, copy, at, visited, start, stopped>>
loop == <<copy, at, visited, start>>

NoValue == [k \in {} |-> Blank]

Init ==
  /\ mem = NoValue /\ loose = NoValue
  /\ copy = "none" /\ at = End
  /\ visited = {} /\ start = {}
  /\ stopped = FALSE

\* a map with a key in addition, if it does not have it
Added(map, key, v) ==
  [k \in DOMAIN map \cup {key} |-> IF k \in DOMAIN map THEN map[k] ELSE v]

\* mutant: m_objs[key] = value
MemPutReplaces(key, v) == mem' = [Added(mem, key, v) EXCEPT ![key] = v]

\* std::map::insert keeps the element that is there
MemPut(key, v) == mem' = Added(mem, key, v)

\* a file without data is one without header, and existing ones are kept
LoosePut(key, v) ==
  loose' = Added(loose, key, IF v.data = "none" THEN Blank ELSE v)

\* mutant: odb_mem's own header_hash, which does nothing
MemHashBare(v) ==
  IF v.data = "none" THEN Min({Hash(Drained(o)) : o \in Objects}) ELSE Hash(v)

\* the header is hashed also if there is no data
MemHash(v) == Hash(v)

\* the hash filter is called with data only
LooseHash(v) == IF v.data = "none" THEN NullKey ELSE Hash(v)

-----------------------------------------------------------------------------
(* Insertions by a client.  A stream may be read already; one that comes    *)
(* with a key was rewound.                                                  *)

Inputs(o) == {Whole(o), Drained(o)}

MemInsert(o) ==
  /\ \E v \in Inputs(o) : MemPut(MemHash(v), v)
  /\ UNCHANGED <<loose, loop, stopped>>

\* insert with a key, and insert_object of an object
MemInsertKeyed(o) ==
  /\ MemPut(Hash(Whole(o)), Whole(o))
  /\ UNCHANGED <<loose, loop, stopped>>

LooseInsert(o) ==
  /\ \E v \in Inputs(o) : LoosePut(LooseHash(v), v)
  /\ UNCHANGED <<mem, loop, stopped>>

LooseInsertKeyed(o) ==
  /\ LoosePut(Hash(Whole(o)), Whole(o))
  /\ UNCHANGED <<mem, loop, stopped>>

\* insert_object asserts that there is a hash
LooseInsertObject(o) ==
  /\ IF o \in Empty
     THEN stopped' = TRUE /\ UNCHANGED loose
     ELSE LoosePut(LooseHash(Whole(o)), Whole(o)) /\ UNCHANGED stopped
  /\ UNCHANGED <<mem, loop>>

-----------------------------------------------------------------------------
(* Copying the memory database: for (it = begin(); it != end(); ++it).       *)

\* mutant: iterators are positions
FromCounts(k) == {IF k > Max(Keys) THEN End ELSE k}

\* the first key that is not less than k
From(k) ==
  LET keys == {j \in DOMAIN mem : j >= k}
  IN IF keys = {} THEN {End} ELSE {j \in keys : \A i \in keys : j <= i}

DumpBegin ==
  /\ copy = "none"
  /\ copy' = "dump"
  /\ at' \in From(0)
  /\ start' = DOMAIN mem
  /\ UNCHANGED <<mem, loose, visited, stopped>>

\* mutant: the iterator moves before its element is copied
DumpStepAhead ==
  /\ copy = "dump" /\ at # End
  /\ at' \in From(at + 1)
  /\ IF at' = End THEN UNCHANGED loose ELSE LoosePut(at', mem[at'])
  /\ UNCHANGED <<mem, copy, visited, start, stopped>>

\* mutant: the iterator is not moved
DumpStepStays ==
  /\ copy = "dump" /\ at # End
  /\ LoosePut(at, mem[at])
  /\ UNCHANGED <<mem, loop, stopped>>

\* adapter(*it, it.key()) is inserted
DumpStep ==
  /\ copy = "dump" /\ at # End
  /\ LoosePut(at, mem[at])
  /\ at' \in From(at + 1)
  /\ UNCHANGED <<mem, copy, visited, start, stopped>>

DumpEnd ==
  /\ copy = "dump" /\ at = End
  /\ copy' = "none" /\ start' = {}
  /\ UNCHANGED <<mem, loose, at, visited, stopped>>

-----------------------------------------------------------------------------
(* Copying the loose database, whose iterator has no order, and may visit   *)
(* what was inserted behind begin().                                        *)

\* begin() increments the iterator of a root that has at least one entry
LoadBegin ==
  /\ copy = "none"
  /\ IF DOMAIN loose = {}
     THEN stopped' = TRUE /\ UNCHANGED <<copy, start>>
     ELSE copy' = "load" /\ start' = DOMAIN loose /\ UNCHANGED stopped
  /\ UNCHANGED <<mem, loose, at, visited>>

\* what a loose object's stream gives
Streamed(v) == IF v.obj \in Long THEN Cut(v.obj) ELSE v

\* reading a file without header is undefined
LoadStep(k) ==
  /\ copy = "load" /\ k \in DOMAIN loose \ visited
  /\ IF loose[k] = Blank
     THEN stopped' = TRUE /\ UNCHANGED <<mem, visited>>
     ELSE /\ MemPut(k, Streamed(loose[k]))
          /\ visited' = visited \cup {k}
          /\ UNCHANGED stopped
  /\ UNCHANGED <<loose, copy, at, start>>

LoadEnd ==
  /\ copy = "load" /\ start \subseteq visited
  /\ copy' = "none" /\ visited' = {} /\ start' = {}
  /\ UNCHANGED <<mem, loose, at, stopped>>

-----------------------------------------------------------------------------
Copy == DumpBegin \/ DumpStep \/ DumpEnd
          \/ LoadBegin \/ (\E k \in Keys : LoadStep(k)) \/ LoadEnd

Insert ==
  \E o \in Objects :
    \/ MemInsert(o) \/ MemInsertKeyed(o)
    \/ LooseInsert(o) \/ LooseInsertKeyed(o) \/ LooseInsertObject(o)

Stops == stopped /\ UNCHANGED vars

Next == (~stopped /\ (Copy \/ Insert)) \/ Stops

Spec == Init /\ [][Next]_vars

\* a loop that was begun is continued
FairSpec == Spec /\ WF_vars(~stopped /\ copy = "dump" /\ Copy)

-----------------------------------------------------------------------------
(* Properties.                                                             *)

\* Type correctness: databases map keys to values, the iterator is at an
\* element or at the end.
TypeOK ==
  /\ DOMAIN mem \subseteq Keys /\ \A k \in DOMAIN mem : mem[k] \in Values
  /\ DOMAIN loose \subseteq Keys /\ \A k \in DOMAIN loose : loose[k] \in Values \cup {Blank}
  /\ copy \in {"none", "dump", "load"}
  /\ at \in DOMAIN mem \cup {End}
  /\ visited \subseteq DOMAIN mem \cap DOMAIN loose
  /\ start \subseteq Keys /\ stopped \in BOOLEAN

\* v is what a key was computed of, but for the data that a loose stream lost
Fits(key, v) ==
  \/ Hash(v) = key
  \/ v.obj \in Long /\ v = Cut(v.obj) /\ key = Hash(Whole(v.obj))

\* a file without header has the null key, or that of an object without data
FitsFile(key, v) ==
  \/ Fits(key, v)
  \/ v = Blank /\ key \in {NullKey} \cup {Hash(Drained(o)) : o \in Objects}

\* A key names the object it was computed of, in both databases, after any
\* sequence of insertions and copies: but for long objects that went through a
\* loose stream, and for objects without data, whose loose file has no
\* header.  The memory database never has an object under the null key, as
\* its test requires (odb_mem::insert, header_hash, odb_loose::insert).
NamesItsObject ==
  /\ \A k \in DOMAIN mem : Fits(k, mem[k])
  /\ \A k \in DOMAIN loose : FitsFile(k, loose[k])

\* Each database is an object store: a step of a client or of a loop makes at
\* most one object visible in it, which fits its key, and changes or removes
\* none ("Objects are always immutable"; std::map::insert and
\* move_tmp_to_final keep what is there).
MemAbs == INSTANCE ObjectStore WITH
  None    <- End,
  Fitting <- {p \in Keys \X Values : Fits(p[1], p[2])},
  store   <- [k \in Keys |-> IF k \in DOMAIN mem THEN mem[k] ELSE End],
  Readers <- {}, acked <- {}, view <- [r \in {} |-> End]

LooseAbs == INSTANCE ObjectStore WITH
  None    <- End,
  Values  <- Values \cup {Blank},
  Fitting <- {p \in Keys \X (Values \cup {Blank}) : FitsFile(p[1], p[2])},
  store   <- [k \in Keys |-> IF k \in DOMAIN loose THEN loose[k] ELSE End],
  Readers <- {}, acked <- {}, view <- [r \in {} |-> End]

StoresSpec == MemAbs!Spec /\ LooseAbs!Spec

\* A loop that ends has copied every object that its source had when it was
\* begun, whatever was inserted into either database meanwhile.
CopyComplete ==
  [][/\ copy = "dump" /\ copy' = "none" => start \subseteq DOMAIN loose'
     /\ copy = "load" /\ copy' = "none" => start \subseteq DOMAIN mem']_vars

\* A loop over the memory database ends, though objects are inserted into it.
DumpEnds == copy = "dump" ~> copy # "dump" \/ stopped
=============================================================================
