------------------------- MODULE DatabaseCopyProofs -------------------------
(***************************************************************************)
(* Proofs about the copying of databases, for any objects and hashes.       *)
(***************************************************************************)
EXTENDS DatabaseCopy, TLAPS

\* what a file has is either nothing or data
FilesOK ==
  \A k \in DOMAIN loose : loose[k] # Blank => loose[k].data # "none"

\* What the loop that runs has copied: up to the iterator, everything.
Copied ==
  /\ copy = "dump" => /\ start \subseteq DOMAIN mem
                      /\ \A k \in start : (at = End \/ k < at) => k \in DOMAIN loose
  /\ copy = "load" => start \subseteq DOMAIN loose

IInv == TypeOK /\ NamesItsObject /\ FilesOK /\ Copied

\* Keys are natural numbers.
LEMMA KeysNat == Keys \subseteq Nat
BY ObjectAssumption DEF Keys, NullKey

\* The values of an object, and the keys of its values.
LEMMA ValuesOf ==
  ASSUME NEW o \in Objects
  PROVE  /\ Inputs(o) \subseteq Values
         /\ Whole(o) \in Values /\ Drained(o) \in Values /\ Cut(o) \in Values
BY DEF Inputs, Values

\* A value without data is the drained one of its object.
LEMMA NoData ==
  ASSUME NEW v \in Values, v.data = "none"
  PROVE  v.obj \in Objects /\ v = Drained(v.obj)
BY DEF Values, Whole, Drained, Cut

\* Putting a value that fits into the memory database.
LEMMA MemPutInv ==
  ASSUME IInv, NEW key \in Keys, NEW v \in Values, Fits(key, v), MemPut(key, v),
         UNCHANGED loose
  PROVE  /\ DOMAIN mem' = DOMAIN mem \cup {key}
         /\ DOMAIN mem' \subseteq Keys /\ \A k \in DOMAIN mem' : mem'[k] \in Values
         /\ NamesItsObject'
         /\ \A k \in DOMAIN mem : mem'[k] = mem[k]
<1>1. /\ DOMAIN mem' = DOMAIN mem \cup {key}
      /\ \A j \in DOMAIN mem : mem'[j] = mem[j]
      /\ key \in DOMAIN mem \/ mem'[key] = v
  BY DEF MemPut, Added
<1>2. \A k \in DOMAIN mem' : mem'[k] \in Values
  BY <1>1 DEF IInv, TypeOK
<1>3. \A k \in DOMAIN mem' : Fits(k, mem'[k])
  BY <1>1 DEF IInv, NamesItsObject
<1>4. NamesItsObject'
  BY <1>3 DEF NamesItsObject, IInv, Fits, FitsFile
<1> QED BY <1>1, <1>2, <1>4 DEF IInv, TypeOK

\* Putting a value into the loose database under a key that it fits, or
\* under the null key if it has no data.
LEMMA LoosePutInv ==
  ASSUME IInv, NEW key \in Keys, NEW v \in Values, LoosePut(key, v),
         UNCHANGED mem, Fits(key, v) \/ (v.data = "none" /\ key = NullKey)
  PROVE  /\ DOMAIN loose' = DOMAIN loose \cup {key}
         /\ DOMAIN loose' \subseteq Keys
         /\ \A k \in DOMAIN loose' : loose'[k] \in Values \cup {Blank}
         /\ NamesItsObject' /\ FilesOK'
         /\ \A k \in DOMAIN loose : loose'[k] = loose[k]
<1> DEFINE w == IF v.data = "none" THEN Blank ELSE v
<1>1. /\ DOMAIN loose' = DOMAIN loose \cup {key}
      /\ \A j \in DOMAIN loose : loose'[j] = loose[j]
      /\ key \in DOMAIN loose \/ loose'[key] = w
  BY DEF LoosePut, Added
<1>2. w \in Values \cup {Blank} /\ (w # Blank => w.data # "none")
  OBVIOUS
<1>3. ASSUME v.data = "none", Fits(key, v)
      PROVE  key \in {Hash(Drained(o)) : o \in Objects}
  <2>1. v.obj \in Objects /\ v = Drained(v.obj)
    BY <1>3, NoData
  <2>2. Hash(v) = key
    <3>1. Cut(v.obj) # v
      BY <1>3 DEF Cut
    <3> QED BY <1>3, <3>1 DEF Fits
  <2> QED BY <2>1, <2>2
<1>4. Fits(key, w) \/ (w = Blank /\ key \in {NullKey} \cup {Hash(Drained(o)) : o \in Objects})
  BY <1>3
<1>5. NamesItsObject'
  <2>1. \A k \in DOMAIN mem' : Fits(k, mem'[k])
    BY DEF IInv, NamesItsObject
  <2>2. ASSUME NEW k \in DOMAIN loose'
        PROVE  \/ Fits(k, loose'[k])
               \/ loose'[k] = Blank /\ k \in {NullKey} \cup {Hash(Drained(o)) : o \in Objects}
    BY <1>1, <1>4 DEF IInv, NamesItsObject, FitsFile
  <2> QED BY <2>1, <2>2 DEF NamesItsObject, Fits, FitsFile
<1>6. FilesOK'
  BY <1>1, <1>2 DEF IInv, FilesOK
<1>7. DOMAIN loose' \subseteq Keys /\ \A k \in DOMAIN loose' : loose'[k] \in Values \cup {Blank}
  BY <1>1, <1>2 DEF IInv, TypeOK
<1> QED BY <1>1, <1>5, <1>6, <1>7

-----------------------------------------------------------------------------
(* Steps.                                                                  *)

\* a step changes or removes nothing that a database has
Keeps ==
  /\ DOMAIN mem \subseteq DOMAIN mem' /\ DOMAIN loose \subseteq DOMAIN loose'
  /\ \A k \in DOMAIN mem : mem'[k] = mem[k]
  /\ \A k \in DOMAIN loose : loose'[k] = loose[k]

\* The databases are empty at first.
LEMMA InitInv == Init => IInv
<1> SUFFICES ASSUME Init PROVE IInv
  OBVIOUS
<1>1. DOMAIN mem = {} /\ DOMAIN loose = {}
  BY DEF Init, NoValue
<1> QED BY <1>1 DEF Init, IInv, TypeOK, NamesItsObject, FilesOK, Copied

\* A step that changes nothing.
LEMMA StutterInv == IInv /\ UNCHANGED vars => IInv' /\ Keeps
BY DEF IInv, TypeOK, NamesItsObject, FilesOK, Copied, vars, Keeps, Fits, FitsFile

\* An insertion into the memory database, while a loop may run.
LEMMA MemInsertInv ==
  ASSUME IInv, NEW key \in Keys, NEW v \in Values, Fits(key, v), MemPut(key, v),
         UNCHANGED <<loose, loop, stopped>>
  PROVE  IInv' /\ Keeps
<1>1. /\ DOMAIN mem' = DOMAIN mem \cup {key}
      /\ DOMAIN mem' \subseteq Keys /\ \A k \in DOMAIN mem' : mem'[k] \in Values
      /\ NamesItsObject'
      /\ \A k \in DOMAIN mem : mem'[k] = mem[k]
  BY MemPutInv
<1>2. TypeOK'
  BY <1>1 DEF TypeOK, IInv, loop
<1>3. FilesOK' /\ Copied'
  BY <1>1 DEF FilesOK, Copied, IInv, loop
<1> QED BY <1>1, <1>2, <1>3 DEF IInv, Keeps

\* An insertion into the loose database, while a loop may run.
LEMMA LooseInsertInv ==
  ASSUME IInv, NEW key \in Keys, NEW v \in Values, LoosePut(key, v),
         UNCHANGED <<mem, loop>>, stopped' \in BOOLEAN,
         Fits(key, v) \/ (v.data = "none" /\ key = NullKey)
  PROVE  IInv' /\ Keeps
<1>1. /\ DOMAIN loose' = DOMAIN loose \cup {key}
      /\ DOMAIN loose' \subseteq Keys
      /\ \A k \in DOMAIN loose' : loose'[k] \in Values \cup {Blank}
      /\ NamesItsObject' /\ FilesOK'
      /\ \A k \in DOMAIN loose : loose'[k] = loose[k]
  BY LoosePutInv
<1>2. TypeOK'
  BY <1>1 DEF TypeOK, IInv, loop
<1>3. Copied'
  BY <1>1 DEF Copied, IInv, loop
<1> QED BY <1>1, <1>2, <1>3 DEF IInv, Keeps

\* Insertions by a client.
LEMMA InsertInv == IInv /\ Insert => IInv' /\ Keeps
<1> SUFFICES ASSUME IInv, Insert PROVE IInv' /\ Keeps
  OBVIOUS
<1>1. PICK o \in Objects :
        \/ MemInsert(o) \/ MemInsertKeyed(o)
        \/ LooseInsert(o) \/ LooseInsertKeyed(o) \/ LooseInsertObject(o)
  BY DEF Insert
<1>2. Inputs(o) \subseteq Values /\ Whole(o) \in Values
  BY ValuesOf
<1>3. \A v \in Values : Hash(v) \in Keys
  BY DEF Keys
<1>4. NullKey \in Keys /\ stopped \in BOOLEAN
  BY DEF Keys, IInv, TypeOK
<1>5. CASE MemInsert(o)
  <2>1. PICK v \in Inputs(o) : MemPut(MemHash(v), v)
    BY <1>5 DEF MemInsert
  <2> QED BY <2>1, <1>2, <1>3, <1>5, MemInsertInv DEF MemInsert, MemHash, Fits
<1>6. CASE MemInsertKeyed(o)
  BY <1>2, <1>3, <1>6, MemInsertInv DEF MemInsertKeyed, Fits
<1>7. CASE LooseInsert(o)
  <2>1. PICK v \in Inputs(o) : LoosePut(LooseHash(v), v)
    BY <1>7 DEF LooseInsert
  <2>2. LooseHash(v) \in Keys /\ (Fits(LooseHash(v), v) \/ (v.data = "none" /\ LooseHash(v) = NullKey))
    BY <1>2, <1>3, <1>4 DEF LooseHash, Fits
  <2>3. UNCHANGED <<mem, loop>> /\ stopped' \in BOOLEAN
    BY <1>4, <1>7 DEF LooseInsert
  <2> QED BY <2>1, <2>2, <2>3, <1>2, LooseInsertInv
<1>8. CASE LooseInsertKeyed(o)
  <2>1. UNCHANGED <<mem, loop>> /\ stopped' \in BOOLEAN
    BY <1>4, <1>8 DEF LooseInsertKeyed
  <2>2. LoosePut(Hash(Whole(o)), Whole(o)) /\ Fits(Hash(Whole(o)), Whole(o))
    BY <1>8 DEF LooseInsertKeyed, Fits
  <2> QED BY <2>1, <2>2, <1>2, <1>3, LooseInsertInv
<1>9. CASE LooseInsertObject(o)
  <2>1. CASE o \in Empty
    BY <2>1, <1>9 DEF LooseInsertObject, loop, IInv, TypeOK, NamesItsObject,
                      FilesOK, Copied, Keeps, Fits, FitsFile
  <2>2. CASE o \notin Empty
    <3>1. LooseHash(Whole(o)) = Hash(Whole(o))
      BY <2>2 DEF LooseHash, Whole
    <3>2. UNCHANGED <<mem, loop>> /\ stopped' \in BOOLEAN
      BY <2>2, <1>4, <1>9 DEF LooseInsertObject
    <3>3. LoosePut(Hash(Whole(o)), Whole(o)) /\ Fits(Hash(Whole(o)), Whole(o))
      BY <2>2, <3>1, <1>9 DEF LooseInsertObject, Fits
    <3> QED BY <3>2, <3>3, <1>2, <1>3, LooseInsertInv
  <2> QED BY <2>1, <2>2
<1> QED BY <1>1, <1>5, <1>6, <1>7, <1>8, <1>9

\* What the loop over the memory database visits next.
LEMMA FromNext ==
  ASSUME TypeOK, NEW n \in Nat, NEW x \in From(n)
  PROVE  /\ x = End \/ (x \in DOMAIN mem /\ x >= n)
         /\ \A k \in DOMAIN mem : (x = End \/ k < x) => k < n
<1>1. DOMAIN mem \subseteq Nat
  BY KeysNat DEF TypeOK
<1> DEFINE keys == {j \in DOMAIN mem : j >= n}
<1>2. CASE keys = {}
  <2>1. ASSUME NEW k \in DOMAIN mem PROVE k < n
    <3>1. k \in Nat /\ ~ (k >= n)
      BY <1>1, <1>2
    <3> QED BY <3>1
  <2> QED BY <1>2, <2>1 DEF From
<1>3. CASE keys # {}
  <2>1. x \in keys /\ \A i \in keys : x <= i
    BY <1>3 DEF From
  <2>2. x # End
    BY <2>1, EndAssumption DEF TypeOK
  <2>3. ASSUME NEW k \in DOMAIN mem, k < x PROVE k < n
    BY <1>1, <2>1, <2>3
  <2> QED BY <2>1, <2>2, <2>3
<1> QED BY <1>2, <1>3

\* The loop over the memory database.
LEMMA DumpInv ==
  IInv /\ (DumpBegin \/ DumpStep \/ DumpEnd) => IInv' /\ Keeps
<1> SUFFICES ASSUME IInv, DumpBegin \/ DumpStep \/ DumpEnd PROVE IInv' /\ Keeps
  OBVIOUS
<1>0. TypeOK /\ DOMAIN mem \subseteq Nat /\ 0 \in Nat
  BY KeysNat DEF IInv, TypeOK
<1>1. CASE DumpBegin
  <2>1. /\ at' = End \/ at' \in DOMAIN mem
        /\ \A k \in DOMAIN mem : (at' = End \/ k < at') => k < 0
    BY <1>0, <1>1, FromNext DEF DumpBegin
  <2>2. Copied'
    BY <1>0, <1>1, <2>1 DEF DumpBegin, Copied
  <2> QED BY <1>1, <2>1, <2>2 DEF DumpBegin, IInv, TypeOK, NamesItsObject, FilesOK, Keeps, Fits, FitsFile
<1>2. CASE DumpStep
  <2>1. at \in DOMAIN mem /\ mem[at] \in Values /\ at \in Keys /\ Fits(at, mem[at]) /\ at + 1 \in Nat
    BY <1>0, <1>2 DEF DumpStep, IInv, TypeOK, NamesItsObject
  <2>2. LoosePut(at, mem[at]) /\ UNCHANGED mem
    BY <1>2 DEF DumpStep
  <2>3. /\ DOMAIN loose' = DOMAIN loose \cup {at}
        /\ DOMAIN loose' \subseteq Keys
        /\ \A k \in DOMAIN loose' : loose'[k] \in Values \cup {Blank}
        /\ NamesItsObject' /\ FilesOK'
        /\ \A k \in DOMAIN loose : loose'[k] = loose[k]
    BY <2>1, <2>2, LoosePutInv
  <2>4. /\ at' = End \/ at' \in DOMAIN mem
        /\ \A k \in DOMAIN mem : (at' = End \/ k < at') => k < at + 1
    BY <1>0, <1>2, <2>1, FromNext DEF DumpStep
  <2>5. TypeOK'
    BY <1>2, <2>3, <2>4 DEF DumpStep, IInv, TypeOK
  <2>6. Copied'
    <3>1. start' = start /\ copy' = "dump" /\ mem' = mem /\ copy = "dump"
      BY <1>2 DEF DumpStep
    <3>2. ASSUME NEW k \in start, at' = End \/ k < at' PROVE k \in DOMAIN loose'
      <4>1. k \in DOMAIN mem /\ k < at + 1
        BY <2>4, <3>1, <3>2 DEF IInv, Copied
      <4>2. k = at \/ k < at
        BY <1>0, <2>1, <4>1
      <4> QED BY <2>3, <3>1, <4>2 DEF IInv, Copied
    <3> QED BY <3>1, <3>2 DEF IInv, Copied
  <2> QED BY <2>2, <2>3, <2>5, <2>6 DEF IInv, Keeps
<1>3. CASE DumpEnd
  BY <1>3 DEF DumpEnd, IInv, TypeOK, NamesItsObject, FilesOK, Copied, Keeps, Fits, FitsFile
<1> QED BY <1>1, <1>2, <1>3

\* The loop over the loose database.
LEMMA LoadInv ==
  IInv /\ (LoadBegin \/ (\E k \in Keys : LoadStep(k)) \/ LoadEnd) => IInv' /\ Keeps
<1> SUFFICES ASSUME IInv, LoadBegin \/ (\E k \in Keys : LoadStep(k)) \/ LoadEnd
             PROVE  IInv' /\ Keeps
  OBVIOUS
<1>1. CASE LoadBegin
  BY <1>1 DEF LoadBegin, IInv, TypeOK, NamesItsObject, FilesOK, Copied, Keeps, Fits, FitsFile
<1>2. ASSUME NEW k \in Keys, LoadStep(k) PROVE IInv' /\ Keeps
  <2>1. CASE loose[k] = Blank
    BY <1>2, <2>1 DEF LoadStep, IInv, TypeOK, NamesItsObject, FilesOK, Copied, Keeps, Fits, FitsFile
  <2>2. CASE loose[k] # Blank
    <3> DEFINE v == loose[k]
    <3>1. k \in DOMAIN loose /\ v \in Values /\ Fits(k, v) /\ v.data # "none"
      BY <1>2, <2>2 DEF LoadStep, IInv, TypeOK, NamesItsObject, FilesOK, FitsFile
    <3>2. v.obj \in Objects /\ (v = Whole(v.obj) \/ v = Cut(v.obj))
      BY <3>1 DEF Values, Whole, Drained, Cut
    <3>3. Streamed(v) \in Values /\ Fits(k, Streamed(v))
      <4>1. CASE v.obj \in Long
        <5>1. Streamed(v) = Cut(v.obj) /\ Cut(v.obj).obj = v.obj
          BY <4>1 DEF Streamed, Cut
        <5> QED BY <3>1, <3>2, <4>1, <5>1, ValuesOf DEF Fits
      <4>2. CASE v.obj \notin Long
        BY <3>1, <4>2 DEF Streamed
      <4> QED BY <4>1, <4>2
    <3>4. /\ MemPut(k, Streamed(v)) /\ UNCHANGED loose
          /\ visited' = visited \cup {k}
          /\ UNCHANGED <<copy, at, start, stopped>> /\ copy = "load"
      BY <1>2, <2>2 DEF LoadStep
    <3>5. /\ DOMAIN mem' = DOMAIN mem \cup {k}
          /\ DOMAIN mem' \subseteq Keys /\ \A j \in DOMAIN mem' : mem'[j] \in Values
          /\ NamesItsObject'
          /\ \A j \in DOMAIN mem : mem'[j] = mem[j]
      BY <3>3, <3>4, MemPutInv
    <3>6. TypeOK'
      BY <3>1, <3>4, <3>5 DEF IInv, TypeOK
    <3>7. FilesOK' /\ Copied'
      BY <3>4 DEF IInv, FilesOK, Copied
    <3> QED BY <3>4, <3>5, <3>6, <3>7 DEF IInv, Keeps
  <2> QED BY <2>1, <2>2
<1>3. CASE LoadEnd
  BY <1>3 DEF LoadEnd, IInv, TypeOK, NamesItsObject, FilesOK, Copied, Keeps, Fits, FitsFile
<1> QED BY <1>1, <1>2, <1>3

\* Every step keeps the invariant, and what the databases have.
LEMMA StepInv == IInv /\ [Next]_vars => IInv' /\ Keeps
BY InsertInv, DumpInv, LoadInv, StutterInv DEF Next, Copy, Stops

\* A loop that ends has copied what its source had.
LEMMA EndsComplete ==
  IInv /\ [Next]_vars =>
    /\ copy = "dump" /\ copy' = "none" => start \subseteq DOMAIN loose'
    /\ copy = "load" /\ copy' = "none" => start \subseteq DOMAIN mem'
<1> SUFFICES ASSUME IInv, [Next]_vars, copy # "none", copy' = "none"
             PROVE  /\ copy = "dump" => start \subseteq DOMAIN loose'
                    /\ copy = "load" => start \subseteq DOMAIN mem'
  OBVIOUS
<1>1. DumpEnd \/ LoadEnd
  <2>1. ~ UNCHANGED copy
    OBVIOUS
  <2> QED BY <2>1 DEF Next, vars, loop, Stops, Copy, Insert, DumpBegin, DumpStep,
                      LoadBegin, LoadStep, MemInsert, MemInsertKeyed, LooseInsert,
                      LooseInsertKeyed, LooseInsertObject
<1>2. CASE DumpEnd
  BY <1>2 DEF DumpEnd, IInv, Copied
<1>3. CASE LoadEnd
  BY <1>3 DEF LoadEnd, IInv, TypeOK
<1> QED BY <1>1, <1>2, <1>3

\* A step puts at most one value into each database.
LEMMA StepPuts ==
  IInv /\ [Next]_vars =>
    /\ UNCHANGED mem \/ \E k \in Keys, v \in Values : MemPut(k, v)
    /\ UNCHANGED loose \/ \E k \in Keys, v \in Values : LoosePut(k, v)
<1> DEFINE MemPuts   == UNCHANGED mem \/ \E k \in Keys, v \in Values : MemPut(k, v)
           LoosePuts == UNCHANGED loose \/ \E k \in Keys, v \in Values : LoosePut(k, v)
<1> SUFFICES ASSUME IInv, [Next]_vars PROVE MemPuts /\ LoosePuts
  OBVIOUS
<1>1. \A v \in Values : Hash(v) \in Keys
  BY DEF Keys
<1>2. NullKey \in Keys
  BY DEF Keys
<1>3. CASE Insert
  <2>1. PICK o \in Objects :
          \/ MemInsert(o) \/ MemInsertKeyed(o)
          \/ LooseInsert(o) \/ LooseInsertKeyed(o) \/ LooseInsertObject(o)
    BY <1>3 DEF Insert
  <2>2. Inputs(o) \subseteq Values /\ Whole(o) \in Values
    BY ValuesOf
  <2>3. CASE MemInsert(o) \/ MemInsertKeyed(o)
    BY <2>2, <2>3, <1>1 DEF MemInsert, MemInsertKeyed, MemHash
  <2>4. CASE LooseInsert(o)
    <3>1. PICK v \in Inputs(o) : LoosePut(LooseHash(v), v)
      BY <2>4 DEF LooseInsert
    <3>2. v \in Values /\ LooseHash(v) \in Keys
      BY <2>2, <1>1, <1>2 DEF LooseHash
    <3> QED BY <2>4, <3>1, <3>2 DEF LooseInsert
  <2>5. CASE LooseInsertKeyed(o)
    BY <2>2, <2>5, <1>1 DEF LooseInsertKeyed
  <2>6. CASE LooseInsertObject(o)
    <3>1. LooseHash(Whole(o)) \in Keys
      BY <2>2, <1>1, <1>2 DEF LooseHash
    <3> QED BY <2>2, <2>6, <3>1 DEF LooseInsertObject
  <2> QED BY <2>1, <2>3, <2>4, <2>5, <2>6
<1>4. CASE DumpStep
  <2>1. at \in Keys /\ mem[at] \in Values
    BY <1>4 DEF DumpStep, IInv, TypeOK
  <2> QED BY <1>4, <2>1 DEF DumpStep
<1>5. ASSUME NEW k \in Keys, LoadStep(k) PROVE MemPuts /\ LoosePuts
  <2>1. CASE loose[k] = Blank
    BY <1>5, <2>1 DEF LoadStep
  <2>2. CASE loose[k] # Blank
    <3>1. loose[k] \in Values
      BY <1>5, <2>2 DEF LoadStep, IInv, TypeOK
    <3>2. loose[k].obj \in Objects
      BY <3>1 DEF Values, Whole, Drained, Cut
    <3>3. Streamed(loose[k]) \in Values
      BY <3>1, <3>2, ValuesOf DEF Streamed
    <3> QED BY <1>5, <2>2, <3>3 DEF LoadStep
  <2> QED BY <2>1, <2>2
<1>6. CASE DumpBegin \/ DumpEnd \/ LoadBegin \/ LoadEnd \/ UNCHANGED vars
  BY <1>6 DEF DumpBegin, DumpEnd, LoadBegin, LoadEnd, vars
<1> QED BY <1>3, <1>4, <1>5, <1>6 DEF Next, Copy, Stops

\* What is put into the memory database is published in the object store, or
\* changes nothing.
LEMMA MemPublishes ==
  ASSUME IInv, IInv', UNCHANGED mem \/ \E k \in Keys, v \in Values : MemPut(k, v)
  PROVE  [MemAbs!Next]_(MemAbs!vars)
<1> DEFINE store == [k \in Keys |-> IF k \in DOMAIN mem THEN mem[k] ELSE End]
<1>1. CASE UNCHANGED mem
  BY <1>1 DEF MemAbs!vars
<1>2. ASSUME NEW key \in Keys, NEW v \in Values, MemPut(key, v)
      PROVE  [MemAbs!Next]_(MemAbs!vars)
  <2>1. /\ DOMAIN mem' = DOMAIN mem \cup {key}
        /\ \A j \in DOMAIN mem : mem'[j] = mem[j]
        /\ key \in DOMAIN mem \/ mem'[key] = v
    BY <1>2 DEF MemPut, Added
  <2>2. CASE key \in DOMAIN mem
    <3>1. store' = store
      BY <2>1, <2>2
    <3> QED BY <3>1 DEF MemAbs!vars
  <2>3. CASE key \notin DOMAIN mem
    <3>1. store[key] = End
      BY <2>3
    <3>2. <<key, v>> \in {p \in Keys \X Values : Fits(p[1], p[2])}
      BY <2>1, <2>3 DEF IInv, NamesItsObject
    <3>3. store' = [store EXCEPT ![key] = v]
      BY <2>1, <2>3
    <3>4. MemAbs!Publish(key, v)
      BY <3>1, <3>2, <3>3 DEF MemAbs!Publish, MemAbs!Fits
    <3> QED BY <3>4 DEF MemAbs!Next
  <2> QED BY <2>2, <2>3
<1> QED BY <1>1, <1>2

\* The same of the loose database, where a value without data is a blank file.
LEMMA LoosePublishes ==
  ASSUME IInv, IInv', UNCHANGED loose \/ \E k \in Keys, v \in Values : LoosePut(k, v)
  PROVE  [LooseAbs!Next]_(LooseAbs!vars)
<1> DEFINE store == [k \in Keys |-> IF k \in DOMAIN loose THEN loose[k] ELSE End]
<1>1. CASE UNCHANGED loose
  BY <1>1 DEF LooseAbs!vars
<1>2. ASSUME NEW key \in Keys, NEW v \in Values, LoosePut(key, v)
      PROVE  [LooseAbs!Next]_(LooseAbs!vars)
  <2> DEFINE w == IF v.data = "none" THEN Blank ELSE v
  <2>1. /\ DOMAIN loose' = DOMAIN loose \cup {key}
        /\ \A j \in DOMAIN loose : loose'[j] = loose[j]
        /\ key \in DOMAIN loose \/ loose'[key] = w
        /\ w \in Values \cup {Blank}
    BY <1>2 DEF LoosePut, Added
  <2> HIDE DEF w
  <2>2. CASE key \in DOMAIN loose
    <3>1. store' = store
      BY <2>1, <2>2
    <3> QED BY <3>1 DEF LooseAbs!vars
  <2>3. CASE key \notin DOMAIN loose
    <3>1. store[key] = End
      BY <2>3
    <3>2. <<key, w>> \in {p \in Keys \X (Values \cup {Blank}) : FitsFile(p[1], p[2])}
      <4>1. FitsFile(key, w)'
        BY <2>1, <2>3 DEF IInv, NamesItsObject
      <4>2. FitsFile(key, w)
        BY <2>1, <2>3 DEF IInv, NamesItsObject, FitsFile, Fits
      <4> QED BY <2>1, <4>2
    <3>3. store' = [store EXCEPT ![key] = w]
      BY <2>1, <2>3
    <3>4. LooseAbs!Publish(key, w)
      BY <3>1, <3>2, <3>3 DEF LooseAbs!Publish, LooseAbs!Fits
    <3> QED BY <2>1, <3>4 DEF LooseAbs!Next
  <2> QED BY <2>2, <2>3
<1> QED BY <1>1, <1>2

-----------------------------------------------------------------------------
(* Theorems.                                                               *)

\* The inductive invariant: databases whose keys name what they have, and a
\* loop that has copied everything up to its iterator.
THEOREM Invariance == Spec => []IInv
BY InitInv, StepInv, PTL DEF Spec

\* Type correctness of the two databases and the loops between them.
THEOREM TypeCorrect == Spec => []TypeOK
<1>1. IInv => TypeOK
  BY DEF IInv
<1> QED BY <1>1, Invariance, PTL

\* In both databases a key names the object that it was computed of, with the
\* exceptions that NamesItsObject lists (odb_mem::insert, odb_loose::insert).
THEOREM KeysCorrect == Spec => []NamesItsObject
<1>1. IInv => NamesItsObject
  BY DEF IInv
<1> QED BY <1>1, Invariance, PTL

\* Each database is an object store: it starts empty, and a step publishes at
\* most one object, which fits its key, and changes or removes none.
THEOREM StoresRefined == Spec => StoresSpec
<1>1. Init => MemAbs!Init /\ LooseAbs!Init
  BY DEF Init, NoValue, MemAbs!Init, LooseAbs!Init, MemAbs!NoView, LooseAbs!NoView
<1>2. IInv /\ IInv' /\ [Next]_vars =>
        [MemAbs!Next]_(MemAbs!vars) /\ [LooseAbs!Next]_(LooseAbs!vars)
  BY StepInv, StepPuts, MemPublishes, LoosePublishes
<1> QED BY <1>1, <1>2, Invariance, PTL DEF Spec, StoresSpec, MemAbs!Spec, LooseAbs!Spec

\* A copy is complete when its loop ends, with insertions in between.
THEOREM CopiesComplete == Spec => CopyComplete
<1>1. IInv /\ [Next]_vars =>
        [/\ copy = "dump" /\ copy' = "none" => start \subseteq DOMAIN loose'
         /\ copy = "load" /\ copy' = "none" => start \subseteq DOMAIN mem']_vars
  BY EndsComplete
<1> QED BY <1>1, Invariance, PTL DEF Spec, CopyComplete
=============================================================================
