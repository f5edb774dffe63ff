# Formal models of git++

git++ (C++0x, about 4000 lines) is a library of git's object model: objects
(blob, commit, tag, tree) that are serialised to streams, and object databases
that store such streams under their SHA-1.  `src/gtl/` holds the generic
templates (databases, iterators, hash filters), `src/git/` their instantiation
for git.  There are no threads inside the library; its concurrency is that of
several processes, threads or iterators that use one directory of loose
objects without a lock.

This directory holds TLA+ models of that code, the TLC configurations that
check them and TLAPS proofs about them.

## Inventory

| Component | Files | State | Operations | Modelled by |
|---|---|---|---|---|
| Promise of a database | `gtl/db/odb.hpp` | map from keys to immutable objects | `insert`, `object`, `has_object`, `begin` | `ObjectStore` (abstract) |
| Loose object database | `gtl/db/odb_loose.hpp` (`odb_loose`, `loose_accessor`), `gtl/util.hpp` (`temppath`) | files under the root; a path per accessor | `insert`, `insert_object`, `object`, `has_object`, `move_tmp_to_final` | `LooseStore` |
| Loose object streams | `odb_loose.hpp` (`header_filter`, `loose_object_*_stream`), `gtl/db/hash_generator_filter.hpp`, `git/db/util.cpp` | the filter chain: header pending or parsed, bytes hashed, the stream buffer | `write`, `pop`, `set_path`, `read`, `unget` | `LooseStream` |
| Output object | `odb_loose.hpp` (`odb_loose_output_object`), `git/db/policy.hpp` (`deserialize`) | path, `m_initialized`, `m_pstream` | `type`, `size`, `new_stream`, `stream`, `path`, `deserialize` | `LooseHandle` |
| SHA-1 generator | `git/db/sha1_gen.{h,cpp}` | bit counters, 64-byte buffer, flags, digest | `update`, `finalize`, `digest`, `hash`, `reset` | `Sha1Generator` |
| Loose iterator | `odb_loose.hpp` (`loose_forward_iterator`) | position in a recursive directory iteration, an output object | `begin`, `next`, `count` | `LooseIterator` on `LooseTree` and `LooseHandle` |
| Memory database | `gtl/db/odb_mem.hpp`, `git/db/odb_mem.h` | `std::map` | `insert`, `insert_object`, iteration | `DatabaseCopy` |
| Object interface and adapters | `gtl/db/odb_object.hpp`, `git/db/traits.hpp` | references to an output object and a key | copies between databases | `DatabaseCopy` |
| Policy | `git/db/policy.hpp` | none | dispatch on the type | `deserialize` in `LooseHandle` (streams) and `MultiObject` (members), `serialize` in `ObjectText` |
| Codecs | `git/obj/{blob,commit,tag,tree,stream,object}.*` | the object parsed into | `operator<<`, `operator>>` | `ObjectText`, `ObjectCodec` |
| Multi object | `git/obj/multiobj.*` | which member of a union lives | construct, deserialize, destroy | `MultiObject` on `ObjectCodec` |
| Hexadecimal keys | `gtl/util.hpp`, `gtl/db/hash.hpp`, `path_from_key`, `key()` | none | two conversions | `ObjectText` |
| Stubs | `gtl/db/odb_alloc.hpp`, `gtl/db/hash_generator_stream.hpp` | none | none | nothing to model |

How they interact: `insert` copies an input object's stream into a
`loose_object_output_stream`, which is the chain *header filter, hash filter,
zlib, file*; the hash filter feeds the SHA-1 generator; the digest names the
final file.  `object(key)` and the iterator return accessors, which hold an
output object, which opens a `loose_object_input_stream` (*file, zlib, header
filter*) when it is first asked; `deserialize` takes that stream and hands it
to a codec.  The only state that two users share is the file system.

What is hard here, and hard to test:

* **Racing insertions.**  The existence test, the creation of the temporary
  file, the creation of the directory, the test inside `fs::rename` and the
  `rename(2)` are separate steps.  Correct: no reader ever sees a partial or
  foreign file under a final name, and no stored object changes.
* **Crashes and unchecked errors.**  Nothing asks the sink whether it was
  opened or the stream whether everything was written.  Correct: what is
  acknowledged is stored; a failed insertion leaves the store as it was.
* **Temporary names** come from `tempnam`, which checks for them in another
  directory.
* **Ordering in the filter chain.**  The header goes out with the first write,
  is hashed with the data, and is parsed out of the first read, which reads
  ahead.  Correct: the bytes that are hashed are those of the file, and a
  client gets the data, all of it, in order.
* **Walking what grows.**  An iterator lists directories that insertions add
  files, directories and temporary files to.  Correct: it is at each object
  that was there at `begin`, at none twice, and at no temporary file.
* **Stale handles.**  An iterator changes the path under an object that has a
  stream open.  Correct: answers are about the current path, and a stream has
  one user.
* **Boundaries.**  Blocks, padding and the two 32-bit counters of the SHA-1
  generator; empty objects; the end of a stream.
* **Streams that end too early.**  A read that fails leaves the variable it
  should set as it was.  Correct: a parser ends, and does not take a part of an
  object for the object.
* **Values that are not what their key says.**  In both databases the first
  value of a key stays.  Correct: it is what the key was computed of, also
  after objects were copied from one database into the other.
* **Protocols.**  `update` after the digest was taken, `finalize` twice; a union
  whose destructor is called by hand and again by the compiler, after an
  exception in the middle of filling it.

`PROJECT.json` lists these hazards with the lines where they bite and the
properties that answer them.

## The modules

`ObjectStore` is the abstract specification: a partial map in which a key that
has no value may get one that fits it, once (`Publish`); insertions acknowledge
only stored keys (`Return`); accessors name stored keys and read what is stored
(`Find`, `Read`).

`LooseStore` is the loose database over a shared file system.  A writer's call
is a sequence of steps, `pc` being the next one; `job` holds its object,
whether it is `insert` without a key (`stream`), with one (`keyed`) or
`insert_object` (`object`), and its temporary name.

| Step (`pc`) | Actions | Code |
|---|---|---|
| `lookup` | `Lookup` | the test for an existing object, keyed insertion only |
| `open` | `OpenTmp`, `OpenFails` | `temppath()`, then the file sink; a failure is not noticed |
| `write` | `Write` | `io::copy` or `serialize` into the stream |
| `close` | `Close`, `CloseShort` | `flush()` and `pop()`; a failure is not noticed |
| `mkdir` | `AssertFails`, `MakeDir`, `MakeDirFails` | the assertion of `insert_object`, `fs::create_directory` |
| `rename` | `CheckTarget` | the first half of `fs::rename`, which in Boost.Filesystem 2 returns `file_exists` if the target is there |
| `replace` | `Rename`, `RenameFails` | the second half, `rename(2)`, which replaces the target |
| `discard` | `Discard` | `fs::remove(tmp_file)` |
| `return` | `Return` | the accessor is made of the final path |

A file is abstracted to the set of objects whose bytes were written into it and
a flag that its writing was completed, which is enough to tell a good file from
a partial one and from one that two writers share.  `loc` follows an open file
through renames, as a descriptor does: this is what makes the sharing of a
temporary name visible.  Empty objects write no byte, and so have neither header
nor hash: they are all the same image under the null key.  `Faults` says which
failures the environment may cause: `crash`, `open`, `mkdir`, `short` (the last
bytes do not reach the disk) and `collide` (two live writers draw one temporary
name).  A key that a caller supplies is taken to be the object's hash.

`LooseStream` is one object's way through the chains, byte by byte: data bytes
are their positions and header bytes negative numbers, so that loss, repetition
and mixing of bytes show.  zlib and the file are lossless and left out.
`Refill` translates the `bytes_handled = -1` of `header_filter::read`.

`LooseHandle` is the cached stream of an output object, whose path an iterator
changes; `opened` has the path that each stream reads, `given` and `taken` what
clients do with them.

`LooseTree` is the directory of a loose database as one sees it who lists it:
which directories, object files and temporary files exist.  `LooseStore`
implements it (`TreeSpec`, checked and proved), and `LooseIterator` walks it, so
that the iterator is checked against all that insertions may do, and not
against a guess.

`LooseIterator` composes the two: it is a `LooseHandle`, to whose object it
assigns paths, beside a `LooseTree` in which insertions go on.  Below it is
Boost's `recursive_directory_iterator`, which is external: one stream of the
root and one of the directory it is in.

| Action | Code |
|---|---|
| `Begin` | the constructor: `m_iter(root)` takes the first entry, and `next()` passes it; of an empty root `next()` increments the end iterator, phase `undefined` |
| `Increment` | `++it`, which is `next()` |
| `ReadRoot`, `ReadSub` | `++m_iter` to the next entry of a stream, and the body of the loop (`LookAt`): a file with the name of an object is assigned to the path, and ends the loop |
| `Descend`, `LeaveSub`, `LeaveRoot` | `++m_iter` where it opens a directory, or a stream is at its end |
| `Insertion` | a step of `LooseTree` |
| `Client` | a call on the object, or on a stream it gave |

A stream gives each entry once that is there from its opening to its end; it
may or may not give one that comes or goes meanwhile (POSIX leaves that open).
`others` are files that no insertion made.  `IsObjectName` is the test of the
code, which halves the lengths, and `HasKey` whether `key()` can make a hash of a
file's path, which needs every digit.

`Sha1Generator` is the buffering of the SHA-1 generator; a compressed block is
kept as its bytes, so that the digest is the sequence of bytes that went
through `transform`.  Its word and block widths are constants.

`ObjectText` has the texts that the `operator <<` of the four kinds of objects
write, as sequences of tokens, and the conversions of keys, modes and offsets.
`ObjectCodec` is the `operator >>` of each: a machine whose `phase` names the
next statement that reads.  `Write` cuts the text behind any token; `bad` is the
stream's failbit; `tmp` and `elem.c` are the variables that the parsers compare
and that a failed read leaves alone.  The destination may be an object that was
used before.  An author, committer or tagger is six tokens: the name up to the
`<`, the email up to the `>`, and of the time and of the offset the beginning
and the rest.  `ReadStamp` gives what each of the three reads leaves where the
text ends: `getline` takes what there is of an email (`Part`), a number is read
as far as its digits go (`FirstDigits`, `ZoneStarts`) or stays what it was. Only
a text without the `<` makes it throw (`StampOrThrow`).

| Parser | Actions | Code |
|---|---|---|
| commit | `CommitTree`, `CommitTreeKey`, `CommitParents`, `CommitParent`, `CommitAuthor`, `CommitCommitter`, `CommitCommit`, `CommitSeparator`, `CommitEncoding`, `CommitMessage` | `commit.cpp`, in the order of its statements |
| tag | `TagObject`, ... , `TagMessage` | `tag.cpp` |
| tree | `TreeNext`, `TreeMode`, `TreeElement` | the outer loop, the loop over the mode's digits, and the rest of an element |
| blob | `BlobData` | `blob.cpp` |

`MultiObject` is the union of the four kinds around these parsers.
`Construct` is the placement new of `deserialize`, in one step with what is
read of the text (`Deserialize`); `HeaderThrows` and `ReserveThrows` are the
exceptions before the member and between it and the parser.  `Destroy` is the
destructor, by hand or at the end of the scope, and `Again` the next use of the
union.  A client that deserializes twice without the call loses the first
object; the comment on the destructor rules that out, and so does `Construct`'s
place after `Destroy`.

`DatabaseCopy` puts the memory database beside a loose one.  A value is an
object with what was read of its data (`whole`, `none`, or `cut` as a loose
stream reads long objects); a key is the hash of a value.  `MemInsert` and
`LooseInsert` take a stream that may have been read before, the `Keyed` ones a
key and a rewound stream.  `DumpBegin`, `DumpStep`, `DumpEnd` are the loop over
the map, which the code's comment on `MemoryODB` is about ("quickly cache objects
in memory to later dump them to disk at once"), and `LoadBegin`, `LoadStep`,
`LoadEnd` the one over the loose database.  The client inserts into both between
any two steps of a loop.  A loose insertion is one step there, which the
refinement of `ObjectStore` by `LooseStore` permits.

The modules that begin with `MC` give the constants functions and objects;
`LooseHandle` alone and `Sha1Generator` are small enough for a `.cfg`.  The
modules that end in `Proofs` hold the proofs, and `Recursion` lemmas on
induction.

An operator whose comment begins with *mutant* is not part of a specification.
It is a wrong version of the definition below it, put in its place to see that
a property notices.

## What is checked

| Run | Instance | Shows |
|---|---|---|
| `loose_faults` | 2 writers, 1 reader, 2 objects of which one is empty, 2 temporary names; crashes, files that cannot be opened, directories that cannot be made | type and inductive invariant; final names only have complete files of their own key; a dropped file equals the kept one; acknowledged objects and accessors stay good; no stored object changes; `LooseStore` implements `ObjectStore` and `LooseTree` |
| `loose_live` | 2 writers, 2 objects, short writes, fairness | every insertion ends, with its object stored and acknowledged; no temporary file is left behind |
| `loose_stream` | sizes 0 to 18, header of 2 or 3 bytes, 3 bytes to parse it, a buffer of 5 | the hash is that of the file; header bytes never reach a client; order is kept; an object that fits the buffer is read back; reading ends |
| `loose_iterator` | 2 objects in 2 directories, a temporary file, a file that no insertion made and whose name is a character too long, 2 streams; fairness | answers are about the current path and streams have one user, however the iterator moves; the iterator is at all that was there, at none twice, of the files that insertions make at objects only; a loop over the database ends |
| `codec` | 15 objects with offsets of 0, -1, +-200, +-32767 and -32768, modes of 0, five, six and seven digits, zero to three parents, with and without message and encoding; each also parsed into each other one of its kind; texts cut behind every token, which includes cuts within emails, times and offsets; two uses of a union, with exceptions; fairness | what was written is read back; a part of a text is only accepted behind what makes the object, or, of a tag, within the tagger's email, time or offset, and then the stream has failed; a parser ends unless the text is cut in one of two loops; the type of a union names the one member that lives |
| `database_copy` | 3 objects: an ordinary, a long and an empty one; 7 keys and the null key | keys name what they were computed of; each database implements `ObjectStore`, so that nothing stored changes; a finished copy is complete; the loop over the map ends |
| `sha1` | 8-byte blocks, 8-bit words, pieces of 0, 1, 3, 8, 13, 37, 254 bytes, up to 300 in all | nothing is lost, the digest is the standard padding, the buffer is only overrun by a wrapping length, a digest is final |

Five runs end in a violation, each of a sentence of the repository:

| Run | Property | Disagreement |
|---|---|---|
| `loose_empty` | `NullKeyUnused` | `insert_object` asserts that the hash is not null, and the tests require that the null key has no object; an object that serialises to no byte is stored under it by `insert`, because the header is only written by a first `write` |
| `loose_iterator_odd` | `KeyConstructible` | the iterator verifies names, as "it must be possible to construct a key from it", and the tests ask every entry for its key; half the length is compared, so that it stops at a name of 39 characters, of which `key()` throws |
| `codec_truncated` | `ParseEnds` | "if we are at the end, abort this"; the loop over a mode's digits does not look at the stream and never ends if the text breaks off there; the loop over a commit's parents does the same behind `parent` |
| `loose_stream_long` | `ReadsBack` | "bytes not belonging to the header will be returned again during normal reads"; every refill of the buffer after the first loses its last byte |
| `loose_handle_moved` | `DeserializesOne` | streams "are being released automatically as the object then points to a different path"; after a step of the iterator `deserialize` parses the previous object's data as the new object's type |

### Bounds

* Two writers are enough for every race in which one writer's step falls
  between two steps of another; the proofs cover any number.  Two temporary
  names let one be left by a crash and be drawn again.  Two objects let
  writers race on one object and on different ones; two of the keys share a
  directory in `loose_live` and, with the null key, in `loose_faults`.
* `LooseStream` needs sizes on both sides of the parse buffer, of the stream
  buffer and of two refills; 18 data bytes are more than four buffers.
* `LooseHandle` and `LooseIterator`: two streams, of which one may be the
  object's and one a client's; two objects in two directories tell current from
  previous, and let the walk leave one directory for the other.  Names have the
  lengths 38, 39, 11 and 2, as those of the code's files and directories do;
  the root's name is as long as that of a directory of objects.
* `ObjectCodec`: the objects cover each branch of each parser and both sides of
  each limit.  A key has two bytes, which does not matter to a token.
  `MaxParents` bounds the parents that the endless loop collects; it is more
  than any object has.  `ModeBits` is 24 in the run, as TLC's integers have no
  32 bits; no mode that is written needs more than 24.
* `MaxUses` bounds the uses of a union: the second sees what the first left.
* `DatabaseCopy`: one object of each sort, and one iteration at a time.
* `Sha1Generator`: 254 is within a block of the word, so that
  `j + uLen` wraps; 300 bytes are more than nine overflows of the low
  counter.  `MaxTotal` bounds the message.  The property of the padding needs
  words that are multiples of 8 bits, as they are.
* Nothing else is bounded.  `loose_faults` uses symmetry of writers and of
  names; none of its properties is a liveness property.  Deadlock is checked
  everywhere.  The stream model rests in `Done` when an object was read.

### Fairness

`LooseStore!FairSpec` assumes weak fairness of each writer's `Progress`: the
code of an insertion is straight-line, has no lock and no loop that waits, so a
thread that the operating system runs takes its next step.  Failures, calls and
readers are not fair.  `LooseStream!FairSpec` assumes that a client that writes
or reads goes on until the end, which `io::copy` does.  `MultiFairSpec` and
`DatabaseCopy!FairSpec` assume that a parser and the loop over the map, which are
sequential code, are run on.  `IterFairSpec` assumes that a loop over a loose
database, once begun, goes on, as that of `count()` does; insertions and clients
are not fair.  Its end needs one thing more, which `CountEnds` states: each
insertion makes a temporary file, which the listing may give, so a loop
comes to its end only if that stops at some time.

## What is proved

For every value of the constants that satisfies the named assumptions:

* `LooseStoreProofs`, if writes do not fall short and temporary names do not
  collide (`CleanWrites`; both are needed: with `short` or `collide` added to
  its `Faults`, the run `loose_faults` reports `IInv`.  After a short write,
  which nobody notices, a short and a complete file of one key may meet, and
  either may be dropped for the other).  Crashes and failures to open files or
  to make directories are allowed, for any number of writers, readers, objects
  and names: `TypeCorrect`, `StoredCorrect`, `DiscardSafe`, `AckedStored`,
  `AccessorsCorrect`, `Immutable`, `Refinement` (`Spec => AbsSpec`) and
  `TreeRefinement` (`Spec => TreeSpec`).  `NothingLeft` (no temporary file
  without its writer) needs more: no fault but a file that cannot be opened, and
  no empty object, at which `insert_object` stops in its assertion with the file
  already there.  The run `loose_live` checks it under short writes.
* `LooseIteratorProofs`: of the handle, `HandleTypes`, `AnswersCorrect` and
  `OwnershipCorrect`, for any number of paths and streams; `ObjectRefinement`
  (an iterator's object is a `LooseHandle`), from which `IteratorAnswers` and
  `IteratorOwnership` follow; `IteratorTypes`, `IteratorStopsAtStored` (which
  leaves open at which files of no insertion the iterator stops),
  `IteratorComplete` and `IteratorVisitsOnce`, for any number of objects,
  directories, temporary and other files and any insertions.
* `LooseStreamProofs`: `StreamTypes`, `HashIsOfFile`, `OrderKept` and
  `SmallComplete`, for objects of any size, headers and buffers of any length
  that fit each other, and any cut of the data into writes and reads.
* `Sha1GeneratorProofs`: `DigestCorrect` (the digest is that of the message as
  the standard pads it), `OverrunBounded`, `DigestKept`, `TypesOfGenerator`, and
  `MessageKept` for messages whose number of bits fits the two counters
  (`Countable`), for words and blocks of any width that fit each other, those of
  the code among them.
* `ObjectCodecProofs`: `CodecTypes`, `CodecReadsBack` and `CodecAcceptsSound`
  (`TypeOK`, `RoundTrip`, `AcceptedSound`), for any commits, tags, trees and
  blobs, any number of parents, elements and pieces of a message, modes of any
  width, and a text that is cut behind any token or within an email, a time or
  an offset; `HexInverse` and
  `PathInverse`, for keys and prefixes of any length.
* `MultiObjectProofs`: `UnionCorrect`, for any objects and number of uses, and
  the codec's three properties in every use of a union (`ParsedTypes`,
  `ReadsBack`, `AcceptsSound`), with the exceptions before and between them.
* `DatabaseCopyProofs`: `TypeCorrect`, `KeysCorrect`, `CopiesComplete` and
  `StoresRefined` (`Spec => StoresSpec`), for any objects, of which any may be
  empty or long.

The assumptions, each named where its constants are declared: a hash identifies
its object (`ObjectAssumption`, of the store and of the copies); temporary names
are not key names (`PathAssumption`); `None` is not a value (`NoneAssumption`);
the end of an iteration is no key (`EndAssumption`); temporary and other files
are no objects, and an object's name has the length that the iterator looks for,
but a temporary one has not (`FileAssumption`, `LengthAssumption`); an object of
the codecs has the fields of its C++ class, with offsets that are shorts, modes
of `ModeBits` bits and an ordered map of elements (`SubjectAssumption`, in which
names are numbers, for their order, and no encoding is empty), `MaxParents`
leaves room for the parents of two of the commits (`BoundAssumption`), and
`None` is neither a key nor an object (`NameAssumption`, which also says that
the empty name is not the word "encoding"); a header fits the buffer that it is
parsed from, which is smaller than that of the stream (`BufferAssumption`); a
word is a multiple of a block's bits and holds more than one block
(`WidthAssumption`).

The argument for the store.  "Every stored file is a complete image of an
object of its key" is not inductive: `Rename` stores whatever the temporary
file contains.  `IInv` adds what that file contains at each step of its writer
(`TmpContent`: blank, then the object's bytes, then the complete image, or
nothing if the file could not be opened), that no other live writer has the
same name (`TmpsDistinct`), that a file is open only while it is written
(`JobValid`), and that a writer about to drop its file or to return has its
object stored (`DestPresent`).  Then a rename stores `Image(obj)`; and because
a key determines the image (`SameKeySameImage`: hashes are injective, and all
objects under the null key have the same empty image), a rename over an
existing file does not change the map.  So of all the steps only the
rename onto a free name is a `Publish`, and the rest are `Return`, `Find`,
`Read`, `Release` or stuttering.  Most actions of a writer change nothing but
its own state and its temporary file: `OwnStep` proves the invariant for all of
those at once.  `NothingLeft` adds `TInv`: at the rename the directory is there,
so that it cannot fail, and a writer gives its name up only when the file is
gone.

The handle's properties are inductive together with its type invariant, which
says that the streams that exist are the own one and those of the clients.

For the iterator, `WInv` says of each object that was there at `begin()` that it
is `Pending` or visited: pending in the stream of the directory that is walked
or about to be, or in a directory that the root's stream still has to give.  The
insertions keep this because a rename over a name that exists leaves its entry
alone.  `GivenOnce` says of each visited file that no open stream will give it
again.

For the streams, `FInv` says that the file is the header and then the data
written so far, and that what was hashed is the file (`Framed`).  `RInv` says of
what the client has and what is available to it, put together, that it is an
ordered part of the data: `Take` only moves the border between the two, and
`Refill`, which loses a byte, appends a later window of the file.

For the generator, `Counts` says that the two counters together are eight times
the number of bytes, carry included, and `Holds` that blocks and buffer are the
message.  The low counter alone tells the position in the buffer because a
word is a multiple of a block (`Position`); `Cut` has the arithmetic of the first
copy, the whole blocks and the rest.  The zeros of `finalize` are a loop
(`Zeroed`), whose every round keeps `Counts` and `Holds` of a message that is one
zero longer; what the loop leaves is then known by induction over its rounds,
and `ZerosAfter` of them are those after which the count completes a block.

`Recursion` has the induction that this needs.  The library's rules take an
operator as a parameter, which the installed provers cannot instantiate;
`SetInduction` and `BoundedInduction` say the same of a set that a proof defines,
and `Iterates` says that a function defined by recursion exists and satisfies its
equation, from which the provers can work.

For the codecs, `RoundTrip` and `AcceptedSound` speak of the end of a parse
only.  `CodecInv` says for each phase of each parser where in the text it is and
what it has read until there, both unless the stream has failed: `CommitInv` and
`TagInv` by a place in the text that depends on the number of parents, `TreeInv`
by an element and a digit of its mode.  `SmoothInv` adds that nothing fails of a
whole text of an object that its text can express.  It is inductive because the
token at each place is known: `CommitWritten`, `TagWritten` and `TreeWritten`
say what stands where in a text, the last by induction over the elements
(`TreeMade`; `End(o, j)` is the place behind element j).  A mode is read back
because `elem.mode` is what is left of it when the digits that are still to come
are shifted out (`ModeReadOn`), for modes of at most six digits; an offset is,
if it is not the smallest short (`ZoneInverse`).  What `AcceptedSound` permits
to a tree is the invariant's `Lost`: one element that broke off, and none behind
it.  What it permits to a tagger comes from the one read that sets it: all of it
is right, or the stream has failed, which the rest of the parser does not take
back.

For the union, `UInv` adds to `MemberNamed` that there is no member whenever
there is something to deserialize.  The codec's invariant holds there too,
because a destructor and a constructor between two uses lead to where a codec
begins (`BeginsAgain`).

For the copies, `IInv` adds to the properties what a finished copy follows from
(`Copied`): of the keys that the source had at `begin()`, those before the
iterator are in the destination.  A step keeps this because the iterator goes to
the least key behind it (`FromNext`), and insertions only add keys.
`StoresRefined` needs only that each step puts at most values that fit under
keys that were free (`StepPuts`).

Model-checked only: the liveness properties `InsertEnds`, `InsertStores`,
`ReadEnds`, `CountEnds`, `ParseEndsElse` and `DumpEnds`, as the prover has no rule
for fairness and `ENABLED`.  Every safety property of a run is the subject of a
theorem.

## What is not modelled

* zlib, the C++ stream classes and Boost are external: their behaviour is as
  the code uses it.  The rounds of SHA-1 and collisions of it are not modelled.
* The directory streams below the iterator are external as well.  That an entry
  which is there from the opening of a stream to its end is given once, and that
  a rename over an existing name does not move its entry, is what POSIX and
  the usual file systems give, and nothing in the code.
* The file system orders its operations as they are called.  What a power
  failure does to data that was not synchronised is only present as `short`.
* A wrong key given by a caller; the data is not hashed in that case.
* The uncompressed header format, which the code leaves as a to-do.
* In the codecs: a text that breaks off within a token other than an email, a
  time or an offset; times of more than ten digits, of which `FirstDigits` does
  not give every beginning; names and emails that contain the characters they
  are delimited by; an encoding that is empty or contains white space, which
  `stream >> encoding` skips; and a type token that is none of the
  five.  Characters that are no hexadecimal digits in `fromhex`.
* A failure of `tempnam`, of which the code takes the length without a look.
* The store in the destructor of the union is taken to happen, which a compiler
  may leave out.
* The lifetime of the key that an adapter refers to.
* Copying generators, filters and handles.  The post-increment of the loose
  iterator, which does not compile.  The reuse of a hash filter after it was
  closed, which the loose database does not do.
* `odb_alloc.hpp` and `hash_generator_stream.hpp`, which implement nothing.

## Plan

Done, in this order: `ObjectStore`, `LooseStore` with its proofs,
`LooseStream`, `LooseHandle` with its proofs, `Sha1Generator`, `ObjectText` with
its proofs, `ObjectCodec`, `DatabaseCopy` with its proofs; `LooseTree` and
`LooseIterator` with their proofs, `MultiObject` with its proof, both databases
of `DatabaseCopy` as implementations of `ObjectStore`, the proofs of
`LooseStream`, of `Sha1Generator` with its digest, of `TemporariesOwned`, and of
`ObjectCodec` by itself and in a union.  To come:

1. The safety half of the liveness properties, as theorems: that an insertion
   that returned without a fault has its object stored under its own key, and
   that a parser which is at the end of its text is at one of the two loops or
   takes a step towards its end.

## Running

    tlc -config LooseStore_faults.cfg MCLooseStore.tla
    tlc -config LooseStore_live.cfg   MCLooseStore.tla
    tlc -config LooseStream.cfg       MCLooseStream.tla
    tlc -config LooseIterator.cfg     MCLooseIterator.tla
    tlc -config Sha1Generator.cfg     Sha1Generator.tla
    tlc -config ObjectCodec.cfg       MCObjectCodec.tla
    tlc -config DatabaseCopy.cfg      MCDatabaseCopy.tla
    tlapm LooseStoreProofs.tla
    tlapm LooseIteratorProofs.tla
    tlapm LooseStreamProofs.tla
    tlapm Sha1GeneratorProofs.tla
    tlapm ObjectCodecProofs.tla
    tlapm MultiObjectProofs.tla
    tlapm DatabaseCopyProofs.tla
