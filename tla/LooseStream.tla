---------------------------- MODULE LooseStream ----------------------------
(***************************************************************************)
(* The filter chains through which one loose object is written and read    *)
(* back (gtl/db/odb_loose.hpp): header_filter, generator_filter and, left  *)
(* out as lossless, the zlib filters and the file.                         *)
(*                                                                         *)
(* A byte of the object's data is its position 1..size, a byte of the      *)
(* header is a negative number.  The reading side keeps the window of the  *)
(* stream buffer that the client has not taken yet.                        *)
(***************************************************************************)
EXTENDS Integers, Sequences

CONSTANTS
  Sizes,      (* data sizes of the objects that are written               *)
  HeaderLen,  (* length of the header "type size\0" for each size         *)
  BufLen,     (* bytes read at once to parse the header, 128 in the code  *)
  Capacity    (* what the stream buffer asks the filter for, 4096         *)

ASSUME SizeAssumption == Sizes \subseteq Nat
ASSUME BufferAssumption ==
  /\ BufLen \in Nat /\ Capacity \in Nat /\ BufLen < Capacity
  /\ HeaderLen \in [Sizes -> 1 .. BufLen]

VARIABLES
  phase,    (* "write", "closed", "read", "end" or "undefined"            *)
  size,     (* size of the object's data                                  *)
  written,  (* bytes of data that went into the output chain              *)
  pending,  (* header_filter's m_type is set: the header is to be written *)
  hashed,   (* bytes the generator filter has seen                        *)
  file,     (* uncompressed content of the file                           *)
  pos,      (* bytes of the file that the input chain has consumed        *)
  avail,    (* bytes in the stream buffer that can be taken               *)
  got       (* bytes the client has read                                  *)

vars == <<phase, size, written, pending, hashed, file, pos, avail, got>>
writeVars == <<size, written, pending, hashed, file>>

Header    == [i \in 1 .. HeaderLen[size] |-> -i]
Data(a, b) == [i \in 1 .. b - a + 1 |-> a + i - 1]

Least(a, b) == IF a < b THEN a ELSE b

\* the output stream is made with the type and the size of the object
Init ==
  /\ phase = "write"
  /\ size \in Sizes
  /\ written = 0
  /\ pending = TRUE
  /\ hashed = <<>> /\ file = <<>>
  /\ pos = 0 /\ avail = <<>> /\ got = <<>>

\* mutant: the header is written behind the hash filter
WriteUnhashed(n) ==
  /\ phase = "write" /\ n \in 1 .. size - written
  /\ file' = file \o (IF pending THEN Header ELSE <<>>)
                  \o Data(written + 1, written + n)
  /\ hashed' = hashed \o Data(written + 1, written + n)
  /\ pending' = FALSE
  /\ written' = written + n
  /\ UNCHANGED <<phase, size, pos, avail, got>>

\* mutant: the type is not reset once the header is written
WriteRepeats(n) ==
  /\ phase = "write" /\ n \in 1 .. size - written
  /\ LET out == Header \o Data(written + 1, written + n)
     IN file' = file \o out /\ hashed' = hashed \o out
  /\ written' = written + n
  /\ UNCHANGED <<phase, size, pending, pos, avail, got>>

\* header_filter::write of n bytes: the header goes first, once, and then the
\* bytes; the generator filter hashes all that is written through it
Write(n) ==
  /\ phase = "write" /\ n \in 1 .. size - written
  /\ LET out == (IF pending THEN Header ELSE <<>>)
                  \o Data(written + 1, written + n)
     IN file' = file \o out /\ hashed' = hashed \o out
  /\ pending' = FALSE
  /\ written' = written + n
  /\ UNCHANGED <<phase, size, pos, avail, got>>

\* flush and pop, when everything was copied
Pop ==
  /\ phase = "write" /\ written = size
  /\ phase' = "closed"
  /\ UNCHANGED <<writeVars, pos, avail, got>>

\* mutant: update_values does not move the buffer past the header
OpenKeepsHeader ==
  /\ phase = "closed" /\ file # <<>>
  /\ LET n == Least(Capacity, Len(file))
     IN /\ avail' = SubSeq(file, 1, n)
        /\ pos' = n
        /\ phase' = "read"
  /\ UNCHANGED <<writeVars, got>>

\* set_path: reading one byte makes header_filter::read take BufLen bytes,
\* parse the header and fill the rest of the buffer; unget gives the byte back
Open ==
  /\ phase = "closed" /\ file # <<>>
  /\ LET nb == Least(BufLen, Len(file))
         n  == Least(Capacity - nb, Len(file) - nb)
     IN /\ avail' = SubSeq(file, HeaderLen[size] + 1, nb + n)
        /\ pos' = nb + n
        /\ phase' = IF avail' = <<>> THEN "end" ELSE "read"
  /\ UNCHANGED <<writeVars, got>>

\* at the end of the source its result -1 is used as the length of the header
\* buffer, and of a memcpy
OpenNothing ==
  /\ phase = "closed" /\ file = <<>>
  /\ phase' = "undefined"
  /\ UNCHANGED <<writeVars, pos, avail, got>>

\* the client reads some of what is buffered
Take(n) ==
  /\ phase = "read" /\ n \in 1 .. Len(avail)
  /\ got' = got \o SubSeq(avail, 1, n)
  /\ avail' = SubSeq(avail, n + 1, Len(avail))
  /\ UNCHANGED <<phase, writeVars, pos>>

\* mutant: the source is taken to fill the buffer
RefillBeyond ==
  /\ phase = "read" /\ avail = <<>>
  /\ avail' = SubSeq(file, pos + 1, Least(pos + Capacity - 1, Len(file)))
  /\ pos' = pos + Capacity
  /\ phase' = IF avail' = <<>> THEN "end" ELSE "read"
  /\ UNCHANGED <<writeVars, got>>

\* mutant: a result of no byte is not taken for the end
RefillForever ==
  /\ phase = "read" /\ avail = <<>>
  /\ LET n == Least(Capacity, Len(file) - pos)
     IN /\ avail' = SubSeq(file, pos + 1, pos + n - 1)
        /\ pos' = pos + n
  /\ UNCHANGED <<phase, writeVars, got>>

\* header_filter::read when the header is known: it counts from -1, so that of
\* n bytes read the stream buffer is told n - 1; -1 or 0 bytes are the end
Refill ==
  /\ phase = "read" /\ avail = <<>>
  /\ LET n == Least(Capacity, Len(file) - pos)
     IN /\ avail' = SubSeq(file, pos + 1, pos + n - 1)
        /\ pos' = pos + n
        /\ phase' = IF avail' = <<>> THEN "end" ELSE "read"
  /\ UNCHANGED <<writeVars, got>>

\* object sizes bound the steps: the chain then rests
Done ==
  /\ phase \in {"end", "undefined"}
  /\ UNCHANGED vars

Next ==
  \/ \E n \in 1 .. size : Write(n)
  \/ Pop \/ Open \/ OpenNothing
  \/ \E n \in 1 .. Len(avail) : Take(n)
  \/ Refill \/ Done

Spec == Init /\ [][Next]_vars

\* a client that reads to the end keeps calling the stream
FairSpec == Spec /\ WF_vars(Next)

-----------------------------------------------------------------------------
(* Properties.                                                             *)

\* Bytes are integers, and the window does not reach beyond the file.
TypeOK ==
  /\ phase \in {"write", "closed", "read", "end", "undefined"}
  /\ size \in Sizes /\ written \in 0 .. size /\ pending \in BOOLEAN
  /\ \A s \in {hashed, file, avail, got} : \A i \in DOMAIN s : s[i] \in Int
  /\ pos \in 0 .. Len(file)

\* The key is the hash of the bytes of the file, however the data was cut into
\* writes; the header is in it once, and first (git's definition of the hash).
HashedFile ==
  /\ hashed = file
  /\ phase # "write" /\ size > 0 => file = Header \o Data(1, size)

\* No byte of the header reaches the client, and the bytes of the data come in
\* their order and none of them twice, whatever the refills lose.
ReadInOrder ==
  /\ \A i \in DOMAIN got : got[i] \in 1 .. size
  /\ \A i, j \in DOMAIN got : i < j => got[i] < got[j]

\* An object that fits the first buffer is read back as it was written.
SmallReadsBack ==
  phase = "end" /\ HeaderLen[size] + size <= Capacity => got = Data(1, size)

\* The client always reaches the end of the stream.
ReadEnds == <>(phase \in {"end", "undefined"})

\* loose_object_input_stream: "bytes not belonging to the header will be
\* returned again during normal reads": at its end the client has the data.
ReadsBack == phase = "end" => got = Data(1, size)
=============================================================================
