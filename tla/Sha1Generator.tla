--------------------------- MODULE Sha1Generator ---------------------------
(***************************************************************************)
(* The incremental SHA-1 of git/db/sha1_gen.{h,cpp}: how update() cuts a   *)
(* message that arrives in pieces into blocks, how finalize() pads it, and *)
(* when the digest is null, computed or an error.  The compression of a    *)
(* block is abstracted to the sequence of bytes that were compressed.      *)
(*                                                                         *)
(* The widths are parameters: 64-byte blocks and 32-bit words in the code. *)
(***************************************************************************)
EXTENDS Integers, Sequences

CONSTANTS
  BlockLen,  (* bytes of a block                                          *)
  WordBits,  (* bits of m_count[0], m_count[1] and of a length            *)
  Lengths,   (* lengths of the pieces passed to update()                  *)
  MaxTotal   (* bound on the length of a message                          *)

Word   == 2 ^ WordBits
LenLen == 2 * (WordBits \div 8)  \* bytes of the bit count at a message's end

ASSUME WidthAssumption ==
  /\ WordBits \in Nat /\ WordBits % 8 = 0 /\ WordBits > 0
  /\ Word \in Nat
  /\ BlockLen \in Nat /\ LenLen < BlockLen /\ 8 * BlockLen < Word
  /\ Word % (8 * BlockLen) = 0
ASSUME LengthAssumption == Lengths \subseteq 0 .. Word - 1 /\ MaxTotal \in Nat

VARIABLES
  gen,      (* bit count lo and hi, buffer, and the bytes compressed      *)
  total,    (* bytes of the message passed to update()                    *)
  updated,  (* m_update_called                                            *)
  final,    (* m_finalized                                                *)
  digest,   (* m_digest: compressed bytes, or <<>> for the null digest    *)
  overrun,  (* a memcpy went beyond m_buffer: undefined behaviour         *)
  wrapped   (* j + uLen was not less than Word in some update()           *)

vars == <<gen, total, updated, final, digest, overrun, wrapped>>

Bytes(a, b) == [i \in 1 .. b - a + 1 |-> <<"byte", a + i - 1>>]
Stop   == <<"stop", 128>>
Zero   == <<"zero", 0>>
Zeros(n)  == [i \in 1 .. n |-> Zero]

\* position in the buffer: (m_count[0] >> 3) & 0x3F
Used(g) == (g.lo \div 8) % BlockLen

\* big endian bytes of a word
WordBytes(v) ==
  [i \in 1 .. WordBits \div 8 |->
     <<"count", (v \div 2 ^ (WordBits - 8 * i)) % 256>>]

\* the buffer, as far as it is meant to be used, when the bytes b are written
\* from position j on; below j it may show what an earlier message left there
Written(buf, j, b) ==
  [i \in 1 .. j |-> IF i <= Len(buf) THEN buf[i] ELSE <<"stale", 0>>] \o b

\* mutant: a full block is not noticed
CompletesLate(g, n) == (Used(g) + n) % Word > BlockLen

\* does update() complete a block: (j + uLen) > 63 in unsigned arithmetic
Completes(g, n) == (Used(g) + n) % Word > BlockLen - 1

\* mutant: the loop over the further blocks is missing
DirectOnce(g, n) == IF Completes(g, n) THEN BlockLen - Used(g) ELSE 0

\* bytes of the piece that are compressed at once
Direct(g, n) ==
  IF Completes(g, n)
  THEN LET first == BlockLen - Used(g)
       IN first + BlockLen * ((n - first) \div BlockLen)
  ELSE 0

\* mutant: the carry into m_count[1] is forgotten
UpdateNoCarry(g, b) ==
  LET n == Len(b)
      i == Direct(g, n)
      j == IF i = 0 THEN Used(g) ELSE 0
  IN [lo   |-> (g.lo + 8 * n) % Word,
      hi   |-> (g.hi + (8 * n) \div Word) % Word,
      buf  |-> Written(g.buf, j, SubSeq(b, i + 1, n)),
      done |-> IF i = 0 THEN g.done
               ELSE g.done \o Written(g.buf, Used(g), SubSeq(b, 1, i))]

\* update() of the bytes b
Update(g, b) ==
  LET n    == Len(b)
      i    == Direct(g, n)
      j    == IF i = 0 THEN Used(g) ELSE 0
      bits == (8 * n) % Word
      lo   == (g.lo + bits) % Word
      hi   == g.hi + (IF lo < bits THEN 1 ELSE 0) + (8 * n) \div Word
  IN [lo   |-> lo,
      hi   |-> hi % Word,
      buf  |-> Written(g.buf, j, SubSeq(b, i + 1, n)),
      done |-> IF i = 0 THEN g.done
               ELSE g.done \o Written(g.buf, Used(g), SubSeq(b, 1, i))]

\* does what is left of the piece not fit the buffer
Overruns(g, n) ==
  LET i == Direct(g, n)
  IN (IF i = 0 THEN Used(g) ELSE 0) + n - i > BlockLen

\* n times update() of a zero
Zeroed(g, n) ==
  LET put[k \in 0 .. n] == IF k = 0 THEN g ELSE Update(put[k - 1], <<Zero>>)
  IN put[n]

\* zeros up to the place of the bit count
ZerosAfter(g) == (2 * BlockLen - LenLen - Used(g)) % BlockLen

\* mutant: the bit count is taken when the padding is in
PaddedLate(g) ==
  LET stopped == Update(g, <<Stop>>)
      full    == Zeroed(stopped, ZerosAfter(stopped))
  IN Update(full, WordBytes(full.hi) \o WordBytes(full.lo))

\* finalize(): the bit count is taken first, then come 0x80, zeros up to the
\* place of the count, one update() each, and the count
Padded(g) ==
  LET count   == WordBytes(g.hi) \o WordBytes(g.lo)
      stopped == Update(g, <<Stop>>)
  IN Update(Zeroed(stopped, ZerosAfter(stopped)), count)

Fresh == [lo |-> 0, hi |-> 0, buf |-> <<>>, done |-> <<>>]

-----------------------------------------------------------------------------
Init ==
  /\ gen = Fresh
  /\ total = 0
  /\ updated = FALSE /\ final = FALSE
  /\ digest = <<>>
  /\ overrun = FALSE /\ wrapped = FALSE

\* reset() clears the counters, so that nothing of the buffer counts
Reset ==
  /\ gen' = Fresh
  /\ total' = 0
  /\ updated' = FALSE /\ final' = FALSE
  /\ digest' = <<>>
  /\ UNCHANGED <<overrun, wrapped>>

\* mutant: an update after the digest is not refused
FeedAlways(n) ==
  /\ ~overrun
  /\ total + n <= MaxTotal
  /\ gen' = Update(gen, Bytes(total + 1, total + n))
  /\ total' = total + n
  /\ updated' = TRUE
  /\ overrun' = Overruns(gen, n)
  /\ wrapped' = (wrapped \/ Used(gen) + n >= Word)
  /\ UNCHANGED <<final, digest>>

\* update() by the client: throws once finalized, which changes nothing
Feed(n) ==
  /\ ~final /\ ~overrun
  /\ total + n <= MaxTotal
  /\ gen' = Update(gen, Bytes(total + 1, total + n))
  /\ total' = total + n
  /\ updated' = TRUE
  /\ overrun' = Overruns(gen, n)
  /\ wrapped' = (wrapped \/ Used(gen) + n >= Word)
  /\ UNCHANGED <<final, digest>>

\* finalize() by the client: throws when it is called twice
Finalize ==
  /\ ~final /\ ~overrun
  /\ gen' = Padded(gen)
  /\ digest' = gen'.done
  /\ updated' = TRUE /\ final' = TRUE
  /\ UNCHANGED <<total, overrun, wrapped>>

\* digest() or hash(): finalizes if there was an update, and is null if not
Digest ==
  /\ ~overrun
  /\ updated /\ ~final
  /\ gen' = Padded(gen)
  /\ digest' = gen'.done
  /\ final' = TRUE
  /\ UNCHANGED <<total, updated, overrun, wrapped>>

Next ==
  \/ Reset \/ Finalize \/ Digest
  \/ \E n \in Lengths : Feed(n)

Spec == Init /\ [][Next]_vars

-----------------------------------------------------------------------------
(* Properties.                                                             *)

\* The message as the standard pads it: 0x80, the fewest zeros that let the
\* 2-word bit count end a block, and the count.
Standard(n) ==
  LET zeros == (2 * BlockLen - LenLen - 1 - (n % BlockLen)) % BlockLen
      bits  == 8 * n
  IN Bytes(1, n) \o <<Stop>> \o Zeros(zeros)
       \o WordBytes((bits \div Word) % Word) \o WordBytes(bits % Word)

\* The counters are words, the buffer is a block.
TypeOK ==
  /\ gen.lo \in 0 .. Word - 1 /\ gen.hi \in 0 .. Word - 1
  /\ Len(gen.buf) < BlockLen \/ overrun
  /\ Len(gen.done) % BlockLen = 0 \/ overrun
  /\ total \in 0 .. MaxTotal
  /\ updated \in BOOLEAN /\ final \in BOOLEAN /\ overrun \in BOOLEAN

\* However the message was cut into updates, before it is finalized the bytes
\* compressed and those in the buffer are the message in its order, and the
\* two counters are its length in bits.
NothingLost ==
  ~final /\ ~overrun =>
    /\ gen.done \o gen.buf = Bytes(1, total)
    /\ gen.hi * Word + gen.lo = 8 * total

\* The digest is the compression of exactly the padded message, also when the
\* padding needs a block of its own and when the low counter overflowed.
DigestStandard == final /\ ~overrun => digest = Standard(total)

\* Once finalized the generator does not change until reset(): an update is
\* refused instead of going into a message that was padded already.
DigestFinal ==
  [][final => \/ gen' = gen /\ total' = total /\ digest' = digest
              \/ gen' = Fresh /\ digest' = <<>>]_vars

\* The buffer can be overrun only where j + uLen wraps around its word, by a
\* piece of nearly 2^32 bytes.
OverrunOnlyByWrap == overrun => wrapped
=============================================================================
