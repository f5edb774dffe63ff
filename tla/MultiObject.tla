---------------------------- MODULE MultiObject ----------------------------
(***************************************************************************)
(* The union of the four kinds of objects (git/obj/multiobj.h), and the    *)
(* policy's deserialize (git/db/policy.hpp), which constructs the member   *)
(* that the object's type calls for and runs ObjectCodec's parser on it.   *)
(* The first bytes of the union are the type of the member, or "none".     *)
(*                                                                         *)
(* A client destroys the union before it deserializes into it again, as    *)
(* the union's documentation wants it.                                     *)
(***************************************************************************)
EXTENDS ObjectCodec

CONSTANT MaxUses (* bound on the deserializations into one union *)

ASSUME UsesAssumption == MaxUses \in Nat

VARIABLES
  tag,    (* MultiObject::type                                            *)
  built,  (* number of members that were constructed                      *)
  alive   (* those that were not destroyed: their numbers and kinds       *)

union     == <<tag, built, alive>>
multiVars == <<vars, union>>

\* an object may also be parsed without the union, by whoever has one
MultiInit == Init /\ tag = "none" /\ built = 0 /\ alive = {}

\* the placement new of deserialize: the constructor sets the type
Construct ==
  /\ used = None
  /\ tag' = obj.kind
  /\ built' = built + 1
  /\ alive' = alive \cup {[number |-> built', kind |-> obj.kind]}

\* new_stream() or type() throws, or the type is none of the four
HeaderThrows ==
  /\ phase = "write" /\ used = None
  /\ phase' = "error"
  /\ UNCHANGED <<input, pos, bad, tmp, elem, dest, union>>

\* the member is there, and what is read of the object's text
Deserialize == Write /\ Construct

\* reserve() of the blob's data throws when the blob was constructed
ReserveThrows ==
  /\ phase = "write" /\ obj.kind = "blob"
  /\ Construct
  /\ phase' = "error"
  /\ UNCHANGED <<input, pos, bad, tmp, elem, dest>>

\* mutant: the type stays what it was
DestroyOnly ==
  /\ Ended /\ used = None
  /\ alive' = alive \ {[number |-> built, kind |-> tag]}
  /\ UNCHANGED <<vars, tag, built>>

\* ~MultiObject(), called by hand or at the end of the scope: the member that
\* the type names is destroyed, if there is one, and the type reset
Destroy ==
  /\ Ended /\ used = None
  /\ alive' = alive \ {[number |-> built, kind |-> tag]}
  /\ tag' = "none"
  /\ UNCHANGED <<vars, built>>

\* the next object is deserialized into the union
Again ==
  /\ Ended /\ used = None /\ tag = "none" /\ built < MaxUses
  /\ obj' \in Subjects /\ dest' = Fresh(obj'.kind, NullKey)
  /\ text' = <<>> /\ whole' = FALSE /\ pos' = 1 /\ bad' = FALSE
  /\ tmp' = NoName /\ elem' = [c |-> None, mode |-> 0]
  /\ phase' = "write"
  /\ UNCHANGED <<used, union>>

\* what the codec does by itself
Parse ==
  /\ \/ used # None /\ Write
     \/ WriteThrows \/ Commit \/ Tag \/ TreeOrBlob \/ Rests
  /\ UNCHANGED union

MultiNext ==
  \/ Deserialize \/ HeaderThrows \/ ReserveThrows
  \/ Parse \/ Destroy \/ Again

MultiSpec == MultiInit /\ [][MultiNext]_multiVars

MultiFairSpec == MultiSpec /\ WF_multiVars(Parse \/ Deserialize)

-----------------------------------------------------------------------------
(* Properties.                                                             *)

\* The type names the one member that lives, also after each of the exceptions
\* that leave deserialize half-way: so the destructor destroys what was
\* constructed, nothing twice, and forgets nothing.  A parser only writes to
\* a member that lives, and of its kind.
MemberNamed ==
  /\ alive = IF tag = "none" THEN {} ELSE {[number |-> built, kind |-> tag]}
  /\ used = None /\ phase \notin {"write", "done", "error"} => tag = obj.kind
=============================================================================
