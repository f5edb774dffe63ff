----------------------------- MODULE LooseTree -----------------------------
(***************************************************************************)
(* The directory of a loose object database as one who lists it sees it:   *)
(* which names exist, and how insertions change that (odb_loose::temppath  *)
(* and move_tmp_to_final in gtl/db/odb_loose.hpp).  LooseStore implements  *)
(* it; LooseIterator walks it.                                             *)
(***************************************************************************)
CONSTANTS
  Keys,     (* hashes: the object files that may exist                    *)
  Prefixes, (* directories in the root                                    *)
  PrefixOf, (* the directory of a key's file                              *)
  Names     (* temporary files, which are in the root                     *)

VARIABLES
  dirs,     (* directories that exist                                     *)
  present,  (* keys that have a file                                      *)
  temps     (* temporary files that exist                                 *)

treeVars == <<dirs, present, temps>>

\* what earlier insertions, and crashes of them, have left
Init ==
  /\ dirs \in SUBSET Prefixes
  /\ present \in SUBSET Keys
  /\ temps \in SUBSET Names
  /\ \A k \in present : PrefixOf[k] \in dirs

\* an output stream opens its temporary file
MakeTemp(t) == temps' = temps \cup {t} /\ UNCHANGED <<dirs, present>>

\* fs::create_directory
MakeDir(d) == dirs' = dirs \cup {d} /\ UNCHANGED <<present, temps>>

\* fs::rename, onto a new name or onto an existing file of the same object
Publish(t, k) ==
  /\ t \in temps /\ PrefixOf[k] \in dirs
  /\ present' = present \cup {k}
  /\ temps' = temps \ {t}
  /\ UNCHANGED dirs

\* fs::remove of a temporary file
RemoveTemp(t) == temps' = temps \ {t} /\ UNCHANGED <<dirs, present>>

Next ==
  \/ \E t \in Names :
       MakeTemp(t) \/ RemoveTemp(t) \/ \E k \in Keys : Publish(t, k)
  \/ \E d \in Prefixes : MakeDir(d)

Spec == Init /\ [][Next]_treeVars
=============================================================================
