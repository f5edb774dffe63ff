-------------------------- MODULE MCLooseIterator --------------------------
(* A database of two directories, one with a file whose name is a character *)
(* too long; the root's name is as long as theirs.                          *)
EXTENDS LooseIterator, TLC

CONSTANTS k1, k2, t1, odd, d1, d2

MCPaths  == {k1, k2, t1, odd, NoPath}
MCDirOf  == [f \in {k1, odd} |-> d1] @@ [f \in {k2} |-> d2]
              @@ [f \in {t1} |-> Root]
MCLength == [f \in {k1, k2} |-> 38] @@ [f \in {odd} |-> 39]
              @@ [f \in {t1} |-> 11] @@ [d \in {d1, d2, Root} |-> 2]
=============================================================================
