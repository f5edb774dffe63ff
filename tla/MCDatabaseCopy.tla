-------------------------- MODULE MCDatabaseCopy --------------------------
(* Hashes for the model of the databases: in their order the keys of one    *)
(* object are not neighbours.                                               *)
EXTENDS DatabaseCopy

CONSTANTS Story, Nothing, Note

MCLong  == {Story}
MCEmpty == {Nothing}

Rank(o) == CASE o = Story -> 3 [] o = Nothing -> 1 [] OTHER -> 2

MCHash(v) ==
  Rank(v.obj) + CASE v.data = "none" -> 3 [] v.data = "whole" -> 0 [] OTHER -> 6
=============================================================================
