---------------------------- MODULE ObjectStore ----------------------------
(***************************************************************************)
(* What every object database promises (gtl/db/odb.hpp): "behaves much     *)
(* like a map, which uses keys to refer to object streams" and "Objects    *)
(* are always immutable".  A key that has no object may get one that fits  *)
(* it, once; an insertion returns an accessor only for a stored key; an    *)
(* accessor that was handed out reads what is stored.                      *)
(***************************************************************************)
CONSTANTS
  Keys,     (* the hashes that name objects                               *)
  Values,   (* stored representations of objects                          *)
  Fitting,  (* pairs <<key, value>>: the value may be stored under the key *)
  Readers,  (* clients that hold accessors                                *)
  None      (* absence of a key or of a value                             *)

VARIABLES
  store,    (* the map: a value, or None, for each key                    *)
  acked,    (* keys whose insertion has returned an accessor              *)
  view      (* what each reader's accessor names, and what it has read    *)

vars == <<store, acked, view>>

NoView == [key |-> None, image |-> None]

Fits(k, v) == <<k, v>> \in Fitting

Init ==
  /\ store \in [Keys -> Values \cup {None}]
  /\ \A k \in Keys : store[k] # None => Fits(k, store[k])
  /\ acked = {}
  /\ view = [r \in Readers |-> NoView]

\* insert, insert_object: the object becomes visible under its key
Publish(k, v) ==
  /\ store[k] = None
  /\ Fits(k, v)
  /\ store' = [store EXCEPT ![k] = v]
  /\ UNCHANGED <<acked, view>>

\* insert, insert_object: return the accessor of the object
Return(k) ==
  /\ store[k] # None
  /\ acked' = acked \cup {k}
  /\ UNCHANGED <<store, view>>

\* object(k): the accessor of a stored object
Find(r, k) ==
  /\ view[r].key = None
  /\ store[k] # None
  /\ view' = [view EXCEPT ![r] = [key |-> k, image |-> None]]
  /\ UNCHANGED <<store, acked>>

\* the output object's type, size and stream
Read(r) ==
  /\ view[r].key # None
  /\ view[r].image = None
  /\ view' = [view EXCEPT ![r].image = store[view[r].key]]
  /\ UNCHANGED <<store, acked>>

\* the accessor goes out of scope
Release(r) ==
  /\ view[r].key # None
  /\ view' = [view EXCEPT ![r] = NoView]
  /\ UNCHANGED <<store, acked>>

Next ==
  \/ \E k \in Keys : Return(k) \/ \E v \in Values : Publish(k, v)
  \/ \E r \in Readers : Read(r) \/ Release(r) \/ \E k \in Keys : Find(r, k)

Spec == Init /\ [][Next]_vars

=============================================================================
