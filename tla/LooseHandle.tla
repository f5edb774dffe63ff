---------------------------- MODULE LooseHandle ----------------------------
(***************************************************************************)
(* odb_loose_output_object (gtl/db/odb_loose.hpp): what an accessor or an  *)
(* iterator of the loose database points to.  It opens a stream when it is *)
(* asked for the type or size, keeps it, and hands it over when a stream   *)
(* is wanted.  An iterator moves by assigning the path of the same object. *)
(***************************************************************************)
CONSTANTS
  Paths,    (* object files                                               *)
  Streams,  (* input streams that exist at the same time                  *)
  None

ASSUME NoneAssumption == None \notin Paths /\ None \notin Streams

VARIABLES
  path,         (* m_path                                                 *)
  initialized,  (* m_initialized                                          *)
  own,          (* m_pstream                                              *)
  opened,       (* path that each stream reads, None if it does not exist *)
  taken,        (* streams that data was read from                        *)
  given,        (* streams that clients hold                              *)
  answer,       (* last type or size: path asked about and path it is of  *)
  parsed        (* last deserialization: paths of the type and of the data *)

vars == <<path, initialized, own, opened, taken, given, answer, parsed>>

Init ==
  /\ path \in Paths
  /\ initialized = FALSE
  /\ own = None
  /\ opened = [s \in Streams |-> None]
  /\ taken = {} /\ given = {}
  /\ answer = <<None, None>>
  /\ parsed = <<None, None>>

Free(s) == opened[s] = None

\* mutant: an object that has a stream is taken to be initialized
OpenOwnOnce(s) ==
  \/ /\ own # None
     /\ s = own
     /\ UNCHANGED <<own, initialized, opened>>
  \/ /\ own = None
     /\ Free(s)
     /\ own' = s /\ initialized' = TRUE
     /\ opened' = [opened EXCEPT ![s] = path]

\* mutant: initialization opens another stream and forgets the own one
OpenOwnAnew(s) ==
  \/ /\ initialized
     /\ s = own
     /\ UNCHANGED <<own, initialized, opened>>
  \/ /\ ~initialized
     /\ Free(s)
     /\ own' = s /\ initialized' = TRUE
     /\ opened' = [opened EXCEPT ![s] = path]

\* init(), unless it is done: s is the own stream afterwards, and reads path
OpenOwn(s) ==
  \/ /\ initialized
     /\ s = own
     /\ UNCHANGED <<own, initialized, opened>>
  \/ /\ ~initialized
     /\ IF own = None THEN Free(s) ELSE s = own
     /\ own' = s /\ initialized' = TRUE
     /\ opened' = [opened EXCEPT ![s] = path]

\* type() or size()
Query ==
  \E s \in Streams :
    /\ OpenOwn(s)
    /\ answer' = <<path, opened'[s]>>
    /\ UNCHANGED <<path, taken, given, parsed>>

\* mutant: the own stream is lent and not released
NewStreamLends ==
  \E s \in Streams :
    /\ IF own = None
       THEN Free(s) /\ opened' = [opened EXCEPT ![s] = path]
       ELSE s = own /\ UNCHANGED opened
    /\ given' = given \cup {s}
    /\ UNCHANGED <<path, initialized, own, taken, answer, parsed>>

\* new_stream(): the own stream is released, or a new one is opened
NewStream ==
  \E s \in Streams :
    /\ IF own = None
       THEN /\ Free(s)
            /\ opened' = [opened EXCEPT ![s] = path]
            /\ UNCHANGED <<own, initialized>>
       ELSE /\ s = own
            /\ own' = None /\ initialized' = FALSE
            /\ UNCHANGED opened
    /\ given' = given \cup {s}
    /\ UNCHANGED <<path, taken, answer, parsed>>

\* stream(out): a stream of the client is opened
Stream ==
  \E s \in Streams :
    /\ Free(s)
    /\ opened' = [opened EXCEPT ![s] = path]
    /\ given' = given \cup {s}
    /\ UNCHANGED <<path, initialized, own, taken, answer, parsed>>

\* deserialize(): the policy takes a new_stream(), which it deletes, and asks
\* for the type, for which the object opens itself again
Deserialize ==
  \E s, t \in Streams :
    /\ s # t /\ Free(t)
    /\ own = None => Free(s)
    /\ own # None => s = own
    /\ parsed' = <<path, IF own = None THEN path ELSE opened[own]>>
    /\ opened' = [opened EXCEPT ![s] = None, ![t] = path]
    /\ own' = t /\ initialized' = TRUE
    /\ taken' = taken \ {s}
    /\ UNCHANGED <<path, given, answer>>

\* mutant: the path is assigned behind the object's back
MoveToSilently(p) ==
  /\ path' = p
  /\ UNCHANGED <<initialized, own, opened, taken, given, answer, parsed>>

\* p is assigned to path(), which only forgets the initialization
MoveTo(p) ==
  /\ path' = p
  /\ initialized' = FALSE
  /\ UNCHANGED <<own, opened, taken, given, answer, parsed>>

\* next() of the iterator
Move == \E p \in Paths : MoveTo(p)

\* a client reads from a stream it holds
Take(s) ==
  /\ s \in given
  /\ taken' = taken \cup {s}
  /\ UNCHANGED <<path, initialized, own, opened, given, answer, parsed>>

\* delete, or destroy_stream
Dispose(s) ==
  /\ s \in given
  /\ given' = given \ {s}
  /\ taken' = taken \ {s}
  /\ opened' = [opened EXCEPT ![s] = None]
  /\ UNCHANGED <<path, initialized, own, answer, parsed>>

Next ==
  \/ Query \/ NewStream \/ Stream \/ Deserialize \/ Move
  \/ \E s \in Streams : Take(s) \/ Dispose(s)

Spec == Init /\ [][Next]_vars

-----------------------------------------------------------------------------
(* Properties.                                                             *)

\* The own stream and the streams of clients exist, and no other.
TypeOK ==
  /\ path \in Paths
  /\ initialized \in BOOLEAN
  /\ own \in Streams \cup {None}
  /\ opened \in [Streams -> Paths \cup {None}]
  /\ taken \subseteq given /\ given \subseteq Streams
  /\ {s \in Streams : ~Free(s)} = given \cup ({own} \ {None})
  /\ answer \in (Paths \cup {None}) \X (Paths \cup {None})
  /\ parsed \in (Paths \cup {None}) \X (Paths \cup {None})

\* type() and size() are those of the path the object has now, wherever the
\* iterator has moved to since the own stream was opened.
AnswersCurrent == answer[1] = answer[2]

\* A stream that an object opened and kept is handed to one client only, which
\* reads it from the start: deserialization and type() never use a stream that
\* a client holds or has read from.
OwnUntouched == own # None => own \notin given \cup taken

\* An initialized object has a stream, and it is the one of its path.
InitializedCurrent == initialized => own # None /\ opened[own] = path

\* The iterator's comment: "On the next step, these are being released
\* automatically as the object then points to a different path".  So the data
\* that is deserialized is of the object whose type it is parsed as.
DeserializesOne == parsed[1] = parsed[2]
=============================================================================
