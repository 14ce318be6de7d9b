----------------------------- MODULE CRUDHandler -----------------------------
(***************************************************************************)
(* application/httpserver-responses/monitors/CRUDHandler.mon: objects that *)
(* clients create, read, update and delete.  The requests of all clients   *)
(* are handled one after the other, in one context.                        *)
(*                                                                         *)
(* The path of an object is the number that incrementCounter made it from. *)
(* Nothing in a handler fails but what it looks for, so that no request is *)
(* answered with code 500.                                                 *)
(***************************************************************************)
EXTENDS Naturals, FiniteSets, Functions

CONSTANTS
  Data,
  NoData,
  MaxObjects            \* bounds the paths

Paths == 1..MaxObjects
Root == 0               \* the path "/"

VARIABLES
  datastore,            \* the data by path
  created,              \* the counter "apamax.crud.objects"
  answer,               \* the last response: what it is, and about what path
  read,                 \* the data in it
  deletedPaths          \* history: the paths whose deletion was answered with
                        \* Success

crudVars == <<datastore, created, answer, read, deletedPaths>>

CRUDInit ==
  /\ datastore = <<>>
  /\ created = 0
  /\ answer = <<"none", Root>>
  /\ read = NoData
  /\ deletedPaths = {}

hasKey(path) == path \in DOMAIN datastore

\* dictionary.add, which replaces what is there.
Add(path, data) ==
  [p \in DOMAIN datastore \cup {path} |-> IF p = path THEN data ELSE datastore[p]]

\* Mutant: the new path is counted from the objects that there are.
OnCreateObjectCounted(data) ==
  /\ created < MaxObjects
  /\ created' = created + 1
  /\ datastore' = Add(Cardinality(DOMAIN datastore) + 1, data)
  /\ answer' = <<"Success", Cardinality(DOMAIN datastore) + 1>>
  /\ read' = NoData
  /\ UNCHANGED deletedPaths

OnCreateObject(data) ==
  /\ created < MaxObjects
  /\ created' = created + 1
  /\ datastore' = Add(created', data)
  /\ answer' = <<"Success", created'>>
  /\ read' = NoData
  /\ UNCHANGED deletedPaths

\* A request for an object that does not exist.
OnUnknown(path) ==
  /\ ~hasKey(path)
  /\ answer' = <<"Error404", path>>
  /\ read' = NoData
  /\ UNCHANGED <<datastore, created, deletedPaths>>

OnUpdateObject(path, data) ==
  /\ hasKey(path)
  /\ datastore' = Add(path, data)
  /\ answer' = <<"Success", path>>
  /\ read' = NoData
  /\ UNCHANGED <<created, deletedPaths>>

OnReadObject(path) ==
  /\ hasKey(path)
  /\ answer' = <<"Object", path>>
  /\ read' = datastore[path]
  /\ UNCHANGED <<datastore, created, deletedPaths>>

OnDeleteObject(path) ==
  /\ hasKey(path)
  /\ datastore' = Restrict(datastore, DOMAIN datastore \ {path})
  /\ answer' = <<"Success", Root>>
  /\ read' = NoData
  /\ deletedPaths' = deletedPaths \cup {path}
  /\ UNCHANGED created

CRUDNext ==
  \/ \E data \in Data : OnCreateObject(data)
  \/ \E path \in Paths :
       \/ OnUnknown(path) \/ OnReadObject(path) \/ OnDeleteObject(path)
       \/ \E data \in Data : OnUpdateObject(path, data)

CRUDSpec == CRUDInit /\ [][CRUDNext]_crudVars

-----------------------------------------------------------------------------
(* Properties.                                                             *)

\* An object that a client was told is deleted is gone for good: its path is
\* not given to another object, and no update brings it back, so that no
\* request for it is answered with an Object or with Success.
GoneForGood ==
  [][answer' # answer /\ answer'[2] \in deletedPaths
       => answer'[1] = "Error404"]_crudVars
=============================================================================
