------------------------------ MODULE MutexQueue ------------------------------
(***************************************************************************)
(* The queue of src/src/queue.c as it is built (NO_LOCKFREE_QUEUE): a      *)
(* linked list under a mutex.  strm_queue_empty_p takes no lock, so the    *)
(* stores inside the critical sections are steps of their own.  malloc     *)
(* hands out nodes of a finite memory again after they have been freed,    *)
(* and fails when there is none.                                           *)
(***************************************************************************)
EXTENDS Naturals, Sequences, FiniteSets

CONSTANTS Threads,
          Nodes,    \* the memory
          Values,   \* what is queued
          Null      \* the null pointer, of nodes and of values

ASSUME QueueAssumption == /\ Null \notin Nodes \union Values \union Threads
                          /\ IsFiniteSet(Nodes)

VARIABLES head, tail,
          next, val,      \* the nodes' fields
          heap,           \* the nodes malloc may return
          owner,          \* who holds the mutex
          pc,             \* where a thread is in its operation
          node,           \* its local variable
          arg             \* what it adds, has got or was told

queueVars == <<head, tail, next, val, heap, owner>>
vars == <<queueVars, pc, node, arg>>

Pointers == Nodes \union {Null}

Labels == {"idle", "add", "lockAdd", "link", "setTail", "setHead", "unlockAdd", "added",
           "refused", "lockGet", "look", "advance", "fixTail", "unlockGet", "read",
           "free", "unlockMiss", "got", "empty", "told"}

TypeOK ==
  /\ head \in Pointers /\ tail \in Pointers
  /\ next \in [Nodes -> Pointers] /\ val \in [Nodes -> Values \union {Null}]
  /\ heap \subseteq Nodes /\ owner \in Threads \union {Null}
  /\ pc \in [Threads -> Labels] /\ node \in [Threads -> Pointers]
  /\ arg \in [Threads -> Values \union {Null} \union BOOLEAN]

\* strm_queue_new
Init ==
  /\ head = Null /\ tail = Null
  /\ next = [p \in Nodes |-> Null] /\ val = [p \in Nodes |-> Null]
  /\ heap = Nodes /\ owner = Null
  /\ pc = [t \in Threads |-> "idle"]
  /\ node = [t \in Threads |-> Null]
  /\ arg = [t \in Threads |-> Null]

At(t, from, to) == pc[t] = from /\ pc' = [pc EXCEPT ![t] = to]

Lock(t) == owner = Null /\ owner' = t

Unlock(t) == owner' = Null

-----------------------------------------------------------------------------
(* strm_queue_add                                                          *)

CallAdd(t) == /\ At(t, "idle", "add")
              /\ \E v \in Values : arg' = [arg EXCEPT ![t] = v]
              /\ UNCHANGED <<queueVars, node>>

Malloc(t) ==
  /\ heap # {}
  /\ At(t, "add", "lockAdd")
  /\ \E p \in heap : /\ heap' = heap \ {p}
                     /\ node' = [node EXCEPT ![t] = p]
                     /\ val' = [val EXCEPT ![p] = arg[t]]
                     /\ next' = [next EXCEPT ![p] = Null]
  /\ UNCHANGED <<head, tail, owner, arg>>

Refuse(t) == heap = {} /\ At(t, "add", "refused") /\ UNCHANGED <<queueVars, node, arg>>

LockAdd(t) == /\ At(t, "lockAdd", "link") /\ Lock(t)
              /\ UNCHANGED <<head, tail, next, val, heap, node, arg>>

Link(t) == /\ At(t, "link", "setTail")
           /\ next' = IF tail = Null THEN next ELSE [next EXCEPT ![tail] = node[t]]
           /\ UNCHANGED <<head, tail, val, heap, owner, node, arg>>

SetTail(t) == /\ At(t, "setTail", "setHead")
              /\ tail' = node[t]
              /\ UNCHANGED <<head, next, val, heap, owner, node, arg>>

\* mutant: head is set without looking whether there is one
HeadAlways(t) == /\ At(t, "setHead", "unlockAdd")
                 /\ head' = node[t]
                 /\ UNCHANGED <<tail, next, val, heap, owner, node, arg>>

SetHead(t) == /\ At(t, "setHead", "unlockAdd")
              /\ head' = IF head = Null THEN node[t] ELSE head
              /\ UNCHANGED <<tail, next, val, heap, owner, node, arg>>

UnlockAdd(t) == /\ At(t, "unlockAdd", "added") /\ Unlock(t)
                /\ UNCHANGED <<head, tail, next, val, heap, node, arg>>

-----------------------------------------------------------------------------
(* strm_queue_get                                                          *)

CallGet(t) == /\ At(t, "idle", "lockGet")
              /\ UNCHANGED <<queueVars, node, arg>>

LockGet(t) == /\ At(t, "lockGet", "look") /\ Lock(t)
              /\ UNCHANGED <<head, tail, next, val, heap, node, arg>>

Look(t) == /\ IF head = Null THEN At(t, "look", "unlockMiss") /\ UNCHANGED node
              ELSE At(t, "look", "advance") /\ node' = [node EXCEPT ![t] = head]
           /\ UNCHANGED <<queueVars, arg>>

Advance(t) == /\ At(t, "advance", "fixTail")
              /\ head' = next[node[t]]
              /\ UNCHANGED <<tail, next, val, heap, owner, node, arg>>

\* mutant: the tail of an emptied list is left where it was
KeepTail(t) == /\ At(t, "fixTail", "unlockGet")
               /\ UNCHANGED <<queueVars, node, arg>>

FixTail(t) == /\ At(t, "fixTail", "unlockGet")
              /\ tail' = IF head = Null THEN Null ELSE tail
              /\ UNCHANGED <<head, next, val, heap, owner, node, arg>>

UnlockGet(t) == /\ At(t, "unlockGet", "read") /\ Unlock(t)
                /\ UNCHANGED <<head, tail, next, val, heap, node, arg>>

Read(t) == /\ At(t, "read", "free")
           /\ arg' = [arg EXCEPT ![t] = val[node[t]]]
           /\ UNCHANGED <<queueVars, node>>

\* mutant: the node after the one taken is freed
FreeNext(t) == /\ At(t, "free", "got")
               /\ heap' = heap \union {next[node[t]]}
               /\ UNCHANGED <<head, tail, next, val, owner, node, arg>>

Free(t) == /\ At(t, "free", "got")
           /\ heap' = heap \union {node[t]}
           /\ UNCHANGED <<head, tail, next, val, owner, node, arg>>

UnlockMiss(t) == /\ At(t, "unlockMiss", "got") /\ Unlock(t)
                 /\ arg' = [arg EXCEPT ![t] = Null]
                 /\ UNCHANGED <<head, tail, next, val, heap, node>>

-----------------------------------------------------------------------------
(* strm_queue_empty_p                                                      *)

CallEmpty(t) == At(t, "idle", "empty") /\ UNCHANGED <<queueVars, node, arg>>

Tell(t) == /\ At(t, "empty", "told")
           /\ arg' = [arg EXCEPT ![t] = (head = Null)]
           /\ UNCHANGED <<queueVars, node>>

-----------------------------------------------------------------------------
\* The caller goes on; its local variables are gone.
Return(t) == /\ pc[t] \in {"added", "refused", "got", "told"}
             /\ pc' = [pc EXCEPT ![t] = "idle"]
             /\ node' = [node EXCEPT ![t] = Null]
             /\ arg' = [arg EXCEPT ![t] = Null]
             /\ UNCHANGED queueVars

Step(t) == \/ CallAdd(t) \/ Malloc(t) \/ Refuse(t) \/ LockAdd(t) \/ Link(t)
           \/ SetTail(t) \/ SetHead(t) \/ UnlockAdd(t)
           \/ CallGet(t) \/ LockGet(t) \/ Look(t) \/ Advance(t) \/ FixTail(t)
           \/ UnlockGet(t) \/ Read(t) \/ Free(t) \/ UnlockMiss(t)
           \/ CallEmpty(t) \/ Tell(t) \/ Return(t)

Next == \E t \in Threads : Step(t)

Spec == Init /\ [][Next]_vars
-----------------------------------------------------------------------------
(* Properties.                                                             *)

\* The memory holds the list s: head is its first node, and the next of each of
\* its nodes is the one after it.
IsList(s) ==
  /\ head = IF s = <<>> THEN Null ELSE s[1]
  /\ \A i \in 1..Len(s) : next[s[i]] = IF i = Len(s) THEN Null ELSE s[i + 1]

Lists == UNION {[1..k -> Nodes] : k \in 0..Cardinality(Nodes)}

\* (Nodes in a circle are no list.)
List == IF \E s \in Lists : IsList(s) THEN CHOOSE s \in Lists : IsList(s) ELSE <<>>

Listed == {List[i] : i \in 1..Len(List)}

\* The node a thread has taken from malloc and not linked, or unlinked and
\* not freed.
Private(t) ==
  IF \/ pc[t] \in {"lockAdd", "link", "fixTail", "unlockGet", "read", "free"}
     \/ pc[t] \in {"setTail", "setHead"} /\ head = Null
  THEN {node[t]} ELSE {}

\* Memory: a node is free, or in the list, or one thread's, and only one of
\* these; none is lost, freed twice, or freed while it is linked.
Accounted ==
  \A p \in Nodes :
    Cardinality({t \in Threads : p \in Private(t)})
      + (IF p \in Listed THEN 1 ELSE 0) + (IF p \in heap THEN 1 ELSE 0) = 1

\* What a thread has asked for, or been answered.
Request(t) ==
  CASE pc[t] = "idle" -> [op |-> "idle", v |-> Null]
    [] pc[t] \in {"add", "lockAdd", "link"} -> [op |-> "add", v |-> arg[t]]
    [] pc[t] \in {"setTail", "setHead"} ->
         [op |-> IF head = Null THEN "add" ELSE "added", v |-> arg[t]]
    [] pc[t] \in {"unlockAdd", "added"} -> [op |-> "added", v |-> arg[t]]
    [] pc[t] \in {"lockGet", "look", "advance"} -> [op |-> "get", v |-> Null]
    [] pc[t] \in {"fixTail", "unlockGet", "read"} -> [op |-> "got", v |-> val[node[t]]]
    [] pc[t] = "free" -> [op |-> "got", v |-> arg[t]]
    [] pc[t] = "unlockMiss" -> [op |-> "got", v |-> Null]
    [] OTHER -> [op |-> pc[t], v |-> arg[t]]

Items == [i \in 1..Len(List) |-> val[List[i]]]
Requests == [t \in Threads |-> Request(t)]

Abstract == INSTANCE Fifo WITH None <- Null, items <- Items, call <- Requests

\* The list is a first-in first-out queue: adds and gets of any threads take
\* effect one after the other, and empty_p tells the truth of some moment.
ImplementsFifo == Abstract!Spec
=============================================================================
