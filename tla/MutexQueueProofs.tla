--------------------------- MODULE MutexQueueProofs ---------------------------
(***************************************************************************)
(* The list of queue.c is a first-in first-out queue and none of its       *)
(* memory is lost or used twice, for every number of threads, nodes and    *)
(* values.                                                                 *)
(***************************************************************************)
EXTENDS MutexQueue, Induction, SequenceTheorems

Critical == {"link", "setTail", "setHead", "unlockAdd", "look", "advance", "fixTail",
             "unlockGet", "unlockMiss"}

\* A thread that adds a node which is not in the list yet.
Adding(t) == \/ pc[t] \in {"lockAdd", "link"}
             \/ pc[t] \in {"setTail", "setHead"} /\ head = Null

Locked == \A t \in Threads : pc[t] \in Critical <=> owner = t

\* What a thread's local variables are.
Local(t) ==
  /\ Adding(t) => next[node[t]] = Null /\ val[node[t]] = arg[t]
  /\ pc[t] \in {"lockAdd", "link", "setTail", "setHead", "fixTail", "unlockGet", "read", "free"}
       => node[t] \in Nodes
  /\ pc[t] = "advance" => head # Null /\ node[t] = head
  /\ pc[t] \in {"add", "lockAdd", "link", "setTail", "setHead"} => arg[t] \in Values \union {Null}
  /\ pc[t] = "empty" => arg[t] = Null
  /\ pc[t] = "idle" => arg[t] = Null

Locals == \A t \in Threads : Local(t)

\* A node is in the list once, or free, or one thread's.
Apart(s) ==
  /\ \A i, j \in 1..Len(s) : s[i] = s[j] => i = j
  /\ \A i \in 1..Len(s) : s[i] \notin heap /\ \A t \in Threads : s[i] \notin Private(t)
  /\ \A t \in Threads : \A p \in Private(t) : p \notin heap
  /\ \A t, u \in Threads : \A p \in Private(t) : p \in Private(u) => t = u

Kept(s) ==
  \A p \in Nodes : p \in heap \/ (\E i \in 1..Len(s) : p = s[i]) \/ \E t \in Threads : p \in Private(t)

LastOf(s) == IF s = <<>> THEN Null ELSE s[Len(s)]

\* tail is the last node, but for the moments in which a critical section has
\* changed the one and not yet the other.
Tailed(s) ==
  /\ (\A t \in Threads : pc[t] \notin {"setTail", "setHead", "fixTail"}) => tail = LastOf(s)
  /\ \A t \in Threads :
       /\ pc[t] \in {"setTail", "setHead"} /\ s # <<>> => node[t] = LastOf(s)
       /\ pc[t] = "setHead" => tail = node[t]
       /\ pc[t] = "fixTail" /\ s # <<>> => tail = LastOf(s)

Holds(s) == s \in Seq(Nodes) /\ IsList(s) /\ Apart(s) /\ Kept(s) /\ Tailed(s)

Queues == TypeOK /\ Locked /\ Locals /\ \E s : Holds(s)

-----------------------------------------------------------------------------
(* The list is the one the memory holds.                                   *)

LEMMA HeadNull ==
  ASSUME NEW s \in Seq(Nodes), IsList(s)
  PROVE  head = Null <=> s = <<>>
BY QueueAssumption DEF IsList

\* Two lists that begin at head are the same one.
LEMMA OneList ==
  ASSUME NEW s \in Seq(Nodes), NEW r \in Seq(Nodes), IsList(s), IsList(r)
  PROVE  s = r
<1> DEFINE Same == {k \in Nat : k = 0 \/ ((k <= Len(s) <=> k <= Len(r)) /\ (k <= Len(s) => s[k] = r[k]))}
<1>1. 0 \in Same
  OBVIOUS
<1>2. ASSUME NEW k \in Nat, k \in Same PROVE k + 1 \in Same
  <2>1. CASE k = 0
    <3>1. 1 <= Len(s) <=> head # Null
      BY QueueAssumption DEF IsList
    <3>2. 1 <= Len(r) <=> head # Null
      BY QueueAssumption DEF IsList
    <3>3. 1 <= Len(s) => s[1] = r[1]
      BY <3>1, <3>2 DEF IsList
    <3> QED BY <2>1, <3>1, <3>2, <3>3
  <2>2. CASE k > 0 /\ k <= Len(s)
    <3>1. k \in 1..Len(s) /\ k \in 1..Len(r) /\ s[k] = r[k]
      BY <1>2, <2>2
    <3>2. next[s[k]] = IF k = Len(s) THEN Null ELSE s[k + 1]
      BY <3>1 DEF IsList
    <3>3. next[s[k]] = IF k = Len(r) THEN Null ELSE r[k + 1]
      BY <3>1 DEF IsList
    <3>4. k # Len(s) => s[k + 1] \in Nodes
      BY <3>1
    <3>5. k # Len(r) => r[k + 1] \in Nodes
      BY <3>1
    <3>6. k = Len(s) <=> k = Len(r)
      BY <3>2, <3>3, <3>4, <3>5, QueueAssumption
    <3> QED BY <3>1, <3>2, <3>3, <3>6
  <2>3. CASE k > 0 /\ k > Len(s)
    <3>1. k > Len(r)
      BY <1>2, <2>3
    <3> QED BY <2>3, <3>1
  <2> QED BY <2>1, <2>2, <2>3
<1>3. Nat \subseteq Same
  <2> HIDE DEF Same
  <2> QED BY <1>1, <1>2, EveryNumber
<1>4. ASSUME NEW k \in Nat \ {0} PROVE (k <= Len(s) <=> k <= Len(r)) /\ (k <= Len(s) => s[k] = r[k])
  BY <1>3
<1>5. Len(s) \in Nat /\ Len(r) \in Nat
  OBVIOUS
<1>6. Len(s) <= Len(r)
  <2>1. CASE Len(s) = 0
    BY <2>1, <1>5
  <2>2. CASE Len(s) # 0
    BY <2>2, <1>5, <1>4
  <2> QED BY <2>1, <2>2
<1>7. Len(r) <= Len(s)
  <2>1. CASE Len(r) = 0
    BY <2>1, <1>5
  <2>2. CASE Len(r) # 0
    BY <2>2, <1>5, <1>4
  <2> QED BY <2>1, <2>2
<1>8. Len(s) = Len(r) /\ \A k \in 1..Len(s) : s[k] = r[k]
  BY <1>4, <1>5, <1>6, <1>7
<1> QED BY <1>8, SeqEqual

\* A list that has no node twice has no more nodes than the memory.
LEMMA Fits ==
  ASSUME NEW s \in Seq(Nodes), \A i, j \in 1..Len(s) : s[i] = s[j] => i = j
  PROVE  s \in Lists
<1>1. Len(s) \in Nat /\ s \in [1..Len(s) -> Nodes]
  OBVIOUS
<1>2. s \in Injection(1..Len(s), Nodes)
  BY <1>1 DEF Injection, IsInjective
<1>3. IsFiniteSet(Nodes) /\ Cardinality(Nodes) \in Nat
  BY QueueAssumption, FS_CardinalityType
<1>4. Cardinality(1..Len(s)) <= Cardinality(Nodes)
  BY <1>2, <1>3, FS_Injection
<1>5. Cardinality(1..Len(s)) = Len(s)
  BY <1>1, FS_Interval
<1>6. Len(s) \in 0..Cardinality(Nodes)
  BY <1>1, <1>3, <1>4, <1>5
<1> QED BY <1>1, <1>6 DEF Lists

LEMMA ListsAreSequences == Lists \subseteq Seq(Nodes)
<1>1. Cardinality(Nodes) \in Nat
  BY QueueAssumption, FS_CardinalityType
<1> QED BY <1>1 DEF Lists

LEMMA TheList == ASSUME NEW s, Holds(s) PROVE List = s
<1>1. s \in Seq(Nodes) /\ IsList(s) /\ s \in Lists
  BY Fits DEF Holds, Apart
<1>2. \A r \in Lists : IsList(r) => r = s
  BY <1>1, OneList, ListsAreSequences
<1> QED BY <1>1, <1>2 DEF List
-----------------------------------------------------------------------------
(* Types and locks.                                                        *)

LEMMA StepTyped == ASSUME TypeOK, Locals, NEW t \in Threads, Step(t) PROVE TypeOK'
<1> USE DEF TypeOK, queueVars, At, Labels, Pointers, Lock, Unlock
<1>1. CASE CallAdd(t)
  BY <1>1 DEF CallAdd, Locals, Local
<1>2. CASE Malloc(t)
  BY <1>2 DEF Malloc, Locals, Local
<1>3. CASE Refuse(t)
  BY <1>3 DEF Refuse, Locals, Local
<1>4. CASE LockAdd(t)
  BY <1>4 DEF LockAdd, Locals, Local
<1>5. CASE Link(t)
  BY <1>5 DEF Link, Locals, Local
<1>6. CASE SetTail(t)
  BY <1>6 DEF SetTail, Locals, Local
<1>7. CASE SetHead(t)
  BY <1>7 DEF SetHead, Locals, Local
<1>8. CASE UnlockAdd(t)
  BY <1>8 DEF UnlockAdd, Locals, Local
<1>9. CASE CallGet(t)
  BY <1>9 DEF CallGet, Locals, Local
<1>10. CASE LockGet(t)
  BY <1>10 DEF LockGet, Locals, Local
<1>11. CASE Look(t)
  BY <1>11 DEF Look, Locals, Local
<1>12. CASE Advance(t)
  BY <1>12 DEF Advance, Locals, Local
<1>13. CASE FixTail(t)
  BY <1>13 DEF FixTail, Locals, Local
<1>14. CASE UnlockGet(t)
  BY <1>14 DEF UnlockGet, Locals, Local
<1>15. CASE Read(t)
  BY <1>15 DEF Read, Locals, Local
<1>16. CASE Free(t)
  BY <1>16 DEF Free, Locals, Local
<1>17. CASE UnlockMiss(t)
  BY <1>17 DEF UnlockMiss, Locals, Local
<1>18. CASE CallEmpty(t)
  BY <1>18 DEF CallEmpty, Locals, Local
<1>19. CASE Tell(t)
  BY <1>19 DEF Tell, Locals, Local
<1>20. CASE Return(t)
  BY <1>20 DEF Return, Locals, Local
<1> QED BY <1>1, <1>2, <1>3, <1>4, <1>5, <1>6, <1>7, <1>8, <1>9, <1>10, <1>11, <1>12, <1>13, <1>14, <1>15, <1>16, <1>17, <1>18, <1>19, <1>20 DEF Step

LEMMA StepLocked == ASSUME TypeOK, Locked, NEW t \in Threads, Step(t) PROVE Locked'
<1> USE QueueAssumption DEF TypeOK, Locked, queueVars, At, Critical, Lock, Unlock
<1>1. CASE CallAdd(t)
  BY <1>1 DEF CallAdd
<1>2. CASE Malloc(t)
  BY <1>2 DEF Malloc
<1>3. CASE Refuse(t)
  BY <1>3 DEF Refuse
<1>4. CASE LockAdd(t)
  BY <1>4 DEF LockAdd
<1>5. CASE Link(t)
  BY <1>5 DEF Link
<1>6. CASE SetTail(t)
  BY <1>6 DEF SetTail
<1>7. CASE SetHead(t)
  BY <1>7 DEF SetHead
<1>8. CASE UnlockAdd(t)
  BY <1>8 DEF UnlockAdd
<1>9. CASE CallGet(t)
  BY <1>9 DEF CallGet
<1>10. CASE LockGet(t)
  BY <1>10 DEF LockGet
<1>11. CASE Look(t)
  BY <1>11 DEF Look
<1>12. CASE Advance(t)
  BY <1>12 DEF Advance
<1>13. CASE FixTail(t)
  BY <1>13 DEF FixTail
<1>14. CASE UnlockGet(t)
  BY <1>14 DEF UnlockGet
<1>15. CASE Read(t)
  BY <1>15 DEF Read
<1>16. CASE Free(t)
  BY <1>16 DEF Free
<1>17. CASE UnlockMiss(t)
  BY <1>17 DEF UnlockMiss
<1>18. CASE CallEmpty(t)
  BY <1>18 DEF CallEmpty
<1>19. CASE Tell(t)
  BY <1>19 DEF Tell
<1>20. CASE Return(t)
  BY <1>20 DEF Return
<1> QED BY <1>1, <1>2, <1>3, <1>4, <1>5, <1>6, <1>7, <1>8, <1>9, <1>10, <1>11, <1>12, <1>13, <1>14, <1>15, <1>16, <1>17, <1>18, <1>19, <1>20 DEF Step

-----------------------------------------------------------------------------
(* The list.                                                               *)

\* Nothing moves between the list, the free nodes and the threads.
LEMMA NothingMoves ==
  ASSUME NEW s, Apart(s), Kept(s), heap' = heap,
         \A u \in Threads : Private(u)' = Private(u)
  PROVE  Apart(s)' /\ Kept(s)'
BY DEF Apart, Kept

LEMMA SameList ==
  ASSUME TypeOK, Locked, Locals, NEW s, Holds(s), NEW t \in Threads, Step(t),
         ~Link(t), ~SetHead(t), ~Advance(t)
  PROVE  Holds(s)' /\ Locals'
<1> USE QueueAssumption DEF TypeOK, Locked, queueVars, At, Critical, Lock, Unlock, Labels, Pointers
<1>0. s \in Seq(Nodes) /\ IsList(s) /\ Apart(s) /\ Kept(s) /\ Tailed(s)
  BY DEF Holds
<1>1. CASE CallAdd(t)
  <2>1. IsList(s)'
    BY <1>0, <1>1 DEF CallAdd, IsList, Apart
  <2>2. heap' = heap /\ \A u \in Threads : Private(u)' = Private(u)
    BY <1>1 DEF CallAdd, Private
  <2>3. Apart(s)' /\ Kept(s)'
    BY <1>0, <2>2, NothingMoves
  <2>4. Tailed(s)'
    BY <1>0, <1>1 DEF CallAdd, Tailed, LastOf
  <2>5. Locals'
    BY <1>0, <1>1 DEF CallAdd, Locals, Local, Adding, Apart, Private
  <2> QED BY <1>0, <2>1, <2>2, <2>3, <2>4, <2>5 DEF Holds
<1>2. CASE Malloc(t)
  <2>1. IsList(s)'
    BY <1>0, <1>2 DEF Malloc, IsList, Apart
  <2>2. PICK p \in heap : heap' = heap \ {p} /\ node' = [node EXCEPT ![t] = p]
    BY <1>2 DEF Malloc
  <2>3. Private(t)' = {p} /\ \A u \in Threads \ {t} : Private(u)' = Private(u)
    BY <1>2, <2>2 DEF Malloc, Private
  <2>4. Apart(s)'
    BY <1>0, <2>2, <2>3 DEF Apart
  <2>5. Kept(s)'
    BY <1>0, <1>2 DEF Malloc, Kept, Private
  <2>6. Tailed(s)'
    BY <1>0, <1>2 DEF Malloc, Tailed, LastOf
  <2>7. Locals'
    BY <1>0, <1>2 DEF Malloc, Locals, Local, Adding, Apart, Private
  <2> QED BY <1>0, <2>1, <2>2, <2>4, <2>5, <2>6, <2>7 DEF Holds
<1>3. CASE Refuse(t)
  <2>1. IsList(s)'
    BY <1>0, <1>3 DEF Refuse, IsList, Apart
  <2>2. heap' = heap /\ \A u \in Threads : Private(u)' = Private(u)
    BY <1>3 DEF Refuse, Private
  <2>3. Apart(s)' /\ Kept(s)'
    BY <1>0, <2>2, NothingMoves
  <2>4. Tailed(s)'
    BY <1>0, <1>3 DEF Refuse, Tailed, LastOf
  <2>5. Locals'
    BY <1>0, <1>3 DEF Refuse, Locals, Local, Adding, Apart, Private
  <2> QED BY <1>0, <2>1, <2>2, <2>3, <2>4, <2>5 DEF Holds
<1>4. CASE LockAdd(t)
  <2>1. IsList(s)'
    BY <1>0, <1>4 DEF LockAdd, IsList, Apart
  <2>2. heap' = heap /\ \A u \in Threads : Private(u)' = Private(u)
    BY <1>4 DEF LockAdd, Private
  <2>3. Apart(s)' /\ Kept(s)'
    BY <1>0, <2>2, NothingMoves
  <2>4. Tailed(s)'
    BY <1>0, <1>4 DEF LockAdd, Tailed, LastOf
  <2>5. Locals'
    BY <1>0, <1>4 DEF LockAdd, Locals, Local, Adding, Apart, Private
  <2> QED BY <1>0, <2>1, <2>2, <2>3, <2>4, <2>5 DEF Holds
<1>5. CASE SetTail(t)
  <2>1. IsList(s)'
    BY <1>0, <1>5 DEF SetTail, IsList, Apart
  <2>2. heap' = heap /\ \A u \in Threads : Private(u)' = Private(u)
    BY <1>5 DEF SetTail, Private
  <2>3. Apart(s)' /\ Kept(s)'
    BY <1>0, <2>2, NothingMoves
  <2>4. Tailed(s)'
    BY <1>0, <1>5 DEF SetTail, Tailed, LastOf
  <2>5. Locals'
    BY <1>0, <1>5 DEF SetTail, Locals, Local, Adding, Apart, Private
  <2> QED BY <1>0, <2>1, <2>2, <2>3, <2>4, <2>5 DEF Holds
<1>6. CASE UnlockAdd(t)
  <2>1. IsList(s)'
    BY <1>0, <1>6 DEF UnlockAdd, IsList, Apart
  <2>2. heap' = heap /\ \A u \in Threads : Private(u)' = Private(u)
    BY <1>6 DEF UnlockAdd, Private
  <2>3. Apart(s)' /\ Kept(s)'
    BY <1>0, <2>2, NothingMoves
  <2>4. Tailed(s)'
    BY <1>0, <1>6 DEF UnlockAdd, Tailed, LastOf
  <2>5. Locals'
    BY <1>0, <1>6 DEF UnlockAdd, Locals, Local, Adding, Apart, Private
  <2> QED BY <1>0, <2>1, <2>2, <2>3, <2>4, <2>5 DEF Holds
<1>7. CASE CallGet(t)
  <2>1. IsList(s)'
    BY <1>0, <1>7 DEF CallGet, IsList, Apart
  <2>2. heap' = heap /\ \A u \in Threads : Private(u)' = Private(u)
    BY <1>7 DEF CallGet, Private
  <2>3. Apart(s)' /\ Kept(s)'
    BY <1>0, <2>2, NothingMoves
  <2>4. Tailed(s)'
    BY <1>0, <1>7 DEF CallGet, Tailed, LastOf
  <2>5. Locals'
    BY <1>0, <1>7 DEF CallGet, Locals, Local, Adding, Apart, Private
  <2> QED BY <1>0, <2>1, <2>2, <2>3, <2>4, <2>5 DEF Holds
<1>8. CASE LockGet(t)
  <2>1. IsList(s)'
    BY <1>0, <1>8 DEF LockGet, IsList, Apart
  <2>2. heap' = heap /\ \A u \in Threads : Private(u)' = Private(u)
    BY <1>8 DEF LockGet, Private
  <2>3. Apart(s)' /\ Kept(s)'
    BY <1>0, <2>2, NothingMoves
  <2>4. Tailed(s)'
    BY <1>0, <1>8 DEF LockGet, Tailed, LastOf
  <2>5. Locals'
    BY <1>0, <1>8 DEF LockGet, Locals, Local, Adding, Apart, Private
  <2> QED BY <1>0, <2>1, <2>2, <2>3, <2>4, <2>5 DEF Holds
<1>9. CASE Look(t)
  <2>1. IsList(s)'
    BY <1>0, <1>9 DEF Look, IsList, Apart
  <2>2. heap' = heap /\ \A u \in Threads : Private(u)' = Private(u)
    BY <1>9 DEF Look, Private
  <2>3. Apart(s)' /\ Kept(s)'
    BY <1>0, <2>2, NothingMoves
  <2>4. Tailed(s)'
    BY <1>0, <1>9 DEF Look, Tailed, LastOf
  <2>5. Locals'
    BY <1>0, <1>9 DEF Look, Locals, Local, Adding, Apart, Private
  <2> QED BY <1>0, <2>1, <2>2, <2>3, <2>4, <2>5 DEF Holds
<1>10. CASE FixTail(t)
  <2>1. IsList(s)'
    BY <1>0, <1>10 DEF FixTail, IsList, Apart
  <2>2. heap' = heap /\ \A u \in Threads : Private(u)' = Private(u)
    BY <1>10 DEF FixTail, Private
  <2>3. Apart(s)' /\ Kept(s)'
    BY <1>0, <2>2, NothingMoves
  <2>4. Tailed(s)'
    <3>1. head = Null <=> s = <<>>
      BY <1>0, HeadNull
    <3>2. pc[t] = "fixTail" /\ \A u \in Threads : pc[u] \in {"setTail", "setHead", "fixTail"} => u = t
      BY <1>10 DEF FixTail
    <3>3. tail' = LastOf(s)
      BY <1>0, <1>10, <3>1, <3>2 DEF FixTail, Tailed, LastOf
    <3>4. \A u \in Threads : pc'[u] \notin {"setTail", "setHead", "fixTail"}
      BY <1>10, <3>2 DEF FixTail
    <3> QED BY <3>3, <3>4 DEF Tailed, LastOf
  <2>5. Locals'
    BY <1>0, <1>10 DEF FixTail, Locals, Local, Adding, Apart, Private
  <2> QED BY <1>0, <2>1, <2>2, <2>3, <2>4, <2>5 DEF Holds
<1>11. CASE UnlockGet(t)
  <2>1. IsList(s)'
    BY <1>0, <1>11 DEF UnlockGet, IsList, Apart
  <2>2. heap' = heap /\ \A u \in Threads : Private(u)' = Private(u)
    BY <1>11 DEF UnlockGet, Private
  <2>3. Apart(s)' /\ Kept(s)'
    BY <1>0, <2>2, NothingMoves
  <2>4. Tailed(s)'
    BY <1>0, <1>11 DEF UnlockGet, Tailed, LastOf
  <2>5. Locals'
    BY <1>0, <1>11 DEF UnlockGet, Locals, Local, Adding, Apart, Private
  <2> QED BY <1>0, <2>1, <2>2, <2>3, <2>4, <2>5 DEF Holds
<1>12. CASE Read(t)
  <2>1. IsList(s)'
    BY <1>0, <1>12 DEF Read, IsList, Apart
  <2>2. heap' = heap /\ \A u \in Threads : Private(u)' = Private(u)
    BY <1>12 DEF Read, Private
  <2>3. Apart(s)' /\ Kept(s)'
    BY <1>0, <2>2, NothingMoves
  <2>4. Tailed(s)'
    BY <1>0, <1>12 DEF Read, Tailed, LastOf
  <2>5. Locals'
    BY <1>0, <1>12 DEF Read, Locals, Local, Adding, Apart, Private
  <2> QED BY <1>0, <2>1, <2>2, <2>3, <2>4, <2>5 DEF Holds
<1>13. CASE Free(t)
  <2>1. IsList(s)'
    BY <1>0, <1>13 DEF Free, IsList, Apart
  <2>2. heap' = heap \union {node[t]} /\ node[t] \in Private(t)
    BY <1>13 DEF Free, Private
  <2>3. Private(t)' = {} /\ \A u \in Threads \ {t} : Private(u)' = Private(u)
    BY <1>13, <2>2 DEF Free, Private
  <2>4. Apart(s)'
    BY <1>0, <2>2, <2>3 DEF Apart
  <2>5. Kept(s)'
    BY <1>0, <1>13 DEF Free, Kept, Private
  <2>6. Tailed(s)'
    BY <1>0, <1>13 DEF Free, Tailed, LastOf
  <2>7. Locals'
    BY <1>0, <1>13 DEF Free, Locals, Local, Adding, Apart, Private
  <2> QED BY <1>0, <2>1, <2>4, <2>5, <2>6, <2>7 DEF Holds
<1>14. CASE UnlockMiss(t)
  <2>1. IsList(s)'
    BY <1>0, <1>14 DEF UnlockMiss, IsList, Apart
  <2>2. heap' = heap /\ \A u \in Threads : Private(u)' = Private(u)
    BY <1>14 DEF UnlockMiss, Private
  <2>3. Apart(s)' /\ Kept(s)'
    BY <1>0, <2>2, NothingMoves
  <2>4. Tailed(s)'
    BY <1>0, <1>14 DEF UnlockMiss, Tailed, LastOf
  <2>5. Locals'
    BY <1>0, <1>14 DEF UnlockMiss, Locals, Local, Adding, Apart, Private
  <2> QED BY <1>0, <2>1, <2>2, <2>3, <2>4, <2>5 DEF Holds
<1>15. CASE CallEmpty(t)
  <2>1. IsList(s)'
    BY <1>0, <1>15 DEF CallEmpty, IsList, Apart
  <2>2. heap' = heap /\ \A u \in Threads : Private(u)' = Private(u)
    BY <1>15 DEF CallEmpty, Private
  <2>3. Apart(s)' /\ Kept(s)'
    BY <1>0, <2>2, NothingMoves
  <2>4. Tailed(s)'
    BY <1>0, <1>15 DEF CallEmpty, Tailed, LastOf
  <2>5. Locals'
    BY <1>0, <1>15 DEF CallEmpty, Locals, Local, Adding, Apart, Private
  <2> QED BY <1>0, <2>1, <2>2, <2>3, <2>4, <2>5 DEF Holds
<1>16. CASE Tell(t)
  <2>1. IsList(s)'
    BY <1>0, <1>16 DEF Tell, IsList, Apart
  <2>2. heap' = heap /\ \A u \in Threads : Private(u)' = Private(u)
    BY <1>16 DEF Tell, Private
  <2>3. Apart(s)' /\ Kept(s)'
    BY <1>0, <2>2, NothingMoves
  <2>4. Tailed(s)'
    BY <1>0, <1>16 DEF Tell, Tailed, LastOf
  <2>5. Locals'
    BY <1>0, <1>16 DEF Tell, Locals, Local, Adding, Apart, Private
  <2> QED BY <1>0, <2>1, <2>2, <2>3, <2>4, <2>5 DEF Holds
<1>17. CASE Return(t)
  <2>1. IsList(s)'
    BY <1>0, <1>17 DEF Return, IsList, Apart
  <2>2. heap' = heap /\ \A u \in Threads : Private(u)' = Private(u)
    BY <1>17 DEF Return, Private
  <2>3. Apart(s)' /\ Kept(s)'
    BY <1>0, <2>2, NothingMoves
  <2>4. Tailed(s)'
    BY <1>0, <1>17 DEF Return, Tailed, LastOf
  <2>5. Locals'
    BY <1>0, <1>17 DEF Return, Locals, Local, Adding, Apart, Private
  <2> QED BY <1>0, <2>1, <2>2, <2>3, <2>4, <2>5 DEF Holds
<1> QED BY <1>1, <1>2, <1>3, <1>4, <1>5, <1>6, <1>7, <1>8, <1>9, <1>10, <1>11, <1>12, <1>13, <1>14, <1>15, <1>16, <1>17 DEF Step

\* Link puts the node behind the last one, when there is one.
LEMMA LinkList ==
  ASSUME TypeOK, Locked, Locals, NEW s, Holds(s), NEW t \in Threads, Link(t),
         NEW n, n = node[t], NEW r, r = Append(s, n)
  PROVE  /\ head = Null => Holds(s)'
         /\ head # Null => Holds(r)'
         /\ Locals'
<1> USE QueueAssumption DEF TypeOK, Locked, queueVars, At, Critical, Lock, Unlock, Labels, Pointers
<1>0. s \in Seq(Nodes) /\ IsList(s) /\ Apart(s) /\ Kept(s) /\ Tailed(s)
  BY DEF Holds
<1>1. /\ pc[t] = "link" /\ node[t] \in Nodes /\ next[node[t]] = Null
      /\ \A u \in Threads : pc[u] \in Critical => u = t
  BY DEF Link, Locals, Local, Adding
<1>2. tail = LastOf(s)
  BY <1>0, <1>1 DEF Tailed
<1>3. head = Null <=> s = <<>>
  BY <1>0, HeadNull
<1>4. tail = Null <=> s = <<>>
  BY <1>0, <1>2 DEF LastOf
<1>5. node[t] \in Private(t) /\ \A i \in 1..Len(s) : s[i] # node[t]
  BY <1>0, <1>1 DEF Private, Apart
<1>6. CASE tail = Null
  <2>1. IsList(s)'
    BY <1>0, <1>6 DEF Link, IsList
  <2>2. heap' = heap /\ \A u \in Threads : Private(u)' = Private(u)
    BY <1>1, <1>3, <1>4, <1>6 DEF Link, Private
  <2>3. Apart(s)' /\ Kept(s)'
    BY <1>0, <2>2, NothingMoves
  <2>4. Tailed(s)'
    BY <1>0, <1>1, <1>4, <1>6 DEF Link, Tailed, LastOf
  <2>5. Locals'
    BY <1>0, <1>6 DEF Link, Locals, Local, Adding
  <2> QED BY <1>0, <1>3, <1>4, <1>6, <2>1, <2>3, <2>4, <2>5 DEF Holds
<1>7. CASE tail # Null
  <2>1. /\ r \in Seq(Nodes) /\ Len(r) = Len(s) + 1 /\ r[Len(r)] = n /\ r # <<>> /\ LastOf(r) = n
        /\ \A i \in 1..Len(s) : r[i] = s[i]
        /\ r[1] = s[1] /\ s # <<>>
    BY <1>0, <1>1, <1>4, <1>7 DEF LastOf
  <2>2. next' = [next EXCEPT ![s[Len(s)]] = n] /\ Len(s) \in 1..Len(s) /\ s[Len(s)] \in Nodes
    <3>1. tail = s[Len(s)]
      BY <1>2, <2>1 DEF LastOf
    <3>2. next' = [next EXCEPT ![tail] = node[t]]
      BY <1>7 DEF Link
    <3> QED BY <1>0, <2>1, <3>1, <3>2
  <2>3. IsList(r)'
    <3>1. head' = r[1]
      BY <1>0, <2>1 DEF Link, IsList
    <3>2. ASSUME NEW i \in 1..Len(r) PROVE next'[r[i]] = IF i = Len(r) THEN Null ELSE r[i + 1]
      <4>1. CASE i = Len(r)
        <5>1. r[i] = n /\ n # s[Len(s)]
          BY <1>5, <2>1, <2>2, <4>1
        <5> QED BY <1>1, <2>2, <4>1, <5>1
      <4>2. CASE i = Len(s)
        BY <2>1, <2>2, <4>2
      <4>3. CASE i < Len(s)
        <5>1. i \in 1..Len(s) /\ i + 1 \in 1..Len(s) /\ r[i] = s[i] /\ r[i + 1] = s[i + 1]
          BY <1>0, <2>1, <4>3
        <5>2. s[i] # s[Len(s)]
          BY <1>0, <2>2, <4>3, <5>1 DEF Apart
        <5>3. next[s[i]] = s[i + 1]
          BY <1>0, <4>3, <5>1 DEF IsList
        <5> QED BY <1>0, <2>1, <2>2, <4>3, <5>1, <5>2, <5>3
      <4> QED BY <1>0, <2>1, <4>1, <4>2, <4>3
    <3> QED BY <2>1, <3>1, <3>2 DEF IsList
  <2>4. heap' = heap /\ Private(t)' = {} /\ \A u \in Threads \ {t} : Private(u)' = Private(u)
    BY <1>1, <1>3, <1>4, <1>7 DEF Link, Private
  <2>5. Apart(r)'
    <3>1. ASSUME NEW i \in 1..Len(r), NEW j \in 1..Len(r), r[i] = r[j] PROVE i = j
      <4>1. CASE i \in 1..Len(s) /\ j \in 1..Len(s)
        BY <1>0, <2>1, <3>1, <4>1 DEF Apart
      <4>2. CASE i = Len(r) \/ j = Len(r)
        BY <1>0, <1>5, <2>1, <3>1, <4>2
      <4> QED BY <1>0, <2>1, <4>1, <4>2
    <3>2. \A u \in Threads \ {t} : n \notin Private(u)
      BY <1>0, <1>5 DEF Apart
    <3>3. n \notin heap
      BY <1>0, <1>5 DEF Apart
    <3>4. ASSUME NEW i \in 1..Len(r) PROVE r[i] \notin heap' /\ \A u \in Threads : r[i] \notin Private(u)'
      <4>1. CASE i \in 1..Len(s)
        BY <1>0, <2>1, <2>4, <4>1 DEF Apart
      <4>2. CASE i = Len(r)
        BY <2>1, <2>4, <3>2, <3>3, <4>2
      <4> QED BY <1>0, <2>1, <4>1, <4>2
    <3>5. /\ \A u \in Threads : \A p \in Private(u)' : p \notin heap'
          /\ \A u, v \in Threads : \A p \in Private(u)' : p \in Private(v)' => u = v
      BY <1>0, <2>4 DEF Apart
    <3> QED BY <3>1, <3>4, <3>5 DEF Apart
  <2>6. Kept(r)'
    <3>1. \A p \in Private(t) : p = n
      BY DEF Private
    <3>2. ASSUME NEW p \in Nodes PROVE p \in heap' \/ (\E i \in 1..Len(r) : p = r[i]) \/ \E u \in Threads : p \in Private(u)'
      <4>1. CASE p = n
        BY <1>0, <2>1, <4>1
      <4>2. CASE p # n
        BY <1>0, <2>1, <2>4, <3>1, <4>2 DEF Kept
      <4> QED BY <4>1, <4>2
    <3> QED BY <3>2 DEF Kept
  <2>7. Tailed(r)'
    BY <1>0, <1>1, <2>1 DEF Link, Tailed, LastOf
  <2>8. Locals'
    <3>1. head # Null /\ head' = head
      BY <1>3, <1>4, <1>7 DEF Link
    <3>2. ASSUME NEW u \in Threads, Adding(u)' PROVE u # t /\ Adding(u) /\ node[u] \in Nodes /\ node[u] # s[Len(s)]
      <4>1. pc'[t] = "setTail" /\ pc' = [pc EXCEPT ![t] = "setTail"]
        BY DEF Link
      <4>2. u # t /\ pc[u] = "lockAdd"
        BY <1>1, <3>1, <3>2, <4>1 DEF Adding
      <4>3. node[u] \in Private(u) /\ node[u] \in Nodes /\ Adding(u)
        BY <4>2 DEF Private, Locals, Local, Adding
      <4> QED BY <1>0, <2>2, <4>2, <4>3 DEF Apart
    <3>3. \A u \in Threads : Adding(u)' => next'[node'[u]] = Null /\ val'[node'[u]] = arg'[u]
      BY <2>2, <3>2 DEF Link, Locals, Local
    <3> QED BY <1>0, <3>3 DEF Link, Locals, Local
  <2> QED BY <1>3, <1>4, <1>7, <2>1, <2>3, <2>5, <2>6, <2>7, <2>8 DEF Holds
<1> QED BY <1>6, <1>7

\* SetHead makes the node of an empty list its first one.
LEMMA SetHeadList ==
  ASSUME TypeOK, Locked, Locals, NEW s, Holds(s), NEW t \in Threads, SetHead(t),
         NEW n, n = node[t], NEW r, r = <<n>>
  PROVE  /\ head # Null => Holds(s)'
         /\ head = Null => Holds(r)'
         /\ Locals'
<1> USE QueueAssumption DEF TypeOK, Locked, queueVars, At, Critical, Lock, Unlock, Labels, Pointers
<1>0. s \in Seq(Nodes) /\ IsList(s) /\ Apart(s) /\ Kept(s) /\ Tailed(s)
  BY DEF Holds
<1>1. /\ pc[t] = "setHead" /\ n \in Nodes /\ tail = n /\ pc' = [pc EXCEPT ![t] = "unlockAdd"]
      /\ \A u \in Threads : pc[u] \in Critical => u = t
  BY <1>0 DEF SetHead, Locals, Local, Tailed
<1>2. head = Null <=> s = <<>>
  BY <1>0, HeadNull
<1>3. Locals'
  BY <1>1 DEF SetHead, Locals, Local, Adding
<1>4. CASE head # Null
  <2>1. IsList(s)'
    BY <1>0, <1>4 DEF SetHead, IsList
  <2>2. heap' = heap /\ \A u \in Threads : Private(u)' = Private(u)
    BY <1>1, <1>4 DEF SetHead, Private
  <2>3. Apart(s)' /\ Kept(s)'
    BY <1>0, <2>2, NothingMoves
  <2>4. Tailed(s)'
    BY <1>0, <1>1, <1>2, <1>4 DEF SetHead, Tailed, LastOf
  <2> QED BY <1>0, <1>3, <1>4, <2>1, <2>3, <2>4 DEF Holds
<1>5. CASE head = Null
  <2>1. s = <<>> /\ next[n] = Null /\ Private(t) = {n}
    BY <1>1, <1>2, <1>5 DEF Locals, Local, Adding, Private
  <2>2. r \in Seq(Nodes) /\ Len(r) = 1 /\ r[1] = n /\ r # <<>> /\ LastOf(r) = n
    BY <1>1 DEF LastOf
  <2>3. IsList(r)'
    BY <1>1, <1>5, <2>1, <2>2 DEF SetHead, IsList
  <2>4. heap' = heap /\ Private(t)' = {} /\ \A u \in Threads \ {t} : Private(u)' = Private(u)
    BY <1>1, <1>5 DEF SetHead, Private
  <2>5. Apart(r)'
    BY <1>0, <2>1, <2>2, <2>4 DEF Apart
  <2>6. Kept(r)'
    BY <1>0, <2>1, <2>2, <2>4 DEF Kept
  <2>7. Tailed(r)'
    BY <1>1, <2>2 DEF SetHead, Tailed, LastOf
  <2> QED BY <1>3, <1>5, <2>2, <2>3, <2>5, <2>6, <2>7 DEF Holds
<1> QED BY <1>3, <1>4, <1>5

\* Advance takes the first node out of the list.
LEMMA AdvanceList ==
  ASSUME TypeOK, Locked, Locals, NEW s, Holds(s), NEW t \in Threads, Advance(t),
         NEW r, r = Tail(s)
  PROVE  s # <<>> /\ node[t] = Head(s) /\ Holds(r)' /\ Locals'
<1> USE QueueAssumption DEF TypeOK, Locked, queueVars, At, Critical, Lock, Unlock, Labels, Pointers
<1>0. s \in Seq(Nodes) /\ IsList(s) /\ Apart(s) /\ Kept(s) /\ Tailed(s)
  BY DEF Holds
<1>1. /\ pc[t] = "advance" /\ head # Null /\ node[t] = head /\ pc' = [pc EXCEPT ![t] = "fixTail"]
      /\ \A u \in Threads : pc[u] \in Critical => u = t
  BY DEF Advance, Locals, Local
<1>2. s # <<>> /\ head = s[1] /\ 1 \in 1..Len(s) /\ s[1] \in Nodes
  BY <1>0, <1>1 DEF IsList
<1>3. /\ r \in Seq(Nodes) /\ Len(r) \in Nat /\ Len(s) \in Nat /\ Len(r) = Len(s) - 1
      /\ \A i \in 1..Len(r) : r[i] = s[i + 1] /\ i + 1 \in 1..Len(s)
      /\ r = <<>> <=> Len(s) = 1
      /\ r # <<>> => LastOf(r) = LastOf(s)
  <2>1. r \in Seq(Nodes) /\ Len(r) = Len(s) - 1 /\ \A i \in 1..Len(r) : r[i] = s[i + 1]
    BY <1>0, <1>2, HeadTailProperties
  <2>2. Len(r) \in Nat /\ Len(s) \in Nat
    BY <1>0, <2>1
  <2>3. r = <<>> <=> Len(r) = 0
    BY <2>1, EmptySeq
  <2>4. ASSUME r # <<>> PROVE LastOf(r) = LastOf(s)
    <3>1. Len(r) \in 1..Len(r)
      BY <2>2, <2>3, <2>4
    <3>2. r[Len(r)] = s[Len(s)]
      BY <2>1, <2>2, <3>1
    <3> QED BY <1>2, <2>4, <3>2 DEF LastOf
  <2> QED BY <2>1, <2>2, <2>3, <2>4
<1>4. IsList(r)'
  <2>1. next[s[1]] = IF Len(s) = 1 THEN Null ELSE s[2]
    <3>1. \A i \in 1..Len(s) : next[s[i]] = IF i = Len(s) THEN Null ELSE s[i + 1]
      BY <1>0 DEF IsList
    <3>2. next[s[1]] = IF 1 = Len(s) THEN Null ELSE s[1 + 1]
      BY <1>2, <3>1
    <3> QED BY <3>2
  <2>2. head' = IF r = <<>> THEN Null ELSE r[1]
    BY <1>0, <1>1, <1>2, <1>3, <2>1 DEF Advance
  <2>3. ASSUME NEW i \in 1..Len(r) PROVE next[r[i]] = IF i = Len(r) THEN Null ELSE r[i + 1]
    <3>1. i + 1 \in 1..Len(s) /\ r[i] = s[i + 1] /\ (i = Len(r) <=> i + 1 = Len(s))
      BY <1>3
    <3>2. next[s[i + 1]] = IF i + 1 = Len(s) THEN Null ELSE s[(i + 1) + 1]
      BY <1>0, <3>1 DEF IsList
    <3>3. ASSUME i # Len(r) PROVE r[i + 1] = s[(i + 1) + 1]
      <4>1. Len(r) \in Nat
        BY <1>3
      <4>2. i + 1 \in 1..Len(r)
        BY <3>3, <4>1
      <4> QED BY <1>3, <4>2
    <3> QED BY <3>1, <3>2, <3>3
  <2> QED BY <2>2, <2>3 DEF Advance, IsList
<1>5. heap' = heap /\ Private(t) = {} /\ Private(t)' = {s[1]} /\ \A u \in Threads \ {t} : Private(u)' = Private(u)
  BY <1>1, <1>2 DEF Advance, Private
<1>6. Apart(r)'
  <2>1. /\ \A i, j \in 1..Len(r) : r[i] = r[j] => i = j
        /\ \A i \in 1..Len(r) : r[i] # s[1]
    BY <1>0, <1>2, <1>3 DEF Apart
  <2>2. s[1] \notin heap /\ \A u \in Threads : s[1] \notin Private(u)
    BY <1>0, <1>2 DEF Apart
  <2>3. ASSUME NEW i \in 1..Len(r) PROVE r[i] \notin heap' /\ \A u \in Threads : r[i] \notin Private(u)'
    <3>1. r[i] \notin heap /\ \A u \in Threads : r[i] \notin Private(u)
      BY <1>0, <1>3 DEF Apart
    <3> QED BY <1>5, <2>1, <3>1
  <2>4. \A u \in Threads : \A p \in Private(u)' : p \notin heap'
    BY <1>0, <1>5, <2>2 DEF Apart
  <2>5. \A u, v \in Threads : \A p \in Private(u)' : p \in Private(v)' => u = v
    BY <1>0, <1>5, <2>2 DEF Apart
  <2> QED BY <2>1, <2>3, <2>4, <2>5 DEF Apart
<1>7. Kept(r)'
  <2>1. ASSUME NEW p \in Nodes, NEW i \in 1..Len(s), p = s[i]
        PROVE  p \in Private(t)' \/ \E j \in 1..Len(r) : p = r[j]
    <3>1. CASE i = 1
      BY <1>5, <2>1, <3>1
    <3>2. CASE i # 1
      <4>1. i - 1 \in 1..Len(r) /\ r[i - 1] = s[i]
        BY <1>0, <1>3, <3>2
      <4> QED BY <2>1, <4>1
    <3> QED BY <3>1, <3>2
  <2>2. \A p \in Nodes : p \in heap' \/ (\E i \in 1..Len(s) : p = s[i]) \/ \E u \in Threads : p \in Private(u)'
    BY <1>0, <1>5 DEF Kept
  <2> QED BY <2>1, <2>2 DEF Kept
<1>8. Tailed(r)'
  <2>1. tail = LastOf(s)
    BY <1>0, <1>1 DEF Tailed
  <2> QED BY <1>1, <1>3, <2>1 DEF Advance, Tailed
<1>9. Locals'
  BY <1>1, <1>2 DEF Advance, Locals, Local, Adding
<1> QED BY <1>0, <1>1, <1>2, <1>3, <1>4, <1>6, <1>7, <1>8, <1>9 DEF Holds

-----------------------------------------------------------------------------
LEMMA InitHolds == Init => Holds(<<>>)
BY DEF Init, Holds, IsList, Apart, Kept, Tailed, LastOf, Private

LEMMA InitQueues == Init => Queues
<1> SUFFICES ASSUME Init PROVE Queues
  OBVIOUS
<1>1. TypeOK /\ Locked /\ Locals
  BY QueueAssumption DEF Init, TypeOK, Locked, Locals, Local, Adding, Critical, Labels, Pointers
<1> QED BY <1>1, InitHolds DEF Queues

LEMMA StepQueues == ASSUME Queues, NEW t \in Threads, Step(t) PROVE Queues'
<1>1. PICK s : Holds(s)
  BY DEF Queues
<1>2. TypeOK' /\ Locked'
  BY StepTyped, StepLocked DEF Queues
<1>3. Locals' /\ \E r : Holds(r)'
  <2>1. CASE Link(t)
    BY <1>1, <2>1, LinkList DEF Queues
  <2>2. CASE SetHead(t)
    BY <1>1, <2>2, SetHeadList DEF Queues
  <2>3. CASE Advance(t)
    BY <1>1, <2>3, AdvanceList DEF Queues
  <2>4. CASE ~Link(t) /\ ~SetHead(t) /\ ~Advance(t)
    BY <1>1, <2>4, SameList DEF Queues
  <2> QED BY <2>1, <2>2, <2>3, <2>4
<1> QED BY <1>2, <1>3 DEF Queues

LEMMA HoldsStill == ASSUME UNCHANGED vars, NEW s, Holds(s) PROVE Holds(s)'
<1> USE DEF vars, queueVars
<1>1. IsList(s)' /\ Tailed(s)'
  BY DEF Holds, IsList, Tailed
<1>2. Apart(s)' /\ Kept(s)'
  BY NothingMoves DEF Holds, Private
<1> QED BY <1>1, <1>2 DEF Holds

LEMMA NextQueues == Queues /\ [Next]_vars => Queues'
<1>1. ASSUME Queues, UNCHANGED vars PROVE Queues'
  <2> USE <1>1 DEF vars, queueVars
  <2>1. PICK s : Holds(s)
    BY DEF Queues
  <2>2. TypeOK' /\ Locked' /\ Locals'
    BY DEF Queues, TypeOK, Locked, Locals, Local, Adding
  <2> QED BY <2>1, <2>2, HoldsStill DEF Queues
<1> QED BY <1>1, StepQueues DEF Next

LEMMA QueuesInvariant == Spec => []Queues
BY InitQueues, NextQueues, PTL DEF Spec

\* Every variable of the queue keeps its type: head, tail and next point to
\* nodes of the memory, and what is read from a node is a value.
THEOREM TypeCorrect == Spec => []TypeOK
<1>1. Queues => TypeOK
  BY DEF Queues
<1> QED BY <1>1, QueuesInvariant, PTL

-----------------------------------------------------------------------------
(* Memory.                                                                 *)

\* A node is free, in the list or in the hands of one thread, and only one of
\* these: strm_queue_get frees each node once and after it has left the list,
\* and no node is lost, whatever malloc hands out again.
THEOREM MemoryAccounted == Spec => []Accounted
<1>1. ASSUME Queues PROVE Accounted
  <2>1. PICK s : Holds(s)
    BY <1>1 DEF Queues
  <2>2. List = s /\ Apart(s) /\ Kept(s)
    BY <2>1, TheList DEF Holds
  <2>3. ASSUME NEW p \in Nodes
        PROVE  Cardinality({t \in Threads : p \in Private(t)})
                 + (IF p \in Listed THEN 1 ELSE 0) + (IF p \in heap THEN 1 ELSE 0) = 1
    <3> DEFINE T == {t \in Threads : p \in Private(t)}
    <3>1. p \in Listed <=> \E i \in 1..Len(s) : p = s[i]
      BY <2>2 DEF Listed
    <3>2. CASE T = {}
      <4>1. Cardinality(T) = 0
        BY <3>2, FS_EmptySet
      <4>2. p \in Listed <=> p \notin heap
        BY <2>2, <3>1, <3>2 DEF Apart, Kept
      <4> QED BY <4>1, <4>2
    <3>3. CASE T # {}
      <4>1. PICK t \in Threads : p \in Private(t)
        BY <3>3
      <4>2. T = {t}
        BY <2>2, <4>1 DEF Apart
      <4>3. Cardinality(T) = 1
        BY <4>2, FS_Singleton
      <4>4. p \notin heap /\ p \notin Listed
        BY <2>2, <3>1, <4>1 DEF Apart
      <4> QED BY <4>3, <4>4
    <3> QED BY <3>2, <3>3
  <2> QED BY <2>3 DEF Accounted
<1> QED BY <1>1, QueuesInvariant, PTL

-----------------------------------------------------------------------------
(* The first-in first-out queue.                                           *)

\* What lemma TheList says of a state, to be used of two successive ones.
OnlyList == \A s : Holds(s) => List = s

\* A step of one thread changes the request of no other.
LEMMA OthersAsk ==
  ASSUME Queues, NEW t \in Threads, Step(t), NEW u \in Threads, u # t
  PROVE  Request(u)' = Request(u)
<1> USE DEF Queues, TypeOK
<1>1. pc'[u] = pc[u] /\ arg'[u] = arg[u] /\ node'[u] = node[u]
  BY DEF Step, queueVars, At, CallAdd, Malloc, Refuse, LockAdd, Link, SetTail, SetHead, UnlockAdd, CallGet, LockGet, Look, Advance, FixTail, UnlockGet, Read, Free, UnlockMiss, CallEmpty, Tell, Return
<1>2. pc[u] \in {"setTail", "setHead"} => head' = head
  <2>1. pc[u] \in {"setTail", "setHead"} => pc[t] \notin {"setHead", "advance"}
    BY DEF Locked, Critical
  <2>2. pc[t] \notin {"setHead", "advance"} => head' = head
    BY DEF Step, queueVars, At, CallAdd, Malloc, Refuse, LockAdd, Link, SetTail, SetHead, UnlockAdd, CallGet, LockGet, Look, Advance, FixTail, UnlockGet, Read, Free, UnlockMiss, CallEmpty, Tell, Return
  <2> QED BY <2>1, <2>2
<1>3. pc[u] \in {"fixTail", "unlockGet", "read"} => val'[node[u]] = val[node[u]]
  <2>1. CASE Malloc(t)
    <3>1. PICK s : Apart(s)
      BY DEF Holds
    <3>2. pc[u] \in {"fixTail", "unlockGet", "read"} => node[u] \in Private(u) /\ node[u] \in Nodes
      BY DEF Private, Locals, Local
    <3>3. pc[u] \in {"fixTail", "unlockGet", "read"} => node[u] \notin heap
      BY <3>1, <3>2 DEF Apart
    <3> QED BY <2>1, <3>2, <3>3 DEF Malloc
  <2>2. CASE ~Malloc(t)
    <3>1. val' = val
      BY <2>2 DEF Step, queueVars, At, CallAdd, Refuse, LockAdd, Link, SetTail, SetHead, UnlockAdd, CallGet, LockGet, Look, Advance, FixTail, UnlockGet, Read, Free, UnlockMiss, CallEmpty, Tell, Return
    <3> QED BY <3>1
  <2> QED BY <2>1, <2>2
<1>4. CASE pc[u] \in {"setTail", "setHead"}
  BY <1>1, <1>2, <1>4 DEF Request
<1>5. CASE pc[u] \in {"fixTail", "unlockGet", "read"}
  BY <1>1, <1>3, <1>5 DEF Request
<1>6. CASE pc[u] \notin {"setTail", "setHead", "fixTail", "unlockGet", "read"}
  BY <1>1, <1>6 DEF Request
<1> QED BY <1>4, <1>5, <1>6

LEMMA Asks ==
  ASSUME Queues, NEW t \in Threads, Step(t), NEW op, NEW v, Request(t)' = [op |-> op, v |-> v]
  PROVE  Requests' = [Requests EXCEPT ![t] = [op |-> op, v |-> v]]
BY OthersAsk DEF Requests

\* The list is the same one, and so are the values of its nodes.
LEMMA SameItems ==
  ASSUME OnlyList, OnlyList', NEW s, Holds(s), Holds(s)',
         \A i \in 1..Len(s) : val'[s[i]] = val[s[i]]
  PROVE  Items' = Items
<1>1. List = s /\ List' = s
  BY DEF OnlyList
<1> QED BY <1>1 DEF Items

\* Only three actions change the list, and malloc no value in it.
LEMMA ItemsKept ==
  ASSUME Queues, OnlyList, OnlyList', NEW t \in Threads, Step(t),
         ~Link(t), ~SetHead(t), ~Advance(t)
  PROVE  Items' = Items
<1>1. PICK s : Holds(s)
  BY DEF Queues
<1>2. Holds(s)'
  BY <1>1, SameList DEF Queues
<1>3. ASSUME NEW i \in 1..Len(s) PROVE val'[s[i]] = val[s[i]]
  <2>1. s[i] \in Nodes /\ s[i] \notin heap
    BY <1>1 DEF Holds, Apart
  <2>2. CASE Malloc(t)
    BY <2>1, <2>2 DEF Malloc, Queues, TypeOK
  <2>3. CASE ~Malloc(t)
    BY <2>3 DEF Step, queueVars, At, CallAdd, Refuse, LockAdd, SetTail, UnlockAdd, CallGet, LockGet, Look, FixTail, UnlockGet, Read, Free, UnlockMiss, CallEmpty, Tell, Return
  <2> QED BY <2>2, <2>3
<1> QED BY <1>1, <1>2, <1>3, SameItems

LEMMA NothingSeen ==
  ASSUME Queues, NEW t \in Threads, Step(t), Request(t)' = Request(t), Items' = Items
  PROVE  UNCHANGED Abstract!vars
<1>1. Requests' = Requests
  BY OthersAsk DEF Requests
<1> QED BY <1>1 DEF Abstract!vars

\* Each step of an operation is a step of the abstract queue, or none.  An add
\* takes effect when its node is linked, a get when head moves on or is seen to
\* be null.
LEMMA StepImplements ==
  ASSUME Queues, OnlyList, OnlyList', NEW t \in Threads, Step(t)
  PROVE  Abstract!Next \/ UNCHANGED Abstract!vars
<1> USE DEF Queues, TypeOK, At
<1>0. Requests[t] = Request(t)
  BY DEF Requests
<1>1. CASE CallAdd(t)
  <2>1. PICK v \in Values : arg' = [arg EXCEPT ![t] = v]
    BY <1>1 DEF CallAdd
  <2>2. Request(t)' = [op |-> "add", v |-> v]
    BY <1>1, <2>1 DEF CallAdd, Request
  <2>3. Items' = Items
    BY <1>1, ItemsKept DEF CallAdd, Link, SetHead, Advance
  <2>4. Requests' = [Requests EXCEPT ![t] = [op |-> "add", v |-> v]]
    BY <2>2, Asks
  <2>5. Abstract!Invoke(t)
    BY <1>1, <1>0, <2>3, <2>4 DEF CallAdd, Request, Abstract!Invoke, Abstract!Answer, Abstract!Idle
  <2> QED BY <2>5 DEF Abstract!Next
<1>2. CASE Malloc(t)
  <2>1. Request(t)' = Request(t)
    BY <1>2 DEF Malloc, Request
  <2>2. Items' = Items
    BY <1>2, ItemsKept DEF Malloc, Link, SetHead, Advance
  <2> QED BY <2>1, <2>2, NothingSeen
<1>3. CASE Refuse(t)
  <2>1. Request(t)' = [op |-> "refused", v |-> arg[t]]
    BY <1>3 DEF Refuse, Request
  <2>2. Items' = Items
    BY <1>3, ItemsKept DEF Refuse, Link, SetHead, Advance
  <2>3. Requests' = [Requests EXCEPT ![t] = [op |-> "refused", v |-> arg[t]]]
    BY <2>1, Asks
  <2>4. Requests[t] = [op |-> "add", v |-> arg[t]]
    BY <1>3, <1>0 DEF Refuse, Request
  <2>5. Abstract!Add(t)
    BY <2>2, <2>3, <2>4 DEF Abstract!Add, Abstract!Answer
  <2> QED BY <2>5 DEF Abstract!Next
<1>4. CASE LockAdd(t)
  <2>1. Request(t)' = Request(t)
    BY <1>4 DEF LockAdd, Request
  <2>2. Items' = Items
    BY <1>4, ItemsKept DEF LockAdd, Link, SetHead, Advance
  <2> QED BY <2>1, <2>2, NothingSeen
<1>5. CASE Link(t)
  <2>1. PICK s : Holds(s)
    BY DEF Queues
  <2>2. s \in Seq(Nodes) /\ List = s /\ pc[t] = "link" /\ (head = Null <=> tail = Null)
    <3>1. s \in Seq(Nodes) /\ List = s /\ pc[t] = "link" /\ (head = Null <=> s = <<>>)
      BY <1>5, <2>1, HeadNull DEF Link, OnlyList, Holds
    <3>2. tail = LastOf(s)
      BY <2>1, <3>1 DEF Holds, Tailed, Locked, Critical
    <3> QED BY <3>1, <3>2, QueueAssumption DEF LastOf
  <2>3. CASE head = Null
    <3>1. Request(t)' = Request(t)
      BY <1>5, <2>2, <2>3 DEF Link, Request
    <3>2. Holds(s)'
      BY <1>5, <2>1, <2>3, LinkList
    <3>3. Items' = Items
      BY <1>5, <2>1, <3>2, SameItems DEF Link
    <3> QED BY <3>1, <3>3, NothingSeen
  <2>4. CASE head # Null
    <3> DEFINE r == Append(s, node[t])
    <3>1. PICK q : q = r
      OBVIOUS
    <3>2. Holds(q)' /\ List' = q
      BY <1>5, <2>1, <2>4, <3>1, LinkList DEF OnlyList
    <3>3. node[t] \in Nodes /\ val[node[t]] = arg[t] /\ val' = val
      BY <1>5, <2>2 DEF Link, Locals, Local, Adding
    <3>4. Items' = Append(Items, arg[t])
      BY <2>2, <3>1, <3>2, <3>3 DEF Items
    <3>5. Request(t) = [op |-> "add", v |-> arg[t]] /\ Request(t)' = [op |-> "added", v |-> arg[t]]
      BY <1>5, <2>2, <2>4 DEF Link, Request
    <3>6. Requests' = [Requests EXCEPT ![t] = [op |-> "added", v |-> arg[t]]]
      BY <3>5, Asks
    <3>7. Abstract!Add(t)
      BY <1>0, <3>4, <3>5, <3>6 DEF Abstract!Add, Abstract!Answer
    <3> QED BY <3>7 DEF Abstract!Next
  <2> QED BY <2>3, <2>4
<1>6. CASE SetTail(t)
  <2>1. Request(t)' = Request(t)
    BY <1>6 DEF SetTail, Request
  <2>2. Items' = Items
    BY <1>6, ItemsKept DEF SetTail, Link, SetHead, Advance
  <2> QED BY <2>1, <2>2, NothingSeen
<1>7. CASE SetHead(t)
  <2>1. PICK s : Holds(s)
    BY DEF Queues
  <2>2. s \in Seq(Nodes) /\ List = s /\ pc[t] = "setHead" /\ (head = Null <=> s = <<>>)
    BY <1>7, <2>1, HeadNull DEF SetHead, OnlyList, Holds
  <2>3. CASE head # Null
    <3>1. Request(t)' = Request(t)
      BY <1>7, <2>2, <2>3 DEF SetHead, Request
    <3>2. Holds(s)'
      BY <1>7, <2>1, <2>3, SetHeadList
    <3>3. Items' = Items
      BY <1>7, <2>1, <3>2, SameItems DEF SetHead
    <3> QED BY <3>1, <3>3, NothingSeen
  <2>4. CASE head = Null
    <3>1. PICK q : q = <<node[t]>>
      OBVIOUS
    <3>2. Holds(q)' /\ List' = q
      BY <1>7, <2>1, <2>4, <3>1, SetHeadList DEF OnlyList
    <3>3. node[t] \in Nodes /\ val[node[t]] = arg[t] /\ val' = val
      BY <1>7, <2>2, <2>4 DEF SetHead, Locals, Local, Adding
    <3>4. Items = <<>> /\ Items' = <<arg[t]>>
      BY <2>2, <2>4, <3>1, <3>2, <3>3 DEF Items
    <3>5. Request(t) = [op |-> "add", v |-> arg[t]] /\ Request(t)' = [op |-> "added", v |-> arg[t]]
      BY <1>7, <2>2, <2>4 DEF SetHead, Request
    <3>6. Requests' = [Requests EXCEPT ![t] = [op |-> "added", v |-> arg[t]]]
      BY <3>5, Asks
    <3>7. Abstract!Add(t)
      BY <1>0, <3>4, <3>5, <3>6 DEF Abstract!Add, Abstract!Answer
    <3> QED BY <3>7 DEF Abstract!Next
  <2> QED BY <2>3, <2>4
<1>8. CASE UnlockAdd(t)
  <2>1. Request(t)' = Request(t)
    BY <1>8 DEF UnlockAdd, Request
  <2>2. Items' = Items
    BY <1>8, ItemsKept DEF UnlockAdd, Link, SetHead, Advance
  <2> QED BY <2>1, <2>2, NothingSeen
<1>9. CASE CallGet(t)
  <2>1. Request(t)' = [op |-> "get", v |-> Null]
    BY <1>9 DEF CallGet, Request, Abstract!Idle
  <2>2. Items' = Items
    BY <1>9, ItemsKept DEF CallGet, Link, SetHead, Advance
  <2>3. Requests' = [Requests EXCEPT ![t] = [op |-> "get", v |-> Null]]
    BY <2>1, Asks
  <2>4. Abstract!Invoke(t)
    BY <1>9, <1>0, <2>2, <2>3 DEF CallGet, Request, Abstract!Idle, Abstract!Invoke, Abstract!Answer
  <2> QED BY <2>4 DEF Abstract!Next
<1>10. CASE LockGet(t)
  <2>1. Request(t)' = Request(t)
    BY <1>10 DEF LockGet, Request
  <2>2. Items' = Items
    BY <1>10, ItemsKept DEF LockGet, Link, SetHead, Advance
  <2> QED BY <2>1, <2>2, NothingSeen
<1>11. CASE Look(t)
  <2>1. Items' = Items
    BY <1>11, ItemsKept DEF Look, Link, SetHead, Advance
  <2>2. CASE head # Null
    <3>1. Request(t)' = Request(t)
      BY <1>11, <2>2 DEF Look, Request
    <3> QED BY <2>1, <3>1, NothingSeen
  <2>3. CASE head = Null
    <3>1. PICK s : Holds(s)
      BY DEF Queues
    <3>2. List = <<>>
      BY <2>3, <3>1, HeadNull DEF OnlyList, Holds
    <3>3. Items = <<>>
      BY <3>2 DEF Items
    <3>4. Request(t) = [op |-> "get", v |-> Null] /\ Request(t)' = [op |-> "got", v |-> Null]
      BY <1>11, <2>3 DEF Look, Request
    <3>5. Requests' = [Requests EXCEPT ![t] = [op |-> "got", v |-> Null]]
      BY <3>4, Asks
    <3>6. Abstract!Get(t)
      BY <1>0, <2>1, <3>3, <3>4, <3>5 DEF Abstract!Get, Abstract!Answer
    <3> QED BY <3>6 DEF Abstract!Next
  <2> QED BY <2>2, <2>3
<1>12. CASE Advance(t)
  <2>1. PICK s : Holds(s)
    BY DEF Queues
  <2>2. PICK q : q = Tail(s)
    OBVIOUS
  <2>3. s # <<>> /\ node[t] = Head(s) /\ Holds(q)'
    BY <1>12, <2>1, <2>2, AdvanceList
  <2>4. s \in Seq(Nodes) /\ List = s /\ List' = q /\ val' = val
    BY <1>12, <2>1, <2>3 DEF Advance, OnlyList, Holds
  <2>5. Items # <<>> /\ Head(Items) = val[node[t]] /\ Items' = Tail(Items)
    BY <2>2, <2>3, <2>4 DEF Items
  <2>6. Requests[t].op = "get" /\ Request(t)' = [op |-> "got", v |-> val[node[t]]]
    BY <1>0, <1>12 DEF Advance, Request
  <2>7. Requests' = [Requests EXCEPT ![t] = [op |-> "got", v |-> Head(Items)]]
    BY <2>5, <2>6, Asks
  <2>8. Abstract!Get(t)
    BY <2>5, <2>6, <2>7 DEF Abstract!Get, Abstract!Answer
  <2> QED BY <2>8 DEF Abstract!Next
<1>13. CASE FixTail(t)
  <2>1. Request(t)' = Request(t)
    BY <1>13 DEF FixTail, Request
  <2>2. Items' = Items
    BY <1>13, ItemsKept DEF FixTail, Link, SetHead, Advance
  <2> QED BY <2>1, <2>2, NothingSeen
<1>14. CASE UnlockGet(t)
  <2>1. Request(t)' = Request(t)
    BY <1>14 DEF UnlockGet, Request
  <2>2. Items' = Items
    BY <1>14, ItemsKept DEF UnlockGet, Link, SetHead, Advance
  <2> QED BY <2>1, <2>2, NothingSeen
<1>15. CASE Read(t)
  <2>1. Request(t)' = Request(t)
    BY <1>15 DEF Read, Request
  <2>2. Items' = Items
    BY <1>15, ItemsKept DEF Read, Link, SetHead, Advance
  <2> QED BY <2>1, <2>2, NothingSeen
<1>16. CASE Free(t)
  <2>1. Request(t)' = Request(t)
    BY <1>16 DEF Free, Request
  <2>2. Items' = Items
    BY <1>16, ItemsKept DEF Free, Link, SetHead, Advance
  <2> QED BY <2>1, <2>2, NothingSeen
<1>17. CASE UnlockMiss(t)
  <2>1. Request(t)' = Request(t)
    BY <1>17 DEF UnlockMiss, Request
  <2>2. Items' = Items
    BY <1>17, ItemsKept DEF UnlockMiss, Link, SetHead, Advance
  <2> QED BY <2>1, <2>2, NothingSeen
<1>18. CASE CallEmpty(t)
  <2>1. Request(t)' = [op |-> "empty", v |-> Null]
    BY <1>18 DEF CallEmpty, Request, Abstract!Idle, Locals, Local
  <2>2. Items' = Items
    BY <1>18, ItemsKept DEF CallEmpty, Link, SetHead, Advance
  <2>3. Requests' = [Requests EXCEPT ![t] = [op |-> "empty", v |-> Null]]
    BY <2>1, Asks
  <2>4. Abstract!Invoke(t)
    BY <1>18, <1>0, <2>2, <2>3 DEF CallEmpty, Request, Abstract!Idle, Locals, Local, Abstract!Invoke, Abstract!Answer
  <2> QED BY <2>4 DEF Abstract!Next
<1>19. CASE Tell(t)
  <2>1. Items' = Items
    BY <1>19, ItemsKept DEF Tell, Link, SetHead, Advance
  <2>2. PICK s : Holds(s)
    BY DEF Queues
  <2>3. s \in Seq(Nodes) /\ List = s /\ (head = Null <=> s = <<>>)
    BY <2>2, HeadNull DEF OnlyList, Holds
  <2>4. (head = Null) = (Items = <<>>)
    BY <2>3 DEF Items
  <2>5. Request(t).op = "empty" /\ Request(t)' = [op |-> "told", v |-> (head = Null)]
    BY <1>19 DEF Tell, Request
  <2>6. Requests' = [Requests EXCEPT ![t] = [op |-> "told", v |-> (head = Null)]]
    BY <2>5, Asks
  <2>7. Abstract!Empty(t)
    BY <1>0, <2>1, <2>4, <2>5, <2>6 DEF Abstract!Empty, Abstract!Answer
  <2> QED BY <2>7 DEF Abstract!Next
<1>20. CASE Return(t)
  <2>1. Request(t)' = [op |-> "idle", v |-> Null]
    BY <1>20 DEF Return, Request, Abstract!Idle
  <2>2. Items' = Items
    BY <1>20, ItemsKept DEF Return, Link, SetHead, Advance
  <2>3. Requests' = [Requests EXCEPT ![t] = [op |-> "idle", v |-> Null]]
    BY <2>1, Asks
  <2>4. Abstract!Return(t)
    BY <1>20, <1>0, <2>2, <2>3 DEF Return, Request, Abstract!Idle, Abstract!Return, Abstract!Answer
  <2> QED BY <2>4 DEF Abstract!Next
<1> QED BY <1>1, <1>2, <1>3, <1>4, <1>5, <1>6, <1>7, <1>8, <1>9, <1>10, <1>11, <1>12, <1>13, <1>14, <1>15, <1>16, <1>17, <1>18, <1>19, <1>20 DEF Step

LEMMA InitImplements == ASSUME Init, OnlyList PROVE Abstract!Init
<1>1. Holds(<<>>)
  BY InitHolds
<1>2. List = <<>>
  BY <1>1 DEF OnlyList
<1>3. Items = <<>>
  BY <1>2 DEF Items
<1>4. \A t \in Threads : Request(t) = Abstract!Idle
  BY DEF Init, Request, Abstract!Idle
<1> QED BY <1>3, <1>4 DEF Requests, Abstract!Init

LEMMA NextImplements ==
  ASSUME Queues, OnlyList, OnlyList', [Next]_vars
  PROVE  [Abstract!Next]_(Abstract!vars)
<1>1. CASE Next
  BY <1>1, StepImplements DEF Next
<1>2. CASE UNCHANGED vars
  <2>1. PICK s : Holds(s)
    BY DEF Queues
  <2>2. Holds(s)'
    BY <1>2, <2>1, HoldsStill
  <2>3. Items' = Items
    BY <1>2, <2>1, <2>2, SameItems DEF vars, queueVars
  <2>4. Requests' = Requests
    BY <1>2 DEF vars, queueVars, Requests, Request
  <2> QED BY <2>3, <2>4 DEF Abstract!vars
<1> QED BY <1>1, <1>2

\* The queue of queue.c, whatever the order of its threads' stores, is the
\* first-in first-out queue of Fifo: an add and a get take effect at one moment
\* between their call and their return, values leave in the order they came,
\* each once, and strm_queue_empty_p, which takes no lock, answers what was true
\* at some moment of its call.
THEOREM ImplementsQueue == Spec => ImplementsFifo
<1>1. Queues => OnlyList
  BY TheList DEF OnlyList
<1>2. Init /\ OnlyList => Abstract!Init
  BY InitImplements
<1>3. Queues /\ OnlyList /\ OnlyList' /\ [Next]_vars => [Abstract!Next]_(Abstract!vars)
  BY NextImplements
<1> QED BY <1>1, <1>2, <1>3, QueuesInvariant, PTL DEF Spec, ImplementsFifo, Abstract!Spec
================================================================================
