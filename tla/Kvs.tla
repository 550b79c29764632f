---------------------------------- MODULE Kvs ----------------------------------
(***************************************************************************)
(* The key-value store of src/src/kvs.c: get, put, update and optimistic   *)
(* transactions of threads that share one store.  A critical section of    *)
(* the store's mutex is one step; what a thread does between two of them   *)
(* (calling the program's function, the transaction's own table) is part   *)
(* of the step before or after it.  The functions the calls are given are  *)
(* pure and do not fail.                                                   *)
(***************************************************************************)
EXTENDS Naturals, Sequences, FiniteSets, SequencesExt

CONSTANTS Threads, Keys, Programs, Initial,
          Tags,       \* what functions add to a value
          Fragile,    \* the programs that may run out of memory
          MaxTry,     \* MAXTRY
          SameSlot    \* the keys whose slot in a transaction's table is the one
                      \* they have in the store's

Operations == [op : {"get"}, key : Keys] \cup [op : {"put", "derive", "update"}, key : Keys, tag : Tags]
Reads == {"get", "update"}

\* A call outside of transactions is one operation; only what has been read can be
\* derived from.
IsCall(c) ==
  /\ ~c.txn => Len(c.body) = 1 /\ c.body[1].op # "derive"
  /\ \A n \in 1..Len(c.body) :
       c.body[n].op = "derive" => \E m \in 1..(n - 1) : c.body[m].op \in Reads

ASSUME KvsAssumption ==
  /\ IsFiniteSet(Keys) /\ SameSlot \subseteq Keys /\ Initial \in [Keys -> Seq(Tags)]
  /\ \A p \in Programs : /\ p \in [Threads -> Seq([txn : BOOLEAN, body : Seq(Operations)])]
                         /\ \A t \in Threads : \A n \in 1..Len(p[t]) : IsCall(p[t][n])
  /\ Fragile \subseteq Programs /\ MaxTry \in Nat

VARIABLES program,
          kv, serial,  \* struct strm_kvs
          answers,     \* what the calls of each thread have returned
          pc,          \* where the thread is in its current call
          old,         \* what kvs_update has read
          txn          \* struct strm_txn and the local variables of kvs_txn

storeVars == <<kv, serial>>
vars == <<program, kv, serial, answers, pc, old, txn>>

Abstract == INSTANCE Store WITH db <- kv

Nil == <<>>
MayFail == program \in Fragile
Garbage == <<"uninitialised">>
Failed == [ok |-> FALSE, got |-> <<>>]
Busy(t) == Len(answers[t]) < Len(program[t])
Current(t) == program[t][Len(answers[t]) + 1]

\* tv is the transaction's table, i the operation its function is at, got what
\* the function has read; began is history, the store's serial when kvs_txn was
\* called.
NoTxn == [tv |-> <<>>, serial |-> 0, tries |-> 0, i |-> 1, got |-> <<>>, began |-> 0]

FirstSerial == 1 + Cardinality({k \in Keys : Initial[k] # Nil})

Init ==
  /\ program \in Programs
  /\ kv = Initial /\ serial = FirstSerial
  /\ answers = [t \in Threads |-> <<>>]
  /\ pc = [t \in Threads |-> "idle"]
  /\ old = [t \in Threads |-> Nil]
  /\ txn = [t \in Threads |-> NoTxn]

Written(table, k, v) == [x \in DOMAIN table \union {k} |-> IF x = k THEN v ELSE table[x]]

Goto(t, label) == pc' = [pc EXCEPT ![t] = label]

SetTxn(t, x) == txn' = [txn EXCEPT ![t] = x]

Store(k, v) == kv' = Written(kv, k, v) /\ serial' = serial + 1

\* The call is over; its local variables and its transaction are gone.
Return(t, answer) ==
  /\ answers' = [answers EXCEPT ![t] = Append(@, answer)]
  /\ Goto(t, "idle") /\ old' = [old EXCEPT ![t] = Nil] /\ SetTxn(t, NoTxn)

Ok(got) == [ok |-> TRUE, got |-> got]

-----------------------------------------------------------------------------
(* db.get, db.put and db.update                                            *)

Calls(t, op) == /\ pc[t] = "idle" /\ Busy(t)
                /\ ~Current(t).txn /\ Current(t).body[1].op = op

Op(t) == Current(t).body[1]

Get(t) == Calls(t, "get") /\ Return(t, Ok(<<kv[Op(t).key]>>)) /\ UNCHANGED storeVars

Put(t) == /\ Calls(t, "put")
          /\ \/ Store(Op(t).key, <<Op(t).tag>>) /\ Return(t, Ok(<<>>))
             \/ MayFail /\ Return(t, Failed) /\ UNCHANGED storeVars

ReadOld(t) ==
  /\ Calls(t, "update")
  /\ LET v == kv[Op(t).key]
     IN IF v = Nil THEN Return(t, Failed)
        ELSE /\ old' = [old EXCEPT ![t] = v]
             /\ Goto(t, "call")
             /\ UNCHANGED <<answers, txn>>
  /\ UNCHANGED storeVars

StoreNew(t) ==
  /\ pc[t] = "call"
  /\ LET v == Append(old[t], Op(t).tag)
     IN \/ kv[Op(t).key] = old[t] /\ Store(Op(t).key, v) /\ Return(t, Ok(<<v>>))
        \/ /\ MayFail \/ kv[Op(t).key] # old[t]
           /\ Return(t, Failed) /\ UNCHANGED storeVars

-----------------------------------------------------------------------------
(* db.txn: the function runs on the transaction, then its table is copied  *)
(* into the store, provided that nobody has changed the store since.       *)

\* mutant: txn_new copies the serial of an older store
BeginStale(t) == /\ pc[t] = "idle" /\ Busy(t) /\ Current(t).txn
                 /\ SetTxn(t, [NoTxn EXCEPT !.serial = FirstSerial, !.began = serial])
                 /\ Goto(t, "run")
                 /\ UNCHANGED <<storeVars, answers, old>>

Begin(t) == /\ pc[t] = "idle" /\ Busy(t) /\ Current(t).txn
            /\ SetTxn(t, [NoTxn EXCEPT !.serial = serial, !.began = serial])
            /\ Goto(t, "run")
            /\ UNCHANGED <<storeVars, answers, old>>

AtEnd(t) == txn[t].i > Len(Current(t).body)

TxnOp(t) == Current(t).body[txn[t].i]

Runs(t, ops) == pc[t] = "run" /\ ~AtEnd(t) /\ TxnOp(t).op \in ops

Again(x) == [x EXCEPT !.i = 1, !.got = <<>>]

\* get and update first compare the serials; a difference makes the function
\* fail with the mark that asks kvs_txn for another try.
Check(t) == /\ Runs(t, Reads)
            /\ IF txn[t].serial = serial
                 THEN Goto(t, "access") /\ UNCHANGED txn
                 ELSE Goto(t, "retry") /\ SetTxn(t, [txn[t] EXCEPT !.serial = 0])
            /\ UNCHANGED <<storeVars, answers, old>>

\* mutant: the function is run again with the serial it had
RetryBlindly(t) ==
  /\ pc[t] = "retry"
  /\ SetTxn(t, Again(txn[t])) /\ Goto(t, "run") /\ UNCHANGED <<answers, old>>
  /\ UNCHANGED storeVars

\* mutant: one try too many
RetryOnceMore(t) ==
  /\ pc[t] = "retry"
  /\ LET tries == txn[t].tries + 1
     IN IF txn[t].tries > MaxTry THEN Return(t, Failed)
        ELSE /\ SetTxn(t, [Again(txn[t]) EXCEPT !.tries = tries, !.serial = serial])
             /\ Goto(t, "run") /\ UNCHANGED <<answers, old>>
  /\ UNCHANGED storeVars

Retry(t) ==
  /\ pc[t] = "retry"
  /\ LET tries == txn[t].tries + 1
     IN IF tries > MaxTry THEN Return(t, Failed)
        ELSE /\ SetTxn(t, [Again(txn[t]) EXCEPT !.tries = tries, !.serial = serial])
             /\ Goto(t, "run") /\ UNCHANGED <<answers, old>>
  /\ UNCHANGED storeVars

\* mutant: the transaction does not see what it has written itself
SeenStore(t, k) == kv[k]

\* What the transaction sees under a key: its own value or the store's.
Seen(t, k) == IF k \in DOMAIN txn[t].tv THEN txn[t].tv[k] ELSE kv[k]

TxnGet(t) ==
  /\ pc[t] = "access" /\ TxnOp(t).op = "get"
  /\ SetTxn(t, [txn[t] EXCEPT !.got = Append(@, Seen(t, TxnOp(t).key)), !.i = @ + 1])
  /\ Goto(t, "run")
  /\ UNCHANGED <<storeVars, answers, old>>

TxnPut(t) ==
  /\ Runs(t, {"put", "derive"})
  /\ LET o == TxnOp(t)
         v == IF o.op = "put" THEN <<o.tag>> ELSE Append(Last(txn[t].got), o.tag)
     IN \/ /\ SetTxn(t, [txn[t] EXCEPT !.tv = Written(@, o.key, v), !.i = @ + 1])
           /\ UNCHANGED <<answers, pc, old>>
        \/ MayFail /\ Return(t, Failed)
  /\ UNCHANGED storeVars

\* The new value is stored at the index of the table searched last, which is
\* the store's when the transaction had no value of its own.
TxnUpdate(t) ==
  /\ pc[t] = "access" /\ TxnOp(t).op = "update"
  /\ LET o == TxnOp(t)
         v == Append(Seen(t, o.key), o.tag)
         stored == IF o.key \in DOMAIN txn[t].tv \union SameSlot THEN v ELSE Garbage
     IN \/ /\ Seen(t, o.key) # Nil
           /\ SetTxn(t, [txn[t] EXCEPT !.tv = Written(@, o.key, stored),
                                       !.got = Append(@, v), !.i = @ + 1])
           /\ Goto(t, "run") /\ UNCHANGED <<answers, old>>
        \/ (Seen(t, o.key) = Nil \/ MayFail) /\ Return(t, Failed)
  /\ UNCHANGED storeVars

\* The values of the transaction's table under some of its keys, over the store's.
Overlay(t, ks) == [k \in Keys |-> IF k \in ks THEN txn[t].tv[k] ELSE kv[k]]

\* mutant: the transaction is committed whatever has happened to the store
CommitAnyway(t) ==
  /\ pc[t] = "run" /\ AtEnd(t)
  /\ kv' = Overlay(t, DOMAIN txn[t].tv) /\ serial' = serial + 1
  /\ Return(t, Ok(txn[t].got))

Commit(t) ==
  /\ pc[t] = "run" /\ AtEnd(t) /\ txn[t].serial = serial
  /\ kv' = Overlay(t, DOMAIN txn[t].tv) /\ serial' = serial + 1
  /\ Return(t, Ok(txn[t].got))

\* The store has changed: the function is run again, with the same table and
\* the same serial.
CommitLate(t) ==
  /\ pc[t] = "run" /\ AtEnd(t) /\ txn[t].serial # serial
  /\ SetTxn(t, Again(txn[t]))
  /\ UNCHANGED <<storeVars, answers, pc, old>>

\* Memory runs out after some of the values have been copied.
CommitPartly(t) ==
  /\ MayFail
  /\ pc[t] = "run" /\ AtEnd(t) /\ txn[t].serial = serial
  /\ \E ks \in SUBSET DOMAIN txn[t].tv : /\ ks # DOMAIN txn[t].tv
                                         /\ kv' = Overlay(t, ks)
  /\ Return(t, Failed) /\ UNCHANGED serial

-----------------------------------------------------------------------------
Step(t) == /\ \/ Get(t) \/ Put(t) \/ ReadOld(t) \/ StoreNew(t)
              \/ Begin(t) \/ Check(t) \/ Retry(t)
              \/ TxnGet(t) \/ TxnPut(t) \/ TxnUpdate(t)
              \/ Commit(t) \/ CommitLate(t) \/ CommitPartly(t)
           /\ UNCHANGED program

Done == \A t \in Threads : ~Busy(t)

Next == (\E t \in Threads : Step(t)) \/ (Done /\ UNCHANGED vars)

Spec == Init /\ [][Next]_vars

\* Every thread is a worker of the scheduler, which the operating system runs.
FairSpec == Spec /\ \A t \in Threads : WF_vars(Step(t))
-----------------------------------------------------------------------------
(* What programs may do in transactions if these are to keep their promise. *)

\* The keys that the first n operations of a body change.
Writes(body, n) == {body[m].key : m \in {j \in 1..n : body[j].op # "get"}}

\* Nothing is read in the transaction that is written in it: a later try then
\* reads nothing that an earlier one has left in the table.
Apart(body) ==
  \A n \in 1..Len(body) : body[n].op \in Reads => body[n].key \notin Writes(body, Len(body))

\* Nobody else changes the store.
Alone(p, t) ==
  \A u \in Threads \ {t} : \A n \in 1..Len(p[u]) : ~p[u][n].txn /\ p[u][n].body[1].op = "get"

\* txn.update finds the index of the right table.
InSlots(body) ==
  \A n \in 1..Len(body) : body[n].op = "update" => body[n].key \in SameSlot \cup Writes(body, n - 1)

\* Where memory may run out a commit of several keys may be left half done.
OneKey(body) == \A k, l \in Writes(body, Len(body)) : k = l

SupportedIn(programs) ==
  \A p \in programs, t \in Threads : \A n \in 1..Len(p[t]) :
    p[t][n].txn => /\ Apart(p[t][n].body) \/ (Alone(p, t) /\ InSlots(p[t][n].body))
                   /\ p \in Fragile => OneKey(p[t][n].body)

Supported == SupportedIn(Programs)
-----------------------------------------------------------------------------
(* Properties.                                                             *)

IsValue(v) == DOMAIN v = 1..Len(v)

TypeOK ==
  /\ DOMAIN kv = Keys /\ \A k \in Keys : IsValue(kv[k])
  /\ serial \in Nat
  /\ pc \in [Threads -> {"idle", "call", "run", "retry", "access"}]
  /\ \A t \in Threads :
       /\ IsValue(old[t])
       /\ DOMAIN txn[t].tv \subseteq Keys
       /\ txn[t].serial <= serial /\ txn[t].tries <= MaxTry
       /\ txn[t].i >= 1

\* Every call takes effect at one moment or has no effect: what transactions
\* read and write cannot be told from running them one after the other.
ImplementsStore == Abstract!Spec

\* A transaction is tried again because of others only: for each time that kvs_txn
\* has counted, the store has been changed once since the transaction began.  (Its
\* own thread changes nothing meanwhile.)
RetriesCaused == \A t \in Threads : txn[t].tries <= serial - txn[t].began

\* Every call returns, and so every thread gets through its program.
EveryCallReturns == <>Done

\* The tags of the changes thread t has successfully made to key k.
Made(t, k) == {o.tag : o \in {x \in UNION {Range(program[t][n].body) :
                         n \in {j \in 1..Len(answers[t]) : answers[t][j].ok}} :
                         x.op # "get" /\ x.key = k}}

\* An update or transaction that has succeeded on a key stays in its value;
\* no change that somebody made in between is lost, and none is made twice.
\* (For programs that never put, whose values therefore only grow.)
EachChangeOnce ==
  \A t \in Threads, k \in Keys : \A g \in Made(t, k) :
    Cardinality({i \in 1..Len(kv[k]) : kv[k][i] = g}) = 1
=============================================================================
