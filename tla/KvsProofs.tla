------------------------------- MODULE KvsProofs -------------------------------
(***************************************************************************)
(* Why transactions are tried again, and the types of the store, the calls *)
(* and the transactions, for every program, number of threads and MAXTRY;  *)
(* and that the key-value store implements the atomic store of Store, in   *)
(* every program that keeps to what transactions support.                  *)
(***************************************************************************)
EXTENDS Kvs, Induction, FiniteSetTheorems, SequenceTheorems, TLAPS

\* The transaction's serial is one the store has had since the transaction
\* began; it is 0 only as the mark for another try.  Counted says how many
\* tries there can have been from the serial at its beginning up to that one.
Fields == {"tv", "serial", "tries", "i", "got", "began"}

Sound(label, x, s) ==
  /\ DOMAIN x = Fields
  /\ x.serial \in Nat /\ x.tries \in Nat /\ x.began \in Nat /\ x.began <= s
  /\ label \in {"idle", "call"} => x.tries = 0
  /\ label \in {"run", "access"} => x.serial <= s /\ x.tries <= x.serial - x.began
  /\ label = "retry" => x.tries < s - x.began
  /\ label \in {"idle", "call", "run", "access", "retry"}

Counted ==
  /\ serial \in Nat
  /\ txn = [t \in Threads |-> txn[t]] /\ pc = [t \in Threads |-> pc[t]]
  /\ \A t \in Threads : Sound(pc[t], txn[t], serial)

LEMMA FirstSerialType == FirstSerial \in Nat
<1>1. IsFiniteSet({k \in Keys : Initial[k] # Nil})
  BY FS_Subset, KvsAssumption
<1>2. Cardinality({k \in Keys : Initial[k] # Nil}) \in Nat
  BY <1>1, FS_CardinalityType
<1> QED BY <1>2 DEF FirstSerial

\* What is sound stays so when the serial grows.
LEMMA SoundLater ==
  ASSUME NEW label, NEW x, NEW s \in Nat, NEW s2 \in Nat, s <= s2, Sound(label, x, s)
  PROVE  Sound(label, x, s2)
BY DEF Sound

\* A step of one thread need only be sound for that thread.
LEMMA Moves ==
  ASSUME NEW t \in Threads, Counted, NEW label, NEW x,
         serial' \in {serial, serial + 1},
         Goto(t, label), SetTxn(t, x),
         Sound(label, x, serial')
  PROVE  Counted'
<1>1. serial \in Nat
  BY DEF Counted
<1>2. serial' \in Nat /\ serial <= serial'
  BY <1>1
<1>3. /\ txn' = [u \in Threads |-> txn'[u]]
      /\ pc' = [u \in Threads |-> pc'[u]]
  BY DEF Counted, Goto, SetTxn
<1>4. ASSUME NEW u \in Threads PROVE Sound(pc'[u], txn'[u], serial')
  <2>1. CASE u = t
    <3>1. pc'[u] = label /\ txn'[u] = x
      BY <2>1 DEF Counted, Goto, SetTxn
    <3> QED BY <3>1
  <2>2. CASE u # t
    <3>1. pc'[u] = pc[u] /\ txn'[u] = txn[u]
      BY <2>2 DEF Counted, Goto, SetTxn
    <3>2. Sound(pc[u], txn[u], serial)
      BY DEF Counted
    <3>3. Sound(pc[u], txn[u], serial')
      BY <1>1, <1>2, <3>2, SoundLater
    <3> QED BY <3>1, <3>3
  <2> QED BY <2>1, <2>2
<1> QED BY <1>1, <1>2, <1>3, <1>4 DEF Counted

LEMMA Returns ==
  ASSUME NEW t \in Threads, Counted, NEW answer, Return(t, answer),
         serial' \in {serial, serial + 1}
  PROVE  Counted'
<1>1. Goto(t, "idle") /\ SetTxn(t, NoTxn)
  BY DEF Return
<1>2. Sound("idle", NoTxn, serial')
  BY DEF Counted, Sound, NoTxn, Fields
<1> QED BY <1>1, <1>2, Moves

LEMMA StepCounted == ASSUME Counted, NEW t \in Threads, Step(t) PROVE Counted'
<1> USE DEF storeVars
<1>0. serial \in Nat /\ serial + 1 \in Nat /\ serial <= serial + 1
      /\ Sound(pc[t], txn[t], serial)
      /\ DOMAIN txn = Threads /\ DOMAIN pc = Threads
      /\ txn = [u \in Threads |-> txn[u]] /\ pc = [u \in Threads |-> pc[u]]
  BY DEF Counted
<1>1. CASE Get(t)
  BY <1>0, <1>1, Returns DEF Get
<1>2. CASE Put(t)
  BY <1>0, <1>2, Returns DEF Put, Store
<1>3. CASE ReadOld(t)
  <2>1. CASE kv[Op(t).key] = Nil
    BY <1>0, <1>3, <2>1, Returns DEF ReadOld
  <2>2. CASE kv[Op(t).key] # Nil
    <3>1. serial' = serial /\ Goto(t, "call") /\ txn' = txn /\ pc[t] = "idle"
      BY <1>3, <2>2 DEF ReadOld, Calls
    <3>2. SetTxn(t, txn[t])
      BY <1>0, <3>1 DEF SetTxn
    <3>3. Sound("call", txn[t], serial')
      BY <1>0, <3>1 DEF Sound
    <3> QED BY <1>0, <3>1, <3>2, <3>3, Moves
  <2> QED BY <2>1, <2>2
<1>4. CASE StoreNew(t)
  BY <1>0, <1>4, Returns DEF StoreNew, Store
<1>5. CASE Begin(t)
  <2> DEFINE x == [NoTxn EXCEPT !.serial = serial, !.began = serial]
  <2>1. serial' = serial /\ Goto(t, "run") /\ SetTxn(t, x)
    BY <1>5 DEF Begin
  <2>2. DOMAIN x = Fields /\ x.serial = serial /\ x.began = serial /\ x.tries = 0
    BY DEF NoTxn, Fields
  <2>3. Sound("run", x, serial')
    BY <1>0, <2>1, <2>2 DEF Sound
  <2> HIDE DEF x
  <2> QED BY <1>0, <2>1, <2>3, Moves
<1>6. CASE Check(t)
  <2>1. pc[t] = "run" /\ serial' = serial
    BY <1>6 DEF Check, Runs
  <2>2. CASE txn[t].serial = serial
    <3>1. Goto(t, "access") /\ txn' = txn
      BY <1>6, <2>2 DEF Check
    <3>2. SetTxn(t, txn[t])
      BY <1>0, <3>1 DEF SetTxn
    <3>3. Sound("access", txn[t], serial')
      BY <1>0, <2>1, <3>1 DEF Sound
    <3> QED BY <1>0, <2>1, <3>1, <3>2, <3>3, Moves
  <2>3. CASE txn[t].serial # serial
    <3> DEFINE x == [txn[t] EXCEPT !.serial = 0]
    <3>1. Goto(t, "retry") /\ SetTxn(t, x)
      BY <1>6, <2>3 DEF Check
    <3>2. DOMAIN x = Fields /\ x.serial = 0 /\ x.tries = txn[t].tries /\ x.began = txn[t].began
      BY <1>0 DEF Sound, Fields
    <3>3. txn[t].tries < serial - txn[t].began
      BY <1>0, <2>1, <2>3 DEF Sound
    <3>4. Sound("retry", x, serial')
      BY <1>0, <2>1, <3>1, <3>2, <3>3 DEF Sound
    <3> HIDE DEF x
    <3> QED BY <1>0, <2>1, <3>1, <3>4, Moves
  <2> QED BY <2>2, <2>3
<1>7. CASE Retry(t)
  <2>1. pc[t] = "retry" /\ serial' = serial
    BY <1>7 DEF Retry
  <2>2. CASE txn[t].tries + 1 > MaxTry
    BY <1>0, <1>7, <2>1, <2>2, Returns DEF Retry
  <2>3. CASE ~(txn[t].tries + 1 > MaxTry)
    <3> DEFINE x == [Again(txn[t]) EXCEPT !.tries = txn[t].tries + 1, !.serial = serial]
    <3>1. Goto(t, "run") /\ SetTxn(t, x)
      BY <1>7, <2>3 DEF Retry
    <3>2. DOMAIN x = Fields /\ x.serial = serial /\ x.tries = txn[t].tries + 1 /\ x.began = txn[t].began
      BY <1>0 DEF Sound, Fields, Again
    <3>3. Sound("run", x, serial')
      BY <1>0, <2>1, <3>1, <3>2 DEF Sound
    <3> HIDE DEF x
    <3> QED BY <1>0, <2>1, <3>1, <3>3, Moves
  <2> QED BY <2>2, <2>3
<1>8. CASE TxnGet(t)
  <2> DEFINE x == [txn[t] EXCEPT !.got = Append(@, Seen(t, TxnOp(t).key)), !.i = @ + 1]
  <2>1. /\ pc[t] = "access" /\ serial' = serial
        /\ Goto(t, "run") /\ SetTxn(t, x)
    BY <1>8 DEF TxnGet
  <2>2. DOMAIN x = Fields /\ x.serial = txn[t].serial /\ x.tries = txn[t].tries /\ x.began = txn[t].began
    BY <1>0 DEF Sound, Fields
  <2>3. Sound("run", x, serial')
    BY <1>0, <2>1, <2>2 DEF Sound
  <2> HIDE DEF x
  <2> QED BY <1>0, <2>1, <2>3, Moves
<1>9. CASE TxnPut(t)
  <2>1. pc[t] = "run" /\ serial' = serial
    BY <1>9 DEF TxnPut, Runs
  <2>2. CASE Return(t, Failed)
    BY <1>0, <2>1, <2>2, Returns
  <2>3. ASSUME NEW v, SetTxn(t, [txn[t] EXCEPT !.tv = Written(@, TxnOp(t).key, v), !.i = @ + 1]),
               pc' = pc
        PROVE  Counted'
    <3> DEFINE x == [txn[t] EXCEPT !.tv = Written(@, TxnOp(t).key, v), !.i = @ + 1]
    <3>1. SetTxn(t, x) /\ Goto(t, pc[t])
      BY <1>0, <2>3 DEF Goto
    <3>2. DOMAIN x = Fields /\ x.serial = txn[t].serial /\ x.tries = txn[t].tries /\ x.began = txn[t].began
      BY <1>0 DEF Sound, Fields
    <3>3. Sound(pc[t], x, serial')
      BY <1>0, <2>1, <3>1, <3>2 DEF Sound
    <3> HIDE DEF x
    <3> QED BY <1>0, <2>1, <3>1, <3>3, Moves
  <2> QED BY <1>9, <2>2, <2>3 DEF TxnPut
<1>10. CASE TxnUpdate(t)
  <2>1. pc[t] = "access" /\ serial' = serial
    BY <1>10 DEF TxnUpdate
  <2>2. CASE Return(t, Failed)
    BY <1>0, <2>1, <2>2, Returns
  <2>3. ASSUME NEW v, NEW w, Goto(t, "run"),
               SetTxn(t, [txn[t] EXCEPT !.tv = Written(@, TxnOp(t).key, w),
                                        !.got = Append(@, v), !.i = @ + 1])
        PROVE  Counted'
    <3> DEFINE x == [txn[t] EXCEPT !.tv = Written(@, TxnOp(t).key, w),
                                   !.got = Append(@, v), !.i = @ + 1]
    <3>1. SetTxn(t, x) /\ Goto(t, "run")
      BY <2>3
    <3>2. DOMAIN x = Fields /\ x.serial = txn[t].serial /\ x.tries = txn[t].tries /\ x.began = txn[t].began
      BY <1>0 DEF Sound, Fields
    <3>3. Sound("run", x, serial')
      BY <1>0, <2>1, <3>1, <3>2 DEF Sound
    <3> HIDE DEF x
    <3> QED BY <1>0, <2>1, <3>1, <3>3, Moves
  <2> QED BY <1>10, <2>2, <2>3 DEF TxnUpdate
<1>11. CASE Commit(t)
  BY <1>0, <1>11, Returns DEF Commit
<1>12. CASE CommitLate(t)
  <2> DEFINE x == Again(txn[t])
  <2>1. pc[t] = "run" /\ serial' = serial
        /\ SetTxn(t, x) /\ Goto(t, pc[t])
    BY <1>0, <1>12 DEF CommitLate, Goto
  <2>2. DOMAIN x = Fields /\ x.serial = txn[t].serial /\ x.tries = txn[t].tries /\ x.began = txn[t].began
    BY <1>0 DEF Sound, Fields, Again
  <2>3. Sound(pc[t], x, serial')
    BY <1>0, <2>1, <2>2 DEF Sound
  <2> HIDE DEF x
  <2> QED BY <1>0, <2>1, <2>3, Moves
<1>13. CASE CommitPartly(t)
  BY <1>0, <1>13, Returns DEF CommitPartly
<1> QED BY <1>1, <1>2, <1>3, <1>4, <1>5, <1>6, <1>7, <1>8, <1>9, <1>10, <1>11, <1>12, <1>13
        DEF Step

LEMMA CountedInvariant == Spec => []Counted
<1>1. Init => Counted
  BY FirstSerialType DEF Init, Counted, Sound, NoTxn, Fields
<1>2. Counted /\ [Next]_vars => Counted'
  <2> SUFFICES ASSUME Counted, [Next]_vars PROVE Counted'
    OBVIOUS
  <2>1. CASE \E t \in Threads : Step(t)
    BY <2>1, StepCounted
  <2>2. CASE UNCHANGED vars
    BY <2>2 DEF vars, Counted, Sound
  <2> QED BY <2>1, <2>2 DEF Next
<1> QED BY <1>1, <1>2, PTL DEF Spec

\* A transaction has never been tried again more often than the store has been
\* changed since the transaction began: kvs_txn counts a try only when somebody
\* else's change has spoilt the one before, and the same change never spoils two.
THEOREM NoSpuriousRetry == Spec => []RetriesCaused
<1>1. Counted => RetriesCaused
  BY DEF Counted, Sound, RetriesCaused
<1> QED BY <1>1, CountedInvariant, PTL

-----------------------------------------------------------------------------
(* Types.                                                                  *)

Texts == Tags \cup {"uninitialised"}
Values == Seq(Texts)
Tables == UNION {[ks -> Values] : ks \in SUBSET Keys}
Labels == {"idle", "call", "run", "retry", "access"}
ProgramCalls == [txn : BOOLEAN, body : Seq(Operations)]
Answers == [ok : BOOLEAN, got : Seq(Values)]
Txns == [tv : Tables, serial : Nat, tries : 0..MaxTry, i : Nat \ {0}, got : Seq(Values), began : Nat]

\* Where a thread is in call c.
Placed(c, label, x) ==
  /\ label = "call" => ~c.txn /\ c.body[1].op = "update"
  /\ label \in {"run", "access"} =>
       /\ c.txn /\ x.i <= Len(c.body) + 1
       /\ (\E m \in 1..(x.i - 1) : c.body[m].op \in Reads) => x.got # <<>>
  /\ label = "retry" => c.txn
  /\ label = "access" => x.i <= Len(c.body) /\ c.body[x.i].op \in Reads

Typed ==
  /\ program \in Programs /\ kv \in [Keys -> Values] /\ serial \in Nat
  /\ answers \in [Threads -> Seq(Answers)]
  /\ pc \in [Threads -> Labels] /\ old \in [Threads -> Values] /\ txn \in [Threads -> Txns]
  /\ \A t \in Threads : /\ txn[t].serial <= serial
                        /\ pc[t] # "idle" => Busy(t) /\ Placed(Current(t), pc[t], txn[t])

LEMMA CurrentType ==
  ASSUME Typed, NEW t \in Threads, Busy(t)
  PROVE  /\ Current(t) \in ProgramCalls /\ Current(t).body \in Seq(Operations)
         /\ Len(Current(t).body) \in Nat /\ IsCall(Current(t))
<1>1. /\ program[t] \in Seq(ProgramCalls)
      /\ \A n \in 1..Len(program[t]) : IsCall(program[t][n])
  BY KvsAssumption DEF Typed, ProgramCalls
<1>2. Len(answers[t]) \in Nat /\ Len(program[t]) \in Nat
  BY <1>1 DEF Typed
<1>3. Len(answers[t]) + 1 \in 1..Len(program[t])
  BY <1>2 DEF Busy
<1>4. Current(t) \in ProgramCalls
  BY <1>1, <1>3 DEF Current
<1>5. Current(t).body \in Seq(Operations)
  BY <1>4 DEF ProgramCalls
<1> QED BY <1>1, <1>3, <1>4, <1>5 DEF Current

LEMMA OperationType ==
  ASSUME NEW o \in Operations
  PROVE  /\ o.op \in {"get", "put", "derive", "update"} /\ o.key \in Keys
         /\ o.op # "get" => o.tag \in Tags
BY DEF Operations

LEMMA TypedMove ==
  ASSUME Typed, NEW t \in Threads, NEW label \in Labels, NEW x \in Txns,
         kv' \in [Keys -> Values], serial' \in Nat, serial <= serial', program' = program,
         answers' = answers, old' \in [Threads -> Values],
         Goto(t, label), SetTxn(t, x), x.serial <= serial',
         label # "idle" => Busy(t) /\ Placed(Current(t), label, x)
  PROVE  Typed'
<1>1. pc' = [pc EXCEPT ![t] = label] /\ txn' = [txn EXCEPT ![t] = x]
  BY DEF Goto, SetTxn
<1>2. pc' \in [Threads -> Labels] /\ txn' \in [Threads -> Txns]
  BY <1>1 DEF Typed
<1>3. \A u \in Threads : Busy(u)' = Busy(u) /\ Current(u)' = Current(u)
  BY DEF Busy, Current
<1>4. ASSUME NEW u \in Threads
      PROVE  /\ txn'[u].serial <= serial'
             /\ pc'[u] # "idle" => Busy(u)' /\ Placed(Current(u)', pc'[u], txn'[u])
  <2>1. CASE u = t
    <3>1. pc'[u] = label /\ txn'[u] = x
      BY <1>1, <2>1 DEF Typed
    <3> QED BY <1>3, <2>1, <3>1
  <2>2. CASE u # t
    <3>1. pc'[u] = pc[u] /\ txn'[u] = txn[u]
      BY <1>1, <2>2 DEF Typed
    <3>2. txn[u].serial \in Nat /\ txn[u].serial <= serial /\ serial \in Nat
      BY DEF Typed, Txns
    <3>3. pc[u] # "idle" => Busy(u) /\ Placed(Current(u), pc[u], txn[u])
      BY DEF Typed
    <3>4. txn'[u].serial <= serial'
      BY <3>1, <3>2
    <3>5. pc'[u] # "idle" => Busy(u)' /\ Placed(Current(u)', pc'[u], txn'[u])
      BY <1>3, <3>1, <3>3
    <3> QED BY <3>4, <3>5
  <2> QED BY <2>1, <2>2
<1> QED BY <1>2, <1>4 DEF Typed

LEMMA NoTxnType == NoTxn \in Txns /\ Nil \in Values
<1>1. <<>> \in Values /\ <<>> \in Seq(Values)
  BY DEF Values
<1>2. <<>> \in Tables
  <2>1. <<>> \in [{} -> Values]
    OBVIOUS
  <2> QED BY <2>1 DEF Tables
<1>3. MaxTry \in Nat
  BY KvsAssumption
<1> QED BY <1>1, <1>2, <1>3 DEF Nil, NoTxn, Txns

LEMMA TypedReturn ==
  ASSUME Typed, NEW t \in Threads, NEW answer \in Answers, Return(t, answer),
         kv' \in [Keys -> Values], serial' \in Nat, serial <= serial', program' = program
  PROVE  Typed'
<1>1. /\ pc' = [pc EXCEPT ![t] = "idle"] /\ txn' = [txn EXCEPT ![t] = NoTxn]
      /\ old' = [old EXCEPT ![t] = Nil] /\ answers' = [answers EXCEPT ![t] = Append(answers[t], answer)]
  BY DEF Return, Goto, SetTxn
<1>2. Nil \in Values /\ NoTxn \in Txns
  BY NoTxnType
<1>3. /\ pc' \in [Threads -> Labels] /\ txn' \in [Threads -> Txns] /\ old' \in [Threads -> Values]
      /\ answers' \in [Threads -> Seq(Answers)]
  BY <1>1, <1>2 DEF Typed, Labels
<1>4. ASSUME NEW u \in Threads
      PROVE  /\ txn'[u].serial <= serial'
             /\ pc'[u] # "idle" => Busy(u)' /\ Placed(Current(u)', pc'[u], txn'[u])
  <2>1. CASE u = t
    <3>1. pc'[u] = "idle" /\ txn'[u].serial = 0
      BY <1>1, <2>1 DEF Typed, NoTxn
    <3> QED BY <3>1
  <2>2. CASE u # t
    <3>1. pc'[u] = pc[u] /\ txn'[u] = txn[u] /\ answers'[u] = answers[u]
      BY <1>1, <2>2 DEF Typed
    <3>2. txn[u].serial \in Nat /\ txn[u].serial <= serial /\ serial \in Nat
      BY DEF Typed, Txns
    <3>3. pc[u] # "idle" => Busy(u) /\ Placed(Current(u), pc[u], txn[u])
      BY DEF Typed
    <3>4. Busy(u)' = Busy(u) /\ Current(u)' = Current(u)
      BY <3>1 DEF Busy, Current
    <3>5. txn'[u].serial <= serial'
      BY <3>1, <3>2
    <3>6. pc'[u] # "idle" => Busy(u)' /\ Placed(Current(u)', pc'[u], txn'[u])
      BY <3>1, <3>3, <3>4
    <3> QED BY <3>5, <3>6
  <2> QED BY <2>1, <2>2
<1> QED BY <1>3, <1>4 DEF Typed

LEMMA TableType ==
  ASSUME NEW tv \in Tables
  PROVE  /\ DOMAIN tv \subseteq Keys /\ \A k \in DOMAIN tv : tv[k] \in Values
         /\ \A k \in Keys, v \in Values : Written(tv, k, v) \in Tables
<1>1. PICK ks \in SUBSET Keys : tv \in [ks -> Values]
  BY DEF Tables
<1>2. ASSUME NEW k \in Keys, NEW v \in Values PROVE Written(tv, k, v) \in Tables
  <2>1. Written(tv, k, v) \in [ks \cup {k} -> Values]
    BY <1>1 DEF Written
  <2>2. ks \cup {k} \in SUBSET Keys
    OBVIOUS
  <2> QED BY <2>1, <2>2 DEF Tables
<1> QED BY <1>1, <1>2

LEMMA ValueType ==
  /\ \A v \in Values, g \in Tags : Append(v, g) \in Values
  /\ \A g \in Tags : <<g>> \in Values
  /\ Garbage \in Values /\ Nil \in Values
  /\ \A vs \in Seq(Values) : vs # <<>> => Last(vs) \in Values
<1>1. \A v \in Values, g \in Tags : Append(v, g) \in Values
  BY DEF Values, Texts
<1>2. \A g \in Tags : <<g>> \in Values
  BY DEF Values, Texts
<1>3. Garbage \in Values /\ Nil \in Values
  BY DEF Values, Texts, Garbage, Nil
<1>4. \A vs \in Seq(Values) : vs # <<>> => Last(vs) \in Values
  BY EmptySeq DEF Last
<1> QED BY <1>1, <1>2, <1>3, <1>4

LEMMA SeenType == ASSUME Typed, NEW t \in Threads, NEW k \in Keys PROVE Seen(t, k) \in Values
<1>1. txn[t].tv \in Tables /\ kv[k] \in Values
  BY DEF Typed, Txns
<1> QED BY <1>1, TableType DEF Seen

LEMMA OverlayType ==
  ASSUME Typed, NEW t \in Threads, NEW ks \in SUBSET DOMAIN txn[t].tv
  PROVE  Overlay(t, ks) \in [Keys -> Values]
<1>1. txn[t].tv \in Tables /\ \A k \in Keys : kv[k] \in Values
  BY DEF Typed, Txns
<1> QED BY <1>1, TableType DEF Overlay

\* Single calls.
LEMMA SingleType ==
  ASSUME Typed, NEW t \in Threads, Busy(t), ~Current(t).txn
  PROVE  Op(t) \in Operations /\ Op(t).op # "derive"
<1>1. Len(Current(t).body) = 1 /\ Current(t).body[1].op # "derive"
  BY CurrentType DEF IsCall
<1> QED BY <1>1, CurrentType DEF Op

LEMMA FailedType == Failed \in Answers /\ \A vs \in Seq(Values) : Ok(vs) \in Answers
BY DEF Failed, Ok, Answers

LEMMA GetTyped == ASSUME Typed, NEW t \in Threads, Get(t), program' = program PROVE Typed'
<1>1. Op(t) \in Operations
  BY SingleType DEF Get, Calls
<1>2. kv[Op(t).key] \in Values
  BY <1>1, OperationType DEF Typed
<1>3. Ok(<<kv[Op(t).key]>>) \in Answers
  <2>1. <<kv[Op(t).key]>> \in Seq(Values)
    BY <1>2
  <2> QED BY <2>1, FailedType
<1> QED BY <1>3, TypedReturn DEF Get, storeVars, Typed

LEMMA StoreType ==
  ASSUME Typed, NEW k \in Keys, NEW v \in Values, Store(k, v)
  PROVE  kv' \in [Keys -> Values] /\ serial' = serial + 1 /\ serial' \in Nat
<1>1. Written(kv, k, v) \in [Keys -> Values]
  BY DEF Typed, Written
<1> QED BY <1>1 DEF Store, Typed

LEMMA PutTyped == ASSUME Typed, NEW t \in Threads, Put(t), program' = program PROVE Typed'
<1>1. Op(t) \in Operations /\ Op(t).op = "put"
  BY SingleType DEF Put, Calls, Op
<1>2. Op(t).key \in Keys /\ <<Op(t).tag>> \in Values
  BY <1>1, OperationType, ValueType
<1>3. CASE Store(Op(t).key, <<Op(t).tag>>) /\ Return(t, Ok(<<>>))
  <2>1. Ok(<<>>) \in Answers
    <3>1. <<>> \in Seq(Values)
      OBVIOUS
    <3> QED BY <3>1, FailedType
  <2> QED BY <1>2, <1>3, <2>1, StoreType, TypedReturn DEF Typed
<1>4. CASE Return(t, Failed) /\ UNCHANGED storeVars
  BY <1>4, FailedType, TypedReturn DEF Typed, storeVars
<1> QED BY <1>3, <1>4 DEF Put

LEMMA ReadOldTyped == ASSUME Typed, NEW t \in Threads, ReadOld(t), program' = program PROVE Typed'
<1>1. Op(t) \in Operations /\ Busy(t) /\ ~Current(t).txn
  BY SingleType DEF ReadOld, Calls
<1>2. kv[Op(t).key] \in Values
  BY <1>1, OperationType DEF Typed
<1>3. CASE kv[Op(t).key] = Nil
  BY <1>3, FailedType, TypedReturn DEF ReadOld, storeVars, Typed
<1>4. CASE kv[Op(t).key] # Nil
  <2>1. /\ old' = [old EXCEPT ![t] = kv[Op(t).key]] /\ Goto(t, "call")
        /\ answers' = answers /\ txn' = txn /\ kv' = kv /\ serial' = serial
    BY <1>4 DEF ReadOld, storeVars
  <2>2. SetTxn(t, txn[t]) /\ txn[t] \in Txns /\ txn[t].serial <= serial
    BY <2>1 DEF SetTxn, Typed
  <2>3. old' \in [Threads -> Values]
    BY <1>2, <2>1 DEF Typed
  <2>4. Placed(Current(t), "call", txn[t])
    BY <1>1 DEF Placed, ReadOld, Calls
  <2>5. "call" \in Labels
    BY DEF Labels
  <2> QED BY <1>1, <2>1, <2>2, <2>3, <2>4, <2>5, TypedMove DEF Typed
<1> QED BY <1>3, <1>4

LEMMA StoreNewTyped == ASSUME Typed, NEW t \in Threads, StoreNew(t), program' = program PROVE Typed'
<1>1. Busy(t) /\ ~Current(t).txn /\ Op(t).op = "update"
  BY DEF StoreNew, Typed, Placed, Op
<1>2. Op(t) \in Operations
  BY <1>1, SingleType
<1>3. CASE UNCHANGED storeVars /\ Return(t, Failed)
  BY <1>3, FailedType, TypedReturn DEF storeVars, Typed
<1>4. PICK v : v = Append(old[t], Op(t).tag)
  OBVIOUS
<1>5. v \in Values /\ Op(t).key \in Keys
  BY <1>1, <1>2, <1>4, OperationType, ValueType DEF Typed
<1>6. CASE Store(Op(t).key, v) /\ Return(t, Ok(<<v>>))
  <2>1. <<v>> \in Seq(Values)
    BY <1>5
  <2>2. Ok(<<v>>) \in Answers
    BY <2>1, FailedType
  <2>3. kv' \in [Keys -> Values] /\ serial' \in Nat /\ serial <= serial'
    BY <1>5, <1>6, StoreType DEF Typed
  <2> QED BY <1>6, <2>2, <2>3, TypedReturn
<1> QED BY <1>3, <1>4, <1>6 DEF StoreNew

\* The fields of a transaction that a step changes.
LEMMA TxnType ==
  ASSUME NEW x \in Txns
  PROVE  /\ Again(x) \in Txns /\ Again(x).serial = x.serial /\ Again(x).i = 1
         /\ Again(x).tv = x.tv /\ Again(x).got = <<>>
         /\ \A n \in Nat : [x EXCEPT !.serial = n] \in Txns
         /\ \A n \in Nat : [x EXCEPT !.serial = n, !.began = n] \in Txns
         /\ \A n \in Nat, m \in 0..MaxTry : [x EXCEPT !.tries = m, !.serial = n] \in Txns
         /\ \A got \in Seq(Values), i \in Nat \ {0} : [x EXCEPT !.got = got, !.i = i] \in Txns
         /\ \A tv \in Tables, i \in Nat \ {0} : [x EXCEPT !.tv = tv, !.i = i] \in Txns
         /\ \A tv \in Tables, got \in Seq(Values), i \in Nat \ {0} :
              [x EXCEPT !.tv = tv, !.got = got, !.i = i] \in Txns
<1>1. <<>> \in Seq(Values) /\ 1 \in Nat \ {0}
  OBVIOUS
<1>2. Again(x) \in Txns /\ Again(x).serial = x.serial /\ Again(x).i = 1
  BY <1>1 DEF Again, Txns
<1>3. Again(x).tv = x.tv /\ Again(x).got = <<>>
  BY <1>1 DEF Again, Txns
<1> QED BY <1>1, <1>2, <1>3 DEF Txns

\* Transactions.
LEMMA InTxn ==
  ASSUME Typed, NEW t \in Threads, pc[t] \in {"run", "access", "retry"}
  PROVE  /\ Busy(t) /\ Current(t).txn /\ Placed(Current(t), pc[t], txn[t])
         /\ txn[t] \in Txns /\ txn[t].i \in Nat \ {0} /\ txn[t].i + 1 \in Nat \ {0}
         /\ txn[t].got \in Seq(Values) /\ txn[t].tv \in Tables
         /\ txn[t].serial \in Nat /\ txn[t].serial <= serial
         /\ Len(Current(t).body) \in Nat
         /\ ~AtEnd(t) => TxnOp(t) \in Operations /\ txn[t].i \in 1..Len(Current(t).body)
         /\ pc[t] = "access" => ~AtEnd(t) /\ TxnOp(t).op \in Reads
<1>1. /\ Busy(t) /\ Placed(Current(t), pc[t], txn[t])
      /\ txn[t] \in Txns /\ txn[t].serial <= serial
  BY DEF Typed
<1>2. Current(t).txn
  BY <1>1 DEF Placed
<1>3. /\ txn[t].i \in Nat \ {0} /\ txn[t].got \in Seq(Values) /\ txn[t].tv \in Tables
      /\ txn[t].serial \in Nat
  BY <1>1 DEF Txns
<1>4. Current(t).body \in Seq(Operations) /\ Len(Current(t).body) \in Nat
  BY <1>1, CurrentType
<1>5. ~AtEnd(t) => txn[t].i \in 1..Len(Current(t).body)
  BY <1>3, <1>4 DEF AtEnd
<1>6. ~AtEnd(t) => TxnOp(t) \in Operations
  BY <1>4, <1>5 DEF TxnOp
<1>7. pc[t] = "access" => ~AtEnd(t) /\ TxnOp(t).op \in Reads
  BY <1>1, <1>3, <1>4 DEF Placed, AtEnd, TxnOp
<1> QED BY <1>1, <1>2, <1>3, <1>4, <1>5, <1>6, <1>7

\* A step of a transaction that leaves the store alone.
LEMMA TypedStep ==
  ASSUME Typed, NEW t \in Threads, NEW label \in Labels, NEW x \in Txns,
         UNCHANGED <<program, kv, serial, answers, old>>,
         Goto(t, label), SetTxn(t, x), x.serial <= serial,
         Busy(t) /\ Placed(Current(t), label, x)
  PROVE  Typed'
<1>1. kv' \in [Keys -> Values] /\ serial' \in Nat /\ serial <= serial' /\ old' \in [Threads -> Values]
  BY DEF Typed
<1> QED BY <1>1, TypedMove

LEMMA BeginTyped == ASSUME Typed, NEW t \in Threads, Begin(t), program' = program PROVE Typed'
<1>1. Busy(t) /\ Current(t).txn /\ serial \in Nat /\ Len(Current(t).body) \in Nat
  BY CurrentType DEF Begin, Typed
<1>2. PICK x : x = [NoTxn EXCEPT !.serial = serial, !.began = serial]
  OBVIOUS
<1>3. x \in Txns /\ x.serial = serial /\ x.i = 1
  BY <1>1, <1>2, NoTxnType, TxnType DEF NoTxn
<1>4. Placed(Current(t), "run", x)
  BY <1>1, <1>3 DEF Placed
<1>5. /\ SetTxn(t, x) /\ Goto(t, "run") /\ UNCHANGED <<kv, serial, answers, old>>
      /\ "run" \in Labels /\ kv' \in [Keys -> Values] /\ old' \in [Threads -> Values]
  BY <1>2 DEF Begin, storeVars, Typed, Labels
<1> QED BY <1>1, <1>3, <1>4, <1>5, TypedMove

LEMMA CheckTyped == ASSUME Typed, NEW t \in Threads, Check(t), program' = program PROVE Typed'
<1>1. pc[t] = "run" /\ ~AtEnd(t) /\ TxnOp(t).op \in Reads /\ UNCHANGED <<storeVars, answers, old>>
  BY DEF Check, Runs
<1>2. CASE txn[t].serial = serial
  <2>1. SetTxn(t, txn[t]) /\ Goto(t, "access")
    BY <1>2 DEF Check, SetTxn, Typed
  <2>2. Placed(Current(t), "access", txn[t])
    BY <1>1, InTxn DEF Placed, TxnOp
  <2> QED BY <1>1, <2>1, <2>2, InTxn, TypedMove DEF storeVars, Typed, Labels
<1>3. CASE txn[t].serial # serial
  <2>1. PICK x : x = [txn[t] EXCEPT !.serial = 0]
    OBVIOUS
  <2>2. x \in Txns /\ x.serial = 0
    <3>1. txn[t] \in Txns
      BY DEF Typed
    <3>2. x \in Txns
      BY <2>1, <3>1, TxnType
    <3> QED BY <2>1, <3>1 DEF Txns
  <2>3. SetTxn(t, x) /\ Goto(t, "retry") /\ Placed(Current(t), "retry", x)
    BY <1>1, <1>3, <2>1, InTxn DEF Check, Placed
  <2> QED BY <1>1, <2>2, <2>3, InTxn, TypedMove DEF storeVars, Typed, Labels
<1> QED BY <1>2, <1>3

LEMMA RetryTyped == ASSUME Typed, NEW t \in Threads, Retry(t), program' = program PROVE Typed'
<1>1. pc[t] = "retry" /\ UNCHANGED storeVars
  BY DEF Retry
<1>2. CASE Return(t, Failed)
  BY <1>1, <1>2, FailedType, TypedReturn DEF storeVars, Typed
<1>3. CASE ~Return(t, Failed)
  <2>1. PICK x : x = [Again(txn[t]) EXCEPT !.tries = txn[t].tries + 1, !.serial = serial]
    OBVIOUS
  <2>2. /\ SetTxn(t, x) /\ Goto(t, "run") /\ UNCHANGED <<answers, old>>
        /\ txn[t].tries + 1 <= MaxTry
    BY <1>3, <2>1, KvsAssumption, InTxn DEF Retry, Txns
  <2>3. x \in Txns /\ x.serial = serial /\ x.i = 1
    <3>1. txn[t].tries + 1 \in 0..MaxTry /\ serial \in Nat
      BY <1>1, <2>2, KvsAssumption, InTxn DEF Txns, Typed
    <3>2. Again(txn[t]) \in Txns /\ Again(txn[t]).i = 1
      BY <1>1, InTxn, TxnType
    <3>3. x \in Txns
      BY <2>1, <3>1, <3>2, TxnType
    <3> QED BY <2>1, <3>2, <3>3 DEF Txns
  <2>4. Placed(Current(t), "run", x)
    BY <1>1, <2>3, InTxn DEF Placed
  <2> QED BY <1>1, <2>2, <2>3, <2>4, InTxn, TypedMove DEF storeVars, Typed, Labels
<1> QED BY <1>2, <1>3

\* After an operation, which may have been one that reads.
LEMMA NextPlace ==
  ASSUME Typed, NEW t \in Threads, pc[t] \in {"run", "access"}, ~AtEnd(t),
         NEW x \in Txns, x.i = txn[t].i + 1,
         x.got # <<>> \/ (x.got = txn[t].got /\ TxnOp(t).op \notin Reads)
  PROVE  Placed(Current(t), "run", x)
<1>1. Current(t).txn /\ txn[t].i \in 1..Len(Current(t).body) /\ Len(Current(t).body) \in Nat
  BY InTxn
<1>2. x.i <= Len(Current(t).body) + 1
  BY <1>1
<1>3. ASSUME NEW m \in 1..(x.i - 1), Current(t).body[m].op \in Reads PROVE x.got # <<>>
  <2>1. CASE m = txn[t].i
    BY <1>3, <2>1 DEF TxnOp
  <2>2. CASE m # txn[t].i
    <3>1. m \in 1..(txn[t].i - 1)
      BY <1>1, <1>3, <2>2
    <3>2. Placed(Current(t), pc[t], txn[t])
      BY InTxn
    <3>3. txn[t].got # <<>>
      BY <1>3, <3>1, <3>2 DEF Placed
    <3> QED BY <3>3
  <2> QED BY <2>1, <2>2
<1> QED BY <1>1, <1>2, <1>3 DEF Placed

LEMMA TxnGetTyped == ASSUME Typed, NEW t \in Threads, TxnGet(t), program' = program PROVE Typed'
<1>1. pc[t] = "access" /\ ~AtEnd(t) /\ UNCHANGED <<kv, serial, answers, old>> /\ Goto(t, "run")
  BY InTxn DEF TxnGet, storeVars
<1>2. PICK v : v = Seen(t, TxnOp(t).key)
  OBVIOUS
<1>3. v \in Values
  BY <1>1, <1>2, InTxn, OperationType, SeenType
<1>4. PICK x : x = [txn[t] EXCEPT !.got = Append(txn[t].got, v), !.i = txn[t].i + 1]
  OBVIOUS
<1>5. txn[t] \in Txns /\ Append(txn[t].got, v) \in Seq(Values) /\ Append(txn[t].got, v) # <<>>
  BY <1>1, <1>3, InTxn
<1>6. x \in Txns /\ x.serial = txn[t].serial /\ x.i = txn[t].i + 1 /\ x.got # <<>>
  <2>1. x \in Txns
    BY <1>1, <1>4, <1>5, InTxn, TxnType
  <2> QED BY <1>4, <1>5, <2>1 DEF Txns
<1>7. SetTxn(t, x)
  BY <1>2, <1>4 DEF TxnGet
<1>8. Placed(Current(t), "run", x)
  BY <1>1, <1>6, NextPlace
<1>9. Busy(t) /\ txn[t].serial <= serial /\ "run" \in Labels
  BY <1>1, InTxn DEF Labels
<1> QED BY <1>1, <1>6, <1>7, <1>8, <1>9, TypedStep

LEMMA TxnPutTyped == ASSUME Typed, NEW t \in Threads, TxnPut(t), program' = program PROVE Typed'
<1>1. /\ pc[t] = "run" /\ ~AtEnd(t) /\ TxnOp(t).op \in {"put", "derive"} /\ UNCHANGED <<kv, serial>>
  BY DEF TxnPut, Runs, storeVars
<1>2. CASE Return(t, Failed)
  BY <1>1, <1>2, FailedType, TypedReturn DEF Typed
<1>3. CASE ~Return(t, Failed)
  <2>1. PICK v : v = IF TxnOp(t).op = "put" THEN <<TxnOp(t).tag>> ELSE Append(Last(txn[t].got), TxnOp(t).tag)
    OBVIOUS
  <2>2. TxnOp(t).key \in Keys /\ TxnOp(t).tag \in Tags
    BY <1>1, InTxn, OperationType
  <2>3. TxnOp(t).op = "derive" => txn[t].got # <<>>
    <3>1. TxnOp(t) = Current(t).body[txn[t].i] /\ txn[t].i \in 1..Len(Current(t).body) /\ Busy(t)
      BY <1>1, InTxn DEF TxnOp
    <3>2. TxnOp(t).op = "derive" => \E m \in 1..(txn[t].i - 1) : Current(t).body[m].op \in Reads
      BY <3>1, CurrentType DEF IsCall
    <3>3. Placed(Current(t), "run", txn[t])
      BY <1>1, InTxn
    <3> QED BY <3>2, <3>3 DEF Placed
  <2>4. v \in Values
    BY <1>1, <2>1, <2>2, <2>3, InTxn, ValueType
  <2>5. Written(txn[t].tv, TxnOp(t).key, v) \in Tables
    BY <1>1, <2>2, <2>4, InTxn, TableType
  <2>6. PICK x : x = [txn[t] EXCEPT !.tv = Written(txn[t].tv, TxnOp(t).key, v), !.i = txn[t].i + 1]
    OBVIOUS
  <2>7. x \in Txns /\ x.serial = txn[t].serial /\ x.i = txn[t].i + 1 /\ x.got = txn[t].got
    <3>1. x \in Txns
      BY <1>1, <2>5, <2>6, InTxn, TxnType
    <3>2. txn[t] \in Txns
      BY DEF Typed
    <3> QED BY <2>5, <2>6, <3>1, <3>2 DEF Txns
  <2>8. SetTxn(t, x) /\ UNCHANGED <<answers, pc, old>>
    BY <1>3, <2>1, <2>6 DEF TxnPut
  <2>9. Placed(Current(t), "run", x)
    BY <1>1, <2>7, NextPlace DEF Reads
  <2>10. Goto(t, "run")
    BY <1>1, <2>8 DEF Goto, Typed
  <2> QED BY <1>1, <2>7, <2>8, <2>9, <2>10, InTxn, TypedMove DEF Typed, Labels
<1> QED BY <1>2, <1>3

LEMMA TxnUpdateTyped == ASSUME Typed, NEW t \in Threads, TxnUpdate(t), program' = program PROVE Typed'
<1>1. pc[t] = "access" /\ ~AtEnd(t) /\ TxnOp(t).op = "update" /\ UNCHANGED <<kv, serial>>
  BY InTxn DEF TxnUpdate, storeVars
<1>2. CASE Return(t, Failed)
  BY <1>1, <1>2, FailedType, TypedReturn DEF Typed
<1>3. CASE ~Return(t, Failed)
  <2>1. PICK v : v = Append(Seen(t, TxnOp(t).key), TxnOp(t).tag)
    OBVIOUS
  <2>2. PICK w : w = IF TxnOp(t).key \in DOMAIN txn[t].tv \union SameSlot THEN v ELSE Garbage
    OBVIOUS
  <2>3. TxnOp(t).key \in Keys /\ TxnOp(t).tag \in Tags
    BY <1>1, InTxn, OperationType
  <2>4. v \in Values /\ w \in Values
    BY <2>1, <2>2, <2>3, SeenType, ValueType
  <2>5. Written(txn[t].tv, TxnOp(t).key, w) \in Tables
    BY <1>1, <2>3, <2>4, InTxn, TableType
  <2>6. PICK x : x = [txn[t] EXCEPT !.tv = Written(txn[t].tv, TxnOp(t).key, w),
                                    !.got = Append(txn[t].got, v), !.i = txn[t].i + 1]
    OBVIOUS
  <2>7. txn[t] \in Txns /\ Append(txn[t].got, v) \in Seq(Values) /\ Append(txn[t].got, v) # <<>>
    BY <1>1, <2>4, InTxn
  <2>8. x \in Txns /\ x.serial = txn[t].serial /\ x.i = txn[t].i + 1 /\ x.got # <<>>
    <3>1. x \in Txns
      BY <1>1, <2>5, <2>6, <2>7, InTxn, TxnType
    <3> QED BY <2>5, <2>6, <2>7, <3>1 DEF Txns
  <2>9. SetTxn(t, x) /\ Goto(t, "run") /\ UNCHANGED <<answers, old>>
    BY <1>3, <2>1, <2>2, <2>6 DEF TxnUpdate
  <2>10. Placed(Current(t), "run", x)
    BY <1>1, <2>8, NextPlace
  <2>11. Busy(t) /\ txn[t].serial <= serial /\ "run" \in Labels
    BY <1>1, InTxn DEF Labels
  <2> QED BY <1>1, <2>8, <2>9, <2>10, <2>11, TypedStep
<1> QED BY <1>2, <1>3

LEMMA CommitTyped == ASSUME Typed, NEW t \in Threads, Commit(t), program' = program PROVE Typed'
<1>1. pc[t] = "run" /\ serial' = serial + 1 /\ serial \in Nat
  BY DEF Commit, Typed
<1>2. kv' \in [Keys -> Values]
  BY OverlayType DEF Commit
<1>3. Ok(txn[t].got) \in Answers
  BY <1>1, InTxn, FailedType
<1>4. serial' \in Nat /\ serial <= serial'
  BY <1>1
<1> QED BY <1>2, <1>3, <1>4, TypedReturn DEF Commit

LEMMA CommitLateTyped == ASSUME Typed, NEW t \in Threads, CommitLate(t), program' = program PROVE Typed'
<1>1. pc[t] = "run" /\ UNCHANGED <<kv, serial, answers, pc, old>>
  BY DEF CommitLate, storeVars
<1>2. PICK x : x = Again(txn[t])
  OBVIOUS
<1>3. x \in Txns /\ x.serial = txn[t].serial /\ x.i = 1
  BY <1>1, <1>2, InTxn, TxnType
<1>4. SetTxn(t, x) /\ Goto(t, "run")
  BY <1>1, <1>2 DEF CommitLate, Goto, Typed
<1>5. Busy(t) /\ Placed(Current(t), "run", x) /\ txn[t].serial <= serial /\ "run" \in Labels
  BY <1>1, <1>3, InTxn DEF Placed, Labels
<1> QED BY <1>1, <1>3, <1>4, <1>5, TypedStep

LEMMA CommitPartlyTyped == ASSUME Typed, NEW t \in Threads, CommitPartly(t), program' = program PROVE Typed'
<1>1. serial' = serial /\ Return(t, Failed)
  BY DEF CommitPartly
<1>2. kv' \in [Keys -> Values]
  BY OverlayType DEF CommitPartly
<1> QED BY <1>1, <1>2, FailedType, TypedReturn DEF Typed

LEMMA InitTyped == Init => Typed
<1> SUFFICES ASSUME Init PROVE Typed
  OBVIOUS
<1>1. kv \in [Keys -> Values]
  <2>1. Seq(Tags) \subseteq Values
    BY DEF Values, Texts
  <2>2. Initial \in [Keys -> Seq(Tags)]
    BY KvsAssumption
  <2> QED BY <2>1, <2>2 DEF Init
<1>2. serial \in Nat
  BY FirstSerialType DEF Init
<1>3. <<>> \in Seq(Answers)
  OBVIOUS
<1>4. NoTxn.serial = 0
  BY DEF NoTxn
<1> QED BY <1>1, <1>2, <1>3, <1>4, NoTxnType DEF Init, Typed, Labels

LEMMA NextTyped == Typed /\ [Next]_vars => Typed'
<1> SUFFICES ASSUME Typed, [Next]_vars PROVE Typed'
  OBVIOUS
<1>1. ASSUME NEW t \in Threads, Step(t) PROVE Typed'
  BY <1>1, GetTyped, PutTyped, ReadOldTyped, StoreNewTyped, BeginTyped, CheckTyped, RetryTyped,
     TxnGetTyped, TxnPutTyped, TxnUpdateTyped, CommitTyped, CommitLateTyped, CommitPartlyTyped DEF Step
<1>2. CASE UNCHANGED vars
  BY <1>2 DEF vars, Typed, Busy, Current
<1> QED BY <1>1, <1>2 DEF Next

LEMMA TypedInvariant == Spec => []Typed
BY InitTyped, NextTyped, PTL DEF Spec

\* Types: values are sequences of what functions have added, a transaction has
\* entries for keys of the store only, its serial is one the store has had, it is
\* not tried more often than MAXTRY says, and a thread is only at a place of its
\* own call.
THEOREM TypeCorrect == Spec => []TypeOK
<1>1. ASSUME Typed PROVE TypeOK
  <2>1. \A v \in Values : IsValue(v)
    BY LenProperties DEF Values, IsValue
  <2>2. DOMAIN kv = Keys /\ \A k \in Keys : IsValue(kv[k])
    BY <1>1, <2>1 DEF Typed
  <2>3. ASSUME NEW t \in Threads
        PROVE  /\ IsValue(old[t]) /\ DOMAIN txn[t].tv \subseteq Keys
               /\ txn[t].serial <= serial /\ txn[t].tries <= MaxTry /\ txn[t].i >= 1
    <3>1. txn[t] \in Txns /\ old[t] \in Values /\ txn[t].serial <= serial
      BY <1>1 DEF Typed
    <3>2. txn[t].tv \in Tables /\ txn[t].tries \in 0..MaxTry /\ txn[t].i \in Nat \ {0}
      BY <3>1 DEF Txns
    <3> QED BY <2>1, <3>1, <3>2, TableType, KvsAssumption
  <2> QED BY <1>1, <2>2, <2>3 DEF TypeOK, Typed, Labels
<1> QED BY <1>1, TypedInvariant, PTL

-----------------------------------------------------------------------------
(* Bodies.                                                                 *)

Begun(values) == [db |-> values, got |-> <<>>, ok |-> TRUE]

\* A body's operations take effect one after the other.
LEMMA AfterEach ==
  ASSUME NEW values, NEW body, Len(body) \in Nat
  PROVE  /\ Abstract!After(values, body)[0] = Begun(values)
         /\ \A n \in 1..Len(body) :
              Abstract!After(values, body)[n] = Abstract!Do(Abstract!After(values, body)[n - 1], body[n])
<1> DEFINE Entry(f, n) == IF n = 0 THEN Begun(values) ELSE Abstract!Do(f[n - 1], body[n])
           Defined(m) == \E f : f = [n \in 0..m |-> Entry(f, n)]
           T == {m \in Nat : Defined(m)}
<1>1. 0 \in T
  <2>1. PICK f : f = [n \in 0..0 |-> Begun(values)]
    OBVIOUS
  <2>2. f = [n \in 0..0 |-> Entry(f, n)]
    BY <2>1
  <2> QED BY <2>2
<1>2. ASSUME NEW m \in Nat, m \in T PROVE m + 1 \in T
  <2>1. PICK f : f = [n \in 0..m |-> Entry(f, n)]
    BY <1>2
  <2>2. PICK g : g = [n \in 0..(m + 1) |-> IF n = m + 1 THEN Entry(f, m + 1) ELSE f[n]]
    OBVIOUS
  <2>3. ASSUME NEW n \in 0..(m + 1) PROVE g[n] = Entry(g, n)
    <3>1. CASE n = m + 1
      <4>1. g[n] = Abstract!Do(f[m], body[n])
        BY <2>2, <3>1
      <4>2. g[n - 1] = f[m]
        BY <2>2, <3>1
      <4> QED BY <3>1, <4>1, <4>2
    <3>2. CASE n # m + 1
      <4>1. n \in 0..m /\ g[n] = f[n] /\ f[n] = Entry(f, n)
        BY <2>1, <2>2, <3>2
      <4>2. n # 0 => g[n - 1] = f[n - 1]
        BY <2>2, <3>2
      <4> QED BY <4>1, <4>2
    <3> QED BY <3>1, <3>2
  <2>4. g = [n \in 0..(m + 1) |-> Entry(g, n)]
    BY <2>2, <2>3
  <2> QED BY <2>4
<1>3. Defined(Len(body))
  <2> HIDE DEF Defined
  <2>1. Nat \subseteq T
    BY <1>1, <1>2, EveryNumber
  <2> QED BY <2>1
<1>4. PICK s : s = Abstract!After(values, body)
  OBVIOUS
<1>5. s = [n \in 0..Len(body) |-> Entry(s, n)]
  BY <1>3, <1>4 DEF Abstract!After, Begun
<1>6. s[0] = Begun(values) /\ \A n \in 1..Len(body) : s[n] = Abstract!Do(s[n - 1], body[n])
  BY <1>5
<1> QED BY <1>4, <1>6

LEMMA WritesEach ==
  ASSUME NEW body, NEW n \in Nat
  PROVE  /\ Writes(body, 0) = {}
         /\ Writes(body, n + 1) = IF body[n + 1].op = "get" THEN Writes(body, n)
                                  ELSE Writes(body, n) \cup {body[n + 1].key}
         /\ \A m \in Nat : n <= m => Writes(body, n) \subseteq Writes(body, m)
         /\ \A m \in 1..n : body[m].op # "get" => body[m].key \in Writes(body, n)
<1>1. Writes(body, 0) = {}
  BY DEF Writes
<1>2. Writes(body, n + 1) = IF body[n + 1].op = "get" THEN Writes(body, n)
                            ELSE Writes(body, n) \cup {body[n + 1].key}
  <2>1. 1..(n + 1) = (1..n) \cup {n + 1}
    OBVIOUS
  <2>2. \A k : k \in Writes(body, n + 1) <=>
          k \in Writes(body, n) \/ (body[n + 1].op # "get" /\ k = body[n + 1].key)
    BY <2>1 DEF Writes
  <2> QED BY <2>2
<1>3. \A m \in Nat : n <= m => Writes(body, n) \subseteq Writes(body, m)
  BY DEF Writes
<1>4. \A m \in 1..n : body[m].op # "get" => body[m].key \in Writes(body, n)
  BY DEF Writes
<1> QED BY <1>1, <1>2, <1>3, <1>4

LEMMA ProgramType ==
  ASSUME Typed, NEW t \in Threads, Busy(t)
  PROVE  program \in Programs /\ Len(answers[t]) + 1 \in 1..Len(program[t])
<1>1. program \in Programs /\ program[t] \in Seq(ProgramCalls)
  BY KvsAssumption DEF Typed, ProgramCalls
<1>2. answers[t] \in Seq(Answers)
  BY DEF Typed
<1>3. Len(answers[t]) \in Nat /\ Len(program[t]) \in Nat
  BY <1>1, <1>2
<1> QED BY <1>1, <1>3 DEF Busy

\* A call of the program that is a transaction is supported.
LEMMA SupportedCall ==
  ASSUME Supported, Typed, NEW t \in Threads, Busy(t), Current(t).txn
  PROVE  LET body == Current(t).body
         IN /\ Apart(body) \/ (Alone(program, t) /\ InSlots(body))
            /\ MayFail => OneKey(body)
<1>1. program \in Programs /\ Len(answers[t]) + 1 \in 1..Len(program[t])
  BY ProgramType
<1> QED BY <1>1 DEF Supported, SupportedIn, Current, MayFail

\* Who is alone sees no other thread in a call that changes the store.
LEMMA NobodyElse ==
  ASSUME Typed, NEW t \in Threads, NEW u \in Threads, t # u, Alone(program, t), Busy(u)
  PROVE  ~Current(u).txn /\ Op(u).op = "get"
<1>1. program \in Programs /\ Len(answers[u]) + 1 \in 1..Len(program[u])
  BY ProgramType
<1> QED BY <1>1 DEF Alone, Current, Op

-----------------------------------------------------------------------------
(* The inductive invariant: as long as the store has not changed, what a   *)
(* transaction has done in its current try is what the first operations of *)
(* its body do to the store; what other tries have left in its table is    *)
(* written again before the end, and not read before.                      *)

Over(tv, ks) == [k \in Keys |-> IF k \in ks THEN tv[k] ELSE kv[k]]

Agrees(body, x) ==
  LET n == x.i - 1 IN
  /\ Apart(body) \/ (x.serial = serial /\ DOMAIN x.tv \subseteq Writes(body, n))
  /\ x.serial = serial =>
       /\ Writes(body, n) \subseteq DOMAIN x.tv
       /\ Abstract!After(kv, body)[n] = [db |-> Over(x.tv, Writes(body, n)), got |-> x.got, ok |-> TRUE]

Follows(c, label, x) ==
  /\ label \in {"run", "access", "retry"} => DOMAIN x.tv \subseteq Writes(c.body, Len(c.body))
  /\ label = "retry" => Apart(c.body)
  /\ label \in {"run", "access"} => Agrees(c.body, x)

Following ==
  /\ Typed
  /\ \A t \in Threads : /\ Follows(Current(t), pc[t], txn[t])
                        /\ pc[t] = "call" => old[t] # Nil

LEMMA SameStore ==
  ASSUME UNCHANGED <<kv, serial>>
  PROVE  \A c, label, x : Follows(c, label, x)' = Follows(c, label, x)
BY DEF Follows, Agrees, Over, Abstract!After, Abstract!Do, Abstract!Read, Abstract!Made

\* A step in which the store stays as it is and no call ends.
LEMMA FollowMove ==
  ASSUME Following, Typed', NEW t \in Threads, NEW label, NEW x,
         UNCHANGED <<program, kv, serial, answers>>, Goto(t, label), SetTxn(t, x),
         Follows(Current(t), label, x), label = "call" => old'[t] # Nil,
         \A u \in Threads : u # t => old'[u] = old[u]
  PROVE  Following'
<1>1. pc' = [pc EXCEPT ![t] = label] /\ txn' = [txn EXCEPT ![t] = x]
  BY DEF Goto, SetTxn
<1>2. ASSUME NEW u \in Threads
      PROVE  /\ Follows(Current(u), pc[u], txn[u])'
             /\ pc'[u] = "call" => old'[u] # Nil
  <2>1. \A c, l, y : Follows(c, l, y)' = Follows(c, l, y)
    BY SameStore
  <2>2. Current(u)' = Current(u)
    BY DEF Current
  <2>3. CASE u = t
    <3>1. pc'[u] = label /\ txn'[u] = x
      BY <1>1, <2>3 DEF Following, Typed
    <3> QED BY <2>1, <2>2, <2>3, <3>1
  <2>4. CASE u # t
    <3>1. pc'[u] = pc[u] /\ txn'[u] = txn[u] /\ old'[u] = old[u]
      BY <1>1, <2>4 DEF Following, Typed
    <3>2. Follows(Current(u), pc[u], txn[u]) /\ (pc[u] = "call" => old[u] # Nil)
      BY DEF Following
    <3> QED BY <2>1, <2>2, <3>1, <3>2
  <2> QED BY <2>3, <2>4
<1> QED BY <1>2 DEF Following

\* The end of a call; when the store has changed nobody was alone in another one.
LEMMA FollowReturn ==
  ASSUME Following, Supported, Typed', NEW t \in Threads, NEW answer, Return(t, answer), program' = program,
         UNCHANGED <<kv, serial>>
           \/ (serial' = serial + 1 /\ Busy(t) /\ ~(~Current(t).txn /\ Op(t).op = "get"))
  PROVE  Following'
<1>1. /\ pc' = [pc EXCEPT ![t] = "idle"] /\ txn' = [txn EXCEPT ![t] = NoTxn]
      /\ old' = [old EXCEPT ![t] = Nil] /\ answers' = [answers EXCEPT ![t] = Append(answers[t], answer)]
  BY DEF Return, Goto, SetTxn
<1>2. ASSUME NEW u \in Threads
      PROVE  /\ Follows(Current(u), pc[u], txn[u])'
             /\ pc'[u] = "call" => old'[u] # Nil
  <2>1. CASE u = t
    <3>1. pc'[u] = "idle"
      BY <1>1, <2>1 DEF Following, Typed
    <3> QED BY <3>1 DEF Follows
  <2>2. CASE u # t
    <3>1. pc'[u] = pc[u] /\ txn'[u] = txn[u] /\ old'[u] = old[u] /\ answers'[u] = answers[u]
      BY <1>1, <2>2 DEF Following, Typed
    <3>2. Current(u)' = Current(u)
      BY <3>1 DEF Current
    <3>3. Follows(Current(u), pc[u], txn[u]) /\ (pc[u] = "call" => old[u] # Nil)
      BY DEF Following
    <3>4. CASE UNCHANGED <<kv, serial>>
      <4>1. \A c, l, y : Follows(c, l, y)' = Follows(c, l, y)
        BY <3>4, SameStore
      <4> QED BY <3>1, <3>2, <3>3, <4>1
    <3>5. CASE serial' = serial + 1 /\ Busy(t) /\ ~(~Current(t).txn /\ Op(t).op = "get")
      <4>1. Typed /\ (pc[u] \in {"run", "access"} => Busy(u) /\ Current(u).txn /\ txn[u].serial # serial')
        <5>1. txn[u].serial \in Nat /\ txn[u].serial <= serial /\ serial \in Nat
          BY DEF Following, Typed, Txns
        <5>2. txn[u].serial # serial'
          BY <3>5, <5>1
        <5> QED BY <5>2, InTxn DEF Following
      <4>2. pc[u] \in {"run", "access"} => Apart(Current(u).body)
        BY <3>5, <2>2, <4>1, NobodyElse, SupportedCall
      <4>3. pc[u] \in {"run", "access"} => Agrees(Current(u).body, txn[u])'
        BY <3>1, <3>2, <4>1, <4>2 DEF Agrees, Apart
      <4> QED BY <3>1, <3>2, <3>3, <4>3 DEF Follows, Apart
    <3> QED BY <3>4, <3>5
  <2> QED BY <2>1, <2>2
<1> QED BY <1>2 DEF Following

-----------------------------------------------------------------------------
(* Each step keeps it.                                                     *)

\* What an operation of a transaction leads to, if it does what it does in Store.
LEMMA NextAgrees ==
  ASSUME Following, NEW t \in Threads, pc[t] \in {"run", "access"}, ~AtEnd(t),
         NEW x, x = txn[t], NEW o, o = TxnOp(t), NEW y \in Txns, NEW v,
         y.i = x.i + 1, y.serial = x.serial,
         y.tv = IF o.op = "get" THEN x.tv ELSE Written(x.tv, o.key, v),
         NEW s, s = Abstract!After(kv, Current(t).body)[x.i - 1],
         x.serial = serial =>
           Abstract!Do(s, o) = [db |-> IF o.op = "get" THEN s.db ELSE [s.db EXCEPT ![o.key] = v],
                                got |-> y.got, ok |-> TRUE]
  PROVE  Follows(Current(t), "run", y)
<1>0. PICK body, n : body = Current(t).body /\ n = x.i - 1
  OBVIOUS
<1>1. /\ Typed /\ x \in Txns /\ x.i \in 1..Len(body) /\ Len(body) \in Nat
      /\ n \in Nat /\ n + 1 = x.i /\ y.i - 1 = n + 1 /\ n + 1 \in 1..Len(body)
      /\ o = body[n + 1] /\ o.key \in Keys /\ x.tv \in Tables
      /\ Follows(Current(t), pc[t], x)
  <2>1. Typed
    BY DEF Following
  <2>2. x \in Txns /\ x.i \in 1..Len(body) /\ Len(body) \in Nat /\ o \in Operations /\ x.tv \in Tables
    BY <1>0, <2>1, InTxn
  <2>3. Follows(Current(t), pc[t], x)
    BY DEF Following
  <2> QED BY <1>0, <2>1, <2>2, <2>3, OperationType DEF TxnOp
<1>2. /\ DOMAIN x.tv \subseteq Writes(body, Len(body))
      /\ Agrees(body, x)
  BY <1>0, <1>1 DEF Follows
<1>3. /\ Writes(body, n + 1) = IF o.op = "get" THEN Writes(body, n) ELSE Writes(body, n) \cup {o.key}
      /\ o.op # "get" => o.key \in Writes(body, Len(body))
  <2>1. Writes(body, n + 1) = IF body[n + 1].op = "get" THEN Writes(body, n)
                             ELSE Writes(body, n) \cup {body[n + 1].key}
    BY <1>1, WritesEach
  <2>2. body[n + 1].op # "get" => body[n + 1].key \in Writes(body, Len(body))
    BY <1>1, WritesEach
  <2> QED BY <1>1, <2>1, <2>2
<1>4. DOMAIN y.tv = IF o.op = "get" THEN DOMAIN x.tv ELSE DOMAIN x.tv \cup {o.key}
  BY DEF Written
<1>5. DOMAIN y.tv \subseteq Writes(body, Len(body))
  BY <1>2, <1>3, <1>4
<1>6. Apart(body) \/ (y.serial = serial /\ DOMAIN y.tv \subseteq Writes(body, n + 1))
  BY <1>0, <1>2, <1>3, <1>4 DEF Agrees
<1>7. ASSUME x.serial = serial
      PROVE  /\ Writes(body, n + 1) \subseteq DOMAIN y.tv
             /\ Abstract!After(kv, body)[n + 1]
                  = [db |-> Over(y.tv, Writes(body, n + 1)), got |-> y.got, ok |-> TRUE]
  <2>1. /\ Writes(body, n) \subseteq DOMAIN x.tv
        /\ s = [db |-> Over(x.tv, Writes(body, n)), got |-> x.got, ok |-> TRUE]
    BY <1>0, <1>2, <1>7 DEF Agrees
  <2>2. Writes(body, n + 1) \subseteq DOMAIN y.tv
    BY <1>3, <1>4, <2>1
  <2>3. Abstract!After(kv, body)[n + 1] = Abstract!Do(s, o)
    BY <1>0, <1>1, AfterEach
  <2>4. s.db = Over(x.tv, Writes(body, n))
    BY <2>1
  <2>5. Over(y.tv, Writes(body, n + 1)) = IF o.op = "get" THEN s.db ELSE [s.db EXCEPT ![o.key] = v]
    <3>1. CASE o.op = "get"
      BY <1>3, <2>4, <3>1 DEF Over
    <3>2. CASE o.op # "get"
      <4>1. Writes(body, n + 1) = Writes(body, n) \cup {o.key} /\ y.tv = Written(x.tv, o.key, v)
        BY <1>3, <3>2
      <4>2. \A k \in Writes(body, n) \cup {o.key} : y.tv[k] = IF k = o.key THEN v ELSE x.tv[k]
        BY <2>1, <4>1 DEF Written
      <4>3. PICK d : d = s.db
        OBVIOUS
      <4>4. d = [k \in Keys |-> IF k \in Writes(body, n) THEN x.tv[k] ELSE kv[k]]
        BY <2>4, <4>3 DEF Over
      <4>5. [d EXCEPT ![o.key] = v] = [k \in Keys |-> IF k = o.key THEN v ELSE d[k]]
        BY <1>1, <4>4
      <4>6. Over(y.tv, Writes(body, n + 1))
              = [k \in Keys |-> IF k \in Writes(body, n) \cup {o.key} THEN y.tv[k] ELSE kv[k]]
        BY <4>1 DEF Over
      <4>7. \A k \in Keys : (IF k = o.key THEN v ELSE d[k])
                              = IF k \in Writes(body, n) \cup {o.key} THEN y.tv[k] ELSE kv[k]
        BY <4>2, <4>4
      <4>8. Over(y.tv, Writes(body, n + 1)) = [d EXCEPT ![o.key] = v]
        BY <4>5, <4>6, <4>7
      <4> QED BY <3>2, <4>3, <4>8
    <3> QED BY <3>1, <3>2
  <2> QED BY <1>7, <2>2, <2>3, <2>5
<1>8. Agrees(body, y)
  BY <1>1, <1>6, <1>7 DEF Agrees
<1> QED BY <1>0, <1>5, <1>8 DEF Follows

\* What a transaction sees is what it sees in Store.
LEMMA SeenRight ==
  ASSUME Following, NEW t \in Threads, pc[t] = "access", txn[t].serial = serial,
         NEW body, body = Current(t).body, NEW n, n = txn[t].i - 1, NEW k, k = TxnOp(t).key
  PROVE  /\ Abstract!After(kv, body)[n]
              = [db |-> Over(txn[t].tv, Writes(body, n)), got |-> txn[t].got, ok |-> TRUE]
         /\ Seen(t, k) = Over(txn[t].tv, Writes(body, n))[k]
<1>1. /\ Typed /\ ~AtEnd(t) /\ TxnOp(t).op \in Reads /\ k \in Keys
      /\ txn[t].i \in 1..Len(body) /\ TxnOp(t) = body[txn[t].i]
  BY InTxn, OperationType DEF Following, TxnOp
<1>2. Follows(Current(t), "access", txn[t])
  BY DEF Following
<1>3. /\ DOMAIN txn[t].tv \subseteq Writes(body, Len(body))
      /\ Agrees(body, txn[t])
  BY <1>2 DEF Follows
<1>4. k \in DOMAIN txn[t].tv <=> k \in Writes(body, n)
  BY <1>1, <1>3 DEF Agrees, Apart
<1> QED BY <1>1, <1>3, <1>4 DEF Agrees, Over, Seen

LEMMA SinglesFollow ==
  ASSUME Following, Supported, Typed', NEW t \in Threads, program' = program,
         Get(t) \/ Put(t) \/ ReadOld(t) \/ StoreNew(t)
  PROVE  Following'
<1>1. CASE Get(t)
  BY <1>1, FollowReturn DEF Get, storeVars
<1>2. CASE Put(t)
  <2>1. Busy(t) /\ Op(t).op = "put"
    BY <1>2 DEF Put, Calls, Op
  <2>2. CASE Store(Op(t).key, <<Op(t).tag>>) /\ Return(t, Ok(<<>>))
    BY <2>1, <2>2, FollowReturn DEF Store
  <2>3. CASE Return(t, Failed) /\ UNCHANGED storeVars
    BY <2>3, FollowReturn DEF storeVars
  <2> QED BY <1>2, <2>2, <2>3 DEF Put
<1>3. CASE ReadOld(t)
  <2>1. CASE kv[Op(t).key] = Nil
    BY <1>3, <2>1, FollowReturn DEF ReadOld, storeVars
  <2>2. CASE kv[Op(t).key] # Nil
    <3>1. /\ UNCHANGED <<program, kv, serial, answers>> /\ Goto(t, "call") /\ txn' = txn
          /\ old' = [old EXCEPT ![t] = kv[Op(t).key]]
      BY <1>3, <2>2 DEF ReadOld, storeVars
    <3>2. old'[t] # Nil /\ \A u \in Threads : u # t => old'[u] = old[u]
      BY <2>2, <3>1 DEF Following, Typed
    <3>3. SetTxn(t, txn[t])
      BY <3>1 DEF SetTxn, Following, Typed
    <3>4. Follows(Current(t), "call", txn[t])
      BY DEF Follows
    <3> QED BY <3>1, <3>2, <3>3, <3>4, FollowMove
  <2> QED BY <2>1, <2>2
<1>4. CASE StoreNew(t)
  <2>1. Busy(t) /\ Op(t).op = "update"
    BY <1>4 DEF StoreNew, Following, Typed, Placed, Op
  <2>2. CASE UNCHANGED storeVars /\ Return(t, Failed)
    BY <2>2, FollowReturn DEF storeVars
  <2>3. CASE \E v : Store(Op(t).key, v) /\ Return(t, Ok(<<v>>))
    BY <2>1, <2>3, FollowReturn DEF Store
  <2> QED BY <1>4, <2>2, <2>3 DEF StoreNew
<1> QED BY <1>1, <1>2, <1>3, <1>4

\* The first operation of a try.
LEMMA FirstAgrees ==
  ASSUME Typed, NEW body, Len(body) \in Nat, NEW x, x.i = 1, x.got = <<>>,
         Apart(body) \/ (x.serial = serial /\ DOMAIN x.tv = {})
  PROVE  Agrees(body, x)
<1>1. Writes(body, 0) = {}
  BY WritesEach
<1>2. Over(x.tv, {}) = kv
  BY DEF Over, Typed
<1>3. Abstract!After(kv, body)[0] = Begun(kv)
  BY AfterEach
<1>4. x.i - 1 = 0
  OBVIOUS
<1>5. Abstract!After(kv, body)[0] = [db |-> Over(x.tv, Writes(body, 0)), got |-> x.got, ok |-> TRUE]
  BY <1>1, <1>2, <1>3 DEF Begun
<1>6. PICK n : n = x.i - 1
  OBVIOUS
<1>7. n = 0
  BY <1>4, <1>6
<1>8. Abstract!After(kv, body)[n] = [db |-> Over(x.tv, Writes(body, n)), got |-> x.got, ok |-> TRUE]
  BY <1>5, <1>7
<1>9. Writes(body, n) = {}
  BY <1>1, <1>7
<1> QED BY <1>6, <1>8, <1>9 DEF Agrees

LEMMA BeginFollows ==
  ASSUME Following, Supported, Typed', NEW t \in Threads, program' = program, Begin(t)
  PROVE  Following'
<1>1. PICK x : x = [NoTxn EXCEPT !.serial = serial, !.began = serial]
  OBVIOUS
<1>2. x.tv = <<>> /\ x.serial = serial /\ x.i = 1 /\ x.got = <<>>
  BY <1>1 DEF NoTxn
<1>3. Busy(t) /\ Typed /\ Len(Current(t).body) \in Nat
  BY CurrentType DEF Begin, Following
<1>4. DOMAIN x.tv = {}
  BY <1>2
<1>5. Agrees(Current(t).body, x)
  BY <1>2, <1>3, <1>4, FirstAgrees
<1>6. Follows(Current(t), "run", x)
  BY <1>4, <1>5 DEF Follows
<1>7. UNCHANGED <<program, kv, serial, answers, old>> /\ Goto(t, "run") /\ SetTxn(t, x)
  BY <1>1 DEF Begin, storeVars
<1> QED BY <1>6, <1>7, FollowMove

LEMMA ChecksFollow ==
  ASSUME Following, Supported, Typed', NEW t \in Threads, program' = program, Check(t)
  PROVE  Following'
<1>1. pc[t] = "run" /\ UNCHANGED <<program, kv, serial, answers, old>>
  BY DEF Check, Runs, storeVars
<1>2. Follows(Current(t), "run", txn[t])
  BY <1>1 DEF Following
<1>3. CASE txn[t].serial = serial
  <2>1. SetTxn(t, txn[t]) /\ Goto(t, "access")
    BY <1>3 DEF Check, SetTxn, Following, Typed
  <2>2. Follows(Current(t), "access", txn[t])
    BY <1>2 DEF Follows
  <2> QED BY <1>1, <2>1, <2>2, FollowMove
<1>4. CASE txn[t].serial # serial
  <2>1. PICK x : x = [txn[t] EXCEPT !.serial = 0]
    OBVIOUS
  <2>2. SetTxn(t, x) /\ Goto(t, "retry")
    BY <1>4, <2>1 DEF Check
  <2>3. x.tv = txn[t].tv
    BY <2>1 DEF Following, Typed, Txns
  <2>4. Follows(Current(t), "retry", x)
    BY <1>2, <1>4, <2>3 DEF Follows, Agrees
  <2> QED BY <1>1, <2>2, <2>4, FollowMove
<1> QED BY <1>3, <1>4

LEMMA RetryFollows ==
  ASSUME Following, Supported, Typed', NEW t \in Threads, program' = program, Retry(t)
  PROVE  Following'
<1>1. pc[t] = "retry" /\ UNCHANGED <<program, kv, serial>> /\ Typed
  BY DEF Retry, storeVars, Following
<1>2. CASE Return(t, Failed)
  BY <1>1, <1>2, FollowReturn
<1>3. CASE ~Return(t, Failed)
  <2>1. PICK x : x = [Again(txn[t]) EXCEPT !.tries = txn[t].tries + 1, !.serial = serial]
    OBVIOUS
  <2>2. SetTxn(t, x) /\ Goto(t, "run") /\ UNCHANGED <<answers, old>>
    BY <1>3, <2>1 DEF Retry
  <2>3. Again(txn[t]) \in Txns /\ Again(txn[t]).i = 1 /\ Again(txn[t]).tv = txn[t].tv /\ Again(txn[t]).got = <<>>
    BY <1>1, InTxn, TxnType
  <2>4. x.i = 1 /\ x.tv = txn[t].tv /\ x.got = <<>>
    BY <2>1, <2>3 DEF Txns
  <2>5. Apart(Current(t).body) /\ DOMAIN x.tv \subseteq Writes(Current(t).body, Len(Current(t).body))
    BY <1>1, <2>4 DEF Following, Follows
  <2>6. Agrees(Current(t).body, x)
    BY <1>1, <2>4, <2>5, InTxn, FirstAgrees
  <2>7. Follows(Current(t), "run", x)
    BY <2>5, <2>6 DEF Follows
  <2> QED BY <1>1, <2>2, <2>7, FollowMove
<1> QED BY <1>2, <1>3

LEMMA NextReads ==
  ASSUME Following, NEW t \in Threads, pc[t] \in {"run", "access"}, ~AtEnd(t), TxnOp(t).op = "get",
         NEW y \in Txns, y.i = txn[t].i + 1, y.serial = txn[t].serial, y.tv = txn[t].tv,
         NEW s, s = Abstract!After(kv, Current(t).body)[txn[t].i - 1],
         txn[t].serial = serial =>
           Abstract!Do(s, TxnOp(t)) = [db |-> s.db, got |-> y.got, ok |-> TRUE]
  PROVE  Follows(Current(t), "run", y)
<1>1. PICK x, o : x = txn[t] /\ o = TxnOp(t)
  OBVIOUS
<1>2. y.tv = IF o.op = "get" THEN x.tv ELSE Written(x.tv, o.key, 0)
  BY <1>1
<1>3. x.serial = serial =>
        Abstract!Do(s, o) = [db |-> IF o.op = "get" THEN s.db ELSE [s.db EXCEPT ![o.key] = 0],
                             got |-> y.got, ok |-> TRUE]
  BY <1>1
<1> QED BY <1>1, <1>2, <1>3, NextAgrees

LEMMA NextWrites ==
  ASSUME Following, NEW t \in Threads, pc[t] \in {"run", "access"}, ~AtEnd(t), TxnOp(t).op # "get",
         NEW v, NEW y \in Txns, y.i = txn[t].i + 1, y.serial = txn[t].serial,
         y.tv = Written(txn[t].tv, TxnOp(t).key, v),
         NEW s, s = Abstract!After(kv, Current(t).body)[txn[t].i - 1],
         txn[t].serial = serial =>
           Abstract!Do(s, TxnOp(t)) = [db |-> [s.db EXCEPT ![TxnOp(t).key] = v], got |-> y.got, ok |-> TRUE]
  PROVE  Follows(Current(t), "run", y)
<1>1. PICK x, o : x = txn[t] /\ o = TxnOp(t)
  OBVIOUS
<1>2. y.tv = IF o.op = "get" THEN x.tv ELSE Written(x.tv, o.key, v)
  BY <1>1
<1>3. x.serial = serial =>
        Abstract!Do(s, o) = [db |-> IF o.op = "get" THEN s.db ELSE [s.db EXCEPT ![o.key] = v],
                             got |-> y.got, ok |-> TRUE]
  BY <1>1
<1> QED BY <1>1, <1>2, <1>3, NextAgrees

\* What Store's operations do.
LEMMA DoGet ==
  ASSUME NEW db, NEW got, NEW o, o.op = "get"
  PROVE  Abstract!Do([db |-> db, got |-> got, ok |-> TRUE], o)
           = [db |-> db, got |-> Append(got, db[o.key]), ok |-> TRUE]
BY DEF Abstract!Do, Abstract!Read

LEMMA DoPut ==
  ASSUME NEW db, NEW got, NEW o, o.op = "put"
  PROVE  Abstract!Do([db |-> db, got |-> got, ok |-> TRUE], o)
           = [db |-> [db EXCEPT ![o.key] = <<o.tag>>], got |-> got, ok |-> TRUE]
BY DEF Abstract!Do, Abstract!Made

LEMMA DoDerive ==
  ASSUME NEW db, NEW got, NEW o, o.op = "derive"
  PROVE  Abstract!Do([db |-> db, got |-> got, ok |-> TRUE], o)
           = [db |-> [db EXCEPT ![o.key] = Append(Last(got), o.tag)], got |-> got, ok |-> TRUE]
BY DEF Abstract!Do, Abstract!Made, Abstract!Last, Last

LEMMA DoUpdate ==
  ASSUME NEW db, NEW got, NEW o, o.op = "update", db[o.key] # Nil
  PROVE  Abstract!Do([db |-> db, got |-> got, ok |-> TRUE], o)
           = [db |-> [db EXCEPT ![o.key] = Append(db[o.key], o.tag)],
              got |-> Append(got, Append(db[o.key], o.tag)), ok |-> TRUE]
BY DEF Abstract!Do, Abstract!Read, Abstract!Made, Abstract!Nil, Nil

LEMMA TxnGetFollows ==
  ASSUME Following, Supported, Typed', NEW t \in Threads, program' = program, TxnGet(t)
  PROVE  Following'
<1>1. PICK o, body, n : o = TxnOp(t) /\ body = Current(t).body /\ n = txn[t].i - 1
  OBVIOUS
<1>2. PICK v, y : v = Seen(t, o.key) /\ y = [txn[t] EXCEPT !.got = Append(@, v), !.i = @ + 1]
  OBVIOUS
<1>3. /\ pc[t] = "access" /\ o.op = "get" /\ UNCHANGED <<program, kv, serial, answers, old>>
      /\ Goto(t, "run") /\ SetTxn(t, y)
  BY <1>1, <1>2 DEF TxnGet, storeVars
<1>4. Typed /\ ~AtEnd(t) /\ txn[t] \in Txns
  BY <1>3, InTxn DEF Following
<1>5. /\ y.i = txn[t].i + 1 /\ y.serial = txn[t].serial /\ y.tv = txn[t].tv
      /\ y.got = Append(txn[t].got, v)
  BY <1>2, <1>4 DEF Txns
<1>6. y \in Txns
  BY <1>3, <1>4 DEF SetTxn, Typed
<1>7. PICK s : s = Abstract!After(kv, body)[txn[t].i - 1]
  OBVIOUS
<1>8. ASSUME txn[t].serial = serial
      PROVE  Abstract!Do(s, o) = [db |-> s.db, got |-> y.got, ok |-> TRUE]
  <2>1. PICK db : db = Over(txn[t].tv, Writes(body, n))
    OBVIOUS
  <2>2. s = [db |-> db, got |-> txn[t].got, ok |-> TRUE] /\ v = db[o.key]
    BY <1>1, <1>2, <1>3, <1>7, <1>8, <2>1, SeenRight
  <2>3. Abstract!Do(s, o) = [db |-> db, got |-> Append(txn[t].got, v), ok |-> TRUE]
    BY <1>3, <2>2, DoGet
  <2>4. s.db = db
    BY <2>2
  <2> QED BY <1>5, <2>3, <2>4
<1>9. Follows(Current(t), "run", y)
  BY <1>1, <1>3, <1>4, <1>5, <1>6, <1>7, <1>8, NextReads
<1> QED BY <1>3, <1>9, FollowMove

LEMMA TxnPutFollows ==
  ASSUME Following, Supported, Typed', NEW t \in Threads, program' = program, TxnPut(t)
  PROVE  Following'
<1>1. PICK o, body, n : o = TxnOp(t) /\ body = Current(t).body /\ n = txn[t].i - 1
  OBVIOUS
<1>2. PICK v, y : /\ v = IF o.op = "put" THEN <<o.tag>> ELSE Append(Last(txn[t].got), o.tag)
                  /\ y = [txn[t] EXCEPT !.tv = Written(@, o.key, v), !.i = @ + 1]
  OBVIOUS
<1>3. /\ pc[t] = "run" /\ ~AtEnd(t) /\ o.op \in {"put", "derive"} /\ UNCHANGED <<program, kv, serial>>
      /\ Return(t, Failed) \/ (SetTxn(t, y) /\ UNCHANGED <<answers, pc, old>>)
  BY <1>1, <1>2 DEF TxnPut, Runs, storeVars
<1>4. CASE Return(t, Failed)
  BY <1>3, <1>4, FollowReturn
<1>5. CASE SetTxn(t, y) /\ UNCHANGED <<answers, pc, old>>
  <2>1. Typed /\ txn[t] \in Txns
    BY DEF Following, Typed
  <2>2. /\ y.i = txn[t].i + 1 /\ y.serial = txn[t].serial /\ y.tv = Written(txn[t].tv, o.key, v)
        /\ y.got = txn[t].got
    BY <1>2, <2>1 DEF Txns
  <2>3. y \in Txns
    BY <1>5, <2>1 DEF SetTxn, Typed
  <2>4. PICK s : s = Abstract!After(kv, body)[txn[t].i - 1]
    OBVIOUS
  <2>5. ASSUME txn[t].serial = serial
        PROVE  Abstract!Do(s, o) = [db |-> [s.db EXCEPT ![o.key] = v], got |-> y.got, ok |-> TRUE]
    <3>1. PICK db : db = Over(txn[t].tv, Writes(body, n))
      OBVIOUS
    <3>2. s = [db |-> db, got |-> txn[t].got, ok |-> TRUE]
      BY <1>1, <1>3, <2>4, <2>5, <3>1 DEF Following, Follows, Agrees
    <3>3. Abstract!Do(s, o) = [db |-> [db EXCEPT ![o.key] = v], got |-> txn[t].got, ok |-> TRUE]
      <4>1. CASE o.op = "put"
        BY <1>2, <3>2, <4>1, DoPut
      <4>2. CASE o.op = "derive"
        BY <1>2, <3>2, <4>2, DoDerive
      <4> QED BY <1>3, <4>1, <4>2
    <3>4. s.db = db
      BY <3>2
    <3> QED BY <2>2, <3>3, <3>4
  <2>6. Follows(Current(t), "run", y)
    BY <1>1, <1>3, <2>2, <2>3, <2>4, <2>5, NextWrites
  <2>7. Goto(t, "run")
    BY <1>3, <1>5, <2>1 DEF Goto, Typed
  <2> QED BY <1>3, <1>5, <2>6, <2>7, FollowMove
<1> QED BY <1>3, <1>4, <1>5

LEMMA TxnUpdateFollows ==
  ASSUME Following, Supported, Typed', NEW t \in Threads, program' = program, TxnUpdate(t)
  PROVE  Following'
<1>1. PICK o, body, n : o = TxnOp(t) /\ body = Current(t).body /\ n = txn[t].i - 1
  OBVIOUS
<1>2. PICK v : v = Append(Seen(t, o.key), o.tag)
  OBVIOUS
<1>3. PICK w : w = IF o.key \in DOMAIN txn[t].tv \union SameSlot THEN v ELSE Garbage
  OBVIOUS
<1>4. PICK y : y = [txn[t] EXCEPT !.tv = Written(@, o.key, w), !.got = Append(@, v), !.i = @ + 1]
  OBVIOUS
<1>5. /\ pc[t] = "access" /\ o.op = "update" /\ UNCHANGED <<program, kv, serial>>
      /\ \/ Return(t, Failed)
         \/ Seen(t, o.key) # Nil /\ SetTxn(t, y) /\ Goto(t, "run") /\ UNCHANGED <<answers, old>>
  BY <1>1, <1>2, <1>3, <1>4 DEF TxnUpdate, storeVars
<1>6. CASE Return(t, Failed)
  BY <1>5, <1>6, FollowReturn
<1>7. CASE Seen(t, o.key) # Nil /\ SetTxn(t, y) /\ Goto(t, "run") /\ UNCHANGED <<answers, old>>
  <2>1. /\ Typed /\ ~AtEnd(t) /\ txn[t] \in Txns /\ Busy(t) /\ Current(t).txn
        /\ txn[t].i \in 1..Len(body) /\ Len(body) \in Nat /\ o = body[txn[t].i]
    BY <1>1, <1>5, InTxn DEF Following, TxnOp
  <2>2. ~Apart(body)
    <3>1. o.key \in Writes(body, Len(body))
      BY <1>5, <2>1, WritesEach
    <3> QED BY <1>5, <2>1, <3>1 DEF Apart, Reads
  <2>3. Agrees(body, txn[t])
    BY <1>1, <1>5 DEF Following, Follows
  <2>4. w = v
    <3>1. o.key \in SameSlot \cup Writes(body, n)
      BY <1>1, <1>5, <2>1, <2>2, SupportedCall DEF InSlots
    <3>2. Writes(body, n) \subseteq DOMAIN txn[t].tv
      BY <1>1, <2>2, <2>3 DEF Agrees
    <3> QED BY <1>3, <3>1, <3>2
  <2>5. /\ y.i = txn[t].i + 1 /\ y.serial = txn[t].serial /\ y.tv = Written(txn[t].tv, o.key, v)
        /\ y.got = Append(txn[t].got, v)
    BY <1>4, <2>1, <2>4 DEF Txns
  <2>6. y \in Txns
    BY <1>7, <2>1 DEF SetTxn, Typed
  <2>7. PICK s : s = Abstract!After(kv, body)[txn[t].i - 1]
    OBVIOUS
  <2>8. ASSUME txn[t].serial = serial
        PROVE  Abstract!Do(s, o) = [db |-> [s.db EXCEPT ![o.key] = v], got |-> y.got, ok |-> TRUE]
    <3>1. PICK db : db = Over(txn[t].tv, Writes(body, n))
      OBVIOUS
    <3>2. s = [db |-> db, got |-> txn[t].got, ok |-> TRUE] /\ Seen(t, o.key) = db[o.key]
      BY <1>1, <1>5, <2>7, <2>8, <3>1, SeenRight
    <3>3. Abstract!Do(s, o)
            = [db |-> [db EXCEPT ![o.key] = v], got |-> Append(txn[t].got, v), ok |-> TRUE]
      <4>1. db[o.key] # Nil /\ v = Append(db[o.key], o.tag)
        BY <1>2, <1>7, <3>2
      <4>2. Abstract!Do([db |-> db, got |-> txn[t].got, ok |-> TRUE], o)
              = [db |-> [db EXCEPT ![o.key] = Append(db[o.key], o.tag)],
                 got |-> Append(txn[t].got, Append(db[o.key], o.tag)), ok |-> TRUE]
        BY <1>5, <4>1, DoUpdate
      <4>3. Abstract!Do([db |-> db, got |-> txn[t].got, ok |-> TRUE], o)
              = [db |-> [db EXCEPT ![o.key] = v], got |-> Append(txn[t].got, v), ok |-> TRUE]
        BY <4>1, <4>2
      <4> QED BY <3>2, <4>3
    <3>4. s.db = db
      BY <3>2
    <3> QED BY <2>5, <3>3, <3>4
  <2>9. Follows(Current(t), "run", y)
    BY <1>1, <1>5, <2>1, <2>5, <2>6, <2>7, <2>8, NextWrites
  <2> QED BY <1>5, <1>7, <2>9, FollowMove
<1> QED BY <1>5, <1>6, <1>7

\* A commit that fails has not changed anything: there was one key.
LEMMA PartlyNothing ==
  ASSUME Following, Supported, NEW t \in Threads, CommitPartly(t)
  PROVE  UNCHANGED <<kv, serial>>
<1>1. pc[t] = "run" /\ MayFail /\ serial' = serial
  BY DEF CommitPartly
<1>2. PICK ks \in SUBSET DOMAIN txn[t].tv : ks # DOMAIN txn[t].tv /\ kv' = Overlay(t, ks)
  BY DEF CommitPartly
<1>3. OneKey(Current(t).body) /\ Typed
  BY <1>1, InTxn, SupportedCall DEF Following
<1>4. DOMAIN txn[t].tv \subseteq Writes(Current(t).body, Len(Current(t).body))
  BY <1>1 DEF Following, Follows
<1>5. ks = {}
  BY <1>2, <1>3, <1>4 DEF OneKey
<1>6. kv' = kv
  BY <1>2, <1>3, <1>5 DEF Overlay, Typed
<1> QED BY <1>1, <1>6

LEMMA CommitsFollow ==
  ASSUME Following, Supported, Typed', NEW t \in Threads, program' = program,
         Commit(t) \/ CommitLate(t) \/ CommitPartly(t)
  PROVE  Following'
<1>1. pc[t] = "run" /\ Typed
  BY DEF Commit, CommitLate, CommitPartly, Following
<1>2. Busy(t) /\ Current(t).txn /\ txn[t] \in Txns /\ Follows(Current(t), "run", txn[t])
  BY <1>1, InTxn DEF Following
<1>3. CASE Commit(t)
  BY <1>2, <1>3, FollowReturn DEF Commit
<1>4. CASE CommitLate(t)
  <2>1. PICK x : x = Again(txn[t])
    OBVIOUS
  <2>2. x.i = 1 /\ x.serial # serial /\ x.tv = txn[t].tv /\ x.got = <<>>
    BY <1>2, <1>4, <2>1, TxnType DEF CommitLate
  <2>3. Apart(Current(t).body) /\ DOMAIN x.tv \subseteq Writes(Current(t).body, Len(Current(t).body))
    BY <1>2, <1>4, <2>2 DEF Follows, Agrees, CommitLate
  <2>4. Follows(Current(t), "run", x)
    BY <2>2, <2>3 DEF Follows, Agrees
  <2>5. SetTxn(t, x) /\ Goto(t, "run") /\ UNCHANGED <<kv, serial, answers, old>>
    BY <1>1, <1>4, <2>1 DEF CommitLate, storeVars, Goto, Typed
  <2> QED BY <2>4, <2>5, FollowMove
<1>5. CASE CommitPartly(t)
  BY <1>5, PartlyNothing, FollowReturn DEF CommitPartly
<1> QED BY <1>3, <1>4, <1>5

LEMMA NextFollowing == Supported /\ Following /\ [Next]_vars => Following'
<1> SUFFICES ASSUME Supported, Following, [Next]_vars PROVE Following'
  OBVIOUS
<1>1. Typed'
  BY NextTyped DEF Following
<1>2. ASSUME NEW t \in Threads, Step(t) PROVE Following'
  BY <1>1, <1>2, SinglesFollow, BeginFollows, ChecksFollow, RetryFollows, TxnGetFollows,
     TxnPutFollows, TxnUpdateFollows, CommitsFollow DEF Step
<1>3. CASE UNCHANGED vars
  <2>1. \A c, l, x : Follows(c, l, x)' = Follows(c, l, x)
    BY <1>3, SameStore DEF vars
  <2>2. \A t \in Threads : Current(t)' = Current(t)
    BY <1>3 DEF vars, Current
  <2> QED BY <1>1, <1>3, <2>1, <2>2 DEF Following, vars
<1> QED BY <1>2, <1>3 DEF Next

LEMMA InitFollowing == Init => Following
<1> SUFFICES ASSUME Init PROVE Following
  OBVIOUS
<1>1. \A t \in Threads : pc[t] = "idle"
  BY DEF Init
<1> QED BY <1>1, InitTyped DEF Following, Follows

-----------------------------------------------------------------------------
(* Each step is one of Store's, or changes nothing that Store has.          *)

LEMMA Alike ==
  /\ UNCHANGED <<program, kv, answers>> => UNCHANGED Abstract!vars
  /\ \A t : (Abstract!Busy(t) <=> Busy(t)) /\ Abstract!Current(t) = Current(t)
BY DEF Abstract!vars, Abstract!Busy, Busy, Abstract!Current, Current

LEMMA StoreFails ==
  ASSUME NEW t \in Threads, Busy(t), UNCHANGED <<program, kv>>, Return(t, Failed),
         \/ Current(t).txn
         \/ Current(t).body[1].op = "update"
         \/ MayFail /\ Current(t).body[1].op = "put"
  PROVE  Abstract!Next
<1>1. Abstract!Answer(t, Abstract!Failed)
  BY DEF Return, Abstract!Answer, Abstract!Failed, Failed
<1>2. Abstract!Fail(t)
  BY <1>1, Alike DEF Abstract!Fail, MayFail
<1> QED BY <1>2, Alike DEF Abstract!Next

LEMMA StoreSucceeds ==
  ASSUME NEW t \in Threads, Busy(t), program' = program, NEW got, Return(t, Ok(got)),
         Abstract!Run(kv, Current(t).body) = [db |-> kv', got |-> got, ok |-> TRUE]
  PROVE  Abstract!Next
<1>1. Abstract!Answer(t, [ok |-> TRUE, got |-> got])
  BY DEF Return, Ok, Abstract!Answer
<1>2. PICK r : r = Abstract!Run(kv, Current(t).body)
  OBVIOUS
<1>3. r.ok = TRUE /\ r.db = kv' /\ r.got = got
  BY <1>2
<1>4. Abstract!Succeed(t)
  BY <1>1, <1>2, <1>3, Alike DEF Abstract!Succeed
<1> QED BY <1>4, Alike DEF Abstract!Next

\* A call outside of transactions is its one operation.
LEMMA SingleRun ==
  ASSUME Typed, NEW t \in Threads, Busy(t), ~Current(t).txn
  PROVE  Abstract!Run(kv, Current(t).body) = Abstract!Do([db |-> kv, got |-> <<>>, ok |-> TRUE], Op(t))
<1>1. PICK body : body = Current(t).body
  OBVIOUS
<1>2. Len(body) = 1 /\ Op(t) = body[1]
  BY <1>1, CurrentType DEF IsCall, Op
<1>3. /\ Abstract!After(kv, body)[0] = Begun(kv)
      /\ Abstract!After(kv, body)[1] = Abstract!Do(Abstract!After(kv, body)[1 - 1], body[1])
  BY <1>2, AfterEach
<1>4. Abstract!After(kv, body)[1] = Abstract!Do(Begun(kv), body[1])
  BY <1>3
<1>5. Abstract!Run(kv, body) = Abstract!After(kv, body)[1]
  BY <1>2 DEF Abstract!Run
<1> QED BY <1>1, <1>2, <1>4, <1>5 DEF Begun

LEMMA WrittenThere ==
  ASSUME Typed, NEW k \in Keys, NEW v
  PROVE  Written(kv, k, v) = [kv EXCEPT ![k] = v]
<1>1. kv = [x \in Keys |-> kv[x]]
  BY DEF Typed
<1>2. DOMAIN kv \cup {k} = Keys
  BY <1>1
<1> QED BY <1>1, <1>2 DEF Written

LEMMA SinglesImplement ==
  ASSUME Following, NEW t \in Threads, program' = program,
         Get(t) \/ Put(t) \/ ReadOld(t) \/ StoreNew(t)
  PROVE  [Abstract!Next]_(Abstract!vars)
<1>1. Busy(t) /\ ~Current(t).txn /\ Typed
  BY DEF Get, Put, ReadOld, StoreNew, Calls, Following, Typed, Placed
<1>2. Op(t).key \in Keys /\ Op(t) = Current(t).body[1]
  BY <1>1, SingleType, OperationType DEF Op
<1>3. CASE Get(t)
  <2>1. Op(t).op = "get" /\ kv' = kv /\ Return(t, Ok(<<kv[Op(t).key]>>))
    BY <1>3 DEF Get, Calls, Op, storeVars
  <2>2. Append(<<>>, kv[Op(t).key]) = <<kv[Op(t).key]>>
    OBVIOUS
  <2>3. Abstract!Do([db |-> kv, got |-> <<>>, ok |-> TRUE], Op(t))
          = [db |-> kv, got |-> Append(<<>>, kv[Op(t).key]), ok |-> TRUE]
    BY <2>1, DoGet
  <2>4. Abstract!Run(kv, Current(t).body) = [db |-> kv, got |-> <<kv[Op(t).key]>>, ok |-> TRUE]
    BY <1>1, <2>2, <2>3, SingleRun
  <2> QED BY <1>1, <2>1, <2>4, StoreSucceeds
<1>4. CASE Put(t)
  <2>1. Op(t).op = "put"
    BY <1>4 DEF Put, Calls, Op
  <2>2. CASE Store(Op(t).key, <<Op(t).tag>>) /\ Return(t, Ok(<<>>))
    <3>1. kv' = [kv EXCEPT ![Op(t).key] = <<Op(t).tag>>]
      BY <1>1, <1>2, <2>2, WrittenThere DEF Store
    <3>2. Abstract!Run(kv, Current(t).body) = [db |-> kv', got |-> <<>>, ok |-> TRUE]
      BY <1>1, <2>1, <3>1, SingleRun, DoPut
    <3> QED BY <1>1, <2>2, <3>2, StoreSucceeds
  <2>3. CASE MayFail /\ Return(t, Failed) /\ UNCHANGED storeVars
    BY <1>1, <1>2, <2>1, <2>3, StoreFails DEF storeVars
  <2> QED BY <1>4, <2>2, <2>3 DEF Put
<1>5. CASE ReadOld(t)
  <2>1. Op(t).op = "update" /\ UNCHANGED <<program, kv>>
    BY <1>5 DEF ReadOld, Calls, Op, storeVars
  <2>2. CASE kv[Op(t).key] = Nil
    BY <1>1, <1>2, <1>5, <2>1, <2>2, StoreFails DEF ReadOld
  <2>3. CASE kv[Op(t).key] # Nil
    <3>1. answers' = answers
      BY <1>5, <2>3 DEF ReadOld
    <3> QED BY <2>1, <3>1, Alike DEF Abstract!vars
  <2> QED BY <2>2, <2>3
<1>6. CASE StoreNew(t)
  <2>1. Op(t).op = "update" /\ old[t] # Nil
    BY <1>6 DEF StoreNew, Following, Typed, Placed, Op
  <2>2. PICK v : v = Append(old[t], Op(t).tag)
    OBVIOUS
  <2>3. CASE kv[Op(t).key] = old[t] /\ Store(Op(t).key, v) /\ Return(t, Ok(<<v>>))
    <3>1. kv' = [kv EXCEPT ![Op(t).key] = v]
      BY <1>1, <1>2, <2>3, WrittenThere DEF Store
    <3>2. Append(<<>>, v) = <<v>>
      OBVIOUS
    <3>3. kv[Op(t).key] # Nil /\ v = Append(kv[Op(t).key], Op(t).tag)
      BY <2>1, <2>2, <2>3
    <3>4. Abstract!Do([db |-> kv, got |-> <<>>, ok |-> TRUE], Op(t))
            = [db |-> [kv EXCEPT ![Op(t).key] = Append(kv[Op(t).key], Op(t).tag)],
               got |-> Append(<<>>, Append(kv[Op(t).key], Op(t).tag)), ok |-> TRUE]
      BY <2>1, <3>3, DoUpdate
    <3>5. Abstract!Run(kv, Current(t).body) = [db |-> kv', got |-> <<v>>, ok |-> TRUE]
      BY <1>1, <3>1, <3>2, <3>3, <3>4, SingleRun
    <3> QED BY <1>1, <2>3, <3>5, StoreSucceeds
  <2>4. CASE Return(t, Failed) /\ UNCHANGED storeVars
    BY <1>1, <1>2, <2>1, <2>4, StoreFails DEF storeVars
  <2> QED BY <1>6, <2>2, <2>3, <2>4 DEF StoreNew
<1> QED BY <1>3, <1>4, <1>5, <1>6

\* At the end of a transaction that has seen no other's change its table is what
\* the whole body does to the store.
LEMMA CommitImplements ==
  ASSUME Following, NEW t \in Threads, program' = program, Commit(t)
  PROVE  Abstract!Next
<1>1. pc[t] = "run" /\ AtEnd(t) /\ txn[t].serial = serial /\ Return(t, Ok(txn[t].got))
  BY DEF Commit
<1>2. PICK body, n, x : body = Current(t).body /\ n = txn[t].i - 1 /\ x = txn[t]
  OBVIOUS
<1>3. /\ Busy(t) /\ Follows(Current(t), "run", x) /\ Len(body) \in Nat
      /\ x.i \in Nat \ {0} /\ Placed(Current(t), "run", x)
  BY <1>1, <1>2, InTxn DEF Following
<1>4. n = Len(body)
  BY <1>1, <1>2, <1>3 DEF AtEnd, Placed
<1>5. /\ DOMAIN x.tv \subseteq Writes(body, Len(body)) /\ Writes(body, n) \subseteq DOMAIN x.tv
      /\ Abstract!After(kv, body)[n] = [db |-> Over(x.tv, Writes(body, n)), got |-> x.got, ok |-> TRUE]
  BY <1>1, <1>2, <1>3 DEF Follows, Agrees
<1>6. DOMAIN x.tv = Writes(body, n)
  BY <1>4, <1>5
<1>7. kv' = Over(x.tv, Writes(body, n))
  BY <1>2, <1>6 DEF Commit, Overlay, Over
<1>8. Abstract!Run(kv, body) = [db |-> kv', got |-> x.got, ok |-> TRUE]
  BY <1>4, <1>5, <1>7 DEF Abstract!Run
<1> QED BY <1>1, <1>2, <1>3, <1>8, StoreSucceeds

LEMMA StepImplements ==
  ASSUME Following, Supported, NEW t \in Threads, Step(t)
  PROVE  [Abstract!Next]_(Abstract!vars)
<1>1. program' = program
  BY DEF Step
<1>2. CASE Get(t) \/ Put(t) \/ ReadOld(t) \/ StoreNew(t)
  BY <1>1, <1>2, SinglesImplement
<1>3. CASE Commit(t)
  BY <1>1, <1>3, CommitImplements
<1>4. CASE Begin(t) \/ Check(t) \/ TxnGet(t) \/ CommitLate(t)
  <2>1. UNCHANGED <<kv, answers>>
    BY <1>4 DEF Begin, Check, TxnGet, CommitLate, storeVars
  <2> QED BY <1>1, <2>1, Alike
<1>5. ASSUME pc[t] \in {"run", "access", "retry"}, kv' = kv, Return(t, Failed) \/ answers' = answers
      PROVE  [Abstract!Next]_(Abstract!vars)
  <2>1. Busy(t) /\ Current(t).txn
    BY <1>5, InTxn DEF Following
  <2>2. CASE Return(t, Failed)
    BY <1>1, <1>5, <2>1, <2>2, StoreFails
  <2>3. CASE answers' = answers
    BY <1>1, <1>5, <2>3, Alike
  <2> QED BY <1>5, <2>2, <2>3
<1>6. CASE Retry(t) \/ TxnPut(t) \/ TxnUpdate(t)
  <2>1. pc[t] \in {"run", "access", "retry"} /\ kv' = kv
    BY <1>6 DEF Retry, TxnPut, TxnUpdate, Runs, storeVars
  <2>2. Return(t, Failed) \/ answers' = answers
    BY <1>6 DEF Retry, TxnPut, TxnUpdate
  <2> QED BY <1>5, <2>1, <2>2
<1>7. CASE CommitPartly(t)
  <2>1. pc[t] = "run" /\ kv' = kv /\ Return(t, Failed)
    BY <1>7, PartlyNothing DEF CommitPartly
  <2> QED BY <1>5, <2>1
<1> QED BY <1>2, <1>3, <1>4, <1>6, <1>7 DEF Step

\* Gets, puts, updates and transactions of threads that share a store cannot be
\* told from calls made one after the other: each takes effect at one moment or
\* fails without effect.  The store is the atomic store of Store, for any number
\* of threads, keys and calls, in programs whose transactions are Supported.
THEOREM Serializable == Supported => (Spec => ImplementsStore)
<1> SUFFICES ASSUME Supported PROVE Spec => ImplementsStore
  OBVIOUS
<1>1. Init => Following /\ Abstract!Init
  BY InitFollowing DEF Init, Abstract!Init
<1>2. Following /\ [Next]_vars => Following'
  BY NextFollowing
<1>3. Following /\ [Next]_vars => [Abstract!Next]_(Abstract!vars)
  <2> SUFFICES ASSUME Following, [Next]_vars PROVE [Abstract!Next]_(Abstract!vars)
    OBVIOUS
  <2>1. CASE UNCHANGED vars
    BY <2>1 DEF vars, Abstract!vars
  <2> QED BY <2>1, StepImplements DEF Next
<1> QED BY <1>1, <1>2, <1>3, PTL DEF Spec, ImplementsStore, Abstract!Spec
================================================================================
