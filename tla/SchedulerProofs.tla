--------------------------- MODULE SchedulerProofs ---------------------------
(***************************************************************************)
(* Proofs about the scheduler, for every set of streams, number of workers *)
(* and program.                                                            *)
(***************************************************************************)
EXTENDS Scheduler, SequenceTheorems, TLAPS

\* A worker that is inside task_loop's if holds a stream.
HoldsStream ==
  \A w \in Workers : pc[w] \in {"claim", "drain", "run", "release"}
                       => cur[w] \in Streams

Typed == TypeOK /\ HoldsStream

-----------------------------------------------------------------------------
(* Sequences.                                                              *)

LEMMA SeqFacts ==
  ASSUME NEW S, NEW q \in Seq(S), NEW r \in Seq(S), NEW x \in S
  PROVE  /\ q \o r \in Seq(S) /\ Append(q, x) \in Seq(S)
         /\ <<x>> \in Seq(S) /\ <<>> \in Seq(S)
         /\ q # <<>> => Head(q) \in S /\ Tail(q) \in Seq(S)
  OBVIOUS

\* A sequence holds what its type says.
LEMMA ElementTyped ==
  ASSUME NEW S, NEW q \in Seq(S), NEW i \in Nat \ {0}, ~(i > Len(q))
  PROVE  q[i] \in S
  OBVIOUS

\* Short agendas.
LEMMA ShortAgendas ==
  /\ <<>> \in Seq(Ops)
  /\ \A o \in Ops : <<o>> \in Seq(Ops)
  /\ \A o, p \in Ops : <<o, p>> \in Seq(Ops)
  /\ \A o, p, q \in Ops : <<o, p, q>> \in Seq(Ops)
  /\ \A q, r \in Seq(Ops) : q \o r \in Seq(Ops)
  OBVIOUS

\* Every step an agenda is made of has the type of one.
LEMMA OpTypes ==
  /\ \A s \in Streams :
       /\ RefOp(s) \in Ops /\ StartOp(s) \in Ops /\ DropDstOp(s) \in Ops
       /\ AddStreamOp(s) \in Ops /\ CloseOp(s) \in Ops /\ CloseDstOp(s) \in Ops
       /\ CountDownOp(s) \in Ops /\ SeqNextOp(s) \in Ops
       /\ TakeNextOp(s) \in Ops /\ AfterOp(s) \in Ops
  /\ \A s \in Streams, d \in Data, b \in BOOLEAN : EmitOp(s, d, b) \in Ops
  /\ \A s \in Streams, b \in BOOLEAN : CheckOp(s, b) \in Ops
  /\ \A s \in Streams, d \in Data, i \in Nat \ {0} : EmitRestOp(s, d, i) \in Ops
  /\ \A s \in Streams, i \in Nat \ {0} : CloseRestOp(s, i) \in Ops
  /\ \A s \in Streams, f \in Funcs, d \in Data :
       PushOp(s, f, d) \in Ops /\ AddTaskOp(s, f, d) \in Ops
  /\ \A s \in Streams, m \in Modes : KillOp(s, m) \in Ops
  BY DEF Ops, StreamOps, RefOp, StartOp, DropDstOp, AddStreamOp, CloseOp,
         CloseDstOp, CountDownOp, SeqNextOp, TakeNextOp, AfterOp, EmitOp, CheckOp,
         EmitRestOp, CloseRestOp, PushOp, AddTaskOp, KillOp

\* ... and its fields have theirs.
LEMMA OpFields ==
  ASSUME NEW o \in Ops
  PROVE  /\ o.s \in Streams
         /\ o.op = "new" => o.kind \in Kinds /\ o.limit \in Nat
         /\ o.op = "connect" => o.dst \in Streams
         /\ o.op = "check" => o.again \in BOOLEAN
         /\ o.op = "emit" => o.d \in Data /\ o.again \in BOOLEAN
         /\ o.op = "emitRest" => o.d \in Data /\ o.i \in Nat \ {0}
         /\ o.op \in {"push", "addTask"} => o.f \in Funcs /\ o.d \in Data
         /\ o.op = "kill" => o.mode \in Modes
         /\ o.op = "closeRest" => o.i \in Nat \ {0}
  BY DEF Ops, StreamOps

\* A thread that is about to do a step has one, of the type it should have.
LEMMA TopTyped ==
  ASSUME TypeOK, NEW t \in Threads, NEW op, At(t, op)
  PROVE  /\ Head(agenda[t]) \in Ops /\ Head(agenda[t]).op = op
         /\ agenda[t] \in Seq(Ops) /\ agenda[t] # <<>>
  BY SeqFacts DEF TypeOK, AgendasOK, At

\* Putting well-typed steps in front of an agenda keeps it well-typed.
LEMMA ContinueTyped ==
  ASSUME TypeOK, NEW t \in Threads, agenda[t] # <<>>,
         NEW ops \in Seq(Ops), Continue(t, ops)
  PROVE  AgendasOK'
  <1>1. ops \o Tail(agenda[t]) \in Seq(Ops)
    BY SeqFacts DEF TypeOK, AgendasOK
  <1> QED  BY <1>1 DEF TypeOK, AgendasOK, Continue

\* ... and so does leaving one step out.
LEMMA ReturnTyped ==
  ASSUME TypeOK, NEW t \in Threads, agenda[t] # <<>>, Return(t)
  PROVE  AgendasOK'
  <1>1. <<>> \in Seq(Ops)
    OBVIOUS
  <1> QED  BY <1>1, ContinueTyped DEF Return

\* What a callback leaves to do.
LEMMA StartFuncTyped ==
  ASSUME NEW s \in Streams, NEW k \in Kinds, NEW num \in Int, NEW lim \in Nat,
         NEW d \in Data
  PROVE  StartFunc(s, k, num, lim, d) \in Seq(Ops)
  <1>1. <<s, num>> \in Data /\ Nil \in Data
    BY DEF Data, Elements
  <1>2. /\ CloseOp(s) \in Ops /\ SeqNextOp(s) \in Ops /\ TakeNextOp(s) \in Ops
        /\ EmitOp(s, <<s, num>>, TRUE) \in Ops /\ EmitOp(s, Nil, FALSE) \in Ops
        /\ EmitOp(s, d, FALSE) \in Ops
    BY <1>1, OpTypes DEF Funcs, Modes
  <1>3. GenSeq(s, num, lim) \in Seq(Ops) /\ IterTake(s, d) \in Seq(Ops)
    BY <1>2, ShortAgendas, Zenon DEF GenSeq, IterTake
  <1>4. /\ <<EmitOp(s, d, FALSE)>> \in Seq(Ops) /\ <<>> \in Seq(Ops)
        /\ <<EmitOp(s, Nil, FALSE)>> \in Seq(Ops)
    BY <1>2, ShortAgendas, Zenon
  <1> QED  BY <1>3, <1>4, Zenon DEF StartFunc

\* ... and what its closing function does.
LEMMA CloseFuncTyped ==
  ASSUME NEW s \in Streams, NEW k \in Kinds, NEW q \in Seq(Data),
         ~CloseFails(k, q)
  PROVE  CloseFunc(s, k, q) \in Seq(Ops)
  <1> DEFINE ops == [i \in 1..Len(q) |-> EmitOp(s, q[i], FALSE)]
  <1>1. \A d \in Data : EmitOp(s, d, FALSE) \in Ops
    BY DEF Ops, EmitOp
  <1>2. Len(q) \in Nat /\ \A i \in 1..Len(q) : q[i] \in Data
    OBVIOUS
  <1>3. ops \in [1..Len(q) -> Ops]
    BY <1>1, <1>2, Zenon
  <1>4. ops \in Seq(Ops)
    BY <1>2, <1>3, SeqDef
  <1>5. CASE k = "sort"
    BY <1>4, <1>5, Zenon DEF CloseFunc
  <1>6. CASE k = "reduce"
    <2>1. Len(q) # 0
      BY <1>6 DEF CloseFails
    <2>2. EmitOp(s, q[1], FALSE) \in Ops
      <3>1. q[1] \in Data
        BY <1>2, <2>1
      <3> QED  BY <1>1, <3>1
    <2>3. CloseFunc(s, k, q) = <<EmitOp(s, q[1], FALSE)>>
      BY <1>6, Zenon DEF CloseFunc
    <2> QED  BY <2>2, <2>3, ShortAgendas, Zenon
  <1>7. CASE k \notin {"sort", "reduce"}
    <2>1. CloseFunc(s, k, q) = <<>>
      BY <1>7, Zenon DEF CloseFunc
    <2> QED  BY <2>1
  <1> QED  BY <1>5, <1>6, <1>7

\* A new stream gets a mode.
LEMMA ModeOfTyped == \A k \in Kinds : ModeOf(k) \in Modes
  BY Zenon DEF ModeOf, Modes

-----------------------------------------------------------------------------
(* Type correctness.                                                       *)

LEMMA StepTyped ==
  ASSUME Typed, NEW t \in Threads, Step(t)
  PROVE  Typed'
  <1>1. CASE StreamNew(t)
    <2>1. /\ Head(agenda[t]) \in Ops /\ Head(agenda[t]).op = "new"
          /\ agenda[t] # <<>>
      BY <1>1, TopTyped DEF StreamNew, Typed
    <2>2. AgendasOK'
      BY <1>1, <2>1, ReturnTyped DEF StreamNew, Typed
    <2>3. ThreadsOK' /\ HistoryOK' /\ HoldsStream'
      BY <1>1 DEF StreamNew, Return, Continue, Typed, TypeOK, HoldsStream,
             ThreadsOK, HistoryOK, sharedVars, streamVars, historyVars
    <2>4. StreamsOK'
      BY <1>1, <2>1, OpFields, ModeOfTyped
      DEF StreamNew, Typed, TypeOK, StreamsOK, sharedVars, streamVars, historyVars
    <2>5. QueuesOK'
      BY <1>1, <2>1, OpFields, SeqFacts
      DEF StreamNew, Typed, TypeOK, QueuesOK, sharedVars, streamVars, historyVars
    <2> QED  BY <2>2, <2>3, <2>4, <2>5 DEF Typed, TypeOK
  <1>2. CASE Connect(t)
    <2>1. /\ Head(agenda[t]) \in Ops /\ Head(agenda[t]).op = "connect"
          /\ agenda[t] # <<>>
      BY <1>2, TopTyped DEF Connect, Typed
    <2>2. AgendasOK'
      <3> DEFINE o == Head(agenda[t])
                 s == o.s
                 ops == <<RefOp(o.dst), StartOp(s)>>
      <3>1. s \in Streams /\ o.dst \in Streams
        BY <2>1, OpFields
      <3>2. ops \in Seq(Ops)
        BY <3>1, OpTypes, ShortAgendas, Zenon
      <3>3. Continue(t, ops)
        BY <1>2 DEF Connect
      <3> HIDE DEF ops
      <3> QED  BY <2>1, <3>2, <3>3, ContinueTyped DEF Typed
    <2>3. QueuesOK' /\ ThreadsOK' /\ HistoryOK' /\ HoldsStream'
      BY <1>2 DEF Connect, Return, Continue, Typed, TypeOK, HoldsStream,
             QueuesOK, ThreadsOK, HistoryOK, sharedVars, streamVars, historyVars
    <2>4. StreamsOK'
      <3> DEFINE o == Head(agenda[t])
      <3>1. o.s \in Streams /\ o.dst \in Streams
        BY <2>1, OpFields
      <3>2. dst' \in [Streams -> Streams \union {NoStream}]
        BY <1>2, <3>1 DEF Connect, Typed, TypeOK, StreamsOK
      <3>3. rest' \in [Streams -> Seq(Streams)]
        <4>1. Append(rest[o.s], o.dst) \in Seq(Streams)
          BY <3>1, SeqFacts DEF Typed, TypeOK, StreamsOK
        <4>2. rest' = rest \/ rest' = [rest EXCEPT ![o.s] = Append(@, o.dst)]
          BY <1>2, Zenon DEF Connect
        <4> QED  BY <4>1, <4>2 DEF Typed, TypeOK, StreamsOK
      <3> QED  BY <1>2, <3>2, <3>3 DEF Connect, Typed, TypeOK, StreamsOK
    <2> QED  BY <2>2, <2>3, <2>4 DEF Typed, TypeOK
  <1>3. CASE Ref(t)
    <2>1. /\ Head(agenda[t]) \in Ops /\ Head(agenda[t]).op = "ref"
          /\ agenda[t] # <<>>
      BY <1>3, TopTyped DEF Ref, Typed
    <2>2. AgendasOK'
      BY <1>3, <2>1, ReturnTyped DEF Ref, Typed
    <2>3. QueuesOK' /\ ThreadsOK' /\ HistoryOK' /\ HoldsStream'
      BY <1>3 DEF Ref, Return, Continue, Typed, TypeOK, HoldsStream,
             QueuesOK, ThreadsOK, HistoryOK, sharedVars, streamVars, historyVars
    <2>4. StreamsOK'
      BY <1>3, <2>1, OpFields, SeqFacts
      DEF Ref, Typed, TypeOK, StreamsOK, sharedVars, streamVars, historyVars
    <2> QED  BY <2>2, <2>3, <2>4 DEF Typed, TypeOK
  <1>4. CASE Push(t)
    <2>1. /\ Head(agenda[t]) \in Ops /\ Head(agenda[t]).op = "push"
          /\ agenda[t] # <<>>
      BY <1>4, TopTyped DEF Push, TaskAdd, Typed
    <2>2. AgendasOK'
      <3> DEFINE o == Head(agenda[t])
                 s == o.s
                 ops == IF mode[s] \in {"killed", "dying"} THEN <<>>
                        ELSE <<AddTaskOp(s, o.f, o.d), AddStreamOp(s)>>
      <3>1. s \in Streams /\ o.f \in Funcs /\ o.d \in Data
        BY <2>1, OpFields
      <3>2. ops \in Seq(Ops)
        BY <3>1, OpTypes, ShortAgendas, Zenon
      <3>3. Continue(t, ops)
        BY <1>4 DEF Push, TaskAdd
      <3> HIDE DEF ops
      <3> QED  BY <2>1, <3>2, <3>3, ContinueTyped DEF Typed
    <2>3. StreamsOK' /\ QueuesOK' /\ ThreadsOK' /\ HistoryOK' /\ HoldsStream'
      BY <1>4 DEF Push, TaskAdd, Return, Continue, Typed, TypeOK, HoldsStream,
             StreamsOK, QueuesOK, ThreadsOK, HistoryOK, sharedVars, streamVars, historyVars
    <2> QED  BY <2>2, <2>3 DEF Typed, TypeOK
  <1>5. CASE AddTask(t)
    <2>1. /\ Head(agenda[t]) \in Ops /\ Head(agenda[t]).op = "addTask"
          /\ agenda[t] # <<>>
      BY <1>5, TopTyped DEF AddTask, Typed
    <2>2. AgendasOK'
      BY <1>5, <2>1, ReturnTyped DEF AddTask, Typed
    <2>3. StreamsOK' /\ ThreadsOK' /\ HistoryOK' /\ HoldsStream'
      BY <1>5 DEF AddTask, Return, Continue, Typed, TypeOK, HoldsStream,
             StreamsOK, ThreadsOK, HistoryOK, sharedVars, streamVars, historyVars
    <2>4. QueuesOK'
      <3> DEFINE o == Head(agenda[t])
                 task == [f |-> o.f, d |-> o.d]
      <3>1. o.s \in Streams /\ task \in Tasks
        BY <2>1, OpFields DEF Tasks
      <3>2. Append(tasks[o.s], task) \in Seq(Tasks)
        BY <3>1, SeqFacts DEF Typed, TypeOK, QueuesOK
      <3>3. tasks' = [tasks EXCEPT ![o.s] = Append(@, task)]
        BY <1>5, Zenon DEF AddTask
      <3> HIDE DEF task
      <3>4. tasks' \in [Streams -> Seq(Tasks)]
        BY <3>2, <3>3 DEF Typed, TypeOK, QueuesOK
      <3> QED  BY <1>5, <3>4 DEF AddTask, Typed, TypeOK, QueuesOK, sharedVars
    <2> QED  BY <2>2, <2>3, <2>4 DEF Typed, TypeOK
  <1>6. CASE AddStream(t)
    <2>1. /\ Head(agenda[t]) \in Ops /\ Head(agenda[t]).op = "addStream"
          /\ agenda[t] # <<>>
      BY <1>6, TopTyped DEF AddStream, Typed
    <2>2. AgendasOK'
      BY <1>6, <2>1, ReturnTyped DEF AddStream, Typed
    <2>3. StreamsOK' /\ ThreadsOK' /\ HistoryOK' /\ HoldsStream'
      BY <1>6 DEF AddStream, Return, Continue, Typed, TypeOK, HoldsStream,
             StreamsOK, ThreadsOK, HistoryOK, sharedVars, streamVars, historyVars
    <2>4. QueuesOK'
      <3>1. Head(agenda[t]).s \in Streams
        BY <2>1, OpFields
      <3>2. /\ Append(queue, Head(agenda[t]).s) \in Seq(Streams)
            /\ Append(prodQueue, Head(agenda[t]).s) \in Seq(Streams)
        BY <3>1, SeqFacts DEF Typed, TypeOK, QueuesOK
      <3> QED  BY <1>6, <3>2 DEF AddStream, Typed, TypeOK, QueuesOK, streamVars
    <2> QED  BY <2>2, <2>3, <2>4 DEF Typed, TypeOK
  <1>7. CASE Emit(t)
    <2>1. /\ Head(agenda[t]) \in Ops /\ Head(agenda[t]).op = "emit"
          /\ agenda[t] # <<>>
      BY <1>7, TopTyped DEF Emit, Typed
    <2>2. AgendasOK'
      <3> DEFINE o == Head(agenda[t])
                 s == o.s
                 toDst == IF dst[s] = NoStream THEN <<>>
                          ELSE <<PushOp(dst[s], "start", o.d), DropDstOp(s)>>
                 again == IF o.again THEN <<PushOp(s, "start", Nil)>> ELSE <<>>
                 check == <<EmitRestOp(s, o.d, 1), CheckOp(s, o.again)>>
                 ops == IF mode[s] = "dying" THEN <<>>
                        ELSE IF o.d = Nil THEN again ELSE toDst \o check
      <3>1. /\ s \in Streams /\ o.d \in Data /\ o.again \in BOOLEAN
            /\ Nil \in Data /\ "start" \in Funcs /\ 1 \in Nat \ {0}
            /\ dst[s] # NoStream => dst[s] \in Streams
        BY <2>1, OpFields DEF Typed, TypeOK, StreamsOK, Data, Funcs
      <3>2. toDst \in Seq(Ops)
        BY <3>1, OpTypes, ShortAgendas, Zenon
      <3>3. again \in Seq(Ops)
        BY <3>1, OpTypes, ShortAgendas, Zenon
      <3>4. check \in Seq(Ops)
        BY <3>1, OpTypes, ShortAgendas, Zenon
      <3>5. ops \in Seq(Ops)
        BY <3>2, <3>3, <3>4, ShortAgendas, Zenon
      <3>6. Continue(t, ops)
        BY <1>7 DEF Emit
      <3> HIDE DEF ops
      <3> QED  BY <2>1, <3>5, <3>6, ContinueTyped DEF Typed
    <2>3. StreamsOK' /\ QueuesOK' /\ ThreadsOK' /\ HoldsStream'
      BY <1>7 DEF Emit, Return, Continue, Typed, TypeOK, HoldsStream,
             StreamsOK, QueuesOK, ThreadsOK, sharedVars, streamVars, historyVars
    <2>4. HistoryOK'
      BY <1>7, <2>1, OpFields, SeqFacts
      DEF Emit, Typed, TypeOK, HistoryOK, sharedVars, streamVars, historyVars
    <2> QED  BY <2>2, <2>3, <2>4 DEF Typed, TypeOK
  <1>8. CASE DropDst(t)
    <2>1. /\ Head(agenda[t]) \in Ops /\ Head(agenda[t]).op = "dropDst"
          /\ agenda[t] # <<>>
      BY <1>8, TopTyped DEF DropDst, Typed
    <2>2. AgendasOK'
      BY <1>8, <2>1, ReturnTyped DEF DropDst, Typed
    <2>3. QueuesOK' /\ ThreadsOK' /\ HistoryOK' /\ HoldsStream'
      BY <1>8 DEF DropDst, Return, Continue, Typed, TypeOK, HoldsStream,
             QueuesOK, ThreadsOK, HistoryOK, sharedVars, streamVars, historyVars
    <2>4. StreamsOK'
      BY <1>8, <2>1, OpFields, SeqFacts
      DEF DropDst, Typed, TypeOK, StreamsOK, sharedVars, streamVars, historyVars
    <2> QED  BY <2>2, <2>3, <2>4 DEF Typed, TypeOK
  <1>9. CASE EmitRest(t)
    <2>1. /\ Head(agenda[t]) \in Ops /\ Head(agenda[t]).op = "emitRest"
          /\ agenda[t] # <<>>
      BY <1>9, TopTyped DEF EmitRest, Typed
    <2>2. AgendasOK'
      <3> DEFINE o == Head(agenda[t])
                 s == o.s
                 ops == IF o.i > Len(rest[s]) THEN <<>>
                        ELSE <<PushOp(rest[s][o.i], "start", o.d),
                               EmitRestOp(s, o.d, o.i + 1)>>
      <3>1. /\ s \in Streams /\ o.d \in Data /\ "start" \in Funcs
            /\ o.i + 1 \in Nat \ {0}
            /\ rest[s] \in Seq(Streams) /\ o.i \in Nat \ {0}
        BY <2>1, OpFields DEF Typed, TypeOK, StreamsOK, Funcs
      <3>2. ~(o.i > Len(rest[s])) => rest[s][o.i] \in Streams
        BY <3>1, ElementTyped
      <3>3. ops \in Seq(Ops)
        BY <3>1, <3>2, OpTypes, ShortAgendas, Zenon
      <3>4. Continue(t, ops)
        BY <1>9 DEF EmitRest
      <3> HIDE DEF ops
      <3> QED  BY <2>1, <3>3, <3>4, ContinueTyped DEF Typed
    <2>3. StreamsOK' /\ QueuesOK' /\ ThreadsOK' /\ HistoryOK' /\ HoldsStream'
      BY <1>9 DEF EmitRest, Return, Continue, Typed, TypeOK, HoldsStream,
             StreamsOK, QueuesOK, ThreadsOK, HistoryOK, sharedVars, streamVars, historyVars
    <2> QED  BY <2>2, <2>3 DEF Typed, TypeOK
  <1>10. CASE TerminationCheck(t)
    <2>1. /\ Head(agenda[t]) \in Ops /\ Head(agenda[t]).op = "check"
          /\ agenda[t] # <<>>
      BY <1>10, TopTyped DEF TerminationCheck, Typed
    <2>2. AgendasOK'
      <3> DEFINE o == Head(agenda[t])
                 s == o.s
                 ops == IF Unheard(s) \/ ~o.again THEN <<>>
                        ELSE <<PushOp(s, "start", Nil)>>
      <3>1. s \in Streams /\ Nil \in Data /\ "start" \in Funcs
        BY <2>1, OpFields DEF Data, Funcs
      <3>2. ops \in Seq(Ops)
        BY <3>1, OpTypes, ShortAgendas, Zenon
      <3>3. Continue(t, ops)
        BY <1>10 DEF TerminationCheck
      <3> HIDE DEF ops
      <3> QED  BY <2>1, <3>2, <3>3, ContinueTyped DEF Typed
    <2>3. QueuesOK' /\ ThreadsOK' /\ HistoryOK' /\ HoldsStream'
      BY <1>10 DEF TerminationCheck, Return, Continue, Typed, TypeOK, HoldsStream,
             QueuesOK, ThreadsOK, HistoryOK, sharedVars, streamVars, historyVars
    <2>4. StreamsOK'
      BY <1>10, <2>1, OpFields, SeqFacts
      DEF TerminationCheck, Typed, TypeOK, StreamsOK, sharedVars, streamVars, historyVars, Modes
    <2> QED  BY <2>2, <2>3, <2>4 DEF Typed, TypeOK
  <1>11. CASE Close(t)
    <2>1. /\ Head(agenda[t]) \in Ops /\ Head(agenda[t]).op = "close"
          /\ agenda[t] # <<>>
      BY <1>11, TopTyped DEF Close, Typed
    <2>2. AgendasOK'
      <3> DEFINE s == Head(agenda[t]).s
      <3>1. s \in Streams /\ mode[s] \in Modes
        BY <2>1, OpFields DEF Typed, TypeOK, StreamsOK
      <3>2. <<KillOp(s, mode[s])>> \in Seq(Ops)
        BY <3>1, OpTypes, ShortAgendas, Zenon
      <3>3. Return(t) \/ Continue(t, <<KillOp(s, mode[s])>>)
        BY <1>11 DEF Close
      <3> QED  BY <2>1, <3>2, <3>3, ReturnTyped, ContinueTyped DEF Typed
    <2>3. QueuesOK' /\ ThreadsOK' /\ HistoryOK' /\ HoldsStream'
      BY <1>11 DEF Close, Return, Continue, Typed, TypeOK, HoldsStream,
             QueuesOK, ThreadsOK, HistoryOK, sharedVars, streamVars, historyVars
    <2>4. StreamsOK'
      <3>1. refcnt' \in [Streams -> Int]
        <4>1. refcnt' = refcnt
              \/ refcnt' = [refcnt EXCEPT ![Head(agenda[t]).s] = @ - 1]
          BY <1>11, Zenon DEF Close
        <4> QED  BY <4>1 DEF Typed, TypeOK, StreamsOK
      <3> QED  BY <1>11, <3>1 DEF Close, Typed, TypeOK, StreamsOK
    <2> QED  BY <2>2, <2>3, <2>4 DEF Typed, TypeOK
  <1>12. CASE Kill(t)
    <2>1. /\ Head(agenda[t]) \in Ops /\ Head(agenda[t]).op = "kill"
          /\ agenda[t] # <<>>
      BY <1>12, TopTyped DEF Kill, Awaited, Typed
    <2>2. AgendasOK'
      <3> DEFINE s == Head(agenda[t]).s
                 pass == <<CloseDstOp(s), CloseRestOp(s, 1), CountDownOp(s)>>
                 ops == IF CloseFails(kind[s], got[s]) THEN <<>>
                        ELSE CloseFunc(s, kind[s], got[s]) \o pass
      <3>1. /\ s \in Streams /\ 1 \in Nat \ {0}
            /\ kind[s] \in Kinds /\ got[s] \in Seq(Data)
        BY <2>1, OpFields DEF Typed, TypeOK, StreamsOK, HistoryOK
      <3>2. pass \in Seq(Ops)
        BY <3>1, OpTypes, ShortAgendas, Zenon
      <3>3. ops \in Seq(Ops)
        BY <3>1, <3>2, CloseFuncTyped, ShortAgendas, Zenon
      <3>4. Return(t) \/ Continue(t, ops)
        BY <1>12 DEF Kill, Awaited
      <3> HIDE DEF ops
      <3> QED  BY <2>1, <3>3, <3>4, ReturnTyped, ContinueTyped DEF Typed
    <2>3. QueuesOK' /\ ThreadsOK' /\ HoldsStream'
      BY <1>12 DEF Kill, Awaited, Return, Continue, Typed, TypeOK, HoldsStream,
             QueuesOK, ThreadsOK, sharedVars, streamVars, historyVars
    <2>4. StreamsOK'
      BY <1>12, <2>1, OpFields, SeqFacts
      DEF Kill, Awaited, Typed, TypeOK, StreamsOK, sharedVars, streamVars, historyVars, Modes
    <2>5. HistoryOK'
      BY <1>12, <2>1, OpFields, SeqFacts
      DEF Kill, Awaited, Typed, TypeOK, HistoryOK, sharedVars, streamVars, historyVars
    <2> QED  BY <2>2, <2>3, <2>4, <2>5 DEF Typed, TypeOK
  <1>13. CASE CloseDst(t)
    <2>1. /\ Head(agenda[t]) \in Ops /\ Head(agenda[t]).op = "closeDst"
          /\ agenda[t] # <<>>
      BY <1>13, TopTyped DEF CloseDst, Typed
    <2>2. AgendasOK'
      <3> DEFINE o == Head(agenda[t])
                 s == o.s
                 ops == IF dst[s] = NoStream THEN <<>>
                        ELSE <<PushOp(dst[s], "close", Nil)>>
      <3>1. /\ Nil \in Data /\ "close" \in Funcs
            /\ dst[s] # NoStream => dst[s] \in Streams
        BY <2>1, OpFields DEF Typed, TypeOK, StreamsOK, Data, Funcs
      <3>2. ops \in Seq(Ops)
        BY <3>1, OpTypes, ShortAgendas, Zenon
      <3>3. Continue(t, ops)
        BY <1>13 DEF CloseDst
      <3> HIDE DEF ops
      <3> QED  BY <2>1, <3>2, <3>3, ContinueTyped DEF Typed
    <2>3. StreamsOK' /\ QueuesOK' /\ ThreadsOK' /\ HistoryOK' /\ HoldsStream'
      BY <1>13 DEF CloseDst, Return, Continue, Typed, TypeOK, HoldsStream,
             StreamsOK, QueuesOK, ThreadsOK, HistoryOK, sharedVars, streamVars, historyVars
    <2> QED  BY <2>2, <2>3 DEF Typed, TypeOK
  <1>14. CASE CloseRest(t)
    <2>1. /\ Head(agenda[t]) \in Ops /\ Head(agenda[t]).op = "closeRest"
          /\ agenda[t] # <<>>
      BY <1>14, TopTyped DEF CloseRest, Typed
    <2>2. AgendasOK'
      <3> DEFINE o == Head(agenda[t])
                 s == o.s
                 ops == IF o.i > Len(rest[s]) THEN <<>>
                        ELSE <<PushOp(rest[s][o.i], "close", Nil),
                               CloseRestOp(s, o.i + 1)>>
      <3>1. /\ s \in Streams /\ Nil \in Data /\ "close" \in Funcs
            /\ o.i + 1 \in Nat \ {0}
            /\ rest[s] \in Seq(Streams) /\ o.i \in Nat \ {0}
        BY <2>1, OpFields DEF Typed, TypeOK, StreamsOK, Data, Funcs
      <3>2. ~(o.i > Len(rest[s])) => rest[s][o.i] \in Streams
        BY <3>1, ElementTyped
      <3>3. ops \in Seq(Ops)
        BY <3>1, <3>2, OpTypes, ShortAgendas, Zenon
      <3>4. Continue(t, ops)
        BY <1>14 DEF CloseRest
      <3> HIDE DEF ops
      <3> QED  BY <2>1, <3>3, <3>4, ContinueTyped DEF Typed
    <2>3. StreamsOK' /\ QueuesOK' /\ ThreadsOK' /\ HistoryOK' /\ HoldsStream'
      BY <1>14 DEF CloseRest, Return, Continue, Typed, TypeOK, HoldsStream,
             StreamsOK, QueuesOK, ThreadsOK, HistoryOK, sharedVars, streamVars, historyVars
    <2> QED  BY <2>2, <2>3 DEF Typed, TypeOK
  <1>15. CASE CountDown(t)
    <2>1. /\ Head(agenda[t]) \in Ops /\ Head(agenda[t]).op = "countDown"
          /\ agenda[t] # <<>>
      BY <1>15, TopTyped DEF CountDown, Typed
    <2>2. AgendasOK'
      BY <1>15, <2>1, ReturnTyped DEF CountDown, Typed
    <2>3. StreamsOK' /\ ThreadsOK' /\ HistoryOK' /\ HoldsStream'
      BY <1>15 DEF CountDown, Return, Continue, Typed, TypeOK, HoldsStream,
             StreamsOK, ThreadsOK, HistoryOK, sharedVars, streamVars, historyVars
    <2>4. QueuesOK'
      BY <1>15, <2>1, OpFields, SeqFacts
      DEF CountDown, Typed, TypeOK, QueuesOK, sharedVars, streamVars, historyVars
    <2> QED  BY <2>2, <2>3, <2>4 DEF Typed, TypeOK
  <1>16. CASE SeqNext(t)
    <2>1. /\ Head(agenda[t]) \in Ops /\ Head(agenda[t]).op = "seqNext"
          /\ agenda[t] # <<>>
      BY <1>16, TopTyped DEF SeqNext, Typed
    <2>2. AgendasOK'
      BY <1>16, <2>1, ReturnTyped DEF SeqNext, Typed
    <2>3. QueuesOK' /\ ThreadsOK' /\ HistoryOK' /\ HoldsStream'
      BY <1>16 DEF SeqNext, Return, Continue, Typed, TypeOK, HoldsStream,
             QueuesOK, ThreadsOK, HistoryOK, sharedVars, streamVars, historyVars
    <2>4. StreamsOK'
      BY <1>16, <2>1, OpFields, SeqFacts
      DEF SeqNext, Typed, TypeOK, StreamsOK, sharedVars, streamVars, historyVars
    <2> QED  BY <2>2, <2>3, <2>4 DEF Typed, TypeOK
  <1>17. CASE TakeNext(t)
    <2>1. /\ Head(agenda[t]) \in Ops /\ Head(agenda[t]).op = "takeNext"
          /\ agenda[t] # <<>>
      BY <1>17, TopTyped DEF TakeNext, Typed
    <2>2. AgendasOK'
      <3> DEFINE o == Head(agenda[t])
                 s == o.s
                 ops == IF n[s] = 1 THEN <<CloseOp(s)>> ELSE <<>>
      <3>1. s \in Streams
        BY <2>1, OpFields
      <3>2. ops \in Seq(Ops)
        BY <3>1, OpTypes, ShortAgendas, Zenon
      <3>3. Continue(t, ops)
        BY <1>17 DEF TakeNext
      <3> HIDE DEF ops
      <3> QED  BY <2>1, <3>2, <3>3, ContinueTyped DEF Typed
    <2>3. QueuesOK' /\ ThreadsOK' /\ HistoryOK' /\ HoldsStream'
      BY <1>17 DEF TakeNext, Return, Continue, Typed, TypeOK, HoldsStream,
             QueuesOK, ThreadsOK, HistoryOK, sharedVars, streamVars, historyVars
    <2>4. StreamsOK'
      BY <1>17, <2>1, OpFields, SeqFacts
      DEF TakeNext, Typed, TypeOK, StreamsOK, sharedVars, streamVars, historyVars
    <2> QED  BY <2>2, <2>3, <2>4 DEF Typed, TypeOK
  <1>18. CASE After(t)
    <2>1. /\ Head(agenda[t]) \in Ops /\ Head(agenda[t]).op = "after"
          /\ agenda[t] # <<>>
      BY <1>18, TopTyped DEF After, Typed
    <2>2. AgendasOK'
      <3> DEFINE o == Head(agenda[t])
                 s == o.s
                 ops == IF mode[s] = "dying" THEN <<CloseOp(s)>> ELSE <<>>
      <3>1. s \in Streams
        BY <2>1, OpFields
      <3>2. ops \in Seq(Ops)
        BY <3>1, OpTypes, ShortAgendas, Zenon
      <3>3. Continue(t, ops)
        BY <1>18 DEF After
      <3> HIDE DEF ops
      <3> QED  BY <2>1, <3>2, <3>3, ContinueTyped DEF Typed
    <2>3. StreamsOK' /\ QueuesOK' /\ ThreadsOK' /\ HistoryOK' /\ HoldsStream'
      BY <1>18 DEF After, Return, Continue, Typed, TypeOK, HoldsStream,
             StreamsOK, QueuesOK, ThreadsOK, HistoryOK, sharedVars, streamVars, historyVars
    <2> QED  BY <2>2, <2>3 DEF Typed, TypeOK
  <1>19. CASE Start(t)
    <2> DEFINE s == Head(agenda[t]).s
               ops == IF mode[s] = "producer" THEN <<PushOp(s, "start", Nil)>>
                      ELSE <<>>
    <2>1. /\ Head(agenda[t]) \in Ops /\ agenda[t] # <<>>
      BY <1>19, TopTyped DEF Start, Typed
    <2>2. AgendasOK'
      <3>1. s \in Streams /\ Nil \in Data /\ "start" \in Funcs
        BY <2>1, OpFields DEF Data, Funcs
      <3>2. ops \in Seq(Ops)
        BY <3>1, OpTypes, ShortAgendas, Zenon
      <3>3. ops \o Tail(agenda[t]) \in Seq(Ops)
        BY <2>1, <3>2 DEF Typed, TypeOK, AgendasOK
      <3>4. agenda' = [agenda EXCEPT ![t] = ops \o Tail(@)]
        BY <1>19, Zenon DEF Start
      <3> HIDE DEF ops
      <3> QED  BY <3>3, <3>4 DEF Typed, TypeOK, AgendasOK
    <2>3. StreamsOK' /\ HistoryOK' /\ QueuesOK'
      BY <1>19 DEF Start, TaskInit, Typed, TypeOK, StreamsOK, HistoryOK, QueuesOK,
                   streamVars, historyVars
    <2>4. ThreadsOK' /\ HoldsStream'
      BY <1>19 DEF Start, TaskInit, Typed, TypeOK, ThreadsOK, HoldsStream, Labels, Threads
    <2> QED  BY <2>2, <2>3, <2>4 DEF Typed, TypeOK
  <1> QED
    BY <1>1, <1>2, <1>3, <1>4, <1>5, <1>6, <1>7, <1>8, <1>9, <1>10, <1>11, <1>12,
       <1>13, <1>14, <1>15, <1>16, <1>17, <1>18, <1>19 DEF Step

\* Every step of task_loop keeps the types, and a worker that holds a stream holds one.
LEMMA LoopTyped ==
  ASSUME Typed, NEW w \in Workers, Loop(w)
  PROVE  Typed'
  <1> USE DEF Typed, TypeOK
  <1>w. w \in Threads /\ Workers \subseteq Threads
    BY DEF Threads
  <1>1. CASE GetStream(w)
    <2>1. queue # <<>> => Head(queue) \in Streams /\ Tail(queue) \in Seq(Streams)
      BY SeqFacts DEF QueuesOK
    <2>2. StreamsOK' /\ AgendasOK' /\ HistoryOK'
      BY <1>1 DEF GetStream, StreamsOK, AgendasOK, HistoryOK, streamVars, historyVars
    <2>3. QueuesOK'
      BY <1>1, <2>1 DEF GetStream, QueuesOK, streamVars
    <2>4. ThreadsOK' /\ HoldsStream'
      <3>1. CASE queue = <<>>
        BY <1>1, <1>w, <3>1 DEF GetStream, GoTo, HoldsStream, ThreadsOK, Labels
      <3>2. CASE queue # <<>>
        BY <1>1, <1>w, <2>1, <3>2 DEF GetStream, GoTo, HoldsStream, ThreadsOK, Labels
      <3> QED  BY <3>1, <3>2
    <2> QED  BY <2>2, <2>3, <2>4
  <1>2. CASE GetProducer(w)
    <2>1. prodQueue # <<>> =>
            Head(prodQueue) \in Streams /\ Tail(prodQueue) \in Seq(Streams)
      BY SeqFacts DEF QueuesOK
    <2>2. StreamsOK' /\ AgendasOK' /\ HistoryOK'
      BY <1>2 DEF GetProducer, StreamsOK, AgendasOK, HistoryOK, streamVars, historyVars
    <2>3. QueuesOK'
      BY <1>2, <2>1 DEF GetProducer, QueuesOK, streamVars
    <2>4. ThreadsOK' /\ HoldsStream'
      <3>1. CASE prodQueue = <<>>
        BY <1>2, <1>w, <3>1 DEF GetProducer, GoTo, HoldsStream, ThreadsOK, Labels
      <3>2. CASE prodQueue # <<>>
        BY <1>2, <1>w, <2>1, <3>2 DEF GetProducer, GoTo, HoldsStream, ThreadsOK, Labels
      <3> QED  BY <3>1, <3>2
    <2> QED  BY <2>2, <2>3, <2>4
  <1>3. CASE Claim(w)
    <2>1. StreamsOK' /\ AgendasOK' /\ HistoryOK' /\ QueuesOK'
      BY <1>3 DEF Claim, Free, StreamsOK, AgendasOK, HistoryOK, QueuesOK, sharedVars,
                  historyVars
    <2>2. ThreadsOK' /\ HoldsStream'
      <3>1. CASE excl[cur[w]] = 0
        BY <1>3, <1>w, <3>1 DEF Claim, Free, GoTo, HoldsStream, ThreadsOK, Labels
      <3>2. CASE excl[cur[w]] # 0
        BY <1>3, <1>w, <3>2 DEF Claim, Free, GoTo, HoldsStream, ThreadsOK, Labels
      <3> QED  BY <3>1, <3>2
    <2> QED  BY <2>1, <2>2
  <1>4. CASE Drain(w)
    <2> DEFINE s == cur[w]
               task == Head(tasks[s])
               call == IF task.f = "close" THEN <<CloseOp(s)>>
                       ELSE StartFunc(s, kind[s], n[s], limit[s], task.d)
    <2>1. /\ s \in Streams /\ tasks[s] \in Seq(Tasks) /\ tasks[s] # <<>>
          /\ kind[s] \in Kinds /\ n[s] \in Int /\ limit[s] \in Nat
      BY <1>4 DEF Drain, Discards, HoldsStream, QueuesOK, StreamsOK
    <2>2. task \in Tasks /\ Tail(tasks[s]) \in Seq(Tasks)
      BY <2>1, SeqFacts
    <2>3. task.d \in Data
      BY <2>2 DEF Tasks
    <2>4. call \in Seq(Ops)
      BY <2>1, <2>3, OpTypes, StartFuncTyped, ShortAgendas, Zenon
    <2>5. call \o <<AfterOp(s)>> \in Seq(Ops)
      BY <2>1, <2>4, OpTypes, ShortAgendas, Zenon
    <2>6. AgendasOK'
      <3>1. agenda' = agenda \/ agenda' = [agenda EXCEPT ![w] = call \o <<AfterOp(s)>>]
        BY <1>4, Zenon DEF Drain, Discards
      <3> HIDE DEF call
      <3> QED  BY <2>5, <3>1 DEF AgendasOK
    <2>7. HistoryOK'
      <3>1. got' = got \/ got' = [got EXCEPT ![s] = Append(@, task.d)]
        <4>1. got' = got \/ got' = [got EXCEPT ![s] = IF task.f = "start" /\ task.d # Nil
                                                     THEN Append(@, task.d) ELSE @]
          BY <1>4, Zenon DEF Drain, Discards
        <4> QED  BY <4>1 DEF HistoryOK
      <3>2. Append(got[s], task.d) \in Seq(Data)
        BY <2>1, <2>3, SeqFacts DEF HistoryOK
      <3>3. got' \in [Streams -> Seq(Data)]
        BY <3>1, <3>2 DEF HistoryOK
      <3> QED  BY <1>4, <3>3 DEF Drain, Discards, HistoryOK
    <2>8. QueuesOK'
      BY <1>4, <2>2 DEF Drain, Discards, QueuesOK, sharedVars
    <2>9. StreamsOK'
      BY <1>4 DEF Drain, Discards, StreamsOK
    <2>10. ThreadsOK' /\ HoldsStream'
      <3>1. (pc' = pc \/ pc' = [pc EXCEPT ![w] = "run"]) /\ cur' = cur
        BY <1>4, Zenon DEF Drain, Discards, GoTo
      <3> QED  BY <1>w, <2>1, <3>1 DEF ThreadsOK, HoldsStream, Labels
    <2> QED  BY <2>6, <2>7, <2>8, <2>9, <2>10
  <1>5. CASE TaskDone(w)
    <2>1. StreamsOK' /\ AgendasOK' /\ HistoryOK' /\ QueuesOK'
      BY <1>5 DEF TaskDone, StreamsOK, AgendasOK, HistoryOK, QueuesOK, sharedVars,
                  streamVars, historyVars
    <2>2. ThreadsOK' /\ HoldsStream'
      BY <1>5, <1>w DEF TaskDone, GoTo, HoldsStream, ThreadsOK, Labels
    <2> QED  BY <2>1, <2>2
  <1>6. CASE Drained(w)
    <2>1. StreamsOK' /\ AgendasOK' /\ HistoryOK' /\ QueuesOK'
      BY <1>6 DEF Drained, StreamsOK, AgendasOK, HistoryOK, QueuesOK, sharedVars,
                  streamVars, historyVars
    <2>2. ThreadsOK' /\ HoldsStream'
      BY <1>6, <1>w DEF Drained, GoTo, HoldsStream, ThreadsOK, Labels
    <2> QED  BY <2>1, <2>2
  <1>7. CASE Release(w)
    <2>1. StreamsOK' /\ AgendasOK' /\ HistoryOK' /\ QueuesOK'
      BY <1>7 DEF Release, StreamsOK, AgendasOK, HistoryOK, QueuesOK, sharedVars,
                  historyVars
    <2>2. ThreadsOK' /\ HoldsStream'
      BY <1>7, <1>w DEF Release, GoTo, HoldsStream, ThreadsOK, Labels
    <2> QED  BY <2>1, <2>2
  <1>8. CASE CheckCount(w)
    <2>1. StreamsOK' /\ AgendasOK' /\ HistoryOK' /\ QueuesOK'
      BY <1>8 DEF CheckCount, StreamsOK, AgendasOK, HistoryOK, QueuesOK, sharedVars,
                  streamVars, historyVars
    <2>2. ThreadsOK' /\ HoldsStream'
      BY <1>8, <1>w DEF CheckCount, GoTo, HoldsStream, ThreadsOK, Labels
    <2> QED  BY <2>1, <2>2
  <1> QED
    BY <1>1, <1>2, <1>3, <1>4, <1>5, <1>6, <1>7, <1>8 DEF Loop

\* So do the two steps of strm_loop.
LEMMA MainTyped ==
  ASSUME Typed, EnterLoop \/ LeaveLoop
  PROVE  Typed'
  <1>1. Main \in Threads /\ Workers \subseteq Threads
    BY DEF Threads
  <1> QED
    BY <1>1, SchedulerAssumption
    DEF EnterLoop, LeaveLoop, GoTo, Typed, TypeOK, HoldsStream, StreamsOK, QueuesOK,
        ThreadsOK, AgendasOK, HistoryOK, Labels, sharedVars, streamVars, historyVars

\* The types hold before the program.
LEMMA InitTyped == Init => Typed
  <1> SUFFICES ASSUME Init PROVE Typed
    OBVIOUS
  <1>1. Scripts \subseteq Seq(Ops)
    BY SchedulerAssumption, SeqMonotonic DEF ScriptOps
  <1>2. AgendasOK
    BY <1>1, ShortAgendas DEF Init, AgendasOK
  <1>3. StreamsOK
    BY NullAssumption DEF Init, StreamsOK, Kinds, Modes
  <1>4. QueuesOK /\ HistoryOK
    <2>1. <<>> \in Seq(Tasks) /\ <<>> \in Seq(Streams) /\ <<>> \in Seq(Data)
      OBVIOUS
    <2>2. QueuesOK
      <3>1. tasks \in [Streams -> Seq(Tasks)]
        BY <2>1, Zenon DEF Init
      <3>2. queue \in Seq(Streams) /\ prodQueue \in Seq(Streams)
        BY <2>1 DEF Init
      <3>3. streamCount \in Int
        BY DEF Init
      <3>4. started \in BOOLEAN
        BY Zenon DEF Init
      <3> QED  BY <3>1, <3>2, <3>3, <3>4 DEF QueuesOK
    <2>3. HistoryOK
      BY <2>1 DEF Init, HistoryOK
    <2> QED  BY <2>2, <2>3
  <1>5. ThreadsOK /\ HoldsStream
    BY SchedulerAssumption DEF Init, ThreadsOK, HoldsStream, Labels, Threads
  <1> QED  BY <1>2, <1>3, <1>4, <1>5 DEF Typed, TypeOK

\* ... and each step keeps them.
LEMMA NextTyped == Typed /\ [Next]_vars => Typed'
  <1> SUFFICES ASSUME Typed, [Next]_vars PROVE Typed'
    OBVIOUS
  <1>1. Main \in Threads /\ Workers \subseteq Threads
    BY DEF Threads
  <1>2. CASE UNCHANGED vars
    BY <1>2 DEF vars, sharedVars, streamVars, threadVars, historyVars, Typed, TypeOK,
       HoldsStream, StreamsOK, QueuesOK, ThreadsOK, AgendasOK, HistoryOK
  <1>3. CASE MainStep
    BY <1>1, <1>3, StepTyped, MainTyped DEF MainStep
  <1>4. CASE \E w \in Workers : WorkerStep(w)
    BY <1>1, <1>4, StepTyped, LoopTyped DEF WorkerStep
  <1> QED  BY <1>2, <1>3, <1>4 DEF Next, Ended

\* Every variable keeps its type, and a worker inside the branch of task_loop
\* that runs tasks always has a stream to run them of.
THEOREM TypeCorrect == Spec => []TypeOK
  <1>1. Spec => []Typed
    BY InitTyped, NextTyped, PTL DEF Spec
  <1>2. Typed => TypeOK
    BY DEF Typed
  <1> QED  BY <1>1, <1>2, PTL

-----------------------------------------------------------------------------
(* Mutual exclusion.                                                       *)

\* The strengthening that is inductive: who executes a stream has set its
\* excl flag, so a claim that succeeds finds nobody in the stream.
Flagged == \A w \in Workers : Executing(w) => excl[cur[w]] = 1

ExclusiveInv == Typed /\ Flagged /\ Exclusive

\* The flags exclude: no step lets a second worker in.
LEMMA ExclusiveStep == ExclusiveInv /\ [Next]_vars => ExclusiveInv'
  <1> SUFFICES ASSUME ExclusiveInv, [Next]_vars PROVE Flagged' /\ Exclusive'
    BY NextTyped DEF ExclusiveInv
  <1>t. /\ Main \in Threads /\ Workers \subseteq Threads
        /\ pc \in [Threads -> Labels] /\ cur \in [Workers -> Streams \union {NoStream}]
        /\ excl \in [Streams -> {0, 1}]
    BY DEF Threads, ExclusiveInv, Typed, TypeOK, ThreadsOK, StreamsOK
  <1>i. Flagged /\ Exclusive /\ HoldsStream
    BY DEF ExclusiveInv, Typed
  <1>1. CASE UNCHANGED vars
    BY <1>1, <1>i DEF vars, streamVars, threadVars, Flagged, Exclusive, Executing
  <1>2. ASSUME NEW t \in Threads, Step(t)
        PROVE  Flagged' /\ Exclusive'
    <2>1. excl' = excl /\ cur' = cur
      BY <1>2 DEF Step, StreamNew, Connect, Ref, Start, Push, TaskAdd, AddTask, AddStream, Emit,
         DropDst, EmitRest, TerminationCheck, Close, Kill, CloseDst, CloseRest,
         CountDown, SeqNext, TakeNext, After, Return, Continue, streamVars
    <2>2. \A w \in Workers : Executing(w)' => Executing(w)
      <3>1. CASE Start(t)
        BY <1>t, <3>1 DEF Start, TaskInit, Executing
      <3>2. CASE ~Start(t)
        <4>1. pc' = pc
          BY <1>2, <3>2 DEF Step, StreamNew, Connect, Ref, Push, TaskAdd, AddTask, AddStream,
             Emit, DropDst, EmitRest, TerminationCheck, Close, Kill, CloseDst,
             CloseRest, CountDown, SeqNext, TakeNext, After, Return, Continue
        <4> QED  BY <4>1 DEF Executing
      <3> QED  BY <3>1, <3>2
    <2> QED  BY <1>i, <2>1, <2>2 DEF Flagged, Exclusive
  <1>3. ASSUME NEW w \in Workers, Loop(w)
        PROVE  Flagged' /\ Exclusive'
    <2>1. CASE Claim(w)
      <3>1. cur[w] \in Streams
        BY <1>i, <2>1 DEF HoldsStream, Claim, Free
      <3>2. CASE excl[cur[w]] = 0
        <4>1. cur' = cur /\ excl' = [excl EXCEPT ![cur[w]] = 1]
          BY <2>1, <3>2 DEF Claim, Free
        <4>2. \A v \in Workers : v # w => Executing(v)' = Executing(v)
          BY <1>t, <2>1, <3>2 DEF Claim, Free, GoTo, Executing
        <4>3. \A v \in Workers : Executing(v) => cur[v] # cur[w] /\ cur[v] \in Streams
          BY <1>t, <1>i, <3>2 DEF Flagged, HoldsStream, Executing
        <4>4. excl'[cur[w]] = 1
          BY <1>t, <3>1, <4>1
        <4>5. \A v \in Workers : v # w /\ Executing(v) => excl'[cur[v]] = 1
          BY <1>t, <1>i, <4>1, <4>3 DEF Flagged
        <4>6. Flagged'
          BY <4>1, <4>2, <4>4, <4>5 DEF Flagged
        <4>7. Exclusive'
          BY <1>i, <4>1, <4>2, <4>3 DEF Exclusive
        <4> QED  BY <4>6, <4>7
      <3>3. CASE excl[cur[w]] # 0
        BY <1>t, <1>i, <2>1, <3>1, <3>3
        DEF Claim, Free, GoTo, Flagged, Exclusive, Executing
      <3> QED  BY <3>2, <3>3
    <2>2. CASE Release(w)
      <3>1. \A v \in Workers : Executing(v)' => v # w /\ Executing(v) /\ cur'[v] = cur[v]
        BY <1>t, <2>2 DEF Release, GoTo, Executing
      <3>2. \A v \in Workers : v # w /\ Executing(v) => excl'[cur[v]] = excl[cur[v]]
        BY <1>t, <1>i, <2>2 DEF Release, Exclusive, Executing, HoldsStream
      <3> QED  BY <1>i, <3>1, <3>2 DEF Flagged, Exclusive
    <2>3. CASE GetStream(w) \/ GetProducer(w)
      <3>1. excl' = excl /\ ~Executing(w)' /\ ~Executing(w)
        BY <1>t, <2>3 DEF GetStream, GetProducer, GoTo, Executing, streamVars
      <3>2. \A v \in Workers : v # w => cur'[v] = cur[v] /\ Executing(v)' = Executing(v)
        BY <1>t, <2>3 DEF GetStream, GetProducer, GoTo, Executing
      <3> QED  BY <1>i, <3>1, <3>2 DEF Flagged, Exclusive
    <2>4. CASE Drain(w) \/ TaskDone(w) \/ Drained(w) \/ CheckCount(w)
      <3>1. excl' = excl /\ cur' = cur
        BY <2>4 DEF Drain, Discards, TaskDone, Drained, CheckCount, streamVars
      <3>2. \A v \in Workers : Executing(v)' => Executing(v)
        BY <1>t, <2>4 DEF Drain, Discards, TaskDone, Drained, CheckCount, GoTo, Executing
      <3> QED  BY <1>i, <3>1, <3>2 DEF Flagged, Exclusive
    <2> QED  BY <1>3, <2>1, <2>2, <2>3, <2>4 DEF Loop
  <1>4. CASE EnterLoop \/ LeaveLoop
    <2>1. excl' = excl /\ cur' = cur
      BY <1>4 DEF EnterLoop, LeaveLoop, streamVars
    <2>2. \A w \in Workers : Executing(w)' => Executing(w)
      BY <1>t, <1>4, SchedulerAssumption DEF EnterLoop, LeaveLoop, GoTo, Executing
    <2> QED  BY <1>i, <2>1, <2>2 DEF Flagged, Exclusive
  <1> QED
    BY <1>t, <1>1, <1>2, <1>3, <1>4 DEF Next, MainStep, WorkerStep, Ended

\* However many workers there are and whatever the program connects, no two
\* workers execute tasks of the same stream at the same time.
THEOREM MutualExclusion == Spec => []Exclusive
  <1>1. Init => ExclusiveInv
    BY InitTyped, SchedulerAssumption
    DEF Init, ExclusiveInv, Flagged, Exclusive, Executing, Threads
  <1>2. ExclusiveInv => Exclusive
    BY DEF ExclusiveInv
  <1> QED  BY <1>1, <1>2, ExclusiveStep, PTL DEF Spec
-----------------------------------------------------------------------------
(* With one worker nothing is stranded.                                    *)

\* The steps other than the addition of a task to a stream's queue.
PlainOps == {o \in Ops : o.op # "addTask"}

\* An addition is only ever the next step of a thread, and the one after it
\* queues the same stream.
Complete(q) == \/ q \in Seq(PlainOps)
               \/ /\ q # <<>> /\ Head(q).op = "addTask"
                  /\ Tail(q) \in Seq(PlainOps) /\ Tail(q) # <<>>
                  /\ Head(Tail(q)) = AddStreamOp(Head(q).s)

AddsComplete == \A t \in Threads : Complete(agenda[t])

\* Only a worker that executes a stream has something to do.
IdleAgendas == \A w \in Workers : pc[w] # "run" => agenda[w] = <<>>

NotBorn == ~started => \A w \in Workers : pc[w] = "unborn"

\* Whoever set the flag is still in the stream.
FlagHeld == \A s \in Streams : excl[s] = 1 =>
              \E w \in Workers : Executing(w) /\ cur[w] = s

NothingLost == /\ Typed /\ AddsComplete /\ IdleAgendas /\ NotBorn /\ FlagHeld
               /\ NoStranded

OneWorker == \A v, w \in Workers : v = w

\* Short sequences of plain steps.
LEMMA ShortPlain ==
  /\ <<>> \in Seq(PlainOps)
  /\ \A o \in PlainOps : <<o>> \in Seq(PlainOps)
  /\ \A o, p \in PlainOps : <<o, p>> \in Seq(PlainOps)
  /\ \A o, p, q \in PlainOps : <<o, p, q>> \in Seq(PlainOps)
  /\ \A q, r \in Seq(PlainOps) : q \o r \in Seq(PlainOps)
  OBVIOUS

\* Every step but addTask is plain.
LEMMA PlainTypes ==
  /\ \A s \in Streams :
       /\ RefOp(s) \in PlainOps /\ StartOp(s) \in PlainOps
       /\ DropDstOp(s) \in PlainOps /\ AddStreamOp(s) \in PlainOps
       /\ CloseOp(s) \in PlainOps /\ CloseDstOp(s) \in PlainOps
       /\ CountDownOp(s) \in PlainOps /\ SeqNextOp(s) \in PlainOps
       /\ TakeNextOp(s) \in PlainOps /\ AfterOp(s) \in PlainOps
  /\ \A s \in Streams, d \in Data, b \in BOOLEAN : EmitOp(s, d, b) \in PlainOps
  /\ \A s \in Streams, b \in BOOLEAN : CheckOp(s, b) \in PlainOps
  /\ \A s \in Streams, d \in Data, i \in Nat \ {0} : EmitRestOp(s, d, i) \in PlainOps
  /\ \A s \in Streams, i \in Nat \ {0} : CloseRestOp(s, i) \in PlainOps
  /\ \A s \in Streams, f \in Funcs, d \in Data : PushOp(s, f, d) \in PlainOps
  /\ \A s \in Streams, m \in Modes : KillOp(s, m) \in PlainOps
  BY DEF PlainOps, Ops, StreamOps, RefOp, StartOp, DropDstOp, AddStreamOp, CloseOp,
         CloseDstOp, CountDownOp, SeqNextOp, TakeNextOp, AfterOp, EmitOp, CheckOp,
         EmitRestOp, CloseRestOp, PushOp, KillOp

\* A callback leaves plain steps to do.
LEMMA StartFuncPlain ==
  ASSUME NEW s \in Streams, NEW k \in Kinds, NEW num \in Int, NEW lim \in Nat,
         NEW d \in Data
  PROVE  StartFunc(s, k, num, lim, d) \in Seq(PlainOps)
  <1>1. <<s, num>> \in Data /\ Nil \in Data
    BY DEF Data, Elements
  <1>2. /\ CloseOp(s) \in PlainOps /\ SeqNextOp(s) \in PlainOps
        /\ TakeNextOp(s) \in PlainOps
        /\ EmitOp(s, <<s, num>>, TRUE) \in PlainOps
        /\ EmitOp(s, Nil, FALSE) \in PlainOps /\ EmitOp(s, d, FALSE) \in PlainOps
    BY <1>1, PlainTypes
  <1>3. /\ GenSeq(s, num, lim) \in Seq(PlainOps) /\ IterTake(s, d) \in Seq(PlainOps)
        /\ <<EmitOp(s, d, FALSE)>> \in Seq(PlainOps) /\ <<>> \in Seq(PlainOps)
        /\ <<EmitOp(s, Nil, FALSE)>> \in Seq(PlainOps)
    BY <1>2, ShortPlain, Zenon DEF GenSeq, IterTake
  <1> QED  BY <1>3, Zenon DEF StartFunc

\* ... and so does a closing function.
LEMMA CloseFuncPlain ==
  ASSUME NEW s \in Streams, NEW k \in Kinds, NEW q \in Seq(Data),
         ~CloseFails(k, q)
  PROVE  CloseFunc(s, k, q) \in Seq(PlainOps)
  <1> DEFINE ops == [i \in 1..Len(q) |-> EmitOp(s, q[i], FALSE)]
  <1>1. \A d \in Data : EmitOp(s, d, FALSE) \in PlainOps
    BY PlainTypes
  <1>2. Len(q) \in Nat /\ \A i \in 1..Len(q) : q[i] \in Data
    OBVIOUS
  <1>3. ops \in [1..Len(q) -> PlainOps]
    BY <1>1, <1>2, Zenon
  <1>4. ops \in Seq(PlainOps)
    BY <1>2, <1>3, SeqDef
  <1>5. CASE k = "reduce"
    <2>1. Len(q) # 0
      BY <1>5 DEF CloseFails
    <2>2. q[1] \in Data
      BY <1>2, <2>1
    <2>3. CloseFunc(s, k, q) = <<EmitOp(s, q[1], FALSE)>>
      BY <1>5, Zenon DEF CloseFunc
    <2> QED  BY <1>1, <2>2, <2>3, ShortPlain, Zenon
  <1>6. CASE k # "reduce"
    <2>1. CloseFunc(s, k, q) = ops \/ CloseFunc(s, k, q) = <<>>
      BY <1>6, Zenon DEF CloseFunc
    <2> HIDE DEF ops
    <2> QED  BY <1>4, <2>1, ShortPlain
  <1> QED  BY <1>5, <1>6

\* What a step of thread t leaves on its agenda in front of the rest.
Replaces(t, ops) == agenda' = [agenda EXCEPT ![t] = ops \o Tail(@)]

\* What follows the next step is plain.
LEMMA PlainTail ==
  ASSUME Typed, AddsComplete, NEW t \in Threads, agenda[t] # <<>>
  PROVE  Tail(agenda[t]) \in Seq(PlainOps)
  BY SeqFacts DEF AddsComplete, Complete

\* Replacing the next step by plain ones keeps the agendas complete.
LEMMA ReplaceComplete ==
  ASSUME Typed, AddsComplete, NEW t \in Threads, agenda[t] # <<>>,
         NEW ops \in Seq(PlainOps), Replaces(t, ops)
  PROVE  AddsComplete'
  <1>1. ops \o Tail(agenda[t]) \in Seq(PlainOps)
    BY PlainTail, ShortPlain
  <1>2. agenda'[t] \in Seq(PlainOps) /\ \A u \in Threads : u # t => agenda'[u] = agenda[u]
    BY <1>1 DEF Replaces, Typed, TypeOK, AgendasOK
  <1> QED  BY <1>2 DEF AddsComplete, Complete

\* Every step but strm_task_push replaces the next step by plain ones.
LEMMA StepPlain ==
  ASSUME Typed, NEW t \in Threads, Step(t), ~Push(t)
  PROVE  \E ops \in Seq(PlainOps) : Replaces(t, ops)
  <1> DEFINE o == Head(agenda[t])
             s == o.s
  <1>c. CASE \/ StreamNew(t) \/ Ref(t) \/ AddTask(t) \/ AddStream(t) \/ DropDst(t)
             \/ CountDown(t) \/ SeqNext(t)
    <2>1. Replaces(t, <<>>)
      BY <1>c DEF StreamNew, Ref, AddTask, AddStream, DropDst, CountDown, SeqNext,
         Return, Continue, Replaces
    <2> QED  BY <2>1, ShortPlain
  <1>1. CASE Connect(t)
    <2>1. o \in Ops /\ o.op = "connect" /\ agenda[t] # <<>>
      BY <1>1, TopTyped DEF Connect, Typed
    <2> DEFINE ops == <<RefOp(o.dst), StartOp(s)>>
    <2>2. s \in Streams /\ o.dst \in Streams
      BY <2>1, OpFields
    <2>3. ops \in Seq(PlainOps)
      BY <2>2, PlainTypes, ShortPlain, Zenon
    <2>4. Replaces(t, ops)
      BY <1>1, Zenon DEF Connect, Return, Continue, Replaces
    <2> HIDE DEF ops
    <2> QED  BY <2>3, <2>4
  <1>2. CASE Start(t)
    <2>1. o \in Ops /\ o.op = "start" /\ agenda[t] # <<>>
      BY <1>2, TopTyped DEF Start, Typed
    <2> DEFINE ops == IF mode[s] = "producer" THEN <<PushOp(s, "start", Nil)>> ELSE <<>>
    <2>2. s \in Streams /\ "start" \in Funcs /\ Nil \in Data
      BY <2>1, OpFields DEF Funcs, Data
    <2>3. ops \in Seq(PlainOps)
      BY <2>2, PlainTypes, ShortPlain, Zenon
    <2>4. Replaces(t, ops)
      BY <1>2, Zenon DEF Start, Return, Continue, Replaces
    <2> HIDE DEF ops
    <2> QED  BY <2>3, <2>4
  <1>3. CASE Emit(t)
    <2>1. o \in Ops /\ o.op = "emit" /\ agenda[t] # <<>>
      BY <1>3, TopTyped DEF Emit, Typed
    <2> DEFINE toDst == IF dst[s] = NoStream THEN <<>>
                        ELSE <<PushOp(dst[s], "start", o.d), DropDstOp(s)>>
               again == IF o.again THEN <<PushOp(s, "start", Nil)>> ELSE <<>>
               check == <<EmitRestOp(s, o.d, 1), CheckOp(s, o.again)>>
               ops == IF mode[s] = "dying" THEN <<>>
                      ELSE IF o.d = Nil THEN again ELSE toDst \o check
    <2>2. /\ s \in Streams /\ o.d \in Data /\ o.again \in BOOLEAN /\ Nil \in Data
          /\ "start" \in Funcs /\ 1 \in Nat \ {0}
      BY <2>1, OpFields DEF Funcs, Data
    <2>3. dst[s] # NoStream => dst[s] \in Streams
      BY <2>2 DEF Typed, TypeOK, StreamsOK
    <2>4. toDst \in Seq(PlainOps) /\ again \in Seq(PlainOps) /\ check \in Seq(PlainOps)
      BY <2>2, <2>3, PlainTypes, ShortPlain, Zenon
    <2>5. Replaces(t, ops)
      BY <1>3, Zenon DEF Emit, Continue, Replaces
    <2> HIDE DEF toDst, again, check
    <2>6. ops \in Seq(PlainOps)
      BY <2>4, ShortPlain, Zenon
    <2> QED  BY <2>5, <2>6
  <1>4. CASE EmitRest(t)
    <2>1. o \in Ops /\ o.op = "emitRest" /\ agenda[t] # <<>>
      BY <1>4, TopTyped DEF EmitRest, Typed
    <2> DEFINE ops == IF o.i > Len(rest[s]) THEN <<>>
                      ELSE <<PushOp(rest[s][o.i], "start", o.d), EmitRestOp(s, o.d, o.i + 1)>>
    <2>2. /\ s \in Streams /\ o.i \in Nat \ {0} /\ o.i + 1 \in Nat \ {0} /\ o.d \in Data
          /\ "start" \in Funcs /\ rest[s] \in Seq(Streams)
      BY <2>1, OpFields DEF Funcs, Data, Typed, TypeOK, StreamsOK
    <2>3. ~(o.i > Len(rest[s])) => rest[s][o.i] \in Streams
      BY <2>2, ElementTyped
    <2>4. ops \in Seq(PlainOps)
      BY <2>2, <2>3, PlainTypes, ShortPlain, Zenon
    <2>5. Replaces(t, ops)
      BY <1>4, Zenon DEF EmitRest, Continue, Replaces
    <2> HIDE DEF ops
    <2> QED  BY <2>4, <2>5
  <1>5. CASE TerminationCheck(t)
    <2>1. o \in Ops /\ o.op = "check" /\ agenda[t] # <<>>
      BY <1>5, TopTyped DEF TerminationCheck, Typed
    <2> DEFINE ops == IF Unheard(s) \/ ~o.again THEN <<>> ELSE <<PushOp(s, "start", Nil)>>
    <2>2. s \in Streams /\ "start" \in Funcs /\ Nil \in Data
      BY <2>1, OpFields DEF Funcs, Data
    <2>3. ops \in Seq(PlainOps)
      BY <2>2, PlainTypes, ShortPlain, Zenon
    <2>4. Replaces(t, ops)
      BY <1>5, Zenon DEF TerminationCheck, Return, Continue, Replaces
    <2> HIDE DEF ops
    <2> QED  BY <2>3, <2>4
  <1>6. CASE Close(t)
    <2>1. o \in Ops /\ o.op = "close" /\ agenda[t] # <<>>
      BY <1>6, TopTyped DEF Close, Typed
    <2> DEFINE ops == IF mode[s] = "killed" THEN <<>> ELSE <<KillOp(s, mode[s])>>
    <2>2. s \in Streams /\ mode[s] \in Modes
      BY <2>1, OpFields DEF Typed, TypeOK, StreamsOK
    <2>3. ops \in Seq(PlainOps)
      BY <2>2, PlainTypes, ShortPlain, Zenon
    <2>4. Replaces(t, ops)
      BY <1>6, Zenon DEF Close, Return, Continue, Replaces
    <2> HIDE DEF ops
    <2> QED  BY <2>3, <2>4
  <1>7. CASE Kill(t)
    <2>1. o \in Ops /\ o.op = "kill" /\ agenda[t] # <<>>
      BY <1>7, TopTyped DEF Kill, Typed
    <2> DEFINE tail == <<CloseDstOp(s), CloseRestOp(s, 1), CountDownOp(s)>>
               fails == CloseFails(kind[s], got[s])
               call == CloseFunc(s, kind[s], got[s])
    <2>2. s \in Streams /\ kind[s] \in Kinds /\ got[s] \in Seq(Data) /\ 1 \in Nat \ {0}
      BY <2>1, OpFields DEF Typed, TypeOK, StreamsOK, HistoryOK
    <2>3. ~fails => call \in Seq(PlainOps)
      BY <2>2, CloseFuncPlain
    <2>4. tail \in Seq(PlainOps)
      BY <2>2, PlainTypes, ShortPlain, Zenon
    <2>5. \/ Replaces(t, <<>>)
          \/ ~fails /\ Replaces(t, call \o tail)
      BY <1>7 DEF Kill, Return, Continue, Replaces
    <2> HIDE DEF tail, fails, call
    <2>6. ~fails => call \o tail \in Seq(PlainOps)
      BY <2>3, <2>4, ShortPlain
    <2> QED  BY <2>5, <2>6, ShortPlain
  <1>8. CASE CloseDst(t)
    <2>1. o \in Ops /\ o.op = "closeDst" /\ agenda[t] # <<>>
      BY <1>8, TopTyped DEF CloseDst, Typed
    <2> DEFINE ops == IF dst[s] = NoStream THEN <<>> ELSE <<PushOp(dst[s], "close", Nil)>>
    <2>2. dst[s] # NoStream => dst[s] \in Streams /\ "close" \in Funcs /\ Nil \in Data
      BY <2>1, OpFields DEF Funcs, Data, Typed, TypeOK, StreamsOK
    <2>3. ops \in Seq(PlainOps)
      BY <2>2, PlainTypes, ShortPlain, Zenon
    <2>4. Replaces(t, ops)
      BY <1>8, Zenon DEF CloseDst, Return, Continue, Replaces
    <2> HIDE DEF ops
    <2> QED  BY <2>3, <2>4
  <1>9. CASE CloseRest(t)
    <2>1. o \in Ops /\ o.op = "closeRest" /\ agenda[t] # <<>>
      BY <1>9, TopTyped DEF CloseRest, Typed
    <2> DEFINE ops == IF o.i > Len(rest[s]) THEN <<>>
                      ELSE <<PushOp(rest[s][o.i], "close", Nil), CloseRestOp(s, o.i + 1)>>
    <2>2. /\ s \in Streams /\ o.i \in Nat \ {0} /\ o.i + 1 \in Nat \ {0} /\ Nil \in Data
          /\ "close" \in Funcs /\ rest[s] \in Seq(Streams)
      BY <2>1, OpFields DEF Funcs, Data, Typed, TypeOK, StreamsOK
    <2>3. ~(o.i > Len(rest[s])) => rest[s][o.i] \in Streams
      BY <2>2, ElementTyped
    <2>4. ops \in Seq(PlainOps)
      BY <2>2, <2>3, PlainTypes, ShortPlain, Zenon
    <2>5. Replaces(t, ops)
      BY <1>9, Zenon DEF CloseRest, Continue, Replaces
    <2> HIDE DEF ops
    <2> QED  BY <2>4, <2>5
  <1>10. CASE TakeNext(t)
    <2>1. o \in Ops /\ o.op = "takeNext" /\ agenda[t] # <<>>
      BY <1>10, TopTyped DEF TakeNext, Typed
    <2> DEFINE ops == IF n[s] = 1 THEN <<CloseOp(s)>> ELSE <<>>
    <2>2. s \in Streams
      BY <2>1, OpFields
    <2>3. ops \in Seq(PlainOps)
      BY <2>2, PlainTypes, ShortPlain, Zenon
    <2>4. Replaces(t, ops)
      BY <1>10, Zenon DEF TakeNext, Return, Continue, Replaces
    <2> HIDE DEF ops
    <2> QED  BY <2>3, <2>4
  <1>11. CASE After(t)
    <2>1. o \in Ops /\ o.op = "after" /\ agenda[t] # <<>>
      BY <1>11, TopTyped DEF After, Typed
    <2> DEFINE ops == IF mode[s] = "dying" THEN <<CloseOp(s)>> ELSE <<>>
    <2>2. s \in Streams
      BY <2>1, OpFields
    <2>3. ops \in Seq(PlainOps)
      BY <2>2, PlainTypes, ShortPlain, Zenon
    <2>4. Replaces(t, ops)
      BY <1>11, Zenon DEF After, Return, Continue, Replaces
    <2> HIDE DEF ops
    <2> QED  BY <2>3, <2>4
  <1> QED
    BY <1>c, <1>1, <1>2, <1>3, <1>4, <1>5, <1>6, <1>7, <1>8, <1>9, <1>10, <1>11 DEF Step

\* strm_task_push puts the addition and its queueing on the agenda together.
LEMMA PushComplete ==
  ASSUME Typed, AddsComplete, NEW t \in Threads, Push(t)
  PROVE  AddsComplete'
  <1> DEFINE o == Head(agenda[t])
             s == o.s
             add == AddTaskOp(s, o.f, o.d)
             ops == <<add, AddStreamOp(s)>>
  <1>1. o \in Ops /\ o.op = "push" /\ agenda[t] # <<>>
    BY TopTyped DEF Push, Typed
  <1>2. s \in Streams /\ o.f \in Funcs /\ o.d \in Data
    BY <1>1, OpFields
  <1>3. \/ Replaces(t, <<>>)
        \/ Replaces(t, ops)
    BY Zenon DEF Push, TaskAdd, Continue, Replaces
  <1>4. CASE Replaces(t, <<>>)
    BY <1>1, <1>4, ReplaceComplete, ShortPlain
  <1>5. CASE Replaces(t, ops)
    <2> DEFINE q == ops \o Tail(agenda[t])
    <2>1. Tail(agenda[t]) \in Seq(PlainOps)
      BY <1>1, PlainTail
    <2>2. add \in Ops /\ AddStreamOp(s) \in PlainOps /\ AddStreamOp(s) \in Ops
      BY <1>2, PlainTypes, OpTypes
    <2>3. add.op = "addTask" /\ add.s = s
      BY DEF AddTaskOp
    <2>4. agenda'[t] = q /\ \A u \in Threads : u # t => agenda'[u] = agenda[u]
      BY <1>5 DEF Replaces, Typed, TypeOK, AgendasOK
    <2> HIDE DEF add
    <2>5. Tail(agenda[t]) \in Seq(Ops)
      BY <1>1, SeqFacts DEF Typed, TypeOK, AgendasOK
    <2>6. q # <<>> /\ Head(q) = add /\ Tail(q) = <<AddStreamOp(s)>> \o Tail(agenda[t])
      BY <2>2, <2>5
    <2>7. /\ <<AddStreamOp(s)>> \o Tail(agenda[t]) \in Seq(PlainOps)
          /\ <<AddStreamOp(s)>> \o Tail(agenda[t]) # <<>>
          /\ Head(<<AddStreamOp(s)>> \o Tail(agenda[t])) = AddStreamOp(s)
      BY <2>1, <2>2
    <2> HIDE DEF q
    <2>8. Complete(q)
      BY <2>3, <2>6, <2>7 DEF Complete
    <2> QED  BY <2>4, <2>8 DEF AddsComplete
  <1> QED  BY <1>3, <1>4, <1>5

\* No step tears an addition from its queueing.
LEMMA StepComplete ==
  ASSUME Typed, AddsComplete, NEW t \in Threads, Step(t)
  PROVE  AddsComplete'
  <1>1. agenda[t] # <<>>
    BY DEF Step, At, StreamNew, Connect, Ref, Start, Push, AddTask, AddStream, Emit,
       DropDst, EmitRest, TerminationCheck, Close, Kill, CloseDst, CloseRest,
       CountDown, SeqNext, TakeNext, After
  <1>2. CASE Push(t)
    BY <1>2, PushComplete
  <1>3. CASE ~Push(t)
    <2>1. PICK ops \in Seq(PlainOps) : Replaces(t, ops)
      BY <1>3, StepPlain
    <2> QED  BY <1>1, <2>1, ReplaceComplete
  <1> QED  BY <1>2, <1>3

\* A step of an agenda leaves a worker where it is in task_loop, except that
\* the first producer brings the workers to life.
LEMMA StepKeepsPlace ==
  ASSUME Typed, NotBorn, NEW t \in Threads, Step(t)
  PROVE  /\ cur' = cur /\ excl' = excl
         /\ started => pc' = pc /\ started'
         /\ \A w \in Workers : pc[w] # "unborn" => pc'[w] = pc[w]
         /\ \A w \in Workers : pc[w] = "unborn" => pc'[w] \in {"unborn", "get"}
         /\ started' \/ pc' = pc
         /\ agenda[t] # <<>>
  <1>t. Workers \subseteq Threads /\ pc \in [Threads -> Labels]
    BY DEF Threads, Typed, TypeOK, ThreadsOK
  <1>1. excl' = excl /\ cur' = cur
    BY DEF Step, StreamNew, Connect, Ref, Start, Push, AddTask, AddStream, Emit,
       DropDst, EmitRest, TerminationCheck, Close, Kill, CloseDst, CloseRest,
       CountDown, SeqNext, TakeNext, After, Return, Continue, streamVars
  <1>2. agenda[t] # <<>>
    BY DEF Step, At, StreamNew, Connect, Ref, Start, Push, AddTask, AddStream, Emit,
       DropDst, EmitRest, TerminationCheck, Close, Kill, CloseDst, CloseRest,
       CountDown, SeqNext, TakeNext, After
  <1>3. CASE Start(t)
    <2>1. (UNCHANGED <<started, pc>>) \/ TaskInit
      BY <1>3 DEF Start
    <2> QED  BY <1>t, <1>1, <1>2, <2>1 DEF TaskInit, NotBorn
  <1>4. CASE ~Start(t)
    <2>1. pc' = pc /\ started' = started
      BY <1>4 DEF Step, StreamNew, Connect, Ref, Push, AddTask, AddStream, Emit,
         DropDst, EmitRest, TerminationCheck, Close, Kill, CloseDst, CloseRest,
         CountDown, SeqNext, TakeNext, After, Return, Continue, sharedVars
    <2> QED  BY <1>1, <1>2, <2>1
  <1> QED  BY <1>3, <1>4

\* Membership when a queue grows at its end and shrinks at its front.
LEMMA InSeqFacts ==
  ASSUME NEW S, NEW q \in Seq(S), NEW x, NEW y \in S
  PROVE  /\ InSeq(x, q) => InSeq(x, Append(q, y))
         /\ InSeq(y, Append(q, y))
         /\ q # <<>> /\ InSeq(x, q) => x = Head(q) \/ InSeq(x, Tail(q))
  <1>1. InSeq(x, q) => InSeq(x, Append(q, y))
    BY DEF InSeq
  <1>2. InSeq(y, Append(q, y))
    <2>1. Len(q) + 1 \in 1..Len(Append(q, y)) /\ Append(q, y)[Len(q) + 1] = y
      OBVIOUS
    <2> QED  BY <2>1 DEF InSeq
  <1>3. ASSUME q # <<>>, InSeq(x, q)
        PROVE  x = Head(q) \/ InSeq(x, Tail(q))
    <2>1. PICK i \in 1..Len(q) : q[i] = x
      BY <1>3 DEF InSeq
    <2>2. CASE i = 1
      BY <2>1, <2>2
    <2>3. CASE i # 1
      <3>1. i - 1 \in 1..Len(Tail(q)) /\ Tail(q)[i - 1] = x
        BY <1>3, <2>1, <2>3
      <3> QED  BY <3>1 DEF InSeq
    <2> QED  BY <2>2, <2>3
  <1> QED  BY <1>1, <1>2, <1>3

\* A step of an agenda strands no task: an addition is followed by the queueing.
LEMMA StepNoStranded ==
  ASSUME NothingLost, NEW t \in Threads, Step(t)
  PROVE  NoStranded'
  <1> DEFINE o == Head(agenda[t])
  <1>s. PICK s : s = o.s
    OBVIOUS
  <1>i. Typed /\ AddsComplete /\ NotBorn /\ NoStranded
    BY DEF NothingLost
  <1>t. /\ agenda \in [Threads -> Seq(Ops)] /\ tasks \in [Streams -> Seq(Tasks)]
        /\ queue \in Seq(Streams) /\ prodQueue \in Seq(Streams)
    BY <1>i DEF Typed, TypeOK, AgendasOK, QueuesOK
  <1>1. PICK ops : Replaces(t, ops)
    BY Zenon DEF Step, StreamNew, Connect, Ref, Start, Push, TaskAdd, AddTask, AddStream,
       Emit, DropDst, EmitRest, TerminationCheck, Close, Kill, CloseDst, CloseRest,
       CountDown, SeqNext, TakeNext, After, Return, Continue, Replaces
  <1>2. \A u \in Threads : u # t => agenda'[u] = agenda[u]
    BY <1>t, <1>1 DEF Replaces
  <1>3. \A x \in Streams : Taken(x) => Taken(x)'
    BY <1>i, StepKeepsPlace DEF Taken
  <1>4. \A x \in Streams : BeingQueued(x) /\ o # AddStreamOp(x) => BeingQueued(x)'
    BY <1>2 DEF BeingQueued
  <1>5. CASE AddTask(t)
    <2>1. o \in Ops /\ o.op = "addTask" /\ agenda[t] # <<>>
      BY <1>5, <1>i, TopTyped DEF AddTask, Typed
    <2>2. s \in Streams
      BY <1>s, <2>1, OpFields
    <2>3. \A x \in Streams : x # s => tasks'[x] = tasks[x]
      BY <1>5, <1>s, <1>t DEF AddTask
    <2>4. queue' = queue /\ prodQueue' = prodQueue
      BY <1>5 DEF AddTask, sharedVars
    <2>5. \A x \in Streams : o # AddStreamOp(x)
      BY <2>1 DEF AddStreamOp
    <2>6. BeingQueued(s)'
      <3>1. ~(agenda[t] \in Seq(PlainOps))
        <4>1. \A q \in Seq(PlainOps) : q # <<>> => Head(q) \in PlainOps
          BY SeqFacts
        <4> QED  BY <2>1, <4>1 DEF PlainOps
      <3>2. Tail(agenda[t]) # <<>> /\ Head(Tail(agenda[t])) = AddStreamOp(s)
        BY <1>i, <1>s, <3>1 DEF AddsComplete, Complete
      <3>3. agenda' = [agenda EXCEPT ![t] = <<>> \o Tail(@)]
        BY <1>5 DEF AddTask, Return, Continue
      <3>4. agenda'[t] = Tail(agenda[t])
        <4>1. Tail(agenda[t]) \in Seq(Ops)
          BY <1>t, <2>1, SeqFacts
        <4>2. <<>> \o Tail(agenda[t]) = Tail(agenda[t])
          BY <4>1
        <4> QED  BY <1>t, <3>3, <4>2
      <3> QED  BY <3>2, <3>4 DEF BeingQueued
    <2>7. \A x \in Streams : Queued(x) => Queued(x)'
      BY <2>4 DEF Queued
    <2> QED  BY <1>i, <1>3, <1>4, <2>3, <2>5, <2>6, <2>7 DEF NoStranded
  <1>6. CASE AddStream(t)
    <2>1. o \in Ops /\ o.op = "addStream" /\ agenda[t] # <<>>
      BY <1>6, <1>i, TopTyped DEF AddStream, Typed
    <2>2. s \in Streams
      BY <1>s, <2>1, OpFields
    <2>3. tasks' = tasks
      BY <1>6 DEF AddStream, streamVars
    <2>4. \/ prodQueue' = Append(prodQueue, s) /\ queue' = queue
          \/ queue' = Append(queue, s) /\ prodQueue' = prodQueue
      BY <1>6, <1>s DEF AddStream
    <2>5. Queued(s)' /\ \A x \in Streams : Queued(x) => Queued(x)'
      BY <1>t, <2>2, <2>4, InSeqFacts DEF Queued
    <2>6. \A x \in Streams : o = AddStreamOp(x) => x = s
      BY <1>s DEF AddStreamOp
    <2> QED  BY <1>i, <1>3, <1>4, <2>3, <2>5, <2>6 DEF NoStranded
  <1>7. CASE ~AddTask(t) /\ ~AddStream(t)
    <2>1. tasks' = tasks /\ queue' = queue /\ prodQueue' = prodQueue
      BY <1>7 DEF Step, StreamNew, Connect, Ref, Start, Push, Emit, DropDst, EmitRest,
         TerminationCheck, Close, Kill, CloseDst, CloseRest, CountDown, SeqNext,
         TakeNext, After, sharedVars, streamVars
    <2>2. o.op # "addStream"
      BY <1>7 DEF Step, At, StreamNew, Connect, Ref, Start, Push, Emit, DropDst, EmitRest,
         TerminationCheck, Close, Kill, CloseDst, CloseRest, CountDown, SeqNext,
         TakeNext, After
    <2>3. \A x \in Streams : o # AddStreamOp(x)
      BY <2>2 DEF AddStreamOp
    <2>4. \A x \in Streams : Queued(x) => Queued(x)'
      BY <2>1 DEF Queued
    <2> QED  BY <1>i, <1>3, <1>4, <2>1, <2>3, <2>4 DEF NoStranded
  <1> QED  BY <1>5, <1>6, <1>7

\* With one worker a claim succeeds, so task_loop strands nothing either.
LEMMA LoopNoStranded ==
  ASSUME OneWorker, NothingLost, NEW w \in Workers, Loop(w)
  PROVE  NoStranded'
  <1>i. Typed /\ IdleAgendas /\ NotBorn /\ FlagHeld /\ NoStranded /\ HoldsStream
    BY DEF NothingLost, Typed
  <1>t. /\ w \in Threads /\ Workers \subseteq Threads
        /\ pc \in [Threads -> Labels] /\ cur \in [Workers -> Streams \union {NoStream}]
        /\ excl \in [Streams -> {0, 1}]
        /\ agenda \in [Threads -> Seq(Ops)] /\ tasks \in [Streams -> Seq(Tasks)]
        /\ queue \in Seq(Streams) /\ prodQueue \in Seq(Streams)
    BY <1>i DEF Threads, Typed, TypeOK, ThreadsOK, StreamsOK, AgendasOK, QueuesOK
  <1>1. \A v \in Workers : v # w => pc'[v] = pc[v] /\ cur'[v] = cur[v]
    BY DEF OneWorker
  <1>2. CASE GetStream(w) \/ GetProducer(w)
    <2>1. tasks' = tasks /\ agenda' = agenda
      BY <1>2 DEF GetStream, GetProducer, streamVars
    <2>2. \A x \in Streams : BeingQueued(x) => BeingQueued(x)'
      BY <2>1 DEF BeingQueued
    <2>3. \A x \in Streams : Taken(x) => Taken(x)'
      <3>1. pc[w] \in {"get", "getProd"}
        BY <1>2 DEF GetStream, GetProducer
      <3> QED  BY <1>1, <3>1 DEF Taken
    <2>4. \A x \in Streams : Queued(x) => Queued(x)' \/ Taken(x)'
      <3>1. CASE GetStream(w)
        <4>1. CASE queue = <<>>
          BY <3>1, <4>1 DEF GetStream, Queued
        <4>2. CASE queue # <<>>
          <5>1. /\ queue' = Tail(queue) /\ prodQueue' = prodQueue
                /\ pc'[w] = "claim" /\ cur'[w] = Head(queue)
            BY <1>t, <3>1, <4>2 DEF GetStream, GoTo
          <5>2. \A x \in Streams : InSeq(x, queue) => x = Head(queue) \/ InSeq(x, Tail(queue))
            BY <1>t, <4>2, InSeqFacts
          <5> QED  BY <5>1, <5>2 DEF Queued, Taken
        <4> QED  BY <4>1, <4>2
      <3>2. CASE GetProducer(w)
        <4>1. CASE prodQueue = <<>>
          BY <3>2, <4>1 DEF GetProducer, Queued
        <4>2. CASE prodQueue # <<>>
          <5>1. /\ prodQueue' = Tail(prodQueue) /\ queue' = queue
                /\ pc'[w] = "claim" /\ cur'[w] = Head(prodQueue)
            BY <1>t, <3>2, <4>2 DEF GetProducer, GoTo
          <5>2. \A x \in Streams :
                  InSeq(x, prodQueue) => x = Head(prodQueue) \/ InSeq(x, Tail(prodQueue))
            BY <1>t, <4>2, InSeqFacts
          <5> QED  BY <5>1, <5>2 DEF Queued, Taken
        <4> QED  BY <4>1, <4>2
      <3> QED  BY <1>2, <3>1, <3>2
    <2> QED  BY <1>i, <2>1, <2>2, <2>3, <2>4 DEF NoStranded
  <1>3. CASE Claim(w) \/ TaskDone(w)
    <2>1. /\ tasks' = tasks /\ agenda' = agenda /\ queue' = queue
          /\ prodQueue' = prodQueue
      BY <1>3 DEF Claim, TaskDone, sharedVars, streamVars
    <2>2. pc'[w] = "drain" /\ cur'[w] = cur[w]
      <3>1. CASE Claim(w)
        <4>1. cur[w] \in Streams /\ ~Executing(w)
          BY <1>i, <3>1 DEF HoldsStream, Claim, Executing
        <4>2. excl[cur[w]] = 0
          <5> SUFFICES ASSUME excl[cur[w]] # 0 PROVE FALSE
            OBVIOUS
          <5>1. excl[cur[w]] = 1
            BY <1>t, <4>1
          <5>2. PICK v \in Workers : Executing(v)
            BY <1>i, <4>1, <5>1 DEF FlagHeld
          <5> QED  BY <4>1, <5>2 DEF OneWorker
        <4> QED  BY <1>t, <3>1, <4>2 DEF Claim, Free, GoTo
      <3>2. CASE TaskDone(w)
        BY <1>t, <3>2 DEF TaskDone, GoTo
      <3> QED  BY <1>3, <3>1, <3>2
    <2>3. \A x \in Streams : /\ Queued(x) => Queued(x)'
                             /\ Taken(x) => Taken(x)'
                             /\ BeingQueued(x) => BeingQueued(x)'
      BY <1>1, <2>1, <2>2 DEF Queued, Taken, BeingQueued
    <2> QED  BY <1>i, <2>1, <2>3 DEF NoStranded
  <1>4. CASE Drain(w)
    <2>1. /\ cur' = cur /\ queue' = queue /\ prodQueue' = prodQueue
          /\ pc'[w] \in {"drain", "run"}
      BY <1>4, <1>t DEF Drain, Discards, GoTo, sharedVars
    <2>2. agenda[w] = <<>> /\ \A u \in Threads : u # w => agenda'[u] = agenda[u]
      BY <1>4, <1>i, <1>t DEF Drain, Discards, IdleAgendas
    <2>3. \A x \in Streams : BeingQueued(x) => BeingQueued(x)'
      BY <2>2 DEF BeingQueued
    <2>4. \A x \in Streams : /\ Queued(x) => Queued(x)'
                             /\ Taken(x) => Taken(x)'
      BY <1>1, <2>1 DEF Queued, Taken
    <2>5. \A x \in Streams : x # cur[w] => tasks'[x] = tasks[x]
      BY <1>4, <1>t DEF Drain
    <2>6. \A x \in Streams : x = cur[w] => Taken(x)'
      BY <2>1 DEF Taken
    <2> QED  BY <1>i, <2>3, <2>4, <2>5, <2>6 DEF NoStranded
  <1>5. CASE Drained(w) \/ Release(w) \/ CheckCount(w)
    <2>1. /\ tasks' = tasks /\ agenda' = agenda /\ queue' = queue
          /\ prodQueue' = prodQueue
      BY <1>5 DEF Drained, Release, CheckCount, sharedVars, streamVars
    <2>2. \A x \in Streams : /\ Queued(x) => Queued(x)'
                             /\ BeingQueued(x) => BeingQueued(x)'
      BY <2>1 DEF Queued, BeingQueued
    <2>3. \A x \in Streams : tasks[x] # <<>> /\ Taken(x) => Taken(x)'
      <3>1. pc[w] \in {"claim", "drain", "run"} => tasks[cur[w]] = <<>>
        BY <1>5 DEF Drained, Release, CheckCount
      <3> QED  BY <1>1, <3>1 DEF Taken
    <2> QED  BY <1>i, <2>1, <2>2, <2>3 DEF NoStranded
  <1> QED  BY <1>2, <1>3, <1>4, <1>5 DEF Loop

\* The rest of the invariant: who is where, with any number of workers.
Places == IdleAgendas /\ NotBorn /\ FlagHeld

\* Where threads are, whatever the number of workers.
LEMMA PlacesStep ==
  ASSUME Typed, Places, [Next]_vars
  PROVE  Places'
  <1>t. /\ Main \in Threads /\ Workers \subseteq Threads /\ Main \notin Workers
        /\ pc \in [Threads -> Labels] /\ cur \in [Workers -> Streams \union {NoStream}]
        /\ excl \in [Streams -> {0, 1}] /\ agenda \in [Threads -> Seq(Ops)]
        /\ HoldsStream
    BY SchedulerAssumption
    DEF Threads, Typed, TypeOK, ThreadsOK, StreamsOK, AgendasOK
  <1>i. IdleAgendas /\ NotBorn /\ FlagHeld
    BY DEF Places
  <1>1. CASE UNCHANGED vars
    BY <1>1, <1>i DEF vars, sharedVars, streamVars, threadVars, Places, IdleAgendas,
       NotBorn, FlagHeld, Executing
  <1>2. ASSUME NEW t \in Threads, Step(t)
        PROVE  Places'
    <2>1. /\ cur' = cur /\ excl' = excl /\ agenda[t] # <<>>
          /\ started => pc' = pc /\ started'
          /\ \A w \in Workers : pc[w] # "unborn" => pc'[w] = pc[w]
          /\ \A w \in Workers : pc[w] = "unborn" => pc'[w] \in {"unborn", "get"}
          /\ started' \/ pc' = pc
      BY <1>2, <1>i, StepKeepsPlace
    <2>2. PICK ops : Replaces(t, ops)
      BY <1>2, Zenon DEF Step, StreamNew, Connect, Ref, Start, Push, TaskAdd, AddTask,
         AddStream, Emit, DropDst, EmitRest, TerminationCheck, Close, Kill, CloseDst,
         CloseRest, CountDown, SeqNext, TakeNext, After, Return, Continue, Replaces
    <2>3. IdleAgendas'
      <3>1. \A u \in Threads : u # t => agenda'[u] = agenda[u]
        BY <1>t, <2>2 DEF Replaces
      <3>2. \A w \in Workers : pc'[w] # "run" => pc[w] # "run"
        BY <2>1
      <3>3. \A w \in Workers : pc'[w] # "run" => w # t /\ agenda[w] = <<>>
        BY <1>i, <2>1, <3>2 DEF IdleAgendas
      <3> QED  BY <1>t, <3>1, <3>3 DEF IdleAgendas
    <2>4. NotBorn'
      BY <1>i, <2>1 DEF NotBorn
    <2>5. FlagHeld'
      BY <1>i, <2>1 DEF FlagHeld, Executing
    <2> QED  BY <2>3, <2>4, <2>5 DEF Places
  <1>3. ASSUME NEW w \in Workers, Loop(w)
        PROVE  Places'
    <2>1. /\ started' = started /\ pc[w] # "unborn"
          /\ \A v \in Workers : v # w => pc'[v] = pc[v] /\ cur'[v] = cur[v]
      BY <1>t, <1>3 DEF Loop, GetStream, GetProducer, Claim, Drain, TaskDone, Drained,
         Release, CheckCount, GoTo, sharedVars
    <2>2. NotBorn'
      BY <1>i, <2>1 DEF NotBorn
    <2>3. CASE Claim(w)
      <3>1. cur[w] \in Streams /\ ~Executing(w)
        BY <1>t, <2>3 DEF HoldsStream, Claim, Executing
      <3>2. agenda' = agenda /\ pc[w] # "run"
        BY <2>3 DEF Claim
      <3>3. IdleAgendas'
        BY <1>i, <2>1, <3>2 DEF IdleAgendas
      <3>4. CASE excl[cur[w]] = 0
        <4>1. /\ cur' = cur /\ excl' = [excl EXCEPT ![cur[w]] = 1] /\ Executing(w)'
          BY <1>t, <2>3, <3>4 DEF Claim, Free, GoTo, Executing
        <4>2. \A s \in Streams : s # cur[w] => excl'[s] = excl[s]
          BY <1>t, <4>1
        <4>3. \A v \in Workers : Executing(v) => Executing(v)'
          BY <2>1, <3>1 DEF Executing
        <4> QED  BY <1>i, <2>2, <3>3, <4>1, <4>2, <4>3 DEF FlagHeld, Places
      <3>5. CASE excl[cur[w]] # 0
        <4>1. excl' = excl
          BY <2>3, <3>5 DEF Claim, Free
        <4>2. \A v \in Workers : Executing(v) => Executing(v)' /\ cur'[v] = cur[v]
          BY <2>1, <3>1 DEF Executing
        <4> QED  BY <1>i, <2>2, <3>3, <4>1, <4>2 DEF FlagHeld, Places
      <3> QED  BY <3>4, <3>5
    <2>4. CASE Release(w)
      <3>1. agenda' = agenda /\ pc[w] # "run"
        BY <2>4 DEF Release
      <3>2. \A s \in Streams : excl'[s] = 1 => excl[s] = 1 /\ s # cur[w]
        BY <1>t, <2>4 DEF Release
      <3>3. \A v \in Workers : v # w /\ Executing(v) => Executing(v)'
        BY <2>1 DEF Executing
      <3>4. FlagHeld'
        BY <1>i, <2>1, <3>2, <3>3 DEF FlagHeld
      <3>5. IdleAgendas'
        BY <1>i, <2>1, <3>1 DEF IdleAgendas
      <3> QED  BY <2>2, <3>4, <3>5 DEF Places
    <2>5. CASE Drain(w) \/ TaskDone(w) \/ Drained(w)
      <3>1. excl' = excl /\ cur' = cur /\ Executing(w)'
        BY <1>t, <2>5 DEF Drain, Discards, TaskDone, Drained, GoTo, Executing, streamVars
      <3>2. \A v \in Workers : Executing(v) => Executing(v)'
        BY <2>1, <3>1 DEF Executing
      <3>3. IdleAgendas'
        <4>1. \A v \in Workers : v # w => agenda'[v] = agenda[v]
          BY <1>t, <2>5 DEF Drain, Discards, TaskDone, Drained
        <4>2. pc'[w] # "run" => agenda'[w] = <<>>
          BY <1>t, <1>i, <2>5 DEF Drain, Discards, TaskDone, Drained, GoTo, IdleAgendas
        <4> QED  BY <1>i, <2>1, <4>1, <4>2 DEF IdleAgendas
      <3> QED  BY <1>i, <2>2, <3>1, <3>2, <3>3 DEF FlagHeld, Places
    <2>6. CASE GetStream(w) \/ GetProducer(w) \/ CheckCount(w)
      <3>1. excl' = excl /\ agenda' = agenda /\ ~Executing(w) /\ pc[w] # "run"
        BY <2>6 DEF GetStream, GetProducer, CheckCount, Executing, streamVars
      <3>2. \A v \in Workers : Executing(v) => v # w /\ Executing(v)' /\ cur'[v] = cur[v]
        BY <2>1, <3>1 DEF Executing
      <3>3. IdleAgendas'
        BY <1>i, <2>1, <3>1 DEF IdleAgendas
      <3> QED  BY <1>i, <2>2, <3>1, <3>2, <3>3 DEF FlagHeld, Places
    <2> QED  BY <1>3, <2>3, <2>4, <2>5, <2>6 DEF Loop
  <1>4. CASE EnterLoop \/ LeaveLoop
    <2>1. /\ excl' = excl /\ cur' = cur /\ agenda' = agenda
          /\ \A w \in Workers : pc[w] # "unborn" => pc'[w] = pc[w]
          /\ \A w \in Workers : pc[w] = "unborn" => pc'[w] \in {"unborn", "get"}
          /\ started' \/ (~started /\ \A w \in Workers : pc'[w] = pc[w])
      BY <1>t, <1>4, <1>i DEF EnterLoop, LeaveLoop, GoTo, NotBorn, sharedVars, streamVars
    <2>2. \A w \in Workers : Executing(w) => Executing(w)'
      BY <2>1 DEF Executing
    <2> QED  BY <1>i, <2>1, <2>2 DEF Places, IdleAgendas, NotBorn, FlagHeld
  <1> QED
    BY <1>t, <1>1, <1>2, <1>3, <1>4 DEF Next, MainStep, WorkerStep, Ended

\* The invariant is inductive when there is one worker.
LEMMA NothingLostStep ==
  ASSUME OneWorker, NothingLost, [Next]_vars
  PROVE  NothingLost'
  <1>i. Typed /\ AddsComplete /\ Places /\ NoStranded /\ NotBorn /\ Typed'
    BY NextTyped DEF NothingLost, Places
  <1>t. /\ Main \in Threads /\ Workers \subseteq Threads
        /\ agenda \in [Threads -> Seq(Ops)]
    BY <1>i DEF Threads, Typed, TypeOK, AgendasOK
  <1>1. Places'
    BY <1>i, PlacesStep
  <1>2. CASE UNCHANGED vars
    BY <1>2, <1>i, <1>1 DEF vars, sharedVars, streamVars, threadVars, NothingLost, Places,
       AddsComplete, NoStranded, Queued, Taken, BeingQueued
  <1>3. ASSUME NEW t \in Threads, Step(t)
        PROVE  NothingLost'
    BY <1>3, <1>i, <1>1, StepComplete, StepNoStranded DEF NothingLost, Places
  <1>4. ASSUME NEW w \in Workers, Loop(w)
        PROVE  NothingLost'
    <2>1. AddsComplete'
      <3>1. CASE Drain(w)
        <4> DEFINE task == Head(tasks[cur[w]])
                   s == cur[w]
                   call == IF task.f = "close" THEN <<CloseOp(s)>>
                           ELSE StartFunc(s, kind[s], n[s], limit[s], task.d)
        <4>1. /\ s \in Streams /\ task \in Tasks
              /\ kind[s] \in Kinds /\ n[s] \in Int /\ limit[s] \in Nat
          BY <1>i, <3>1, SeqFacts
          DEF Drain, Typed, HoldsStream, TypeOK, StreamsOK, QueuesOK
        <4>2. call \in Seq(PlainOps)
          <5>1. CloseOp(s) \in PlainOps /\ task.d \in Data
            BY <4>1, PlainTypes DEF Tasks
          <5>2. StartFunc(s, kind[s], n[s], limit[s], task.d) \in Seq(PlainOps)
            BY <4>1, <5>1, StartFuncPlain
          <5> QED  BY <5>1, <5>2, ShortPlain, Zenon
        <4>3. call \o <<AfterOp(s)>> \in Seq(PlainOps)
          BY <4>1, <4>2, PlainTypes, ShortPlain
        <4>4. \/ agenda' = agenda
              \/ agenda' = [agenda EXCEPT ![w] = call \o <<AfterOp(s)>>]
          BY <3>1, Zenon DEF Drain
        <4> HIDE DEF call
        <4> QED  BY <1>i, <1>t, <4>3, <4>4 DEF AddsComplete, Complete
      <3>2. CASE ~Drain(w)
        <4>1. agenda' = agenda
          BY <1>4, <3>2 DEF Loop, GetStream, GetProducer, Claim, TaskDone, Drained,
             Release, CheckCount
        <4> QED  BY <1>i, <4>1 DEF AddsComplete
      <3> QED  BY <3>1, <3>2
    <2>2. NoStranded'
      BY <1>4, LoopNoStranded
    <2> QED  BY <1>i, <1>1, <2>1, <2>2 DEF NothingLost, Places
  <1>5. CASE EnterLoop \/ LeaveLoop
    <2>1. /\ agenda' = agenda /\ tasks' = tasks /\ queue' = queue
          /\ prodQueue' = prodQueue /\ cur' = cur
      BY <1>5 DEF EnterLoop, LeaveLoop, sharedVars, streamVars
    <2>2. \A w \in Workers : pc[w] # "unborn" => pc'[w] = pc[w]
      <3>1. pc \in [Threads -> Labels] /\ Main \notin Workers
        BY <1>i, SchedulerAssumption DEF Typed, TypeOK, ThreadsOK
      <3> QED  BY <1>t, <1>5, <1>i, <3>1 DEF EnterLoop, LeaveLoop, GoTo, NotBorn
    <2>3. AddsComplete' /\ NoStranded'
      BY <1>i, <2>1, <2>2 DEF AddsComplete, NoStranded, Queued, Taken, BeingQueued
    <2> QED  BY <1>i, <1>1, <2>3 DEF NothingLost, Places
  <1> QED
    BY <1>t, <1>2, <1>3, <1>4, <1>5 DEF Next, MainStep, WorkerStep, Ended

\* The invariant holds before the program.
LEMMA NothingLostInit == Init => NothingLost
  <1> SUFFICES ASSUME Init PROVE NothingLost
    OBVIOUS
  <1>1. Typed
    BY InitTyped
  <1>2. AddsComplete
    <2>1. ScriptOps \subseteq PlainOps
      BY DEF ScriptOps, PlainOps
    <2>2. program \in Seq(PlainOps)
      BY <2>1, SchedulerAssumption, SeqMonotonic DEF Init
    <2>3. \A t \in Threads : agenda[t] = program \/ agenda[t] = <<>>
      BY DEF Init
    <2>4. \A t \in Threads : agenda[t] \in Seq(PlainOps)
      BY <2>2, <2>3, ShortPlain
    <2> QED  BY <2>4 DEF AddsComplete, Complete
  <1>3. Main \notin Workers /\ Workers \subseteq Threads
    BY SchedulerAssumption DEF Threads
  <1>4. IdleAgendas /\ NotBorn
    BY <1>3 DEF Init, IdleAgendas, NotBorn
  <1>5. FlagHeld /\ NoStranded
    BY DEF Init, FlagHeld, NoStranded
  <1> QED  BY <1>1, <1>2, <1>4, <1>5 DEF NothingLost

\* With one worker no task is ever left in a stream that nobody will look at,
\* whatever the program.  (With two workers one can be: see v_lost_wakeup.)
THEOREM NothingStranded == ASSUME OneWorker PROVE Spec => []NoStranded
  <1>1. NothingLost /\ [Next]_vars => NothingLost'
    BY NothingLostStep
  <1>2. NothingLost => NoStranded
    BY DEF NothingLost
  <1> QED  BY <1>1, <1>2, NothingLostInit, PTL DEF Spec

-----------------------------------------------------------------------------
(* What a worker is inside of, from the stream it executes.                *)

LEMMA HeadTail ==
  ASSUME NEW T, NEW a \in Seq(T), a # <<>>
  PROVE  /\ Head(a) \in T /\ Tail(a) \in Seq(T) /\ Len(a) \in Nat \ {0}
         /\ Head(a) = a[1] /\ Len(Tail(a)) = Len(a) - 1
         /\ \A i \in 1..Len(Tail(a)) : Tail(a)[i] = a[i + 1]
  OBVIOUS

\* One more step, or a few, before an agenda.
LEMMA Front0 ==
  ASSUME NEW T, NEW r \in Seq(T)
  PROVE  <<>> \o r = r
  OBVIOUS

LEMMA Front1 ==
  ASSUME NEW T, NEW r \in Seq(T), NEW o \in T
  PROVE  /\ <<o>> \o r \in Seq(T) /\ <<o>> \o r # <<>>
         /\ Head(<<o>> \o r) = o /\ Tail(<<o>> \o r) = r
  OBVIOUS

LEMMA Front2 ==
  ASSUME NEW T, NEW r \in Seq(T), NEW o \in T, NEW p \in T
  PROVE  <<o, p>> \o r = <<o>> \o (<<p>> \o r)
<1> DEFINE a == <<o, p>> \o r
           b == <<o>> \o (<<p>> \o r)
<1>1. a \in Seq(T) /\ b \in Seq(T) /\ Len(a) = Len(r) + 2 /\ Len(b) = Len(r) + 2 /\ Len(r) \in Nat
  OBVIOUS
<1>2. a[1] = o /\ a[2] = p /\ \A i \in 3..(Len(r) + 2) : a[i] = r[i - 2]
  OBVIOUS
<1>3. b[1] = o /\ b[2] = p /\ \A i \in 3..(Len(r) + 2) : b[i] = r[i - 2]
  OBVIOUS
<1> HIDE DEF a, b
<1>4. \A i \in 1..Len(a) : a[i] = b[i]
  BY <1>1, <1>2, <1>3
<1>5. a = b
  BY <1>1, <1>4, SeqEqual
<1> QED
  BY <1>5 DEF a, b

LEMMA Front3 ==
  ASSUME NEW T, NEW r \in Seq(T), NEW o \in T, NEW p \in T, NEW q \in T
  PROVE  <<o, p, q>> \o r = <<o>> \o (<<p>> \o (<<q>> \o r))
<1> DEFINE a == <<o, p, q>> \o r
           b == <<o, p>> \o (<<q>> \o r)
<1>1. a \in Seq(T) /\ b \in Seq(T) /\ Len(a) = Len(r) + 3 /\ Len(b) = Len(r) + 3 /\ Len(r) \in Nat
  OBVIOUS
<1>2. a[1] = o /\ a[2] = p /\ a[3] = q /\ \A i \in 4..(Len(r) + 3) : a[i] = r[i - 3]
  OBVIOUS
<1>3. b[1] = o /\ b[2] = p /\ b[3] = q /\ \A i \in 4..(Len(r) + 3) : b[i] = r[i - 3]
  OBVIOUS
<1> HIDE DEF a, b
<1>4. \A i \in 1..Len(a) : a[i] = b[i]
  BY <1>1, <1>2, <1>3
<1>5. a = b
  BY <1>1, <1>4, SeqEqual
<1>6. <<q>> \o r \in Seq(T)
  OBVIOUS
<1>7. b = <<o>> \o (<<p>> \o (<<q>> \o r))
  BY <1>6, Front2, ZenonT(40) DEF b
<1> QED
  BY <1>5, <1>7 DEF a

Executes(w, s) == pc[w] = "run" /\ cur[w] = s

\* The steps that are left of the execution of s.
Steps(s) == IF \E w \in Workers : Executes(w, s)
              THEN agenda[CHOOSE w \in Workers : Executes(w, s)] ELSE <<>>

LEMMA StepsAre ==
  ASSUME ExclusiveInv, NEW w \in Workers, pc[w] = "run"
  PROVE  cur[w] \in Streams /\ Steps(cur[w]) = agenda[w]
<1>1. cur[w] \in Streams
  BY DEF ExclusiveInv, Typed, HoldsStream
<1>2. \A v \in Workers : Executes(v, cur[w]) => v = w
  BY DEF Executes, ExclusiveInv, Exclusive, Executing
<1>3. Executes(w, cur[w])
  BY DEF Executes
<1>4. (CHOOSE v \in Workers : Executes(v, cur[w])) = w
  BY <1>2, <1>3
<1> QED
  BY <1>1, <1>3, <1>4 DEF Steps

LEMMA StepsAreNext ==
  ASSUME ExclusiveInv', NEW w \in Workers, NEW s, pc'[w] = "run", cur'[w] = s
  PROVE  Steps(s)' = agenda'[w]
<1>1. \A v \in Workers : Executes(v, s)' => v = w
  BY DEF Executes, ExclusiveInv, Exclusive, Executing
<1>2. Executes(w, s)'
  BY DEF Executes
<1>3. (CHOOSE v \in Workers : Executes(v, s)') = w
  BY <1>1, <1>2
<1> QED
  BY <1>2, <1>3 DEF Steps

LEMMA StepsIdle ==
  ASSUME NEW s, \A w \in Workers : pc[w] = "run" => cur[w] # s
  PROVE  Steps(s) = <<>>
  BY DEF Steps, Executes

LEMMA StepsIdleNext ==
  ASSUME NEW s, \A w \in Workers : pc'[w] = "run" => cur'[w] # s
  PROVE  Steps(s)' = <<>>
  BY DEF Steps, Executes

\* What is not executed by w goes on as it did.
LEMMA StepsOthers ==
  ASSUME ExclusiveInv, ExclusiveInv', NEW s,
         \A w \in Workers :
           pc[w] = "run" /\ cur[w] = s => pc'[w] = "run" /\ cur'[w] = s /\ agenda'[w] = agenda[w],
         \A w \in Workers : pc'[w] = "run" /\ cur'[w] = s => pc[w] = "run" /\ cur[w] = s
  PROVE  Steps(s)' = Steps(s)
<1>1. CASE \E w \in Workers : pc[w] = "run" /\ cur[w] = s
  <2>1. PICK w \in Workers : pc[w] = "run" /\ cur[w] = s
    BY <1>1
  <2>2. pc'[w] = "run" /\ cur'[w] = s /\ agenda'[w] = agenda[w]
    BY <2>1
  <2>3. Steps(s) = agenda[w]
    BY <2>1, StepsAre
  <2>4. Steps(s)' = agenda'[w]
    BY <2>2, StepsAreNext
  <2> QED
    BY <2>2, <2>3, <2>4
<1>2. CASE ~\E w \in Workers : pc[w] = "run" /\ cur[w] = s
  <2>1. Steps(s) = <<>>
    BY <1>2, StepsIdle
  <2>2. Steps(s)' = <<>>
    BY <1>2, StepsIdleNext
  <2> QED
    BY <2>1, <2>2
<1> QED
  BY <1>1, <1>2

\* A step of the execution of a stream.
LEMMA OwnSteps ==
  ASSUME ExclusiveInv, ExclusiveInv', IdleAgendas, NEW w \in Workers, agenda[w] # <<>>,
         pc' = pc, cur' = cur, NEW ops, agenda' = [agenda EXCEPT ![w] = ops \o Tail(@)],
         NEW s, s = cur[w]
  PROVE  /\ s \in Streams /\ Steps(s) = agenda[w]
         /\ Steps(s)' = ops \o Tail(agenda[w])
         /\ \A u : u # s => Steps(u)' = Steps(u)
         /\ agenda'[Main] = agenda[Main]
<1>1. pc[w] = "run"
  BY DEF IdleAgendas
<1>2. s \in Streams /\ Steps(s) = agenda[w]
  BY <1>1, StepsAre
<1>3. /\ agenda \in [Threads -> Seq(Ops)] /\ w \in Threads /\ Main \in Threads /\ Main # w
      /\ Workers \subseteq Threads
  BY SchedulerAssumption DEF ExclusiveInv, Typed, TypeOK, AgendasOK, Threads
<1>4. agenda'[w] = ops \o Tail(agenda[w]) /\ \A v \in Threads : v # w => agenda'[v] = agenda[v]
  BY <1>3
<1>5. Steps(s)' = ops \o Tail(agenda[w])
  BY <1>1, <1>4, StepsAreNext
<1>6. ASSUME NEW u, u # s PROVE Steps(u)' = Steps(u)
  BY <1>4, <1>6, <1>3, StepsOthers
<1> QED
  BY <1>2, <1>3, <1>4, <1>5, <1>6
================================================================================
