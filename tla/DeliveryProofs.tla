---------------------------- MODULE DeliveryProofs ----------------------------
(***************************************************************************)
(* The scheduler implements Delivery: in a program that is complete before *)
(* it runs (ReadyToRun: not a | b | c, which is connected while it runs)   *)
(* no element is lost, repeated or overtaken, and no stream is closed      *)
(* before everything has come to it, whatever the workers do.  Of programs *)
(* that are connected while they run this is false.  Every step of a       *)
(* worker or of the main thread keeps the invariant of PipelineProofs and  *)
(* is, for Delivery, an emission, an invocation, the close or the end of a *)
(* stream, or no step at all (Moves).  From the same invariant follow      *)
(* closing and counting.                                                   *)
(***************************************************************************)
EXTENDS PipelineProofs

-----------------------------------------------------------------------------
(* The steps of a worker that executes s.                                  *)

\* Worker w replaces its next step by ops, and nobody but s changes.
Works(w, s, ops) ==
  /\ pc' = pc /\ cur' = cur /\ agenda' = [agenda EXCEPT ![w] = ops \o Tail(@)]
  /\ program' = program /\ kind' = kind /\ limit' = limit /\ rest' = rest /\ got' = got
  /\ \A u \in Streams : u # s => /\ n'[u] = n[u] /\ mode'[u] = mode[u] /\ dst'[u] = dst[u]
                                 /\ refcnt'[u] = refcnt[u] /\ sent'[u] = sent[u]

\* What L and M are to s.
States(L, M, s) ==
  /\ L.a = Steps(s) /\ M.a = Steps(s)'
  /\ L.kind = kind[s] /\ M.kind = kind'[s] /\ L.limit = limit[s] /\ M.limit = limit'[s]
  /\ L.n = n[s] /\ M.n = n'[s] /\ L.mode = mode[s] /\ M.mode = mode'[s]
  /\ L.dst = dst[s] /\ M.dst = dst'[s] /\ L.rest = rest[s] /\ M.rest = rest'[s]
  /\ L.ref = refcnt[s] /\ M.ref = refcnt'[s] /\ L.sent = sent[s] /\ M.sent = sent'[s]
  /\ L.got = got[s] /\ M.got = got'[s]

LEMMA StatesLocal ==
  ASSUME NEW s, NEW L, L = Local(s), NEW M, M = Local(s)'
  PROVE  States(L, M, s)
BY DEF States, Local

LEMMA SolidLocal ==
  ASSUME Origins, NEW s \in Streams
  PROVE  Solid(Local(s))
<1>1. \A i \in 1..Len(sent[s]) : sent[s][i] # Nil
  BY NilAssumption DEF Origins, From
<1>2. \A i \in 1..Len(got[s]) : got[s][i] # Nil
  BY NilAssumption DEF Origins, From
<1> QED
  BY <1>1, <1>2 DEF Solid, Local

\* Worker w executes s, o and then r; L and M are the local states before and after its step.
Chosen(w, s, o, r, L, M) ==
  /\ agenda[w] # <<>> /\ s = cur[w] /\ o = Head(agenda[w]) /\ r = Tail(agenda[w])
  /\ L = Local(s) /\ M = Local(s)'

LEMMA ChosenExists ==
  ASSUME NEW w, agenda[w] # <<>>
  PROVE  \E s, o, r, L, M : Chosen(w, s, o, r, L, M)
BY DEF Chosen

LEMMA ChosenFacts ==
  ASSUME Delivering, NEW w \in Workers, NEW s, NEW o, NEW r, NEW L, NEW M, Chosen(w, s, o, r, L, M)
  PROVE  /\ s \in Streams /\ Splits(L.a, o, r) /\ TypedLocal(L) /\ Solid(L) /\ States(L, M, s)
         /\ mode[s] # "none" /\ Ready(s) /\ \E x \in {-1, 0, 1} : Phase(L, s, x) /\ (Live(L.mode) => Channel(s, x))
<1>1. ExclusiveInv /\ IdleAgendas /\ Awake /\ Origins /\ Typed
  BY DEF Delivering, Flowing, Places, ExclusiveInv
<1>2. /\ agenda[w] # <<>> /\ s = cur[w] /\ o = Head(agenda[w]) /\ r = Tail(agenda[w])
      /\ L = Local(s) /\ M = Local(s)'
  BY DEF Chosen
<1>3. pc[w] = "run"
  BY <1>1, <1>2 DEF IdleAgendas
<1>4. s \in Streams /\ Steps(s) = agenda[w]
  BY <1>1, <1>2, <1>3, StepsAre
<1>5. States(L, M, s)
  BY <1>2, StatesLocal
<1>6. TypedLocal(L) /\ Solid(L)
  BY <1>1, <1>2, <1>4, LocalTyped, SolidLocal
<1>7. Splits(L.a, o, r)
  BY <1>2, <1>4, <1>5, <1>6 DEF States, Splits, TypedLocal
<1>8. mode[s] # "none" /\ Ready(s)
  BY <1>1, <1>2, <1>4 DEF Awake
<1>9. \E x \in {-1, 0, 1} : Phase(L, s, x) /\ (Live(L.mode) => Channel(s, x))
  BY <1>2, <1>4, <1>5 DEF Delivering, Flowing, Phased, States
<1> QED
  BY <1>4, <1>5, <1>6, <1>7, <1>8, <1>9

LEMMA WorksFacts ==
  ASSUME Delivering, ExclusiveInv', NEW w \in Workers, NEW s, NEW o, NEW r, NEW L, NEW M,
         Chosen(w, s, o, r, L, M), NEW ops, Works(w, s, ops)
  PROVE  /\ s \in Streams /\ Splits(L.a, o, r) /\ TypedLocal(L) /\ Solid(L) /\ M.a = ops \o r
         /\ States(L, M, s) /\ mode[s] # "none" /\ Ready(s)
         /\ agenda'[Main] = agenda[Main]
         /\ \A u \in Streams : u # s => Local(u)' = Local(u)
         /\ M.kind = L.kind /\ M.limit = L.limit /\ M.rest = L.rest /\ M.got = L.got
<1>1. ExclusiveInv /\ IdleAgendas
  BY DEF Delivering, Places
<1>2. /\ s \in Streams /\ Steps(s) = agenda[w] /\ Steps(s)' = ops \o r
      /\ \A u : u # s => Steps(u)' = Steps(u)
      /\ agenda'[Main] = agenda[Main]
  <2>1. agenda[w] # <<>> /\ s = cur[w] /\ r = Tail(agenda[w])
    BY DEF Chosen
  <2>2. pc' = pc /\ cur' = cur /\ agenda' = [agenda EXCEPT ![w] = ops \o Tail(@)]
    BY DEF Works
  <2> QED
    BY <1>1, <2>1, <2>2, OwnSteps
<1>3. States(L, M, s) /\ TypedLocal(L) /\ Solid(L) /\ Splits(L.a, o, r) /\ mode[s] # "none" /\ Ready(s)
  BY ChosenFacts
<1>7. \A u \in Streams : u # s => Local(u)' = Local(u)
  BY <1>2 DEF Works, Local
<1>8. M.kind = L.kind /\ M.limit = L.limit /\ M.rest = L.rest /\ M.got = L.got
  BY <1>3 DEF States, Works
<1> QED
  BY <1>2, <1>3, <1>7, <1>8 DEF States

\* Such a step is steady.
LEMMA WorksSteady ==
  ASSUME NEW w, NEW s, NEW ops, Works(w, s, ops), agenda'[Main] = agenda[Main],
         NEW L, NEW M, States(L, M, s), mode[s] # "none",
         \A u \in Streams : u # s => Local(u)' = Local(u),
         M.mode = L.mode \/ M.mode = "killed" \/ (M.mode = "dying" /\ L.mode # "killed"),
         M.dst = L.dst \/ (M.dst = NoStream /\ mode[dst[s]] = "killed")
  PROVE  Steady(s)
BY DEF Works, States, Steady

\* Nothing of what the program has delivered changes.
Hidden == /\ program' = program /\ sent' = sent /\ got' = got
          /\ \A u \in Streams : /\ Live(mode'[u]) <=> Live(mode[u])
                                /\ Gone(Local(u)', u) <=> Gone(Local(u), u)

\* A step of s that changes nothing but where s is.
LEMMA TurnKeeps ==
  ASSUME Delivering, Typed', NEW s \in Streams, Steady(s), NEW L, L = Local(s), NEW M, M = Local(s)',
         TypedLocal(L), tasks' = tasks, got' = got, NEW o, NEW r, Splits(L.a, o, r),
         NEW p \in Seq(Ops), M.a = p \o r, OwnCloses(p, s), M.sent = L.sent, M.mode = L.mode,
         NEW x \in {-1, 0, 1}, Live(L.mode) => Channel(s, x),
         NEW y \in {-1, 0, 1}, Phase(M, s, y), Live(L.mode) => M.ref - y = L.ref - x,
         NEW T, Passes(L, M, s, T), \A t \in Streams : Live(mode[t]) => t \in T
  PROVE  Flowing' /\ Hidden
<1>1. Ends /\ Lasts
  BY DEF Delivering, Flowing
<1>2. States(L, M, s)
  BY StatesLocal
<1>3. L.a # <<>> /\ L.a \in Seq(Ops) /\ r = Tail(L.a)
  BY DEF Splits
<1>4. M.got = L.got
  BY <1>2 DEF States
<1>5. OwnCloses(M.a, s)
  <2>1. OwnCloses(L.a, s)
    BY <1>1, <1>2 DEF States, Ends
  <2> QED
    BY <2>1, <1>3, OwnClosesNext
<1>6. Lasting(program, s) => M.mode # "dying" /\ (M.mode = "killed" => L.mode = "killed")
  BY <1>1, <1>2 DEF Lasts, States
<1>7. \A t \in Streams : Live(mode[t]) /\ Link(s, t) =>
           /\ t \in Dues(M.a, M.rest, "start") <=> t \in Dues(L.a, L.rest, "start")
           /\ Opens(M, s, t) <=> Opens(L, s, t)
  BY DEF Passes, Opens, Funcs
<1>8. Gone(M, s) <=> Gone(L, s)
  BY DEF Passes
<1>9. Flowing'
  BY <1>3, <1>4, <1>5, <1>6, <1>7, <1>8, QuietKeeps, ZenonT(40)
<1>10. ASSUME NEW u \in Streams
       PROVE /\ sent'[u] = sent[u] /\ (Live(mode'[u]) <=> Live(mode[u]))
             /\ Gone(Local(u)', u) <=> Gone(Local(u), u)
  <2>1. CASE u = s
    BY <2>1, <1>2, <1>8 DEF States
  <2>2. CASE u # s
    <3>1. Local(u)' = Local(u)
      BY <2>2 DEF Steady
    <3>2. sent'[u] = sent[u] /\ mode'[u] = mode[u]
      BY <3>1, SameLocal
    <3> QED
      BY <3>1, <3>2
  <2> QED
    BY <2>1, <2>2
<1>11. sent' = sent
  <2>1. sent \in [Streams -> Seq(Data)] /\ sent' \in [Streams -> Seq(Data)]
    BY DEF Delivering, ExclusiveInv, Typed, TypeOK, HistoryOK
  <2> QED
    BY <2>1, <1>10
<1>12. program' = program
  BY DEF Steady
<1> QED
  BY <1>9, <1>10, <1>11, <1>12 DEF Hidden

-----------------------------------------------------------------------------
(* The steps that are hidden.                                              *)

\* Nothing of the streams changes but, possibly, a dst.
Unmoved == /\ program' = program /\ kind' = kind /\ limit' = limit /\ rest' = rest /\ got' = got
           /\ n' = n /\ mode' = mode /\ refcnt' = refcnt /\ sent' = sent /\ tasks' = tasks

LEMMA UnmovedWorks ==
  ASSUME NEW w, NEW p, Continue(w, p), Unmoved, NEW s, \A u \in Streams : u # s => dst'[u] = dst[u]
  PROVE  Works(w, s, p)
<1>1. pc' = pc /\ cur' = cur /\ agenda' = [agenda EXCEPT ![w] = p \o Tail(@)]
  BY Zenon DEF Continue
<1>2. /\ program' = program /\ kind' = kind /\ limit' = limit /\ rest' = rest /\ got' = got
      /\ n' = n /\ mode' = mode /\ refcnt' = refcnt /\ sent' = sent
  BY DEF Unmoved
<1> QED
  BY <1>1, <1>2, Zenon DEF Works

LEMMA UnmovedReturns ==
  ASSUME NEW w, Return(w), Unmoved, NEW s, \A u \in Streams : u # s => dst'[u] = dst[u]
  PROVE  \E p : p = <<>> /\ Works(w, s, p)
<1>1. pc' = pc /\ cur' = cur /\ agenda' = [agenda EXCEPT ![w] = <<>> \o Tail(@)]
  BY Zenon DEF Return, Continue
<1>2. /\ program' = program /\ kind' = kind /\ limit' = limit /\ rest' = rest /\ got' = got
      /\ n' = n /\ mode' = mode /\ refcnt' = refcnt /\ sent' = sent
  BY DEF Unmoved
<1> QED
  BY <1>1, <1>2, Zenon DEF Works

LEMMA UnmovedTurn ==
  ASSUME Unmoved, NEW s, NEW L, NEW M, States(L, M, s)
  PROVE  /\ Turns(L, M, M.a) /\ M.mode = L.mode /\ M.ref = L.ref /\ M.sent = L.sent
         /\ dst' = dst => M.dst = L.dst
BY DEF Unmoved, States, Turns

\* The step of w is its own and comes to phase y.
LEMMA UnmovedKeeps ==
  ASSUME Delivering, ExclusiveInv', NEW w \in Workers, NEW s, NEW o, NEW r, NEW L, NEW M,
         Chosen(w, s, o, r, L, M), NEW p \in Seq(Ops), Works(w, s, p), Unmoved,
         M.dst = L.dst \/ (M.dst = NoStream /\ mode[dst[s]] = "killed"),
         NEW x \in {-1, 0, 1}, Live(L.mode) => Channel(s, x),
         NEW y, Phase(M, s, y), y = x \/ (y = 0 /\ ~Live(L.mode)), OwnCloses(p, s),
         NEW T, Passes(L, M, s, T), \A t \in Streams : Live(mode[t]) => t \in T
  PROVE  Flowing' /\ Hidden
<1>1. /\ s \in Streams /\ Splits(L.a, o, r) /\ TypedLocal(L) /\ M.a = p \o r
      /\ States(L, M, s) /\ mode[s] # "none" /\ agenda'[Main] = agenda[Main]
      /\ \A u \in Streams : u # s => Local(u)' = Local(u)
  BY WorksFacts
<1>2. M.mode = L.mode /\ M.ref = L.ref /\ M.sent = L.sent
  BY <1>1, UnmovedTurn
<1>3. Steady(s)
  BY <1>1, <1>2, WorksSteady
<1>4. Typed' /\ got' = got /\ tasks' = tasks
  BY DEF ExclusiveInv, Unmoved
<1>5. y \in {-1, 0, 1} /\ (Live(L.mode) => M.ref - y = L.ref - x)
  BY <1>2
<1>6. L = Local(s) /\ M = Local(s)'
  BY DEF Chosen
<1> QED
  BY <1>1, <1>2, <1>3, <1>4, <1>5, <1>6, TurnKeeps

\* strm_task_push
LEMMA WorkerPush ==
  ASSUME Delivering, ExclusiveInv', NEW w \in Workers, NEW s, NEW o, NEW r, NEW L, NEW M,
         Chosen(w, s, o, r, L, M), Push(w)
  PROVE  Flowing' /\ Hidden
<1>1. o.op = "push" /\ o = Head(agenda[w])
  BY DEF Chosen, Push, At
<1>2. /\ s \in Streams /\ Splits(L.a, o, r) /\ TypedLocal(L) /\ Solid(L) /\ States(L, M, s)
      /\ \E x \in {-1, 0, 1} : Phase(L, s, x) /\ (Live(L.mode) => Channel(s, x))
  BY ChosenFacts
<1>3. PICK x \in {-1, 0, 1} : Phase(L, s, x) /\ (Live(L.mode) => Channel(s, x))
  BY <1>2
<1>5. PICK p : p = IF mode[o.s] \in {"killed", "dying"} THEN <<>> ELSE TaskAdd(o.s, o.f, o.d)
  OBVIOUS
<1>6. Continue(w, p) /\ Unmoved /\ dst' = dst
  <2>1. Continue(w, p)
    BY <1>1, <1>5, Zenon DEF Push
  <2> QED
    BY <2>1 DEF Push, Unmoved, sharedVars, streamVars, historyVars
<1>7. Works(w, s, p)
  BY <1>6, UnmovedWorks
<1>8. M.a = p \o r
  BY <1>7, WorksFacts
<1>9. Turns(L, M, p \o r) /\ M.dst = L.dst
  BY <1>2, <1>6, <1>8, UnmovedTurn, ZenonT(40)
<1>10. PICK T : T = {t \in Streams : Live(mode[t])}
  OBVIOUS
<1>11. Phase(M, s, x) /\ Passes(L, M, s, T) /\ OwnCloses(p, s) /\ p \in Seq(Ops)
  <2>1. p \in {<<>>, TaskAdd(o.s, o.f, o.d)}
    BY <1>5
  <2>2. TaskAdd(o.s, o.f, o.d) # <<>>
    BY DEF TaskAdd
  <2>3. p = <<>> => o.s \notin T
    BY <2>2, <1>5, <1>10 DEF Live
  <2>4. p = <<>> => o.s \notin T
    BY <2>3
  <2>5. s \in Streams /\ TypedLocal(L) /\ Phase(L, s, x) /\ Splits(L.a, o, r) /\ o.op = "push"
        /\ Turns(L, M, p \o r) /\ M.dst = L.dst
    BY <1>1, <1>2, <1>3, <1>9
  <2> HIDE <1>5
  <2> QED
    BY <2>1, <2>4, <2>5, PushLocal
<1>12. \A t \in Streams : Live(mode[t]) => t \in T
  BY <1>10
<1> QED
  BY <1>3, <1>6, <1>7, <1>9, <1>11, <1>12, UnmovedKeeps

\* The global queues are not part of it.
LEMMA WorkerAddStream ==
  ASSUME Delivering, ExclusiveInv', NEW w \in Workers, NEW s, NEW o, NEW r, NEW L, NEW M,
         Chosen(w, s, o, r, L, M), AddStream(w)
  PROVE  Flowing' /\ Hidden
<1>1. o.op = "addStream" /\ o = Head(agenda[w])
  BY DEF Chosen, AddStream, At
<1>2. /\ s \in Streams /\ Splits(L.a, o, r) /\ TypedLocal(L) /\ Solid(L) /\ States(L, M, s)
      /\ \E x \in {-1, 0, 1} : Phase(L, s, x) /\ (Live(L.mode) => Channel(s, x))
  BY ChosenFacts
<1>3. PICK x \in {-1, 0, 1} : Phase(L, s, x) /\ (Live(L.mode) => Channel(s, x))
  BY <1>2
<1>6. Return(w) /\ Unmoved /\ dst' = dst
  <2>1. Return(w)
    BY Zenon DEF AddStream
  <2> QED
    BY <2>1 DEF AddStream, Unmoved, sharedVars, streamVars, historyVars
<1>7. PICK p : p = <<>> /\ Works(w, s, p)
  <2>1. Return(w) /\ Unmoved /\ \A u \in Streams : u # s => dst'[u] = dst[u]
    BY <1>6
  <2> QED
    BY <2>1, UnmovedReturns, Zenon
<1>8. M.a = p \o r /\ M.a = <<>> \o r
  <2>1. Works(w, s, p)
    BY <1>7
  <2>2. M.a = p \o r
    BY <2>1, WorksFacts
  <2> QED
    BY <2>2, <1>7
<1>9. Turns(L, M, <<>> \o r) /\ M.dst = L.dst
  BY <1>2, <1>6, <1>8, UnmovedTurn
<1>11. Phase(M, s, x) /\ Passes(L, M, s, Streams)
  BY <1>1, <1>2, <1>3, <1>9, AddStreamLocal
<1>12. OwnCloses(p, s) /\ p \in Seq(Ops) /\ \A t \in Streams : Live(mode[t]) => t \in Streams
  BY <1>7, ShortFacts, ShortAgendas
<1> QED
  BY <1>3, <1>6, <1>7, <1>9, <1>11, <1>12, UnmovedKeeps

\* One of the other streams is next.
LEMMA WorkerEmitRest ==
  ASSUME Delivering, ExclusiveInv', NEW w \in Workers, NEW s, NEW o, NEW r, NEW L, NEW M,
         Chosen(w, s, o, r, L, M), EmitRest(w)
  PROVE  Flowing' /\ Hidden
<1>1. o.op = "emitRest" /\ o = Head(agenda[w])
  BY DEF Chosen, EmitRest, At
<1>2. /\ s \in Streams /\ Splits(L.a, o, r) /\ TypedLocal(L) /\ Solid(L) /\ States(L, M, s)
      /\ \E x \in {-1, 0, 1} : Phase(L, s, x) /\ (Live(L.mode) => Channel(s, x))
  BY ChosenFacts
<1>3. PICK x \in {-1, 0, 1} : Phase(L, s, x) /\ (Live(L.mode) => Channel(s, x))
  BY <1>2
<1>4. o.s = s /\ L.rest = rest[o.s]
  <2>1. \E i : AtRest(L, L.a, s, i)
    BY <1>1, <1>2, <1>3 DEF Phase, Splits
  <2>2. o.s = s
    BY <2>1, <1>2 DEF AtRest, Is, Splits, EmitRestOp
  <2> QED
    BY <2>2, <1>2 DEF States
<1>5. PICK p : p = IF o.i > Len(L.rest) THEN <<>>
                   ELSE <<PushOp(L.rest[o.i], "start", o.d), EmitRestOp(o.s, o.d, o.i + 1)>>
  OBVIOUS
<1>6. Continue(w, p) /\ Unmoved /\ dst' = dst
  <2>1. Continue(w, p)
    BY <1>1, <1>4, <1>5, Zenon DEF EmitRest
  <2> QED
    BY <2>1 DEF EmitRest, Unmoved, sharedVars, streamVars, historyVars
<1>7. Works(w, s, p)
  BY <1>6, UnmovedWorks
<1>8. M.a = p \o r
  BY <1>7, WorksFacts
<1>9. Turns(L, M, p \o r) /\ M.dst = L.dst
  BY <1>2, <1>6, <1>8, UnmovedTurn, ZenonT(40)
<1>11. Phase(M, s, x) /\ Passes(L, M, s, Streams) /\ OwnCloses(p, s) /\ p \in Seq(Ops)
  <2>1. /\ o.i > Len(L.rest) => p = <<>>
        /\ ~(o.i > Len(L.rest)) => p = <<PushOp(L.rest[o.i], "start", o.d), EmitRestOp(o.s, o.d, o.i + 1)>>
    BY <1>5
  <2> QED
    BY <2>1, <1>1, <1>2, <1>3, <1>9, EmitRestLocal
<1>12. \A t \in Streams : Live(mode[t]) => t \in Streams
  OBVIOUS
<1> QED
  BY <1>3, <1>6, <1>7, <1>9, <1>11, <1>12, UnmovedKeeps

LEMMA WorkerCloseRest ==
  ASSUME Delivering, ExclusiveInv', NEW w \in Workers, NEW s, NEW o, NEW r, NEW L, NEW M,
         Chosen(w, s, o, r, L, M), CloseRest(w)
  PROVE  Flowing' /\ Hidden
<1>1. o.op = "closeRest" /\ o = Head(agenda[w])
  BY DEF Chosen, CloseRest, At
<1>2. /\ s \in Streams /\ Splits(L.a, o, r) /\ TypedLocal(L) /\ Solid(L) /\ States(L, M, s)
      /\ \E x \in {-1, 0, 1} : Phase(L, s, x) /\ (Live(L.mode) => Channel(s, x))
  BY ChosenFacts
<1>3. PICK x \in {-1, 0, 1} : Phase(L, s, x) /\ (Live(L.mode) => Channel(s, x))
  BY <1>2
<1>4. o.s = s /\ L.rest = rest[o.s]
  <2>1. \E i : AtCloseRest(L.a, s, i)
    BY <1>1, <1>2, <1>3 DEF Phase, Splits
  <2>2. o.s = s
    BY <2>1, <1>2 DEF AtCloseRest, Is, Splits, CloseRestOp
  <2> QED
    BY <2>2, <1>2 DEF States
<1>5. PICK p : p = IF o.i > Len(L.rest) THEN <<>>
                   ELSE <<PushOp(L.rest[o.i], "close", Nil), CloseRestOp(o.s, o.i + 1)>>
  OBVIOUS
<1>6. Continue(w, p) /\ Unmoved /\ dst' = dst
  <2>1. Continue(w, p)
    BY <1>1, <1>4, <1>5, Zenon DEF CloseRest
  <2> QED
    BY <2>1 DEF CloseRest, Unmoved, sharedVars, streamVars, historyVars
<1>7. Works(w, s, p)
  BY <1>6, UnmovedWorks
<1>8. M.a = p \o r
  BY <1>7, WorksFacts
<1>9. Turns(L, M, p \o r) /\ M.dst = L.dst
  BY <1>2, <1>6, <1>8, UnmovedTurn, ZenonT(40)
<1>11. Phase(M, s, x) /\ Passes(L, M, s, Streams) /\ OwnCloses(p, s) /\ p \in Seq(Ops)
  <2>1. /\ o.i > Len(L.rest) => p = <<>>
        /\ ~(o.i > Len(L.rest)) => p = <<PushOp(L.rest[o.i], "close", Nil), CloseRestOp(o.s, o.i + 1)>>
    BY <1>5
  <2> QED
    BY <2>1, <1>1, <1>2, <1>3, <1>9, CloseRestLocal
<1>12. \A t \in Streams : Live(mode[t]) => t \in Streams
  OBVIOUS
<1> QED
  BY <1>3, <1>6, <1>7, <1>9, <1>11, <1>12, UnmovedKeeps

LEMMA WorkerCountDown ==
  ASSUME Delivering, ExclusiveInv', NEW w \in Workers, NEW s, NEW o, NEW r, NEW L, NEW M,
         Chosen(w, s, o, r, L, M), CountDown(w)
  PROVE  Flowing' /\ Hidden
<1>1. o.op = "countDown" /\ o = Head(agenda[w])
  BY DEF Chosen, CountDown, At
<1>2. /\ s \in Streams /\ Splits(L.a, o, r) /\ TypedLocal(L) /\ Solid(L) /\ States(L, M, s)
      /\ \E x \in {-1, 0, 1} : Phase(L, s, x) /\ (Live(L.mode) => Channel(s, x))
  BY ChosenFacts
<1>3. PICK x \in {-1, 0, 1} : Phase(L, s, x) /\ (Live(L.mode) => Channel(s, x))
  BY <1>2
<1>6. Return(w) /\ Unmoved /\ dst' = dst
  <2>1. Return(w)
    BY Zenon DEF CountDown
  <2> QED
    BY <2>1 DEF CountDown, Unmoved, sharedVars, streamVars, historyVars
<1>7. PICK p : p = <<>> /\ Works(w, s, p)
  <2>1. Return(w) /\ Unmoved /\ \A u \in Streams : u # s => dst'[u] = dst[u]
    BY <1>6
  <2> QED
    BY <2>1, UnmovedReturns, Zenon
<1>8. M.a = p \o r /\ M.a = <<>> \o r
  <2>1. Works(w, s, p)
    BY <1>7
  <2>2. M.a = p \o r
    BY <2>1, WorksFacts
  <2> QED
    BY <2>2, <1>7
<1>9. Turns(L, M, <<>> \o r) /\ M.dst = L.dst
  BY <1>2, <1>6, <1>8, UnmovedTurn
<1>11. Phase(M, s, 0) /\ Passes(L, M, s, Streams) /\ ~Live(L.mode)
  BY <1>1, <1>2, <1>3, <1>9, CountDownLocal DEF Live
<1>12. OwnCloses(p, s) /\ p \in Seq(Ops) /\ \A t \in Streams : Live(mode[t]) => t \in Streams
  BY <1>7, ShortFacts, ShortAgendas
<1> QED
  BY <1>3, <1>6, <1>7, <1>9, <1>11, <1>12, UnmovedKeeps

\* The end of the execution.
LEMMA WorkerAfter ==
  ASSUME Delivering, ExclusiveInv', NEW w \in Workers, NEW s, NEW o, NEW r, NEW L, NEW M,
         Chosen(w, s, o, r, L, M), After(w)
  PROVE  Flowing' /\ Hidden
<1>1. o.op = "after" /\ o = Head(agenda[w])
  BY DEF Chosen, After, At
<1>2. /\ s \in Streams /\ Splits(L.a, o, r) /\ TypedLocal(L) /\ Solid(L) /\ States(L, M, s)
      /\ \E x \in {-1, 0, 1} : Phase(L, s, x) /\ (Live(L.mode) => Channel(s, x))
  BY ChosenFacts
<1>3. PICK x \in {-1, 0, 1} : Phase(L, s, x) /\ (Live(L.mode) => Channel(s, x))
  BY <1>2
<1>4. o.s = s
  <2>1. AtAfter(L.a, s)
    BY <1>1, <1>2, <1>3 DEF Phase, Splits
  <2> QED
    BY <2>1, <1>2 DEF AtAfter, Is, Splits, AfterOp
<1>5. PICK p : p = IF mode[o.s] = "dying" THEN <<CloseOp(o.s)>> ELSE <<>>
  OBVIOUS
<1>6. Continue(w, p) /\ Unmoved /\ dst' = dst
  <2>1. Continue(w, p)
    BY <1>1, <1>5, Zenon DEF After
  <2> QED
    BY <2>1 DEF After, Unmoved, sharedVars, streamVars, historyVars
<1>7. Works(w, s, p)
  BY <1>6, UnmovedWorks
<1>8. M.a = p \o r
  BY <1>7, WorksFacts
<1>9. Turns(L, M, p \o r) /\ M.dst = L.dst
  BY <1>2, <1>6, <1>8, UnmovedTurn, ZenonT(40)
<1>11. Phase(M, s, 0) /\ Passes(L, M, s, Streams) /\ OwnCloses(p, s) /\ p \in Seq(Ops) /\ x = 0
  <2>1. /\ L.mode = "dying" => p = <<CloseOp(s)>>
        /\ L.mode # "dying" => p = <<>>
    BY <1>2, <1>4, <1>5 DEF States
  <2> QED
    BY <2>1, <1>1, <1>2, <1>3, <1>9, AfterLocal
<1>12. \A t \in Streams : Live(mode[t]) => t \in Streams
  OBVIOUS
<1> QED
  BY <1>3, <1>6, <1>7, <1>9, <1>11, <1>12, UnmovedKeeps

\* A killed dst is forgotten.
LEMMA WorkerDropDst ==
  ASSUME Delivering, ExclusiveInv', NEW w \in Workers, NEW s, NEW o, NEW r, NEW L, NEW M,
         Chosen(w, s, o, r, L, M), DropDst(w)
  PROVE  Flowing' /\ Hidden
<1>1. o.op = "dropDst" /\ o = Head(agenda[w])
  BY DEF Chosen, DropDst, At
<1>2. /\ s \in Streams /\ Splits(L.a, o, r) /\ TypedLocal(L) /\ States(L, M, s)
      /\ \E x \in {-1, 0, 1} : Phase(L, s, x) /\ (Live(L.mode) => Channel(s, x))
  BY ChosenFacts
<1>3. PICK x \in {-1, 0, 1} : Phase(L, s, x) /\ (Live(L.mode) => Channel(s, x))
  BY <1>2
<1>4. o.s = s
  <2>1. AtDrop(L, L.a, s)
    BY <1>1, <1>2, <1>3 DEF Phase, Splits
  <2> QED
    BY <2>1, <1>2 DEF AtDrop, Is, Splits, DropDstOp
<1>5. /\ dst'[s] = dst[s] \/ (dst'[s] = NoStream /\ mode[dst[s]] = "killed")
      /\ \A u \in Streams : u # s => dst'[u] = dst[u]
  <2>1. dst \in [Streams -> Streams \union {NoStream}]
    BY DEF Delivering, ExclusiveInv, Typed, TypeOK, StreamsOK
  <2>2. dst' = [dst EXCEPT ![s] = IF mode[@] = "killed" THEN NoStream ELSE @]
    BY <1>1, <1>4, Zenon DEF DropDst
  <2> QED
    BY <2>1, <2>2, <1>2
<1>6. Return(w) /\ Unmoved
  <2>1. Return(w)
    BY Zenon DEF DropDst
  <2> QED
    BY <2>1 DEF DropDst, Unmoved, sharedVars, streamVars, historyVars
<1>7. PICK p : p = <<>> /\ Works(w, s, p)
  <2>1. Return(w) /\ Unmoved /\ \A u \in Streams : u # s => dst'[u] = dst[u]
    BY <1>5, <1>6
  <2> QED
    BY <2>1, UnmovedReturns, Zenon
<1>8. M.a = p \o r /\ M.a = <<>> \o r
  <2>1. Works(w, s, p)
    BY <1>7
  <2>2. M.a = p \o r
    BY <2>1, WorksFacts
  <2> QED
    BY <2>2, <1>7
<1>9. Turns(L, M, <<>> \o r)
  BY <1>2, <1>6, <1>8, UnmovedTurn
<1>10. M.dst = L.dst \/ (M.dst = NoStream /\ mode[dst[s]] = "killed")
  BY <1>2, <1>5 DEF States
<1>11. Phase(M, s, x) /\ Passes(L, M, s, Streams)
  BY <1>1, <1>2, <1>3, <1>9, DropDstLocal
<1>12. OwnCloses(p, s) /\ p \in Seq(Ops) /\ \A t \in Streams : Live(mode[t]) => t \in Streams
  BY <1>7, ShortFacts, ShortAgendas
<1> QED
  BY <1>3, <1>6, <1>7, <1>10, <1>11, <1>12, UnmovedKeeps

\* The same of a step that changes a number or a count.
LEMMA WorksKeeps ==
  ASSUME Delivering, ExclusiveInv', NEW w \in Workers, NEW s, NEW o, NEW r, NEW L, NEW M,
         Chosen(w, s, o, r, L, M), NEW p \in Seq(Ops), Works(w, s, p), tasks' = tasks, dst' = dst,
         M.mode = L.mode, M.sent = L.sent,
         NEW x \in {-1, 0, 1}, Live(L.mode) => Channel(s, x),
         NEW y \in {-1, 0, 1}, Phase(M, s, y), Live(L.mode) => M.ref - y = L.ref - x, OwnCloses(p, s),
         Passes(L, M, s, Streams)
  PROVE  Flowing' /\ Hidden
<1>1. /\ s \in Streams /\ Splits(L.a, o, r) /\ TypedLocal(L) /\ M.a = p \o r
      /\ States(L, M, s) /\ mode[s] # "none" /\ agenda'[Main] = agenda[Main]
      /\ \A u \in Streams : u # s => Local(u)' = Local(u)
  BY WorksFacts
<1>2. M.dst = L.dst
  BY <1>1 DEF States
<1>3. Steady(s)
  BY <1>1, <1>2, WorksSteady
<1>4. Typed' /\ got' = got
  BY DEF ExclusiveInv, Works
<1>5. L = Local(s) /\ M = Local(s)'
  BY DEF Chosen
<1>6. PICK T : T = Streams
  OBVIOUS
<1>7. Passes(L, M, s, T) /\ \A t \in Streams : Live(mode[t]) => t \in T
  BY <1>6
<1> QED
  BY <1>1, <1>3, <1>4, <1>5, <1>7, TurnKeeps

LEMMA OwnHead ==
  ASSUME NEW s, NEW L, TypedLocal(L), NEW x, Phase(L, s, x),
         NEW o, NEW r, Splits(L.a, o, r), o.op \in {"seqNext", "takeNext", "close", "closeDst"}
  PROVE  o.s = s
<1>1. CASE o.op \in {"seqNext", "takeNext"}
  <2>1. Counting(L, s, x)
    BY <1>1 DEF Phase, Splits
  <2>2. Is(L.a, SeqNextOp(s)) \/ Is(L.a, TakeNextOp(s))
    BY <2>1 DEF Counting, Emitted
  <2> QED
    BY <2>2 DEF Is, Splits, SeqNextOp, TakeNextOp
<1>2. CASE o.op = "close"
  <2>1. Stopping(L, s, x)
    BY <1>2 DEF Phase, Splits
  <2> QED
    BY <2>1 DEF Stopping, Splits, CloseOp, KillOp
<1>3. CASE o.op = "closeDst"
  <2>1. Left(L, L.a, s, 0)
    BY <1>3 DEF Phase, Splits
  <2>2. L.a[1] = CloseDstOp(s)
    BY <2>1 DEF Left
  <2>3. o = L.a[1]
    BY HeadTail DEF Splits
  <2> QED
    BY <2>2, <2>3 DEF CloseDstOp
<1> QED
  BY <1>1, <1>2, <1>3

\* The generator's next number.
LEMMA WorkerSeqNext ==
  ASSUME Delivering, ExclusiveInv', NEW w \in Workers, NEW s, NEW o, NEW r, NEW L, NEW M,
         Chosen(w, s, o, r, L, M), SeqNext(w)
  PROVE  Flowing' /\ Hidden
<1>1. o.op = "seqNext" /\ o = Head(agenda[w])
  BY DEF Chosen, SeqNext, At
<1>2. /\ s \in Streams /\ Splits(L.a, o, r) /\ TypedLocal(L) /\ States(L, M, s)
      /\ \E x \in {-1, 0, 1} : Phase(L, s, x) /\ (Live(L.mode) => Channel(s, x))
  BY ChosenFacts
<1>3. PICK x \in {-1, 0, 1} : Phase(L, s, x) /\ (Live(L.mode) => Channel(s, x))
  BY <1>2
<1>4. o.s = s
  BY <1>1, <1>2, <1>3, OwnHead
<1>5. n'[s] = n[s] + 1 /\ \A u \in Streams : u # s => n'[u] = n[u]
  <2>1. n' = [n EXCEPT ![s] = @ + 1]
    BY <1>1, <1>4, Zenon DEF SeqNext
  <2>2. n \in [Streams -> Int]
    BY DEF Delivering, ExclusiveInv, Typed, TypeOK, StreamsOK
  <2> QED
    BY <2>1, <2>2, <1>2
<1>6. Return(w) /\ tasks' = tasks /\ dst' = dst /\ mode' = mode /\ refcnt' = refcnt /\ sent' = sent
      /\ program' = program /\ kind' = kind /\ limit' = limit /\ rest' = rest /\ got' = got
  <2>1. Return(w)
    BY Zenon DEF SeqNext
  <2> QED
    BY <2>1 DEF SeqNext, sharedVars, streamVars, historyVars
<1>7. PICK p : p = <<>> /\ Works(w, s, p)
  <2>1. pc' = pc /\ cur' = cur /\ agenda' = [agenda EXCEPT ![w] = <<>> \o Tail(@)]
    BY <1>6, Zenon DEF Return, Continue
  <2>2. Works(w, s, <<>>)
    BY <2>1, <1>5, <1>6, Zenon DEF Works
  <2> QED
    BY <2>2
<1>8. M.a = <<>> \o r
  <2>1. Works(w, s, p)
    BY <1>7
  <2>2. M.a = p \o r
    BY <2>1, WorksFacts
  <2> QED
    BY <2>2, <1>7
<1>9. Counts(L, M, <<>> \o r) /\ M.n = L.n + 1
  BY <1>2, <1>5, <1>6, <1>8 DEF States, Counts
<1>10. Phase(M, s, 0) /\ Passes(L, M, s, Streams) /\ (Live(L.mode) => x = 0)
  BY <1>1, <1>2, <1>3, <1>9, SeqNextLocal
<1>11. OwnCloses(p, s) /\ p \in Seq(Ops)
  BY <1>7, ShortFacts, ShortAgendas
<1>12. M.mode = L.mode /\ M.sent = L.sent /\ M.ref = L.ref
  BY <1>9 DEF Counts
<1>13. PICK y : y = 0
  OBVIOUS
<1>14. y \in {-1, 0, 1} /\ Phase(M, s, y) /\ (Live(L.mode) => M.ref - y = L.ref - x)
  BY <1>10, <1>12, <1>13
<1>15. Works(w, s, p)
  BY <1>7
<1> HIDE <1>7, <1>13
<1> QED
  BY <1>3, <1>6, <1>10, <1>11, <1>12, <1>14, <1>15, WorksKeeps

\* The count of take.
LEMMA WorkerTakeNext ==
  ASSUME Delivering, ExclusiveInv', NEW w \in Workers, NEW s, NEW o, NEW r, NEW L, NEW M,
         Chosen(w, s, o, r, L, M), TakeNext(w)
  PROVE  Flowing' /\ Hidden
<1>1. o.op = "takeNext" /\ o = Head(agenda[w])
  BY DEF Chosen, TakeNext, At
<1>2. /\ s \in Streams /\ Splits(L.a, o, r) /\ TypedLocal(L) /\ States(L, M, s)
      /\ \E x \in {-1, 0, 1} : Phase(L, s, x) /\ (Live(L.mode) => Channel(s, x))
  BY ChosenFacts
<1>3. PICK x \in {-1, 0, 1} : Phase(L, s, x) /\ (Live(L.mode) => Channel(s, x))
  BY <1>2
<1>4. o.s = s
  BY <1>1, <1>2, <1>3, OwnHead
<1>5. n'[s] = n[s] - 1 /\ \A u \in Streams : u # s => n'[u] = n[u]
  <2>1. n' = [n EXCEPT ![s] = @ - 1]
    BY <1>1, <1>4, Zenon DEF TakeNext
  <2>2. n \in [Streams -> Int]
    BY DEF Delivering, ExclusiveInv, Typed, TypeOK, StreamsOK
  <2> QED
    BY <2>1, <2>2, <1>2
<1>6. PICK p : p = IF n[s] = 1 THEN <<CloseOp(s)>> ELSE <<>>
  OBVIOUS
<1>7. Continue(w, p) /\ tasks' = tasks /\ dst' = dst /\ mode' = mode /\ refcnt' = refcnt /\ sent' = sent
      /\ program' = program /\ kind' = kind /\ limit' = limit /\ rest' = rest /\ got' = got
  <2>1. Continue(w, p)
    BY <1>1, <1>4, <1>6, Zenon DEF TakeNext
  <2> QED
    BY <2>1 DEF TakeNext, sharedVars, streamVars, historyVars
<1>8. Works(w, s, p)
  <2>1. pc' = pc /\ cur' = cur /\ agenda' = [agenda EXCEPT ![w] = p \o Tail(@)]
    BY <1>7, Zenon DEF Continue
  <2> QED
    BY <2>1, <1>5, <1>7, Zenon DEF Works
<1>9. M.a = p \o r
  BY <1>8, WorksFacts
<1>10. Counts(L, M, p \o r) /\ M.n = L.n - 1
  BY <1>2, <1>5, <1>7, <1>9 DEF States, Counts
<1>11. Phase(M, s, 0) /\ Passes(L, M, s, Streams) /\ (Live(L.mode) => x = 0) /\ OwnCloses(p, s) /\ p \in Seq(Ops)
  <2>1. (L.n = 1 => p = <<CloseOp(s)>>) /\ (L.n # 1 => p = <<>>)
    BY <1>2, <1>6 DEF States
  <2> HIDE <1>6
  <2> QED
    BY <2>1, <1>1, <1>2, <1>3, <1>10, TakeNextLocal
<1>12. M.mode = L.mode /\ M.sent = L.sent /\ M.ref = L.ref
  BY <1>10 DEF Counts
<1>13. PICK y : y = 0
  OBVIOUS
<1>14. y \in {-1, 0, 1} /\ Phase(M, s, y) /\ (Live(L.mode) => M.ref - y = L.ref - x)
  BY <1>11, <1>12, <1>13
<1> QED
  BY <1>3, <1>7, <1>8, <1>11, <1>12, <1>14, WorksKeeps

\* One close less is awaited.
OneLess(L, M, s, r) ==
  /\ M.a = <<KillOp(s, L.mode)>> \o r /\ M.rest = L.rest /\ M.mode = L.mode /\ M.ref = L.ref - 1
  /\ SameWork(L, M)

LEMMA OneLessLocal ==
  ASSUME NEW s \in Streams, NEW L, TypedLocal(L), NEW x \in {-1, 0, 1}, Phase(L, s, x),
         NEW o, NEW r, Splits(L.a, o, r), o.op = "close", NEW M, OneLess(L, M, s, r)
  PROVE  /\ \E y \in {-1, 0, 1} : Phase(M, s, y) /\ (Live(M.mode) => M.ref - y = L.ref - x)
         /\ Passes(L, M, s, Streams) /\ OwnCloses(<<KillOp(s, L.mode)>>, s)
BY CloseLocal, SMTT(30) DEF OneLess

\* A close is counted.
LEMMA WorkerClose ==
  ASSUME Delivering, ExclusiveInv', NEW w \in Workers, NEW s, NEW o, NEW r, NEW L, NEW M,
         Chosen(w, s, o, r, L, M), Close(w)
  PROVE  Flowing' /\ Hidden
<1>1. o.op = "close" /\ o = Head(agenda[w])
  BY DEF Chosen, Close, At
<1>2. /\ s \in Streams /\ Splits(L.a, o, r) /\ TypedLocal(L) /\ States(L, M, s)
      /\ \E x \in {-1, 0, 1} : Phase(L, s, x) /\ (Live(L.mode) => Channel(s, x))
  BY ChosenFacts
<1>3. PICK x \in {-1, 0, 1} : Phase(L, s, x) /\ (Live(L.mode) => Channel(s, x))
  BY <1>2
<1>4. o.s = s /\ mode[s] # "killed"
  <2>1. o.s = s
    BY <1>1, <1>2, <1>3, OwnHead
  <2>2. Stopping(L, s, x)
    BY <1>1, <1>2, <1>3 DEF Phase, Splits
  <2> QED
    BY <2>1, <2>2, <1>2 DEF Stopping, Stopped, Live, States
<1>5. refcnt'[s] = refcnt[s] - 1 /\ \A u \in Streams : u # s => refcnt'[u] = refcnt[u]
  <2>1. refcnt' = [refcnt EXCEPT ![s] = @ - 1]
    BY <1>1, <1>4, Zenon DEF Close
  <2>2. refcnt \in [Streams -> Int]
    BY DEF Delivering, ExclusiveInv, Typed, TypeOK, StreamsOK
  <2> QED
    BY <2>1, <2>2, <1>2
<1>6. PICK p : p = <<KillOp(s, mode[s])>>
  OBVIOUS
<1>7. Continue(w, p) /\ tasks' = tasks /\ dst' = dst /\ mode' = mode /\ n' = n /\ sent' = sent
      /\ program' = program /\ kind' = kind /\ limit' = limit /\ rest' = rest /\ got' = got
  <2>1. Continue(w, p)
    BY <1>1, <1>4, <1>6, Zenon DEF Close
  <2> QED
    BY <2>1 DEF Close, sharedVars, streamVars, historyVars
<1>8. Works(w, s, p)
  <2>1. pc' = pc /\ cur' = cur /\ agenda' = [agenda EXCEPT ![w] = p \o Tail(@)]
    BY <1>7, Zenon DEF Continue
  <2> QED
    BY <2>1, <1>5, <1>7, Zenon DEF Works
<1>9. M.a = p \o r
  <2> HIDE <1>6
  <2> QED
    BY <1>8, WorksFacts
<1>10. OneLess(L, M, s, r)
  <2>1. L.mode = mode[s]
    BY <1>2 DEF States
  <2>2. M.a = <<KillOp(s, L.mode)>> \o r
    BY <2>1, <1>6, <1>9, Zenon
  <2> QED
    BY <2>2, <1>2, <1>5, <1>7 DEF States, SameWork, OneLess
<1>11. /\ \E y \in {-1, 0, 1} : Phase(M, s, y) /\ (Live(M.mode) => M.ref - y = L.ref - x)
       /\ Passes(L, M, s, Streams) /\ OwnCloses(<<KillOp(s, L.mode)>>, s)
  BY <1>1, <1>2, <1>3, <1>10, OneLessLocal
<1>12. PICK y \in {-1, 0, 1} : Phase(M, s, y) /\ (Live(M.mode) => M.ref - y = L.ref - x)
  BY <1>11
<1>13. OwnCloses(p, s) /\ p \in Seq(Ops)
  <2>1. L.mode = mode[s] /\ mode[s] \in Modes
    BY <1>2 DEF States, TypedLocal
  <2>2. KillOp(s, mode[s]) \in Ops
    BY <2>1, <1>2, OpTypes DEF KillOp
  <2>3. <<KillOp(s, mode[s])>> \in Seq(Ops)
    BY <2>2
  <2> QED
    BY <2>1, <2>3, <1>6, <1>11
<1>14. M.mode = L.mode /\ M.sent = L.sent
  BY <1>10 DEF SameWork, OneLess
<1> HIDE <1>6
<1> QED
  BY <1>3, <1>7, <1>8, <1>11, <1>12, <1>13, <1>14, WorksKeeps

-----------------------------------------------------------------------------
(* The last close.                                                         *)

LEMMA ReadyFacts ==
  ASSUME Flowing, NEW s \in Streams, mode[s] # "none", Ready(s)
  PROVE  /\ kind[s] = KindOf(s) /\ limit[s] = LimitOf(s) /\ s \in Created(program, Len(program))
         /\ UnRefs(s) = {}
<1>1. Given /\ kind[s] = KindOf(s) /\ limit[s] = LimitOf(s)
  BY DEF Flowing, Kinded
<1>2. s \in Created(program, Len(program))
  <2>1. PICK k \in 0..Len(program) : MainAt(k)
    BY DEF Flowing, MainOK
  <2>2. s \in Created(program, k)
    BY <2>1 DEF MainAt
  <2>3. PICK i \in 1..k : program[i].op = "new" /\ program[i].s = s
    BY <2>2, <1>1, CreatedBy
  <2>4. Len(program) \in 0..Len(program) /\ i \in 1..Len(program)
    BY <2>1, <2>3, <1>1
  <2> QED
    BY <2>3, <2>4, <1>1, CreatedBy
<1>3. UnRefs(s) = {}
  BY DEF UnRefs, Ready, Ups
<1> QED
  BY <1>1, <1>2, <1>3

LEMMA Awaits ==
  ASSUME Flowing, Typed, NEW s \in Streams, mode[s] # "none", Ready(s), NEW x \in {-1, 0, 1}, Channel(s, x)
  PROVE  /\ refcnt[s] \in Int /\ refcnt[s] - x \in Nat
         /\ kind[s] = "seq" => refcnt[s] - x = 0
         /\ ~Lasting(program, s) => refcnt[s] - x <= 1
<1>1. /\ Given /\ kind[s] = KindOf(s) /\ s \in Created(program, Len(program)) /\ UnRefs(s) = {}
  BY ReadyFacts DEF Flowing
<1>2. refcnt[s] \in Int
  BY DEF Typed, TypeOK, StreamsOK
<1>3. Cardinality(UnRefs(s)) = 0
  BY <1>1, FS_EmptySet
<1>4. PICK m : m = refcnt[s] + Cardinality(UnRefs(s)) - x
  OBVIOUS
<1>5. m = refcnt[s] - x
  BY <1>2, <1>3, <1>4
<1>6. m \in Nat /\ m <= Cardinality(Ups(s))
  BY <1>4, ChanBound DEF Channel
<1>7. Cardinality(Ups(s)) \in Nat
  BY <1>1, UpsFinite
<1>8. kind[s] = "seq" => Cardinality(Ups(s)) = 0
  <2>1. ASSUME kind[s] = "seq"
        PROVE  Ups(s) = {}
    BY <2>1, <1>1, LinkTyped DEF Ups
  <2> QED
    BY <2>1, FS_EmptySet
<1>9. ~Lasting(program, s) => Cardinality(Ups(s)) <= 1
  BY <1>1, LastingFacts
<1> HIDE <1>4
<1> QED
  BY <1>2, <1>5, <1>6, <1>7, <1>8, <1>9

LEMMA LastClose ==
  ASSUME Flowing, Typed, NEW s \in Streams, mode[s] # "none", Ready(s), NEW x \in {-1, 0, 1}, Channel(s, x),
         refcnt[s] - x = 0
  PROVE  \A u \in Ups(s) : Gone(Local(u), u) /\ Count(got[s], From(u)) = Len(sent[u])
<1>1. /\ Given /\ UnRefs(s) = {}
  BY ReadyFacts DEF Flowing
<1>2. refcnt[s] \in Int /\ tasks[s] \in Seq(Tasks)
  BY DEF Typed, TypeOK, StreamsOK, QueuesOK
<1>3. refcnt[s] + Cardinality(UnRefs(s)) - x = 0
  BY <1>1, <1>2, FS_EmptySet
<1>4. PICK E : E = [u \in Ups(s) |-> From(u)]
  OBVIOUS
<1>5. PICK S : S = [u \in Ups(s) |-> sent[u]]
  OBVIOUS
<1>6. Chan(Ups(s), E, tasks[s], got[s], S, Flights(s), Open(s), 0)
  BY <1>3, <1>4, <1>5 DEF Channel
<1>7. Len(tasks[s]) \in Nat /\ IsFiniteSet(Ups(s))
  BY <1>1, <1>2, UpsFinite
<1>8. Open(s) = {} /\ \A u \in Ups(s) : Count(got[s], E[u]) = Len(S[u])
  BY <1>6, <1>7, ChanOver
<1> QED
  BY <1>4, <1>5, <1>8 DEF Open, Opens

-----------------------------------------------------------------------------
\* Stream s takes nothing more: what there was has been processed, or s has had
\* enough, or nobody listens.
Enough(s) ==
  /\ \/ /\ KindOf(s) # "seq"
        /\ \A u \in Ups(s) : Gone(Local(u), u) /\ Count(got[s], From(u)) = Len(sent[u])
     \/ KindOf(s) = "seq" /\ LimitOf(s) > 0 /\ Len(sent[s]) = LimitOf(s)
     \/ KindOf(s) = "take" /\ Len(got[s]) = LimitOf(s)
     \/ (\E t \in Streams : Link(s, t)) /\ \A t \in Streams : Link(s, t) => ~Live(mode[t])
  /\ KindOf(s) \in {"map", "take"} => Len(sent[s]) = Len(got[s])

Closed(s) ==
  /\ program' = program /\ sent' = sent /\ got' = got
  /\ mode[s] # "none" /\ Live(mode[s]) /\ ~Live(mode'[s]) /\ Enough(s)
  /\ \A u \in Streams : /\ u # s => (Live(mode'[u]) <=> Live(mode[u]))
                        /\ Gone(Local(u)', u) <=> Gone(Local(u), u)

\* The decision of strm_stream_close: others are awaited.
LEMMA WorkerAwaited ==
  ASSUME Delivering, ExclusiveInv', NEW w \in Workers, NEW s, NEW o, NEW r, NEW L, NEW M,
         Chosen(w, s, o, r, L, M), Kill(w), refcnt[s] > 0
  PROVE  Flowing' /\ Hidden
<1>1. o.op = "kill" /\ o = Head(agenda[w])
  BY DEF Chosen, Kill, At
<1>2. /\ s \in Streams /\ Splits(L.a, o, r) /\ TypedLocal(L) /\ States(L, M, s) /\ mode[s] # "none" /\ Ready(s)
      /\ \E x \in {-1, 0, 1} : Phase(L, s, x) /\ (Live(L.mode) => Channel(s, x))
  BY ChosenFacts
<1>3. PICK x \in {-1, 0, 1} : Phase(L, s, x) /\ (Live(L.mode) => Channel(s, x))
  BY <1>2
<1>4. o.s = s /\ Stopped(L, x, 0)
  BY <1>1, <1>2, <1>3, KillFacts, ZenonT(40)
<1>5. Return(w) /\ Unmoved /\ dst' = dst
  <2>1. Awaited(o.s)
    BY <1>4 DEF Awaited
  <2>2. Return(w) /\ mode' = mode
    BY <2>1, <1>1, Zenon DEF Kill
  <2> QED
    BY <2>2 DEF Kill, Unmoved, sharedVars, streamVars, historyVars
<1>6. PICK p : p = <<>> /\ Works(w, s, p)
  <2>1. Return(w) /\ Unmoved /\ \A u \in Streams : u # s => dst'[u] = dst[u]
    BY <1>5
  <2> QED
    BY <2>1, UnmovedReturns, Zenon
<1>7. M.a = p \o r /\ M.a = <<>> \o r
  <2>1. Works(w, s, p)
    BY <1>6
  <2>2. M.a = p \o r
    BY <2>1, WorksFacts
  <2> QED
    BY <2>2, <1>6
<1>8. Turns(L, M, <<>> \o r) /\ M.dst = L.dst
  BY <1>2, <1>5, <1>7, UnmovedTurn
<1>9. L.ref > 0 /\ (x = -1 => L.ref <= 0)
  <2>1. L.ref = refcnt[s] /\ L.kind = kind[s] /\ L.mode = mode[s]
    BY <1>2 DEF States
  <2>2. ASSUME x = -1
        PROVE  L.ref <= 0
    <3>1. CASE L.mode = "dying"
      BY <3>1, <2>2, <1>4 DEF Stopped, Live
    <3>2. CASE L.mode # "dying"
      <4>1. Live(L.mode) /\ (L.kind = "seq" \/ L.kind = "take")
        BY <3>2, <2>2, <1>4 DEF Stopped
      <4>2. Channel(s, x) /\ Flowing /\ Typed /\ Given
        BY <4>1, <1>3 DEF Delivering, ExclusiveInv, Flowing
      <4>3. /\ refcnt[s] \in Int /\ refcnt[s] - x \in Nat
            /\ kind[s] = "seq" => refcnt[s] - x = 0
            /\ ~Lasting(program, s) => refcnt[s] - x <= 1
        BY <4>2, <1>2, Awaits
      <4>4. L.kind = "take" => ~Lasting(program, s)
        BY <4>2, <2>1, <1>2, ReadyFacts, LastingFacts
      <4>5. refcnt[s] - x <= 1
        BY <4>1, <4>3, <4>4, <2>1
      <4> QED
        BY <4>3, <4>5, <2>1, <2>2
    <3> QED
      BY <3>1, <3>2
  <2> QED
    BY <2>1, <2>2
<1>10. Phase(M, s, 0) /\ Passes(L, M, s, Streams) /\ x = 0 /\ Live(L.mode)
  BY <1>1, <1>2, <1>3, <1>8, <1>9, AwaitedLocal
<1>11. Phase(M, s, x)
  BY <1>10
<1>12. OwnCloses(p, s) /\ p \in Seq(Ops) /\ \A t \in Streams : Live(mode[t]) => t \in Streams
  BY <1>6, ShortFacts, ShortAgendas
<1>13. Works(w, s, p)
  BY <1>6
<1>14. Passes(L, M, s, Streams)
  BY <1>10
<1> HIDE <1>6
<1> QED
  BY <1>3, <1>5, <1>8, <1>11, <1>12, <1>13, <1>14, UnmovedKeeps

\* Why it is killed.
LEMMA KilledEnough ==
  ASSUME Delivering, NEW s \in Streams, mode[s] # "none", Ready(s), NEW L, L = Local(s),
         NEW x \in {-1, 0, 1}, Live(L.mode) => Channel(s, x), Sums(L, 0, 0), Stopped(L, x, 0), L.ref <= 0
  PROVE  /\ Live(L.mode) => Enough(s)
         /\ Lasting(program, s) => \A u \in Ups(s) : Gone(Local(u), u)
<1>1. L.ref = refcnt[s] /\ L.kind = kind[s] /\ L.mode = mode[s] /\ L.limit = limit[s]
      /\ L.sent = sent[s] /\ L.got = got[s]
  BY DEF Local
<1>2. Flowing /\ Typed /\ Given /\ Lasts
  BY DEF Delivering, ExclusiveInv, Flowing
<1>3. kind[s] = KindOf(s) /\ limit[s] = LimitOf(s) /\ s \in Created(program, Len(program))
  BY <1>2, ReadyFacts
<1>4. Len(sent[s]) \in Nat /\ Len(got[s]) \in Nat
  BY <1>2 DEF Typed, TypeOK, HistoryOK
<1>5. KindOf(s) \in {"map", "take"} => Len(sent[s]) = Len(got[s])
  <2>1. L.kind \in {"map", "take"} => Len(L.sent) + 0 = Len(L.got)
    BY DEF Sums
  <2> QED
    BY <2>1, <1>1, <1>3, <1>4
<1>6. CASE L.mode = "dying"
  BY <1>6, <1>1, <1>2 DEF Lasts, Live
<1>7. CASE L.mode # "dying" /\ x = 0
  <2>1. Live(L.mode) /\ L.kind # "seq"
    BY <1>7 DEF Stopped
  <2>2. Channel(s, x)
    BY <2>1
  <2>3. refcnt[s] \in Int /\ refcnt[s] - x \in Nat
    BY <2>2, <1>2, Awaits
  <2>4. refcnt[s] - x = 0
    BY <2>3, <1>1, <1>7
  <2>5. \A u \in Ups(s) : Gone(Local(u), u) /\ Count(got[s], From(u)) = Len(sent[u])
    BY <2>2, <2>4, <1>2, LastClose
  <2> QED
    BY <2>1, <2>5, <1>1, <1>3, <1>5 DEF Enough
<1>8. CASE L.mode # "dying" /\ x # 0
  <2>1. Live(L.mode) /\ \/ L.kind = "seq" /\ L.limit > 0 /\ Len(L.sent) = L.limit
                        \/ L.kind = "take" /\ Len(L.got) = L.limit
    BY <1>8 DEF Stopped
  <2>2. Enough(s)
    BY <2>1, <1>1, <1>3, <1>5 DEF Enough
  <2>3. CASE L.kind = "seq"
    <3>1. Ups(s) = {}
      BY <2>3, <1>1, <1>2, <1>3, LinkTyped DEF Ups
    <3> QED
      BY <2>2, <3>1
  <2>4. CASE L.kind = "take"
    <3>1. ~Lasting(program, s)
      BY <2>4, <1>1, <1>2, <1>3, LastingFacts
    <3> QED
      BY <2>2, <3>1
  <2> QED
    BY <2>1, <2>3, <2>4
<1> QED
  BY <1>6, <1>7, <1>8

\* ... the last one: the stream is killed.
LEMMA WorkerKilled ==
  ASSUME Delivering, ExclusiveInv', NEW w \in Workers, NEW s, NEW o, NEW r, NEW L, NEW M,
         Chosen(w, s, o, r, L, M), Kill(w), ~(refcnt[s] > 0)
  PROVE  Flowing' /\ (Hidden \/ Closed(s))
<1>1. o.op = "kill" /\ o = Head(agenda[w])
  BY DEF Chosen, Kill, At
<1>2. /\ s \in Streams /\ Splits(L.a, o, r) /\ TypedLocal(L) /\ States(L, M, s) /\ mode[s] # "none" /\ Ready(s)
      /\ \E x \in {-1, 0, 1} : Phase(L, s, x) /\ (Live(L.mode) => Channel(s, x))
  BY ChosenFacts
<1>3. PICK x \in {-1, 0, 1} : Phase(L, s, x) /\ (Live(L.mode) => Channel(s, x))
  BY <1>2
<1>4. /\ o.s = s /\ o.mode = L.mode /\ AtEnd(r, s) /\ Sums(L, 0, 0) /\ Stopped(L, x, 0)
      /\ L.mode # "killed" /\ ~Gone(L, s) /\ Dues(L.a, L.rest, "start") = {}
  <2>1. o.s = s /\ AtEnd(r, s) /\ Sums(L, 0, 0) /\ Stopped(L, x, 0)
    BY <1>1, <1>2, <1>3, KillFacts, ZenonT(40)
  <2>2. ~Gone(L, s)
    BY <1>1, <1>2, <1>3, KillFacts
  <2>3. Dues(L.a, L.rest, "start") = {}
    BY <1>1, <1>2, <1>3, KillFacts, ZenonT(40)
  <2>4. o.mode = L.mode /\ L.mode # "killed"
    BY <1>1, <1>2, <1>3, KillFacts, ZenonT(40)
  <2> QED
    BY <2>1, <2>2, <2>3, <2>4
<1>5. PICK p : p = IF CloseFails(kind[s], got[s]) THEN <<>>
                   ELSE CloseFunc(s, kind[s], got[s]) \o <<CloseDstOp(s), CloseRestOp(s, 1), CountDownOp(s)>>
  OBVIOUS
<1>6. mode' = [mode EXCEPT ![s] = "killed"] /\ Continue(w, p)
  <2>1. ~Awaited(s) /\ mode[s] = o.mode
    BY <1>2, <1>4 DEF Awaited, States
  <2> QED
    BY <2>1, <1>1, <1>4, <1>5, Zenon DEF Kill
<1>7. mode'[s] = "killed" /\ \A u \in Streams : u # s => mode'[u] = mode[u]
  <2>1. mode \in [Streams -> Modes]
    BY DEF Delivering, ExclusiveInv, Typed, TypeOK, StreamsOK
  <2> QED
    BY <2>1, <1>2, <1>6
<1>8. tasks' = tasks /\ dst' = dst /\ n' = n /\ sent' = sent /\ refcnt' = refcnt
      /\ program' = program /\ kind' = kind /\ limit' = limit /\ rest' = rest /\ got' = got
  BY DEF Kill, sharedVars, streamVars, historyVars
<1>9. Works(w, s, p)
  <2>1. pc' = pc /\ cur' = cur /\ agenda' = [agenda EXCEPT ![w] = p \o Tail(@)]
    BY <1>6, Zenon DEF Continue
  <2> QED
    BY <2>1, <1>7, <1>8, Zenon DEF Works
<1>10. M.a = p \o r /\ agenda'[Main] = agenda[Main] /\ \A u \in Streams : u # s => Local(u)' = Local(u)
  <2> HIDE <1>5
  <2> QED
    BY <1>9, WorksFacts
<1>11. SameWork(L, M) /\ M.rest = L.rest /\ M.mode = "killed" /\ M.dst = L.dst
  BY <1>2, <1>7, <1>8 DEF States, SameWork
<1>12. /\ Phase(M, s, 0) /\ ~Gone(M, s) /\ p \in Seq(Ops) /\ OwnCloses(p, s)
       /\ Dues(M.a, M.rest, "start") = {}
  <2>1. /\ CloseFails(L.kind, L.got) => p = <<>>
        /\ ~CloseFails(L.kind, L.got) =>
             p = CloseFunc(s, L.kind, L.got) \o <<CloseDstOp(s), CloseRestOp(s, 1), CountDownOp(s)>>
    <3>1. L.kind = kind[s] /\ L.got = got[s]
      BY <1>2 DEF States
    <3> QED
      BY <3>1, <1>5, Zenon
  <2> HIDE <1>5
  <2> QED
    BY <2>1, <1>1, <1>2, <1>3, <1>10, <1>11, KilledLocal
<1> HIDE <1>5
<1>13. L = Local(s) /\ M = Local(s)'
  BY DEF Chosen
<1>14. L.ref <= 0
  <2>1. refcnt[s] \in Int /\ L.ref = refcnt[s]
    BY <1>2 DEF States, TypedLocal
  <2> QED
    BY <2>1
<1>15. /\ Live(L.mode) => Enough(s)
       /\ Lasting(program, s) => \A u \in Ups(s) : Gone(Local(u), u)
  BY <1>2, <1>3, <1>4, <1>13, <1>14, KilledEnough
<1>16. Flowing'
  <2>1. Steady(s)
    BY <1>2, <1>9, <1>10, <1>11, WorksSteady
  <2>2. Typed' /\ M.sent = L.sent /\ M.got = L.got /\ L.a # <<>>
    BY <1>2, <1>11 DEF ExclusiveInv, SameWork, Splits
  <2>3. \A t \in Streams : Live(mode[t]) /\ Link(s, t) =>
           /\ t \in Dues(M.a, M.rest, "start") <=> t \in Dues(L.a, L.rest, "start")
           /\ Opens(M, s, t) <=> Opens(L, s, t)
    BY <1>4, <1>12 DEF Opens
  <2>4. OwnCloses(M.a, s)
    <3>1. OwnCloses(L.a, s) /\ r = Tail(L.a) /\ L.a \in Seq(Ops)
      BY <1>2 DEF Delivering, Flowing, Ends, States, Splits
    <3> QED
      BY <3>1, <2>2, <1>10, <1>12, OwnClosesNext
  <2>5. ~Live(M.mode) /\ M.mode # "dying"
    BY <1>11 DEF Live
  <2>6. PICK y : y = 0
    OBVIOUS
  <2>7. y \in {-1, 0, 1} /\ Phase(M, s, y)
    BY <2>6, <1>12
  <2> QED
    BY <2>1, <2>2, <2>3, <2>4, <2>5, <2>7, <1>2, <1>3, <1>4, <1>8, <1>13, <1>15, QuietKeeps
<1>17. \A u \in Streams : /\ u # s => (Live(mode'[u]) <=> Live(mode[u]))
                          /\ Gone(Local(u)', u) <=> Gone(Local(u), u)
  BY <1>4, <1>7, <1>10, <1>12, <1>13
<1>18. L.mode = mode[s] /\ ~Live(mode'[s])
  BY <1>2, <1>7 DEF States, Live
<1>19. CASE Live(L.mode)
  BY <1>2, <1>8, <1>15, <1>16, <1>17, <1>18, <1>19 DEF Closed
<1>20. CASE ~Live(L.mode)
  BY <1>2, <1>8, <1>16, <1>17, <1>18, <1>20 DEF Hidden
<1> QED
  BY <1>19, <1>20

-----------------------------------------------------------------------------
(* The close is passed on.                                                 *)

\* A stream that is ready is joined to every stream it is linked to that still takes
\* something.
LEMMA ReadyJoined ==
  ASSUME Linked, NEW s \in Streams, Ready(s), NEW t \in Streams, Link(s, t), mode[t] # "killed"
  PROVE  Joined(s, t)
<1>1. ~InSeq(ConnectOp(s, t), agenda[Main])
  BY DEF Ready, UnRef
<1> QED
  BY <1>1 DEF Linked

\* s emits nothing more.
Finished(s) ==
  /\ program' = program /\ sent' = sent /\ got' = got
  /\ mode[s] # "none" /\ ~Live(mode[s]) /\ ~Gone(Local(s), s) /\ Gone(Local(s)', s)
  /\ KindOf(s) # "seq" => Len(sent[s]) = Owes(Local(s))
  /\ \A u \in Streams : /\ Live(mode'[u]) <=> Live(mode[u])
                        /\ u # s => (Gone(Local(u)', u) <=> Gone(Local(u), u))

LEMMA WorkerCloseDst ==
  ASSUME Delivering, ExclusiveInv', NEW w \in Workers, NEW s, NEW o, NEW r, NEW L, NEW M,
         Chosen(w, s, o, r, L, M), CloseDst(w)
  PROVE  Flowing' /\ Finished(s)
<1>1. o.op = "closeDst" /\ o = Head(agenda[w])
  BY DEF Chosen, CloseDst, At
<1>2. /\ s \in Streams /\ Splits(L.a, o, r) /\ TypedLocal(L) /\ States(L, M, s) /\ mode[s] # "none" /\ Ready(s)
      /\ \E x \in {-1, 0, 1} : Phase(L, s, x) /\ (Live(L.mode) => Channel(s, x))
  BY ChosenFacts
<1>3. PICK x \in {-1, 0, 1} : Phase(L, s, x) /\ (Live(L.mode) => Channel(s, x))
  BY <1>2
<1>4. o.s = s
  BY <1>1, <1>2, <1>3, OwnHead
<1>5. PICK p : p = IF dst[s] = NoStream THEN <<>> ELSE <<PushOp(dst[s], "close", Nil)>>
  OBVIOUS
<1>6. Continue(w, p) /\ Unmoved /\ dst' = dst
  <2>1. Continue(w, p)
    BY <1>1, <1>4, <1>5, Zenon DEF CloseDst
  <2> QED
    BY <2>1 DEF CloseDst, Unmoved, sharedVars, streamVars, historyVars
<1>7. Works(w, s, p)
  BY <1>6, UnmovedWorks
<1>8. M.a = p \o r /\ agenda'[Main] = agenda[Main] /\ \A u \in Streams : u # s => Local(u)' = Local(u)
  <2> HIDE <1>5
  <2> QED
    BY <1>7, WorksFacts
<1>9. Turns(L, M, p \o r) /\ M.dst = L.dst /\ M.mode = L.mode
  BY <1>2, <1>6, <1>8, UnmovedTurn, ZenonT(40)
<1>10. /\ Phase(M, s, x) /\ ~Gone(L, s) /\ Gone(M, s) /\ p \in Seq(Ops) /\ OwnCloses(p, s)
       /\ Dues(L.a, L.rest, "start") = {} /\ Dues(M.a, M.rest, "start") = {}
       /\ \A t \in Streams : t = L.dst \/ InSeq(t, L.rest) => t \in Dues(M.a, M.rest, "close")
       /\ (L.kind # "seq" => Len(L.sent) = Owes(L)) /\ Closing(L)
  <2>1. /\ L.dst = NoStream => p = <<>>
        /\ L.dst # NoStream => p = <<PushOp(L.dst, "close", Nil)>>
    <3>1. L.dst = dst[s]
      BY <1>2 DEF States
    <3> QED
      BY <3>1, <1>5
  <2> HIDE <1>5
  <2>2. Phase(M, s, x)
    BY <2>1, <1>1, <1>2, <1>3, <1>9, CloseDstLocal
  <2>6. OwnCloses(p, s)
    BY <2>1, <1>1, <1>2, <1>3, <1>9, CloseDstLocal
  <2>7. p \in Seq(Ops)
    BY <2>1, <1>1, <1>2, <1>3, <1>9, CloseDstLocal
  <2>3. ~Gone(L, s) /\ Gone(M, s) /\ Closing(L) /\ (L.kind # "seq" => Len(L.sent) = Owes(L))
    BY <2>1, <1>1, <1>2, <1>3, <1>9, CloseDstLocal, SMTT(30)
  <2>4. Dues(L.a, L.rest, "start") = {}
    BY <2>1, <1>1, <1>2, <1>3, <1>9, CloseDstLocal
  <2>8. Dues(M.a, M.rest, "start") = {}
    <3>1. Mute(M)
      BY <2>1, <1>1, <1>2, <1>3, <1>9, CloseDstLocal
    <3> QED
      BY <3>1 DEF Mute
  <2>5. \A t \in Streams : t = L.dst \/ InSeq(t, L.rest) => t \in Dues(M.a, M.rest, "close")
    BY <2>1, <1>1, <1>2, <1>3, <1>9, CloseDstLocal
  <2> QED
    BY <2>2, <2>3, <2>4, <2>5, <2>6, <2>7, <2>8
<1> HIDE <1>5
<1>11. L = Local(s) /\ M = Local(s)'
  BY DEF Chosen
<1>12. Flowing'
  <2>1. Steady(s)
    BY <1>2, <1>7, <1>8, <1>9, WorksSteady
  <2>2. Typed' /\ M.sent = L.sent /\ M.got = L.got /\ L.a # <<>> /\ tasks' = tasks
    BY <1>2, <1>6, <1>9 DEF ExclusiveInv, Turns, Splits, Unmoved
  <2>3. \A t \in Streams : Live(mode[t]) /\ Link(s, t) =>
           /\ t \in Dues(M.a, M.rest, "start") <=> t \in Dues(L.a, L.rest, "start")
           /\ Opens(M, s, t) <=> Opens(L, s, t)
    <3>1. ASSUME NEW t \in Streams, Live(mode[t]), Link(s, t)
          PROVE  t = L.dst \/ InSeq(t, L.rest)
      <4>1. mode[t] # "killed" /\ Linked
        BY <3>1 DEF Live, Delivering, Flowing
      <4>2. Joined(s, t)
        BY <4>1, <3>1, <1>2, ReadyJoined
      <4> QED
        BY <4>2, <1>2 DEF Joined, States
    <3> QED
      BY <3>1, <1>10 DEF Opens
  <2>4. OwnCloses(M.a, s)
    <3>1. OwnCloses(L.a, s) /\ r = Tail(L.a) /\ L.a \in Seq(Ops)
      BY <1>2 DEF Delivering, Flowing, Ends, States, Splits
    <3> QED
      BY <3>1, <2>2, <1>8, <1>10, OwnClosesNext
  <2>5. L.mode = "killed" /\ ~Live(M.mode) /\ M.mode # "dying"
    BY <1>9, <1>10 DEF Live, Closing
  <2> QED
    BY <2>1, <2>2, <2>3, <2>4, <2>5, <1>2, <1>3, <1>10, <1>11, QuietKeeps
<1>13. \A u \in Streams : /\ Live(mode'[u]) <=> Live(mode[u])
                          /\ u # s => (Gone(Local(u)', u) <=> Gone(Local(u), u))
  BY <1>6, <1>8 DEF Unmoved
<1>14. ~Live(mode[s])
  BY <1>2, <1>10 DEF States, Closing, Live
<1>15. KindOf(s) # "seq" => Len(sent[s]) = Owes(L)
  <2>1. kind[s] = KindOf(s)
    BY <1>2, ReadyFacts DEF Delivering
  <2> QED
    BY <2>1, <1>2, <1>10 DEF States
<1> QED
  BY <1>2, <1>6, <1>10, <1>11, <1>12, <1>13, <1>14, <1>15 DEF Finished, Unmoved

-----------------------------------------------------------------------------
(* The termination check.                                                  *)

\* Somebody listens.
LEMMA WorkerHeard ==
  ASSUME Delivering, ExclusiveInv', NEW w \in Workers, NEW s, NEW o, NEW r, NEW L, NEW M,
         Chosen(w, s, o, r, L, M), TerminationCheck(w), ~Unheard(s)
  PROVE  Flowing' /\ Hidden
<1>1. o.op = "check" /\ o = Head(agenda[w])
  BY DEF Chosen, TerminationCheck, At
<1>2. /\ s \in Streams /\ Splits(L.a, o, r) /\ TypedLocal(L) /\ States(L, M, s) /\ mode[s] # "none" /\ Ready(s)
      /\ \E x \in {-1, 0, 1} : Phase(L, s, x) /\ (Live(L.mode) => Channel(s, x))
  BY ChosenFacts
<1>3. PICK x \in {-1, 0, 1} : Phase(L, s, x) /\ (Live(L.mode) => Channel(s, x))
  BY <1>2
<1>4. o.s = s
  BY <1>1, <1>2, <1>3, CheckFacts, ZenonT(40)
<1>5. PICK p : p = IF Unheard(s) \/ ~o.again THEN <<>> ELSE <<PushOp(s, "start", Nil)>>
  OBVIOUS
<1>6. Continue(w, p) /\ Unmoved /\ dst' = dst
  <2>1. Continue(w, p)
    BY <1>1, <1>4, <1>5, Zenon DEF TerminationCheck
  <2>2. mode' = [mode EXCEPT ![s] = IF Unheard(s) THEN "dying" ELSE @]
    BY <1>1, <1>4, Zenon DEF TerminationCheck
  <2>3. mode \in [Streams -> Modes]
    BY DEF Delivering, ExclusiveInv, Typed, TypeOK, StreamsOK
  <2>4. mode' = mode
    BY <2>2, <2>3
  <2> QED
    BY <2>1, <2>4 DEF TerminationCheck, Unmoved, sharedVars, streamVars, historyVars
<1>7. Works(w, s, p)
  BY <1>6, UnmovedWorks
<1>8. M.a = p \o r
  <2> HIDE <1>5
  <2> QED
    BY <1>7, WorksFacts
<1>9. Turns(L, M, p \o r) /\ M.dst = L.dst
  BY <1>2, <1>6, <1>8, UnmovedTurn, ZenonT(40)
<1>10. (o.again => p = <<PushOp(o.s, "start", Nil)>>) /\ (~o.again => p = <<>>)
  BY <1>4, <1>5
<1> HIDE <1>5
<1>11. Phase(M, s, x) /\ Passes(L, M, s, Streams) /\ OwnCloses(p, s) /\ p \in Seq(Ops)
  BY <1>1, <1>2, <1>3, <1>9, <1>10, HeardLocal
<1>12. \A t \in Streams : Live(mode[t]) => t \in Streams
  OBVIOUS
<1> QED
  BY <1>3, <1>6, <1>7, <1>9, <1>11, <1>12, UnmovedKeeps

\* What emits is linked to something.
LEMMA HasOutlet ==
  ASSUME Given, NEW s \in Streams, Ready(s), KindOf(s) \in {"seq", "map", "take", "sort", "reduce"}
  PROVE  \E t \in Streams : Link(s, t)
<1>1. PICK i \in Lines(program) : s \in {program[i].s, program[i].dst}
  BY DEF Ready, Touched
<1>2. program[i].s \in Streams /\ program[i].dst \in Streams
  BY <1>1, ProgramTyped DEF Lines
<1>3. CASE program[i].s = s
  BY <1>1, <1>2, <1>3 DEF Link
<1>4. CASE program[i].dst = s
  <2>1. Link(program[i].s, s)
    BY <1>1, <1>4 DEF Link
  <2> QED
    BY <2>1, LinkTyped
<1> QED
  BY <1>1, <1>3, <1>4

\* Nobody listens to a stream only if it need not last.
LEMMA UnheardFacts ==
  ASSUME Delivering, NEW s \in Streams, mode[s] # "none", Ready(s), Unheard(s), NEW L, L = Local(s), TypedLocal(L),
         NEW x \in {-1, 0, 1}, Live(L.mode) => Channel(s, x), NEW r \in Seq(Ops), Spreading(L, x), Emitted(L, r, s),
         Gone(L, s) => ~Closes(r, s)
  PROVE  /\ (\E t \in Streams : Link(s, t)) /\ \A t \in Streams : Link(s, t) => ~Live(mode[t])
         /\ ~Lasting(program, s) /\ L.kind \in {"seq", "map", "take"} /\ Live(L.mode) /\ L.ref <= 1
<1>1. L.ref = refcnt[s] /\ L.kind = kind[s] /\ L.mode = mode[s]
  BY DEF Local
<1>2. Flowing /\ Typed /\ Given /\ Linked /\ Lasts
  BY DEF Delivering, ExclusiveInv, Flowing
<1>3. kind[s] = KindOf(s) /\ s \in Created(program, Len(program))
  BY <1>2, ReadyFacts
<1>4. L.kind \in {"seq", "map", "take", "sort", "reduce"}
  BY DEF Spreading
<1>5. \E t \in Streams : Link(s, t)
  BY <1>1, <1>2, <1>3, <1>4, HasOutlet
<1>6. ASSUME NEW t \in Streams, Link(s, t)
      PROVE  mode[t] = "killed"
  <2>1. CASE Joined(s, t)
    <3>1. dst[s] = NoStream /\ \A i \in 1..Len(rest[s]) : mode[rest[s][i]] = "killed"
      BY DEF Unheard
    <3> QED
      BY <3>1, <2>1, NullAssumption DEF Joined, InSeq
  <2>2. CASE ~Joined(s, t)
    BY <2>2, <1>2, <1>6, ReadyJoined
  <2> QED
    BY <2>1, <2>2
<1>7. ~Gone(L, s)
  <2>1. CASE Live(L.mode)
    BY <2>1 DEF Live, Gone
  <2>2. CASE ~Live(L.mode)
    <3>1. L.kind \in {"sort", "reduce"}
      BY <2>2 DEF Spreading
    <3>2. Remains(L, r, s)
      BY <3>1 DEF Emitted
    <3>3. Closes(r, s)
      BY <3>2, RemainsCloses
    <3> QED
      BY <3>3
  <2> QED
    BY <2>1, <2>2
<1>8. ~Lasting(program, s)
  <2>1. SUFFICES ASSUME Lasting(program, s) PROVE FALSE
    OBVIOUS
  <2>2. PICK t \in Streams : Link(s, t)
    BY <1>5
  <2>3. Lasting(program, t) /\ mode[t] = "killed" /\ s \in Ups(t)
    BY <2>1, <2>2, <1>2, <1>6, LastingFacts DEF Ups
  <2>4. Gone(Local(s), s)
    BY <2>3, <1>2 DEF Lasts
  <2> QED
    BY <2>4, <1>7
<1>9. L.kind \notin {"sort", "reduce"}
  BY <1>1, <1>2, <1>3, <1>8, LastingFacts
<1>10. Live(L.mode) /\ x = 0
  BY <1>4, <1>9 DEF Spreading
<1>11. L.ref <= 1
  <2>1. Channel(s, x)
    BY <1>10
  <2>2. refcnt[s] \in Int /\ refcnt[s] - x <= 1
    BY <2>1, <1>2, <1>8, Awaits
  <2> QED
    BY <2>2, <1>1, <1>10
<1> QED
  BY <1>4, <1>5, <1>6, <1>8, <1>9, <1>10, <1>11 DEF Live

\* Nobody does.
LEMMA WorkerUnheard ==
  ASSUME Delivering, ExclusiveInv', NEW w \in Workers, NEW s, NEW o, NEW r, NEW L, NEW M,
         Chosen(w, s, o, r, L, M), TerminationCheck(w), Unheard(s)
  PROVE  Flowing' /\ Closed(s)
<1>1. o.op = "check" /\ o = Head(agenda[w])
  BY DEF Chosen, TerminationCheck, At
<1>2. /\ s \in Streams /\ Splits(L.a, o, r) /\ TypedLocal(L) /\ States(L, M, s) /\ mode[s] # "none" /\ Ready(s)
      /\ \E x \in {-1, 0, 1} : Phase(L, s, x) /\ (Live(L.mode) => Channel(s, x))
  BY ChosenFacts
<1>3. PICK x \in {-1, 0, 1} : Phase(L, s, x) /\ (Live(L.mode) => Channel(s, x))
  BY <1>2
<1>4. o.s = s /\ Spreading(L, x) /\ Emitted(L, r, s)
  BY <1>1, <1>2, <1>3, CheckFacts, ZenonT(40)
<1>5. Continue(w, <<>>) /\ mode' = [mode EXCEPT ![s] = "dying"]
  BY <1>1, <1>4, Zenon DEF TerminationCheck
<1>6. mode'[s] = "dying" /\ \A u \in Streams : u # s => mode'[u] = mode[u]
  <2>1. mode \in [Streams -> Modes]
    BY DEF Delivering, ExclusiveInv, Typed, TypeOK, StreamsOK
  <2> QED
    BY <2>1, <1>2, <1>5
<1>7. tasks' = tasks /\ dst' = dst /\ n' = n /\ sent' = sent /\ refcnt' = refcnt
      /\ program' = program /\ kind' = kind /\ limit' = limit /\ rest' = rest /\ got' = got
  BY DEF TerminationCheck, sharedVars, streamVars, historyVars
<1>8. PICK p : p = <<>> /\ Works(w, s, p)
  <2>1. pc' = pc /\ cur' = cur /\ agenda' = [agenda EXCEPT ![w] = <<>> \o Tail(@)]
    BY <1>5, Zenon DEF Continue
  <2>2. Works(w, s, <<>>)
    BY <2>1, <1>6, <1>7, Zenon DEF Works
  <2> QED
    BY <2>2
<1>9. /\ M.a = p \o r /\ M.a = <<>> \o r
      /\ agenda'[Main] = agenda[Main] /\ \A u \in Streams : u # s => Local(u)' = Local(u)
  <2>1. Works(w, s, p)
    BY <1>8
  <2>2. M.a = p \o r /\ agenda'[Main] = agenda[Main] /\ \A u \in Streams : u # s => Local(u)' = Local(u)
    BY <2>1, WorksFacts
  <2> QED
    BY <2>2, <1>8
<1>10. SameWork(L, M) /\ M.rest = L.rest /\ M.ref = L.ref /\ M.mode = "dying" /\ M.dst = L.dst
  BY <1>2, <1>6, <1>7 DEF States, SameWork
<1>11. L = Local(s) /\ M = Local(s)'
  BY DEF Chosen
<1>12. /\ (\E t \in Streams : Link(s, t)) /\ \A t \in Streams : Link(s, t) => ~Live(mode[t])
       /\ ~Lasting(program, s) /\ L.kind \in {"seq", "map", "take"} /\ Live(L.mode) /\ L.ref <= 1
  <2>1. r \in Seq(Ops) /\ (Gone(L, s) => ~Closes(r, s))
    BY <1>2, SplitFacts DEF Gone
  <2> QED
    BY <2>1, <1>2, <1>3, <1>4, <1>11, UnheardFacts
<1>13. /\ Phase(M, s, 0) /\ Passes(L, M, s, Streams)
       /\ L.kind \in {"map", "take"} => Len(L.sent) = Len(L.got)
  <2>1. L.kind \notin {"sort", "reduce"}
    BY <1>12
  <2>2. Phase(M, s, 0)
    BY <2>1, <1>1, <1>2, <1>3, <1>9, <1>10, <1>12, UnheardLocal
  <2>3. Passes(L, M, s, Streams)
    BY <2>1, <1>1, <1>2, <1>3, <1>9, <1>10, <1>12, UnheardLocal
  <2>4. L.kind \in {"map", "take"} => Len(L.sent) = Len(L.got)
    BY <2>1, <1>1, <1>2, <1>3, <1>9, <1>10, <1>12, UnheardLocal
  <2> QED
    BY <2>2, <2>3, <2>4
<1>14. p \in Seq(Ops) /\ OwnCloses(p, s) /\ Works(w, s, p) /\ M.a = p \o r
  BY <1>8, <1>9, ShortFacts, ShortAgendas
<1> HIDE <1>8
<1>15. Flowing'
  <2>1. Steady(s)
    BY <1>2, <1>9, <1>10, <1>12, <1>14, WorksSteady DEF Live
  <2>2. Typed' /\ M.sent = L.sent /\ M.got = L.got /\ L.a # <<>>
    BY <1>2, <1>10 DEF ExclusiveInv, SameWork, Splits
  <2>3. \A t \in Streams : Live(mode[t]) /\ Link(s, t) =>
           /\ t \in Dues(M.a, M.rest, "start") <=> t \in Dues(L.a, L.rest, "start")
           /\ Opens(M, s, t) <=> Opens(L, s, t)
    BY <1>12
  <2>4. OwnCloses(M.a, s)
    <3>1. OwnCloses(L.a, s) /\ r = Tail(L.a) /\ L.a \in Seq(Ops)
      BY <1>2 DEF Delivering, Flowing, Ends, States, Splits
    <3> QED
      BY <3>1, <2>2, <1>14, OwnClosesNext
  <2>5. ~Live(M.mode) /\ (Gone(L, s) => Gone(M, s))
    BY <1>10, <1>13 DEF Live, Passes
  <2>6. PICK y : y = 0
    OBVIOUS
  <2>7. y \in {-1, 0, 1} /\ Phase(M, s, y)
    BY <2>6, <1>13
  <2> QED
    BY <2>1, <2>2, <2>3, <2>4, <2>5, <2>7, <1>2, <1>3, <1>7, <1>11, <1>12, QuietKeeps
<1>16. \A u \in Streams : /\ u # s => (Live(mode'[u]) <=> Live(mode[u]))
                          /\ Gone(Local(u)', u) <=> Gone(Local(u), u)
  BY <1>6, <1>9, <1>11, <1>13 DEF Passes
<1>17. Live(mode[s]) /\ ~Live(mode'[s])
  BY <1>2, <1>6, <1>12 DEF States, Live
<1>18. Enough(s)
  <2>1. kind[s] = KindOf(s)
    BY <1>2, ReadyFacts DEF Delivering
  <2> QED
    BY <2>1, <1>2, <1>12, <1>13 DEF Enough, States
<1> QED
  BY <1>2, <1>7, <1>15, <1>16, <1>17, <1>18 DEF Closed

-----------------------------------------------------------------------------
(* Emissions.                                                              *)

\* A lambda that returns nil emits nothing.
LEMMA WorkerEmitNil ==
  ASSUME Delivering, ExclusiveInv', NEW w \in Workers, NEW s, NEW o, NEW r, NEW L, NEW M,
         Chosen(w, s, o, r, L, M), Emit(w), kind[s] = "print"
  PROVE  Flowing' /\ Hidden
<1>1. o.op = "emit" /\ o = Head(agenda[w])
  BY DEF Chosen, Emit, At
<1>2. /\ s \in Streams /\ Splits(L.a, o, r) /\ TypedLocal(L) /\ States(L, M, s) /\ mode[s] # "none" /\ Ready(s)
      /\ \E x \in {-1, 0, 1} : Phase(L, s, x) /\ (Live(L.mode) => Channel(s, x))
  BY ChosenFacts
<1>3. PICK x \in {-1, 0, 1} : Phase(L, s, x) /\ (Live(L.mode) => Channel(s, x))
  BY <1>2
<1>4. /\ o.s = s /\ o.d = Nil /\ o.again = FALSE /\ Live(L.mode)
      /\ \A N : Turns(L, N, <<>> \o r) => Phase(N, s, x) /\ Passes(L, N, s, Streams)
  <2>1. L.kind = "print"
    BY <1>2 DEF States
  <2>2. Silent(L, s, x, o, r)
    BY <2>1, <1>1, <1>2, <1>3, EmitNilLocal
  <2> QED
    BY <2>2 DEF Silent
<1>5. Continue(w, <<>>) /\ sent' = [sent EXCEPT ![s] = @]
  <2>1. mode[s] # "dying"
    BY <1>2, <1>4 DEF Live, States
  <2> QED
    BY <2>1, <1>1, <1>4, Zenon DEF Emit
<1>6. Return(w) /\ Unmoved /\ dst' = dst
  <2>1. sent \in [Streams -> Seq(Data)]
    BY DEF Delivering, ExclusiveInv, Typed, TypeOK, HistoryOK
  <2>2. sent' = sent
    BY <2>1, <1>5
  <2>3. Return(w)
    BY <1>5, Zenon DEF Return
  <2> QED
    BY <2>2, <2>3 DEF Emit, Unmoved, sharedVars, streamVars
<1>7. PICK p : p = <<>> /\ Works(w, s, p)
  <2>1. Return(w) /\ Unmoved /\ \A u \in Streams : u # s => dst'[u] = dst[u]
    BY <1>6
  <2> QED
    BY <2>1, UnmovedReturns, Zenon
<1>8. M.a = <<>> \o r
  <2>1. Works(w, s, p)
    BY <1>7
  <2>2. M.a = p \o r
    BY <2>1, WorksFacts
  <2> QED
    BY <2>2, <1>7
<1>9. Turns(L, M, <<>> \o r) /\ M.dst = L.dst
  BY <1>2, <1>6, <1>8, UnmovedTurn
<1>10. Phase(M, s, x) /\ Passes(L, M, s, Streams)
  BY <1>4, <1>9
<1>11. OwnCloses(p, s) /\ p \in Seq(Ops) /\ Works(w, s, p) /\ \A t \in Streams : Live(mode[t]) => t \in Streams
  BY <1>7, ShortFacts, ShortAgendas
<1> HIDE <1>7
<1> QED
  BY <1>3, <1>6, <1>9, <1>10, <1>11, UnmovedKeeps

\* The element comes to every stream that s is linked to.
LEMMA EmitChannel ==
  ASSUME Given, Typed, Typed', NEW s \in Streams, Steady(s), NEW L, L = Local(s), NEW M, M = Local(s)',
         NEW d \in Data, sent' = [sent EXCEPT ![s] = Append(@, d)],
         NEW t \in Streams, NEW x, Channel(t, x), s \in Ups(t),
         tasks'[t] = tasks[t], got'[t] = got[t], refcnt'[t] = refcnt[t], ~Gone(L, s), ~Gone(M, s),
         t \notin Dues(L.a, L.rest, "start"), t \in Dues(M.a, M.rest, "start")
  PROVE  Channel(t, x)'
<1>1. program' = program /\ agenda'[Main] = agenda[Main]
  BY DEF Steady
<1>2. Ups(t)' = Ups(t) /\ UnRefs(t)' = UnRefs(t) /\ \A u : From(u)' = From(u)
  BY <1>1, SameProgram, SameMain
<1>3. ASSUME NEW u \in Ups(t), u # s
      PROVE  Local(u)' = Local(u)
  BY <1>3 DEF Ups, Steady
<1>4. Flights(t)' = Flights(t) \union {s} /\ s \notin Flights(t)
  BY <1>2, <1>3 DEF Flights
<1>5. Open(t)' = Open(t) /\ s \in Open(t)
  BY <1>2, <1>3 DEF Open, Opens
<1>6. PICK E : E = [u \in Ups(t) |-> From(u)]
  OBVIOUS
<1>7. PICK S : S = [u \in Ups(t) |-> sent[u]]
  OBVIOUS
<1>8. PICK Z : Z = [u \in Ups(t) |-> sent'[u]]
  OBVIOUS
<1>9. PICK m : m = refcnt[t] + Cardinality(UnRefs(t)) - x
  OBVIOUS
<1>10. Chan(Ups(t), E, tasks[t], got[t], S, Flights(t), Open(t), m)
  BY <1>6, <1>7, <1>9 DEF Channel
<1>11. Sequences(S, Ups(t), Data) /\ \A v \in Ups(t) : Z[v] = IF v = s THEN Append(S[v], d) ELSE S[v]
  <2>1. sent \in [Streams -> Seq(Data)] /\ Ups(t) \subseteq Streams
    BY DEF Typed, TypeOK, HistoryOK, Ups
  <2> QED
    BY <2>1, <1>7, <1>8 DEF Sequences
<1>12. tasks[t] \in Seq(Tasks)
  BY DEF Typed, TypeOK, QueuesOK
<1>13. Chan(Ups(t), E, tasks[t], got[t], Z, Flights(t) \union {s}, Open(t), m)
  <2> HIDE <1>6, <1>7, <1>8, <1>9
  <2> QED
    BY <1>4, <1>5, <1>10, <1>11, <1>12, ChanEmit
<1>14. E = [u \in Ups(t) |-> From(u)]' /\ Z = [u \in Ups(t) |-> sent[u]]'
       /\ m = (refcnt[t] + Cardinality(UnRefs(t)) - x)'
  BY <1>2, <1>6, <1>8, <1>9
<1> HIDE <1>6, <1>7, <1>8, <1>9
<1> QED
  BY <1>2, <1>4, <1>5, <1>13, <1>14 DEF Channel

\* s emits its next element.
NextOf(s, d) ==
  /\ d \in Data /\ ~Gone(Local(s), s)
  /\ KindOf(s) = "seq" => /\ d = <<s, Len(sent[s]) + 1>> /\ Live(mode[s])
                          /\ LimitOf(s) > 0 => Len(sent[s]) < LimitOf(s)
  /\ KindOf(s) # "seq" => /\ KindOf(s) \in {"map", "take", "sort", "reduce"}
                          /\ Len(sent[s]) + 1 \in 1..Len(got[s]) /\ d = got[s][Len(sent[s]) + 1]
                          /\ Len(sent[s]) < Owes(Local(s))
                          /\ KindOf(s) \in {"sort", "reduce"} => ~Live(mode[s])
Sends(s) ==
  /\ program' = program /\ got' = got /\ mode[s] # "none"
  /\ \E d : NextOf(s, d) /\ sent' = [sent EXCEPT ![s] = Append(@, d)]
  /\ \A u \in Streams : /\ Live(mode'[u]) <=> Live(mode[u])
                        /\ Gone(Local(u)', u) <=> Gone(Local(u), u)

\* Where it comes from.
LEMMA SendsOrigins ==
  ASSUME Given, Typed, Origins, program' = program, got' = got, NEW s \in Streams, NEW d, NextOf(s, d),
         sent' = [sent EXCEPT ![s] = Append(@, d)]
  PROVE  Origins'
<1>1. sent \in [Streams -> Seq(Data)] /\ got \in [Streams -> Seq(Data)]
  BY DEF Typed, TypeOK, HistoryOK
<1>2. \A u : From(u)' = From(u) /\ Ups(u)' = Ups(u)
  BY SameProgram
<1>3. d \in From(s)
  <2>1. CASE KindOf(s) = "seq"
    <3>1. d = <<s, Len(sent[s]) + 1>>
      BY <2>1 DEF NextOf
    <3>2. d \in Elements /\ d[1] = s
      BY <3>1, <1>1 DEF Elements
    <3> QED
      BY <3>2, ReachSelf DEF From
  <2>2. CASE KindOf(s) # "seq"
    <3>1. Len(sent[s]) + 1 \in 1..Len(got[s]) /\ d = got[s][Len(sent[s]) + 1]
      BY <2>2 DEF NextOf
    <3> QED
      BY <3>1 DEF Origins
  <2> QED
    BY <2>1, <2>2
<1>4. ASSUME NEW u \in Streams
      PROVE  /\ Len(sent[u]) <= Len(sent'[u]) /\ \A i \in 1..Len(sent[u]) : sent'[u][i] = sent[u][i]
             /\ \A i \in 1..Len(sent'[u]) : i \in 1..Len(sent[u]) \/ (u = s /\ sent'[u][i] = d)
             /\ Len(sent[u]) \in Nat /\ Len(sent'[u]) \in Nat
  <2>1. CASE u = s
    <3>1. PICK q \in Seq(Data) : q = sent[s]
      BY <1>1
    <3>2. sent'[u] = Append(q, d) /\ d \in Data
      BY <2>1, <3>1, <1>1 DEF NextOf
    <3> QED
      BY <2>1, <3>1, <3>2
  <2>2. CASE u # s
    <3>1. sent'[u] = sent[u]
      BY <2>2, <1>1
    <3> QED
      BY <3>1, <1>1
  <2> QED
    BY <2>1, <2>2
<1>5. ASSUME NEW u \in Streams, NEW i \in 1..Len(sent'[u])
      PROVE  sent'[u][i] \in From(u)
  BY <1>3, <1>4 DEF Origins
<1>6. ASSUME NEW t \in Streams, NEW u \in Ups(t), NEW i \in 1..Len(got[t]), got[t][i] \in From(u)
      PROVE  InSeq(got[t][i], sent'[u])
  <2>1. u \in Streams
    BY DEF Ups
  <2>2. PICK j \in 1..Len(sent[u]) : sent[u][j] = got[t][i]
    BY <1>6 DEF Origins, InSeq
  <2>3. j \in 1..Len(sent'[u]) /\ sent'[u][j] = got[t][i]
    BY <2>1, <2>2, <1>4
  <2> QED
    BY <2>3 DEF InSeq
<1> QED
  BY <1>2, <1>5, <1>6 DEF Origins

LEMMA EmitKeeps ==
  ASSUME Delivering, Typed', NEW s \in Streams, Ready(s), Steady(s), NEW L, L = Local(s), NEW M, M = Local(s)',
         tasks' = tasks, got' = got, refcnt' = refcnt, mode' = mode, NEW d, NextOf(s, d),
         sent' = [sent EXCEPT ![s] = Append(@, d)], L.a # <<>>,
         NEW x \in {-1, 0, 1}, Phase(M, s, x), Live(L.mode) => Channel(s, x), ~Gone(M, s), OwnCloses(M.a, s),
         Dues(L.a, L.rest, "start") = {},
         \A t \in Streams : t \in Dues(M.a, M.rest, "start") <=> t = L.dst \/ InSeq(t, L.rest)
  PROVE  Flowing'
<1>1. /\ Given /\ MainOK /\ Kinded /\ Linked /\ Apart /\ Awake /\ Tokens /\ Origins
      /\ Lasts /\ Ends /\ Phased /\ Typed
  BY DEF Delivering, Flowing, ExclusiveInv
<1>2. program' = program /\ agenda'[Main] = agenda[Main]
  BY DEF Steady
<1>3. L.mode = mode[s] /\ M.mode = mode[s] /\ L.dst = dst[s] /\ L.rest = rest[s] /\ L.a = Steps(s) /\ M.a = Steps(s)'
  BY DEF Local
<1>4. Given' /\ MainOK' /\ Kinded' /\ Linked' /\ Apart' /\ Awake'
  BY <1>1, <1>3, SteadyKeeps
<1>5. Tokens'
  BY <1>1, <1>2, SameProgram DEF Tokens
<1>6. Origins'
  BY <1>1, <1>2, SendsOrigins
<1>7. d \in Data /\ ~Gone(L, s)
  BY DEF NextOf
<1>8. Lasts'
  BY <1>1, <1>3, <1>7, LastsNext DEF Lasts
<1>9. Ends'
  BY <1>1, <1>3, EndsNext
<1>10. \A t \in Streams : s \notin Ups(t) => \A z : Channel(t, z) => Channel(t, z)'
  <2> SUFFICES ASSUME NEW t \in Streams, s \notin Ups(t), NEW z, Channel(t, z)
               PROVE  Channel(t, z)'
    OBVIOUS
  <2>1. \A u \in Ups(t) : /\ sent'[u] = sent[u] /\ (u \in Flights(t)' <=> u \in Flights(t))
                          /\ (u \in Open(t)' <=> u \in Open(t))
    <3> SUFFICES ASSUME NEW u \in Ups(t)
                 PROVE  /\ sent'[u] = sent[u] /\ (u \in Flights(t)' <=> u \in Flights(t))
                        /\ (u \in Open(t)' <=> u \in Open(t))
      OBVIOUS
    <3>1. Local(u)' = Local(u) /\ Ups(t)' = Ups(t)
      BY <1>2, SameProgram DEF Ups, Steady
    <3> QED
      BY <3>1, SameLocal DEF Flights, Open
  <2>2. UnRefs(t)' = UnRefs(t)
    BY <1>2, SameMain
  <2> QED
    BY <1>2, <2>1, <2>2, ChannelSame
<1>11. \A t \in Streams : s \in Ups(t) /\ Live(mode[t]) => \A z : Channel(t, z) => Channel(t, z)'
  <2> SUFFICES ASSUME NEW t \in Streams, s \in Ups(t), Live(mode[t]), NEW z, Channel(t, z)
               PROVE  Channel(t, z)'
    OBVIOUS
  <2>1. Joined(s, t)
    <3>1. Link(s, t) /\ mode[t] # "killed"
      BY DEF Ups, Live
    <3> QED
      BY <3>1, <1>1, ReadyJoined
  <2>2. t \in Dues(M.a, M.rest, "start") /\ t \notin Dues(L.a, L.rest, "start")
    BY <2>1, <1>3 DEF Joined
  <2> QED
    BY <2>2, <1>1, <1>7, EmitChannel
<1>12. Phased'
  <2>1. s \notin Ups(s)
    BY <1>1, LinkTyped DEF Ups
  <2>2. Live(M.mode) => Channel(s, x)'
    BY <2>1, <1>3, <1>10
  <2>3. \A t \in Streams, z \in {-1, 0, 1} : t # s /\ Live(mode[t]) /\ Channel(t, z) => Channel(t, z)'
    BY <1>10, <1>11
  <2> QED
    BY <2>2, <2>3, <1>1, PhasedNext
<1> QED
  BY <1>4, <1>5, <1>6, <1>8, <1>9, <1>12 DEF Flowing

LEMMA EmissionNext ==
  ASSUME Delivering, NEW s \in Streams, mode[s] # "none", Ready(s), NEW L, L = Local(s), NEW o, NEW r,
         NEW m, m = Len(L.sent) + 1, Emission(L, s, m, o, r)
  PROVE  NextOf(s, o.d) /\ L.mode # "dying" /\ o.d # Nil
<1>1. L.kind = kind[s] /\ L.mode = mode[s] /\ L.limit = limit[s] /\ L.sent = sent[s] /\ L.got = got[s]
  BY DEF Local
<1>2. kind[s] = KindOf(s) /\ limit[s] = LimitOf(s)
  BY ReadyFacts DEF Delivering
<1>3. o.d \in Data /\ ~Gone(L, s) /\ L.mode # "dying" /\ o.d # Nil
  BY DEF Emission
<1>4. KindOf(s) = "seq" => /\ o.d = <<s, m>> /\ Live(L.mode)
                           /\ L.limit > 0 => Len(L.sent) < L.limit
  BY <1>1, <1>2 DEF Emission
<1>5. KindOf(s) # "seq" => /\ L.kind \in {"map", "take", "sort", "reduce"}
                           /\ m \in 1..Len(L.got) /\ o.d = L.got[m] /\ Len(L.sent) < Owes(L)
                           /\ L.kind \in {"sort", "reduce"} => L.mode = "killed"
  BY <1>1, <1>2 DEF Emission
<1> QED
  BY <1>1, <1>2, <1>3, <1>4, <1>5 DEF NextOf, Live

LEMMA WorkerEmitData ==
  ASSUME Delivering, ExclusiveInv', NEW w \in Workers, NEW s, NEW o, NEW r, NEW L, NEW M,
         Chosen(w, s, o, r, L, M), Emit(w), kind[s] # "print"
  PROVE  Flowing' /\ Sends(s)
<1>1. o.op = "emit" /\ o = Head(agenda[w])
  BY DEF Chosen, Emit, At
<1>2. /\ s \in Streams /\ Splits(L.a, o, r) /\ TypedLocal(L) /\ Solid(L) /\ States(L, M, s)
      /\ mode[s] # "none" /\ Ready(s)
      /\ \E x \in {-1, 0, 1} : Phase(L, s, x) /\ (Live(L.mode) => Channel(s, x))
  BY ChosenFacts
<1>3. PICK x \in {-1, 0, 1} : Phase(L, s, x) /\ (Live(L.mode) => Channel(s, x))
  BY <1>2
<1>4. L = Local(s) /\ M = Local(s)' /\ L.kind # "print"
  BY <1>2 DEF Chosen, States
<1>5. PICK m : m = Len(L.sent) + 1
  OBVIOUS
<1>6. Emission(L, s, m, o, r)
  BY <1>1, <1>2, <1>3, <1>4, <1>5, EmitFacts
<1>7. NextOf(s, o.d) /\ L.mode # "dying" /\ o.d # Nil
  BY <1>2, <1>4, <1>5, <1>6, EmissionNext
<1>8. o.s = s /\ o.d \in Data
  BY <1>6 DEF Emission
<1> HIDE <1>5
<1>9. PICK p : p = (IF dst[s] = NoStream THEN <<>> ELSE <<PushOp(dst[s], "start", o.d), DropDstOp(s)>>)
                   \o <<EmitRestOp(s, o.d, 1), CheckOp(s, o.again)>>
  OBVIOUS
<1>10. Continue(w, p) /\ sent' = [sent EXCEPT ![s] = Append(@, o.d)]
  <2>1. mode[s] # "dying"
    BY <1>2, <1>7 DEF States
  <2> QED
    BY <2>1, <1>1, <1>7, <1>8, <1>9, Zenon DEF Emit
<1>11. /\ tasks' = tasks /\ dst' = dst /\ n' = n /\ mode' = mode /\ refcnt' = refcnt
       /\ program' = program /\ kind' = kind /\ limit' = limit /\ rest' = rest /\ got' = got
  BY DEF Emit, sharedVars, streamVars
<1>12. sent'[s] = Append(sent[s], o.d) /\ \A u \in Streams : u # s => sent'[u] = sent[u]
  <2>1. sent \in [Streams -> Seq(Data)]
    BY DEF Delivering, ExclusiveInv, Typed, TypeOK, HistoryOK
  <2> QED
    BY <2>1, <1>2, <1>10
<1>13. Works(w, s, p)
  <2>1. pc' = pc /\ cur' = cur /\ agenda' = [agenda EXCEPT ![w] = p \o Tail(@)]
    BY <1>10, Zenon DEF Continue
  <2> QED
    BY <2>1, <1>11, <1>12, Zenon DEF Works
<1>14. M.a = p \o r /\ agenda'[Main] = agenda[Main] /\ \A u \in Streams : u # s => Local(u)' = Local(u)
  <2> HIDE <1>9
  <2> QED
    BY <1>13, WorksFacts
<1>15. Emits(L, M, p \o r, o.d)
  BY <1>2, <1>11, <1>12, <1>14 DEF States, Emits
<1>16. /\ L.dst = NoStream => p = <<>> \o <<EmitRestOp(o.s, o.d, 1), CheckOp(o.s, o.again)>>
       /\ L.dst # NoStream => p = <<PushOp(L.dst, "start", o.d), DropDstOp(o.s)>>
                                  \o <<EmitRestOp(o.s, o.d, 1), CheckOp(o.s, o.again)>>
  <2>1. L.dst = dst[s]
    BY <1>2 DEF States
  <2> QED
    BY <2>1, <1>8, <1>9, Zenon
<1> HIDE <1>9
<1>17. Phase(M, s, x)
  BY <1>1, <1>2, <1>3, <1>4, <1>15, <1>16, EmitDataLocal
<1>18. ~Gone(M, s)
  BY <1>1, <1>2, <1>3, <1>4, <1>15, <1>16, EmitDataLocal
<1>19. OwnCloses(p, s)
  BY <1>1, <1>2, <1>3, <1>4, <1>15, <1>16, EmitDataLocal
<1>20. p \in Seq(Ops)
  BY <1>1, <1>2, <1>3, <1>4, <1>15, <1>16, EmitDataLocal
<1>21. Dues(L.a, L.rest, "start") = {}
  BY <1>1, <1>2, <1>3, <1>4, <1>15, <1>16, EmitDataLocal
<1>22. \A t \in Streams : t \in Dues(M.a, M.rest, "start") <=> t = L.dst \/ InSeq(t, L.rest)
  BY <1>1, <1>2, <1>3, <1>4, <1>15, <1>16, EmitDataLocal
<1>23. M.mode = L.mode /\ M.dst = L.dst
  BY <1>15 DEF Emits
<1>24. Steady(s)
  BY <1>2, <1>13, <1>14, <1>23, WorksSteady
<1>25. L.a # <<>> /\ OwnCloses(M.a, s)
  <2>1. OwnCloses(L.a, s) /\ r = Tail(L.a) /\ L.a \in Seq(Ops) /\ L.a # <<>>
    BY <1>2 DEF Delivering, Flowing, Ends, States, Splits
  <2> QED
    BY <2>1, <1>14, <1>19, <1>20, OwnClosesNext
<1>26. Flowing'
  <2>1. Typed'
    BY DEF ExclusiveInv
  <2> QED
    BY <2>1, <1>2, <1>3, <1>4, <1>7, <1>10, <1>11, <1>17, <1>18, <1>21, <1>22, <1>24, <1>25, EmitKeeps
<1>27. \A u \in Streams : /\ Live(mode'[u]) <=> Live(mode[u])
                          /\ Gone(Local(u)', u) <=> Gone(Local(u), u)
  <2>1. ~Gone(L, s)
    BY <1>4, <1>7 DEF NextOf
  <2> QED
    BY <2>1, <1>4, <1>11, <1>14, <1>18
<1> QED
  BY <1>2, <1>7, <1>10, <1>11, <1>26, <1>27 DEF Sends

-----------------------------------------------------------------------------
(* A task comes into a queue.                                              *)

\* What is still to be pushed after an element, or a close, has been pushed.
LEMMA RestDues ==
  ASSUME NEW s, NEW L, NEW a \in Seq(Ops), NEW i, AtRest(L, a, s, i)
  PROVE  /\ Dues(a, L.rest, "start") = {L.rest[j] : j \in i..Len(L.rest)}
         /\ L.kind \in {"sort", "reduce"} => Closes(a, s)
<1>1. a # <<>> /\ Head(a) = EmitRestOp(s, Latest(L.sent), i) /\ AtCheck(L, Tail(a), s)
  BY DEF AtRest, Is
<1>2. Tail(a) \in Seq(Ops) /\ Tail(a) # <<>> /\ Head(Tail(a)).op = "check" /\ Emitted(L, Tail(Tail(a)), s)
  BY <1>1, HeadTail DEF AtCheck, Is, CheckOp
<1>3. Tail(Tail(a)) \in Seq(Ops)
  BY <1>2, HeadTail
<1>4. Dues(Tail(Tail(a)), L.rest, "start") = {}
  BY <1>2, <1>3, EmittedDues
<1>5. Dues(Tail(a), L.rest, "start") = {}
  <2>0. PICK b : b = Tail(a)
    OBVIOUS
  <2>1. Due(Head(b), L.rest, "start") = {}
    <3>1. Head(b).op = "check"
      BY <2>0, <1>2
    <3> QED
      BY <3>1, DueNone
  <2>2. b \in Seq(Ops) /\ b # <<>>
    BY <2>0, <1>2
  <2>3. Dues(b, L.rest, "start") = Due(Head(b), L.rest, "start") \union Dues(Tail(b), L.rest, "start")
    BY <2>2, DuesCons
  <2>4. Dues(Tail(b), L.rest, "start") = {}
    BY <2>0, <1>4
  <2>5. Dues(b, L.rest, "start") = {}
    BY <2>1, <2>3, <2>4
  <2> QED
    BY <2>0, <2>5
<1>6. Dues(a, L.rest, "start") = {L.rest[j] : j \in i..Len(L.rest)}
  <2>1. PICK c : c = Head(a)
    OBVIOUS
  <2>2. c.op = "emitRest" /\ c.i = i
    BY <2>1, <1>1 DEF EmitRestOp
  <2>3. Due(c, L.rest, "start") = {L.rest[j] : j \in i..Len(L.rest)}
    BY <2>2, DueEmitRest
  <2> QED
    BY <2>1, <2>3, <1>1, <1>5, DuesCons
<1>7. L.kind \in {"sort", "reduce"} => Closes(a, s)
  <2> SUFFICES ASSUME L.kind \in {"sort", "reduce"} PROVE Closes(a, s)
    OBVIOUS
  <2>1. Remains(L, Tail(Tail(a)), s)
    BY <1>2 DEF Emitted
  <2>2. Closes(Tail(Tail(a)), s)
    BY <2>1, <1>3, RemainsCloses
  <2> QED
    BY <2>2, <1>1, <1>2, ClosesCons
<1> QED
  BY <1>6, <1>7

LEMMA DropDues ==
  ASSUME NEW s, NEW L, NEW a \in Seq(Ops), AtDrop(L, a, s)
  PROVE  /\ Dues(a, L.rest, "start") = {L.rest[j] : j \in 1..Len(L.rest)}
         /\ L.kind \in {"sort", "reduce"} => Closes(a, s)
<1>1. a # <<>> /\ Head(a).op = "dropDst" /\ AtRest(L, Tail(a), s, 1) /\ Tail(a) \in Seq(Ops)
  BY HeadTail DEF AtDrop, Is, DropDstOp
<1>2. /\ Dues(Tail(a), L.rest, "start") = {L.rest[j] : j \in 1..Len(L.rest)}
      /\ L.kind \in {"sort", "reduce"} => Closes(Tail(a), s)
  BY <1>1, RestDues
<1>3. Due(Head(a), L.rest, "start") = {}
  BY <1>1, DueNone
<1> QED
  BY <1>1, <1>2, <1>3, DuesCons, ClosesCons

LEMMA CloseRestDues ==
  ASSUME NEW s, NEW q, NEW a \in Seq(Ops), NEW i, AtCloseRest(a, s, i)
  PROVE  /\ Dues(a, q, "close") = {q[j] : j \in i..Len(q)} /\ Dues(a, q, "start") = {}
         /\ ~Closes(a, s)
<1>1. a # <<>> /\ Head(a) = CloseRestOp(s, i) /\ Tail(a) \in Seq(Ops) /\ Tail(a) # <<>>
      /\ Head(Tail(a)) = CountDownOp(s) /\ Tail(Tail(a)) \in Seq(Ops) /\ AtEnd(Tail(Tail(a)), s)
  BY HeadTail DEF AtCloseRest, Is
<1>2. Dues(Tail(Tail(a)), q, "close") = {} /\ Dues(Tail(Tail(a)), q, "start") = {} /\ ~Closes(Tail(Tail(a)), s)
  BY <1>1, EndFacts
<1>3. PICK c : c = Head(Tail(a))
  OBVIOUS
<1>4. c.op = "countDown" /\ c # CloseDstOp(s)
  BY <1>1, <1>3 DEF CountDownOp, CloseDstOp
<1>5. Due(c, q, "close") = {} /\ Due(c, q, "start") = {}
  BY <1>4, DueNone
<1>6. Dues(Tail(a), q, "close") = {} /\ Dues(Tail(a), q, "start") = {} /\ ~Closes(Tail(a), s)
  <2>1. PICK e : e = Tail(a)
    OBVIOUS
  <2>2. /\ Dues(e, q, "close") = Due(c, q, "close") \union Dues(Tail(e), q, "close")
        /\ Dues(e, q, "start") = Due(c, q, "start") \union Dues(Tail(e), q, "start")
        /\ Closes(e, s) <=> c = CloseDstOp(s) \/ Closes(Tail(e), s)
    BY <2>1, <1>1, <1>3, DuesCons, ClosesCons, ZenonT(40)
  <2>3. Dues(e, q, "close") = {} /\ Dues(e, q, "start") = {} /\ ~Closes(e, s)
    BY <2>1, <2>2, <1>2, <1>4, <1>5
  <2> QED
    BY <2>1, <2>3
<1>7. PICK b : b = Head(a)
  OBVIOUS
<1>8. b.op = "closeRest" /\ b.i = i /\ b # CloseDstOp(s)
  BY <1>1, <1>7 DEF CloseRestOp, CloseDstOp
<1>9. Due(b, q, "close") = {q[j] : j \in i..Len(q)} /\ Due(b, q, "start") = {}
  BY <1>8, DueCloseRest
<1>10. /\ Dues(a, q, "close") = Due(b, q, "close") \union Dues(Tail(a), q, "close")
       /\ Dues(a, q, "start") = Due(b, q, "start") \union Dues(Tail(a), q, "start")
       /\ Closes(a, s) <=> b = CloseDstOp(s) \/ Closes(Tail(a), s)
  BY <1>1, <1>7, DuesCons, ClosesCons
<1> QED
  BY <1>6, <1>8, <1>9, <1>10

\* The streams of rest are different, and none of them is dst.
Distinct(L) == /\ \A i \in 1..Len(L.rest) : L.rest[i] # L.dst
               /\ \A i, j \in 1..Len(L.rest) : L.rest[i] = L.rest[j] => i = j

\* The task f, d that s adds to the queue of t: an element, a producer's next call, or a
\* close.
Adds(L, M, s, t, f, d) ==
  \/ /\ f = "start" /\ L.sent # <<>> /\ d = Latest(L.sent) /\ (t = L.dst \/ InSeq(t, L.rest))
     /\ t \in Dues(L.a, L.rest, "start") /\ t \notin Dues(M.a, M.rest, "start") /\ ~Gone(L, s)
  \/ f = "start" /\ d = Nil /\ t = s /\ L.kind = "seq"
  \/ /\ f = "close" /\ d = Nil /\ (t = L.dst \/ InSeq(t, L.rest))
     /\ t \in Dues(L.a, L.rest, "close") /\ t \notin Dues(M.a, M.rest, "close")
     /\ t \notin Dues(L.a, L.rest, "start") /\ t \notin Dues(M.a, M.rest, "start") /\ Gone(L, s)

LEMMA AddsLocal ==
  ASSUME NEW s \in Streams, NEW L, TypedLocal(L), Solid(L), Distinct(L), NEW x,
         NEW o, NEW r, Splits(L.a, o, r), o.op = "addTask", o.s \in Streams,
         Following(L, s, x, o.s, o.f, o.d, Tail(r)), Is(r, AddStreamOp(o.s)),
         NEW M, M.a = r, M.rest = L.rest
  PROVE  Adds(L, M, s, o.s, o.f, o.d)
<1>1. PICK e : e = Tail(r)
  OBVIOUS
<1>2. /\ L.a \in Seq(Ops) /\ L.a # <<>> /\ o = Head(L.a) /\ r = Tail(L.a) /\ r \in Seq(Ops) /\ r # <<>>
      /\ Head(r) = AddStreamOp(o.s) /\ e \in Seq(Ops) /\ o \in Ops
  BY <1>1, HeadTail DEF Splits, Is
<1>3. \A f : Dues(r, L.rest, f) = Dues(e, L.rest, f)
  <2> SUFFICES ASSUME NEW f PROVE Dues(r, L.rest, f) = Dues(e, L.rest, f)
    OBVIOUS
  <2>1. Due(Head(r), L.rest, f) = {}
    <3>1. Head(r).op = "addStream"
      BY <1>2 DEF AddStreamOp
    <3> QED
      BY <3>1, DueNone
  <2>2. Dues(r, L.rest, f) = Due(Head(r), L.rest, f) \union Dues(Tail(r), L.rest, f)
    BY <1>2, DuesCons
  <2>3. Dues(r, L.rest, f) = Dues(Tail(r), L.rest, f)
    BY <2>1, <2>2
  <2> QED
    BY <2>3, <1>1
<1>4. \A f : Dues(L.a, L.rest, f) = Due(o, L.rest, f) \union Dues(e, L.rest, f)
  <2> SUFFICES ASSUME NEW f PROVE Dues(L.a, L.rest, f) = Due(o, L.rest, f) \union Dues(e, L.rest, f)
    OBVIOUS
  <2>1. Dues(L.a, L.rest, f) = Due(o, L.rest, f) \union Dues(r, L.rest, f)
    BY <1>2, DuesCons
  <2> QED
    BY <2>1, <1>3
<1>5. Closes(L.a, s) <=> Closes(e, s)
  <2>1. o # CloseDstOp(s) /\ Head(r) # CloseDstOp(s)
    BY <1>2 DEF CloseDstOp, AddStreamOp
  <2> QED
    BY <2>1, <1>1, <1>2, ClosesCons, ZenonT(40)
<1>6. /\ o.f = "start" /\ o.d # Nil => Due(o, L.rest, "start") = {o.s}
      /\ o.f = "close" => Due(o, L.rest, "close") = {o.s} /\ Due(o, L.rest, "start") = {}
  BY DuePush
<1>7. \A f : Dues(M.a, M.rest, f) = Dues(e, L.rest, f)
  BY <1>3
<1>8. CASE /\ Spreading(L, x) /\ o.f = "start" /\ o.d = Latest(L.sent)
           /\ \/ o.s = L.dst /\ o.s # NoStream /\ AtDrop(L, e, s)
              \/ \E i \in 1..Len(L.rest) : o.s = L.rest[i] /\ AtRest(L, e, s, i + 1)
  <2>1. L.sent # <<>> /\ o.d # Nil
    BY <1>8, LatestSolid DEF Spreading
  <2>2. o.s \in Dues(L.a, L.rest, "start")
    BY <2>1, <1>4, <1>6, <1>8
  <2>3. /\ o.s = L.dst \/ InSeq(o.s, L.rest)
        /\ o.s \notin Dues(e, L.rest, "start")
        /\ L.kind \in {"sort", "reduce"} => Closes(e, s)
    <3>1. CASE o.s = L.dst /\ AtDrop(L, e, s)
      <4>1. /\ Dues(e, L.rest, "start") = {L.rest[j] : j \in 1..Len(L.rest)}
            /\ L.kind \in {"sort", "reduce"} => Closes(e, s)
        BY <3>1, <1>2, DropDues
      <4> QED
        BY <4>1, <3>1 DEF Distinct
    <3>2. CASE \E i \in 1..Len(L.rest) : o.s = L.rest[i] /\ AtRest(L, e, s, i + 1)
      <4>1. PICK i \in 1..Len(L.rest) : o.s = L.rest[i] /\ AtRest(L, e, s, i + 1)
        BY <3>2
      <4>2. /\ Dues(e, L.rest, "start") = {L.rest[j] : j \in (i + 1)..Len(L.rest)}
            /\ L.kind \in {"sort", "reduce"} => Closes(e, s)
        BY <4>1, <1>2, RestDues
      <4>3. Len(L.rest) \in Nat
        BY DEF TypedLocal
      <4>4. o.s \notin Dues(e, L.rest, "start")
        BY <4>1, <4>2, <4>3 DEF Distinct
      <4> QED
        BY <4>1, <4>2, <4>4 DEF InSeq
    <3> QED
      BY <3>1, <3>2, <1>8
  <2>4. ~Gone(L, s)
    BY <2>3, <1>5, <1>8 DEF Gone, Spreading, Live
  <2> QED
    BY <2>1, <2>2, <2>3, <2>4, <1>7, <1>8 DEF Adds
<1>9. CASE L.kind = "seq" /\ o.f = "start" /\ o.s = s /\ o.d = Nil
  BY <1>9 DEF Adds
<1>10. CASE /\ Closing(L) /\ o.f = "close" /\ o.d = Nil
            /\ \/ o.s = L.dst /\ o.s # NoStream /\ AtCloseRest(e, s, 1)
               \/ \E i \in 1..Len(L.rest) : o.s = L.rest[i] /\ AtCloseRest(e, s, i + 1)
  <2>1. o.s \in Dues(L.a, L.rest, "close")
    BY <1>4, <1>6, <1>10
  <2>2. /\ o.s = L.dst \/ InSeq(o.s, L.rest)
        /\ o.s \notin Dues(e, L.rest, "close") /\ Dues(e, L.rest, "start") = {} /\ ~Closes(e, s)
    <3>1. CASE o.s = L.dst /\ AtCloseRest(e, s, 1)
      <4>1. /\ Dues(e, L.rest, "close") = {L.rest[j] : j \in 1..Len(L.rest)} /\ Dues(e, L.rest, "start") = {}
            /\ ~Closes(e, s)
        BY <3>1, <1>2, CloseRestDues
      <4> QED
        BY <4>1, <3>1 DEF Distinct
    <3>2. CASE \E i \in 1..Len(L.rest) : o.s = L.rest[i] /\ AtCloseRest(e, s, i + 1)
      <4>1. PICK i \in 1..Len(L.rest) : o.s = L.rest[i] /\ AtCloseRest(e, s, i + 1)
        BY <3>2
      <4>2. /\ Dues(e, L.rest, "close") = {L.rest[j] : j \in (i + 1)..Len(L.rest)} /\ Dues(e, L.rest, "start") = {}
            /\ ~Closes(e, s)
        BY <4>1, <1>2, CloseRestDues
      <4>3. Len(L.rest) \in Nat
        BY DEF TypedLocal
      <4>4. o.s \notin Dues(e, L.rest, "close")
        BY <4>1, <4>2, <4>3 DEF Distinct
      <4> QED
        BY <4>1, <4>2, <4>4 DEF InSeq
    <3> QED
      BY <3>1, <3>2, <1>10
  <2>3. Gone(L, s)
    BY <2>2, <1>5, <1>10 DEF Gone, Closing
  <2>4. o.s \notin Dues(L.a, L.rest, "start")
    BY <2>2, <1>4, <1>6, <1>10
  <2> QED
    BY <2>1, <2>2, <2>3, <2>4, <1>7, <1>10 DEF Adds
<1> QED
  BY <1>1, <1>8, <1>9, <1>10 DEF Following

-----------------------------------------------------------------------------
(* What is still to be linked.                                             *)

\* The connection at line i is to come, or being made.
ToCome(u, t, k) == \E i \in Lines(program) : i >= k /\ program[i].s = u /\ program[i].dst = t
\* The main thread, that has to do a, has yet to count u as an upstream of t.
Uncounted(a, u, t) == \/ InSeq(ConnectOp(u, t), a)
                      \/ /\ a # <<>> /\ Head(a) = RefOp(t)
                         /\ Tail(a) # <<>> /\ Head(Tail(a)) = StartOp(u)
Pending(a, k) == k \in Nat /\ \A u, t \in Streams : Uncounted(a, u, t) <=> ToCome(u, t, k)

LEMMA UnRefIs == ASSUME NEW u, NEW t PROVE UnRef(u, t) <=> Uncounted(agenda[Main], u, t)
  BY DEF UnRef, Uncounted

LEMMA UnRefIsNext == ASSUME NEW u, NEW t PROVE UnRef(u, t)' <=> Uncounted(agenda'[Main], u, t)
  BY DEF UnRef, Uncounted

LEMMA ConnectIs ==
  ASSUME Given, NEW i \in 1..Len(program), NEW u \in Streams, NEW t \in Streams
  PROVE  program[i] = ConnectOp(u, t) <=> i \in Lines(program) /\ program[i].s = u /\ program[i].dst = t
<1>1. program[i] \in Ops /\ (program[i].op = "connect" \/ program[i].op = "new")
  BY ProgramTyped
<1>2. program[i].op = "connect" => program[i] \in [op : {"connect"}, s : Streams, dst : Streams]
  BY <1>1 DEF Ops, StreamOps
<1>3. ASSUME i \in Lines(program), program[i].s = u, program[i].dst = t
      PROVE  program[i] = ConnectOp(u, t)
  BY <1>2, <1>3 DEF ConnectOp, Lines
<1>4. ASSUME program[i] = ConnectOp(u, t)
      PROVE  i \in Lines(program) /\ program[i].s = u /\ program[i].dst = t
  BY <1>4 DEF ConnectOp, Lines
<1> QED
  BY <1>3, <1>4

\* In the rest of the program.
LEMMA RestConnects ==
  ASSUME Given, NEW k \in 0..Len(program), NEW a \in Seq(Ops), Rest(a, k), NEW u \in Streams, NEW t \in Streams
  PROVE  /\ InSeq(ConnectOp(u, t), a) <=> ToCome(u, t, k + 1)
         /\ a # <<>> => Head(a) # RefOp(t)
<1>1. Len(program) \in Nat /\ Len(a) = Len(program) - k /\ \A i \in 1..Len(a) : a[i] = program[k + i]
  BY ProgramTyped DEF Rest, Given
<1>2. Lines(program) \subseteq 1..Len(program)
  BY DEF Lines
<1>3. ASSUME InSeq(ConnectOp(u, t), a) PROVE ToCome(u, t, k + 1)
  <2>1. PICK i \in 1..Len(a) : a[i] = ConnectOp(u, t)
    BY <1>3 DEF InSeq
  <2>2. k + i \in 1..Len(program) /\ program[k + i] = ConnectOp(u, t) /\ k + i >= k + 1
    BY <2>1, <1>1
  <2>3. k + i \in Lines(program) /\ program[k + i].s = u /\ program[k + i].dst = t
    BY <2>2, ConnectIs
  <2> QED
    BY <2>2, <2>3 DEF ToCome
<1>4. ASSUME ToCome(u, t, k + 1) PROVE InSeq(ConnectOp(u, t), a)
  <2>1. PICK i \in Lines(program) : i >= k + 1 /\ program[i].s = u /\ program[i].dst = t
    BY <1>4 DEF ToCome
  <2>2. i \in 1..Len(program) /\ program[i] = ConnectOp(u, t)
    BY <2>1, <1>2, ConnectIs
  <2>3. i - k \in 1..Len(a) /\ a[i - k] = program[i]
    BY <2>1, <2>2, <1>1
  <2> QED
    BY <2>2, <2>3 DEF InSeq
<1>5. ASSUME a # <<>> PROVE Head(a) # RefOp(t)
  <2>1. 1 \in 1..Len(a) /\ Head(a) = a[1]
    BY <1>5, HeadTail
  <2>2. k + 1 \in 1..Len(program) /\ Head(a) = program[k + 1]
    BY <2>1, <1>1
  <2>3. Head(a).op \in {"new", "connect"}
    BY <2>2, ProgramTyped
  <2> QED
    BY <2>3 DEF RefOp
<1> QED
  BY <1>3, <1>4, <1>5

\* A step before it that is no connection.
LEMMA ConsConnects ==
  ASSUME NEW a \in Seq(Ops), a # <<>>, NEW u, NEW t, Head(a).op # "connect"
  PROVE  InSeq(ConnectOp(u, t), a) <=> InSeq(ConnectOp(u, t), Tail(a))
<1>1. /\ Len(a) \in Nat \ {0} /\ Head(a) = a[1] /\ Len(Tail(a)) = Len(a) - 1
      /\ \A i \in 1..Len(Tail(a)) : Tail(a)[i] = a[i + 1]
  BY HeadTail
<1>2. ASSUME InSeq(ConnectOp(u, t), a) PROVE InSeq(ConnectOp(u, t), Tail(a))
  <2>1. PICK i \in 1..Len(a) : a[i] = ConnectOp(u, t)
    BY <1>2 DEF InSeq
  <2>2. i # 1
    BY <2>1, <1>1 DEF ConnectOp
  <2>3. i - 1 \in 1..Len(Tail(a)) /\ Tail(a)[i - 1] = a[i]
    BY <2>2, <1>1
  <2> QED
    BY <2>1, <2>3 DEF InSeq
<1>3. ASSUME InSeq(ConnectOp(u, t), Tail(a)) PROVE InSeq(ConnectOp(u, t), a)
  <2>1. PICK i \in 1..Len(Tail(a)) : Tail(a)[i] = ConnectOp(u, t)
    BY <1>3 DEF InSeq
  <2>2. i + 1 \in 1..Len(a) /\ a[i + 1] = Tail(a)[i]
    BY <1>1
  <2> QED
    BY <2>1, <2>2 DEF InSeq
<1> QED
  BY <1>2, <1>3

LEMMA PendingRest ==
  ASSUME Given, NEW k \in 0..Len(program), NEW a \in Seq(Ops), Rest(a, k)
  PROVE  Pending(a, k + 1)
<1>1. k + 1 \in Nat
  BY ProgramTyped
<1> QED
  BY <1>1, RestConnects DEF Pending, Uncounted

\* A step that is neither a connection nor its count, and the same of what follows.
LEMMA PendingCons ==
  ASSUME Given, NEW k \in 0..Len(program), NEW a \in Seq(Ops), a # <<>>,
         Head(a).op \notin {"connect", "ref"},
         \/ Rest(Tail(a), k)
         \/ Tail(a) # <<>> /\ Head(Tail(a)).op # "connect" /\ Rest(Tail(Tail(a)), k)
  PROVE  Pending(a, k + 1)
<1>1. k + 1 \in Nat
  BY ProgramTyped
<1>2. ASSUME NEW u \in Streams, NEW t \in Streams PROVE Uncounted(a, u, t) <=> ToCome(u, t, k + 1)
  <2>1. Head(a) # RefOp(t)
    BY DEF RefOp
  <2>2. Uncounted(a, u, t) <=> InSeq(ConnectOp(u, t), a)
    BY <2>1 DEF Uncounted
  <2>3. InSeq(ConnectOp(u, t), a) <=> InSeq(ConnectOp(u, t), Tail(a))
    BY ConsConnects
  <2>4. Tail(a) \in Seq(Ops)
    BY HeadTail
  <2>5. CASE Rest(Tail(a), k)
    BY <2>2, <2>3, <2>4, <2>5, RestConnects
  <2>6. CASE Tail(a) # <<>> /\ Head(Tail(a)).op # "connect" /\ Rest(Tail(Tail(a)), k)
    <3>1. PICK b : b = Tail(a)
      OBVIOUS
    <3>2. b \in Seq(Ops) /\ b # <<>> /\ Head(b).op # "connect" /\ Rest(Tail(b), k)
      BY <3>1, <2>4, <2>6
    <3>3. InSeq(ConnectOp(u, t), b) <=> InSeq(ConnectOp(u, t), Tail(b))
      BY <3>2, ConsConnects
    <3>4. Tail(b) \in Seq(Ops)
      BY <3>2, HeadTail
    <3>5. InSeq(ConnectOp(u, t), Tail(b)) <=> ToCome(u, t, k + 1)
      BY <3>2, <3>4, RestConnects
    <3> QED
      BY <3>1, <3>3, <3>5, <2>2, <2>3
  <2> QED
    BY <2>5, <2>6
<1> QED
  BY <1>1, <1>2 DEF Pending

LEMMA PendingRef ==
  ASSUME Given, NEW k \in Lines(program), NEW a \in Seq(Ops),
         Is(a, RefOp(program[k].dst)), Is(Tail(a), StartOp(program[k].s)), Rest(Tail(Tail(a)), k)
  PROVE  Pending(a, k)
<1>1. k \in 1..Len(program) /\ k \in 0..Len(program) /\ k \in Nat /\ Len(program) \in Nat
  BY ProgramTyped DEF Lines
<1>2. Lines(program) \subseteq 1..Len(program)
  BY DEF Lines
<1>3. ASSUME NEW u \in Streams, NEW t \in Streams PROVE Uncounted(a, u, t) <=> ToCome(u, t, k)
  <2>1. a # <<>> /\ Head(a) = RefOp(program[k].dst) /\ Tail(a) \in Seq(Ops) /\ Tail(a) # <<>>
        /\ Head(Tail(a)) = StartOp(program[k].s)
    BY HeadTail DEF Is
  <2>2. InSeq(ConnectOp(u, t), a) <=> InSeq(ConnectOp(u, t), Tail(a))
    BY <2>1, ConsConnects DEF RefOp
  <2>3. InSeq(ConnectOp(u, t), a) <=> ToCome(u, t, k + 1)
    <3>1. PICK b : b = Tail(a)
      OBVIOUS
    <3>2. b \in Seq(Ops) /\ b # <<>> /\ Head(b).op # "connect" /\ Rest(Tail(b), k)
      BY <3>1, <2>1 DEF StartOp
    <3>3. InSeq(ConnectOp(u, t), b) <=> InSeq(ConnectOp(u, t), Tail(b))
      BY <3>2, ConsConnects
    <3>4. Tail(b) \in Seq(Ops)
      BY <3>2, HeadTail
    <3>5. InSeq(ConnectOp(u, t), Tail(b)) <=> ToCome(u, t, k + 1)
      BY <3>2, <3>4, <1>1, RestConnects
    <3> QED
      BY <3>1, <3>3, <3>5, <2>2
  <2>4. RefOp(program[k].dst) = RefOp(t) <=> program[k].dst = t
    BY DEF RefOp
  <2>5. StartOp(program[k].s) = StartOp(u) <=> program[k].s = u
    BY DEF StartOp
  <2>6. Uncounted(a, u, t) <=> ToCome(u, t, k + 1) \/ (program[k].s = u /\ program[k].dst = t)
    BY <2>1, <2>3, <2>4, <2>5 DEF Uncounted
  <2>7. ToCome(u, t, k) <=> ToCome(u, t, k + 1) \/ (program[k].s = u /\ program[k].dst = t)
    <3>1. \A i \in Lines(program) : i >= k <=> i >= k + 1 \/ i = k
      BY <1>1, <1>2
    <3> QED
      BY <3>1 DEF ToCome
  <2> QED
    BY <2>6, <2>7
<1> QED
  BY <1>1, <1>3 DEF Pending

LEMMA PendingForm ==
  ASSUME Given, MainOK, agenda[Main] \in Seq(Ops)
  PROVE  \E k : Pending(agenda[Main], k)
<1>1. PICK k \in 0..Len(program) : Rest(agenda[Main], k) \/ Connecting(agenda[Main], k)
  BY DEF MainOK, MainAt
<1>2. CASE Rest(agenda[Main], k)
  BY <1>2, PendingRest
<1>3. CASE Connecting(agenda[Main], k)
  <2>1. k \in Lines(program)
    BY <1>3 DEF Connecting
  <2>2. CASE /\ Is(agenda[Main], RefOp(program[k].dst)) /\ Is(Tail(agenda[Main]), StartOp(program[k].s))
             /\ Rest(Tail(Tail(agenda[Main])), k)
    BY <2>1, <2>2, PendingRef
  <2>3. CASE ~(/\ Is(agenda[Main], RefOp(program[k].dst)) /\ Is(Tail(agenda[Main]), StartOp(program[k].s))
               /\ Rest(Tail(Tail(agenda[Main])), k))
    <3>1. /\ agenda[Main] # <<>> /\ Head(agenda[Main]).op \notin {"connect", "ref"}
          /\ \/ Rest(Tail(agenda[Main]), k)
             \/ /\ Tail(agenda[Main]) # <<>> /\ Head(Tail(agenda[Main])).op # "connect"
                /\ Rest(Tail(Tail(agenda[Main])), k)
      BY <1>3, <2>3 DEF Connecting, Is, StartOp, PushOp, AddTaskOp, AddStreamOp
    <3> QED
      BY <3>1, PendingCons
  <2> QED
    BY <2>2, <2>3
<1> QED
  BY <1>1, <1>2, <1>3

\* Who comes after one that is ready is ready: it has been linked before.
LEMMA ReadyDown ==
  ASSUME Given, MainOK, agenda[Main] \in Seq(Ops), NEW s \in Streams, Ready(s), NEW t, Link(s, t)
  PROVE  Ready(t)
<1>1. PICK k : Pending(agenda[Main], k)
  BY PendingForm
<1>2. PICK i \in Lines(program) : program[i].s = s /\ program[i].dst = t
  BY DEF Link
<1>3. k \in Nat /\ Lines(program) \subseteq 1..Len(program) /\ Len(program) \in Nat /\ t \in Streams
  BY <1>1, ProgramTyped, LinkTyped DEF Lines, Pending
<1>4. i < k
  <2>1. ~UnRef(s, t)
    BY <1>3 DEF Ready
  <2>2. ~(i >= k)
    BY <2>1, <1>1, <1>2, <1>3, UnRefIs DEF Pending, ToCome
  <2> QED
    BY <2>2, <1>3
<1>5. ASSUME NEW v \in Streams, NEW x \in Streams, UnRef(v, x)
      PROVE  v # t /\ x # t /\ ~Link(t, x)
  <2>1. PICK j \in Lines(program) : j >= k /\ program[j].s = v /\ program[j].dst = x
    BY <1>1, <1>5, UnRefIs DEF Pending, ToCome
  <2>2. i \in 1..Len(program) /\ j \in 1..Len(program) /\ i < j
    BY <1>3, <1>4, <2>1
  <2>3. x # t
    BY <1>5 DEF Ready
  <2>4. v # t
    <3>1. i <= j => program[j].s # program[i].dst
      BY DEF Given, ReadyToRun, FromTheEnds
    <3> QED
      BY <3>1, <2>2, <2>1, <1>2
  <2>5. ~Link(t, x)
    <3> SUFFICES ASSUME Link(t, x) PROVE FALSE
      OBVIOUS
    <3>1. PICK h \in Lines(program) : program[h].s = t /\ program[h].dst = x
      BY DEF Link
    <3>2. h \in 1..Len(program)
      BY <1>3
    <3>3. i <= h => program[h].s # program[i].dst
      BY DEF Given, ReadyToRun, FromTheEnds
    <3>4. h < j /\ i < j
      BY <3>1, <3>2, <3>3, <2>2, <1>2
    <3>5. program[j].dst = program[h].dst /\ h < j => \A g \in Lines(program) : g < j => program[g].dst # program[h].s
      BY DEF Given, ReadyToRun, FromTheEnds
    <3> QED
      BY <3>1, <3>4, <3>5, <2>1, <1>2
  <2> QED
    BY <2>3, <2>4, <2>5
<1>6. Touched(t)
  BY <1>2 DEF Touched
<1> QED
  BY <1>5, <1>6 DEF Ready

LEMMA AppendChannel ==
  ASSUME Given, Typed, program' = program, NEW t \in Streams, NEW z, Channel(t, z), NEW x \in Tasks,
         tasks'[t] = Append(tasks[t], x), got' = got, sent' = sent, refcnt' = refcnt, UnRefs(t)' = UnRefs(t),
         NEW F, F = Flights(t), NEW C, C = Open(t), NEW G, G = Flights(t)', NEW B, B = Open(t)', G \subseteq B,
         \A v \in Ups(t) : Brings(x, From(v)) => v \in F /\ v \notin G /\ x.d = Latest(sent[v]),
         \A v \in Ups(t) : ~Brings(x, From(v)) => (v \in G <=> v \in F),
         x.f = "start" /\ x.d # Nil => \E v \in Ups(t) : x.d \in From(v),
         x.f = "start" => B = C, x.f = "close" => \E u \in C : B = C \ {u}
  PROVE  Channel(t, z)'
<1>1. PICK U : U = Ups(t)
  OBVIOUS
<1>2. Ups(t)' = U /\ (\A u : From(u)' = From(u)) /\ IsFiniteSet(U)
  BY <1>1, SameProgram, UpsFinite
<1>3. PICK E : E = [u \in U |-> From(u)]
  OBVIOUS
<1>4. PICK S : S = [u \in U |-> sent[u]]
  OBVIOUS
<1>5. PICK m : m = refcnt[t] + Cardinality(UnRefs(t)) - z
  OBVIOUS
<1>6. Chan(U, E, tasks[t], got[t], S, F, C, m)
  BY <1>1, <1>3, <1>4, <1>5 DEF Channel
<1>7. Sequences(S, U, Data) /\ \A v \in U : E[v] = From(v) /\ S[v] = sent[v]
  <2>1. sent \in [Streams -> Seq(Data)] /\ U \subseteq Streams
    BY <1>1 DEF Typed, TypeOK, HistoryOK, Ups
  <2> QED
    BY <2>1, <1>3, <1>4 DEF Sequences
<1>8. tasks[t] \in Seq(Tasks)
  BY DEF Typed, TypeOK, QueuesOK
<1>9. /\ \A v \in U : Brings(x, E[v]) => v \in F /\ v \notin G /\ x.d = Latest(S[v])
      /\ \A v \in U : ~Brings(x, E[v]) => (v \in G <=> v \in F)
      /\ x.f = "start" /\ x.d # Nil => \E v \in U : x.d \in E[v]
  <2> HIDE <1>3, <1>4, <1>5
  <2> QED
    BY <1>1, <1>7
<1>10. Chan(U, E, Append(tasks[t], x), got[t], S, G, B, m)
  <2> HIDE <1>1, <1>3, <1>4, <1>5
  <2> QED
    BY <1>2, <1>6, <1>7, <1>8, <1>9, ChanAppend, ZenonT(40)
<1>11. E = [u \in Ups(t) |-> From(u)]' /\ S = [u \in Ups(t) |-> sent[u]]'
       /\ m = (refcnt[t] + Cardinality(UnRefs(t)) - z)'
  BY <1>2, <1>3, <1>4, <1>5
<1>12. Chan(Ups(t)', E, tasks'[t], got'[t], S, G, B, m)
  <2> HIDE <1>1, <1>3, <1>4, <1>5
  <2> QED
    BY <1>2, <1>10
<1> HIDE <1>1, <1>3, <1>4, <1>5
<1> QED
  BY <1>11, <1>12 DEF Channel

\* The task comes into the channel of its stream.
LEMMA AddChannel ==
  ASSUME Delivering, NEW s \in Streams, Steady(s), mode[s] # "none", NEW L, L = Local(s), NEW M, M = Local(s)',
         TypedLocal(L), NEW t \in Streams, NEW f \in Funcs, NEW d \in Data, Adds(L, M, s, t, f, d),
         Gone(M, s) <=> Gone(L, s),
         tasks' = [tasks EXCEPT ![t] = Append(@, [f |-> f, d |-> d])],
         got' = got, sent' = sent, refcnt' = refcnt, NEW z, Channel(t, z)
  PROVE  Channel(t, z)'
<1>1. Given /\ Typed /\ Kinded /\ Linked /\ Origins
  BY DEF Delivering, Flowing, ExclusiveInv
<1>2. program' = program /\ agenda'[Main] = agenda[Main]
  BY DEF Steady
<1>3. UnRefs(t)' = UnRefs(t) /\ Ups(t)' = Ups(t)
  BY <1>2, SameMain, SameProgram
<1>4. PICK x \in Tasks : x = [f |-> f, d |-> d]
  BY DEF Tasks
<1>5. x.f = f /\ x.d = d /\ tasks'[t] = Append(tasks[t], x)
  BY <1>1, <1>4 DEF Typed, TypeOK, QueuesOK
<1>6. PICK F : F = Flights(t)
  OBVIOUS
<1>7. PICK C : C = Open(t)
  OBVIOUS
<1>8. PICK G : G = Flights(t)'
  OBVIOUS
<1>9. PICK B : B = Open(t)'
  OBVIOUS
<1>10. ASSUME NEW u \in Ups(t), u # s
       PROVE  (u \in G <=> u \in F) /\ (u \in B <=> u \in C)
  <2>1. Local(u)' = Local(u)
    BY <1>10 DEF Ups, Steady
  <2> QED
    BY <2>1, <1>3, <1>6, <1>7, <1>8, <1>9 DEF Flights, Open
<1>11. s \in Ups(t) => /\ s \in F <=> t \in Dues(L.a, L.rest, "start")
                       /\ s \in G <=> t \in Dues(M.a, M.rest, "start")
                       /\ s \in C <=> Opens(L, s, t)
                       /\ s \in B <=> Opens(M, s, t)
  BY <1>3, <1>6, <1>7, <1>8, <1>9 DEF Flights, Open
<1>12. F \subseteq C /\ C \subseteq Ups(t)
  BY <1>6, <1>7, ChanBound DEF Channel
<1>13. G \subseteq Ups(t) /\ B \subseteq Ups(t)
  BY <1>3, <1>8, <1>9 DEF Flights, Open
<1> HIDE <1>4
<1>14. t = L.dst \/ InSeq(t, L.rest) => s \in Ups(t)
  BY <1>1 DEF Local, Joined, Linked, Ups
<1>15. /\ G \subseteq B
       /\ \A v \in Ups(t) : Brings(x, From(v)) => v \in F /\ v \notin G /\ x.d = Latest(sent[v])
       /\ \A v \in Ups(t) : ~Brings(x, From(v)) => (v \in G <=> v \in F)
       /\ x.f = "start" /\ x.d # Nil => \E v \in Ups(t) : x.d \in From(v)
       /\ x.f = "start" => B = C
       /\ x.f = "close" => \E u \in C : B = C \ {u}
  <2> HIDE <1>6, <1>7, <1>8, <1>9
  <2>1. CASE /\ f = "start" /\ L.sent # <<>> /\ d = Latest(L.sent) /\ (t = L.dst \/ InSeq(t, L.rest))
             /\ t \in Dues(L.a, L.rest, "start") /\ t \notin Dues(M.a, M.rest, "start") /\ ~Gone(L, s)
    <3>1. s \in Ups(t) /\ s \in F /\ s \notin G /\ s \in C /\ s \in B
      BY <2>1, <1>11, <1>14 DEF Opens
    <3>2. d \in From(s) /\ d = Latest(sent[s])
      <4>1. L.sent = sent[s] /\ L.sent \in Seq(Data)
        BY DEF Local, TypedLocal
      <4>2. Len(L.sent) \in 1..Len(L.sent)
        BY <4>1, <2>1
      <4>3. sent[s][Len(L.sent)] \in From(s)
        BY <4>1, <4>2, <1>1 DEF Origins
      <4> QED
        BY <4>1, <4>3, <2>1 DEF Latest
    <3>3. \A v \in Ups(t) : v # s => d \notin From(v)
      BY <3>1, <3>2, <1>1, Disjoint
    <3>4. \A v \in Ups(t) : Brings(x, From(v)) <=> v = s
      BY <3>2, <3>3, <1>5, <2>1 DEF Brings
    <3>5. B = C
      BY <3>1, <1>10, <1>12, <1>13
    <3>6. G \subseteq B
      BY <3>1, <3>5, <1>10, <1>12, <1>13
    <3> QED
      BY <3>1, <3>2, <3>4, <3>5, <3>6, <1>5, <1>10, <2>1
  <2>2. CASE f = "start" /\ d = Nil /\ t = s /\ L.kind = "seq"
    <3>1. KindOf(s) = "seq"
      BY <2>2, <1>1 DEF Kinded, Local
    <3>2. Ups(t) = {}
      BY <3>1, <2>2, <1>1, LinkTyped DEF Ups
    <3>3. G = {} /\ B = {} /\ C = {}
      BY <3>2, <1>12, <1>13
    <3> QED
      BY <3>2, <3>3, <1>5, <2>2
  <2>3. CASE /\ f = "close" /\ d = Nil /\ (t = L.dst \/ InSeq(t, L.rest))
             /\ t \in Dues(L.a, L.rest, "close") /\ t \notin Dues(M.a, M.rest, "close")
             /\ t \notin Dues(L.a, L.rest, "start") /\ t \notin Dues(M.a, M.rest, "start") /\ Gone(L, s)
    <3>1. s \in Ups(t) /\ s \notin F /\ s \notin G /\ s \in C /\ s \notin B
      BY <2>3, <1>11, <1>14 DEF Opens
    <3>2. B = C \ {s}
      BY <3>1, <1>10, <1>12, <1>13
    <3>3. G \subseteq B
      BY <3>1, <3>2, <1>10, <1>12, <1>13
    <3>4. \A v \in Ups(t) : ~Brings(x, From(v)) /\ (v \in G <=> v \in F)
      BY <3>1, <1>5, <1>10, <2>3 DEF Brings
    <3> QED
      BY <3>1, <3>2, <3>3, <3>4, <1>5, <2>3
  <2> QED
    BY <2>1, <2>2, <2>3 DEF Adds
<1> QED
  BY <1>1, <1>2, <1>3, <1>5, <1>6, <1>7, <1>8, <1>9, <1>15, AppendChannel

\* Who gets a task is ready for it.
LEMMA AddsReady ==
  ASSUME Delivering, NEW s \in Streams, mode[s] # "none", Ready(s), NEW L, L = Local(s), NEW M,
         NEW t \in Streams, NEW f, NEW d, Adds(L, M, s, t, f, d)
  PROVE  /\ Ready(t) /\ mode[t] # "none"
         /\ f = "start" /\ d = Nil => KindOf(t) = "seq" \/ d = Latest(L.sent)
<1>1. Given /\ MainOK /\ Kinded /\ Linked /\ agenda[Main] \in Seq(Ops)
  BY DEF Delivering, Flowing, ExclusiveInv, Typed, TypeOK, AgendasOK, Threads
<1>2. CASE t = L.dst \/ InSeq(t, L.rest)
  <2>1. Link(s, t) /\ mode[t] # "none"
    BY <1>1, <1>2 DEF Linked, Joined, Local
  <2>2. Ready(t)
    BY <2>1, <1>1, ReadyDown
  <2> QED
    BY <2>1, <2>2, <1>1 DEF Adds, Kinded, Local
<1>3. CASE f = "start" /\ d = Nil /\ t = s /\ L.kind = "seq"
  <2>1. KindOf(s) = "seq"
    BY <1>1, <1>3 DEF Kinded, Local
  <2> QED
    BY <2>1, <1>3
<1> QED
  BY <1>2, <1>3 DEF Adds

\* A stream adds a task to a queue.
LEMMA AddKeeps ==
  ASSUME Delivering, Typed', NEW s \in Streams, mode[s] # "none", Ready(s), Steady(s), NEW L, L = Local(s), NEW M, M = Local(s)',
         TypedLocal(L), Solid(L), NEW t \in Streams, NEW f \in Funcs, NEW d \in Data, Adds(L, M, s, t, f, d),
         tasks' = [tasks EXCEPT ![t] = Append(@, [f |-> f, d |-> d])],
         got' = got, sent' = sent, refcnt' = refcnt, M.mode = L.mode, L.a # <<>>, OwnCloses(M.a, s),
         NEW x \in {-1, 0, 1}, Phase(M, s, x), Live(L.mode) => Channel(s, x),
         Passes(L, M, s, Streams \ {t})
  PROVE  Flowing'
<1>1. /\ Given /\ MainOK /\ Kinded /\ Linked /\ Apart /\ Awake /\ Tokens /\ Origins
      /\ Lasts /\ Ends /\ Phased /\ Typed
  BY DEF Delivering, Flowing, ExclusiveInv
<1>2. program' = program
  BY DEF Steady
<1>3. L.mode = mode[s] /\ M.mode = mode'[s] /\ L.sent = sent[s] /\ M.sent = sent'[s] /\ L.a = Steps(s) /\ M.a = Steps(s)'
  BY DEF Local
<1>4. Ready(t) /\ mode[t] # "none" /\ (f = "start" /\ d = Nil => KindOf(t) = "seq")
  <2>1. L.sent # <<>> => Latest(L.sent) # Nil
    BY LatestSolid
  <2>2. f = "start" /\ d = Nil /\ L.sent = <<>> => KindOf(t) = "seq"
    BY <1>1, <1>3 DEF Adds, Kinded, Local
  <2> QED
    BY <2>1, <2>2, AddsReady
<1>5. tasks'[t] = Append(tasks[t], [f |-> f, d |-> d]) /\ \A u \in Streams : u # t => tasks'[u] = tasks[u]
  BY <1>1 DEF Typed, TypeOK, QueuesOK
<1>6. Given' /\ MainOK' /\ Kinded' /\ Linked' /\ Apart' /\ Awake'
  <2>1. Steps(s) # <<>>
    BY <1>3
  <2>2. \A u \in Streams : mode[u] = "none" => tasks'[u] = tasks[u]
    BY <1>4, <1>5
  <2>3. \A u \in Streams : tasks'[u] # <<>> => tasks[u] # <<>> \/ (Ready(u) /\ mode[u] # "none")
    BY <1>4, <1>5
  <2> QED
    BY <1>1, <2>1, <2>2, <2>3, SteadyKeeps
<1>7. Tokens'
  <2> SUFFICES ASSUME NEW u \in Streams, NEW i \in 1..Len(tasks'[u]),
                      tasks'[u][i].f = "start", tasks'[u][i].d = Nil
               PROVE  KindOf(u)' = "seq"
    BY DEF Tokens
  <2>1. KindOf(u)' = KindOf(u)
    BY <1>2, SameProgram
  <2>2. CASE u # t
    BY <2>1, <2>2, <1>1, <1>5 DEF Tokens
  <2>3. CASE u = t
    <3>1. PICK q \in Seq(Tasks) : q = tasks[t]
      BY <1>1 DEF Typed, TypeOK, QueuesOK
    <3>2. PICK c \in Tasks : c = [f |-> f, d |-> d]
      BY DEF Tasks
    <3>3. tasks'[u] = Append(q, c) /\ c.f = f /\ c.d = d
      BY <2>3, <3>1, <3>2, <1>5
    <3>4. tasks'[u][i] = c \/ (i \in 1..Len(q) /\ tasks'[u][i] = q[i])
      <4> HIDE <3>1, <3>2
      <4> QED
        BY <3>3
    <3> QED
      BY <3>1, <3>3, <3>4, <2>1, <2>3, <1>1, <1>4 DEF Tokens
  <2> QED
    BY <2>2, <2>3
<1>8. Origins'
  BY <1>1, <1>2, SameProgram DEF Origins, InSeq, Ups
<1>9. Gone(M, s) <=> Gone(L, s)
  BY DEF Passes
<1>10. Lasts'
  BY <1>1, <1>3, <1>9, LastsNext DEF Lasts
<1>11. Ends'
  BY <1>1, <1>3, EndsNext
<1>12. ASSUME NEW u \in Streams, NEW z \in {-1, 0, 1}, Channel(u, z)
       PROVE  Channel(u, z)'
  <2>1. CASE u = t
    BY <2>1, <1>5, <1>9, <1>12, AddChannel
  <2>2. CASE u # t
    <3>1. /\ u \in Dues(M.a, M.rest, "start") <=> u \in Dues(L.a, L.rest, "start")
          /\ Opens(M, s, u) <=> Opens(L, s, u)
      BY <2>2 DEF Passes, Opens, Funcs
    <3>2. refcnt'[u] - z = refcnt[u] - z /\ z \in Int /\ tasks'[u] = tasks[u] /\ got'[u] = got[u] /\ M.sent = L.sent
      BY <2>2, <1>3, <1>5
    <3> QED
      BY <3>1, <3>2, <1>1, <1>12, SteadyChannel
  <2> QED
    BY <2>1, <2>2
<1>13. Phased'
  <2>1. Live(M.mode) => Channel(s, x)'
    BY <1>12
  <2> QED
    BY <2>1, <1>1, <1>12, PhasedNext
<1> QED
  BY <1>6, <1>7, <1>8, <1>10, <1>11, <1>13 DEF Flowing

\* strm_task_add
LEMMA WorkerAddTask ==
  ASSUME Delivering, ExclusiveInv', NEW w \in Workers, NEW s, NEW o, NEW r, NEW L, NEW M,
         Chosen(w, s, o, r, L, M), AddTask(w)
  PROVE  Flowing' /\ Hidden
<1>1. o.op = "addTask" /\ o = Head(agenda[w])
  BY DEF Chosen, AddTask, At
<1>2. /\ s \in Streams /\ Splits(L.a, o, r) /\ TypedLocal(L) /\ Solid(L) /\ States(L, M, s)
      /\ mode[s] # "none" /\ Ready(s)
      /\ \E x \in {-1, 0, 1} : Phase(L, s, x) /\ (Live(L.mode) => Channel(s, x))
  BY ChosenFacts
<1>3. PICK x \in {-1, 0, 1} : Phase(L, s, x) /\ (Live(L.mode) => Channel(s, x))
  BY <1>2
<1>4. L = Local(s) /\ M = Local(s)'
  BY DEF Chosen
<1>5. tasks' = [tasks EXCEPT ![o.s] = Append(@, [f |-> o.f, d |-> o.d])]
  BY <1>1 DEF AddTask
<1>6. /\ dst' = dst /\ n' = n /\ mode' = mode /\ refcnt' = refcnt /\ sent' = sent
      /\ program' = program /\ kind' = kind /\ limit' = limit /\ rest' = rest /\ got' = got
  BY DEF AddTask, sharedVars, streamVars, historyVars
<1>7. PICK p : p = <<>> /\ Works(w, s, p)
  <2>1. Return(w)
    BY Zenon DEF AddTask
  <2>2. PICK p : p = <<>>
    OBVIOUS
  <2>3. pc' = pc /\ cur' = cur /\ agenda' = [agenda EXCEPT ![w] = p \o Tail(@)]
    BY <2>1, <2>2, Zenon DEF Return, Continue
  <2>4. Works(w, s, p)
    BY <2>3, <1>6, Zenon DEF Works
  <2> QED
    BY <2>2, <2>4
<1>8. M.a = <<>> \o r /\ agenda'[Main] = agenda[Main] /\ \A u \in Streams : u # s => Local(u)' = Local(u)
  <2>1. Works(w, s, p)
    BY <1>7
  <2>2. M.a = p \o r /\ agenda'[Main] = agenda[Main] /\ \A u \in Streams : u # s => Local(u)' = Local(u)
    BY <2>1, WorksFacts
  <2> QED
    BY <2>2, <1>7
<1>9. Turns(L, M, <<>> \o r) /\ M.dst = L.dst /\ M.mode = L.mode
  BY <1>2, <1>6, <1>8 DEF States, Turns
<1>10. /\ Phase(M, s, x) /\ Passes(L, M, s, Streams \ {o.s})
       /\ Following(L, s, x, o.s, o.f, o.d, Tail(r))
       /\ Is(r, AddStreamOp(o.s))
       /\ o.s \in Streams /\ o.f \in Funcs /\ o.d \in Data
  BY <1>1, <1>2, <1>3, <1>9, AddTaskLocal
<1>11. Distinct(L)
  BY <1>2 DEF Delivering, Flowing, Apart, Distinct, States
<1>12. M.a = r /\ M.rest = L.rest
  <2>1. r \in Seq(Ops)
    BY <1>2, SplitFacts
  <2> QED
    BY <2>1, <1>8, <1>9, Front0 DEF Turns
<1>13. Adds(L, M, s, o.s, o.f, o.d)
  BY <1>1, <1>2, <1>10, <1>11, <1>12, AddsLocal
<1>14. Steady(s)
  <2>1. Works(w, s, p)
    BY <1>7
  <2> QED
    BY <2>1, <1>2, <1>8, <1>9, WorksSteady
<1>15. L.a # <<>> /\ OwnCloses(M.a, s)
  <2>1. OwnCloses(L.a, s) /\ r = Tail(L.a) /\ L.a \in Seq(Ops) /\ L.a # <<>>
    BY <1>2 DEF Delivering, Flowing, Ends, States, Splits
  <2>2. OwnCloses(<<>>, s) /\ <<>> \in Seq(Ops)
    BY ShortFacts, ShortAgendas
  <2> QED
    BY <2>1, <2>2, <1>8, OwnClosesNext
<1> HIDE <1>7
<1>16. Flowing'
  <2>1. Typed'
    BY DEF ExclusiveInv
  <2> QED
    BY <2>1, <1>2, <1>3, <1>4, <1>5, <1>6, <1>9, <1>10, <1>13, <1>14, <1>15, AddKeeps
<1>17. \A u \in Streams : /\ Live(mode'[u]) <=> Live(mode[u])
                          /\ Gone(Local(u)', u) <=> Gone(Local(u), u)
  <2>1. Gone(M, s) <=> Gone(L, s)
    BY <1>10 DEF Passes
  <2> QED
    BY <2>1, <1>4, <1>6, <1>8
<1> QED
  BY <1>6, <1>16, <1>17 DEF Hidden

-----------------------------------------------------------------------------
(* A task leaves a queue.                                                  *)

\* What s is invoked with.
Gets(x, g, h) == /\ x.f = "start" /\ x.d # Nil => h = Append(g, x.d)
                 /\ ~(x.f = "start" /\ x.d # Nil) => h = g
\* A task with an element brings the next of its upstream.
Comes(s, x) ==
  /\ x.f = "start" /\ x.d # Nil => \E u \in Ups(s) : x.d \in From(u)
  /\ \A u \in Ups(s) : Brings(x, From(u)) =>
       Count(got[s], From(u)) < Len(sent[u]) /\ x.d = sent[u][Count(got[s], From(u)) + 1]

LEMMA CountSame ==
  ASSUME NEW g \in Seq(Data), NEW d \in Data, NEW E, d \notin E
  PROVE  Count(Append(g, d), E) = Count(g, E)
<1>1. PICK y : y = IF d \in E THEN 1 ELSE 0
  OBVIOUS
<1>2. y = 0
  BY <1>1
<1>3. Count(g, E) \in Nat /\ Count(Append(g, d), E) = Count(g, E) + y
  BY <1>1, CountFacts, Zenon
<1> HIDE <1>1
<1> QED
  BY <1>2, <1>3

LEMMA TakeChannel ==
  ASSUME Given, Typed, Typed', NEW s \in Streams, Steady(s), Channel(s, 0), tasks[s] # <<>>, NEW x, x = Head(tasks[s]),
         tasks'[s] = Tail(tasks[s]), sent' = sent, refcnt' = refcnt, Gets(x, got[s], got'[s])
  PROVE  /\ x.f = "start" => Channel(s, 0)'
         /\ x.f = "close" => Channel(s, 1)' /\ Ups(s) # {}
         /\ Comes(s, x)
<1>1. program' = program /\ agenda'[Main] = agenda[Main]
  BY DEF Steady
<1>2. /\ UnRefs(s)' = UnRefs(s) /\ Ups(s)' = Ups(s) /\ s \notin Ups(s) /\ IsFiniteSet(Ups(s))
      /\ \A u : From(u)' = From(u)
  BY <1>1, SameMain, SameProgram, UpsFinite, LinkTyped DEF Ups
<1>3. Flights(s)' = Flights(s) /\ Open(s)' = Open(s)
  <2>1. \A u \in Ups(s) : Local(u)' = Local(u)
    BY <1>2 DEF Ups, Steady
  <2> QED
    BY <2>1, <1>2 DEF Flights, Open
<1>4. PICK U : U = Ups(s)
  OBVIOUS
<1>5. PICK E : E = [u \in U |-> From(u)]
  OBVIOUS
<1>6. PICK S : S = [u \in U |-> sent[u]]
  OBVIOUS
<1>7. PICK m : m = refcnt[s] + Cardinality(UnRefs(s)) - 0
  OBVIOUS
<1>8. Chan(U, E, tasks[s], got[s], S, Flights(s), Open(s), m)
  BY <1>4, <1>5, <1>6, <1>7 DEF Channel
<1>9. Sequences(S, U, Data) /\ \A v \in U : E[v] = From(v) /\ S[v] = sent[v]
  <2>1. sent \in [Streams -> Seq(Data)] /\ U \subseteq Streams
    BY <1>4 DEF Typed, TypeOK, HistoryOK, Ups
  <2> QED
    BY <2>1, <1>5, <1>6 DEF Sequences
<1>10. PICK q \in Seq(Tasks) : q = tasks[s]
  BY DEF Typed, TypeOK, QueuesOK
<1>11. x \in Tasks /\ x = Head(q) /\ q # <<>>
  BY <1>10, HeadTail
<1>12. x.f \in Funcs /\ x.d \in Data
  BY <1>11 DEF Tasks
<1>13. PICK g \in Seq(Data) : g = got[s]
  BY DEF Typed, TypeOK, HistoryOK
<1>14. PICK h \in Seq(Data) : h = got'[s]
  BY DEF Typed, TypeOK, HistoryOK
<1>15. Gets(x, g, h)
  BY <1>13, <1>14
<1>16. IsFiniteSet(U)
  BY <1>2, <1>4
<1>17. Chan(U, E, q, g, S, Flights(s), Open(s), m)
  BY <1>8, <1>10, <1>13
<1>18. \A v \in U : Nil \notin E[v]
  BY <1>9, NilAssumption DEF From
<1> HIDE <1>4, <1>5, <1>6, <1>7, <1>10, <1>13, <1>14
<1>19. \A v \in U : Brings(x, E[v]) => h = Append(g, x.d)
  BY <1>15, <1>18 DEF Brings, Gets
<1>20. \A v \in U : ~Brings(x, E[v]) => Count(h, E[v]) = Count(g, E[v])
  <2> SUFFICES ASSUME NEW v \in U, ~Brings(x, E[v]) PROVE Count(h, E[v]) = Count(g, E[v])
    OBVIOUS
  <2>1. CASE h = g
    BY <2>1
  <2>2. CASE h # g
    <3>1. x.f = "start" /\ h = Append(g, x.d) /\ x.d \notin E[v]
      BY <2>2, <1>15 DEF Gets, Brings
    <3>3. Count(Append(g, x.d), E[v]) = Count(g, E[v])
      BY <3>1, <1>12, CountSame
    <3> QED
      BY <3>1, <3>3
  <2> QED
    BY <2>1, <2>2
<1>21. Passed(U, E, q, x, g, h, S, Flights(s), Open(s), m)
  <2>1. Sequences(S, U, Data)
    BY <1>9
  <2> QED
    BY <2>1, <1>11, <1>16, <1>17, <1>19, <1>20, ChanTake
<1>22. x.f = "close" => U # {}
  <2>1. ASSUME U = {}, x.f = "close" PROVE FALSE
    <3>1. Chan({}, E, q, g, S, Flights(s), Open(s), m)
      BY <2>1, <1>17
    <3>2. Head(q) = [f |-> "start", d |-> Nil]
      BY <3>1, <1>11, ChanSource
    <3> QED
      BY <3>2, <2>1, <1>11
  <2> QED
    BY <2>1
<1>23. E = [u \in Ups(s) |-> From(u)]' /\ S = [u \in Ups(s) |-> sent[u]]' /\ Tail(q) = tasks'[s]
  BY <1>2, <1>4, <1>5, <1>6, <1>10
<1>24. m = (refcnt[s] + Cardinality(UnRefs(s)) - 0)'
  BY <1>2, <1>7
<1>25. m - 1 = (refcnt[s] + Cardinality(UnRefs(s)) - 1)'
  <2>1. refcnt[s] \in Int /\ Cardinality(UnRefs(s)) \in Nat
    BY UnRefsTyped DEF Typed, TypeOK, StreamsOK
  <2> QED
    BY <2>1, <1>2, <1>7
<1>26. x.f = "start" => Channel(s, 0)'
  BY <1>2, <1>3, <1>4, <1>14, <1>21, <1>23, <1>24 DEF Channel, Passed
<1>27. x.f = "close" => Channel(s, 1)'
  BY <1>2, <1>3, <1>4, <1>14, <1>21, <1>23, <1>25 DEF Channel, Passed
<1>28. Comes(s, x)
  <2>1. \A v \in Ups(s) : E[v] = From(v) /\ S[v] = sent[v]
    BY <1>4, <1>9
  <2> QED
    BY <2>1, <1>4, <1>13, <1>21 DEF Comes, Passed
<1> QED
  BY <1>4, <1>22, <1>26, <1>27, <1>28

\* s is invoked for the next element of one of its upstreams.
Invoked(s) ==
  /\ program' = program /\ sent' = sent /\ mode[s] # "none" /\ Live(mode[s])
  /\ \E u \in Ups(s) : \E d :
       /\ Count(got[s], From(u)) < Len(sent[u]) /\ d = sent[u][Count(got[s], From(u)) + 1]
       /\ got' = [got EXCEPT ![s] = Append(@, d)]
  /\ \A u \in Streams : /\ Live(mode'[u]) <=> Live(mode[u])
                        /\ Gone(Local(u)', u) <=> Gone(Local(u), u)

\* Where it comes from.
LEMMA TakeOrigins ==
  ASSUME Given, Typed, Origins, program' = program, sent' = sent, NEW s \in Streams, NEW x, Comes(s, x),
         NEW h, Gets(x, got[s], h), got' = [got EXCEPT ![s] = h]
  PROVE  Origins'
<1>1. \A u : From(u)' = From(u) /\ Ups(u)' = Ups(u)
  BY SameProgram
<1>2. got \in [Streams -> Seq(Data)] /\ sent \in [Streams -> Seq(Data)]
  BY DEF Typed, TypeOK, HistoryOK
<1>3. got'[s] = h /\ \A t \in Streams : t # s => got'[t] = got[t]
  BY <1>2
<1>4. ASSUME x.f = "start", x.d # Nil
      PROVE  x.d \in From(s) /\ \A u \in Ups(s) : x.d \in From(u) => InSeq(x.d, sent[u])
  <2>1. PICK u \in Ups(s) : x.d \in From(u)
    BY <1>4 DEF Comes
  <2>2. Link(u, s)
    BY <2>1 DEF Ups
  <2>3. x.d \in From(s)
    BY <2>1, <2>2, ReachDown
  <2>4. ASSUME NEW v \in Ups(s), x.d \in From(v)
        PROVE  InSeq(x.d, sent[v])
    <3>1. PICK k : k = Count(got[s], From(v))
      OBVIOUS
    <3>2. k < Len(sent[v]) /\ x.d = sent[v][k + 1]
      BY <3>1, <2>4, <1>4 DEF Comes, Brings
    <3>3. k \in Nat
      <4>1. PICK g \in Seq(Data) : g = got[s]
        BY <1>2
      <4>2. PICK d : d \in Data
        BY DEF Data
      <4>3. Count(g, From(v)) \in Nat
        BY <4>2, CountFacts
      <4> QED
        BY <3>1, <4>1, <4>3
    <3>4. sent[v] \in Seq(Data)
      BY <1>2 DEF Ups
    <3>5. k + 1 \in 1..Len(sent[v])
      BY <3>2, <3>3, <3>4
    <3> QED
      BY <3>2, <3>5 DEF InSeq
  <2> QED
    BY <2>3, <2>4
<1>5. ASSUME NEW i \in 1..Len(h)
      PROVE  h[i] \in From(s) /\ \A u \in Ups(s) : h[i] \in From(u) => InSeq(h[i], sent[u])
  <2>1. PICK g \in Seq(Data) : g = got[s]
    BY <1>2
  <2>2. i \in 1..Len(g) => h[i] \in From(s) /\ \A u \in Ups(s) : h[i] \in From(u) => InSeq(h[i], sent[u])
    <3>1. i \in 1..Len(g) => h[i] = g[i]
      <4>1. h = g \/ h = Append(g, x.d)
        BY <2>1 DEF Gets
      <4> HIDE <2>1
      <4> QED
        BY <4>1
    <3> QED
      BY <3>1, <2>1 DEF Origins
  <2>3. i \notin 1..Len(g) => x.f = "start" /\ x.d # Nil /\ h[i] = x.d
    <3>1. CASE x.f = "start" /\ x.d # Nil
      <4>1. h = Append(g, x.d)
        BY <3>1, <2>1 DEF Gets
      <4> HIDE <2>1
      <4> QED
        BY <4>1, <3>1
    <3>2. CASE ~(x.f = "start" /\ x.d # Nil)
      BY <3>2, <2>1 DEF Gets
    <3> QED
      BY <3>1, <3>2
  <2> QED
    BY <2>2, <2>3, <1>4
<1>6. ASSUME NEW t \in Streams, NEW i \in 1..Len(got'[t])
      PROVE  got'[t][i] \in From(t) /\ \A u \in Ups(t) : got'[t][i] \in From(u) => InSeq(got'[t][i], sent[u])
  <2>1. CASE t = s
    BY <2>1, <1>3, <1>5, <1>6
  <2>2. CASE t # s
    BY <2>2, <1>3, <1>6 DEF Origins
  <2> QED
    BY <2>1, <2>2
<1> QED
  BY <1>1, <1>6 DEF Origins

\* A stream starts to execute its next task.
LEMMA TakeKeeps ==
  ASSUME Delivering, Typed', NEW s \in Streams, mode[s] # "none", Live(mode[s]), Steady(s),
         NEW L, L = Local(s), NEW M, M = Local(s)', tasks[s] # <<>>, tasks' = [tasks EXCEPT ![s] = Tail(@)],
         NEW x, Comes(s, x), NEW h, Gets(x, got[s], h), got' = [got EXCEPT ![s] = h],
         sent' = sent, refcnt' = refcnt, mode' = mode, L.a = <<>>,
         NEW y \in {-1, 0, 1}, Phase(M, s, y), Channel(s, y)', Calm(M.a, s)
  PROVE  Flowing' /\ (Hidden \/ Invoked(s))
<1>1. /\ Given /\ MainOK /\ Kinded /\ Linked /\ Apart /\ Awake /\ Tokens /\ Origins
      /\ Lasts /\ Ends /\ Phased /\ Typed
  BY DEF Delivering, Flowing, ExclusiveInv
<1>2. program' = program
  BY DEF Steady
<1>3. L.mode = mode[s] /\ M.mode = mode[s] /\ L.sent = M.sent /\ L.a = Steps(s) /\ M.a = Steps(s)'
  BY DEF Local
<1>4. tasks'[s] = Tail(tasks[s]) /\ \A u \in Streams : u # s => tasks'[u] = tasks[u]
  BY <1>1 DEF Typed, TypeOK, QueuesOK
<1>5. got'[s] = h /\ \A u \in Streams : u # s => got'[u] = got[u]
  BY <1>1 DEF Typed, TypeOK, HistoryOK
<1>6. Given' /\ MainOK' /\ Kinded' /\ Linked' /\ Apart' /\ Awake'
  <2>1. \A u \in Streams : mode[u] = "none" => tasks'[u] = tasks[u]
    BY <1>4
  <2>2. \A u \in Streams : tasks'[u] # <<>> => tasks[u] # <<>>
    BY <1>4
  <2> QED
    BY <1>1, <2>1, <2>2, SteadyKeeps
<1>7. Tokens'
  <2> SUFFICES ASSUME NEW u \in Streams, NEW i \in 1..Len(tasks'[u]),
                      tasks'[u][i].f = "start", tasks'[u][i].d = Nil
               PROVE  KindOf(u)' = "seq"
    BY DEF Tokens
  <2>1. KindOf(u)' = KindOf(u)
    BY <1>2, SameProgram
  <2>2. CASE u # s
    BY <2>1, <2>2, <1>1, <1>4 DEF Tokens
  <2>3. CASE u = s
    <3>1. PICK q \in Seq(Tasks) : q = tasks[s]
      BY <1>1 DEF Typed, TypeOK, QueuesOK
    <3>2. i + 1 \in 1..Len(q) /\ tasks'[u][i] = q[i + 1]
      <4>1. q # <<>> /\ tasks'[u] = Tail(q)
        BY <3>1, <2>3, <1>4
      <4>2. Len(Tail(q)) = Len(q) - 1 /\ Len(q) \in Nat /\ \A j \in 1..Len(Tail(q)) : Tail(q)[j] = q[j + 1]
        BY <4>1, HeadTail
      <4> HIDE <3>1
      <4>3. i \in 1..Len(Tail(q))
        BY <4>1
      <4> QED
        BY <4>1, <4>2, <4>3
    <3> QED
      BY <3>1, <3>2, <2>1, <2>3, <1>1 DEF Tokens
  <2> QED
    BY <2>2, <2>3
<1>8. Origins'
  BY <1>1, <1>2, TakeOrigins
<1>9. ~Gone(L, s) /\ ~Gone(M, s)
  BY <1>3 DEF Gone, Live
<1>10. Lasts'
  BY <1>1, <1>3, <1>9, LastsNext DEF Lasts
<1>11. Ends'
  BY <1>1, <1>3, EndsNext DEF Calm
<1>12. Phased'
  <2>1. ASSUME NEW t \in Streams, NEW z \in {-1, 0, 1}, t # s, Live(mode[t]), Channel(t, z)
        PROVE  Channel(t, z)'
    <3>1. refcnt'[t] - z = refcnt[t] - z /\ z \in Int /\ tasks'[t] = tasks[t] /\ got'[t] = got[t]
      BY <2>1, <1>4, <1>5
    <3>2. t \notin Dues(M.a, M.rest, "start")
      BY DEF Calm
    <3>3. t \notin Dues(L.a, L.rest, "start")
      BY DuesNone
    <3>4. Opens(M, s, t) /\ Opens(L, s, t)
      BY <1>9 DEF Opens
    <3> QED
      BY <3>1, <3>2, <3>3, <3>4, <2>1, <1>1, <1>3, SteadyChannel
  <2> QED
    BY <1>1, <2>1, PhasedNext
<1>13. Flowing'
  BY <1>6, <1>7, <1>8, <1>10, <1>11, <1>12 DEF Flowing
<1>14. \A u \in Streams : /\ Live(mode'[u]) <=> Live(mode[u])
                          /\ Gone(Local(u)', u) <=> Gone(Local(u), u)
  BY <1>9 DEF Steady
<1>15. CASE x.f = "start" /\ x.d # Nil
  <2>1. PICK u \in Ups(s) : x.d \in From(u)
    BY <1>15 DEF Comes
  <2>2. Count(got[s], From(u)) < Len(sent[u]) /\ x.d = sent[u][Count(got[s], From(u)) + 1]
    BY <2>1, <1>15 DEF Comes, Brings
  <2>3. got' = [got EXCEPT ![s] = Append(@, x.d)]
    BY <1>15 DEF Gets
  <2>4. Invoked(s)
    BY <2>2, <2>3, <1>2, <1>14 DEF Invoked
  <2> QED
    BY <2>4, <1>13
<1>16. CASE ~(x.f = "start" /\ x.d # Nil)
  <2>1. got' = got
    <3>1. h = got[s]
      BY <1>16 DEF Gets
    <3> QED
      BY <3>1, <1>1 DEF Typed, TypeOK, HistoryOK
  <2> QED
    BY <2>1, <1>2, <1>13, <1>14 DEF Hidden
<1> QED
  BY <1>15, <1>16

\* The stream a worker takes tasks of.
LEMMA DrainFacts ==
  ASSUME Delivering, NEW w \in Workers, pc[w] = "drain", NEW s, s = cur[w], tasks[s] # <<>>
  PROVE  /\ s \in Streams /\ Steps(s) = <<>> /\ mode[s] # "none" /\ Ready(s)
         /\ TypedLocal(Local(s)) /\ Solid(Local(s))
         /\ \E x \in {-1, 0, 1} : Phase(Local(s), s, x) /\ (Live(mode[s]) => Channel(s, x))
<1>1. ExclusiveInv /\ Awake /\ Typed /\ Origins /\ Phased
  BY DEF Delivering, Flowing, ExclusiveInv
<1>2. s \in Streams
  BY <1>1 DEF Typed, HoldsStream
<1>3. Steps(s) = <<>>
  <2>1. \A v \in Workers : pc[v] = "run" => cur[v] # s
    BY <1>1 DEF ExclusiveInv, Exclusive, Executing
  <2> QED
    BY <2>1, StepsIdle
<1> QED
  BY <1>1, <1>2, <1>3, LocalTyped, SolidLocal DEF Awake, Phased

\* The tasks of a killed stream are dropped.
LEMMA DrainDrops ==
  ASSUME Delivering, ExclusiveInv', NEW w \in Workers, Drain(w), NEW s, s = cur[w], mode[s] = "killed"
  PROVE  Flowing' /\ Hidden
<1>1. /\ Given /\ MainOK /\ Kinded /\ Linked /\ Apart /\ Awake /\ Tokens /\ Origins
      /\ Lasts /\ Ends /\ Phased /\ Typed /\ ExclusiveInv
  BY DEF Delivering, Flowing, ExclusiveInv
<1>2. pc[w] = "drain" /\ tasks[s] # <<>> /\ tasks' = [tasks EXCEPT ![s] = Tail(@)]
  BY DEF Drain
<1>3. /\ pc' = pc /\ agenda' = agenda /\ got' = got /\ cur' = cur /\ kind' = kind /\ limit' = limit /\ n' = n
      /\ mode' = mode /\ dst' = dst /\ rest' = rest /\ refcnt' = refcnt /\ program' = program /\ sent' = sent
  BY DEF Drain, Discards
<1>4. s \in Streams /\ mode[s] # "none"
  BY <1>2, DrainFacts
<1>5. \A u : Steps(u)' = Steps(u)
  BY <1>3 DEF Steps, Executes
<1>6. \A u : Local(u)' = Local(u)
  BY <1>3, <1>5 DEF Local
<1>7. Steady(s)
  BY <1>3, <1>4, <1>6 DEF Steady
<1>8. tasks'[s] = Tail(tasks[s]) /\ \A u \in Streams : u # s => tasks'[u] = tasks[u]
  BY <1>1, <1>2, <1>4 DEF Typed, TypeOK, QueuesOK
<1>9. Given' /\ MainOK' /\ Kinded' /\ Linked' /\ Apart' /\ Awake'
  <2>1. \A u \in Streams : mode[u] = "none" => tasks'[u] = tasks[u]
    BY <1>4, <1>8
  <2>2. \A u \in Streams : tasks'[u] # <<>> => tasks[u] # <<>>
    BY <1>2, <1>8
  <2> QED
    BY <1>1, <1>2, <1>4, <1>7, <2>1, <2>2, SteadyKeeps
<1>10. Tokens'
  <2> SUFFICES ASSUME NEW u \in Streams, NEW i \in 1..Len(tasks'[u]),
                      tasks'[u][i].f = "start", tasks'[u][i].d = Nil
               PROVE  KindOf(u)' = "seq"
    BY DEF Tokens
  <2>1. KindOf(u)' = KindOf(u)
    BY <1>3, SameProgram
  <2>2. CASE u # s
    BY <2>1, <2>2, <1>1, <1>8 DEF Tokens
  <2>3. CASE u = s
    <3>1. PICK q \in Seq(Tasks) : q = tasks[s]
      BY <1>1, <1>4 DEF Typed, TypeOK, QueuesOK
    <3>2. i + 1 \in 1..Len(q) /\ tasks'[u][i] = q[i + 1]
      <4>1. q # <<>> /\ tasks'[u] = Tail(q)
        BY <3>1, <2>3, <1>2, <1>8
      <4>2. Len(Tail(q)) = Len(q) - 1 /\ Len(q) \in Nat /\ \A j \in 1..Len(Tail(q)) : Tail(q)[j] = q[j + 1]
        BY <4>1, HeadTail
      <4> HIDE <3>1
      <4>3. i \in 1..Len(Tail(q))
        BY <4>1
      <4> QED
        BY <4>1, <4>2, <4>3
    <3> QED
      BY <3>1, <3>2, <2>1, <2>3, <1>1 DEF Tokens
  <2> QED
    BY <2>2, <2>3
<1>11. Origins'
  BY <1>1, <1>3, SameProgram DEF Origins, InSeq, Ups
<1>12. Lasts'
  <2>1. PICK M : M = Local(s)'
    OBVIOUS
  <2>2. PICK L : L = Local(s)
    OBVIOUS
  <2>3. M = L /\ M.mode = mode[s] /\ L.mode = mode[s]
    BY <2>1, <2>2, <1>4, <1>6 DEF Local
  <2>4. Gone(L, s) => Gone(M, s)
    BY <2>3
  <2>5. Lasting(program, s) => M.mode # "dying" /\ (M.mode = "killed" => L.mode = "killed")
    BY <2>3, <1>1, <1>4 DEF Lasts
  <2> QED
    BY <2>1, <2>2, <2>4, <2>5, <1>1, <1>4, <1>7, LastsNext
<1>13. Ends'
  BY <1>1, <1>5 DEF Ends
<1>14. Phased'
  <2>1. ~Live(mode[s])
    BY DEF Live
  <2>2. ASSUME NEW t \in Streams, NEW z \in {-1, 0, 1}, t # s, Live(mode[t]), Channel(t, z)
        PROVE  Channel(t, z)'
    <3>1. /\ \A u \in Ups(t) : /\ sent'[u] = sent[u] /\ (u \in Flights(t)' <=> u \in Flights(t))
                               /\ (u \in Open(t)' <=> u \in Open(t))
          /\ UnRefs(t)' = UnRefs(t)
      BY <1>3, <1>6, SameProgram, SameMain DEF Flights, Open
    <3>2. refcnt[t]' + Cardinality(UnRefs(t))' - z = refcnt[t] + Cardinality(UnRefs(t)) - z
      BY <3>1, <1>3
    <3> QED
      BY <3>1, <3>2, <2>2, <1>3, <1>8, ChannelSame
  <2>3. PICK x \in {-1, 0, 1} : Phase(Local(s), s, x)
    BY <1>1, <1>4 DEF Phased
  <2>4. PICK M : M = Local(s)'
    OBVIOUS
  <2>5. Phase(M, s, x) /\ ~Live(M.mode)
    BY <2>1, <2>3, <2>4, <1>6 DEF Local
  <2> QED
    BY <2>2, <2>4, <2>5, <1>1, <1>4, <1>7, PhasedNext
<1>15. Flowing'
  BY <1>9, <1>10, <1>11, <1>12, <1>13, <1>14 DEF Flowing
<1> QED
  BY <1>3, <1>6, <1>15 DEF Hidden

\* Worker w executes task x of s: it has got h, and has to do a.
Begins(w, s, x, h, a) ==
  /\ s = cur[w] /\ tasks[s] # <<>> /\ x = Head(tasks[s]) /\ tasks' = [tasks EXCEPT ![s] = Tail(@)]
  /\ pc' = [pc EXCEPT ![w] = "run"] /\ agenda' = [agenda EXCEPT ![w] = a]
  /\ got' = [got EXCEPT ![s] = h] /\ Gets(x, got[s], h)
  /\ cur' = cur /\ kind' = kind /\ limit' = limit /\ n' = n /\ mode' = mode /\ dst' = dst /\ rest' = rest
  /\ refcnt' = refcnt /\ program' = program /\ sent' = sent

LEMMA BeginsFacts ==
  ASSUME Delivering, ExclusiveInv', NEW w \in Workers, pc[w] = "drain", NEW s, NEW x, NEW h, NEW a,
         Begins(w, s, x, h, a), mode[s] # "killed", NEW L, L = Local(s), NEW M, M = Local(s)'
  PROVE  /\ s \in Streams /\ Steady(s) /\ Takes(L, M, a, h) /\ L.a = <<>> /\ TypedLocal(L)
         /\ Phase(L, s, 0) /\ Channel(s, 0) /\ Live(mode[s]) /\ mode[s] # "none" /\ Ready(s)
<1>1. ExclusiveInv /\ Typed
  BY DEF Delivering, ExclusiveInv
<1>2. s = cur[w] /\ tasks[s] # <<>>
  BY DEF Begins
<1>3. /\ s \in Streams /\ Steps(s) = <<>> /\ mode[s] # "none" /\ Ready(s) /\ TypedLocal(L)
      /\ \E x0 \in {-1, 0, 1} : Phase(L, s, x0) /\ (Live(mode[s]) => Channel(s, x0))
  BY <1>2, DrainFacts
<1>4. PICK x0 \in {-1, 0, 1} : Phase(L, s, x0) /\ (Live(mode[s]) => Channel(s, x0))
  BY <1>3
<1>5. L.a = <<>> /\ L.mode = mode[s]
  BY <1>3 DEF Local
<1>6. x0 = 0 /\ Live(mode[s])
  <2>1. x0 = 0 /\ L.mode # "dying"
    BY <1>4, <1>5, WaitingFacts
  <2> QED
    BY <2>1, <1>5 DEF Live
<1>7. /\ agenda \in [Threads -> Seq(Ops)] /\ pc \in [Threads -> Labels] /\ w \in Threads /\ Main \in Threads
      /\ Main # w /\ Workers \subseteq Threads
  BY <1>1, SchedulerAssumption DEF Typed, TypeOK, AgendasOK, ThreadsOK, Threads
<1>8. /\ pc'[w] = "run" /\ cur'[w] = s /\ agenda'[w] = a /\ cur' = cur
      /\ \A v \in Threads : v # w => pc'[v] = pc[v] /\ agenda'[v] = agenda[v]
  BY <1>2, <1>7 DEF Begins
<1>9. Steps(s)' = a
  BY <1>8, StepsAreNext
<1>10. ASSUME NEW u \in Streams, u # s PROVE Steps(u)' = Steps(u)
  BY <1>1, <1>2, <1>7, <1>8, <1>10, StepsOthers
<1>11. got \in [Streams -> Seq(Data)]
  BY <1>1 DEF Typed, TypeOK, HistoryOK
<1>12. got'[s] = h /\ \A u \in Streams : u # s => got'[u] = got[u]
  BY <1>3, <1>11 DEF Begins
<1>13. \A u \in Streams : u # s => Local(u)' = Local(u)
  BY <1>10, <1>12 DEF Begins, Local
<1>14. Steady(s)
  BY <1>3, <1>7, <1>8, <1>13 DEF Begins, Steady
<1>15. Takes(L, M, a, h)
  BY <1>9, <1>12 DEF Begins, Local, Takes
<1> QED
  BY <1>3, <1>4, <1>5, <1>6, <1>14, <1>15

LEMMA BeginsClose ==
  ASSUME Delivering, ExclusiveInv', NEW w \in Workers, pc[w] = "drain", NEW s, NEW x, NEW h,
         Begins(w, s, x, h, <<CloseOp(s)>> \o <<AfterOp(s)>>), mode[s] # "killed", x.f = "close"
  PROVE  Flowing' /\ (Hidden \/ Invoked(s))
<1>1. PICK L : L = Local(s)
  OBVIOUS
<1>2. PICK M : M = Local(s)'
  OBVIOUS
<1>3. PICK a : a = <<CloseOp(s)>> \o <<AfterOp(s)>>
  OBVIOUS
<1>4. /\ s \in Streams /\ Steady(s) /\ Takes(L, M, a, h) /\ L.a = <<>> /\ TypedLocal(L)
      /\ Phase(L, s, 0) /\ Channel(s, 0) /\ Live(mode[s]) /\ mode[s] # "none" /\ Ready(s)
  BY <1>1, <1>2, <1>3, BeginsFacts
<1>5. /\ tasks[s] # <<>> /\ x = Head(tasks[s]) /\ tasks' = [tasks EXCEPT ![s] = Tail(@)] /\ sent' = sent
      /\ refcnt' = refcnt /\ mode' = mode /\ got' = [got EXCEPT ![s] = h] /\ Gets(x, got[s], h)
  BY DEF Begins
<1>6. Given /\ Typed /\ Typed' /\ Flowing
  BY DEF Delivering, Flowing, ExclusiveInv
<1>7. tasks'[s] = Tail(tasks[s]) /\ Gets(x, got[s], got'[s])
  BY <1>4, <1>5, <1>6 DEF Typed, TypeOK, QueuesOK, HistoryOK
<1>8. Channel(s, 1)' /\ Ups(s) # {} /\ Comes(s, x)
  BY <1>4, <1>5, <1>6, <1>7, TakeChannel
<1>9. L.kind # "seq" /\ L.got = h /\ Live(L.mode)
  <2>1. PICK u : Link(u, s)
    BY <1>8 DEF Ups
  <2>2. KindOf(s) # "seq"
    BY <2>1, <1>6, LinkTyped
  <2>3. kind[s] = KindOf(s)
    BY <1>4, <1>6, ReadyFacts
  <2> QED
    BY <2>2, <2>3, <1>1, <1>4, <1>5 DEF Local, Gets
<1>10. Phase(M, s, 1) /\ Calm(M.a, s)
  <2>1. Takes(L, M, <<CloseOp(s)>> \o <<AfterOp(s)>>, L.got)
    BY <1>3, <1>4, <1>9
  <2> QED
    BY <2>1, <1>4, <1>9, TakeCloseLocal
<1> HIDE <1>3
<1> QED
  BY <1>1, <1>2, <1>4, <1>5, <1>6, <1>8, <1>10, TakeKeeps

LEMMA BeginsNil ==
  ASSUME Delivering, ExclusiveInv', NEW w \in Workers, pc[w] = "drain", NEW s, NEW x, NEW h, NEW p,
         Begins(w, s, x, h, p \o <<AfterOp(s)>>), mode[s] # "killed", x.f = "start", x.d = Nil,
         kind[s] = "seq" => p = GenSeq(s, n[s], limit[s])
  PROVE  Flowing' /\ (Hidden \/ Invoked(s))
<1>1. PICK L : L = Local(s)
  OBVIOUS
<1>2. PICK M : M = Local(s)'
  OBVIOUS
<1>3. PICK a : a = p \o <<AfterOp(s)>>
  OBVIOUS
<1>4. /\ s \in Streams /\ Steady(s) /\ Takes(L, M, a, h) /\ L.a = <<>> /\ TypedLocal(L)
      /\ Phase(L, s, 0) /\ Channel(s, 0) /\ Live(mode[s]) /\ mode[s] # "none" /\ Ready(s)
  BY <1>1, <1>2, <1>3, BeginsFacts
<1>5. /\ tasks[s] # <<>> /\ x = Head(tasks[s]) /\ tasks' = [tasks EXCEPT ![s] = Tail(@)] /\ sent' = sent
      /\ refcnt' = refcnt /\ mode' = mode /\ got' = [got EXCEPT ![s] = h] /\ Gets(x, got[s], h)
  BY DEF Begins
<1>6. Given /\ Typed /\ Typed' /\ Flowing /\ Tokens
  BY DEF Delivering, Flowing, ExclusiveInv
<1>7. tasks'[s] = Tail(tasks[s]) /\ Gets(x, got[s], got'[s])
  BY <1>4, <1>5, <1>6 DEF Typed, TypeOK, QueuesOK, HistoryOK
<1>8. Channel(s, 0)' /\ Comes(s, x)
  BY <1>4, <1>5, <1>6, <1>7, TakeChannel
<1>9. L.kind = "seq" /\ L.got = h /\ Live(L.mode) /\ L.limit = limit[s] /\ L.n = n[s]
  <2>1. 1 \in 1..Len(tasks[s]) /\ Head(tasks[s]) = tasks[s][1]
    <3>1. tasks[s] \in Seq(Tasks)
      BY <1>4, <1>6 DEF Typed, TypeOK, QueuesOK
    <3> QED
      BY <3>1, <1>5, HeadTail
  <2>2. KindOf(s) = "seq"
    BY <2>1, <1>4, <1>5, <1>6 DEF Tokens
  <2>3. kind[s] = KindOf(s)
    BY <1>4, <1>6, ReadyFacts
  <2> QED
    BY <2>2, <2>3, <1>1, <1>4, <1>5 DEF Local, Gets
<1>10. /\ L.limit > 0 /\ L.n > L.limit => p = <<CloseOp(s)>>
       /\ ~(L.limit > 0 /\ L.n > L.limit) => p = <<EmitOp(s, <<s, L.n>>, TRUE), SeqNextOp(s)>>
  <2>1. p = GenSeq(s, n[s], limit[s])
    BY <1>1, <1>9 DEF Local
  <2> QED
    BY <2>1, <1>9, Zenon DEF GenSeq
<1>11. Phase(M, s, 0) /\ Calm(M.a, s)
  <2>1. Takes(L, M, p \o <<AfterOp(s)>>, L.got)
    BY <1>3, <1>4, <1>9
  <2> QED
    BY <2>1, <1>4, <1>9, <1>10, TakeNilLocal
<1> HIDE <1>3
<1> QED
  BY <1>1, <1>2, <1>4, <1>5, <1>6, <1>8, <1>11, TakeKeeps

LEMMA BeginsData ==
  ASSUME Delivering, ExclusiveInv', NEW w \in Workers, pc[w] = "drain", NEW s, NEW x, NEW h, NEW p,
         Begins(w, s, x, h, p \o <<AfterOp(s)>>), mode[s] # "killed", x.f = "start", x.d # Nil,
         kind[s] = "map" => p = <<EmitOp(s, x.d, FALSE)>>,
         kind[s] = "print" => p = <<EmitOp(s, Nil, FALSE)>>,
         kind[s] = "take" => p = <<EmitOp(s, x.d, FALSE), TakeNextOp(s)>>,
         kind[s] \in {"sort", "reduce", "sink"} => p = <<>>
  PROVE  Flowing' /\ (Hidden \/ Invoked(s))
<1>1. PICK L : L = Local(s)
  OBVIOUS
<1>2. PICK M : M = Local(s)'
  OBVIOUS
<1>3. PICK a : a = p \o <<AfterOp(s)>>
  OBVIOUS
<1>4. /\ s \in Streams /\ Steady(s) /\ Takes(L, M, a, h) /\ L.a = <<>> /\ TypedLocal(L)
      /\ Phase(L, s, 0) /\ Channel(s, 0) /\ Live(mode[s]) /\ mode[s] # "none" /\ Ready(s)
  BY <1>1, <1>2, <1>3, BeginsFacts
<1>5. /\ tasks[s] # <<>> /\ x = Head(tasks[s]) /\ tasks' = [tasks EXCEPT ![s] = Tail(@)] /\ sent' = sent
      /\ refcnt' = refcnt /\ mode' = mode /\ got' = [got EXCEPT ![s] = h] /\ Gets(x, got[s], h)
  BY DEF Begins
<1>6. Given /\ Typed /\ Typed' /\ Flowing
  BY DEF Delivering, Flowing, ExclusiveInv
<1>7. tasks'[s] = Tail(tasks[s]) /\ Gets(x, got[s], got'[s])
  BY <1>4, <1>5, <1>6 DEF Typed, TypeOK, QueuesOK, HistoryOK
<1>8. Channel(s, 0)' /\ Comes(s, x)
  BY <1>4, <1>5, <1>6, <1>7, TakeChannel
<1>9. L.kind # "seq" /\ h = Append(L.got, x.d) /\ Live(L.mode) /\ L.kind = kind[s]
  <2>1. PICK u : Link(u, s)
    BY <1>8 DEF Ups, Comes
  <2>2. KindOf(s) # "seq"
    BY <2>1, <1>6, LinkTyped
  <2>3. kind[s] = KindOf(s)
    BY <1>4, <1>6, ReadyFacts
  <2> QED
    BY <2>2, <2>3, <1>1, <1>4, <1>5 DEF Local, Gets
<1>10. x.d \in Data
  <2>1. tasks[s] \in Seq(Tasks)
    BY <1>4, <1>6 DEF Typed, TypeOK, QueuesOK
  <2>2. x \in Tasks
    BY <2>1, <1>5, HeadTail
  <2> QED
    BY <2>2 DEF Tasks
<1>11. PICK d : d = x.d
  OBVIOUS
<1>12. Phase(M, s, 0) /\ Calm(M.a, s)
  <2>1. Takes(L, M, p \o <<AfterOp(s)>>, Append(L.got, d))
    BY <1>3, <1>4, <1>9, <1>11
  <2>2. /\ L.kind = "map" => p = <<EmitOp(s, d, FALSE)>>
        /\ L.kind = "print" => p = <<EmitOp(s, Nil, FALSE)>>
        /\ L.kind = "take" => p = <<EmitOp(s, d, FALSE), TakeNextOp(s)>>
        /\ L.kind \in {"sort", "reduce", "sink"} => p = <<>>
    BY <1>9, <1>11
  <2> QED
    BY <2>1, <2>2, <1>4, <1>9, <1>10, <1>11, TakeDataLocal
<1> HIDE <1>3, <1>11
<1> QED
  BY <1>1, <1>2, <1>4, <1>5, <1>6, <1>8, <1>12, TakeKeeps

LEMMA WorkerDrain ==
  ASSUME Delivering, ExclusiveInv', NEW w \in Workers, Drain(w)
  PROVE  Flowing' /\ (Hidden \/ \E s \in Streams : Invoked(s))
<1>1. PICK s : s = cur[w]
  OBVIOUS
<1>2. pc[w] = "drain" /\ tasks[s] # <<>>
  BY <1>1 DEF Drain
<1>3. s \in Streams /\ mode[s] # "none" /\ Ready(s)
  BY <1>1, <1>2, DrainFacts
<1>4. PICK x : x = Head(tasks[s])
  OBVIOUS
<1>5. PICK h : h = IF x.f = "start" /\ x.d # Nil THEN Append(got[s], x.d) ELSE got[s]
  OBVIOUS
<1>6. PICK p : p = IF x.f = "close" THEN <<CloseOp(s)>> ELSE StartFunc(s, kind[s], n[s], limit[s], x.d)
  OBVIOUS
<1>7. CASE mode[s] = "killed"
  BY <1>1, <1>7, DrainDrops
<1>8. CASE mode[s] # "killed"
  <2>1. /\ tasks' = [tasks EXCEPT ![s] = Tail(@)] /\ pc' = [pc EXCEPT ![w] = "run"]
        /\ agenda' = [agenda EXCEPT ![w] = p \o <<AfterOp(s)>>] /\ got' = [got EXCEPT ![s] = h]
    BY <1>1, <1>4, <1>5, <1>6, <1>8, Zenon DEF Drain, Discards, GoTo
  <2>2. /\ cur' = cur /\ kind' = kind /\ limit' = limit /\ n' = n /\ mode' = mode /\ dst' = dst /\ rest' = rest
        /\ refcnt' = refcnt /\ program' = program /\ sent' = sent
    BY DEF Drain
  <2>3. Gets(x, got[s], h)
    BY <1>5 DEF Gets
  <2>4. Begins(w, s, x, h, p \o <<AfterOp(s)>>)
    BY <1>1, <1>2, <1>4, <2>1, <2>2, <2>3, Zenon DEF Begins
  <2>5. x.f \in Funcs /\ kind[s] \in Kinds
    <3>1. tasks[s] \in Seq(Tasks) /\ kind[s] \in Kinds
      BY <1>3 DEF Delivering, ExclusiveInv, Typed, TypeOK, QueuesOK, StreamsOK
    <3>2. x \in Tasks
      BY <3>1, <1>2, <1>4, HeadTail
    <3> QED
      BY <3>1, <3>2 DEF Tasks
  <2>6. CASE x.f = "close"
    <3>1. p = <<CloseOp(s)>>
      BY <1>6, <2>6
    <3>2. Begins(w, s, x, h, <<CloseOp(s)>> \o <<AfterOp(s)>>)
      BY <2>4, <3>1
    <3> HIDE <1>4, <1>5, <1>6
    <3> QED
      BY <3>2, <2>6, <1>2, <1>3, <1>8, BeginsClose
  <2>7. CASE x.f # "close"
    <3>1. p = StartFunc(s, kind[s], n[s], limit[s], x.d) /\ x.f = "start"
      BY <1>6, <2>5, <2>7 DEF Funcs
    <3>2. kind[s] = "seq" => p = GenSeq(s, n[s], limit[s])
      BY <3>1, Zenon DEF StartFunc
    <3>3. /\ kind[s] = "map" => p = <<EmitOp(s, x.d, FALSE)>>
          /\ kind[s] = "print" => p = <<EmitOp(s, Nil, FALSE)>>
          /\ kind[s] = "take" => p = <<EmitOp(s, x.d, FALSE), TakeNextOp(s)>>
          /\ kind[s] \in {"sort", "reduce", "sink"} => p = <<>>
      BY <3>1 DEF StartFunc, IterTake
    <3> HIDE <1>4, <1>5, <1>6
    <3>4. CASE x.d = Nil
      BY <3>1, <3>2, <3>4, <2>4, <1>2, <1>3, <1>8, BeginsNil
    <3>5. CASE x.d # Nil
      BY <3>1, <3>3, <3>5, <2>4, <1>2, <1>3, <1>8, BeginsData
    <3> QED
      BY <3>4, <3>5
  <2> QED
    BY <2>6, <2>7
<1> QED
  BY <1>7, <1>8

-----------------------------------------------------------------------------
(* Steps no stream takes part in.                                          *)

Elsewhere == /\ program' = program /\ agenda'[Main] = agenda[Main]
          /\ kind' = kind /\ limit' = limit /\ n' = n /\ mode' = mode /\ dst' = dst /\ rest' = rest
          /\ refcnt' = refcnt /\ sent' = sent /\ got' = got /\ tasks' = tasks
          /\ \A u \in Streams : Steps(u)' = Steps(u)

LEMMA ApartKeeps ==
  ASSUME Delivering, Elsewhere
  PROVE  Flowing' /\ Hidden
<1>1. /\ Given /\ MainOK /\ Kinded /\ Linked /\ Apart /\ Awake /\ Tokens /\ Origins
      /\ Lasts /\ Ends /\ Phased
  BY DEF Delivering, Flowing
<1>2. /\ program' = program /\ agenda'[Main] = agenda[Main]
      /\ kind' = kind /\ limit' = limit /\ n' = n /\ mode' = mode /\ dst' = dst /\ rest' = rest
      /\ refcnt' = refcnt /\ sent' = sent /\ got' = got /\ tasks' = tasks
  BY DEF Elsewhere
<1>3. \A u \in Streams : Local(u)' = Local(u) /\ Steps(u)' = Steps(u)
  BY DEF Elsewhere, Local
<1>4. /\ \A u, t : Link(u, t)' <=> Link(u, t)
      /\ \A t : Ups(t)' = Ups(t)
      /\ \A u : From(u)' = From(u)
      /\ \A s : KindOf(s)' = KindOf(s) /\ LimitOf(s)' = LimitOf(s)
      /\ Given' <=> Given
      /\ \A k : Created(program, k)' = Created(program, k)
      /\ \A s : Lasting(program, s)' <=> Lasting(program, s)
      /\ \A t : Touched(t)' <=> Touched(t)
      /\ Lines(program)' = Lines(program)
  BY <1>2, SameProgram
<1>5. /\ \A t : UnRefs(t)' = UnRefs(t)
      /\ \A t : Ready(t)' <=> Ready(t)
  BY <1>2, SameMain
<1>6. MainOK'
  BY <1>1, <1>2, <1>4, <1>5 DEF MainOK, MainAt, Connecting, Rest
<1>7. Kinded'
  BY <1>1, <1>2, <1>4 DEF Kinded
<1>8. Linked'
  BY <1>1, <1>2, <1>4 DEF Linked, Joined, InSeq
<1>9. Apart'
  BY <1>1, <1>2 DEF Apart
<1>10. Awake'
  BY <1>1, <1>2, <1>3, <1>5 DEF Awake
<1>11. Tokens'
  BY <1>1, <1>2, <1>4 DEF Tokens
<1>12. Origins'
  BY <1>1, <1>2, <1>4 DEF Origins, InSeq, Ups
<1>13. Lasts'
  BY <1>1, <1>2, <1>3, <1>4 DEF Lasts, Ups
<1>14. Ends'
  BY <1>1, <1>3 DEF Ends
<1>15. ASSUME NEW t \in Streams, NEW z, Channel(t, z)
       PROVE  Channel(t, z)'
  <2>1. /\ \A u \in Ups(t) : /\ sent'[u] = sent[u] /\ (u \in Flights(t)' <=> u \in Flights(t))
                             /\ (u \in Open(t)' <=> u \in Open(t))
    BY <1>2, <1>3, <1>4 DEF Flights, Open, Ups
  <2>2. refcnt[t]' + Cardinality(UnRefs(t))' - z = refcnt[t] + Cardinality(UnRefs(t)) - z
    BY <1>2, <1>5
  <2> QED
    BY <2>1, <2>2, <1>2, <1>15, ChannelSame
<1>16. Phased'
  BY <1>1, <1>2, <1>3, <1>15 DEF Phased
<1> QED
  BY <1>1, <1>2, <1>3, <1>4, <1>6, <1>7, <1>8, <1>9, <1>10, <1>11, <1>12, <1>13, <1>14, <1>16 DEF Flowing, Hidden

\* A worker does something else than to execute a stream.
LEMMA LoopSteps ==
  ASSUME ExclusiveInv, ExclusiveInv', NEW w \in Workers, agenda' = agenda, agenda[w] = <<>>,
         \A v \in Workers : v # w => pc'[v] = pc[v] /\ cur'[v] = cur[v],
         pc'[w] # "run"
  PROVE  \A u \in Streams : Steps(u)' = Steps(u)
<1> SUFFICES ASSUME NEW u \in Streams PROVE Steps(u)' = Steps(u)
  OBVIOUS
<1>1. CASE pc[w] = "run" /\ cur[w] = u
  <2>1. Steps(u) = <<>>
    BY <1>1, StepsAre
  <2>2. \A v \in Workers : v # w => ~(pc[v] = "run" /\ cur[v] = u)
    BY <1>1 DEF ExclusiveInv, Exclusive, Executing
  <2>3. \A v \in Workers : pc'[v] = "run" => cur'[v] # u
    BY <2>2
  <2>4. Steps(u)' = <<>>
    BY <2>3, StepsIdleNext
  <2> QED
    BY <2>1, <2>4
<1>2. CASE ~(pc[w] = "run" /\ cur[w] = u)
  BY <1>2, StepsOthers
<1> QED
  BY <1>1, <1>2

LEMMA WorkerLoop ==
  ASSUME Delivering, ExclusiveInv', NEW w \in Workers, Loop(w)
  PROVE  Flowing' /\ (Hidden \/ \E s \in Streams : Invoked(s))
<1>1. CASE Drain(w)
  BY <1>1, WorkerDrain
<1>2. CASE ~Drain(w)
  <2>1. ExclusiveInv /\ IdleAgendas
    BY DEF Delivering, Places
  <2>2. /\ pc \in [Threads -> Labels] /\ cur \in [Workers -> Streams \union {NoStream}]
        /\ Workers \subseteq Threads /\ Main \notin Workers
    BY <2>1, SchedulerAssumption DEF ExclusiveInv, Typed, TypeOK, ThreadsOK, Threads
  <2>3. /\ program' = program /\ agenda' = agenda
        /\ kind' = kind /\ limit' = limit /\ n' = n /\ mode' = mode /\ dst' = dst /\ rest' = rest
        /\ refcnt' = refcnt /\ sent' = sent /\ got' = got /\ tasks' = tasks
    BY <1>2 DEF Loop, GetStream, GetProducer, Claim, TaskDone, Drained, Release, CheckCount,
                streamVars, historyVars
  <2>4. agenda[w] = <<>>
    BY <1>2, <2>1 DEF IdleAgendas, Loop, GetStream, GetProducer, Claim, TaskDone, Drained, Release, CheckCount
  <2>5. pc'[w] # "run" /\ \A v \in Workers : v # w => pc'[v] = pc[v] /\ cur'[v] = cur[v]
    BY <1>2, <2>2 DEF Loop, GetStream, GetProducer, Claim, TaskDone, Drained, Release, CheckCount, GoTo
  <2>6. \A u \in Streams : Steps(u)' = Steps(u)
    BY <2>1, <2>3, <2>4, <2>5, LoopSteps
  <2>7. Elsewhere
    BY <2>3, <2>6 DEF Elsewhere
  <2> QED
    BY <2>7, ApartKeeps
<1> QED
  BY <1>1, <1>2

\* What a step does to what has been delivered.
Moves == \/ Hidden
         \/ \E s \in Streams : Sends(s) \/ Invoked(s) \/ Closed(s) \/ Finished(s)

\* The steps of an execution.
LEMMA PhaseOps ==
  ASSUME NEW s, NEW L, NEW x, Phase(L, s, x), L.a # <<>>, NEW o, o = Head(L.a)
  PROVE  o.op \in {"emit", "dropDst", "emitRest", "check", "push", "addTask", "addStream", "seqNext", "takeNext",
                   "close", "kill", "closeDst", "closeRest", "countDown", "after"}
  BY DEF Phase

LEMMA WorkerSteps ==
  ASSUME Delivering, ExclusiveInv', NEW w \in Workers, Step(w)
  PROVE  Flowing' /\ Moves
<1>1. agenda[w] # <<>>
  BY DEF Step, StreamNew, Connect, Ref, Start, Push, AddTask, AddStream, Emit, DropDst, EmitRest, TerminationCheck,
         Close, Kill, CloseDst, CloseRest, CountDown, SeqNext, TakeNext, After, At
<1>2. PICK s, o, r, L, M : Chosen(w, s, o, r, L, M)
  BY <1>1, ChosenExists
<1>3. /\ s \in Streams /\ Splits(L.a, o, r) /\ States(L, M, s)
      /\ \E x \in {-1, 0, 1} : Phase(L, s, x) /\ (Live(L.mode) => Channel(s, x))
  BY <1>2, ChosenFacts
<1>4. o.op \in {"emit", "dropDst", "emitRest", "check", "push", "addTask", "addStream", "seqNext", "takeNext",
                "close", "kill", "closeDst", "closeRest", "countDown", "after"}
  BY <1>3, PhaseOps DEF Splits
<1>5. o = Head(agenda[w])
  BY <1>2 DEF Chosen
<1>6. ~StreamNew(w) /\ ~Connect(w) /\ ~Ref(w) /\ ~Start(w)
  BY <1>4, <1>5 DEF StreamNew, Connect, Ref, Start, At
<1>7. CASE Push(w)
  BY <1>2, <1>7, WorkerPush DEF Moves
<1>8. CASE AddTask(w)
  BY <1>2, <1>8, WorkerAddTask DEF Moves
<1>9. CASE AddStream(w)
  BY <1>2, <1>9, WorkerAddStream DEF Moves
<1>10. CASE Emit(w)
  <2>1. CASE kind[s] = "print"
    BY <1>2, <1>10, <2>1, WorkerEmitNil DEF Moves
  <2>2. CASE kind[s] # "print"
    BY <1>2, <1>3, <1>10, <2>2, WorkerEmitData DEF Moves
  <2> QED
    BY <2>1, <2>2
<1>11. CASE DropDst(w)
  BY <1>2, <1>11, WorkerDropDst DEF Moves
<1>12. CASE EmitRest(w)
  BY <1>2, <1>12, WorkerEmitRest DEF Moves
<1>13. CASE TerminationCheck(w)
  <2>1. CASE Unheard(s)
    BY <1>2, <1>3, <1>13, <2>1, WorkerUnheard DEF Moves
  <2>2. CASE ~Unheard(s)
    BY <1>2, <1>13, <2>2, WorkerHeard DEF Moves
  <2> QED
    BY <2>1, <2>2
<1>14. CASE Close(w)
  BY <1>2, <1>14, WorkerClose DEF Moves
<1>15. CASE Kill(w)
  <2>1. CASE refcnt[s] > 0
    BY <1>2, <1>15, <2>1, WorkerAwaited DEF Moves
  <2>2. CASE ~(refcnt[s] > 0)
    BY <1>2, <1>3, <1>15, <2>2, WorkerKilled DEF Moves
  <2> QED
    BY <2>1, <2>2
<1>16. CASE CloseDst(w)
  BY <1>2, <1>3, <1>16, WorkerCloseDst DEF Moves
<1>17. CASE CloseRest(w)
  BY <1>2, <1>17, WorkerCloseRest DEF Moves
<1>18. CASE CountDown(w)
  BY <1>2, <1>18, WorkerCountDown DEF Moves
<1>19. CASE SeqNext(w)
  BY <1>2, <1>19, WorkerSeqNext DEF Moves
<1>20. CASE TakeNext(w)
  BY <1>2, <1>20, WorkerTakeNext DEF Moves
<1>21. CASE After(w)
  BY <1>2, <1>21, WorkerAfter DEF Moves
<1> QED
  BY <1>6, <1>7, <1>8, <1>9, <1>10, <1>11, <1>12, <1>13, <1>14, <1>15, <1>16, <1>17, <1>18, <1>19, <1>20, <1>21
     DEF Step

LEMMA WorkerMoves ==
  ASSUME Delivering, ExclusiveInv', NEW w \in Workers, WorkerStep(w)
  PROVE  Flowing' /\ Moves
  BY WorkerSteps, WorkerLoop DEF WorkerStep, Moves

-----------------------------------------------------------------------------
(* What the main thread does.                                              *)

\* The execution of the streams goes on as it did.
LEMMA MainSteps ==
  ASSUME ExclusiveInv, ExclusiveInv', NotBorn, cur' = cur,
         \A w \in Workers : agenda'[w] = agenda[w],
         \A w \in Workers : pc'[w] = pc[w] \/ (~started /\ pc'[w] = "get")
  PROVE  \A u \in Streams : Steps(u)' = Steps(u)
<1> SUFFICES ASSUME NEW u \in Streams PROVE Steps(u)' = Steps(u)
  OBVIOUS
<1>1. \A w \in Workers : pc[w] = "run" <=> pc'[w] = "run"
  BY DEF NotBorn
<1> QED
  BY <1>1, StepsOthers

\* A stream changes when nothing executes it: it is created, linked, or counts a link.
Builds(u) ==
  /\ Steps(u)' = Steps(u)
  /\ Steps(u) # <<>> => Local(u)' = Local(u)
  /\ \/ mode'[u] = mode[u] /\ kind'[u] = kind[u] /\ limit'[u] = limit[u] /\ n'[u] = n[u]
     \/ mode[u] = "none" /\ Live(mode'[u]) /\ Sums(Local(u)', 0, 0)

\* It is in the same phase then, and no other stream sees the change.
LEMMA BuildsLocal ==
  ASSUME sent' = sent, got' = got, NEW u \in Streams, Builds(u), NEW L, L = Local(u), NEW M, M = Local(u)'
  PROVE  /\ \A x : Phase(L, u, x) => Phase(M, u, x)
         /\ Gone(M, u) <=> Gone(L, u)
         /\ Live(M.mode) <=> Live(L.mode)
         /\ \A f : Dues(M.a, M.rest, f) = Dues(L.a, L.rest, f)
<1>1. States(L, M, u)
  BY StatesLocal
<1>2. CASE L.a # <<>>
  <2>1. M = L
    BY <1>1, <1>2 DEF Builds, States
  <2> QED
    BY <2>1
<1>3. CASE L.a = <<>>
  <2>1. M.a = <<>> /\ M.sent = L.sent /\ M.got = L.got
    BY <1>1, <1>3 DEF Builds, States
  <2>2. /\ ~Closes(M.a, u) /\ ~Closes(L.a, u)
        /\ \A f : Dues(M.a, M.rest, f) = {} /\ Dues(L.a, L.rest, f) = {}
    BY <1>3, <2>1, DuesNone, ClosesNone
  <2>3. CASE M.mode = L.mode /\ M.kind = L.kind /\ M.limit = L.limit /\ M.n = L.n
    <3>1. SameWork(L, M)
      BY <2>1, <2>3 DEF SameWork
    <3>2. Sums(M, 0, 0) <=> Sums(L, 0, 0)
      BY <3>1, WorkSame
    <3> QED
      BY <1>3, <2>1, <2>2, <2>3, <3>2 DEF Phase, Gone
  <2>4. CASE L.mode = "none" /\ Live(M.mode) /\ Sums(M, 0, 0)
    <3>1. Live(L.mode) /\ M.mode # "killed" /\ M.mode # "dying"
      BY <2>4 DEF Live
    <3>2. ~Gone(M, u) /\ ~Gone(L, u)
      BY <2>4, <3>1 DEF Gone
    <3>3. \A x : Phase(L, u, x) => Phase(M, u, x)
      BY <1>3, <2>1, <2>4, <3>1 DEF Phase
    <3> QED
      BY <2>2, <2>4, <3>1, <3>2, <3>3
  <2>5. \/ M.mode = L.mode /\ M.kind = L.kind /\ M.limit = L.limit /\ M.n = L.n
        \/ L.mode = "none" /\ Live(M.mode) /\ Sums(M, 0, 0)
    <3>1. \/ mode'[u] = mode[u] /\ kind'[u] = kind[u] /\ limit'[u] = limit[u] /\ n'[u] = n[u]
          \/ mode[u] = "none" /\ Live(mode'[u]) /\ Sums(M, 0, 0)
      BY Zenon DEF Builds
    <3> QED
      BY <3>1, <1>1 DEF States
  <2> QED
    BY <2>3, <2>4, <2>5
<1> QED
  BY <1>2, <1>3

\* The counts agree with what is still to be counted.
Counted(t) == \A z \in {-1, 0, 1} :
  refcnt[t]' + Cardinality(UnRefs(t))' - z = refcnt[t] + Cardinality(UnRefs(t)) - z

LEMMA BuildKeeps ==
  ASSUME Delivering, program' = program, sent' = sent, got' = got,
         \A u \in Streams : Builds(u), \A t \in Streams : Counted(t),
         \A t \in Streams, x \in {-1, 0, 1} : tasks'[t] = tasks[t] \/ (Channel(t, x) => Channel(t, x)'),
         MainOK', Kinded', Linked', Apart', Awake', Tokens'
  PROVE  Flowing' /\ Hidden
<1>1. Given /\ Origins /\ Lasts /\ Ends /\ Phased
  BY DEF Delivering, Flowing
<1>2. /\ \A u, t : Link(u, t)' <=> Link(u, t)
      /\ \A t : Ups(t)' = Ups(t)
      /\ \A u : From(u)' = From(u)
      /\ Given' <=> Given
      /\ \A s : Lasting(program, s)' <=> Lasting(program, s)
  BY SameProgram
<1>3. \A u \in Streams : /\ \A x : Phase(Local(u), u, x) => Phase(Local(u)', u, x)
                         /\ Gone(Local(u)', u) <=> Gone(Local(u), u)
                         /\ Live(mode'[u]) <=> Live(mode[u])
                         /\ \A f : Dues(Local(u)'.a, Local(u)'.rest, f) = Dues(Local(u).a, Local(u).rest, f)
  <2> SUFFICES ASSUME NEW u \in Streams
               PROVE  /\ \A x : Phase(Local(u), u, x) => Phase(Local(u)', u, x)
                      /\ Gone(Local(u)', u) <=> Gone(Local(u), u)
                      /\ Live(mode'[u]) <=> Live(mode[u])
                      /\ \A f : Dues(Local(u)'.a, Local(u)'.rest, f) = Dues(Local(u).a, Local(u).rest, f)
    OBVIOUS
  <2>1. PICK L : L = Local(u)
    OBVIOUS
  <2>2. PICK M : M = Local(u)'
    OBVIOUS
  <2>3. States(L, M, u)
    BY <2>1, <2>2, StatesLocal
  <2>4. /\ \A x : Phase(L, u, x) => Phase(M, u, x)
        /\ Gone(M, u) <=> Gone(L, u)
        /\ Live(M.mode) <=> Live(L.mode)
        /\ \A f : Dues(M.a, M.rest, f) = Dues(L.a, L.rest, f)
    BY <2>1, <2>2, BuildsLocal
  <2>5. L.mode = mode[u] /\ M.mode = mode'[u]
    BY <2>3 DEF States
  <2> QED
    BY <2>1, <2>2, <2>4, <2>5, Zenon
<1>4. Hidden
  BY <1>3 DEF Hidden
<1>5. Origins'
  BY <1>1, <1>2 DEF Origins, InSeq, Ups
<1>6. Lasts'
  <2> SUFFICES ASSUME NEW s \in Streams, Lasting(program, s)
               PROVE  /\ mode'[s] # "dying"
                      /\ mode'[s] = "killed" => \A u \in Ups(s) : Gone(Local(u)', u)
    BY <1>2 DEF Lasts
  <2>1. /\ mode[s] # "dying"
        /\ mode[s] = "killed" => \A u \in Ups(s) : Gone(Local(u), u)
    BY <1>1 DEF Lasts
  <2>2. Live(mode'[s]) \/ mode'[s] = mode[s]
    BY DEF Builds
  <2> QED
    BY <2>1, <2>2, <1>3 DEF Live, Ups
<1>7. Ends'
  BY <1>1 DEF Ends, Builds
<1>8. ASSUME NEW t \in Streams, NEW z \in {-1, 0, 1}, Channel(t, z)
      PROVE  Channel(t, z)'
  <2>1. CASE tasks'[t] = tasks[t]
    <3>1. /\ \A u \in Ups(t) : /\ sent'[u] = sent[u] /\ (u \in Flights(t)' <=> u \in Flights(t))
                               /\ (u \in Open(t)' <=> u \in Open(t))
      BY <1>2, <1>3 DEF Flights, Open, Opens, Ups
    <3>2. refcnt[t]' + Cardinality(UnRefs(t))' - z = refcnt[t] + Cardinality(UnRefs(t)) - z
      BY Zenon DEF Counted
    <3> QED
      BY <2>1, <3>1, <3>2, <1>8, ChannelSame
  <2> QED
    BY <2>1, <1>8
<1>9. Phased'
  <2> SUFFICES ASSUME NEW s \in Streams
               PROVE  \E x \in {-1, 0, 1} : Phase(Local(s)', s, x) /\ (Live(mode'[s]) => Channel(s, x)')
    BY DEF Phased
  <2>1. PICK x \in {-1, 0, 1} : Phase(Local(s), s, x) /\ (Live(mode[s]) => Channel(s, x))
    BY <1>1 DEF Phased
  <2> QED
    BY <2>1, <1>3, <1>8
<1> QED
  BY <1>1, <1>2, <1>4, <1>5, <1>6, <1>7, <1>9 DEF Flowing

\* The first step of the rest of the program.
LEMMA RestNext ==
  ASSUME Given, NEW k \in 0..Len(program), NEW a \in Seq(Ops), a # <<>>, Rest(a, k)
  PROVE  /\ k + 1 \in 1..Len(program) /\ Head(a) = program[k + 1] /\ Rest(Tail(a), k + 1)
         /\ Head(a).op \in {"new", "connect"}
<1>1. Len(program) \in Nat
  BY ProgramTyped DEF Given
<1>2. /\ Tail(a) \in Seq(Ops) /\ Len(a) \in Nat \ {0} /\ Head(a) = a[1] /\ Len(Tail(a)) = Len(a) - 1
      /\ \A i \in 1..Len(Tail(a)) : Tail(a)[i] = a[i + 1]
  BY HeadTail
<1>3. Len(a) = Len(program) - k /\ \A i \in 1..Len(a) : a[i] = program[k + i]
  BY DEF Rest
<1>4. k \in Nat /\ k + 1 \in 1..Len(program) /\ Head(a) = program[k + 1]
  BY <1>1, <1>2, <1>3
<1>5. \A i \in 1..Len(Tail(a)) : Tail(a)[i] = program[(k + 1) + i]
  <2> SUFFICES ASSUME NEW i \in 1..Len(Tail(a)) PROVE Tail(a)[i] = program[(k + 1) + i]
    OBVIOUS
  <2>1. i + 1 \in 1..Len(a) /\ k + (i + 1) = (k + 1) + i
    BY <1>2, <1>4
  <2> QED
    BY <2>1, <1>2, <1>3
<1>6. Len(Tail(a)) = Len(program) - (k + 1)
  BY <1>1, <1>2, <1>3, <1>4
<1> QED
  BY <1>4, <1>5, <1>6, ProgramTyped DEF Rest

\* The main thread replaces its next step by ops.
Does(ops) ==
  /\ agenda[Main] # <<>> /\ agenda' = [agenda EXCEPT ![Main] = ops \o Tail(@)]
  /\ cur' = cur /\ program' = program /\ sent' = sent /\ got' = got
  /\ \A w \in Workers : pc'[w] = pc[w] \/ (~started /\ pc'[w] = "get")

LEMMA DoesFacts ==
  ASSUME Delivering, ExclusiveInv', NEW ops, Does(ops), NEW a, a = agenda[Main], NEW b, b = agenda'[Main]
  PROVE  /\ a \in Seq(Ops) /\ a # <<>> /\ Tail(a) \in Seq(Ops) /\ b = ops \o Tail(a) /\ b \in Seq(Ops)
         /\ \A u \in Streams : Steps(u)' = Steps(u)
<1>1. /\ ExclusiveInv /\ NotBorn
  BY DEF Delivering, Places
<1>2. agenda \in [Threads -> Seq(Ops)] /\ Main \in Threads /\ Main \notin Workers /\ Workers \subseteq Threads
  BY <1>1, SchedulerAssumption DEF ExclusiveInv, Typed, TypeOK, AgendasOK, Threads
<1>3. agenda' \in [Threads -> Seq(Ops)]
  BY <1>2 DEF ExclusiveInv, Typed, TypeOK, AgendasOK
<1>4. a \in Seq(Ops) /\ b \in Seq(Ops) /\ a # <<>> /\ b = ops \o Tail(a)
  BY <1>2, <1>3 DEF Does
<1>5. Tail(a) \in Seq(Ops)
  BY <1>4, HeadTail
<1>6. \A w \in Workers : agenda'[w] = agenda[w]
  BY <1>2 DEF Does
<1>7. \A u \in Streams : Steps(u)' = Steps(u)
  BY <1>1, <1>6, MainSteps DEF Does
<1> QED
  BY <1>4, <1>5, <1>7

\* What does not change what is still to be counted changes nothing of what is ready.
LEMMA UnRefSame ==
  ASSUME program' = program, \A u, t \in Streams : UnRef(u, t)' <=> UnRef(u, t)
  PROVE  \A t \in Streams : UnRefs(t)' = UnRefs(t) /\ (Ready(t)' <=> Ready(t))
<1>1. /\ \A u, t : Link(u, t)' <=> Link(u, t)
      /\ \A t : Ups(t)' = Ups(t)
      /\ \A t : Touched(t)' <=> Touched(t)
  BY SameProgram
<1>2. ASSUME NEW t \in Streams PROVE UnRefs(t)' = UnRefs(t)
  BY <1>1 DEF UnRefs, Ups
<1>3. ASSUME NEW t \in Streams PROVE Ready(t)' <=> Ready(t)
  BY <1>1 DEF Ready
<1> QED
  BY <1>2, <1>3

\* The count stays as it is when nothing is counted.
LEMMA CountedSame ==
  ASSUME refcnt' = refcnt, NEW t, UnRefs(t)' = UnRefs(t)
  PROVE  Counted(t)
  BY DEF Counted

\* The main thread comes to a "new" or "connect" of the program.
LEMMA MainComes ==
  ASSUME Given, MainOK, NEW a, a = agenda[Main], a \in Seq(Ops), a # <<>>, Head(a).op \in {"new", "connect"}
  PROVE  \E k \in 0..Len(program) :
           Rest(a, k) /\ \A s \in Streams : mode[s] # "none" <=> s \in Created(program, k)
<1>1. PICK k \in 0..Len(program) : MainAt(k)
  BY DEF MainOK
<1>2. ~Connecting(a, k)
  BY DEF Connecting, Is, RefOp, StartOp, PushOp, AddTaskOp, AddStreamOp
<1> QED
  BY <1>1, <1>2 DEF MainAt

\* Before the stream is created nobody knows of it.
LEMMA NewFacts ==
  ASSUME Given, NEW k \in 0..Len(program), k + 1 \in 1..Len(program), NEW o, o = program[k + 1], o.op = "new",
         NEW s, s = o.s
  PROVE  /\ s \in Streams /\ o.kind \in Kinds /\ o.limit \in Nat
         /\ s \notin Created(program, k) /\ KindOf(s) = o.kind /\ LimitOf(s) = o.limit
         /\ \A u : u \in Created(program, k + 1) <=> u = s \/ u \in Created(program, k)
         /\ k + 1 \notin Lines(program)
<1>1. Len(program) \in Nat /\ k \in Nat
  BY ProgramTyped
<1>2. Declaration(program, s) = o
  BY Declares
<1>3. \A i, j \in 1..Len(program) :
        program[i].op = "new" /\ program[j].op = "new" /\ program[i].s = program[j].s => i = j
  BY WellFormedProgram
<1>4. \A u : u \in Created(program, k) <=> \E i \in 1..k : program[i].op = "new" /\ program[i].s = u
  BY <1>1, CreatedBy
<1>5. k + 1 \in 0..Len(program)
  BY <1>1
<1>6. \A u : u \in Created(program, k + 1) <=> \E i \in 1..(k + 1) : program[i].op = "new" /\ program[i].s = u
  BY <1>5, CreatedBy
<1>7. s \notin Created(program, k)
  BY <1>1, <1>3, <1>4
<1>8. ASSUME NEW u PROVE u \in Created(program, k + 1) <=> u = s \/ u \in Created(program, k)
  BY <1>1, <1>4, <1>6
<1>9. s \in Streams /\ o.kind \in Kinds /\ o.limit \in Nat
  BY ProgramTyped
<1>10. k + 1 \notin Lines(program)
  BY DEF Lines
<1> QED
  BY <1>2, <1>7, <1>8, <1>9, <1>10 DEF KindOf, LimitOf, KindIn

\* A step of the program that is no connection leaves all of them to be counted.
LEMMA PendingSame ==
  ASSUME Given, NEW k \in 0..Len(program), k + 1 \in 1..Len(program), k + 1 \notin Lines(program),
         NEW a \in Seq(Ops), Rest(a, k), NEW b \in Seq(Ops), Rest(b, k + 1), NEW u \in Streams, NEW t \in Streams
  PROVE  /\ Uncounted(b, u, t) <=> Uncounted(a, u, t)
         /\ InSeq(ConnectOp(u, t), b) <=> InSeq(ConnectOp(u, t), a)
<1>1. Len(program) \in Nat /\ k \in Nat /\ k + 1 \in 0..Len(program)
  BY ProgramTyped
<1>2. Pending(a, k + 1) /\ Pending(b, (k + 1) + 1)
  BY <1>1, PendingRest
<1>3. ToCome(u, t, k + 1) <=> ToCome(u, t, (k + 1) + 1)
  BY <1>1 DEF ToCome, Lines
<1>4. /\ InSeq(ConnectOp(u, t), a) <=> ToCome(u, t, k + 1)
      /\ InSeq(ConnectOp(u, t), b) <=> ToCome(u, t, (k + 1) + 1)
  BY <1>1, RestConnects
<1> QED
  BY <1>2, <1>3, <1>4 DEF Pending

\* strm_stream_new
LEMMA MainNew ==
  ASSUME Delivering, ExclusiveInv', StreamNew(Main)
  PROVE  Flowing' /\ Hidden
<1>1. /\ Given /\ MainOK /\ Kinded /\ Linked /\ Apart /\ Awake /\ Tokens /\ ExclusiveInv
  BY DEF Delivering, Flowing
<1>2. PICK a : a = agenda[Main]
  OBVIOUS
<1>3. PICK b : b = agenda'[Main]
  OBVIOUS
<1>4. PICK o : o = Head(a)
  OBVIOUS
<1>5. PICK s : s = o.s
  OBVIOUS
<1>6. /\ kind' = [kind EXCEPT ![s] = o.kind] /\ limit' = [limit EXCEPT ![s] = o.limit]
      /\ n' = [n EXCEPT ![s] = IF o.kind = "seq" THEN 1 ELSE o.limit]
      /\ mode' = [mode EXCEPT ![s] = ModeOf(o.kind)]
      /\ o.op = "new" /\ a # <<>>
  BY <1>2, <1>4, <1>5, Zenon DEF StreamNew, At
<1>7. Does(<<>>)
  BY DEF StreamNew, At, Return, Continue, Does, historyVars
<1>8. /\ program' = program /\ sent' = sent /\ got' = got /\ dst' = dst /\ rest' = rest /\ refcnt' = refcnt
      /\ tasks' = tasks
  BY DEF StreamNew, historyVars
<1>9. /\ a \in Seq(Ops) /\ Tail(a) \in Seq(Ops) /\ b = <<>> \o Tail(a) /\ b \in Seq(Ops)
      /\ \A u \in Streams : Steps(u)' = Steps(u)
  BY <1>1, <1>2, <1>3, <1>7, DoesFacts
<1>10. b = Tail(a)
  BY <1>9, Front0
<1>11. PICK k \in 0..Len(program) :
         Rest(a, k) /\ \A u \in Streams : mode[u] # "none" <=> u \in Created(program, k)
  BY <1>1, <1>2, <1>4, <1>6, <1>9, MainComes
<1>12. k + 1 \in 1..Len(program) /\ o = program[k + 1] /\ Rest(b, k + 1)
  BY <1>1, <1>4, <1>6, <1>9, <1>10, <1>11, RestNext
<1>13. /\ s \in Streams /\ o.kind \in Kinds /\ o.limit \in Nat
       /\ s \notin Created(program, k) /\ KindOf(s) = o.kind /\ LimitOf(s) = o.limit
       /\ \A u : u \in Created(program, k + 1) <=> u = s \/ u \in Created(program, k)
       /\ k + 1 \notin Lines(program)
  BY <1>1, <1>5, <1>6, <1>12, NewFacts
<1>14. mode[s] = "none"
  BY <1>11, <1>13
<1>15. sent[s] = <<>> /\ got[s] = <<>> /\ tasks[s] = <<>>
  BY <1>1, <1>13, <1>14 DEF Kinded
<1>16. Steps(s) = <<>>
  BY <1>1, <1>13, <1>14 DEF Awake
<1> HIDE <1>4
<1>17. /\ kind \in [Streams -> Kinds] /\ limit \in [Streams -> Nat] /\ n \in [Streams -> Int] /\ mode \in [Streams -> Modes]
  BY <1>1 DEF ExclusiveInv, Typed, TypeOK, StreamsOK
<1>18. /\ kind'[s] = o.kind /\ limit'[s] = o.limit /\ mode'[s] = ModeOf(o.kind)
       /\ o.kind = "seq" => n'[s] = 1
       /\ o.kind # "seq" => n'[s] = o.limit
       /\ \A u \in Streams : u # s => kind'[u] = kind[u] /\ limit'[u] = limit[u] /\ n'[u] = n[u] /\ mode'[u] = mode[u]
  BY <1>6, <1>13, <1>17
<1>19. mode'[s] \in {"producer", "filter", "consumer"}
  BY <1>13, <1>18 DEF ModeOf
<1>20. ASSUME NEW u \in Streams PROVE Builds(u)
  <2>1. CASE u = s
    <3>1. PICK M : M = Local(s)'
      OBVIOUS
    <3>2. /\ M.kind = o.kind /\ M.limit = o.limit /\ M.sent = <<>> /\ M.got = <<>>
          /\ o.kind = "seq" => M.n = 1
          /\ o.kind # "seq" => M.n = o.limit
      BY <3>1, <1>8, <1>15, <1>18 DEF Local
    <3>3. Len(M.sent) = 0 /\ Len(M.got) = 0
      BY <3>2, EmptyLen
    <3> HIDE <3>1
    <3>4. Sums(M, 0, 0)
      BY <3>2, <3>3, <1>13 DEF Sums
    <3> USE <3>1
    <3>5. Sums(Local(u)', 0, 0)
      BY <2>1, <3>1, <3>4
    <3>6. Live(mode'[s])
      BY <1>19 DEF Live
    <3> QED
      BY <2>1, <3>5, <3>6, <1>9, <1>14, <1>16 DEF Builds
  <2>2. CASE u # s
    <3>1. Local(u)' = Local(u)
      BY <2>2, <1>8, <1>9, <1>18 DEF Local
    <3> QED
      BY <2>2, <3>1, <1>9, <1>18 DEF Builds
  <2> QED
    BY <2>1, <2>2
<1>21. \A u, t \in Streams : /\ Uncounted(b, u, t) <=> Uncounted(a, u, t)
                             /\ InSeq(ConnectOp(u, t), b) <=> InSeq(ConnectOp(u, t), a)
  BY <1>1, <1>9, <1>11, <1>12, <1>13, PendingSame
<1>22. \A u, t \in Streams : UnRef(u, t)' <=> UnRef(u, t)
  BY <1>2, <1>3, <1>21, UnRefIs, UnRefIsNext
<1>23. \A t \in Streams : UnRefs(t)' = UnRefs(t) /\ (Ready(t)' <=> Ready(t))
  BY <1>8, <1>22, UnRefSame
<1>24. \A t \in Streams : Counted(t)
  BY <1>8, <1>23, CountedSame
<1>25. /\ \A u, t : Link(u, t)' <=> Link(u, t)
       /\ \A u : KindOf(u)' = KindOf(u) /\ LimitOf(u)' = LimitOf(u)
       /\ \A j : Created(program, j)' = Created(program, j)
  BY <1>8, SameProgram
<1>26. MainOK'
  <2>1. k + 1 \in 0..Len(program)
    BY <1>12, ProgramTyped
  <2>2. Rest(agenda[Main], k + 1)'
    BY <1>3, <1>8, <1>12 DEF Rest
  <2>3. \A u \in Streams : mode'[u] # "none" <=> u \in Created(program, k + 1)
    BY <1>11, <1>13, <1>18, <1>19
  <2>4. MainAt(k + 1)'
    BY <2>2, <2>3, <1>8 DEF MainAt
  <2> QED
    BY <2>1, <2>4, <1>8 DEF MainOK
<1>27. Kinded'
  BY <1>1, <1>8, <1>13, <1>18, <1>19, <1>25 DEF Kinded
<1>28. Linked'
  <2>1. \A u, t \in Streams : Joined(u, t)' <=> Joined(u, t)
    BY <1>8 DEF Joined, InSeq
  <2>2. \A u \in Streams : (mode[u] # "none" => mode'[u] # "none") /\ (mode[u] = "killed" => mode'[u] = "killed")
    BY <1>14, <1>18, <1>19
  <2>3. \A u, t \in Streams : InSeq(ConnectOp(u, t), agenda'[Main]) <=> InSeq(ConnectOp(u, t), agenda[Main])
    BY <1>2, <1>3, <1>21
  <2>4. ASSUME NEW u \in Streams, NEW t \in Streams
        PROVE  /\ Joined(u, t)' => /\ Link(u, t)' /\ ~InSeq(ConnectOp(u, t), agenda'[Main])
                                   /\ mode'[u] # "none" /\ mode'[t] # "none"
               /\ Link(u, t)' /\ ~InSeq(ConnectOp(u, t), agenda'[Main]) => Joined(u, t)' \/ mode'[t] = "killed"
    BY <2>1, <2>2, <2>3, <1>1, <1>25 DEF Linked
  <2> QED
    BY <2>4 DEF Linked, InSeq
<1>29. Apart'
  BY <1>1, <1>8 DEF Apart
<1>30. Awake'
  BY <1>1, <1>8, <1>9, <1>14, <1>18, <1>19, <1>23 DEF Awake
<1>31. Tokens'
  BY <1>1, <1>8, <1>25 DEF Tokens
<1> QED
  BY <1>8, <1>20, <1>24, <1>26, <1>27, <1>28, <1>29, <1>30, <1>31, BuildKeeps

\* The connection of u to t, the j-th step of the program, before and after the link is made.
Connects(k, j, u, t, a, b, c) ==
  /\ j = k + 1 /\ j \in Lines(program) /\ u = program[j].s /\ t = program[j].dst
  /\ a \in Seq(Ops) /\ Rest(a, k) /\ c \in Seq(Ops) /\ Rest(c, j) /\ b = <<RefOp(t), StartOp(u)>> \o c

LEMMA ConnectFacts ==
  ASSUME Given, NEW k \in 0..Len(program), NEW j, NEW u, NEW t, NEW a, NEW b, NEW c,
         Connects(k, j, u, t, a, b, c)
  PROVE  /\ u \in Streams /\ t \in Streams /\ Link(u, t)
         /\ u \in Created(program, k) /\ t \in Created(program, k)
         /\ \A v : v \in Created(program, j) <=> v \in Created(program, k)
         /\ \A v, x \in Streams : Uncounted(b, v, x) <=> Uncounted(a, v, x)
         /\ \A v, x \in Streams : InSeq(ConnectOp(v, x), a) <=> InSeq(ConnectOp(v, x), b) \/ (v = u /\ x = t)
         /\ ~InSeq(ConnectOp(u, t), b)
         /\ Is(b, RefOp(t)) /\ Is(Tail(b), StartOp(u)) /\ Tail(Tail(b)) = c
<1> USE DEF Connects
<1>1. Len(program) \in Nat /\ k \in Nat /\ j \in 1..Len(program) /\ j \in 0..Len(program) /\ program[j].op = "connect"
  BY ProgramTyped DEF Lines
<1>2. u \in Streams /\ t \in Streams /\ Link(u, t)
  BY <1>1, ProgramTyped DEF Link
<1>3. j - 1 = k
  BY <1>1
<1>4. u \in Created(program, k) /\ t \in Created(program, k)
  BY <1>1, <1>3, WellFormedProgram
<1>5. ASSUME NEW v PROVE v \in Created(program, j) <=> v \in Created(program, k)
  <2>1. v \in Created(program, k) <=> \E i \in 1..k : program[i].op = "new" /\ program[i].s = v
    BY <1>1, CreatedBy
  <2>2. v \in Created(program, j) <=> \E i \in 1..j : program[i].op = "new" /\ program[i].s = v
    BY <1>1, CreatedBy
  <2>3. \A i : i \in 1..j <=> i \in 1..k \/ i = j
    BY <1>1
  <2>4. program[j].op # "new"
    BY <1>1
  <2> QED
    BY <2>1, <2>2, <2>3, <2>4
<1>6. RefOp(t) \in Ops /\ StartOp(u) \in Ops
  BY <1>2 DEF Ops, StreamOps, RefOp, StartOp
<1>7. PICK e : e = <<StartOp(u)>> \o c
  OBVIOUS
<1>8. e \in Seq(Ops) /\ e # <<>> /\ Head(e) = StartOp(u) /\ Tail(e) = c
  BY <1>6, <1>7, Front1
<1>9. b = <<RefOp(t)>> \o e
  BY <1>6, <1>7, Front2, SMTT(30)
<1>10. b \in Seq(Ops) /\ b # <<>> /\ Head(b) = RefOp(t) /\ Tail(b) = e
  BY <1>6, <1>8, <1>9, Front1, SMTT(30)
<1> HIDE <1>7, <1>9
<1>11. Is(b, RefOp(t)) /\ Is(Tail(b), StartOp(u)) /\ Tail(Tail(b)) = c
  BY <1>8, <1>10 DEF Is
<1>12. Pending(a, j) /\ Pending(b, j)
  BY <1>1, <1>10, <1>11, PendingRest, PendingRef
<1>13. \A v, x \in Streams : Uncounted(b, v, x) <=> Uncounted(a, v, x)
  BY <1>12 DEF Pending
<1>14. ASSUME NEW v \in Streams, NEW x \in Streams
       PROVE  /\ InSeq(ConnectOp(v, x), a) <=> ToCome(v, x, j)
              /\ InSeq(ConnectOp(v, x), b) <=> ToCome(v, x, j + 1)
  <2>1. /\ InSeq(ConnectOp(v, x), a) <=> ToCome(v, x, j)
        /\ InSeq(ConnectOp(v, x), c) <=> ToCome(v, x, j + 1)
    BY <1>1, RestConnects
  <2>2. Head(e).op # "connect" /\ Head(b).op # "connect"
    BY <1>8, <1>10 DEF RefOp, StartOp
  <2>3. /\ InSeq(ConnectOp(v, x), e) <=> InSeq(ConnectOp(v, x), c)
        /\ InSeq(ConnectOp(v, x), b) <=> InSeq(ConnectOp(v, x), e)
    BY <2>2, <1>8, <1>10, ConsConnects
  <2> QED
    BY <2>1, <2>3
<1>15. ASSUME NEW i \in Lines(program), i >= j + 1 PROVE ~(program[i].s = u /\ program[i].dst = t)
  <2>0. i \in 1..Len(program)
    BY DEF Lines
  <2>1. i \in 1..Len(program) /\ j < i
    BY <2>0, <1>1, <1>15
  <2>2. program[i] # program[j]
    BY <2>1 DEF Given, ReadyToRun, FromTheEnds
  <2>3. program[j] = ConnectOp(u, t)
    BY <1>1, <1>2, ConnectIs
  <2> QED
    BY <2>1, <2>2, <2>3, <1>2, ConnectIs
<1>16. ~ToCome(u, t, j + 1)
  BY <1>15 DEF ToCome
<1>17. ASSUME NEW v \in Streams, NEW x \in Streams
       PROVE  ToCome(v, x, j) <=> ToCome(v, x, j + 1) \/ (v = u /\ x = t)
  BY <1>1 DEF ToCome, Lines
<1>18. ~InSeq(ConnectOp(u, t), b)
  BY <1>2, <1>14, <1>16
<1>19. \A v, x \in Streams : InSeq(ConnectOp(v, x), a) <=> InSeq(ConnectOp(v, x), b) \/ (v = u /\ x = t)
  BY <1>14, <1>17
<1> QED
  BY <1>2, <1>4, <1>5, <1>11, <1>13, <1>18, <1>19

\* u listens to t from now on: it is its dst or the last of rest.
LEMMA JoinedNow ==
  ASSUME Typed, Apart, NEW u \in Streams, NEW t \in Streams, ~Joined(u, t),
         \/ dst[u] = NoStream /\ dst' = [dst EXCEPT ![u] = t] /\ rest' = rest
         \/ dst[u] # NoStream /\ dst' = dst /\ rest' = [rest EXCEPT ![u] = Append(@, t)]
  PROVE  /\ \A v, x \in Streams : Joined(v, x)' <=> Joined(v, x) \/ (v = u /\ x = t)
         /\ Apart'
         /\ \A v \in Streams : v # u => dst'[v] = dst[v] /\ rest'[v] = rest[v]
<1>1. dst \in [Streams -> Streams \union {NoStream}] /\ rest \in [Streams -> Seq(Streams)]
  BY DEF Typed, TypeOK, StreamsOK
<1>2. t # dst[u] /\ ~InSeq(t, rest[u])
  BY DEF Joined
<1>3. /\ \A i \in 1..Len(rest[u]) : rest[u][i] # dst[u]
      /\ \A i, j \in 1..Len(rest[u]) : rest[u][i] = rest[u][j] => i = j
  BY DEF Apart
<1>4. \A v \in Streams : v # u => dst'[v] = dst[v] /\ rest'[v] = rest[v]
  BY <1>1
<1>5. CASE dst[u] = NoStream /\ dst' = [dst EXCEPT ![u] = t] /\ rest' = rest
  <2>1. dst'[u] = t /\ rest'[u] = rest[u] /\ \A x \in Streams : x # dst[u]
    BY <1>1, <1>5, NullAssumption
  <2>2. \A v, x \in Streams : Joined(v, x)' <=> Joined(v, x) \/ (v = u /\ x = t)
    BY <1>4, <2>1 DEF Joined, InSeq
  <2>3. \A i \in 1..Len(rest'[u]) : rest'[u][i] # dst'[u]
    BY <2>1, <1>2 DEF InSeq
  <2>4. Apart'
    BY <2>1, <2>3, <1>3, <1>4 DEF Apart
  <2> QED
    BY <2>2, <2>4, <1>4
<1>6. CASE dst[u] # NoStream /\ dst' = dst /\ rest' = [rest EXCEPT ![u] = Append(@, t)]
  <2>1. PICK q : q = rest[u]
    OBVIOUS
  <2>2. q \in Seq(Streams) /\ rest'[u] = Append(q, t) /\ dst'[u] = dst[u]
    BY <2>1, <1>1, <1>6
  <2>3. /\ Len(Append(q, t)) = Len(q) + 1 /\ Len(q) \in Nat
        /\ \A i \in 1..Len(q) : Append(q, t)[i] = q[i]
        /\ Append(q, t)[Len(q) + 1] = t
    BY <2>2
  <2>4. ~InSeq(t, q) /\ \A i \in 1..Len(q) : q[i] # t
    BY <2>1, <1>2 DEF InSeq
  <2>5. \A x : InSeq(x, Append(q, t)) <=> InSeq(x, q) \/ x = t
    BY <2>3 DEF InSeq
  <2>6. \A v, x \in Streams : Joined(v, x)' <=> Joined(v, x) \/ (v = u /\ x = t)
    <3> SUFFICES ASSUME NEW v \in Streams, NEW x \in Streams
                 PROVE  Joined(v, x)' <=> Joined(v, x) \/ (v = u /\ x = t)
      OBVIOUS
    <3>1. CASE v = u
      <4>1. Joined(u, x)' <=> x = dst[u] \/ InSeq(x, Append(q, t))
        BY <2>2 DEF Joined, InSeq
      <4>2. Joined(u, x) <=> x = dst[u] \/ InSeq(x, q)
        BY <2>1 DEF Joined
      <4> QED
        BY <4>1, <4>2, <2>5, <3>1
    <3>2. CASE v # u
      BY <3>2, <1>4 DEF Joined, InSeq
    <3> QED
      BY <3>1, <3>2
  <2>7. \A i \in 1..Len(rest'[u]) : rest'[u][i] # dst'[u]
    <3>1. \A i \in 1..Len(q) : q[i] # dst[u]
      BY <2>1, <1>3
    <3> QED
      BY <2>2, <2>3, <3>1, <1>2
  <2>8. \A i, j \in 1..Len(rest'[u]) : rest'[u][i] = rest'[u][j] => i = j
    <3>1. \A i, j \in 1..Len(q) : q[i] = q[j] => i = j
      BY <2>1, <1>3
    <3> QED
      BY <2>2, <2>3, <2>4, <3>1
  <2>9. Apart'
    BY <2>7, <2>8, <1>4 DEF Apart
  <2> QED
    BY <2>6, <2>9, <1>4
<1> QED
  BY <1>5, <1>6

\* strm_stream_connect, up to the link
LEMMA MainConnect ==
  ASSUME Delivering, ExclusiveInv', Connect(Main)
  PROVE  Flowing' /\ Hidden
<1>1. /\ Given /\ MainOK /\ Kinded /\ Linked /\ Apart /\ Awake /\ Tokens /\ ExclusiveInv /\ Typed
  BY DEF Delivering, Flowing, ExclusiveInv
<1>2. PICK a : a = agenda[Main]
  OBVIOUS
<1>3. PICK b : b = agenda'[Main]
  OBVIOUS
<1>4. PICK u, t : u = Head(a).s /\ t = Head(a).dst
  OBVIOUS
<1>5. /\ \/ dst[u] = NoStream /\ dst' = [dst EXCEPT ![u] = t] /\ rest' = rest
         \/ dst[u] # NoStream /\ dst' = dst /\ rest' = [rest EXCEPT ![u] = Append(@, t)]
      /\ Head(a).op = "connect" /\ a # <<>>
  BY <1>2, <1>4, Zenon DEF Connect, At
<1>6. Does(<<RefOp(t), StartOp(u)>>)
  BY <1>2, <1>4, Zenon DEF Connect, At, Continue, Does, historyVars
<1>7. /\ program' = program /\ sent' = sent /\ got' = got /\ kind' = kind /\ limit' = limit /\ n' = n
      /\ mode' = mode /\ refcnt' = refcnt /\ tasks' = tasks
  BY DEF Connect, historyVars
<1>8. /\ a \in Seq(Ops) /\ Tail(a) \in Seq(Ops) /\ b = <<RefOp(t), StartOp(u)>> \o Tail(a) /\ b \in Seq(Ops)
      /\ \A v \in Streams : Steps(v)' = Steps(v)
  BY <1>1, <1>2, <1>3, <1>6, DoesFacts
<1>9. PICK k \in 0..Len(program) :
         Rest(a, k) /\ \A v \in Streams : mode[v] # "none" <=> v \in Created(program, k)
  BY <1>1, <1>2, <1>5, <1>8, MainComes
<1>10. PICK j : j = k + 1
  OBVIOUS
<1>11. /\ j \in Lines(program) /\ u = program[j].s /\ t = program[j].dst /\ Rest(Tail(a), j)
       /\ j \in 0..Len(program)
  <2>1. j \in 1..Len(program) /\ Head(a) = program[j] /\ Rest(Tail(a), j)
    BY <1>1, <1>5, <1>8, <1>9, <1>10, RestNext
  <2> QED
    BY <2>1, <1>1, <1>4, <1>5, ProgramTyped DEF Lines
<1>12. PICK c : c = Tail(a)
  OBVIOUS
<1>14. Rest(c, j) /\ c \in Seq(Ops) /\ b = <<RefOp(t), StartOp(u)>> \o c
  BY <1>8, <1>11, <1>12
<1> HIDE <1>4, <1>12
<1>13. /\ u \in Streams /\ t \in Streams /\ Link(u, t)
       /\ u \in Created(program, k) /\ t \in Created(program, k)
       /\ \A v : v \in Created(program, j) <=> v \in Created(program, k)
       /\ \A v, x \in Streams : Uncounted(b, v, x) <=> Uncounted(a, v, x)
       /\ \A v, x \in Streams : InSeq(ConnectOp(v, x), a) <=> InSeq(ConnectOp(v, x), b) \/ (v = u /\ x = t)
       /\ ~InSeq(ConnectOp(u, t), b)
       /\ Is(b, RefOp(t)) /\ Is(Tail(b), StartOp(u)) /\ Tail(Tail(b)) = c
  <2>1. Connects(k, j, u, t, a, b, c)
    BY <1>8, <1>9, <1>10, <1>11, <1>14 DEF Connects
  <2> QED
    BY <2>1, <1>1, ConnectFacts
<1>15. UnRef(u, t) /\ ~Ready(u) /\ ~Joined(u, t) /\ mode[u] # "none" /\ mode[t] # "none"
  <2>1. InSeq(ConnectOp(u, t), agenda[Main])
    BY <1>2, <1>13
  <2> QED
    BY <2>1, <1>1, <1>9, <1>13 DEF UnRef, Ready, Linked
<1>16. Steps(u) = <<>>
  BY <1>1, <1>13, <1>15 DEF Awake
<1>17. /\ \A v, x \in Streams : Joined(v, x)' <=> Joined(v, x) \/ (v = u /\ x = t)
       /\ Apart'
       /\ \A v \in Streams : v # u => dst'[v] = dst[v] /\ rest'[v] = rest[v]
  BY <1>1, <1>5, <1>13, <1>15, JoinedNow
<1>18. ASSUME NEW v \in Streams PROVE Builds(v)
  BY <1>7, <1>8, <1>16, <1>17 DEF Builds, Local
<1>19. \A v, x \in Streams : UnRef(v, x)' <=> UnRef(v, x)
  BY <1>2, <1>3, <1>13, UnRefIs, UnRefIsNext
<1>20. \A x \in Streams : UnRefs(x)' = UnRefs(x) /\ (Ready(x)' <=> Ready(x))
  BY <1>7, <1>19, UnRefSame
<1>21. \A x \in Streams : Counted(x)
  BY <1>7, <1>20, CountedSame
<1>22. /\ \A v, x : Link(v, x)' <=> Link(v, x)
       /\ \A v : KindOf(v)' = KindOf(v) /\ LimitOf(v)' = LimitOf(v)
       /\ \A i : Created(program, i)' = Created(program, i)
       /\ Lines(program)' = Lines(program)
  BY <1>7, SameProgram
<1>23. MainOK'
  <2>1. Connecting(b, j)'
    <3>1. Rest(Tail(Tail(b)), j)'
      BY <1>7, <1>13, <1>14 DEF Rest
    <3> QED
      BY <3>1, <1>7, <1>11, <1>13 DEF Connecting, Is, Lines
  <2>2. \A v \in Streams : mode'[v] # "none" <=> v \in Created(program, j)
    BY <1>7, <1>9, <1>13
  <2>3. MainAt(j)'
    BY <2>1, <2>2, <1>3, <1>7 DEF MainAt
  <2> QED
    BY <2>3, <1>7, <1>11 DEF MainOK
<1>24. Kinded'
  BY <1>1, <1>7, <1>22 DEF Kinded
<1>25. Linked'
  <2>1. \A v, x \in Streams :
          InSeq(ConnectOp(v, x), agenda[Main]) <=> InSeq(ConnectOp(v, x), agenda'[Main]) \/ (v = u /\ x = t)
    BY <1>2, <1>3, <1>13
  <2>2. ~InSeq(ConnectOp(u, t), agenda'[Main])
    BY <1>3, <1>13
  <2>3. ASSUME NEW v \in Streams, NEW x \in Streams
        PROVE  /\ Joined(v, x)' => /\ Link(v, x)' /\ ~InSeq(ConnectOp(v, x), agenda'[Main])
                                   /\ mode'[v] # "none" /\ mode'[x] # "none"
               /\ Link(v, x)' /\ ~InSeq(ConnectOp(v, x), agenda'[Main]) => Joined(v, x)' \/ mode'[x] = "killed"
    BY <2>1, <2>2, <1>1, <1>7, <1>13, <1>15, <1>17, <1>22 DEF Linked
  <2> QED
    BY <2>3 DEF Linked, InSeq
<1>26. Awake'
  BY <1>1, <1>7, <1>8, <1>20 DEF Awake
<1>27. Tokens'
  BY <1>1, <1>7, <1>22 DEF Tokens
<1> QED
  BY <1>7, <1>17, <1>18, <1>21, <1>23, <1>24, <1>25, <1>26, <1>27, BuildKeeps

\* The main thread is inside of the connection it has counted, or past it.
Inside(a, k) ==
  /\ k \in Lines(program) /\ a \in Seq(Ops)
  /\ \/ Rest(a, k)
     \/ /\ a # <<>> /\ Head(a).op \notin {"connect", "ref"}
        /\ \/ Rest(Tail(a), k)
           \/ Tail(a) # <<>> /\ Head(Tail(a)).op # "connect" /\ Rest(Tail(Tail(a)), k)

\* The connections after the k-th step are still to come.
LEMMA InsideFacts ==
  ASSUME Given, NEW k, NEW a, Inside(a, k)
  PROVE  /\ \A v, x \in Streams : Uncounted(a, v, x) <=> ToCome(v, x, k + 1)
         /\ \A v, x \in Streams : InSeq(ConnectOp(v, x), a) <=> ToCome(v, x, k + 1)
<1>1. k \in 0..Len(program) /\ a \in Seq(Ops) /\ k \in Lines(program)
  BY ProgramTyped DEF Inside, Lines
<1>2. Pending(a, k + 1)
  BY <1>1, PendingRest, PendingCons DEF Inside
<1>3. ASSUME NEW v \in Streams, NEW x \in Streams PROVE InSeq(ConnectOp(v, x), a) <=> ToCome(v, x, k + 1)
  <2>1. CASE Rest(a, k)
    BY <1>1, <2>1, RestConnects
  <2>2. CASE a # <<>> /\ Head(a).op # "connect" /\ Rest(Tail(a), k)
    <3>1. Tail(a) \in Seq(Ops)
      BY <1>1, <2>2, HeadTail
    <3>2. InSeq(ConnectOp(v, x), Tail(a)) <=> ToCome(v, x, k + 1)
      BY <1>1, <2>2, <3>1, RestConnects
    <3> QED
      BY <1>1, <2>2, <3>2, ConsConnects
  <2>3. CASE /\ a # <<>> /\ Head(a).op # "connect"
             /\ Tail(a) # <<>> /\ Head(Tail(a)).op # "connect" /\ Rest(Tail(Tail(a)), k)
    <3>1. Tail(a) \in Seq(Ops)
      BY <1>1, <2>3, HeadTail
    <3>2. Tail(Tail(a)) \in Seq(Ops)
      BY <3>1, <2>3, HeadTail
    <3>3. InSeq(ConnectOp(v, x), Tail(Tail(a))) <=> ToCome(v, x, k + 1)
      BY <1>1, <2>3, <3>2, RestConnects
    <3>4. InSeq(ConnectOp(v, x), Tail(a)) <=> ToCome(v, x, k + 1)
      BY <3>1, <3>3, <2>3, ConsConnects
    <3> QED
      BY <1>1, <2>3, <3>4, ConsConnects
  <2> QED
    BY <2>1, <2>2, <2>3 DEF Inside
<1> QED
  BY <1>2, <1>3 DEF Pending

\* The parts that say what is linked when the main thread does a step.
LEMMA MainLinks ==
  ASSUME Delivering, program' = program, kind' = kind, limit' = limit, mode' = mode, dst' = dst, rest' = rest,
         sent' = sent, got' = got, \A u \in Streams : Steps(u)' = Steps(u),
         \A v, x \in Streams : InSeq(ConnectOp(v, x), agenda'[Main]) <=> InSeq(ConnectOp(v, x), agenda[Main]),
         \A x \in Streams : Ready(x) => Ready(x)',
         \A x \in Streams : tasks'[x] = tasks[x] \/ (Ready(x) /\ mode[x] # "none")
  PROVE  Kinded' /\ Linked' /\ Apart' /\ Awake'
<1>1. Kinded /\ Linked /\ Apart /\ Awake
  BY DEF Delivering, Flowing
<1>2. /\ \A v, x : Link(v, x)' <=> Link(v, x)
      /\ \A v : KindOf(v)' = KindOf(v) /\ LimitOf(v)' = LimitOf(v)
  BY SameProgram
<1>3. Kinded'
  BY <1>1, <1>2 DEF Kinded
<1>4. Linked'
  <2>1. ASSUME NEW v \in Streams, NEW x \in Streams
        PROVE  /\ Joined(v, x)' => /\ Link(v, x)' /\ ~InSeq(ConnectOp(v, x), agenda'[Main])
                                   /\ mode'[v] # "none" /\ mode'[x] # "none"
               /\ Link(v, x)' /\ ~InSeq(ConnectOp(v, x), agenda'[Main]) => Joined(v, x)' \/ mode'[x] = "killed"
    <3>1. Joined(v, x)' <=> Joined(v, x)
      BY DEF Joined, InSeq
    <3> QED
      BY <3>1, <1>1, <1>2 DEF Linked
  <2> QED
    BY <2>1 DEF Linked, InSeq
<1>5. Apart'
  BY <1>1 DEF Apart
<1>6. Awake'
  BY <1>1 DEF Awake
<1> QED
  BY <1>3, <1>4, <1>5, <1>6

\* What follows the connection, up to the producer's first task.
LEMMA MainInner ==
  ASSUME Delivering, ExclusiveInv', NEW ops, Does(ops), NEW a, a = agenda[Main], NEW b, b = agenda'[Main],
         kind' = kind, limit' = limit, n' = n, mode' = mode, dst' = dst, rest' = rest, refcnt' = refcnt,
         NEW k, Inside(a, k), Inside(b, k), Rest(b, k) \/ Connecting(b, k),
         \A x \in Streams : mode[x] # "none" <=> x \in Created(program, k),
         \A x \in Streams : tasks'[x] = tasks[x] \/ (Ready(x) /\ mode[x] # "none"),
         \A x \in Streams, z \in {-1, 0, 1} : tasks'[x] = tasks[x]
             \/ (UnRefs(x)' = UnRefs(x) /\ Channel(x, z) => Channel(x, z)'),
         Tokens'
  PROVE  Flowing' /\ Hidden
<1>1. Given
  BY DEF Delivering, Flowing
<1>2. program' = program /\ sent' = sent /\ got' = got /\ \A u \in Streams : Steps(u)' = Steps(u)
  BY DoesFacts DEF Does
<1>3. \A v, x \in Streams : /\ Uncounted(b, v, x) <=> Uncounted(a, v, x)
                            /\ InSeq(ConnectOp(v, x), b) <=> InSeq(ConnectOp(v, x), a)
  BY <1>1, InsideFacts
<1>4. \A v, x \in Streams : UnRef(v, x)' <=> UnRef(v, x)
  BY <1>3, UnRefIs, UnRefIsNext
<1>5. \A x \in Streams : UnRefs(x)' = UnRefs(x) /\ (Ready(x)' <=> Ready(x))
  BY <1>2, <1>4, UnRefSame
<1>6. Kinded' /\ Linked' /\ Apart' /\ Awake'
  <2>1. \A v, x \in Streams : InSeq(ConnectOp(v, x), agenda'[Main]) <=> InSeq(ConnectOp(v, x), agenda[Main])
    BY <1>3
  <2> QED
    BY <2>1, <1>2, <1>5, MainLinks
<1>7. \A x \in Streams : Counted(x)
  BY <1>5, CountedSame
<1>8. \A u \in Streams : Builds(u)
  BY <1>2 DEF Builds, Local
<1>9. MainOK'
  <2>1. k \in 0..Len(program) /\ k \in Lines(program) /\ program[k].s \in Streams
    BY <1>1, ProgramTyped DEF Inside, Lines
  <2>2. Rest(agenda[Main], k)' \/ Connecting(agenda[Main], k)'
    <3>1. CASE Rest(b, k)
      BY <3>1, <1>2 DEF Rest
    <3>2. CASE Connecting(b, k)
      <4>1. Connecting(b, k)'
        <5>1. \A c : Rest(c, k)' <=> Rest(c, k)
          BY <1>2 DEF Rest
        <5>2. KindOf(program[k].s)' = KindOf(program[k].s) /\ (Ready(program[k].s)' <=> Ready(program[k].s))
              /\ Lines(program)' = Lines(program) /\ program' = program
          BY <1>2, <1>5, <2>1, SameProgram
        <5> QED
          BY <3>2, <5>1, <5>2 DEF Connecting, Is
      <4> QED
        BY <4>1
    <3> QED
      BY <3>1, <3>2
  <2>3. MainAt(k)'
    BY <2>2, <1>2 DEF MainAt
  <2> QED
    BY <2>1, <2>3, <1>2 DEF MainOK
<1>10. \A x \in Streams, z \in {-1, 0, 1} : tasks'[x] = tasks[x] \/ (Channel(x, z) => Channel(x, z)')
  BY <1>5
<1> QED
  BY <1>2, <1>6, <1>7, <1>8, <1>9, <1>10, BuildKeeps

\* The main thread is inside of a connection.
LEMMA MainInside ==
  ASSUME Delivering, NEW a, a = agenda[Main], a \in Seq(Ops), a # <<>>, Head(a).op \notin {"new", "connect"}
  PROVE  \E k \in Lines(program) :
           /\ Connecting(a, k) /\ \A s \in Streams : mode[s] # "none" <=> s \in Created(program, k)
           /\ program[k].s \in Streams /\ program[k].dst \in Streams /\ k \in 0..Len(program)
           /\ mode[program[k].s] # "none"
<1>1. Given /\ MainOK
  BY DEF Delivering, Flowing
<1>2. PICK k \in 0..Len(program) : MainAt(k)
  BY <1>1 DEF MainOK
<1>3. ~Rest(a, k)
  BY <1>1, RestNext
<1>4. Connecting(a, k) /\ (\A s \in Streams : mode[s] # "none" <=> s \in Created(program, k)) /\ k \in Lines(program)
  BY <1>2, <1>3 DEF MainAt, Connecting
<1>5. k \in 1..Len(program) /\ program[k].op = "connect" /\ Len(program) \in Nat
  BY <1>1, <1>4, ProgramTyped DEF Lines
<1>6. program[k].s \in Streams /\ program[k].dst \in Streams
  BY <1>1, <1>5, ProgramTyped
<1>7. program[k].s \in Created(program, k - 1)
  BY <1>1, <1>5, WellFormedProgram
<1>8. PICK i \in 1..(k - 1) : program[i].op = "new" /\ program[i].s = program[k].s
  <2>1. k - 1 \in 0..Len(program)
    BY <1>5
  <2> QED
    BY <2>1, <1>1, <1>7, CreatedBy
<1>9. i \in 1..k
  BY <1>5
<1>10. program[k].s \in Created(program, k)
  BY <1>1, <1>2, <1>8, <1>9, CreatedBy
<1> QED
  BY <1>2, <1>4, <1>6, <1>10

\* The producer of the k-th connection is ready when it is counted: it is the only
\* connection of either stream.
LEMMA ProducerReady ==
  ASSUME Given, NEW k \in Lines(program), NEW s \in Streams, s = program[k].s, KindOf(s) = "seq",
         \A v, x \in Streams : UnRef(v, x) <=> ToCome(v, x, k + 1)
  PROVE  Ready(s)
<1>1. k \in 1..Len(program) /\ Len(program) \in Nat
  BY ProgramTyped DEF Lines
<1>2. FromTheEnds(program) /\ Outlets(program)
  BY DEF Given, ReadyToRun
<1>3. Touched(s)
  BY DEF Touched
<1>4. ASSUME NEW i \in Lines(program) PROVE program[i].dst # s /\ (program[i].s = s => i = k) /\ i \in Nat /\ k \in Nat
  <2>1. i \in 1..Len(program)
    BY DEF Lines
  <2>2. program[i].dst # s
    BY <1>2 DEF Outlets, KindOf
  <2>3. ASSUME program[i].s = s PROVE ~(i < k) /\ ~(k < i)
    BY <2>3, <1>2 DEF FromTheEnds, KindOf
  <2> QED
    BY <2>1, <2>2, <2>3, <1>1
<1>5. ASSUME NEW v \in Streams, NEW x \in Streams, UnRef(v, x)
      PROVE  v # s /\ x # s /\ ~Link(s, x)
  <2>1. PICK i \in Lines(program) : i >= k + 1 /\ program[i].s = v /\ program[i].dst = x
    BY <1>5 DEF ToCome
  <2>2. i \in Nat /\ k \in Nat /\ k < i
    BY <2>1, <1>4
  <2>3. v # s /\ x # s
    BY <2>1, <2>2, <1>4
  <2>4. ASSUME Link(s, x) PROVE FALSE
    <3>1. PICK j \in 1..Len(program) : program[j].s = s /\ program[j].dst = x /\ j \in Lines(program)
      BY <2>4 DEF Link, Lines
    <3>2. j = k
      BY <3>1, <1>4
    <3>3. program[k].dst = program[i].dst
      BY <2>1, <3>1, <3>2
    <3> QED
      BY <3>3, <2>2, <2>1, <1>2 DEF FromTheEnds, KindOf
  <2> QED
    BY <2>3, <2>4
<1> QED
  BY <1>3, <1>5 DEF Ready

\* What the main thread has come to is inside.
LEMMA RestInside ==
  ASSUME NEW k \in Lines(program), NEW a \in Seq(Ops), Rest(a, k)
  PROVE  Inside(a, k)
  BY DEF Inside

LEMMA OneInside ==
  ASSUME NEW k \in Lines(program), NEW a \in Seq(Ops), a # <<>>, Head(a).op \notin {"connect", "ref"}, Rest(Tail(a), k)
  PROVE  Inside(a, k)
  BY DEF Inside

\* The step after the next one, when one more is to be done.
LEMMA FrontInside ==
  ASSUME NEW k \in Lines(program), NEW c \in Seq(Ops), Rest(c, k), NEW o \in Ops, o.op \notin {"connect", "ref"},
         NEW b, b = <<o>> \o c
  PROVE  Inside(b, k) /\ Is(b, o) /\ Tail(b) = c /\ b \in Seq(Ops)
<1>1. b \in Seq(Ops) /\ b # <<>> /\ Head(b) = o /\ Tail(b) = c
  BY Front1
<1> QED
  BY <1>1 DEF Is, Inside

Precede(o, p, c, b) == b = <<o, p>> \o c

LEMMA TwoInside ==
  ASSUME NEW k \in Lines(program), NEW c \in Seq(Ops), Rest(c, k), NEW o \in Ops, o.op \notin {"connect", "ref"},
         NEW p \in Ops, p.op # "connect", NEW b, Precede(o, p, c, b)
  PROVE  Inside(b, k) /\ Is(b, o) /\ Is(Tail(b), p) /\ Tail(Tail(b)) = c
<1>1. PICK e : e = <<p>> \o c
  OBVIOUS
<1>2. e \in Seq(Ops) /\ e # <<>> /\ Head(e) = p /\ Tail(e) = c
  BY <1>1, Front1
<1>3. b = <<o>> \o e
  BY <1>1, Front2 DEF Precede
<1> HIDE <1>1
<1>4. b \in Seq(Ops) /\ b # <<>> /\ Head(b) = o /\ Tail(b) = e
  BY <1>2, <1>3, Front1
<1> QED
  BY <1>2, <1>4 DEF Is, Inside

\* The end of strm_stream_connect: a producer is given its first task.
LEMMA MainStart ==
  ASSUME Delivering, ExclusiveInv', Start(Main)
  PROVE  Flowing' /\ Hidden
<1>1. /\ Given /\ Kinded /\ Tokens /\ ExclusiveInv
  BY DEF Delivering, Flowing
<1>2. PICK a : a = agenda[Main]
  OBVIOUS
<1>3. PICK b : b = agenda'[Main]
  OBVIOUS
<1>4. PICK s : s = Head(a).s
  OBVIOUS
<1>5. PICK ops : ops = IF mode[s] = "producer" THEN <<PushOp(s, "start", Nil)>> ELSE <<>>
  OBVIOUS
<1>6. /\ agenda' = [agenda EXCEPT ![Main] = ops \o Tail(@)] /\ a # <<>> /\ Head(a).op = "start"
      /\ pc' = pc \/ (~started /\ pc' = [t \in Threads |-> IF t \in Workers THEN "get" ELSE pc[t]])
  BY <1>2, <1>4, <1>5, Zenon DEF Start, At, TaskInit
<1>7. /\ program' = program /\ sent' = sent /\ got' = got /\ kind' = kind /\ limit' = limit /\ n' = n
      /\ mode' = mode /\ refcnt' = refcnt /\ tasks' = tasks /\ dst' = dst /\ rest' = rest /\ cur' = cur
  BY DEF Start, historyVars, streamVars
<1>8. /\ mode[s] = "producer" => ops = <<PushOp(s, "start", Nil)>>
      /\ mode[s] # "producer" => ops = <<>>
  BY <1>5
<1> HIDE <1>5
<1>9. Does(ops)
  <2>1. \A w \in Workers : pc'[w] = pc[w] \/ (~started /\ pc'[w] = "get")
    BY <1>6 DEF Threads
  <2> QED
    BY <2>1, <1>2, <1>6, <1>7 DEF Does
<1>10. /\ a \in Seq(Ops) /\ Tail(a) \in Seq(Ops) /\ b = ops \o Tail(a) /\ b \in Seq(Ops)
  BY <1>1, <1>2, <1>3, <1>9, DoesFacts
<1>11. PICK k \in Lines(program) :
         /\ Connecting(a, k) /\ \A u \in Streams : mode[u] # "none" <=> u \in Created(program, k)
         /\ program[k].s \in Streams /\ program[k].dst \in Streams /\ k \in 0..Len(program)
         /\ mode[program[k].s] # "none"
  BY <1>2, <1>6, <1>10, MainInside
<1>12. s = program[k].s /\ Rest(Tail(a), k)
  BY <1>4, <1>6, <1>11 DEF Connecting, Is, RefOp, StartOp, PushOp, AddTaskOp, AddStreamOp
<1>13. Inside(a, k)
  BY <1>6, <1>10, <1>12, OneInside
<1>14. PICK c : c = Tail(a)
  OBVIOUS
<1>15. Rest(c, k) /\ c \in Seq(Ops) /\ b = ops \o c
  BY <1>10, <1>12, <1>14
<1> HIDE <1>4, <1>14
<1>16. Inside(b, k) /\ (Rest(b, k) \/ Connecting(b, k))
  <2>1. CASE mode[s] = "producer"
    <3>1. KindOf(s) = "seq"
      <4>1. kind[s] = KindOf(s) /\ mode[s] \in {ModeOf(KindOf(s)), "dying", "killed"} /\ s \in Streams
        BY <1>1, <1>11, <1>12 DEF Kinded
      <4>2. kind[s] \in Kinds
        BY <4>1, <1>1 DEF ExclusiveInv, Typed, TypeOK, StreamsOK
      <4> QED
        BY <4>1, <4>2, <2>1 DEF ModeOf, Kinds
    <3>2. \A v, x \in Streams : UnRef(v, x) <=> ToCome(v, x, k + 1)
      BY <1>1, <1>2, <1>13, InsideFacts, UnRefIs
    <3>3. Ready(s)
      BY <3>1, <3>2, <1>1, <1>11, <1>12, ProducerReady
    <3>4. PushOp(s, "start", Nil) \in Ops /\ PushOp(s, "start", Nil).op = "push"
      BY <1>11, <1>12 DEF Ops, PushOp, Funcs, Data
    <3>5. b = <<PushOp(s, "start", Nil)>> \o c
      BY <1>8, <1>15, <2>1
    <3>6. Inside(b, k) /\ Is(b, PushOp(s, "start", Nil)) /\ Tail(b) = c
      BY <3>4, <3>5, <1>15, FrontInside
    <3>7. Connecting(b, k)
      BY <3>1, <3>3, <3>6, <1>12, <1>15, Zenon DEF Connecting
    <3> QED
      BY <3>6, <3>7
  <2>2. CASE mode[s] # "producer"
    <3>1. b = c
      BY <1>8, <1>15, <2>2, Front0
    <3> QED
      BY <3>1, <1>15, RestInside
  <2> QED
    BY <2>1, <2>2
<1>17. Tokens'
  BY <1>1, <1>7, SameProgram DEF Tokens
<1> QED
  BY <1>2, <1>3, <1>7, <1>9, <1>11, <1>13, <1>16, <1>17, MainInner

\* Where the main thread is when it pushes a producer's first task; c is what follows.
LEMMA Producing ==
  ASSUME NEW a, NEW k, Connecting(a, k), NEW s, s = program[k].s,
         Head(a).op \in {"push", "addTask", "addStream"}, NEW o, o = Head(a)
  PROVE  /\ KindOf(s) = "seq" /\ Ready(s) /\ a # <<>>
         /\ o.op = "push" => o = PushOp(s, "start", Nil) /\ Rest(Tail(a), k)
         /\ o.op = "addTask" => /\ o = AddTaskOp(s, "start", Nil) /\ Is(Tail(a), AddStreamOp(s))
                                /\ Rest(Tail(Tail(a)), k)
         /\ o.op = "addStream" => o = AddStreamOp(s) /\ Rest(Tail(a), k)
  BY DEF Connecting, Is, RefOp, StartOp, PushOp, AddTaskOp, AddStreamOp

\* strm_task_push
LEMMA MainPush ==
  ASSUME Delivering, ExclusiveInv', Push(Main)
  PROVE  Flowing' /\ Hidden
<1>1. /\ Given /\ Tokens /\ ExclusiveInv
  BY DEF Delivering, Flowing
<1>2. PICK a : a = agenda[Main]
  OBVIOUS
<1>3. PICK b : b = agenda'[Main]
  OBVIOUS
<1>4. PICK o : o = Head(a)
  OBVIOUS
<1>5. PICK ops : ops = IF mode[o.s] \in {"killed", "dying"} THEN <<>> ELSE TaskAdd(o.s, o.f, o.d)
  OBVIOUS
<1>6. /\ agenda' = [agenda EXCEPT ![Main] = ops \o Tail(@)] /\ a # <<>> /\ o.op = "push" /\ pc' = pc /\ cur' = cur
  BY <1>2, <1>4, <1>5, Zenon DEF Push, At, Continue
<1>7. /\ program' = program /\ sent' = sent /\ got' = got /\ kind' = kind /\ limit' = limit /\ n' = n
      /\ mode' = mode /\ refcnt' = refcnt /\ tasks' = tasks /\ dst' = dst /\ rest' = rest
  BY DEF Push, historyVars, streamVars
<1>8. ops = <<>> \/ ops = <<AddTaskOp(o.s, o.f, o.d), AddStreamOp(o.s)>>
  BY <1>5 DEF TaskAdd
<1> HIDE <1>5
<1>9. Does(ops)
  BY <1>2, <1>6, <1>7 DEF Does
<1>10. /\ a \in Seq(Ops) /\ Tail(a) \in Seq(Ops) /\ b = ops \o Tail(a) /\ b \in Seq(Ops)
  BY <1>1, <1>2, <1>3, <1>9, DoesFacts
<1>11. PICK k \in Lines(program) :
         /\ Connecting(a, k) /\ \A u \in Streams : mode[u] # "none" <=> u \in Created(program, k)
         /\ program[k].s \in Streams /\ program[k].dst \in Streams /\ k \in 0..Len(program)
         /\ mode[program[k].s] # "none"
  BY <1>2, <1>4, <1>6, <1>10, MainInside
<1>12. PICK s : s = program[k].s
  OBVIOUS
<1>13. KindOf(s) = "seq" /\ Ready(s) /\ o = PushOp(s, "start", Nil) /\ Rest(Tail(a), k) /\ s \in Streams
  BY <1>4, <1>6, <1>11, <1>12, Producing
<1>14. PICK c : c = Tail(a)
  OBVIOUS
<1>15. Rest(c, k) /\ c \in Seq(Ops) /\ b = ops \o c
  BY <1>10, <1>13, <1>14
<1>16. Inside(a, k)
  BY <1>4, <1>6, <1>10, <1>13, OneInside
<1>17. ops = <<>> \/ ops = <<AddTaskOp(s, "start", Nil), AddStreamOp(s)>>
  BY <1>8, <1>13 DEF PushOp
<1> HIDE <1>4, <1>14
<1>18. Inside(b, k) /\ (Rest(b, k) \/ Connecting(b, k))
  <2>1. CASE ops = <<AddTaskOp(s, "start", Nil), AddStreamOp(s)>>
    <3>1. /\ AddTaskOp(s, "start", Nil) \in Ops /\ AddTaskOp(s, "start", Nil).op = "addTask"
          /\ AddStreamOp(s) \in Ops /\ AddStreamOp(s).op = "addStream"
      BY <1>13 DEF Ops, StreamOps, AddTaskOp, AddStreamOp, Funcs, Data
    <3>2. b = <<AddTaskOp(s, "start", Nil), AddStreamOp(s)>> \o c
      BY <1>15, <2>1
    <3>3. /\ Inside(b, k) /\ Is(b, AddTaskOp(s, "start", Nil)) /\ Is(Tail(b), AddStreamOp(s))
          /\ Tail(Tail(b)) = c
      <4>1. PICK p : p = AddTaskOp(s, "start", Nil)
        OBVIOUS
      <4>2. PICK q : q = AddStreamOp(s)
        OBVIOUS
      <4>3. /\ p \in Ops /\ p.op = "addTask" /\ q \in Ops /\ q.op = "addStream" /\ Precede(p, q, c, b)
        BY <3>1, <3>2, <4>1, <4>2 DEF Precede
      <4> HIDE <4>1, <4>2
      <4>4. Rest(c, k) /\ c \in Seq(Ops) /\ k \in Lines(program)
        BY <1>15
      <4>5. Inside(b, k) /\ Is(b, p) /\ Is(Tail(b), q) /\ Tail(Tail(b)) = c
        BY <4>3, <4>4, TwoInside
      <4> QED
        BY <4>1, <4>2, <4>5
    <3>4. Connecting(b, k)
      BY <3>3, <1>12, <1>13, <1>15, Zenon DEF Connecting
    <3> QED
      BY <3>3, <3>4
  <2>2. CASE ops = <<>>
    <3>1. b = c
      BY <1>15, <2>2, Front0
    <3> QED
      BY <3>1, <1>15, RestInside
  <2> QED
    BY <2>1, <2>2, <1>17
<1>19. Tokens'
  BY <1>1, <1>7, SameProgram DEF Tokens
<1> QED
  BY <1>2, <1>3, <1>7, <1>9, <1>11, <1>16, <1>18, <1>19, MainInner

\* strm_task_add, second half
LEMMA MainAddStream ==
  ASSUME Delivering, ExclusiveInv', AddStream(Main)
  PROVE  Flowing' /\ Hidden
<1>1. /\ Given /\ Tokens /\ ExclusiveInv
  BY DEF Delivering, Flowing
<1>2. PICK a : a = agenda[Main]
  OBVIOUS
<1>3. PICK b : b = agenda'[Main]
  OBVIOUS
<1>4. PICK o : o = Head(a)
  OBVIOUS
<1>6. /\ a # <<>> /\ o.op = "addStream"
  BY <1>2, <1>4, Zenon DEF AddStream, At
<1>7. /\ program' = program /\ sent' = sent /\ got' = got /\ kind' = kind /\ limit' = limit /\ n' = n
      /\ mode' = mode /\ refcnt' = refcnt /\ tasks' = tasks /\ dst' = dst /\ rest' = rest
  BY DEF AddStream, historyVars, streamVars
<1>9. Does(<<>>)
  BY <1>7 DEF AddStream, At, Return, Continue, Does
<1>10. /\ a \in Seq(Ops) /\ Tail(a) \in Seq(Ops) /\ b = <<>> \o Tail(a) /\ b \in Seq(Ops)
  BY <1>1, <1>2, <1>3, <1>9, DoesFacts
<1>11. PICK k \in Lines(program) :
         /\ Connecting(a, k) /\ \A u \in Streams : mode[u] # "none" <=> u \in Created(program, k)
         /\ program[k].s \in Streams /\ program[k].dst \in Streams /\ k \in 0..Len(program)
         /\ mode[program[k].s] # "none"
  BY <1>2, <1>4, <1>6, <1>10, MainInside
<1>13. Rest(Tail(a), k)
  BY <1>4, <1>6, <1>11, Producing
<1>14. b = Tail(a)
  BY <1>10, Front0
<1>16. Inside(a, k)
  BY <1>4, <1>6, <1>10, <1>13, OneInside
<1>18. Inside(b, k) /\ Rest(b, k)
  BY <1>10, <1>11, <1>13, <1>14, RestInside
<1>19. Tokens'
  BY <1>1, <1>7, SameProgram DEF Tokens
<1> QED
  BY <1>2, <1>3, <1>7, <1>9, <1>11, <1>16, <1>18, <1>19, MainInner

\* A producer's first task comes into its queue, for nothing comes to a producer.
LEMMA ProducerChannel ==
  ASSUME Given, Typed, program' = program, NEW s \in Streams, KindOf(s) = "seq", NEW z, Channel(s, z),
         NEW x \in Tasks, x.f = "start", x.d = Nil, tasks'[s] = Append(tasks[s], x),
         got' = got, sent' = sent, refcnt' = refcnt, UnRefs(s)' = UnRefs(s)
  PROVE  Channel(s, z)'
<1>1. Ups(s) = {}
  BY LinkTyped DEF Ups
<1>2. Ups(s)' = {}
  BY <1>1, SameProgram
<1>3. Flights(s) = {} /\ Open(s) = {} /\ Flights(s)' = {} /\ Open(s)' = {}
  BY <1>1, <1>2 DEF Flights, Open
<1>5. PICK F, C, G, B : F = Flights(s) /\ C = Open(s) /\ G = Flights(s)' /\ B = Open(s)'
  OBVIOUS
<1>6. F = {} /\ C = {} /\ G = {} /\ B = {}
  BY <1>3, <1>5
<1>7. /\ G \subseteq B
      /\ \A v \in Ups(s) : Brings(x, From(v)) => v \in F /\ v \notin G /\ x.d = Latest(sent[v])
      /\ \A v \in Ups(s) : ~Brings(x, From(v)) => (v \in G <=> v \in F)
      /\ B = C
  BY <1>1, <1>6
<1> QED
  BY <1>5, <1>7, AppendChannel

\* strm_task_add, first half
LEMMA MainAddTask ==
  ASSUME Delivering, ExclusiveInv', AddTask(Main)
  PROVE  Flowing' /\ Hidden
<1>1. /\ Given /\ Tokens /\ ExclusiveInv /\ Typed
  BY DEF Delivering, Flowing, ExclusiveInv
<1>2. PICK a : a = agenda[Main]
  OBVIOUS
<1>3. PICK b : b = agenda'[Main]
  OBVIOUS
<1>4. PICK o : o = Head(a)
  OBVIOUS
<1>5. tasks' = [tasks EXCEPT ![o.s] = Append(@, [f |-> o.f, d |-> o.d])]
  BY <1>2, <1>4, Zenon DEF AddTask
<1>6. /\ a # <<>> /\ o.op = "addTask"
  BY <1>2, <1>4, Zenon DEF AddTask, At
<1>7. /\ program' = program /\ sent' = sent /\ got' = got /\ kind' = kind /\ limit' = limit /\ n' = n
      /\ mode' = mode /\ refcnt' = refcnt /\ dst' = dst /\ rest' = rest
  BY DEF AddTask, historyVars
<1>9. Does(<<>>)
  BY <1>7 DEF AddTask, At, Return, Continue, Does
<1>10. /\ a \in Seq(Ops) /\ Tail(a) \in Seq(Ops) /\ b = <<>> \o Tail(a) /\ b \in Seq(Ops)
  BY <1>1, <1>2, <1>3, <1>9, DoesFacts
<1>11. PICK k \in Lines(program) :
         /\ Connecting(a, k) /\ \A u \in Streams : mode[u] # "none" <=> u \in Created(program, k)
         /\ program[k].s \in Streams /\ program[k].dst \in Streams /\ k \in 0..Len(program)
         /\ mode[program[k].s] # "none"
  BY <1>2, <1>4, <1>6, <1>10, MainInside
<1>12. PICK s : s = program[k].s
  OBVIOUS
<1>13. /\ KindOf(s) = "seq" /\ Ready(s) /\ o = AddTaskOp(s, "start", Nil) /\ s \in Streams /\ mode[s] # "none"
       /\ Is(Tail(a), AddStreamOp(s)) /\ Rest(Tail(Tail(a)), k)
  BY <1>4, <1>6, <1>11, <1>12, Producing
<1>14. b = Tail(a)
  BY <1>10, Front0
<1>15. PICK x : x = [f |-> "start", d |-> Nil]
  OBVIOUS
<1>16. x \in Tasks /\ x.f = "start" /\ x.d = Nil
  BY <1>15 DEF Tasks, Funcs, Data
<1>17. /\ tasks'[s] = Append(tasks[s], x) /\ \A u \in Streams : u # s => tasks'[u] = tasks[u]
       /\ tasks[s] \in Seq(Tasks)
  <2>1. tasks \in [Streams -> Seq(Tasks)]
    BY <1>1 DEF Typed, TypeOK, QueuesOK
  <2>2. o.s = s /\ o.f = "start" /\ o.d = Nil
    BY <1>13 DEF AddTaskOp
  <2> QED
    BY <2>1, <2>2, <1>5, <1>13, <1>15
<1> HIDE <1>4, <1>15
<1>18. Inside(b, k) /\ Connecting(b, k)
  <2>1. Is(b, AddStreamOp(s)) /\ Rest(Tail(b), k)
    BY <1>13, <1>14
  <2>2. b # <<>> /\ Head(b).op = "addStream"
    BY <2>1 DEF Is, AddStreamOp
  <2>3. Inside(b, k)
    BY <2>1, <2>2, <1>10, OneInside
  <2>4. Connecting(b, k)
    BY <2>1, <1>11, <1>12, <1>13, Zenon DEF Connecting
  <2> QED
    BY <2>3, <2>4
<1>19. Inside(a, k)
  <2>1. Head(a).op = "addTask"
    BY <1>2, Zenon DEF AddTask, At
  <2>2. Tail(a) # <<>> /\ Head(Tail(a)).op = "addStream"
    BY <1>13 DEF Is, AddStreamOp
  <2> QED
    BY <2>1, <2>2, <1>6, <1>10, <1>11, <1>13 DEF Inside
<1>20. Tokens'
  <2>1. ASSUME NEW u \in Streams, NEW i \in 1..Len(tasks'[u]), tasks'[u][i].f = "start", tasks'[u][i].d = Nil
        PROVE  KindOf(u) = "seq"
    <3>1. CASE u = s
      BY <3>1, <1>13
    <3>2. CASE u # s
      BY <3>2, <2>1, <1>1, <1>17 DEF Tokens
    <3> QED
      BY <3>1, <3>2
  <2> QED
    BY <2>1, <1>7, SameProgram DEF Tokens
<1>21. ASSUME NEW u \in Streams, NEW z \in {-1, 0, 1}
       PROVE  tasks'[u] = tasks[u] \/ (UnRefs(u)' = UnRefs(u) /\ Channel(u, z) => Channel(u, z)')
  <2>1. CASE u = s
    <3>1. ASSUME UnRefs(s)' = UnRefs(s), Channel(s, z) PROVE Channel(s, z)'
      <4> QED
        BY <3>1, <1>1, <1>7, <1>13, <1>16, <1>17, ProducerChannel
    <3> QED
      BY <2>1, <3>1
  <2>2. CASE u # s
    BY <2>2, <1>17
  <2> QED
    BY <2>1, <2>2
<1>22. \A u \in Streams : tasks'[u] = tasks[u] \/ (Ready(u) /\ mode[u] # "none")
  BY <1>13, <1>17
<1> QED
  BY <1>2, <1>3, <1>7, <1>9, <1>11, <1>18, <1>19, <1>20, <1>21, <1>22, MainInner

\* The k-th step connects u to t, and no later one does.
LEMMA AwaitedNext ==
  ASSUME Given, NEW k \in Lines(program), NEW u, u = program[k].s, NEW t, t = program[k].dst
  PROVE  \A v, x \in Streams : /\ ToCome(v, x, k + 1) => ToCome(v, x, k)
                               /\ ToCome(v, x, k) => ToCome(v, x, k + 1) \/ (v = u /\ x = t)
                               /\ v = u /\ x = t => ToCome(v, x, k) /\ ~ToCome(v, x, k + 1)
<1>1. k \in 1..Len(program) /\ Len(program) \in Nat /\ u \in Streams /\ t \in Streams
  BY ProgramTyped DEF Lines
<1>2. \A i \in Lines(program) : i \in Nat /\ i \in 1..Len(program)
  BY <1>1 DEF Lines
<1>3. ASSUME NEW i \in Lines(program), i >= k + 1 PROVE ~(program[i].s = u /\ program[i].dst = t)
  <2>1. k < i
    BY <1>1, <1>2, <1>3
  <2>2. program[i] # program[k]
    BY <2>1 DEF Given, ReadyToRun, FromTheEnds
  <2>3. program[k] = ConnectOp(u, t)
    BY <1>1, ConnectIs
  <2>4. ASSUME program[i].s = u, program[i].dst = t PROVE FALSE
    <3>1. program[i] = ConnectOp(u, t)
      BY <1>1, <1>2, <2>4, ConnectIs
    <3> QED
      BY <3>1, <2>2, <2>3
  <2> QED
    BY <2>4
<1>4. ASSUME NEW v \in Streams, NEW x \in Streams
      PROVE  /\ ToCome(v, x, k + 1) => ToCome(v, x, k)
             /\ ToCome(v, x, k) => ToCome(v, x, k + 1) \/ (v = u /\ x = t)
             /\ v = u /\ x = t => ToCome(v, x, k) /\ ~ToCome(v, x, k + 1)
  <2>1. \A i \in Lines(program) : (i >= k + 1 => i >= k) /\ (i >= k => i = k \/ i >= k + 1) /\ k >= k
    BY <1>1, <1>2
  <2> QED
    BY <2>1, <1>3 DEF ToCome
<1> QED
  BY <1>4

\* The count of t, one more now, and those still to be counted, one less.
LEMMA CountsOne ==
  ASSUME Given, Typed, NEW t \in Streams, NEW u \in UnRefs(t), UnRefs(t)' = UnRefs(t) \ {u},
         refcnt'[t] = refcnt[t] + 1
  PROVE  Counted(t)
<1>1. IsFiniteSet(UnRefs(t)) /\ Cardinality(UnRefs(t)) \in Nat
  BY UnRefsTyped
<1>2. Cardinality(UnRefs(t) \ {u}) = Cardinality(UnRefs(t)) - 1
  BY <1>1, FS_RemoveElement
<1>3. refcnt[t] \in Int
  BY DEF Typed, TypeOK, StreamsOK
<1>4. PICK c, d : c = Cardinality(UnRefs(t)) /\ d = Cardinality(UnRefs(t))'
  OBVIOUS
<1>5. c \in Nat /\ d = c - 1
  BY <1>1, <1>2, <1>4
<1>6. \A z \in {-1, 0, 1} : refcnt'[t] + d - z = refcnt[t] + c - z
  BY <1>3, <1>5
<1> QED
  BY <1>4, <1>6 DEF Counted

\* The count of the new upstream.
LEMMA MainRef ==
  ASSUME Delivering, ExclusiveInv', Ref(Main)
  PROVE  Flowing' /\ Hidden
<1>1. /\ Given /\ MainOK /\ Awake /\ Tokens /\ ExclusiveInv /\ Typed
  BY DEF Delivering, Flowing, ExclusiveInv
<1>2. PICK a : a = agenda[Main]
  OBVIOUS
<1>3. PICK b : b = agenda'[Main]
  OBVIOUS
<1>4. PICK t : t = Head(a).s
  OBVIOUS
<1>5. refcnt' = [refcnt EXCEPT ![t] = @ + 1] /\ a # <<>> /\ Head(a).op = "ref"
  BY <1>2, <1>4, Zenon DEF Ref, At
<1>6. /\ program' = program /\ sent' = sent /\ got' = got /\ kind' = kind /\ limit' = limit /\ n' = n
      /\ mode' = mode /\ tasks' = tasks /\ dst' = dst /\ rest' = rest
  BY DEF Ref, historyVars
<1>7. Does(<<>>)
  BY <1>6 DEF Ref, At, Return, Continue, Does
<1>8. /\ a \in Seq(Ops) /\ Tail(a) \in Seq(Ops) /\ b = <<>> \o Tail(a) /\ b \in Seq(Ops)
      /\ \A u \in Streams : Steps(u)' = Steps(u)
  BY <1>1, <1>2, <1>3, <1>7, DoesFacts
<1>9. b = Tail(a)
  BY <1>8, Front0
<1>10. PICK k \in Lines(program) :
         /\ Connecting(a, k) /\ \A v \in Streams : mode[v] # "none" <=> v \in Created(program, k)
         /\ program[k].s \in Streams /\ program[k].dst \in Streams /\ k \in 0..Len(program)
         /\ mode[program[k].s] # "none"
  BY <1>2, <1>5, <1>8, MainInside
<1>11. PICK u : u = program[k].s
  OBVIOUS
<1>12. /\ t = program[k].dst /\ Is(a, RefOp(t)) /\ Is(b, StartOp(u)) /\ Rest(Tail(b), k)
       /\ u \in Streams /\ t \in Streams
  BY <1>4, <1>5, <1>9, <1>10, <1>11 DEF Connecting, Is, RefOp, StartOp, PushOp, AddTaskOp, AddStreamOp
<1> HIDE <1>4
<1>13. Pending(a, k)
  BY <1>1, <1>8, <1>9, <1>10, <1>11, <1>12, PendingRef
<1>14. Inside(b, k)
  <2>1. b # <<>> /\ Head(b).op = "start"
    BY <1>12 DEF Is, StartOp
  <2> QED
    BY <2>1, <1>8, <1>10, <1>12, OneInside
<1>15. \A v, x \in Streams : /\ UnRef(v, x) <=> ToCome(v, x, k)
                             /\ UnRef(v, x)' <=> ToCome(v, x, k + 1)
  <2>1. \A v, x \in Streams : Uncounted(a, v, x) <=> ToCome(v, x, k)
    BY <1>13 DEF Pending
  <2>2. \A v, x \in Streams : Uncounted(b, v, x) <=> ToCome(v, x, k + 1)
    BY <1>1, <1>14, InsideFacts
  <2> QED
    BY <2>1, <2>2, <1>2, <1>3, UnRefIs, UnRefIsNext
<1>16. \A v, x \in Streams : /\ UnRef(v, x)' => UnRef(v, x)
                             /\ UnRef(v, x) => UnRef(v, x)' \/ (v = u /\ x = t)
                             /\ v = u /\ x = t => UnRef(v, x) /\ ~UnRef(v, x)'
  BY <1>1, <1>11, <1>12, <1>15, AwaitedNext
<1>17. /\ \A v, x : Link(v, x)' <=> Link(v, x)
       /\ \A x : Ups(x)' = Ups(x)
       /\ \A x : Touched(x)' <=> Touched(x)
       /\ \A v : KindOf(v)' = KindOf(v)
       /\ Lines(program)' = Lines(program)
  BY <1>6, SameProgram
<1>18. \A x \in Streams : Ready(x) => Ready(x)'
  BY <1>16, <1>17 DEF Ready
<1>19. ~Ready(t)
  BY <1>12, <1>16 DEF Ready
<1>20. Steps(t) = <<>>
  BY <1>1, <1>12, <1>19 DEF Awake
<1>21. refcnt'[t] = refcnt[t] + 1 /\ \A x \in Streams : x # t => refcnt'[x] = refcnt[x]
  BY <1>1, <1>5, <1>12 DEF Typed, TypeOK, StreamsOK
<1>22. ASSUME NEW x \in Streams PROVE Counted(x)
  <2>1. CASE x = t
    <3>1. u \in UnRefs(t)
      BY <1>10, <1>11, <1>12, <1>16, ProgramTyped, <1>1 DEF UnRefs, Ups, Link, Lines
    <3>2. UnRefs(t)' = UnRefs(t) \ {u}
      BY <1>12, <1>16, <1>17 DEF UnRefs, Ups
    <3> QED
      BY <2>1, <3>1, <3>2, <1>1, <1>12, <1>21, CountsOne
  <2>2. CASE x # t
    <3>1. UnRefs(x)' = UnRefs(x)
      BY <2>2, <1>16, <1>17 DEF UnRefs, Ups
    <3> QED
      BY <2>2, <3>1, <1>21 DEF Counted
  <2> QED
    BY <2>1, <2>2
<1>23. ASSUME NEW x \in Streams PROVE Builds(x)
  BY <1>6, <1>8, <1>20, <1>21 DEF Builds, Local
<1>24. MainOK'
  <2>1. Connecting(b, k)'
    <3>1. Rest(Tail(b), k)'
      BY <1>6, <1>12 DEF Rest
    <3> QED
      BY <3>1, <1>6, <1>10, <1>11, <1>12, <1>17 DEF Connecting, Is
  <2>2. MainAt(k)'
    BY <2>1, <1>3, <1>6, <1>10 DEF MainAt
  <2> QED
    BY <2>2, <1>6, <1>10 DEF MainOK
<1>25. Kinded' /\ Linked' /\ Apart' /\ Awake'
  <2>1. \A v, x \in Streams : InSeq(ConnectOp(v, x), agenda'[Main]) <=> InSeq(ConnectOp(v, x), agenda[Main])
    <3>1. a # <<>> /\ Head(a).op # "connect"
      BY <1>5
    <3>2. \A v, x : InSeq(ConnectOp(v, x), a) <=> InSeq(ConnectOp(v, x), Tail(a))
      BY <3>1, <1>8, ConsConnects
    <3> QED
      BY <3>2, <1>2, <1>3, <1>9
  <2> QED
    BY <2>1, <1>6, <1>8, <1>18, MainLinks
<1>26. Tokens'
  BY <1>1, <1>6, <1>17 DEF Tokens
<1> QED
  BY <1>6, <1>22, <1>23, <1>24, <1>25, <1>26, BuildKeeps

\* The main thread does a step, or nobody does.
LEMMA MainMoves ==
  ASSUME Delivering, ExclusiveInv', MainStep
  PROVE  Flowing' /\ Hidden
<1>1. Given /\ MainOK /\ ExclusiveInv /\ NotBorn
  BY DEF Delivering, Flowing, Places
<1>2. Main \in Threads /\ Main \notin Workers /\ Workers \subseteq Threads /\ agenda \in [Threads -> Seq(Ops)]
      /\ pc \in [Threads -> Labels]
  BY <1>1, SchedulerAssumption DEF ExclusiveInv, Typed, TypeOK, AgendasOK, ThreadsOK, Threads
<1>3. CASE Step(Main)
  <2>1. PICK a : a = agenda[Main]
    OBVIOUS
  <2>2. a \in Seq(Ops) /\ a # <<>>
    BY <1>2, <1>3, <2>1
       DEF Step, StreamNew, Connect, Ref, Start, Push, AddTask, AddStream, Emit, DropDst, EmitRest, TerminationCheck,
           Close, Kill, CloseDst, CloseRest, CountDown, SeqNext, TakeNext, After, At
  <2>3. Head(a).op \in {"new", "connect", "ref", "start", "push", "addTask", "addStream"}
    <3>1. CASE Head(a).op \notin {"new", "connect"}
      <4>1. \E k \in Lines(program) : Connecting(a, k)
        BY <2>1, <2>2, <3>1, MainInside
      <4> QED
        BY <4>1 DEF Connecting, Is, RefOp, StartOp, PushOp, AddTaskOp, AddStreamOp
    <3> QED
      BY <3>1
  <2>4. StreamNew(Main) \/ Connect(Main) \/ Ref(Main) \/ Start(Main) \/ Push(Main) \/ AddTask(Main) \/ AddStream(Main)
    BY <1>3, <2>1, <2>3
       DEF Step, Emit, DropDst, EmitRest, TerminationCheck,
           Close, Kill, CloseDst, CloseRest, CountDown, SeqNext, TakeNext, After, At
  <2> QED
    BY <2>4, MainNew, MainConnect, MainRef, MainStart, MainPush, MainAddTask, MainAddStream
<1>4. CASE EnterLoop \/ LeaveLoop
  <2>1. /\ program' = program /\ agenda' = agenda /\ cur' = cur
        /\ kind' = kind /\ limit' = limit /\ n' = n /\ mode' = mode /\ dst' = dst /\ rest' = rest
        /\ refcnt' = refcnt /\ sent' = sent /\ got' = got /\ tasks' = tasks
    BY <1>4 DEF EnterLoop, LeaveLoop, streamVars, historyVars
  <2>2. \A w \in Workers : pc'[w] = pc[w] \/ (~started /\ pc'[w] = "get")
    BY <1>2, <1>4 DEF EnterLoop, LeaveLoop, GoTo
  <2>3. \A u \in Streams : Steps(u)' = Steps(u)
    BY <1>1, <2>1, <2>2, MainSteps
  <2>4. Elsewhere
    BY <2>1, <2>3 DEF Elsewhere
  <2> QED
    BY <2>4, ApartKeeps
<1> QED
  BY <1>3, <1>4 DEF MainStep

LEMMA StutterKeeps ==
  ASSUME Delivering, ExclusiveInv', UNCHANGED vars
  PROVE  Flowing' /\ Hidden
<1>1. ExclusiveInv /\ NotBorn
  BY DEF Delivering, Places
<1>2. /\ program' = program /\ agenda' = agenda /\ cur' = cur /\ pc' = pc
      /\ kind' = kind /\ limit' = limit /\ n' = n /\ mode' = mode /\ dst' = dst /\ rest' = rest
      /\ refcnt' = refcnt /\ sent' = sent /\ got' = got /\ tasks' = tasks
  BY DEF vars, streamVars, historyVars, threadVars
<1>3. \A u \in Streams : Steps(u)' = Steps(u)
  BY <1>1, <1>2, MainSteps
<1>4. Elsewhere
  BY <1>2, <1>3 DEF Elsewhere
<1> QED
  BY <1>4, ApartKeeps

\* Every step keeps the invariant.
LEMMA NextKeeps ==
  ASSUME Delivering, [Next]_vars
  PROVE  Delivering' /\ Moves
<1>1. ExclusiveInv' /\ Places'
  BY ExclusiveStep, PlacesStep DEF Delivering, ExclusiveInv
<1>2. Flowing' /\ Moves
  <2>1. CASE MainStep
    BY <1>1, <2>1, MainMoves DEF Moves
  <2>2. ASSUME NEW w \in Workers, WorkerStep(w) PROVE Flowing' /\ Moves
    BY <1>1, <2>2, WorkerMoves
  <2>3. CASE UNCHANGED vars
    BY <1>1, <2>3, StutterKeeps DEF Moves
  <2> QED
    BY <2>1, <2>2, <2>3 DEF Next, Ended
<1> QED
  BY <1>1, <1>2 DEF Delivering

\* Before the first step everything is still to be linked, and nothing has come.
LEMMA InitChannel ==
  ASSUME Init, Given, NEW t \in Streams, \A u \in Streams : Steps(u) = <<>>,
         \A u \in Ups(t) : UnRef(u, t)
  PROVE  Channel(t, 0)
<1>1. IsFiniteSet(Ups(t)) /\ Cardinality(Ups(t)) \in Nat
  BY UpsFinite
<1>2. \A u \in Ups(t) : u \in Streams /\ sent[u] = <<>> /\ mode[u] = "none"
  BY DEF Ups, Init
<1>3. \A u \in Ups(t) : Local(u).a = <<>> /\ Local(u).mode = "none"
  BY <1>2 DEF Local
<1>4. Flights(t) = {}
  BY <1>3, DuesNone DEF Flights
<1>5. Open(t) = Ups(t)
  BY <1>3 DEF Open, Opens, Gone
<1>6. UnRefs(t) = Ups(t)
  BY DEF UnRefs
<1>7. tasks[t] = <<>> /\ got[t] = <<>> /\ refcnt[t] = 0
  BY DEF Init
<1>8. refcnt[t] + Cardinality(UnRefs(t)) - 0 = Cardinality(Ups(t))
  BY <1>1, <1>6, <1>7
<1>9. PICK S : S = [u \in Ups(t) |-> sent[u]]
  OBVIOUS
<1>10. PICK E : E = [u \in Ups(t) |-> From(u)]
  OBVIOUS
<1>11. \A u \in Ups(t) : S[u] = <<>>
  BY <1>2, <1>9
<1>12. Chan(Ups(t), E, <<>>, <<>>, S, {}, Ups(t), Cardinality(Ups(t)))
  BY <1>1, <1>11, ChanInit
<1> QED
  BY <1>4, <1>5, <1>7, <1>8, <1>9, <1>10, <1>12 DEF Channel

LEMMA InitKeeps ==
  ASSUME Init, Given
  PROVE  Delivering
<1>1. Main \in Threads /\ Main \notin Workers /\ Workers \subseteq Threads /\ Len(program) \in Nat /\ program \in Seq(Ops)
  <2>1. program \in Scripts /\ Scripts \subseteq Seq(ScriptOps) /\ ScriptOps \subseteq Ops
    BY SchedulerAssumption DEF Given, ScriptOps
  <2>2. program \in Seq(Ops) /\ Len(program) \in Nat
    BY <2>1
  <2> QED
    BY <2>2, SchedulerAssumption DEF Threads
<1>2. \A w \in Workers : pc[w] = "unborn" /\ agenda[w] = <<>>
  BY <1>1 DEF Init
<1>3. agenda[Main] = program
  BY <1>1 DEF Init
<1>4. Places
  BY <1>2 DEF Places, IdleAgendas, NotBorn, FlagHeld, Init
<1>5. ExclusiveInv
  <2>1. Typed
    BY InitTyped
  <2> QED
    BY <2>1, <1>2 DEF ExclusiveInv, Flagged, Exclusive, Executing
<1>6. \A s \in Streams : Steps(s) = <<>>
  BY <1>2, StepsIdle
<1>7. \A s \in Streams : /\ mode[s] = "none" /\ sent[s] = <<>> /\ got[s] = <<>> /\ tasks[s] = <<>> /\ kind[s] = "map"
                         /\ dst[s] = NoStream /\ rest[s] = <<>>
  BY DEF Init
<1>8. \A s \in Streams : Len(sent[s]) = 0 /\ Len(got[s]) = 0 /\ Len(tasks[s]) = 0 /\ Len(rest[s]) = 0
  BY <1>7, EmptyLen
<1>9. MainOK
  <2>1. 0 \in 0..Len(program)
    BY <1>1
  <2>2. Rest(agenda[Main], 0)
    BY <1>1, <1>3 DEF Rest
  <2>3. \A s : s \notin Created(program, 0)
    BY <2>1, CreatedBy
  <2>4. MainAt(0)
    BY <2>2, <2>3, <1>7 DEF MainAt
  <2> QED
    BY <2>1, <2>4 DEF MainOK
<1>10. Kinded
  BY <1>7 DEF Kinded
<1>11. \A u, t \in Streams : Link(u, t) => InSeq(ConnectOp(u, t), agenda[Main])
  <2> SUFFICES ASSUME NEW u \in Streams, NEW t \in Streams, Link(u, t)
               PROVE  InSeq(ConnectOp(u, t), program)
    BY <1>3
  <2>1. PICK i \in Lines(program) : program[i].s = u /\ program[i].dst = t
    BY DEF Link
  <2>2. i \in 1..Len(program)
    BY DEF Lines
  <2>3. program[i] = ConnectOp(u, t)
    BY <2>1, <2>2, ConnectIs
  <2> QED
    BY <2>2, <2>3 DEF InSeq
<1>12. Linked
  <2>1. \A u, t \in Streams : ~Joined(u, t)
    BY <1>7, <1>8, NullAssumption DEF Joined, InSeq
  <2> QED
    BY <2>1, <1>11 DEF Linked
<1>13. Apart
  BY <1>8 DEF Apart
<1>14. Awake
  BY <1>6, <1>7 DEF Awake
<1>15. Tokens
  BY <1>8 DEF Tokens
<1>16. Origins
  <2>1. \A s \in Streams : \A i : i \notin 1..Len(sent[s]) /\ i \notin 1..Len(got[s])
    BY <1>8
  <2> QED
    BY <2>1 DEF Origins
<1>17. Lasts
  BY <1>7 DEF Lasts
<1>18. Ends
  <2>1. Len(<<>>) = 0
    BY EmptyLen
  <2> QED
    BY <2>1, <1>6 DEF Ends, OwnCloses
<1>19. Phased
  <2> SUFFICES ASSUME NEW s \in Streams
               PROVE  Phase(Local(s), s, 0) /\ Channel(s, 0)
    BY DEF Phased
  <2>1. PICK L : L = Local(s)
    OBVIOUS
  <2>2. L.a = <<>> /\ L.mode = "none" /\ L.kind = "map" /\ Len(L.sent) = 0 /\ Len(L.got) = 0
    BY <2>1, <1>6, <1>7, <1>8 DEF Local
  <2> HIDE <2>1
  <2>3. Sums(L, 0, 0)
    BY <2>2 DEF Sums
  <2>4. Phase(L, s, 0)
    BY <2>2, <2>3 DEF Phase
  <2>5. Channel(s, 0)
    BY <1>6, <1>11, InitChannel DEF Ups, UnRef
  <2> USE <2>1
  <2> QED
    BY <2>4, <2>5
<1> QED
  BY <1>4, <1>5, <1>9, <1>10, <1>12, <1>13, <1>14, <1>15, <1>16, <1>17, <1>18, <1>19 DEF Delivering, Flowing

-----------------------------------------------------------------------------
(* What Delivery sees of the scheduler.                                    *)

\* Nobody but the execution of s has a close of s to pass on.
PastsAgree == \A s \in Streams : Past(s) <=> Gone(Local(s), s)

\* The main thread passes no close on and counts no stream down.
LEMMA MainCloses ==
  ASSUME Delivering, NEW a, a = agenda[Main], a \in Seq(Ops), NEW i \in 1..Len(a)
  PROVE  a[i].op \notin {"closeDst", "countDown"}
<1>1. Given /\ MainOK
  BY DEF Delivering, Flowing
<1>2. ASSUME NEW k \in 0..Len(program), NEW c \in Seq(Ops), Rest(c, k), NEW j \in 1..Len(c)
      PROVE  c[j].op \notin {"closeDst", "countDown"}
  <2>1. Len(c) \in Nat /\ Len(program) \in Nat /\ c[j] = program[k + j] /\ Len(c) = Len(program) - k
    BY <1>1, <1>2, ProgramTyped DEF Rest
  <2>2. k + j \in 1..Len(program)
    BY <2>1
  <2> QED
    BY <1>1, <2>1, <2>2, ProgramTyped
<1>3. ASSUME NEW k \in 0..Len(program), NEW c \in Seq(Ops), c # <<>>, Head(c).op \notin {"closeDst", "countDown"},
             \A j \in 1..Len(Tail(c)) : Tail(c)[j].op \notin {"closeDst", "countDown"}, NEW j \in 1..Len(c)
      PROVE  c[j].op \notin {"closeDst", "countDown"}
  <2>1. /\ Tail(c) \in Seq(Ops) /\ Len(c) \in Nat \ {0} /\ Head(c) = c[1] /\ Len(Tail(c)) = Len(c) - 1
        /\ \A h \in 1..Len(Tail(c)) : Tail(c)[h] = c[h + 1]
    BY <1>3, HeadTail
  <2>2. CASE j = 1
    BY <2>1, <2>2, <1>3
  <2>3. CASE j # 1
    <3>1. j - 1 \in 1..Len(Tail(c)) /\ (j - 1) + 1 = j
      BY <2>1, <2>3
    <3> QED
      BY <2>1, <3>1, <1>3
  <2> QED
    BY <2>2, <2>3
<1>4. PICK k \in 0..Len(program) : MainAt(k)
  BY <1>1 DEF MainOK
<1>5. CASE Rest(a, k)
  BY <1>2, <1>5
<1>6. CASE a # <<>> /\ Head(a).op \notin {"closeDst", "countDown"} /\ Rest(Tail(a), k)
  <2>1. Tail(a) \in Seq(Ops)
    BY <1>6, HeadTail
  <2>2. \A j \in 1..Len(Tail(a)) : Tail(a)[j].op \notin {"closeDst", "countDown"}
    BY <2>1, <1>2, <1>6
  <2> QED
    BY <2>2, <1>3, <1>6
<1>7. CASE a # <<>> /\ Head(a).op \notin {"closeDst", "countDown"} /\ Tail(a) # <<>> /\ Head(Tail(a)).op \notin {"closeDst", "countDown"} /\ Rest(Tail(Tail(a)), k)
  <2>1. Tail(a) \in Seq(Ops)
    BY <1>7, HeadTail
  <2>2. Tail(Tail(a)) \in Seq(Ops)
    BY <1>7, <2>1, HeadTail
  <2>3. \A j \in 1..Len(Tail(Tail(a))) : Tail(Tail(a))[j].op \notin {"closeDst", "countDown"}
    BY <2>2, <1>2, <1>7
  <2>4. \A j \in 1..Len(Tail(a)) : Tail(a)[j].op \notin {"closeDst", "countDown"}
    BY <2>1, <2>3, <1>3, <1>7
  <2> QED
    BY <2>4, <1>3, <1>7
<1> QED
  BY <1>4, <1>5, <1>6, <1>7 DEF MainAt, Connecting, Is, RefOp, StartOp, PushOp, AddTaskOp, AddStreamOp

LEMMA PastIs == Delivering => PastsAgree
<1> SUFFICES ASSUME Delivering, NEW s \in Streams
             PROVE  (\E t \in Threads : \E i \in 1..Len(agenda[t]) : agenda[t][i] = CloseDstOp(s)) <=> Closes(Steps(s), s)
  BY DEF PastsAgree, Past, Gone, Local
<1>1. ExclusiveInv /\ IdleAgendas /\ Ends
  BY DEF Delivering, Flowing, Places
<1>2. agenda \in [Threads -> Seq(Ops)] /\ Main \in Threads /\ Threads = Workers \union {Main}
  BY <1>1 DEF ExclusiveInv, Typed, TypeOK, AgendasOK, Threads
<1>3. ASSUME NEW t \in Threads, NEW i \in 1..Len(agenda[t]), agenda[t][i] = CloseDstOp(s)
      PROVE  Closes(Steps(s), s)
  <2>1. agenda[t][i].op = "closeDst" /\ agenda[t][i].s = s
    BY <1>3 DEF CloseDstOp
  <2>2. t # Main
    <3>1. agenda[Main] \in Seq(Ops)
      BY <1>2
    <3>2. \A j \in 1..Len(agenda[Main]) : agenda[Main][j].op \notin {"closeDst", "countDown"}
      BY <3>1, MainCloses
    <3> QED
      BY <2>1, <3>2
  <2>3. t \in Workers /\ Len(agenda[t]) # 0
    BY <1>2, <2>2
  <2>4. agenda[t] # <<>>
    BY <2>3, EmptyLen
  <2>5. pc[t] = "run"
    BY <1>1, <2>3, <2>4 DEF IdleAgendas
  <2>6. PICK v : v = cur[t]
    OBVIOUS
  <2>7. v \in Streams /\ Steps(v) = agenda[t]
    BY <1>1, <2>3, <2>5, <2>6, StepsAre
  <2>8. s = v
    BY <1>1, <2>1, <2>7 DEF Ends, OwnCloses
  <2> QED
    BY <1>3, <2>7, <2>8 DEF Closes
<1>4. ASSUME Closes(Steps(s), s)
      PROVE  \E t \in Threads : \E i \in 1..Len(agenda[t]) : agenda[t][i] = CloseDstOp(s)
  <2>1. PICK w \in Workers : pc[w] = "run" /\ cur[w] = s
    <3>1. Steps(s) # <<>>
      BY <1>4, ClosesNone
    <3> QED
      BY <3>1, StepsIdle
  <2>2. Steps(s) = agenda[w]
    BY <1>1, <2>1, StepsAre
  <2> QED
    BY <1>2, <1>4, <2>2 DEF Closes
<1> QED
  BY <1>3, <1>4

LEMMA PastIsNext == Delivering' => PastsAgree'
  BY PastIs, PTL

\* The streams and links of the program.
LEMMA SeesLinks ==
  ASSUME Given
  PROVE  /\ \A u, t : <<u, t>> \in Channels!Links <=> Link(u, t)
         /\ Channels!Declared = Created(program, Len(program))
         /\ \A s : Channels!Stream(s) = Declaration(program, s)
<1>1. program \in Seq(Ops) /\ Len(program) \in Nat /\ DOMAIN program = 1..Len(program)
  <2>1. program \in Scripts /\ Scripts \subseteq Seq(ScriptOps) /\ ScriptOps \subseteq Ops
    BY SchedulerAssumption DEF Given, ScriptOps
  <2> QED
    BY <2>1
<1>2. Channels!Range(program) = {program[i] : i \in 1..Len(program)}
  BY <1>1 DEF Channels!Range
<1>3. ASSUME NEW u, NEW t PROVE <<u, t>> \in Channels!Links <=> Link(u, t)
  BY <1>2 DEF Channels!Links, Link, Lines
<1>4. Channels!News = {program[i] : i \in {j \in 1..Len(program) : program[j].op = "new"}}
  BY <1>2 DEF Channels!News
<1>5. Channels!Declared = Created(program, Len(program))
  BY <1>4 DEF Channels!Declared, Created
<1>6. \A s : Channels!Stream(s) = Declaration(program, s)
  BY <1>4 DEF Channels!Stream, Declaration
<1> QED
  BY <1>3, <1>5, <1>6

LEMMA SeesStreams ==
  ASSUME Given
  PROVE  /\ \A s \in Streams : Channels!Upstreams(s) = Ups(s)
         /\ \A s, t : t \in Channels!Downstreams(s) <=> Link(s, t)
         /\ \A s : Channels!Stream(s).kind = KindOf(s) /\ Channels!Stream(s).limit = LimitOf(s)
<1>1. /\ \A u, t : <<u, t>> \in Channels!Links <=> Link(u, t)
      /\ Channels!Declared = Created(program, Len(program))
      /\ \A s : Channels!Stream(s) = Declaration(program, s)
  BY SeesLinks
<1>2. \A u, t : Link(u, t) => u \in Streams /\ u \in Channels!Declared /\ t \in Channels!Declared
  BY <1>1, LinkTyped
<1>3. \A s \in Streams : Channels!Upstreams(s) = Ups(s)
  BY <1>1, <1>2 DEF Channels!Upstreams, Ups
<1>4. \A s, t : t \in Channels!Downstreams(s) <=> Link(s, t)
  BY <1>1, <1>2 DEF Channels!Downstreams
<1> QED
  BY <1>1, <1>3, <1>4 DEF KindOf, KindIn, LimitOf

\* Delivery counts as the scheduler does.
LEMMA SameCardinality ==
  ASSUME NEW S
  PROVE  Channels!Cardinality(S) = Cardinality(S)
BY Zenon DEF Channels!Cardinality, Cardinality

\* What has come from an upstream.
LEMMA SeesReceived ==
  ASSUME Given, Typed, Origins, NEW s \in Streams, NEW u \in Ups(s)
  PROVE  Channels!Received(u, s) = Count(got[s], From(u))
<1>1. got[s] \in Seq(Data) /\ sent[u] \in Seq(Data)
  BY DEF Typed, TypeOK, HistoryOK, Ups
<1>2. DOMAIN got[s] = 1..Len(got[s]) /\ DOMAIN sent[u] = 1..Len(sent[u])
  BY <1>1
<1>3. \A i \in 1..Len(got[s]) : got[s][i] \in Channels!Range(sent[u]) <=> got[s][i] \in From(u)
  BY <1>2 DEF Channels!Range, Origins, InSeq, Ups
<1>4. PICK A : A = {k \in DOMAIN got[s] : got[s][k] \in Channels!Range(sent[u])}
  OBVIOUS
<1>5. PICK B : B = {j \in 1..Len(got[s]) : got[s][j] \in From(u)}
  OBVIOUS
<1>6. A = B
  BY <1>2, <1>3, <1>4, <1>5, Zenon
<1>7. Channels!Received(u, s) = Cardinality(A)
  <2>1. Channels!Received(u, s) = Channels!Cardinality(A)
    BY <1>4, Zenon DEF Channels!Received
  <2> QED
    BY <2>1, SameCardinality, Zenon
<1>8. Count(got[s], From(u)) = Cardinality(B)
  BY <1>5, Zenon DEF Count
<1> QED
  BY <1>6, <1>7, <1>8, Zenon

LEMMA SeesOwed ==
  ASSUME Given, Kinded, NEW s \in Streams, mode[s] # "none"
  PROVE  Channels!Owed(s) = Owes(Local(s)) /\ (KindOf(s) \in {"map", "take", "sort"} => Channels!Owed(s) = Len(got[s]))
<1>1. Channels!Stream(s).kind = KindOf(s) /\ kind[s] = KindOf(s)
  BY SeesStreams DEF Kinded
<1>2. Local(s).kind = kind[s] /\ Local(s).got = got[s]
  BY DEF Local
<1> QED
  BY <1>1, <1>2 DEF Channels!Owed, Owes

\* The streams that are closed, and that have ended, for Delivery.
Shut == {s \in Streams : mode[s] \in {"dying", "killed"}}
Over == {s \in Streams : Past(s)}

Seen == \A s \in Streams : (s \in Shut <=> ~Live(mode[s])) /\ (s \in Over <=> Gone(Local(s), s))

LEMMA SeenIs == Delivering => Seen
<1> SUFFICES ASSUME Delivering, NEW s \in Streams
             PROVE  (s \in Shut <=> ~Live(mode[s])) /\ (s \in Over <=> Gone(Local(s), s))
  BY DEF Seen
<1>1. Past(s) <=> Gone(Local(s), s)
  BY PastIs DEF PastsAgree
<1> QED
  BY <1>1 DEF Shut, Over, Live

LEMMA SeenNext == Delivering' => Seen'
BY SeenIs, PTL

\* What is closed and what has ended changes as the modes do.
LEMMA SeenSets ==
  ASSUME Delivering, Delivering'
  PROVE  /\ \A s \in Streams : (s \in Shut <=> ~Live(mode[s])) /\ (s \in Over <=> Gone(Local(s), s))
         /\ \A s \in Streams : (s \in Shut' <=> ~Live(mode'[s])) /\ (s \in Over' <=> Gone(Local(s)', s))
         /\ Shut \subseteq Streams /\ Over \subseteq Streams /\ Shut' \subseteq Streams /\ Over' \subseteq Streams
<1>1. Seen /\ Seen'
  BY SeenIs, SeenNext
<1> QED
  BY <1>1 DEF Seen, Shut, Over

\* What exists is declared.
LEMMA SeesDeclared ==
  ASSUME Delivering, NEW s \in Streams, mode[s] # "none"
  PROVE  s \in Channels!Declared
<1>1. Given /\ MainOK
  BY DEF Delivering, Flowing
<1>2. PICK k \in 0..Len(program) : MainAt(k)
  BY <1>1 DEF MainOK
<1>3. Len(program) \in Nat
  <2>1. program \in Scripts /\ Scripts \subseteq Seq(ScriptOps)
    BY <1>1, SchedulerAssumption DEF Given
  <2> QED
    BY <2>1
<1>4. PICK i \in 1..k : program[i].op = "new" /\ program[i].s = s
  BY <1>1, <1>2, CreatedBy DEF MainAt
<1>5. i \in 1..Len(program) /\ Len(program) \in 0..Len(program)
  BY <1>3, <1>4
<1>6. s \in Created(program, Len(program))
  BY <1>1, <1>4, <1>5, CreatedBy
<1> QED
  BY <1>1, <1>6, SeesLinks

\* A step that Delivery does not see.
LEMMA SeesNothing ==
  ASSUME Delivering, Delivering', Hidden
  PROVE  UNCHANGED Channels!vars
<1>1. Shut' = Shut /\ Over' = Over
  BY SeenSets DEF Hidden
<1> QED
  BY <1>1 DEF Hidden, Channels!vars, Shut, Over

\* An emission.
LEMMA SeesSends ==
  ASSUME Delivering, Delivering', NEW s \in Streams, Sends(s)
  PROVE  Channels!Next
<1>1. Given /\ Kinded
  BY DEF Delivering, Flowing
<1>2. /\ s \in Channels!Declared /\ mode[s] # "none" /\ program' = program /\ got' = got
  BY SeesDeclared DEF Sends
<1>3. PICK d : NextOf(s, d) /\ sent' = [sent EXCEPT ![s] = Append(@, d)]
  BY DEF Sends
<1>4. Shut' = Shut /\ Over' = Over
  BY SeenSets DEF Sends
<1>5. Channels!Stream(s).kind = KindOf(s) /\ Channels!Stream(s).limit = LimitOf(s)
  BY <1>1, SeesStreams
<1>6. CASE KindOf(s) = "seq"
  <2>1. /\ Live(mode[s]) /\ d = <<s, Len(sent[s]) + 1>>
        /\ LimitOf(s) > 0 => Len(sent[s]) < LimitOf(s)
    BY <1>3, <1>6 DEF NextOf
  <2>2. s \notin Shut
    BY <2>1, SeenSets
  <2>3. sent' = [sent EXCEPT ![s] = Append(@, <<s, Len(@) + 1>>)]
    BY <1>3, <2>1
  <2>4. Channels!Generate(s)
    BY <1>2, <1>4, <1>5, <1>6, <2>1, <2>2, <2>3 DEF Channels!Generate, Shut, Over
  <2> QED
    BY <1>2, <2>4 DEF Channels!Next
<1>7. CASE KindOf(s) # "seq"
  <2>1. /\ ~Gone(Local(s), s) /\ d = got[s][Len(sent[s]) + 1] /\ Len(sent[s]) < Owes(Local(s))
        /\ KindOf(s) \in {"sort", "reduce"} => ~Live(mode[s])
    BY <1>3, <1>7 DEF NextOf
  <2>2. s \notin Over /\ (KindOf(s) \in {"sort", "reduce"} => s \in Shut)
    BY <2>1, SeenSets
  <2>3. sent' = [sent EXCEPT ![s] = Append(@, got[s][Len(@) + 1])]
    BY <1>3, <2>1
  <2>4. Len(sent[s]) < Channels!Owed(s)
    BY <1>1, <1>2, <2>1, SeesOwed
  <2>5. Channels!Forward(s)
    BY <1>2, <1>4, <1>5, <2>2, <2>3, <2>4 DEF Channels!Forward, Shut, Over
  <2> QED
    BY <1>2, <2>5 DEF Channels!Next
<1> QED
  BY <1>6, <1>7

\* An invocation.
LEMMA SeesInvoked ==
  ASSUME Delivering, Delivering', NEW s \in Streams, Invoked(s)
  PROVE  Channels!Next
<1>1. Given /\ Typed /\ Origins
  BY DEF Delivering, Flowing, ExclusiveInv
<1>2. /\ s \in Channels!Declared /\ program' = program /\ sent' = sent /\ Live(mode[s])
  BY SeesDeclared DEF Invoked
<1>3. PICK u \in Ups(s) : \E d :
        /\ Count(got[s], From(u)) < Len(sent[u]) /\ d = sent[u][Count(got[s], From(u)) + 1]
        /\ got' = [got EXCEPT ![s] = Append(@, d)]
  BY DEF Invoked
<1>4. Link(u, s) /\ u \in Streams
  BY <1>3 DEF Ups
<1>5. <<u, s>> \in Channels!Links /\ u \in Channels!Declared
  BY <1>1, <1>4, SeesLinks, LinkTyped
<1>6. Channels!Received(u, s) = Count(got[s], From(u))
  BY <1>1, <1>3, SeesReceived
<1>7. Shut' = Shut /\ Over' = Over
  BY SeenSets DEF Invoked
<1>8. s \notin Shut
  BY <1>2, SeenSets
<1>9. /\ Channels!Received(u, s) < Len(sent[u])
      /\ got' = [got EXCEPT ![s] = Append(@, sent[u][Channels!Received(u, s) + 1])]
  BY <1>3, <1>6
<1>10. Channels!Invoke(u, s)
  BY <1>2, <1>5, <1>7, <1>8, <1>9 DEF Channels!Invoke, Shut, Over
<1> QED
  BY <1>2, <1>5, <1>10 DEF Channels!Next

\* A stream is closed.
LEMMA SeesClosed ==
  ASSUME Delivering, Delivering', NEW s \in Streams, Closed(s)
  PROVE  Channels!Next
<1>1. Given /\ Typed /\ Origins /\ Kinded
  BY DEF Delivering, Flowing, ExclusiveInv
<1>2. /\ s \in Channels!Declared /\ mode[s] # "none" /\ program' = program /\ sent' = sent /\ got' = got
      /\ Live(mode[s]) /\ ~Live(mode'[s]) /\ Enough(s)
  BY SeesDeclared DEF Closed
<1>3. Shut' = Shut \union {s} /\ Over' = Over /\ s \notin Shut
  BY <1>2, SeenSets DEF Closed
<1>4. Channels!Stream(s).kind = KindOf(s) /\ Channels!Stream(s).limit = LimitOf(s)
  BY <1>1, SeesStreams
<1>5. KindOf(s) \in {"map", "take"} => Len(sent[s]) = Channels!Owed(s)
  BY <1>1, <1>2, SeesOwed DEF Enough
<1>6. Channels!Exhausted(s) \/ Channels!Satisfied(s) \/ Channels!Unheard(s)
  <2>1. CASE KindOf(s) # "seq" /\ \A u \in Ups(s) : Gone(Local(u), u) /\ Count(got[s], From(u)) = Len(sent[u])
    <3>1. Channels!Upstreams(s) = Ups(s) /\ Ups(s) \subseteq Streams
      BY <1>1, SeesStreams DEF Ups
    <3>2. Ups(s) \subseteq Over
      BY <2>1, <3>1, SeenSets
    <3>3. \A u \in Ups(s) : Channels!Received(u, s) = Len(sent[u])
      BY <1>1, <2>1, SeesReceived
    <3> QED
      BY <1>4, <2>1, <3>1, <3>2, <3>3 DEF Channels!Exhausted, Over
  <2>2. CASE KindOf(s) = "seq" /\ LimitOf(s) > 0 /\ Len(sent[s]) = LimitOf(s)
    BY <1>4, <2>2 DEF Channels!Exhausted
  <2>3. CASE KindOf(s) = "take" /\ Len(got[s]) = LimitOf(s)
    BY <1>4, <2>3 DEF Channels!Satisfied
  <2>4. CASE (\E t \in Streams : Link(s, t)) /\ \A t \in Streams : Link(s, t) => ~Live(mode[t])
    <3>1. \A t : t \in Channels!Downstreams(s) <=> Link(s, t)
      BY <1>1, SeesStreams
    <3>2. Channels!Downstreams(s) # {}
      BY <2>4, <3>1
    <3>3. Channels!Downstreams(s) \subseteq Shut
      BY <1>1, <2>4, <3>1, LinkTyped, SeenSets
    <3> QED
      BY <3>2, <3>3 DEF Channels!Unheard, Shut
  <2> QED
    BY <1>2, <2>1, <2>2, <2>3, <2>4 DEF Enough
<1>7. Channels!Close(s)
  BY <1>2, <1>3, <1>4, <1>5, <1>6 DEF Channels!Close, Shut, Over
<1> QED
  BY <1>2, <1>7 DEF Channels!Next

\* A stream ends.
LEMMA SeesEnded ==
  ASSUME Delivering, Delivering', NEW s \in Streams, Finished(s)
  PROVE  Channels!Next
<1>1. Given /\ Kinded
  BY DEF Delivering, Flowing
<1>2. /\ s \in Channels!Declared /\ mode[s] # "none" /\ program' = program /\ sent' = sent /\ got' = got
      /\ ~Live(mode[s]) /\ ~Gone(Local(s), s) /\ Gone(Local(s)', s)
      /\ KindOf(s) # "seq" => Len(sent[s]) = Owes(Local(s))
  BY SeesDeclared DEF Finished
<1>3. Over' = Over \union {s} /\ Shut' = Shut /\ s \in Shut /\ s \notin Over
  BY <1>2, SeenSets DEF Finished
<1>4. Channels!Stream(s).kind = KindOf(s)
  BY <1>1, SeesStreams
<1>5. KindOf(s) # "seq" => Len(sent[s]) = Channels!Owed(s)
  BY <1>1, <1>2, SeesOwed
<1>6. Channels!End(s)
  BY <1>2, <1>3, <1>4, <1>5 DEF Channels!End, Shut, Over
<1> QED
  BY <1>2, <1>6 DEF Channels!Next

LEMMA StepDelivers ==
  ASSUME Delivering, Delivering', Moves
  PROVE  [Channels!Next]_(Channels!vars)
BY SeesNothing, SeesSends, SeesInvoked, SeesClosed, SeesEnded DEF Moves

LEMMA InitDelivers ==
  ASSUME Init
  PROVE  Channels!Init
<1>1. \A s \in Streams : mode[s] = "none"
  BY DEF Init
<1>2. Shut = {} /\ Over = {}
  BY <1>1 DEF Shut, Over, Past
<1> QED
  BY <1>2 DEF Channels!Init, Init, Shut, Over

\* Every program that is complete before it runs is executed as Delivery says.
THEOREM Delivers ==
  ASSUME \A p \in Scripts : ReadyToRun(p)
  PROVE  Spec => DeliversSafely
<1>1. Init => Delivering /\ Channels!Init
  <2> SUFFICES ASSUME Init PROVE Delivering /\ Channels!Init
    OBVIOUS
  <2>1. Given
    BY DEF Given, Init
  <2> QED
    BY <2>1, InitKeeps, InitDelivers
<1>2. Delivering /\ [Next]_vars => Delivering' /\ [Channels!Next]_(Channels!vars)
  <2> SUFFICES ASSUME Delivering, [Next]_vars PROVE Delivering' /\ [Channels!Next]_(Channels!vars)
    OBVIOUS
  <2>1. Delivering' /\ Moves
    BY NextKeeps
  <2> QED
    BY <2>1, StepDelivers
<1> QED
  BY <1>1, <1>2, PTL DEF Spec, DeliversSafely, Channels!Safety

-----------------------------------------------------------------------------
(* Closing and counting.                                                   *)

\* a counts no stream down, or only s and once.
CountsNone(a) == \A i \in 1..Len(a) : a[i].op # "countDown"
CountsOnce(a, s) == \A i \in 1..Len(a) : a[i].op = "countDown" =>
  /\ a[i] = CountDownOp(s)
  /\ \A j \in 1..Len(a) : a[j].op = "countDown" => j = i

\* ... which it has to do after the stream was killed.
CountsRight(L, a, s) == CountsOnce(a, s) /\ (Closing(L) \/ CountsNone(a))

LEMMA CountsNothing ==
  ASSUME NEW L, NEW s, NEW a, CountsNone(a)
  PROVE  CountsRight(L, a, s)
  BY DEF CountsNone, CountsOnce, CountsRight

LEMMA CountsCons ==
  ASSUME NEW L, NEW s, NEW a \in Seq(Ops), a # <<>>, Head(a).op # "countDown"
  PROVE  /\ CountsNone(Tail(a)) => CountsNone(a)
         /\ CountsRight(L, Tail(a), s) => CountsRight(L, a, s)
<1>1. /\ Len(a) \in Nat \ {0} /\ Head(a) = a[1] /\ Len(Tail(a)) = Len(a) - 1
      /\ \A i \in 1..Len(Tail(a)) : Tail(a)[i] = a[i + 1]
  BY HeadTail
<1>2. ASSUME NEW i \in 1..Len(a), a[i].op = "countDown"
      PROVE  i - 1 \in 1..Len(Tail(a)) /\ Tail(a)[i - 1] = a[i]
  <2>1. i # 1
    BY <1>1, <1>2
  <2>2. i - 1 \in 1..Len(Tail(a)) /\ (i - 1) + 1 = i
    BY <1>1, <2>1
  <2> QED
    BY <1>1, <2>2
<1>3. CountsNone(Tail(a)) => CountsNone(a)
  BY <1>2 DEF CountsNone
<1>4. CountsOnce(Tail(a), s) => CountsOnce(a, s)
  <2> SUFFICES ASSUME CountsOnce(Tail(a), s), NEW i \in 1..Len(a), a[i].op = "countDown"
               PROVE  /\ a[i] = CountDownOp(s)
                      /\ \A j \in 1..Len(a) : a[j].op = "countDown" => j = i
    BY DEF CountsOnce
  <2>1. i - 1 \in 1..Len(Tail(a)) /\ Tail(a)[i - 1] = a[i]
    BY <1>2
  <2>2. ASSUME NEW j \in 1..Len(a), a[j].op = "countDown" PROVE j = i
    <3>1. j - 1 \in 1..Len(Tail(a)) /\ Tail(a)[j - 1] = a[j]
      BY <1>2, <2>2
    <3>2. j - 1 = i - 1
      BY <2>1, <2>2, <3>1 DEF CountsOnce
    <3> QED
      BY <3>2
  <2> QED
    BY <2>1, <2>2 DEF CountsOnce
<1> QED
  BY <1>3, <1>4 DEF CountsRight

\* The step that counts s down.
LEMMA CountsHead ==
  ASSUME NEW L, Closing(L), NEW s, NEW a \in Seq(Ops), a # <<>>, Head(a) = CountDownOp(s), CountsNone(Tail(a))
  PROVE  CountsRight(L, a, s)
<1>1. /\ Len(a) \in Nat \ {0} /\ Head(a) = a[1] /\ Len(Tail(a)) = Len(a) - 1
      /\ \A i \in 1..Len(Tail(a)) : Tail(a)[i] = a[i + 1]
  BY HeadTail
<1>2. ASSUME NEW i \in 1..Len(a), a[i].op = "countDown"
      PROVE  i = 1
  <2> SUFFICES ASSUME i # 1 PROVE FALSE
    OBVIOUS
  <2>1. i - 1 \in 1..Len(Tail(a)) /\ (i - 1) + 1 = i
    BY <1>1
  <2>2. Tail(a)[i - 1] = a[i]
    BY <1>1, <2>1
  <2> QED
    BY <1>2, <2>1, <2>2 DEF CountsNone
<1> QED
  BY <1>1, <1>2 DEF CountsOnce, CountsRight

LEMMA CountsEnd ==
  ASSUME NEW a \in Seq(Ops), NEW s, AtEnd(a, s)
  PROVE  CountsNone(a)
<1>1. CASE a = <<>>
  BY <1>1 DEF CountsNone
<1>2. CASE AtAfter(a, s)
  <2>1. Len(a) = 1 /\ a[1] = AfterOp(s)
    BY <1>2, OneStep
  <2> QED
    BY <2>1 DEF CountsNone, AfterOp
<1> QED
  BY <1>1, <1>2 DEF AtEnd

\* What is left of a close.
LEMMA CountsLeft ==
  ASSUME NEW L, Closing(L), NEW s, NEW a \in Seq(Ops), NEW j \in Nat, Left(L, a, s, j)
  PROVE  CountsRight(L, a, s)
<1>0. /\ Len(a) \in {j + 3, j + 4}
      /\ a[j + 1] = CloseDstOp(s) /\ a[j + 2] = CloseRestOp(s, 1) /\ a[j + 3] = CountDownOp(s)
      /\ Len(a) = j + 4 => a[j + 4] = AfterOp(s)
  BY DEF Left
<1>3. ASSUME NEW i \in 1..j PROVE a[i].op = "emit"
  <2>1. \A v : EmitOp(s, v, FALSE).op = "emit"
    BY DEF EmitOp
  <2>2. a[i] = EmitOp(s, L.got[Len(L.sent) + i], FALSE)
    BY Zenon DEF Left
  <2> QED
    BY <2>1, <2>2, Zenon
<1>1. /\ Len(a) \in {j + 3, j + 4}
      /\ \A i \in 1..j : a[i].op = "emit"
      /\ a[j + 1] = CloseDstOp(s) /\ a[j + 2] = CloseRestOp(s, 1) /\ a[j + 3] = CountDownOp(s)
      /\ Len(a) = j + 4 => a[j + 4] = AfterOp(s)
  BY <1>0, <1>3
<1>2. ASSUME NEW i \in 1..Len(a), a[i].op = "countDown" PROVE i = j + 3
  <2>1. a[j + 1].op # "countDown" /\ a[j + 2].op # "countDown" /\ (Len(a) = j + 4 => a[j + 4].op # "countDown")
    BY <1>1 DEF CloseDstOp, CloseRestOp, AfterOp
  <2>2. i \in 1..j \/ i = j + 1 \/ i = j + 2 \/ i = j + 3 \/ (i = j + 4 /\ Len(a) = j + 4)
    BY <1>1
  <2> QED
    BY <1>1, <1>2, <2>1, <2>2
<1> QED
  BY <1>1, <1>2 DEF CountsOnce, CountsRight

LEMMA CountsAfter ==
  ASSUME NEW L, NEW s, NEW a \in Seq(Ops), Emitted(L, a, s), L.kind \in {"sort", "reduce"} => Closing(L)
  PROVE  CountsRight(L, a, s)
<1>1. CASE L.kind = "map"
  <2>1. AtEnd(a, s)
    BY <1>1 DEF Emitted, AtEnd
  <2> QED
    BY <2>1, CountsEnd, CountsNothing
<1>2. CASE L.kind \in {"seq", "take"}
  <2>1. a # <<>> /\ Head(a).op # "countDown" /\ AtEnd(Tail(a), s)
    BY <1>2 DEF Emitted, Is, AtEnd, SeqNextOp, TakeNextOp
  <2>2. Tail(a) \in Seq(Ops)
    BY <2>1, HeadTail
  <2>3. CountsNone(a)
    BY <2>1, <2>2, CountsEnd, CountsCons
  <2> QED
    BY <2>3, CountsNothing
<1>3. CASE L.kind \in {"sort", "reduce"}
  <2>1. PICK j \in 0..Len(a) : Left(L, a, s, j)
    BY <1>3 DEF Emitted, Remains
  <2> QED
    BY <1>3, <2>1, CountsLeft
<1> QED
  BY <1>1, <1>2, <1>3 DEF Emitted

LEMMA CountsEmission ==
  ASSUME NEW L, NEW s, NEW x, Spreading(L, x), NEW a \in Seq(Ops), NEW i
  PROVE  /\ AtCheck(L, a, s) => CountsRight(L, a, s)
         /\ AtRest(L, a, s, i) => CountsRight(L, a, s)
         /\ AtDrop(L, a, s) => CountsRight(L, a, s)
<1>1. L.kind \in {"sort", "reduce"} => Closing(L)
  BY DEF Spreading
<1>2. ASSUME NEW b \in Seq(Ops), AtCheck(L, b, s) PROVE CountsRight(L, b, s)
  <2>1. b # <<>> /\ Head(b).op # "countDown" /\ Emitted(L, Tail(b), s)
    BY <1>2 DEF AtCheck, Is, CheckOp
  <2>2. Tail(b) \in Seq(Ops)
    BY <2>1, HeadTail
  <2> QED
    BY <1>1, <2>1, <2>2, CountsAfter, CountsCons
<1>3. ASSUME NEW b \in Seq(Ops), NEW k, AtRest(L, b, s, k) PROVE CountsRight(L, b, s)
  <2>1. b # <<>> /\ Head(b).op # "countDown" /\ AtCheck(L, Tail(b), s)
    BY <1>3 DEF AtRest, Is, EmitRestOp
  <2>2. Tail(b) \in Seq(Ops)
    BY <2>1, HeadTail
  <2> QED
    BY <1>2, <2>1, <2>2, CountsCons
<1>4. ASSUME AtDrop(L, a, s) PROVE CountsRight(L, a, s)
  <2>1. a # <<>> /\ Head(a).op # "countDown" /\ AtRest(L, Tail(a), s, 1)
    BY <1>4 DEF AtDrop, Is, DropDstOp
  <2>2. Tail(a) \in Seq(Ops)
    BY <2>1, HeadTail
  <2> QED
    BY <1>3, <2>1, <2>2, CountsCons
<1> QED
  BY <1>2, <1>3, <1>4

LEMMA CountsCloseRest ==
  ASSUME NEW L, Closing(L), NEW s, NEW a \in Seq(Ops), NEW i, AtCloseRest(a, s, i)
  PROVE  CountsRight(L, a, s)
<1>1. /\ a # <<>> /\ Head(a).op # "countDown" /\ Tail(a) # <<>> /\ Head(Tail(a)) = CountDownOp(s)
      /\ AtEnd(Tail(Tail(a)), s)
  BY DEF AtCloseRest, Is, CloseRestOp
<1>2. Tail(a) \in Seq(Ops)
  BY <1>1, HeadTail
<1>3. Tail(Tail(a)) \in Seq(Ops)
  BY <1>1, <1>2, HeadTail
<1>4. CountsNone(Tail(Tail(a)))
  BY <1>1, <1>3, CountsEnd
<1>5. CountsRight(L, Tail(a), s)
  BY <1>1, <1>2, <1>4, CountsHead
<1> QED
  BY <1>1, <1>5, CountsCons

LEMMA CountsFollowing ==
  ASSUME NEW L, NEW s, NEW x, NEW t, NEW f, NEW d, NEW a \in Seq(Ops), Following(L, s, x, t, f, d, a)
  PROVE  CountsRight(L, a, s)
<1>1. CASE Spreading(L, x) /\ (AtDrop(L, a, s) \/ \E i \in 1..Len(L.rest) : AtRest(L, a, s, i + 1))
  BY <1>1, CountsEmission
<1>2. CASE L.kind = "seq" /\ Emitted(L, a, s)
  BY <1>2, CountsAfter
<1>3. CASE Closing(L) /\ (AtCloseRest(a, s, 1) \/ \E i \in 1..Len(L.rest) : AtCloseRest(a, s, i + 1))
  BY <1>3, CountsCloseRest
<1> QED
  BY <1>1, <1>2, <1>3 DEF Following

\* In every phase.
LEMMA CountsPhase ==
  ASSUME NEW s \in Streams, NEW L, TypedLocal(L), NEW x, Phase(L, s, x)
  PROVE  CountsRight(L, L.a, s)
<1> PICK a : a = L.a
  OBVIOUS
<1>0. CASE a = <<>>
  <2>1. CountsNone(a)
    BY <1>0 DEF CountsNone
  <2> QED
    BY <2>1, CountsNothing
<1> SUFFICES ASSUME a # <<>> PROVE CountsRight(L, a, s)
  BY <1>0
<1> PICK o : o = Head(a)
  OBVIOUS
<1> PICK r : r = Tail(a)
  OBVIOUS
<1>1. a \in Seq(Ops) /\ r \in Seq(Ops)
  BY HeadTail DEF TypedLocal
<1>2. o.op # "countDown" /\ CountsRight(L, r, s) => CountsRight(L, a, s)
  BY <1>1, CountsCons
<1>3. CASE o.op = "emit"
  <2>1. Emitting(L, s, x)
    BY <1>3 DEF Phase
  <2>2. CASE Emitted(L, r, s) /\ L.kind \in {"seq", "map", "take"}
    BY <1>1, <1>2, <1>3, <2>2, CountsAfter
  <2>3. CASE AtAfter(r, s)
    <3>1. CountsNone(r)
      BY <1>1, <2>3, CountsEnd DEF AtEnd
    <3> QED
      BY <1>2, <1>3, <3>1, CountsNothing
  <2>4. CASE Closing(L) /\ Remains(L, a, s)
    <3>1. PICK j \in 0..Len(a) : Left(L, a, s, j)
      BY <2>4 DEF Remains
    <3> QED
      BY <1>1, <2>4, <3>1, CountsLeft
  <2> QED
    BY <2>1, <2>2, <2>3, <2>4 DEF Emitting
<1>4. CASE o.op \in {"dropDst", "emitRest", "check"}
  <2>1. Spreading(L, x) /\ (AtDrop(L, a, s) \/ (\E i \in 1..(Len(L.rest) + 1) : AtRest(L, a, s, i)) \/ AtCheck(L, a, s))
    BY <1>4 DEF Phase
  <2> QED
    BY <1>1, <2>1, CountsEmission
<1>5. CASE o.op = "push"
  <2>1. Following(L, s, x, o.s, o.f, o.d, r)
    BY <1>5 DEF Phase
  <2> QED
    BY <1>1, <1>2, <1>5, <2>1, CountsFollowing
<1>6. CASE o.op = "addTask"
  <2>1. r # <<>> /\ Head(r) = AddStreamOp(o.s) /\ Following(L, s, x, o.s, o.f, o.d, Tail(r))
    BY <1>6 DEF Phase, Is
  <2>2. Tail(r) \in Seq(Ops) /\ Head(r).op # "countDown"
    BY <1>1, <2>1, HeadTail DEF AddStreamOp
  <2>3. CountsRight(L, r, s)
    BY <1>1, <2>1, <2>2, CountsFollowing, CountsCons
  <2> QED
    BY <1>2, <1>6, <2>3
<1>7. CASE o.op = "addStream"
  <2>1. PICK t, f, d : Following(L, s, x, t, f, d, r)
    BY <1>7 DEF Phase
  <2> QED
    BY <1>1, <1>2, <1>7, <2>1, CountsFollowing
<1>8. CASE o.op \in {"seqNext", "takeNext"}
  <2>1. L.kind \in {"seq", "take"} /\ Emitted(L, a, s)
    BY <1>8 DEF Phase, Counting
  <2> QED
    BY <1>1, <2>1, CountsAfter
<1>9. CASE o.op \in {"close", "kill", "after"}
  <2>1. AtEnd(r, s)
    BY <1>9 DEF Phase, Stopping, AtAfter, AtEnd
  <2>2. CountsNone(r)
    BY <1>1, <2>1, CountsEnd
  <2> QED
    BY <1>2, <1>9, <2>2, CountsNothing
<1>10. CASE o.op = "closeDst"
  <2>1. Closing(L) /\ Left(L, a, s, 0)
    BY <1>10 DEF Phase
  <2> QED
    BY <1>1, <2>1, CountsLeft
<1>11. CASE o.op = "closeRest"
  <2>1. Closing(L) /\ \E i \in 1..(Len(L.rest) + 1) : AtCloseRest(a, s, i)
    BY <1>11 DEF Phase
  <2> QED
    BY <1>1, <2>1, CountsCloseRest
<1>12. CASE o.op = "countDown"
  <2>1. Closing(L) /\ o.s = s /\ AtEnd(r, s)
    BY <1>12 DEF Phase
  <2>2. o = CountDownOp(s)
    <3>1. o \in Ops
      BY <1>1, HeadTail
    <3> QED
      BY <1>12, <2>1, <3>1 DEF Ops, StreamOps, CountDownOp
  <2>3. CountsNone(r)
    BY <1>1, <2>1, CountsEnd
  <2> QED
    BY <1>1, <2>1, <2>2, <2>3, CountsHead
<1> QED
  BY <1>3, <1>4, <1>5, <1>6, <1>7, <1>8, <1>9, <1>10, <1>11, <1>12, PhaseOps

\* Another thread than t has c to do.
Others(t, c) == \E u \in Threads \ {t} : InSeq(c, agenda[u])

LEMMA InSeqCons ==
  ASSUME NEW a \in Seq(Ops), a # <<>>, NEW c
  PROVE  InSeq(c, a) <=> c = Head(a) \/ InSeq(c, Tail(a))
<1>1. /\ Len(a) \in Nat \ {0} /\ Head(a) = a[1] /\ Len(Tail(a)) = Len(a) - 1
      /\ \A i \in 1..Len(Tail(a)) : Tail(a)[i] = a[i + 1]
  BY HeadTail
<1>2. ASSUME InSeq(c, a), c # Head(a) PROVE InSeq(c, Tail(a))
  <2>1. PICK i \in 1..Len(a) : a[i] = c
    BY <1>2 DEF InSeq
  <2>2. i # 1
    BY <1>1, <1>2, <2>1
  <2>3. i - 1 \in 1..Len(Tail(a)) /\ (i - 1) + 1 = i
    BY <1>1, <2>2
  <2> QED
    BY <1>1, <2>1, <2>3 DEF InSeq
<1>3. ASSUME InSeq(c, Tail(a)) PROVE InSeq(c, a)
  <2>1. PICK i \in 1..Len(Tail(a)) : Tail(a)[i] = c
    BY <1>3 DEF InSeq
  <2>2. i + 1 \in 1..Len(a)
    BY <1>1
  <2> QED
    BY <1>1, <2>1, <2>2 DEF InSeq
<1>4. c = Head(a) => InSeq(c, a)
  <2>1. 1 \in 1..Len(a)
    BY <1>1
  <2> QED
    BY <1>1, <2>1 DEF InSeq
<1> QED
  BY <1>2, <1>3, <1>4

LEMMA InSeqConcat ==
  ASSUME NEW T, NEW p \in Seq(T), NEW r \in Seq(T), NEW c
  PROVE  InSeq(c, p \o r) <=> InSeq(c, p) \/ InSeq(c, r)
<1>1. /\ Len(p \o r) = Len(p) + Len(r) /\ Len(p) \in Nat /\ Len(r) \in Nat
      /\ \A i \in 1..Len(p) : (p \o r)[i] = p[i]
      /\ \A i \in 1..Len(r) : (p \o r)[Len(p) + i] = r[i]
      /\ \A i \in 1..(Len(p) + Len(r)) :
           i \in 1..Len(p) \/ \E j \in 1..Len(r) : i = Len(p) + j
  BY ConcatFacts
<1>2. ASSUME InSeq(c, p \o r) PROVE InSeq(c, p) \/ InSeq(c, r)
  <2>1. PICK i \in 1..(Len(p) + Len(r)) : (p \o r)[i] = c
    BY <1>1, <1>2 DEF InSeq
  <2>2. CASE i \in 1..Len(p)
    BY <1>1, <2>1, <2>2 DEF InSeq
  <2>3. CASE \E j \in 1..Len(r) : i = Len(p) + j
    BY <1>1, <2>1, <2>3 DEF InSeq
  <2> QED
    BY <1>1, <2>2, <2>3
<1>3. ASSUME InSeq(c, p) PROVE InSeq(c, p \o r)
  <2>1. PICK i \in 1..Len(p) : p[i] = c
    BY <1>3 DEF InSeq
  <2>2. i \in 1..Len(p \o r)
    BY <1>1
  <2> QED
    BY <1>1, <2>1, <2>2 DEF InSeq
<1>4. ASSUME InSeq(c, r) PROVE InSeq(c, p \o r)
  <2>1. PICK i \in 1..Len(r) : r[i] = c
    BY <1>4 DEF InSeq
  <2>2. Len(p) + i \in 1..Len(p \o r)
    BY <1>1
  <2> QED
    BY <1>1, <2>1, <2>2 DEF InSeq
<1> QED
  BY <1>2, <1>3, <1>4

\* Who has c to do before and after.
LEMMA AgendaSplits ==
  ASSUME Typed, NEW t \in Threads, agenda[t] # <<>>, NEW T, NEW p \in Seq(T), Replaces(t, p), NEW c
  PROVE  /\ InAgenda(c) <=> Others(t, c) \/ c = Head(agenda[t]) \/ InSeq(c, Tail(agenda[t]))
         /\ InAgenda(c)' <=> Others(t, c) \/ InSeq(c, p) \/ InSeq(c, Tail(agenda[t]))
<1>1. agenda \in [Threads -> Seq(Ops)] /\ agenda[t] \in Seq(Ops) /\ Tail(agenda[t]) \in Seq(Ops)
  BY HeadTail DEF Typed, TypeOK, AgendasOK
<1>2. /\ agenda'[t] = p \o Tail(agenda[t])
      /\ \A u \in Threads \ {t} : agenda'[u] = agenda[u]
  BY <1>1 DEF Replaces
<1>3. InSeq(c, agenda[t]) <=> c = Head(agenda[t]) \/ InSeq(c, Tail(agenda[t]))
  BY <1>1, InSeqCons
<1>4. InSeq(c, agenda'[t]) <=> InSeq(c, p) \/ InSeq(c, Tail(agenda[t]))
  <2> PICK U : U = T \union Ops
    OBVIOUS
  <2>1. T \subseteq U /\ Ops \subseteq U
    OBVIOUS
  <2>2. p \in Seq(U) /\ Tail(agenda[t]) \in Seq(U)
    BY <1>1, <2>1, SeqMonotonic, Zenon
  <2>3. InSeq(c, p \o Tail(agenda[t])) <=> InSeq(c, p) \/ InSeq(c, Tail(agenda[t]))
    BY <2>2, InSeqConcat, Zenon
  <2> QED
    BY <1>2, <2>3, Zenon
<1>5. InAgenda(c) <=> \E u \in Threads : InSeq(c, agenda[u])
  BY DEF InAgenda, InSeq
<1>6. InAgenda(c)' <=> \E u \in Threads : InSeq(c, agenda'[u])
  BY DEF InAgenda, InSeq
<1> QED
  BY <1>2, <1>3, <1>4, <1>5, <1>6 DEF Others

\* A few steps that count nothing down.
Plain(p) == \E T : p \in Seq(T) /\ CountsNone(p)

LEMMA PlainSteps ==
  ASSUME NEW a, NEW b, NEW c, NEW d, \A o \in {a, b, c, d} : o.op # "countDown",
         NEW p \in {<<>>, <<a>>, <<a, b>>, <<a, b>> \o <<c, d>>, <<>> \o <<c, d>>}
  PROVE  Plain(p)
<1> PICK T : T = {a, b, c, d}
  OBVIOUS
<1>1. /\ <<>> \in Seq(T) /\ <<a>> \in Seq(T) /\ <<a, b>> \in Seq(T)
      /\ <<a, b>> \o <<c, d>> \in Seq(T) /\ <<>> \o <<c, d>> \in Seq(T)
  <2>1. <<>> \in Seq(T) /\ <<a>> \in Seq(T) /\ <<a, b>> \in Seq(T) /\ <<c, d>> \in Seq(T)
    OBVIOUS
  <2>2. \A u, v \in Seq(T) : u \o v \in Seq(T)
    BY ConcatFacts
  <2> QED
    BY <2>1, <2>2
<1>2. p \in Seq(T)
  BY <1>1
<1>3. \A i \in 1..Len(p) : p[i] \in T
  BY <1>2
<1>4. CountsNone(p)
  BY <1>3 DEF CountsNone
<1> QED
  BY <1>2, <1>4 DEF Plain

LEMMA PlainNone == Plain(<<>>)
<1>1. <<>> \in Seq({}) /\ CountsNone(<<>>)
  BY DEF CountsNone
<1> QED
  BY <1>1 DEF Plain

LEMMA PlainOne == ASSUME NEW a, a.op # "countDown" PROVE Plain(<<a>>)
  BY PlainSteps

LEMMA PlainTwo == ASSUME NEW a, a.op # "countDown", NEW b, b.op # "countDown" PROVE Plain(<<a, b>>)
  BY PlainSteps

LEMMA PlainSpread ==
  ASSUME NEW a, NEW b, NEW c, NEW d, \A x \in {a, b, c, d} : x.op # "countDown"
  PROVE  Plain(<<a, b>> \o <<c, d>>) /\ Plain(<<>> \o <<c, d>>)
  BY PlainSteps

LEMMA PlainCall ==
  ASSUME NEW a, NEW b, NEW c, \A x \in {a, b, c} : x.op # "countDown", NEW p \in {<<>>, <<a>>, <<a, b>>}
  PROVE  Plain(p \o <<c>>)
<1> PICK T : T = {a, b, c}
  OBVIOUS
<1>1. p \in Seq(T) /\ <<c>> \in Seq(T)
  <2>1. <<>> \in Seq(T) /\ <<a>> \in Seq(T) /\ <<a, b>> \in Seq(T) /\ <<c>> \in Seq(T)
    OBVIOUS
  <2> QED
    BY <2>1
<1>2. p \o <<c>> \in Seq(T)
  BY <1>1, ConcatFacts
<1>3. \A i \in 1..Len(p \o <<c>>) : (p \o <<c>>)[i] \in T
  BY <1>2
<1>4. CountsNone(p \o <<c>>)
  BY <1>3 DEF CountsNone
<1> QED
  BY <1>2, <1>4 DEF Plain

\* Nothing is created, killed or counted down.
Plainly(t) ==
  /\ \E p : Replaces(t, p) /\ Plain(p)
  /\ kind' = kind /\ got' = got /\ kills' = kills /\ streamCount' = streamCount /\ pc'[Main] = pc[Main]

LEMMA PlainStep ==
  ASSUME Typed, NEW t \in Threads, Step(t), Head(agenda[t]).op \notin {"new", "kill", "countDown"}
  PROVE  /\ agenda[t] # <<>> /\ Plainly(t)
         /\ Head(agenda[t]).op # "check" => mode' = mode
<1> PICK o : o = Head(agenda[t])
  OBVIOUS
<1>0. /\ Main \in Threads /\ Main \notin Workers /\ pc \in [Threads -> Labels]
  BY SchedulerAssumption DEF Typed, TypeOK, ThreadsOK, Threads
<1>1. agenda[t] # <<>>
  BY DEF Step, StreamNew, Connect, Ref, Start, Push, AddTask, AddStream, Emit, DropDst, EmitRest, TerminationCheck,
         Close, Kill, CloseDst, CloseRest, CountDown, SeqNext, TakeNext, After, At
<1>2. kind' = kind /\ got' = got /\ kills' = kills /\ streamCount' = streamCount /\ (o.op # "check" => mode' = mode)
  BY DEF Step, StreamNew, Connect, Ref, Start, Push, AddTask, AddStream, Emit, DropDst, EmitRest, TerminationCheck,
         Close, Kill, CloseDst, CloseRest, CountDown, SeqNext, TakeNext, After, At, TaskInit,
         sharedVars, streamVars, historyVars
<1>3. pc'[Main] = pc[Main]
  <2>1. CASE Start(t)
    BY <1>0, <2>1 DEF Start, TaskInit
  <2>2. CASE ~Start(t)
    BY <2>2 DEF Step, StreamNew, Connect, Ref, Push, AddTask, AddStream, Emit, DropDst,
       EmitRest, TerminationCheck, Close, Kill, CloseDst, CloseRest, CountDown, SeqNext,
       TakeNext, After, Return, Continue
  <2> QED
    BY <2>1, <2>2
<1>4. \A s, f, d, m, i, b :
        /\ RefOp(s).op # "countDown" /\ StartOp(s).op # "countDown" /\ PushOp(s, f, d).op # "countDown"
        /\ AddTaskOp(s, f, d).op # "countDown" /\ AddStreamOp(s).op # "countDown" /\ DropDstOp(s).op # "countDown"
        /\ EmitRestOp(s, d, i).op # "countDown" /\ CheckOp(s, b).op # "countDown" /\ KillOp(s, m).op # "countDown"
        /\ CloseRestOp(s, i).op # "countDown" /\ CloseOp(s).op # "countDown"
  BY DEF RefOp, StartOp, PushOp, AddTaskOp, AddStreamOp, DropDstOp, EmitRestOp, CheckOp, KillOp, CloseRestOp, CloseOp
<1>5. \E p : Replaces(t, p) /\ Plain(p)
  <2>1. CASE Connect(t)
    <3>1. Replaces(t, <<RefOp(o.dst), StartOp(o.s)>>)
      BY <2>1, Zenon DEF Connect, Continue, Replaces
    <3> QED
      BY <3>1, <1>4, PlainNone, PlainOne, PlainTwo
  <2>2. CASE Ref(t) \/ AddTask(t) \/ AddStream(t) \/ DropDst(t) \/ SeqNext(t)
    <3>1. Replaces(t, <<>>)
      BY <2>2, Zenon DEF Ref, AddTask, AddStream, DropDst, SeqNext, Return, Continue, Replaces
    <3> QED
      BY <3>1, <1>4, PlainNone, PlainOne, PlainTwo
  <2>3. CASE Start(t)
    <3>1. PICK p : p = IF mode[o.s] = "producer" THEN <<PushOp(o.s, "start", Nil)>> ELSE <<>>
      OBVIOUS
    <3>2. Replaces(t, p)
      BY <2>3, <3>1, Zenon DEF Start, Replaces
    <3>3. p \in {<<>>, <<PushOp(o.s, "start", Nil)>>}
      BY <3>1
    <3> HIDE <3>1
    <3> QED
      BY <3>2, <3>3, <1>4, PlainNone, PlainOne, PlainTwo
  <2>4. CASE Push(t)
    <3>1. PICK p : p = IF mode[o.s] \in {"killed", "dying"} THEN <<>>
                       ELSE <<AddTaskOp(o.s, o.f, o.d), AddStreamOp(o.s)>>
      OBVIOUS
    <3>2. Replaces(t, p)
      BY <2>4, <3>1, Zenon DEF Push, TaskAdd, Continue, Replaces
    <3>3. p \in {<<>>, <<AddTaskOp(o.s, o.f, o.d), AddStreamOp(o.s)>>}
      BY <3>1
    <3> HIDE <3>1
    <3> QED
      BY <3>2, <3>3, <1>4, PlainNone, PlainOne, PlainTwo
  <2>5. CASE Emit(t)
    <3>1. PICK s : s = o.s
      OBVIOUS
    <3>2. PICK a, b, c, d : /\ a = PushOp(dst[s], "start", o.d) /\ b = DropDstOp(s)
                            /\ c = EmitRestOp(s, o.d, 1) /\ d = CheckOp(s, o.again)
      OBVIOUS
    <3>3. PICK e : e = PushOp(s, "start", Nil)
      OBVIOUS
    <3>4. PICK p : p = IF mode[s] = "dying" THEN <<>>
                       ELSE IF o.d = Nil THEN (IF o.again THEN <<e>> ELSE <<>>)
                       ELSE (IF dst[s] = NoStream THEN <<>> ELSE <<a, b>>) \o <<c, d>>
      OBVIOUS
    <3>5. Replaces(t, p)
      BY <2>5, <3>1, <3>2, <3>3, <3>4, Zenon DEF Emit, Continue, Replaces
    <3>6. p \in {<<>>, <<e>>, <<a, b>> \o <<c, d>>, <<>> \o <<c, d>>}
      BY <3>4, Zenon
    <3>7. \A x \in {a, b, c, d, e} : x.op # "countDown"
      BY <3>2, <3>3, <1>4
    <3> HIDE <3>2, <3>3, <3>4
    <3>8. CASE p = <<e>>
      BY <3>5, <3>7, <3>8, PlainOne
    <3>9. CASE p # <<e>>
      <4>1. p \in {<<>>, <<a>>, <<a, b>>, <<a, b>> \o <<c, d>>, <<>> \o <<c, d>>}
        BY <3>6, <3>9, Zenon
      <4>2. \A x \in {a, b, c, d} : x.op # "countDown"
        BY <3>7
      <4>3. Plain(p)
        <5>1. Plain(<<>>) /\ Plain(<<a>>) /\ Plain(<<a, b>>)
          BY <4>2, PlainNone, PlainOne, PlainTwo
        <5>2. Plain(<<a, b>> \o <<c, d>>) /\ Plain(<<>> \o <<c, d>>)
          BY <4>2, PlainSpread, Zenon
        <5> QED
          BY <4>1, <5>1, <5>2, Zenon
      <4> QED
        BY <3>5, <4>3, Zenon
    <3> QED
      BY <3>8, <3>9
  <2>6. CASE EmitRest(t)
    <3>1. PICK x, y : /\ x = PushOp(rest[o.s][o.i], "start", o.d) /\ y = EmitRestOp(o.s, o.d, o.i + 1)
      OBVIOUS
    <3>2. PICK p : p = IF o.i > Len(rest[o.s]) THEN <<>> ELSE <<x, y>>
      OBVIOUS
    <3>3. Replaces(t, p)
      BY <2>6, <3>1, <3>2, Zenon DEF EmitRest, Continue, Replaces
    <3>4. p \in {<<>>, <<x, y>>} /\ x.op # "countDown" /\ y.op # "countDown"
      BY <3>1, <3>2, <1>4
    <3> HIDE <3>1, <3>2
    <3> QED
      BY <3>3, <3>4, PlainNone, PlainTwo
  <2>7. CASE TerminationCheck(t)
    <3>1. PICK p : p = IF Unheard(o.s) \/ ~o.again THEN <<>> ELSE <<PushOp(o.s, "start", Nil)>>
      OBVIOUS
    <3>2. Replaces(t, p)
      BY <2>7, <3>1, Zenon DEF TerminationCheck, Continue, Replaces
    <3>3. p \in {<<>>, <<PushOp(o.s, "start", Nil)>>}
      BY <3>1
    <3> HIDE <3>1
    <3> QED
      BY <3>2, <3>3, <1>4, PlainNone, PlainOne, PlainTwo
  <2>8. CASE Close(t)
    <3>1. Replaces(t, <<>>) \/ Replaces(t, <<KillOp(o.s, mode[o.s])>>)
      BY <2>8, Zenon DEF Close, Return, Continue, Replaces
    <3> QED
      BY <3>1, <1>4, PlainNone, PlainOne, PlainTwo
  <2>9. CASE CloseDst(t)
    <3>1. PICK p : p = IF dst[o.s] = NoStream THEN <<>> ELSE <<PushOp(dst[o.s], "close", Nil)>>
      OBVIOUS
    <3>2. Replaces(t, p)
      BY <2>9, <3>1, Zenon DEF CloseDst, Continue, Replaces
    <3>3. p \in {<<>>, <<PushOp(dst[o.s], "close", Nil)>>}
      BY <3>1
    <3> HIDE <3>1
    <3> QED
      BY <3>2, <3>3, <1>4, PlainNone, PlainOne, PlainTwo
  <2>10. CASE CloseRest(t)
    <3>1. PICK x, y : /\ x = PushOp(rest[o.s][o.i], "close", Nil) /\ y = CloseRestOp(o.s, o.i + 1)
      OBVIOUS
    <3>2. PICK p : p = IF o.i > Len(rest[o.s]) THEN <<>> ELSE <<x, y>>
      OBVIOUS
    <3>3. Replaces(t, p)
      BY <2>10, <3>1, <3>2, Zenon DEF CloseRest, Continue, Replaces
    <3>4. p \in {<<>>, <<x, y>>} /\ x.op # "countDown" /\ y.op # "countDown"
      BY <3>1, <3>2, <1>4
    <3> HIDE <3>1, <3>2
    <3> QED
      BY <3>3, <3>4, PlainNone, PlainTwo
  <2>11. CASE TakeNext(t) \/ After(t)
    <3>1. \E s : Replaces(t, <<>>) \/ Replaces(t, <<CloseOp(s)>>)
      <4>1. CASE TakeNext(t)
        BY <4>1, Zenon DEF TakeNext, Continue, Replaces
      <4>2. CASE After(t)
        BY <4>2, Zenon DEF After, Continue, Replaces
      <4> QED
        BY <2>11, <4>1, <4>2
    <3> QED
      BY <3>1, <1>4, PlainNone, PlainOne, PlainTwo
  <2>12. ~StreamNew(t) /\ ~Kill(t) /\ ~CountDown(t)
    BY DEF StreamNew, Kill, CountDown, At
  <2> QED
    BY <2>1, <2>2, <2>3, <2>4, <2>5, <2>6, <2>7, <2>8, <2>9, <2>10, <2>11, <2>12 DEF Step
<1> QED
  BY <1>1, <1>2, <1>3, <1>5 DEF Plainly

-----------------------------------------------------------------------------
(* The invariant of closing and counting.                                  *)

\* The streams that stream_count counts.
Stays(s) == mode[s] \notin {"none", "killed"} \/ Failed(s) \/ InAgenda(CountDownOp(s))
Standing == {s \in Streams : Stays(s)}

Tally == IsFiniteSet(Standing) /\ streamCount = Cardinality(Standing)
KilledOnce == \A s \in Streams : kills[s] = IF mode[s] = "killed" THEN 1 ELSE 0
AtDone == pc[Main] = "done" => streamCount = 0
Tallied == Tally /\ KilledOnce /\ AtDone

LEMMA TallySame ==
  ASSUME Tally, streamCount' = streamCount, \A s \in Streams : Stays(s)' <=> Stays(s)
  PROVE  Tally'
<1>1. Standing' = Standing
  BY DEF Standing
<1> QED
  BY <1>1 DEF Tally

\* Steps that count nothing down leave it to the same.
LEMMA CountsSame ==
  ASSUME Typed, NEW t \in Threads, agenda[t] # <<>>, Head(agenda[t]).op # "countDown",
         NEW p, Replaces(t, p), Plain(p), NEW s
  PROVE  InAgenda(CountDownOp(s))' <=> InAgenda(CountDownOp(s))
<1>1. PICK c : c = CountDownOp(s)
  OBVIOUS
<1>2. c.op = "countDown"
  BY <1>1 DEF CountDownOp
<1>3. PICK T : p \in Seq(T) /\ CountsNone(p)
  BY DEF Plain
<1>4. /\ InAgenda(c) <=> Others(t, c) \/ c = Head(agenda[t]) \/ InSeq(c, Tail(agenda[t]))
      /\ InAgenda(c)' <=> Others(t, c) \/ InSeq(c, p) \/ InSeq(c, Tail(agenda[t]))
  BY <1>3, AgendaSplits
<1>5. ~InSeq(c, p)
  BY <1>2, <1>3 DEF CountsNone, InSeq
<1>6. InAgenda(c)' <=> InAgenda(c)
  BY <1>2, <1>4, <1>5
<1>7. InAgenda(CountDownOp(s))' <=> InAgenda(c)'
  BY <1>1 DEF InAgenda, CountDownOp
<1> QED
  BY <1>1, <1>6, <1>7

\* Only the worker that executes s has it to count down, once and after its close_func.
LEMMA CountsOwner ==
  ASSUME Delivering, NEW t \in Threads, NEW s, InSeq(CountDownOp(s), agenda[t])
  PROVE  /\ t \in Workers /\ pc[t] = "run" /\ cur[t] = s /\ s \in Streams
         /\ mode[s] = "killed" /\ ~Failed(s) /\ CountsOnce(agenda[t], s) /\ agenda[t] # <<>>
<1>1. ExclusiveInv /\ IdleAgendas /\ agenda[t] \in Seq(Ops)
  BY DEF Delivering, Places, ExclusiveInv, Typed, TypeOK, AgendasOK
<1>2. PICK i \in 1..Len(agenda[t]) : agenda[t][i] = CountDownOp(s)
  BY DEF InSeq
<1>3. agenda[t][i].op = "countDown" /\ agenda[t][i].s = s
  BY <1>2 DEF CountDownOp
<1>4. t \in Workers
  <2> SUFFICES ASSUME t = Main PROVE FALSE
    BY DEF Threads
  <2> QED
    BY <1>1, <1>3, MainCloses
<1>5. agenda[t] # <<>>
  <2>1. Len(agenda[t]) # 0
    BY <1>1
  <2> QED
    BY <2>1, EmptyLen
<1>6. PICK v, o, r, L, M : Chosen(t, v, o, r, L, M)
  BY <1>5, ChosenExists
<1>7. /\ v \in Streams /\ TypedLocal(L) /\ States(L, M, v)
      /\ \E x \in {-1, 0, 1} : Phase(L, v, x)
  BY <1>4, <1>6, ChosenFacts
<1>8. pc[t] = "run" /\ v = cur[t]
  BY <1>1, <1>4, <1>5, <1>6 DEF IdleAgendas, Chosen
<1>9. L.a = agenda[t]
  BY <1>1, <1>4, <1>7, <1>8, StepsAre DEF States
<1>10. CountsRight(L, agenda[t], v)
  BY <1>7, <1>9, CountsPhase
<1>11. CountsOnce(agenda[t], v) /\ Closing(L)
  BY <1>3, <1>10 DEF CountsRight, CountsNone
<1>12. v = s
  BY <1>3, <1>11 DEF CountsOnce, CountDownOp
<1>13. mode[s] = "killed" /\ ~Failed(s)
  BY <1>7, <1>11, <1>12 DEF Closing, Failed, States
<1> QED
  BY <1>4, <1>5, <1>7, <1>8, <1>11, <1>12, <1>13

LEMMA CountsAlone ==
  ASSUME Delivering, NEW t \in Threads, NEW s, InSeq(CountDownOp(s), agenda[t])
  PROVE  ~Others(t, CountDownOp(s))
<1> SUFFICES ASSUME NEW u \in Threads \ {t}, InSeq(CountDownOp(s), agenda[u]) PROVE FALSE
  BY DEF Others
<1>1. t \in Workers /\ u \in Workers /\ pc[t] = "run" /\ pc[u] = "run" /\ cur[t] = s /\ cur[u] = s
  BY CountsOwner
<1> QED
  BY <1>1 DEF Delivering, ExclusiveInv, Exclusive, Executing

LEMMA CountsKilled ==
  ASSUME Delivering, NEW s, InAgenda(CountDownOp(s))
  PROVE  mode[s] = "killed" /\ ~Failed(s)
<1>1. PICK t \in Threads : InSeq(CountDownOp(s), agenda[t])
  BY DEF InAgenda, InSeq
<1> QED
  BY <1>1, CountsOwner

\* A step that does none of this.
LEMMA PlainKeeps ==
  ASSUME Delivering, Tallied, NEW t \in Threads, Step(t), Running,
         Head(agenda[t]).op \notin {"new", "kill", "countDown", "check"}
  PROVE  Tallied'
<1>1. Typed
  BY DEF Delivering, ExclusiveInv
<1>2. agenda[t] # <<>> /\ Plainly(t) /\ mode' = mode
  BY <1>1, PlainStep
<1>3. PICK p : Replaces(t, p) /\ Plain(p)
  BY <1>2 DEF Plainly
<1>4. \A s \in Streams : InAgenda(CountDownOp(s))' <=> InAgenda(CountDownOp(s))
  BY <1>1, <1>2, <1>3, CountsSame
<1>5. \A s \in Streams : Failed(s)' <=> Failed(s)
  BY <1>2 DEF Failed, Plainly
<1>6. Tally'
  <2>1. \A s \in Streams : Stays(s)' <=> Stays(s)
    BY <1>2, <1>4, <1>5 DEF Stays
  <2> QED
    BY <1>2, <2>1, TallySame DEF Tallied, Plainly
<1> QED
  BY <1>2, <1>6 DEF Tallied, Plainly, KilledOnce, AtDone

\* Stream s changes its mode from one that counts to one that counts.
LEMMA ModeKeeps ==
  ASSUME Delivering, Tallied, Running, NEW t \in Threads, Plainly(t), agenda[t] # <<>>, Head(agenda[t]).op # "countDown",
         NEW s \in Streams, mode' = [mode EXCEPT ![s] = "dying"], mode[s] # "none", Live(mode[s])
  PROVE  Tallied'
<1>1. Typed /\ mode \in [Streams -> Modes]
  BY DEF Delivering, ExclusiveInv, Typed, TypeOK, StreamsOK
<1>2. PICK p : Replaces(t, p) /\ Plain(p)
  BY DEF Plainly
<1>3. \A u \in Streams : InAgenda(CountDownOp(u))' <=> InAgenda(CountDownOp(u))
  BY <1>1, <1>2, CountsSame
<1>4. mode'[s] = "dying" /\ mode[s] \notin {"none", "killed"} /\ \A u \in Streams : u # s => mode'[u] = mode[u]
  BY <1>1 DEF Live
<1>5. \A u \in Streams : Stays(u)' <=> Stays(u)
  <2> SUFFICES ASSUME NEW u \in Streams PROVE Stays(u)' <=> Stays(u)
    OBVIOUS
  <2>1. CASE u = s
    BY <1>4, <2>1 DEF Stays
  <2>2. CASE u # s
    BY <1>3, <1>4, <2>2 DEF Stays, Failed, Plainly
  <2> QED
    BY <2>1, <2>2
<1>6. Tally'
  BY <1>5, TallySame DEF Tallied, Plainly
<1>7. KilledOnce'
  BY <1>4 DEF Tallied, KilledOnce, Plainly
<1> QED
  BY <1>6, <1>7 DEF Tallied, AtDone, Plainly

LEMMA CheckKeeps ==
  ASSUME Delivering, ExclusiveInv', Tallied, Running, NEW w \in Workers, TerminationCheck(w)
  PROVE  Tallied'
<1>1. Typed /\ w \in Threads
  BY DEF Delivering, ExclusiveInv, Threads
<1>2. Head(agenda[w]).op = "check" /\ agenda[w] # <<>> /\ Step(w)
  BY DEF TerminationCheck, At, Step
<1>3. Plainly(w)
  BY <1>1, <1>2, PlainStep
<1>4. PICK s, o, r, L, M : Chosen(w, s, o, r, L, M)
  BY <1>2, ChosenExists
<1>5. PICK x : /\ s \in Streams /\ Splits(L.a, o, r) /\ TypedLocal(L) /\ mode[s] # "none"
               /\ Phase(L, s, x)
  BY <1>4, ChosenFacts
<1>6. o = Head(agenda[w])
  BY <1>4 DEF Chosen
<1>7. o.s = s
  BY <1>2, <1>5, <1>6, CheckFacts
<1>8. CASE Unheard(s)
  <2>1. mode' = [mode EXCEPT ![s] = "dying"]
    BY <1>6, <1>7, <1>8 DEF TerminationCheck
  <2>2. Live(mode[s])
    BY <1>4, <1>8, WorkerUnheard DEF Closed
  <2> QED
    BY <1>1, <1>2, <1>3, <1>5, <2>1, <2>2, ModeKeeps
<1>9. CASE ~Unheard(s)
  <2>1. mode' = mode
    <3>1. mode' = [mode EXCEPT ![s] = mode[s]]
      BY <1>6, <1>7, <1>9 DEF TerminationCheck
    <3>2. mode \in [Streams -> Modes]
      BY <1>1 DEF Typed, TypeOK, StreamsOK
    <3> QED
      BY <3>1, <3>2
  <2>2. PICK p : Replaces(w, p) /\ Plain(p)
    BY <1>3 DEF Plainly
  <2>3. \A u \in Streams : InAgenda(CountDownOp(u))' <=> InAgenda(CountDownOp(u))
    BY <1>1, <1>2, <2>2, CountsSame
  <2>4. \A u \in Streams : Stays(u)' <=> Stays(u)
    BY <1>3, <2>1, <2>3 DEF Stays, Failed, Plainly
  <2>5. Tally'
    BY <1>3, <2>4, TallySame DEF Tallied, Plainly
  <2> QED
    BY <1>3, <2>1, <2>5 DEF Tallied, KilledOnce, AtDone, Plainly
<1> QED
  BY <1>8, <1>9

\* The step that counts s down.
LEMMA CountDownKeeps ==
  ASSUME Delivering, Tallied, Running, NEW w \in Threads, CountDown(w)
  PROVE  Tallied'
<1>1. Typed /\ agenda[w] \in Seq(Ops) /\ streamCount \in Int
  BY DEF Delivering, ExclusiveInv, Typed, TypeOK, AgendasOK, QueuesOK
<1>2. agenda[w] # <<>> /\ Head(agenda[w]).op = "countDown"
  BY DEF CountDown, At
<1>3. PICK s : s = Head(agenda[w]).s
  OBVIOUS
<1>4. Head(agenda[w]) = CountDownOp(s)
  <2>1. Head(agenda[w]) \in Ops
    BY <1>1, <1>2, HeadTail
  <2> QED
    BY <1>2, <1>3, <2>1 DEF Ops, StreamOps, CountDownOp
<1>5. InSeq(CountDownOp(s), agenda[w])
  BY <1>1, <1>2, <1>4, InSeqCons
<1>6. /\ s \in Streams /\ mode[s] = "killed" /\ ~Failed(s) /\ CountsOnce(agenda[w], s)
      /\ ~Others(w, CountDownOp(s))
  BY <1>5, CountsOwner, CountsAlone
<1>7. ~InSeq(CountDownOp(s), Tail(agenda[w]))
  <2>1. /\ Len(agenda[w]) \in Nat \ {0} /\ Len(Tail(agenda[w])) = Len(agenda[w]) - 1
        /\ Head(agenda[w]) = agenda[w][1]
        /\ \A i \in 1..Len(Tail(agenda[w])) : Tail(agenda[w])[i] = agenda[w][i + 1]
    BY <1>1, <1>2, HeadTail
  <2> SUFFICES ASSUME NEW i \in 1..Len(Tail(agenda[w])), Tail(agenda[w])[i] = CountDownOp(s) PROVE FALSE
    BY DEF InSeq
  <2>2. i + 1 \in 1..Len(agenda[w]) /\ 1 \in 1..Len(agenda[w]) /\ i + 1 # 1
    BY <2>1
  <2>3. agenda[w][i + 1].op = "countDown" /\ agenda[w][1].op = "countDown"
    BY <1>4, <2>1 DEF CountDownOp
  <2> QED
    BY <1>6, <2>2, <2>3 DEF CountsOnce
<1>8. Replaces(w, <<>>)
  BY Zenon DEF CountDown, Return, Continue, Replaces
<1>9. /\ streamCount' = streamCount - 1 /\ mode' = mode /\ kind' = kind /\ got' = got /\ kills' = kills /\ pc' = pc
  BY DEF CountDown, Return, Continue, streamVars, historyVars
<1>10. \A u : CountDownOp(u) = CountDownOp(s) => u = s
  BY DEF CountDownOp
<1>11. ASSUME NEW u PROVE InAgenda(CountDownOp(u))' <=> u # s /\ InAgenda(CountDownOp(u))
  <2>1. PICK c : c = CountDownOp(u)
    OBVIOUS
  <2>2. <<>> \in Seq(Ops) /\ ~InSeq(c, <<>>)
    BY DEF InSeq
  <2>3. /\ InAgenda(c) <=> Others(w, c) \/ c = Head(agenda[w]) \/ InSeq(c, Tail(agenda[w]))
        /\ InAgenda(c)' <=> Others(w, c) \/ InSeq(c, Tail(agenda[w]))
    BY <1>1, <1>2, <1>8, <2>2, AgendaSplits
  <2>4. InAgenda(c)' <=> u # s /\ InAgenda(c)
    BY <1>4, <1>6, <1>7, <1>10, <2>1, <2>3
  <2>5. InAgenda(CountDownOp(u))' <=> InAgenda(c)'
    BY <2>1 DEF InAgenda, CountDownOp
  <2> QED
    BY <2>1, <2>4, <2>5
<1>12. InAgenda(CountDownOp(s))
  BY <1>5 DEF InAgenda, InSeq
<1>13. Standing' = Standing \ {s} /\ s \in Standing
  BY <1>6, <1>9, <1>11, <1>12 DEF Standing, Stays, Failed
<1>14. Tally'
  <2>1. IsFiniteSet(Standing) /\ streamCount = Cardinality(Standing)
    BY DEF Tallied, Tally
  <2>2. IsFiniteSet(Standing \ {s}) /\ Cardinality(Standing \ {s}) = Cardinality(Standing) - 1
    BY <1>13, <2>1, FS_RemoveElement
  <2> QED
    BY <1>9, <1>13, <2>1, <2>2 DEF Tally
<1>15. KilledOnce' /\ AtDone'
  BY <1>9 DEF Tallied, KilledOnce, AtDone, Running
<1> QED
  BY <1>14, <1>15 DEF Tallied

\* The steps of a killed stream count it, and no other, down.
KillSteps(s, k, g) == CloseFunc(s, k, g) \o <<CloseDstOp(s), CloseRestOp(s, 1), CountDownOp(s)>>

LEMMA KillCounts ==
  ASSUME NEW s \in Streams, NEW k \in Kinds, NEW g \in Seq(Data), ~CloseFails(k, g), NEW p,
         p = KillSteps(s, k, g), NEW u
  PROVE  p \in Seq(Ops) /\ (InSeq(CountDownOp(u), p) <=> u = s)
<1>1. PICK q : q = CloseFunc(s, k, g)
  OBVIOUS
<1>2. q \in Seq(Ops)
  BY <1>1, CloseFuncTyped
<1>3. PICK e : e = <<CloseDstOp(s), CloseRestOp(s, 1), CountDownOp(s)>>
  OBVIOUS
<1>4. e \in Seq(Ops)
  <2>1. CloseDstOp(s) \in Ops /\ CloseRestOp(s, 1) \in Ops /\ CountDownOp(s) \in Ops
    BY DEF Ops, StreamOps, CloseDstOp, CloseRestOp, CountDownOp
  <2> QED
    BY <1>3, <2>1
<1>5. p \in Seq(Ops) /\ (InSeq(CountDownOp(u), p) <=> InSeq(CountDownOp(u), q) \/ InSeq(CountDownOp(u), e))
  BY <1>1, <1>2, <1>3, <1>4, InSeqConcat, ConcatFacts DEF KillSteps
<1>6. ~InSeq(CountDownOp(u), q)
  <2>1. \A i \in 1..Len(q) : q[i].op = "emit"
    <3>1. \A v : EmitOp(s, v, FALSE).op = "emit"
      BY DEF EmitOp
    <3>2. CASE k = "sort"
      <4>1. q = [i \in 1..Len(g) |-> EmitOp(s, g[i], FALSE)]
        BY <1>1, <3>2 DEF CloseFunc
      <4>2. Len(q) = Len(g)
        BY <4>1
      <4>3. ASSUME NEW i \in 1..Len(q) PROVE q[i] = EmitOp(s, g[i], FALSE)
        BY <4>1, <4>2
      <4> HIDE <1>1
      <4> QED
        BY <4>3, <3>1, Zenon
    <3>3. CASE k = "reduce"
      <4>1. q = <<EmitOp(s, g[1], FALSE)>>
        BY <1>1, <3>3 DEF CloseFunc
      <4>2. Len(q) = 1 /\ q[1] = EmitOp(s, g[1], FALSE)
        BY <4>1
      <4>3. EmitOp(s, g[1], FALSE).op = "emit"
        BY <3>1
      <4>4. PICK l : l = Len(q)
        OBVIOUS
      <4>5. ASSUME NEW i \in 1..l PROVE q[i].op = "emit"
        <5>1. l = 1
          BY <4>2, <4>4
        <5>2. i = 1
          BY <5>1
        <5> QED
          BY <4>2, <4>3, <5>2
      <4> QED
        BY <4>4, <4>5, Zenon
    <3>4. CASE k \notin {"sort", "reduce"}
      <4>1. q = <<>>
        BY <1>1, <3>4 DEF CloseFunc
      <4> QED
        BY <4>1
    <3> QED
      BY <3>2, <3>3, <3>4
  <2> QED
    BY <2>1 DEF InSeq, CountDownOp
<1>7. InSeq(CountDownOp(u), e) <=> u = s
  <2>1. Len(e) = 3 /\ e[1] = CloseDstOp(s) /\ e[2] = CloseRestOp(s, 1) /\ e[3] = CountDownOp(s)
    BY <1>3
  <2>2. CloseDstOp(s) # CountDownOp(u) /\ CloseRestOp(s, 1) # CountDownOp(u) /\ (CountDownOp(s) = CountDownOp(u) <=> u = s)
    BY DEF CloseDstOp, CloseRestOp, CountDownOp
  <2>3. 1..Len(e) = {1, 2, 3}
    BY <2>1
  <2> QED
    BY <2>1, <2>2, <2>3 DEF InSeq
<1> QED
  BY <1>5, <1>6, <1>7

\* The close_func is reached.
LEMMA KilledKeeps ==
  ASSUME Delivering, Tallied, Running, NEW w \in Workers, NEW s, NEW o, NEW r, NEW L, NEW M,
         Chosen(w, s, o, r, L, M), Kill(w), ~(refcnt[s] > 0)
  PROVE  Tallied'
<1>1. o.op = "kill" /\ o = Head(agenda[w]) /\ agenda[w] # <<>>
  BY DEF Chosen, Kill, At
<1>2. PICK x : /\ s \in Streams /\ Splits(L.a, o, r) /\ TypedLocal(L) /\ States(L, M, s) /\ mode[s] # "none"
               /\ Phase(L, s, x)
  BY ChosenFacts
<1>3. o.s = s /\ o.mode = L.mode /\ L.mode # "killed"
  BY <1>1, <1>2, KillFacts, ZenonT(40)
<1>4. PICK p : p = IF CloseFails(kind[s], got[s]) THEN <<>>
                   ELSE CloseFunc(s, kind[s], got[s]) \o <<CloseDstOp(s), CloseRestOp(s, 1), CountDownOp(s)>>
  OBVIOUS
<1>5. mode' = [mode EXCEPT ![s] = "killed"] /\ kills' = [kills EXCEPT ![s] = @ + 1] /\ Continue(w, p)
  <2>1. ~Awaited(s) /\ mode[s] = o.mode
    BY <1>2, <1>3 DEF Awaited, States
  <2> QED
    BY <2>1, <1>1, <1>3, <1>4, Zenon DEF Kill
<1>6. /\ Typed /\ mode \in [Streams -> Modes] /\ kills \in [Streams -> Nat] /\ w \in Threads
      /\ kind[s] \in Kinds /\ got[s] \in Seq(Data)
  BY <1>2 DEF Delivering, ExclusiveInv, Typed, TypeOK, StreamsOK, HistoryOK, Threads
<1>7. /\ mode'[s] = "killed" /\ \A u \in Streams : u # s => mode'[u] = mode[u]
      /\ kills'[s] = kills[s] + 1 /\ \A u \in Streams : u # s => kills'[u] = kills[u]
  BY <1>2, <1>5, <1>6
<1>8. kind' = kind /\ got' = got /\ streamCount' = streamCount /\ pc' = pc
  BY <1>5 DEF Kill, sharedVars, Continue
<1>9. Replaces(w, p)
  BY <1>5 DEF Continue, Replaces
<1>10. p \in Seq(Ops) /\ \A u : InSeq(CountDownOp(u), p) <=> u = s /\ ~CloseFails(kind[s], got[s])
  <2>1. CASE CloseFails(kind[s], got[s])
    <3>1. p = <<>>
      BY <1>4, <2>1
    <3> QED
      BY <2>1, <3>1 DEF InSeq
  <2>2. CASE ~CloseFails(kind[s], got[s])
    <3>1. p = CloseFunc(s, kind[s], got[s]) \o <<CloseDstOp(s), CloseRestOp(s, 1), CountDownOp(s)>>
      BY <1>4, <2>2, Zenon
    <3>2. ASSUME NEW u PROVE p \in Seq(Ops) /\ (InSeq(CountDownOp(u), p) <=> u = s)
      <4>1. PICK k, g : k = kind[s] /\ g = got[s]
        OBVIOUS
      <4>2. k \in Kinds /\ g \in Seq(Data) /\ ~CloseFails(k, g)
        BY <1>6, <2>2, <4>1
      <4>3. p = KillSteps(s, k, g)
        BY <3>1, <4>1 DEF KillSteps
      <4>4. s \in Streams
        BY <1>2
      <4>5. (p \in Seq(Ops) /\ (InSeq(CountDownOp(u), p) <=> u = s))
        BY <4>2, <4>3, <4>4, KillCounts, Zenon
      <4> QED
        BY <4>5
    <3>3. p \in Seq(Ops) /\ \A u : InSeq(CountDownOp(u), p) <=> u = s
      BY <3>2, Zenon
    <3> QED
      BY <2>2, <3>3, Zenon
  <2> QED
    BY <2>1, <2>2
<1>11. ASSUME NEW u PROVE InAgenda(CountDownOp(u))' <=> InAgenda(CountDownOp(u)) \/ (u = s /\ ~CloseFails(kind[s], got[s]))
  <2>1. PICK c : c = CountDownOp(u)
    OBVIOUS
  <2>2. c # Head(agenda[w])
    BY <1>1, <2>1 DEF CountDownOp
  <2>3. /\ InAgenda(c) <=> Others(w, c) \/ c = Head(agenda[w]) \/ InSeq(c, Tail(agenda[w]))
        /\ InAgenda(c)' <=> Others(w, c) \/ InSeq(c, p) \/ InSeq(c, Tail(agenda[w]))
    BY <1>1, <1>6, <1>9, <1>10, AgendaSplits
  <2>4. InAgenda(c)' <=> InAgenda(c) \/ (u = s /\ ~CloseFails(kind[s], got[s]))
    BY <1>10, <2>1, <2>2, <2>3
  <2>5. InAgenda(CountDownOp(u))' <=> InAgenda(c)'
    BY <2>1 DEF InAgenda, CountDownOp
  <2> QED
    BY <2>1, <2>4, <2>5
<1>12. mode[s] \notin {"none", "killed"}
  BY <1>2, <1>3 DEF States
<1>13. \A u \in Streams : Stays(u)' <=> Stays(u)
  <2> SUFFICES ASSUME NEW u \in Streams PROVE Stays(u)' <=> Stays(u)
    OBVIOUS
  <2>1. CASE u = s
    <3>1. Failed(s)' \/ InAgenda(CountDownOp(s))'
      BY <1>7, <1>8, <1>11 DEF Failed
    <3> QED
      BY <1>12, <2>1, <3>1 DEF Stays
  <2>2. CASE u # s
    BY <1>7, <1>8, <1>11, <2>2 DEF Stays, Failed
  <2> QED
    BY <2>1, <2>2
<1>14. Tally'
  BY <1>8, <1>13, TallySame DEF Tallied
<1>15. KilledOnce'
  <2>1. kills[s] = 0
    BY <1>2, <1>12 DEF Tallied, KilledOnce
  <2> QED
    BY <1>7, <2>1 DEF Tallied, KilledOnce
<1> QED
  BY <1>8, <1>14, <1>15 DEF Tallied, AtDone

LEMMA KillKeeps ==
  ASSUME Delivering, Tallied, Running, NEW w \in Workers, Kill(w)
  PROVE  Tallied'
<1>1. Head(agenda[w]).op = "kill" /\ agenda[w] # <<>>
  BY DEF Kill, At
<1>2. PICK s, o, r, L, M : Chosen(w, s, o, r, L, M)
  BY <1>1, ChosenExists
<1>3. CASE ~(refcnt[s] > 0)
  BY <1>2, <1>3, KilledKeeps
<1>4. CASE refcnt[s] > 0
  <2>1. PICK x : s \in Streams /\ Splits(L.a, o, r) /\ TypedLocal(L) /\ Phase(L, s, x)
    BY <1>2, ChosenFacts
  <2>2. o = Head(agenda[w])
    BY <1>2 DEF Chosen
  <2>3. o.s = s
    BY <1>1, <2>1, <2>2, KillFacts, ZenonT(40)
  <2>4. Return(w) /\ UNCHANGED <<mode, kills>>
    BY <1>4, <2>2, <2>3, Zenon DEF Kill, Awaited
  <2>5. kind' = kind /\ got' = got /\ streamCount' = streamCount /\ pc' = pc /\ Replaces(w, <<>>)
    <3>1. kind' = kind /\ got' = got /\ streamCount' = streamCount
      BY DEF Kill, sharedVars
    <3> QED
      BY <2>4, <3>1, Zenon DEF Return, Continue, Replaces
  <2>6. Typed /\ w \in Threads
    BY DEF Delivering, ExclusiveInv, Threads
  <2>7. \A u \in Streams : InAgenda(CountDownOp(u))' <=> InAgenda(CountDownOp(u))
    BY <1>1, <2>5, <2>6, PlainNone, CountsSame
  <2>8. \A u \in Streams : Stays(u)' <=> Stays(u)
    BY <2>4, <2>5, <2>7 DEF Stays, Failed
  <2>9. Tally'
    BY <2>5, <2>8, TallySame DEF Tallied
  <2> QED
    BY <2>4, <2>5, <2>9 DEF Tallied, KilledOnce, AtDone
<1> QED
  BY <1>3, <1>4

\* strm_stream_new counts the new stream.
LEMMA NewKeeps ==
  ASSUME Delivering, Tallied, Running, StreamNew(Main)
  PROVE  Tallied'
<1>1. /\ Given /\ MainOK /\ Typed /\ Main \in Threads /\ agenda[Main] \in Seq(Ops)
      /\ streamCount \in Int /\ kind \in [Streams -> Kinds] /\ mode \in [Streams -> Modes]
  BY DEF Delivering, Flowing, ExclusiveInv, Typed, TypeOK, AgendasOK, QueuesOK, StreamsOK, Threads
<1>2. PICK a : a = agenda[Main]
  OBVIOUS
<1>3. a # <<>> /\ Head(a).op = "new"
  BY <1>2 DEF StreamNew, At
<1>4. PICK k \in 0..Len(program) : Rest(a, k) /\ \A s \in Streams : mode[s] # "none" <=> s \in Created(program, k)
  BY <1>1, <1>2, <1>3, MainComes
<1>5. PICK o : o = Head(a)
  OBVIOUS
<1>6. k + 1 \in 1..Len(program) /\ o = program[k + 1]
  <2>1. Len(a) \in Nat \ {0} /\ o = a[1]
    BY <1>1, <1>2, <1>3, <1>5, HeadTail
  <2>2. Len(program) \in Nat /\ Len(a) = Len(program) - k /\ 1 \in 1..Len(a)
    BY <1>1, <1>4, <2>1, ProgramTyped DEF Rest
  <2> QED
    BY <1>4, <2>1, <2>2 DEF Rest
<1>7. PICK s : s = o.s
  OBVIOUS
<1>8. s \in Streams /\ s \notin Created(program, k) /\ o.kind \in Kinds
  BY <1>1, <1>3, <1>5, <1>6, <1>7, NewFacts
<1>9. mode[s] = "none"
  BY <1>4, <1>8
<1>10. /\ mode' = [mode EXCEPT ![s] = ModeOf(o.kind)] /\ kind' = [kind EXCEPT ![s] = o.kind]
       /\ streamCount' = streamCount + 1 /\ got' = got /\ kills' = kills /\ pc' = pc
       /\ Replaces(Main, <<>>)
  BY <1>2, <1>5, <1>7, Zenon DEF StreamNew, Return, Continue, Replaces, historyVars
<1>11. /\ mode'[s] \notin {"none", "killed"}
       /\ \A u \in Streams : u # s => mode'[u] = mode[u] /\ kind'[u] = kind[u]
  BY <1>1, <1>8, <1>10 DEF ModeOf
<1>12. \A u \in Streams : InAgenda(CountDownOp(u))' <=> InAgenda(CountDownOp(u))
  BY <1>1, <1>2, <1>3, <1>10, PlainNone, CountsSame
<1>13. ~Stays(s)
  BY <1>9, CountsKilled DEF Stays, Failed
<1>14. Standing' = Standing \cup {s} /\ s \notin Standing
  <2>1. \A u \in Streams : Stays(u)' <=> u = s \/ Stays(u)
    BY <1>10, <1>11, <1>12 DEF Stays, Failed
  <2> QED
    BY <1>8, <1>13, <2>1 DEF Standing
<1>15. Tally'
  <2>1. IsFiniteSet(Standing) /\ streamCount = Cardinality(Standing)
    BY DEF Tallied, Tally
  <2>2. IsFiniteSet(Standing \cup {s}) /\ Cardinality(Standing \cup {s}) = Cardinality(Standing) + 1
    BY <1>14, <2>1, FS_AddElement
  <2> QED
    BY <1>10, <1>14, <2>1, <2>2 DEF Tally
<1>16. KilledOnce'
  <2>1. \A u \in Streams : mode'[u] = "killed" <=> mode[u] = "killed"
    BY <1>8, <1>9, <1>11
  <2> QED
    BY <1>10, <2>1 DEF Tallied, KilledOnce
<1> QED
  BY <1>10, <1>15, <1>16 DEF Tallied, AtDone, Running

LEMMA SamesKeep ==
  ASSUME Tallied, agenda' = agenda, kind' = kind, mode' = mode, got' = got, kills' = kills, streamCount' = streamCount,
         pc'[Main] = "done" => pc[Main] = "done" \/ streamCount = 0
  PROVE  Tallied'
<1>1. \A s \in Streams : Stays(s)' <=> Stays(s)
  BY DEF Stays, Failed, InAgenda, CountDownOp
<1>2. Tally'
  BY <1>1, TallySame DEF Tallied
<1>3. KilledOnce' /\ AtDone'
  BY DEF Tallied, KilledOnce, AtDone
<1> QED
  BY <1>2, <1>3 DEF Tallied

\* A task of a stream that is not killed begins.
LEMMA DrainKeeps ==
  ASSUME Delivering, Tallied, Running, NEW w \in Workers, Drain(w)
  PROVE  Tallied'
<1>1. /\ ExclusiveInv /\ Typed /\ IdleAgendas /\ w \in Threads /\ w # Main /\ Main \in Threads
      /\ agenda \in [Threads -> Seq(Ops)] /\ pc \in [Threads -> Labels]
      /\ got \in [Streams -> Seq(Data)]
  BY SchedulerAssumption
     DEF Delivering, Places, ExclusiveInv, Typed, TypeOK, AgendasOK, ThreadsOK, HistoryOK, Threads
<1>2. PICK s : s = cur[w]
  OBVIOUS
<1>3. PICK x : x = Head(tasks[s])
  OBVIOUS
<1>4. PICK call : call = IF x.f = "close" THEN <<CloseOp(s)>> ELSE StartFunc(s, kind[s], n[s], limit[s], x.d)
  OBVIOUS
<1>5. kind' = kind /\ mode' = mode /\ kills' = kills /\ streamCount' = streamCount
  BY DEF Drain, sharedVars
<1>6. CASE mode[s] = "killed"
  <2>1. pc' = pc /\ agenda' = agenda /\ got' = got
    BY <1>2, <1>6 DEF Drain, Discards
  <2> QED
    BY <1>5, <2>1, SamesKeep
<1>7. CASE mode[s] # "killed"
  <2>1. /\ GoTo(w, "run") /\ agenda' = [agenda EXCEPT ![w] = call \o <<AfterOp(s)>>]
        /\ \A u \in Streams : u # s => got'[u] = got[u]
    BY <1>1, <1>2, <1>3, <1>4, <1>7 DEF Drain, Discards
  <2>2. agenda[w] = <<>>
    BY <1>1 DEF Drain, IdleAgendas
  <2>3. CountsNone(call \o <<AfterOp(s)>>)
    <3>1. \E c \in {<<CloseOp(s)>>, <<EmitOp(s, <<s, n[s]>>, TRUE), SeqNextOp(s)>>, <<EmitOp(s, x.d, FALSE)>>,
                    <<EmitOp(s, Nil, FALSE)>>, <<EmitOp(s, x.d, FALSE), TakeNextOp(s)>>, <<>>} : c = call
      BY <1>4, Zenon DEF StartFunc, GenSeq, IterTake
    <3>2. /\ CloseOp(s).op # "countDown" /\ SeqNextOp(s).op # "countDown" /\ TakeNextOp(s).op # "countDown"
          /\ AfterOp(s).op # "countDown" /\ \A d, b : EmitOp(s, d, b).op # "countDown"
      BY DEF CloseOp, SeqNextOp, TakeNextOp, AfterOp, EmitOp
    <3>3. Plain(call \o <<AfterOp(s)>>)
      BY <3>1, <3>2, PlainCall
    <3> QED
      BY <3>3 DEF Plain
  <2>4. ASSUME NEW u PROVE InAgenda(CountDownOp(u))' <=> InAgenda(CountDownOp(u))
    <3>1. ~InSeq(CountDownOp(u), agenda[w]) /\ ~InSeq(CountDownOp(u), agenda'[w])
      <4>1. agenda'[w] = call \o <<AfterOp(s)>>
        BY <1>1, <2>1
      <4>2. ~InSeq(CountDownOp(u), call \o <<AfterOp(s)>>)
        BY <2>3 DEF InSeq, CountsNone, CountDownOp
      <4> QED
        BY <2>2, <4>1, <4>2 DEF InSeq
    <3>2. \A t \in Threads \ {w} : agenda'[t] = agenda[t]
      BY <1>1, <2>1
    <3>3. InAgenda(CountDownOp(u)) <=> \E t \in Threads : InSeq(CountDownOp(u), agenda[t])
      BY DEF InAgenda, InSeq
    <3>4. InAgenda(CountDownOp(u))' <=> \E t \in Threads : InSeq(CountDownOp(u), agenda'[t])
      BY DEF InAgenda, InSeq, CountDownOp
    <3> QED
      BY <3>1, <3>2, <3>3, <3>4
  <2>5. \A u \in Streams : Stays(u)' <=> Stays(u)
    <3> SUFFICES ASSUME NEW u \in Streams PROVE Stays(u)' <=> Stays(u)
      OBVIOUS
    <3>1. mode[u] # "killed" \/ got'[u] = got[u]
      BY <1>7, <2>1
    <3> QED
      BY <1>5, <2>4, <3>1 DEF Stays, Failed
  <2>6. Tally'
    BY <1>5, <2>5, TallySame DEF Tallied
  <2>7. pc'[Main] = pc[Main]
    BY <1>1, <2>1 DEF GoTo
  <2> QED
    BY <1>5, <2>6, <2>7 DEF Tallied, KilledOnce, AtDone
<1> QED
  BY <1>6, <1>7

LEMMA LoopKeeps ==
  ASSUME Delivering, Tallied, Running, NEW w \in Workers, Loop(w)
  PROVE  Tallied'
<1>1. CASE Drain(w)
  BY <1>1, DrainKeeps
<1>2. CASE ~Drain(w)
  <2>1. pc \in [Threads -> Labels] /\ w # Main /\ Main \in Threads
    BY SchedulerAssumption DEF Delivering, ExclusiveInv, Typed, TypeOK, ThreadsOK, Threads
  <2>2. /\ agenda' = agenda /\ kind' = kind /\ mode' = mode /\ got' = got /\ kills' = kills
        /\ streamCount' = streamCount
    BY <1>2 DEF Loop, GetStream, GetProducer, Claim, TaskDone, Drained, Release, CheckCount,
                sharedVars, streamVars, historyVars
  <2>3. pc'[Main] = pc[Main]
    BY <1>2, <2>1 DEF Loop, GetStream, GetProducer, Claim, TaskDone, Drained, Release, CheckCount, GoTo
  <2> QED
    BY <2>2, <2>3, SamesKeep
<1> QED
  BY <1>1, <1>2

LEMMA WorkerKeeps ==
  ASSUME Delivering, ExclusiveInv', Tallied, NEW w \in Workers, WorkerStep(w)
  PROVE  Tallied'
<1>1. Running /\ (Step(w) \/ Loop(w)) /\ w \in Threads
  BY DEF WorkerStep, Threads
<1>2. CASE Step(w)
  <2>1. agenda[w] # <<>>
    BY <1>2 DEF Step, StreamNew, Connect, Ref, Start, Push, AddTask, AddStream, Emit, DropDst, EmitRest, TerminationCheck,
         Close, Kill, CloseDst, CloseRest, CountDown, SeqNext, TakeNext, After, At
  <2>2. PICK s, o, r, L, M : Chosen(w, s, o, r, L, M)
    BY <2>1, ChosenExists
  <2>3. Splits(L.a, o, r) /\ \E x \in {-1, 0, 1} : Phase(L, s, x)
    BY <2>2, ChosenFacts
  <2>4. Head(agenda[w]).op # "new"
    <3>1. o.op # "new" /\ o = Head(agenda[w])
      BY <2>2, <2>3, PhaseOps DEF Splits, Chosen
    <3> QED
      BY <3>1
  <2>5. CASE Kill(w)
    BY <1>1, <2>5, KillKeeps
  <2>6. CASE CountDown(w)
    BY <1>1, <2>6, CountDownKeeps
  <2>7. CASE TerminationCheck(w)
    BY <1>1, <2>7, CheckKeeps
  <2>8. CASE ~Kill(w) /\ ~CountDown(w) /\ ~TerminationCheck(w)
    <3>1. Head(agenda[w]).op \notin {"kill", "countDown", "check"}
      BY <1>2, <2>8
         DEF Step, StreamNew, Connect, Ref, Start, Push, AddTask, AddStream, Emit, DropDst, EmitRest,
             Close, CloseDst, CloseRest, SeqNext, TakeNext, After, At
    <3> QED
      BY <1>1, <1>2, <2>4, <3>1, PlainKeeps
  <2> QED
    BY <2>5, <2>6, <2>7, <2>8
<1> QED
  BY <1>1, <1>2, LoopKeeps

LEMMA MainKeeps ==
  ASSUME Delivering, Tallied, MainStep
  PROVE  Tallied'
<1>1. Running /\ Main \in Threads /\ agenda[Main] \in Seq(Ops) /\ pc \in [Threads -> Labels]
  BY DEF MainStep, Delivering, ExclusiveInv, Typed, TypeOK, AgendasOK, ThreadsOK, Threads
<1>2. CASE Step(Main)
  <2>1. PICK a : a = agenda[Main]
    OBVIOUS
  <2>2. a # <<>>
    BY <1>2, <2>1 DEF Step, StreamNew, Connect, Ref, Start, Push, AddTask, AddStream, Emit, DropDst, EmitRest,
         TerminationCheck, Close, Kill, CloseDst, CloseRest, CountDown, SeqNext, TakeNext, After, At
  <2>3. Head(a).op \in {"new", "connect", "ref", "start", "push", "addTask", "addStream"}
    <3>1. CASE Head(a).op \notin {"new", "connect"}
      <4>1. \E k \in Lines(program) : Connecting(a, k)
        BY <1>1, <2>1, <2>2, <3>1, MainInside
      <4> QED
        BY <4>1 DEF Connecting, Is, RefOp, StartOp, PushOp, AddTaskOp, AddStreamOp
    <3> QED
      BY <3>1
  <2>4. CASE StreamNew(Main)
    BY <1>1, <2>4, NewKeeps
  <2>5. CASE ~StreamNew(Main)
    <3>1. Head(agenda[Main]).op # "new"
      BY <1>2, <2>5
         DEF Step, Connect, Ref, Start, Push, AddTask, AddStream, Emit, DropDst, EmitRest, TerminationCheck,
             Close, Kill, CloseDst, CloseRest, CountDown, SeqNext, TakeNext, After, At
    <3> QED
      BY <1>1, <1>2, <2>1, <2>3, <3>1, PlainKeeps
  <2> QED
    BY <2>4, <2>5
<1>3. CASE EnterLoop \/ LeaveLoop
  <2>1. /\ agenda' = agenda /\ kind' = kind /\ mode' = mode /\ got' = got /\ kills' = kills
        /\ streamCount' = streamCount
    BY <1>3 DEF EnterLoop, LeaveLoop, sharedVars, streamVars, historyVars
  <2>2. pc'[Main] = "done" => streamCount = 0
    BY <1>1, <1>3 DEF EnterLoop, LeaveLoop, GoTo
  <2> QED
    BY <2>1, <2>2, SamesKeep
<1> QED
  BY <1>2, <1>3 DEF MainStep

LEMMA NextTallied ==
  ASSUME Delivering, Delivering', Tallied, [Next]_vars
  PROVE  Tallied'
<1>1. CASE MainStep
  BY <1>1, MainKeeps
<1>2. ASSUME NEW w \in Workers, WorkerStep(w) PROVE Tallied'
  BY <1>2, WorkerKeeps DEF Delivering
<1>3. CASE UNCHANGED vars
  BY <1>3, SamesKeep DEF vars, sharedVars, streamVars, threadVars, historyVars
<1> QED
  BY <1>1, <1>2, <1>3 DEF Next, Ended

LEMMA InitTallied ==
  ASSUME Init, Delivering
  PROVE  Tallied
<1>1. \A s \in Streams : mode[s] = "none" /\ kills[s] = 0
  BY DEF Init
<1>2. Standing = {}
  BY <1>1, CountsKilled DEF Standing, Stays, Failed
<1>3. streamCount = 0
  BY DEF Init
<1> QED
  BY <1>1, <1>2, <1>3, FS_EmptySet DEF Tallied, Tally, KilledOnce, AtDone

LEMMA AlwaysTallied ==
  ASSUME \A p \in Scripts : ReadyToRun(p)
  PROVE  Spec => [](Delivering /\ Tallied)
<1>1. Init => Delivering /\ Tallied
  <2> SUFFICES ASSUME Init PROVE Delivering /\ Tallied
    OBVIOUS
  <2>1. Given
    BY DEF Given, Init
  <2> QED
    BY <2>1, InitKeeps, InitTallied
<1>2. Delivering /\ Tallied /\ [Next]_vars => Delivering' /\ Tallied'
  BY NextKeeps, NextTallied
<1> QED
  BY <1>1, <1>2, PTL DEF Spec

\* In a program that is complete before it runs close_func is reached once for each
\* stream, also for those that emit in it.
THEOREM ClosesOnce ==
  ASSUME \A p \in Scripts : ReadyToRun(p)
  PROVE  Spec => []CloseFuncOnce
<1>1. Tallied => CloseFuncOnce
  <2> SUFFICES ASSUME Tallied, NEW s \in Streams PROVE kills[s] <= 1
    BY DEF CloseFuncOnce
  <2>1. kills[s] = 0 \/ kills[s] = 1
    BY DEF Tallied, KilledOnce
  <2> QED
    BY <2>1
<1>2. Spec => [](Delivering /\ Tallied)
  BY AlwaysTallied
<1> QED
  BY <1>1, <1>2, PTL

\* The process does not end while a stream of a program that was complete before it
\* ran is open, whatever fails.
THEOREM ReturnsSafely ==
  ASSUME \A p \in Scripts : ReadyToRun(p)
  PROVE  Spec => []ReturnsAfterAll
<1>1. Tallied => ReturnsAfterAll
  <2> SUFFICES ASSUME Tallied, pc[Main] = "done", NEW s \in Streams PROVE mode[s] \in {"none", "killed"}
    BY DEF ReturnsAfterAll
  <2>1. Standing = {}
    BY FS_EmptySet DEF Tallied, Tally, AtDone
  <2>2. ~Stays(s)
    BY <2>1 DEF Standing
  <2> QED
    BY <2>2 DEF Stays
<1>2. Spec => [](Delivering /\ Tallied)
  BY AlwaysTallied
<1> QED
  BY <1>1, <1>2, PTL

\* A failed close_func leaves the stream counted: strm_loop does not return after one,
\* in a program that was complete before it ran.
THEOREM FailureHolds ==
  ASSUME \A p \in Scripts : ReadyToRun(p)
  PROVE  Spec => []NoEndAfterFailure
<1>1. Tallied => NoEndAfterFailure
  <2> SUFFICES ASSUME Tallied, NEW s \in Streams, Failed(s), pc[Main] = "done" PROVE FALSE
    BY DEF NoEndAfterFailure
  <2>1. Standing = {}
    BY FS_EmptySet DEF Tallied, Tally, AtDone
  <2> QED
    BY <2>1 DEF Standing, Stays
<1>2. Spec => [](Delivering /\ Tallied)
  BY AlwaysTallied
<1> QED
  BY <1>1, <1>2, PTL

\* stream_count is exact for every program that is complete before it runs and has no
\* reduce, which may fail.
THEOREM CountsExactly ==
  ASSUME \A p \in Scripts : ReadyToRun(p) /\ \A i \in 1..Len(p) : p[i].op = "new" => p[i].kind # "reduce"
  PROVE  Spec => []CountsLiveStreams
<1>1. Delivering /\ Tallied => CountsLiveStreams
  <2> SUFFICES ASSUME Delivering, Tallied PROVE CountsLiveStreams
    OBVIOUS
  <2>1. Given /\ MainOK /\ Kinded
    BY DEF Delivering, Flowing
  <2>2. ASSUME NEW s \in Streams, Failed(s) PROVE FALSE
    <3>1. mode[s] # "none" /\ kind[s] = KindOf(s) /\ kind[s] = "reduce"
      BY <2>1, <2>2 DEF Kinded, Failed, CloseFails
    <3>2. PICK k \in 0..Len(program) : s \in Created(program, k)
      BY <2>1, <3>1 DEF MainOK, MainAt
    <3>3. PICK i \in 1..k : program[i].op = "new" /\ program[i].s = s
      BY <2>1, <3>2, CreatedBy
    <3>4. Len(program) \in Nat /\ program \in Scripts
      BY <2>1, SchedulerAssumption DEF Given
    <3>5. i \in 1..Len(program)
      BY <3>4
    <3>6. KindOf(s) = program[i].kind
      BY <2>1, <3>3, <3>5, Declares DEF KindOf, KindIn
    <3> QED
      BY <3>1, <3>3, <3>4, <3>5, <3>6
  <2>3. Standing = {s \in Streams : mode[s] \notin {"none", "killed"} \/ InAgenda(CountDownOp(s))}
    BY <2>2 DEF Standing, Stays
  <2> QED
    BY <2>3 DEF Tallied, Tally, CountsLiveStreams
<1>2. Spec => [](Delivering /\ Tallied)
  BY AlwaysTallied
<1> QED
  BY <1>1, <1>2, PTL
=============================================================================
