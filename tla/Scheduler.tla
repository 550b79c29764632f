------------------------------ MODULE Scheduler ------------------------------
(***************************************************************************)
(* The stream scheduler of src/src/core.c.                                 *)
(*                                                                         *)
(* The main thread executes the program, which creates streams and         *)
(* connects them, and then waits in strm_loop.  Worker threads take        *)
(* streams from two global queues and run the tasks in the stream's own    *)
(* queue.  A stream's excl flag keeps two workers out of it; everything    *)
(* else (mode, refcnt, the queues, stream_count) is shared between the     *)
(* threads and each access is a step.                                      *)
(***************************************************************************)
EXTENDS Callbacks, FiniteSets

CONSTANTS Workers,     \* worker threads (STRM_WORKER_MAX, or one per CPU)
          Main,        \* the main thread
          Scripts      \* the programs: sequences of NewOp and ConnectOp

Threads == Workers \union {Main}

ScriptOps == {o \in Ops : o.op \in {"new", "connect"}}

\* Each stream is created once, by its strm_stream_new, and connected afterwards.
Created(p, k) == {p[j].s : j \in {i \in 1..k : p[i].op = "new"}}
WellFormed(p) == \A k \in 1..Len(p) :
  /\ p[k].op = "new" => p[k].s \notin Created(p, k - 1)
  /\ p[k].op = "connect" => {p[k].s, p[k].dst} \subseteq Created(p, k - 1)

ASSUME SchedulerAssumption == /\ Main \notin Workers
                              /\ Scripts \subseteq Seq(ScriptOps)
                              /\ \A p \in Scripts : WellFormed(p)

VARIABLES
  kind,          \* start_func and close_func
  limit, n,      \* strm->data of seq (end, next number) and take (count left)
  mode, dst, rest, refcnt, excl,
  tasks,         \* strm->queue
  queue, prodQueue,
  streamCount,   \* stream_count
  started,       \* workers != NULL
  pc, cur,       \* where a thread is in task_loop or main; the stream it holds
  agenda,        \* the steps a thread is inside of
  program,       \* the program, for reference
  sent,          \* the elements a stream emitted
  got,           \* the elements a stream's start_func was called with
  kills          \* how often a stream's close_func was reached

sharedVars == <<queue, prodQueue, streamCount, started>>
streamVars == <<kind, limit, n, mode, dst, rest, refcnt, excl, tasks>>
threadVars == <<pc, cur, agenda>>
historyVars == <<program, sent, got, kills>>
vars == <<sharedVars, streamVars, threadVars, historyVars>>

StreamsOK ==
  /\ kind \in [Streams -> Kinds]
  /\ limit \in [Streams -> Nat] /\ n \in [Streams -> Int]
  /\ mode \in [Streams -> Modes]
  /\ dst \in [Streams -> Streams \union {NoStream}]
  /\ rest \in [Streams -> Seq(Streams)]
  /\ refcnt \in [Streams -> Int] /\ excl \in [Streams -> {0, 1}]

QueuesOK ==
  /\ tasks \in [Streams -> Seq(Tasks)]
  /\ queue \in Seq(Streams) /\ prodQueue \in Seq(Streams)
  /\ streamCount \in Int /\ started \in BOOLEAN

Labels == {"unborn", "get", "getProd", "claim", "drain", "run", "release",
           "checkCount", "exit", "build", "loop", "done"}

ThreadsOK ==
  /\ pc \in [Threads -> Labels]
  /\ cur \in [Workers -> Streams \union {NoStream}]

AgendasOK == agenda \in [Threads -> Seq(Ops)]

HistoryOK ==
  /\ program \in Scripts
  /\ sent \in [Streams -> Seq(Data)] /\ got \in [Streams -> Seq(Data)]
  /\ kills \in [Streams -> Nat]

TypeOK == StreamsOK /\ QueuesOK /\ ThreadsOK /\ AgendasOK /\ HistoryOK

Init ==
  /\ kind = [s \in Streams |-> "map"]
  /\ limit = [s \in Streams |-> 0] /\ n = [s \in Streams |-> 0]
  /\ mode = [s \in Streams |-> "none"]
  /\ dst = [s \in Streams |-> NoStream] /\ rest = [s \in Streams |-> <<>>]
  /\ refcnt = [s \in Streams |-> 0] /\ excl = [s \in Streams |-> 0]
  /\ tasks = [s \in Streams |-> <<>>]
  /\ queue = <<>> /\ prodQueue = <<>>
  /\ streamCount = 0 /\ started = FALSE
  /\ pc = [t \in Threads |-> IF t = Main THEN "build" ELSE "unborn"]
  /\ cur = [w \in Workers |-> NoStream]
  /\ program \in Scripts
  /\ agenda = [t \in Threads |-> IF t = Main THEN program ELSE <<>>]
  /\ sent = [s \in Streams |-> <<>>] /\ got = [s \in Streams |-> <<>>]
  /\ kills = [s \in Streams |-> 0]

-----------------------------------------------------------------------------
(* The agenda.                                                             *)

\* Thread t is about to do a step of the kind op.
At(t, op) == /\ pc[t] \in {"run", "build"}
             /\ agenda[t] # <<>>
             /\ Head(agenda[t]).op = op

\* The step is done and ops are what it calls, before what was left to do.
Continue(t, ops) == /\ agenda' = [agenda EXCEPT ![t] = ops \o Tail(@)]
                    /\ UNCHANGED <<pc, cur>>

Return(t) == Continue(t, <<>>)

-----------------------------------------------------------------------------
(* Creating and connecting streams.                                        *)

\* strm_stream_new
StreamNew(t) ==
  /\ At(t, "new")
  /\ LET o == Head(agenda[t])
         s == o.s IN
     /\ kind' = [kind EXCEPT ![s] = o.kind]
     /\ limit' = [limit EXCEPT ![s] = o.limit]
     /\ n' = [n EXCEPT ![s] = IF o.kind = "seq" THEN 1 ELSE o.limit]
     /\ mode' = [mode EXCEPT ![s] = ModeOf(o.kind)]
     /\ streamCount' = streamCount + 1
     /\ Return(t)
  /\ UNCHANGED <<queue, prodQueue, started, dst, rest, refcnt, excl, tasks,
                 historyVars>>

\* strm_stream_connect, up to the link: dst, or one more of rest
Connect(t) ==
  /\ At(t, "connect")
  /\ LET o == Head(agenda[t]) IN
     /\ IF dst[o.s] = NoStream
          THEN dst' = [dst EXCEPT ![o.s] = o.dst] /\ UNCHANGED rest
          ELSE rest' = [rest EXCEPT ![o.s] = Append(@, o.dst)] /\ UNCHANGED dst
     /\ Continue(t, <<RefOp(o.dst), StartOp(o.s)>>)
  /\ UNCHANGED <<sharedVars, kind, limit, n, mode, refcnt, excl, tasks,
                 historyVars>>

Ref(t) ==
  /\ At(t, "ref")
  /\ refcnt' = [refcnt EXCEPT ![Head(agenda[t]).s] = @ + 1]
  /\ Return(t)
  /\ UNCHANGED <<sharedVars, kind, limit, n, mode, dst, rest, excl, tasks,
                 historyVars>>

\* task_init: the workers start once
TaskInit == /\ started' = TRUE
            /\ pc' = IF started THEN pc
                     ELSE [t \in Threads |-> IF t \in Workers THEN "get" ELSE pc[t]]

\* ... and its end: a producer's first task
Start(t) ==
  /\ At(t, "start")
  /\ LET s == Head(agenda[t]).s
         producing == mode[s] = "producer" IN
     /\ agenda' = [agenda EXCEPT ![t] =
           (IF producing THEN <<PushOp(s, "start", Nil)>> ELSE <<>>) \o Tail(@)]
     /\ IF producing THEN TaskInit ELSE UNCHANGED <<started, pc>>
  /\ UNCHANGED <<queue, prodQueue, streamCount, streamVars, cur, historyVars>>

-----------------------------------------------------------------------------
(* Pushing a task: the guard, the stream's own queue, a global queue.      *)

\* mutant: the stream is queued before its task
StreamBeforeTask(s, f, d) == <<AddStreamOp(s), AddTaskOp(s, f, d)>>

\* strm_task_add
TaskAdd(s, f, d) == <<AddTaskOp(s, f, d), AddStreamOp(s)>>

\* strm_task_push
Push(t) ==
  /\ At(t, "push")
  /\ LET o == Head(agenda[t]) IN
     Continue(t, IF mode[o.s] \in {"killed", "dying"} THEN <<>>
                 ELSE TaskAdd(o.s, o.f, o.d))
  /\ UNCHANGED <<sharedVars, streamVars, historyVars>>

\* mutant: the queue of a stream is a stack
AddTaskFirst(t) ==
  /\ At(t, "addTask")
  /\ LET o == Head(agenda[t]) IN
     tasks' = [tasks EXCEPT ![o.s] = <<[f |-> o.f, d |-> o.d]>> \o @]
  /\ Return(t)
  /\ UNCHANGED <<sharedVars, kind, limit, n, mode, dst, rest, refcnt, excl,
                 historyVars>>

\* strm_task_add, first half
AddTask(t) ==
  /\ At(t, "addTask")
  /\ LET o == Head(agenda[t]) IN
     tasks' = [tasks EXCEPT ![o.s] = Append(@, [f |-> o.f, d |-> o.d])]
  /\ Return(t)
  /\ UNCHANGED <<sharedVars, kind, limit, n, mode, dst, rest, refcnt, excl,
                 historyVars>>

\* strm_task_add, second half
AddStream(t) ==
  /\ At(t, "addStream")
  /\ LET s == Head(agenda[t]).s IN
     IF mode[s] = "producer"
       THEN prodQueue' = Append(prodQueue, s) /\ UNCHANGED queue
       ELSE queue' = Append(queue, s) /\ UNCHANGED prodQueue
  /\ Return(t)
  /\ UNCHANGED <<streamCount, started, streamVars, historyVars>>

-----------------------------------------------------------------------------
(* strm_emit.                                                              *)

Emit(t) ==
  /\ At(t, "emit")
  /\ LET o == Head(agenda[t])
         s == o.s
         toDst == IF dst[s] = NoStream THEN <<>>
                  ELSE <<PushOp(dst[s], "start", o.d), DropDstOp(s)>>
         again == IF o.again THEN <<PushOp(s, "start", Nil)>> ELSE <<>> IN
     /\ Continue(t, IF mode[s] = "dying" THEN <<>>
                    ELSE IF o.d = Nil THEN again
                    ELSE toDst \o <<EmitRestOp(s, o.d, 1), CheckOp(s, o.again)>>)
     /\ sent' = [sent EXCEPT ![s] = IF mode[s] = "dying" \/ o.d = Nil THEN @
                                    ELSE Append(@, o.d)]
  /\ UNCHANGED <<sharedVars, streamVars, program, got, kills>>

\* a killed dst is forgotten
DropDst(t) ==
  /\ At(t, "dropDst")
  /\ LET s == Head(agenda[t]).s IN
     dst' = [dst EXCEPT ![s] = IF mode[@] = "killed" THEN NoStream ELSE @]
  /\ Return(t)
  /\ UNCHANGED <<sharedVars, kind, limit, n, mode, rest, refcnt, excl, tasks,
                 historyVars>>

EmitRest(t) ==
  /\ At(t, "emitRest")
  /\ LET o == Head(agenda[t]) IN
     Continue(t, IF o.i > Len(rest[o.s]) THEN <<>>
                 ELSE <<PushOp(rest[o.s][o.i], "start", o.d),
                        EmitRestOp(o.s, o.d, o.i + 1)>>)
  /\ UNCHANGED <<sharedVars, streamVars, historyVars>>

\* Nobody listens to s any more.
Unheard(s) == /\ dst[s] = NoStream
              /\ \A i \in 1..Len(rest[s]) : mode[rest[s][i]] = "killed"

\* the termination check and, when the stream lives on, its next task
TerminationCheck(t) ==
  /\ At(t, "check")
  /\ LET o == Head(agenda[t]) IN
     /\ mode' = [mode EXCEPT ![o.s] = IF Unheard(o.s) THEN "dying" ELSE @]
     /\ Continue(t, IF Unheard(o.s) \/ ~o.again THEN <<>>
                    ELSE <<PushOp(o.s, "start", Nil)>>)
  /\ UNCHANGED <<sharedVars, kind, limit, n, dst, rest, refcnt, excl, tasks,
                 historyVars>>

-----------------------------------------------------------------------------
(* strm_stream_close.                                                      *)

\* one upstream less
Close(t) ==
  /\ At(t, "close")
  /\ LET s == Head(agenda[t]).s IN
     IF mode[s] = "killed" THEN Return(t) /\ UNCHANGED refcnt
     ELSE /\ refcnt' = [refcnt EXCEPT ![s] = @ - 1]
          /\ Continue(t, <<KillOp(s, mode[s])>>)
  /\ UNCHANGED <<sharedVars, kind, limit, n, mode, dst, rest, excl, tasks,
                 historyVars>>

\* mutant: closed by whichever upstream closes first
NeverAwaited(s) == FALSE

\* not the last one
Awaited(s) == refcnt[s] > 0

\* the last one: kill the stream and call close_func
Kill(t) ==
  /\ At(t, "kill")
  /\ LET o == Head(agenda[t])
         s == o.s IN
     IF Awaited(s) \/ mode[s] # o.mode
       THEN Return(t) /\ UNCHANGED <<mode, kills>>
       ELSE /\ mode' = [mode EXCEPT ![s] = "killed"]
            /\ kills' = [kills EXCEPT ![s] = @ + 1]
            /\ Continue(t, IF CloseFails(kind[s], got[s]) THEN <<>>
                           ELSE CloseFunc(s, kind[s], got[s])
                                \o <<CloseDstOp(s), CloseRestOp(s, 1),
                                     CountDownOp(s)>>)
  /\ UNCHANGED <<sharedVars, kind, limit, n, dst, rest, refcnt, excl, tasks,
                 program, sent, got>>

\* pass the close on
CloseDst(t) ==
  /\ At(t, "closeDst")
  /\ LET s == Head(agenda[t]).s IN
     Continue(t, IF dst[s] = NoStream THEN <<>>
                 ELSE <<PushOp(dst[s], "close", Nil)>>)
  /\ UNCHANGED <<sharedVars, streamVars, historyVars>>

CloseRest(t) ==
  /\ At(t, "closeRest")
  /\ LET o == Head(agenda[t]) IN
     Continue(t, IF o.i > Len(rest[o.s]) THEN <<>>
                 ELSE <<PushOp(rest[o.s][o.i], "close", Nil),
                        CloseRestOp(o.s, o.i + 1)>>)
  /\ UNCHANGED <<sharedVars, streamVars, historyVars>>

CountDown(t) ==
  /\ At(t, "countDown")
  /\ streamCount' = streamCount - 1
  /\ Return(t)
  /\ UNCHANGED <<queue, prodQueue, started, streamVars, historyVars>>

-----------------------------------------------------------------------------
(* What callbacks do after they have emitted.                              *)

SeqNext(t) ==
  /\ At(t, "seqNext")
  /\ n' = [n EXCEPT ![Head(agenda[t]).s] = @ + 1]
  /\ Return(t)
  /\ UNCHANGED <<sharedVars, kind, limit, mode, dst, rest, refcnt, excl, tasks,
                 historyVars>>

TakeNext(t) ==
  /\ At(t, "takeNext")
  /\ LET s == Head(agenda[t]).s IN
     /\ n' = [n EXCEPT ![s] = @ - 1]
     /\ Continue(t, IF n[s] = 1 THEN <<CloseOp(s)>> ELSE <<>>)
  /\ UNCHANGED <<sharedVars, kind, limit, mode, dst, rest, refcnt, excl, tasks,
                 historyVars>>

\* the end of task_exec: a stream that went dying is closed
After(t) ==
  /\ At(t, "after")
  /\ LET s == Head(agenda[t]).s IN
     Continue(t, IF mode[s] = "dying" THEN <<CloseOp(s)>> ELSE <<>>)
  /\ UNCHANGED <<sharedVars, streamVars, historyVars>>

Step(t) == \/ StreamNew(t) \/ Connect(t) \/ Ref(t) \/ Start(t)
           \/ Push(t) \/ AddTask(t) \/ AddStream(t)
           \/ Emit(t) \/ DropDst(t) \/ EmitRest(t) \/ TerminationCheck(t)
           \/ Close(t) \/ Kill(t) \/ CloseDst(t) \/ CloseRest(t) \/ CountDown(t)
           \/ SeqNext(t) \/ TakeNext(t) \/ After(t)

-----------------------------------------------------------------------------
(* task_loop.                                                              *)

GoTo(t, l) == pc' = [pc EXCEPT ![t] = l]

GetStream(w) ==
  /\ pc[w] = "get"
  /\ IF queue = <<>>
       THEN GoTo(w, "getProd") /\ UNCHANGED <<queue, cur>>
       ELSE /\ queue' = Tail(queue)
            /\ cur' = [cur EXCEPT ![w] = Head(queue)]
            /\ GoTo(w, "claim")
  /\ UNCHANGED <<prodQueue, streamCount, started, streamVars, agenda, historyVars>>

GetProducer(w) ==
  /\ pc[w] = "getProd"
  /\ IF prodQueue = <<>>
       THEN GoTo(w, "checkCount") /\ UNCHANGED <<prodQueue, cur>>
       ELSE /\ prodQueue' = Tail(prodQueue)
            /\ cur' = [cur EXCEPT ![w] = Head(prodQueue)]
            /\ GoTo(w, "claim")
  /\ UNCHANGED <<queue, streamCount, started, streamVars, agenda, historyVars>>

\* mutant: no exclusion
AlwaysFree(s) == TRUE

Free(s) == excl[s] = 0

\* The compare-and-swap of excl; when it fails the entry is dropped.
Claim(w) ==
  /\ pc[w] = "claim"
  /\ LET s == cur[w] IN
     IF Free(s)
       THEN /\ excl' = [excl EXCEPT ![s] = 1]
            /\ GoTo(w, "drain") /\ UNCHANGED cur
       ELSE /\ GoTo(w, "checkCount") /\ UNCHANGED excl
            /\ cur' = [cur EXCEPT ![w] = NoStream]
  /\ UNCHANGED <<sharedVars, kind, limit, n, mode, dst, rest, refcnt, tasks,
                 agenda, historyVars>>

\* mutant: the tasks of a killed stream are executed
DiscardsNothing(s) == FALSE

\* task_exec drops the tasks of a killed stream
Discards(s) == mode[s] = "killed"

\* The next task of the stream, and task_exec up to the callback's first step
Drain(w) ==
  /\ pc[w] = "drain"
  /\ tasks[cur[w]] # <<>>
  /\ LET s == cur[w]
         task == Head(tasks[s])
         call == IF task.f = "close" THEN <<CloseOp(s)>>
                 ELSE StartFunc(s, kind[s], n[s], limit[s], task.d) IN
     /\ tasks' = [tasks EXCEPT ![s] = Tail(@)]
     /\ IF Discards(s) THEN UNCHANGED <<pc, agenda, got>>
        ELSE /\ GoTo(w, "run")
             /\ agenda' = [agenda EXCEPT ![w] = call \o <<AfterOp(s)>>]
             /\ got' = [got EXCEPT ![s] = IF task.f = "start" /\ task.d # Nil
                                          THEN Append(@, task.d) ELSE @]
  /\ UNCHANGED <<sharedVars, kind, limit, n, mode, dst, rest, refcnt, excl, cur,
                 program, sent, kills>>

TaskDone(w) ==
  /\ pc[w] = "run"
  /\ agenda[w] = <<>>
  /\ GoTo(w, "drain")
  /\ UNCHANGED <<sharedVars, streamVars, cur, agenda, historyVars>>

Drained(w) ==
  /\ pc[w] = "drain"
  /\ tasks[cur[w]] = <<>>
  /\ GoTo(w, "release")
  /\ UNCHANGED <<sharedVars, streamVars, cur, agenda, historyVars>>

Release(w) ==
  /\ pc[w] = "release"
  /\ excl' = [excl EXCEPT ![cur[w]] = 0]
  /\ cur' = [cur EXCEPT ![w] = NoStream]
  /\ GoTo(w, "checkCount")
  /\ UNCHANGED <<sharedVars, kind, limit, n, mode, dst, rest, refcnt, tasks,
                 agenda, historyVars>>

CheckCount(w) ==
  /\ pc[w] = "checkCount"
  /\ GoTo(w, IF streamCount = 0 THEN "exit" ELSE "get")
  /\ UNCHANGED <<sharedVars, streamVars, cur, agenda, historyVars>>

Loop(w) == \/ GetStream(w) \/ GetProducer(w) \/ Claim(w) \/ Drain(w)
           \/ TaskDone(w) \/ Drained(w) \/ Release(w) \/ CheckCount(w)

-----------------------------------------------------------------------------
(* The main thread after the program: strm_loop.                           *)

EnterLoop ==
  /\ pc[Main] = "build"
  /\ agenda[Main] = <<>>
  /\ IF streamCount = 0
       THEN GoTo(Main, "done") /\ UNCHANGED started
       ELSE /\ started' = TRUE
            /\ pc' = [t \in Threads |->
                        IF t = Main THEN "loop"
                        ELSE IF started THEN pc[t] ELSE "get"]
  /\ UNCHANGED <<queue, prodQueue, streamCount, streamVars, cur, agenda,
                 historyVars>>

\* mutant: strm_loop also returns when nothing is queued
LeaveLoopIdle ==
  /\ pc[Main] = "loop"
  /\ streamCount = 0 \/ (queue = <<>> /\ prodQueue = <<>>)
  /\ GoTo(Main, "done")
  /\ UNCHANGED <<sharedVars, streamVars, cur, agenda, historyVars>>

LeaveLoop ==
  /\ pc[Main] = "loop"
  /\ streamCount = 0
  /\ GoTo(Main, "done")
  /\ UNCHANGED <<sharedVars, streamVars, cur, agenda, historyVars>>

-----------------------------------------------------------------------------
\* main returns and the process ends, its threads with it.
Running == pc[Main] # "done"

MainStep == Running /\ (Step(Main) \/ EnterLoop \/ LeaveLoop)

WorkerStep(w) == Running /\ (Step(w) \/ Loop(w))

Ended == ~Running /\ UNCHANGED vars

Next == MainStep \/ (\E w \in Workers : WorkerStep(w)) \/ Ended

Spec == Init /\ [][Next]_vars

\* Every thread is a pthread the kernel runs again and again.
FairSpec == Spec /\ WF_vars(MainStep) /\ \A w \in Workers : WF_vars(WorkerStep(w))
-----------------------------------------------------------------------------
(* Properties.                                                             *)

Executing(w) == pc[w] \in {"drain", "run", "release"}

\* A stream is executed by at most one worker at a time: the callbacks of a
\* stream keep their data in strm->data without any lock.
Exclusive == \A w, v \in Workers :
               w # v /\ Executing(w) /\ Executing(v) => cur[w] # cur[v]

InAgenda(o) == \E t \in Threads : \E i \in 1..Len(agenda[t]) : agenda[t][i] = o

\* stream_count, which decides when the threads stop, is the number of
\* streams that are not closed to the end.
CountsLiveStreams ==
  streamCount = Cardinality({s \in Streams :
                   \/ mode[s] \notin {"none", "killed"}
                   \/ InAgenda(CountDownOp(s))})

\* strm_loop returns, and the process ends, after every stream has closed.
ReturnsAfterAll ==
  pc[Main] = "done" => \A s \in Streams : mode[s] \in {"none", "killed"}

\* close_func, which frees the stream's data, runs once.
CloseFuncOnce == \A s \in Streams : kills[s] <= 1

\* The close_func of s has failed: it is killed, and its close is passed to nobody.
Failed(s) == mode[s] = "killed" /\ CloseFails(kind[s], got[s])

\* The program does not end as if all had been done when a close_func has failed:
\* the stream stays counted, and strm_loop waits for it.
NoEndAfterFailure == pc[Main] = "done" => \A s \in Streams : ~Failed(s)

InSeq(x, q) == \E i \in 1..Len(q) : q[i] = x

\* The program connects u to d, once, and nothing else to d.
Only(u, d) == \E i \in 1..Len(program) :
  /\ program[i] = ConnectOp(u, d)
  /\ \A j \in 1..Len(program) : program[j].op = "connect" /\ program[j].dst = d => j = i

\* q is what p has after its first k elements, or the beginning of it.
Follows(q, p, k) == k + Len(q) <= Len(p) /\ \A i \in 1..Len(q) : q[i] = p[k + i]

\* Nothing of u is under way to d, which takes what comes.
Settled(u, d) ==
  /\ mode[d] \notin {"dying", "killed"}
  /\ \A w \in Workers : cur[w] = u => agenda[w] = <<>>
  /\ \A i \in 1..Len(tasks[d]) : tasks[d][i].d = Nil

\* Also in a program that runs while it is connected, as a | b | c does: what comes
\* before the connection is lost, but from the first element that d is invoked for on
\* it gets everything from u, in order and once, until d is closed.
NoGaps == \A u, d \in Streams : Only(u, d) =>
  \E k \in 0..Len(sent[u]) :
    /\ Follows(got[d], sent[u], k)
    /\ Settled(u, d) => k + Len(got[d]) = Len(sent[u])

Queued(s) == InSeq(s, queue) \/ InSeq(s, prodQueue)
Taken(s) == \E w \in Workers : pc[w] \in {"claim", "drain", "run"} /\ cur[w] = s
BeingQueued(s) == \E t \in Threads : agenda[t] # <<>> /\ Head(agenda[t]) = AddStreamOp(s)

\* A stream that has a task will be looked at: it is in a global queue, or a
\* worker holds it, or the thread that pushed the task is about to queue it.
NoStranded == \A s \in Streams : tasks[s] # <<>> =>
                Queued(s) \/ Taken(s) \/ BeingQueued(s)

\* The program ends.
Termination == <>(pc[Main] = "done")

\* Stream s is invoked for an element that its upstream u has emitted.
InvokedFor(u, s, e) == InSeq(e, sent[u]) ~> InSeq(e, got[s])
-----------------------------------------------------------------------------
(* What the scheduler implements.  A stream is closed for its upstreams as *)
(* soon as it is dying or killed, and has ended once it is past the        *)
(* emissions of its close_func, when it passes the close on: a close_func  *)
(* that fails never does.                                                  *)

Past(s) == /\ mode[s] = "killed" /\ ~CloseFails(kind[s], got[s])
           /\ ~\E t \in Threads : \E i \in 1..Len(agenda[t]) :
                 agenda[t][i] = CloseDstOp(s)

Channels == INSTANCE Delivery WITH
  Programs <- Scripts,
  closed <- {s \in Streams : mode[s] \in {"dying", "killed"}},
  ended  <- {s \in Streams : Past(s)}

\* No step delivers, drops, repeats or reorders what a step of Delivery may not.
DeliversSafely == Channels!Safety

\* ... and everything is delivered in the end.
ImplementsDelivery == Channels!Spec
=============================================================================
