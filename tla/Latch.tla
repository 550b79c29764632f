--------------------------------- MODULE Latch ---------------------------------
(***************************************************************************)
(* zip and concat of src/src/latch.c: each upstream fills a latch, and the *)
(* stream of the call receives from one latch after the other.  A latch    *)
(* has two queues, of data nobody has asked for and of receivers nobody    *)
(* has served; pushing and receiving look into one and then add to the     *)
(* other.  A step is one access to what workers share.                     *)
(*                                                                         *)
(* Of the scheduler: a task of a stream runs on a worker that does nothing *)
(* else, tasks of one stream in their order and never two at once.         *)
(***************************************************************************)
EXTENDS Naturals, Sequences, FiniteSets, SequencesExt

CONSTANTS
  Workers,  \* of which a call has the first few
  Calls,    \* [kind, counts, workers, take]: what is called, with how many elements
            \* in each upstream, on how many workers, and how many elements the
            \* downstream takes before it closes itself (0: all)
  Nil       \* strm_nil_value()

\* (Without an upstream zip reads a latch it has not got.)
ASSUME LatchAssumption ==
  \A c \in Calls : /\ c.kind \in {"zip", "concat"} /\ c.counts \in Seq(Nat) /\ c.counts # <<>>
                  /\ c.workers \in Nat /\ c.take \in Nat

\* Nil is no element, and no array of zip.
ASSUME NilAssumption == Nil \notin (Nat \X Nat) /\ Nil \notin Seq({Nil} \cup (Nat \X Nat))

VARIABLES
  call,
  linked,           \* what the main thread has connected: latches, then the result
  given, closing,   \* elements each upstream has passed on; whether it has closed
  tasks,            \* task queues of the latches
  mode,             \* of the latches
  dq, rq,           \* struct latch_data; rq is the number of receivers
  z,                \* struct zip_data or concat_data, and the state of its stream
  out,              \* what the downstream has been given
  dst,              \* mode of the downstream
  stack             \* for each worker what it still has to do, next step first

latchVars == <<tasks, mode, dq, rq>>
sourceVars == <<linked, given, closing>>
vars == <<call, sourceVars, latchVars, z, out, dst, stack>>

Latches == DOMAIN call.counts
Active == SubSeq(SetToSeq(Workers), 1, call.workers)
Idle(w) == w \in Range(Active) /\ stack[w] = <<>>

Init ==
  /\ call \in Calls
  /\ linked = 0
  /\ given = [l \in Latches |-> 0] /\ closing = [l \in Latches |-> FALSE]
  /\ tasks = [l \in Latches |-> <<>>]
  /\ mode = [l \in Latches |-> "consumer"]
  /\ dq = [l \in Latches |-> <<>>] /\ rq = [l \in Latches |-> 0]
  /\ z = [i |-> 1, a |-> <<>>, live |-> TRUE, mode |-> "producer", dst |-> TRUE, starts |-> 0]
  /\ out = <<>> /\ dst = "open"
  /\ stack = [w \in Workers |-> <<>>]

\* The main thread connects one latch after the other, and then the stream.
Connect ==
  /\ linked <= Len(call.counts)
  /\ linked' = linked + 1
  /\ z' = IF linked = Len(call.counts) THEN [z EXCEPT !.starts = 1] ELSE z
  /\ UNCHANGED <<call, given, closing, latchVars, out, dst, stack>>

-----------------------------------------------------------------------------
(* Steps of a worker: the first of its stack is replaced.                  *)

At(w, at) == stack[w] # <<>> /\ Head(stack[w]).at = at
Arg(w) == Head(stack[w]).arg
Do(at, arg) == <<[at |-> at, arg |-> arg]>>
Become(w, todo) == stack' = [stack EXCEPT ![w] = todo \o Tail(@)]

\* strm_stream_close of a latch: one of two closes goes through.
Kill(w, l) ==
  IF mode[l] = "killed" THEN Become(w, <<>>) /\ UNCHANGED mode
  ELSE mode' = [mode EXCEPT ![l] = "killed"] /\ Become(w, Do("drain", l))

\* strm_stream_close of the stream itself; its data is gone.
CloseSelf(w) ==
  /\ At(w, "close")
  /\ z' = IF z.mode = "killed" THEN z ELSE [z EXCEPT !.mode = "killed", !.live = FALSE]
  /\ Become(w, <<>>)
  /\ UNCHANGED <<call, sourceVars, latchVars, out, dst>>

\* strm_latch_finish_p
Finished(l) == mode[l] # "consumer" /\ dq[l] = <<>>

-----------------------------------------------------------------------------
(* Tasks.                                                                  *)

Runs(w, l) == \E k \in DOMAIN stack[w] : stack[w][k] = Do("task", l)[1]
Executed(l) == \E w \in Workers : Runs(w, l)

\* An upstream passes an element on, or its end.  (Of a killed latch it learns
\* when it emits.)
Source(w, l) ==
  /\ Idle(w) /\ l < linked /\ ~closing[l]
  /\ IF given[l] < call.counts[l] /\ mode[l] # "killed"
       THEN /\ given' = [given EXCEPT ![l] = @ + 1]
            /\ tasks' = [tasks EXCEPT ![l] = Append(@, <<l, given[l] + 1>>)]
            /\ UNCHANGED closing
       ELSE /\ closing' = [closing EXCEPT ![l] = TRUE]
            /\ tasks' = IF mode[l] = "killed" THEN tasks ELSE [tasks EXCEPT ![l] = Append(@, Nil)]
            /\ UNCHANGED given
  /\ UNCHANGED <<call, linked, mode, dq, rq, z, out, dst, stack>>

\* A task of a latch: an element, or the close of its upstream.
Exec(w, l) ==
  /\ Idle(w) /\ tasks[l] # <<>> /\ ~Executed(l)
  /\ tasks' = [tasks EXCEPT ![l] = Tail(@)]
  /\ LET d == Head(tasks[l])
         frame == IF d = Nil THEN Do("kill", l) ELSE Do("push", <<l, d>>)
     IN stack' = [stack EXCEPT ![w] = (IF mode[l] = "killed" THEN <<>> ELSE frame) \o Do("task", l)]
  /\ UNCHANGED <<call, sourceVars, mode, dq, rq, z, out, dst>>

\* A task of the stream: zip_start or concat_start.
Start(w) ==
  /\ Idle(w) /\ z.starts > 0 /\ ~Executed(0)
  /\ LET zip == call.kind = "zip" IN
       /\ z' = IF z.live /\ zip /\ z.mode # "killed"
                 THEN [z EXCEPT !.starts = @ - 1, !.i = 1, !.a = <<>>]
                 ELSE [z EXCEPT !.starts = @ - 1]
       /\ stack' = [stack EXCEPT ![w] =
            (IF z.live /\ z.mode # "killed" THEN Do("receive", IF zip THEN 1 ELSE z.i) ELSE <<>>) \o Do("task", 0)]
  /\ UNCHANGED <<call, sourceVars, latchVars, out, dst>>

\* The end of a task; a dying stream is closed by the worker that executes it.
EndTask(w) ==
  /\ At(w, "task")
  /\ Become(w, IF Arg(w) = 0 /\ z.mode = "dying" THEN Do("close", 0) ELSE <<>>)
  /\ UNCHANGED <<call, sourceVars, latchVars, z, out, dst>>

\* The downstream has had enough and closes itself.
Enough(w) ==
  /\ Idle(w) /\ dst = "open" /\ call.take > 0 /\ Len(out) >= call.take
  /\ dst' = "killed"
  /\ UNCHANGED <<call, sourceVars, latchVars, z, out, stack>>

-----------------------------------------------------------------------------
(* latch_push, strm_latch_receive and latch_close.                         *)

\* latch_push looks for a receiver ...
Push(w) ==
  /\ At(w, "push")
  /\ LET l == Arg(w)[1]  r == rq[l] > 0 IN
     /\ rq' = IF r THEN [rq EXCEPT ![l] = @ - 1] ELSE rq
     /\ Become(w, Do("pushed", <<l, Arg(w)[2], r>>))
  /\ UNCHANGED <<call, sourceVars, tasks, mode, dq, z, out, dst>>

\* mutant: the datum is queued as well
PushedTwice(w) ==
  /\ At(w, "pushed")
  /\ LET l == Arg(w)[1]  d == Arg(w)[2]  r == Arg(w)[3] IN
     Become(w, IF mode[l] # "consumer" THEN <<>> ELSE (IF r THEN Do("iter", d) ELSE <<>>) \o Do("queue", <<l, d>>))
  /\ UNCHANGED <<call, sourceVars, latchVars, z, out, dst>>

\* ... then whether the latch is open, and calls the receiver ...
Pushed(w) ==
  /\ At(w, "pushed")
  /\ LET l == Arg(w)[1]  d == Arg(w)[2]  r == Arg(w)[3] IN
     Become(w, IF mode[l] # "consumer" THEN <<>> ELSE IF r THEN Do("iter", d) ELSE Do("queue", <<l, d>>))
  /\ UNCHANGED <<call, sourceVars, latchVars, z, out, dst>>

\* mutant: the last datum comes first
QueueInFront(w) ==
  /\ At(w, "queue")
  /\ dq' = [dq EXCEPT ![Arg(w)[1]] = <<Arg(w)[2]>> \o @]
  /\ Become(w, <<>>)
  /\ UNCHANGED <<call, sourceVars, tasks, mode, rq, z, out, dst>>

\* ... or queues the datum.
Queue(w) ==
  /\ At(w, "queue")
  /\ dq' = [dq EXCEPT ![Arg(w)[1]] = Append(@, Arg(w)[2])]
  /\ Become(w, <<>>)
  /\ UNCHANGED <<call, sourceVars, tasks, mode, rq, z, out, dst>>

\* strm_latch_receive looks for a datum and calls the receiver with it ...
Receive(w) ==
  /\ At(w, "receive")
  /\ LET l == Arg(w) IN
     IF dq[l] # <<>>
       THEN dq' = [dq EXCEPT ![l] = Tail(@)] /\ Become(w, Do("iter", Head(dq[l])))
       ELSE UNCHANGED dq /\ Become(w, Do("wait", l))
  /\ UNCHANGED <<call, sourceVars, tasks, mode, rq, z, out, dst>>

\* ... or queues the receiver, also when the latch has been closed.
Wait(w) ==
  /\ At(w, "wait")
  /\ rq' = [rq EXCEPT ![Arg(w)] = @ + 1]
  /\ Become(w, <<>>)
  /\ UNCHANGED <<call, sourceVars, tasks, mode, dq, z, out, dst>>

\* The close of the upstream reaches the latch.
CloseLatch(w) ==
  /\ At(w, "kill") /\ Kill(w, Arg(w))
  /\ UNCHANGED <<call, sourceVars, tasks, dq, rq, z, out, dst>>

\* mutant: the close forgets who is waiting
DrainNobody(w) ==
  /\ At(w, "drain")
  /\ Become(w, <<>>)
  /\ UNCHANGED <<call, sourceVars, latchVars, z, out, dst>>

\* latch_close calls every receiver with nil.
Drain(w) ==
  /\ At(w, "drain")
  /\ LET l == Arg(w) IN
     IF rq[l] > 0
       THEN rq' = [rq EXCEPT ![l] = @ - 1] /\ Become(w, Do("iter", Nil) \o Do("drain", l))
       ELSE UNCHANGED rq /\ Become(w, <<>>)
  /\ UNCHANGED <<call, sourceVars, tasks, mode, dq, z, out, dst>>

-----------------------------------------------------------------------------
(* strm_emit to the downstream.                                            *)

Emitting(v, again) == Do("emit", v) \o Do("heard", <<v, again>>)

Emit(w) ==
  /\ At(w, "emit")
  /\ out' = IF z.mode # "dying" /\ Arg(w) # Nil /\ z.dst /\ dst = "open"
              THEN Append(out, Arg(w)) ELSE out
  /\ Become(w, <<>>)
  /\ UNCHANGED <<call, sourceVars, latchVars, z, dst>>

\* Nobody listens: the stream is dying.  Otherwise zip_start is its next task.
Heard(w) ==
  /\ At(w, "heard")
  /\ LET unheard == Arg(w)[1] # Nil /\ z.mode # "dying" /\ dst = "killed" IN
     z' = CASE unheard -> [z EXCEPT !.dst = FALSE, !.mode = "dying"]
            [] ~unheard /\ Arg(w)[2] /\ z.mode = "producer" -> [z EXCEPT !.starts = @ + 1]
            [] OTHER -> z
  /\ Become(w, <<>>)
  /\ UNCHANGED <<call, sourceVars, latchVars, out, dst>>

-----------------------------------------------------------------------------
(* zip_iter and concat_iter, on the worker that brings the datum.          *)

\* The datum is put into the array; the next latch is asked for its own.
ZipIter(w) ==
  /\ At(w, "iter") /\ call.kind = "zip"
  /\ z' = [z EXCEPT !.a = Append(@, Arg(w)), !.i = @ + 1]
  /\ Become(w, IF z.i < Len(call.counts) THEN Do("receive", z.i + 1) ELSE Do("check", 1))
  /\ UNCHANGED <<call, sourceVars, latchVars, out, dst>>

\* mutant: zip starts again in any case
CheckAndStart(w) ==
  /\ At(w, "check")
  /\ Become(w, CASE Finished(Arg(w)) -> Emitting(z.a, TRUE) \o Do("finish", 1)
                 [] ~Finished(Arg(w)) /\ Arg(w) < Len(call.counts) -> Do("check", Arg(w) + 1)
                 [] OTHER -> Emitting(z.a, TRUE))
  /\ UNCHANGED <<call, sourceVars, latchVars, z, out, dst>>

\* The array is full: is one of the latches finished?
ZipCheck(w) ==
  /\ At(w, "check")
  /\ Become(w, CASE Finished(Arg(w)) -> Emitting(z.a, FALSE) \o Do("finish", 1)
                 [] ~Finished(Arg(w)) /\ Arg(w) < Len(call.counts) -> Do("check", Arg(w) + 1)
                 [] OTHER -> Emitting(z.a, TRUE))
  /\ UNCHANGED <<call, sourceVars, latchVars, z, out, dst>>

\* mutant: the stream is closed before the latches
FinishSelfFirst(w) ==
  /\ At(w, "finish")
  /\ LET l == Arg(w)
         self == IF l = 1 THEN Do("close", 0) ELSE <<>>
         next == IF l < Len(call.counts) THEN Do("finish", l + 1) ELSE <<>>
     IN /\ mode' = [mode EXCEPT ![l] = "killed"]
        /\ Become(w, (IF mode[l] = "killed" THEN <<>> ELSE Do("drain", l)) \o self \o next)
  /\ UNCHANGED <<call, sourceVars, tasks, dq, rq, z, out, dst>>

\* Then all latches are closed, and the stream.
ZipFinish(w) ==
  /\ At(w, "finish")
  /\ LET l == Arg(w)
         next == IF l < Len(call.counts) THEN Do("finish", l + 1) ELSE Do("close", 0)
     IN /\ mode' = [mode EXCEPT ![l] = "killed"]
        /\ Become(w, (IF mode[l] = "killed" THEN <<>> ELSE Do("drain", l)) \o next)
  /\ UNCHANGED <<call, sourceVars, tasks, dq, rq, z, out, dst>>

\* (Without its data the program crashes here, and nothing follows.)
ConcatIter(w) ==
  /\ At(w, "iter") /\ call.kind = "concat" /\ z.live
  /\ Become(w, Emitting(Arg(w), FALSE) \o Do("advance", 0))
  /\ UNCHANGED <<call, sourceVars, latchVars, z, out, dst>>

\* mutant: the latch need only be empty
AdvanceWhenEmpty(w) ==
  /\ At(w, "advance")
  /\ LET i == IF dq[z.i] = <<>> THEN z.i + 1 ELSE z.i IN
     /\ z' = [z EXCEPT !.i = i]
     /\ Become(w, IF i <= Len(call.counts) THEN Do("receive", i) ELSE Do("close", 0))
  /\ UNCHANGED <<call, sourceVars, latchVars, out, dst>>

\* A finished latch is left for the next one.
ConcatAdvance(w) ==
  /\ At(w, "advance")
  /\ LET i == IF Finished(z.i) THEN z.i + 1 ELSE z.i IN
     /\ z' = [z EXCEPT !.i = i]
     /\ Become(w, IF i <= Len(call.counts) THEN Do("receive", i) ELSE Do("close", 0))
  /\ UNCHANGED <<call, sourceVars, latchVars, out, dst>>

-----------------------------------------------------------------------------
Work(w) ==
  \/ EndTask(w) \/ CloseSelf(w)
  \/ Push(w) \/ Pushed(w) \/ Queue(w) \/ Receive(w) \/ Wait(w) \/ CloseLatch(w) \/ Drain(w)
  \/ Emit(w) \/ Heard(w)
  \/ ZipIter(w) \/ ZipCheck(w) \/ ZipFinish(w) \/ ConcatIter(w) \/ ConcatAdvance(w)

Next ==
  \/ Connect
  \/ \E w \in Workers :
       \/ Work(w) \/ Start(w) \/ Enough(w)
       \/ \E l \in Latches : Source(w, l) \/ Exec(w, l)

Spec == Init /\ [][Next]_vars

\* The operating system runs the main thread and the workers; but only a single
\* worker is sure to execute a stream that has a task (Scheduler, NoStranded): of
\* several, one may forget the entry of the run queue, and the task stays where it is.
Slots == UNION {DOMAIN c.counts : c \in Calls}
OneWorker == call.workers = 1
FairSpec ==
  /\ Spec /\ WF_vars(Connect)
  /\ \A w \in Workers : WF_vars(Work(w))
  /\ WF_vars(OneWorker /\ \E w \in Workers : Start(w))
  /\ WF_vars(OneWorker /\ \E w \in Workers : Enough(w))
  /\ \A l \in Slots : /\ WF_vars(OneWorker /\ \E w \in Workers : l \in Latches /\ Source(w, l))
                      /\ WF_vars(OneWorker /\ \E w \in Workers : l \in Latches /\ Exec(w, l))

-----------------------------------------------------------------------------
(* Properties.                                                             *)

Ended == z.mode = "killed"

\* What touches the data of the stream, or has been handed it.
InCallback(f) ==
  \/ f.at \in {"receive", "wait", "iter", "check", "emit", "heard", "finish", "advance"}
  \/ f.at = "pushed" /\ f.arg[3]
Holders == {w \in Workers : \E k \in DOMAIN stack[w] : InCallback(stack[w][k])}

(***************************************************************************)
(* The data of the stream (struct zip_data, concat_data) is there whenever *)
(* a worker is in its callbacks: it is not used after zip_close.  (Once    *)
(* the downstream has closed itself it may be: the worker that ends        *)
(* zip_start or concat_start closes the dying stream while another is in   *)
(* its callbacks, or a receiver still waits.)                              *)
(***************************************************************************)
TypeOK ==
  /\ call \in Calls /\ linked \in 0..(Len(call.counts) + 1)
  /\ \A l \in Latches : /\ mode[l] \in {"consumer", "killed"}
                        /\ given[l] <= call.counts[l] /\ rq[l] \in {0, 1}
  /\ z.mode \in {"producer", "dying", "killed"} /\ Len(z.a) <= Len(call.counts)
  /\ Holders # {} /\ dst = "open" => z.live

\* Who may go on with the stream: the task zip_start, a worker in a callback, a
\* receiver that waits.
Cursors ==
  {<<"start", k>> : k \in 1..z.starts} \cup {<<"worker", w>> : w \in Holders}
    \cup UNION {{<<"receiver", l, k>> : k \in 1..rq[l]} : l \in Latches}

(***************************************************************************)
(* zip_iter and concat_iter run on the worker of whichever latch has the   *)
(* datum, without excl of the stream whose data they change.  What         *)
(* protects it is that only one can go on with it: the worker in a         *)
(* callback, the receiver that waits at a latch, or the next zip_start.    *)
(***************************************************************************)
OneCursor == \A c, d \in Cursors : c = d

\* Where element d is: in the tasks or the data of its latch, in the hands of a
\* worker, in the array that is being filled, or emitted.
Times(s, d) == Cardinality({k \in DOMAIN s : s[k] = d})
Holds(f, d) ==
  \/ f.at \in {"push", "pushed", "queue"} /\ f.arg[2] = d
  \/ f.at = "iter" /\ f.arg = d
  \/ f.at = "emit" /\ call.kind = "concat" /\ f.arg = d
InHand(d) == UNION {{<<w, k>> : k \in {j \in DOMAIN stack[w] : Holds(stack[w][j], d)}} : w \in Workers}
Sent == out # <<>> /\ Last(out) = z.a
InArray(d) == IF call.kind = "zip" /\ ~Sent THEN Times(z.a, d) ELSE 0
Out(d) == IF call.kind = "zip" THEN {p \in (DOMAIN out) \X Latches : out[p[1]][p[2]] = d}
                               ELSE {k \in DOMAIN out : out[k] = d}
Places(l, d) ==
  Times(tasks[l], d) + Times(dq[l], d) + Cardinality(InHand(d)) + InArray(d) + Cardinality(Out(d))
Finishing == \E w \in Workers : \E k \in DOMAIN stack[w] : stack[w][k].at \in {"finish", "close"}

(***************************************************************************)
(* No element is ever in two places, and none is lost before zip finishes  *)
(* or the downstream closes itself, however pushing and receiving meet or  *)
(* miss each other.                                                        *)
(***************************************************************************)
Accounted ==
  \A l \in Latches : \A n \in 1..given[l] :
    /\ Places(l, <<l, n>>) <= 1
    /\ dst = "open" /\ ~Finishing /\ (z.mode = "producer" \/ call.kind = "concat") => Places(l, <<l, n>>) = 1

\* The elements in the order they are emitted, and of upstream l their numbers.
Emitted == IF call.kind = "zip" THEN FlattenSeq(out) ELSE out
Numbers(l) ==
  LET s == SelectSeq(Emitted, LAMBDA d : d # Nil /\ d[1] = l) IN [k \in DOMAIN s |-> s[k][2]]

(***************************************************************************)
(* With one worker zip puts the elements of the same number together, and  *)
(* its last array alone may have nil for what an upstream has not got;     *)
(* concat emits the elements of each upstream in their order.              *)
(***************************************************************************)
InStep ==
  OneWorker =>
    /\ \A l \in Latches, k \in DOMAIN out :
         call.kind = "zip" =>
           /\ out[k][l] = IF k <= call.counts[l] THEN <<l, k>> ELSE Nil
           /\ out[k][l] = Nil => k = Len(out)
    /\ \A l \in Latches : \A k \in DOMAIN Numbers(l) : Numbers(l)[k] = k

(***************************************************************************)
(* With more workers a receiver may miss what is being queued and get the  *)
(* next element, but an element is overtaken by one other at most, and     *)
(* concat emits an element of an upstream after all of those before it.    *)
(***************************************************************************)
OvertakenOnce ==
  /\ \A l \in Latches : \A k \in DOMAIN Numbers(l) :
       Cardinality({j \in 1..(k - 1) : Numbers(l)[j] > Numbers(l)[k]}) <= 1
  /\ call.kind = "concat" =>
       \A k \in DOMAIN out : \A l \in 1..(out[k][1] - 1) : Len(Numbers(l)) = call.counts[l]

(***************************************************************************)
(* On one worker, concat ends when no upstream is empty.  In every other   *)
(* call on one worker the stream ends, is dying (a task of a latch found   *)
(* that nobody listens; only a task of its own would close it), or a       *)
(* receiver has come to a latch already closed: nobody waits for ever at a *)
(* latch that has been open.  (With more workers nothing is sure to end:   *)
(* see FairSpec.)                                                          *)
(***************************************************************************)
TooLate == \E l \in Latches : rq[l] > 0 /\ mode[l] = "killed"
Ends ==
  /\ (OneWorker /\ call.kind = "concat" /\ 0 \notin Range(call.counts)) ~> Ended
  /\ OneWorker ~> [](Ended \/ z.mode = "dying" \/ TooLate)
=============================================================================
