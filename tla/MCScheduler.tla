----------------------------- MODULE MCScheduler -----------------------------
(* Programs on which TLC checks the scheduler.                             *)
EXTENDS Pipelines

CONSTANTS a, b, c, d, e, f

\* p | m | s built from the sink up: the producer is connected last, so that
\* nothing runs before the program is complete.
Linear(p, m, s, k, lim) ==
  <<NewOp(s, "sink", 0), NewOp(m, k, lim), ConnectOp(m, s),
    NewOp(p, "seq", 2), ConnectOp(p, m)>>

LinearScripts == {Linear(a, b, c, "map", 0), Linear(a, b, c, "sort", 0),
                  Linear(a, b, c, "take", 1), Linear(a, b, c, "reduce", 0)}

\* b | d, then e | d and a | b: d has both upstreams before anything runs.
FanIn == <<NewOp(d, "sink", 0), NewOp(b, "map", 0), ConnectOp(b, d),
           NewOp(e, "seq", 1), ConnectOp(e, d), NewOp(a, "seq", 1), ConnectOp(a, b)>>

\* a | b, b | d, b | c
FanOut(k, lim) ==
  <<NewOp(d, "sink", 0), NewOp(c, k, 1), NewOp(a, "seq", lim), NewOp(b, "map", 0),
    ConnectOp(b, d), ConnectOp(b, c), ConnectOp(a, b)>>

\* a | {x -> print(x)} | reduce | d: the reduce gets nothing, and its close_func fails.
EmptyReduce == <<NewOp(d, "sink", 0), NewOp(c, "reduce", 0), ConnectOp(c, d),
                 NewOp(b, "print", 0), ConnectOp(b, c), NewOp(a, "seq", 2), ConnectOp(a, b)>>

DeliveryScripts == LinearScripts \union {FanIn, FanOut("sink", 1), EmptyReduce}

\* They are complete before they run: of such programs the delivery is proved.
ASSUME DeliveryAssumption == Scripts = DeliveryScripts => \A p \in Scripts : ReadyToRun(p)

FanOutScripts == {FanOut("sink", 2), FanOut("take", 2)}

\* a | b | c as the parser orders it: left to right.  A sort instead of the map may
\* be closed before c is connected, and is then closed and counted down twice.
LeftToRight == {<<NewOp(a, "seq", 2), NewOp(b, k, 1), ConnectOp(a, b),
                  NewOp(c, "sink", 0), ConnectOp(b, c)>> : k \in {"map", "take"}}

\* A tree, and programs that workers execute while they are built.
CountScripts == LinearScripts \union {FanOut("sink", 1)} \union LeftToRight

\* A producer and a function object, {x -> print(x)}.
FunctionObject == {<<NewOp(b, "print", 0), NewOp(a, "seq", 2), ConnectOp(a, b)>>}

\* b | take(1) | d and f | b, then e | b and a | f: b finds that nobody listens
\* when the element of the later producer comes.
TakeOfTwo == <<NewOp(d, "sink", 0), NewOp(c, "take", 1), ConnectOp(c, d),
               NewOp(b, "map", 0), ConnectOp(b, c), NewOp(f, "map", 0), ConnectOp(f, b),
               NewOp(e, "seq", 1), ConnectOp(e, b), NewOp(a, "seq", 1), ConnectOp(a, f)>>

OneWorkerScripts == LinearScripts \union FanOutScripts \union {FanIn, TakeOfTwo}

\* a | sort | take(1) | {x -> print(x)}
SortTake == {<<NewOp(d, "print", 0), NewOp(c, "take", 1), ConnectOp(c, d),
               NewOp(b, "sort", 0), ConnectOp(b, c),
               NewOp(a, "seq", 2), ConnectOp(a, b)>>}

(* README.md:65-67, "If a function object is connected in the pipeline, it  *)
(* will be invoked for each element in the stream", for the function object *)
(* of each program.                                                         *)
InvokedForEach == \A k \in 1..2 : InvokedFor(a, b, <<a, k>>)

\* The same, of the function object behind take: when the program has ended, it
\* has been invoked for everything take has emitted.
EndInvoked == pc[Main] = "done" => \A i \in 1..Len(sent[c]) : InSeq(sent[c][i], got[d])
=============================================================================
