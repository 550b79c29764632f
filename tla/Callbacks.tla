------------------------------ MODULE Callbacks ------------------------------
(***************************************************************************)
(* What a stream is asked to do, and what its callbacks do when they are   *)
(* called.  A thread (a worker, or the main thread that runs the program)  *)
(* works through an agenda: the sequence of the steps that are left of the *)
(* C functions it is inside of, the innermost first.  A callback is        *)
(* modelled by the agenda it leaves behind, so that every access to state  *)
(* another thread can see is a step of its own.                            *)
(***************************************************************************)
EXTENDS Integers, Sequences

CONSTANTS Streams,     \* the streams a program may create
          NoStream,    \* the NULL stream pointer
          Nil          \* the value nil

ASSUME NullAssumption == NoStream \notin Streams

(***************************************************************************)
(* A kind of stream stands for the (start_func, close_func) pair that      *)
(* strm_stream_new is given.  "map" is any filter that emits once for each *)
(* element (map, a lambda with a value, a cfunc); "print" is a lambda that *)
(* returns nil; "sink" is a consumer (stdout).                             *)
(***************************************************************************)
Kinds == {"seq", "map", "print", "take", "sort", "reduce", "sink"}

ModeOf(kind) == CASE kind = "seq"  -> "producer"
                  [] kind = "sink" -> "consumer"
                  [] OTHER         -> "filter"

Modes == {"none", "producer", "filter", "consumer", "dying", "killed"}

\* Element k of the stream that producer p generates; map is the identity
\* on them, so an element can be followed from its producer to a sink.
Elements == Streams \X Int
Data == Elements \union {Nil}

ASSUME NilAssumption == Nil \notin Elements

\* A task: which callback of the stream it calls, and with what.
Funcs == {"start", "close"}
Tasks == [f : Funcs, d : Data]

(***************************************************************************)
(* The steps an agenda is made of.                                         *)
(***************************************************************************)
NewOp(s, k, l)      == [op |-> "new", s |-> s, kind |-> k, limit |-> l]
ConnectOp(src, dst) == [op |-> "connect", s |-> src, dst |-> dst]
RefOp(s)            == [op |-> "ref", s |-> s]
StartOp(s)          == [op |-> "start", s |-> s]
EmitOp(s, d, again) == [op |-> "emit", s |-> s, d |-> d, again |-> again]
DropDstOp(s)        == [op |-> "dropDst", s |-> s]
EmitRestOp(s, d, i) == [op |-> "emitRest", s |-> s, d |-> d, i |-> i]
CheckOp(s, again)   == [op |-> "check", s |-> s, again |-> again]
PushOp(s, f, d)     == [op |-> "push", s |-> s, f |-> f, d |-> d]
AddTaskOp(s, f, d)  == [op |-> "addTask", s |-> s, f |-> f, d |-> d]
AddStreamOp(s)      == [op |-> "addStream", s |-> s]
CloseOp(s)          == [op |-> "close", s |-> s]
KillOp(s, m)        == [op |-> "kill", s |-> s, mode |-> m]
CloseDstOp(s)       == [op |-> "closeDst", s |-> s]
CloseRestOp(s, i)   == [op |-> "closeRest", s |-> s, i |-> i]
CountDownOp(s)      == [op |-> "countDown", s |-> s]
SeqNextOp(s)        == [op |-> "seqNext", s |-> s]
TakeNextOp(s)       == [op |-> "takeNext", s |-> s]
AfterOp(s)          == [op |-> "after", s |-> s]

StreamOps == [op : {"ref", "start", "dropDst", "addStream", "close",
                    "closeDst", "countDown", "seqNext", "takeNext", "after"},
              s : Streams]

Ops == StreamOps
  \union [op : {"new"}, s : Streams, kind : Kinds, limit : Nat]
  \union [op : {"connect"}, s : Streams, dst : Streams]
  \union [op : {"check"}, s : Streams, again : BOOLEAN]
  \union [op : {"emit"}, s : Streams, d : Data, again : BOOLEAN]
  \union [op : {"emitRest"}, s : Streams, d : Data, i : Nat \ {0}]
  \union [op : {"push", "addTask"}, s : Streams, f : Funcs, d : Data]
  \union [op : {"kill"}, s : Streams, mode : Modes]
  \union [op : {"closeRest"}, s : Streams, i : Nat \ {0}]
-----------------------------------------------------------------------------
(***************************************************************************)
(* start_func: the agenda of one call with the data d.  n is the generator's *)
(* next number, limit its end or the count take was given.                 *)
(***************************************************************************)
GenSeq(s, n, limit) == IF limit > 0 /\ n > limit
                         THEN <<CloseOp(s)>>
                         ELSE <<EmitOp(s, <<s, n>>, TRUE), SeqNextOp(s)>>

IterTake(s, d) == <<EmitOp(s, d, FALSE), TakeNextOp(s)>>

StartFunc(s, kind, n, limit, d) ==
  CASE kind = "seq"   -> GenSeq(s, n, limit)
    [] kind = "map"   -> <<EmitOp(s, d, FALSE)>>
    [] kind = "print" -> <<EmitOp(s, Nil, FALSE)>>
    [] kind = "take"  -> IterTake(s, d)
    [] OTHER          -> <<>>    \* sort and reduce keep it, a sink writes it

(***************************************************************************)
(* close_func: what it emits of the elements got so far.  The order sort   *)
(* gives them and the value reduce computes are abstracted.                *)
(***************************************************************************)
\* mutant: finish_sort stops short of the last element
SortShort(s, kind, got) ==
  CASE kind = "sort"   -> [i \in 1..(Len(got) - 1) |-> EmitOp(s, got[i], FALSE)]
    [] kind = "reduce" -> <<EmitOp(s, got[1], FALSE)>>
    [] OTHER           -> <<>>

\* mutant: finish_reduce emits all it has got, not the value
ReduceWhole(s, kind, got) ==
  CASE kind = "sort"   -> [i \in 1..Len(got) |-> EmitOp(s, got[i], FALSE)]
    [] kind = "reduce" -> <<EmitOp(s, got, FALSE)>>
    [] OTHER           -> <<>>

CloseFunc(s, kind, got) ==
  CASE kind = "sort"   -> [i \in 1..Len(got) |-> EmitOp(s, got[i], FALSE)]
    [] kind = "reduce" -> <<EmitOp(s, got[1], FALSE)>>
    [] OTHER           -> <<>>

\* mutant: finish_reduce always reports a failure
AlwaysFails(kind, got) == kind = "reduce"

\* reduce without an initial value fails on an empty stream.
CloseFails(kind, got) == kind = "reduce" /\ got = <<>>
=============================================================================
