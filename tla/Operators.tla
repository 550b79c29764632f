------------------------------ MODULE Operators ------------------------------
(***************************************************************************)
(* The stream operators of iter.c.  Exec... is the function a program      *)
(* calls: from its arguments it makes the state of the stream, or fails.   *)
(* Gen..., Iter... and Finish... are the callbacks.                        *)
(*                                                                         *)
(* slice(0) and consec(0) store behind their buffer and cycle([]) reads    *)
(* before its array; the calls of a run leave these out.                   *)
(***************************************************************************)
EXTENDS Filter

CONSTANT MaxOut   \* bound: an endless producer stops here

Emits(s) == Emit(s) /\ UNCHANGED <<data, mode>>
Keeps(d) == data' = d /\ UNCHANGED <<out, mode>>
KeepsEmits(d, s) == data' = d /\ Emit(s) /\ UNCHANGED mode

-----------------------------------------------------------------------------
(* Producers. *)

ExecSeq(args) ==
  CASE Len(args) = 0 -> [n |-> 1, end |-> -1, inc |-> 1]
    [] Len(args) = 1 -> [n |-> 1, end |-> args[1], inc |-> 1]
    [] Len(args) = 2 -> [n |-> args[1], end |-> args[2], inc |-> 1]
    [] OTHER -> [n |-> args[1], end |-> args[3], inc |-> args[2]]

GenSeq ==
  /\ Is("seq")
  /\ \/ /\ data.end > 0 /\ data.n > data.end
        /\ mode' = "killed"
        /\ UNCHANGED <<data, out>>
     \/ /\ ~(data.end > 0 /\ data.n > data.end)
        /\ KeepsEmits([data EXCEPT !.n = @ + data.inc], <<FloatValue(data.n)>>)

\* repeat and cycle: a number of times that is given must be positive.
ExecTimes(args) ==
  IF Len(args) = 2 /\ args[2] <= 0
    THEN Failed
    ELSE [v |-> args[1], count |-> IF Len(args) = 2 THEN args[2] ELSE -1]

GenRepeat ==
  /\ Is("repeat")
  /\ data' = [data EXCEPT !.count = @ - 1]
  /\ Emit(<<data.v>>)
  /\ mode' = IF data.count = 1 THEN "killed" ELSE mode

\* All of the array; the last element is emitted together with the next turn.
GenCycle ==
  /\ Is("cycle")
  /\ data' = [data EXCEPT !.count = @ - 1]
  /\ Emit(Of(data.v))
  /\ mode' = IF data.count = 1 THEN "killed" ELSE mode

-----------------------------------------------------------------------------
(* Operators without memory. *)

ExecFunc(args) == [func |-> args[1]]

IterEach(x) == Is("each") /\ UNCHANGED <<data, out, mode>>

IterMap(x) ==
  /\ Is("map")
  /\ \/ Fails(data.func, x) /\ NG
     \/ ~Fails(data.func, x) /\ Emits(<<Unary(data.func, x)>>)

IterFlatmap(x) ==
  /\ Is("flatmap")
  /\ LET val == Unary(data.func, x)
         flat == val # Failed /\ IsArray(val)
     IN \/ ~flat /\ NG
        \/ flat /\ Emits(Of(val))

IterFilter(x) ==
  /\ Is("filter")
  /\ \/ Fails(data.func, x) /\ NG
     \/ ~Fails(data.func, x) /\ Emits(IF Truth(Unary(data.func, x)) THEN <<x>> ELSE <<>>)

-----------------------------------------------------------------------------
(* Operators that count and fold. *)

ExecCount(args) == [count |-> 0]
IterCount(x) == Is("count") /\ Keeps([data EXCEPT !.count = @ + 1])
CountFinish == Is("count") /\ Emits(<<IntValue(data.count)>>)

OptFunc(args) == IF args = <<>> THEN Nil ELSE args[1]

ExecMinmax(args) == [start |-> TRUE, num |-> 0, data |-> Nil, func |-> OptFunc(args)]

Beats(new, old) == IF Is("min") THEN old > new ELSE old < new

IterMinmax(x) ==
  /\ Is("min") \/ Is("max")
  /\ LET e == IF IsNil(data.func) THEN x ELSE Unary(data.func, x) IN
     \/ e = Failed /\ NG
     \/ /\ e # Failed
        /\ Keeps(IF data.start \/ Beats(Of(e), data.num)
                   THEN [data EXCEPT !.start = FALSE, !.num = Of(e), !.data = x]
                   ELSE data)

MinmaxFinish == (Is("min") \/ Is("max")) /\ Emits(<<data.data>>)

ExecReduce(args) ==
  IF Len(args) = 2
    THEN [init |-> TRUE, acc |-> args[1], func |-> args[2]]
    ELSE [init |-> FALSE, acc |-> Nil, func |-> args[1]]

IterReduce(x) ==
  /\ Is("reduce")
  /\ LET acc == IF data.init THEN Funcall(data.func, <<data.acc, x>>) ELSE x IN
     \/ acc = Failed /\ NG
     \/ acc # Failed /\ Keeps([data EXCEPT !.init = TRUE, !.acc = acc])

ReduceFinish ==
  /\ Is("reduce")
  /\ \/ ~data.init /\ NG
     \/ data.init /\ Emits(<<data.acc>>)

(***************************************************************************)
(* reduce_by_key.  The table's keys are words: two strings of more than    *)
(* six bytes with the same text are two keys unless they are the same      *)
(* object.  The entries come out in the order of the hash table, which     *)
(* depends on addresses: any order.                                        *)
(***************************************************************************)
ExecRbk(args) == [tbl |-> <<>>, func |-> args[1]]

Put(f, k, v) == [j \in DOMAIN f \cup {k} |-> IF j = k THEN v ELSE f[j]]

IterRbk(x) ==
  /\ Is("reduce_by_key")
  /\ LET pair == IsArray(x) /\ Len(Of(x)) = 2
         k == Of(x)[1]
         v == IF k \in DOMAIN data.tbl
                THEN Funcall(data.func, <<k, data.tbl[k], Of(x)[2]>>)
                ELSE Of(x)[2]
     IN \/ ~pair /\ NG
        \/ pair /\ v = Failed /\ NG
        \/ pair /\ v # Failed /\ Keeps([data EXCEPT !.tbl = Put(@, k, v)])

RbkFinish ==
  /\ Is("reduce_by_key")
  /\ \E order \in SetToSeqs(DOMAIN data.tbl) :
       Emits([i \in DOMAIN order |-> AryValue(<<order[i], data.tbl[order[i]]>>)])

-----------------------------------------------------------------------------
(* Operators with a buffer of n values. *)

ExecSlice(args) == IF args[1] < 0 THEN Failed ELSE [n |-> args[1], buf |-> <<>>]

\* Mutant: one element too many before the array is passed on.
SliceLate(x) ==
  /\ Is("slice")
  /\ LET buf == Append(data.buf, x) IN
     \/ Len(buf) > data.n /\ KeepsEmits([data EXCEPT !.buf = <<>>], <<AryValue(buf)>>)
     \/ Len(buf) <= data.n /\ Keeps([data EXCEPT !.buf = buf])

IterSlice(x) ==
  /\ Is("slice")
  /\ LET buf == Append(data.buf, x) IN
     \/ Len(buf) = data.n /\ KeepsEmits([data EXCEPT !.buf = <<>>], <<AryValue(buf)>>)
     \/ Len(buf) # data.n /\ Keeps([data EXCEPT !.buf = buf])

FinishSlice ==
  /\ Is("slice")
  /\ Emits(IF data.buf = <<>> THEN <<>> ELSE <<AryValue(data.buf)>>)

IterConsec(x) ==
  /\ Is("consec")
  /\ LET full == Len(data.buf) = data.n
         buf == Append(IF full THEN Tail(data.buf) ELSE data.buf, x)
     IN KeepsEmits([data EXCEPT !.buf = buf],
                   IF Len(buf) = data.n THEN <<AryValue(buf)>> ELSE <<>>)

FinishConsec == Is("consec") /\ Emits(<<>>)

-----------------------------------------------------------------------------
(* Operators that look at the place of an element. *)

ExecTake(args) == IF args[1] < 0 THEN Failed ELSE [n |-> args[1]]

\* The stream is closed when n becomes 0: take(0) passes everything.
IterTake(x) ==
  /\ Is("take")
  /\ data' = [data EXCEPT !.n = @ - 1]
  /\ Emit(<<x>>)
  /\ mode' = IF data.n = 1 THEN "killed" ELSE mode

IterDrop(x) ==
  /\ Is("drop")
  /\ \/ data.n > 0 /\ Keeps([data EXCEPT !.n = @ - 1])
     \/ data.n <= 0 /\ Emits(<<x>>)

ExecUniq(args) == [init |-> FALSE, last |-> Nil, v |-> Nil, func |-> OptFunc(args)]

IterUniq(x) ==
  /\ Is("uniq") /\ IsNil(data.func)
  /\ \/ ~data.init /\ KeepsEmits([data EXCEPT !.init = TRUE, !.last = x], <<x>>)
     \/ data.init /\ ~ValueEq(x, data.last) /\ KeepsEmits([data EXCEPT !.last = x], <<x>>)
     \/ data.init /\ ValueEq(x, data.last) /\ Emits(<<>>)

\* Mutant: a new element is passed on, its value is not remembered.
UniqForgets(x) ==
  /\ Is("uniq") /\ ~IsNil(data.func)
  /\ LET val == Unary(data.func, x)
         new == ~data.init \/ ~ValueEq(val, data.v)
     IN \/ val = Failed /\ NG
        \/ /\ val # Failed /\ new
           /\ KeepsEmits([data EXCEPT !.init = TRUE, !.last = x, !.v = IF data.init THEN @ ELSE val],
                         <<x>>)
        \/ val # Failed /\ ~new /\ Emits(<<>>)

IterUniqf(x) ==
  /\ Is("uniq") /\ ~IsNil(data.func)
  /\ LET val == Unary(data.func, x)
         new == ~data.init \/ ~ValueEq(val, data.v)
     IN \/ val = Failed /\ NG
        \/ /\ val # Failed /\ new
           /\ KeepsEmits([data EXCEPT !.init = TRUE, !.last = x, !.v = val], <<x>>)
        \/ val # Failed /\ ~new /\ Emits(<<>>)

-----------------------------------------------------------------------------
(* The functions of arrays with the same names (iter.c, array.c). *)

MapAll(f, s) == [i \in DOMAIN s |-> Unary(f, s[i])]
AnyFails(f, s) == \E i \in DOMAIN s : Fails(f, s[i])

AryEach(s, f) == IF AnyFails(f, s) THEN Failed ELSE AryValue(s)
AryMap(s, f) == IF AnyFails(f, s) THEN Failed ELSE AryValue(MapAll(f, s))

RECURSIVE FlatmapLen(_), FlatmapPush(_)
FlatmapLen(s) ==
  FoldLeft(LAMBDA n, v : n + (IF IsArray(v) THEN FlatmapLen(Of(v)) ELSE 1), 0, s)
FlatmapPush(s) ==
  FoldLeft(LAMBDA p, v : p \o (IF IsArray(v) THEN FlatmapPush(Of(v)) ELSE <<v>>), <<>>, s)

\* The function is applied to what is left when no array is nested any more.
AryFlatmap(s, f) ==
  LET leaves == FlatmapPush(s) IN
  IF AnyFails(f, leaves)
    THEN Failed
    ELSE AryValue([i \in 1..FlatmapLen(s) |-> Unary(f, leaves[i])])

AryLength(s) == IntValue(Len(s))
AryReverse(s) == AryValue([i \in DOMAIN s |-> s[Len(s) - i + 1]])

\* Mutant: of two equal elements the later one.
LastMinmax(s, min, f) ==
  LET e(i) == IF IsNil(f) THEN Of(s[1]) ELSE Of(Unary(f, s[i]))
      Better(i, j) == IF min THEN e(j) >= e(i) ELSE e(j) <= e(i)
      best[i \in 1..Len(s)] ==
        IF i = 1 THEN 1 ELSE IF Better(i, best[i - 1]) THEN i ELSE best[i - 1]
  IN IF s = <<>> THEN Nil
     ELSE IF ~IsNil(f) /\ AnyFails(f, s) THEN Failed
     ELSE s[best[Len(s)]]

\* Without a function every element is compared as if it were the first.
AryMinmax(s, min, f) ==
  LET e(i) == IF IsNil(f) THEN Of(s[1]) ELSE Of(Unary(f, s[i]))
      Better(i, j) == IF min THEN e(j) > e(i) ELSE e(j) < e(i)
      best[i \in 1..Len(s)] ==
        IF i = 1 THEN 1 ELSE IF Better(i, best[i - 1]) THEN i ELSE best[i - 1]
  IN IF s = <<>> THEN Nil
     ELSE IF ~IsNil(f) /\ AnyFails(f, s) THEN Failed
     ELSE s[best[Len(s)]]

-----------------------------------------------------------------------------
ExecIter(c) ==
  CASE c.name = "seq" -> ExecSeq(c.args)
    [] c.name \in {"repeat", "cycle"} -> ExecTimes(c.args)
    [] c.name \in {"each", "map", "flatmap", "filter"} -> ExecFunc(c.args)
    [] c.name = "count" -> ExecCount(c.args)
    [] c.name \in {"min", "max"} -> ExecMinmax(c.args)
    [] c.name = "reduce" -> ExecReduce(c.args)
    [] c.name = "reduce_by_key" -> ExecRbk(c.args)
    [] c.name \in {"slice", "consec"} -> ExecSlice(c.args)
    [] c.name \in {"take", "drop"} -> ExecTake(c.args)
    [] c.name = "uniq" -> ExecUniq(c.args)

Generate == Len(out) < MaxOut /\ (GenSeq \/ GenRepeat \/ GenCycle)

Iter(x) ==
  \/ IterEach(x) \/ IterMap(x) \/ IterFlatmap(x) \/ IterFilter(x)
  \/ IterCount(x) \/ IterMinmax(x) \/ IterReduce(x) \/ IterRbk(x)
  \/ IterSlice(x) \/ IterConsec(x)
  \/ IterTake(x) \/ IterDrop(x) \/ IterUniq(x) \/ IterUniqf(x)

FinishIter ==
  \/ CountFinish \/ MinmaxFinish \/ ReduceFinish \/ RbkFinish
  \/ FinishSlice \/ FinishConsec
=============================================================================
