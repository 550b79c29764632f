------------------------------ MODULE Library ------------------------------
(***************************************************************************)
(* A stream of the library between its upstream and its downstream, and    *)
(* what the functions of the library promise: for each the list function   *)
(* of its name, defined on the whole input.                                *)
(***************************************************************************)
EXTENDS Sorting, Statistics, Csv, Reading

CONSTANTS
  Calls,      \* the calls that make a stream
  Inputs(_),  \* the elements a call's stream may receive
  MaxFed      \* bound: elements received

Exec(c) ==
  CASE c.name \in {"sort", "sort_by", "median"} -> ExecSorting(c)
    [] c.name \in {"sum", "average", "moving_average", "variance", "stdev", "mean_variance",
                   "mean_stdev", "correl", "sample"} -> ExecStatistics(c)
    [] c.name \in {"csv", "ltsv"} -> ExecCsv(c)
    [] c.name = "lines" -> ExecLines(c)
    [] OTHER -> ExecIter(c)

Init ==
  /\ call \in {c \in Calls : Exec(c) # Failed}
  /\ data = Exec(call)
  /\ fed = <<>> /\ out = <<>>
  /\ mode = "open" /\ closed = FALSE

Producers == {"seq", "repeat", "cycle"}

\* One call of start_func for an element.
Receive(x) ==
  /\ mode = "open" /\ ~closed /\ Len(fed) < MaxFed
  /\ fed' = Append(fed, x)
  /\ Iter(x) \/ IterSorting(x) \/ IterStatistics(x) \/ IterCsv(x) \/ ReadCb(x)
  /\ UNCHANGED <<call, closed>>

\* One call of a producer.
Produce ==
  /\ mode = "open" /\ (Generate \/ ReadOn)
  /\ UNCHANGED <<call, fed, closed>>

\* The upstream has ended: close_func, for the streams that have one.
Finishing ==
  {"count", "min", "max", "reduce", "reduce_by_key", "slice", "consec", "sort", "sort_by",
   "median", "sum", "average", "variance", "stdev", "mean_variance", "mean_stdev", "correl",
   "sample", "csv", "lines"}
Close ==
  /\ mode = "open" /\ ~closed /\ call.name \notin Producers
  /\ closed' = TRUE
  /\ IF call.name \in Finishing
       THEN FinishIter \/ FinishSorting \/ FinishStatistics \/ FinishCsv \/ ReadNone
       ELSE UNCHANGED <<data, out, mode>>
  /\ UNCHANGED <<call, fed>>

Next == Produce \/ Close \/ \E x \in Inputs(call) : Receive(x)

Spec == Init /\ [][Next]_filterVars

-----------------------------------------------------------------------------
(***************************************************************************)
(* The buffers of the streams keep within what has been allocated for them *)
(* and hold what they must: slice (iter.c) passes its array on before it   *)
(* is full for the next element, consec keeps n, the index of              *)
(* moving_average (stat.c) is one of its ring, and sample (random.c) never *)
(* has more than len.  A stream that has closed itself stays closed.       *)
(***************************************************************************)
TypeOK ==
  /\ call \in Calls /\ mode \in {"open", "killed"} /\ closed \in BOOLEAN
  /\ Is("slice") => Len(data.buf) < data.n
  /\ Is("consec") => Len(data.buf) <= data.n
  /\ Is("moving_average") =>
       /\ data.i \in 0..(data.num - 1)
       /\ DOMAIN data.ring = 1..(IF data.filled THEN data.num ELSE data.i)
  /\ Is("sample") => DOMAIN data.samples = 1..Min({data.i, data.len})
  /\ Is("csv") => Len(data.headers) \in {0, data.n} /\ Len(data.types) \in {0, data.n}

\* The elements whose function does not fail.
Func == data.func
Fine(s) == SelectSeq(s, LAMBDA x : ~Fails(Func, x))
Key(x) == IF IsNil(Func) THEN x ELSE Unary(Func, x)
Valid(s) == IF IsNil(Func) THEN s ELSE Fine(s)

\* What holds before and after the end of the stream.
AtEnd(s) == IF closed THEN s ELSE <<>>

Count(s, x) == Cardinality({i \in DOMAIN s : s[i] = x})
SameElements(s, t) == Len(s) = Len(t) /\ \A i \in DOMAIN s : Count(s, s[i]) = Count(t, s[i])

(***************************************************************************)
(* What has been emitted at any time, from the elements received and the   *)
(* arguments of the call.                                                  *)
(***************************************************************************)
Chunks(s, n) == [i \in 1..(Len(s) \div n) |-> AryValue(SubSeq(s, (i - 1) * n + 1, i * n))]
Rest(s, n) == SubSeq(s, (Len(s) \div n) * n + 1, Len(s))
Windows(s, n) == [i \in 1..(Len(s) - n + 1) |-> AryValue(SubSeq(s, i, i + n - 1))]
FirstBest(s) ==
  {s[i] : i \in {k \in DOMAIN s :
     \A j \in DOMAIN s : /\ ~Beats(Of(Key(s[j])), Of(Key(s[k])))
                         /\ j < k => Of(Key(s[j])) # Of(Key(s[k]))}}
Changes(s) ==
  LET at == SelectSeq([i \in DOMAIN s |-> i],
                      LAMBDA i : i = 1 \/ ~ValueEq(Key(s[i]), Key(s[i - 1])))
  IN [k \in DOMAIN at |-> s[at[k]]]
Select2(s, k) == SelectSeq(s, LAMBDA x : Of(x)[1] = k)
KeyValues(s, k) == [i \in DOMAIN Select2(s, k) |-> Of(Select2(s, k)[i])[2]]
Reduced(first, s) ==   \* first: arguments before the accumulator
  LET step(acc, x) ==
        LET r == Funcall(Func, first \o <<acc, x>>) IN IF r = Failed THEN acc ELSE r
  IN FoldLeft(step, Head(s), Tail(s))

(***************************************************************************)
(* The operators of iter.c compute the list functions of their names: at   *)
(* any time what has been emitted is that function of what has come.  For  *)
(* an element whose function fails nothing is emitted, and later elements  *)
(* are treated as if it had not come.                                      *)
(***************************************************************************)
ListPromise ==
  LET s == fed IN
  CASE Is("seq") ->
         LET d == ExecSeq(call.args) IN
         /\ \A i \in DOMAIN out : out[i] = FloatValue(d.n + (i - 1) * d.inc)
         /\ d.end > 0 => \A i \in DOMAIN out : Of(out[i]) <= d.end
         /\ mode = "killed" => d.end > 0 /\ d.n + Len(out) * d.inc > d.end
    [] Is("repeat") \/ Is("cycle") ->
         LET list == IF Is("cycle") THEN Of(Arg(1)) ELSE <<Arg(1)>> IN
         /\ \A i \in DOMAIN out : out[i] = list[((i - 1) % Len(list)) + 1]
         /\ mode = "killed" <=> Argc = 2 /\ Len(out) = Len(list) * Arg(2)
    [] Is("each") -> out = <<>>
    [] Is("map") -> out = MapAll(Func, Fine(s))
    [] Is("flatmap") ->
         LET flat == SelectSeq(Fine(s), LAMBDA x : IsArray(Key(x))) IN
         out = FlattenSeq([i \in DOMAIN flat |-> Of(Key(flat[i]))])
    [] Is("filter") -> out = SelectSeq(Fine(s), LAMBDA x : Key(x) = BoolValue(TRUE))
    [] Is("count") -> out = AtEnd(<<IntValue(Len(s))>>)
    [] Is("min") \/ Is("max") ->
         IF closed /\ Valid(s) # <<>> THEN \E v \in FirstBest(Valid(s)) : out = <<v>> ELSE out = <<>>
    [] Is("reduce") ->
         LET all == IF Argc = 2 THEN <<Arg(1)>> \o s ELSE s IN
         out = AtEnd(IF all = <<>> THEN <<>> ELSE <<Reduced(<<>>, all)>>)
    [] Is("reduce_by_key") ->
         LET pairs == SelectSeq(s, IsPair)
             keys == {Of(pairs[i])[1] : i \in DOMAIN pairs}
         IN closed => /\ Len(out) = Cardinality(keys)
                      /\ \A k \in keys : AryValue(<<k, Reduced(<<k>>, KeyValues(pairs, k))>>) \in Range(out)
    [] Is("slice") ->
         out = Chunks(s, Arg(1)) \o AtEnd(IF Rest(s, Arg(1)) = <<>> THEN <<>> ELSE <<AryValue(Rest(s, Arg(1)))>>)
    [] Is("consec") -> out = Windows(s, Arg(1))
    [] Is("take") ->
         /\ out = s
         /\ Arg(1) > 0 => Len(s) <= Arg(1)
         /\ mode = "killed" <=> Arg(1) > 0 /\ Len(s) = Arg(1)
    [] Is("drop") -> out = SubSeq(s, Arg(1) + 1, Len(s))
    [] Is("uniq") -> out = Changes(Valid(s))
    [] OTHER -> TRUE

(***************************************************************************)
(* sort and sort_by emit at the end what they have received, in order; the *)
(* median is in the middle of what was received, or halfway between the    *)
(* middle and the value after it in the array that the selection leaves.   *)
(***************************************************************************)
Middle(s, v) ==
  /\ Cardinality({i \in DOMAIN s : StrmCmp(s[i], v) < 0}) <= (Len(s) - 1) \div 2
  /\ Cardinality({i \in DOMAIN s : StrmCmp(v, s[i]) < 0}) <= Len(s) \div 2

SortPromise ==
  CASE Is("sort") ->
         LET Cmpf(a, b) == SortCmpf(Func, a, b) IN
         IF closed
           THEN /\ SameElements(fed, out)
                /\ IF IsNil(Func) THEN Ordered(out, StrmCmp) ELSE Ordered(out, Cmpf)
           ELSE out = <<>>
    [] Is("sort_by") ->
         LET Cmp(a, b) == SortbyCmp([v |-> Key(a), o |-> a], [v |-> Key(b), o |-> b]) IN
         IF closed THEN SameElements(Fine(fed), out) /\ Ordered(out, Cmp) ELSE out = <<>>
    [] Is("median") ->
         LET keys == [i \in DOMAIN fed |-> Key(fed[i])] IN
         closed /\ Valid(fed) = fed /\ fed # <<>> =>
           IF Len(fed) % 2 = 1
             THEN Middle(keys, out[1])
             ELSE \E i, j \in DOMAIN keys :
                    /\ i # j /\ Middle(keys, keys[i]) /\ StrmCmp(keys[i], keys[j]) <= 0
                    /\ out = <<IF IsNumber(keys[i]) /\ IsNumber(keys[j])
                                 THEN Halved(Of(keys[i]) + Of(keys[j]))
                                 ELSE keys[i]>>
    [] OTHER -> TRUE

(***************************************************************************)
(* The compensated sum of the numbers received is their exact sum, rounded *)
(* once, although single additions lose small numbers beside large ones    *)
(* (as long as what they lose adds up without loss); so are the sums of    *)
(* the averages.                                                           *)
(***************************************************************************)
ExactSum(s) == FoldLeft(LAMBDA a, b : a + b, 0, s)
Received == LET v == [i \in DOMAIN fed |-> IF IsNil(Func) THEN fed[i] ELSE ConvertNumber(Func, fed[i])]
                num == SelectSeq(v, IsNumber)
            IN [i \in DOMAIN num |-> Of(num[i])]

(***************************************************************************)
(* The function of arrays with the same name, given the elements as an     *)
(* array, returns what the stream has emitted at its end, or fails if the  *)
(* function fails for one of them or gives no number where one is needed   *)
(* (the stream leaves such an element out).  It returns something else     *)
(* - in min and max without a function, which compare every element with   *)
(*   the first as if it were that one (array.c:121) and return the first;  *)
(* - in variance and stdev without a function, which call what a variable  *)
(*   not written happens to hold, since argc counts the array and is never *)
(*   0 (stat.c:400);                                                       *)
(* - in flatmap, which takes nested arrays apart first and then calls the  *)
(*   function; of elements that are no arrays it gives what map gives.     *)
(* correl is compared for pairs of numbers only: the array function skips  *)
(* what is no pair but counts it.                                          *)
(***************************************************************************)
ArraysAgree ==
  closed /\ fed # <<>> =>
    LET Same(whole) == IF whole THEN out[1] ELSE Failed
        called == Valid(fed) = fed
        numbers == Len(Received) = Len(fed)
        min == Is("min")
    IN CASE Is("map") -> AryMap(fed, Func) = IF called THEN AryValue(out) ELSE Failed
         [] Is("each") -> AryEach(fed, Func) = IF called THEN AryValue(fed) ELSE Failed
         [] Is("flatmap") -> AryFlatmap(fed, Func) = AryMap(fed, Func)
         [] Is("min") \/ Is("max") ->
              AryMinmax(fed, min, Func) = IF IsNil(Func) THEN fed[1] ELSE Same(called)
         [] Is("sort") -> AryValue(out) \in ArySort(fed, Func)
         [] Is("sort_by") -> IF called THEN AryValue(out) \in ArySortby(fed, Func)
                                       ELSE ArySortby(fed, Func) = {Failed}
         [] Is("median") -> AryMedian(fed, Func) = Same(called)
         [] Is("sum") \/ Is("average") -> ArySumAvg(fed, Func, Is("average")) = Same(numbers)
         [] Is("variance") \/ Is("stdev") ->
              AryVarStdev(fed, Func, Is("stdev")) = IF IsNil(Func) THEN Garbage ELSE Same(numbers)
         [] Is("correl") -> (\A i \in DOMAIN fed : IsNumberPair(fed[i])) => AryCorrel(fed) = out[1]
         [] OTHER -> TRUE

SumPromise ==
  CASE Is("sum") -> out = AtEnd(<<FloatValue(Fl(ExactSum(Received)))>>)
    [] Is("average") -> out = AtEnd(<<Quotient(Fl(ExactSum(Received)), Len(Received))>>)
    [] Is("moving_average") ->
         out = [i \in 1..(Len(Received) - Arg(1) + 1) |->
                  Quotient(Fl(ExactSum(SubSeq(Received, i, i + Arg(1) - 1))), Arg(1))]
    [] OTHER -> TRUE

(***************************************************************************)
(* The variance of one pass is the sum of the squared distances from the   *)
(* mean, over n - 1; correl the same for the products.  sample emits       *)
(* elements it has received, none twice.                                   *)
(***************************************************************************)
Products(x, y) == ExactSum([i \in DOMAIN x |-> x[i] * y[i]])
Squares(x, y, s) ==   \* s scaled: the sum of (x - mean x) * (y - mean y)
  Len(x) * s = Scale * (Len(x) * Products(x, y) - ExactSum(x) * ExactSum(y))

Variance(q, x) == q[2] = data.s2 /\ q[4] = Len(x) - 1 /\ Squares(x, x, q[2])

StatPromise ==
  closed =>
    CASE call.name \in {"variance", "stdev"} -> Variance(out[1], Received)
      [] call.name \in {"mean_variance", "mean_stdev"} ->
           /\ Len(Received) * Of(Of(out[1])[1]) = Scale * ExactSum(Received)
           /\ Variance(Of(out[1])[2], Received)
      [] Is("correl") ->
           LET pairs == SelectSeq(fed, IsNumberPair)
               x == [i \in DOMAIN pairs |-> Of(Of(pairs[i])[1])]
               y == [i \in DOMAIN pairs |-> Of(Of(pairs[i])[2])]
           IN /\ Squares(x, y, out[1][2])
              /\ Squares(x, x, out[1][3])
              /\ Squares(y, y, out[1][4])
      [] Is("sample") /\ Len(fed) >= Arg(1) ->
           /\ Len(out) = Arg(1)
           /\ \A v \in Range(out) : Count(out, v) <= Count(fed, v)
      [] OTHER -> TRUE

(***************************************************************************)
(* Lines as records: a record ends where the quotes read so far are even,  *)
(* and so are the quotes before the end of a field.                        *)
(***************************************************************************)
Quotes(s, i) == Cardinality({k \in 1..i : s[k] = Quote})
Records(lines) ==
  LET step(st, line) ==
        LET r == IF st.open = <<>> THEN line ELSE st.open \o <<LF>> \o line IN
        IF Quotes(r, Len(r)) % 2 = 1 THEN [st EXCEPT !.open = r]
                                     ELSE [done |-> Append(st.done, r), open |-> <<>>]
  IN FoldLeft(step, [done |-> <<>>, open |-> <<>>], lines).done

Ends(r) == {i \in DOMAIN r : r[i] = Comma /\ Quotes(r, i) % 2 = 0} \cup {Len(r) + 1}
Split(r) ==
  LET End(k) == CHOOSE e \in Ends(r) : Cardinality({b \in Ends(r) : b < e}) = k - 1 IN
  [k \in 1..Cardinality(Ends(r)) |-> SubSeq(r, IF k = 1 THEN 1 ELSE End(k - 1) + 1, End(k) - 1)]

\* v is the value of the field: what is in quotes is a string.
IsValueOf(v, field, type) ==
  IF Quote \in Range(field) THEN IsString(v) ELSE v = CsvValue(field, type)
FieldType(field, type) ==
  IF Quote \in Range(field) THEN "STR" ELSE CsvType(CsvValue(field, type))
TypesOf(r, types) ==
  [i \in DOMAIN Split(r) |-> FieldType(Split(r)[i], IF types = <<>> THEN "UNSPC" ELSE types[i])]
Texts(r) == \A i \in DOMAIN Split(r) : TypesOf(r, <<>>)[i] = "STR"

(***************************************************************************)
(* The rows of a csv stream: records with as many fields as the first, all *)
(* with the types of the first row, in their order.  A first record of     *)
(* strings is the header of the rows if the second has anything else, and  *)
(* a row itself otherwise, also if it stays alone.                         *)
(***************************************************************************)
CsvPromise ==
  Is("csv") =>
    LET all == Records([i \in DOMAIN fed |-> Of(fed[i])])
        recs == SelectSeq(all, LAMBDA r : Len(Split(r)) = Len(Split(all[1])))
        header == Len(recs) > 1 /\ Texts(recs[1]) /\ ~Texts(recs[2])
        waiting == Len(recs) = 1 /\ Texts(recs[1]) /\ ~closed
        start == IF header THEN 2 ELSE 1
        typed == IF ~header /\ Len(recs) > 1 /\ Texts(recs[1]) THEN 2 ELSE start
        types == TypesOf(recs[typed], <<>>)    \* the rows up to typed fix the types
        rows == SubSeq(recs, start, typed)
                  \o SelectSeq(SubSeq(recs, typed + 1, Len(recs)), LAMBDA r : TypesOf(r, types) = types)
        Untyped(k) == k <= typed - start + 1
    IN IF recs = <<>> \/ waiting THEN out = <<>>
       ELSE /\ Len(out) = Len(rows)
            /\ \A k \in DOMAIN rows, i \in DOMAIN types :
                 IsValueOf(Of(out[k])[i], Split(rows[k])[i],
                           IF Untyped(k) THEN "UNSPC" ELSE types[i])
            /\ \A k \in DOMAIN rows :
                 /\ Len(Of(out[k])) = Len(types)
                 /\ header <=> Len(out[k]) = 4
                 /\ header => \A i \in DOMAIN types : IsValueOf(out[k][4][i], Split(recs[1])[i], "UNSPC")

(***************************************************************************)
(* The labels and values of an ltsv line, put together again, are the line.*)
(***************************************************************************)
TextOf(v) == IF IsNumber(v) THEN <<48 + Of(v)>> ELSE Of(v)
Joined(row) ==
  FlattenSeq([i \in DOMAIN Of(row) |->
    (IF i = 1 THEN <<>> ELSE <<Tab>>)
      \o (IF IsNil(row[4][i]) THEN <<>> ELSE Of(row[4][i]) \o <<Colon>>) \o TextOf(Of(row)[i])])
LtsvPromise ==
  Is("ltsv") =>
    LET lines == SelectSeq(fed, IsString) IN
    /\ Len(out) = Len(lines)
    /\ \A k \in DOMAIN out :
         \/ Of(out[k]) = <<>> /\ Of(lines[k]) = <<>>
         \/ Joined(out[k]) = Of(lines[k])
         \/ Joined(out[k]) \o <<Tab>> = Of(lines[k])

(***************************************************************************)
(* The lines of a text come out of its chunks in their order, whole: no    *)
(* byte is lost or repeated, and a line is cut only if it is as long as    *)
(* the buffer (or as what is moved to its front).  A stream that has ended *)
(* has emitted the last line too; one that never ends, or searches behind  *)
(* its mapping, had an empty file or a last line without its end.          *)
(***************************************************************************)
LinesOf(text) ==
  LET step(st, b) == IF b = LF THEN [done |-> Append(st.done, st.open), open |-> <<>>]
                               ELSE [st EXCEPT !.open = Append(@, b)]
      all == FoldLeft(step, [done |-> <<>>, open |-> <<>>], text)
  IN IF all.open = <<>> THEN all.done ELSE Append(all.done, all.open)

LinesPromise ==
  Is("lines") =>
    LET text == IF Map THEN Arg(2) ELSE FlattenSeq([i \in DOMAIN fed |-> Of(fed[i])])
        lines == LinesOf(text)
        emitted == [i \in DOMAIN out |-> Of(out[i])]
    IN /\ IsPrefix(FlattenSeq(emitted), FlattenSeq(lines))
       /\ Map \/ (\A i \in DOMAIN lines : Len(lines[i]) < Word) =>
            /\ IsPrefix(emitted, lines)
            /\ mode = "killed" \/ (closed /\ data.task = "none") => emitted = lines
       /\ data.task \in {"none", "beyond"} => text = <<>> \/ Last(text) # LF
=============================================================================
