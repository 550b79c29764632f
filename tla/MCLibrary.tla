----------------------------- MODULE MCLibrary -----------------------------
(***************************************************************************)
(* Values for the constants of Library: which calls are made, what they    *)
(* are fed with, and what the functions of the program do.                 *)
(***************************************************************************)
EXTENDS Library

I(n) == IntValue(n)
F(name) == CfuncValue(name)
Pair(k, v) == AryValue(<<k, v>>)

\* Functions of the program.  Each fails for some arguments.
MCFuncall(f, a) ==
  LET x == Of(a[1]) IN
  CASE Of(f) = "inc" -> IF x = 2 THEN Failed ELSE I(x + 1)
    [] Of(f) = "odd" -> IF x = 3 THEN Failed ELSE BoolValue(x % 2 = 1)
    [] Of(f) = "half" -> IF x = 3 THEN Failed ELSE I(x \div 2)
    [] Of(f) = "twice" -> IF x = 3 THEN Failed ELSE IF x = 2 THEN I(x) ELSE Pair(a[1], a[1])
    [] Of(f) = "sub" -> IF x = 3 THEN Failed ELSE I(x - 2 * Of(a[2]))
    [] Of(f) = "add" -> IF Of(a[3]) = 3 THEN Failed ELSE I(2 * Of(a[2]) - Of(a[3]))
    [] Of(f) = "minus" -> I(x - Of(a[2]))
    [] Of(f) = "neg" -> IF IsString(a[1]) THEN Nil ELSE IF x = 3 THEN Failed ELSE I(-x)
    [] Of(f) = "id" -> a[1]

C(name, args) == [name |-> name, args |-> args]

ListCalls ==
  {C("seq", <<>>), C("seq", <<2>>), C("seq", <<2, 3>>), C("seq", <<1, 2, 6>>),
   C("repeat", <<I(1)>>), C("repeat", <<I(1), 2>>), C("repeat", <<I(1), 0>>),
   C("cycle", <<AryValue(<<I(1), I(2)>>)>>), C("cycle", <<AryValue(<<I(1), I(2)>>), 2>>),
   C("each", <<F("inc")>>), C("map", <<F("inc")>>), C("flatmap", <<F("twice")>>),
   C("filter", <<F("odd")>>), C("count", <<>>),
   C("min", <<>>), C("min", <<F("half")>>), C("max", <<>>), C("max", <<F("half")>>),
   C("reduce", <<F("sub")>>), C("reduce", <<I(0), F("sub")>>),
   C("slice", <<1>>), C("slice", <<2>>), C("slice", <<3>>),
   C("consec", <<1>>), C("consec", <<2>>), C("consec", <<3>>),
   C("take", <<-1>>), C("take", <<0>>), C("take", <<1>>), C("take", <<3>>),
   C("drop", <<0>>), C("drop", <<2>>), C("uniq", <<>>), C("uniq", <<F("half")>>)}

SortCalls ==
  {C("sort", <<>>), C("sort", <<F("minus")>>), C("sort_by", <<F("neg")>>),
   C("median", <<>>), C("median", <<F("half")>>)}

StatCalls ==
  {C("sum", <<>>), C("average", <<>>), C("sum", <<F("id")>>),
   C("moving_average", <<2>>), C("moving_average", <<3, F("id")>>),
   C("variance", <<>>), C("variance", <<F("id")>>), C("mean_variance", <<>>),
   C("stdev", <<F("id")>>), C("mean_stdev", <<>>),
   C("correl", <<>>), C("sample", <<1>>), C("sample", <<2>>)}

A == 97
MCCalls ==
  ListCalls \cup SortCalls \cup StatCalls
    \cup {C("reduce_by_key", <<F("add")>>), C("csv", <<>>), C("ltsv", <<>>)}
    \cup {C("lines", <<how, 4, word>>) : how \in {"poll", "file"}, word \in {2, 4}}
    \cup {C("lines", <<"map", text>>) : text \in {<<>>, <<LF>>, <<A, LF, LF, 55, A>>, <<A, A, LF, 55, LF>>}}

Seven == 55
\* a,7  a,a  a  "a  a",7  "a""",7  ,  and a date
CsvLines ==
  {Str(<<A, Comma, Seven>>), Str(<<A, Comma, A>>), Str(<<A>>),
   Str(<<Quote, A, Comma>>), Str(<<A, Quote, Comma, Seven>>),
   Str(<<Quote, A, Quote, Quote, Quote, Comma, Seven>>), Str(<<Comma>>), Str(<<Date, Comma, A>>)}
MCInputs(c) ==
  CASE c.name = "sort" /\ c.args = <<>> -> {I(1), I(2), Str(<<A>>), Str(<<A, A>>), BoolValue(TRUE)}
    [] c.name \in {"min", "max", "uniq"} /\ c.args # <<>> -> {I(1), I(3), I(4), I(5)}
    [] c.name = "sort_by" -> {I(1), I(2), I(3), Str(<<A>>)}
    [] c.name = "median" /\ c.args = <<>> -> {I(1), I(2), I(4), Str(<<A>>)}
    [] c.name \in {"sum", "average", "moving_average"} ->
         {I(1), I(-3), I(128), I(-128), Str(<<A>>)}
    [] c.name \in {"variance", "mean_variance"} /\ c.args # <<>> -> {I(0), I(3), I(-4), Str(<<A>>)}
    [] c.name \in {"variance", "mean_variance", "stdev", "mean_stdev"} -> {I(0), I(3), I(-4)}
    [] c.name = "correl" -> {Pair(I(0), I(1)), Pair(I(3), I(-2)), Pair(I(2), I(2)), I(0)}
    [] c.name = "reduce_by_key" ->
         {Pair(Str(<<A>>), I(1)), Pair(Str(<<A>>), I(3)), Pair(I(0), I(2)), Pair(I(0), I(1)), I(0)}
    [] c.name = "csv" -> CsvLines
    [] c.name = "lines" ->
         IF c.args[1] = "map" THEN {}
         ELSE {Str(<<A>>), Str(<<LF>>), Str(<<A, 55>>), Str(<<LF, A>>)}
    [] c.name = "ltsv" ->
         {Str(<<>>), Str(<<A, Colon, 55>>), Str(<<55, Tab, A, Colon>>), Str(<<A, Tab>>),
          Str(<<A, Colon, A, Colon, A, Tab, Tab>>), I(1)}
    [] OTHER -> {I(1), I(2), I(3)}
=============================================================================
