----------------------------- MODULE Statistics -----------------------------
(***************************************************************************)
(* sum, average, moving_average, stdev, variance and correl (stat.c), and  *)
(* sample (random.c).                                                      *)
(*                                                                         *)
(* Doubles are modelled in two ways, each for what its algorithm is about. *)
(* The sums keep what rounding loses: a double is an integer of at most    *)
(* Precision significant bits, and Fl rounds to one.  The variances are    *)
(* about exact algebra: a double is a multiple of 1/Scale, with Scale a    *)
(* multiple of every number of elements, and nothing is rounded.           *)
(***************************************************************************)
EXTENDS Operators, FiniteSetsExt

CONSTANTS Precision, Scale

Magnitude(x) == IF x < 0 THEN -x ELSE x

\* The nearest double, a tie to the even one.
Fl(x) ==
  LET u == Min({2 ^ k : k \in {j \in 0..20 : Magnitude(x) < 2 ^ (Precision + j)}})
      q == Magnitude(x) \div u
      r == 2 * (Magnitude(x) % u)
      n == IF r > u \/ (r = u /\ q % 2 = 1) THEN q + 1 ELSE q
  IN (IF x < 0 THEN -n ELSE n) * u

\* The quotient of two doubles that is not computed further.
Quotient(a, b) == <<"float", a, "over", b>>

\* convert_number: the number a function makes of an element, or nil.
ConvertNumber(f, x) ==
  LET val == Unary(f, x) IN IF val = Failed \/ ~IsNumber(val) THEN Nil ELSE val

-----------------------------------------------------------------------------
(* Sums with the compensation c of what the additions have lost. *)

\* Mutant: what is lost is always taken from the number that is added.
PlusUnordered(d, x) ==
  LET t == Fl(d.sum + x) IN [d EXCEPT !.sum = t, !.c = Fl(@ + Fl(Fl(d.sum - t) + x))]

Plus(d, x) ==
  LET t == Fl(d.sum + x)
      lost == IF Magnitude(d.sum) >= Magnitude(x)
                THEN Fl(Fl(d.sum - t) + x)
                ELSE Fl(Fl(x - t) + d.sum)
  IN [d EXCEPT !.sum = t, !.c = Fl(@ + lost)]

Total(s) == LET d == FoldLeft(Plus, [sum |-> 0, c |-> 0], s) IN Fl(d.sum + d.c)

ExecSumAvg(args) == [sum |-> 0, c |-> 0, num |-> 0, func |-> OptFunc(args)]

AddTo(v) ==
  \/ ~IsNumber(v) /\ NG
  \/ IsNumber(v) /\ Keeps([Plus(data, Of(v)) EXCEPT !.num = @ + 1])

Summing == Is("sum") \/ Is("average")
IterSum(x) == Summing /\ IsNil(data.func) /\ AddTo(x)
IterSumf(x) == Summing /\ ~IsNil(data.func) /\ AddTo(ConvertNumber(data.func, x))

SumFinish == Is("sum") /\ Emits(<<FloatValue(Fl(data.sum + data.c))>>)
AvgFinish == Is("average") /\ Emits(<<Quotient(Fl(data.sum + data.c), data.num)>>)

Numbers(s, f) ==
  LET v == IF IsNil(f) THEN s ELSE [i \in DOMAIN s |-> ConvertNumber(f, s[i])] IN
  IF \A i \in DOMAIN v : IsNumber(v[i]) THEN [i \in DOMAIN v |-> Of(v[i])] ELSE Failed

ArySumAvg(s, f, avg) ==
  CASE Numbers(s, f) = Failed -> Failed
    [] Numbers(s, f) # Failed /\ ~avg -> FloatValue(Total(Numbers(s, f)))
    [] Numbers(s, f) # Failed /\ avg -> Quotient(Total(Numbers(s, f)), Len(s))

\* The last num numbers, in a ring; its sum is taken in the order of the ring.
ExecMvavg(args) ==
  [num |-> args[1], i |-> 0, filled |-> FALSE, ring |-> <<>>, func |-> OptFunc(Tail(args))]

IterMvavg(x) ==
  /\ Is("moving_average")
  /\ LET v == IF IsNil(data.func) THEN x ELSE ConvertNumber(data.func, x)
         ring == Put(data.ring, data.i + 1, Of(v))
         wraps == data.i + 1 = data.num
         filled == data.filled \/ wraps
     IN \/ ~IsNumber(v) /\ NG
        \/ /\ IsNumber(v)
           /\ KeepsEmits([data EXCEPT !.ring = ring, !.i = IF wraps THEN 0 ELSE @ + 1,
                                      !.filled = filled],
                         IF filled THEN <<Quotient(Total(ring), data.num)>> ELSE <<Nil>>)

-----------------------------------------------------------------------------
(* The variance in one pass: s1 is the mean so far, s2 the sum of squares. *)

Times(a, b, n, d) == (a * b * n) \div (Scale * d)   \* a * b * n / d, a and b scaled

\* Mutant: the mean is not moved before the squares are added.
DeviateFromOld(d, x) ==
  LET n == d.num + 1
      dx == x * Scale - d.s1
  IN [d EXCEPT !.num = n, !.s1 = @ + dx \div n, !.s2 = @ + Times(dx, dx, 1, 1)]

Deviate(d, x) ==
  LET n == d.num + 1
      dx == x * Scale - d.s1
  IN [d EXCEPT !.num = n, !.s1 = @ + dx \div n, !.s2 = @ + Times(dx, dx, n - 1, n)]

ExecVarStdev(args) == [num |-> 0, s1 |-> 0, s2 |-> 0, func |-> OptFunc(args)]

Deviation == call.name \in {"variance", "stdev", "mean_variance", "mean_stdev"}
IterStdev(x) == Deviation /\ IsNil(data.func) /\ Keeps(Deviate(data, Of(x)))
IterStdevf(x) ==
  /\ Deviation /\ ~IsNil(data.func)
  /\ LET v == ConvertNumber(data.func, x) IN
     \/ ~IsNumber(v) /\ NG
     \/ IsNumber(v) /\ Keeps(Deviate(data, Of(v)))

\* The square root is left as a mark on the quotient.
Spread(d) ==
  LET q == Quotient(d.s2, d.num - 1) IN
  IF call.name \in {"stdev", "mean_stdev"} THEN Append(q, "sqrt") ELSE q

StdevFinish ==
  /\ Deviation
  /\ Emits(IF call.name \in {"stdev", "variance"}
             THEN <<Spread(data)>>
             ELSE <<AryValue(<<FloatValue(data.s1), Spread(data)>>)>>)

(***************************************************************************)
(* The function of arrays.  argc counts the array too and is never 0: when *)
(* no function is given it calls what func happens to hold, and nothing    *)
(* can be said of the result.                                              *)
(***************************************************************************)
AryVarStdev(s, f, stdev) ==
  LET x == Numbers(s, f)
      d == FoldLeft(Deviate, [num |-> 0, s1 |-> 0, s2 |-> 0], x)
      q == Quotient(d.s2, d.num - 1)
  IN CASE IsNil(f) -> <<"garbage", 0>>
       [] ~IsNil(f) /\ x = Failed -> Failed
       [] ~IsNil(f) /\ x # Failed -> IF stdev THEN Append(q, "sqrt") ELSE q

-----------------------------------------------------------------------------
(* Correlation of pairs. *)

ExecCorrel(args) == [n |-> 0, sx |-> 0, sy |-> 0, sxx |-> 0, syy |-> 0, sxy |-> 0]

Correlate(d, x, y, n) ==
  LET dx == x * Scale - d.sx
      dy == y * Scale - d.sy
  IN [d EXCEPT !.n = n, !.sx = @ + dx \div n, !.sy = @ + dy \div n,
               !.sxx = @ + Times(dx, dx, n - 1, n),
               !.syy = @ + Times(dy, dy, n - 1, n),
               !.sxy = @ + Times(dx, dy, n - 1, n)]

IsPair(v) == IsArray(v) /\ Len(Of(v)) = 2
IsNumberPair(v) == IsPair(v) /\ IsNumber(Of(v)[1]) /\ IsNumber(Of(v)[2])

IterCorrel(x) ==
  /\ Is("correl")
  /\ \/ ~IsNumberPair(x) /\ NG
     \/ /\ IsNumberPair(x)
        /\ Keeps(Correlate(data, Of(Of(x)[1]), Of(Of(x)[2]), data.n + 1))

\* sxy / ((n-1) * sqrt(sxx/(n-1)) * sqrt(syy/(n-1)), by its parts.
Correlation(d) == <<"float", d.sxy, d.sxx, d.syy>>
CorrelFinish == Is("correl") /\ Emits(<<Correlation(data)>>)

\* Elements that are no pairs are skipped, but they have been counted.
AryCorrel(s) ==
  LET upto[i \in 0..Len(s)] ==
        IF i = 0 THEN ExecCorrel(<<>>)
        ELSE IF IsPair(s[i])
          THEN Correlate(upto[i - 1], Of(Of(s[i])[1]), Of(Of(s[i])[2]), i)
          ELSE upto[i - 1]
  IN Correlation(upto[Len(s)])

-----------------------------------------------------------------------------
(* sample(len): the generator may return any number. *)

ExecSample(args) == [i |-> 0, len |-> args[1], samples |-> <<>>]

IterSample(x) ==
  /\ Is("sample")
  /\ \/ /\ data.i < data.len
        /\ Keeps([data EXCEPT !.samples = Put(@, data.i + 1, x), !.i = @ + 1])
     \/ /\ data.i >= data.len
        /\ \E r \in 0..(data.i - 1) :
             Keeps([data EXCEPT !.i = @ + 1,
                                !.samples = IF r < data.len THEN Put(@, r + 1, x) ELSE @])

\* Always len samples: if fewer elements came, what the memory held.
FinishSample ==
  /\ Is("sample")
  /\ Emits([i \in 1..data.len |->
              IF i \in DOMAIN data.samples THEN data.samples[i] ELSE <<"garbage", 0>>])

ExecStatistics(c) ==
  CASE c.name \in {"sum", "average"} -> ExecSumAvg(c.args)
    [] c.name = "moving_average" -> ExecMvavg(c.args)
    [] c.name \in {"variance", "stdev", "mean_variance", "mean_stdev"} -> ExecVarStdev(c.args)
    [] c.name = "correl" -> ExecCorrel(c.args)
    [] c.name = "sample" -> ExecSample(c.args)

IterStatistics(x) ==
  \/ IterSum(x) \/ IterSumf(x) \/ IterMvavg(x)
  \/ IterStdev(x) \/ IterStdevf(x) \/ IterCorrel(x) \/ IterSample(x)
FinishStatistics ==
  \/ SumFinish \/ AvgFinish \/ StdevFinish \/ CorrelFinish \/ FinishSample
=============================================================================
