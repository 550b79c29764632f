------------------------------- MODULE Sorting -------------------------------
(***************************************************************************)
(* sort, sort_by and median of streams and arrays (sort.c).                *)
(***************************************************************************)
EXTENDS Operators, FiniteSetsExt

CONSTANT Small  \* my_qsort_r sorts fewer than this many values by exchanges

Sign(n) == IF n > 0 THEN 1 ELSE IF n < 0 THEN -1 ELSE 0
NumCmp(x, y) == Sign(Of(x) - Of(y))

\* The first byte that differs decides, and a prefix comes first.
StrCmp(x, y) ==
  LET a == Of(x)
      b == Of(y)
      differ == {i \in DOMAIN a \cap DOMAIN b : a[i] # b[i]}
  IN IF differ = {} THEN Sign(Len(a) - Len(b)) ELSE Sign(a[Min(differ)] - b[Min(differ)])

\* Numbers before strings before the rest; of two of the rest each is greater.
StrmCmp(a, b) ==
  CASE IsNumber(a) /\ IsNumber(b) -> NumCmp(a, b)
    [] IsNumber(a) /\ ~IsNumber(b) -> -1
    [] IsString(a) /\ IsString(b) -> StrCmp(a, b)
    [] OTHER -> 1

\* The comparison function of the program; if it fails the two are equal.
SortCmpf(f, a, b) ==
  LET val == Funcall(f, <<a, b>>) IN
  IF val = Failed \/ ~IsNumber(val) THEN 0 ELSE Sign(Of(val))

\* Pairs [v, o] of a key and its element; what is no number comes last.
SortbyCmp(a, b) ==
  CASE IsNumber(a.v) /\ IsNumber(b.v) -> NumCmp(a.v, b.v)
    [] IsNumber(a.v) /\ ~IsNumber(b.v) -> -1
    [] ~IsNumber(a.v) /\ IsNumber(b.v) -> 1
    [] OTHER -> 0

-----------------------------------------------------------------------------
(* qsort of the C library: some ordered permutation. *)
Permuted(s, p) == [i \in DOMAIN s |-> s[p[i]]]
Ordered(s, Cmp(_, _)) == \A i, j \in DOMAIN s : i < j => Cmp(s[j], s[i]) >= 0
Permutes(n) == {p \in [1..n -> 1..n] : \A i, j \in 1..n : i # j => p[i] # p[j]}
Qsort(s, Cmp(_, _)) ==
  {t \in {Permuted(s, p) : p \in Permutes(Len(s))} : Ordered(t, Cmp)}

(***************************************************************************)
(* my_qsort_r, for systems without qsort_r: exchanges for short arrays, a  *)
(* median of three as pivot and two recursive calls for longer ones.       *)
(***************************************************************************)
Swap(s, i, j) == [s EXCEPT ![i] = s[j], ![j] = s[i]]

Exchanges(s, f) ==
  LET n == Len(s)
      round[i \in 1..n, j \in 1..(n + 1)] ==   \* before comparing i with j
        IF j > i + 1
          THEN LET t == round[i, j - 1] IN IF SortCmpf(f, t[i], t[j - 1]) > 0 THEN Swap(t, i, j - 1) ELSE t
          ELSE IF i = 1 THEN s ELSE round[i - 1, n + 1]
  IN IF n < 2 THEN s ELSE round[n - 1, n + 1]

Pivot(s, f) ==
  LET n == Len(s)
      m == n \div 2 + 1
  IN IF SortCmpf(f, s[1], s[m]) < 0
       THEN IF SortCmpf(f, s[m], s[n]) < 0 THEN m ELSE IF SortCmpf(f, s[1], s[n]) < 0 THEN n ELSE 1
       ELSE IF SortCmpf(f, s[1], s[n]) < 0 THEN 1 ELSE IF SortCmpf(f, s[m], s[n]) < 0 THEN n ELSE m

\* Mutant: the value before the pivot is not compared.
PartitionShort(s, f) ==
  LET n == Len(s)
      part[i \in 0..(n - 2)] ==
        IF i = 0 THEN [s |-> s, npart |-> 0]
        ELSE LET p == part[i - 1] IN
             IF SortCmpf(f, p.s[i], p.s[n]) <= 0
               THEN [s |-> Swap(p.s, i, p.npart + 1), npart |-> p.npart + 1]
               ELSE p
  IN part[n - 2]

\* [s, npart]: the values up to the pivot (which is last) come first.
Partition(s, f) ==
  LET n == Len(s)
      part[i \in 0..(n - 1)] ==
        IF i = 0 THEN [s |-> s, npart |-> 0]
        ELSE LET p == part[i - 1] IN
             IF SortCmpf(f, p.s[i], p.s[n]) <= 0
               THEN [s |-> Swap(p.s, i, p.npart + 1), npart |-> p.npart + 1]
               ELSE p
  IN part[n - 1]

RECURSIVE MyQsort(_, _)
MyQsort(s, f) ==
  IF Len(s) < Small
    THEN Exchanges(s, f)
    ELSE LET n == Len(s)
             part == Partition(Swap(s, Pivot(s, f), n), f)
             k == part.npart + 1
             t == Swap(part.s, k, n)
         IN MyQsort(SubSeq(t, 1, k - 1), f) \o <<t[k]>> \o MyQsort(SubSeq(t, k + 1, n), f)

\* mem_sort: the results it may have, on the systems it is written for.
MemSort(s, f) ==
  LET Cmpf(a, b) == SortCmpf(f, a, b) IN
  IF IsNil(f) THEN Qsort(s, StrmCmp) ELSE Qsort(s, Cmpf) \cup {MyQsort(s, f)}

-----------------------------------------------------------------------------
ExecSort(args) == [buf |-> <<>>, func |-> OptFunc(args)]

IterSort(x) == Is("sort") /\ Keeps([data EXCEPT !.buf = Append(@, x)])
FinishSort == Is("sort") /\ \E s \in MemSort(data.buf, data.func) : Emits(s)
ArySort(s, f) == {AryValue(t) : t \in MemSort(s, f)}

WithKeys(s, f) == [i \in DOMAIN s |-> [v |-> Unary(f, s[i]), o |-> s[i]]]
Elements(pairs) == [i \in DOMAIN pairs |-> pairs[i].o]

\* An element whose key fails is written but not counted.
IterSortby(x) ==
  /\ Is("sort_by")
  /\ \/ Fails(data.func, x) /\ NG
     \/ /\ ~Fails(data.func, x)
        /\ Keeps([data EXCEPT !.buf = @ \o WithKeys(<<x>>, data.func)])
FinishSortby ==
  /\ Is("sort_by")
  /\ \E s \in Qsort(data.buf, SortbyCmp) : Emits(Elements(s))
ArySortby(s, f) ==
  IF AnyFails(f, s)
    THEN {Failed}
    ELSE {AryValue(Elements(t)) : t \in Qsort(WithKeys(s, f), SortbyCmp)}

-----------------------------------------------------------------------------
(***************************************************************************)
(* quick_select: [arr, v], the array as it leaves it and the lower median. *)
(* arr has indices from 0.                                                 *)
(***************************************************************************)
Gt(a, b) == StrmCmp(a, b) > 0
SwapIf(arr, i, j) == IF Gt(arr[i], arr[j]) THEN Swap(arr, i, j) ELSE arr

RECURSIVE Nibble(_, _, _, _), Select(_, _, _, _)
\* Swaps from both ends until the two indices have crossed.
Nibble(arr, low, ll0, hh0) ==
  LET ll == Min({i \in DOMAIN arr : i > ll0 /\ ~Gt(arr[low], arr[i])})
      hh == Max({i \in DOMAIN arr : i < hh0 /\ ~Gt(arr[i], arr[low])})
  IN IF hh < ll THEN [arr |-> arr, ll |-> ll, hh |-> hh]
     ELSE Nibble(Swap(arr, ll, hh), low, ll, hh)

Select(arr, low, high, median) ==
  IF high <= low THEN [arr |-> arr, v |-> arr[median]]
  ELSE IF high = low + 1
    THEN LET a == SwapIf(arr, low, high) IN [arr |-> a, v |-> a[median]]
    ELSE LET middle == (low + high) \div 2
             three == SwapIf(SwapIf(SwapIf(arr, middle, high), low, high), middle, low)
             r == Nibble(Swap(three, middle, low + 1), low, low + 1, high)
         IN Select(Swap(r.arr, low, r.hh),
                   IF r.hh <= median THEN r.ll ELSE low,
                   IF r.hh >= median THEN r.hh - 1 ELSE high,
                   median)

QuickSelect(s) ==
  LET n == Len(s) IN Select([i \in 0..(n - 1) |-> s[i + 1]], 0, n - 1, (n - 1) \div 2)

\* What is read from memory that nobody has written: no value to rely on.
Garbage == <<"garbage", 0>>

\* Halves are kept apart: the mean of x and y is <<"float", x + y, "half">>.
Halved(n) == IF n % 2 = 0 THEN FloatValue(n \div 2) ELSE <<"float", n, "half">>

QuickMedian(s) ==
  LET r == QuickSelect(s)
      y == r.arr[Len(s) \div 2]
  IN IF s = <<>> \/ Garbage \in Range(s) THEN Garbage
     ELSE IF Len(s) % 2 = 0 /\ IsNumber(r.v) /\ IsNumber(y) THEN Halved(Of(r.v) + Of(y)) ELSE r.v

ExecMedian(args) == [buf |-> <<>>, func |-> OptFunc(args)]

\* An element whose function fails is counted all the same.
IterMedian(x) ==
  /\ Is("median")
  /\ LET v == IF IsNil(data.func) THEN x ELSE Unary(data.func, x) IN
     Keeps([data EXCEPT !.buf = Append(@, IF v = Failed THEN Garbage ELSE v)])
FinishMedian == Is("median") /\ Emits(<<QuickMedian(data.buf)>>)
AryMedian(s, f) ==
  CASE s = <<>> -> Failed
    [] s # <<>> /\ IsNil(f) -> QuickMedian(s)
    [] s # <<>> /\ ~IsNil(f) -> IF AnyFails(f, s) THEN Failed ELSE QuickMedian(MapAll(f, s))

-----------------------------------------------------------------------------
(* cmp and the comparisons of strings. *)
ExecCmp(x, y) == IntValue(StrmCmp(x, y))
StrLt(x, y) == BoolValue(StrCmp(x, y) < 0)
StrLe(x, y) == BoolValue(StrCmp(x, y) <= 0)
StrGt(x, y) == BoolValue(StrCmp(x, y) > 0)
StrGe(x, y) == BoolValue(StrCmp(x, y) >= 0)

ExecSorting(c) ==
  CASE c.name = "sort" -> ExecSort(c.args)
    [] c.name = "sort_by" -> [buf |-> <<>>, func |-> c.args[1]]
    [] c.name = "median" -> ExecMedian(c.args)

IterSorting(x) == IterSort(x) \/ IterSortby(x) \/ IterMedian(x)
FinishSorting == FinishSort \/ FinishSortby \/ FinishMedian
=============================================================================
