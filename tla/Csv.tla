--------------------------------- MODULE Csv ---------------------------------
(***************************************************************************)
(* csv, tsv and ltsv: streams of lines become streams of arrays (csv.c).   *)
(* A text is a sequence of bytes.  The byte Date stands for the bytes of a *)
(* date, which start with a digit and which strm_time_parse_time accepts.  *)
(***************************************************************************)
EXTENDS Operators, FiniteSetsExt

Quote == 34  Dot == 46  Colon == 58  Comma == 44  Tab == 9  LF == 10  CR == 13
Space == 32  Date == 200
Digits == 48..57
Spaces == {Space, Tab, LF, CR}

\* The byte behind a text is the terminating zero.
At(s, i) == IF i \in DOMAIN s THEN s[i] ELSE 0

(***************************************************************************)
(* count_fields: the number of fields, or Open if a quote is not closed.   *)
(* A quote inside quotes that is followed by another one is skipped.       *)
(***************************************************************************)
Open == -1
CountFields(s, sep) ==
  LET step(st, i) ==
        CASE st.skip -> [st EXCEPT !.skip = FALSE]
          [] ~st.skip /\ st.quoted ->
               IF s[i] # Quote THEN st
               ELSE IF At(s, i + 1) = Quote THEN [st EXCEPT !.skip = TRUE]
               ELSE [st EXCEPT !.quoted = FALSE]
          [] ~st.skip /\ ~st.quoted ->
               [st EXCEPT !.quoted = s[i] = Quote, !.cnt = IF s[i] = sep THEN @ + 1 ELSE @]
      end == FoldLeft(step, [cnt |-> 1, quoted |-> FALSE, skip |-> FALSE],
                      [i \in DOMAIN s |-> i])
  IN IF end.quoted THEN Open ELSE end.cnt

-----------------------------------------------------------------------------
(***************************************************************************)
(* csv_string for a field with quotes in it.  Quotes are taken as opening  *)
(* and closing in turn; two quotes inside quotes give one, and the second  *)
(* is looked at again.                                                     *)
(***************************************************************************)
Unescape(s) ==
  LET from[p \in 1..(Len(s) + 1), inq \in BOOLEAN] ==
        CASE p > Len(s) -> <<>>
          [] p <= Len(s) /\ s[p] # Quote -> <<s[p]>> \o from[p + 1, inq]
          [] p <= Len(s) /\ s[p] = Quote /\ ~inq -> from[p + 1, TRUE]
          [] p <= Len(s) /\ s[p] = Quote /\ inq ->
               IF At(s, p + 1) = Quote THEN <<Quote>> \o from[p + 1, TRUE] ELSE from[p + 1, FALSE]
  IN from[1, FALSE]

TimeValue(s) == <<"aux", s, NsTime>>

CsvString(s, ftype) ==
  CASE ftype = "ESC" -> Str(Unescape(s))
    [] ftype # "ESC" -> IF s = <<Date>> THEN TimeValue(s) ELSE Str(s)

(***************************************************************************)
(* csv_value: a field that holds digits only is an integer, one with a dot *)
(* a float (its whole part, the digits after the dot and their weight).    *)
(* Any other byte gives a string, unless a dot comes after it.             *)
(***************************************************************************)
CsvValue(s, ftype) ==
  LET lead == CHOOSE k \in 0..Len(s) :
                /\ \A i \in 1..k : s[i] \in Spaces
                /\ k < Len(s) => s[k + 1] \notin Spaces
      step(n, c) ==
        CASE c \in Digits ->
               [n EXCEPT !.type = IF @ = "STR" THEN "INT" ELSE @,
                         !.i = @ * 10 + (c - 48), !.pow = @ * 10]
          [] c = Dot /\ n.type = "FLOAT" -> [n EXCEPT !.type = "TIME"]
          [] c = Dot /\ n.type # "FLOAT" -> [type |-> "FLOAT", f |-> n.i, i |-> 0, pow |-> 1]
          [] OTHER -> [n EXCEPT !.type = "UNSPC"]
      n == FoldLeft(step, [type |-> "STR", f |-> 0, i |-> 0, pow |-> 1], SubSeq(s, lead + 1, Len(s)))
      type == IF ftype \in {"UNSPC", "NUM"} THEN n.type ELSE "STR"
  IN CASE type = "INT" -> IntValue(n.i)
       [] type = "FLOAT" -> <<"float", n.f, n.i, n.pow>>
       [] OTHER -> CsvString(s, ftype)

CsvType(v) == CASE IsNumber(v) -> "NUM" [] v[1] = "aux" -> "TIME" [] OTHER -> "STR"

(***************************************************************************)
(* The loop of sv_accept over a line: the values of its fields.  A field   *)
(* that starts with a quote is a string that begins behind it; the closing *)
(* quote stays.  A quote later in the field, or a doubled one, makes it an *)
(* escaped string.                                                         *)
(***************************************************************************)
Fields(s, sep, types) ==
  LET Type(i) == IF types = <<>> THEN "UNSPC" ELSE types[i]
      step(st, p) ==
        CASE st.skip -> [st EXCEPT !.skip = FALSE]
          [] ~st.skip /\ st.inq ->
               IF s[p] # Quote THEN st
               ELSE IF At(s, p + 1) = Quote THEN [st EXCEPT !.skip = TRUE, !.ftype = "ESC"]
               ELSE [st EXCEPT !.inq = FALSE]
          [] ~st.skip /\ ~st.inq /\ s[p] = Quote ->
               IF p = st.fbeg THEN [st EXCEPT !.inq = TRUE, !.ftype = "STR", !.fbeg = p + 1]
                              ELSE [st EXCEPT !.inq = TRUE, !.ftype = "ESC"]
          [] ~st.skip /\ ~st.inq /\ s[p] = sep ->
               [st EXCEPT !.vals = Append(@, CsvValue(SubSeq(s, st.fbeg, p - 1), st.ftype)),
                          !.fbeg = p + 1, !.ftype = Type(Len(st.vals) + 2)]
          [] OTHER -> st
      st == FoldLeft(step, [inq |-> FALSE, skip |-> FALSE, fbeg |-> 1, ftype |-> Type(1), vals |-> <<>>],
                     [i \in DOMAIN s |-> i])
      lf == IF At(s, Len(s)) = LF THEN 1 ELSE 0
      cr == IF At(s, Len(s) - lf) = CR THEN 1 ELSE 0
  IN Append(st.vals, CsvValue(SubSeq(s, st.fbeg, Len(s) - lf - cr), st.ftype))

-----------------------------------------------------------------------------
NoText == <<>>
WithHeaders(vals, h) == IF h = <<>> THEN AryValue(vals) ELSE <<"ary", vals, NsArray, h>>

\* sv: headers, types and the line so far are empty at first.
ExecSv(sep) == [headers |-> <<>>, types |-> <<>>, prev |-> NoText, sep |-> sep, n |-> 0]

AllStr(vals) == \A i \in DOMAIN vals : IsString(vals[i])
Types(vals) == [i \in DOMAIN vals |-> CsvType(vals[i])]

\* Mutant: a first line that turns out to be no header is dropped.
AcceptDropping(d, vals) ==
  CASE d.headers = <<>> /\ d.types = <<>> /\ AllStr(vals) ->
         Keeps([d EXCEPT !.headers = vals, !.n = Len(vals)])
    [] d.headers = <<>> /\ d.types = <<>> /\ ~AllStr(vals) ->
         KeepsEmits([d EXCEPT !.types = Types(vals), !.n = Len(vals)], <<AryValue(vals)>>)
    [] d.headers # <<>> /\ d.types = <<>> /\ AllStr(vals) ->
         KeepsEmits([d EXCEPT !.types = Types(vals), !.headers = <<>>], <<AryValue(vals)>>)
    [] d.headers # <<>> /\ d.types = <<>> /\ ~AllStr(vals) ->
         KeepsEmits([d EXCEPT !.types = Types(vals)], <<WithHeaders(vals, d.headers)>>)
    [] d.types # <<>> /\ Types(vals) # d.types -> Keeps(d)
    [] OTHER -> KeepsEmits(d, <<WithHeaders(vals, d.headers)>>)

\* A complete line with the right number of fields.  d: the state without prev.
AcceptRow(d, vals) ==
  CASE d.headers = <<>> /\ d.types = <<>> /\ AllStr(vals) ->       \* perhaps a header
         Keeps([d EXCEPT !.headers = vals, !.n = Len(vals)])
    [] d.headers = <<>> /\ d.types = <<>> /\ ~AllStr(vals) ->      \* there is no header
         KeepsEmits([d EXCEPT !.types = Types(vals), !.n = Len(vals)], <<AryValue(vals)>>)
    [] d.headers # <<>> /\ d.types = <<>> /\ AllStr(vals) ->       \* the header was a row
         KeepsEmits([d EXCEPT !.types = Types(vals), !.headers = <<>>],
                    <<AryValue(d.headers), AryValue(vals)>>)
    [] d.headers # <<>> /\ d.types = <<>> /\ ~AllStr(vals) ->
         KeepsEmits([d EXCEPT !.types = Types(vals)], <<WithHeaders(vals, d.headers)>>)
    [] d.types # <<>> /\ Types(vals) # d.types ->                  \* csv type mismatch
         Keeps(d)
    [] OTHER -> KeepsEmits(d, <<WithHeaders(vals, d.headers)>>)

SvAccept(x) ==
  /\ Is("csv")
  /\ LET line == IF data.prev = NoText THEN Of(x) ELSE data.prev \o <<LF>> \o Of(x)
         cnt == CountFields(line, data.sep)
         d == [data EXCEPT !.prev = NoText]
     IN \/ cnt = Open /\ Keeps([data EXCEPT !.prev = line])
        \/ cnt # Open /\ d.n > 0 /\ cnt # d.n /\ Keeps(d)
        \/ /\ cnt # Open
           /\ d.n = 0 \/ cnt = d.n
           /\ AcceptRow(d, Fields(line, d.sep, d.types))

\* A line whose quote was never closed is forgotten.
SvFinish ==
  /\ Is("csv")
  /\ \/ /\ data.headers # <<>> /\ data.types = <<>>
        /\ Emits(<<AryValue(data.headers)>>)
     \/ /\ ~(data.headers # <<>> /\ data.types = <<>>)
        /\ Emits(<<>>)

-----------------------------------------------------------------------------
\* Mutant: one value per tab.
NValTabs(s) == Cardinality({i \in DOMAIN s : s[i] = Tab})

\* The number of values of a line: a tab at its end begins no further one.
NVal(s) ==
  LET tabs == Cardinality({i \in DOMAIN s : s[i] = Tab}) IN
  IF s = <<>> \/ At(s, Len(s)) = Tab THEN tabs ELSE tabs + 1

\* One field of a line: the label before the first colon, and the value.
LtsvField(s) ==
  LET colons == {i \in DOMAIN s : s[i] = Colon}
      v == IF colons = {} THEN s ELSE SubSeq(s, Min(colons) + 1, Len(s))
  IN [label |-> IF colons = {} THEN Nil ELSE Str(SubSeq(s, 1, Min(colons) - 1)),
      value |-> IF v = <<>> THEN Obj(<<>>, 0) ELSE CsvValue(v, "UNSPC")]

LtsvAccept(x) ==
  /\ Is("ltsv")
  /\ LET s == Of(x)
         ends == {i \in DOMAIN s : s[i] = Tab} \cup {Len(s) + 1}
         End(k) == CHOOSE e \in ends : Cardinality({b \in ends : b < e}) = k - 1
         Field(k) == LtsvField(SubSeq(s, IF k = 1 THEN 1 ELSE End(k - 1) + 1, End(k) - 1))
         n == NVal(s)
     IN \/ ~IsString(x) /\ NG
        \/ /\ IsString(x)
           /\ Emits(<<WithHeaders([k \in 1..n |-> Field(k).value], [k \in 1..n |-> Field(k).label])>>)

\* string.number
StrNumber(s) ==
  LET v == CsvValue(s, "NUM") IN IF IsNumber(v) THEN v ELSE Failed

ExecCsv(c) == IF c.name = "csv" THEN ExecSv(Comma) ELSE Nil
IterCsv(x) == SvAccept(x) \/ LtsvAccept(x)
FinishCsv == SvFinish
=============================================================================
