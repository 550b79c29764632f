----------------------------- MODULE Primitives -----------------------------
(***************************************************************************)
(* The functions of numbers and strings (number.c, string.c) and the       *)
(* parsing of their arguments (args.c).  A function gives [ret, v, exc]:   *)
(* what it returns, its value, and whether it has raised an error; Aborts  *)
(* when an assertion or the processor ends the program.                    *)
(***************************************************************************)
EXTENDS Integers, Sequences, SequencesExt, Values

CONSTANT Width   \* bits of an integer (32 in the program)

Ret(v) == [ret |-> "OK", v |-> v, exc |-> FALSE]
Fail == [ret |-> "NG", v |-> Nil, exc |-> FALSE]
Raise == [ret |-> "NG", v |-> Nil, exc |-> TRUE]
Aborts == [ret |-> "ABORT", v |-> Nil, exc |-> FALSE]

\* int32_t arithmetic, which wraps around.
Wrap(n) == ((n + 2 ^ (Width - 1)) % 2 ^ Width) - 2 ^ (Width - 1)

(***************************************************************************)
(* strm_parse_args: a format is a sequence of letters.  N raises an error  *)
(* for what is no number, but goes on and returns OK.                      *)
(***************************************************************************)
Accepts(letter, v) ==
  CASE letter \in {"v", "N"} -> TRUE
    [] letter \in {"f", "i"} -> IsNumber(v)
    [] letter \in {"s", "S"} -> IsString(v)
    [] letter \in {"a", "A"} -> IsArray(v)
    [] letter = "b" -> IsBool(v)

ParseArgs(args, format) ==   \* format: [must, may], the letters before and after |
  LET letters == format.must \o format.may IN
  IF Len(args) < Len(format.must) \/ Len(args) > Len(letters)
       \/ \E i \in DOMAIN args : ~Accepts(letters[i], args[i])
    THEN "raised"
    ELSE IF \E i \in DOMAIN args : letters[i] = "N" /\ ~IsNumber(args[i]) THEN "OK, raised" ELSE "OK"

Must(letters) == [must |-> letters, may |-> <<>>]
With(args, format, result) == IF ParseArgs(args, format) = "raised" THEN Raise ELSE result

-----------------------------------------------------------------------------
(* Numbers. *)

IntOrFloat(a, b, n) == IF IsInt(a) /\ IsInt(b) THEN IntValue(Wrap(n)) ELSE FloatValue(n)
NN == Must(<<"N", "N">>)
FF == Must(<<"f", "f">>)

\* With an argument that is no number: the error of ParseArgs, and NG.
NumPlus(a) ==
  With(a, NN, IF ParseArgs(a, NN) = "OK, raised" THEN Raise
              ELSE Ret(IntOrFloat(a[1], a[2], Of(a[1]) + Of(a[2]))))

NumMinus(a) ==
  CASE Len(a) = 1 -> IF IsNumber(a[1]) THEN Ret(IntOrFloat(a[1], a[1], -Of(a[1]))) ELSE Fail
    [] OTHER -> With(a, NN, IF ParseArgs(a, NN) = "OK, raised" THEN Raise
                            ELSE Ret(IntOrFloat(a[1], a[2], Of(a[1]) - Of(a[2]))))

\* What is no number fails an assertion.
NumMult(a) ==
  With(a, NN, IF ParseArgs(a, NN) = "OK, raised" THEN Aborts
              ELSE Ret(IntOrFloat(a[1], a[2], Of(a[1]) * Of(a[2]))))

NumDiv(a) ==
  With(a, FF, Ret(IF Of(a[2]) # 0 /\ Of(a[1]) % Of(a[2]) = 0
                    THEN FloatValue(Of(a[1]) \div Of(a[2]))
                    ELSE <<"float", Of(a[1]), "over", Of(a[2])>>))

\* The remainder has the sign of the dividend; by 0 integers end the program.
Remainder(x, y) ==
  LET Abs(n) == IF n < 0 THEN -n ELSE n
      r == Abs(x) % Abs(y)
  IN IF x < 0 THEN -r ELSE r
NumMod(a) ==
  With(a, Must(<<"N", "i">>),
    CASE ~IsNumber(a[1]) -> Raise
      [] IsNumber(a[1]) /\ Of(a[2]) = 0 -> IF IsInt(a[1]) THEN Aborts ELSE Ret(NaN)
      [] OTHER -> Ret(IntOrFloat(a[1], a[1], Remainder(Of(a[1]), Of(a[2])))))

NumGt(a) == With(a, FF, Ret(BoolValue(Of(a[1]) > Of(a[2]))))
NumGe(a) == With(a, FF, Ret(BoolValue(Of(a[1]) >= Of(a[2]))))
NumLt(a) == With(a, FF, Ret(BoolValue(Of(a[1]) < Of(a[2]))))
NumLe(a) == With(a, FF, Ret(BoolValue(Of(a[1]) <= Of(a[2]))))

-----------------------------------------------------------------------------
(* Strings. *)

StrLength(a) == With(a, Must(<<"s">>), Ret(IntValue(Len(Of(a[1])))))

(***************************************************************************)
(* split.  A separator at the very end is not seen, blanks are taken       *)
(* together, and separators that overlap give a piece of negative length.  *)
(***************************************************************************)
Blank == <<32>>
SplitAt(s, sep, last) ==   \* last: the last place where a separator may begin
  LET Here(p) == SubSeq(s, p, p + Len(sep) - 1) = sep
      step(d, p) ==
        CASE ~Here(p) -> d
          [] Here(p) /\ p < d.t -> [d EXCEPT !.bad = TRUE]
          [] Here(p) /\ p = d.t /\ sep = Blank -> [d EXCEPT !.t = p + 1]
          [] OTHER -> [d EXCEPT !.t = p + Len(sep), !.out = Append(@, Str(SubSeq(s, d.t, p - 1)))]
      end == FoldLeft(step, [t |-> 1, out |-> <<>>, bad |-> FALSE], [i \in 1..last |-> i])
  IN IF end.bad THEN Aborts ELSE Ret(AryValue(Append(end.out, Str(SubSeq(s, end.t, Len(s))))))

\* Mutant: the search stops one place too early.
SplitEarly(a) ==
  With(a, [must |-> <<"s">>, may |-> <<"s">>],
    LET sep == IF Len(a) = 1 THEN Blank ELSE Of(a[2]) IN
    SplitAt(Of(a[1]), sep, Len(Of(a[1])) - Len(sep) - 1))

StrSplit(a) ==
  With(a, [must |-> <<"s">>, may |-> <<"s">>],
    LET sep == IF Len(a) = 1 THEN Blank ELSE Of(a[2]) IN
    SplitAt(Of(a[1]), sep, Len(Of(a[1])) - Len(sep)))

StrPlus(a) == With(a, Must(<<"S", "S">>), Ret(Str(Of(a[1]) \o Of(a[2]))))

(***************************************************************************)
(* chars: the UTF-8 sequences of a text up to its terminating zero, a byte *)
(* that begins none by itself.  A text of five or six bytes lies in its    *)
(* word without a zero behind it: the tag and what follows is read on.     *)
(***************************************************************************)
LeadLength(b) == CASE b \in 192..223 -> 2 [] b \in 224..239 -> 3 [] b \in 240..244 -> 4 [] OTHER -> 1
Utf8Len(s, i) ==
  LET n == LeadLength(s[i]) IN
  IF \A k \in 1..(n - 1) : i + k \in DOMAIN s /\ s[i + k] \in 128..191 THEN n ELSE 1
CharsFrom(s) ==
  LET from[i \in 1..(Len(s) + 1)] ==
        IF i > Len(s) \/ s[i] = 0 THEN <<>>
        ELSE <<Str(SubSeq(s, i, i + Utf8Len(s, i) - 1))>> \o from[i + Utf8Len(s, i)]
  IN from[1]
StrChars(a) ==
  With(a, Must(<<"s">>), IF Len(Of(a[1])) \in {5, 6} THEN Aborts ELSE Ret(AryValue(CharsFrom(Of(a[1])))))
=============================================================================
