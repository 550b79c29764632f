------------------------------- MODULE Values -------------------------------
(***************************************************************************)
(* strm_value: a 64-bit word that holds a tag and a payload (strm.h,       *)
(* value.c, array.c).  Here a value is a tuple <<tag, payload ...>>; equal *)
(* tuples are equal words.  A string of at most six bytes is in the word   *)
(* itself; a longer one is an object of its own, so that two words for the *)
(* same text may differ: <<"str", text>> and <<"obj", text, address>>.     *)
(* <<"lit", text, address>> refers to text that is not copied (the tag     *)
(* STRING_F).  A double is an integer here, or <<"float", x, ...>>.         *)
(***************************************************************************)
LOCAL INSTANCE Integers
LOCAL INSTANCE Sequences

Nil == <<"nil", 0>>
NaN == <<"float", 0, "NaN">>
BoolValue(b) == <<"bool", b>>
IntValue(n) == <<"int", n>>
FloatValue(x) == <<"float", x>>
Str(s) == <<"str", s>>
Obj(s, a) == <<"obj", s, a>>
Lit(s, a) == <<"lit", s, a>>
AryValue(s) == <<"ary", s>>
CfuncValue(f) == <<"cfunc", f>>
PtrValue(t, p) == <<t, p>>          \* t: what the pointer's header says

IsInt(v) == v[1] = "int"
IsFloat(v) == v[1] = "float"
IsNumber(v) == v[1] \in {"int", "float"}
IsBool(v) == v[1] = "bool"
IsNil(v) == v[1] = "nil"
IsArray(v) == v[1] = "ary"
IsString(v) == v[1] \in {"str", "obj", "lit"}
IsCfunc(v) == v[1] = "cfunc"
PtrTypes == {"nil", "stream", "lambda", "genfunc", "io", "aux"}

\* The number, the text or the elements of a value.
Of(v) == v[2]

(***************************************************************************)
(* strm_value_bool: only false and nil are false.  A value of another tag  *)
(* whose payload is zero (0, a double with a short mantissa, the empty     *)
(* string) fails an assertion, which ends the program.                     *)
(***************************************************************************)
ZeroPayload(v) == v \in {Nil, BoolValue(FALSE), IntValue(0), Str(<<>>)} \/ IsFloat(v)
Truth(v) == ~ZeroPayload(v)
TruthAborts(v) == ZeroPayload(v) /\ v \notin {Nil, BoolValue(FALSE)}

(***************************************************************************)
(* strm_str_eq: two literals are equal only if they are the same word.     *)
(***************************************************************************)
StrEq(a, b) ==
  \/ a = b
  \/ /\ ~(a[1] = "lit" /\ b[1] = "lit")
     /\ Of(a) = Of(b)

\* A double that is no integer has more elements than one that is.
NumEq(a, b) == Of(a) = Of(b) /\ Len(a) = Len(b)

(***************************************************************************)
(* strm_value_eq and strm_ary_eq.  Values of different tags are only equal *)
(* as numbers: a short string never equals a long one, which is right, and *)
(* neither does an object equal a literal with the same text.              *)
(***************************************************************************)
RECURSIVE ValueEq(_, _)
AryEq(s, t) ==
  /\ Len(s) = Len(t)
  /\ \A i \in 1..Len(s) : ValueEq(s[i], t[i])
ValueEq(a, b) ==
  \/ a = b
  \/ /\ a[1] = b[1]
     /\ \/ IsArray(a) /\ AryEq(Of(a), Of(b))
        \/ a[1] \in {"obj", "lit"} /\ StrEq(a, b)
  \/ IsNumber(a) /\ IsNumber(b) /\ a[1] # b[1] /\ NumEq(a, b)

(***************************************************************************)
(* strm_value_ns: the name of the namespace in which the functions of a    *)
(* value are looked up.  An array may have one of its own, which is the    *)
(* third element of its tuple then, and an object of the library has its.  *)
(* Names are texts; a number above 255 stands for a whole word.            *)
(***************************************************************************)
NoNs == <<>>
NsArray == <<1001>>
NsString == <<1002>>
NsNumber == <<1003>>
NsTime == <<1004>>
ValueNs(v) ==
  CASE IsArray(v) -> IF Len(v) >= 3 THEN v[3] ELSE NsArray
    [] IsString(v) -> NsString
    [] IsNumber(v) -> NsNumber
    [] v[1] = "aux" -> v[3]
    [] OTHER -> NoNs
=============================================================================
