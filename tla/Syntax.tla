------------------------------- MODULE Syntax -------------------------------
(***************************************************************************)
(* The syntax tree (node.c), as the actions of the grammar build it        *)
(* (parse.y).  A node is a record whose field t is its type; lists of      *)
(* nodes are sequences; NoNode is a null pointer.                          *)
(***************************************************************************)
LOCAL INSTANCE Integers
LOCAL INSTANCE Sequences
LOCAL INSTANCE SequencesExt
LOCAL INSTANCE Values

NoNode == [t |-> "NONE"]

-----------------------------------------------------------------------------
(* Literals and names. *)

IntNode(n) == [t |-> "INT", n |-> n]
FloatNode(n) == [t |-> "FLOAT", n |-> n]
BoolNode(b) == [t |-> "BOOL", b |-> b]
NilNode == [t |-> "NIL"]
IdentNode(name) == [t |-> "IDENT", name |-> name]
GenfuncNode(id) == [t |-> "GENFUNC", id |-> id]

(***************************************************************************)
(* string_escape: what the text between the quotes of a literal stands     *)
(* for.  \x takes up to two digits (small letters from a to f), and        *)
(* swallows a byte that is no digit instead of the one that is missing.    *)
(***************************************************************************)
Backslash == 92
EscapeOf(b) == CASE b = 110 -> 10 [] b = 114 -> 13 [] b = 116 -> 9 [] b = 101 -> 27 [] b = 48 -> 0 [] OTHER -> b
HexOf(b) == CASE b \in 48..57 -> b - 48 [] b \in 97..102 -> b - 87 [] OTHER -> -1
StringEscape(s) ==
  LET two(i) == SubSeq(s, i + 2, i + 3)                      \* the bytes after \x
      digits(t) == IF t = <<>> \/ HexOf(t[1]) < 0 THEN <<>>
                   ELSE IF Len(t) = 1 \/ HexOf(t[2]) < 0 THEN <<HexOf(t[1])>>
                   ELSE <<HexOf(t[1]), HexOf(t[2])>>
      byte(t) == FoldLeft(LAMBDA n, d : 16 * n + d, 0, digits(t))
      used(t) == IF Len(digits(t)) < Len(t) THEN Len(digits(t)) + 1 ELSE Len(t)
      from[i \in 1..(Len(s) + 1)] ==
        CASE i > Len(s) -> <<>>
          [] i <= Len(s) /\ s[i] # Backslash -> <<s[i]>> \o from[i + 1]
          [] i = Len(s) /\ s[i] = Backslash -> <<>>
          [] i < Len(s) /\ s[i] = Backslash /\ s[i + 1] # 120 -> <<EscapeOf(s[i + 1])>> \o from[i + 2]
          [] OTHER -> <<byte(two(i))>> \o from[i + 2 + used(two(i))]
  IN from[1]
StringNode(s) == [t |-> "STR", s |-> StringEscape(s)]

-----------------------------------------------------------------------------
(* Arrays and arguments.  If one item has a label the items that have none *)
(* get a header that is never written.                                     *)

PairNode(key, value) == [t |-> "PAIR", key |-> key, value |-> value]
SplatNode(n) == [t |-> "SPLAT", node |-> n]
UnwrittenKey == <<0>>
ArrayHeaders(items) ==
  LET Labelled(i) == items[i].t = "PAIR" IN
  [t |-> "ARRAY", ns |-> NsArray,
   items |-> [i \in DOMAIN items |-> IF Labelled(i) THEN items[i].value ELSE items[i]],
   headers |-> IF \E i \in DOMAIN items : Labelled(i)
                 THEN [i \in DOMAIN items |-> IF Labelled(i) THEN items[i].key ELSE UnwrittenKey]
                 ELSE <<>>]
ObjNode(items, ns) == [ArrayHeaders(items) EXCEPT !.ns = ns]

\* The receiver of a call is its first argument, a block its last one.
Optional(n) == IF n = NoNode THEN <<>> ELSE <<n>>
CallNode(ident, recv, args, blk) ==
  [t |-> "CALL", name |-> ident,
   args |-> [ArrayHeaders(args) EXCEPT !.items = Optional(recv) \o @ \o Optional(blk)]]
FcallNode(func, args, blk) ==
  [t |-> "FCALL", func |-> func, args |-> [ArrayHeaders(args) EXCEPT !.items = @ \o Optional(blk)]]
OpNode(op, lhs, rhs) == [t |-> "OP", name |-> op, args |-> ArrayHeaders(Optional(lhs) \o Optional(rhs))]

-----------------------------------------------------------------------------
(* Functions.  A block has no parameters; where an if has a block for a    *)
(* branch its body is the branch, not a function.                          *)

LambdaAlloc(args, body, block) == [t |-> "LAMBDA", args |-> args, body |-> body, block |-> block]
LambdaNode(args, body) == LambdaAlloc(args, body, FALSE)
BlockNode(body) == LambdaAlloc(<<>>, body, TRUE)
Self == <<1005>>
MethodNode(args, body) == LambdaNode(<<Self>> \o args, body)
CondBody(body) == IF body.t = "LAMBDA" /\ body.block THEN body.body ELSE body
IfNode(cond, then, else) ==
  [t |-> "IF", cond |-> cond, then |-> CondBody(then), else |-> CondBody(else)]

\* Patterns and case functions.
NoPattern == NoNode
ParrayNode(pats) == [t |-> "PARRAY", pats |-> pats]
PstructNode(pairs) == [t |-> "PSTRUCT", pats |-> pairs]
PsplatNode(head, mid, tail) == [t |-> "PSPLAT", head |-> head, mid |-> mid, tail |-> tail]
Clause(pat, cond, body) == [pat |-> pat, cond |-> cond, body |-> body]
PlambdaNode(clauses) == [t |-> "PLAMBDA", clauses |-> clauses]

-----------------------------------------------------------------------------
(* Statements. *)

NodesNode(nodes) == [t |-> "NODES", nodes |-> nodes]
LetNode(lhs, rhs) == [t |-> "LET", lhs |-> lhs, rhs |-> rhs]
DefNode(name, args, body) == LetNode(name, LambdaNode(args, body))
NsNode(name, body) == [t |-> "NS", name |-> name, body |-> body]
ImportNode(name) == [t |-> "IMPORT", name |-> name]
EmitNode(args) == [t |-> "EMIT", emit |-> ArrayHeaders(args).items]
SkipNode == [t |-> "SKIP"]
ReturnNode(args) == [t |-> "RETURN", rv |-> ArrayHeaders(args).items]
=============================================================================
