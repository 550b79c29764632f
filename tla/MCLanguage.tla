----------------------------- MODULE MCLanguage -----------------------------
(***************************************************************************)
(* The programs with which Language is checked.                            *)
(***************************************************************************)
EXTENDS Language

X == <<120>>  Y == <<121>>  Z == <<122>>  F == <<102>>  W == <<119>>
Plus == <<43>>  Times == <<42>>  Mod == <<37>>  Less == <<60>>  Equal == <<61, 61>>  Bar == <<124>>
Map == <<2002>>

N(n) == IntNode(n)
V(x) == IdentNode(x)
S(s) == StringNode(s)
Op(op, a, b) == OpNode(op, a, b)
Call(f, args) == CallNode(f, NoNode, args, NoNode)
Do(s) == NodesNode(s)
Fun(body) == LambdaNode(<<X>>, body)

Piped(source, stages) == FoldLeft(LAMBDA a, s : Op(Bar, a, s), source, stages)
Program(about, lets, fns, stages, elements, max) ==
  [about |-> about, fns |-> fns, elements |-> elements, max |-> max, first |-> 2,
   stmts |-> Append(lets, Piped(V(Source), stages))]
Block(about, lets, fn, elements, max) == Program(about, lets, <<fn>>, <<fn>>, elements, max)
Mapping(about, lets, fn, elements, max) ==
  Program(about, lets, <<fn>>, <<CallNode(Map, NoNode, <<fn>>, NoNode)>>, elements, max)

-----------------------------------------------------------------------------
(* y = 5;  def f(x, y) { if (x < 1) { skip }; z = x; if (y == 7) {return z}; z + y } *)
Five == LetNode(Y, N(5))
DefF ==
  DefNode(F, <<X, Y>>,
    Do(<<IfNode(Op(Less, V(X), N(1)), BlockNode(Do(<<SkipNode>>)), NoNode), LetNode(Z, V(X)), Op(Plus, V(Z), V(Y))>>))
\* def w(y) { z = y; {x -> x + z} }: a function that makes functions.
DefW == DefNode(W, <<Y>>, Do(<<LetNode(Z, V(Y)), Fun(Op(Plus, V(X), V(Z)))>>))

Atoms == {V(X), V(Y), N(2)}
Exprs ==
  Atoms \cup {Op(o, V(X), a) : o \in {Plus, Times, Less, Equal}, a \in Atoms}
    \cup {Op(Mod, V(X), N(2)), V(Z), S(<<97>>), Call(F, <<V(X), V(Y)>>), Call(F, <<V(X)>>),
          FcallNode(Call(W, <<V(X)>>), <<V(X)>>, NoNode)}
Steps ==   \* what may come before the last expression
  {EmitNode(<<V(X), V(Y)>>), LetNode(Y, Op(Plus, V(X), V(X))), LetNode(Z, N(3)), LetNode(X, N(1)),
   IfNode(Op(Equal, V(X), N(1)), BlockNode(Do(<<SkipNode>>)), NoNode),
   IfNode(Op(Less, V(X), V(Y)), BlockNode(Do(<<EmitNode(<<V(X)>>)>>)), BlockNode(Do(<<V(Y)>>))),
   IfNode(Op(Equal, V(X), N(1)), BlockNode(Do(<<ReturnNode(<<V(X), N(2)>>)>>)), NoNode)}
Bodies == {Do(<<e>>) : e \in Exprs} \cup {Do(<<s, e>>) : s \in Steps, e \in Exprs \ {V(X), N(2)}}
Numbers == {IntValue(n) : n \in {0, 1, 7}} \cup {Str(<<97>>)}
Functions ==
  {Block("functions", <<Five, DefF, DefW>>, Fun(b), Numbers, 2) : b \in Bodies}
    \cup {Mapping("functions", <<Five, DefF, DefW>>, Fun(b), Numbers, 2) : b \in Bodies}
Stages ==
  {Program("functions", <<Five, DefF, DefW>>, <<f, g>>, <<f, g>>, {IntValue(1), IntValue(6)}, 2) :
     f \in {Fun(Do(<<EmitNode(<<V(X)>>), Op(Plus, V(X), V(Y))>>)), Call(W, <<N(3)>>)},
     g \in {Fun(Do(<<LetNode(Z, V(X)), Op(Times, V(Z), V(Y))>>)), Call(W, <<N(2)>>)}}
\* def k(x) { y = x + x; y } and map(&k)
K == <<107>>
DefK == DefNode(K, <<X>>, Do(<<LetNode(Y, Op(Plus, V(X), V(X))), V(Y)>>))
ByName == {Mapping("functions", <<Five, DefK>>, GenfuncNode(K), Numbers, 3)}
\* [3, 1, 1] | {x -> ...} | stdout
OfArray ==
  {[Block("functions", <<Five, DefF, DefW>>, Fun(b), {}, 0)
      EXCEPT !.first = 3,
             !.stmts[4] = Piped(ArrayHeaders(<<N(3), SplatNode(ArrayHeaders(<<N(1), N(1)>>))>>),
                                <<Fun(b), V(<<2003>>)>>)] : b \in Bodies}

\* def f, def w;  src | map{x -> ...};  y = 5
Late ==
  {[q EXCEPT !.stmts = Append(@, Five)] : q \in {Mapping("functions", <<DefF, DefW>>, Fun(b), Numbers, 2) : b \in Bodies}}

-----------------------------------------------------------------------------
A == S(<<97>>)
Arr(s) == ParrayNode(s)
Struct(k, p) == PstructNode(<<PairNode(k, p)>>)
Ka == <<97>>
Kb == <<98>>
\* Patterns, each with its variables.
Patterns ==
  {<<V(X), <<X>>>>, <<V(Placeholder), <<>>>>, <<N(1), <<>>>>, <<A, <<>>>>, <<BoolNode(TRUE), <<>>>>, <<NilNode, <<>>>>,
   <<Arr(<<>>), <<>>>>, <<Arr(<<V(X)>>), <<X>>>>, <<Arr(<<V(X), V(X)>>), <<X>>>>, <<Arr(<<V(X), V(Y)>>), <<X, Y>>>>,
   <<Arr(<<V(X), N(1)>>), <<X>>>>, <<Arr(<<N(1), V(X)>>), <<X>>>>, <<Arr(<<V(X), Arr(<<V(X)>>)>>), <<X>>>>,
   <<PsplatNode(Arr(<<V(X)>>), V(Y), NoNode), <<X, Y>>>>, <<PsplatNode(Arr(<<V(X)>>), Arr(<<V(Y)>>), NoNode), <<X, Y>>>>,
   <<Struct(Ka, V(X)), <<X>>>>, <<PstructNode(<<PairNode(Kb, V(Y)), PairNode(Ka, N(1))>>), <<Y>>>>,
   <<NsNode(NsNumber, V(X)), <<X>>>>}
Clauses2 == {<<p, q>> : p \in Patterns, q \in Patterns}
ClauseOf(k, p, cond) == Clause(Arr(<<p[1]>>), cond, Do(<<ArrayHeaders(<<N(k)>> \o [i \in DOMAIN p[2] |-> V(p[2][i])])>>))
Ary(s) == AryValue(s)
I(n) == IntValue(n)
Labelled(vals, keys) == <<"ary", vals, NsArray, keys>>
Matched ==
  {I(1), FloatValue(1), Str(<<97>>), BoolValue(TRUE), BoolValue(FALSE), Ary(<<>>), Ary(<<I(1)>>), Ary(<<I(1), I(1)>>),
   Ary(<<I(2), I(1)>>), Ary(<<I(1), FloatValue(1)>>), Ary(<<I(2), Ary(<<I(2)>>)>>), Ary(<<I(1), I(2), I(3)>>),
   Labelled(<<I(1), I(2)>>, <<Ka, Kb>>)}
Guards(p) == {NoNode} \cup IF p[2] = <<X, Y>> THEN {Op(Equal, V(X), V(Y))} ELSE IF p[2] = <<X>> THEN {Op(Less, V(X), N(2))} ELSE {}
Cases ==
  {Mapping("patterns", <<>>, PlambdaNode(<<ClauseOf(1, p[1], c), ClauseOf(2, p[2], NoNode)>>), Matched, 1) :
     p \in Clauses2, c \in {NoNode}}
  \cup UNION {{Mapping("patterns", <<>>, PlambdaNode(<<ClauseOf(1, p, c), ClauseOf(2, <<V(X), <<X>>>>, NoNode)>>), Matched, 2) :
              c \in Guards(p)} : p \in Patterns}

\* {x -> match(x, {case ...})}
Matches ==
  {Program("patterns", <<>>, <<f>>, <<Fun(Do(<<CallNode(<<2001>>, V(X), <<f>>, NoNode)>>))>>, Matched, 1) :
     f \in {PlambdaNode(<<ClauseOf(1, p, NoNode), ClauseOf(2, <<V(Placeholder), <<>>>>, NoNode)>>) : p \in Patterns}}

-----------------------------------------------------------------------------
(* class A { def f(s) = 1 }  class B { y = 2 }  def f(s) = 3; import B; stage {x -> [x.f, x.g]} *)
ClassB == <<66>>
Method(name, n) == LetNode(name, MethodNode(<<>>, N(n)))
InClass(class, keys) == <<"ary", [i \in DOMAIN keys |-> I(i)], class, keys>>
Get(name) == CallNode(name, V(X), <<>>, NoNode)
Classes ==
  {Mapping("classes",
     <<NsNode(ClassA, Do(<<Method(F, 1)>>)), NsNode(ClassB, Do(<<LetNode(Y, N(2))>>)), Method(F, 3)>> \o import,
     Fun(Do(<<ArrayHeaders(<<Get(F), Get(NameG)>>)>>)),
     {InClass(c, k) : c \in {ClassA, ClassB, NsArray}, k \in {<<NameG>>, <<F, NameG>>, <<F>>}} \cup {I(1)}, 2) :
   import \in {<<>>, <<ImportNode(ClassB)>>}}

\* y = 5; y = 6   and   class B { y = 2 }  y = 5; import B, before and after the pipeline
Assignments == {<<Five, LetNode(Y, N(6))>>, <<NsNode(ClassB, Do(<<LetNode(Y, N(2))>>)), Five, ImportNode(ClassB)>>}
Assigned ==
  {Mapping("assignment", lets, Fun(V(Y)), Numbers, 1) :
     lets \in Assignments}
  \cup {[q EXCEPT !.stmts = @ \o lets] : q \in {Mapping("assignment", <<>>, Fun(V(Y)), Numbers, 2)}, lets \in Assignments}

Comma == 44
SmallTexts == UNION {[1..n -> {97, Comma}] : n \in 1..6}
Utf8Texts == UNION {[1..n -> {97, 195, 169, 227, 129}] : n \in 1..4}
Splits ==
  {Mapping("split", <<>>, Fun(Do(<<CallNode(<<2011>>, V(X), <<S(sep)>>, NoNode)>>)), {Str(t) : t \in SmallTexts}, 1) @@ [sep |-> sep] :
     sep \in {<<Comma>>, <<97, Comma>>}}
CharsOf == Mapping("chars", <<>>, Fun(Do(<<CallNode(<<2012>>, V(X), <<>>, NoNode)>>)), {Str(t) : t \in Utf8Texts}, 1)
CharsImported == Program("chars", <<ImportNode(NsString)>>, <<>>, <<V(<<2012>>)>>, {Str(t) : t \in Utf8Texts}, 1)

\* A text written with escapes: each byte as it is, or by one of its escapes.
HexDigit(n) == IF n < 10 THEN 48 + n ELSE 87 + n
Written(b) ==
  {<<Backslash, 120, HexDigit(b \div 16), HexDigit(b % 16)>>}
    \cup (CASE b = 10 -> {<<Backslash, 110>>} [] b = Backslash -> {<<Backslash, Backslash>>} [] b = 27 -> {<<Backslash, 101>>}
           [] b \in {97, 55} -> {<<b>>} [] OTHER -> {})
Literals ==
  UNION {{Mapping("literal", <<>>, Fun(Do(<<S(a \o b)>>)), {I(1)}, 1) @@ [meant |-> <<c, d>>] :
            a \in Written(c), b \in Written(d)} : c \in {10, 27, 55, Backslash, 97, 255}, d \in {10, 55, Backslash, 97, 171}}

MCPrograms ==
  Functions \cup Late \cup ByName \cup Stages \cup Cases \cup Matches \cup Classes \cup Assigned \cup Splits \cup {CharsOf, CharsImported} \cup OfArray \cup Literals
EmitPrograms ==
  {Mapping("emit", <<>>, Fun(Do(<<EmitNode(<<V(X), V(X)>>)>>)), {IntValue(1), IntValue(2)}, 2)}
=============================================================================
