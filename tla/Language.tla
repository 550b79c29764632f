------------------------------ MODULE Language ------------------------------
(***************************************************************************)
(* A program and its pipelines: node_run (exec.c) executes the statements  *)
(* on the main thread; from the connection of a producer on (core.c,       *)
(* strm_stream_connect) workers call the functions of the streams, one     *)
(* element at a time, while main goes on to the next statement.  Which     *)
(* stream is next is for the scheduler to choose: elements go from stream  *)
(* to stream in the order in which they have been emitted (module          *)
(* Delivery), and the calls of one stream do not overlap (module           *)
(* Scheduler), so that a call is one step here as far as calls of          *)
(* different streams share nothing they change (Isolated).                 *)
(*                                                                         *)
(* A statement is one step, too: a pipeline is there as a whole (what a    *)
(* producer emits before all of it is connected is in Scheduler), and a    *)
(* variable of the program is there or not.  env.c has no lock: that main  *)
(* may be inside kh_put, where the table is enlarged and the key is there  *)
(* before its value, while a worker is inside kh_get is a data race of the *)
(* program that is not modelled.                                           *)
(***************************************************************************)
EXTENDS Interpreter

(***************************************************************************)
(* A program: stmts, its statements; the functions fns of the stages of    *)
(* its pipeline, whose streams are first, first + 1 ...; the elements that *)
(* its source emits, max of them; and what it is about (see below).        *)
(***************************************************************************)
CONSTANT Programs

VARIABLES
  prog,   \* the program
  pc,     \* the next statement
  m       \* the machine

vars == <<prog, pc, m>>

(***************************************************************************)
(* The names that init.c and strm_misc_init define, as far as programs use *)
(* them here.  src, a stream of the library that emits any of the elements *)
(* of the program, stands for those of the names that make producers.      *)
(***************************************************************************)
Source == <<2000>>
TopNames ==
  (Source :> StreamOf(1)) @@ (<<61, 61>> :> CfuncValue("exec_eq")) @@ (<<33, 61>> :> CfuncValue("exec_neq"))
  @@ (<<124>> :> CfuncValue("exec_bar")) @@ (<<2001>> :> CfuncValue("exec_match")) @@ (<<2002>> :> CfuncValue("exec_map"))
  @@ (<<2003>> :> PtrValue("io", "stdout"))
NumberNames ==
  (<<43>> :> CfuncValue("num_plus")) @@ (<<45>> :> CfuncValue("num_minus")) @@ (<<42>> :> CfuncValue("num_mult"))
  @@ (<<47>> :> CfuncValue("num_div")) @@ (<<37>> :> CfuncValue("num_mod")) @@ (<<62>> :> CfuncValue("num_gt"))
  @@ (<<62, 61>> :> CfuncValue("num_ge")) @@ (<<60>> :> CfuncValue("num_lt")) @@ (<<60, 61>> :> CfuncValue("num_le"))
StringNames ==
  (<<2010>> :> CfuncValue("str_length")) @@ (<<2011>> :> CfuncValue("str_split"))
  @@ (<<43>> :> CfuncValue("str_plus")) @@ (<<2012>> :> CfuncValue("str_chars"))
ArrayNames == <<>>

Machine ==
  [envs |-> <<TopNames, NumberNames, StringNames, ArrayNames>>,
   scopes |-> [e \in 1..4 |-> [env |-> e, prev |-> NoScope, udef |-> FALSE]],
   ns |-> (NsNumber :> 2) @@ (NsString :> 3) @@ (NsArray :> 4),
   globals |-> (<<2004>> :> AryValue(<<>>)),           \* ARGV
   r |-> "OK", val |-> Garbage, exc |-> NoExc, out |-> <<>>,
   streams |-> <<NewStream("source", Nil)>>, links |-> <<>>, aborted |-> FALSE]

Init == prog \in Programs /\ pc = 1 /\ m = Machine

\* A statement that fails ends the program, but not what it has started.
Advance(N) ==   \* N: after the statement
  /\ m' = [N EXCEPT !.exc = IF N.r = "NG" THEN NoExc ELSE @, !.val = Garbage, !.out = <<>>, !.r = "OK"]
  /\ pc' = IF N.r = "NG" THEN Len(prog.stmts) + 1 ELSE pc + 1
Statement ==
  /\ ~m.aborted /\ pc <= Len(prog.stmts)
  /\ Advance(Expr(prog.stmts[pc], Top, m))
  /\ UNCHANGED prog

\* A producer that has been connected emits: any element, or the next one of its array.
Produce(i) ==
  LET st == m.streams[i] IN
  /\ ~m.aborted /\ \E k \in DOMAIN m.links : m.links[k].src = i
  /\ \/ /\ st.kind = "source" /\ Len(st.out) < prog.max
        /\ \E x \in prog.elements : m' = [m EXCEPT !.streams[i].out = Append(@, x)]
     \/ /\ st.kind = "array" /\ Len(st.fed) < Len(Of(st.of))
        /\ m' = [m EXCEPT !.streams[i].out = @ \o ArrExec(m, st.of, Len(st.fed)).out,
                         !.streams[i].fed = Append(@, Of(st.of)[Len(st.fed) + 1])]
  /\ UNCHANGED <<prog, pc>>

\* What the function of a stream does with an element.
Stage(M, st, x) ==
  CASE st.kind = "block" -> BlkExec(M, st.of, x)
    [] st.kind = "cfunc" -> CfuncStage(M, st.of, x)
    [] st.kind = "map" -> MapStage(M, st.of, x)
    [] st.kind = "write" -> M

(***************************************************************************)
(* A stream takes the next element x of link k; N: after its function.     *)
(* The call is one step although main may set variables meanwhile: what it *)
(* has found it finds again, and it ends at the first variable that it     *)
(* does not find, so that it is as if it had been made between two         *)
(* statements.                                                             *)
(***************************************************************************)
Taken(k, x, N) ==
  LET dst == m.links[k].dst  st == m.streams[dst] IN
  m' = [N EXCEPT !.links[k].taken = @ + 1,
                 !.streams[dst] = [st EXCEPT !.exc = N.exc, !.fed = Append(@, x), !.out = @ \o N.out],
                 !.exc = NoExc, !.out = <<>>, !.val = Garbage, !.r = "OK"]
Element(k) ==
  LET link == m.links[k]
      st == m.streams[link.dst]
      x == m.streams[link.src].out[link.taken + 1]
  IN /\ ~m.aborted /\ link.taken < Len(m.streams[link.src].out)
     /\ Taken(k, x, Stage([m EXCEPT !.exc = st.exc, !.out = <<>>], st, x))
     /\ UNCHANGED <<prog, pc>>

Next ==
  \/ Statement
  \/ \E i \in DOMAIN m.streams : Produce(i)
  \/ \E k \in DOMAIN m.links : Element(k)

Spec == Init /\ [][Next]_vars

-----------------------------------------------------------------------------
(***************************************************************************)
(* The scopes and environments that the machine refers to exist; a scope   *)
(* encloses only scopes made later, so that looking up a name ends; and no *)
(* value that has not been written (Garbage) reaches a stream.             *)
(***************************************************************************)
Refers(v) == CASE v[1] \in {"lambda", "genfunc"} -> Of(v).scope \in DOMAIN m.scopes
               [] v[1] = "stream" -> Of(v) \in DOMAIN m.streams
               [] OTHER -> v # Garbage
TypeOK ==
  /\ \A s \in DOMAIN m.scopes : m.scopes[s].prev \in 0..(s - 1) /\ m.scopes[s].env \in 0..Len(m.envs)
  /\ \A e \in DOMAIN m.envs : \A x \in DOMAIN m.envs[e] : Refers(m.envs[e][x])
  /\ \A n \in DOMAIN m.ns : m.ns[n] \in DOMAIN m.scopes
  /\ \A i \in DOMAIN m.streams : \A x \in ToSet(m.streams[i].out) : Refers(x)
  /\ \A l \in ToSet(m.links) : {l.src, l.dst} \subseteq DOMAIN m.streams /\ l.taken <= Len(m.streams[l.src].out)

(***************************************************************************)
(* A variable is set once (env.c, env_set): what an environment says of a  *)
(* name never changes and is never forgotten, whatever statements and      *)
(* functions are executed, in turn or while the pipeline runs.             *)
(***************************************************************************)
SingleAssignment ==
  [][\A e \in DOMAIN m.envs : \A x \in DOMAIN m.envs[e] :
       x \in DOMAIN m'.envs[e] /\ m'.envs[e][x] = m.envs[e][x]]_vars

(***************************************************************************)
(* The functions of a pipeline are called by several workers, and while    *)
(* main executes statements, without a lock around env.c and ns.c.  A call *)
(* writes only what it has made itself: it changes no environment, scope   *)
(* or namespace that existed when it began, not those of the function that *)
(* made the one called, which calls of other streams share, and not those  *)
(* of the program.  So no two calls disturb each other.  It does not say   *)
(* that main disturbs no call: its statements do set variables in the      *)
(* table of the program that calls look up (see above).                    *)
(***************************************************************************)
Isolated ==
  [][UNCHANGED pc =>
       /\ m'.ns = m.ns /\ m'.globals = m.globals
       /\ \A e \in DOMAIN m.envs : m'.envs[e] = m.envs[e]
       /\ \A s \in DOMAIN m.scopes : m'.scopes[s] = m.scopes[s]]_vars

(***************************************************************************)
(* What the code of a function means, without a machine: Means(np, d) is d *)
(* after np, where d is [vars: what names stand for, own: the names that   *)
(* the function has set, emits, end, v].  end is "value", with the value   *)
(* v; "return", with what is returned; "skip"; "error"; or "fails", for    *)
(* what fails without a message.  A function stands for <<"fun", names of  *)
(* its parameters, body, variables>>.                                      *)
(***************************************************************************)
NoVars == <<>>
Begin(known, own) == [vars |-> known, own |-> own, emits |-> <<>>, end |-> "value", v |-> Nil]
Ends(d, end) == [d EXCEPT !.end = end]
Gives(d, v) == [d EXCEPT !.v = v]

\* The number of the integers of Width bits that is congruent to n.
Int32(n) ==
  CHOOSE k \in (-(2 ^ (Width - 1)))..(2 ^ (Width - 1) - 1) : (k - n) % 2 ^ Width = 0
Ints(a, b) == IsInt(a) /\ IsInt(b)
Rem(a, b) ==
  CHOOSE k \in -(2 ^ Width)..(2 ^ Width) :
    (a - k) % b = 0 /\ (k < b /\ k > -b) /\ (k # 0 => (k < 0 <=> a < 0))
Applied(op, a, b, d) ==
  CASE op = <<43>> /\ Ints(a, b) -> Gives(d, IntValue(Int32(Of(a) + Of(b))))
    [] op = <<43>> /\ IsString(a) /\ IsString(b) -> Gives(d, Str(Of(a) \o Of(b)))
    [] op = <<42>> /\ Ints(a, b) -> Gives(d, IntValue(Int32(Of(a) * Of(b))))
    [] op = <<37>> /\ Ints(a, b) /\ Of(b) > 0 -> Gives(d, IntValue(Rem(Of(a), Of(b))))
    [] op = <<60>> /\ IsNumber(a) /\ IsNumber(b) -> Gives(d, BoolValue(Of(a) < Of(b)))
    [] op = <<61, 61>> -> Gives(d, BoolValue(ValueEq(a, b)))
    [] OTHER -> Ends(d, "error")

RECURSIVE Means(_, _), MeansAll(_, _)
\* The values of expressions, from left to right: d.v is their sequence.
MeansAll(nodes, d) ==
  IF nodes = <<>> THEN Gives(d, <<>>)
  ELSE LET h == Means(Head(nodes), d)
           rest == MeansAll(Tail(nodes), h)
       IN IF h.end # "value" THEN h ELSE IF rest.end # "value" THEN rest ELSE Gives(rest, <<h.v>> \o rest.v)

\* A call of a function; its variables are its own.
Apply(f, args, d) ==
  LET names == f[2]
      known == [x \in ToSet(names) |-> args[CHOOSE i \in DOMAIN names : names[i] = x]] @@ f[4]
      b == Means(f[3], [Begin(known, ToSet(names)) EXCEPT !.emits = d.emits])
      end == IF b.end = "return" THEN "value" ELSE b.end
  IN IF f[1] # "fun" \/ Len(names) # Len(args) THEN Ends(d, "error")
     ELSE [d EXCEPT !.emits = b.emits, !.end = end, !.v = b.v]

Means(np, d) ==
  CASE np.t = "INT" -> Gives(d, IntValue(np.n))
    [] np.t = "BOOL" -> Gives(d, BoolValue(np.b))
    [] np.t = "STR" -> Gives(d, Str(np.s))
    [] np.t = "NIL" -> Gives(d, Nil)
    [] np.t = "IDENT" -> IF np.name \in DOMAIN d.vars THEN Gives(d, d.vars[np.name]) ELSE Ends(d, "error")
    [] np.t = "SKIP" -> Ends(d, "skip")
    [] np.t = "LAMBDA" -> Gives(d, <<"fun", np.args, np.body, d.vars>>)
    [] np.t = "GENFUNC" -> Gives(d, d.vars[np.id])
    [] np.t = "NODES" ->
         LET step(a, n) == IF a.end = "value" THEN Means(n, a) ELSE a IN FoldLeft(step, d, np.nodes)
    [] np.t = "IF" ->
         LET c == Means(np.cond, d) IN
         IF c.end # "value" THEN c
         ELSE IF c.v = BoolValue(TRUE) THEN Means(np.then, c)
         ELSE IF np.else = NoNode THEN Gives(c, Nil) ELSE Means(np.else, c)
    [] np.t = "LET" ->
         LET r == Means(np.rhs, d) IN
         IF r.end # "value" THEN Ends(r, "error")
         ELSE IF np.lhs \in r.own THEN Ends(r, "fails")
         ELSE [r EXCEPT !.vars = (np.lhs :> r.v) @@ @, !.own = @ \cup {np.lhs}]
    [] np.t = "EMIT" ->
         LET step(a, n) ==
               LET b == IF a.end = "value" THEN Means(n, a) ELSE a IN
               IF b.end # "value" \/ IsNil(b.v) THEN b ELSE [b EXCEPT !.emits = Append(@, b.v)]
         IN FoldLeft(step, d, np.emit)
    [] np.t = "RETURN" ->
         LET r == MeansAll(np.rv, d) IN
         IF r.end # "value" THEN r
         ELSE Ends(Gives(r, IF np.rv = <<>> THEN Nil ELSE IF Len(np.rv) = 1 THEN r.v[1] ELSE AryValue(r.v)), "return")
    [] np.t = "ARRAY" -> LET r == MeansAll(np.items, d) IN IF r.end # "value" THEN r ELSE Gives(r, AryValue(r.v))
    [] np.t = "OP" -> LET r == MeansAll(np.args.items, d) IN IF r.end # "value" THEN r ELSE Applied(np.name, r.v[1], r.v[2], r)
    [] np.t = "CALL" ->
         LET r == MeansAll(np.args.items, d) IN
         IF r.end # "value" THEN r
         ELSE IF np.name \notin DOMAIN d.vars THEN Ends(r, "error")
         ELSE Apply(d.vars[np.name], r.v, r)
    [] np.t = "FCALL" ->
         LET f == Means(np.func, d)
             r == MeansAll(np.args.items, f)
         IN IF f.end # "value" THEN f ELSE IF r.end # "value" THEN r ELSE Apply(f.v, r.v, r)

\* The statement that makes the pipeline, and whether it has been executed.
Start == CHOOSE n \in DOMAIN prog.stmts : prog.stmts[n].t = "OP"
Started == pc > Start

\* The variables of the program after n statements, and what the function of
\* stage i gives for x with them.
TopMeaning(n) == Means(NodesNode(SelectSeq(SubSeq(prog.stmts, 1, n), LAMBDA s : s.t = "LET")), Begin(NoVars, {}))
StageMeaning(i, x, n) == LET top == TopMeaning(n) IN Apply(Means(prog.fns[i], top).v, <<x>>, Begin(NoVars, {}))

\* What an element whose function does not fail gives: what it emits and its value.
Passed(d) == IF d.end = "value" /\ ~IsNil(d.v) THEN Append(d.emits, d.v) ELSE d.emits
Mapped(i, xs, n) == FlattenSeq([k \in DOMAIN xs |-> Passed(StageMeaning(i, xs[k], n))])

(***************************************************************************)
(* A function in a pipeline maps (exec.c, blk_exec; iter.c, iter_map): up  *)
(* to the first element for which it skips or fails, its stream emits, for *)
(* each element in turn, what the function emits and then its value, with  *)
(* the variables of that call, of the functions around it and of the       *)
(* program only.  From that element on a map goes on in the same way; a    *)
(* function that is a stage itself only ever emits part of that.  Of the   *)
(* variables that the program sets after the pipeline (one, and maps only, *)
(* in these programs) the first calls know nothing, all later ones do.     *)
(***************************************************************************)
Fine(i, xs) ==
  LET bad == {k \in DOMAIN xs : StageMeaning(i, xs[k], Start).end # "value"} IN
  IF bad = {} THEN Len(xs) ELSE (CHOOSE k \in bad : \A j \in bad : k <= j) - 1
MapPromise ==
  prog.about = "functions" /\ ~m.aborted /\ Started =>
    \A i \in DOMAIN prog.fns :
      LET st == m.streams[prog.first + i - 1] IN
      CASE st.kind = "map" ->
             \E j \in 0..Len(st.fed) :
               st.out = Mapped(i, SubSeq(st.fed, 1, j), Start) \o Mapped(i, SubSeq(st.fed, j + 1, Len(st.fed)), pc - 1)
        [] st.kind = "block" ->
             LET whole == Mapped(i, st.fed, Start)
                 before == Mapped(i, SubSeq(st.fed, 1, Fine(i, st.fed)), Start)
             IN IsPrefix(before, st.out) /\ Len(st.out) <= Len(whole)
                  /\ (Len(st.fed) = Fine(i, st.fed) => st.out = whole)

(***************************************************************************)
(* A case function runs its first clause for which there are values of the *)
(* pattern's variables that make the pattern the argument, and the guard   *)
(* true, with these values; there is an error if there is no such clause   *)
(* (exec.c, lambda_call).  The clauses of these programs give their number *)
(* and their variables.                                                    *)
(***************************************************************************)
RECURSIVE Instance(_, _, _)
Instance(pat, v, b) ==   \* b: the values of the variables
  LET All(pats, vs) == Len(pats) = Len(vs) /\ \A i \in DOMAIN pats : Instance(pats[i], vs[i], b)
      Field(key) == {i \in DOMAIN Headers(v) : Headers(v)[i] = key}
  IN CASE pat = NoPattern -> TRUE
       [] pat.t = "IDENT" -> pat.name = Placeholder \/ ValueEq(b[pat.name], v)
       [] pat.t = "INT" -> IsNumber(v) /\ Of(v) = pat.n
       [] pat.t = "STR" -> IsString(v) /\ Of(v) = pat.s
       [] pat.t = "NIL" -> IsNil(v)
       [] pat.t = "BOOL" -> Truth(v) = pat.b
       [] pat.t = "NS" -> ValueNs(v) = pat.name /\ Instance(pat.body, v, b)
       [] pat.t = "PARRAY" -> IsArray(v) /\ All(pat.pats, Of(v))
       [] pat.t = "PSTRUCT" ->
            IsArray(v) /\ \A p \in ToSet(pat.pats) : \E i \in Field(p.key) : Instance(p.value, Of(v)[i], b)
       [] pat.t = "PSPLAT" /\ pat.head.t = "PARRAY" ->
            LET h == Len(pat.head.pats) IN
            /\ IsArray(v) /\ h <= Len(Of(v))
            /\ All(pat.head.pats, SubSeq(Of(v), 1, h))
            /\ Instance(pat.mid, AryValue(SubSeq(Of(v), h + 1, Len(Of(v)))), b)

RECURSIVE Parts(_)
Parts(v) ==   \* what a variable of a pattern may stand for
  {v} \cup (IF IsArray(v)
             THEN UNION {Parts(x) : x \in ToSet(Of(v))}
                    \cup {AryValue(SubSeq(Of(v), i, Len(Of(v)))) : i \in 1..(Len(Of(v)) + 1)}
             ELSE {})
\* A clause's body is the array of its number and its variables.
Given(clause) == clause.body.nodes[1].items
Variables(clause) == [i \in 1..(Len(Given(clause)) - 1) |-> Given(clause)[i + 1].name]
Holding(cond, b) ==
  LET d == Means(cond, Begin(b, {})) IN cond = NoNode \/ (d.end = "value" /\ d.v = BoolValue(TRUE))
Results(clause, x) ==
  {AryValue(<<IntValue(Given(clause)[1].n)>> \o [i \in DOMAIN Variables(clause) |-> b[Variables(clause)[i]]]) :
     b \in {b \in [ToSet(Variables(clause)) -> Parts(x)] :
             /\ Instance(clause.pat.pats[1], x, b)
             /\ Holding(clause.cond, b)}}
Accepting(clauses, x) == {k \in DOMAIN clauses : Results(clauses[k], x) # {}}
FirstMatch ==
  prog.about = "patterns" /\ ~m.aborted /\ Started =>
    LET clauses == prog.fns[1].clauses
        st == m.streams[prog.first]
        matched == SelectSeq(st.fed, LAMBDA x : Accepting(clauses, x) # {})
        First(x) == CHOOSE k \in Accepting(clauses, x) : \A j \in Accepting(clauses, x) : k <= j
    IN /\ Len(st.out) = Len(matched)
       /\ \A i \in DOMAIN matched : st.out[i] \in Results(clauses[First(matched[i])], matched[i])

(***************************************************************************)
(* A function is looked up in the class of its first argument, then among  *)
(* its fields, then in the program (exec.c, exec_call).  A class of the    *)
(* program is enclosed by it, so that for its objects the program comes    *)
(* before the fields.  In these programs f gives 1 in the class A and 3 in *)
(* the program, g is but a field, and the stage gives [x.f, x.g].          *)
(***************************************************************************)
ClassA == <<65>>
NameF == <<102>>
NameG == <<103>>
Fields(x, name) == IF IsArray(x) THEN {Of(x)[i] : i \in {i \in DOMAIN Headers(x) : Headers(x)[i] = name}} ELSE {}
MethodF(x) ==
  CASE ValueNs(x) = ClassA -> IntValue(1)
    [] ValueNs(x) = NsArray /\ Fields(x, NameF) # {} -> CHOOSE v \in Fields(x, NameF) : TRUE
    [] OTHER -> IntValue(3)
ClassPromise ==
  prog.about = "classes" /\ ~m.aborted /\ Started =>
    LET st == m.streams[prog.first]
        known == SelectSeq(st.fed, LAMBDA x : Fields(x, NameG) # {})
    IN st.out = [k \in DOMAIN known |->
                   AryValue(<<MethodF(known[k]), CHOOSE v \in Fields(known[k], NameG) : TRUE>>)]

(***************************************************************************)
(* split and chars (string.c) and the escapes of literals (node.c) lose    *)
(* nothing: the pieces and the separator make the text again, no piece     *)
(* holds a separator but the last one at its very end, a character is a    *)
(* byte or a sequence of UTF-8, and a text written with escapes is the     *)
(* text that was meant.                                                    *)
(***************************************************************************)
Texts(ary) == [i \in DOMAIN Of(ary) |-> Of(Of(ary)[i])]
Joined(ts, sep) == FoldLeft(LAMBDA a, t : a \o sep \o t, Head(ts), Tail(ts))
Holds(t, sep) == \E i \in 1..(Len(t) - Len(sep) + 1) : SubSeq(t, i, i + Len(sep) - 1) = sep
Character(t) ==
  \/ Len(t) = 1
  \/ Len(t) > 1 /\ LeadLength(t[1]) = Len(t) /\ \A i \in 2..Len(t) : t[i] \in 128..191
TextPromise ==
  prog.about \in {"split", "chars", "literal"} /\ Started =>
    LET st == m.streams[prog.first] IN
    /\ ~m.aborted /\ Len(st.out) = Len(st.fed)
    /\ \A k \in DOMAIN st.fed :
         LET text == Of(st.fed[k]) IN
         CASE prog.about = "split" ->
                LET ts == Texts(st.out[k]) IN
                /\ Joined(ts, prog.sep) = text
                /\ \A i \in 1..(Len(ts) - 1) : ~Holds(ts[i], prog.sep)
                /\ ~Holds(SubSeq(Last(ts), 1, Len(Last(ts)) - 1), prog.sep)
           [] prog.about = "chars" ->
                FlattenSeq(Texts(st.out[k])) = text /\ \A t \in ToSet(Texts(st.out[k])) : Character(t)
           [] prog.about = "literal" -> st.out[k] = Str(prog.meant)

(***************************************************************************)
(* examples/04emit.strm: map{x-> emit x, x} repeats every element twice.   *)
(* It does so three times: emit leaves the last value behind as the value  *)
(* of the function, and map passes that on.                                *)
(***************************************************************************)
RepeatsTwice ==
  prog.about = "emit" /\ Started =>
    LET st == m.streams[prog.first] IN st.out = FlattenSeq([k \in DOMAIN st.fed |-> <<st.fed[k], st.fed[k]>>])
=============================================================================
