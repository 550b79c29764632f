----------------------------- MODULE Interpreter -----------------------------
(***************************************************************************)
(* exec.c: the evaluation of a program's syntax tree.  A node is a record  *)
(* whose field t is its type.  What the interpreter adds to the machine of *)
(* Environments:                                                           *)
(*   r        what the last C function returned: "OK" or "NG"              *)
(*   val      the value at the address it was given for its result         *)
(*   exc      strm->exc of the stream for which code runs, or NoExc        *)
(*   out      what that stream has emitted                                 *)
(*   streams  the streams made so far: [kind, of, exc, fed, out]           *)
(*   links    the connections: [src, dst, taken], taken being how much of  *)
(*            what src has emitted dst need not or has no longer to process *)
(*   aborted  an assertion or a signal has ended the program               *)
(* A function object is PtrValue("lambda", [body, scope]).                 *)
(***************************************************************************)
EXTENDS Primitives, Environments, Syntax

NoExc == [type |-> "none", arg |-> Nil]
SetExc(M, type, arg) == Ng([M EXCEPT !.exc = [type |-> type, arg |-> arg]])
Error(M) == SetExc(M, "runtime", Nil)     \* strm_raise; the message is left out
Result(M, v) == Ok([M EXCEPT !.val = v])

\* A C function of the library is called.
Returned(M, c) ==
  CASE c.ret = "OK" -> Result(M, c.v)
    [] c.ret = "ABORT" -> Ng([M EXCEPT !.aborted = TRUE])
    [] OTHER -> IF c.exc THEN Error(M) ELSE Ng(M)

\* strm_emit: nil is not passed on.
EmitOne(M, v) == IF IsNil(v) THEN M ELSE [M EXCEPT !.out = Append(@, v)]

RECURSIVE Expr(_, _, _), Nodes(_, _, _), Items(_, _, _), Funcall(_, _, _), Clauses(_, _, _, _, _),
          Pmatch(_, _, _, _), PatternMatch(_, _, _, _), AllMatch(_, _, _, _), PmatchStruct(_, _, _, _)

\* An expression whose value goes to a new variable.
Fresh(np, s, M) == Expr(np, s, [M EXCEPT !.val = Garbage])

-----------------------------------------------------------------------------
(* Arrays as functions, and streams. *)

Headers(ary) == IF Len(ary) = 4 THEN ary[4] ELSE <<>>
NamedAry(vals, ns, headers) ==
  IF headers = <<>> /\ ns = NsArray THEN AryValue(vals) ELSE <<"ary", vals, ns, headers>>

\* A negative index is not refused: what lies before the array is read.
AryGet(M, ary, args) ==
  LET idx == args[1]
      has == IF IsString(idx) THEN {i \in DOMAIN Headers(ary) : Headers(ary)[i] = Of(idx)} ELSE {}
  IN CASE Len(args) # 1 -> Error(M)
       [] Len(args) = 1 /\ IsNumber(idx) ->
            IF Of(idx) >= Len(Of(ary)) THEN Ng(M)
            ELSE IF Of(idx) < 0 THEN Result(M, Garbage)
            ELSE Result(M, Of(ary)[Of(idx) + 1])
       [] Len(args) = 1 /\ ~IsNumber(idx) ->
            IF has = {} THEN Ng(M) ELSE Result(M, Of(ary)[CHOOSE i \in has : \A j \in has : i <= j])

StreamOf(id) == PtrValue("stream", id)
NewStream(kind, of) == [kind |-> kind, of |-> of, exc |-> NoExc, fed |-> <<>>, out |-> <<>>]
ModeOf(kind) ==
  CASE kind \in {"array", "read", "source"} -> "producer" [] kind = "write" -> "consumer" [] OTHER -> "filter"

\* The stream of an operand of |: [M, v].  An io has one stream for each direction.
Operand(M, v, side) ==
  LET Make(kind, of) ==
        [M |-> [M EXCEPT !.streams = Append(@, NewStream(kind, of))], v |-> StreamOf(Len(M.streams) + 1)]
      kind == IF side = "src" THEN "read" ELSE "write"
      same == {i \in DOMAIN M.streams : M.streams[i].kind = kind /\ M.streams[i].of = v}
  IN CASE v[1] = "io" -> IF same # {} THEN [M |-> M, v |-> StreamOf(CHOOSE i \in same : TRUE)] ELSE Make(kind, v)
       [] v[1] = "lambda" -> Make("block", v)
       [] IsArray(v) /\ side = "src" -> Make("array", v)
       [] IsCfunc(v) /\ side = "dst" -> Make("cfunc", v)
       [] OTHER -> [M |-> M, v |-> v]

Linked(a, b) ==
  LET Mode(v) == ModeOf(b.M.streams[Of(v)].kind)
  IN CASE ~(a.v[1] = "stream" /\ b.v[1] = "stream") -> Ng(b.M)
       [] OTHER ->
            IF Mode(a.v) = "consumer" \/ Mode(b.v) = "producer"
              THEN Error(b.M)
              ELSE Result([b.M EXCEPT !.links = Append(@, [src |-> Of(a.v), dst |-> Of(b.v),
                                                           taken |-> Len(b.M.streams[Of(a.v)].out)])], b.v)
Connect(M, src, dst) ==
  LET a == Operand(M, src, "src") IN Linked(a, Operand(a.M, dst, "dst"))

-----------------------------------------------------------------------------
(* Patterns.  Their variables are set in the scope s of the clause. *)

Placeholder == <<95>>

Pmatch(pat, s, val, M) ==
  LET If(c) == IF c THEN Ok(M) ELSE Ng(M) IN
  CASE pat.t = "IDENT" -> IF pat.name = Placeholder THEN Ok(M) ELSE VarMatch(M, s, pat.name, val)
    [] pat.t = "STR" -> If(IsString(val) /\ Of(val) = pat.s)
    [] pat.t \in {"INT", "FLOAT"} -> If(IsNumber(val) /\ Of(val) = pat.n)
    [] pat.t = "NIL" -> If(IsNil(val))
    [] pat.t = "BOOL" ->
         IF TruthAborts(val) THEN Ng([M EXCEPT !.aborted = TRUE]) ELSE If(Truth(val) = pat.b)
    [] pat.t = "NS" ->
         IF NsGet(M, pat.name) # NsGet(M, ValueNs(val)) THEN Ng(M) ELSE Pmatch(pat.body, s, val, M)
    [] pat.t = "PARRAY" -> IF IsArray(val) THEN PatternMatch(pat, s, Of(val), M) ELSE Ng(M)
    [] pat.t = "PSTRUCT" -> IF IsArray(val) THEN PmatchStruct(pat, s, val, M) ELSE Ng(M)
    [] pat.t = "PSPLAT" ->
         CASE ~IsArray(val) -> Ng(M)
           [] IsArray(val) /\ pat.head.t = "PSTRUCT" ->
                LET N == PmatchStruct(pat.head, s, val, M)
                    rest == SelectSeq([i \in DOMAIN Of(val) |-> i],
                                      LAMBDA i : \A k \in DOMAIN pat.head.pats : pat.head.pats[k].key # Headers(val)[i])
                IN IF N.r = "NG" THEN N
                   ELSE Pmatch(pat.mid, s, <<"ary", [k \in DOMAIN rest |-> Of(val)[rest[k]]], NsArray,
                                             [k \in DOMAIN rest |-> Headers(val)[rest[k]]]>>, N)
           [] OTHER -> PatternMatch(pat, s, Of(val), M)

(***************************************************************************)
(* Every key of the pattern must be a header.  The code does not test the  *)
(* end of the headers when it looks for a key: patterns with a key that is *)
(* missing are left out.                                                   *)
(***************************************************************************)
PmatchStruct(pat, s, val, M) ==
  LET h == Headers(val)
      At(key) == CHOOSE i \in DOMAIN h : h[i] = key
      keys == [k \in DOMAIN pat.pats |-> pat.pats[k].key]
  IN IF h = <<>> \/ Len(keys) > Len(Of(val)) THEN Ng(M)
     ELSE AllMatch([k \in DOMAIN keys |-> pat.pats[k].value], s, [k \in DOMAIN keys |-> Of(val)[At(keys[k])]], M)

AllMatch(pats, s, vals, M) ==
  IF pats = <<>> THEN Ok(M)
  ELSE LET N == Pmatch(Head(pats), s, Head(vals), M) IN
       IF N.r = "NG" THEN N ELSE AllMatch(Tail(pats), s, Tail(vals), N)

PatLen(pat) == IF pat = NoPattern THEN 0 ELSE Len(pat.pats)

\* A tail after a splat never matches: the splat's own pattern is taken for a
\* list of patterns, with an address as its length.
PatternMatch(pat, s, args, M) ==
  CASE pat.t = "NONE" -> Ok(M)
    [] pat.t = "PSPLAT" ->
         LET h == PatLen(pat.head)
             N == IF h = 0 THEN Ok(M) ELSE PatternMatch(pat.head, s, SubSeq(args, 1, h), M)
         IN IF Len(args) < h THEN Ng(M)
            ELSE IF N.r = "NG" \/ pat.tail # NoPattern THEN Ng(N)
            ELSE Pmatch(pat.mid, s, AryValue(SubSeq(args, h + 1, Len(args))), N)
    [] OTHER -> IF Len(pat.pats) # Len(args) THEN Ng(M) ELSE AllMatch(pat.pats, s, args, M)

-----------------------------------------------------------------------------
(* Calls. *)

\* Parameters of a function: set one after the other.
RECURSIVE SetArgs(_, _, _, _)
SetArgs(M, s, names, args) ==
  IF names = <<>> THEN Ok(M)
  ELSE LET N == VarSet(M, s, Head(names), Head(args)) IN
       IF N.r = "NG" THEN N ELSE SetArgs(N, s, Tail(names), Tail(args))

\* Mutant: what a clause that did not match has bound stays bound.
KeepBound(M, s) == M

\* c.env = NULL: the clause that comes next begins without variables.
Unbind(M, s) == [M EXCEPT !.scopes[s].env = NoEnv]

(***************************************************************************)
(* The first clause whose pattern and guard accept the arguments.  A guard *)
(* that fails is a guard that does not hold, but its error stays in exc.   *)
(***************************************************************************)
Guard(cond, s, N) ==   \* N: after the pattern
  CASE N.r = "NG" -> N
    [] N.r = "OK" /\ cond.t = "NONE" -> Result(N, BoolValue(TRUE))
    [] OTHER -> Fresh(cond, s, N)
Chosen(clauses, s, args, val, G) ==   \* G: after the guard of the first of them
  LET B == IF G.r = "OK" /\ TruthAborts(G.val) THEN [G EXCEPT !.aborted = TRUE] ELSE G IN
  IF B.r = "OK" /\ Truth(B.val)
    THEN Expr(Head(clauses).body, s, [B EXCEPT !.val = val])
    ELSE Clauses(Tail(clauses), s, args, val, Unbind(B, s))
Clauses(clauses, s, args, val, M) ==
  IF clauses = <<>> THEN Error(M)                                    \* match failure
  ELSE Chosen(clauses, s, args, val,
              Guard(Head(clauses).cond, s, PatternMatch(Head(clauses).pat, s, args, M)))

\* A return ends the call; its mark in exc stays.
Caught(M) == IF M.r = "NG" /\ M.exc.type = "return" THEN Result(M, M.exc.arg) ELSE M

LambdaCall(M, f, args) ==
  LET body == Of(f).body
      N == NewScope(M, NoEnv, Of(f).scope)
      s == LastScope(N)
      A == SetArgs(N, s, body.args, args)
  IN CASE body.t = "PLAMBDA" -> Caught(Clauses(body.clauses, s, args, M.val, N))
       [] body.t = "LAMBDA" /\ Len(body.args) # Len(args) -> Error(M)
       [] OTHER -> IF A.r = "NG" THEN A ELSE Caught(Expr(body.body, s, [A EXCEPT !.val = M.val]))

\* Mutant: the variable of that name comes before the namespace of the argument.
CallVariable(M, s, name, args) ==
  LET V == VarGet(M, s, name)
      N == VarGet(M, IF args = <<>> THEN NoScope ELSE NsGet(M, ValueNs(args[1])), name)
  IN CASE V.r = "OK" -> Funcall([V EXCEPT !.val = M.val], V.val, args)
       [] V.r = "NG" /\ N.r = "OK" -> Funcall([N EXCEPT !.val = M.val], N.val, args)
       [] OTHER -> Error(M)

(***************************************************************************)
(* exec_call: the function of that name in the namespace of the first      *)
(* argument; or the field of that name, if that is an array with headers;  *)
(* or the variable of that name.                                           *)
(***************************************************************************)
ExecCall(M, s, name, args) ==
  LET ns == IF args = <<>> THEN NoScope ELSE NsGet(M, ValueNs(args[1]))
      N == VarGet(M, ns, name)
      F == IF IsArray(args[1]) THEN AryGet(M, args[1], <<Str(name)>>) ELSE Ng(M)
      field == ns # NoScope /\ N.r = "NG" /\ F.r = "OK"
      W == IF ns # NoScope /\ N.r = "OK" THEN N ELSE IF field THEN F ELSE VarGet(M, s, name)
  IN CASE field /\ Len(args) = 1 -> F
       [] W.r = "NG" -> Error(M)
       [] OTHER -> Funcall([W EXCEPT !.val = M.val], W.val, args)

CfuncExec(M, name, args) ==
  CASE name = "exec_eq" -> IF Len(args) # 2 THEN Error(M) ELSE Result(M, BoolValue(ValueEq(args[1], args[2])))
    [] name = "exec_neq" -> IF Len(args) # 2 THEN Error(M) ELSE Result(M, BoolValue(~ValueEq(args[1], args[2])))
    [] name = "exec_bar" -> IF Len(args) # 2 THEN Error(M) ELSE Connect(M, args[1], args[2])
    [] name = "exec_match" ->
         LET f == args[Len(args)] IN
         IF Len(args) < 2 \/ (f[1] = "lambda" /\ Of(f).body.t = "LAMBDA")
           THEN Error(M)
           ELSE Funcall(M, f, SubSeq(args, 1, Len(args) - 1))
    [] name = "exec_map" ->
         IF Len(args) # 1 THEN Error(M)
         ELSE Result([M EXCEPT !.streams = Append(@, NewStream("map", args[1]))], StreamOf(Len(M.streams) + 1))
    [] name = "num_plus" -> Returned(M, NumPlus(args))
    [] name = "num_minus" -> Returned(M, NumMinus(args))
    [] name = "num_mult" -> Returned(M, NumMult(args))
    [] name = "num_div" -> Returned(M, NumDiv(args))
    [] name = "num_mod" -> Returned(M, NumMod(args))
    [] name = "num_gt" -> Returned(M, NumGt(args))
    [] name = "num_ge" -> Returned(M, NumGe(args))
    [] name = "num_lt" -> Returned(M, NumLt(args))
    [] name = "num_le" -> Returned(M, NumLe(args))
    [] name = "str_length" -> Returned(M, StrLength(args))
    [] name = "str_split" -> Returned(M, StrSplit(args))
    [] name = "str_plus" -> Returned(M, StrPlus(args))
    [] name = "str_chars" -> Returned(M, StrChars(args))

Funcall(M, f, args) ==
  CASE IsCfunc(f) -> CfuncExec(M, Of(f), args)
    [] IsArray(f) -> AryGet(M, f, args)
    [] f[1] = "genfunc" -> ExecCall(M, Of(f).scope, Of(f).id, args)
    [] f[1] = "lambda" -> LambdaCall(M, f, args)
    [] OTHER -> Error(M)                                             \* not a function

-----------------------------------------------------------------------------
(* Expressions and statements: Exec... for each type of node. *)

\* The values of nodes, each evaluated into a place of its own: [M, vals].
FirstItem(nodes, s, H) ==   \* H: after the first of them
  CASE H.r = "NG" -> [M |-> H, vals |-> <<>>]
    [] H.r = "OK" /\ Head(nodes).t = "SPLAT" /\ ~IsArray(H.val) -> [M |-> Error(H), vals |-> <<>>]
    [] OTHER -> [Items(Tail(nodes), s, H) EXCEPT !.vals = <<H.val>> \o @]
Items(nodes, s, M) ==
  IF nodes = <<>> THEN [M |-> Ok(M), vals |-> <<>>]
  ELSE LET n == Head(nodes) IN FirstItem(nodes, s, Fresh(IF n.t = "SPLAT" THEN n.node ELSE n, s, M))

\* Arrays after a * are put in only if that makes the array longer.
Spliced(nodes, vals) ==
  LET flat == FlattenSeq([i \in DOMAIN vals |-> IF nodes[i].t = "SPLAT" THEN Of(vals[i]) ELSE <<vals[i]>>]) IN
  IF Len(flat) > Len(vals) THEN flat ELSE vals

HasSplat(nodes) == \E i \in DOMAIN nodes : nodes[i].t = "SPLAT"

ArrayOf(np, I) ==
  LET vals == IF HasSplat(np.items) THEN Spliced(np.items, I.vals) ELSE I.vals
      ns == NsGet(I.M, np.ns)
  IN CASE I.M.r = "NG" -> I.M
       [] I.M.r = "OK" /\ HasSplat(np.items) /\ np.headers # <<>> -> Error(I.M)
       [] I.M.r = "OK" /\ np.ns # NsArray /\ ~I.M.scopes[ns].udef -> Error(I.M)
       [] OTHER -> Result(I.M, NamedAry(vals, np.ns, np.headers))
ExecArray(np, s, M) == ArrayOf(np, Items(np.items, s, M))

\* The arguments of a call; with a * among them they are an array.
ExecArgs(args, s, M) ==
  IF HasSplat(args.items)
    THEN LET A == ExecArray(args, s, M) IN
         [M |-> A, vals |-> IF A.r = "OK" THEN Of(A.val) ELSE <<>>]
    ELSE Items(args.items, s, M)

ExecNs(np, s, M) ==
  LET N == NsCreate(M, s, np.name)
      n == NsGet(N, np.name)
      U == [N EXCEPT !.scopes[n].udef = TRUE]
  IN Expr(np.body, n, U)

ExecImport(np, s, M) ==
  IF NsGet(M, np.name) = NoScope
    THEN Error(M)
    ELSE LET C == EnvCopy(M, s, NsGet(M, np.name)) IN IF C.r = "NG" THEN Error(C) ELSE C

\* Each value is emitted before the next is computed; the last one stays.
RECURSIVE ExecEmit(_, _, _)
ExecEmit(nodes, s, M) ==
  IF nodes = <<>> THEN Ok(M)
  ELSE LET H == Expr(Head(nodes), s, M) IN
       IF H.r = "NG" THEN H ELSE ExecEmit(Tail(nodes), s, EmitOne(H, H.val))

ExecLet(np, s, M) ==
  LET R == Expr(np.rhs, s, M) IN
  IF R.r = "NG" THEN Error(R) ELSE VarSet(R, s, np.lhs, R.val)

ExecIdent(np, s, M) == LET V == VarGet(M, s, np.name) IN IF V.r = "NG" THEN Error(V) ELSE V

\* Only the value true takes the first branch.
ExecIf(np, s, M) ==
  LET C == Fresh(np.cond, s, M)
      W == [C EXCEPT !.val = M.val]
  IN CASE C.r = "NG" -> C
       [] C.r = "OK" /\ C.val = BoolValue(TRUE) -> Expr(np.then, s, W)
       [] C.r = "OK" /\ C.val # BoolValue(TRUE) /\ np.else.t # "NONE" -> Expr(np.else, s, W)
       [] OTHER -> Result(W, Nil)

\* Mutant: a function object remembers the scope around the one it is made in.
LambdaOutside(np, s, M) ==
  LET N == NewScope(M, NoEnv, M.scopes[s].prev) IN
  Result(N, PtrValue("lambda", [body |-> np, scope |-> LastScope(N)]))

\* A function object remembers a copy of the scope it is made in: a scope that
\* has no environment yet will not share the one it gets later.
ExecLambda(np, s, M) ==
  LET N == NewScope(M, M.scopes[s].env, M.scopes[s].prev) IN
  Result(N, PtrValue("lambda", [body |-> np, scope |-> LastScope(N)]))

CallNamed(name, s, I, val) ==   \* val: what M.val was
  IF I.M.r = "NG" THEN I.M ELSE ExecCall([I.M EXCEPT !.val = val], s, name, I.vals)
ExecNamed(name, args, s, M) == CallNamed(name, s, ExecArgs(args, s, M), M.val)

CallValue(f, I, val) == IF I.M.r = "NG" THEN I.M ELSE Funcall([I.M EXCEPT !.val = val], f, I.vals)
CallResult(args, s, F, val) == IF F.r = "NG" THEN F ELSE CallValue(F.val, ExecArgs(args, s, F), val)
ExecFcall(np, s, M) == CallResult(np.args, s, Fresh(np.func, s, M), M.val)

Return(I) ==
  LET arg == CASE Len(I.vals) = 0 -> Nil [] Len(I.vals) = 1 -> I.vals[1] [] OTHER -> AryValue(I.vals)
  IN IF I.M.r = "NG" THEN I.M ELSE SetExc(I.M, "return", arg)
ExecReturn(np, s, M) == Return(Items(np.rv, s, M))

Nodes(nodes, s, M) ==
  IF nodes = <<>> THEN Ok(M)
  ELSE LET H == Expr(Head(nodes), s, M) IN IF H.r = "NG" THEN H ELSE Nodes(Tail(nodes), s, H)

Expr(np, s, M) ==
  CASE np.t = "NONE" -> Ng(M)                          \* a NULL pointer
    [] np.t = "NS" -> ExecNs(np, s, M)
    [] np.t = "IMPORT" -> ExecImport(np, s, M)
    [] np.t = "SKIP" -> SetExc(M, "skip", Nil)
    [] np.t = "EMIT" -> ExecEmit(np.emit, s, M)
    [] np.t = "LET" -> ExecLet(np, s, M)
    [] np.t = "ARRAY" -> ExecArray(np, s, M)
    [] np.t = "IDENT" -> ExecIdent(np, s, M)
    [] np.t = "IF" -> ExecIf(np, s, M)
    [] np.t \in {"OP", "CALL"} -> ExecNamed(np.name, np.args, s, M)
    [] np.t \in {"LAMBDA", "PLAMBDA"} -> ExecLambda(np, s, M)
    [] np.t = "FCALL" -> ExecFcall(np, s, M)
    [] np.t = "GENFUNC" -> Result(M, PtrValue("genfunc", [scope |-> s, id |-> np.id]))
    [] np.t = "RETURN" -> ExecReturn(np, s, M)
    [] np.t = "NODES" -> Nodes(np.nodes, s, M)
    [] np.t = "INT" -> Result(M, IntValue(np.n))
    [] np.t = "FLOAT" -> Result(M, FloatValue(np.n))
    [] np.t = "BOOL" -> Result(M, BoolValue(np.b))
    [] np.t = "NIL" -> Result(M, Nil)
    [] np.t = "STR" -> Result(M, Str(np.s))
    [] OTHER -> Error(M)                               \* unknown node

-----------------------------------------------------------------------------
(* Functions in a pipeline.  M.exc and M.out are those of the stream. *)

(***************************************************************************)
(* blk_exec.  An error or a skip stays in exc: from then on the value of   *)
(* an element is dropped, unless the function returns, which takes the     *)
(* place of what is in exc.  A case function is taken for a function: its  *)
(* first clause's pattern for the parameters and its guard for the body.   *)
(***************************************************************************)
Executed(E) ==
  CASE E.exc.type = "return" -> EmitOne([E EXCEPT !.exc = NoExc], E.exc.arg)
    [] E.exc.type \in {"skip", "runtime"} -> Ng(E)
    [] OTHER -> IF E.r = "NG" THEN E ELSE EmitOne(E, E.val)
BlkExec(M, f, x) ==
  LET body == Of(f).body
      N == NewScope(M, NoEnv, Of(f).scope)
      s == LastScope(N)
      case == body.t = "PLAMBDA"
      arity == IF case THEN PatLen(body.clauses[1].pat) ELSE Len(body.args)
      A == IF ~case /\ arity = 1 THEN VarSet(N, s, body.args[1], x) ELSE N
  IN IF arity > 1 THEN Ng([M EXCEPT !.aborted = TRUE])
     ELSE Executed(Expr(IF case THEN body.clauses[1].cond ELSE body.body, s, [A EXCEPT !.val = Nil]))

\* One element of an array that is a source.  n: how many have been emitted.
ArrExec(M, ary, n) == EmitOne(M, Of(ary)[n + 1])

CfuncStage(M, f, x) ==
  LET C == CfuncExec([M EXCEPT !.val = Garbage], Of(f), <<x>>) IN
  IF C.r = "OK" THEN EmitOne(C, C.val) ELSE C

\* Mutant: the value of a function that has failed is passed on.
MapUnchecked(M, f, x) == LET F == Funcall([M EXCEPT !.val = Garbage], f, <<x>>) IN EmitOne(F, F.val)

\* map (iter.c): what a function returns for an element.
MapStage(M, f, x) ==
  LET F == Funcall([M EXCEPT !.val = Garbage], f, <<x>>) IN
  IF F.r = "OK" THEN EmitOne(F, F.val) ELSE F
=============================================================================
