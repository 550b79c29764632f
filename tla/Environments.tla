---------------------------- MODULE Environments ----------------------------
(***************************************************************************)
(* Variables, scopes and namespaces (env.c, ns.c).                         *)
(*                                                                         *)
(* The state of a running program is a record M, the machine:              *)
(*   envs     the environments (hash tables from names to values)          *)
(*   scopes   the strm_states: [env, prev, udef]; env is NoEnv (NULL)      *)
(*            until a variable is set, prev the enclosing scope or NoScope *)
(*   globals  the environment of the variables that no scope has           *)
(*   ns       the namespaces: from names to scopes                         *)
(* and what the interpreter adds (module Interpreter).  Environments and   *)
(* scopes are numbered in the order in which they are made; a scope that   *)
(* lived on the stack keeps its number, which nobody uses any more.        *)
(***************************************************************************)
LOCAL INSTANCE Integers
LOCAL INSTANCE Sequences
LOCAL INSTANCE Values

NoEnv == 0
NoScope == 0
Top == 1         \* top_state

Bind(f, name, v) == [x \in DOMAIN f \cup {name} |-> IF x = name THEN v ELSE f[x]]

\* r: what a C function returns.
Ok(M) == [M EXCEPT !.r = "OK"]
Ng(M) == [M EXCEPT !.r = "NG"]

NewScope(M, env, prev) ==
  [M EXCEPT !.scopes = Append(@, [env |-> env, prev |-> prev, udef |-> FALSE])]
LastScope(M) == Len(M.scopes)

-----------------------------------------------------------------------------
\* Mutant: a variable that is set again is overwritten.
Overwrite(M, e, name, v) == Ok([M EXCEPT !.envs[e] = Bind(@, name, v)])

\* A name that is present is not set again.
EnvSet(M, e, name, v) ==
  IF name \in DOMAIN M.envs[e] THEN Ng(M) ELSE Ok([M EXCEPT !.envs[e] = Bind(@, name, v)])

\* The environment of a scope is made when it is needed.
WithEnv(M, s) ==
  IF M.scopes[s].env # NoEnv
    THEN M
    ELSE [M EXCEPT !.envs = Append(@, <<>>), !.scopes[s].env = Len(M.envs) + 1]

\* Mutant: a variable is set where the enclosing function has its own.
SetOutside(M, s, name, v) ==
  LET p == M.scopes[s].prev
      t == IF p > Top /\ M.scopes[p].env # NoEnv THEN p ELSE s
      W == WithEnv(M, t)
  IN EnvSet(W, W.scopes[t].env, name, v)

VarSet(M, s, name, v) == LET W == WithEnv(M, s) IN EnvSet(W, W.scopes[s].env, name, v)

\* The scopes in which a name is looked up, from the inside out.
RECURSIVE Chain(_, _)
Chain(M, s) == IF s = NoScope THEN <<>> ELSE <<s>> \o Chain(M, M.scopes[s].prev)

EnvOf(M, s) == IF M.scopes[s].env = NoEnv THEN <<>> ELSE M.envs[M.scopes[s].env]

\* Garbage: a variable of the C program that has not been written.
Garbage == <<"garbage", 0>>

VarGet(M, s, name) ==
  LET chain == Chain(M, s)
      has == {i \in DOMAIN chain : name \in DOMAIN EnvOf(M, chain[i])}
      first == CHOOSE i \in has : \A j \in has : i <= j
  IN CASE has # {} -> Ok([M EXCEPT !.val = EnvOf(M, chain[first])[name]])
       [] has = {} /\ name \in DOMAIN M.globals -> Ok([M EXCEPT !.val = M.globals[name]])
       [] OTHER -> Ng(M)

\* A variable of a pattern: bound once, compared from then on.
VarMatch(M, s, name, v) ==
  IF name \in DOMAIN EnvOf(M, s)
    THEN IF ValueEq(EnvOf(M, s)[name], v) THEN Ok(M) ELSE Ng(M)
    ELSE VarSet(M, s, name, v)

(***************************************************************************)
(* strm_env_copy.  If the namespace has no environment the scope gets a    *)
(* new, empty one instead of its own: it forgets its variables.  A name    *)
(* that both have ends the copying; which others have been copied by then  *)
(* depends on the hash table (here: all).                                  *)
(***************************************************************************)
EnvCopy(M, s1, s2) ==
  LET W == WithEnv(M, s1)
      e1 == W.scopes[s1].env
      both == DOMAIN W.envs[e1] \cap DOMAIN EnvOf(M, s2)
      Copied == [x \in DOMAIN W.envs[e1] \cup DOMAIN EnvOf(M, s2) |->
                   IF x \in DOMAIN W.envs[e1] THEN W.envs[e1][x] ELSE EnvOf(M, s2)[x]]
  IN IF M.scopes[s2].env = NoEnv
       THEN Ok(WithEnv([W EXCEPT !.scopes[s1].env = NoEnv], s1))
       ELSE LET C == [W EXCEPT !.envs[e1] = Copied] IN IF both = {} THEN Ok(C) ELSE Ng(C)

-----------------------------------------------------------------------------
NsGet(M, name) == IF name \in DOMAIN M.ns THEN M.ns[name] ELSE NoScope

\* A namespace that exists is opened again, so that its error is never raised.
NsCreate(M, s, name) ==
  IF name \in DOMAIN M.ns
    THEN M
    ELSE LET N == NewScope(M, NoEnv, s) IN [N EXCEPT !.ns = Bind(@, name, LastScope(N))]
=============================================================================
