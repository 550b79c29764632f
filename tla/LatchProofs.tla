------------------------------ MODULE LatchProofs ------------------------------
(***************************************************************************)
(* Proofs about Latch: the types, and that one task, worker or waiting     *)
(* receiver at most can go on with zip or concat, for any calls, any       *)
(* lengths of the upstreams and any number of workers.                     *)
(***************************************************************************)
EXTENDS Latch, SequenceTheorems, TLAPS

Data == {Nil} \cup (Nat \X Nat)
Emittable == Data \cup Seq(Data)

\* The frames of the workers' stacks, while c is called.
Frame(c) ==
  [at : {"task"}, arg : Nat]
    \cup [at : {"kill", "drain", "receive", "wait", "finish"}, arg : DOMAIN c.counts]
    \cup [at : {"check"}, arg : {l \in DOMAIN c.counts : c.kind = "zip"}]
    \cup [at : {"close"}, arg : Nat]
    \cup [at : {"advance"}, arg : {n \in Nat : c.kind = "concat"}]
    \cup [at : {"iter"}, arg : Data] \cup [at : {"emit"}, arg : Emittable]
    \cup [at : {"heard"}, arg : Emittable \X {b \in BOOLEAN : b => c.kind = "zip"}]
    \cup [at : {"push", "queue"}, arg : (DOMAIN c.counts) \X Data]
    \cup [at : {"pushed"}, arg : (DOMAIN c.counts) \X Data \X BOOLEAN]

\* What a frame's place in its stack may be: nobody else's step lies under one
\* that hands the stream on, and the task under everything.
Touches(f) == InCallback(f) \/ f.at = "close"
HandsOn(f) ==
  \/ f.at \in {"receive", "wait", "iter", "check", "finish", "advance", "close"}
  \/ f.at = "pushed" /\ f.arg[3]
  \/ f.at = "heard" /\ f.arg[2]
Quiet(s) == \A k \in 1..Len(s) : ~Touches(s[k])
Lone(s) == Len(s) = 1 /\ s[1].at = "close"

Stack(c, s) ==
  /\ s \in Seq(Frame(c))
  /\ \A j, k \in 1..Len(s) : HandsOn(s[j]) /\ j < k => ~Touches(s[k])
  /\ s # <<>> => s[Len(s)].at = "task" \/ Lone(s)
  /\ \A k \in 1..Len(s) : s[k].at = "task" => k = Len(s)

-----------------------------------------------------------------------------
(* Stacks.                                                                 *)

LEMMA Kinds ==
  ASSUME NEW c, NEW f \in Frame(c)
  PROVE  /\ f = [at |-> f.at, arg |-> f.arg]
         /\ f.at = "task" => f.arg \in Nat
         /\ f.at \in {"kill", "drain", "receive", "wait", "check", "finish"} => f.arg \in DOMAIN c.counts
         /\ f.at = "advance" => c.kind = "concat"
         /\ f.at = "iter" => f.arg \in Data
         /\ f.at = "emit" => f.arg \in Emittable
         /\ f.at = "check" => c.kind = "zip"
         /\ f.at = "heard" => f.arg \in Emittable \X BOOLEAN /\ (f.arg[2] => c.kind = "zip")
         /\ f.at \in {"push", "queue"} => f.arg \in (DOMAIN c.counts) \X Data
         /\ f.at = "pushed" => f.arg \in (DOMAIN c.counts) \X Data \X BOOLEAN
<1>1. f.at = "task" => f.arg \in Nat
  BY DEF Frame
<1>2. f.at \in {"kill", "drain", "receive", "wait", "check", "finish"} => f.arg \in DOMAIN c.counts
  BY DEF Frame
<1>3. f.at = "advance" => c.kind = "concat"
  BY DEF Frame
<1>4. f.at = "check" => c.kind = "zip"
  BY DEF Frame
<1>5. (f.at = "iter" => f.arg \in Data) /\ (f.at = "emit" => f.arg \in Emittable)
  BY DEF Frame
<1>6. f.at = "heard" => f.arg \in Emittable \X BOOLEAN /\ (f.arg[2] => c.kind = "zip")
  BY DEF Frame
<1>7. f.at \in {"push", "queue"} => f.arg \in (DOMAIN c.counts) \X Data
  BY DEF Frame
<1>8. f.at = "pushed" => f.arg \in (DOMAIN c.counts) \X Data \X BOOLEAN
  BY DEF Frame
<1>9. f = [at |-> f.at, arg |-> f.arg]
  BY DEF Frame
<1> QED BY <1>1, <1>2, <1>3, <1>4, <1>5, <1>6, <1>7, <1>8, <1>9

LEMMA Popped ==
  ASSUME NEW c, NEW s, Stack(c, s), s # <<>>
  PROVE  /\ Stack(c, Tail(s)) /\ Head(s) \in Frame(c)
         /\ Quiet(s) => Quiet(Tail(s))
         /\ HandsOn(Head(s)) => Quiet(Tail(s))
         /\ ~Lone(Tail(s))
         /\ Head(s).at \notin {"task", "close"} => Tail(s) # <<>> /\ ~Lone(s)
         /\ Head(s).at = "task" => Tail(s) = <<>>
         /\ Touches(Head(s)) => ~Quiet(s)
<1> DEFINE r == Tail(s)
<1>1. /\ s \in Seq(Frame(c)) /\ Len(s) \in Nat \ {0} /\ Head(s) = s[1]
      /\ r \in Seq(Frame(c)) /\ Len(r) = Len(s) - 1
      /\ \A k \in 1..Len(r) : r[k] = s[k + 1]
  BY EmptySeq, HeadTailProperties DEF Stack
<1> HIDE DEF r
<1>2. Len(r) \in Nat /\ (r = <<>> <=> Len(r) = 0)
  BY <1>1, EmptySeq
<1>3. r # <<>> => r[Len(r)] = s[Len(s)] /\ s[Len(s)].at = "task"
  <2>1. r # <<>> => Len(r) \in 1..Len(r) /\ Len(s) = Len(r) + 1
    BY <1>1, <1>2
  <2>2. r # <<>> => r[Len(r)] = s[Len(s)]
    BY <1>1, <2>1
  <2>3. r # <<>> => ~Lone(s)
    BY <1>1, <1>2, <2>1 DEF Lone
  <2> QED BY <2>2, <2>3 DEF Stack
<1>4. ~Lone(r)
  BY <1>1, <1>2, <1>3 DEF Lone
<1>5. Stack(c, r)
  BY <1>1, <1>2, <1>3 DEF Stack
<1>6. Quiet(s) => Quiet(r)
  BY <1>1 DEF Quiet
<1>7. HandsOn(Head(s)) => Quiet(r)
  BY <1>1 DEF Quiet, Stack
<1>8. Head(s).at \notin {"task", "close"} => r # <<>> /\ ~Lone(s)
  BY <1>1, <1>2 DEF Lone, Stack
<1>9. Head(s).at = "task" => r = <<>>
  BY <1>1, <1>2 DEF Stack
<1>10. Touches(Head(s)) => ~Quiet(s)
  BY <1>1 DEF Quiet
<1>11. Head(s) \in Frame(c)
  BY <1>1
<1> QED BY <1>4, <1>5, <1>6, <1>7, <1>8, <1>9, <1>10, <1>11 DEF r

\* What may come in the place of the step that is done.
Steps(c, todo) ==
  /\ todo \in Seq(Frame(c)) /\ todo # <<>>
  /\ \A j, k \in 1..Len(todo) : HandsOn(todo[j]) /\ j < k => ~Touches(todo[k])
  /\ \A k \in 1..Len(todo) : todo[k].at # "task"

LEMMA PushedOn ==
  ASSUME NEW c, NEW s, Stack(c, s), s # <<>>, ~Lone(s), NEW todo, Steps(c, todo),
         Quiet(s) \/ \A k \in 1..Len(todo) : ~HandsOn(todo[k])
  PROVE  /\ Stack(c, todo \o s) /\ ~Lone(todo \o s)
         /\ Quiet(todo) /\ Quiet(s) => Quiet(todo \o s)
<1> DEFINE r == todo \o s
           m == Len(todo)
           n == Len(s)
<1>1. /\ s \in Seq(Frame(c)) /\ n \in Nat \ {0}
      /\ todo \in Seq(Frame(c)) /\ m \in Nat \ {0}
  BY EmptySeq DEF Stack, Steps
<1>2. /\ r \in Seq(Frame(c)) /\ Len(r) = m + n
      /\ \A k \in 1..(m + n) : r[k] = IF k <= m THEN todo[k] ELSE s[k - m]
  BY <1>1, ConcatProperties
<1> HIDE DEF r
<1>3. m \in Nat /\ n \in Nat /\ \A k \in 1..Len(r) :
        /\ k <= m => k \in 1..m /\ r[k] = todo[k]
        /\ k > m => k - m \in 1..n /\ r[k] = s[k - m]
  BY <1>1, <1>2
<1> HIDE DEF m, n
<1>4. ~Lone(r)
  BY <1>1, <1>2 DEF Lone, m, n
<1>5. r[Len(r)].at = "task"
  BY <1>1, <1>2 DEF Stack, n
<1>6. ASSUME NEW j \in 1..Len(r), NEW k \in 1..Len(r), HandsOn(r[j]), j < k
      PROVE  ~Touches(r[k])
  <2>1. CASE j <= m /\ k <= m
    BY <1>3, <1>6, <2>1 DEF Steps, m
  <2>2. CASE j <= m /\ k > m
    <3>1. HandsOn(todo[j])
      BY <1>3, <1>6, <2>2
    <3>2. Quiet(s)
      BY <1>3, <2>2, <3>1 DEF m
    <3> QED BY <1>3, <2>2, <3>2 DEF Quiet, n
  <2>3. CASE j > m /\ k > m
    <3>1. j - m \in 1..n /\ k - m \in 1..n /\ r[j] = s[j - m] /\ r[k] = s[k - m]
      BY <1>3, <2>3
    <3>2. j - m < k - m
      BY <1>1, <1>6
    <3> QED BY <1>6, <3>1, <3>2 DEF Stack, n
  <2> QED BY <1>1, <1>2, <1>3, <1>6, <2>1, <2>2, <2>3
<1>7. ASSUME NEW k \in 1..Len(r), r[k].at = "task" PROVE k = Len(r)
  <2>1. k > m
    BY <1>3, <1>7 DEF Steps, m
  <2>2. k - m \in 1..n /\ s[k - m].at = "task"
    BY <1>3, <1>7, <2>1
  <2>3. k - m = n
    BY <2>2 DEF Stack, n
  <2> QED BY <1>2, <1>3, <2>3
<1>8. Quiet(todo) /\ Quiet(s) => Quiet(r)
  BY <1>3 DEF Quiet, m, n
<1>9. Stack(c, r)
  BY <1>2, <1>5, <1>6, <1>7 DEF Stack
<1> QED BY <1>4, <1>8, <1>9 DEF r

LEMMA Empty == ASSUME NEW c PROVE Stack(c, <<>>) /\ Quiet(<<>>) /\ ~Lone(<<>>)
BY EmptySeq DEF Stack, Quiet, Lone

-----------------------------------------------------------------------------
(* The inductive invariant.                                                *)

Upstreams == Len(call.counts)

ZData == [i : Nat, a : Seq(Data), live : BOOLEAN, mode : {"producer", "dying", "killed"},
          dst : BOOLEAN, starts : Nat]

Typed ==
  /\ call \in Calls /\ linked \in 0..(Upstreams + 1)
  /\ given \in [Latches -> Nat] /\ \A l \in Latches : given[l] <= call.counts[l]
  /\ tasks \in [Latches -> Seq(Data)]
  /\ mode \in [Latches -> {"consumer", "killed"}]
  /\ dq \in [Latches -> Seq(Data)] /\ rq \in [Latches -> Nat]
  /\ z \in ZData
  /\ dst \in {"open", "killed"}

Stacks == /\ stack \in [Workers -> Seq(Frame(call))]
          /\ \A w \in Workers : Stack(call, stack[w])

\* A worker that closes the stream and nothing else has found it dying.
Dying == \A w \in Workers : z.mode = "dying" \/ Lone(stack[w]) => dst = "killed"

\* The one that may go on with the stream is c.
Busy(w) == ~Quiet(stack[w]) /\ ~Lone(stack[w])
Only(c) ==
  /\ z.starts = 0 \/ (z.starts = 1 /\ c = <<"start">>)
  /\ \A l \in Latches : rq[l] = 0 \/ (rq[l] = 1 /\ c = <<"receiver", l>>)
  /\ \A w \in Workers : Busy(w) => c = <<"worker", w>>
  /\ linked <= Upstreams => c = <<"unborn">>
  /\ dst = "open" /\ ~z.live => c = <<"dead">>

\* A latch is being asked for the datum that fills the array.
Asking(f) == f.at \in {"receive", "wait", "iter"} \/ (f.at = "pushed" /\ f.arg[3])
Asks(w) == \E k \in 1..Len(stack[w]) : Asking(stack[w][k])
Filling ==
  IF call.kind = "zip"
  THEN /\ z.i \in 1..(Upstreams + 1) /\ Len(z.a) = z.i - 1
       /\ (\E w \in Workers : Asks(w)) \/ (\E l \in Latches : rq[l] > 0) => z.i <= Upstreams
  ELSE /\ z.a = <<>> /\ z.i > 0
       /\ z.starts > 0 \/ linked <= Upstreams => z.i = 1

Inv == Typed /\ Stacks /\ Dying /\ Filling /\ \E c : Only(c)

-----------------------------------------------------------------------------
(* What a step does to the stack of its worker.                            *)

LEMMA Top ==
  ASSUME Stacks, NEW w \in Workers, NEW a, At(w, a)
  PROVE  /\ stack[w] # <<>> /\ Head(stack[w]) \in Frame(call)
         /\ Head(stack[w]) = [at |-> a, arg |-> Arg(w)]
         /\ Stack(call, stack[w]) /\ Stack(call, Tail(stack[w])) /\ ~Lone(Tail(stack[w]))
         /\ a \notin {"task", "close"} => Tail(stack[w]) # <<>> /\ ~Lone(stack[w])
<1>1. stack[w] # <<>> /\ Stack(call, stack[w]) /\ Head(stack[w]).at = a
  BY DEF Stacks, At
<1>2. Head(stack[w]) \in Frame(call)
  BY <1>1, Popped
<1>3. Head(stack[w]) = [at |-> a, arg |-> Arg(w)]
  BY <1>1, <1>2, Kinds DEF Arg
<1> QED BY <1>1, <1>2, <1>3, Popped

\* The argument of the step a worker is at.
LEMMA Argument ==
  ASSUME Stacks, NEW w \in Workers, NEW a, At(w, a)
  PROVE  /\ a = "task" => Arg(w) \in Nat
         /\ a \in {"kill", "drain", "receive", "wait", "check", "finish"} => Arg(w) \in Latches
         /\ a = "advance" => call.kind = "concat"
         /\ a = "iter" => Arg(w) \in Data
         /\ a = "emit" => Arg(w) \in Emittable
         /\ a = "check" => call.kind = "zip"
         /\ a = "heard" => Arg(w) \in Emittable \X BOOLEAN /\ (Arg(w)[2] => call.kind = "zip")
         /\ a \in {"push", "queue"} => Arg(w) \in Latches \X Data
         /\ a = "pushed" => Arg(w) \in Latches \X Data \X BOOLEAN
<1>1. Head(stack[w]) \in Frame(call)
  BY Top
<1>2. Head(stack[w]).at = a /\ Head(stack[w]).arg = Arg(w)
  BY DEF At, Arg
<1> HIDE DEF Arg
<1>3. a = "task" => Arg(w) \in Nat
  BY <1>1, <1>2, Kinds
<1>4. a \in {"kill", "drain", "receive", "wait", "check", "finish"} => Arg(w) \in Latches
  BY <1>1, <1>2, Kinds DEF Latches
<1>5. a = "advance" => call.kind = "concat"
  BY <1>1, <1>2, Kinds
<1>6. a = "iter" => Arg(w) \in Data
  BY <1>1, <1>2, Kinds
<1>7. a = "emit" => Arg(w) \in Emittable
  BY <1>1, <1>2, Kinds
<1>8. a = "heard" => Arg(w) \in Emittable \X BOOLEAN /\ (Arg(w)[2] => call.kind = "zip")
  BY <1>1, <1>2, Kinds
<1>9. a \in {"push", "queue"} => Arg(w) \in Latches \X Data
  BY <1>1, <1>2, Kinds DEF Latches
<1>10. a = "pushed" => Arg(w) \in Latches \X Data \X BOOLEAN
  BY <1>1, <1>2, Kinds DEF Latches
<1>11. a = "check" => call.kind = "zip"
  BY <1>1, <1>2, Kinds
<1> QED BY <1>3, <1>4, <1>5, <1>6, <1>7, <1>8, <1>9, <1>10, <1>11

LEMMA Changed ==
  ASSUME Stacks, call' = call, NEW w \in Workers, NEW s, Stack(call, s),
         stack' = [stack EXCEPT ![w] = s]
  PROVE  /\ Stacks' /\ stack'[w] = s
         /\ \A v \in Workers : v # w => /\ stack'[v] = stack[v]
                                       /\ Busy(v)' = Busy(v) /\ Asks(v)' = Asks(v)
<1>1. stack'[w] = s /\ \A v \in Workers : v # w => stack'[v] = stack[v]
  BY DEF Stacks
<1>2. s \in Seq(Frame(call))
  BY DEF Stack
<1>3. Stacks'
  BY <1>1, <1>2 DEF Stacks
<1> QED BY <1>1, <1>3 DEF Busy, Asks

\* The step is done.
LEMMA Removes ==
  ASSUME Stacks, call' = call, NEW w \in Workers, stack[w] # <<>>, Become(w, <<>>)
  PROVE  /\ Stacks' /\ stack'[w] = Tail(stack[w])
         /\ \A v \in Workers : v # w => /\ stack'[v] = stack[v]
                                       /\ Busy(v)' = Busy(v) /\ Asks(v)' = Asks(v)
         /\ Busy(w)' => Busy(w) /\ ~HandsOn(Head(stack[w]))
         /\ Asks(w)' => Asks(w)
<1> DEFINE t == Tail(stack[w])
<1>1. Stack(call, stack[w]) /\ Stack(call, t) /\ stack[w] \in Seq(Frame(call)) /\ t \in Seq(Frame(call))
  BY Popped DEF Stacks, Stack
<1>2. stack' = [stack EXCEPT ![w] = t]
  BY <1>1, ConcatEmptySeq DEF Become, Stacks
<1>3. /\ Stacks' /\ stack'[w] = t
      /\ \A v \in Workers : v # w => /\ stack'[v] = stack[v]
                                    /\ Busy(v)' = Busy(v) /\ Asks(v)' = Asks(v)
  <2> HIDE DEF t
  <2> QED BY <1>1, <1>2, Changed
<1>4. Quiet(stack[w]) => Quiet(t)
  BY <1>1, Popped
<1>5. HandsOn(Head(stack[w])) => Quiet(t)
  BY <1>1, Popped
<1>6. Lone(stack[w]) => Quiet(t)
  BY <1>1, HeadTailProperties DEF Lone, Quiet
<1>7. Asks(w)' => Asks(w)
  BY <1>1, <1>3, HeadTailProperties DEF Asks
<1> QED BY <1>3, <1>4, <1>5, <1>6, <1>7 DEF Busy

\* Others come in its place.
LEMMA Replaces ==
  ASSUME Stacks, call' = call, NEW w \in Workers, stack[w] # <<>>,
         Head(stack[w]).at \notin {"task", "close"},
         NEW todo, Steps(call, todo), Become(w, todo),
         HandsOn(Head(stack[w])) \/ ~Busy(w) \/ \A k \in 1..Len(todo) : ~HandsOn(todo[k])
  PROVE  /\ Stacks' /\ ~Lone(stack'[w])
         /\ \A v \in Workers : v # w => /\ stack'[v] = stack[v]
                                       /\ Busy(v)' = Busy(v) /\ Asks(v)' = Asks(v)
         /\ Busy(w)' => Busy(w) \/ ~Quiet(todo)
         /\ Asks(w)' => Asks(w) \/ \E k \in 1..Len(todo) : Asking(todo[k])
         /\ HandsOn(Head(stack[w])) /\ Asks(w)' => \E k \in 1..Len(todo) : Asking(todo[k])
<1> DEFINE t == Tail(stack[w])
           r == todo \o t
<1>1. /\ Stack(call, stack[w]) /\ stack[w] \in Seq(Frame(call))
      /\ Stack(call, t) /\ t \in Seq(Frame(call)) /\ t # <<>> /\ ~Lone(t) /\ ~Lone(stack[w])
      /\ Quiet(stack[w]) => Quiet(t)
      /\ HandsOn(Head(stack[w])) => Quiet(t)
  BY Popped DEF Stacks, Stack
<1>2. Stack(call, r) /\ ~Lone(r) /\ (Quiet(todo) /\ Quiet(t) => Quiet(r))
  <2>1. Quiet(t) \/ \A k \in 1..Len(todo) : ~HandsOn(todo[k])
    BY <1>1 DEF Busy
  <2> HIDE DEF t
  <2> QED BY <1>1, <2>1, PushedOn
<1>3. stack' = [stack EXCEPT ![w] = r]
  BY DEF Stacks, Become
<1>4. /\ Stacks' /\ stack'[w] = r
      /\ \A v \in Workers : v # w => /\ stack'[v] = stack[v]
                                    /\ Busy(v)' = Busy(v) /\ Asks(v)' = Asks(v)
  <2> HIDE DEF r
  <2> QED BY <1>2, <1>3, Changed
<1>5. /\ Asks(w)' => Asks(w) \/ \E k \in 1..Len(todo) : Asking(todo[k])
      /\ HandsOn(Head(stack[w])) /\ Asks(w)' => \E k \in 1..Len(todo) : Asking(todo[k])
  <2>1. /\ Len(r) = Len(todo) + Len(t) /\ Len(t) \in Nat /\ Len(todo) \in Nat
        /\ \A k \in 1..Len(r) : r[k] = IF k <= Len(todo) THEN todo[k] ELSE t[k - Len(todo)]
    BY <1>1, ConcatProperties, LenProperties DEF Steps
  <2>2. Len(t) = Len(stack[w]) - 1 /\ Len(stack[w]) \in Nat /\ \A k \in 1..Len(t) : t[k] = stack[w][k + 1]
    BY <1>1, HeadTailProperties, LenProperties
  <2> HIDE DEF r, t
  <2>3. ASSUME NEW k \in 1..Len(r), Asking(r[k]), k > Len(todo)
        PROVE  Asks(w) /\ ~HandsOn(Head(stack[w]))
    <3>1. k - Len(todo) \in 1..Len(t) /\ r[k] = t[k - Len(todo)]
      BY <2>1, <2>3
    <3>2. k - Len(todo) + 1 \in 1..Len(stack[w]) /\ r[k] = stack[w][k - Len(todo) + 1]
      BY <2>1, <2>2, <3>1
    <3>3. ~Quiet(t)
      BY <2>3, <3>1 DEF Quiet, Touches, Asking, InCallback
    <3> QED BY <1>1, <2>3, <3>2, <3>3 DEF Asks
  <2>4. ASSUME NEW k \in 1..Len(r), Asking(r[k]), ~(k > Len(todo))
        PROVE  \E j \in 1..Len(todo) : Asking(todo[j])
    BY <2>1, <2>4
  <2> QED BY <1>4, <2>3, <2>4 DEF Asks
<1> QED BY <1>1, <1>2, <1>4, <1>5 DEF Busy

LEMMA Steps1 ==
  ASSUME NEW c, NEW a, NEW x, [at |-> a, arg |-> x] \in Frame(c), a # "task"
  PROVE  /\ Steps(c, Do(a, x)) /\ Len(Do(a, x)) = 1 /\ Do(a, x)[1] = [at |-> a, arg |-> x]
         /\ Quiet(Do(a, x)) <=> ~Touches([at |-> a, arg |-> x])
BY DEF Do, Steps, Quiet

LEMMA Steps2 ==
  ASSUME NEW c, NEW f \in Frame(c), NEW g \in Frame(c),
         f.at # "task", g.at # "task", HandsOn(f) => ~Touches(g)
  PROVE  /\ Steps(c, <<f>> \o <<g>>) /\ Len(<<f>> \o <<g>>) = 2
         /\ (<<f>> \o <<g>>)[1] = f /\ (<<f>> \o <<g>>)[2] = g
         /\ \A k \in 1..Len(<<f>> \o <<g>>) : (<<f>> \o <<g>>)[k] \in {f, g}
<1> DEFINE todo == <<f>> \o <<g>>
<1>1. /\ <<f>> \in Seq(Frame(c)) /\ Len(<<f>>) = 1 /\ <<f>>[1] = f
      /\ <<g>> \in Seq(Frame(c)) /\ Len(<<g>>) = 1 /\ <<g>>[1] = g
  OBVIOUS
<1>2. todo \in Seq(Frame(c)) /\ Len(todo) = 2 /\ todo[1] = f /\ todo[2] = g
  BY <1>1, ConcatProperties
<1> HIDE DEF todo
<1>3. todo # <<>> /\ 1..2 = {1, 2}
  BY <1>2, EmptySeq
<1>4. Steps(c, todo)
  BY <1>2, <1>3 DEF Steps
<1>5. \A k \in 1..Len(todo) : todo[k] \in {f, g}
  BY <1>2, <1>3
<1> QED BY <1>2, <1>4, <1>5 DEF todo

LEMMA Steps3 ==
  ASSUME NEW c, NEW f \in Frame(c), NEW g \in Frame(c), NEW h \in Frame(c),
         f.at # "task", g.at # "task", h.at # "task",
         ~HandsOn(f), HandsOn(g) => ~Touches(h)
  PROVE  /\ Steps(c, (<<f>> \o <<g>>) \o <<h>>)
         /\ \A k \in 1..Len((<<f>> \o <<g>>) \o <<h>>) : ((<<f>> \o <<g>>) \o <<h>>)[k] \in {f, g, h}
<1> DEFINE two == <<f>> \o <<g>>
           todo == two \o <<h>>
<1>1. /\ two \in Seq(Frame(c)) /\ Len(two) = 2 /\ two[1] = f /\ two[2] = g
      /\ <<h>> \in Seq(Frame(c)) /\ Len(<<h>>) = 1 /\ <<h>>[1] = h
  BY Steps2 DEF Steps
<1> HIDE DEF two
<1>2. /\ todo \in Seq(Frame(c)) /\ Len(todo) = Len(two) + Len(<<h>>)
      /\ \A k \in 1..(Len(two) + Len(<<h>>)) : todo[k] = IF k <= Len(two) THEN two[k] ELSE <<h>>[k - Len(two)]
  BY <1>1, ConcatProperties
<1> HIDE DEF todo
<1>3. Len(todo) = 3 /\ todo[1] = f /\ todo[2] = g /\ todo[3] = h
  BY <1>1, <1>2
<1>4. todo # <<>> /\ 1..3 = {1, 2, 3}
  BY <1>3, EmptySeq
<1>5. \A j, k \in 1..Len(todo) : HandsOn(todo[j]) /\ j < k => ~Touches(todo[k])
  <2>1. ASSUME NEW j \in {1, 2, 3}, NEW k \in {1, 2, 3}, HandsOn(todo[j]), j < k PROVE ~Touches(todo[k])
    BY <1>3, <2>1
  <2> QED BY <1>3, <1>4, <2>1
<1>6. \A k \in 1..Len(todo) : todo[k].at # "task"
  BY <1>3, <1>4
<1>7. Steps(c, todo)
  BY <1>2, <1>4, <1>5, <1>6 DEF Steps
<1>8. \A k \in 1..Len(todo) : todo[k] \in {f, g, h}
  BY <1>3, <1>4
<1> QED BY <1>7, <1>8 DEF todo, two

\* strm_emit, and what it calls next.
LEMMA Emits ==
  ASSUME NEW c, NEW v \in Emittable, NEW b \in BOOLEAN, b => c.kind = "zip"
  PROVE  /\ Steps(c, Emitting(v, b))
         /\ \A k \in 1..Len(Emitting(v, b)) : Emitting(v, b)[k].at \in {"emit", "heard"}
<1>1. PICK e : e = [at |-> "emit", arg |-> v]
  OBVIOUS
<1>2. PICK h : h = [at |-> "heard", arg |-> <<v, b>>]
  OBVIOUS
<1>3. e \in Frame(c) /\ h \in Frame(c)
  <2>1. <<v, b>> \in Emittable \X {x \in BOOLEAN : x => c.kind = "zip"}
    OBVIOUS
  <2> QED BY <1>1, <1>2, <2>1 DEF Frame
<1>4. Emitting(v, b) = <<e>> \o <<h>>
  BY <1>1, <1>2 DEF Emitting, Do
<1>5. e.at = "emit" /\ h.at = "heard" /\ e.at # "task" /\ h.at # "task" /\ (HandsOn(e) => ~Touches(h))
  BY <1>1, <1>2 DEF HandsOn
<1>6. Steps(c, <<e>> \o <<h>>)
  BY <1>3, <1>5, Steps2
<1>7. \A k \in 1..Len(<<e>> \o <<h>>) : (<<e>> \o <<h>>)[k] \in {e, h}
  BY <1>3, <1>5, Steps2
<1> QED BY <1>4, <1>5, <1>6, <1>7

LEMMA EmitsThen ==
  ASSUME NEW c, NEW v \in Emittable, NEW a \in {"finish", "advance"}, NEW x,
         [at |-> a, arg |-> x] \in Frame(c)
  PROVE  /\ Steps(c, Emitting(v, FALSE) \o Do(a, x))
         /\ \A k \in 1..Len(Emitting(v, FALSE) \o Do(a, x)) :
              (Emitting(v, FALSE) \o Do(a, x))[k].at \in {"emit", "heard", "finish", "advance"}
<1> DEFINE e == [at |-> "emit", arg |-> v]
           h == [at |-> "heard", arg |-> <<v, FALSE>>]
           f == [at |-> a, arg |-> x]
<1>1. e \in Frame(c) /\ h \in Frame(c) /\ f \in Frame(c)
  <2>1. <<v, FALSE>> \in Emittable \X {b \in BOOLEAN : b => c.kind = "zip"}
    OBVIOUS
  <2> QED BY <2>1 DEF Frame
<1>2. /\ e.at = "emit" /\ h.at = "heard" /\ f.at = a /\ ~HandsOn(e) /\ ~HandsOn(h)
      /\ Emitting(v, FALSE) \o Do(a, x) = (<<e>> \o <<h>>) \o <<f>>
  BY DEF HandsOn, Emitting, Do
<1> HIDE DEF e, h, f
<1>3. e.at # "task" /\ h.at # "task" /\ f.at # "task" /\ (HandsOn(h) => ~Touches(f))
  BY <1>2
<1>4. /\ Steps(c, (<<e>> \o <<h>>) \o <<f>>)
      /\ \A k \in 1..Len((<<e>> \o <<h>>) \o <<f>>) : ((<<e>> \o <<h>>) \o <<f>>)[k] \in {e, h, f}
  BY <1>1, <1>2, <1>3, Steps3
<1> QED BY <1>2, <1>4

\* The latches of a call.
LEMMA Some ==
  ASSUME call \in Calls
  PROVE  /\ Upstreams \in Nat \ {0} /\ Latches = 1..Upstreams /\ call.kind \in {"zip", "concat"}
         /\ call.counts \in [Latches -> Nat]
<1>1. call.counts \in Seq(Nat) /\ call.counts # <<>> /\ call.kind \in {"zip", "concat"}
  BY LatchAssumption
<1> QED BY <1>1, EmptySeq, LenProperties DEF Upstreams, Latches

LEMMA Updates ==
  ASSUME NEW y \in ZData
  PROVE  /\ \A n \in Nat : /\ [y EXCEPT !.starts = n] \in ZData /\ [y EXCEPT !.i = n] \in ZData
                          /\ [y EXCEPT !.starts = n, !.i = 1, !.a = <<>>] \in ZData
         /\ \A a \in Seq(Data) : \A n \in Nat : [y EXCEPT !.a = a, !.i = n] \in ZData
         /\ [y EXCEPT !.dst = FALSE, !.mode = "dying"] \in ZData
         /\ [y EXCEPT !.mode = "killed", !.live = FALSE] \in ZData
<1>1. <<>> \in Seq(Data)
  BY EmptySeq
<1> QED BY <1>1 DEF ZData

\* A step of a worker that leaves the cursor where it is.
LEMMA GoesOn ==
  ASSUME Inv, NEW w \in Workers, Typed', Stacks', Filling', ~Lone(stack'[w]), Busy(w)' => Busy(w),
         \A v \in Workers : v # w => stack'[v] = stack[v],
         call' = call, linked' = linked, rq' = rq, dst' = dst,
         z'.starts = z.starts, z'.live = z.live, z'.mode = z.mode
  PROVE  Inv'
<1>1. \A v \in Workers : Busy(v)' => Busy(v)
  BY DEF Busy
<1>2. PICK c : Only(c)
  BY DEF Inv
<1>3. Only(c)'
  BY <1>1, <1>2 DEF Only, Upstreams, Latches
<1>4. Dying'
  BY DEF Inv, Dying
<1> QED BY <1>3, <1>4 DEF Inv

LEMMA SameFilling ==
  ASSUME Filling, call' = call, rq' = rq, linked' = linked,
         z'.i = z.i, z'.a = z.a, z'.starts = z.starts,
         \A v \in Workers : Asks(v)' => Asks(v)
  PROVE  Filling'
BY DEF Filling, Upstreams, Latches

\* Between its calls of the receivers a worker only leaves frames behind.
LEMMA Leaves ==
  ASSUME Inv, NEW w \in Workers, stack[w] # <<>>, Become(w, <<>>), Typed',
         call' = call, linked' = linked, rq' = rq, dst' = dst,
         z'.starts = z.starts, z'.live = z.live, z'.mode = z.mode, z'.i = z.i, z'.a = z.a
  PROVE  Inv'
<1>1. Stacks /\ Filling
  BY DEF Inv
<1>2. /\ Stacks' /\ stack'[w] = Tail(stack[w])
      /\ Busy(w)' => Busy(w)
      /\ \A v \in Workers : v # w => stack'[v] = stack[v]
      /\ \A v \in Workers : Asks(v)' => Asks(v)
  BY <1>1, Removes
<1>3. ~Lone(stack'[w])
  <2>1. Stack(call, stack[w])
    BY <1>1 DEF Stacks
  <2>2. ~Lone(Tail(stack[w]))
    BY <2>1, Popped
  <2> QED BY <1>2, <2>2
<1>4. Filling'
  BY <1>1, <1>2, SameFilling
<1> QED BY <1>2, <1>3, <1>4, GoesOn

\* A worker in a callback has the stream for itself.
LEMMA InCharge ==
  ASSUME Stacks, NEW w \in Workers, NEW a, At(w, a), a # "close"
  PROVE  /\ Touches(Head(stack[w])) => Busy(w)
         /\ Asking(Head(stack[w])) => Asks(w)
<1>1. stack[w] # <<>> /\ Stack(call, stack[w]) /\ Head(stack[w]).at = a
  BY DEF Stacks, At
<1>2. stack[w] \in Seq(Frame(call)) /\ Len(stack[w]) \in Nat \ {0} /\ Head(stack[w]) = stack[w][1]
  BY <1>1, EmptySeq, HeadTailProperties DEF Stack
<1>3. ~Lone(stack[w])
  BY <1>1, <1>2 DEF Lone
<1> QED BY <1>2, <1>3 DEF Busy, Quiet, Asks

LEMMA Resting == ASSUME NEW w \in Workers, ~Busy(w) PROVE ~Asks(w)
<1>1. CASE Lone(stack[w])
  BY <1>1 DEF Lone, Asks, Asking
<1>2. CASE Quiet(stack[w])
  BY <1>2 DEF Quiet, Asks, Asking, Touches, InCallback
<1> QED BY <1>1, <1>2 DEF Busy

LEMMA Alone ==
  ASSUME NEW c, Only(c), NEW w \in Workers, Busy(w)
  PROVE  /\ z.starts = 0 /\ \A l \in Latches : rq[l] = 0
         /\ \A v \in Workers : v # w => ~Busy(v)
         /\ ~(linked <= Upstreams)
         /\ dst = "open" => z.live
<1>1. c = <<"worker", w>>
  BY DEF Only
<1> QED BY <1>1 DEF Only

\* Or puts other frames in the place of one.
LEMMA Continues ==
  ASSUME Inv, NEW w \in Workers, stack[w] # <<>>, Head(stack[w]).at \notin {"task", "close"},
         NEW todo, Steps(call, todo), Become(w, todo),
         HandsOn(Head(stack[w])) \/ \A k \in 1..Len(todo) : ~HandsOn(todo[k]),
         Busy(w) \/ Quiet(todo), Typed', Stacks' => Filling',
         call' = call, linked' = linked, rq' = rq, dst' = dst,
         z'.starts = z.starts, z'.live = z.live, z'.mode = z.mode
  PROVE  Inv'
<1>1. Stacks /\ Filling
  BY DEF Inv
<1>2. /\ Stacks' /\ ~Lone(stack'[w])
      /\ \A v \in Workers : v # w => stack'[v] = stack[v]
      /\ Busy(w)' => Busy(w)
  BY <1>1, Replaces
<1> QED BY <1>1, <1>2, GoesOn

LEMMA Asked ==
  ASSUME Inv, NEW w \in Workers, stack[w] # <<>>, Head(stack[w]).at \notin {"task", "close"},
         NEW todo, Steps(call, todo), Become(w, todo),
         HandsOn(Head(stack[w])) \/ \A k \in 1..Len(todo) : ~HandsOn(todo[k]),
         Asks(w) \/ \A k \in 1..Len(todo) : ~Asking(todo[k]),
         call' = call, rq' = rq, linked' = linked,
         z'.i = z.i, z'.a = z.a, z'.starts = z.starts
  PROVE  Filling'
<1>1. Stacks /\ Filling
  BY DEF Inv
<1>2. \A v \in Workers : Asks(v)' => Asks(v)
  BY <1>1, Replaces
<1> QED BY <1>1, <1>2, SameFilling

-----------------------------------------------------------------------------
(* Each step keeps it.                                                     *)

LEMMA QueueKeeps == ASSUME Inv, NEW w \in Workers, Queue(w) PROVE Inv'
<1>1. stack[w] # <<>> /\ Arg(w) \in Latches \X Data
  BY Argument DEF Inv, Queue, At
<1>2. dq' \in [Latches -> Seq(Data)]
  <2>1. PICK l \in Latches, d \in Data : Arg(w) = <<l, d>>
    BY <1>1
  <2>2. Append(dq[l], d) \in Seq(Data)
    BY DEF Inv, Typed
  <2> QED BY <2>1, <2>2 DEF Queue, Inv, Typed
<1>3. Typed'
  BY <1>2 DEF Queue, Inv, Typed, Upstreams, Latches, sourceVars
<1> QED BY <1>1, <1>3, Leaves DEF Queue, sourceVars

LEMMA EmitKeeps == ASSUME Inv, NEW w \in Workers, Emit(w) PROVE Inv'
<1>1. stack[w] # <<>>
  BY DEF Emit, At
<1>2. Typed'
  BY DEF Inv, Typed, Emit, Upstreams, Latches, latchVars, sourceVars
<1> QED BY <1>1, <1>2, Leaves DEF Emit, latchVars, sourceVars

LEMMA ReceiveKeeps == ASSUME Inv, NEW w \in Workers, Receive(w) PROVE Inv'
<1> DEFINE l == Arg(w)
<1>1. /\ stack[w] # <<>> /\ Head(stack[w]).at = "receive"
      /\ l \in Latches /\ At(w, "receive") /\ Stacks
  BY Argument DEF Inv, Receive, At
<1>2. HandsOn(Head(stack[w])) /\ Busy(w) /\ Asks(w)
  BY <1>1, InCharge DEF HandsOn, Touches, InCallback, Asking
<1>3. dq[l] \in Seq(Data)
  BY <1>1 DEF Inv, Typed
<1>4. dq' \in [Latches -> Seq(Data)]
  <2>1. dq[l] # <<>> => Tail(dq[l]) \in Seq(Data)
    BY <1>3, HeadTailProperties
  <2>2. dq' = dq \/ (dq[l] # <<>> /\ dq' = [dq EXCEPT ![l] = Tail(dq[l])])
    BY DEF Receive
  <2>3. dq \in [Latches -> Seq(Data)]
    BY DEF Inv, Typed
  <2> HIDE DEF l
  <2> QED BY <1>1, <2>1, <2>2, <2>3
<1>5. Typed'
  BY <1>4 DEF Receive, Inv, Typed, Upstreams, Latches, sourceVars
<1>6. \E todo : Become(w, todo) /\ Steps(call, todo)
  <2>1. CASE dq[l] # <<>>
    <3>1. Head(dq[l]) \in Data
      BY <1>3, <2>1, HeadTailProperties
    <3>2. [at |-> "iter", arg |-> Head(dq[l])] \in Frame(call)
      BY <3>1 DEF Frame
    <3> QED BY <2>1, <3>2, Steps1 DEF Receive
  <2>2. CASE dq[l] = <<>>
    <3>1. [at |-> "wait", arg |-> l] \in Frame(call)
      BY <1>1 DEF Frame, Latches
    <3> QED BY <2>2, <3>1, Steps1 DEF Receive
  <2> QED BY <2>1, <2>2
<1>7. PICK todo : Become(w, todo) /\ Steps(call, todo)
  BY <1>6
<1> HIDE DEF l
<1>8. Filling'
  BY <1>1, <1>2, <1>7, Asked DEF Receive, sourceVars
<1> QED BY <1>1, <1>2, <1>5, <1>7, <1>8, Continues DEF Receive, sourceVars

LEMMA ZipCheckKeeps == ASSUME Inv, NEW w \in Workers, ZipCheck(w) PROVE Inv'
<1>1. /\ stack[w] # <<>> /\ Head(stack[w]).at = "check"
      /\ Arg(w) \in Latches /\ At(w, "check") /\ Stacks /\ Upstreams \in Nat \ {0} /\ Latches = 1..Upstreams
      /\ call.kind = "zip"
  BY Argument, Some DEF Inv, Typed, ZipCheck, At
<1>2. HandsOn(Head(stack[w])) /\ Busy(w)
  BY <1>1, InCharge DEF HandsOn, Touches, InCallback, Asking
<1>3. Typed'
  BY DEF ZipCheck, Inv, Typed, Upstreams, Latches, sourceVars, latchVars
<1>4. z.a \in Emittable /\ FALSE \in BOOLEAN /\ TRUE \in BOOLEAN
  BY DEF Inv, Typed, ZData, Emittable
<1>5. \E todo : /\ Become(w, todo) /\ Steps(call, todo)
                /\ \A k \in 1..Len(todo) : ~Asking(todo[k])
  <2>1. CASE Finished(Arg(w))
    <3>1. 1 \in DOMAIN call.counts
      BY <1>1 DEF Latches
    <3>2. [at |-> "finish", arg |-> 1] \in Frame(call)
      BY <3>1 DEF Frame
    <3>3. Become(w, Emitting(z.a, FALSE) \o Do("finish", 1))
      BY <2>1 DEF ZipCheck
    <3> DEFINE todo == Emitting(z.a, FALSE) \o Do("finish", 1)
    <3>4. Steps(call, todo) /\ \A k \in 1..Len(todo) : todo[k].at \in {"emit", "heard", "finish", "advance"}
      BY <1>4, <3>2, EmitsThen
    <3> HIDE DEF todo
    <3>5. \A k \in 1..Len(todo) : ~Asking(todo[k])
      BY <3>4 DEF Asking
    <3> QED BY <3>3, <3>4, <3>5 DEF todo
  <2>2. CASE ~Finished(Arg(w)) /\ Arg(w) < Upstreams
    <3>1. [at |-> "check", arg |-> Arg(w) + 1] \in Frame(call)
      BY <1>1, <2>2 DEF Frame, Latches
    <3>2. Become(w, Do("check", Arg(w) + 1))
      BY <2>2 DEF ZipCheck, Upstreams
    <3> QED BY <3>1, <3>2, Steps1 DEF Asking
  <2>3. CASE ~Finished(Arg(w)) /\ ~(Arg(w) < Upstreams)
    <3>1. Become(w, Emitting(z.a, TRUE))
      BY <2>3 DEF ZipCheck, Upstreams
    <3> DEFINE todo == Emitting(z.a, TRUE)
    <3>2. Steps(call, todo) /\ \A k \in 1..Len(todo) : todo[k].at \in {"emit", "heard"}
      BY <1>1, <1>4, Emits
    <3> HIDE DEF todo
    <3>3. \A k \in 1..Len(todo) : ~Asking(todo[k])
      BY <3>2 DEF Asking
    <3> QED BY <3>1, <3>2, <3>3 DEF todo
  <2> QED BY <2>1, <2>2, <2>3
<1>6. PICK todo : /\ Become(w, todo) /\ Steps(call, todo)
                  /\ \A k \in 1..Len(todo) : ~Asking(todo[k])
  BY <1>5
<1>7. Filling'
  BY <1>1, <1>2, <1>6, Asked DEF ZipCheck, latchVars, sourceVars
<1> QED BY <1>1, <1>2, <1>3, <1>6, <1>7, Continues DEF ZipCheck, sourceVars, latchVars

LEMMA PushedKeeps == ASSUME Inv, NEW w \in Workers, Pushed(w) PROVE Inv'
<1>1. /\ stack[w] # <<>> /\ Head(stack[w]).at = "pushed" /\ Head(stack[w]).arg = Arg(w)
      /\ At(w, "pushed") /\ Stacks
  BY DEF Inv, Pushed, At, Arg
<1>2. PICK l \in Latches, d \in Data, r \in BOOLEAN : Arg(w) = <<l, d, r>>
  BY <1>1, Argument
<1>3. r => HandsOn(Head(stack[w])) /\ Busy(w) /\ Asks(w)
  <2>1. Head(stack[w]).arg[3] = r
    BY <1>1, <1>2
  <2>2. r => HandsOn(Head(stack[w])) /\ Touches(Head(stack[w])) /\ Asking(Head(stack[w]))
    BY <1>1, <2>1 DEF HandsOn, Touches, InCallback, Asking
  <2> QED BY <1>1, <2>2, InCharge
<1>4. Typed'
  BY DEF Pushed, Inv, Typed, Upstreams, Latches, sourceVars, latchVars
<1>5. Become(w, IF mode[l] # "consumer" THEN <<>> ELSE IF r THEN Do("iter", d) ELSE Do("queue", <<l, d>>))
  BY <1>2 DEF Pushed
<1>6. CASE mode[l] # "consumer"
  BY <1>1, <1>4, <1>5, <1>6, Leaves DEF Pushed, sourceVars, latchVars
<1>7. CASE mode[l] = "consumer" /\ r
  <2>1. [at |-> "iter", arg |-> d] \in Frame(call)
    BY DEF Frame
  <2>2. PICK todo : todo = Do("iter", d)
    OBVIOUS
  <2>3. Steps(call, todo) /\ Become(w, todo)
    BY <1>5, <1>7, <2>1, <2>2, Steps1
  <2>4. Filling'
    BY <1>1, <1>3, <1>7, <2>3, Asked DEF Pushed, sourceVars, latchVars
  <2> QED BY <1>1, <1>3, <1>4, <1>7, <2>3, <2>4, Continues DEF Pushed, sourceVars, latchVars
<1>8. CASE mode[l] = "consumer" /\ ~r
  <2>1. [at |-> "queue", arg |-> <<l, d>>] \in Frame(call)
    <3>1. <<l, d>> \in (DOMAIN call.counts) \X Data
      BY DEF Latches
    <3> QED BY <3>1 DEF Frame
  <2>2. PICK todo : todo = Do("queue", <<l, d>>)
    OBVIOUS
  <2>3. Steps(call, todo) /\ Become(w, todo)
    BY <1>5, <1>8, <2>1, <2>2, Steps1
  <2>4. Len(todo) = 1 /\ todo[1].at = "queue"
    BY <2>2 DEF Do
  <2>5. Quiet(todo) /\ (\A k \in 1..Len(todo) : ~HandsOn(todo[k]) /\ ~Asking(todo[k]))
    BY <2>4 DEF Quiet, HandsOn, Asking, Touches, InCallback
  <2>6. Filling'
    BY <1>1, <2>3, <2>5, Asked DEF Pushed, sourceVars, latchVars
  <2> QED BY <1>1, <1>4, <2>3, <2>5, <2>6, Continues DEF Pushed, sourceVars, latchVars
<1>9. mode[l] = "consumer" \/ mode[l] # "consumer"
  OBVIOUS
<1> QED BY <1>6, <1>7, <1>8, <1>9

LEMMA CloseLatchKeeps == ASSUME Inv, NEW w \in Workers, CloseLatch(w) PROVE Inv'
<1> DEFINE l == Arg(w)
<1>1. /\ stack[w] # <<>> /\ Head(stack[w]).at = "kill" /\ l \in Latches
      /\ At(w, "kill") /\ Stacks
  BY Argument DEF Inv, CloseLatch, At
<1>2. mode' \in [Latches -> {"consumer", "killed"}]
  BY <1>1 DEF CloseLatch, Kill, Inv, Typed
<1>3. Typed'
  BY <1>2 DEF CloseLatch, Inv, Typed, Upstreams, Latches, sourceVars
<1>4. CASE mode[l] = "killed"
  BY <1>1, <1>3, <1>4, Leaves DEF CloseLatch, Kill, sourceVars
<1>5. CASE mode[l] # "killed"
  <2>1. [at |-> "drain", arg |-> l] \in Frame(call)
    BY <1>1 DEF Frame, Latches
  <2>2. PICK todo : todo = Do("drain", l)
    OBVIOUS
  <2>3. Steps(call, todo) /\ Become(w, todo)
    BY <1>5, <2>1, <2>2, Steps1 DEF CloseLatch, Kill
  <2>4. Len(todo) = 1 /\ todo[1].at = "drain"
    BY <2>2 DEF Do
  <2>5. Quiet(todo) /\ (\A k \in 1..Len(todo) : ~HandsOn(todo[k]) /\ ~Asking(todo[k]))
    BY <2>4 DEF Quiet, HandsOn, Asking, Touches, InCallback
  <2>6. Filling'
    BY <1>1, <2>3, <2>5, Asked DEF CloseLatch, sourceVars
  <2> QED BY <1>1, <1>3, <2>3, <2>5, <2>6, Continues DEF CloseLatch, sourceVars
<1> QED BY <1>4, <1>5

LEMMA ZipFinishKeeps == ASSUME Inv, NEW w \in Workers, ZipFinish(w) PROVE Inv'
<1>1. /\ stack[w] # <<>> /\ Head(stack[w]).at = "finish" /\ Arg(w) \in Latches
      /\ At(w, "finish") /\ Stacks /\ Upstreams \in Nat \ {0} /\ Latches = 1..Upstreams
  BY Argument, Some DEF Inv, Typed, ZipFinish, At
<1>2. PICK l \in Latches : l = Arg(w)
  BY <1>1
<1>3. HandsOn(Head(stack[w])) /\ Busy(w)
  BY <1>1, InCharge DEF HandsOn, Touches, InCallback
<1>4. mode' = [mode EXCEPT ![l] = "killed"] /\ mode \in [Latches -> {"consumer", "killed"}]
  BY <1>2 DEF ZipFinish, Inv, Typed
<1>5. Typed'
  BY <1>4 DEF ZipFinish, Inv, Typed, Upstreams, Latches, sourceVars
<1>6. PICK g : g = IF l < Upstreams THEN [at |-> "finish", arg |-> l + 1] ELSE [at |-> "close", arg |-> 0]
  OBVIOUS
<1>7. g \in Frame(call) /\ g.at \in {"finish", "close"}
  <2>1. CASE l < Upstreams
    <3>1. l + 1 \in DOMAIN call.counts
      BY <1>1, <2>1 DEF Latches
    <3> QED BY <1>6, <2>1, <3>1 DEF Frame
  <2>2. CASE ~(l < Upstreams)
    BY <1>6, <2>2 DEF Frame
  <2> QED BY <2>1, <2>2
<1>8. Become(w, (IF mode[l] = "killed" THEN <<>> ELSE Do("drain", l)) \o <<g>>)
  BY <1>2, <1>6 DEF ZipFinish, Do, Upstreams
<1>9. \E todo : /\ Become(w, todo) /\ Steps(call, todo)
                /\ \A k \in 1..Len(todo) : ~Asking(todo[k])
  <2>1. CASE mode[l] = "killed"
    <3>1. <<>> \o <<g>> = <<g>>
      BY <1>7, ConcatEmptySeq
    <3>2. Become(w, Do(g.at, g.arg)) /\ g = [at |-> g.at, arg |-> g.arg]
      BY <1>7, <1>8, <2>1, <3>1, Kinds DEF Do
    <3>3. Steps(call, Do(g.at, g.arg)) /\ Len(Do(g.at, g.arg)) = 1 /\ Do(g.at, g.arg)[1] = g
      BY <1>7, <3>2, Steps1
    <3> QED BY <1>7, <3>2, <3>3 DEF Asking
  <2>2. CASE mode[l] # "killed"
    <3>1. PICK f : f = [at |-> "drain", arg |-> l]
      OBVIOUS
    <3>2. f \in Frame(call) /\ f.at = "drain"
      BY <3>1 DEF Frame, Latches
    <3>3. Become(w, <<f>> \o <<g>>)
      BY <1>8, <2>2, <3>1 DEF Do
    <3>4. f.at # "task" /\ g.at # "task" /\ (HandsOn(f) => ~Touches(g)) /\ ~Asking(f) /\ ~Asking(g)
      BY <1>7, <3>2 DEF HandsOn, Asking
    <3>5. /\ Steps(call, <<f>> \o <<g>>)
          /\ \A k \in 1..Len(<<f>> \o <<g>>) : (<<f>> \o <<g>>)[k] \in {f, g}
      BY <1>7, <3>2, <3>4, Steps2
    <3> QED BY <3>3, <3>4, <3>5
  <2> QED BY <2>1, <2>2
<1>10. PICK todo : /\ Become(w, todo) /\ Steps(call, todo)
                   /\ \A k \in 1..Len(todo) : ~Asking(todo[k])
  BY <1>9
<1>11. Filling'
  BY <1>1, <1>3, <1>10, Asked DEF ZipFinish, sourceVars
<1> QED BY <1>1, <1>3, <1>5, <1>10, <1>11, Continues DEF ZipFinish, sourceVars

LEMMA ConcatIterKeeps == ASSUME Inv, NEW w \in Workers, ConcatIter(w) PROVE Inv'
<1>1. /\ stack[w] # <<>> /\ Head(stack[w]).at = "iter" /\ Arg(w) \in Data
      /\ At(w, "iter") /\ Stacks
  BY Argument DEF Inv, ConcatIter, At
<1>2. HandsOn(Head(stack[w])) /\ Busy(w)
  BY <1>1, InCharge DEF HandsOn, Touches, InCallback
<1>3. Typed'
  BY DEF ConcatIter, Inv, Typed, Upstreams, Latches, sourceVars, latchVars
<1>4. PICK todo : todo = Emitting(Arg(w), FALSE) \o Do("advance", 0)
  OBVIOUS
<1>5. Steps(call, todo) /\ \A k \in 1..Len(todo) : todo[k].at \in {"emit", "heard", "finish", "advance"}
  <2>1. [at |-> "advance", arg |-> 0] \in Frame(call)
    BY DEF ConcatIter, Frame
  <2> QED BY <1>1, <1>4, <2>1, EmitsThen DEF Emittable
<1>6. \A k \in 1..Len(todo) : ~Asking(todo[k])
  BY <1>5 DEF Asking
<1>7. Become(w, todo)
  BY <1>4 DEF ConcatIter
<1>8. Filling'
  BY <1>1, <1>2, <1>5, <1>6, <1>7, Asked DEF ConcatIter, sourceVars, latchVars
<1> QED BY <1>1, <1>2, <1>3, <1>5, <1>7, <1>8, Continues DEF ConcatIter, sourceVars, latchVars

-----------------------------------------------------------------------------
(* Steps that pass the cursor on, or bring it forward.                     *)

\* A latch with a receiver: no worker is in a callback.
LEMMA Received ==
  ASSUME NEW c, Only(c), NEW l \in Latches, rq[l] # 0
  PROVE  /\ c = <<"receiver", l>> /\ rq[l] = 1 /\ z.starts = 0 /\ \A m \in Latches : m # l => rq[m] = 0
         /\ \A v \in Workers : ~Busy(v)
         /\ ~(linked <= Upstreams)
         /\ dst = "open" => z.live
<1>1. c = <<"receiver", l>> /\ rq[l] = 1
  BY DEF Only
<1> QED BY <1>1 DEF Only

\* latch_push and latch_close take the one receiver of the latch and go on.
LEMMA Takes ==
  ASSUME Inv, NEW w \in Workers, stack[w] # <<>>, Head(stack[w]).at \notin {"task", "close"},
         NEW l \in Latches, rq[l] > 0, rq' = [rq EXCEPT ![l] = @ - 1],
         NEW todo, Steps(call, todo), Become(w, todo),
         call' = call, linked' = linked, dst' = dst, z' = z, Typed'
  PROVE  Inv'
<1>1. Stacks /\ Filling /\ rq \in [Latches -> Nat]
  BY DEF Inv, Typed
<1>2. PICK c : Only(c)
  BY DEF Inv
<1>3. rq[l] # 0
  BY <1>1
<1>4. ~Busy(w)
  BY <1>2, <1>3, Received
<1>5. /\ Stacks' /\ ~Lone(stack'[w])
      /\ \A v \in Workers : v # w => stack'[v] = stack[v] /\ Busy(v)' = Busy(v)
  BY <1>1, <1>4, Replaces
<1>6. \A m \in Latches : rq'[m] = 0
  <2>1. rq[l] = 1 /\ \A m \in Latches : m # l => rq[m] = 0
    BY <1>2, <1>3, Received
  <2> QED BY <1>1, <2>1
<1>7. Latches' = Latches /\ Upstreams' = Upstreams
  BY DEF Latches, Upstreams
<1>8. Only(<<"worker", w>>)'
  <2>1. z'.starts = 0 /\ ~(linked' <= Upstreams') /\ (dst' = "open" => z'.live)
    BY <1>2, <1>3, <1>7, Received
  <2>2. \A v \in Workers : v # w => ~Busy(v)'
    BY <1>2, <1>3, <1>5, Received
  <2> QED BY <1>6, <1>7, <2>1, <2>2 DEF Only
<1>9. Filling'
  <2>1. call.kind = "zip" => z.i <= Upstreams
    BY <1>1 DEF Filling
  <2> QED BY <1>1, <1>7, <2>1 DEF Filling
<1>10. Dying'
  BY <1>5 DEF Inv, Dying
<1> QED BY <1>5, <1>8, <1>9, <1>10 DEF Inv

LEMMA PushKeeps == ASSUME Inv, NEW w \in Workers, Push(w) PROVE Inv'
<1>1. stack[w] # <<>> /\ Head(stack[w]).at = "push" /\ At(w, "push") /\ Stacks
  BY DEF Inv, Push, At
<1>2. PICK l \in Latches, d \in Data : Arg(w) = <<l, d>>
  BY <1>1, Argument
<1>3. rq' = (IF rq[l] > 0 THEN [rq EXCEPT ![l] = @ - 1] ELSE rq) /\ rq \in [Latches -> Nat]
  BY <1>2 DEF Push, Inv, Typed
<1>4. Typed'
  <2>1. rq' \in [Latches -> Nat]
    BY <1>3
  <2> QED BY <2>1 DEF Push, Inv, Typed, Upstreams, Latches, sourceVars
<1>5. \E r \in BOOLEAN : r = (rq[l] > 0)
  <2>1. CASE rq[l] > 0
    <3>1. TRUE = (rq[l] > 0)
      BY <2>1
    <3> QED BY <3>1
  <2>2. CASE ~(rq[l] > 0)
    <3>1. FALSE = (rq[l] > 0)
      BY <2>2
    <3> QED BY <3>1
  <2> QED BY <2>1, <2>2
<1> PICK r \in BOOLEAN : r = (rq[l] > 0)
  BY <1>5
<1>6. PICK todo : todo = Do("pushed", <<l, d, r>>)
  OBVIOUS
<1>7. Become(w, todo)
  BY <1>2, <1>5, <1>6 DEF Push
<1>8. Steps(call, todo)
  <2>1. <<l, d, r>> \in (DOMAIN call.counts) \X Data \X BOOLEAN
    BY DEF Latches
  <2>2. [at |-> "pushed", arg |-> <<l, d, r>>] \in Frame(call)
    BY <2>1 DEF Frame
  <2> QED BY <1>6, <2>2, Steps1
<1>9. CASE rq[l] > 0
  BY <1>1, <1>3, <1>4, <1>7, <1>8, <1>9, Takes DEF Push, sourceVars
<1>10. CASE ~(rq[l] > 0)
  <2>1. todo[1].at = "pushed" /\ ~todo[1].arg[3] /\ Len(todo) = 1
    BY <1>6, <1>10 DEF Do
  <2>2. Quiet(todo) /\ (\A k \in 1..Len(todo) : ~HandsOn(todo[k]) /\ ~Asking(todo[k]))
    BY <2>1 DEF Quiet, HandsOn, Asking, Touches, InCallback
  <2>3. Filling'
    BY <1>1, <1>3, <1>7, <1>8, <1>10, <2>2, Asked DEF Push, sourceVars
  <2> QED BY <1>1, <1>3, <1>4, <1>7, <1>8, <1>10, <2>2, <2>3, Continues DEF Push, sourceVars
<1> QED BY <1>9, <1>10

LEMMA DrainKeeps == ASSUME Inv, NEW w \in Workers, Drain(w) PROVE Inv'
<1>1. stack[w] # <<>> /\ Head(stack[w]).at = "drain" /\ At(w, "drain") /\ Stacks /\ Arg(w) \in Latches
  BY Argument DEF Inv, Drain, At
<1>2. PICK l \in Latches : l = Arg(w)
  BY <1>1
<1>3. rq \in [Latches -> Nat] /\ Nil \in Data
  BY DEF Inv, Typed, Data
<1>4. CASE rq[l] > 0
  <2>1. rq' = [rq EXCEPT ![l] = @ - 1]
    BY <1>2, <1>4 DEF Drain
  <2>2. Typed'
    <3>1. rq' \in [Latches -> Nat]
      BY <1>3, <1>4, <2>1
    <3> QED BY <3>1 DEF Drain, Inv, Typed, Upstreams, Latches, sourceVars
  <2>3. PICK f : f = [at |-> "iter", arg |-> Nil]
    OBVIOUS
  <2>4. PICK g : g = [at |-> "drain", arg |-> l]
    OBVIOUS
  <2>5. f \in Frame(call) /\ g \in Frame(call) /\ f.at # "task" /\ g.at # "task"
    BY <1>3, <2>3, <2>4 DEF Frame, Latches
  <2>6. HandsOn(f) => ~Touches(g)
    BY <2>4 DEF Touches, InCallback
  <2>7. Become(w, <<f>> \o <<g>>)
    BY <1>2, <1>4, <2>3, <2>4 DEF Drain, Do
  <2>8. Steps(call, <<f>> \o <<g>>)
    BY <2>5, <2>6, Steps2
  <2> QED BY <1>1, <1>4, <2>1, <2>2, <2>7, <2>8, Takes DEF Drain, sourceVars
<1>5. CASE ~(rq[l] > 0)
  <2>1. rq' = rq /\ Become(w, <<>>)
    BY <1>2, <1>5 DEF Drain
  <2>2. Typed'
    BY <2>1 DEF Drain, Inv, Typed, Upstreams, Latches, sourceVars
  <2> QED BY <1>1, <2>1, <2>2, Leaves DEF Drain, sourceVars
<1> QED BY <1>4, <1>5

LEMMA WaitKeeps == ASSUME Inv, NEW w \in Workers, Wait(w) PROVE Inv'
<1>1. stack[w] # <<>> /\ Head(stack[w]).at = "wait" /\ At(w, "wait") /\ Stacks /\ Arg(w) \in Latches
  BY Argument DEF Inv, Wait, At
<1>2. PICK l \in Latches : l = Arg(w)
  BY <1>1
<1>3. HandsOn(Head(stack[w])) /\ Busy(w) /\ Asks(w)
  BY <1>1, InCharge DEF HandsOn, Touches, InCallback, Asking
<1>4. PICK c : Only(c)
  BY DEF Inv
<1>5. rq' = [rq EXCEPT ![l] = 1] /\ rq \in [Latches -> Nat] /\ \A m \in Latches : rq[m] = 0
  <2>1. rq \in [Latches -> Nat]
    BY DEF Inv, Typed
  <2>2. \A m \in Latches : rq[m] = 0
    BY <1>3, <1>4, Alone
  <2>3. rq[l] + 1 = 1
    BY <2>2
  <2>4. rq' = [rq EXCEPT ![l] = rq[l] + 1]
    BY <1>2 DEF Wait
  <2> QED BY <2>1, <2>2, <2>3, <2>4
<1>6. /\ Stacks' /\ stack'[w] = Tail(stack[w]) /\ ~Busy(w)'
      /\ \A v \in Workers : v # w => stack'[v] = stack[v] /\ Busy(v)' = Busy(v)
  BY <1>1, <1>3, Removes DEF Wait
<1>7. ~Lone(stack'[w])
  BY <1>1, <1>6, Top
<1>8. Latches' = Latches /\ Upstreams' = Upstreams
  BY DEF Wait, Latches, Upstreams
<1>9. Typed'
  <2>1. rq' \in [Latches -> Nat]
    BY <1>5
  <2> QED BY <2>1 DEF Wait, Inv, Typed, Upstreams, Latches, sourceVars
<1>10. Only(<<"receiver", l>>)'
  <2>1. z'.starts = 0 /\ ~(linked' <= Upstreams') /\ (dst' = "open" => z'.live)
    BY <1>3, <1>4, <1>8, Alone DEF Wait, sourceVars
  <2>2. \A v \in Workers : ~Busy(v)'
    BY <1>3, <1>4, <1>6, Alone
  <2>3. \A m \in Latches : rq'[m] = 0 \/ (rq'[m] = 1 /\ m = l)
    BY <1>5
  <2> QED BY <1>8, <2>1, <2>2, <2>3 DEF Only
<1>11. Filling'
  <2>1. Filling /\ (call.kind = "zip" => z.i <= Upstreams)
    BY <1>3 DEF Inv, Filling
  <2> QED BY <1>8, <2>1 DEF Filling, Wait, sourceVars
<1>12. Dying'
  BY <1>6, <1>7 DEF Inv, Dying, Wait
<1> QED BY <1>6, <1>9, <1>10, <1>11, <1>12 DEF Inv

LEMMA HeardKeeps == ASSUME Inv, NEW w \in Workers, Heard(w) PROVE Inv'
<1>1. /\ stack[w] # <<>> /\ Head(stack[w]).at = "heard" /\ Head(stack[w]).arg = Arg(w)
      /\ At(w, "heard") /\ Stacks
  BY DEF Inv, Heard, At, Arg
<1>2. PICK v \in Emittable, b \in BOOLEAN : Arg(w) = <<v, b>>
  BY <1>1, Argument
<1>3. b => call.kind = "zip"
  <2>1. Arg(w)[2] = b
    BY <1>2
  <2>2. Arg(w)[2] => call.kind = "zip"
    BY <1>1, Argument
  <2> QED BY <2>1, <2>2
<1>4. PICK unheard \in BOOLEAN : unheard <=> v # Nil /\ z.mode # "dying" /\ dst = "killed"
  OBVIOUS
<1>5. /\ unheard => z' = [z EXCEPT !.dst = FALSE, !.mode = "dying"] /\ dst = "killed"
      /\ ~unheard /\ b /\ z.mode = "producer" => z' = [z EXCEPT !.starts = @ + 1]
      /\ ~unheard /\ ~(b /\ z.mode = "producer") => z' = z
  BY <1>2, <1>4 DEF Heard
<1>6. Become(w, <<>>) /\ UNCHANGED <<call, linked, given, closing, tasks, mode, dq, rq, out, dst>>
  BY DEF Heard, sourceVars, latchVars
<1>7. z \in ZData
  BY DEF Inv, Typed
<1>8. Typed'
  <2>1. z' \in ZData
    <3>1. z.starts + 1 \in Nat
      BY <1>7 DEF ZData
    <3>2. [z EXCEPT !.starts = @ + 1] = [z EXCEPT !.starts = z.starts + 1]
      OBVIOUS
    <3>3. [z EXCEPT !.starts = z.starts + 1] \in ZData /\ [z EXCEPT !.dst = FALSE, !.mode = "dying"] \in ZData
      BY <1>7, <3>1, Updates
    <3> QED BY <1>5, <1>7, <3>2, <3>3
  <2> QED BY <1>6, <2>1 DEF Inv, Typed, Upstreams, Latches
<1>9. PICK c : Only(c)
  BY DEF Inv
<1>10. /\ Stacks' /\ stack'[w] = Tail(stack[w])
       /\ Busy(w)' => Busy(w)
       /\ HandsOn(Head(stack[w])) => ~Busy(w)'
       /\ Asks(w)' => Asks(w)
       /\ \A u \in Workers : u # w => stack'[u] = stack[u] /\ Busy(u)' = Busy(u) /\ Asks(u)' = Asks(u)
  BY <1>1, <1>6, Removes
<1>11. ~Lone(stack'[w])
  BY <1>1, <1>10, Top
<1>12. Latches' = Latches /\ Upstreams' = Upstreams
  BY <1>6 DEF Latches, Upstreams
<1>13. CASE unheard
  <2>1. z'.starts = z.starts /\ z'.i = z.i /\ z'.a = z.a /\ z'.live = z.live /\ dst = "killed"
    BY <1>5, <1>7, <1>13 DEF ZData
  <2>2. Only(c)'
    BY <1>6, <1>9, <1>10, <1>12, <2>1 DEF Only
  <2>3. Filling'
    BY <1>6, <1>10, <2>1, SameFilling DEF Inv
  <2>4. Dying'
    BY <1>6, <2>1 DEF Dying
  <2> QED BY <1>8, <1>10, <2>2, <2>3, <2>4 DEF Inv
<1>14. CASE ~unheard /\ b /\ z.mode = "producer"
  <2>1. Busy(w) /\ HandsOn(Head(stack[w]))
    <3>1. Head(stack[w]).arg[2]
      <4>1. Head(stack[w]).arg[2] = b
        BY <1>1, <1>2
      <4> QED BY <1>14, <4>1
    <3>2. HandsOn(Head(stack[w])) /\ Touches(Head(stack[w]))
      BY <1>1, <3>1 DEF HandsOn, Touches, InCallback
    <3> QED BY <1>1, <3>2, InCharge
  <2>2. z.starts = 0
    BY <1>9, <2>1, Alone
  <2>3. z'.starts = 1 /\ z'.i = z.i /\ z'.a = z.a /\ z'.live = z.live /\ z'.mode = z.mode
    BY <1>5, <1>7, <1>14, <2>2 DEF ZData
  <2>4. Only(<<"start">>)'
    <3>1. \A u \in Workers : ~Busy(u)'
      BY <1>9, <1>10, <2>1, Alone
    <3>2. /\ \A l \in Latches : rq'[l] = 0
          /\ ~(linked' <= Upstreams') /\ (dst' = "open" => z'.live)
      BY <1>6, <1>9, <1>12, <2>1, <2>3, Alone
    <3> QED BY <1>12, <2>3, <3>1, <3>2 DEF Only
  <2>5. Filling'
    BY <1>3, <1>6, <1>10, <1>12, <1>14, <2>3 DEF Inv, Filling
  <2>6. Dying'
    BY <1>6, <1>10, <1>11, <2>3 DEF Inv, Dying
  <2> QED BY <1>8, <1>10, <2>4, <2>5, <2>6 DEF Inv
<1>15. CASE ~unheard /\ ~(b /\ z.mode = "producer")
  BY <1>1, <1>5, <1>6, <1>8, <1>15, Leaves
<1> QED BY <1>13, <1>14, <1>15

LEMMA ZipIterKeeps == ASSUME Inv, NEW w \in Workers, ZipIter(w) PROVE Inv'
<1>1. /\ stack[w] # <<>> /\ Head(stack[w]).at = "iter" /\ Arg(w) \in Data
      /\ At(w, "iter") /\ Stacks /\ call.kind = "zip" /\ Upstreams \in Nat \ {0} /\ Latches = 1..Upstreams
  BY Argument, Some DEF Inv, Typed, ZipIter, At
<1>2. HandsOn(Head(stack[w])) /\ Busy(w) /\ Asks(w)
  BY <1>1, InCharge DEF HandsOn, Touches, InCallback, Asking
<1>3. PICK c : Only(c)
  BY DEF Inv
<1>4. z.i \in 1..Upstreams /\ Len(z.a) = z.i - 1 /\ z.a \in Seq(Data)
  BY <1>1, <1>2 DEF Inv, Filling, Typed, ZData
<1>5. z' = [z EXCEPT !.a = Append(z.a, Arg(w)), !.i = z.i + 1]
  BY DEF ZipIter
<1>6. UNCHANGED <<call, linked, given, closing, tasks, mode, dq, rq, out, dst>>
  BY DEF ZipIter, sourceVars, latchVars
<1>7. z'.a \in Seq(Data) /\ Len(z'.a) = z'.i - 1 /\ z'.i = z.i + 1
  <2>1. z'.a = Append(z.a, Arg(w)) /\ z'.i = z.i + 1
    BY <1>5 DEF Inv, Typed
  <2> QED BY <1>1, <1>4, <2>1
<1>8. Typed'
  <2>1. z' \in ZData
    <3>1. z \in ZData
      BY DEF Inv, Typed
    <3>2. z.i + 1 \in Nat
      BY <1>1, <1>4
    <3>3. Append(z.a, Arg(w)) \in Seq(Data)
      BY <1>1, <1>4
    <3> QED BY <1>5, <3>1, <3>2, <3>3, Updates
  <2> QED BY <1>6, <2>1 DEF Inv, Typed, Upstreams, Latches
<1>9. PICK g : g = IF z.i < Upstreams THEN [at |-> "receive", arg |-> z.i + 1] ELSE [at |-> "check", arg |-> 1]
  OBVIOUS
<1>10. /\ g \in Frame(call) /\ g.at # "task" /\ g = [at |-> g.at, arg |-> g.arg]
       /\ Asking(g) => z.i < Upstreams
  <2>1. CASE z.i < Upstreams
    <3>1. z.i + 1 \in DOMAIN call.counts
      BY <1>1, <1>4, <2>1 DEF Latches
    <3> QED BY <1>9, <2>1, <3>1 DEF Frame
  <2>2. CASE ~(z.i < Upstreams)
    <3>1. 1 \in {l \in DOMAIN call.counts : call.kind = "zip"}
      BY <1>1 DEF Latches
    <3> QED BY <1>9, <2>2, <3>1 DEF Frame, Asking
  <2> QED BY <2>1, <2>2
<1>11. Become(w, Do(g.at, g.arg))
  BY <1>9 DEF ZipIter, Upstreams
<1>12. PICK todo : todo = Do(g.at, g.arg)
  OBVIOUS
<1>13. Steps(call, todo) /\ Len(todo) = 1 /\ todo[1] = g /\ Become(w, todo)
  BY <1>10, <1>11, <1>12, Steps1
<1>14. /\ Stacks' /\ ~Lone(stack'[w])
       /\ \A v \in Workers : v # w => stack'[v] = stack[v] /\ Asks(v)' = Asks(v)
       /\ Asks(w)' => Asking(g)
  BY <1>1, <1>2, <1>6, <1>13, Replaces
<1>15. Filling'
  <2>1. \A v \in Workers : v # w => ~Asks(v)'
    BY <1>2, <1>3, <1>14, Alone, Resting
  <2>2. \A l \in Latches : rq'[l] = 0
    BY <1>2, <1>3, <1>6, Alone
  <2>3. Latches' = Latches /\ Upstreams' = Upstreams /\ call'.kind = "zip"
    BY <1>1, <1>6 DEF Latches, Upstreams
  <2>4. (\E v \in Workers : Asks(v)') => z.i < Upstreams
    BY <1>10, <1>14, <2>1
  <2>5. z'.i \in 1..(Upstreams + 1) /\ (z.i < Upstreams => z'.i <= Upstreams)
    BY <1>1, <1>4, <1>7
  <2> QED BY <1>7, <2>2, <2>3, <2>4, <2>5 DEF Filling
<1>16. z'.starts = z.starts /\ z'.live = z.live /\ z'.mode = z.mode
  BY <1>5 DEF Inv, Typed, ZData
<1> QED BY <1>1, <1>2, <1>6, <1>8, <1>13, <1>15, <1>16, Continues

LEMMA ConcatAdvanceKeeps == ASSUME Inv, NEW w \in Workers, ConcatAdvance(w) PROVE Inv'
<1>1. /\ stack[w] # <<>> /\ Head(stack[w]).at = "advance" /\ call.kind = "concat"
      /\ At(w, "advance") /\ Stacks /\ Upstreams \in Nat \ {0} /\ Latches = 1..Upstreams
  BY Argument, Some DEF Inv, Typed, ConcatAdvance, At
<1>2. HandsOn(Head(stack[w])) /\ Busy(w)
  BY <1>1, InCharge DEF HandsOn, Touches, InCallback
<1>3. PICK c : Only(c)
  BY DEF Inv
<1>4. PICK i : i = IF Finished(z.i) THEN z.i + 1 ELSE z.i
  OBVIOUS
<1>5. i \in Nat /\ i > 0 /\ z.a = <<>>
  <2>1. z.i \in Nat
    BY DEF Inv, Typed, ZData
  <2>2. z.a = <<>> /\ z.i > 0
    BY <1>1 DEF Inv, Filling
  <2> QED BY <1>4, <2>1, <2>2
<1>6. z' = [z EXCEPT !.i = i] /\ UNCHANGED <<call, linked, given, closing, tasks, mode, dq, rq, out, dst>>
  BY <1>4 DEF ConcatAdvance, sourceVars, latchVars
<1>7. Typed'
  <2>1. z' \in ZData
    BY <1>5, <1>6, Updates DEF Inv, Typed
  <2> QED BY <1>6, <2>1 DEF Inv, Typed, Upstreams, Latches
<1>8. PICK g : g = IF i <= Upstreams THEN [at |-> "receive", arg |-> i] ELSE [at |-> "close", arg |-> 0]
  OBVIOUS
<1>9. g \in Frame(call) /\ g.at # "task" /\ g = [at |-> g.at, arg |-> g.arg]
  <2>1. CASE i <= Upstreams
    <3>1. i \in DOMAIN call.counts
      BY <1>1, <1>5, <2>1 DEF Latches
    <3> QED BY <1>8, <2>1, <3>1 DEF Frame
  <2>2. CASE ~(i <= Upstreams)
    BY <1>8, <2>2 DEF Frame
  <2> QED BY <2>1, <2>2
<1>10. Become(w, Do(g.at, g.arg))
  BY <1>4, <1>8 DEF ConcatAdvance, Upstreams
<1>11. PICK todo : todo = Do(g.at, g.arg)
  OBVIOUS
<1>12. Steps(call, todo) /\ Become(w, todo)
  BY <1>9, <1>10, <1>11, Steps1
<1>13. Filling'
  <2>1. z'.starts = 0 /\ ~(linked' <= Upstreams') /\ z'.a = <<>> /\ z'.i > 0
    <3>1. z.starts = 0 /\ ~(linked <= Upstreams)
      BY <1>2, <1>3, Alone
    <3> QED BY <1>5, <1>6, <3>1 DEF Upstreams, Inv, Typed
  <2> QED BY <1>1, <1>6, <2>1 DEF Filling
<1>14. z'.starts = z.starts /\ z'.live = z.live /\ z'.mode = z.mode
  BY <1>6 DEF Inv, Typed, ZData
<1> QED BY <1>1, <1>2, <1>6, <1>7, <1>12, <1>13, <1>14, Continues

-----------------------------------------------------------------------------
(* The end of the stream and of a task.                                    *)

LEMMA CloseSelfKeeps == ASSUME Inv, NEW w \in Workers, CloseSelf(w) PROVE Inv'
<1>1. stack[w] # <<>> /\ Head(stack[w]).at = "close" /\ At(w, "close") /\ Stacks /\ z \in ZData
  BY DEF Inv, Typed, CloseSelf, At
<1>2. Become(w, <<>>) /\ UNCHANGED <<call, linked, given, closing, tasks, mode, dq, rq, out, dst>>
  BY DEF CloseSelf, sourceVars, latchVars
<1>3. CASE z.mode = "killed"
  <2>1. z' = z
    BY <1>3 DEF CloseSelf
  <2>2. Typed'
    BY <1>2, <2>1 DEF Inv, Typed, Upstreams, Latches
  <2> QED BY <1>1, <1>2, <2>1, <2>2, Leaves
<1>4. CASE z.mode # "killed"
  <2>1. z' = [z EXCEPT !.mode = "killed", !.live = FALSE]
    BY <1>4 DEF CloseSelf
  <2>2. z' \in ZData /\ z'.mode = "killed" /\ z'.starts = z.starts /\ z'.i = z.i /\ z'.a = z.a
    BY <1>1, <2>1, Updates DEF ZData
  <2>3. Typed'
    BY <1>2, <2>2 DEF Inv, Typed, Upstreams, Latches
  <2>4. /\ Stacks' /\ stack'[w] = Tail(stack[w])
        /\ ~Busy(w)'
        /\ Asks(w)' => Asks(w)
        /\ \A u \in Workers : u # w => stack'[u] = stack[u] /\ Busy(u)' = Busy(u) /\ Asks(u)' = Asks(u)
    <3>1. HandsOn(Head(stack[w]))
      BY <1>1 DEF HandsOn
    <3> QED BY <1>1, <1>2, <3>1, Removes
  <2>5. ~Lone(stack'[w])
    BY <1>1, <2>4, Top
  <2>6. Filling'
    BY <1>2, <2>2, <2>4, SameFilling DEF Inv
  <2>7. Dying'
    BY <1>2, <2>2, <2>4, <2>5 DEF Inv, Dying
  <2>8. PICK c : Only(c)
    BY DEF Inv
  <2>9. \E d : Only(d)'
    <3>1. CASE dst = "killed"
      BY <1>2, <2>2, <2>4, <2>8, <3>1 DEF Only, Upstreams, Latches
    <3>2. CASE dst # "killed"
      <4>1. Busy(w)
        <5>1. ~Lone(stack[w])
          BY <3>2 DEF Inv, Dying
        <5>2. Stack(call, stack[w]) /\ Touches(Head(stack[w]))
          BY <1>1 DEF Stacks, Touches
        <5>3. ~Quiet(stack[w])
          BY <1>1, <5>2, Popped
        <5> QED BY <5>1, <5>3 DEF Busy
      <4>2. \A u \in Workers : ~Busy(u)'
        BY <2>4, <2>8, <4>1, Alone
      <4>3. z.starts = 0 /\ (\A l \in Latches : rq[l] = 0) /\ ~(linked <= Upstreams)
        BY <2>8, <4>1, Alone
      <4>4. Only(<<"dead">>)'
        BY <1>2, <2>2, <4>2, <4>3 DEF Only, Upstreams, Latches
      <4> QED BY <4>4
    <3> QED BY <3>1, <3>2
  <2> QED BY <2>3, <2>4, <2>6, <2>7, <2>9 DEF Inv
<1> QED BY <1>3, <1>4

\* A step by which a worker comes to a stack without a cursor.
LEMMA Starts ==
  ASSUME Inv, NEW w \in Workers, NEW s, Stack(call, s), stack' = [stack EXCEPT ![w] = s],
         Quiet(s) \/ (Lone(s) /\ dst = "killed"), Lone(s) => dst = "killed", Typed',
         call' = call, linked' = linked, rq' = rq, dst' = dst, z' = z
  PROVE  Inv'
<1>1. /\ Stacks' /\ stack'[w] = s
      /\ \A v \in Workers : v # w => /\ stack'[v] = stack[v]
                                    /\ Busy(v)' = Busy(v) /\ Asks(v)' = Asks(v)
  BY Changed DEF Inv
<1>2. ~Busy(w)'
  BY <1>1 DEF Busy
<1>3. ~Asks(w)'
  <2>1. Quiet(s) => ~Asks(w)'
    BY <1>1 DEF Quiet, Asks, Asking, Touches, InCallback
  <2>2. Lone(s) => ~Asks(w)'
    BY <1>1 DEF Lone, Asks, Asking
  <2> QED BY <2>1, <2>2
<1>4. PICK c : Only(c)
  BY DEF Inv
<1>5. Only(c)'
  BY <1>1, <1>2, <1>4 DEF Only, Upstreams, Latches
<1>6. Filling'
  BY <1>1, <1>3, SameFilling DEF Inv
<1>7. Dying'
  BY <1>1 DEF Inv, Dying
<1> QED BY <1>1, <1>5, <1>6, <1>7 DEF Inv

LEMMA EndTaskKeeps == ASSUME Inv, NEW w \in Workers, EndTask(w) PROVE Inv'
<1>1. /\ stack[w] # <<>> /\ Head(stack[w]).at = "task" /\ At(w, "task") /\ Stacks
      /\ Stack(call, stack[w])
  BY DEF Inv, Stacks, EndTask, At
<1>2. UNCHANGED <<call, linked, given, closing, tasks, mode, dq, rq, out, dst, z>>
  BY DEF EndTask, sourceVars, latchVars
<1>3. Typed'
  BY <1>2 DEF Inv, Typed, Upstreams, Latches
<1>4. CASE ~(Arg(w) = 0 /\ z.mode = "dying")
  <2>1. Become(w, <<>>)
    BY <1>4 DEF EndTask
  <2> QED BY <1>1, <1>2, <1>3, <2>1, Leaves
<1>5. CASE Arg(w) = 0 /\ z.mode = "dying"
  <2>1. PICK f : f = [at |-> "close", arg |-> 0]
    OBVIOUS
  <2>2. f \in Frame(call) /\ f.at = "close"
    BY <2>1 DEF Frame
  <2>3. PICK s : s = <<f>>
    OBVIOUS
  <2>4. Tail(stack[w]) = <<>>
    BY <1>1, Popped
  <2>5. stack' = [stack EXCEPT ![w] = s]
    <3>1. <<f>> \o <<>> = <<f>>
      BY <2>2, ConcatEmptySeq
    <3>2. Become(w, <<f>>)
      BY <1>5, <2>1 DEF EndTask, Do
    <3> QED BY <2>3, <2>4, <3>1, <3>2 DEF Become
  <2>6. Stack(call, s) /\ Lone(s)
    <3>1. s \in Seq(Frame(call)) /\ Len(s) = 1 /\ s[1] = f
      BY <2>2, <2>3
    <3> QED BY <2>2, <3>1 DEF Stack, Lone
  <2>7. dst = "killed"
    BY <1>5 DEF Inv, Dying
  <2> QED BY <1>2, <1>3, <2>5, <2>6, <2>7, Starts
<1> QED BY <1>4, <1>5

-----------------------------------------------------------------------------
(* The main thread, the upstreams, the downstream and the tasks.           *)

LEMMA Stays == ASSUME Inv, Typed', UNCHANGED <<call, linked, rq, z, stack>>,
                      dst' = dst \/ dst' = "killed"
               PROVE  Inv'
<1>1. PICK c : Only(c)
  BY DEF Inv
<1>2. Only(c)'
  BY <1>1 DEF Only, Upstreams, Latches, Busy
<1>3. Stacks' /\ Dying'
  BY DEF Inv, Stacks, Dying
<1>4. Filling'
  BY DEF Inv, Filling, Asks, Upstreams, Latches
<1> QED BY <1>2, <1>3, <1>4 DEF Inv

LEMMA EnoughKeeps == ASSUME Inv, NEW w \in Workers, Enough(w) PROVE Inv'
<1>1. Typed'
  BY DEF Enough, Inv, Typed, Upstreams, Latches, sourceVars, latchVars
<1> QED BY <1>1, Stays DEF Enough, sourceVars, latchVars

LEMMA SourceKeeps ==
  ASSUME Inv, NEW w \in Workers, NEW l \in Latches, Source(w, l) PROVE Inv'
<1>1. /\ given \in [Latches -> Nat] /\ tasks \in [Latches -> Seq(Data)]
      /\ (\A m \in Latches : given[m] <= call.counts[m]) /\ call.counts \in [Latches -> Nat]
      /\ Latches \subseteq Nat
  BY Some DEF Inv, Typed
<1>2. \A d \in Data : [tasks EXCEPT ![l] = Append(@, d)] \in [Latches -> Seq(Data)]
  BY <1>1
<1>3. Nil \in Data /\ <<l, given[l] + 1>> \in Data
  BY <1>1 DEF Data
<1>4. tasks' \in [Latches -> Seq(Data)]
  BY <1>1, <1>2, <1>3 DEF Source
<1>5. given' \in [Latches -> Nat] /\ \A m \in Latches : given'[m] <= call.counts[m]
  <2>1. given' = given \/ (given[l] < call.counts[l] /\ given' = [given EXCEPT ![l] = given[l] + 1])
    BY DEF Source
  <2>2. given[l] \in Nat /\ call.counts[l] \in Nat
    BY <1>1
  <2> QED BY <1>1, <2>1, <2>2
<1>6. Typed'
  BY <1>4, <1>5 DEF Source, Inv, Typed, Upstreams, Latches
<1> QED BY <1>6, Stays DEF Source

\* The frame of a task.
LEMMA TaskFrame ==
  ASSUME NEW c, NEW n \in Nat, NEW t, t = [at |-> "task", arg |-> n]
  PROVE  Stack(c, <<t>>) /\ Quiet(<<t>>) /\ <<t>> # <<>> /\ ~Lone(<<t>>) /\ <<>> \o <<t>> = <<t>>
<1>1. t \in Frame(c) /\ t.at = "task"
  BY DEF Frame
<1>2. <<t>> \in Seq(Frame(c)) /\ Len(<<t>>) = 1 /\ <<t>>[1] = t
  BY <1>1
<1>3. <<>> \o <<t>> = <<t>>
  BY <1>2, ConcatEmptySeq
<1> QED BY <1>1, <1>2, <1>3 DEF Stack, Quiet, Lone, Touches, InCallback

LEMMA ExecKeeps ==
  ASSUME Inv, NEW w \in Workers, NEW l \in Latches, Exec(w, l) PROVE Inv'
<1>1. UNCHANGED <<call, linked, given, closing, mode, dq, rq, out, dst, z>>
  BY DEF Exec, sourceVars
<1>2. tasks[l] \in Seq(Data) /\ tasks[l] # <<>> /\ l \in Nat /\ l \in DOMAIN call.counts
  BY Some DEF Exec, Inv, Typed, Latches
<1>3. Typed'
  <2>1. tasks' \in [Latches -> Seq(Data)]
    <3>1. Tail(tasks[l]) \in Seq(Data)
      BY <1>2, HeadTailProperties
    <3>2. tasks' = [tasks EXCEPT ![l] = Tail(tasks[l])] /\ tasks \in [Latches -> Seq(Data)]
      BY DEF Exec, Inv, Typed
    <3> QED BY <3>1, <3>2
  <2> QED BY <1>1, <2>1 DEF Inv, Typed, Upstreams, Latches
<1>4. PICK d \in Data : d = Head(tasks[l])
  BY <1>2, HeadTailProperties
<1>5. PICK f : f = IF d = Nil THEN [at |-> "kill", arg |-> l] ELSE [at |-> "push", arg |-> <<l, d>>]
  OBVIOUS
<1>6. f \in Frame(call) /\ f.at \in {"kill", "push"}
  <2>1. <<l, d>> \in (DOMAIN call.counts) \X Data
    BY <1>2
  <2>2. [at |-> "push", arg |-> <<l, d>>] \in Frame(call) /\ [at |-> "kill", arg |-> l] \in Frame(call)
    BY <1>2, <2>1 DEF Frame
  <2> QED BY <1>5, <2>2
<1>7. PICK t : t = [at |-> "task", arg |-> l]
  OBVIOUS
<1>8. Stack(call, <<t>>) /\ Quiet(<<t>>) /\ <<t>> # <<>> /\ ~Lone(<<t>>) /\ <<>> \o <<t>> = <<t>>
  BY <1>2, <1>7, TaskFrame
<1>9. stack' = [stack EXCEPT ![w] = (IF mode[l] = "killed" THEN <<>> ELSE <<f>>) \o <<t>>]
  BY <1>4, <1>5, <1>7 DEF Exec, Do
<1>10. CASE mode[l] = "killed"
  <2>1. stack' = [stack EXCEPT ![w] = <<t>>]
    BY <1>8, <1>9, <1>10
  <2> QED BY <1>1, <1>3, <1>8, <2>1, Starts
<1>11. CASE mode[l] # "killed"
  <2>1. PICK s : s = <<f>> \o <<t>>
    OBVIOUS
  <2>2. <<f>> \in Seq(Frame(call)) /\ <<f>> # <<>> /\ Len(<<f>>) = 1 /\ <<f>>[1] = f
    BY <1>6
  <2>3. Steps(call, <<f>>) /\ Quiet(<<f>>)
    BY <1>6, <2>2 DEF Steps, Quiet, Touches, InCallback
  <2>4. Stack(call, s) /\ ~Lone(s) /\ Quiet(s)
    BY <1>8, <2>1, <2>3, PushedOn
  <2>5. stack' = [stack EXCEPT ![w] = s]
    BY <1>9, <1>11, <2>1
  <2> QED BY <1>1, <1>3, <2>4, <2>5, Starts
<1> QED BY <1>10, <1>11

LEMMA StartKeeps == ASSUME Inv, NEW w \in Workers, Start(w) PROVE Inv'
<1>1. UNCHANGED <<call, linked, given, closing, tasks, mode, dq, rq, out, dst>>
  BY DEF Start, sourceVars, latchVars
<1>2. /\ Upstreams \in Nat \ {0} /\ Latches = 1..Upstreams /\ call.kind \in {"zip", "concat"}
      /\ z \in ZData /\ Filling /\ Stacks
  BY Some DEF Inv, Typed
<1>3. PICK c : Only(c)
  BY DEF Inv
<1>4. c = <<"start">> /\ z.starts = 1
  BY <1>2, <1>3 DEF Start, Only
<1>5. /\ \A l \in Latches : rq[l] = 0
      /\ \A v \in Workers : ~Busy(v) /\ ~Asks(v)
      /\ ~(linked <= Upstreams)
      /\ dst = "open" => z.live
  BY <1>3, <1>4, Resting DEF Only
<1>6. z' = (IF z.live /\ call.kind = "zip" /\ z.mode # "killed"
           THEN [z EXCEPT !.starts = 0, !.i = 1, !.a = <<>>] ELSE [z EXCEPT !.starts = 0])
  BY <1>2, <1>4 DEF Start, ZData
<1>7. /\ z' \in ZData /\ z'.starts = 0 /\ z'.live = z.live /\ z'.mode = z.mode
      /\ (z'.i = 1 /\ z'.a = <<>>) \/ (z'.i = z.i /\ z'.a = z.a)
      /\ z.live /\ z.mode # "killed" => z'.i = 1
  <2>1. z' \in ZData
    BY <1>2, <1>6, Updates
  <2>2. call.kind = "concat" => z.i = 1
    BY <1>2, <1>4 DEF Filling
  <2> QED BY <1>2, <1>6, <2>1, <2>2 DEF ZData
<1>8. Typed'
  BY <1>1, <1>7 DEF Inv, Typed, Upstreams, Latches
<1>9. PICK t : t = [at |-> "task", arg |-> 0]
  OBVIOUS
<1>10. Stack(call, <<t>>) /\ Quiet(<<t>>) /\ <<t>> # <<>> /\ ~Lone(<<t>>) /\ <<>> \o <<t>> = <<t>>
  BY <1>9, TaskFrame
<1>11. PICK f : f = [at |-> "receive", arg |-> 1]
  OBVIOUS
<1>12. f \in Frame(call) /\ f.at = "receive"
  <2>1. 1 \in DOMAIN call.counts
    BY <1>2 DEF Latches
  <2> QED BY <1>11, <2>1 DEF Frame
<1>13. stack' = [stack EXCEPT ![w] = (IF z.live /\ z.mode # "killed" THEN <<f>> ELSE <<>>) \o <<t>>]
  <2>1. (IF call.kind = "zip" THEN 1 ELSE z.i) = 1
    BY <1>2, <1>4 DEF Filling
  <2> QED BY <1>9, <1>11, <2>1 DEF Start, Do
<1>14. PICK s : s = (IF z.live /\ z.mode # "killed" THEN <<f>> ELSE <<>>) \o <<t>>
  OBVIOUS
<1>15. Stack(call, s) /\ ~Lone(s)
  <2>1. CASE z.live /\ z.mode # "killed"
    <3>1. <<f>> \in Seq(Frame(call)) /\ <<f>> # <<>> /\ Len(<<f>>) = 1 /\ <<f>>[1] = f
      BY <1>12
    <3>2. Steps(call, <<f>>)
      BY <1>12, <3>1 DEF Steps
    <3> QED BY <1>10, <1>14, <2>1, <3>2, PushedOn
  <2>2. CASE ~(z.live /\ z.mode # "killed")
    BY <1>10, <1>14, <2>2
  <2> QED BY <2>1, <2>2
<1>16. /\ Stacks' /\ stack'[w] = s
       /\ \A v \in Workers : v # w => /\ stack'[v] = stack[v]
                                     /\ Busy(v)' = Busy(v) /\ Asks(v)' = Asks(v)
  BY <1>1, <1>2, <1>13, <1>14, <1>15, Changed
<1>17. Latches' = Latches /\ Upstreams' = Upstreams
  BY <1>1 DEF Latches, Upstreams
<1>18. Only(<<"worker", w>>)'
  <2>1. \A v \in Workers : v # w => ~Busy(v)'
    BY <1>5, <1>16
  <2> QED BY <1>1, <1>5, <1>7, <1>17, <2>1 DEF Only
<1>19. Filling'
  <2>1. CASE z.live /\ z.mode # "killed"
    <3>1. z'.i = 1 /\ (call.kind = "zip" => z'.a = <<>>) /\ (call.kind # "zip" => z'.a = z.a)
      BY <1>2, <1>6, <1>7, <2>1 DEF ZData
    <3>2. Len(<<>>) = 0
      BY EmptySeq
    <3> QED BY <1>1, <1>2, <1>7, <1>17, <3>1, <3>2 DEF Filling
  <2>2. CASE ~(z.live /\ z.mode # "killed")
    <3>1. s = <<t>> /\ z'.i = z.i /\ z'.a = z.a
      BY <1>2, <1>6, <1>10, <1>14, <2>2 DEF ZData
    <3>2. ~Asks(w)'
      BY <1>10, <1>16, <3>1 DEF Quiet, Asks, Asking, Touches, InCallback
    <3>3. \A v \in Workers : ~Asks(v)'
      BY <1>5, <1>16, <3>2
    <3> QED BY <1>1, <1>2, <1>5, <1>7, <1>17, <3>1, <3>3 DEF Filling
  <2> QED BY <2>1, <2>2
<1>20. Dying'
  BY <1>1, <1>7, <1>15, <1>16 DEF Inv, Dying
<1> QED BY <1>8, <1>16, <1>18, <1>19, <1>20 DEF Inv

LEMMA ConnectKeeps == ASSUME Inv, Connect PROVE Inv'
<1>1. UNCHANGED <<call, given, closing, tasks, mode, dq, rq, out, dst, stack>>
  BY DEF Connect, latchVars
<1>2. Upstreams \in Nat \ {0} /\ z \in ZData /\ linked \in 0..(Upstreams + 1) /\ Filling
  BY Some DEF Inv, Typed
<1>3. linked <= Upstreams /\ linked' = linked + 1
  BY DEF Connect, Upstreams
<1>4. PICK c : Only(c)
  BY DEF Inv
<1>5. c = <<"unborn">> /\ z.starts = 0
  BY <1>3, <1>4 DEF Only
<1>6. /\ z' \in ZData /\ z'.i = z.i /\ z'.a = z.a /\ z'.live = z.live /\ z'.mode = z.mode
      /\ z'.starts = IF linked = Upstreams THEN 1 ELSE 0
  <2>1. z' = IF linked = Upstreams THEN [z EXCEPT !.starts = 1] ELSE z
    BY DEF Connect, Upstreams
  <2>2. z' \in ZData
    BY <1>2, <2>1, Updates
  <2> QED BY <1>2, <1>5, <2>1, <2>2 DEF ZData
<1>7. Latches' = Latches /\ Upstreams' = Upstreams
  BY <1>1 DEF Latches, Upstreams
<1>8. Typed'
  <2>1. linked' \in 0..(Upstreams + 1)
    BY <1>2, <1>3
  <2> QED BY <1>1, <1>6, <1>7, <2>1 DEF Inv, Typed
<1>9. /\ \A l \in Latches : rq'[l] = 0
      /\ \A w \in Workers : ~Busy(w)'
      /\ dst' = "open" => z'.live
  BY <1>1, <1>4, <1>5, <1>6 DEF Only, Busy
<1>10. \E d : Only(d)'
  <2>1. CASE linked = Upstreams
    <3>1. ~(linked' <= Upstreams') /\ z'.starts = 1
      BY <1>2, <1>3, <1>6, <1>7, <2>1
    <3>2. Only(<<"start">>)'
      BY <1>7, <1>9, <3>1 DEF Only
    <3> QED BY <3>2
  <2>2. CASE linked # Upstreams
    <3>1. Only(<<"unborn">>)'
      BY <1>6, <1>7, <1>9, <2>2 DEF Only
    <3> QED BY <3>1
  <2> QED BY <2>1, <2>2
<1>11. Filling'
  BY <1>1, <1>2, <1>3, <1>6, <1>7 DEF Filling, Asks
<1>12. Stacks' /\ Dying'
  BY <1>1, <1>6 DEF Inv, Stacks, Dying
<1> QED BY <1>8, <1>10, <1>11, <1>12 DEF Inv

-----------------------------------------------------------------------------
LEMMA InitInv == Init => Inv
<1> SUFFICES ASSUME Init PROVE Inv
  OBVIOUS
<1>1. /\ Upstreams \in Nat \ {0} /\ Latches = 1..Upstreams /\ call.kind \in {"zip", "concat"}
      /\ call.counts \in [Latches -> Nat]
  BY Some DEF Init
<1>2. <<>> \in Seq(Data) /\ Len(<<>>) = 0
  BY EmptySeq
<1>3. z \in ZData /\ z.i = 1 /\ z.a = <<>> /\ z.live /\ z.starts = 0 /\ z.mode = "producer"
  BY <1>2 DEF Init, ZData
<1>4. Typed
  BY <1>1, <1>2, <1>3 DEF Init, Typed
<1>5. \A w \in Workers : stack[w] = <<>>
  BY DEF Init
<1>6. Stacks /\ \A w \in Workers : ~Busy(w) /\ ~Lone(stack[w]) /\ ~Asks(w)
  <2>1. <<>> \in Seq(Frame(call))
    BY EmptySeq
  <2>2. \A w \in Workers : Stack(call, stack[w]) /\ Quiet(stack[w]) /\ ~Lone(stack[w])
    BY <1>5, Empty
  <2>3. \A w \in Workers : ~Busy(w)
    BY <2>2 DEF Busy
  <2> QED BY <2>1, <2>2, <2>3, Resting DEF Init, Stacks
<1>7. Dying
  BY <1>3, <1>6 DEF Dying
<1>8. \A l \in Latches : rq[l] = 0
  BY DEF Init
<1>9. Filling
  BY <1>1, <1>2, <1>3, <1>6, <1>8 DEF Filling
<1>10. Only(<<"unborn">>)
  BY <1>3, <1>6, <1>8 DEF Only
<1> QED BY <1>4, <1>6, <1>7, <1>9, <1>10 DEF Inv

LEMMA NextInv == Inv /\ [Next]_vars => Inv'
<1> SUFFICES ASSUME Inv, [Next]_vars PROVE Inv'
  OBVIOUS
<1>1. CASE Connect
  BY <1>1, ConnectKeeps
<1>2. ASSUME NEW w \in Workers, Work(w) PROVE Inv'
  BY <1>2, EndTaskKeeps, CloseSelfKeeps, PushKeeps, PushedKeeps, QueueKeeps, ReceiveKeeps, WaitKeeps,
     CloseLatchKeeps, DrainKeeps, EmitKeeps, HeardKeeps, ZipIterKeeps, ZipCheckKeeps, ZipFinishKeeps,
     ConcatIterKeeps, ConcatAdvanceKeeps DEF Work
<1>3. ASSUME NEW w \in Workers, Start(w) \/ Enough(w) PROVE Inv'
  BY <1>3, StartKeeps, EnoughKeeps
<1>4. ASSUME NEW w \in Workers, NEW l \in Latches, Source(w, l) \/ Exec(w, l) PROVE Inv'
  BY <1>4, SourceKeeps, ExecKeeps
<1>5. CASE UNCHANGED vars
  <2>1. Typed'
    BY <1>5 DEF vars, Inv, Typed, Upstreams, Latches, sourceVars, latchVars
  <2> QED BY <1>5, <2>1, Stays DEF vars, sourceVars, latchVars
<1> QED BY <1>1, <1>2, <1>3, <1>4, <1>5 DEF Next

LEMMA InvInvariant == Spec => []Inv
BY InitInv, NextInv, PTL DEF Spec

\* A worker in a callback is busy.
LEMMA HoldersBusy == ASSUME Inv, NEW w \in Holders PROVE w \in Workers /\ Busy(w)
<1>1. w \in Workers /\ stack[w] \in Seq(Frame(call))
  BY DEF Inv, Stacks, Holders
<1>2. PICK k \in 1..Len(stack[w]) : InCallback(stack[w][k])
  BY <1>1, LenProperties DEF Holders
<1>3. ~Quiet(stack[w])
  BY <1>2 DEF Quiet, Touches
<1>4. ~Lone(stack[w])
  BY <1>2 DEF Lone, InCallback
<1> QED BY <1>1, <1>3, <1>4 DEF Busy

\* zip_iter and concat_iter run on the worker of whichever latch has the datum,
\* without excl of the stream whose data they change: only one worker, waiting
\* receiver or task zip_start at a time can go on with it.
THEOREM OneGoesOn == Spec => []OneCursor
<1>1. ASSUME Inv PROVE OneCursor
  <2>1. PICK c : Only(c)
    BY <1>1 DEF Inv
  <2>2. \A k \in 1..z.starts : k = 1 /\ c = <<"start">>
    BY <2>1 DEF Only
  <2>3. \A l \in Latches : \A k \in 1..rq[l] : k = 1 /\ c = <<"receiver", l>>
    BY <2>1 DEF Only
  <2>4. \A w \in Holders : c = <<"worker", w>>
    BY <1>1, <2>1, HoldersBusy DEF Only
  <2>5. ASSUME NEW a \in Cursors, NEW b \in Cursors PROVE a = b
    <3>1. \/ \E k \in 1..z.starts : a = <<"start", k>>
          \/ \E w \in Holders : a = <<"worker", w>>
          \/ \E l \in Latches : \E k \in 1..rq[l] : a = <<"receiver", l, k>>
      BY DEF Cursors
    <3>2. \/ \E k \in 1..z.starts : b = <<"start", k>>
          \/ \E w \in Holders : b = <<"worker", w>>
          \/ \E l \in Latches : \E k \in 1..rq[l] : b = <<"receiver", l, k>>
      BY DEF Cursors
    <3>3. \/ c = <<"start">> /\ a = <<"start", 1>>
          \/ \E w \in Holders : c = <<"worker", w>> /\ a = <<"worker", w>>
          \/ \E l \in Latches : c = <<"receiver", l>> /\ a = <<"receiver", l, 1>>
      BY <2>2, <2>3, <2>4, <3>1
    <3>4. \/ c = <<"start">> /\ b = <<"start", 1>>
          \/ \E w \in Holders : c = <<"worker", w>> /\ b = <<"worker", w>>
          \/ \E l \in Latches : c = <<"receiver", l>> /\ b = <<"receiver", l, 1>>
      BY <2>2, <2>3, <2>4, <3>2
    <3> QED BY <3>3, <3>4
  <2> QED BY <2>5 DEF OneCursor
<1> QED BY <1>1, InvInvariant, PTL

\* Types; no upstream passes on more than it has got, no latch has two receivers,
\* no array of zip more elements than zip has upstreams, and the data of the
\* stream is there as long as the downstream listens and a worker is in a
\* callback.
THEOREM TypeCorrect == Spec => []TypeOK
<1>1. ASSUME Inv PROVE TypeOK
  <2>1. PICK c : Only(c)
    BY <1>1 DEF Inv
  <2>2. \A l \in Latches : rq[l] \in {0, 1}
    BY <2>1 DEF Only
  <2>3. Len(z.a) <= Upstreams
    <3>1. Upstreams \in Nat /\ call.kind \in {"zip", "concat"} /\ Filling
      BY <1>1, Some DEF Inv, Typed
    <3>2. Len(<<>>) = 0
      BY EmptySeq
    <3> QED BY <3>1, <3>2 DEF Filling
  <2>4. Holders # {} /\ dst = "open" => z.live
    BY <1>1, <2>1, HoldersBusy, Alone
  <2> QED BY <1>1, <2>2, <2>3, <2>4 DEF Inv, Typed, ZData, TypeOK, Upstreams
<1> QED BY <1>1, InvInvariant, PTL
================================================================================
