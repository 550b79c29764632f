----------------------------- MODULE ClosingProofs -----------------------------
(***************************************************************************)
(* Every stream is closed once and stream_count counts the open ones, so   *)
(* that strm_loop waits for all of them: for any number of streams and     *)
(* workers and every program in which no close_func emits.                 *)
(*                                                                         *)
(* And for every program, DeliversOnwards: what comes to a stream from its *)
(* only upstream comes in order and without a gap until the stream closes. *)
(* The second half of the module proves it.  Its invariant, Gapless, says  *)
(* of every stream where it is in passing an element on (Stage), and of    *)
(* every connection that what was emitted, from some element on, is what   *)
(* has come, then what is queued, then the element in flight (Flow).       *)
(***************************************************************************)
EXTENDS SchedulerProofs, Induction, FiniteSetTheorems

\* No stream of the program emits when it is closed.  One that does and finds that
\* nobody listens goes from killed to dying and is closed a second time.
Quiet ==
  \A p \in Scripts : \A i \in 1..Len(p) : p[i].op = "new" => p[i].kind \notin {"sort", "reduce"}

-----------------------------------------------------------------------------
(* The inductive invariant.                                                *)

\* What the main thread does, what every thread does, and what a worker does
\* on behalf of the stream it holds.
Building == {"new", "connect", "ref", "start"}
Pushing == {"push", "addTask", "addStream"}
Own == {"emit", "dropDst", "emitRest", "check", "seqNext", "takeNext", "after",
        "close", "kill", "closeDst", "closeRest", "countDown"}

\* The steps after which a callback does not emit any more.
Late == {"takeNext", "after", "close", "kill"}

\* A step that thread t may have on its agenda.
Fit(t, o) ==
  /\ o.op \in Pushing \cup (IF t = Main THEN Building ELSE Own)
  /\ o.op \in Own => o.s = cur[t]
  /\ o.op = "new" => mode[o.s] = "none" /\ o.kind \notin {"sort", "reduce"}
  /\ o.op \notin {"new", "connect"} => mode[o.s] # "none"
  /\ o.op \in {"emit", "check"} => mode[o.s] # "killed"
  /\ o.op = "kill" => o.mode # "killed"
  /\ o.op = "countDown" => mode[o.s] = "killed"

\* A step o that comes before a step p in one agenda.
Before(o, p) ==
  /\ o.op \in Late => p.op \notin {"emit", "check", "countDown"}
  /\ o.op = "countDown" => p.op # "countDown"
  /\ o.op = "new" => p.op # "new" \/ p.s # o.s

Orderly(q) == \A j \in 1..Len(q) : \A i \in 1..(j - 1) : Before(q[i], q[j])

Agendas == \A t \in Threads : /\ Orderly(agenda[t])
                              /\ \A i \in 1..Len(agenda[t]) : Fit(t, agenda[t][i])

\* What is connected exists, or its creation comes first.
Prepared ==
  \A j \in 1..Len(agenda[Main]) : LET o == agenda[Main][j] IN
    o.op = "connect" => \A x \in {o.s, o.dst} : mode[x] = "none" =>
      \E i \in 1..(j - 1) : agenda[Main][i].op = "new" /\ agenda[Main][i].s = x

\* Whatever is referred to exists.
Known(s) == s # NoStream => mode[s] # "none"

Exists ==
  /\ \A s \in Streams : Known(dst[s]) /\ \A i \in 1..Len(rest[s]) : Known(rest[s][i])
  /\ \A i \in 1..Len(queue) : Known(queue[i])
  /\ \A i \in 1..Len(prodQueue) : Known(prodQueue[i])
  /\ \A w \in Workers : Known(cur[w])

Silent == \A s \in Streams : kind[s] \notin {"sort", "reduce"}

KilledOnce == \A s \in Streams : kills[s] = IF mode[s] = "killed" THEN 1 ELSE 0

Live == {s \in Streams : mode[s] \notin {"none", "killed"} \/ InAgenda(CountDownOp(s))}
Counting == IsFiniteSet(Live) /\ streamCount = Cardinality(Live)

AtDone == pc[Main] = "done" => streamCount = 0

Closings == Agendas /\ Prepared /\ Exists /\ Silent /\ KilledOnce
Closing == ExclusiveInv /\ Places /\ Closings /\ Counting /\ AtDone

-----------------------------------------------------------------------------
(* Order.                                                                  *)

\* A step that may take the place of h: all that may follow h may follow it.
Inherits(h, o) ==
  /\ o.op \notin {"new", "connect"}
  /\ o.op \in Late \cup {"countDown"} => h.op \in Late

LEMMA Inheriting ==
  ASSUME NEW h, NEW o, NEW p, Inherits(h, o), Before(h, p)
  PROVE  Before(o, p)
BY DEF Inherits, Before, Late

LEMMA OrderlyTail ==
  ASSUME NEW q \in Seq(Ops), q # <<>>, Orderly(q)
  PROVE  /\ Orderly(Tail(q))
         /\ \A j \in 1..Len(Tail(q)) : Before(Head(q), Tail(q)[j])
<1>1. /\ Len(q) \in Nat \ {0} /\ Head(q) = q[1] /\ Len(Tail(q)) = Len(q) - 1
      /\ \A j \in 1..Len(Tail(q)) : Tail(q)[j] = q[j + 1]
  OBVIOUS
<1>2. ASSUME NEW j \in 1..Len(Tail(q)), NEW i \in 1..(j - 1)
      PROVE  Before(Tail(q)[i], Tail(q)[j])
  <2>1. j + 1 \in 1..Len(q) /\ i + 1 \in 1..((j + 1) - 1) /\ i \in 1..Len(Tail(q))
    BY <1>1
  <2> QED BY <1>1, <2>1 DEF Orderly
<1>3. ASSUME NEW j \in 1..Len(Tail(q)) PROVE Before(Head(q), Tail(q)[j])
  <2>1. j + 1 \in 1..Len(q) /\ 1 \in 1..((j + 1) - 1)
    BY <1>1
  <2> QED BY <1>1, <2>1 DEF Orderly
<1> QED BY <1>2, <1>3 DEF Orderly

LEMMA OrderlyJoin ==
  ASSUME NEW h, NEW ops \in Seq(Ops), NEW q \in Seq(Ops), Orderly(ops), Orderly(q),
         \A i \in 1..Len(ops) : Inherits(h, ops[i]), \A j \in 1..Len(q) : Before(h, q[j])
  PROVE  Orderly(ops \o q)
<1>1. /\ Len(ops) \in Nat /\ Len(q) \in Nat /\ Len(ops \o q) = Len(ops) + Len(q)
      /\ \A k \in 1..Len(ops) : (ops \o q)[k] = ops[k]
      /\ \A k \in (Len(ops) + 1)..(Len(ops) + Len(q)) : (ops \o q)[k] = q[k - Len(ops)]
  OBVIOUS
<1>2. ASSUME NEW j \in 1..Len(ops \o q), NEW i \in 1..(j - 1)
      PROVE  Before((ops \o q)[i], (ops \o q)[j])
  <2>1. CASE j \in 1..Len(ops)
    <3>1. i \in 1..Len(ops)
      BY <2>1
    <3> QED BY <1>1, <2>1, <3>1 DEF Orderly
  <2>2. CASE j \notin 1..Len(ops) /\ i \in 1..Len(ops)
    <3>1. j \in (Len(ops) + 1)..(Len(ops) + Len(q)) /\ j - Len(ops) \in 1..Len(q)
      BY <1>1, <2>2
    <3>2. Before(h, q[j - Len(ops)]) /\ Inherits(h, ops[i])
      BY <2>2, <3>1
    <3> QED BY <1>1, <2>2, <3>1, <3>2, Inheriting
  <2>3. CASE j \notin 1..Len(ops) /\ i \notin 1..Len(ops)
    <3>1. /\ j \in (Len(ops) + 1)..(Len(ops) + Len(q)) /\ j - Len(ops) \in 1..Len(q)
          /\ i \in (Len(ops) + 1)..(Len(ops) + Len(q)) /\ i - Len(ops) \in 1..((j - Len(ops)) - 1)
      BY <1>1, <2>3
    <3> QED BY <1>1, <3>1 DEF Orderly
  <2> QED BY <2>1, <2>2, <2>3
<1> QED BY <1>2 DEF Orderly

\* Where nothing is late or counts down, any order will do.
LEMMA OrderlyPlain ==
  ASSUME NEW q, \A i \in 1..Len(q) : q[i].op \notin Late \cup {"countDown", "new"}, Len(q) \in Nat
  PROVE  Orderly(q)
BY DEF Orderly, Before

LEMMA OrderlyShort == Orderly(<<>>) /\ \A o : Orderly(<<o>>)
BY DEF Orderly

-----------------------------------------------------------------------------
(* What each step puts in the place of the next one.                       *)

\* The steps ops may take the place of h on the agenda of t.
Replacement(t, h, ops) ==
  /\ Orderly(ops)
  /\ \A i \in 1..Len(ops) : Inherits(h, ops[i]) /\ Fit(t, ops[i]) /\ ops[i].op # "countDown"

Stands(t, h, o) == Inherits(h, o) /\ Fit(t, o) /\ o.op \notin Late \cup {"countDown"}

LEMMA ReplacePlain ==
  ASSUME NEW t, NEW h, NEW ops \in Seq(Ops), \A i \in 1..Len(ops) : Stands(t, h, ops[i])
  PROVE  Replacement(t, h, ops)
<1>1. \A i \in 1..Len(ops) : ops[i].op \notin Late \cup {"countDown", "new"}
  BY DEF Stands, Inherits
<1> QED BY <1>1, OrderlyPlain DEF Replacement, Stands

LEMMA TopFits ==
  ASSUME Typed, Agendas, NEW t \in Threads, NEW op, At(t, op)
  PROVE  LET o == Head(agenda[t])
         IN /\ o \in Ops /\ o.op = op /\ o.s \in Streams /\ Fit(t, o)
            /\ agenda[t] \in Seq(Ops) /\ agenda[t] # <<>>
<1>1. Head(agenda[t]) \in Ops /\ Head(agenda[t]).op = op /\ agenda[t] \in Seq(Ops) /\ agenda[t] # <<>>
  BY TopTyped DEF Typed
<1>2. 1 \in 1..Len(agenda[t]) /\ Head(agenda[t]) = agenda[t][1]
  BY <1>1
<1> QED BY <1>1, <1>2, OpFields DEF Agendas

\* What may be put on an agenda while a stream lives.
LEMMA Standing ==
  ASSUME NEW t \in Threads, NEW h, NEW s \in Streams, mode[s] # "none"
  PROVE  /\ \A f, d : Stands(t, h, PushOp(s, f, d)) /\ Stands(t, h, AddTaskOp(s, f, d))
         /\ Stands(t, h, AddStreamOp(s))
         /\ t = Main => Stands(t, h, RefOp(s)) /\ Stands(t, h, StartOp(s))
         /\ t # Main /\ s = cur[t] =>
              /\ Stands(t, h, DropDstOp(s)) /\ Stands(t, h, CloseDstOp(s))
              /\ \A d, i : Stands(t, h, EmitRestOp(s, d, i)) /\ Stands(t, h, CloseRestOp(s, i))
         /\ t # Main /\ s = cur[t] /\ mode[s] # "killed" => \A b : Stands(t, h, CheckOp(s, b))
<1>1. \A f, d : /\ PushOp(s, f, d).op = "push" /\ PushOp(s, f, d).s = s
                /\ AddTaskOp(s, f, d).op = "addTask" /\ AddTaskOp(s, f, d).s = s
  BY DEF PushOp, AddTaskOp
<1>2. AddStreamOp(s).op = "addStream" /\ AddStreamOp(s).s = s
  BY DEF AddStreamOp
<1>3. RefOp(s).op = "ref" /\ RefOp(s).s = s /\ StartOp(s).op = "start" /\ StartOp(s).s = s
  BY DEF RefOp, StartOp
<1>4. /\ DropDstOp(s).op = "dropDst" /\ DropDstOp(s).s = s
      /\ CloseDstOp(s).op = "closeDst" /\ CloseDstOp(s).s = s
  BY DEF DropDstOp, CloseDstOp
<1>5. \A d, i : /\ EmitRestOp(s, d, i).op = "emitRest" /\ EmitRestOp(s, d, i).s = s
                /\ CloseRestOp(s, i).op = "closeRest" /\ CloseRestOp(s, i).s = s
  BY DEF EmitRestOp, CloseRestOp
<1>6. \A b : CheckOp(s, b).op = "check" /\ CheckOp(s, b).s = s
  BY DEF CheckOp
<1>7. \A o : o.s = s /\ o.op \in Pushing => Stands(t, h, o)
  BY DEF Stands, Inherits, Fit, Pushing, Own, Late
<1>8. \A o : o.s = s /\ o.op \in {"ref", "start"} /\ t = Main => Stands(t, h, o)
  BY DEF Stands, Inherits, Fit, Building, Own, Late
<1>9. \A o : /\ o.s = s /\ t # Main /\ s = cur[t]
             /\ o.op \in {"dropDst", "closeDst", "emitRest", "closeRest"}
             => Stands(t, h, o)
  BY DEF Stands, Inherits, Fit, Own, Late
<1>10. \A o : o.s = s /\ t # Main /\ s = cur[t] /\ mode[s] # "killed" /\ o.op = "check"
              => Stands(t, h, o)
  BY DEF Stands, Inherits, Fit, Own, Late
<1>11. \A f, d : Stands(t, h, PushOp(s, f, d)) /\ Stands(t, h, AddTaskOp(s, f, d))
  BY <1>1, <1>7 DEF Pushing
<1>12. Stands(t, h, AddStreamOp(s))
  BY <1>2, <1>7 DEF Pushing
<1>13. t = Main => Stands(t, h, RefOp(s)) /\ Stands(t, h, StartOp(s))
  BY <1>3, <1>8
<1>14. t # Main /\ s = cur[t] => /\ Stands(t, h, DropDstOp(s)) /\ Stands(t, h, CloseDstOp(s))
              /\ \A d, i : Stands(t, h, EmitRestOp(s, d, i)) /\ Stands(t, h, CloseRestOp(s, i))
  BY <1>4, <1>5, <1>9
<1>15. t # Main /\ s = cur[t] /\ mode[s] # "killed" => \A b : Stands(t, h, CheckOp(s, b))
  BY <1>6, <1>10
<1> QED BY <1>11, <1>12, <1>13, <1>14, <1>15

\* A worker that may go on with its stream.
LEMMA OwnTop ==
  ASSUME Typed, Agendas, NEW t \in Threads, NEW op \in Own, At(t, op)
  PROVE  LET o == Head(agenda[t])
         IN /\ t # Main /\ o.s = cur[t] /\ mode[o.s] # "none"
            /\ op \in {"emit", "check"} => mode[o.s] # "killed"
<1>1. Fit(t, Head(agenda[t])) /\ Head(agenda[t]).op = op
  BY TopFits
<1> QED BY <1>1 DEF Fit, Own, Building, Pushing

LEMMA PlainSeqs ==
  ASSUME NEW t \in Threads, NEW h
  PROVE  /\ Replacement(t, h, <<>>)
         /\ \A o \in Ops : Stands(t, h, o) => Replacement(t, h, <<o>>)
         /\ \A o, p \in Ops : Stands(t, h, o) /\ Stands(t, h, p) => Replacement(t, h, <<o, p>>)
         /\ \A o, p, q \in Ops : Stands(t, h, o) /\ Stands(t, h, p) /\ Stands(t, h, q)
              => Replacement(t, h, <<o, p, q>>)
         /\ \A o, p, q, r \in Ops :
              Stands(t, h, o) /\ Stands(t, h, p) /\ Stands(t, h, q) /\ Stands(t, h, r)
              => Replacement(t, h, <<o, p, q, r>>)
<1>1. <<>> \in Seq(Ops) /\ \A i \in 1..Len(<<>>) : Stands(t, h, <<>>[i])
  OBVIOUS
<1>2. ASSUME NEW o \in Ops, Stands(t, h, o)
      PROVE  <<o>> \in Seq(Ops) /\ \A i \in 1..Len(<<o>>) : Stands(t, h, <<o>>[i])
  BY <1>2
<1>3. ASSUME NEW o \in Ops, NEW p \in Ops, Stands(t, h, o), Stands(t, h, p)
      PROVE  <<o, p>> \in Seq(Ops) /\ \A i \in 1..Len(<<o, p>>) : Stands(t, h, <<o, p>>[i])
  BY <1>3
<1>4. ASSUME NEW o \in Ops, NEW p \in Ops, NEW q \in Ops, Stands(t, h, o), Stands(t, h, p), Stands(t, h, q)
      PROVE  <<o, p, q>> \in Seq(Ops) /\ \A i \in 1..Len(<<o, p, q>>) : Stands(t, h, <<o, p, q>>[i])
  BY <1>4
<1>5. ASSUME NEW o \in Ops, NEW p \in Ops, NEW q \in Ops, NEW r \in Ops,
             Stands(t, h, o), Stands(t, h, p), Stands(t, h, q), Stands(t, h, r)
      PROVE  /\ <<o, p, q, r>> \in Seq(Ops)
             /\ \A i \in 1..Len(<<o, p, q, r>>) : Stands(t, h, <<o, p, q, r>>[i])
  BY <1>5
<1>6. Replacement(t, h, <<>>)
  BY <1>1, ReplacePlain
<1>7. \A o \in Ops : Stands(t, h, o) => Replacement(t, h, <<o>>)
  BY <1>2, ReplacePlain
<1>8. \A o, p \in Ops : Stands(t, h, o) /\ Stands(t, h, p) => Replacement(t, h, <<o, p>>)
  BY <1>3, ReplacePlain
<1>9. \A o, p, q \in Ops : Stands(t, h, o) /\ Stands(t, h, p) /\ Stands(t, h, q)
        => Replacement(t, h, <<o, p, q>>)
  BY <1>4, ReplacePlain
<1>10. \A o, p, q, r \in Ops :
        Stands(t, h, o) /\ Stands(t, h, p) /\ Stands(t, h, q) /\ Stands(t, h, r)
        => Replacement(t, h, <<o, p, q, r>>)
  BY <1>5, ReplacePlain
<1> QED BY <1>6, <1>7, <1>8, <1>9, <1>10

\* The step that comes next gives way to others that fit.
GivesWay(t) == \E ops \in Seq(Ops) : Replaces(t, ops) /\ Replacement(t, Head(agenda[t]), ops)

\* Nothing, one or two steps.
LEMMA GivesWayTo ==
  ASSUME NEW t \in Threads, NEW h, h = Head(agenda[t])
  PROVE  /\ Replaces(t, <<>>) => GivesWay(t)
         /\ \A o \in Ops : Stands(t, h, o) /\ Replaces(t, <<o>>) => GivesWay(t)
         /\ \A o, p \in Ops : Stands(t, h, o) /\ Stands(t, h, p) /\ Replaces(t, <<o, p>>) => GivesWay(t)
         /\ \A o, p, q, r \in Ops :
              /\ Stands(t, h, o) /\ Stands(t, h, p) /\ Stands(t, h, q) /\ Stands(t, h, r)
              /\ Replaces(t, <<o, p, q, r>>)
              => GivesWay(t)
<1>1. Replaces(t, <<>>) => GivesWay(t)
  BY PlainSeqs, ShortAgendas DEF GivesWay
<1>2. \A o \in Ops : Stands(t, h, o) /\ Replaces(t, <<o>>) => GivesWay(t)
  BY PlainSeqs, ShortAgendas DEF GivesWay
<1>3. \A o, p \in Ops : Stands(t, h, o) /\ Stands(t, h, p) /\ Replaces(t, <<o, p>>) => GivesWay(t)
  BY PlainSeqs, ShortAgendas DEF GivesWay
<1>4. ASSUME NEW o \in Ops, NEW p \in Ops, NEW q \in Ops, NEW r \in Ops,
             Stands(t, h, o), Stands(t, h, p), Stands(t, h, q), Stands(t, h, r),
             Replaces(t, <<o, p, q, r>>)
      PROVE  GivesWay(t)
  <2>1. <<o, p, q, r>> \in Seq(Ops)
    OBVIOUS
  <2> QED BY <1>4, <2>1, PlainSeqs DEF GivesWay
<1> QED BY <1>1, <1>2, <1>3, <1>4

LEMMA Continues ==
  ASSUME NEW t, NEW ops
  PROVE  /\ Continue(t, ops) => Replaces(t, ops)
         /\ Return(t) => Replaces(t, <<>>)
BY DEF Continue, Return, Replaces

LEMMA BuildingGivesWay ==
  ASSUME Typed, Closings, NEW t \in Threads, Connect(t) \/ Ref(t) \/ Start(t)
  PROVE  GivesWay(t)
<1>1. PICK o : o = Head(agenda[t])
  OBVIOUS
<1>2. At(t, "connect") \/ At(t, "ref") \/ At(t, "start")
  BY DEF Connect, Ref, Start
<1>3. /\ o \in Ops /\ o.s \in Streams /\ Fit(t, o) /\ agenda[t] \in Seq(Ops) /\ agenda[t] # <<>>
      /\ o.op \in {"connect", "ref", "start"}
  BY <1>1, <1>2, TopFits DEF Closings
<1>4. t = Main
  BY <1>3 DEF Fit, Own, Pushing
<1>5. CASE Connect(t)
  <2>1. o.op = "connect" /\ o.dst \in Streams
    BY <1>1, <1>3, <1>5, OpFields DEF Connect, At
  <2>2. 1 \in 1..Len(agenda[Main]) /\ agenda[Main][1] = o /\ 1..(1 - 1) = {}
    BY <1>1, <1>3, <1>4
  <2>3. mode[o.s] # "none" /\ mode[o.dst] # "none"
    BY <2>1, <2>2 DEF Closings, Prepared
  <2>4. PICK p, q : p = RefOp(o.dst) /\ q = StartOp(o.s)
    OBVIOUS
  <2>5. p \in Ops /\ q \in Ops /\ Stands(t, o, p) /\ Stands(t, o, q)
    BY <1>3, <1>4, <2>1, <2>3, <2>4, OpTypes, Standing
  <2>6. Replaces(t, <<p, q>>)
    BY <1>1, <1>5, <2>4, Continues DEF Connect
  <2> QED BY <1>1, <2>5, <2>6, GivesWayTo
<1>6. CASE Ref(t)
  BY <1>6, Continues, GivesWayTo DEF Ref
<1>7. CASE Start(t)
  <2>1. mode[o.s] # "none"
    BY <1>1, <1>3, <1>7 DEF Start, At, Fit
  <2>2. PICK p : p = PushOp(o.s, "start", Nil)
    OBVIOUS
  <2>3. p \in Ops /\ Stands(t, o, p)
    BY <1>3, <2>1, <2>2, OpTypes, Standing DEF Funcs, Data
  <2>4. Replaces(t, <<p>>) \/ Replaces(t, <<>>)
    BY <1>1, <1>7, <2>2 DEF Start, Replaces
  <2> QED BY <1>1, <2>3, <2>4, GivesWayTo
<1> QED BY <1>5, <1>6, <1>7

LEMMA PushingGivesWay ==
  ASSUME Typed, Closings, NEW t \in Threads, Push(t) \/ AddTask(t) \/ AddStream(t)
  PROVE  GivesWay(t)
<1>1. PICK o : o = Head(agenda[t])
  OBVIOUS
<1>2. CASE AddTask(t) \/ AddStream(t)
  BY <1>2, Continues, GivesWayTo DEF AddTask, AddStream
<1>3. CASE Push(t)
  <2>1. o \in Ops /\ o.s \in Streams /\ Fit(t, o) /\ o.op = "push"
    BY <1>1, <1>3, TopFits DEF Closings, Push
  <2>2. mode[o.s] # "none" /\ o.f \in Funcs /\ o.d \in Data
    BY <2>1, OpFields DEF Fit
  <2>3. PICK p, q : p = AddTaskOp(o.s, o.f, o.d) /\ q = AddStreamOp(o.s)
    OBVIOUS
  <2>4. p \in Ops /\ q \in Ops /\ Stands(t, o, p) /\ Stands(t, o, q)
    BY <2>1, <2>2, <2>3, OpTypes, Standing
  <2>5. Replaces(t, <<p, q>>) \/ Replaces(t, <<>>)
    BY <1>1, <1>3, <2>3, Continues DEF Push, TaskAdd
  <2> QED BY <1>1, <2>4, <2>5, GivesWayTo
<1> QED BY <1>2, <1>3

LEMMA Joined ==
  ASSUME NEW p \in Ops, NEW q \in Ops, NEW r \in Ops, NEW x \in Ops
  PROVE  <<p, q>> \o <<r, x>> = <<p, q, r, x>>
<1>1. PICK a, b, c : a = <<p, q>> /\ b = <<r, x>> /\ c = <<p, q, r, x>>
  OBVIOUS
<1>2. /\ a \in Seq(Ops) /\ b \in Seq(Ops) /\ c \in Seq(Ops)
      /\ Len(a) = 2 /\ Len(b) = 2 /\ Len(c) = 4
      /\ a[1] = p /\ a[2] = q /\ b[1] = r /\ b[2] = x
      /\ c[1] = p /\ c[2] = q /\ c[3] = r /\ c[4] = x
  BY <1>1
<1>3. PICK z : z = a \o b
  OBVIOUS
<1>4. /\ z \in Seq(Ops) /\ Len(z) = 4
      /\ z[1] = a[1] /\ z[2] = a[2] /\ z[3] = b[1] /\ z[4] = b[2]
  <2>1. /\ z \in Seq(Ops) /\ Len(z) = 4
        /\ \A i \in 1..Len(z) : z[i] = IF i <= Len(a) THEN a[i] ELSE b[i - Len(a)]
    BY <1>2, <1>3, ConcatProperties
  <2>2. z[1] = a[1] /\ z[2] = a[2]
    BY <1>2, <2>1
  <2>3. z[3] = b[1] /\ z[4] = b[2]
    BY <1>2, <2>1
  <2> QED BY <2>1, <2>2, <2>3
<1>5. \A i \in 1..Len(z) : z[i] = c[i]
  <2>1. \A i \in 1..4 : i \in {1, 2, 3, 4}
    OBVIOUS
  <2> QED BY <1>2, <1>4, <2>1
<1>6. z = c
  BY <1>2, <1>4, <1>5, SeqEqual
<1> QED BY <1>1, <1>3, <1>6

LEMMA EmitGivesWay ==
  ASSUME Typed, Closings, NEW t \in Threads, Emit(t)
  PROVE  GivesWay(t)
<1>1. PICK o, s : o = Head(agenda[t]) /\ s = o.s
  OBVIOUS
<1>2. /\ o \in Ops /\ s \in Streams /\ o.op = "emit" /\ o.d \in Data /\ o.again \in BOOLEAN
      /\ t # Main /\ s = cur[t] /\ mode[s] # "none" /\ mode[s] # "killed"
  BY <1>1, TopFits, OwnTop, OpFields DEF Closings, Emit, Own
<1>3. PICK p, q, r, x, y : /\ p = PushOp(dst[s], "start", o.d) /\ q = DropDstOp(s)
                           /\ r = EmitRestOp(s, o.d, 1) /\ x = CheckOp(s, o.again)
                           /\ y = PushOp(s, "start", Nil)
  OBVIOUS
<1>4. /\ q \in Ops /\ r \in Ops /\ x \in Ops /\ y \in Ops
      /\ Stands(t, o, q) /\ Stands(t, o, r) /\ Stands(t, o, x) /\ Stands(t, o, y)
  <2>1. q \in Ops /\ r \in Ops /\ x \in Ops /\ y \in Ops
    BY <1>2, <1>3, OpTypes DEF Funcs, Data
  <2> QED BY <1>2, <1>3, <2>1, Standing
<1>5. dst[s] # NoStream => p \in Ops /\ Stands(t, o, p)
  <2>1. dst[s] \in Streams \cup {NoStream} /\ Known(dst[s])
    BY <1>2 DEF Typed, TypeOK, StreamsOK, Closings, Exists
  <2> QED BY <1>2, <1>3, <2>1, OpTypes, Standing DEF Known, Funcs
<1>6. \/ Replaces(t, <<>>) \/ Replaces(t, <<y>>)
      \/ dst[s] = NoStream /\ Replaces(t, <<>> \o <<r, x>>)
      \/ dst[s] # NoStream /\ Replaces(t, <<p, q>> \o <<r, x>>)
  BY <1>1, <1>3, Continues DEF Emit
<1>7. <<>> \o <<r, x>> = <<r, x>> /\ (p \in Ops => <<p, q>> \o <<r, x>> = <<p, q, r, x>>)
  <2>1. <<r, x>> \in Seq(Ops)
    BY <1>4, ShortAgendas
  <2> QED BY <1>4, <2>1, ConcatEmptySeq, Joined
<1> QED BY <1>1, <1>4, <1>5, <1>6, <1>7, GivesWayTo

LEMMA OwnGivesWay ==
  ASSUME Typed, Closings, NEW t \in Threads,
         \/ DropDst(t) \/ EmitRest(t) \/ CloseDst(t) \/ CloseRest(t) \/ SeqNext(t) \/ CountDown(t)
  PROVE  GivesWay(t)
<1>1. PICK o, s : o = Head(agenda[t]) /\ s = o.s
  OBVIOUS
<1>2. CASE DropDst(t) \/ SeqNext(t) \/ CountDown(t)
  BY <1>2, Continues, GivesWayTo DEF DropDst, SeqNext, CountDown
<1>3. CASE EmitRest(t) \/ CloseDst(t) \/ CloseRest(t)
  <2>0. \E op \in {"emitRest", "closeDst", "closeRest"} : At(t, op)
    BY <1>3 DEF EmitRest, CloseDst, CloseRest
  <2>1. /\ o \in Ops /\ s \in Streams /\ t # Main /\ s = cur[t] /\ mode[s] # "none"
        /\ o.op \in {"emitRest", "closeDst", "closeRest"}
    BY <1>1, <2>0, TopFits, OwnTop DEF Closings, Own
  <2>2. rest[s] \in Seq(Streams) /\ dst[s] \in Streams \cup {NoStream} /\ "start" \in Funcs /\ "close" \in Funcs /\ Nil \in Data
    BY <2>1 DEF Typed, TypeOK, StreamsOK, Funcs, Data
  <2>3. CASE EmitRest(t)
    <3>1. o.op = "emitRest" /\ o.d \in Data /\ o.i \in Nat \ {0} /\ o.i + 1 \in Nat \ {0}
      BY <1>1, <2>1, <2>3, OpFields DEF EmitRest, At
    <3>2. CASE o.i > Len(rest[s])
      BY <1>1, <2>3, <3>2, Continues, GivesWayTo DEF EmitRest
    <3>3. CASE ~(o.i > Len(rest[s]))
      <4>1. rest[s][o.i] \in Streams /\ mode[rest[s][o.i]] # "none"
        <5>1. o.i \in 1..Len(rest[s])
          BY <2>2, <3>1, <3>3
        <5>2. rest[s][o.i] \in Streams
          BY <2>2, <5>1
        <5> QED BY <2>1, <5>1, <5>2, NullAssumption DEF Closings, Exists, Known
      <4>2. PICK p, q : p = PushOp(rest[s][o.i], "start", o.d) /\ q = EmitRestOp(s, o.d, o.i + 1)
        OBVIOUS
      <4>3. p \in Ops /\ q \in Ops /\ Stands(t, o, p) /\ Stands(t, o, q)
        BY <2>1, <2>2, <3>1, <4>1, <4>2, OpTypes, Standing
      <4>4. Replaces(t, <<p, q>>)
        BY <1>1, <2>3, <3>3, <4>2, Continues DEF EmitRest
      <4> QED BY <1>1, <4>3, <4>4, GivesWayTo
    <3> QED BY <3>2, <3>3
  <2>4. CASE CloseDst(t)
    <3>1. CASE dst[s] = NoStream
      BY <1>1, <2>4, <3>1, Continues, GivesWayTo DEF CloseDst
    <3>2. CASE dst[s] # NoStream
      <4>1. dst[s] \in Streams /\ mode[dst[s]] # "none"
        BY <2>1, <2>2, <3>2 DEF Closings, Exists, Known
      <4>2. PICK p : p = PushOp(dst[s], "close", Nil)
        OBVIOUS
      <4>3. p \in Ops /\ Stands(t, o, p)
        BY <2>2, <4>1, <4>2, OpTypes, Standing
      <4>4. Replaces(t, <<p>>)
        BY <1>1, <2>4, <3>2, <4>2, Continues DEF CloseDst
      <4> QED BY <1>1, <4>3, <4>4, GivesWayTo
    <3> QED BY <3>1, <3>2
  <2>5. CASE CloseRest(t)
    <3>1. o.op = "closeRest" /\ o.i \in Nat \ {0} /\ o.i + 1 \in Nat \ {0}
      BY <1>1, <2>1, <2>5, OpFields DEF CloseRest, At
    <3>2. CASE o.i > Len(rest[s])
      BY <1>1, <2>5, <3>2, Continues, GivesWayTo DEF CloseRest
    <3>3. CASE ~(o.i > Len(rest[s]))
      <4>1. rest[s][o.i] \in Streams /\ mode[rest[s][o.i]] # "none"
        <5>1. o.i \in 1..Len(rest[s])
          BY <2>2, <3>1, <3>3
        <5>2. rest[s][o.i] \in Streams
          BY <2>2, <5>1
        <5> QED BY <2>1, <5>1, <5>2, NullAssumption DEF Closings, Exists, Known
      <4>2. PICK p, q : p = PushOp(rest[s][o.i], "close", Nil) /\ q = CloseRestOp(s, o.i + 1)
        OBVIOUS
      <4>3. p \in Ops /\ q \in Ops /\ Stands(t, o, p) /\ Stands(t, o, q)
        BY <2>1, <2>2, <3>1, <4>1, <4>2, OpTypes, Standing
      <4>4. Replaces(t, <<p, q>>)
        BY <1>1, <2>5, <3>3, <4>2, Continues DEF CloseRest
      <4> QED BY <1>1, <4>3, <4>4, GivesWayTo
    <3> QED BY <3>2, <3>3
  <2> QED BY <1>3, <2>3, <2>4, <2>5
<1> QED BY <1>2, <1>3

\* A late step gives way to a late step.
LEMMA LateGivesWay ==
  ASSUME Typed, Closings, NEW t \in Threads, TakeNext(t) \/ After(t) \/ Close(t)
  PROVE  GivesWay(t)
<1>1. PICK o, s : o = Head(agenda[t]) /\ s = o.s
  OBVIOUS
<1>2. \E op \in {"takeNext", "after", "close"} : At(t, op)
  BY DEF TakeNext, After, Close
<1>3. /\ o \in Ops /\ s \in Streams /\ t # Main /\ s = cur[t] /\ mode[s] # "none"
      /\ o.op \in Late
  BY <1>1, <1>2, TopFits, OwnTop DEF Closings, Own, Late
<1>4. PICK p, q : p = CloseOp(s) /\ q = KillOp(s, mode[s])
  OBVIOUS
<1>5. p \in Ops /\ q \in Ops
  BY <1>3, <1>4, OpTypes DEF Typed, TypeOK, StreamsOK
<1>6. p.op = "close" /\ p.s = s /\ q.op = "kill" /\ q.s = s /\ q.mode = mode[s]
  BY <1>4 DEF CloseOp, KillOp
<1>7. Inherits(o, p) /\ Fit(t, p)
  BY <1>3, <1>6 DEF Inherits, Fit, Own, Late
<1>8. mode[s] # "killed" => Inherits(o, q) /\ Fit(t, q)
  BY <1>3, <1>6 DEF Inherits, Fit, Own, Late
<1>9. \/ Replaces(t, <<>>) \/ Replaces(t, <<p>>)
      \/ mode[s] # "killed" /\ Replaces(t, <<q>>)
  <2>1. CASE TakeNext(t)
    BY <1>1, <1>4, <2>1, Continues DEF TakeNext
  <2>2. CASE After(t)
    BY <1>1, <1>4, <2>2, Continues DEF After
  <2>3. CASE Close(t)
    BY <1>1, <1>4, <2>3, Continues DEF Close
  <2> QED BY <2>1, <2>2, <2>3
<1>10. ASSUME NEW x \in Ops, Inherits(o, x), Fit(t, x), x.op # "countDown", Replaces(t, <<x>>)
       PROVE  GivesWay(t)
  <2>1. Len(<<x>>) = 1 /\ <<x>>[1] = x /\ <<x>> \in Seq(Ops)
    BY <1>10
  <2>2. Replacement(t, o, <<x>>)
    BY <1>10, <2>1, OrderlyShort DEF Replacement
  <2> QED BY <1>1, <1>10, <2>1, <2>2 DEF GivesWay
<1> QED BY <1>5, <1>6, <1>7, <1>8, <1>9, <1>10, GivesWayTo

LEMMA CheckGivesWay ==
  ASSUME Typed, Closings, NEW t \in Threads, TerminationCheck(t)
  PROVE  GivesWay(t)
<1>1. PICK o, s : o = Head(agenda[t]) /\ s = o.s
  OBVIOUS
<1>2. o \in Ops /\ s \in Streams /\ o.op = "check" /\ t # Main /\ s = cur[t] /\ mode[s] # "none"
  BY <1>1, TopFits, OwnTop DEF Closings, TerminationCheck, Own
<1>3. PICK p : p = PushOp(s, "start", Nil)
  OBVIOUS
<1>4. p \in Ops /\ Stands(t, o, p)
  BY <1>2, <1>3, OpTypes, Standing DEF Funcs, Data
<1>5. Replaces(t, <<p>>) \/ Replaces(t, <<>>)
  BY <1>1, <1>3, Continues DEF TerminationCheck
<1> QED BY <1>1, <1>4, <1>5, GivesWayTo

-----------------------------------------------------------------------------
(* What a step leaves as it was.                                           *)

\* The agenda of t after a step: ops, and what came after the step.
LEMMA Replaced ==
  ASSUME Typed, NEW t \in Threads, agenda[t] # <<>>, NEW ops \in Seq(Ops), Replaces(t, ops)
  PROVE  /\ \A u \in Threads : u # t => agenda'[u] = agenda[u]
         /\ agenda'[t] = ops \o Tail(agenda[t])
         /\ Len(agenda'[t]) = Len(ops) + Len(agenda[t]) - 1
         /\ \A j \in 1..Len(ops) : agenda'[t][j] = ops[j]
         /\ \A j \in 2..Len(agenda[t]) : agenda'[t][j + Len(ops) - 1] = agenda[t][j]
         /\ Len(ops) \in Nat /\ Len(agenda[t]) \in Nat \ {0} /\ Head(agenda[t]) = agenda[t][1]
<1>1. agenda[t] \in Seq(Ops) /\ agenda \in [Threads -> Seq(Ops)]
  BY DEF Typed, TypeOK, AgendasOK
<1>2. /\ \A u \in Threads : u # t => agenda'[u] = agenda[u]
      /\ agenda'[t] = ops \o Tail(agenda[t])
  BY <1>1 DEF Replaces
<1>3. PICK q, r : q = agenda[t] /\ r = Tail(agenda[t])
  OBVIOUS
<1>4. /\ q \in Seq(Ops) /\ q # <<>> /\ r \in Seq(Ops) /\ Len(r) = Len(q) - 1 /\ Len(q) \in Nat \ {0}
      /\ \A j \in 1..Len(r) : r[j] = q[j + 1]
      /\ Head(q) = q[1] /\ Len(ops) \in Nat
  BY <1>1, <1>3
<1>5. /\ Len(ops \o r) = Len(ops) + Len(r)
      /\ \A j \in 1..(Len(ops) + Len(r)) :
           (ops \o r)[j] = IF j <= Len(ops) THEN ops[j] ELSE r[j - Len(ops)]
  BY <1>4, ConcatProperties
<1>6. \A j \in 1..Len(ops) : (ops \o r)[j] = ops[j]
  BY <1>4, <1>5
<1>7. ASSUME NEW j \in 2..Len(q) PROVE (ops \o r)[j + Len(ops) - 1] = q[j]
  <2>1. /\ j + Len(ops) - 1 \in 1..(Len(ops) + Len(r)) /\ ~(j + Len(ops) - 1 <= Len(ops))
        /\ (j + Len(ops) - 1) - Len(ops) = j - 1 /\ j - 1 \in 1..Len(r) /\ (j - 1) + 1 = j
    BY <1>4
  <2> QED BY <1>4, <1>5, <2>1
<1> QED BY <1>2, <1>3, <1>4, <1>5, <1>6, <1>7

\* Where a step of the new agenda comes from.
LEMMA Origin ==
  ASSUME Typed, NEW t \in Threads, agenda[t] # <<>>, NEW ops \in Seq(Ops), Replaces(t, ops),
         NEW j \in 1..Len(agenda'[t])
  PROVE  \/ j \in 1..Len(ops) /\ agenda'[t][j] = ops[j]
         \/ \E k \in 2..Len(agenda[t]) : j = k + Len(ops) - 1 /\ agenda'[t][j] = agenda[t][k]
<1>1. CASE j \in 1..Len(ops)
  BY <1>1, Replaced
<1>2. CASE j \notin 1..Len(ops)
  <2>1. PICK k : k = j - Len(ops) + 1
    OBVIOUS
  <2>2. /\ Len(agenda'[t]) = Len(ops) + Len(agenda[t]) - 1
        /\ Len(ops) \in Nat /\ Len(agenda[t]) \in Nat \ {0}
    BY Replaced
  <2>3. k \in 2..Len(agenda[t]) /\ j = k + Len(ops) - 1
    BY <1>2, <2>1, <2>2
  <2>4. agenda'[t][k + Len(ops) - 1] = agenda[t][k]
    BY <2>3, Replaced
  <2> QED BY <2>3, <2>4
<1> QED BY <1>1, <1>2

LEMMA AgendasKept ==
  ASSUME Typed, Agendas, NEW t \in Threads, agenda[t] # <<>>, NEW ops \in Seq(Ops),
         Replaces(t, ops), Orderly(ops),
         \A i \in 1..Len(ops) : Inherits(Head(agenda[t]), ops[i]) /\ Fit(t, ops[i])',
         \A u \in Threads : \A i \in 1..Len(agenda[u]) : \A o :
           o = agenda[u][i] /\ (u # t \/ i # 1) => Fit(u, o)'
  PROVE  Agendas'
<1>1. agenda[t] \in Seq(Ops) /\ Tail(agenda[t]) \in Seq(Ops) /\ Orderly(agenda[t])
  <2>1. agenda[t] \in Seq(Ops)
    BY DEF Typed, TypeOK, AgendasOK
  <2> QED BY <2>1 DEF Agendas
<1>2. Orderly(agenda'[t])
  <2>1. /\ Orderly(Tail(agenda[t]))
        /\ \A j \in 1..Len(Tail(agenda[t])) : Before(Head(agenda[t]), Tail(agenda[t])[j])
    BY <1>1, OrderlyTail
  <2>2. Orderly(ops \o Tail(agenda[t]))
    BY <1>1, <2>1, OrderlyJoin
  <2> QED BY <2>2, Replaced
<1>3. ASSUME NEW j \in 1..Len(agenda'[t]) PROVE Fit(t, agenda[t][j])'
  <2>1. CASE j \in 1..Len(ops) /\ agenda'[t][j] = ops[j]
    <3>1. Fit(t, ops[j])'
      BY <2>1
    <3> QED BY <2>1, <3>1 DEF Fit
  <2>2. ASSUME NEW k \in 2..Len(agenda[t]), agenda'[t][j] = agenda[t][k]
        PROVE  Fit(t, agenda[t][j])'
    <3>1. k \in 1..Len(agenda[t]) /\ k # 1
      BY <1>1
    <3>2. PICK o : o = agenda[t][k]
      OBVIOUS
    <3>3. Fit(t, o)'
      BY <3>1, <3>2
    <3> QED BY <2>2, <3>2, <3>3 DEF Fit
  <2> QED BY <2>1, <2>2, Origin
<1>4. ASSUME NEW u \in Threads, u # t
      PROVE  Orderly(agenda'[u]) /\ \A i \in 1..Len(agenda'[u]) : Fit(u, agenda[u][i])'
  <2>1. agenda'[u] = agenda[u]
    BY <1>4, Replaced
  <2>2. ASSUME NEW i \in 1..Len(agenda'[u]) PROVE Fit(u, agenda[u][i])'
    <3>1. PICK o : o = agenda[u][i]
      OBVIOUS
    <3>2. Fit(u, o)'
      BY <1>4, <2>1, <3>1
    <3> QED BY <2>1, <3>1, <3>2 DEF Fit
  <2> QED BY <2>1, <2>2 DEF Agendas
<1> QED BY <1>2, <1>3, <1>4 DEF Agendas

LEMMA FitSame ==
  ASSUME NEW u, NEW o, Fit(u, o), cur' = cur, mode' = mode
  PROVE  Fit(u, o)'
BY DEF Fit

\* A change of mode does no harm to a step that is not about it.
LEMMA FitMode ==
  ASSUME NEW u, NEW o, Fit(u, o), o.s \in Streams, cur' = cur, NEW s \in Streams, NEW m,
         mode \in [Streams -> Modes], mode' = [mode EXCEPT ![s] = m], m # "none",
         o.op = "new" => o.s # s,
         m = "killed" => ~(o.op \in {"emit", "check"} /\ o.s = s),
         m # "killed" => ~(o.op = "countDown" /\ o.s = s)
  PROVE  Fit(u, o)'
<1>1. mode'[o.s] = IF o.s = s THEN m ELSE mode[o.s]
  OBVIOUS
<1>2. CASE o.s # s
  <2>1. mode'[o.s] = mode[o.s]
    BY <1>1, <1>2
  <2> QED BY <2>1 DEF Fit
<1>3. CASE o.s = s
  <2>1. mode'[o.s] = m
    BY <1>1, <1>3
  <2> QED BY <1>3, <2>1 DEF Fit
<1> QED BY <1>2, <1>3

\* Only what the main thread builds is not there yet.
LEMMA AgendaOps ==
  ASSUME Typed, Agendas, NEW u \in Threads, NEW i \in 1..Len(agenda[u])
  PROVE  agenda[u][i] \in Ops /\ agenda[u][i].s \in Streams /\ Fit(u, agenda[u][i])
<1>1. agenda[u] \in Seq(Ops)
  BY DEF Typed, TypeOK, AgendasOK
<1>2. agenda[u][i] \in Ops
  BY <1>1
<1> QED BY <1>2, OpFields DEF Agendas

LEMMA AgendaOrder ==
  ASSUME Typed, Agendas, NEW t \in Threads, NEW i \in 1..Len(agenda[t]), i # 1
  PROVE  Before(Head(agenda[t]), agenda[t][i])
<1>1. agenda[t] \in Seq(Ops) /\ Orderly(agenda[t])
  BY DEF Typed, TypeOK, AgendasOK, Agendas
<1>2. Head(agenda[t]) = agenda[t][1] /\ 1 \in 1..(i - 1)
  BY <1>1
<1> QED BY <1>1, <1>2 DEF Orderly

LEMMA CalmAgendas ==
  ASSUME Typed, Agendas, NEW t \in Threads, agenda[t] # <<>>, GivesWay(t),
         cur' = cur, mode' = mode
  PROVE  Agendas'
<1>1. PICK ops \in Seq(Ops) : Replaces(t, ops) /\ Replacement(t, Head(agenda[t]), ops)
  BY DEF GivesWay
<1>2. \A i \in 1..Len(ops) : Inherits(Head(agenda[t]), ops[i]) /\ Fit(t, ops[i])'
  BY <1>1, FitSame DEF Replacement
<1>3. \A u \in Threads : \A i \in 1..Len(agenda[u]) : \A o : o = agenda[u][i] => Fit(u, o)'
  BY FitSame DEF Agendas
<1> QED BY <1>1, <1>2, <1>3, AgendasKept DEF Replacement

LEMMA ModeAgendas ==
  ASSUME Typed, Agendas, NEW t \in Threads, agenda[t] # <<>>, GivesWay(t), cur' = cur,
         NEW s \in Streams, NEW m, mode' = [mode EXCEPT ![s] = m], m \notin {"none", "killed"},
         mode[s] # "killed",
         mode[s] = "none" => t = Main /\ Head(agenda[t]).op = "new" /\ Head(agenda[t]).s = s
  PROVE  Agendas'
<1>1. PICK ops \in Seq(Ops) : Replaces(t, ops) /\ Replacement(t, Head(agenda[t]), ops)
  BY DEF GivesWay
<1>m. mode \in [Streams -> Modes]
  BY DEF Typed, TypeOK, StreamsOK
<1>2. ASSUME NEW i \in 1..Len(ops)
      PROVE  Inherits(Head(agenda[t]), ops[i]) /\ Fit(t, ops[i])'
  <2>1. /\ Inherits(Head(agenda[t]), ops[i]) /\ Fit(t, ops[i]) /\ ops[i].op # "countDown"
        /\ ops[i].op # "new"
    BY <1>1 DEF Replacement, Inherits
  <2>2. ops[i].s \in Streams
    <3>1. ops[i] \in Ops
      OBVIOUS
    <3> QED BY <3>1, OpFields
  <2> QED BY <1>m, <2>1, <2>2, FitMode
<1>3. ASSUME NEW u \in Threads, NEW i \in 1..Len(agenda[u]), NEW o, o = agenda[u][i],
             u # t \/ i # 1
      PROVE  Fit(u, o)'
  <2>1. o.s \in Streams /\ Fit(u, o)
    BY <1>3, AgendaOps
  <2>2. o.op = "new" => o.s # s
    <3> SUFFICES ASSUME o.op = "new", o.s = s PROVE FALSE
      OBVIOUS
    <3>1. u = Main /\ mode[s] = "none"
      BY <2>1 DEF Fit, Pushing, Own
    <3>2. t = Main /\ Head(agenda[t]).op = "new" /\ Head(agenda[t]).s = s
      BY <3>1
    <3>3. Before(Head(agenda[t]), o)
      BY <1>3, <3>1, <3>2, AgendaOrder
    <3> QED BY <3>2, <3>3 DEF Before
  <2>3. ~(o.op = "countDown" /\ o.s = s)
    BY <2>1 DEF Fit
  <2> QED BY <1>m, <2>1, <2>2, <2>3, FitMode
<1> QED BY <1>1, <1>2, <1>3, AgendasKept DEF Replacement

\* Two threads are never inside of steps of the same stream.
LEMMA Alone ==
  ASSUME ExclusiveInv, Places, NEW t \in Workers, NEW u \in Workers, t # u,
         agenda[t] # <<>>, agenda[u] # <<>>
  PROVE  cur[t] # cur[u]
<1>1. pc[t] = "run" /\ pc[u] = "run"
  BY DEF Places, IdleAgendas
<1> QED BY <1>1 DEF ExclusiveInv, Exclusive, Executing

\* ... so a step that a stream has yet to do is its worker's.
LEMMA OwnStep ==
  ASSUME Typed, ExclusiveInv, Places, Agendas, NEW t \in Threads, agenda[t] # <<>>,
         Head(agenda[t]).op \in Own,
         NEW u \in Threads, NEW i \in 1..Len(agenda[u]),
         agenda[u][i].op \in Own, agenda[u][i].s = Head(agenda[t]).s
  PROVE  u = t
<1>1. agenda[t] \in Seq(Ops) /\ agenda[u] \in Seq(Ops)
  BY DEF Typed, TypeOK, AgendasOK
<1>2. 1 \in 1..Len(agenda[t]) /\ Head(agenda[t]) = agenda[t][1] /\ agenda[u] # <<>>
  BY <1>1
<1>3. Fit(t, Head(agenda[t])) /\ Fit(u, agenda[u][i])
  BY <1>2, AgendaOps
<1>4. t # Main /\ u # Main /\ cur[t] = Head(agenda[t]).s /\ cur[u] = Head(agenda[t]).s
  BY <1>3 DEF Fit, Own, Pushing, Building
<1>5. t \in Workers /\ u \in Workers
  BY <1>4 DEF Threads
<1> QED BY <1>2, <1>4, <1>5, Alone

-----------------------------------------------------------------------------
(* What is referred to exists.                                             *)

Grows == \A x \in Streams : mode[x] # "none" => mode'[x] # "none"

LEMMA PreparedKept ==
  ASSUME Typed, Prepared, NEW t \in Threads, agenda[t] # <<>>, NEW ops \in Seq(Ops),
         Replaces(t, ops), \A i \in 1..Len(ops) : ops[i].op # "connect", Grows,
         Head(agenda[t]).op = "new" => mode'[Head(agenda[t]).s] # "none"
  PROVE  Prepared'
<1>m. Main \in Threads
  BY DEF Threads
<1>1. CASE t # Main
  <2>1. agenda'[Main] = agenda[Main]
    BY <1>m, <1>1, Replaced
  <2>2. agenda[Main] \in Seq(Ops)
    BY <1>m DEF Typed, TypeOK, AgendasOK
  <2>3. ASSUME NEW j \in 1..Len(agenda[Main]), agenda[Main][j].op = "connect",
               NEW x \in {agenda[Main][j].s, agenda[Main][j].dst}, mode'[x] = "none"
        PROVE  \E i \in 1..(j - 1) : agenda[Main][i].op = "new" /\ agenda[Main][i].s = x
    <3>1. agenda[Main][j] \in Ops
      BY <2>2
    <3>2. x \in Streams
      BY <2>3, <3>1, OpFields
    <3>3. mode[x] = "none"
      BY <2>3, <3>2 DEF Grows
    <3> QED BY <2>3, <3>3 DEF Prepared
  <2> QED BY <2>1, <2>3 DEF Prepared
<1>2. CASE t = Main
  <2>1. PICK q, r : q = agenda[Main] /\ r = agenda'[Main]
    OBVIOUS
  <2>2. /\ q \in Seq(Ops) /\ Len(q) \in Nat \ {0} /\ Len(ops) \in Nat
        /\ Head(agenda[t]) = q[1] /\ Len(r) = Len(ops) + Len(q) - 1
        /\ \A k \in 2..Len(q) : r[k + Len(ops) - 1] = q[k]
    BY <1>m, <1>2, <2>1, Replaced DEF Typed, TypeOK, AgendasOK
  <2>3. ASSUME NEW j \in 1..Len(r), r[j].op = "connect", NEW x \in {r[j].s, r[j].dst},
               mode'[x] = "none"
        PROVE  \E i \in 1..(j - 1) : r[i].op = "new" /\ r[i].s = x
    <3>1. PICK k \in 2..Len(q) : j = k + Len(ops) - 1 /\ r[j] = q[k]
      BY <1>2, <2>1, <2>3, Origin
    <3>2. k \in 1..Len(q) /\ q[k] \in Ops /\ q[k].op = "connect"
      BY <2>2, <2>3, <3>1
    <3>3. x \in Streams /\ mode[x] = "none"
      <4>1. x \in Streams
        BY <2>3, <3>1, <3>2, OpFields
      <4> QED BY <2>3, <4>1 DEF Grows
    <3>4. PICK i \in 1..(k - 1) : q[i].op = "new" /\ q[i].s = x
      BY <2>1, <2>3, <3>1, <3>2, <3>3 DEF Prepared
    <3>5. i # 1
      BY <2>2, <2>3, <3>4
    <3>6. /\ i \in 2..Len(q) /\ i + Len(ops) - 1 \in 1..(j - 1)
      BY <2>2, <3>1, <3>5
    <3>7. r[i + Len(ops) - 1] = q[i]
      BY <2>2, <3>6
    <3> QED BY <3>4, <3>6, <3>7
  <2> QED BY <2>1, <2>3 DEF Prepared
<1> QED BY <1>1, <1>2

LEMMA KnownStays == ASSUME Grows, NEW s \in Streams \cup {NoStream}, Known(s) PROVE Known(s)'
BY DEF Grows, Known

\* Nothing new is referred to.
LEMMA ExistsSame ==
  ASSUME Typed, Exists, Grows, cur' = cur, dst' = dst, rest' = rest, queue' = queue,
         prodQueue' = prodQueue
  PROVE  Exists'
<1>t. /\ \A s \in Streams : dst[s] \in Streams \cup {NoStream} /\ rest[s] \in Seq(Streams)
      /\ queue \in Seq(Streams) /\ prodQueue \in Seq(Streams)
      /\ \A w \in Workers : cur[w] \in Streams \cup {NoStream}
  BY DEF Typed, TypeOK, StreamsOK, QueuesOK, ThreadsOK
<1>1. \A s \in Streams : Known(dst[s])'
  BY <1>t, KnownStays DEF Exists
<1>2. ASSUME NEW s \in Streams, NEW i \in 1..Len(rest[s]) PROVE Known(rest[s][i])'
  <2>1. rest[s][i] \in Streams
    BY <1>t
  <2> QED BY <2>1, KnownStays DEF Exists
<1>3. ASSUME NEW i \in 1..Len(queue) PROVE Known(queue[i])'
  <2>1. queue[i] \in Streams
    BY <1>t
  <2> QED BY <2>1, KnownStays DEF Exists
<1>4. ASSUME NEW i \in 1..Len(prodQueue) PROVE Known(prodQueue[i])'
  <2>1. prodQueue[i] \in Streams
    BY <1>t
  <2> QED BY <2>1, KnownStays DEF Exists
<1>5. \A w \in Workers : Known(cur[w])'
  BY <1>t, KnownStays DEF Exists
<1> QED BY <1>1, <1>2, <1>3, <1>4, <1>5 DEF Exists

\* All that is in a sequence exists, and so does what is put at its end.
LEMMA KnownAppend ==
  ASSUME NEW q \in Seq(Streams), NEW s \in Streams, \A i \in 1..Len(q) : Known(q[i]), Known(s)
  PROVE  \A i \in 1..Len(Append(q, s)) : Known(Append(q, s)[i])
<1>1. /\ Len(Append(q, s)) = Len(q) + 1 /\ Len(q) \in Nat
      /\ Append(q, s)[Len(q) + 1] = s /\ \A i \in 1..Len(q) : Append(q, s)[i] = q[i]
  OBVIOUS
<1> QED BY <1>1

LEMMA ConnectExists ==
  ASSUME Typed, Closings, NEW t \in Threads, Connect(t)
  PROVE  Exists'
<1>1. PICK o : o = Head(agenda[t])
  OBVIOUS
<1>2. /\ o \in Ops /\ o.op = "connect" /\ o.s \in Streams /\ o.dst \in Streams /\ Fit(t, o)
      /\ agenda[t] \in Seq(Ops) /\ agenda[t] # <<>>
  BY <1>1, TopFits, OpFields DEF Connect, Closings
<1>3. mode[o.dst] # "none"
  <2>1. t = Main
    BY <1>2 DEF Fit, Own, Pushing
  <2>2. 1 \in 1..Len(agenda[Main]) /\ agenda[Main][1] = o /\ 1..(1 - 1) = {}
    BY <1>1, <1>2, <2>1
  <2> QED BY <1>2, <2>2 DEF Closings, Prepared
<1>4. /\ mode' = mode /\ cur' = cur /\ queue' = queue /\ prodQueue' = prodQueue
      /\ \/ rest' = rest /\ dst' = [dst EXCEPT ![o.s] = o.dst]
         \/ dst' = dst /\ rest' = [rest EXCEPT ![o.s] = Append(rest[o.s], o.dst)]
  BY <1>1 DEF Connect, Continue, sharedVars
<1>t. dst \in [Streams -> Streams \cup {NoStream}] /\ rest \in [Streams -> Seq(Streams)]
  BY DEF Typed, TypeOK, StreamsOK
<1>5. Known(o.dst) /\ \A x : Known(x)' <=> Known(x)
  BY <1>3, <1>4 DEF Known
<1>6. ASSUME NEW s \in Streams PROVE Known(dst'[s])
  <2>1. dst'[s] = dst[s] \/ dst'[s] = o.dst
    BY <1>t, <1>4
  <2> QED BY <1>5, <2>1 DEF Closings, Exists
<1>7. ASSUME NEW s \in Streams PROVE \A i \in 1..Len(rest'[s]) : Known(rest'[s][i])
  <2>1. rest'[s] = rest[s] \/ rest'[s] = Append(rest[s], o.dst)
    BY <1>t, <1>4
  <2>2. rest[s] \in Seq(Streams) /\ \A i \in 1..Len(rest[s]) : Known(rest[s][i])
    BY <1>t DEF Closings, Exists
  <2>3. \A i \in 1..Len(Append(rest[s], o.dst)) : Known(Append(rest[s], o.dst)[i])
    BY <1>2, <1>5, <2>2, KnownAppend
  <2> QED BY <2>1, <2>2, <2>3
<1>8. /\ \A i \in 1..Len(queue) : Known(queue[i])
      /\ \A i \in 1..Len(prodQueue) : Known(prodQueue[i])
      /\ \A w \in Workers : Known(cur[w])
  BY DEF Closings, Exists
<1> QED BY <1>4, <1>6, <1>7, <1>8 DEF Exists, Known

LEMMA AddStreamExists ==
  ASSUME Typed, Closings, NEW t \in Threads, AddStream(t)
  PROVE  Exists'
<1>1. PICK s : s = Head(agenda[t]).s
  OBVIOUS
<1>2. s \in Streams /\ mode[s] # "none"
  <2>1. Head(agenda[t]).op = "addStream" /\ s \in Streams /\ Fit(t, Head(agenda[t]))
    BY <1>1, TopFits DEF AddStream, Closings
  <2> QED BY <1>1, <2>1 DEF Fit
<1>3. /\ mode' = mode /\ cur' = cur /\ dst' = dst /\ rest' = rest
      /\ queue' = queue \/ queue' = Append(queue, s)
      /\ prodQueue' = prodQueue \/ prodQueue' = Append(prodQueue, s)
  BY <1>1 DEF AddStream, Return, Continue, streamVars
<1>4. queue \in Seq(Streams) /\ prodQueue \in Seq(Streams)
  BY DEF Typed, TypeOK, QueuesOK
<1>5. /\ \A i \in 1..Len(queue) : Known(queue[i])
      /\ \A i \in 1..Len(prodQueue) : Known(prodQueue[i])
      /\ \A w \in Workers : Known(cur[w])
      /\ \A x \in Streams : Known(dst[x]) /\ \A i \in 1..Len(rest[x]) : Known(rest[x][i])
      /\ Known(s)
  BY <1>2 DEF Closings, Exists, Known
<1>6. \A i \in 1..Len(queue') : Known(queue'[i])
  BY <1>2, <1>3, <1>4, <1>5, KnownAppend
<1>7. \A i \in 1..Len(prodQueue') : Known(prodQueue'[i])
  BY <1>2, <1>3, <1>4, <1>5, KnownAppend
<1> QED BY <1>3, <1>5, <1>6, <1>7 DEF Exists, Known

LEMMA ExistsStep ==
  ASSUME Typed, Closings, NEW t \in Threads, Step(t), Grows
  PROVE  Exists'
<1>1. CASE DropDst(t)
  <2>1. /\ mode' = mode /\ cur' = cur /\ rest' = rest /\ queue' = queue /\ prodQueue' = prodQueue
        /\ \A s \in Streams : dst'[s] \in {dst[s], NoStream}
    BY <1>1 DEF DropDst, Return, Continue, sharedVars, Typed, TypeOK, StreamsOK
  <2> QED BY <2>1 DEF Closings, Exists, Known
<1>2. CASE ~(Connect(t) \/ AddStream(t) \/ DropDst(t))
  <2>1. cur' = cur /\ dst' = dst /\ rest' = rest /\ queue' = queue /\ prodQueue' = prodQueue
    BY <1>2 DEF Step, StreamNew, Ref, Start, Push, AddTask, Emit, EmitRest, TerminationCheck,
       Close, Kill, CloseDst, CloseRest, CountDown, SeqNext, TakeNext, After, Return, Continue,
       sharedVars, streamVars
  <2> QED BY <2>1, ExistsSame DEF Closings
<1> QED BY <1>1, <1>2, ConnectExists, AddStreamExists

-----------------------------------------------------------------------------
(* Which streams live.                                                     *)

Ending(s) == InAgenda(CountDownOp(s))

LEMMA CountDownForm ==
  /\ \A s : CountDownOp(s).op = "countDown" /\ CountDownOp(s).s = s
  /\ \A o \in Ops : o.op = "countDown" => o = CountDownOp(o.s)
BY DEF Ops, StreamOps, CountDownOp

\* A replacement that does not count s down leaves the steps that do.
LEMMA EndingOther ==
  ASSUME Typed, NEW t \in Threads, agenda[t] # <<>>, NEW ops \in Seq(Ops), Replaces(t, ops),
         NEW s \in Streams,
         \A i \in 1..Len(ops) : ops[i] # CountDownOp(s), Head(agenda[t]) # CountDownOp(s)
  PROVE  Ending(s)' <=> Ending(s)
<1>1. PICK c : c = CountDownOp(s)
  OBVIOUS
<1>2. ASSUME NEW u \in Threads, NEW i \in 1..Len(agenda[u]), agenda[u][i] = c
      PROVE  \E v \in Threads : \E j \in 1..Len(agenda'[v]) : agenda'[v][j] = c
  <2>1. CASE u # t
    BY <1>2, <2>1, Replaced
  <2>2. CASE u = t
    <3>1. i \in 2..Len(agenda[t])
      BY <1>1, <1>2, <2>2, Replaced
    <3>2. /\ agenda'[t][i + Len(ops) - 1] = c
          /\ i + Len(ops) - 1 \in 1..Len(agenda'[t])
      BY <1>2, <2>2, <3>1, Replaced
    <3> QED BY <3>2
  <2> QED BY <2>1, <2>2
<1>3. ASSUME NEW u \in Threads, NEW i \in 1..Len(agenda'[u]), agenda'[u][i] = c
      PROVE  \E v \in Threads : \E j \in 1..Len(agenda[v]) : agenda[v][j] = c
  <2>1. CASE u # t
    BY <1>3, <2>1, Replaced
  <2>2. CASE u = t
    <3>1. PICK k \in 2..Len(agenda[t]) : agenda[t][k] = c
      BY <1>1, <1>3, <2>2, Origin
    <3>2. k \in 1..Len(agenda[t])
      BY <3>1, Replaced
    <3> QED BY <3>1, <3>2
  <2> QED BY <2>1, <2>2
<1> QED BY <1>1, <1>2, <1>3 DEF Ending, InAgenda

LEMMA EndingSame ==
  ASSUME Typed, NEW t \in Threads, agenda[t] # <<>>, NEW ops \in Seq(Ops), Replaces(t, ops),
         \A i \in 1..Len(ops) : ops[i].op # "countDown", Head(agenda[t]).op # "countDown",
         NEW s \in Streams
  PROVE  Ending(s)' <=> Ending(s)
<1>1. \A i \in 1..Len(ops) : ops[i] # CountDownOp(s)
  BY CountDownForm
<1>2. Head(agenda[t]) # CountDownOp(s)
  BY CountDownForm
<1> QED BY <1>1, <1>2, EndingOther

\* What counts a stream down is a step of the worker that killed it.
LEMMA EndingKilled ==
  ASSUME Typed, Agendas, NEW s \in Streams, Ending(s)
  PROVE  mode[s] = "killed"
<1>1. PICK u \in Threads : \E i \in 1..Len(agenda[u]) : agenda[u][i] = CountDownOp(s)
  BY DEF Ending, InAgenda
<1>2. PICK i \in 1..Len(agenda[u]) : agenda[u][i] = CountDownOp(s)
  BY <1>1
<1>3. Fit(u, agenda[u][i])
  BY AgendaOps
<1> QED BY <1>2, <1>3, CountDownForm DEF Fit

\* The step that counts a stream down is the only one.
LEMMA CountedOnce ==
  ASSUME Typed, ExclusiveInv, Places, Agendas, NEW t \in Threads, CountDown(t),
         NEW s \in Streams
  PROVE  /\ Head(agenda[t]).s \in Streams /\ Ending(Head(agenda[t]).s)
         /\ Ending(s)' <=> Ending(s) /\ s # Head(agenda[t]).s
<1>1. PICK h : h = Head(agenda[t])
  OBVIOUS
<1>2. /\ h \in Ops /\ h.op = "countDown" /\ h.s \in Streams
      /\ agenda[t] \in Seq(Ops) /\ agenda[t] # <<>> /\ h = CountDownOp(h.s)
  BY <1>1, TopFits, CountDownForm DEF CountDown
<1>3. 1 \in 1..Len(agenda[t]) /\ agenda[t][1] = h
  BY <1>1, <1>2
<1>4. Ending(h.s)
  BY <1>2, <1>3 DEF Ending, InAgenda
<1>5. Replaces(t, <<>>) /\ <<>> \in Seq(Ops) /\ Len(<<>>) = 0
  BY Continues DEF CountDown
<1>6. PICK c : c = CountDownOp(s) /\ c.op = "countDown" /\ c.s = s
  BY CountDownForm
<1>7. ASSUME NEW u \in Threads, NEW i \in 1..Len(agenda[u]), agenda[u][i] = c, s # h.s
      PROVE  \E v \in Threads : \E j \in 1..Len(agenda'[v]) : agenda'[v][j] = c
  <2>1. CASE u # t
    BY <1>2, <1>5, <1>7, <2>1, Replaced
  <2>2. CASE u = t
    <3>1. i \in 2..Len(agenda[t])
      BY <1>2, <1>3, <1>6, <1>7, <2>2
    <3>2. agenda'[t][i + 0 - 1] = c /\ i + 0 - 1 \in 1..Len(agenda'[t])
      <4>1. /\ Len(agenda'[t]) = Len(<<>>) + Len(agenda[t]) - 1
            /\ agenda'[t][i + Len(<<>>) - 1] = agenda[t][i]
        BY <1>2, <1>5, <3>1, Replaced
      <4> QED BY <1>2, <1>5, <1>7, <2>2, <3>1, <4>1
    <3> QED BY <3>2
  <2> QED BY <2>1, <2>2
<1>8. ASSUME NEW u \in Threads, NEW i \in 1..Len(agenda'[u]), agenda'[u][i] = c
      PROVE  s # h.s /\ \E v \in Threads : \E j \in 1..Len(agenda[v]) : agenda[v][j] = c
  <2>0. \E v \in Threads : \E k \in 1..Len(agenda[v]) : agenda[v][k] = c /\ (v = t => k # 1)
    <3>1. CASE u # t
      <4>1. agenda'[u] = agenda[u]
        BY <1>2, <1>5, <3>1, Replaced
      <4>2. i \in 1..Len(agenda[u]) /\ agenda[u][i] = c
        BY <1>8, <4>1
      <4> QED BY <3>1, <4>2
    <3>2. CASE u = t
      <4>0. i \in 1..Len(agenda'[t]) /\ agenda'[t][i] = c
        BY <1>8, <3>2
      <4>1. PICK k \in 2..Len(agenda[t]) : agenda[t][k] = c
        <5>1. \/ i \in 1..Len(<<>>) /\ agenda'[t][i] = <<>>[i]
              \/ \E k \in 2..Len(agenda[t]) : i = k + Len(<<>>) - 1 /\ agenda'[t][i] = agenda[t][k]
          BY <1>2, <1>5, <4>0, Origin
        <5> QED BY <1>5, <4>0, <5>1
      <4>2. k \in 1..Len(agenda[t]) /\ k # 1
        BY <1>2, <4>1
      <4> QED BY <4>1, <4>2
    <3> QED BY <3>1, <3>2
  <2>v. PICK v \in Threads : \E k \in 1..Len(agenda[v]) : agenda[v][k] = c /\ (v = t => k # 1)
    BY <2>0
  <2>1. PICK k \in 1..Len(agenda[v]) : agenda[v][k] = c /\ (v = t => k # 1)
    BY <2>v
  <2>2. ASSUME s = h.s PROVE FALSE
    <3>1. v = t
      <4>1. h.op \in Own /\ agenda[v][k].op \in Own /\ agenda[v][k].s = h.s
        BY <1>2, <1>6, <2>1, <2>2 DEF Own
      <4> QED BY <1>1, <1>2, <4>1, OwnStep
    <3>2. Before(h, c)
      BY <1>1, <2>1, <3>1, AgendaOrder
    <3> QED BY <1>2, <1>6, <3>2 DEF Before
  <2> QED BY <2>1, <2>2
<1>9. Ending(s)' <=> Ending(s) /\ s # h.s
  BY <1>6, <1>7, <1>8 DEF Ending, InAgenda
<1> QED BY <1>1, <1>2, <1>4, <1>9

-----------------------------------------------------------------------------
(* The steps of a thread.                                                  *)

\* No stream begins, goes dying, is killed or is counted down.
Calm(t) ==
  /\ GivesWay(t) /\ Head(agenda[t]).op \notin {"new", "countDown"}
  /\ mode' = mode /\ kind' = kind /\ kills' = kills /\ streamCount' = streamCount

Dies(t) == TerminationCheck(t) /\ Unheard(Head(agenda[t]).s)

Kills(t) == Kill(t) /\ LET o == Head(agenda[t]) IN ~(Awaited(o.s) \/ mode[o.s] # o.mode)

LEMMA StepShape ==
  ASSUME Typed, Closings, NEW t \in Threads, Step(t)
  PROVE  Calm(t) \/ StreamNew(t) \/ Dies(t) \/ Kills(t) \/ CountDown(t)
<1>1. CASE Connect(t) \/ Ref(t) \/ Start(t)
  <2>1. GivesWay(t)
    BY <1>1, BuildingGivesWay
  <2> QED BY <1>1, <2>1 DEF Calm, Connect, Ref, Start, At, sharedVars, streamVars, historyVars
<1>2. CASE Push(t) \/ AddTask(t) \/ AddStream(t)
  <2>1. GivesWay(t)
    BY <1>2, PushingGivesWay
  <2> QED BY <1>2, <2>1 DEF Calm, Push, AddTask, AddStream, At, sharedVars, streamVars, historyVars
<1>3. CASE Emit(t)
  <2>1. GivesWay(t)
    BY <1>3, EmitGivesWay
  <2> QED BY <1>3, <2>1 DEF Calm, Emit, At, sharedVars, streamVars
<1>4. CASE DropDst(t) \/ EmitRest(t) \/ CloseDst(t) \/ CloseRest(t) \/ SeqNext(t)
  <2>1. GivesWay(t)
    BY <1>4, OwnGivesWay
  <2> QED BY <1>4, <2>1 DEF Calm, DropDst, EmitRest, CloseDst, CloseRest, SeqNext, At,
             sharedVars, streamVars, historyVars
<1>5. CASE TakeNext(t) \/ After(t) \/ Close(t)
  <2>1. GivesWay(t)
    BY <1>5, LateGivesWay
  <2> QED BY <1>5, <2>1 DEF Calm, TakeNext, After, Close, At, sharedVars, streamVars, historyVars
<1>6. CASE TerminationCheck(t) /\ ~Dies(t)
  <2>1. GivesWay(t)
    BY <1>6, CheckGivesWay
  <2>2. mode' = mode
    <3>1. PICK s : s = Head(agenda[t]).s
      OBVIOUS
    <3>2. ~Unheard(s)
      BY <1>6, <3>1 DEF Dies
    <3>3. mode' = [mode EXCEPT ![s] = mode[s]]
      BY <1>6, <3>1, <3>2 DEF TerminationCheck
    <3> QED BY <3>3 DEF Typed, TypeOK, StreamsOK
  <2> QED BY <1>6, <2>1, <2>2 DEF Calm, TerminationCheck, At, sharedVars, historyVars
<1>7. CASE Kill(t) /\ ~Kills(t)
  <2>1. Return(t) /\ mode' = mode /\ kills' = kills
    BY <1>7 DEF Kill, Kills
  <2>2. GivesWay(t)
    BY <2>1, Continues, GivesWayTo
  <2> QED BY <1>7, <2>1, <2>2 DEF Calm, Kill, At, sharedVars
<1> QED BY <1>1, <1>2, <1>3, <1>4, <1>5, <1>6, <1>7 DEF Step

\* Every step takes one off the agenda and leaves the streams with their workers.
LEMMA StepFrame ==
  ASSUME NEW t \in Threads, Step(t)
  PROVE  agenda[t] # <<>> /\ cur' = cur
BY DEF Step, StreamNew, Connect, Ref, Start, Push, AddTask, AddStream, Emit, At,
   DropDst, EmitRest, TerminationCheck, Close, Kill, CloseDst, CloseRest,
   CountDown, SeqNext, TakeNext, After, Return, Continue

LEMMA CalmStep ==
  ASSUME Closing, NEW t \in Threads, Step(t), Calm(t)
  PROVE  Closings' /\ Counting'
<1>1. Typed /\ Closings /\ Agendas /\ Prepared /\ Counting /\ agenda[t] # <<>> /\ cur' = cur
  BY StepFrame DEF Closing, ExclusiveInv, Closings
<1>2. PICK ops \in Seq(Ops) : Replaces(t, ops) /\ Replacement(t, Head(agenda[t]), ops)
  BY DEF Calm, GivesWay
<1>3. mode' = mode /\ kind' = kind /\ kills' = kills /\ streamCount' = streamCount /\ Grows
  BY DEF Calm, Grows
<1>4. \A i \in 1..Len(ops) : ops[i].op \notin {"connect", "countDown"}
  BY <1>2 DEF Replacement, Inherits
<1>5. Agendas'
  BY <1>1, <1>3, CalmAgendas DEF Calm
<1>6. Prepared'
  BY <1>1, <1>2, <1>3, <1>4, PreparedKept DEF Calm
<1>7. Exists'
  BY <1>1, <1>3, ExistsStep
<1>8. Silent' /\ KilledOnce'
  BY <1>1, <1>3 DEF Closings, Silent, KilledOnce
<1>9. \A s \in Streams : Ending(s)' <=> Ending(s)
  BY <1>1, <1>2, <1>4, EndingSame DEF Calm
<1>10. Live' = Live
  BY <1>3, <1>9 DEF Live, Ending
<1> QED BY <1>1, <1>3, <1>5, <1>6, <1>7, <1>8, <1>10 DEF Closings, Counting

\* A stream that is created lives.
LEMMA NewStep ==
  ASSUME Closing, NEW t \in Threads, StreamNew(t)
  PROVE  Closings' /\ Counting'
<1>1. PICK h, s, m : h = Head(agenda[t]) /\ s = h.s /\ m = ModeOf(h.kind)
  OBVIOUS
<1>2. Typed /\ Closings /\ Agendas /\ Prepared /\ Counting
  BY DEF Closing, ExclusiveInv, Closings
<1>3. /\ h.op = "new" /\ s \in Streams /\ Fit(t, h) /\ h.kind \in Kinds
      /\ agenda[t] \in Seq(Ops) /\ agenda[t] # <<>>
  BY <1>1, <1>2, TopFits, OpFields DEF StreamNew
<1>4. t = Main /\ mode[s] = "none" /\ h.kind \notin {"sort", "reduce"}
  BY <1>1, <1>3 DEF Fit, Pushing, Own
<1>5. m \in {"producer", "consumer", "filter"}
  BY <1>1 DEF ModeOf
<1>6. /\ mode' = [mode EXCEPT ![s] = m] /\ kind' = [kind EXCEPT ![s] = h.kind]
      /\ kills' = kills /\ streamCount' = streamCount + 1 /\ Replaces(t, <<>>) /\ cur' = cur
  BY <1>1, Continues DEF StreamNew, Return, Continue, historyVars
<1>t. mode \in [Streams -> Modes] /\ kind \in [Streams -> Kinds] /\ streamCount \in Int
  BY <1>2 DEF Typed, TypeOK, StreamsOK, QueuesOK
<1>m. mode'[s] = m /\ \A x \in Streams : x # s => mode'[x] = mode[x]
  BY <1>3, <1>6, <1>t
<1>7. Grows
  BY <1>5, <1>m DEF Grows
<1>e. <<>> \in Seq(Ops) /\ \A i \in 1..Len(<<>>) : <<>>[i].op \notin {"connect", "countDown"}
  OBVIOUS
<1>8. Agendas'
  <2>1. GivesWay(t)
    BY <1>6, GivesWayTo
  <2> QED BY <1>1, <1>2, <1>3, <1>4, <1>5, <1>6, <2>1, ModeAgendas
<1>9. Prepared'
  BY <1>1, <1>2, <1>3, <1>5, <1>6, <1>m, <1>7, <1>e, PreparedKept
<1>10. Exists'
  BY <1>2, <1>7, ExistsStep DEF Step
<1>11. Silent'
  BY <1>2, <1>4, <1>6, <1>t DEF Closings, Silent
<1>12. KilledOnce'
  BY <1>2, <1>3, <1>4, <1>5, <1>6, <1>m DEF Closings, KilledOnce
<1>13. \A x \in Streams : Ending(x)' <=> Ending(x)
  BY <1>1, <1>2, <1>3, <1>6, <1>e, EndingSame
<1>14. ~Ending(s)
  BY <1>2, <1>3, <1>4, EndingKilled
<1>15. Live' = Live \cup {s} /\ s \notin Live
  <2>1. s \notin Live
    BY <1>4, <1>14 DEF Live, Ending
  <2>2. \A x \in Streams : x \in Live' <=> x \in Live \cup {s}
    BY <1>5, <1>m, <1>13 DEF Live, Ending
  <2> QED BY <1>3, <2>1, <2>2 DEF Live
<1>16. Counting'
  <2>1. IsFiniteSet(Live) /\ streamCount = Cardinality(Live)
    BY <1>2 DEF Counting
  <2>2. IsFiniteSet(Live \cup {s}) /\ Cardinality(Live \cup {s}) = Cardinality(Live) + 1
    BY <1>15, <2>1, FS_AddElement
  <2> QED BY <1>6, <1>15, <2>1, <2>2 DEF Counting
<1> QED BY <1>8, <1>9, <1>10, <1>11, <1>12, <1>16 DEF Closings

\* A stream that nobody listens to is not closed yet.
LEMMA DyingStep ==
  ASSUME Closing, NEW t \in Threads, Dies(t)
  PROVE  Closings' /\ Counting'
<1>1. PICK h, s : h = Head(agenda[t]) /\ s = h.s
  OBVIOUS
<1>2. Typed /\ Closings /\ Agendas /\ Prepared /\ Counting
  BY DEF Closing, ExclusiveInv, Closings
<1>3. /\ h.op = "check" /\ s \in Streams /\ agenda[t] \in Seq(Ops) /\ agenda[t] # <<>>
      /\ mode[s] # "none" /\ mode[s] # "killed"
  BY <1>1, <1>2, TopFits, OwnTop DEF Dies, TerminationCheck, Own
<1>4. GivesWay(t)
  BY <1>2, CheckGivesWay DEF Dies
<1>5. PICK ops \in Seq(Ops) : Replaces(t, ops) /\ Replacement(t, h, ops)
  BY <1>1, <1>4 DEF GivesWay
<1>6. /\ mode' = [mode EXCEPT ![s] = "dying"] /\ kind' = kind
      /\ kills' = kills /\ streamCount' = streamCount /\ cur' = cur
  BY <1>1 DEF Dies, TerminationCheck, Continue, historyVars, sharedVars
<1>t. mode \in [Streams -> Modes]
  BY <1>2 DEF Typed, TypeOK, StreamsOK
<1>m. mode'[s] = "dying" /\ \A x \in Streams : x # s => mode'[x] = mode[x]
  BY <1>3, <1>6, <1>t
<1>7. Grows
  BY <1>m DEF Grows
<1>e. \A i \in 1..Len(ops) : ops[i].op \notin {"connect", "countDown"}
  BY <1>5 DEF Replacement, Inherits
<1>8. Agendas'
  <2>1. PICK m : m = "dying"
    OBVIOUS
  <2>2. mode' = [mode EXCEPT ![s] = m] /\ m \notin {"none", "killed"}
    BY <1>6, <2>1
  <2> QED BY <1>2, <1>3, <1>4, <1>6, <2>2, ModeAgendas
<1>9. Prepared'
  BY <1>1, <1>2, <1>3, <1>5, <1>7, <1>e, PreparedKept
<1>10. Exists'
  BY <1>2, <1>7, ExistsStep DEF Step, Dies
<1>11. Silent' /\ KilledOnce'
  BY <1>2, <1>3, <1>6, <1>m DEF Closings, Silent, KilledOnce
<1>12. \A x \in Streams : Ending(x)' <=> Ending(x)
  BY <1>1, <1>2, <1>3, <1>5, <1>e, EndingSame
<1>13. Live' = Live
  BY <1>3, <1>m, <1>12 DEF Live, Ending
<1> QED BY <1>2, <1>6, <1>8, <1>9, <1>10, <1>11, <1>13 DEF Closings, Counting

\* A stream that is closed to the end is not counted any more.
LEMMA CountStep ==
  ASSUME Closing, NEW t \in Threads, CountDown(t)
  PROVE  Closings' /\ Counting'
<1>1. PICK h, s : h = Head(agenda[t]) /\ s = h.s
  OBVIOUS
<1>2. Typed /\ Closings /\ Agendas /\ Prepared /\ Counting /\ ExclusiveInv /\ Places
  BY DEF Closing, ExclusiveInv, Closings
<1>3. /\ h.op = "countDown" /\ s \in Streams /\ agenda[t] \in Seq(Ops) /\ agenda[t] # <<>>
  BY <1>1, <1>2, TopFits DEF CountDown
<1>4. GivesWay(t)
  BY <1>2, OwnGivesWay
<1>5. PICK ops \in Seq(Ops) : Replaces(t, ops) /\ Replacement(t, h, ops)
  BY <1>1, <1>4 DEF GivesWay
<1>6. /\ mode' = mode /\ kind' = kind
      /\ kills' = kills /\ streamCount' = streamCount - 1 /\ cur' = cur
  BY DEF CountDown, Return, Continue, historyVars, streamVars
<1>7. Grows
  BY <1>6 DEF Grows
<1>e. \A i \in 1..Len(ops) : ops[i].op \notin {"connect", "countDown"}
  BY <1>5 DEF Replacement, Inherits
<1>8. Agendas'
  BY <1>2, <1>3, <1>4, <1>6, CalmAgendas
<1>9. Prepared'
  BY <1>1, <1>2, <1>3, <1>5, <1>7, <1>e, PreparedKept
<1>10. Exists'
  BY <1>2, <1>7, ExistsStep DEF Step
<1>11. Silent' /\ KilledOnce'
  BY <1>2, <1>6 DEF Closings, Silent, KilledOnce
<1>12. Ending(s) /\ \A x \in Streams : Ending(x)' <=> Ending(x) /\ x # s
  <2>1. \A x \in Streams : Ending(x)' <=> Ending(x) /\ x # s
    BY <1>1, <1>2, CountedOnce
  <2>2. Ending(s)
    BY <1>1, <1>2, <1>3, CountedOnce
  <2> QED BY <2>1, <2>2
<1>13. mode[s] = "killed"
  BY <1>2, <1>3, <1>12, EndingKilled
<1>14. Live' = Live \ {s} /\ s \in Live
  <2>1. s \in Live
    BY <1>3, <1>12 DEF Live, Ending
  <2>2. \A x \in Streams : x \in Live' <=> x \in Live \ {s}
    BY <1>6, <1>12, <1>13 DEF Live, Ending
  <2> QED BY <2>1, <2>2 DEF Live
<1>15. Counting'
  <2>1. IsFiniteSet(Live) /\ streamCount = Cardinality(Live)
    BY <1>2 DEF Counting
  <2>2. IsFiniteSet(Live \ {s}) /\ Cardinality(Live \ {s}) = Cardinality(Live) - 1
    BY <1>14, <2>1, FS_RemoveElement
  <2> QED BY <1>6, <1>14, <2>1, <2>2 DEF Counting
<1> QED BY <1>8, <1>9, <1>10, <1>11, <1>15 DEF Closings

\* The steps that end a stream, in the agenda of the worker that killed it.
EndSteps(s) == <<CloseDstOp(s), CloseRestOp(s, 1), CountDownOp(s)>>

EndsBy(t, h, s, ops) ==
  /\ ops \in Seq(Ops) /\ Orderly(ops) /\ Len(ops) = 3 /\ ops[3] = CountDownOp(s)
  /\ \A i \in 1..Len(ops) : /\ Inherits(h, ops[i]) /\ Fit(t, ops[i])'
                            /\ ops[i].op # "connect" /\ ops[i].s = s

LEMMA EndFits ==
  ASSUME Typed, NEW t \in Workers, t # Main, NEW h, h.op = "kill", NEW s \in Streams, s = cur[t],
         cur' = cur, NEW m, m = "killed", mode' = [mode EXCEPT ![s] = m],
         NEW ops, ops = EndSteps(s)
  PROVE  EndsBy(t, h, s, ops)
<1>1. PICK a, b, c : a = CloseDstOp(s) /\ b = CloseRestOp(s, 1) /\ c = CountDownOp(s)
  OBVIOUS
<1>2. a \in Ops /\ b \in Ops /\ c \in Ops
  BY <1>1, OpTypes
<1>3. /\ a.op = "closeDst" /\ b.op = "closeRest" /\ c.op = "countDown"
      /\ a.s = s /\ b.s = s /\ c.s = s
  BY <1>1 DEF CloseDstOp, CloseRestOp, CountDownOp
<1>4. ops = <<a, b, c>>
  BY <1>1 DEF EndSteps
<1>5. ops \in Seq(Ops) /\ Len(ops) = 3 /\ ops[1] = a /\ ops[2] = b /\ ops[3] = c
  BY <1>2, <1>4
<1>6. Orderly(ops)
  <2>1. Before(a, b) /\ Before(a, c) /\ Before(b, c)
    BY <1>3 DEF Before, Late
  <2>2. ASSUME NEW j \in 1..3, NEW i \in 1..(j - 1)
        PROVE  (i = 1 /\ j = 2) \/ (i = 1 /\ j = 3) \/ (i = 2 /\ j = 3)
    OBVIOUS
  <2>3. ASSUME NEW j \in 1..3, NEW i \in 1..(j - 1)
        PROVE  Before(ops[i], ops[j])
    BY <1>5, <2>1, <2>2
  <2> QED BY <1>5, <2>3 DEF Orderly
<1>7. ASSUME NEW o, o.op \in {"closeDst", "closeRest", "countDown"}, o.s = s
      PROVE  Inherits(h, o) /\ Fit(t, o)' /\ o.op # "connect"
  <2>1. mode'[s] = "killed"
    BY DEF Typed, TypeOK, StreamsOK
  <2>2. Inherits(h, o) /\ o.op # "connect"
    BY <1>7 DEF Inherits, Late
  <2>3. Fit(t, o)'
    BY <1>7, <2>1 DEF Fit, Own
  <2> QED BY <2>2, <2>3
<1>8. /\ Inherits(h, a) /\ Fit(t, a)' /\ a.op # "connect"
      /\ Inherits(h, b) /\ Fit(t, b)' /\ b.op # "connect"
      /\ Inherits(h, c) /\ Fit(t, c)' /\ c.op # "connect"
  BY <1>3, <1>7
<1>9. ASSUME NEW i \in 1..Len(ops)
      PROVE  Inherits(h, ops[i]) /\ Fit(t, ops[i])' /\ ops[i].op # "connect" /\ ops[i].s = s
  <2>1. i = 1 \/ i = 2 \/ i = 3
    BY <1>5
  <2>2. ops[i] = a \/ ops[i] = b \/ ops[i] = c
    BY <1>5, <2>1
  <2> QED BY <1>3, <1>8, <2>2
<1> QED BY <1>1, <1>5, <1>6, <1>9 DEF EndsBy

\* A stream that is killed lives until it is counted down.
LEMMA KillStep ==
  ASSUME Closing, NEW t \in Threads, Kills(t)
  PROVE  Closings' /\ Counting'
<1>1. PICK h, s : h = Head(agenda[t]) /\ s = h.s
  OBVIOUS
<1>2. Typed /\ Closings /\ Agendas /\ Prepared /\ Counting /\ ExclusiveInv /\ Places
  BY DEF Closing, ExclusiveInv, Closings
<1>3. /\ h.op = "kill" /\ s \in Streams /\ agenda[t] \in Seq(Ops) /\ agenda[t] # <<>> /\ Fit(t, h)
      /\ mode[s] # "none" /\ s = cur[t] /\ t # Main
  BY <1>1, <1>2, TopFits, OwnTop DEF Kills, Kill, Own
<1>4. t \in Workers /\ mode[s] = h.mode /\ mode[s] # "killed"
  BY <1>1, <1>3 DEF Threads, Kills, Fit
<1>5. PICK ops : ops = EndSteps(s)
  OBVIOUS
<1>6. /\ mode' = [mode EXCEPT ![s] = "killed"] /\ kind' = kind
      /\ kills' = [kills EXCEPT ![s] = kills[s] + 1] /\ streamCount' = streamCount /\ cur' = cur
      /\ Replaces(t, IF CloseFails(kind[s], got[s]) THEN <<>>
                     ELSE CloseFunc(s, kind[s], got[s]) \o ops)
  BY <1>1, <1>5, Continues DEF Kills, Kill, Continue, sharedVars, EndSteps
<1>7. /\ ops \in Seq(Ops) /\ Orderly(ops) /\ Len(ops) = 3 /\ ops[3] = CountDownOp(s)
      /\ \A i \in 1..Len(ops) : /\ Inherits(h, ops[i]) /\ Fit(t, ops[i])'
                                /\ ops[i].op # "connect" /\ ops[i].s = s
  <2>0. PICK m : m = "killed"
    OBVIOUS
  <2>1. h.op = "kill" /\ cur' = cur /\ mode' = [mode EXCEPT ![s] = m]
    BY <1>3, <1>6, <2>0
  <2>2. Typed /\ t \in Workers /\ t # Main /\ s \in Streams /\ s = cur[t]
    BY <1>2, <1>3, <1>4
  <2>3. EndsBy(t, h, s, ops)
    BY <1>5, <2>0, <2>1, <2>2, EndFits
  <2> QED BY <2>3 DEF EndsBy
<1>8. Replaces(t, ops)
  <2>1. kind[s] \notin {"sort", "reduce"}
    BY <1>2, <1>3 DEF Closings, Silent
  <2>2. ~CloseFails(kind[s], got[s]) /\ CloseFunc(s, kind[s], got[s]) = <<>>
    BY <2>1 DEF CloseFails, CloseFunc
  <2>3. <<>> \o ops = ops
    BY <1>7, ConcatEmptySeq
  <2> QED BY <1>6, <2>2, <2>3
<1>t. mode \in [Streams -> Modes] /\ kills \in [Streams -> Nat]
  BY <1>2 DEF Typed, TypeOK, StreamsOK, HistoryOK
<1>m. mode'[s] = "killed" /\ \A x \in Streams : x # s => mode'[x] = mode[x]
  BY <1>3, <1>6, <1>t
<1>9. Grows
  BY <1>m DEF Grows
<1>10. ASSUME NEW u \in Threads, NEW i \in 1..Len(agenda[u]), NEW o, o = agenda[u][i],
              u # t \/ i # 1
       PROVE  Fit(u, o)'
  <2>1. o.s \in Streams /\ Fit(u, o)
    BY <1>2, <1>10, AgendaOps
  <2>2. o.op = "new" => o.s # s
    BY <1>3, <2>1 DEF Fit
  <2>3. ~(o.op \in {"emit", "check"} /\ o.s = s)
    <3> SUFFICES ASSUME o.op \in {"emit", "check"}, o.s = s PROVE FALSE
      OBVIOUS
    <3>1. u = t
      BY <1>1, <1>2, <1>3, <1>10, OwnStep DEF Own
    <3>2. Before(h, o)
      BY <1>1, <1>2, <1>10, <3>1, AgendaOrder
    <3> QED BY <1>3, <3>2 DEF Before, Late
  <2>4. PICK m : m = "killed"
    OBVIOUS
  <2> QED BY <1>3, <1>6, <1>t, <2>1, <2>2, <2>3, <2>4, FitMode
<1>11. Agendas'
  BY <1>1, <1>2, <1>3, <1>7, <1>8, <1>10, AgendasKept
<1>12. Prepared'
  BY <1>1, <1>2, <1>3, <1>7, <1>8, <1>9, PreparedKept
<1>13. Exists'
  BY <1>2, <1>9, ExistsStep DEF Step, Kills
<1>14. Silent'
  BY <1>2, <1>6 DEF Closings, Silent
<1>15. KilledOnce'
  <2>1. kills[s] = 0
    BY <1>2, <1>3, <1>4 DEF Closings, KilledOnce
  <2>2. kills'[s] = 1 /\ \A x \in Streams : x # s => kills'[x] = kills[x]
    BY <1>3, <1>6, <1>t, <2>1
  <2> QED BY <1>2, <1>m, <2>2 DEF Closings, KilledOnce
<1>16. Ending(s)'
  <2>1. /\ Len(agenda'[t]) = Len(ops) + Len(agenda[t]) - 1 /\ Len(agenda[t]) \in Nat \ {0}
        /\ \A j \in 1..Len(ops) : agenda'[t][j] = ops[j]
    BY <1>2, <1>3, <1>7, <1>8, Replaced
  <2>2. 3 \in 1..Len(agenda'[t]) /\ agenda'[t][3] = CountDownOp(s)
    BY <1>7, <2>1
  <2> QED BY <2>2 DEF Ending, InAgenda
<1>17. ASSUME NEW x \in Streams, x # s
       PROVE  Ending(x)' <=> Ending(x)
  <2>1. \A i \in 1..Len(ops) : ops[i] # CountDownOp(x)
    BY <1>7, <1>17, CountDownForm
  <2>2. Head(agenda[t]) # CountDownOp(x)
    BY <1>1, <1>3, CountDownForm
  <2> QED BY <1>2, <1>3, <1>7, <1>8, <2>1, <2>2, EndingOther
<1>18. \A x \in Streams : x \in Live' <=> x \in Live
  BY <1>3, <1>4, <1>m, <1>16, <1>17 DEF Live, Ending
<1>19. Live' = Live
  BY <1>18 DEF Live
<1> QED BY <1>2, <1>6, <1>11, <1>12, <1>13, <1>14, <1>15, <1>19 DEF Closings, Counting

-----------------------------------------------------------------------------
(* task_loop and strm_loop.                                                *)

LEMMA OrderlyPair == \A o, p : Before(o, p) => Orderly(<<o, p>>)
<1>1. SUFFICES ASSUME NEW o, NEW p, Before(o, p) PROVE Orderly(<<o, p>>)
  OBVIOUS
<1>2. PICK q : q = <<o, p>>
  OBVIOUS
<1>3. Len(q) = 2 /\ q[1] = o /\ q[2] = p
  BY <1>2
<1>4. \A j \in 1..2 : \A i \in 1..(j - 1) : i = 1 /\ j = 2
  OBVIOUS
<1> QED BY <1>1, <1>2, <1>3, <1>4 DEF Orderly

\* The steps of a callback, before the end of task_exec.
LEMMA CallbackSteps ==
  ASSUME NEW s \in Streams, NEW k \in Kinds, NEW num \in Int, NEW lim \in Nat, NEW d \in Data,
         NEW call, call = StartFunc(s, k, num, lim, d) \/ call = <<CloseOp(s)>>
  PROVE  /\ call \in Seq(Ops) /\ Orderly(call)
         /\ \A i \in 1..Len(call) :
              call[i].s = s /\ call[i].op \in {"emit", "seqNext", "takeNext", "close"}
<1>1. PICK a, b, c, x, y, e : /\ a = CloseOp(s) /\ b = EmitOp(s, <<s, num>>, TRUE)
                              /\ c = SeqNextOp(s) /\ x = EmitOp(s, d, FALSE)
                              /\ y = EmitOp(s, Nil, FALSE) /\ e = TakeNextOp(s)
  OBVIOUS
<1>2. /\ a.op = "close" /\ a.s = s /\ b.op = "emit" /\ b.s = s /\ c.op = "seqNext" /\ c.s = s
      /\ x.op = "emit" /\ x.s = s /\ y.op = "emit" /\ y.s = s /\ e.op = "takeNext" /\ e.s = s
  BY <1>1 DEF CloseOp, EmitOp, SeqNextOp, TakeNextOp
<1>3. a \in Ops /\ b \in Ops /\ c \in Ops /\ x \in Ops /\ y \in Ops /\ e \in Ops
  <2>1. <<s, num>> \in Data /\ Nil \in Data
    BY DEF Data, Elements
  <2> QED BY <1>1, <2>1, OpTypes
<1>4. call \in {<<a>>, <<b, c>>, <<x>>, <<y>>, <<x, e>>, <<>>}
  <2>1. CASE call = <<CloseOp(s)>>
    BY <1>1, <2>1
  <2>2. CASE call = StartFunc(s, k, num, lim, d)
    <3>1. GenSeq(s, num, lim) \in {<<a>>, <<b, c>>} /\ IterTake(s, d) = <<x, e>>
      BY <1>1 DEF GenSeq, IterTake
    <3>2. StartFunc(s, k, num, lim, d) \in {GenSeq(s, num, lim), <<x>>, <<y>>, IterTake(s, d), <<>>}
      BY <1>1, Zenon DEF StartFunc
    <3> QED BY <2>2, <3>1, <3>2
  <2> QED BY <2>1, <2>2
<1>5. ASSUME NEW o \in {a, b, c, x, y, e}
      PROVE  o \in Ops /\ o.s = s /\ o.op \in {"emit", "seqNext", "takeNext", "close"}
  BY <1>2, <1>3
<1>6. Before(b, c) /\ Before(x, e)
  BY <1>2 DEF Before, Late
<1>7. ASSUME NEW o \in {a, x, y}, call = <<o>>
      PROVE  /\ call \in Seq(Ops) /\ Orderly(call)
             /\ \A i \in 1..Len(call) : call[i] \in {a, b, c, x, y, e}
  <2>1. call \in Seq(Ops) /\ Len(call) = 1 /\ call[1] = o
    BY <1>5, <1>7
  <2>2. Orderly(call)
    BY <1>7, OrderlyShort
  <2> QED BY <2>1, <2>2
<1>8. ASSUME NEW o \in {b, x}, NEW p \in {c, e}, call = <<o, p>>, Before(o, p)
      PROVE  /\ call \in Seq(Ops) /\ Orderly(call)
             /\ \A i \in 1..Len(call) : call[i] \in {a, b, c, x, y, e}
  <2>1. call \in Seq(Ops) /\ Len(call) = 2 /\ call[1] = o /\ call[2] = p
    BY <1>5, <1>8
  <2>2. Orderly(call)
    BY <1>8, OrderlyPair
  <2> QED BY <2>1, <2>2
<1>9. ASSUME call = <<>>
      PROVE  /\ call \in Seq(Ops) /\ Orderly(call)
             /\ \A i \in 1..Len(call) : call[i] \in {a, b, c, x, y, e}
  BY <1>9, OrderlyShort
<1>10. /\ call \in Seq(Ops) /\ Orderly(call)
       /\ \A i \in 1..Len(call) : call[i] \in {a, b, c, x, y, e}
  BY <1>4, <1>6, <1>7, <1>8, <1>9
<1> QED BY <1>5, <1>10

\* A task begins with an agenda in order.
LEMMA DrainStep ==
  ASSUME Closing, NEW w \in Workers, Drain(w)
  PROVE  /\ Agendas' /\ agenda'[Main] = agenda[Main]
         /\ \A s \in Streams : Ending(s)' <=> Ending(s)
<1>1. Typed /\ Closings /\ Agendas /\ Places /\ w \in Threads /\ Main \in Threads /\ w # Main
  BY SchedulerAssumption DEF Closing, ExclusiveInv, Closings, Threads
<1>t. agenda \in [Threads -> Seq(Ops)]
  BY <1>1 DEF Typed, TypeOK, AgendasOK
<1>2. mode' = mode /\ cur' = cur /\ agenda[w] = <<>>
  BY <1>1 DEF Drain, Places, IdleAgendas
<1>3. CASE agenda' = agenda
  <2>1. Agendas'
    BY <1>1, <1>2, <1>3 DEF Agendas, Fit
  <2> QED BY <1>3, <2>1 DEF Ending, InAgenda
<1>4. CASE agenda' # agenda
  <2>1. PICK s, task : s = cur[w] /\ task = Head(tasks[s])
    OBVIOUS
  <2>2. /\ s \in Streams /\ task \in Tasks /\ kind[s] \in Kinds /\ n[s] \in Int /\ limit[s] \in Nat
        /\ task.d \in Data
    <3>1. s \in Streams /\ tasks[s] \in Seq(Tasks) /\ tasks[s] # <<>>
      BY <1>1, <2>1 DEF Drain, Typed, HoldsStream, TypeOK, QueuesOK
    <3>2. task \in Tasks
      BY <2>1, <3>1
    <3> QED BY <1>1, <3>1, <3>2 DEF Typed, TypeOK, StreamsOK, Tasks
  <2>3. mode[s] # "none" /\ mode[s] # "killed"
    <3>1. ~Discards(s)
      BY <1>4, <2>1 DEF Drain
    <3> QED BY <1>1, <2>1, <2>2, <3>1, NullAssumption DEF Discards, Closings, Exists, Known
  <2>4. PICK call : call = IF task.f = "close" THEN <<CloseOp(s)>>
                           ELSE StartFunc(s, kind[s], n[s], limit[s], task.d)
    OBVIOUS
  <2>5. agenda' = [agenda EXCEPT ![w] = call \o <<AfterOp(s)>>]
    BY <1>4, <2>1, <2>4 DEF Drain
  <2>6. /\ call \in Seq(Ops) /\ Orderly(call)
        /\ \A i \in 1..Len(call) :
             call[i].s = s /\ call[i].op \in {"emit", "seqNext", "takeNext", "close"}
    <3>1. call = StartFunc(s, kind[s], n[s], limit[s], task.d) \/ call = <<CloseOp(s)>>
      BY <2>4
    <3> QED BY <2>2, <3>1, CallbackSteps
  <2>7. PICK a, r : a = AfterOp(s) /\ r = <<a>>
    OBVIOUS
  <2>8. a \in Ops /\ a.op = "after" /\ a.s = s
    BY <2>2, <2>7, OpTypes DEF AfterOp
  <2>9. r \in Seq(Ops) /\ Len(r) = 1 /\ r[1] = a /\ Orderly(r)
    BY <2>7, <2>8, OrderlyShort
  <2>10. PICK q : q = call \o r
    OBVIOUS
  <2>11. /\ q \in Seq(Ops) /\ Len(q) = Len(call) + 1 /\ Len(call) \in Nat
         /\ \A i \in 1..Len(q) : q[i] = IF i <= Len(call) THEN call[i] ELSE r[i - Len(call)]
    <3>1. call \in Seq(Ops) /\ r \in Seq(Ops) /\ Len(r) = 1
      BY <2>6, <2>9
    <3>2. /\ q \in Seq(Ops) /\ Len(q) = Len(call) + Len(r)
          /\ \A i \in 1..(Len(call) + Len(r)) :
               q[i] = IF i <= Len(call) THEN call[i] ELSE r[i - Len(call)]
      BY <2>10, <3>1, ConcatProperties, Zenon
    <3> QED BY <3>1, <3>2
  <2>12. ASSUME NEW i \in 1..Len(q)
         PROVE  q[i].s = s /\ q[i].op \in {"emit", "seqNext", "takeNext", "close", "after"}
    <3>1. CASE i \in 1..Len(call)
      BY <2>6, <2>11, <3>1
    <3>2. CASE i = Len(call) + 1
      BY <2>8, <2>9, <2>11, <3>2
    <3> QED BY <2>11, <3>1, <3>2
  <2>13. Orderly(q)
    <3>1. PICK h : h = CloseOp(s)
      OBVIOUS
    <3>2. h.op = "close"
      BY <3>1 DEF CloseOp
    <3>3. \A i \in 1..Len(call) : Inherits(h, call[i])
      BY <2>6, <3>2 DEF Inherits, Late
    <3>4. \A j \in 1..Len(r) : Before(h, r[j])
      BY <2>8, <2>9, <3>2 DEF Before
    <3> QED BY <2>6, <2>9, <2>10, <3>3, <3>4, OrderlyJoin
  <2>14. \A o : /\ o.s = s /\ o.op \in {"emit", "seqNext", "takeNext", "close", "after"}
                => Fit(w, o)'
    BY <1>1, <1>2, <2>1, <2>3 DEF Fit, Own
  <2>15. agenda'[w] = q /\ \A u \in Threads : u # w => agenda'[u] = agenda[u]
    BY <1>1, <1>t, <2>5, <2>7, <2>10
  <2>16. ASSUME NEW u \in Threads
         PROVE  Orderly(agenda'[u]) /\ \A i \in 1..Len(agenda'[u]) : Fit(u, agenda[u][i])'
    <3>1. CASE u = w
      <4>1. ASSUME NEW i \in 1..Len(agenda'[u]) PROVE Fit(u, agenda[u][i])'
        <5>1. PICK o : o = q[i]
          OBVIOUS
        <5>2. o.s = s /\ o.op \in {"emit", "seqNext", "takeNext", "close", "after"}
          BY <2>12, <2>15, <3>1, <5>1
        <5>3. Fit(w, o)'
          BY <2>14, <5>2
        <5> QED BY <2>15, <3>1, <5>1, <5>3 DEF Fit
      <4> QED BY <2>13, <2>15, <3>1, <4>1
    <3>2. CASE u # w
      BY <1>1, <1>2, <2>15, <3>2 DEF Agendas, Fit
    <3> QED BY <3>1, <3>2
  <2>17. Agendas'
    BY <2>16 DEF Agendas
  <2>18. ASSUME NEW x \in Streams PROVE Ending(x)' <=> Ending(x)
    <3>1. PICK c : c = CountDownOp(x) /\ c.op = "countDown"
      BY CountDownForm
    <3>2. \A i \in 1..Len(agenda[w]) : agenda[w][i] # c
      BY <1>2
    <3>3. \A i \in 1..Len(agenda'[w]) : agenda'[w][i] # c
      BY <2>12, <2>15, <3>1
    <3> QED BY <2>15, <3>1, <3>2, <3>3 DEF Ending, InAgenda
  <2> QED BY <1>1, <2>15, <2>17, <2>18
<1> QED BY <1>3, <1>4

\* A worker's loop creates and closes nothing.
LEMMA LoopStep ==
  ASSUME Closing, NEW w \in Workers, Loop(w)
  PROVE  Closings' /\ Counting' /\ pc'[Main] = pc[Main]
<1>1. Typed /\ Closings /\ Agendas /\ Prepared /\ Exists /\ Silent /\ KilledOnce /\ Counting /\ Places
  BY DEF Closing, ExclusiveInv, Closings
<1>t. /\ pc \in [Threads -> Labels] /\ cur \in [Workers -> Streams \cup {NoStream}]
      /\ queue \in Seq(Streams) /\ prodQueue \in Seq(Streams)
      /\ w \in Threads /\ Main \in Threads /\ Main # w
  BY <1>1, SchedulerAssumption DEF Typed, TypeOK, ThreadsOK, QueuesOK, Threads
<1>2. /\ mode' = mode /\ kind' = kind /\ dst' = dst /\ rest' = rest /\ kills' = kills
      /\ streamCount' = streamCount
  BY DEF Loop, GetStream, GetProducer, Claim, Drain, TaskDone, Drained, Release, CheckCount,
     streamVars, sharedVars, historyVars
<1>3. pc'[Main] = pc[Main]
  BY <1>t DEF Loop, GetStream, GetProducer, Claim, Drain, TaskDone, Drained, Release,
     CheckCount, GoTo
<1>4. Agendas' /\ agenda'[Main] = agenda[Main] /\ \A s \in Streams : Ending(s)' <=> Ending(s)
  <2>1. CASE Drain(w)
    BY <2>1, DrainStep
  <2>2. CASE ~Drain(w)
    <3>1. agenda' = agenda
      BY <2>2 DEF Loop, GetStream, GetProducer, Claim, TaskDone, Drained, Release, CheckCount
    <3>2. cur'[w] = cur[w] \/ agenda[w] = <<>>
      <4>1. pc[w] = "run" => cur' = cur
        BY <2>2 DEF Loop, GetStream, GetProducer, Claim, TaskDone, Drained, Release, CheckCount
      <4> QED BY <1>1, <4>1 DEF Places, IdleAgendas
    <3>3. \A v \in Workers : v # w => cur'[v] = cur[v]
      BY <1>t, <2>2 DEF Loop, GetStream, GetProducer, Claim, TaskDone, Drained, Release, CheckCount
    <3>4. ASSUME NEW u \in Threads, NEW i \in 1..Len(agenda[u]) PROVE Fit(u, agenda[u][i])'
      <4>1. Fit(u, agenda[u][i])
        BY <1>1, <3>4 DEF Agendas
      <4>2. u # Main => cur'[u] = cur[u]
        <5>1. agenda[u] # <<>>
          BY <3>4
        <5> QED BY <3>2, <3>3, <5>1 DEF Threads
      <4>3. agenda[u][i].op \in Own => u # Main
        BY <4>1 DEF Fit, Own, Pushing, Building
      <4> QED BY <1>2, <3>1, <4>1, <4>2, <4>3 DEF Fit
    <3>5. \A u \in Threads : Orderly(agenda'[u])
      BY <1>1, <3>1 DEF Agendas
    <3> QED BY <3>1, <3>4, <3>5 DEF Agendas, Ending, InAgenda
  <2> QED BY <2>1, <2>2
<1>5. Prepared'
  BY <1>1, <1>2, <1>4 DEF Prepared
<1>6. Exists'
  <2>1. \A x : Known(x)' <=> Known(x)
    BY <1>2 DEF Known
  <2>2. \A s \in Streams : Known(dst'[s]) /\ \A i \in 1..Len(rest'[s]) : Known(rest'[s][i])
    BY <1>1, <1>2 DEF Exists
  <2>3. \A i \in 1..Len(queue') : Known(queue'[i])
    <3>1. queue' = queue \/ (queue # <<>> /\ queue' = Tail(queue))
      BY DEF Loop, GetStream, GetProducer, Claim, Drain, TaskDone, Drained, Release,
         CheckCount, sharedVars
    <3>2. queue # <<>> => /\ Len(Tail(queue)) = Len(queue) - 1 /\ Len(queue) \in Nat
                          /\ \A i \in 1..Len(Tail(queue)) : Tail(queue)[i] = queue[i + 1]
      BY <1>t
    <3>3. queue # <<>> => \A i \in 1..Len(Tail(queue)) : i + 1 \in 1..Len(queue)
      BY <3>2
    <3> QED BY <1>1, <3>1, <3>2, <3>3 DEF Exists
  <2>4. \A i \in 1..Len(prodQueue') : Known(prodQueue'[i])
    <3>1. prodQueue' = prodQueue \/ (prodQueue # <<>> /\ prodQueue' = Tail(prodQueue))
      BY DEF Loop, GetStream, GetProducer, Claim, Drain, TaskDone, Drained, Release,
         CheckCount, sharedVars
    <3>2. prodQueue # <<>> => /\ Len(Tail(prodQueue)) = Len(prodQueue) - 1 /\ Len(prodQueue) \in Nat
                              /\ \A i \in 1..Len(Tail(prodQueue)) : Tail(prodQueue)[i] = prodQueue[i + 1]
      BY <1>t
    <3>3. prodQueue # <<>> => \A i \in 1..Len(Tail(prodQueue)) : i + 1 \in 1..Len(prodQueue)
      BY <3>2
    <3> QED BY <1>1, <3>1, <3>2, <3>3 DEF Exists
  <2>5. \A v \in Workers : Known(cur'[v])
    <3>1. \A v \in Workers : v # w => cur'[v] = cur[v]
      BY <1>t DEF Loop, GetStream, GetProducer, Claim, Drain, TaskDone, Drained, Release, CheckCount
    <3>2. Known(cur'[w])
      <4>1. CASE GetStream(w) /\ queue # <<>>
        <5>1. cur'[w] = Head(queue) /\ Head(queue) = queue[1] /\ 1 \in 1..Len(queue)
          BY <1>t, <4>1 DEF GetStream
        <5> QED BY <1>1, <5>1 DEF Exists
      <4>2. CASE GetProducer(w) /\ prodQueue # <<>>
        <5>1. /\ cur'[w] = Head(prodQueue) /\ Head(prodQueue) = prodQueue[1]
              /\ 1 \in 1..Len(prodQueue)
          BY <1>t, <4>2 DEF GetProducer
        <5> QED BY <1>1, <5>1 DEF Exists
      <4>3. CASE ~(GetStream(w) /\ queue # <<>>) /\ ~(GetProducer(w) /\ prodQueue # <<>>)
        <5>1. cur'[w] = cur[w] \/ cur'[w] = NoStream
          BY <1>t, <4>3 DEF Loop, GetStream, GetProducer, Claim, Drain, TaskDone, Drained,
             Release, CheckCount
        <5> QED BY <1>1, <5>1 DEF Exists, Known
      <4> QED BY <4>1, <4>2, <4>3
    <3> QED BY <1>1, <3>1, <3>2 DEF Exists
  <2> QED BY <2>1, <2>2, <2>3, <2>4, <2>5 DEF Exists
<1>7. Silent' /\ KilledOnce'
  BY <1>1, <1>2 DEF Silent, KilledOnce
<1>8. Live' = Live
  BY <1>2, <1>4 DEF Live, Ending
<1> QED BY <1>1, <1>2, <1>3, <1>4, <1>5, <1>6, <1>7, <1>8 DEF Closings, Counting

\* Entering and leaving strm_loop changes neither streams nor agendas.
LEMMA MainLoopStep ==
  ASSUME Closing, EnterLoop \/ LeaveLoop
  PROVE  Closings' /\ Counting' /\ AtDone'
<1>1. /\ mode' = mode /\ kind' = kind /\ dst' = dst /\ rest' = rest /\ kills' = kills
      /\ queue' = queue /\ prodQueue' = prodQueue /\ streamCount' = streamCount
      /\ cur' = cur /\ agenda' = agenda
  BY DEF EnterLoop, LeaveLoop, streamVars, sharedVars, historyVars
<1>2. Agendas'
  BY <1>1 DEF Closing, Closings, Agendas, Fit
<1>3. Prepared' /\ Exists' /\ Silent' /\ KilledOnce'
  BY <1>1 DEF Closing, Closings, Prepared, Exists, Known, Silent, KilledOnce
<1>4. Live' = Live
  BY <1>1 DEF Live, InAgenda
<1>5. Counting'
  BY <1>1, <1>4 DEF Closing, Counting
<1>6. AtDone'
  <2>1. Main \in Threads /\ pc \in [Threads -> Labels]
    BY DEF Closing, ExclusiveInv, Typed, TypeOK, ThreadsOK, Threads
  <2> QED BY <1>1, <2>1 DEF EnterLoop, LeaveLoop, GoTo, AtDone
<1> QED BY <1>2, <1>3, <1>5, <1>6 DEF Closings

\* A step of a thread does not move the main thread.
LEMMA StepStays ==
  ASSUME Typed, NEW t \in Threads, Step(t)
  PROVE  pc'[Main] = pc[Main]
<1>1. /\ Main \in Threads /\ Main \notin Workers /\ pc \in [Threads -> Labels]
  BY SchedulerAssumption DEF Typed, TypeOK, ThreadsOK, Threads
<1>2. CASE Start(t)
  BY <1>1, <1>2 DEF Start, TaskInit
<1>3. CASE ~Start(t)
  BY <1>3 DEF Step, StreamNew, Connect, Ref, Push, AddTask, AddStream, Emit, DropDst,
     EmitRest, TerminationCheck, Close, Kill, CloseDst, CloseRest, CountDown, SeqNext,
     TakeNext, After, Return, Continue
<1> QED BY <1>2, <1>3

LEMMA ClosingStep == Closing /\ [Next]_vars => Closing'
<1> SUFFICES ASSUME Closing, [Next]_vars PROVE Closing'
  OBVIOUS
<1>1. ExclusiveInv' /\ Places'
  BY ExclusiveStep, PlacesStep DEF Closing, ExclusiveInv
<1>2. CASE UNCHANGED vars
  <2>1. /\ mode' = mode /\ kind' = kind /\ dst' = dst /\ rest' = rest /\ kills' = kills
        /\ queue' = queue /\ prodQueue' = prodQueue /\ streamCount' = streamCount
        /\ cur' = cur /\ agenda' = agenda /\ pc' = pc
    BY <1>2 DEF vars, sharedVars, streamVars, threadVars, historyVars
  <2>2. Agendas'
    BY <2>1 DEF Closing, Closings, Agendas, Fit
  <2>3. Prepared' /\ Exists' /\ Silent' /\ KilledOnce'
    BY <2>1 DEF Closing, Closings, Prepared, Exists, Known, Silent, KilledOnce
  <2>4. Live' = Live
    BY <2>1 DEF Live, InAgenda
  <2>5. Counting' /\ AtDone'
    BY <2>1, <2>4 DEF Closing, Counting, AtDone
  <2> QED BY <1>1, <2>2, <2>3, <2>5 DEF Closing, Closings
<1>3. ASSUME NEW t \in Threads, Step(t), Running
      PROVE  Closing'
  <2>1. Typed /\ Closings
    BY DEF Closing, ExclusiveInv
  <2>2. Closings' /\ Counting'
    BY <1>3, <2>1, StepShape, CalmStep, NewStep, DyingStep, KillStep, CountStep
  <2>3. AtDone'
    BY <1>3, <2>1, StepStays DEF AtDone, Running
  <2> QED BY <1>1, <2>2, <2>3 DEF Closing
<1>4. ASSUME NEW w \in Workers, Loop(w), Running
      PROVE  Closing'
  BY <1>1, <1>4, LoopStep DEF Closing, AtDone, Running
<1>5. CASE EnterLoop \/ LeaveLoop
  BY <1>1, <1>5, MainLoopStep DEF Closing
<1>6. Main \in Threads /\ Workers \subseteq Threads
  BY DEF Threads
<1> QED BY <1>2, <1>3, <1>4, <1>5, <1>6 DEF Next, MainStep, WorkerStep, Ended

LEMMA ClosingInit ==
  ASSUME Quiet, Init
  PROVE  Closing
<1>1. ExclusiveInv
  BY InitTyped, SchedulerAssumption
  DEF Init, ExclusiveInv, Flagged, Exclusive, Executing, Threads
<1>2. Places
  <2>1. Main \notin Workers /\ Workers \subseteq Threads
    BY SchedulerAssumption DEF Threads
  <2> QED BY <2>1 DEF Init, Places, IdleAgendas, NotBorn, FlagHeld
<1>3. PICK p \in Scripts : p = program
  BY DEF Init
<1>4. /\ p \in Seq(ScriptOps) /\ WellFormed(p) /\ Main \in Threads
      /\ \A i \in 1..Len(p) : p[i].op = "new" => p[i].kind \notin {"sort", "reduce"}
  BY SchedulerAssumption DEF Threads, Quiet
<1>5. \A i \in 1..Len(p) : p[i] \in Ops /\ p[i].op \in {"new", "connect"}
  <2>1. \A i \in 1..Len(p) : p[i] \in ScriptOps
    BY <1>4
  <2> QED BY <2>1 DEF ScriptOps
<1>6. agenda[Main] = p /\ \A t \in Threads : t # Main => agenda[t] = <<>>
  BY <1>3, <1>4 DEF Init
<1>7. \A s \in Streams : mode[s] = "none"
  BY DEF Init
<1>8. Orderly(p)
  <2>1. ASSUME NEW j \in 1..Len(p), NEW i \in 1..(j - 1), p[i].op = "new", p[j].op = "new"
        PROVE  p[i].s # p[j].s
    <3>1. p[i].s \in Created(p, j - 1)
      BY <2>1 DEF Created
    <3>2. p[j].s \notin Created(p, j - 1)
      BY <1>4, <2>1 DEF WellFormed
    <3> QED BY <3>1, <3>2
  <2>2. ASSUME NEW j \in 1..Len(p), NEW i \in 1..(j - 1)
        PROVE  Before(p[i], p[j])
    <3>1. p[i].op \in {"new", "connect"} /\ p[j].op \in {"new", "connect"}
      <4>1. Len(p) \in Nat
        BY <1>4
      <4>2. i \in 1..Len(p)
        BY <4>1
      <4> QED BY <1>5, <4>2
    <3> QED BY <2>1, <3>1 DEF Before, Late
  <2> QED BY <2>2 DEF Orderly
<1>9. \A i \in 1..Len(p) : Fit(Main, p[i])
  <2>1. \A i \in 1..Len(p) : mode[p[i].s] = "none"
    BY <1>5, <1>7, OpFields
  <2> QED BY <1>4, <1>5, <2>1 DEF Fit, Building, Own
<1>10. Agendas
  BY <1>6, <1>8, <1>9, OrderlyShort DEF Agendas
<1>11. Prepared
  <2>1. ASSUME NEW j \in 1..Len(p), p[j].op = "connect", NEW x \in {p[j].s, p[j].dst}
        PROVE  \E i \in 1..(j - 1) : p[i].op = "new" /\ p[i].s = x
    <3>1. x \in Created(p, j - 1)
      BY <1>4, <2>1 DEF WellFormed
    <3> QED BY <3>1 DEF Created
  <2> QED BY <1>6, <2>1 DEF Prepared
<1>12. Exists
  <2>1. /\ \A s \in Streams : dst[s] = NoStream /\ Len(rest[s]) = 0
        /\ Len(queue) = 0 /\ Len(prodQueue) = 0 /\ \A w \in Workers : cur[w] = NoStream
    BY DEF Init
  <2> QED BY <2>1 DEF Exists, Known
<1>13. Silent /\ KilledOnce
  BY DEF Init, Silent, KilledOnce
<1>14. Counting
  <2>1. ASSUME NEW s \in Streams PROVE ~InAgenda(CountDownOp(s))
    <3>1. \A i \in 1..Len(p) : p[i] # CountDownOp(s)
      BY <1>5, CountDownForm
    <3> QED BY <1>6, <3>1 DEF InAgenda
  <2>2. Live = {}
    BY <1>7, <2>1 DEF Live
  <2> QED BY <2>2, FS_EmptySet DEF Init, Counting
<1>15. AtDone
  BY <1>4 DEF Init, AtDone
<1> QED BY <1>1, <1>2, <1>10, <1>11, <1>12, <1>13, <1>14, <1>15 DEF Closing, Closings

-----------------------------------------------------------------------------
(* The theorems.                                                           *)

\* close_func, which frees what a stream keeps, is reached once for each stream.
THEOREM ClosedOnce == ASSUME Quiet PROVE Spec => []CloseFuncOnce
<1>1. Init => Closing
  BY ClosingInit
<1>2. Closing => CloseFuncOnce
  <2> SUFFICES ASSUME Closing, NEW s \in Streams PROVE kills[s] <= 1
    BY DEF CloseFuncOnce
  <2>1. kills[s] = 0 \/ kills[s] = 1
    BY DEF Closing, Closings, KilledOnce
  <2> QED BY <2>1
<1> QED BY <1>1, <1>2, ClosingStep, PTL DEF Spec

\* stream_count is the number of streams that are not closed to the end, however
\* creating, killing and counting down are interleaved.
THEOREM CountIsExact == ASSUME Quiet PROVE Spec => []CountsLiveStreams
<1>1. Init => Closing
  BY ClosingInit
<1>2. Closing => CountsLiveStreams
  BY DEF Closing, Counting, Live, CountsLiveStreams
<1> QED BY <1>1, <1>2, ClosingStep, PTL DEF Spec

\* The process does not end while a stream is open.
THEOREM ReturnsLast == ASSUME Quiet PROVE Spec => []ReturnsAfterAll
<1>1. Init => Closing
  BY ClosingInit
<1>2. Closing => ReturnsAfterAll
  <2> SUFFICES ASSUME Closing, pc[Main] = "done"
               PROVE  \A s \in Streams : mode[s] \in {"none", "killed"}
    BY DEF ReturnsAfterAll
  <2>1. IsFiniteSet(Live) /\ Cardinality(Live) = 0
    BY DEF Closing, Counting, AtDone
  <2>2. Live = {}
    BY <2>1, FS_EmptySet
  <2> QED BY <2>2 DEF Live
<1> QED BY <1>1, <1>2, ClosingStep, PTL DEF Spec

-----------------------------------------------------------------------------
(* One connection: what its upstream has emitted, S, is, from the element  *)
(* after the first k on, what the stream has been invoked for, g, then what*)
(* its queue q holds, and then the element that is flying to it.           *)

\* r[i] elements have come to the stream when the first i tasks of q are done.
Carried(q, g, S, k, r) ==
  /\ r \in [Nat -> Nat] /\ r[0] = Len(g)
  /\ \A i \in 1..Len(q) :
       \/ q[i].d = Nil /\ r[i] = r[i - 1]
       \/ q[i].d # Nil /\ r[i] = r[i - 1] + 1 /\ k + r[i] <= Len(S) /\ q[i].d = S[k + r[i]]
  /\ k + r[Len(q)] <= Len(S)

\* alive: what the queue holds may still be taken; open: the stream takes what comes;
\* adding: the element that is flying has been let in.
Carries(q, g, S, k, r, open, flying, adding) ==
  /\ Carried(q, g, S, k, r)
  /\ open => k + r[Len(q)] + (IF flying THEN 1 ELSE 0) = Len(S)
  /\ adding => k + r[Len(q)] + 1 = Len(S)

Flow(q, g, S, alive, open, flying, adding) == \E k \in Nat :
  /\ Follows(g, S, k)
  /\ alive => \E r : Carries(q, g, S, k, r, open, flying, adding)

Bare(q) == \A i \in 1..Len(q) : q[i].d = Nil

\* Nothing moves; a stream that takes what comes lets the element in.
LEMMA FlowSame ==
  ASSUME NEW q, NEW g, NEW S, NEW alive \in BOOLEAN, NEW open \in BOOLEAN, NEW flying \in BOOLEAN, NEW adding \in BOOLEAN,
         NEW alive2 \in BOOLEAN, NEW open2 \in BOOLEAN, NEW flying2 \in BOOLEAN, NEW adding2 \in BOOLEAN,
         Flow(q, g, S, alive, open, flying, adding),
         alive2 => alive, open2 => open /\ flying2 = flying, adding2 => adding \/ (open /\ flying)
  PROVE  Flow(q, g, S, alive2, open2, flying2, adding2)
<1>1. PICK k \in Nat : /\ Follows(g, S, k)
                       /\ alive => \E r : Carries(q, g, S, k, r, open, flying, adding)
  BY DEF Flow
<1>2. CASE alive2
  <2>1. PICK r : Carries(q, g, S, k, r, open, flying, adding)
    BY <1>1, <1>2
  <2>2. Carries(q, g, S, k, r, open2, flying2, adding2)
    BY <2>1 DEF Carries
  <2> QED BY <1>1, <2>2 DEF Flow
<1>3. CASE ~alive2
  BY <1>1, <1>3 DEF Flow
<1> QED BY <1>2, <1>3

\* The stream that will take nothing more.
LEMMA FlowOver ==
  ASSUME NEW q, NEW p, NEW g, NEW S, NEW alive, NEW open, NEW flying, NEW adding,
         NEW open2, NEW flying2, NEW adding2,
         Flow(q, g, S, alive, open, flying, adding)
  PROVE  Flow(p, g, S, FALSE, open2, flying2, adding2)
  BY DEF Flow

LEMMA CarriedFacts ==
  ASSUME NEW q \in Seq(Tasks), NEW g \in Seq(Data), NEW S \in Seq(Data), NEW k \in Nat, NEW r,
         Carried(q, g, S, k, r)
  PROVE  /\ Len(q) \in Nat /\ Len(g) \in Nat /\ Len(S) \in Nat
         /\ r[0] = Len(g) /\ k + r[Len(q)] <= Len(S)
         /\ r \in [Nat -> Nat] /\ \A i \in Nat : r[i] \in Nat
         /\ \A i \in 1..Len(q) :
              /\ i \in Nat /\ i - 1 \in Nat
              /\ \/ q[i].d = Nil /\ r[i] = r[i - 1]
                 \/ q[i].d # Nil /\ r[i] = r[i - 1] + 1 /\ k + r[i] <= Len(S) /\ q[i].d = S[k + r[i]]
<1>1. r \in [Nat -> Nat]
  BY DEF Carried
<1>2. \A i \in Nat : r[i] \in Nat
  BY <1>1
<1>3. Len(q) \in Nat /\ Len(g) \in Nat /\ Len(S) \in Nat
  OBVIOUS
<1>4. \A i \in 1..Len(q) : i \in Nat /\ i - 1 \in Nat
  BY <1>3
<1> QED BY <1>1, <1>2, <1>3, <1>4 DEF Carried

Extended(r, l, v) == [i \in Nat |-> IF i <= l THEN r[i] ELSE v]

LEMMA CarriedAppend ==
  ASSUME NEW q \in Seq(Tasks), NEW g \in Seq(Data), NEW S \in Seq(Data), NEW k \in Nat, NEW r,
         NEW x \in Tasks, NEW v \in Nat, Carried(q, g, S, k, r),
         \/ x.d = Nil /\ v = r[Len(q)]
         \/ x.d # Nil /\ v = r[Len(q)] + 1 /\ k + v <= Len(S) /\ x.d = S[k + v]
  PROVE  /\ Carried(Append(q, x), g, S, k, Extended(r, Len(q), v))
         /\ Extended(r, Len(q), v)[Len(Append(q, x))] = v
<1> DEFINE p == Append(q, x)
           h == Extended(r, Len(q), v)
<1>1. Len(q) \in Nat /\ Len(p) = Len(q) + 1 /\ p[Len(q) + 1] = x /\ \A i \in 1..Len(q) : p[i] = q[i]
  OBVIOUS
<1>2. /\ r \in [Nat -> Nat] /\ (\A i \in Nat : r[i] \in Nat) /\ Len(S) \in Nat
      /\ k + r[Len(q)] <= Len(S) /\ r[Len(q)] \in Nat
  BY CarriedFacts
<1>3. h \in [Nat -> Nat] /\ h[Len(q) + 1] = v /\ \A i \in 0..Len(q) : h[i] = r[i]
  <2>1. \A i \in Nat : h[i] = IF i <= Len(q) THEN r[i] ELSE v
    BY DEF Extended
  <2>2. h \in [Nat -> Nat]
    BY <1>2, <2>1 DEF Extended
  <2>3. Len(q) + 1 \in Nat /\ ~(Len(q) + 1 <= Len(q)) /\ \A i \in 0..Len(q) : i \in Nat /\ i <= Len(q)
    BY <1>1
  <2> QED BY <2>1, <2>2, <2>3
<1>4. h[0] = Len(g)
  BY <1>1, <1>3 DEF Carried
<1>5. k + v <= Len(S)
  BY <1>2
<1> HIDE DEF p, h
<1>6. ASSUME NEW i \in 1..Len(p)
      PROVE  \/ p[i].d = Nil /\ h[i] = h[i - 1]
             \/ p[i].d # Nil /\ h[i] = h[i - 1] + 1 /\ k + h[i] <= Len(S) /\ p[i].d = S[k + h[i]]
  <2>1. CASE i \in 1..Len(q)
    <3>1. i \in 0..Len(q) /\ i - 1 \in 0..Len(q)
      BY <1>1, <2>1
    <3>2. h[i] = r[i] /\ h[i - 1] = r[i - 1] /\ p[i] = q[i]
      BY <1>1, <1>3, <2>1, <3>1
    <3>3. \/ q[i].d = Nil /\ r[i] = r[i - 1]
          \/ q[i].d # Nil /\ r[i] = r[i - 1] + 1 /\ k + r[i] <= Len(S) /\ q[i].d = S[k + r[i]]
      BY <2>1 DEF Carried
    <3> QED BY <3>2, <3>3
  <2>2. CASE i = Len(q) + 1
    <3>1. i - 1 = Len(q) /\ Len(q) \in 0..Len(q)
      BY <1>1, <2>2
    <3>2. h[i] = v /\ h[i - 1] = r[Len(q)] /\ p[i] = x
      BY <1>1, <1>3, <2>2, <3>1
    <3> QED BY <3>2
  <2> QED BY <1>1, <2>1, <2>2
<1>7. h[Len(p)] = v
  BY <1>1, <1>3
<1>8. Carried(p, g, S, k, h)
  BY <1>3, <1>4, <1>5, <1>6, <1>7 DEF Carried
<1> QED BY <1>7, <1>8 DEF p, h

\* A task that brings nothing.
LEMMA FlowNil ==
  ASSUME NEW q \in Seq(Tasks), NEW g \in Seq(Data), NEW S \in Seq(Data), NEW x \in Tasks, x.d = Nil,
         NEW alive, NEW open, NEW flying, NEW adding,
         Flow(q, g, S, alive, open, flying, adding)
  PROVE  Flow(Append(q, x), g, S, alive, open, flying, adding)
<1>1. PICK k \in Nat : /\ Follows(g, S, k)
                       /\ alive => \E r : Carries(q, g, S, k, r, open, flying, adding)
  BY DEF Flow
<1>2. CASE alive
  <2>1. PICK r : Carries(q, g, S, k, r, open, flying, adding)
    BY <1>1, <1>2
  <2>2. PICK v : v = r[Len(q)]
    OBVIOUS
  <2>3. Carried(q, g, S, k, r) /\ v \in Nat
    <3>1. Carried(q, g, S, k, r)
      BY <2>1 DEF Carries
    <3> QED BY <2>2, <3>1, CarriedFacts
  <2>4. PICK h : h = Extended(r, Len(q), v)
    OBVIOUS
  <2>5. Carried(Append(q, x), g, S, k, h) /\ h[Len(Append(q, x))] = v
    BY <2>2, <2>3, <2>4, CarriedAppend
  <2>6. Carries(Append(q, x), g, S, k, h, open, flying, adding)
    BY <2>1, <2>2, <2>5 DEF Carries
  <2> QED BY <1>1, <2>6 DEF Flow
<1>3. CASE ~alive
  BY <1>1, <1>3 DEF Flow
<1> QED BY <1>2, <1>3

\* The element that was let in is queued.
LEMMA FlowAdd ==
  ASSUME NEW q \in Seq(Tasks), NEW g \in Seq(Data), NEW S \in Seq(Data), S # <<>>,
         NEW x \in Tasks, x.d # Nil, x.d = S[Len(S)],
         NEW alive, NEW open, NEW flying,
         Flow(q, g, S, alive, open, flying, TRUE)
  PROVE  Flow(Append(q, x), g, S, alive, open, FALSE, FALSE)
<1>1. PICK k \in Nat : /\ Follows(g, S, k)
                       /\ alive => \E r : Carries(q, g, S, k, r, open, flying, TRUE)
  BY DEF Flow
<1>2. CASE alive
  <2>1. PICK r : Carries(q, g, S, k, r, open, flying, TRUE)
    BY <1>1, <1>2
  <2>2. PICK v : v = r[Len(q)] + 1
    OBVIOUS
  <2>3. Carried(q, g, S, k, r) /\ v \in Nat /\ k + v = Len(S) /\ Len(S) \in Nat
    <3>1. Carried(q, g, S, k, r) /\ k + r[Len(q)] + 1 = Len(S)
      BY <2>1 DEF Carries
    <3>2. r[Len(q)] \in Nat /\ Len(S) \in Nat
      BY <3>1, CarriedFacts
    <3> QED BY <2>2, <3>1, <3>2
  <2>4. PICK h : h = Extended(r, Len(q), v)
    OBVIOUS
  <2>5. Carried(Append(q, x), g, S, k, h) /\ h[Len(Append(q, x))] = v
    <3>1. x.d # Nil /\ v = r[Len(q)] + 1 /\ k + v <= Len(S) /\ x.d = S[k + v]
      BY <2>2, <2>3
    <3> QED BY <2>3, <2>4, <3>1, CarriedAppend
  <2>6. Carries(Append(q, x), g, S, k, h, open, FALSE, FALSE)
    BY <2>3, <2>5 DEF Carries
  <2> QED BY <1>1, <2>6 DEF Flow
<1>3. CASE ~alive
  BY <1>1, <1>3 DEF Flow
<1> QED BY <1>2, <1>3

LEMMA FollowsMore ==
  ASSUME NEW g \in Seq(Data), NEW S \in Seq(Data), NEW x \in Data, NEW k \in Nat, Follows(g, S, k)
  PROVE  Follows(g, Append(S, x), k)
<1>1. /\ Len(g) \in Nat /\ Len(S) \in Nat /\ Len(Append(S, x)) = Len(S) + 1
      /\ \A i \in 1..Len(S) : Append(S, x)[i] = S[i]
  OBVIOUS
<1>2. k + Len(g) <= Len(S) /\ \A i \in 1..Len(g) : k + i \in 1..Len(S) /\ g[i] = S[k + i]
  BY <1>1 DEF Follows
<1> QED BY <1>1, <1>2 DEF Follows

\* The upstream emits to a stream that listens.
LEMMA FlowEmit ==
  ASSUME NEW q \in Seq(Tasks), NEW g \in Seq(Data), NEW S \in Seq(Data), NEW x \in Data,
         NEW alive, NEW open,
         Flow(q, g, S, alive, open, FALSE, FALSE)
  PROVE  Flow(q, g, Append(S, x), alive, open, TRUE, FALSE)
<1>1. PICK k \in Nat : /\ Follows(g, S, k)
                       /\ alive => \E r : Carries(q, g, S, k, r, open, FALSE, FALSE)
  BY DEF Flow
<1>2. Follows(g, Append(S, x), k)
  BY <1>1, FollowsMore
<1>3. CASE alive
  <2>1. PICK r : Carries(q, g, S, k, r, open, FALSE, FALSE)
    BY <1>1, <1>3
  <2>2. /\ Len(S) \in Nat /\ Len(Append(S, x)) = Len(S) + 1 /\ Len(q) \in Nat
        /\ \A i \in 1..Len(S) : Append(S, x)[i] = S[i]
    OBVIOUS
  <2>3. /\ r \in [Nat -> Nat] /\ r[0] = Len(g) /\ k + r[Len(q)] <= Len(S) /\ r[Len(q)] \in Nat
        /\ \A i \in 1..Len(q) : r[i] \in Nat /\ r[i - 1] \in Nat
    <3>1. Carried(q, g, S, k, r)
      BY <2>1 DEF Carries
    <3>2. r \in [Nat -> Nat] /\ r[0] = Len(g) /\ k + r[Len(q)] <= Len(S)
      BY <3>1 DEF Carried
    <3>3. \A i \in Nat : r[i] \in Nat
      BY <3>2
    <3>4. \A i \in 1..Len(q) : i \in Nat /\ i - 1 \in Nat
      BY <2>2
    <3> QED BY <2>2, <3>2, <3>3, <3>4
  <2>4. ASSUME NEW i \in 1..Len(q)
        PROVE  \/ q[i].d = Nil /\ r[i] = r[i - 1]
               \/ /\ q[i].d # Nil /\ r[i] = r[i - 1] + 1 /\ k + r[i] <= Len(Append(S, x))
                  /\ q[i].d = Append(S, x)[k + r[i]]
    <3>1. \/ q[i].d = Nil /\ r[i] = r[i - 1]
          \/ q[i].d # Nil /\ r[i] = r[i - 1] + 1 /\ k + r[i] <= Len(S) /\ q[i].d = S[k + r[i]]
      BY <2>1 DEF Carries, Carried
    <3>2. CASE q[i].d # Nil
      <4>1. r[i] \in Nat /\ r[i - 1] \in Nat
        BY <2>3
      <4>2. r[i] = r[i - 1] + 1 /\ k + r[i] <= Len(S) /\ q[i].d = S[k + r[i]]
        BY <3>1, <3>2
      <4>3. k + r[i] \in 1..Len(S) /\ k + r[i] <= Len(Append(S, x))
        <5>1. PICK v : v = r[i]
          OBVIOUS
        <5>2. v \in Nat \ {0} /\ k + v <= Len(S)
          BY <4>1, <4>2, <5>1
        <5>3. k + v \in 1..Len(S) /\ k + v <= Len(S) + 1
          BY <2>2, <5>2
        <5> QED BY <2>2, <5>1, <5>3
      <4>4. Append(S, x)[k + r[i]] = S[k + r[i]]
        BY <2>2, <4>3
      <4> QED BY <3>2, <4>2, <4>3, <4>4
    <3> QED BY <3>1, <3>2
  <2>5. Carried(q, g, Append(S, x), k, r)
    <3>1. k + r[Len(q)] <= Len(Append(S, x))
      BY <2>2, <2>3
    <3> QED BY <2>3, <2>4, <3>1 DEF Carried
  <2>6. Carries(q, g, Append(S, x), k, r, open, TRUE, FALSE)
    <3>1. open => k + r[Len(q)] = Len(S)
      BY <2>1, <2>2, <2>3 DEF Carries
    <3> QED BY <2>2, <2>3, <2>5, <3>1 DEF Carries
  <2> QED BY <1>2, <2>6 DEF Flow
<1>4. CASE ~alive
  BY <1>2, <1>4 DEF Flow
<1> QED BY <1>3, <1>4

\* What a stream that takes nothing more misses.
LEMMA FlowMiss ==
  ASSUME NEW q \in Seq(Tasks), NEW g \in Seq(Data), NEW S \in Seq(Data), NEW x \in Data,
         NEW alive \in BOOLEAN, NEW flying \in BOOLEAN,
         Flow(q, g, S, alive, FALSE, FALSE, FALSE)
  PROVE  Flow(q, g, Append(S, x), alive, FALSE, flying, FALSE)
<1>1. PICK T : T = Append(S, x)
  OBVIOUS
<1>2. Flow(q, g, T, alive, FALSE, TRUE, FALSE)
  BY <1>1, FlowEmit
<1>3. \A k, r : Carries(q, g, T, k, r, FALSE, TRUE, FALSE) => Carries(q, g, T, k, r, FALSE, flying, FALSE)
  BY DEF Carries
<1>4. Flow(q, g, T, alive, FALSE, flying, FALSE)
  BY <1>2, <1>3 DEF Flow
<1> QED BY <1>1, <1>4

\* Nothing has come yet: what has been emitted so far is lost.
LEMMA FlowFresh ==
  ASSUME NEW q \in Seq(Tasks), Bare(q), NEW S \in Seq(Data), NEW alive, NEW open,
         NEW flying \in BOOLEAN, flying => S # <<>>
  PROVE  Flow(q, <<>>, S, alive, open, flying, FALSE)
<1>1. PICK k \in Nat : k + (IF flying THEN 1 ELSE 0) = Len(S)
  <2>1. Len(S) \in Nat /\ (S # <<>> => Len(S) - 1 \in Nat)
    OBVIOUS
  <2>2. CASE flying
    <3>1. PICK l : l = Len(S) - 1
      OBVIOUS
    <3>2. l \in Nat /\ l + 1 = Len(S)
      BY <2>1, <2>2, <3>1
    <3>3. l + (IF flying THEN 1 ELSE 0) = Len(S)
      BY <2>2, <3>2
    <3> QED BY <3>2, <3>3
  <2>3. CASE ~flying
    <3>1. PICK l : l = Len(S)
      OBVIOUS
    <3>2. l \in Nat
      BY <2>1, <3>1
    <3>3. l + (IF flying THEN 1 ELSE 0) = Len(S)
      BY <2>3, <3>1, <3>2
    <3> QED BY <3>2, <3>3
  <2> QED BY <2>2, <2>3
<1>2. PICK r : r = [i \in Nat |-> 0]
  OBVIOUS
<1>3. Len(q) \in Nat /\ Len(S) \in Nat /\ Len(<<>>) = 0
  OBVIOUS
<1>4. r \in [Nat -> Nat] /\ \A i \in Nat : r[i] = 0
  BY <1>2
<1>5. \A i \in 1..Len(q) : q[i].d = Nil /\ r[i] = r[i - 1]
  BY <1>3, <1>4 DEF Bare
<1>6. k + r[Len(q)] = k /\ k <= Len(S)
  BY <1>1, <1>3, <1>4
<1>7. Carried(q, <<>>, S, k, r)
  BY <1>3, <1>4, <1>5, <1>6 DEF Carried
<1>8. Carries(q, <<>>, S, k, r, open, flying, FALSE)
  BY <1>1, <1>6, <1>7 DEF Carries
<1>9. Follows(<<>>, S, k)
  BY <1>3, <1>6 DEF Follows
<1> QED BY <1>8, <1>9 DEF Flow

\* The stream takes a task.
Shifted(r) == [i \in Nat |-> r[i + 1]]

LEMMA FlowTake ==
  ASSUME NEW q \in Seq(Tasks), q # <<>>, NEW g \in Seq(Data), NEW S \in Seq(Data),
         NEW open, NEW flying, NEW adding,
         Flow(q, g, S, TRUE, open, flying, adding)
  PROVE  Flow(Tail(q), IF Head(q).d # Nil THEN Append(g, Head(q).d) ELSE g, S, TRUE, open, flying, adding)
<1> DEFINE x == Head(q).d
           p == Tail(q)
           h == IF x # Nil THEN Append(g, x) ELSE g
<1>0. PICK k \in Nat : Follows(g, S, k) /\ \E r : Carries(q, g, S, k, r, open, flying, adding)
  BY DEF Flow
<1>1. PICK r : Follows(g, S, k) /\ Carries(q, g, S, k, r, open, flying, adding)
  BY <1>0
<1>2. /\ Len(q) \in Nat \ {0} /\ Len(p) = Len(q) - 1 /\ Len(p) \in Nat /\ q[1].d = x /\ x \in Data
      /\ Len(g) \in Nat /\ Len(S) \in Nat
      /\ \A i \in 1..Len(p) : p[i] = q[i + 1] /\ i + 1 \in 1..Len(q) /\ i \in Nat /\ i - 1 \in Nat
  <2>1. Head(q) \in Tasks
    OBVIOUS
  <2> QED BY <2>1 DEF Tasks
<1>3. /\ r \in [Nat -> Nat] /\ r[0] = Len(g) /\ k + r[Len(q)] <= Len(S) /\ r[1] \in Nat
      /\ (\A i \in Nat : r[i] \in Nat)
      /\ \A i \in 1..Len(q) :
           \/ q[i].d = Nil /\ r[i] = r[i - 1]
           \/ q[i].d # Nil /\ r[i] = r[i - 1] + 1 /\ k + r[i] <= Len(S) /\ q[i].d = S[k + r[i]]
  <2>1. Carried(q, g, S, k, r)
    BY <1>1 DEF Carries
  <2>2. r \in [Nat -> Nat]
    BY <2>1 DEF Carried
  <2>3. \A i \in Nat : r[i] \in Nat
    BY <2>2
  <2> QED BY <2>1, <2>2, <2>3 DEF Carried
<1>4. PICK v : v = Shifted(r)
  OBVIOUS
<1>5. v \in [Nat -> Nat] /\ \A i \in Nat : v[i] = r[i + 1]
  <2>1. ASSUME NEW i \in Nat PROVE r[i + 1] \in Nat
    <3>1. i + 1 \in Nat
      OBVIOUS
    <3> QED BY <1>3, <3>1
  <2> QED BY <1>4, <2>1, Zenon DEF Shifted
<1> HIDE DEF x, p, h
<1>6. \/ x = Nil /\ r[1] = r[0]
      \/ x # Nil /\ r[1] = r[0] + 1 /\ k + r[1] <= Len(S) /\ x = S[k + r[1]]
  <2>1. 1 \in 1..Len(q) /\ 1 - 1 = 0
    BY <1>2
  <2> QED BY <1>2, <1>3, <2>1
<1>7. v[0] = Len(h) /\ Follows(h, S, k)
  <2>1. v[0] = r[1]
    BY <1>5
  <2>2. CASE x = Nil
    BY <1>1, <1>3, <1>6, <2>1, <2>2 DEF h
  <2>3. CASE x # Nil
    <3>1. h = Append(g, x) /\ Len(h) = Len(g) + 1 /\ h[Len(g) + 1] = x /\ \A i \in 1..Len(g) : h[i] = g[i]
      BY <1>2, <2>3 DEF h
    <3>2. \A i \in 1..Len(h) : i \in 1..Len(g) \/ i = Len(g) + 1
      BY <1>2, <3>1
    <3>3. k + Len(h) <= Len(S) /\ x = S[k + Len(h)]
      BY <1>3, <1>6, <2>3, <3>1
    <3>4. ASSUME NEW i \in 1..Len(h) PROVE h[i] = S[k + i]
      BY <1>1, <2>3, <3>1, <3>2, <3>3 DEF Follows
    <3> QED BY <1>3, <1>6, <2>1, <2>3, <3>1, <3>3, <3>4 DEF Follows
  <2> QED BY <2>2, <2>3
<1>8. v[Len(p)] = r[Len(q)]
  <2>1. Len(p) \in Nat /\ Len(p) + 1 = Len(q)
    BY <1>2
  <2> QED BY <1>5, <2>1
<1>9. ASSUME NEW i \in 1..Len(p)
      PROVE  \/ p[i].d = Nil /\ v[i] = v[i - 1]
             \/ p[i].d # Nil /\ v[i] = v[i - 1] + 1 /\ k + v[i] <= Len(S) /\ p[i].d = S[k + v[i]]
  <2>1. p[i] = q[i + 1] /\ i + 1 \in 1..Len(q) /\ v[i] = r[i + 1] /\ v[i - 1] = r[i]
    <3>1. i - 1 \in Nat /\ (i - 1) + 1 = i
      BY <1>2
    <3> QED BY <1>2, <1>5, <3>1
  <2>2. (i + 1) - 1 = i
    BY <1>2
  <2> QED BY <1>3, <2>1, <2>2
<1>10. Carried(p, h, S, k, v)
  BY <1>3, <1>5, <1>7, <1>8, <1>9 DEF Carried
<1>11. Carries(p, h, S, k, v, open, flying, adding)
  BY <1>1, <1>8, <1>10 DEF Carries
<1>12. Flow(p, h, S, TRUE, open, flying, adding)
  BY <1>7, <1>11 DEF Flow
<1> QED BY <1>12 DEF x, p, h

\* When nothing is under way, all has come.
LEMMA FlowSettled ==
  ASSUME NEW q \in Seq(Tasks), NEW g \in Seq(Data), NEW S \in Seq(Data), NEW alive, NEW open,
         NEW flying, NEW adding,
         Flow(q, g, S, alive, open, flying, adding), open => alive
  PROVE  \E k \in 0..Len(S) : /\ Follows(g, S, k)
                              /\ open /\ ~flying /\ Bare(q) => k + Len(g) = Len(S)
<1>1. PICK k \in Nat : /\ Follows(g, S, k)
                       /\ alive => \E r : Carries(q, g, S, k, r, open, flying, adding)
  BY DEF Flow
<1>2. k \in 0..Len(S)
  <2>1. Len(g) \in Nat /\ Len(S) \in Nat
    OBVIOUS
  <2> QED BY <1>1, <2>1 DEF Follows
<1>3. ASSUME open, ~flying, Bare(q) PROVE k + Len(g) = Len(S)
  <2>1. PICK r : Carries(q, g, S, k, r, open, flying, adding)
    BY <1>1, <1>3
  <2>2. r \in [Nat -> Nat] /\ r[0] = Len(g) /\ k + r[Len(q)] = Len(S)
    <3>1. Carried(q, g, S, k, r) /\ k + r[Len(q)] + 0 = Len(S)
      BY <1>3, <2>1 DEF Carries
    <3>2. /\ r \in [Nat -> Nat] /\ r[0] = Len(g)
      BY <3>1 DEF Carried
    <3>3. r[Len(q)] \in Nat
      <4>1. Len(q) \in Nat
        OBVIOUS
      <4> QED BY <3>2, <4>1
    <3>4. k + r[Len(q)] + 0 = k + r[Len(q)]
      BY <3>3
    <3> QED BY <3>1, <3>2, <3>4
  <2>3. Len(q) \in Nat
    OBVIOUS
  <2> DEFINE T == {i \in Nat : i <= Len(q) => r[i] = Len(g)}
  <2>4. 0 \in T
    BY <2>2
  <2>5. ASSUME NEW i \in Nat, i \in T PROVE i + 1 \in T
    <3>1. CASE i + 1 <= Len(q)
      <4>1. i + 1 \in 1..Len(q) /\ (i + 1) - 1 = i /\ i <= Len(q)
        BY <2>3, <3>1
      <4>2. r[i + 1] = r[i]
        BY <1>3, <2>1, <4>1 DEF Carries, Carried, Bare
      <4> QED BY <2>5, <4>1, <4>2
    <3>2. CASE ~(i + 1 <= Len(q))
      BY <3>2
    <3> QED BY <3>1, <3>2
  <2>6. Nat \subseteq T
    <3> HIDE DEF T
    <3> QED BY <2>4, <2>5, EveryNumber
  <2>7. Len(q) \in T
    BY <2>3, <2>6
  <2>8. r[Len(q)] = Len(g)
    BY <2>3, <2>7
  <2> QED BY <2>2, <2>8
<1> QED BY <1>1, <1>2, <1>3

-----------------------------------------------------------------------------
(* Where a stream u is in passing an element on: what is left of its       *)
(* steps, a.                                                               *)

\* A step that passes no element on.
Light(o) == /\ o.op \notin {"dropDst", "emitRest"}
            /\ o.op \in {"push", "addTask"} => o.d = Nil

Clean(a) == \A i \in 1..Len(a) : Light(a[i])

\* x still goes to the i-th of rest and those after it; with 0, dst has had it.
Sends(a, u, x, i) ==
  \/ /\ i = 0 /\ a # <<>> /\ Head(a) = DropDstOp(u) /\ Tail(a) # <<>>
     /\ Head(Tail(a)) = EmitRestOp(u, x, 1) /\ Clean(Tail(Tail(a)))
  \/ i > 0 /\ a # <<>> /\ Head(a) = EmitRestOp(u, x, i) /\ Clean(Tail(a))

\* e has x pushed to it, has it added to its queue, or is queued with it.
Shape(c, e, i, u, a, x) ==
  \/ c = "send" /\ Sends(a, u, x, i)
  \/ c = "stream" /\ a # <<>> /\ Head(a) = AddStreamOp(e) /\ Sends(Tail(a), u, x, i)
  \/ /\ c = "task" /\ a # <<>> /\ Head(a) = AddTaskOp(e, "start", x) /\ Tail(a) # <<>>
     /\ Head(Tail(a)) = AddStreamOp(e) /\ Sends(Tail(Tail(a)), u, x, i)
  \/ c = "push" /\ a # <<>> /\ Head(a) = PushOp(e, "start", x) /\ Sends(Tail(a), u, x, i)

Aim(e, i, D, R) == /\ e \in Streams
                   /\ \/ i = 0 /\ e = D
                      \/ i \in 2..(Len(R) + 1) /\ e = R[i - 1]

\* The stage of a stream with dst D and rest R that has emitted S.
Stage(c, e, i, u, a, S, D, R) ==
  \/ c = "clean" /\ Clean(a)
  \/ /\ c \in {"send", "stream", "task", "push"}
     /\ S # <<>> /\ S[Len(S)] # Nil /\ i \in 0..(Len(R) + 1) /\ (i = 0 => D # NoStream)
     /\ c \in {"task", "push"} => Aim(e, i, D, R)
     /\ Shape(c, e, i, u, a, S[Len(S)])

Hears(D, R, d) == D = d \/ InSeq(d, R)

Once(D, R, d) == /\ D = d => ~InSeq(d, R)
                 /\ \A i, j \in 1..Len(R) : R[i] = d /\ R[j] = d => i = j

Ahead(R, d, i) == \E j \in 1..Len(R) : j >= i /\ R[j] = d

\* The last element is still to come to d.
Flies(c, e, i, R, d) == /\ c # "clean"
                        /\ \/ c \in {"task", "push"} /\ e = d
                           \/ Ahead(R, d, i)

Adds(c, e, d) == c = "task" /\ e = d

LEMMA CleanTail ==
  ASSUME NEW a \in Seq(Ops), a # <<>>, Clean(a)
  PROVE  Light(Head(a)) /\ Clean(Tail(a))
<1>1. /\ Head(a) = a[1] /\ 1 \in 1..Len(a) /\ Len(Tail(a)) = Len(a) - 1 /\ Len(a) \in Nat
      /\ \A i \in 1..Len(Tail(a)) : Tail(a)[i] = a[i + 1] /\ i + 1 \in 1..Len(a)
  OBVIOUS
<1> QED BY <1>1 DEF Clean

LEMMA CleanJoin ==
  ASSUME NEW p \in Seq(Ops), NEW q \in Seq(Ops), Clean(p), Clean(q)
  PROVE  Clean(p \o q)
<1>1. /\ Len(p \o q) = Len(p) + Len(q) /\ Len(p) \in Nat /\ Len(q) \in Nat
      /\ \A i \in 1..(Len(p) + Len(q)) : (p \o q)[i] = IF i <= Len(p) THEN p[i] ELSE q[i - Len(p)]
  BY ConcatProperties
<1>2. ASSUME NEW i \in 1..(Len(p) + Len(q)) PROVE Light((p \o q)[i])
  <2>1. CASE i <= Len(p)
    <3>1. i \in 1..Len(p) /\ (p \o q)[i] = p[i]
      BY <1>1, <2>1
    <3> QED BY <3>1 DEF Clean
  <2>2. CASE ~(i <= Len(p))
    <3>1. i - Len(p) \in 1..Len(q) /\ (p \o q)[i] = q[i - Len(p)]
      BY <1>1, <2>2
    <3> QED BY <3>1 DEF Clean
  <2> QED BY <2>1, <2>2
<1> QED BY <1>1, <1>2 DEF Clean

LEMMA SendsTop ==
  ASSUME NEW a \in Seq(Ops), NEW u, NEW x, NEW i \in Nat, Sends(a, u, x, i)
  PROVE  /\ a # <<>> /\ Tail(a) \in Seq(Ops) /\ Head(a).s = u
         /\ Head(a).op = IF i = 0 THEN "dropDst" ELSE "emitRest"
         /\ i = 0 => Sends(Tail(a), u, x, 1)
         /\ i > 0 => Clean(Tail(a)) /\ Head(a).i = i /\ Head(a).d = x
<1>1. Tail(a) \in Seq(Ops)
  BY DEF Sends
<1> QED BY <1>1 DEF Sends, DropDstOp, EmitRestOp

LEMMA ShapeTop ==
  ASSUME NEW a \in Seq(Ops), NEW u, NEW x, NEW e, NEW i \in Nat, NEW c, Shape(c, e, i, u, a, x)
  PROVE  /\ a # <<>> /\ Tail(a) \in Seq(Ops) /\ Head(a) \in Ops
         /\ c = "send" => Head(a).s = u /\ Head(a).op = IF i = 0 THEN "dropDst" ELSE "emitRest"
         /\ c = "stream" => Head(a).op = "addStream" /\ Head(a).s = e
         /\ c = "task" => Head(a).op = "addTask" /\ Head(a).s = e /\ Head(a).d = x /\ Head(a).f = "start"
         /\ c = "push" => Head(a).op = "push" /\ Head(a).s = e /\ Head(a).d = x /\ Head(a).f = "start"
         /\ c \in {"send", "stream", "task", "push"}
<1>1. a # <<>>
  BY DEF Shape, Sends
<1>2. Tail(a) \in Seq(Ops) /\ Head(a) \in Ops
  BY <1>1
<1>3. CASE c = "send"
  <2>1. Sends(a, u, x, i)
    BY <1>3 DEF Shape
  <2> QED BY <1>1, <1>2, <1>3, <2>1, SendsTop
<1>4. CASE c # "send"
  <2>1. \/ c = "stream" /\ Head(a) = AddStreamOp(e)
        \/ c = "task" /\ Head(a) = AddTaskOp(e, "start", x)
        \/ c = "push" /\ Head(a) = PushOp(e, "start", x)
    BY <1>4 DEF Shape
  <2> QED BY <1>1, <1>2, <2>1 DEF AddStreamOp, AddTaskOp, PushOp
<1> QED BY <1>3, <1>4

\* What the next step says of the stage.
LEMMA StageTop ==
  ASSUME NEW a \in Seq(Ops), a # <<>>, NEW u, NEW S, NEW D, NEW R \in Seq(Streams), NEW c, NEW e, NEW i,
         Stage(c, e, i, u, a, S, D, R), NEW h, h = Head(a)
  PROVE  /\ c = "clean" => Clean(a)
         /\ c # "clean" => i \in Nat /\ Shape(c, e, i, u, a, S[Len(S)])
         /\ h.op \notin {"dropDst", "emitRest", "addStream", "push", "addTask"} => c = "clean"
         /\ h.op = "addStream" => c \in {"clean", "stream"}
         /\ h.op = "push" => IF h.d = Nil THEN c = "clean" ELSE c = "push"
         /\ h.op = "addTask" => IF h.d = Nil THEN c = "clean" ELSE c = "task"
         /\ h.op \in {"dropDst", "emitRest"} => c = "send"
<1>1. CASE c = "clean"
  <2>1. Clean(a)
    BY <1>1 DEF Stage
  <2>2. Light(h)
    BY <2>1, CleanTail
  <2> QED BY <1>1, <2>1, <2>2 DEF Light
<1>2. CASE c # "clean"
  <2>1. i \in Nat /\ Shape(c, e, i, u, a, S[Len(S)]) /\ S[Len(S)] # Nil
    <3>1. i \in 0..(Len(R) + 1) /\ Len(R) \in Nat
      BY <1>2 DEF Stage
    <3> QED BY <1>2, <3>1 DEF Stage
  <2>2. /\ c = "send" => h.op \in {"dropDst", "emitRest"}
        /\ c = "stream" => h.op = "addStream"
        /\ c = "task" => h.op = "addTask" /\ h.d # Nil
        /\ c = "push" => h.op = "push" /\ h.d # Nil
        /\ c \in {"send", "stream", "task", "push"}
    BY <2>1, ShapeTop
  <2> QED BY <1>2, <2>1, <2>2
<1> QED BY <1>1, <1>2

-----------------------------------------------------------------------------
(* How the stage moves.                                                    *)

LEMMA StageClean ==
  ASSUME NEW a \in Seq(Ops), a # <<>>, Clean(a), NEW ops \in Seq(Ops), Clean(ops)
  PROVE  \A e, i, u, S, D, R : Stage("clean", e, i, u, ops \o Tail(a), S, D, R)
<1>1. Tail(a) \in Seq(Ops) /\ Clean(Tail(a))
  BY CleanTail
<1>2. Clean(ops \o Tail(a))
  BY <1>1, CleanJoin
<1> QED BY <1>2 DEF Stage

\* strm_task_push lets the element in, or does not.
LEMMA StagePush ==
  ASSUME NEW a \in Seq(Ops), NEW u, NEW S, NEW D, NEW R, NEW e, NEW i,
         Stage("push", e, i, u, a, S, D, R)
  PROVE  /\ Stage("send", e, i, u, Tail(a), S, D, R)
         /\ Stage("task", e, i, u, TaskAdd(e, "start", S[Len(S)]) \o Tail(a), S, D, R)
<1>1. PICK x : x = S[Len(S)]
  OBVIOUS
<1>2. a # <<>> /\ Head(a) = PushOp(e, "start", x) /\ Sends(Tail(a), u, x, i) /\ e \in Streams
  BY <1>1 DEF Stage, Shape, Aim
<1>3. Stage("send", e, i, u, Tail(a), S, D, R)
  BY <1>1, <1>2 DEF Stage, Shape
<1>4. PICK p, q, r : p = AddTaskOp(e, "start", x) /\ q = AddStreamOp(e) /\ r = Tail(a)
  OBVIOUS
<1>5. Head(a) \in Ops /\ r \in Seq(Ops)
  BY <1>2, <1>4
<1>6. x \in Data
  <2>1. Head(a).op = "push" /\ Head(a).d = x
    BY <1>2 DEF PushOp
  <2> QED BY <1>5, <2>1, OpFields
<1>7. p \in Ops /\ q \in Ops
  BY <1>2, <1>4, <1>6, OpTypes DEF Funcs
<1>8. <<p, q>> \o r = <<p>> \o (<<q>> \o r)
  BY <1>5, <1>7, Front2
<1>9. PICK b : b = <<q>> \o r
  OBVIOUS
<1>10. b \in Seq(Ops) /\ b # <<>> /\ Head(b) = q /\ Tail(b) = r
  BY <1>5, <1>7, <1>9, Front1
<1>11. PICK z : z = <<p>> \o b
  OBVIOUS
<1>12. z # <<>> /\ Head(z) = p /\ Tail(z) = b
  BY <1>7, <1>10, <1>11, Front1
<1>13. Stage("task", e, i, u, z, S, D, R)
  BY <1>1, <1>2, <1>4, <1>10, <1>12 DEF Stage, Shape
<1>14. TaskAdd(e, "start", S[Len(S)]) \o Tail(a) = z
  BY <1>1, <1>4, <1>8, <1>9, <1>11 DEF TaskAdd
<1> QED BY <1>3, <1>13, <1>14

LEMMA StageTask ==
  ASSUME NEW a \in Seq(Ops), NEW u, NEW S, NEW D, NEW R, NEW e, NEW i,
         Stage("task", e, i, u, a, S, D, R)
  PROVE  Stage("stream", e, i, u, Tail(a), S, D, R)
  BY DEF Stage, Shape

LEMMA StageStream ==
  ASSUME NEW a \in Seq(Ops), NEW u, NEW S, NEW D, NEW R, NEW e, NEW i,
         Stage("stream", e, i, u, a, S, D, R)
  PROVE  Stage("send", e, i, u, Tail(a), S, D, R)
  BY DEF Stage, Shape

LEMMA StageDrop ==
  ASSUME NEW a \in Seq(Ops), NEW u, NEW S, NEW D, NEW R \in Seq(Streams), NEW e, NEW i,
         Stage("send", e, i, u, a, S, D, R), Head(a).op = "dropDst", NEW D2
  PROVE  i = 0 /\ Stage("send", e, 1, u, Tail(a), S, D2, R)
<1>1. PICK x : x = S[Len(S)]
  OBVIOUS
<1>2. Sends(a, u, x, i) /\ i \in 0..(Len(R) + 1) /\ Len(R) \in Nat
  BY <1>1 DEF Stage, Shape
<1>3. i = 0 /\ Sends(Tail(a), u, x, 1)
  BY <1>2, SendsTop
<1>4. 1 \in 0..(Len(R) + 1) /\ 1 # 0
  BY <1>2
<1> QED BY <1>1, <1>3, <1>4 DEF Stage, Shape

LEMMA StageRest ==
  ASSUME NEW a \in Seq(Ops), NEW u \in Streams, NEW S \in Seq(Data), NEW D, NEW R \in Seq(Streams), NEW e, NEW i,
         Stage("send", e, i, u, a, S, D, R), Head(a).op = "emitRest"
  PROVE  /\ i \in Nat \ {0} /\ i <= Len(R) + 1 /\ Head(a).i = i /\ Head(a).d = S[Len(S)]
         /\ i > Len(R) => Stage("clean", e, i, u, Tail(a), S, D, R)
         /\ ~(i > Len(R)) =>
              Stage("push", R[i], i + 1, u,
                    <<PushOp(R[i], "start", S[Len(S)]), EmitRestOp(u, S[Len(S)], i + 1)>> \o Tail(a), S, D, R)
<1>1. PICK x : x = S[Len(S)]
  OBVIOUS
<1>2. /\ Sends(a, u, x, i) /\ i \in 0..(Len(R) + 1) /\ Len(R) \in Nat /\ S # <<>> /\ x # Nil
  BY <1>1 DEF Stage, Shape
<1>3. i \in Nat \ {0} /\ i <= Len(R) + 1 /\ Head(a).i = i /\ Head(a).d = x /\ Clean(Tail(a)) /\ Tail(a) \in Seq(Ops)
  BY <1>2, SendsTop
<1>4. Stage("clean", e, i, u, Tail(a), S, D, R)
  BY <1>3 DEF Stage
<1>5. ASSUME ~(i > Len(R))
      PROVE  Stage("push", R[i], i + 1, u, <<PushOp(R[i], "start", x), EmitRestOp(u, x, i + 1)>> \o Tail(a), S, D, R)
  <2>1. PICK f, p, q, r : f = R[i] /\ p = PushOp(f, "start", x) /\ q = EmitRestOp(u, x, i + 1) /\ r = Tail(a)
    OBVIOUS
  <2>2. i \in 1..Len(R) /\ f \in Streams
    BY <1>2, <1>3, <1>5, <2>1
  <2>3. x \in Data /\ i + 1 \in Nat \ {0}
    BY <1>1, <1>2, <1>3
  <2>4. p \in Ops /\ q \in Ops
    BY <2>1, <2>2, <2>3, OpTypes DEF Funcs
  <2>5. <<p, q>> \o r = <<p>> \o (<<q>> \o r)
    BY <1>3, <2>1, <2>4, Front2
  <2>6. PICK b : b = <<q>> \o r
    OBVIOUS
  <2>7. b \in Seq(Ops) /\ b # <<>> /\ Head(b) = q /\ Tail(b) = r
    BY <1>3, <2>1, <2>4, <2>6, Front1
  <2>8. PICK z : z = <<p>> \o b
    OBVIOUS
  <2>9. z # <<>> /\ Head(z) = p /\ Tail(z) = b
    BY <2>4, <2>7, <2>8, Front1
  <2>10. Sends(b, u, x, i + 1)
    <3>1. i + 1 > 0
      BY <1>3
    <3>2. Head(b) = EmitRestOp(u, x, i + 1) /\ Clean(Tail(b))
      BY <1>3, <2>1, <2>7
    <3> QED BY <2>7, <3>1, <3>2, Zenon DEF Sends
  <2>11. Shape("push", f, i + 1, u, z, x)
    BY <2>1, <2>9, <2>10 DEF Shape
  <2>12. i + 1 \in 2..(Len(R) + 1) /\ i + 1 \in 0..(Len(R) + 1) /\ i + 1 # 0 /\ (i + 1) - 1 = i
    BY <1>2, <2>2
  <2>13. Aim(f, i + 1, D, R)
    BY <2>1, <2>2, <2>12 DEF Aim
  <2>14. Stage("push", f, i + 1, u, z, S, D, R)
    BY <1>1, <1>2, <2>11, <2>12, <2>13 DEF Stage
  <2> QED BY <2>1, <2>5, <2>6, <2>8, <2>14
<1> QED BY <1>1, <1>3, <1>4, <1>5

\* u emits x.
LEMMA StageEmit ==
  ASSUME NEW a \in Seq(Ops), a # <<>>, Clean(a), NEW u \in Streams, NEW S \in Seq(Data), NEW x \in Data, x # Nil,
         NEW D \in Streams \union {NoStream}, NEW R \in Seq(Streams), NEW y \in Ops, Light(y)
  PROVE  /\ Stage("send", D, 1, u, <<EmitRestOp(u, x, 1), y>> \o Tail(a), Append(S, x), D, R)
         /\ D # NoStream =>
              Stage("push", D, 0, u,
                    <<PushOp(D, "start", x), DropDstOp(u), EmitRestOp(u, x, 1), y>> \o Tail(a), Append(S, x), D, R)
<1>1. PICK T : T = Append(S, x)
  OBVIOUS
<1>2. T # <<>> /\ T[Len(T)] = x /\ Len(R) \in Nat
  <2>1. T \in Seq(Data) /\ Len(T) = Len(S) + 1 /\ Len(S) \in Nat /\ T[Len(S) + 1] = x
    BY <1>1
  <2>2. Len(T) # 0 /\ T[Len(T)] = x
    BY <2>1
  <2>3. T # <<>>
    BY <2>1, <2>2, EmptySeq
  <2> QED BY <2>2, <2>3
<1>3. PICK q, p, o, r : q = EmitRestOp(u, x, 1) /\ p = DropDstOp(u) /\ o = PushOp(D, "start", x) /\ r = Tail(a)
  OBVIOUS
<1>4. r \in Seq(Ops) /\ Clean(r)
  BY <1>3, CleanTail
<1>5. q \in Ops /\ p \in Ops
  BY <1>3, OpTypes
<1>6. PICK b : b = <<y>> \o r
  OBVIOUS
<1>7. b \in Seq(Ops) /\ Clean(b)
  <2>1. <<y>> \in Seq(Ops) /\ Len(<<y>>) = 1 /\ <<y>>[1] = y
    OBVIOUS
  <2>2. Clean(<<y>>)
    BY <2>1 DEF Clean
  <2>3. b \in Seq(Ops)
    BY <1>4, <1>6, Front1
  <2> QED BY <1>4, <1>6, <2>1, <2>2, <2>3, CleanJoin
<1>8. PICK z : z = <<q>> \o b
  OBVIOUS
<1>9. z \in Seq(Ops) /\ z # <<>> /\ Head(z) = q /\ Tail(z) = b
  BY <1>5, <1>7, <1>8, Front1
<1>10. <<q, y>> \o r = z
  BY <1>4, <1>5, <1>6, <1>8, Front2
<1>11. Sends(z, u, x, 1)
  <2>1. 1 > 0
    OBVIOUS
  <2> QED BY <1>3, <1>7, <1>9, <2>1, Zenon DEF Sends
<1>12. 1 \in 0..(Len(R) + 1) /\ 1 # 0
  BY <1>2
<1>13. Stage("send", D, 1, u, z, T, D, R)
  BY <1>2, <1>11, <1>12 DEF Stage, Shape
<1>14. ASSUME D # NoStream
       PROVE  Stage("push", D, 0, u, <<o, p, q, y>> \o r, T, D, R)
  <2>1. D \in Streams
    BY <1>14
  <2>2. o \in Ops
    BY <1>3, <2>1, OpTypes DEF Funcs
  <2>3. PICK v : v = <<p>> \o z
    OBVIOUS
  <2>4. v \in Seq(Ops) /\ v # <<>> /\ Head(v) = p /\ Tail(v) = z
    BY <1>5, <1>9, <2>3, Front1
  <2>5. PICK w : w = <<o>> \o v
    OBVIOUS
  <2>6. w # <<>> /\ Head(w) = o /\ Tail(w) = v
    BY <2>2, <2>4, <2>5, Front1
  <2>7. <<o, p, q, y>> \o r = w
    <3>1. <<o, p, q, y>> = <<o, p>> \o <<q, y>>
      BY <1>5, <2>2, Joined
    <3>2. PICK f, g : f = <<o, p>> /\ g = <<q, y>>
      OBVIOUS
    <3>3. f \in Seq(Ops) /\ g \in Seq(Ops)
      BY <1>5, <2>2, <3>2, ShortAgendas
    <3>4. (f \o g) \o r = f \o (g \o r)
      BY <1>4, <3>3, ConcatAssociative
    <3>5. <<o, p>> \o z = <<o>> \o (<<p>> \o z)
      BY <1>5, <1>9, <2>2, Front2
    <3> QED BY <1>10, <2>3, <2>5, <3>1, <3>2, <3>4, <3>5
  <2>8. Sends(v, u, x, 0)
    BY <1>3, <1>7, <1>9, <2>4, Zenon DEF Sends
  <2>9. 0 \in 0..(Len(R) + 1)
    <3>1. Len(R) \in Nat
      OBVIOUS
    <3> QED BY <3>1
  <2>10. Stage("push", D, 0, u, w, T, D, R)
    <3>1. Aim(D, 0, D, R)
      BY <2>1 DEF Aim
    <3>2. Shape("push", D, 0, u, w, x)
      BY <1>3, <2>6, <2>8 DEF Shape
    <3> QED BY <1>2, <1>14, <2>9, <3>1, <3>2 DEF Stage
  <2> QED BY <2>7, <2>10
<1> QED BY <1>1, <1>3, <1>10, <1>13, <1>14

\* Main connects u to one more, whatever u is doing.
LEMMA StageConnect ==
  ASSUME NEW a, NEW u, NEW S, NEW D \in Streams \union {NoStream}, NEW R \in Seq(Streams), NEW c, NEW e, NEW i,
         Stage(c, e, i, u, a, S, D, R), NEW d \in Streams
  PROVE  /\ D = NoStream => Stage(c, e, i, u, a, S, d, R)
         /\ Stage(c, e, i, u, a, S, D, Append(R, d))
<1>1. ASSUME D = NoStream PROVE Stage(c, e, i, u, a, S, d, R)
  <2>1. d # NoStream
    BY NullAssumption
  <2> QED BY <1>1, <2>1, NullAssumption DEF Stage, Aim
<1>2. Stage(c, e, i, u, a, S, D, Append(R, d))
  <2>1. PICK Q : Q = Append(R, d)
    OBVIOUS
  <2>2. Len(R) \in Nat /\ Len(Q) = Len(R) + 1 /\ \A j \in 1..Len(R) : Q[j] = R[j]
    BY <2>1
  <2>3. Aim(e, i, D, R) => Aim(e, i, D, Q)
    <3>1. ASSUME i \in 2..(Len(R) + 1), e = R[i - 1] PROVE i \in 2..(Len(Q) + 1) /\ e = Q[i - 1]
      <4>1. PICK l, j : l = Len(R) /\ j = i - 1
        OBVIOUS
      <4>2. l \in Nat /\ i \in 2..(l + 1) /\ Len(Q) = l + 1 /\ \A m \in 1..l : Q[m] = R[m]
        BY <2>2, <3>1, <4>1
      <4>3. j \in 1..l /\ i \in 2..((l + 1) + 1)
        BY <4>1, <4>2
      <4> QED BY <3>1, <4>1, <4>2, <4>3
    <3> QED BY <3>1 DEF Aim
  <2>4. i \in 0..(Len(R) + 1) => i \in 0..(Len(Q) + 1)
    BY <2>2
  <2> QED BY <2>1, <2>3, <2>4 DEF Stage
<1> QED BY <1>1, <1>2

-----------------------------------------------------------------------------
(* What is flying as the stage moves.                                      *)

LEMMA FliesMoves ==
  ASSUME NEW R \in Seq(Streams), NEW d \in Streams, NEW e, NEW i
  PROVE  /\ Flies("task", e, i, R, d) = Flies("push", e, i, R, d)
         /\ e # d => /\ Flies("send", e, i, R, d) = Flies("push", e, i, R, d)
                     /\ Flies("stream", e, i, R, d) = Flies("task", e, i, R, d)
         /\ Flies("send", e, i, R, d) = Flies("stream", e, i, R, d)
         /\ ~Flies("clean", e, i, R, d)
  BY DEF Flies

LEMMA FliesRest ==
  ASSUME NEW R \in Seq(Streams), NEW d \in Streams, NEW e, NEW i \in Nat
  PROVE  /\ i = 0 => Flies("send", e, 1, R, d) = Flies("send", e, i, R, d)
         /\ i > Len(R) => ~Flies("send", e, i, R, d)
         /\ i > 0 /\ ~(i > Len(R)) => Flies("push", R[i], i + 1, R, d) = Flies("send", e, i, R, d)
<1>1. Len(R) \in Nat
  OBVIOUS
<1>2. i = 0 => (Ahead(R, d, 1) <=> Ahead(R, d, i))
  BY <1>1 DEF Ahead
<1>3. i > Len(R) => ~Ahead(R, d, i)
  BY <1>1 DEF Ahead
<1>4. ASSUME i > 0, ~(i > Len(R)) PROVE Ahead(R, d, i) <=> R[i] = d \/ Ahead(R, d, i + 1)
  <2>1. \A j \in 1..Len(R) : j >= i <=> j = i \/ j >= i + 1
    BY <1>1
  <2>2. i \in 1..Len(R) /\ i >= i
    BY <1>1, <1>4
  <2> QED BY <2>1, <2>2 DEF Ahead
<1> QED BY <1>2, <1>3, <1>4 DEF Flies

\* After an emission all who listen are still to get it.
LEMMA FliesAll ==
  ASSUME NEW D \in Streams \union {NoStream}, NEW R \in Seq(Streams), NEW d \in Streams
  PROVE  /\ D # NoStream => Flies("push", D, 0, R, d) = Hears(D, R, d)
         /\ D = NoStream => Flies("send", D, 1, R, d) = Hears(D, R, d)
<1>1. Ahead(R, d, 0) <=> InSeq(d, R)
  <2>1. \A j \in 1..Len(R) : j >= 0
    OBVIOUS
  <2> QED BY <2>1 DEF Ahead, InSeq
<1>2. Ahead(R, d, 1) <=> InSeq(d, R)
  <2>1. \A j \in 1..Len(R) : j >= 1
    OBVIOUS
  <2> QED BY <2>1 DEF Ahead, InSeq
<1> QED BY <1>1, <1>2, NullAssumption DEF Flies, Hears

\* Who is aimed at comes no second time.
LEMMA NotAhead ==
  ASSUME NEW D, NEW R \in Seq(Streams), NEW d, NEW i, Once(D, R, d), Aim(d, i, D, R)
  PROVE  ~Ahead(R, d, i)
<1>1. CASE i = 0 /\ d = D
  BY <1>1 DEF Once, Ahead, InSeq
<1>2. CASE i \in 2..(Len(R) + 1) /\ d = R[i - 1]
  <2>1. PICK l, m : l = Len(R) /\ m = i - 1
    OBVIOUS
  <2>2. l \in Nat /\ m \in 1..l /\ \A j \in 1..l : j >= i => j # m
    BY <1>2, <2>1
  <2> QED BY <1>2, <2>1, <2>2 DEF Once, Ahead
<1> QED BY <1>1, <1>2 DEF Aim

LEMMA OnceMore ==
  ASSUME NEW D \in Streams \union {NoStream}, NEW R \in Seq(Streams), NEW d \in Streams, NEW f \in Streams,
         Once(D, R, d), f = d => ~Hears(D, R, d)
  PROVE  /\ D = NoStream => Once(f, R, d)
         /\ Once(D, Append(R, f), d)
         /\ Hears(f, R, d) \/ Hears(D, Append(R, f), d) => f = d \/ Hears(D, R, d)
         /\ Hears(D, Append(R, d), d)
         /\ Hears(D, R, d) => Hears(D, Append(R, f), d) /\ (D = NoStream => Hears(f, R, d))
<1>1. PICK Q, l : Q = Append(R, f) /\ l = Len(R)
  OBVIOUS
<1>2. l \in Nat /\ Len(Q) = l + 1 /\ Q[l + 1] = f /\ \A j \in 1..l : Q[j] = R[j]
  BY <1>1
<1>3. \A j \in 1..(l + 1) : j \in 1..l \/ j = l + 1
  BY <1>2
<1>4. 1..l \subseteq 1..(l + 1) /\ l + 1 \in 1..(l + 1)
  BY <1>2
<1>5. InSeq(d, Q) <=> InSeq(d, R) \/ f = d
  BY <1>1, <1>2, <1>3, <1>4 DEF InSeq
<1>6. ASSUME NEW j \in 1..(l + 1), NEW m \in 1..(l + 1), Q[j] = d, Q[m] = d PROVE j = m
  <2>1. CASE f = d
    <3>1. \A k \in 1..l : R[k] # d
      BY <1>1, <2>1 DEF Hears, InSeq
    <3> QED BY <1>2, <1>3, <1>6, <3>1
  <2>2. CASE f # d
    <3>1. j \in 1..l /\ m \in 1..l
      BY <1>2, <1>3, <1>6, <2>2
    <3> QED BY <1>1, <1>2, <1>6, <3>1 DEF Once
  <2> QED BY <2>1, <2>2
<1>7. Once(D, Q, d)
  BY <1>1, <1>2, <1>5, <1>6 DEF Once, Hears
<1>8. D = NoStream => Once(f, R, d)
  BY NullAssumption DEF Once, Hears
<1>9. Hears(D, Append(R, d), d)
  <2>1. Len(Append(R, d)) = l + 1 /\ Append(R, d)[l + 1] = d
    BY <1>1
  <2> QED BY <1>4, <2>1 DEF Hears, InSeq
<1> QED BY <1>1, <1>5, <1>7, <1>8, <1>9, NullAssumption DEF Hears

-----------------------------------------------------------------------------
(* The invariant: the connection of u to d.                                *)

Open(d) == mode[d] \notin {"dying", "killed"}

\* What the queue of d holds may still be taken: the worker in its close_func may
\* find that nobody listens, and then d is dying, no longer killed.
Alive(d) == mode[d] # "killed" \/ Steps(d) # <<>>

Passing(u, d, c, e, i) ==
  /\ Once(dst[u], rest[u], d)
  /\ Open(d) /\ ~Hears(dst[u], rest[u], d) => got[d] = <<>> /\ Bare(tasks[d])
  /\ Flow(tasks[d], got[d], sent[u], Alive(d), Open(d), Flies(c, e, i, rest[u], d), Adds(c, e, d))

Emits(u, c, e, i) ==
  /\ Stage(c, e, i, u, Steps(u), sent[u], dst[u], rest[u])
  /\ \A d \in Streams : Only(u, d) => Passing(u, d, c, e, i)

Gapless == \A u \in Streams : \E c, e, i : Emits(u, c, e, i)

LEMMA BareMore ==
  ASSUME NEW q \in Seq(Tasks), NEW x \in Tasks, Bare(q), x.d = Nil
  PROVE  Bare(Append(q, x))
<1>1. /\ Len(Append(q, x)) = Len(q) + 1 /\ Len(q) \in Nat /\ Append(q, x)[Len(q) + 1] = x
      /\ \A i \in 1..Len(q) : Append(q, x)[i] = q[i]
  OBVIOUS
<1>2. \A i \in 1..(Len(q) + 1) : i \in 1..Len(q) \/ i = Len(q) + 1
  BY <1>1
<1> QED BY <1>1, <1>2 DEF Bare

\* Nothing happens to the connection but that u moves on, or that a task that brings
\* nothing is added.
LEMMA PassingKept ==
  ASSUME Typed, NEW u \in Streams, NEW d \in Streams, NEW c, NEW e, NEW i, Passing(u, d, c, e, i),
         NEW c2, NEW e2, NEW i2,
         sent'[u] = sent[u], got'[d] = got[d],
         tasks'[d] = tasks[d] \/ \E x \in Tasks : x.d = Nil /\ tasks'[d] = Append(tasks[d], x),
         Alive(d)' => Alive(d), Open(d)' => Open(d),
         Once(dst[u], rest[u], d)',
         Open(d)' /\ Hears(dst[u], rest[u], d) => Hears(dst[u], rest[u], d)',
         Open(d)' => Flies(c2, e2, i2, rest'[u], d) = Flies(c, e, i, rest[u], d),
         Adds(c2, e2, d) => Adds(c, e, d) \/ (Open(d) /\ Flies(c, e, i, rest[u], d))
  PROVE  Passing(u, d, c2, e2, i2)'
<1>1. /\ tasks[d] \in Seq(Tasks) /\ got[d] \in Seq(Data) /\ sent[u] \in Seq(Data)
  BY DEF Typed, TypeOK, QueuesOK, HistoryOK
<1>2. PICK al, op, fl, ad, al2, op2, fl2, ad2 :
        /\ al = Alive(d) /\ op = Open(d) /\ fl = Flies(c, e, i, rest[u], d) /\ ad = Adds(c, e, d)
        /\ al2 = Alive(d)' /\ op2 = Open(d)' /\ fl2 = Flies(c2, e2, i2, rest'[u], d) /\ ad2 = Adds(c2, e2, d)
  OBVIOUS
<1>3. {al, op, fl, ad, al2, op2, fl2, ad2} \subseteq BOOLEAN
  BY <1>2 DEF Alive, Open, Flies, Adds
<1>4. Flow(tasks[d], got[d], sent[u], al, op, fl, ad)
  BY <1>2 DEF Passing
<1>5. (al2 => al) /\ (op2 => op /\ fl2 = fl) /\ (ad2 => ad \/ (op /\ fl))
  BY <1>2
<1>6. Flow(tasks[d], got[d], sent[u], al2, op2, fl2, ad2)
  BY <1>3, <1>4, <1>5, FlowSame
<1>7. Flow(tasks'[d], got'[d], sent'[u], al2, op2, fl2, ad2)
  <2>1. CASE tasks'[d] = tasks[d]
    BY <1>6, <2>1
  <2>2. ASSUME NEW x \in Tasks, x.d = Nil, tasks'[d] = Append(tasks[d], x)
        PROVE  Flow(tasks'[d], got'[d], sent'[u], al2, op2, fl2, ad2)
    BY <1>1, <1>6, <2>2, FlowNil
  <2> QED BY <2>1, <2>2
<1>8. ASSUME Open(d)', ~Hears(dst[u], rest[u], d)' PROVE got'[d] = <<>> /\ Bare(tasks'[d])
  <2>1. got[d] = <<>> /\ Bare(tasks[d])
    BY <1>8 DEF Passing
  <2> QED BY <1>1, <2>1, BareMore
<1> QED BY <1>2, <1>7, <1>8 DEF Passing


-----------------------------------------------------------------------------
(* How far the program has come, k, and the streams it has created, C.     *)

Belongs(t, o, C) ==
  /\ o.op \in Pushing \cup (IF t = Main THEN Building ELSE Own)
  /\ o.op \notin {"new", "connect"} => o.s \in C
  /\ o.op \in Own => o.s = cur[t]
  /\ o.op \in {"push", "addTask"} /\ o.d # Nil => t # Main /\ o.f = "start"

Allowed(t, C) == {o \in Ops : Belongs(t, o, C)}

Ready(C) ==
  /\ \A t \in Threads : agenda[t] \in Seq(Allowed(t, C))
  /\ queue \in Seq(C) /\ prodQueue \in Seq(C)
  /\ \A w \in Workers : cur[w] \in C \cup {NoStream}
  /\ \A s \in Streams : mode[s] # "none" => s \in C

\* An element is what start_func is called with.
DataTasks == {x \in Tasks : x.d # Nil => x.f = "start"}

Joins(u, d, k) == \E i \in 1..k : program[i] = ConnectOp(u, d)

Linked(k) == \A u, d \in Streams : Hears(dst[u], rest[u], d) => Joins(u, d, k)

InnerOps == {o \in Ops : o.op \notin {"new", "connect"}}

\* What a step may leave in its place.
Belonging(t, C) == Allowed(t, C) \cap InnerOps

Executed(k) == \E p \in Seq(InnerOps) : agenda[Main] = p \o SubSeq(program, k + 1, Len(program))

Progress(k) == /\ Executed(k) /\ Linked(k) /\ Ready(Created(program, k))
               /\ tasks \in [Streams -> Seq(DataTasks)]

LEMMA SeqLarger ==
  ASSUME NEW S, NEW T, S \subseteq T, NEW q \in Seq(S)
  PROVE  q \in Seq(T)
OBVIOUS

LEMMA SeqOf ==
  ASSUME NEW T, NEW S, NEW q \in Seq(T), \A i \in 1..Len(q) : q[i] \in S
  PROVE  q \in Seq(S)
<1>1. q \in [1..Len(q) -> S] /\ Len(q) \in Nat
  OBVIOUS
<1> QED BY <1>1

LEMMA Small ==
  ASSUME NEW S
  PROVE  /\ <<>> \in Seq(S) /\ \A o \in S : <<o>> \in Seq(S)
         /\ \A o, p \in S : <<o, p>> \in Seq(S)
         /\ \A o, p, q \in S : <<o, p, q>> \in Seq(S)
         /\ \A q, r \in Seq(S) : q \o r \in Seq(S)
OBVIOUS

LEMMA Belong ==
  ASSUME NEW t \in Threads, NEW C, NEW s \in Streams, s \in C
  PROVE  /\ \A f \in Funcs : PushOp(s, f, Nil) \in Belonging(t, C) /\ AddTaskOp(s, f, Nil) \in Belonging(t, C)
         /\ AddStreamOp(s) \in Belonging(t, C)
         /\ t = Main => RefOp(s) \in Belonging(t, C) /\ StartOp(s) \in Belonging(t, C)
         /\ t # Main => \A d \in Data : PushOp(s, "start", d) \in Belonging(t, C) /\ AddTaskOp(s, "start", d) \in Belonging(t, C)
         /\ t # Main /\ s = cur[t] =>
              /\ {DropDstOp(s), CloseOp(s), CloseDstOp(s), CountDownOp(s), SeqNextOp(s),
                  TakeNextOp(s), AfterOp(s)} \subseteq Belonging(t, C)
              /\ \A b \in BOOLEAN : CheckOp(s, b) \in Belonging(t, C)
              /\ \A d \in Data, b \in BOOLEAN : EmitOp(s, d, b) \in Belonging(t, C)
              /\ \A d \in Data, i \in Nat \ {0} : EmitRestOp(s, d, i) \in Belonging(t, C)
              /\ \A i \in Nat \ {0} : CloseRestOp(s, i) \in Belonging(t, C)
              /\ \A m \in Modes : KillOp(s, m) \in Belonging(t, C)
<1> USE OpTypes
<1>0. Nil \in Data /\ "start" \in Funcs
  BY DEF Data, Funcs
<1>1. \A f \in Funcs : PushOp(s, f, Nil) \in Belonging(t, C) /\ AddTaskOp(s, f, Nil) \in Belonging(t, C)
  BY <1>0 DEF Belonging, Allowed, InnerOps, Belongs, Pushing, Own, PushOp, AddTaskOp
<1>2. AddStreamOp(s) \in Belonging(t, C)
  BY DEF Belonging, Allowed, InnerOps, Belongs, Pushing, Own, AddStreamOp
<1>3. t = Main => RefOp(s) \in Belonging(t, C) /\ StartOp(s) \in Belonging(t, C)
  BY DEF Belonging, Allowed, InnerOps, Belongs, Building, Own, RefOp, StartOp
<1>4. t # Main => \A d \in Data : PushOp(s, "start", d) \in Belonging(t, C) /\ AddTaskOp(s, "start", d) \in Belonging(t, C)
  BY <1>0 DEF Belonging, Allowed, InnerOps, Belongs, Pushing, Own, PushOp, AddTaskOp
<1>5. ASSUME t # Main, s = cur[t]
      PROVE  /\ {DropDstOp(s), CloseOp(s), CloseDstOp(s), CountDownOp(s), SeqNextOp(s),
                  TakeNextOp(s), AfterOp(s)} \subseteq Belonging(t, C)
             /\ \A b \in BOOLEAN : CheckOp(s, b) \in Belonging(t, C)
             /\ \A d \in Data, b \in BOOLEAN : EmitOp(s, d, b) \in Belonging(t, C)
             /\ \A d \in Data, i \in Nat \ {0} : EmitRestOp(s, d, i) \in Belonging(t, C)
             /\ \A i \in Nat \ {0} : CloseRestOp(s, i) \in Belonging(t, C)
             /\ \A m \in Modes : KillOp(s, m) \in Belonging(t, C)
  <2>1. {DropDstOp(s), CloseOp(s), CloseDstOp(s), CountDownOp(s), SeqNextOp(s),
                  TakeNextOp(s), AfterOp(s)} \subseteq Belonging(t, C)
    <3>1. ASSUME NEW x \in {"dropDst", "close", "closeDst", "countDown", "seqNext", "takeNext", "after"},
                 NEW o, o = [op |-> x, s |-> s], o \in Ops
          PROVE  o \in Belonging(t, C)
      <4>1. o.op = x /\ o.s = s
        BY <3>1
      <4>2. o.op \in Own /\ o.op \notin {"push", "addTask", "new", "connect"}
        BY <3>1, <4>1 DEF Own
      <4> QED BY <1>5, <3>1, <4>1, <4>2 DEF Belonging, Allowed, InnerOps, Belongs
    <3>2. /\ DropDstOp(s) \in Belonging(t, C) /\ CloseOp(s) \in Belonging(t, C) /\ CloseDstOp(s) \in Belonging(t, C)
          /\ CountDownOp(s) \in Belonging(t, C)
      BY <3>1 DEF DropDstOp, CloseOp, CloseDstOp, CountDownOp
    <3>3. /\ SeqNextOp(s) \in Belonging(t, C) /\ TakeNextOp(s) \in Belonging(t, C) /\ AfterOp(s) \in Belonging(t, C)
      BY <3>1 DEF SeqNextOp, TakeNextOp, AfterOp
    <3> QED BY <3>2, <3>3
  <2>2. \A b \in BOOLEAN : CheckOp(s, b) \in Belonging(t, C)
    BY <1>5 DEF Belonging, Allowed, InnerOps, Belongs, Own, CheckOp
  <2>3. \A d \in Data, b \in BOOLEAN : EmitOp(s, d, b) \in Belonging(t, C)
    BY <1>5 DEF Belonging, Allowed, InnerOps, Belongs, Own, EmitOp
  <2>4. \A d \in Data, i \in Nat \ {0} : EmitRestOp(s, d, i) \in Belonging(t, C)
    BY <1>5 DEF Belonging, Allowed, InnerOps, Belongs, Own, EmitRestOp
  <2>5. \A i \in Nat \ {0} : CloseRestOp(s, i) \in Belonging(t, C)
    BY <1>5 DEF Belonging, Allowed, InnerOps, Belongs, Own, CloseRestOp
  <2>6. \A m \in Modes : KillOp(s, m) \in Belonging(t, C)
    BY <1>5 DEF Belonging, Allowed, InnerOps, Belongs, Own, KillOp
  <2> QED BY <2>1, <2>2, <2>3, <2>4, <2>5, <2>6
<1> QED BY <1>1, <1>2, <1>3, <1>4, <1>5

\* What is next on an agenda.
LEMMA BelongsTop ==
  ASSUME Typed, NEW C, Ready(C), NEW t \in Threads, agenda[t] # <<>>, NEW o, o = Head(agenda[t])
  PROVE  o \in Ops /\ o.s \in Streams /\ Belongs(t, o, C) /\ Tail(agenda[t]) \in Seq(Allowed(t, C))
<1>1. agenda[t] \in Seq(Allowed(t, C))
  BY DEF Ready
<1>2. o \in Allowed(t, C) /\ Tail(agenda[t]) \in Seq(Allowed(t, C))
  BY <1>1
<1> QED BY <1>2, OpFields DEF Allowed

\* What is connected to has been created.
LEMMA LinkedTo ==
  ASSUME Typed, NEW k \in 0..Len(program), Linked(k), NEW u \in Streams, NEW C, C = Created(program, k)
  PROVE  /\ dst[u] # NoStream => dst[u] \in C
         /\ \A i \in 1..Len(rest[u]) : rest[u][i] \in C /\ rest[u][i] \in Streams
<1>1. program \in Seq(ScriptOps) /\ WellFormed(program) /\ Len(program) \in Nat
  BY SchedulerAssumption DEF Typed, TypeOK, HistoryOK
<1>2. ASSUME NEW d \in Streams, Hears(dst[u], rest[u], d) PROVE d \in C
  <2>1. PICK i \in 1..k : program[i] = ConnectOp(u, d)
    BY <1>2 DEF Linked, Joins
  <2>2. i \in 1..Len(program) /\ program[i].op = "connect" /\ program[i].dst = d
    BY <1>1, <2>1 DEF ConnectOp
  <2>3. d \in Created(program, i - 1)
    BY <1>1, <2>2 DEF WellFormed
  <2>4. 1..(i - 1) \subseteq 1..k
    BY <1>1
  <2> QED BY <2>3, <2>4 DEF Created
<1>3. dst[u] \in Streams \union {NoStream} /\ rest[u] \in Seq(Streams)
  BY DEF Typed, TypeOK, StreamsOK
<1>4. dst[u] # NoStream => dst[u] \in C
  BY <1>2, <1>3 DEF Hears
<1>5. ASSUME NEW i \in 1..Len(rest[u]) PROVE rest[u][i] \in C /\ rest[u][i] \in Streams
  <2>1. rest[u][i] \in Streams
    BY <1>3
  <2> QED BY <1>2, <2>1 DEF Hears, InSeq
<1> QED BY <1>4, <1>5

\* The steps that a step leaves in its place belong to its thread.
Brings(t, C) == \E ops \in Seq(Belonging(t, C)) : Replaces(t, ops)

LEMMA BringsTo ==
  ASSUME NEW t \in Threads, NEW C
  PROVE  /\ Replaces(t, <<>>) => Brings(t, C)
         /\ \A o \in Belonging(t, C) : Replaces(t, <<o>>) => Brings(t, C)
         /\ \A o, p \in Belonging(t, C) : Replaces(t, <<o, p>>) => Brings(t, C)
  BY Small DEF Brings

LEMMA BuildingBrings ==
  ASSUME Typed, NEW k \in 0..Len(program), Progress(k), NEW t \in Threads, NEW C, C = Created(program, k),
         \/ StreamNew(t) \/ Ref(t) \/ Start(t)
         \/ Connect(t) /\ t = Main /\ {Head(agenda[t]).s, Head(agenda[t]).dst} \subseteq C
  PROVE  Brings(t, C)
<1>0. Ready(C)
  BY DEF Progress
<1>1. CASE StreamNew(t)
  BY <1>1, BringsTo, Continues DEF StreamNew
<1>2. CASE Ref(t)
  BY <1>2, BringsTo, Continues DEF Ref
<1>3. CASE Start(t)
  <2>1. Head(agenda[t]).s \in C /\ Head(agenda[t]).s \in Streams
    <3>1. agenda[t] # <<>> /\ Head(agenda[t]).op = "start"
      BY <1>3 DEF Start, At
    <3> QED BY <1>0, <3>1, BelongsTop DEF Belongs
  <2>2. PICK s : s = Head(agenda[t]).s
    OBVIOUS
  <2>3. PushOp(s, "start", Nil) \in Belonging(t, C)
    BY <2>1, <2>2, Belong DEF Funcs
  <2>4. Replaces(t, <<PushOp(s, "start", Nil)>>) \/ Replaces(t, <<>>)
    BY <1>3, <2>2 DEF Start, Replaces
  <2> QED BY <2>3, <2>4, BringsTo
<1>4. CASE Connect(t) /\ t = Main /\ {Head(agenda[t]).s, Head(agenda[t]).dst} \subseteq C
  <2>1. PICK s, d : s = Head(agenda[t]).s /\ d = Head(agenda[t]).dst
    OBVIOUS
  <2>2. s \in Streams /\ d \in Streams
    <3>1. Head(agenda[t]) \in Ops /\ Head(agenda[t]).op = "connect"
      BY <1>4, TopTyped DEF Connect, Typed
    <3> QED BY <2>1, <3>1, OpFields
  <2>3. RefOp(d) \in Belonging(t, C) /\ StartOp(s) \in Belonging(t, C)
    BY <1>4, <2>1, <2>2, Belong
  <2>4. Replaces(t, <<RefOp(d), StartOp(s)>>)
    BY <1>4, <2>1, Continues DEF Connect
  <2> QED BY <2>3, <2>4, BringsTo
<1> QED BY <1>1, <1>2, <1>3, <1>4

LEMMA PushingBrings ==
  ASSUME Typed, NEW k \in 0..Len(program), Progress(k), NEW t \in Threads, NEW C, C = Created(program, k),
         Push(t) \/ AddTask(t) \/ AddStream(t)
  PROVE  Brings(t, C)
<1>0. Ready(C)
  BY DEF Progress
<1>1. CASE Push(t)
  <2>1. PICK o : o = Head(agenda[t])
    OBVIOUS
  <2>2. agenda[t] # <<>> /\ o.op = "push" /\ o \in Ops
    BY <1>1, <2>1, TopTyped DEF Push, At, Typed
  <2>3. Belongs(t, o, C) /\ o.s \in Streams /\ o.f \in Funcs /\ o.d \in Data
    BY <1>0, <2>1, <2>2, BelongsTop, OpFields
  <2>4. o.s \in C /\ (o.d # Nil => t # Main /\ o.f = "start")
    BY <2>2, <2>3 DEF Belongs
  <2>5. AddTaskOp(o.s, o.f, o.d) \in Belonging(t, C) /\ AddStreamOp(o.s) \in Belonging(t, C)
    BY <2>3, <2>4, Belong
  <2>6. Replaces(t, <<>>) \/ Replaces(t, <<AddTaskOp(o.s, o.f, o.d), AddStreamOp(o.s)>>)
    BY <1>1, <2>1, Continues DEF Push, TaskAdd
  <2> QED BY <2>5, <2>6, BringsTo
<1>2. CASE AddTask(t)
  BY <1>2, BringsTo, Continues DEF AddTask
<1>3. CASE AddStream(t)
  BY <1>3, BringsTo, Continues DEF AddStream
<1> QED BY <1>1, <1>2, <1>3

\* The stream that a worker's own steps are about.
LEMMA OwnBelongs ==
  ASSUME Typed, NEW C, Ready(C), NEW t \in Threads, NEW op \in Own, At(t, op), NEW o, o = Head(agenda[t])
  PROVE  t \in Workers /\ t # Main /\ o.op = op /\ o \in Ops /\ o.s \in Streams /\ o.s \in C /\ o.s = cur[t]
<1>1. agenda[t] # <<>> /\ o.op = op
  BY DEF At
<1>2. o \in Ops /\ o.s \in Streams /\ Belongs(t, o, C)
  BY <1>1, BelongsTop
<1>3. op \notin Pushing \cup Building /\ op \notin {"new", "connect"}
  BY DEF Pushing, Building, Own
<1> QED BY <1>1, <1>2, <1>3 DEF Belongs, Threads

LEMMA EmittingBrings ==
  ASSUME Typed, NEW k \in 0..Len(program), Progress(k), NEW t \in Threads, NEW C, C = Created(program, k),
         Emit(t) \/ DropDst(t) \/ EmitRest(t) \/ TerminationCheck(t)
  PROVE  Brings(t, C)
<1>0. Ready(C) /\ Linked(k)
  BY DEF Progress
<1>a. PICK o : o = Head(agenda[t])
  OBVIOUS
<1>b. /\ t \in Workers /\ t # Main /\ o.op \in Own /\ o \in Ops /\ o.s \in Streams /\ o.s \in C /\ o.s = cur[t]
      /\ Emit(t) => o.op = "emit"
      /\ EmitRest(t) => o.op = "emitRest"
  <2>1. "emit" \in Own /\ "dropDst" \in Own /\ "emitRest" \in Own /\ "check" \in Own
    BY DEF Own
  <2> QED BY <1>0, <1>a, <2>1, OwnBelongs DEF Emit, DropDst, EmitRest, TerminationCheck, At
<1>c. Nil \in Data /\ {"start", "close"} \subseteq Funcs
  BY DEF Data, Funcs
<1>1. CASE Emit(t)
  <2>1. o.d \in Data /\ o.again \in BOOLEAN
    BY <1>1, <1>b, OpFields
  <2>2. PICK p, q, r, x : /\ p = PushOp(dst[o.s], "start", o.d) /\ q = DropDstOp(o.s)
                          /\ r = EmitRestOp(o.s, o.d, 1) /\ x = CheckOp(o.s, o.again)
    OBVIOUS
  <2>3. q \in Belonging(t, C) /\ r \in Belonging(t, C) /\ x \in Belonging(t, C)
    BY <1>b, <2>1, <2>2, Belong
  <2>4. dst[o.s] # NoStream => p \in Belonging(t, C)
    <3>1. dst[o.s] \in Streams \union {NoStream}
      BY <1>b DEF Typed, TypeOK, StreamsOK
    <3> QED BY <1>0, <1>b, <2>1, <2>2, <3>1, Belong, LinkedTo
  <2>5. PushOp(o.s, "start", Nil) \in Belonging(t, C)
    BY <1>b, <1>c, Belong
  <2>6. \/ Replaces(t, <<>>) \/ Replaces(t, <<PushOp(o.s, "start", Nil)>>)
        \/ dst[o.s] # NoStream /\ Replaces(t, <<p, q>> \o <<r, x>>)
        \/ Replaces(t, <<>> \o <<r, x>>)
    BY <1>1, <1>a, <2>2, Continues DEF Emit
  <2>7. <<r, x>> \in Seq(Belonging(t, C)) /\ (dst[o.s] # NoStream => <<p, q>> \o <<r, x>> \in Seq(Belonging(t, C)))
    BY <2>3, <2>4, Small
  <2>8. <<>> \o <<r, x>> \in Seq(Belonging(t, C))
    BY <2>7, Small
  <2> QED BY <2>5, <2>6, <2>7, <2>8, BringsTo DEF Brings
<1>2. CASE DropDst(t)
  BY <1>2, BringsTo, Continues DEF DropDst
<1>3. CASE EmitRest(t)
  <2>1. o.d \in Data /\ o.i \in Nat \ {0}
    BY <1>3, <1>b, OpFields
  <2>2. \/ Replaces(t, <<>>)
        \/ /\ ~(o.i > Len(rest[o.s]))
           /\ Replaces(t, <<PushOp(rest[o.s][o.i], "start", o.d), EmitRestOp(o.s, o.d, o.i + 1)>>)
    BY <1>3, <1>a, Continues DEF EmitRest
  <2>3. EmitRestOp(o.s, o.d, o.i + 1) \in Belonging(t, C)
    <3>1. o.i + 1 \in Nat \ {0}
      BY <2>1
    <3> QED BY <1>b, <2>1, <3>1, Belong
  <2>4. ~(o.i > Len(rest[o.s])) => PushOp(rest[o.s][o.i], "start", o.d) \in Belonging(t, C)
    <3>1. Len(rest[o.s]) \in Nat
      BY <1>b DEF Typed, TypeOK, StreamsOK
    <3>2. ~(o.i > Len(rest[o.s])) => o.i \in 1..Len(rest[o.s])
      BY <2>1, <3>1
    <3> QED BY <1>0, <1>b, <2>1, <3>2, Belong, LinkedTo
  <2> QED BY <2>2, <2>3, <2>4, BringsTo
<1>4. CASE TerminationCheck(t)
  <2>1. Replaces(t, <<>>) \/ Replaces(t, <<PushOp(o.s, "start", Nil)>>)
    BY <1>4, <1>a, Continues DEF TerminationCheck
  <2> QED BY <1>b, <1>c, <2>1, Belong, BringsTo
<1> QED BY <1>1, <1>2, <1>3, <1>4

LEMMA CloseFuncEmits ==
  ASSUME NEW s \in Streams, NEW k \in Kinds, NEW q \in Seq(Data), ~CloseFails(k, q)
  PROVE  /\ CloseFunc(s, k, q) \in Seq(Ops)
         /\ \A i \in 1..Len(CloseFunc(s, k, q)) : \E d \in Data : CloseFunc(s, k, q)[i] = EmitOp(s, d, FALSE)
<1>0. CloseFunc(s, k, q) \in Seq(Ops)
  BY CloseFuncTyped
<1>1. CASE k = "sort"
  <2>1. CloseFunc(s, k, q) = [i \in 1..Len(q) |-> EmitOp(s, q[i], FALSE)]
    BY <1>1 DEF CloseFunc
  <2>2. Len(q) \in Nat /\ \A i \in 1..Len(q) : q[i] \in Data
    OBVIOUS
  <2>3. Len([i \in 1..Len(q) |-> EmitOp(s, q[i], FALSE)]) = Len(q)
    BY <2>2
  <2> QED BY <1>0, <2>1, <2>2, <2>3
<1>2. CASE k = "reduce"
  <2>1. CloseFunc(s, k, q) = <<EmitOp(s, q[1], FALSE)>>
    BY <1>2 DEF CloseFunc
  <2>2. q # <<>>
    BY <1>2 DEF CloseFails
  <2>3. q[1] \in Data
    BY <2>2
  <2>4. PICK x : x = EmitOp(s, q[1], FALSE)
    OBVIOUS
  <2>5. ASSUME NEW i \in 1..Len(<<x>>) PROVE <<x>>[i] = x
    <3>1. Len(<<x>>) = 1 /\ <<x>>[1] = x
      OBVIOUS
    <3>2. i = 1
      BY <3>1
    <3> QED BY <3>1, <3>2
  <2>6. CloseFunc(s, k, q) = <<x>>
    BY <2>1, <2>4
  <2> QED BY <1>0, <2>3, <2>4, <2>5, <2>6
<1>3. CASE k \notin {"sort", "reduce"}
  <2>1. CloseFunc(s, k, q) = <<>>
    BY <1>3 DEF CloseFunc
  <2> QED BY <2>1, CloseFuncTyped
<1> QED BY <1>1, <1>2, <1>3

LEMMA ClosingBrings ==
  ASSUME Typed, NEW k \in 0..Len(program), Progress(k), NEW t \in Threads, NEW C, C = Created(program, k),
         \/ Close(t) \/ Kill(t) \/ CloseDst(t) \/ CloseRest(t) \/ CountDown(t)
         \/ SeqNext(t) \/ TakeNext(t) \/ After(t)
  PROVE  Brings(t, C)
<1>0. Ready(C) /\ Linked(k)
  BY DEF Progress
<1>a. PICK o : o = Head(agenda[t])
  OBVIOUS
<1>b. /\ t \in Workers /\ t # Main /\ o.op \in Own /\ o \in Ops /\ o.s \in Streams /\ o.s \in C /\ o.s = cur[t]
      /\ CloseRest(t) => o.op = "closeRest"
  <2>1. {"close", "kill", "closeDst", "closeRest", "countDown", "seqNext", "takeNext", "after"} \subseteq Own
    BY DEF Own
  <2> QED BY <1>0, <1>a, <2>1, OwnBelongs DEF Close, Kill, CloseDst, CloseRest, CountDown, SeqNext, TakeNext, After, At
<1>c. Nil \in Data /\ {"start", "close"} \subseteq Funcs
  BY DEF Data, Funcs
<1>1. CASE Close(t)
  <2>1. Replaces(t, <<>>) \/ Replaces(t, <<KillOp(o.s, mode[o.s])>>)
    BY <1>1, <1>a, Continues DEF Close
  <2>2. mode[o.s] \in Modes
    BY <1>b DEF Typed, TypeOK, StreamsOK
  <2> QED BY <1>b, <2>1, <2>2, Belong, BringsTo
<1>2. CASE Kill(t)
  <2>1. PICK q, z : q = CloseFunc(o.s, kind[o.s], got[o.s]) /\ z = <<CloseDstOp(o.s), CloseRestOp(o.s, 1), CountDownOp(o.s)>>
    OBVIOUS
  <2>2. Replaces(t, <<>>) \/ (~CloseFails(kind[o.s], got[o.s]) /\ Replaces(t, q \o z))
    BY <1>2, <1>a, <2>1, Continues DEF Kill
  <2>3. ASSUME ~CloseFails(kind[o.s], got[o.s]) PROVE q \in Seq(Belonging(t, C))
    <3>1. kind[o.s] \in Kinds /\ got[o.s] \in Seq(Data)
      BY <1>b DEF Typed, TypeOK, StreamsOK, HistoryOK
    <3>2. q \in Seq(Ops) /\ \A i \in 1..Len(q) : \E d \in Data : q[i] = EmitOp(o.s, d, FALSE)
      BY <1>b, <2>1, <2>3, <3>1, CloseFuncEmits
    <3>3. \A i \in 1..Len(q) : q[i] \in Belonging(t, C)
      BY <1>b, <3>2, Belong
    <3> QED BY <3>2, <3>3, SeqOf
  <2>4. z \in Seq(Belonging(t, C))
    <3>1. CloseDstOp(o.s) \in Belonging(t, C) /\ CloseRestOp(o.s, 1) \in Belonging(t, C) /\ CountDownOp(o.s) \in Belonging(t, C)
      <4>1. 1 \in Nat \ {0}
        OBVIOUS
      <4> QED BY <1>b, <4>1, Belong
    <3> QED BY <2>1, <3>1, Small
  <2>5. ~CloseFails(kind[o.s], got[o.s]) => q \o z \in Seq(Belonging(t, C))
    BY <2>3, <2>4, Small
  <2> QED BY <2>2, <2>5, BringsTo DEF Brings
<1>3. CASE CloseDst(t)
  <2>1. Replaces(t, <<>>) \/ (dst[o.s] # NoStream /\ Replaces(t, <<PushOp(dst[o.s], "close", Nil)>>))
    BY <1>3, <1>a, Continues DEF CloseDst
  <2>2. dst[o.s] # NoStream => dst[o.s] \in C /\ dst[o.s] \in Streams
    BY <1>0, <1>b, LinkedTo DEF Typed, TypeOK, StreamsOK
  <2> QED BY <1>c, <2>1, <2>2, Belong, BringsTo
<1>4. CASE CloseRest(t)
  <2>1. \/ Replaces(t, <<>>)
        \/ /\ ~(o.i > Len(rest[o.s]))
           /\ Replaces(t, <<PushOp(rest[o.s][o.i], "close", Nil), CloseRestOp(o.s, o.i + 1)>>)
    BY <1>4, <1>a, Continues DEF CloseRest
  <2>2. o.i \in Nat \ {0}
    BY <1>4, <1>b, OpFields
  <2>3. CloseRestOp(o.s, o.i + 1) \in Belonging(t, C)
    <3>1. o.i + 1 \in Nat \ {0}
      BY <2>2
    <3> QED BY <1>b, <3>1, Belong
  <2>4. ~(o.i > Len(rest[o.s])) => PushOp(rest[o.s][o.i], "close", Nil) \in Belonging(t, C)
    <3>1. Len(rest[o.s]) \in Nat
      BY <1>b DEF Typed, TypeOK, StreamsOK
    <3>2. ~(o.i > Len(rest[o.s])) => o.i \in 1..Len(rest[o.s])
      BY <2>2, <3>1
    <3> QED BY <1>0, <1>b, <1>c, <2>2, <3>2, Belong, LinkedTo
  <2> QED BY <2>1, <2>3, <2>4, BringsTo
<1>5. CASE CountDown(t) \/ SeqNext(t)
  BY <1>5, BringsTo, Continues DEF CountDown, SeqNext
<1>6. CASE TakeNext(t)
  <2>1. Replaces(t, <<>>) \/ Replaces(t, <<CloseOp(o.s)>>)
    BY <1>6, <1>a, Continues DEF TakeNext
  <2> QED BY <1>b, <2>1, Belong, BringsTo
<1>7. CASE After(t)
  <2>1. Replaces(t, <<>>) \/ Replaces(t, <<CloseOp(o.s)>>)
    BY <1>7, <1>a, Continues DEF After
  <2> QED BY <1>b, <2>1, Belong, BringsTo
<1> QED BY <1>1, <1>2, <1>3, <1>4, <1>5, <1>6, <1>7

LEMMA StepBrings ==
  ASSUME Typed, NEW k \in 0..Len(program), Progress(k), NEW t \in Threads, NEW C, C = Created(program, k),
         Step(t), Connect(t) => t = Main /\ {Head(agenda[t]).s, Head(agenda[t]).dst} \subseteq C
  PROVE  Brings(t, C)
  BY BuildingBrings, PushingBrings, EmittingBrings, ClosingBrings DEF Step

\* Main goes on with its program.
LEMMA Onward ==
  ASSUME Typed, NEW k \in 0..Len(program), Executed(k), agenda[Main] # <<>>,
         NEW o, o = Head(agenda[Main])
  PROVE  /\ o.op \notin {"new", "connect"} =>
              \E q \in Seq(InnerOps) : Tail(agenda[Main]) = q \o SubSeq(program, k + 1, Len(program))
         /\ o.op \in {"new", "connect"} =>
              /\ k + 1 \in 1..Len(program) /\ o = program[k + 1]
              /\ Tail(agenda[Main]) = SubSeq(program, k + 2, Len(program))
<1>1. PICK p \in Seq(InnerOps) : agenda[Main] = p \o SubSeq(program, k + 1, Len(program))
  BY DEF Executed
<1>2. PICK l, r : l = Len(program) /\ r = SubSeq(program, k + 1, l)
  OBVIOUS
<1>3. program \in Seq(Ops) /\ program \in Seq(ScriptOps) /\ l \in Nat /\ k \in 0..l
  <2>1. program \in Seq(ScriptOps)
    BY SchedulerAssumption DEF Typed, TypeOK, HistoryOK
  <2>2. ScriptOps \subseteq Ops
    BY DEF ScriptOps
  <2> QED BY <1>2, <2>1, <2>2
<1>4. r \in Seq(ScriptOps) /\ Len(r) = l - k /\ \A i \in 1..(l - k) : r[i] = program[k + i]
  BY <1>2, <1>3
<1>5. ScriptOps \subseteq Ops /\ InnerOps \subseteq Ops
  BY DEF ScriptOps, InnerOps
<1>6. CASE p # <<>>
  <2>1. p \in Seq(Ops) /\ r \in Seq(Ops)
    BY <1>4, <1>5
  <2>2. Head(p \o r) = Head(p) /\ Tail(p \o r) = Tail(p) \o r
    BY <1>6, <2>1
  <2>3. Head(p) \in InnerOps /\ Tail(p) \in Seq(InnerOps)
    BY <1>6
  <2> QED BY <1>1, <1>2, <2>2, <2>3 DEF InnerOps
<1>7. CASE p = <<>>
  <2>1. agenda[Main] = r
    <3>1. <<>> \o r = r
      BY <1>4, Front0
    <3> QED BY <1>1, <1>2, <1>7, <3>1
  <2>2. r # <<>> /\ Len(r) # 0
    BY <1>4, <2>1
  <2>3. k + 1 \in 1..l /\ o = program[k + 1] /\ o \in ScriptOps
    <3>1. 1 \in 1..(l - k)
      BY <1>3, <1>4, <2>2
    <3>2. o = r[1] /\ o \in ScriptOps
      BY <1>4, <2>1, <2>2
    <3>3. k + 1 \in 1..l
      BY <1>3, <3>1
    <3> QED BY <1>4, <3>1, <3>2, <3>3
  <2>4. Tail(r) = SubSeq(program, k + 2, l)
    <3>1. k + 1 \in 1..Len(program) /\ l \in (k + 1)..Len(program) /\ (k + 1) + 1 = k + 2
      BY <1>2, <1>3, <2>3
    <3>2. Tail(SubSeq(program, k + 1, l)) = SubSeq(program, (k + 1) + 1, l)
      BY <1>3, <3>1, HeadTailOfSubSeq
    <3> QED BY <1>2, <3>1, <3>2
  <2>5. o.op \in {"new", "connect"}
    BY <2>3 DEF ScriptOps
  <2> QED BY <1>2, <2>1, <2>3, <2>4, <2>5
<1> QED BY <1>6, <1>7

\* What a step of Main leaves to do.
LEMMA OnwardStep ==
  ASSUME Typed, NEW k \in 0..Len(program), Executed(k), agenda[Main] # <<>>, program' = program,
         NEW ops \in Seq(InnerOps), Replaces(Main, ops), NEW o, o = Head(agenda[Main])
  PROVE  /\ o.op \notin {"new", "connect"} => Executed(k)'
         /\ o.op \in {"new", "connect"} =>
              k + 1 \in 1..Len(program) /\ o = program[k + 1] /\ Executed(k + 1)'
<1>1. agenda'[Main] = ops \o Tail(agenda[Main])
  BY DEF Replaces, Typed, TypeOK, AgendasOK, Threads
<1>2. PICK l : l = Len(program)
  OBVIOUS
<1>3. program \in Seq(Ops) /\ l \in Nat /\ k \in 0..l
  <2>1. program \in Seq(ScriptOps) /\ ScriptOps \subseteq Ops
    BY SchedulerAssumption DEF Typed, TypeOK, HistoryOK, ScriptOps
  <2> QED BY <1>2, <2>1
<1>4. InnerOps \subseteq Ops
  BY DEF InnerOps
<1>5. ASSUME o.op \notin {"new", "connect"} PROVE Executed(k)'
  <2>1. PICK q \in Seq(InnerOps) : Tail(agenda[Main]) = q \o SubSeq(program, k + 1, l)
    BY <1>2, <1>5, Onward
  <2>2. PICK r : r = SubSeq(program, k + 1, l)
    OBVIOUS
  <2>3. r \in Seq(Ops) /\ q \in Seq(Ops) /\ ops \in Seq(Ops)
    <3>1. r \in Seq(Ops)
      <4>1. \A i \in (k + 1)..l : program[i] \in Ops
        BY <1>2, <1>3
      <4> QED BY <1>3, <2>2, <4>1, SubSeqProperties
    <3> QED BY <1>4, <3>1, SeqLarger
  <2>4. ops \o (q \o r) = (ops \o q) \o r
    BY <2>3, ConcatAssociative
  <2>5. ops \o q \in Seq(InnerOps)
    OBVIOUS
  <2> QED BY <1>1, <1>2, <2>1, <2>2, <2>4, <2>5 DEF Executed
<1>6. ASSUME o.op \in {"new", "connect"}
      PROVE  k + 1 \in 1..l /\ o = program[k + 1] /\ Executed(k + 1)'
  <2>1. /\ k + 1 \in 1..l /\ o = program[k + 1]
        /\ Tail(agenda[Main]) = SubSeq(program, k + 2, l)
    BY <1>2, <1>6, Onward
  <2>2. (k + 1) + 1 = k + 2
    BY <1>3
  <2> QED BY <1>1, <1>2, <2>1, <2>2 DEF Executed
<1> QED BY <1>2, <1>5, <1>6

\* The streams of a longer beginning of the program.
LEMMA CreatedMore ==
  ASSUME Typed, NEW k \in 0..Len(program), k + 1 \in 1..Len(program), NEW o, o = program[k + 1]
  PROVE  /\ Created(program, k) \subseteq Created(program, k + 1)
         /\ o.op = "new" => o.s \in Created(program, k + 1) /\ o.s \notin Created(program, k)
         /\ o.op = "connect" => o.s \in Created(program, k) /\ o.dst \in Created(program, k)
<1>1. program \in Seq(ScriptOps) /\ WellFormed(program) /\ Len(program) \in Nat
  BY SchedulerAssumption DEF Typed, TypeOK, HistoryOK
<1>2. (k + 1) - 1 = k /\ 1..k \subseteq 1..(k + 1) /\ k + 1 \in 1..(k + 1)
  BY <1>1
<1>3. /\ o.op = "new" => o.s \notin Created(program, k)
      /\ o.op = "connect" => o.s \in Created(program, k) /\ o.dst \in Created(program, k)
  BY <1>1, <1>2 DEF WellFormed
<1>4. o.op = "new" => o.s \in Created(program, k + 1)
  BY <1>2 DEF Created
<1>5. Created(program, k) \subseteq Created(program, k + 1)
  BY <1>2 DEF Created
<1> QED BY <1>3, <1>4, <1>5

LEMMA BelongsMore ==
  ASSUME NEW t, NEW C, NEW D, C \subseteq D
  PROVE  Allowed(t, C) \subseteq Allowed(t, D)
  BY DEF Allowed, Belongs

\* Only Main builds, and a worker's own steps are about its stream.
LEMMA WhoSteps ==
  ASSUME Typed, NEW C, Ready(C), NEW t \in Threads, agenda[t] # <<>>, NEW o, o = Head(agenda[t])
  PROVE  /\ o.op \in Building => t = Main
         /\ o.op \in Own => t \in Workers /\ o.s = cur[t]
         /\ t = Main /\ o.op \in {"push", "addTask"} => o.d = Nil
         /\ o.op \in {"push", "addTask"} /\ o.d # Nil => o.f = "start"
<1>1. Belongs(t, o, C)
  BY BelongsTop
<1>2. Building \cap (Pushing \cup Own) = {} /\ Own \cap (Pushing \cup Building) = {}
  BY DEF Building, Pushing, Own
<1> QED BY <1>1, <1>2 DEF Belongs, Threads

\* What may become of a mode, of a connection and of the global queues.
Keeps(o) ==
  /\ mode' = mode \/ \E m \in Modes : mode' = [mode EXCEPT ![o.s] = m]
  /\ o.op # "new" => mode' = mode \/ (o.op \in Own /\ \E m \in {"dying", "killed"} : mode' = [mode EXCEPT ![o.s] = m])
  /\ queue' = queue \/ (o.op = "addStream" /\ queue' = Append(queue, o.s))
  /\ prodQueue' = prodQueue \/ (o.op = "addStream" /\ prodQueue' = Append(prodQueue, o.s))
  /\ o.op # "connect" => rest' = rest
  /\ o.op # "connect" => dst' = dst \/ (o.op = "dropDst" /\ dst' = [dst EXCEPT ![o.s] = NoStream] /\ mode[dst[o.s]] = "killed")
  /\ tasks' = tasks \/ (o.op = "addTask" /\ tasks' = [tasks EXCEPT ![o.s] = Append(@, [f |-> o.f, d |-> o.d])])
  /\ cur' = cur /\ got' = got /\ program' = program

LEMMA StepKeeps ==
  ASSUME Typed, NEW t \in Threads, Step(t), NEW o, o = Head(agenda[t])
  PROVE  Keeps(o)
<1>1. CASE StreamNew(t)
  <2>1. ModeOf(o.kind) \in Modes /\ o.op = "new"
    BY <1>1, TopTyped, OpFields, ModeOfTyped DEF StreamNew, Typed
  <2>2. mode' = [mode EXCEPT ![o.s] = ModeOf(o.kind)]
    BY <1>1 DEF StreamNew
  <2>3. queue' = queue /\ prodQueue' = prodQueue /\ rest' = rest /\ dst' = dst /\ tasks' = tasks
    BY <1>1 DEF StreamNew
  <2>4. cur' = cur /\ got' = got /\ program' = program
    BY <1>1 DEF StreamNew, Return, Continue, historyVars
  <2> QED BY <2>1, <2>2, <2>3, <2>4 DEF Keeps
<1>2. CASE Connect(t)
  <2>1. o.op = "connect"
    BY <1>2 DEF Connect, At
  <2>2. tasks' = tasks
    BY <1>2 DEF Connect
  <2>3. mode' = mode /\ queue' = queue /\ prodQueue' = prodQueue
    BY <1>2 DEF Connect, sharedVars, streamVars
  <2>4. cur' = cur /\ got' = got /\ program' = program
    BY <1>2 DEF Connect, Return, Continue, historyVars
  <2> QED BY <2>1, <2>2, <2>3, <2>4 DEF Keeps
<1>3. CASE Ref(t)
  <2>1. o.op = "ref"
    BY <1>3 DEF Ref, At
  <2>2. tasks' = tasks /\ dst' = dst /\ rest' = rest
    BY <1>3 DEF Ref, streamVars
  <2>3. mode' = mode /\ queue' = queue /\ prodQueue' = prodQueue
    BY <1>3 DEF Ref, sharedVars, streamVars
  <2>4. cur' = cur /\ got' = got /\ program' = program
    BY <1>3 DEF Ref, Return, Continue, historyVars
  <2> QED BY <2>1, <2>2, <2>3, <2>4 DEF Keeps
<1>4. CASE Start(t)
  <2>1. o.op = "start"
    BY <1>4 DEF Start, At
  <2>2. tasks' = tasks /\ dst' = dst /\ rest' = rest
    BY <1>4 DEF Start, streamVars
  <2>3. mode' = mode /\ queue' = queue /\ prodQueue' = prodQueue
    BY <1>4 DEF Start, sharedVars, streamVars
  <2>4. cur' = cur /\ got' = got /\ program' = program
    BY <1>4 DEF Start, Return, Continue, historyVars
  <2> QED BY <2>1, <2>2, <2>3, <2>4 DEF Keeps
<1>5. CASE Push(t)
  <2>1. o.op = "push"
    BY <1>5 DEF Push, At
  <2>2. tasks' = tasks /\ dst' = dst /\ rest' = rest
    BY <1>5 DEF Push, streamVars
  <2>3. mode' = mode /\ queue' = queue /\ prodQueue' = prodQueue
    BY <1>5 DEF Push, sharedVars, streamVars
  <2>4. cur' = cur /\ got' = got /\ program' = program
    BY <1>5 DEF Push, Return, Continue, historyVars
  <2> QED BY <2>1, <2>2, <2>3, <2>4 DEF Keeps
<1>6. CASE AddTask(t)
  <2>1. o.op = "addTask"
    BY <1>6 DEF AddTask, At
  <2>2. tasks' = [tasks EXCEPT ![o.s] = Append(@, [f |-> o.f, d |-> o.d])] /\ dst' = dst /\ rest' = rest
    BY <1>6 DEF AddTask
  <2>3. mode' = mode /\ queue' = queue /\ prodQueue' = prodQueue
    BY <1>6 DEF AddTask, sharedVars, streamVars
  <2>4. cur' = cur /\ got' = got /\ program' = program
    BY <1>6 DEF AddTask, Return, Continue, historyVars
  <2> QED BY <2>1, <2>2, <2>3, <2>4 DEF Keeps
<1>7. CASE AddStream(t)
  <2>1. o.op = "addStream"
    BY <1>7 DEF AddStream, At
  <2>2. tasks' = tasks /\ dst' = dst /\ rest' = rest
    BY <1>7 DEF AddStream, streamVars
  <2>3. /\ mode' = mode
        /\ queue' = queue \/ queue' = Append(queue, o.s)
        /\ prodQueue' = prodQueue \/ prodQueue' = Append(prodQueue, o.s)
    BY <1>7 DEF AddStream, streamVars
  <2>4. cur' = cur /\ got' = got /\ program' = program
    BY <1>7 DEF AddStream, Return, Continue, historyVars
  <2> QED BY <2>1, <2>2, <2>3, <2>4 DEF Keeps
<1>8. CASE Emit(t)
  <2>1. o.op = "emit"
    BY <1>8 DEF Emit, At
  <2>2. tasks' = tasks /\ dst' = dst /\ rest' = rest
    BY <1>8 DEF Emit, streamVars
  <2>3. mode' = mode /\ queue' = queue /\ prodQueue' = prodQueue
    BY <1>8 DEF Emit, sharedVars, streamVars
  <2>4. cur' = cur /\ got' = got /\ program' = program
    BY <1>8 DEF Emit, Return, Continue, historyVars
  <2> QED BY <2>1, <2>2, <2>3, <2>4 DEF Keeps
<1>9. CASE EmitRest(t)
  <2>1. o.op = "emitRest"
    BY <1>9 DEF EmitRest, At
  <2>2. tasks' = tasks /\ dst' = dst /\ rest' = rest
    BY <1>9 DEF EmitRest, streamVars
  <2>3. mode' = mode /\ queue' = queue /\ prodQueue' = prodQueue
    BY <1>9 DEF EmitRest, sharedVars, streamVars
  <2>4. cur' = cur /\ got' = got /\ program' = program
    BY <1>9 DEF EmitRest, Return, Continue, historyVars
  <2> QED BY <2>1, <2>2, <2>3, <2>4 DEF Keeps
<1>10. CASE Close(t)
  <2>1. o.op = "close"
    BY <1>10 DEF Close, At
  <2>2. tasks' = tasks /\ dst' = dst /\ rest' = rest
    BY <1>10 DEF Close, streamVars
  <2>3. mode' = mode /\ queue' = queue /\ prodQueue' = prodQueue
    BY <1>10 DEF Close, sharedVars, streamVars
  <2>4. cur' = cur /\ got' = got /\ program' = program
    BY <1>10 DEF Close, Return, Continue, historyVars
  <2> QED BY <2>1, <2>2, <2>3, <2>4 DEF Keeps
<1>11. CASE CloseDst(t)
  <2>1. o.op = "closeDst"
    BY <1>11 DEF CloseDst, At
  <2>2. tasks' = tasks /\ dst' = dst /\ rest' = rest
    BY <1>11 DEF CloseDst, streamVars
  <2>3. mode' = mode /\ queue' = queue /\ prodQueue' = prodQueue
    BY <1>11 DEF CloseDst, sharedVars, streamVars
  <2>4. cur' = cur /\ got' = got /\ program' = program
    BY <1>11 DEF CloseDst, Return, Continue, historyVars
  <2> QED BY <2>1, <2>2, <2>3, <2>4 DEF Keeps
<1>12. CASE CloseRest(t)
  <2>1. o.op = "closeRest"
    BY <1>12 DEF CloseRest, At
  <2>2. tasks' = tasks /\ dst' = dst /\ rest' = rest
    BY <1>12 DEF CloseRest, streamVars
  <2>3. mode' = mode /\ queue' = queue /\ prodQueue' = prodQueue
    BY <1>12 DEF CloseRest, sharedVars, streamVars
  <2>4. cur' = cur /\ got' = got /\ program' = program
    BY <1>12 DEF CloseRest, Return, Continue, historyVars
  <2> QED BY <2>1, <2>2, <2>3, <2>4 DEF Keeps
<1>13. CASE CountDown(t)
  <2>1. o.op = "countDown"
    BY <1>13 DEF CountDown, At
  <2>2. tasks' = tasks /\ dst' = dst /\ rest' = rest
    BY <1>13 DEF CountDown, streamVars
  <2>3. mode' = mode /\ queue' = queue /\ prodQueue' = prodQueue
    BY <1>13 DEF CountDown, sharedVars, streamVars
  <2>4. cur' = cur /\ got' = got /\ program' = program
    BY <1>13 DEF CountDown, Return, Continue, historyVars
  <2> QED BY <2>1, <2>2, <2>3, <2>4 DEF Keeps
<1>14. CASE SeqNext(t)
  <2>1. o.op = "seqNext"
    BY <1>14 DEF SeqNext, At
  <2>2. tasks' = tasks /\ dst' = dst /\ rest' = rest
    BY <1>14 DEF SeqNext, streamVars
  <2>3. mode' = mode /\ queue' = queue /\ prodQueue' = prodQueue
    BY <1>14 DEF SeqNext, sharedVars, streamVars
  <2>4. cur' = cur /\ got' = got /\ program' = program
    BY <1>14 DEF SeqNext, Return, Continue, historyVars
  <2> QED BY <2>1, <2>2, <2>3, <2>4 DEF Keeps
<1>15. CASE TakeNext(t)
  <2>1. o.op = "takeNext"
    BY <1>15 DEF TakeNext, At
  <2>2. tasks' = tasks /\ dst' = dst /\ rest' = rest
    BY <1>15 DEF TakeNext, streamVars
  <2>3. mode' = mode /\ queue' = queue /\ prodQueue' = prodQueue
    BY <1>15 DEF TakeNext, sharedVars, streamVars
  <2>4. cur' = cur /\ got' = got /\ program' = program
    BY <1>15 DEF TakeNext, Return, Continue, historyVars
  <2> QED BY <2>1, <2>2, <2>3, <2>4 DEF Keeps
<1>16. CASE After(t)
  <2>1. o.op = "after"
    BY <1>16 DEF After, At
  <2>2. tasks' = tasks /\ dst' = dst /\ rest' = rest
    BY <1>16 DEF After, streamVars
  <2>3. mode' = mode /\ queue' = queue /\ prodQueue' = prodQueue
    BY <1>16 DEF After, sharedVars, streamVars
  <2>4. cur' = cur /\ got' = got /\ program' = program
    BY <1>16 DEF After, Return, Continue, historyVars
  <2> QED BY <2>1, <2>2, <2>3, <2>4 DEF Keeps
<1>17. CASE DropDst(t)
  <2>1. o \in Ops /\ o.op = "dropDst"
    BY <1>17, TopTyped DEF DropDst, Typed
  <2>2. dst \in [Streams -> Streams \union {NoStream}] /\ o.s \in Streams
    BY <2>1, OpFields DEF Typed, TypeOK, StreamsOK
  <2>3. dst' = dst \/ (dst' = [dst EXCEPT ![o.s] = NoStream] /\ mode[dst[o.s]] = "killed")
    BY <1>17, <2>2 DEF DropDst
  <2>4. mode' = mode /\ queue' = queue /\ prodQueue' = prodQueue /\ tasks' = tasks /\ rest' = rest
    BY <1>17 DEF DropDst, sharedVars
  <2>5. cur' = cur /\ got' = got /\ program' = program
    BY <1>17 DEF DropDst, Return, Continue, historyVars
  <2> QED BY <2>1, <2>3, <2>4, <2>5 DEF Keeps
<1>18. CASE TerminationCheck(t)
  <2>1. o \in Ops /\ o.op = "check"
    BY <1>18, TopTyped DEF TerminationCheck, Typed
  <2>2. mode \in [Streams -> Modes] /\ o.s \in Streams
    BY <2>1, OpFields DEF Typed, TypeOK, StreamsOK
  <2>3. mode' = mode \/ mode' = [mode EXCEPT ![o.s] = "dying"]
    BY <1>18, <2>2 DEF TerminationCheck
  <2>4. dst' = dst /\ queue' = queue /\ prodQueue' = prodQueue /\ tasks' = tasks /\ rest' = rest
    BY <1>18 DEF TerminationCheck, sharedVars
  <2>5. cur' = cur /\ got' = got /\ program' = program
    BY <1>18 DEF TerminationCheck, Continue, historyVars
  <2>6. o.op \in Own /\ {"dying", "killed"} \subseteq Modes
    BY <2>1 DEF Own, Modes
  <2> QED BY <2>1, <2>3, <2>4, <2>5, <2>6 DEF Keeps
<1>19. CASE Kill(t)
  <2>1. o.op = "kill"
    BY <1>19 DEF Kill, At
  <2>2. mode' = mode \/ mode' = [mode EXCEPT ![o.s] = "killed"]
    BY <1>19 DEF Kill
  <2>3. dst' = dst /\ queue' = queue /\ prodQueue' = prodQueue /\ tasks' = tasks /\ rest' = rest
    BY <1>19 DEF Kill, sharedVars
  <2>4. cur' = cur /\ got' = got /\ program' = program
    BY <1>19 DEF Kill, Return, Continue
  <2>5. o.op \in Own /\ {"dying", "killed"} \subseteq Modes
    BY <2>1 DEF Own, Modes
  <2> QED BY <2>1, <2>2, <2>3, <2>4, <2>5 DEF Keeps
<1> QED BY <1>1, <1>2, <1>3, <1>4, <1>5, <1>6, <1>7, <1>8, <1>9, <1>10, <1>11, <1>12, <1>13, <1>14, <1>15, <1>16, <1>17, <1>18, <1>19 DEF Step

\* Where the main thread is in the program after a step.
LEMMA StepExecuted ==
  ASSUME Typed, NEW k \in 0..Len(program), Progress(k), NEW t \in Threads, Step(t)
  PROVE  \E m \in {k, k + 1} :
           /\ m \in 0..Len(program) /\ Executed(m)' /\ Created(program, k) \subseteq Created(program, m)
           /\ Brings(t, Created(program, k))
           /\ Connect(t) \/ StreamNew(t) =>
                t = Main /\ m = k + 1 /\ m \in 1..Len(program) /\ Head(agenda[t]) = program[m]
<1>1. PICK o, C : o = Head(agenda[t]) /\ C = Created(program, k)
  OBVIOUS
<1>2. agenda[t] # <<>> /\ program' = program
  BY <1>1, StepFrame, StepKeeps DEF Keeps
<1>3. /\ Connect(t) => o.op = "connect"
      /\ StreamNew(t) => o.op = "new"
  BY <1>1 DEF Connect, StreamNew, At
<1>4. Ready(C) /\ Executed(k)
  BY <1>1 DEF Progress
<1>5. o.op \in {"new", "connect"} => t = Main
  <2>1. o.op \in {"new", "connect"} => o.op \in Building
    BY DEF Building
  <2> QED BY <1>1, <1>2, <1>4, <2>1, WhoSteps
<1>6. o.op \in {"new", "connect"} => k + 1 \in 1..Len(program) /\ o = program[k + 1]
  BY <1>1, <1>2, <1>4, <1>5, Onward
<1>7. Brings(t, C)
  <2>1. ASSUME Connect(t) PROVE t = Main /\ {o.s, o.dst} \subseteq C
    <3>1. o.op = "connect"
      BY <1>3, <2>1
    <3>2. t = Main /\ k + 1 \in 1..Len(program) /\ o = program[k + 1]
      BY <1>5, <1>6, <3>1
    <3>3. o.s \in Created(program, k) /\ o.dst \in Created(program, k)
      BY <3>1, <3>2, CreatedMore
    <3> QED BY <1>1, <3>2, <3>3
  <2> QED BY <1>1, <2>1, StepBrings
<1>8. PICK ops \in Seq(Belonging(t, C)) : Replaces(t, ops)
  BY <1>7 DEF Brings
<1>9. Created(program, k) \subseteq Created(program, k) /\ k \in 0..Len(program)
  OBVIOUS
<1>10. CASE t = Main
  <2>1. ops \in Seq(InnerOps)
    BY SeqLarger DEF Belonging
  <2>2. /\ o.op \notin {"new", "connect"} => Executed(k)'
        /\ o.op \in {"new", "connect"} => Executed(k + 1)'
    BY <1>1, <1>2, <1>4, <1>8, <1>10, <2>1, OnwardStep
  <2>3. CASE o.op \notin {"new", "connect"}
    BY <1>1, <1>3, <1>7, <1>9, <2>2, <2>3
  <2>4. CASE o.op \in {"new", "connect"}
    <3>1. k + 1 \in 1..Len(program) /\ k + 1 \in 0..Len(program) /\ o = program[k + 1]
      BY <1>6, <2>4
    <3>2. Created(program, k) \subseteq Created(program, k + 1)
      BY <3>1, CreatedMore
    <3> QED BY <1>1, <1>7, <1>10, <2>2, <2>4, <3>1, <3>2
  <2> QED BY <2>3, <2>4
<1>11. CASE t # Main
  <2>1. agenda'[Main] = agenda[Main]
    BY <1>8, <1>11 DEF Replaces, Typed, TypeOK, AgendasOK, Threads
  <2>2. Executed(k)'
    BY <1>2, <1>4, <2>1 DEF Executed
  <2> QED BY <1>1, <1>3, <1>5, <1>7, <1>9, <1>11, <2>2
<1> QED BY <1>10, <1>11

LEMMA ConnectKeeps ==
  ASSUME Typed, NEW t \in Threads, Connect(t), NEW o, o = Head(agenda[t])
  PROVE  /\ o.s \in Streams /\ o.dst \in Streams /\ o = ConnectOp(o.s, o.dst)
         /\ \A u \in Streams : u # o.s => dst'[u] = dst[u] /\ rest'[u] = rest[u]
         /\ \/ dst[o.s] = NoStream /\ dst'[o.s] = o.dst /\ rest'[o.s] = rest[o.s]
            \/ dst'[o.s] = dst[o.s] /\ rest'[o.s] = Append(rest[o.s], o.dst)
<1>1. o \in Ops /\ o.op = "connect"
  BY TopTyped DEF Connect, Typed
<1>2. o.s \in Streams /\ o.dst \in Streams
  BY <1>1, OpFields
<1>3. o = ConnectOp(o.s, o.dst)
  BY <1>1 DEF Ops, StreamOps, ConnectOp
<1>4. dst \in [Streams -> Streams \union {NoStream}] /\ rest \in [Streams -> Seq(Streams)]
  BY DEF Typed, TypeOK, StreamsOK
<1>5. \/ dst[o.s] = NoStream /\ dst' = [dst EXCEPT ![o.s] = o.dst] /\ rest' = rest
      \/ dst' = dst /\ rest' = [rest EXCEPT ![o.s] = Append(@, o.dst)]
  BY DEF Connect
<1> QED BY <1>2, <1>3, <1>4, <1>5

\* The name of a step says what is done.
LEMMA StepNames ==
  ASSUME NEW t, NEW o, o = Head(agenda[t])
  PROVE  /\ StreamNew(t) => o.op = "new"
         /\ Connect(t) => o.op = "connect"
         /\ Ref(t) => o.op = "ref"
         /\ Start(t) => o.op = "start"
         /\ Push(t) => o.op = "push"
         /\ AddTask(t) => o.op = "addTask"
         /\ AddStream(t) => o.op = "addStream"
         /\ Emit(t) => o.op = "emit"
         /\ DropDst(t) => o.op = "dropDst"
         /\ EmitRest(t) => o.op = "emitRest"
         /\ TerminationCheck(t) => o.op = "check"
         /\ Close(t) => o.op = "close"
         /\ Kill(t) => o.op = "kill"
         /\ CloseDst(t) => o.op = "closeDst"
         /\ CloseRest(t) => o.op = "closeRest"
         /\ CountDown(t) => o.op = "countDown"
         /\ SeqNext(t) => o.op = "seqNext"
         /\ TakeNext(t) => o.op = "takeNext"
         /\ After(t) => o.op = "after"
<1>1. StreamNew(t) => o.op = "new"
  BY DEF StreamNew, At
<1>2. Connect(t) => o.op = "connect"
  BY DEF Connect, At
<1>3. Ref(t) => o.op = "ref"
  BY DEF Ref, At
<1>4. Start(t) => o.op = "start"
  BY DEF Start, At
<1>5. Push(t) => o.op = "push"
  BY DEF Push, At
<1>6. AddTask(t) => o.op = "addTask"
  BY DEF AddTask, At
<1>7. AddStream(t) => o.op = "addStream"
  BY DEF AddStream, At
<1>8. Emit(t) => o.op = "emit"
  BY DEF Emit, At
<1>9. DropDst(t) => o.op = "dropDst"
  BY DEF DropDst, At
<1>10. EmitRest(t) => o.op = "emitRest"
  BY DEF EmitRest, At
<1>11. TerminationCheck(t) => o.op = "check"
  BY DEF TerminationCheck, At
<1>12. Close(t) => o.op = "close"
  BY DEF Close, At
<1>13. Kill(t) => o.op = "kill"
  BY DEF Kill, At
<1>14. CloseDst(t) => o.op = "closeDst"
  BY DEF CloseDst, At
<1>15. CloseRest(t) => o.op = "closeRest"
  BY DEF CloseRest, At
<1>16. CountDown(t) => o.op = "countDown"
  BY DEF CountDown, At
<1>17. SeqNext(t) => o.op = "seqNext"
  BY DEF SeqNext, At
<1>18. TakeNext(t) => o.op = "takeNext"
  BY DEF TakeNext, At
<1>19. After(t) => o.op = "after"
  BY DEF After, At
<1> QED BY <1>1, <1>2, <1>3, <1>4, <1>5, <1>6, <1>7, <1>8, <1>9, <1>10, <1>11, <1>12, <1>13, <1>14, <1>15, <1>16, <1>17, <1>18, <1>19

LEMMA InSeqAppend ==
  ASSUME NEW S, NEW R \in Seq(S), NEW f \in S, NEW d
  PROVE  InSeq(d, Append(R, f)) => InSeq(d, R) \/ d = f
<1>1. PICK Q : Q = Append(R, f)
  OBVIOUS
<1>2. Len(Q) = Len(R) + 1 /\ Len(R) \in Nat /\ Q[Len(R) + 1] = f /\ \A i \in 1..Len(R) : Q[i] = R[i]
  BY <1>1
<1>3. \A i \in 1..Len(Q) : i \in 1..Len(R) \/ i = Len(R) + 1
  BY <1>2
<1> QED BY <1>1, <1>2, <1>3 DEF InSeq

\* What the main thread has connected.
LEMMA LinkedStep ==
  ASSUME Typed, NEW k \in 0..Len(program), Linked(k), NEW m \in {k, k + 1}, NEW t \in Threads, Step(t),
         Connect(t) => m = k + 1 /\ Head(agenda[t]) = program[m]
  PROVE  Linked(m)'
<1>1. PICK o : o = Head(agenda[t])
  OBVIOUS
<1>2. Keeps(o)
  BY <1>1, StepKeeps
<1>3. ASSUME NEW u \in Streams, NEW d \in Streams, Hears(dst'[u], rest'[u], d) PROVE Joins(u, d, m)'
  <2>1. ASSUME Joins(u, d, k) PROVE Joins(u, d, m)
    <3>1. 1..k \subseteq 1..m
      OBVIOUS
    <3> QED BY <2>1, <3>1 DEF Joins
  <2>2. CASE Hears(dst[u], rest[u], d)
    BY <1>2, <2>1, <2>2 DEF Linked, Joins, Keeps
  <2>3. CASE ~Hears(dst[u], rest[u], d)
    <3>1. Connect(t)
      <4>1. ASSUME o.op # "connect" PROVE FALSE
        <5>1. rest' = rest /\ (dst' = dst \/ dst' = [dst EXCEPT ![o.s] = NoStream])
          BY <1>2, <4>1 DEF Keeps
        <5>2. dst'[u] = dst[u] \/ dst'[u] = NoStream
          BY <5>1 DEF Typed, TypeOK, StreamsOK
        <5> QED BY <1>3, <2>3, <5>1, <5>2, NullAssumption DEF Hears
      <4> QED BY <1>1, <4>1, StepNames DEF Step
    <3>2. /\ o = ConnectOp(o.s, o.dst) /\ o.dst \in Streams
          /\ u # o.s => dst'[u] = dst[u] /\ rest'[u] = rest[u]
          /\ u = o.s => \/ dst[u] = NoStream /\ dst'[u] = o.dst /\ rest'[u] = rest[u]
                        \/ dst'[u] = dst[u] /\ rest'[u] = Append(rest[u], o.dst)
      BY <1>1, <3>1, ConnectKeeps
    <3>3. u = o.s
      BY <1>3, <2>3, <3>2
    <3>4. d = o.dst
      <4>1. rest[u] \in Seq(Streams)
        BY DEF Typed, TypeOK, StreamsOK
      <4>2. InSeq(d, Append(rest[u], o.dst)) => InSeq(d, rest[u]) \/ d = o.dst
        BY <3>2, <4>1, InSeqAppend
      <4>3. dst'[u] = d \/ InSeq(d, rest'[u])
        BY <1>3 DEF Hears
      <4>4. dst[u] # d /\ ~InSeq(d, rest[u])
        BY <2>3 DEF Hears
      <4>5. CASE dst'[u] = o.dst /\ rest'[u] = rest[u]
        BY <4>3, <4>4, <4>5
      <4>6. CASE dst'[u] = dst[u] /\ rest'[u] = Append(rest[u], o.dst)
        <5>1. InSeq(d, Append(rest[u], o.dst))
          BY <4>3, <4>4, <4>6
        <5> QED BY <4>2, <4>4, <5>1
      <4> QED BY <3>2, <3>3, <4>5, <4>6
    <3>5. m \in 1..m /\ program[m] = ConnectOp(u, d)
      BY <1>1, <3>1, <3>2, <3>3, <3>4
    <3> QED BY <1>2, <3>5 DEF Joins, Keeps
  <2> QED BY <2>2, <2>3
<1> QED BY <1>3 DEF Linked

LEMMA AllowedSame ==
  ASSUME NEW t, NEW C, cur'[t] = cur[t]
  PROVE  Allowed(t, C)' = Allowed(t, C')
  BY DEF Allowed, Belongs

LEMMA ReadyStep ==
  ASSUME Typed, NEW C, Ready(C), NEW D, C \subseteq D, NEW t \in Threads, Step(t), Brings(t, C),
         Head(agenda[t]).op = "new" => Head(agenda[t]).s \in D,
         NEW E, E' = D
  PROVE  Ready(E)'
<1>1. PICK o : o = Head(agenda[t])
  OBVIOUS
<1>2. Keeps(o) /\ agenda[t] # <<>>
  BY <1>1, StepKeeps, StepFrame
<1>3. PICK ops \in Seq(Belonging(t, C)) : Replaces(t, ops)
  BY DEF Brings
<1>4. cur' = cur
  BY <1>2 DEF Keeps
<1>5. ASSUME NEW r \in Threads PROVE agenda'[r] \in Seq(Allowed(r, E)')
  <2>1. agenda[r] \in Seq(Allowed(r, C))
    BY DEF Ready
  <2>2. Allowed(r, C) \subseteq Allowed(r, E)'
    BY <1>4 DEF Allowed, Belongs
  <2>3. CASE r # t
    <3>1. agenda'[r] = agenda[r]
      BY <1>3, <2>3 DEF Replaces, Typed, TypeOK, AgendasOK
    <3> QED BY <2>1, <2>2, <3>1, SeqLarger
  <2>4. CASE r = t
    <3>1. agenda'[t] = ops \o Tail(agenda[t])
      BY <1>3 DEF Replaces, Typed, TypeOK, AgendasOK
    <3>2. Tail(agenda[t]) \in Seq(Allowed(t, C))
      BY <1>2, <2>1, <2>4
    <3>3. ops \in Seq(Allowed(t, C))
      BY SeqLarger DEF Belonging
    <3>4. ops \o Tail(agenda[t]) \in Seq(Allowed(t, C))
      BY <3>2, <3>3, Small
    <3> QED BY <2>2, <2>4, <3>1, <3>4, SeqLarger
  <2> QED BY <2>3, <2>4
<1>6. /\ o.op \notin {"new", "connect"} => o.s \in C
      /\ o.op \in Own \cup {"addStream"} => o.op # "new"
      /\ Belongs(t, o, C)
  <2>1. Belongs(t, o, C)
    BY <1>1, <1>2, BelongsTop
  <2>2. o.op \in Own \cup {"addStream"} => o.op \notin {"new", "connect"}
    BY DEF Own
  <2> QED BY <2>1, <2>2 DEF Belongs
<1>7. queue' \in Seq(D) /\ prodQueue' \in Seq(D)
  <2>1. queue \in Seq(D) /\ prodQueue \in Seq(D)
    BY SeqLarger DEF Ready
  <2>2. o.op = "addStream" => Append(queue, o.s) \in Seq(D) /\ Append(prodQueue, o.s) \in Seq(D)
    <3>1. o.op = "addStream" => o.s \in D
      BY <1>6
    <3> QED BY <2>1, <3>1
  <2> QED BY <1>2, <2>1, <2>2 DEF Keeps
<1>8. \A w \in Workers : cur'[w] \in D \cup {NoStream}
  BY <1>4 DEF Ready
<1>9. ASSUME NEW s \in Streams, mode'[s] # "none" PROVE s \in D
  <2>1. CASE mode[s] # "none"
    BY <2>1 DEF Ready
  <2>2. CASE mode[s] = "none"
    <3>1. mode' # mode /\ s = o.s
      BY <1>2, <1>9, <2>2 DEF Keeps, Typed, TypeOK, StreamsOK
    <3>2. CASE o.op = "new"
      BY <1>1, <3>1, <3>2
    <3>3. CASE o.op # "new"
      <4>1. o.op \in Own
        BY <1>2, <3>1, <3>3 DEF Keeps
      <4>2. o.op \notin {"new", "connect"}
        BY <4>1 DEF Own
      <4> QED BY <1>6, <3>1, <4>2 DEF Belongs
    <3> QED BY <3>2, <3>3
  <2> QED BY <2>1, <2>2
<1> QED BY <1>5, <1>7, <1>8, <1>9 DEF Ready

LEMMA StepProgress ==
  ASSUME Typed, NEW k \in 0..Len(program), Progress(k), NEW t \in Threads, Step(t)
  PROVE  \E m \in 0..Len(program') : Progress(m)'
<1>1. PICK o, C : o = Head(agenda[t]) /\ C = Created(program, k)
  OBVIOUS
<1>2. Keeps(o) /\ agenda[t] # <<>>
  BY <1>1, StepKeeps, StepFrame
<1>3. PICK m \in {k, k + 1} :
           /\ m \in 0..Len(program) /\ Executed(m)' /\ Created(program, k) \subseteq Created(program, m)
           /\ Brings(t, Created(program, k))
           /\ Connect(t) \/ StreamNew(t) =>
                t = Main /\ m = k + 1 /\ m \in 1..Len(program) /\ Head(agenda[t]) = program[m]
  BY StepExecuted
<1>4. Linked(m)'
  BY <1>3, LinkedStep DEF Progress
<1>5. program' = program
  BY <1>2 DEF Keeps
<1>6. Ready(Created(program, m))'
  <2>1. PICK D : D = Created(program, m)
    OBVIOUS
  <2>2. o.op = "new" => o.s \in D
    <3>1. o.op = "new" => StreamNew(t)
      BY <1>1, StepNames DEF Step
    <3>2. ASSUME o.op = "new" PROVE o.s \in D
      <4>1. m = k + 1 /\ m \in 1..Len(program) /\ o = program[k + 1]
        BY <1>1, <1>3, <3>1, <3>2
      <4>2. o.s \in Created(program, k + 1)
        BY <3>2, <4>1, CreatedMore
      <4> QED BY <2>1, <4>1, <4>2
    <3> QED BY <3>2
  <2>3. Created(program, m)' = D
    BY <1>5, <2>1 DEF Created
  <2> HIDE DEF Created
  <2>4. Ready(C)
    BY <1>1 DEF Progress
  <2>5. C \subseteq D /\ Brings(t, C)
    BY <1>1, <1>3, <2>1
  <2> QED BY <1>1, <2>2, <2>3, <2>4, <2>5, ReadyStep
<1>7. tasks' \in [Streams -> Seq(DataTasks)]
  <2>1. tasks \in [Streams -> Seq(DataTasks)]
    BY DEF Progress
  <2>2. CASE tasks' = tasks
    BY <2>1, <2>2
  <2>3. CASE o.op = "addTask" /\ tasks' = [tasks EXCEPT ![o.s] = Append(@, [f |-> o.f, d |-> o.d])]
    <3>1. o \in Ops /\ o.f \in Funcs /\ o.d \in Data /\ o.s \in Streams
      BY <1>1, <1>2, <2>3, BelongsTop, OpFields DEF Progress
    <3>2. o.d # Nil => o.f = "start"
      BY <1>1, <1>2, <2>3, WhoSteps DEF Progress
    <3>3. PICK x : x = [f |-> o.f, d |-> o.d]
      OBVIOUS
    <3>4. x \in DataTasks
      BY <3>1, <3>2, <3>3 DEF DataTasks, Tasks
    <3>5. Append(tasks[o.s], x) \in Seq(DataTasks)
      BY <2>1, <3>1, <3>4
    <3>6. tasks' = [tasks EXCEPT ![o.s] = Append(tasks[o.s], x)]
      BY <2>3, <3>3
    <3> QED BY <2>1, <3>5, <3>6
  <2> QED BY <1>2, <2>2, <2>3 DEF Keeps
<1> QED BY <1>3, <1>4, <1>5, <1>6, <1>7 DEF Progress

\* task_loop adds no task and goes to the streams that are queued.
LEMMA LoopProgress ==
  ASSUME Typed, IdleAgendas, NEW k \in 0..Len(program), Progress(k), NEW w \in Workers, Loop(w)
  PROVE  k \in 0..Len(program') /\ Progress(k)'
<1>1. PICK C : C = Created(program, k)
  OBVIOUS
<1>2. Ready(C)
  BY <1>1 DEF Progress
<1>3. /\ program' = program /\ dst' = dst /\ rest' = rest /\ mode' = mode
      /\ \A v \in Workers : v # w => cur'[v] = cur[v]
      /\ agenda' = agenda \/ Drain(w)
      /\ cur' = cur \/ agenda[w] = <<>>
  <2>1. CASE GetStream(w) \/ GetProducer(w)
    BY <2>1 DEF GetStream, GetProducer, streamVars, historyVars, IdleAgendas, Typed, TypeOK, ThreadsOK
  <2>2. CASE Claim(w) \/ Release(w)
    BY <2>2 DEF Claim, Release, historyVars, IdleAgendas, Typed, TypeOK, ThreadsOK
  <2>3. CASE Drain(w)
    BY <2>3 DEF Drain
  <2>4. CASE TaskDone(w) \/ Drained(w) \/ CheckCount(w)
    BY <2>4 DEF TaskDone, Drained, CheckCount, streamVars, historyVars
  <2> QED BY <2>1, <2>2, <2>3, <2>4 DEF Loop
<1>4. queue' \in Seq(C) /\ prodQueue' \in Seq(C) /\ cur'[w] \in C \cup {NoStream}
  <2>1. queue \in Seq(C) /\ prodQueue \in Seq(C) /\ cur[w] \in C \cup {NoStream}
    BY <1>2 DEF Ready
  <2>a. \A q \in Seq(C) : q # <<>> => Head(q) \in C /\ Tail(q) \in Seq(C)
    OBVIOUS
  <2>b. \A x : cur' = [cur EXCEPT ![w] = x] => cur'[w] = x
    BY DEF Typed, TypeOK, ThreadsOK
  <2>2. CASE GetStream(w)
    <3>1. /\ prodQueue' = prodQueue
          /\ \/ queue' = queue /\ cur' = cur
             \/ queue # <<>> /\ queue' = Tail(queue) /\ cur' = [cur EXCEPT ![w] = Head(queue)]
      BY <2>2 DEF GetStream
    <3> QED BY <2>1, <2>a, <2>b, <3>1
  <2>3. CASE GetProducer(w)
    <3>1. /\ queue' = queue
          /\ \/ prodQueue' = prodQueue /\ cur' = cur
             \/ prodQueue # <<>> /\ prodQueue' = Tail(prodQueue) /\ cur' = [cur EXCEPT ![w] = Head(prodQueue)]
      BY <2>3 DEF GetProducer
    <3> QED BY <2>1, <2>a, <2>b, <3>1
  <2>4. CASE Claim(w) \/ Release(w)
    <3>1. /\ queue' = queue /\ prodQueue' = prodQueue
          /\ cur' = cur \/ cur' = [cur EXCEPT ![w] = NoStream]
      BY <2>4 DEF Claim, Release, sharedVars
    <3> QED BY <2>1, <2>b, <3>1
  <2>5. CASE Drain(w) \/ TaskDone(w) \/ Drained(w) \/ CheckCount(w)
    BY <2>1, <2>5 DEF Drain, TaskDone, Drained, CheckCount, sharedVars
  <2> QED BY <2>2, <2>3, <2>4, <2>5 DEF Loop
<1>5. w # Main
  BY SchedulerAssumption
<1>6. agenda'[Main] = agenda[Main] /\ \A r \in Threads : r # w => agenda'[r] = agenda[r] /\ (r \in Workers => cur'[r] = cur[r])
  <2>1. \A r \in Threads : r # w => agenda'[r] = agenda[r]
    <3>1. agenda' = agenda \/ \E a : agenda' = [agenda EXCEPT ![w] = a]
      <4>1. CASE Drain(w)
        <5>1. PICK a : a = (IF Head(tasks[cur[w]]).f = "close" THEN <<CloseOp(cur[w])>>
                            ELSE StartFunc(cur[w], kind[cur[w]], n[cur[w]], limit[cur[w]], Head(tasks[cur[w]]).d))
                            \o <<AfterOp(cur[w])>>
          OBVIOUS
        <5>2. agenda' = agenda \/ agenda' = [agenda EXCEPT ![w] = a]
          BY <4>1, <5>1 DEF Drain
        <5> QED BY <5>2
      <4> QED BY <1>3, <4>1
    <3>2. agenda \in [Threads -> Seq(Ops)]
      BY DEF Typed, TypeOK, AgendasOK
    <3> QED BY <3>1, <3>2
  <2>2. Main \in Threads
    BY DEF Threads
  <2> QED BY <1>3, <1>5, <2>1, <2>2
<1>7. ASSUME Drain(w)
      PROVE  /\ cur' = cur /\ cur[w] \in C /\ cur[w] \in Streams
             /\ \/ agenda'[w] = agenda[w]
                \/ \E call : /\ call \in Seq(Ops) /\ agenda'[w] = call \o <<AfterOp(cur[w])>>
                             /\ \A i \in 1..Len(call) :
                                   call[i].s = cur[w] /\ call[i].op \in {"emit", "seqNext", "takeNext", "close"}
  <2>1. PICK s : s = cur[w]
    OBVIOUS
  <2>2. s \in Streams /\ s \in C /\ tasks[s] \in Seq(Tasks) /\ tasks[s] # <<>>
    <3>1. s \in Streams
      BY <1>7, <2>1 DEF Drain, Typed, HoldsStream
    <3> QED BY <1>2, <1>7, <2>1, <3>1, NullAssumption DEF Drain, Ready, Typed, TypeOK, QueuesOK
  <2>3. PICK call : call = IF Head(tasks[s]).f = "close" THEN <<CloseOp(s)>>
                           ELSE StartFunc(s, kind[s], n[s], limit[s], Head(tasks[s]).d)
    OBVIOUS
  <2>4. kind[s] \in Kinds /\ n[s] \in Int /\ limit[s] \in Nat /\ Head(tasks[s]).d \in Data
    <3>1. Head(tasks[s]) \in Tasks
      BY <2>2
    <3> QED BY <2>2, <3>1 DEF Typed, TypeOK, StreamsOK, Tasks
  <2>5. /\ call \in Seq(Ops)
        /\ \A i \in 1..Len(call) : call[i].s = s /\ call[i].op \in {"emit", "seqNext", "takeNext", "close"}
    <3>1. call = StartFunc(s, kind[s], n[s], limit[s], Head(tasks[s]).d) \/ call = <<CloseOp(s)>>
      BY <2>3
    <3> QED BY <2>2, <2>4, <3>1, CallbackSteps
  <2>6. agenda' = agenda \/ agenda' = [agenda EXCEPT ![w] = call \o <<AfterOp(s)>>]
    BY <1>7, <2>1, <2>3 DEF Drain
  <2>7. agenda'[w] = agenda[w] \/ agenda'[w] = call \o <<AfterOp(s)>>
    BY <2>6 DEF Typed, TypeOK, AgendasOK, Threads
  <2> QED BY <1>7, <2>1, <2>2, <2>5, <2>7 DEF Drain
<1>8. agenda'[w] \in Seq(Allowed(w, C)')
  <2>1. agenda[w] \in Seq(Allowed(w, C))
    BY <1>2 DEF Ready, Threads
  <2>2. CASE ~Drain(w)
    <3>1. CASE cur' = cur
      <4>1. Allowed(w, C)' = Allowed(w, C)
        BY <1>1, <1>3, <3>1 DEF Allowed, Belongs, Created
      <4> QED BY <1>3, <2>1, <2>2, <4>1
    <3>2. CASE agenda[w] = <<>>
      BY <1>3, <2>2, <3>2, Small
    <3> QED BY <1>3, <3>1, <3>2
  <2>3. CASE Drain(w)
    <3>1. Allowed(w, C)' = Allowed(w, C)
      BY <1>1, <1>3, <1>7, <2>3 DEF Allowed, Belongs, Created
    <3>2. ASSUME NEW call \in Seq(Ops),
                 \A i \in 1..Len(call) :
                   call[i].s = cur[w] /\ call[i].op \in {"emit", "seqNext", "takeNext", "close"}
          PROVE  call \o <<AfterOp(cur[w])>> \in Seq(Allowed(w, C))
      <4>1. \A i \in 1..Len(call) : call[i] \in Allowed(w, C)
        <5>1. ASSUME NEW i \in 1..Len(call) PROVE call[i] \in Allowed(w, C)
          <6>1. PICK o : o = call[i]
            OBVIOUS
          <6>2. o \in Ops /\ o.s = cur[w] /\ o.op \in {"emit", "seqNext", "takeNext", "close"}
            BY <3>2, <6>1
          <6>3. o.op \in Own /\ o.op \notin {"push", "addTask"}
            BY <6>2 DEF Own
          <6> QED BY <1>5, <1>7, <2>3, <6>1, <6>2, <6>3 DEF Allowed, Belongs
        <5> QED BY <5>1
      <4>2. call \in Seq(Allowed(w, C))
        BY <4>1, SeqOf
      <4>3. AfterOp(cur[w]) \in Allowed(w, C)
        BY <1>5, <1>7, <2>3, Belong DEF Belonging, Threads
      <4> QED BY <4>2, <4>3, Small
    <3> QED BY <1>7, <2>1, <2>3, <3>1, <3>2
  <2> QED BY <2>2, <2>3
<1>9. Ready(C)'
  <2>1. ASSUME NEW r \in Threads, r # w PROVE agenda'[r] \in Seq(Allowed(r, C)')
    <3>1. agenda[r] \in Seq(Allowed(r, C)) /\ agenda'[r] = agenda[r]
      BY <1>2, <1>6, <2>1 DEF Ready
    <3>2. Allowed(r, C) \subseteq Allowed(r, C)'
      <4>1. r = Main \/ cur'[r] = cur[r]
        BY <1>6, <2>1 DEF Threads
      <4>2. Main # r => cur'[r] = cur[r]
        BY <4>1
      <4>3. Own \cap (Pushing \cup Building) = {}
        BY DEF Own, Pushing, Building
      <4> QED BY <1>1, <1>3, <4>2, <4>3 DEF Allowed, Belongs, Created
    <3> QED BY <3>1, <3>2, SeqLarger
  <2>2. \A v \in Workers : cur'[v] \in C \cup {NoStream}
    BY <1>2, <1>3, <1>4 DEF Ready
  <2>3. C' = C
    BY <1>1, <1>3 DEF Created
  <2> QED BY <1>2, <1>3, <1>4, <1>8, <2>1, <2>2, <2>3 DEF Ready
<1>10. tasks' \in [Streams -> Seq(DataTasks)]
  <2>1. tasks \in [Streams -> Seq(DataTasks)]
    BY DEF Progress
  <2>2. tasks' = tasks \/ (tasks[cur[w]] # <<>> /\ tasks' = [tasks EXCEPT ![cur[w]] = Tail(@)])
    <3>1. CASE Drain(w)
      BY <3>1 DEF Drain
    <3>2. CASE GetStream(w) \/ GetProducer(w) \/ Claim(w) \/ Release(w)
      BY <3>2 DEF GetStream, GetProducer, Claim, Release, streamVars
    <3>3. CASE TaskDone(w) \/ Drained(w) \/ CheckCount(w)
      BY <3>3 DEF TaskDone, Drained, CheckCount, streamVars
    <3> QED BY <3>1, <3>2, <3>3 DEF Loop
  <2>3. \A s \in Streams : tasks[s] # <<>> => Tail(tasks[s]) \in Seq(DataTasks)
    BY <2>1
  <2>4. CASE cur[w] \in Streams
    <3>1. PICK s \in Streams : s = cur[w]
      BY <2>4
    <3> QED BY <2>1, <2>2, <2>3, <3>1
  <2>5. CASE cur[w] \notin Streams
    BY <2>1, <2>2, <2>5
  <2> QED BY <2>4, <2>5
<1> QED BY <1>1, <1>3, <1>6, <1>9, <1>10 DEF Progress, Executed, Linked, Joins, Created

LEMMA StepSent ==
  ASSUME NEW t \in Threads, Step(t), NEW o, o = Head(agenda[t])
  PROVE  o.op # "emit" => sent' = sent
<1>1. Emit(t) => o.op = "emit"
  BY StepNames
<1>2. StreamNew(t) => sent' = sent
  BY DEF StreamNew, historyVars
<1>3. Connect(t) => sent' = sent
  BY DEF Connect, historyVars
<1>4. Ref(t) => sent' = sent
  BY DEF Ref, historyVars
<1>5. Start(t) => sent' = sent
  BY DEF Start, historyVars
<1>6. Push(t) => sent' = sent
  BY DEF Push, historyVars
<1>7. AddTask(t) => sent' = sent
  BY DEF AddTask, historyVars
<1>8. AddStream(t) => sent' = sent
  BY DEF AddStream, historyVars
<1>9. DropDst(t) => sent' = sent
  BY DEF DropDst, historyVars
<1>10. EmitRest(t) => sent' = sent
  BY DEF EmitRest, historyVars
<1>11. TerminationCheck(t) => sent' = sent
  BY DEF TerminationCheck, historyVars
<1>12. Close(t) => sent' = sent
  BY DEF Close, historyVars
<1>13. Kill(t) => sent' = sent
  BY DEF Kill, historyVars
<1>14. CloseDst(t) => sent' = sent
  BY DEF CloseDst, historyVars
<1>15. CloseRest(t) => sent' = sent
  BY DEF CloseRest, historyVars
<1>16. CountDown(t) => sent' = sent
  BY DEF CountDown, historyVars
<1>17. SeqNext(t) => sent' = sent
  BY DEF SeqNext, historyVars
<1>18. TakeNext(t) => sent' = sent
  BY DEF TakeNext, historyVars
<1>19. After(t) => sent' = sent
  BY DEF After, historyVars
<1> QED BY <1>1, <1>2, <1>3, <1>4, <1>5, <1>6, <1>7, <1>8, <1>9, <1>10, <1>11, <1>12, <1>13, <1>14, <1>15, <1>16, <1>17, <1>18, <1>19 DEF Step

LEMMA IdleProgress ==
  ASSUME NEW k \in 0..Len(program), Progress(k), agenda' = agenda, cur' = cur, mode' = mode, dst' = dst, rest' = rest,
         queue' = queue, prodQueue' = prodQueue, tasks' = tasks, program' = program
  PROVE  k \in 0..Len(program') /\ Progress(k)'
<1>1. Executed(k)'
  BY DEF Progress, Executed
<1>2. Linked(k)'
  BY DEF Progress, Linked, Joins
<1>3. Ready(Created(program, k))'
  <2>1. PICK C : C = Created(program, k)
    OBVIOUS
  <2>2. Created(program, k)' = C
    BY <2>1 DEF Created
  <2>3. \A t \in Threads : Allowed(t, C)' = Allowed(t, C')
    BY DEF Allowed, Belongs
  <2>4. C' = C
    BY <2>1, <2>2
  <2>5. Ready(C)
    BY <2>1 DEF Progress
  <2> HIDE DEF Created
  <2>6. Ready(C)'
    BY <2>3, <2>4, <2>5 DEF Ready
  <2> QED BY <2>2, <2>4, <2>6
<1> QED BY <1>1, <1>2, <1>3 DEF Progress

LEMMA ProgressInit ==
  ASSUME Init
  PROVE  0 \in 0..Len(program) /\ Progress(0)
<1>1. program \in Seq(ScriptOps) /\ Len(program) \in Nat /\ program \in Seq(Ops)
  <2>1. program \in Seq(ScriptOps)
    BY SchedulerAssumption DEF Init
  <2>2. ScriptOps \subseteq Ops
    BY DEF ScriptOps
  <2> QED BY <2>1, <2>2, SeqLarger
<1>2. agenda[Main] = program /\ \A t \in Threads : t # Main => agenda[t] = <<>>
  BY DEF Init, Threads
<1>3. Executed(0)
  <2>1. SubSeq(program, 0 + 1, Len(program)) = program
    BY <1>1
  <2>2. <<>> \o program = program
    BY <1>1, Front0
  <2>3. <<>> \in Seq(InnerOps)
    BY Small
  <2>4. PICK p : p = <<>>
    OBVIOUS
  <2>5. agenda[Main] = p \o SubSeq(program, 0 + 1, Len(program)) /\ p \in Seq(InnerOps)
    BY <1>2, <2>1, <2>2, <2>3, <2>4
  <2> QED BY <2>5 DEF Executed
<1>4. Linked(0)
  <2>1. \A u, d \in Streams : ~Hears(dst[u], rest[u], d)
    BY NullAssumption DEF Init, Hears, InSeq
  <2> QED BY <2>1 DEF Linked
<1>5. Ready(Created(program, 0))
  <2>1. PICK C : C = Created(program, 0)
    OBVIOUS
  <2>2. ASSUME NEW o \in ScriptOps PROVE o \in Allowed(Main, C)
    <3>1. o.op \in Building /\ o.op \notin Own /\ o.op \notin {"push", "addTask"} /\ o.op \in {"new", "connect"} /\ o \in Ops
      BY DEF ScriptOps, Building, Own
    <3> QED BY <3>1 DEF Allowed, Belongs
  <2>3. program \in Seq(Allowed(Main, C))
    <3>1. ScriptOps \subseteq Allowed(Main, C)
      BY <2>2
    <3> QED BY <1>1, <3>1, SeqLarger
  <2>4. ASSUME NEW t \in Threads PROVE agenda[t] \in Seq(Allowed(t, C))
    BY <1>2, <2>3, Small
  <2>5. queue \in Seq(C) /\ prodQueue \in Seq(C)
    BY Small DEF Init
  <2>6. /\ \A w \in Workers : cur[w] \in C \cup {NoStream}
        /\ \A s \in Streams : mode[s] # "none" => s \in C
    BY DEF Init
  <2> QED BY <2>1, <2>4, <2>5, <2>6 DEF Ready
<1>6. tasks \in [Streams -> Seq(DataTasks)]
  BY Small DEF Init
<1> QED BY <1>1, <1>3, <1>4, <1>5, <1>6 DEF Progress

-----------------------------------------------------------------------------
(* The connections of the stream that is executed, and of the others.      *)

LEMMA AimHears ==
  ASSUME NEW D, NEW R \in Seq(Streams), NEW e, NEW i, Aim(e, i, D, R)
  PROVE  e \in Streams /\ Hears(D, R, e)
<1>1. CASE i = 0 /\ e = D
  BY <1>1 DEF Aim, Hears
<1>2. CASE i \in 2..(Len(R) + 1) /\ e = R[i - 1]
  <2>1. i - 1 \in 1..Len(R)
    BY <1>2
  <2> QED BY <1>2, <2>1 DEF Aim, Hears, InSeq
<1> QED BY <1>1, <1>2 DEF Aim

LEMMA OnlyJoins ==
  ASSUME NEW u \in Streams, NEW d \in Streams, Only(u, d), NEW v \in Streams,
         NEW k \in 0..Len(program), Joins(v, d, k), Len(program) \in Nat
  PROVE  v = u
<1>1. PICK i \in 1..Len(program) : program[i] = ConnectOp(u, d) /\
         \A j \in 1..Len(program) : program[j].op = "connect" /\ program[j].dst = d => j = i
  BY DEF Only
<1>2. PICK j \in 1..k : program[j] = ConnectOp(v, d)
  BY DEF Joins
<1>3. j \in 1..Len(program) /\ program[j].op = "connect" /\ program[j].dst = d
  BY <1>2 DEF ConnectOp
<1>4. ConnectOp(v, d) = ConnectOp(u, d)
  BY <1>1, <1>2, <1>3
<1> QED BY <1>4 DEF ConnectOp

\* A worker goes on with its stream s.
Goes(w, s, o) ==
  /\ s = cur[w] /\ s \in Streams /\ o = Head(agenda[w]) /\ agenda[w] # <<>> /\ agenda[w] \in Seq(Ops)
  /\ Steps(s) = agenda[w]
  /\ (\A ops : Replaces(w, ops) => Steps(s)' = ops \o Tail(agenda[w]))
  /\ (\A u : u # s => Steps(u)' = Steps(u))
  /\ (o.op # "emit" => sent' = sent)
  /\ Keeps(o) /\ o.op \notin Building /\ (o.op \in Own => o.s = s) /\ rest' = rest
  /\ (\A u \in Streams : u # s => dst'[u] = dst[u] /\ sent'[u] = sent[u])
  /\ (\A d \in Streams : Alive(d)' => Alive(d))
  /\ (\A d \in Streams : Open(d)' => Open(d))

LEMMA StepGoes ==
  ASSUME ExclusiveInv, ExclusiveInv', Places, NEW k \in 0..Len(program), Progress(k),
         NEW w \in Workers, Step(w), NEW s, s = cur[w], NEW o, o = Head(agenda[w])
  PROVE  Goes(w, s, o)
<1>1. Typed /\ IdleAgendas /\ NotBorn
  BY DEF ExclusiveInv, Places
<1>2. Keeps(o) /\ agenda[w] # <<>> /\ w \in Threads
  BY <1>1, StepKeeps, StepFrame DEF Threads
<1>3. pc[w] = "run"
  BY <1>1, <1>2 DEF IdleAgendas
<1>4. pc' = pc /\ cur' = cur
  <2>1. started
    BY <1>1, <1>3 DEF NotBorn
  <2> QED BY <1>1, <1>2, <2>1, StepKeepsPlace
<1>5. s \in Streams /\ agenda[w] \in Seq(Ops)
  BY <1>1, <1>2, <1>3 DEF Typed, HoldsStream, TypeOK, AgendasOK
<1>6. PICK C : C = Created(program, k) /\ Ready(C)
  BY DEF Progress
<1>7. o.op \notin Building /\ (o.op \in Own => o.s = s) /\ o \in Ops /\ o.s \in Streams
  BY <1>1, <1>2, <1>6, WhoSteps, BelongsTop, SchedulerAssumption
<1>8. ASSUME NEW ops, Replaces(w, ops)
      PROVE  /\ Steps(s) = agenda[w] /\ Steps(s)' = ops \o Tail(agenda[w])
             /\ \A u : u # s => Steps(u)' = Steps(u)
  BY <1>1, <1>2, <1>4, <1>8, OwnSteps DEF Replaces
<1>9. \E ops : Replaces(w, ops)
  BY <1>2, StepExecuted, <1>1 DEF Brings
<1>10. Steps(s) = agenda[w] /\ \A u : u # s => Steps(u)' = Steps(u)
  BY <1>8, <1>9
<1>11. rest' = rest /\ o.op # "new"
  BY <1>2, <1>7 DEF Keeps, Building
<1>12. ASSUME NEW u \in Streams, u # s PROVE dst'[u] = dst[u] /\ sent'[u] = sent[u]
  <2>1. dst' = dst \/ dst' = [dst EXCEPT ![s] = NoStream]
    <3>1. o.op = "dropDst" => o.op \in Own
      BY DEF Own
    <3>2. o.op # "connect"
      BY <1>7 DEF Building
    <3> QED BY <1>2, <1>7, <3>1, <3>2 DEF Keeps
  <2>2. sent'[u] = sent[u]
    <3>1. CASE o.op # "emit"
      BY <1>2, <3>1, StepSent
    <3>2. CASE o.op = "emit"
      <4>1. Emit(w)
        BY <1>2, <3>2, StepNames DEF Step
      <4>2. o.s = s
        BY <1>7, <3>2 DEF Own
      <4> QED BY <1>1, <1>12, <4>1, <4>2 DEF Emit, Typed, TypeOK, HistoryOK
    <3> QED BY <3>1, <3>2
  <2> QED BY <1>1, <1>12, <2>1, <2>2 DEF Typed, TypeOK, StreamsOK
<1>13. mode' = mode \/ \E m \in {"dying", "killed"} : mode' = [mode EXCEPT ![s] = m]
  BY <1>2, <1>7, <1>11 DEF Keeps
<1>14. mode \in [Streams -> Modes]
  BY <1>1 DEF Typed, TypeOK, StreamsOK
<1>15. ASSUME NEW d \in Streams PROVE (Alive(d)' => Alive(d)) /\ (Open(d)' => Open(d))
  <2>1. CASE d = s
    BY <1>2, <1>5, <1>10, <1>13, <1>14, <2>1 DEF Alive, Open
  <2>2. CASE d # s
    <3>1. mode'[d] = mode[d] /\ Steps(d)' = Steps(d)
      BY <1>10, <1>13, <1>14, <2>2
    <3> QED BY <3>1 DEF Alive, Open
  <2> QED BY <2>1, <2>2
<1>16. o.op # "emit" => sent' = sent
  BY <1>2, StepSent
<1> QED BY <1>2, <1>5, <1>7, <1>8, <1>10, <1>11, <1>12, <1>15, <1>16 DEF Goes

\* What a step of w does to the queue of d, if d is not aimed at by an element of s.
LEMMA OthersKept ==
  ASSUME Typed, NEW k \in 0..Len(program), Progress(k), NEW w \in Workers, NEW s, NEW o, Goes(w, s, o),
         NEW c, NEW e, NEW i, Emits(s, c, e, i), NEW u \in Streams, u # s,
         NEW cu, NEW eu, NEW iu, Emits(u, cu, eu, iu)
  PROVE  Emits(u, cu, eu, iu)'
<1>1. /\ s \in Streams /\ o = Head(agenda[w]) /\ agenda[w] # <<>> /\ agenda[w] \in Seq(Ops) /\ Steps(s) = agenda[w]
      /\ Keeps(o) /\ rest' = rest /\ w \in Threads
  BY DEF Goes, Threads
<1>2. sent'[u] = sent[u] /\ dst'[u] = dst[u] /\ rest'[u] = rest[u] /\ Steps(u)' = Steps(u)
  BY <1>1 DEF Goes
<1>3. program' = program /\ got' = got
  BY <1>1 DEF Keeps
<1>4. Stage(cu, eu, iu, u, Steps(u), sent[u], dst[u], rest[u])'
  BY <1>2 DEF Emits
<1>5. ASSUME NEW d \in Streams, Only(u, d)' PROVE Passing(u, d, cu, eu, iu)'
  <2>1. Only(u, d)
    BY <1>3, <1>5 DEF Only
  <2>2. Passing(u, d, cu, eu, iu)
    BY <2>1 DEF Emits
  <2>3. tasks'[d] = tasks[d] \/ \E x \in Tasks : x.d = Nil /\ tasks'[d] = Append(tasks[d], x)
    <3>1. CASE tasks' = tasks
      BY <3>1
    <3>2. CASE o.op = "addTask" /\ tasks' = [tasks EXCEPT ![o.s] = Append(@, [f |-> o.f, d |-> o.d])]
      <4>1. o \in Ops /\ o.f \in Funcs /\ o.d \in Data /\ o.s \in Streams
        <5>1. Ready(Created(program, k))
          BY DEF Progress
        <5> QED BY <1>1, <3>2, <5>1, BelongsTop, OpFields
      <4>2. PICK x : x = [f |-> o.f, d |-> o.d]
        OBVIOUS
      <4>3. x \in Tasks /\ x.d = o.d
        BY <4>1, <4>2 DEF Tasks
      <4>4. CASE d # o.s
        BY <3>2, <4>4 DEF Typed, TypeOK, QueuesOK
      <4>5. CASE d = o.s /\ o.d = Nil
        BY <3>2, <4>1, <4>2, <4>3, <4>5 DEF Typed, TypeOK, QueuesOK
      <4>6. CASE d = o.s /\ o.d # Nil
        <5>1. rest[s] \in Seq(Streams) /\ Len(program) \in Nat
          <6>1. program \in Seq(ScriptOps)
            BY SchedulerAssumption DEF Typed, TypeOK, HistoryOK
          <6> QED BY <1>1, <6>1 DEF Typed, TypeOK, StreamsOK
        <5>2. Stage(c, e, i, s, agenda[w], sent[s], dst[s], rest[s])
          BY <1>1 DEF Emits
        <5>3. c = "task" /\ i \in Nat /\ Shape(c, e, i, s, agenda[w], sent[s][Len(sent[s])])
          BY <1>1, <3>2, <4>6, <5>1, <5>2, StageTop
        <5>4. e = d
          BY <1>1, <4>6, <5>3, ShapeTop
        <5>5. Aim(d, i, dst[s], rest[s])
          BY <5>2, <5>3, <5>4 DEF Stage
        <5>6. Hears(dst[s], rest[s], d)
          BY <5>1, <5>5, AimHears
        <5>7. Joins(s, d, k)
          BY <1>1, <5>6 DEF Progress, Linked
        <5> QED BY <1>1, <2>1, <5>1, <5>7, OnlyJoins
      <4> QED BY <4>4, <4>5, <4>6
    <3> QED BY <1>1, <3>1, <3>2 DEF Keeps
  <2>4. (Alive(d)' => Alive(d)) /\ (Open(d)' => Open(d))
    BY DEF Goes
  <2>5. Once(dst[u], rest[u], d)' /\ (Hears(dst[u], rest[u], d) => Hears(dst[u], rest[u], d)')
    BY <1>2, <2>2 DEF Passing, Once, Hears, InSeq
  <2> QED BY <1>2, <1>3, <2>2, <2>3, <2>4, <2>5, PassingKept
<1> QED BY <1>4, <1>5 DEF Emits

\* A step of s itself: the new stage, and each connection.
LEMMA OwnEmits ==
  ASSUME NEW u \in Streams, program' = program, NEW c, NEW e, NEW i,
         Stage(c, e, i, u, Steps(u)', sent'[u], dst'[u], rest'[u]),
         \A d \in Streams : Only(u, d) => Passing(u, d, c, e, i)'
  PROVE  Emits(u, c, e, i)'
  BY DEF Emits, Only

\* The queues stay as they are, or get a task that brings nothing.
Quiescent(d) == tasks'[d] = tasks[d] \/ \E x \in Tasks : x.d = Nil /\ tasks'[d] = Append(tasks[d], x)

LEMMA OwnKept ==
  ASSUME Typed, NEW w \in Workers, NEW s, NEW o, Goes(w, s, o), NEW c, NEW e, NEW i, Emits(s, c, e, i),
         sent'[s] = sent[s], dst'[s] = dst[s], NEW d \in Streams, Only(s, d), Quiescent(d),
         NEW c2, NEW e2, NEW i2,
         Open(d)' => Flies(c2, e2, i2, rest[s], d) = Flies(c, e, i, rest[s], d),
         Adds(c2, e2, d) => Adds(c, e, d) \/ (Open(d) /\ Flies(c, e, i, rest[s], d))
  PROVE  Passing(s, d, c2, e2, i2)'
<1>1. s \in Streams /\ Keeps(o) /\ rest' = rest
  BY DEF Goes
<1>2. got' = got
  BY <1>1 DEF Keeps
<1>3. Passing(s, d, c, e, i)
  BY DEF Emits
<1>4. (Alive(d)' => Alive(d)) /\ (Open(d)' => Open(d))
  BY DEF Goes
<1>5. Once(dst[s], rest[s], d)' /\ (Hears(dst[s], rest[s], d) => Hears(dst[s], rest[s], d)')
  BY <1>1, <1>3 DEF Passing, Once, Hears, InSeq
<1> QED BY <1>1, <1>2, <1>3, <1>4, <1>5, PassingKept DEF Quiescent

LEMMA QuietQueues ==
  ASSUME Typed, NEW w \in Workers, NEW s, NEW o, Goes(w, s, o), o.op = "addTask" => o.d = Nil
  PROVE  \A d \in Streams : Quiescent(d)
<1>1. Keeps(o) /\ o = Head(agenda[w]) /\ agenda[w] # <<>> /\ agenda[w] \in Seq(Ops)
  BY DEF Goes
<1>2. CASE tasks' = tasks
  BY <1>2 DEF Quiescent
<1>3. CASE o.op = "addTask" /\ tasks' = [tasks EXCEPT ![o.s] = Append(@, [f |-> o.f, d |-> o.d])]
  <2>1. o.f \in Funcs /\ o.d \in Data /\ o.s \in Streams
    <3>1. o \in Ops
      BY <1>1, HeadTail
    <3> QED BY <1>3, <3>1, OpFields
  <2>2. PICK x : x = [f |-> o.f, d |-> o.d]
    OBVIOUS
  <2>3. x \in Tasks /\ x.d = Nil
    BY <1>3, <2>1, <2>2 DEF Tasks
  <2>4. tasks' = [tasks EXCEPT ![o.s] = Append(tasks[o.s], x)]
    BY <1>3, <2>2
  <2> QED BY <2>1, <2>3, <2>4 DEF Quiescent, Typed, TypeOK, QueuesOK
<1> QED BY <1>1, <1>2, <1>3 DEF Keeps

-----------------------------------------------------------------------------
(* The steps of the stream that is executed.                               *)

LEMMA CleanSmall ==
  /\ Clean(<<>>)
  /\ \A o : Light(o) => Clean(<<o>>)
  /\ \A o, p : Light(o) /\ Light(p) => Clean(<<o, p>>)
  /\ \A o, p, q : Light(o) /\ Light(p) /\ Light(q) => Clean(<<o, p, q>>)
<1>1. Clean(<<>>)
  BY DEF Clean
<1>2. ASSUME NEW o, Light(o) PROVE Clean(<<o>>)
  <2>1. Len(<<o>>) = 1 /\ <<o>>[1] = o
    OBVIOUS
  <2>2. \A i \in 1..1 : i = 1
    OBVIOUS
  <2> QED BY <1>2, <2>1, <2>2 DEF Clean
<1>3. ASSUME NEW o, NEW p, Light(o), Light(p) PROVE Clean(<<o, p>>)
  <2>1. Len(<<o, p>>) = 2 /\ <<o, p>>[1] = o /\ <<o, p>>[2] = p
    OBVIOUS
  <2>2. \A i \in 1..2 : i = 1 \/ i = 2
    OBVIOUS
  <2> QED BY <1>3, <2>1, <2>2 DEF Clean
<1>4. ASSUME NEW o, NEW p, NEW q, Light(o), Light(p), Light(q) PROVE Clean(<<o, p, q>>)
  <2>1. Len(<<o, p, q>>) = 3 /\ <<o, p, q>>[1] = o /\ <<o, p, q>>[2] = p /\ <<o, p, q>>[3] = q
    OBVIOUS
  <2>2. \A i \in 1..3 : i = 1 \/ i = 2 \/ i = 3
    OBVIOUS
  <2> QED BY <1>4, <2>1, <2>2 DEF Clean
<1> QED BY <1>1, <1>2, <1>3, <1>4

LEMMA LightSteps ==
  ASSUME NEW s
  PROVE  /\ \A f : Light(PushOp(s, f, Nil)) /\ Light(AddTaskOp(s, f, Nil))
         /\ Light(AddStreamOp(s)) /\ Light(CloseOp(s)) /\ Light(CloseDstOp(s)) /\ Light(CountDownOp(s))
         /\ Light(AfterOp(s))
         /\ \A m : Light(KillOp(s, m)) /\ Light(CheckOp(s, m)) /\ Light(CloseRestOp(s, m))
         /\ \A d, b : Light(EmitOp(s, d, b))
<1>1. \A f : Light(PushOp(s, f, Nil)) /\ Light(AddTaskOp(s, f, Nil))
  BY DEF Light, PushOp, AddTaskOp
<1>2. Light(AddStreamOp(s)) /\ Light(CloseOp(s)) /\ Light(CloseDstOp(s)) /\ Light(CountDownOp(s)) /\ Light(AfterOp(s))
  BY DEF Light, AddStreamOp, CloseOp, CloseDstOp, CountDownOp, AfterOp
<1>3. \A m : Light(KillOp(s, m)) /\ Light(CheckOp(s, m)) /\ Light(CloseRestOp(s, m))
  BY DEF Light, KillOp, CheckOp, CloseRestOp
<1>4. \A d, b : Light(EmitOp(s, d, b))
  BY DEF Light, EmitOp
<1> QED BY <1>1, <1>2, <1>3, <1>4

\* The next step gives way to steps that pass no element on.
Quietly(w) == \E ops \in Seq(Ops) : Clean(ops) /\ Replaces(w, ops)

LEMMA QuietlyTo ==
  ASSUME NEW w
  PROVE  /\ Replaces(w, <<>>) => Quietly(w)
         /\ \A o \in Ops : Light(o) /\ Replaces(w, <<o>>) => Quietly(w)
         /\ \A o, p \in Ops : Light(o) /\ Light(p) /\ Replaces(w, <<o, p>>) => Quietly(w)
  BY CleanSmall, Small DEF Quietly

\* The element that an emission passes on, unless the stream is dying.
Passes(w) == Head(agenda[w]).op = "emit" /\ Head(agenda[w]).d # Nil /\ mode[Head(agenda[w]).s] # "dying"

LEMMA QuietSteps ==
  ASSUME Typed, NEW w \in Threads, Step(w), Head(agenda[w]).op \notin Building, Light(Head(agenda[w])), ~Passes(w)
  PROVE  Quietly(w)
<1>a. PICK o : o = Head(agenda[w])
  OBVIOUS
<1>b. o \in Ops /\ o.s \in Streams /\ Nil \in Data /\ {"start", "close"} \subseteq Funcs
  <2>1. o \in Ops
    BY <1>a, StepFrame, HeadTail DEF Typed, TypeOK, AgendasOK
  <2> QED BY <2>1, OpFields DEF Data, Funcs
<1>1. CASE StreamNew(w) \/ Connect(w) \/ Ref(w) \/ Start(w)
  BY <1>1, StepNames DEF Building
<1>2. CASE Push(w)
  <2>1. o.op = "push" /\ o.d = Nil /\ o.f \in Funcs
    BY <1>2, <1>a, <1>b, StepNames, OpFields DEF Light
  <2>2. Replaces(w, <<>>) \/ Replaces(w, <<AddTaskOp(o.s, o.f, Nil), AddStreamOp(o.s)>>)
    BY <1>2, <1>a, <2>1, Continues DEF Push, TaskAdd
  <2> QED BY <1>b, <2>1, <2>2, QuietlyTo, OpTypes, LightSteps
<1>3. CASE AddTask(w) \/ AddStream(w) \/ DropDst(w) \/ CountDown(w) \/ SeqNext(w)
  BY <1>3, QuietlyTo, Continues DEF AddTask, AddStream, DropDst, CountDown, SeqNext
<1>4. CASE EmitRest(w)
  BY <1>4, <1>a, StepNames DEF Light
<1>5. CASE Emit(w)
  <2>1. o.d = Nil \/ mode[o.s] = "dying"
    BY <1>5, <1>a, StepNames DEF Passes
  <2>2. Replaces(w, <<>>) \/ Replaces(w, <<PushOp(o.s, "start", Nil)>>)
    BY <1>5, <1>a, <2>1, Continues DEF Emit
  <2> QED BY <1>b, <2>2, QuietlyTo, OpTypes, LightSteps
<1>6. CASE TerminationCheck(w)
  <2>1. Replaces(w, <<>>) \/ Replaces(w, <<PushOp(o.s, "start", Nil)>>)
    BY <1>6, <1>a, Continues DEF TerminationCheck
  <2> QED BY <1>b, <2>1, QuietlyTo, OpTypes, LightSteps
<1>7. CASE Close(w)
  <2>1. Replaces(w, <<>>) \/ Replaces(w, <<KillOp(o.s, mode[o.s])>>)
    BY <1>7, <1>a, Continues DEF Close
  <2>2. mode[o.s] \in Modes
    BY <1>b DEF Typed, TypeOK, StreamsOK
  <2> QED BY <1>b, <2>1, <2>2, QuietlyTo, OpTypes, LightSteps
<1>8. CASE Kill(w)
  <2>1. PICK q, z : q = CloseFunc(o.s, kind[o.s], got[o.s]) /\ z = <<CloseDstOp(o.s), CloseRestOp(o.s, 1), CountDownOp(o.s)>>
    OBVIOUS
  <2>2. Replaces(w, <<>>) \/ (~CloseFails(kind[o.s], got[o.s]) /\ Replaces(w, q \o z))
    BY <1>8, <1>a, <2>1, Continues DEF Kill
  <2>3. ASSUME ~CloseFails(kind[o.s], got[o.s]) PROVE q \in Seq(Ops) /\ Clean(q)
    <3>1. kind[o.s] \in Kinds /\ got[o.s] \in Seq(Data)
      BY <1>b DEF Typed, TypeOK, StreamsOK, HistoryOK
    <3>2. q \in Seq(Ops) /\ \A i \in 1..Len(q) : \E d \in Data : q[i] = EmitOp(o.s, d, FALSE)
      BY <1>b, <2>1, <2>3, <3>1, CloseFuncEmits
    <3>3. \A i \in 1..Len(q) : Light(q[i])
      BY <3>2, LightSteps
    <3> QED BY <3>2, <3>3 DEF Clean
  <2>4. z \in Seq(Ops) /\ Clean(z)
    <3>1. PICK x, y, v : x = CloseDstOp(o.s) /\ y = CloseRestOp(o.s, 1) /\ v = CountDownOp(o.s)
      OBVIOUS
    <3>2. x \in Ops /\ y \in Ops /\ v \in Ops
      <4>1. 1 \in Nat \ {0}
        OBVIOUS
      <4> QED BY <1>b, <3>1, <4>1, OpTypes
    <3>3. Light(x) /\ Light(y) /\ Light(v)
      BY <3>1, LightSteps
    <3> QED BY <2>1, <3>1, <3>2, <3>3, Small, CleanSmall
  <2>5. ~CloseFails(kind[o.s], got[o.s]) => q \o z \in Seq(Ops) /\ Clean(q \o z)
    BY <2>3, <2>4, Small, CleanJoin
  <2> QED BY <2>2, <2>5, QuietlyTo DEF Quietly
<1>9. CASE CloseDst(w)
  <2>1. Replaces(w, <<>>) \/ (dst[o.s] # NoStream /\ Replaces(w, <<PushOp(dst[o.s], "close", Nil)>>))
    BY <1>9, <1>a, Continues DEF CloseDst
  <2>2. dst[o.s] # NoStream => dst[o.s] \in Streams
    BY <1>b DEF Typed, TypeOK, StreamsOK
  <2> QED BY <1>b, <2>1, <2>2, QuietlyTo, OpTypes, LightSteps
<1>10. CASE CloseRest(w)
  <2>1. \/ Replaces(w, <<>>)
        \/ /\ ~(o.i > Len(rest[o.s]))
           /\ Replaces(w, <<PushOp(rest[o.s][o.i], "close", Nil), CloseRestOp(o.s, o.i + 1)>>)
    BY <1>10, <1>a, Continues DEF CloseRest
  <2>2. o.i \in Nat \ {0} /\ o.i + 1 \in Nat \ {0}
    <3>1. o.i \in Nat \ {0}
      BY <1>10, <1>a, <1>b, StepNames, OpFields
    <3> QED BY <3>1
  <2>3. ~(o.i > Len(rest[o.s])) => rest[o.s][o.i] \in Streams
    <3>1. rest[o.s] \in Seq(Streams)
      BY <1>b DEF Typed, TypeOK, StreamsOK
    <3> QED BY <2>2, <3>1, ElementTyped
  <2> QED BY <1>b, <2>1, <2>2, <2>3, QuietlyTo, OpTypes, LightSteps
<1>11. CASE TakeNext(w)
  <2>1. Replaces(w, <<>>) \/ Replaces(w, <<CloseOp(o.s)>>)
    BY <1>11, <1>a, Continues DEF TakeNext
  <2> QED BY <1>b, <2>1, QuietlyTo, OpTypes, LightSteps
<1>12. CASE After(w)
  <2>1. Replaces(w, <<>>) \/ Replaces(w, <<CloseOp(o.s)>>)
    BY <1>12, <1>a, Continues DEF After
  <2> QED BY <1>b, <2>1, QuietlyTo, OpTypes, LightSteps
<1> QED BY <1>1, <1>2, <1>3, <1>4, <1>5, <1>6, <1>7, <1>8, <1>9, <1>10, <1>11, <1>12 DEF Step

\* Sizes and types of what belongs to s.
LEMMA OwnTypes ==
  ASSUME Typed, NEW s \in Streams
  PROVE  /\ dst[s] \in Streams \union {NoStream} /\ rest[s] \in Seq(Streams) /\ sent[s] \in Seq(Data)
         /\ mode[s] \in Modes /\ Len(rest[s]) \in Nat
BY DEF Typed, TypeOK, StreamsOK, HistoryOK

LEMMA OwnQuiet ==
  ASSUME Typed, NEW w \in Workers, NEW s, NEW o, Goes(w, s, o), Step(w), NEW e, NEW i,
         Emits(s, "clean", e, i), ~Passes(w)
  PROVE  Emits(s, "clean", e, i)'
<1>1. /\ s \in Streams /\ o = Head(agenda[w]) /\ agenda[w] # <<>> /\ agenda[w] \in Seq(Ops)
      /\ Steps(s) = agenda[w] /\ Keeps(o) /\ o.op \notin Building /\ w \in Threads
  BY DEF Goes, Threads
<1>2. Clean(agenda[w])
  BY <1>1 DEF Emits, Stage
<1>3. Light(o)
  BY <1>1, <1>2, CleanTail
<1>4. PICK ops \in Seq(Ops) : Clean(ops) /\ Replaces(w, ops)
  BY <1>1, <1>3, QuietSteps DEF Quietly
<1>5. Steps(s)' = ops \o Tail(agenda[w])
  BY <1>4 DEF Goes
<1>6. Stage("clean", e, i, s, Steps(s)', sent'[s], dst'[s], rest'[s])
  BY <1>1, <1>2, <1>4, <1>5, StageClean
<1>7. dst'[s] = dst[s]
  <2>1. o.op \notin {"dropDst", "connect"}
    BY <1>1, <1>3 DEF Light, Building
  <2> QED BY <1>1, <2>1 DEF Keeps
<1>8. sent'[s] = sent[s]
  <2>1. CASE o.op # "emit"
    BY <2>1 DEF Goes
  <2>2. CASE o.op = "emit"
    <3>1. Emit(w)
      BY <1>1, <2>2, StepNames DEF Step
    <3>2. o.s = s
      BY <2>2 DEF Goes, Own
    <3>3. mode[s] = "dying" \/ o.d = Nil
      BY <1>1, <2>2, <3>2 DEF Passes
    <3> QED BY <1>1, <3>1, <3>2, <3>3 DEF Emit, Typed, TypeOK, HistoryOK
  <2> QED BY <2>1, <2>2
<1>9. o.op = "addTask" => o.d = Nil
  BY <1>3 DEF Light
<1>10. ASSUME NEW d \in Streams, Only(s, d) PROVE Passing(s, d, "clean", e, i)'
  <2>1. Quiescent(d)
    BY <1>9, QuietQueues
  <2> QED BY <1>7, <1>8, <1>10, <2>1, OwnKept
<1> QED BY <1>1, <1>6, <1>10, OwnEmits DEF Keeps

\* What the others than push, emit and connect do to the stage: it moves, to c2, and
\* the same elements are flying.
LEMMA OwnMoves ==
  ASSUME Typed, NEW w \in Workers, NEW s, NEW o, Goes(w, s, o), NEW c, NEW e, NEW i, Emits(s, c, e, i),
         o.op \in {"push", "addStream", "emitRest"}, NEW c2, NEW e2, NEW i2,
         Stage(c2, e2, i2, s, Steps(s)', sent[s], dst[s], rest[s]),
         \A d \in Streams : Open(d) => Flies(c2, e2, i2, rest[s], d) = Flies(c, e, i, rest[s], d),
         \A d \in Streams : Adds(c2, e2, d) => Open(d) /\ Flies(c, e, i, rest[s], d)
  PROVE  Emits(s, c2, e2, i2)'
<1>1. s \in Streams /\ Keeps(o) /\ rest' = rest /\ o.op \notin Building /\ sent' = sent
  BY DEF Goes
<1>2. dst' = dst
  BY <1>1 DEF Keeps, Building
<1>3. ASSUME NEW d \in Streams, Only(s, d) PROVE Passing(s, d, c2, e2, i2)'
  <2>1. Quiescent(d)
    BY QuietQueues
  <2>2. Open(d)' => Open(d)
    BY DEF Goes
  <2> QED BY <1>1, <1>2, <1>3, <2>1, <2>2, OwnKept
<1> QED BY <1>1, <1>2, <1>3, OwnEmits DEF Keeps

LEMMA OwnPush ==
  ASSUME Typed, NEW w \in Workers, NEW s, NEW o, Goes(w, s, o), Push(w), NEW e, NEW i, Emits(s, "push", e, i)
  PROVE  \E c2 : Emits(s, c2, e, i)'
<1>1. /\ s \in Streams /\ o = Head(agenda[w]) /\ agenda[w] # <<>> /\ agenda[w] \in Seq(Ops)
      /\ Steps(s) = agenda[w] /\ o.op = "push"
  BY StepNames DEF Goes
<1>2. Stage("push", e, i, s, agenda[w], sent[s], dst[s], rest[s])
  BY <1>1 DEF Emits
<1>3. /\ o.s = e /\ o.d = sent[s][Len(sent[s])] /\ o.f = "start" /\ e \in Streams
  <2>1. rest[s] \in Seq(Streams)
    BY <1>1, OwnTypes
  <2>2. i \in Nat /\ Shape("push", e, i, s, agenda[w], sent[s][Len(sent[s])])
    BY <1>1, <1>2, <2>1, StageTop
  <2>3. e \in Streams
    BY <1>2 DEF Stage, Aim
  <2> QED BY <1>1, <2>2, <2>3, ShapeTop
<1>4. CASE mode[e] \in {"killed", "dying"}
  <2>1. Replaces(w, <<>>)
    BY <1>1, <1>3, <1>4, Continues DEF Push
  <2>2. Steps(s)' = <<>> \o Tail(agenda[w])
    BY <2>1 DEF Goes
  <2>3. Steps(s)' = Tail(agenda[w])
    BY <1>1, <2>2, HeadTail, Front0
  <2>4. Stage("send", e, i, s, Steps(s)', sent[s], dst[s], rest[s])
    BY <1>1, <1>2, <2>3, StagePush
  <2>5. \A d \in Streams : Open(d) => Flies("send", e, i, rest[s], d) = Flies("push", e, i, rest[s], d)
    <3>1. \A d \in Streams : Open(d) => e # d
      BY <1>4 DEF Open
    <3> QED BY <1>1, <3>1, FliesMoves, OwnTypes
  <2>6. \A d \in Streams : ~Adds("send", e, d)
    BY DEF Adds
  <2> QED BY <1>1, <2>4, <2>5, <2>6, OwnMoves
<1>5. CASE mode[e] \notin {"killed", "dying"}
  <2>1. Replaces(w, TaskAdd(e, "start", sent[s][Len(sent[s])]))
    BY <1>1, <1>3, <1>5, Continues DEF Push
  <2>2. Steps(s)' = TaskAdd(e, "start", sent[s][Len(sent[s])]) \o Tail(agenda[w])
    BY <2>1 DEF Goes
  <2>3. Stage("task", e, i, s, Steps(s)', sent[s], dst[s], rest[s])
    BY <1>1, <1>2, <2>2, StagePush
  <2>4. \A d \in Streams : Flies("task", e, i, rest[s], d) = Flies("push", e, i, rest[s], d)
    BY <1>1, FliesMoves, OwnTypes
  <2>5. \A d \in Streams : Adds("task", e, d) => Open(d) /\ Flies("push", e, i, rest[s], d)
    BY <1>5 DEF Adds, Open, Flies
  <2> QED BY <1>1, <2>3, <2>4, <2>5, OwnMoves
<1> QED BY <1>4, <1>5

LEMMA OwnStream ==
  ASSUME Typed, NEW w \in Workers, NEW s, NEW o, Goes(w, s, o), AddStream(w), NEW e, NEW i, Emits(s, "stream", e, i)
  PROVE  Emits(s, "send", e, i)'
<1>1. /\ s \in Streams /\ o = Head(agenda[w]) /\ agenda[w] # <<>> /\ agenda[w] \in Seq(Ops)
      /\ Steps(s) = agenda[w] /\ o.op = "addStream"
  BY StepNames DEF Goes
<1>2. Stage("stream", e, i, s, agenda[w], sent[s], dst[s], rest[s])
  BY <1>1 DEF Emits
<1>3. Steps(s)' = Tail(agenda[w])
  <2>1. Replaces(w, <<>>)
    BY Continues DEF AddStream
  <2>2. Steps(s)' = <<>> \o Tail(agenda[w])
    BY <2>1 DEF Goes
  <2> QED BY <1>1, <2>2, HeadTail, Front0
<1>4. Stage("send", e, i, s, Steps(s)', sent[s], dst[s], rest[s])
  BY <1>1, <1>2, <1>3, StageStream
<1>5. \A d \in Streams : Flies("send", e, i, rest[s], d) = Flies("stream", e, i, rest[s], d) /\ ~Adds("send", e, d)
  BY <1>1, FliesMoves, OwnTypes DEF Adds
<1> QED BY <1>1, <1>4, <1>5, OwnMoves

LEMMA OwnRest ==
  ASSUME Typed, NEW w \in Workers, NEW s, NEW o, Goes(w, s, o), EmitRest(w), NEW e, NEW i, Emits(s, "send", e, i)
  PROVE  \E c2, e2, i2 : Emits(s, c2, e2, i2)'
<1>1. /\ s \in Streams /\ o = Head(agenda[w]) /\ agenda[w] # <<>> /\ agenda[w] \in Seq(Ops)
      /\ Steps(s) = agenda[w] /\ o.op = "emitRest" /\ o.s = s
  BY StepNames DEF Goes, Own
<1>2. Stage("send", e, i, s, agenda[w], sent[s], dst[s], rest[s])
  BY <1>1 DEF Emits
<1>4. rest[s] \in Seq(Streams) /\ sent[s] \in Seq(Data)
  BY <1>1, OwnTypes
<1>5. /\ i \in Nat \ {0} /\ o.i = i /\ o.d = sent[s][Len(sent[s])]
      /\ i > Len(rest[s]) => Stage("clean", e, i, s, Tail(agenda[w]), sent[s], dst[s], rest[s])
      /\ ~(i > Len(rest[s])) =>
           Stage("push", rest[s][i], i + 1, s,
                 <<PushOp(rest[s][i], "start", sent[s][Len(sent[s])]), EmitRestOp(s, sent[s][Len(sent[s])], i + 1)>>
                   \o Tail(agenda[w]), sent[s], dst[s], rest[s])
  BY <1>1, <1>2, <1>4, StageRest
<1>a. i \in Nat /\ i > 0
  BY <1>5
<1>6. CASE i > Len(rest[s])
  <2>1. Replaces(w, <<>>)
    BY <1>1, <1>5, <1>6, Continues DEF EmitRest
  <2>2. Steps(s)' = <<>> \o Tail(agenda[w])
    BY <2>1 DEF Goes
  <2>3. Steps(s)' = Tail(agenda[w])
    BY <1>1, <2>2, HeadTail, Front0
  <2>4. ASSUME NEW d \in Streams
        PROVE  Flies("clean", e, i, rest[s], d) = Flies("send", e, i, rest[s], d) /\ ~Adds("clean", e, d)
    <3>1. ~Flies("send", e, i, rest[s], d)
      BY <1>4, <1>a, <1>6, FliesRest
    <3>2. ~Flies("clean", e, i, rest[s], d) /\ ~Adds("clean", e, d)
      BY DEF Flies, Adds
    <3> QED BY <3>1, <3>2 DEF Flies
  <2>6. Stage("clean", e, i, s, Steps(s)', sent[s], dst[s], rest[s])
    BY <1>5, <1>6, <2>3
  <2>7. Emits(s, "clean", e, i)'
    BY <1>1, <2>4, <2>6, OwnMoves
  <2> QED BY <2>7
<1>7. CASE ~(i > Len(rest[s]))
  <2>0. PICK f, p : /\ f = rest[s][i]
                    /\ p = <<PushOp(f, "start", sent[s][Len(sent[s])]), EmitRestOp(s, sent[s][Len(sent[s])], i + 1)>>
    OBVIOUS
  <2>1. Replaces(w, p)
    BY <1>1, <1>5, <1>7, <2>0, Continues DEF EmitRest
  <2>2. Steps(s)' = p \o Tail(agenda[w])
    BY <2>1 DEF Goes
  <2>3. ASSUME NEW d \in Streams
        PROVE  Flies("push", f, i + 1, rest[s], d) = Flies("send", e, i, rest[s], d) /\ ~Adds("push", f, d)
    <3>1. Flies("push", f, i + 1, rest[s], d) = Flies("send", e, i, rest[s], d)
      BY <1>4, <1>a, <1>7, <2>0, FliesRest
    <3> QED BY <3>1 DEF Adds
  <2>5. Stage("push", f, i + 1, s, Steps(s)', sent[s], dst[s], rest[s])
    BY <1>5, <1>7, <2>0, <2>2
  <2>6. Emits(s, "push", f, i + 1)'
    BY <1>1, <2>3, <2>5, OwnMoves
  <2> QED BY <2>6
<1> QED BY <1>6, <1>7

LEMMA OwnTask ==
  ASSUME Typed, NEW w \in Workers, NEW s, NEW o, Goes(w, s, o), AddTask(w), NEW e, NEW i, Emits(s, "task", e, i)
  PROVE  Emits(s, "stream", e, i)'
<1>1. /\ s \in Streams /\ o = Head(agenda[w]) /\ agenda[w] # <<>> /\ agenda[w] \in Seq(Ops)
      /\ Steps(s) = agenda[w] /\ o.op = "addTask" /\ Keeps(o) /\ rest' = rest /\ sent' = sent /\ o.op \notin Building
  BY StepNames DEF Goes
<1>2. Stage("task", e, i, s, agenda[w], sent[s], dst[s], rest[s])
  BY <1>1 DEF Emits
<1>3. rest[s] \in Seq(Streams) /\ sent[s] \in Seq(Data)
  BY <1>1, OwnTypes
<1>4. dst' = dst /\ got' = got
  BY <1>1 DEF Keeps, Building
<1>5. /\ o.s = e /\ o.d = sent[s][Len(sent[s])] /\ o.f = "start" /\ Aim(e, i, dst[s], rest[s]) /\ e \in Streams
      /\ sent[s] # <<>> /\ o.d # Nil /\ o.d \in Data
  <2>1. i \in Nat /\ Shape("task", e, i, s, agenda[w], sent[s][Len(sent[s])])
    BY <1>1, <1>2, <1>3, StageTop
  <2>2. Aim(e, i, dst[s], rest[s]) /\ e \in Streams /\ sent[s] # <<>> /\ sent[s][Len(sent[s])] # Nil
    BY <1>2 DEF Stage, Aim
  <2>3. o \in Ops
    BY <1>1, HeadTail
  <2> QED BY <1>1, <2>1, <2>2, <2>3, ShapeTop, OpFields
<1>6. Steps(s)' = Tail(agenda[w])
  <2>1. Replaces(w, <<>>)
    BY Continues DEF AddTask
  <2>2. Steps(s)' = <<>> \o Tail(agenda[w])
    BY <2>1 DEF Goes
  <2> QED BY <1>1, <2>2, HeadTail, Front0
<1>7. Stage("stream", e, i, s, Steps(s)', sent'[s], dst'[s], rest'[s])
  BY <1>1, <1>2, <1>4, <1>6, StageTask
<1>8. PICK x : x = [f |-> o.f, d |-> o.d]
  OBVIOUS
<1>9. x \in Tasks /\ x.d = o.d
  BY <1>5, <1>8 DEF Tasks, Funcs
<1>10. tasks'[e] = Append(tasks[e], x) /\ \A d \in Streams : d # e => tasks'[d] = tasks[d]
  <2>1. tasks' = [tasks EXCEPT ![e] = Append(tasks[e], x)]
    BY <1>1, <1>5, <1>8 DEF AddTask
  <2>2. tasks \in [Streams -> Seq(Tasks)]
    BY DEF Typed, TypeOK, QueuesOK
  <2> QED BY <1>5, <2>1, <2>2
<1>11. ASSUME NEW d \in Streams, Only(s, d) PROVE Passing(s, d, "stream", e, i)'
  <2>1. Passing(s, d, "task", e, i)
    BY <1>11 DEF Emits
  <2>2. CASE d # e
    <3>1. Quiescent(d)
      BY <1>10, <2>2 DEF Quiescent
    <3>2. Flies("stream", e, i, rest[s], d) = Flies("task", e, i, rest[s], d)
      BY <1>3, <2>2, FliesMoves
    <3>3. ~Adds("stream", e, d)
      BY DEF Adds
    <3> QED BY <1>1, <1>4, <1>11, <3>1, <3>2, <3>3, OwnKept
  <2>3. CASE d = e
    <3>1. Once(dst[s], rest[s], d)' /\ Hears(dst[s], rest[s], d)' /\ Once(dst[s], rest[s], d)
      <4>1. Hears(dst[s], rest[s], d)
        BY <1>3, <1>5, <2>3, AimHears
      <4> QED BY <1>1, <1>4, <2>1, <4>1 DEF Passing, Once, Hears, InSeq
    <3>2. ~Flies("stream", e, i, rest[s], d)
      <4>1. ~Ahead(rest[s], d, i)
        BY <1>3, <1>5, <2>3, <3>1, NotAhead
      <4> QED BY <4>1 DEF Flies
    <3>3. PICK q, g, S, al, op, fl : /\ q = tasks[d] /\ g = got[d] /\ S = sent[s] /\ al = Alive(d) /\ op = Open(d)
                                     /\ fl = Flies("task", e, i, rest[s], d)
      OBVIOUS
    <3>4. q \in Seq(Tasks) /\ g \in Seq(Data) /\ S \in Seq(Data)
      BY <1>3, <3>3 DEF Typed, TypeOK, QueuesOK, HistoryOK
    <3>5. Flow(q, g, S, al, op, fl, TRUE)
      <4>1. Adds("task", e, d) = TRUE
        BY <2>3 DEF Adds
      <4>2. Flow(q, g, S, al, op, fl, Adds("task", e, d))
        BY <2>1, <3>3 DEF Passing
      <4> QED BY <4>1, <4>2
    <3>6. Flow(Append(q, x), g, S, al, op, FALSE, FALSE)
      <4>1. S # <<>> /\ x.d # Nil /\ x.d = S[Len(S)]
        BY <1>5, <1>9, <3>3
      <4> QED BY <1>9, <3>4, <3>5, <4>1, FlowAdd
    <3>7. PICK al2, op2, fl2 : /\ al2 = Alive(d)' /\ op2 = Open(d)' /\ fl2 = Flies("stream", e, i, rest'[s], d)
      OBVIOUS
    <3>8. /\ al \in BOOLEAN /\ op \in BOOLEAN /\ al2 \in BOOLEAN /\ op2 \in BOOLEAN
          /\ fl2 = FALSE /\ (al2 => al) /\ (op2 => op)
      <4>1. fl2 = FALSE
        BY <1>1, <3>2, <3>7 DEF Flies
      <4>2. al \in BOOLEAN /\ op \in BOOLEAN /\ al2 \in BOOLEAN /\ op2 \in BOOLEAN
        BY <3>3, <3>7 DEF Alive, Open
      <4>3. (Alive(d)' => Alive(d)) /\ (Open(d)' => Open(d))
        BY DEF Goes
      <4> QED BY <3>3, <3>7, <4>1, <4>2, <4>3
    <3>9. Flow(Append(q, x), g, S, al2, op2, fl2, FALSE)
      <4>1. PICK p, no : p = Append(q, x) /\ no = FALSE
        OBVIOUS
      <4>2. no \in BOOLEAN /\ Flow(p, g, S, al, op, no, no)
        BY <3>6, <4>1
      <4>3. Flow(p, g, S, al2, op2, no, no)
        <5>1. (al2 => al) /\ (op2 => op /\ no = no) /\ (no => no \/ (op /\ no))
          BY <3>8, <4>1
        <5> QED BY <3>8, <4>2, <5>1, FlowSame
      <4> QED BY <3>8, <4>1, <4>3
    <3>10. Adds("stream", e, d)' = FALSE
      BY DEF Adds
    <3>11. tasks'[d] = Append(q, x) /\ got'[d] = g /\ sent'[s] = S
      BY <1>1, <1>4, <1>10, <2>3, <3>3
    <3> QED BY <3>1, <3>7, <3>9, <3>10, <3>11 DEF Passing
  <2> QED BY <2>2, <2>3
<1> QED BY <1>1, <1>7, <1>11, OwnEmits DEF Keeps

LEMMA OwnDrop ==
  ASSUME Typed, NEW w \in Workers, NEW s, NEW o, Goes(w, s, o), DropDst(w), NEW e, NEW i, Emits(s, "send", e, i)
  PROVE  Emits(s, "send", e, 1)'
<1>1. /\ s \in Streams /\ o = Head(agenda[w]) /\ agenda[w] # <<>> /\ agenda[w] \in Seq(Ops)
      /\ Steps(s) = agenda[w] /\ o.op = "dropDst" /\ Keeps(o) /\ rest' = rest /\ sent' = sent /\ o.s = s
  BY StepNames DEF Goes, Own
<1>2. Stage("send", e, i, s, agenda[w], sent[s], dst[s], rest[s])
  BY <1>1 DEF Emits
<1>3. rest[s] \in Seq(Streams) /\ sent[s] \in Seq(Data) /\ dst[s] \in Streams \union {NoStream}
  BY <1>1, OwnTypes
<1>4. Steps(s)' = Tail(agenda[w])
  <2>1. Replaces(w, <<>>)
    BY Continues DEF DropDst
  <2>2. Steps(s)' = <<>> \o Tail(agenda[w])
    BY <2>1 DEF Goes
  <2> QED BY <1>1, <2>2, HeadTail, Front0
<1>5. i = 0 /\ \A D2 : Stage("send", e, 1, s, Tail(agenda[w]), sent[s], D2, rest[s])
  BY <1>1, <1>2, <1>3, StageDrop
<1>6. Stage("send", e, 1, s, Steps(s)', sent'[s], dst'[s], rest'[s])
  BY <1>1, <1>4, <1>5
<1>7. dst'[s] = dst[s] \/ (dst'[s] = NoStream /\ mode[dst[s]] = "killed")
  BY <1>1 DEF Keeps, Typed, TypeOK, StreamsOK
<1>8. ASSUME NEW d \in Streams, Only(s, d) PROVE Passing(s, d, "send", e, 1)'
  <2>1. Passing(s, d, "send", e, i)
    BY <1>8 DEF Emits
  <2>2. Quiescent(d)
    BY <1>1, QuietQueues
  <2>3. (Alive(d)' => Alive(d)) /\ (Open(d)' => Open(d)) /\ got'[d] = got[d]
    <3>1. (Alive(d)' => Alive(d)) /\ (Open(d)' => Open(d))
      BY DEF Goes
    <3>2. got'[d] = got[d]
      BY <1>1 DEF Keeps
    <3> QED BY <3>1, <3>2
  <2>4. Flies("send", e, 1, rest'[s], d) = Flies("send", e, i, rest[s], d) /\ ~Adds("send", e, d)
    BY <1>1, <1>3, <1>5, FliesRest DEF Adds
  <2>5. Once(dst[s], rest[s], d)'
    BY <1>1, <1>7, <2>1, NullAssumption DEF Passing, Once
  <2>6. Open(d)' /\ Hears(dst[s], rest[s], d) => Hears(dst[s], rest[s], d)'
    BY <1>1, <1>7, <2>3 DEF Hears, Open
  <2> QED BY <1>1, <2>1, <2>2, <2>3, <2>4, <2>5, <2>6, PassingKept DEF Quiescent
<1> QED BY <1>1, <1>6, <1>8, OwnEmits DEF Keeps

\* u emits x: those who listen are to get it, the others miss it.
\* What an emission leaves of a connection, whatever its stage is called.
LEMMA OwnPasses ==
  ASSUME Typed, NEW w \in Workers, NEW s, NEW o, Goes(w, s, o), Emit(w), NEW e, NEW i, Emits(s, "clean", e, i),
         NEW x \in Data, sent'[s] = Append(sent[s], x), NEW d \in Streams, Only(s, d),
         NEW c2, NEW e2, NEW i2, Flies(c2, e2, i2, rest[s], d) = Hears(dst[s], rest[s], d), ~Adds(c2, e2, d)
  PROVE  Passing(s, d, c2, e2, i2)'
<1>1. s \in Streams /\ rest' = rest
  BY DEF Goes
<1>2. dst' = dst /\ tasks' = tasks /\ mode' = mode /\ got' = got
  BY DEF Emit, streamVars
<1>3. Passing(s, d, "clean", e, i)
  BY DEF Emits
<1>4. Once(dst[s], rest[s], d)'
  BY <1>1, <1>2, <1>3 DEF Passing, Once, InSeq
<1>5. Open(d)' /\ ~Hears(dst[s], rest[s], d)' => got'[d] = <<>> /\ Bare(tasks[d])'
  BY <1>1, <1>2, <1>3 DEF Passing, Hears, InSeq, Open, Bare
<1>6. PICK q, g, S : q = tasks[d] /\ g = got[d] /\ S = sent[s]
  OBVIOUS
<1>7. q \in Seq(Tasks) /\ g \in Seq(Data) /\ S \in Seq(Data)
  BY <1>1, <1>6 DEF Typed, TypeOK, QueuesOK, HistoryOK
<1>8. PICK al, op, al2, op2, h, no :
        /\ al = Alive(d) /\ op = Open(d) /\ al2 = Alive(d)' /\ op2 = Open(d)'
        /\ h = Hears(dst[s], rest[s], d) /\ no = FALSE
  OBVIOUS
<1>9. al \in BOOLEAN /\ op \in BOOLEAN /\ al2 \in BOOLEAN /\ op2 \in BOOLEAN /\ h \in BOOLEAN
  BY <1>8 DEF Alive, Open, Hears
<1>10. (al2 => al) /\ (op2 => op)
  <2>1. (Alive(d)' => Alive(d)) /\ (Open(d)' => Open(d))
    BY DEF Goes
  <2> QED BY <1>8, <2>1
<1>11. Flow(q, g, S, al, op, no, no)
  <2>1. Flies("clean", e, i, rest[s], d) = FALSE /\ Adds("clean", e, d) = FALSE
    BY DEF Flies, Adds
  <2>2. Flow(q, g, S, al, op, Flies("clean", e, i, rest[s], d), Adds("clean", e, d))
    BY <1>3, <1>6, <1>8 DEF Passing
  <2> QED BY <1>8, <2>1, <2>2
<1>12. op /\ ~h => g = <<>> /\ Bare(q)
  BY <1>3, <1>6, <1>8 DEF Passing
<1>13. Flow(q, g, Append(S, x), al2, op2, h, no)
  <2>0. no = FALSE
    BY <1>8
  <2> USE <1>7, <1>9, <1>10, <1>11, <1>12, <2>0
  <2>1. PICK T : T = Append(S, x)
    OBVIOUS
  <2>2. no \in BOOLEAN /\ T \in Seq(Data)
    <3>1. T \in Seq(Data)
      BY <2>1
    <3>2. no \in BOOLEAN
      OBVIOUS
    <3> QED BY <3>1, <3>2
  <2>3. CASE ~op
    <3>1. Flow(q, g, T, al, op, h, no)
      <4>1. op = FALSE
        BY <2>3
      <4>2. Flow(q, g, S, al, FALSE, FALSE, FALSE)
        BY <4>1
      <4>3. Flow(q, g, Append(S, x), al, FALSE, h, FALSE)
        BY <4>2, FlowMiss
      <4> QED BY <2>1, <4>1, <4>3
    <3>2. (op2 => op /\ h = h) /\ (no => no \/ (op /\ h))
      OBVIOUS
    <3>3. Flow(q, g, T, al2, op2, h, no)
      BY <2>2, <3>1, <3>2, FlowSame
    <3> QED BY <2>1, <3>3
  <2>4. CASE op
    <3>1. Flow(q, g, T, al, op, h, no)
      <4>1. CASE h
        <5>1. Flow(q, g, S, al, op, FALSE, FALSE)
          OBVIOUS
        <5>2. Flow(q, g, Append(S, x), al, op, TRUE, FALSE)
          BY <5>1, FlowEmit
        <5> QED BY <2>1, <4>1, <5>2
      <4>2. CASE ~h
        <5>1. g = <<>> /\ Bare(q) /\ (no => T # <<>>)
          BY <2>4, <4>2
        <5>2. Flow(q, <<>>, T, al, op, no, FALSE)
          BY <2>2, <5>1, FlowFresh
        <5>3. h = no
          BY <4>2
        <5> QED BY <5>1, <5>2, <5>3
      <4> QED BY <4>1, <4>2
    <3>2. (op2 => op /\ h = h) /\ (no => no \/ (op /\ h))
      OBVIOUS
    <3>3. Flow(q, g, T, al2, op2, h, no)
      BY <2>2, <3>1, <3>2, FlowSame
    <3> QED BY <2>1, <3>3
  <2> QED BY <2>3, <2>4
<1>14. Flow(tasks'[d], got'[d], sent'[s], Alive(d)', Open(d)', Flies(c2, e2, i2, rest'[s], d), Adds(c2, e2, d)')
  <2>1. Flies(c2, e2, i2, rest'[s], d) = h
    BY <1>1, <1>8
  <2>2. Adds(c2, e2, d)' = no
    BY <1>8 DEF Adds
  <2> QED BY <1>2, <1>6, <1>8, <1>13, <2>1, <2>2
<1> QED BY <1>4, <1>5, <1>14 DEF Passing

LEMMA OwnEmit ==
  ASSUME Typed, NEW w \in Workers, NEW s, NEW o, Goes(w, s, o), Emit(w), Passes(w), NEW e, NEW i, Emits(s, "clean", e, i)
  PROVE  \E c2, e2, i2 : Emits(s, c2, e2, i2)'
<1>1. /\ s \in Streams /\ o = Head(agenda[w]) /\ agenda[w] # <<>> /\ agenda[w] \in Seq(Ops)
      /\ Steps(s) = agenda[w] /\ o.op = "emit" /\ o.s = s /\ Keeps(o) /\ rest' = rest
  BY StepNames DEF Goes, Own
<1>2. o \in Ops /\ o.d \in Data /\ o.again \in BOOLEAN /\ o.d # Nil /\ mode[s] # "dying"
  <2>1. o \in Ops
    BY <1>1, HeadTail
  <2> QED BY <1>1, <2>1, OpFields DEF Passes
<1>3. PICK x, y : x = o.d /\ y = CheckOp(s, o.again)
  OBVIOUS
<1>4. y \in Ops /\ Light(y)
  BY <1>1, <1>2, <1>3, OpTypes, LightSteps
<1>5. Clean(agenda[w])
  BY <1>1 DEF Emits, Stage
<1>6. rest[s] \in Seq(Streams) /\ sent[s] \in Seq(Data) /\ dst[s] \in Streams \union {NoStream}
  BY <1>1, OwnTypes
<1>7. sent'[s] = Append(sent[s], x)
  <2>1. sent' = [sent EXCEPT ![s] = Append(@, x)]
    BY <1>1, <1>2, <1>3 DEF Emit
  <2> QED BY <1>1, <2>1 DEF Typed, TypeOK, HistoryOK
<1>8. dst' = dst
  BY DEF Emit, streamVars
<1>9. PICK q, p : q = EmitRestOp(s, x, 1) /\ p = DropDstOp(s)
  OBVIOUS
<1>10. q \in Ops /\ p \in Ops
  <2>1. 1 \in Nat \ {0}
    OBVIOUS
  <2> QED BY <1>1, <1>2, <1>3, <1>9, <2>1, OpTypes
<1>a. /\ Stage("send", dst[s], 1, s, <<EmitRestOp(s, x, 1), y>> \o Tail(agenda[w]), Append(sent[s], x), dst[s], rest[s])
      /\ dst[s] # NoStream =>
           Stage("push", dst[s], 0, s,
                 <<PushOp(dst[s], "start", x), DropDstOp(s), EmitRestOp(s, x, 1), y>> \o Tail(agenda[w]),
                 Append(sent[s], x), dst[s], rest[s])
  <2>1. PICK a, S, D, R : a = agenda[w] /\ S = sent[s] /\ D = dst[s] /\ R = rest[s]
    OBVIOUS
  <2>2. /\ a \in Seq(Ops) /\ a # <<>> /\ Clean(a) /\ S \in Seq(Data) /\ D \in Streams \union {NoStream}
        /\ R \in Seq(Streams) /\ s \in Streams /\ x \in Data /\ x # Nil
    BY <1>1, <1>2, <1>3, <1>5, <1>6, <2>1
  <2>3. /\ Stage("send", D, 1, s, <<EmitRestOp(s, x, 1), y>> \o Tail(a), Append(S, x), D, R)
        /\ D # NoStream =>
             Stage("push", D, 0, s,
                   <<PushOp(D, "start", x), DropDstOp(s), EmitRestOp(s, x, 1), y>> \o Tail(a), Append(S, x), D, R)
    BY <1>4, <2>2, StageEmit
  <2> QED BY <2>1, <2>3
<1>11. CASE dst[s] = NoStream
  <2>1. Replaces(w, <<>> \o <<q, y>>)
    BY <1>1, <1>2, <1>3, <1>9, <1>11, Continues DEF Emit
  <2>2. <<>> \o <<q, y>> = <<q, y>>
    BY <1>4, <1>10
  <2>3. Steps(s)' = <<q, y>> \o Tail(agenda[w])
    BY <2>1, <2>2 DEF Goes
  <2>4. Stage("send", dst[s], 1, s, <<q, y>> \o Tail(agenda[w]), Append(sent[s], x), dst[s], rest[s])
    BY <1>a, <1>9
  <2>5. Stage("send", dst[s], 1, s, Steps(s)', sent'[s], dst'[s], rest'[s])
    BY <1>1, <1>7, <1>8, <2>3, <2>4
  <2>6. ASSUME NEW d \in Streams, Only(s, d) PROVE Passing(s, d, "send", dst[s], 1)'
    <3>1. PICK f : f = dst[s]
      OBVIOUS
    <3>2. Flies("send", f, 1, rest[s], d) = Hears(dst[s], rest[s], d)
      BY <1>6, <1>11, <3>1, FliesAll
    <3>3. ~Adds("send", f, d)
      BY DEF Adds
    <3>4. Passing(s, d, "send", f, 1)'
      BY <1>2, <1>3, <1>7, <2>6, <3>2, <3>3, OwnPasses
    <3> QED BY <1>8, <3>1, <3>4
  <2>7. Emits(s, "send", NoStream, 1)'
    <3>1. Stage("send", NoStream, 1, s, Steps(s)', sent'[s], dst'[s], rest'[s])
      BY <1>11, <2>5
    <3>2. \A d \in Streams : Only(s, d) => Passing(s, d, "send", NoStream, 1)'
      <4>1. ASSUME NEW d \in Streams, Only(s, d) PROVE Passing(s, d, "send", NoStream, 1)'
        <5>1. Passing(s, d, "send", dst[s], 1)'
          BY <2>6, <4>1
        <5> QED BY <1>8, <1>11, <5>1
      <4> QED BY <4>1
    <3> QED BY <1>1, <3>1, <3>2, OwnEmits DEF Keeps
  <2> QED BY <2>7
<1>12. CASE dst[s] # NoStream
  <2>0. PICK f, r : f = dst[s] /\ r = PushOp(f, "start", x)
    OBVIOUS
  <2>a. f \in Streams /\ r \in Ops
    <3>1. f \in Streams
      BY <1>6, <1>12, <2>0
    <3> QED BY <1>2, <1>3, <2>0, <3>1, OpTypes DEF Funcs
  <2>1. Replaces(w, <<r, p>> \o <<q, y>>)
    BY <1>1, <1>2, <1>3, <1>9, <1>12, <2>0, Continues DEF Emit
  <2>2. <<r, p>> \o <<q, y>> = <<r, p, q, y>>
    BY <1>4, <1>10, <2>a, Joined
  <2>3. Steps(s)' = <<r, p, q, y>> \o Tail(agenda[w])
    <3>1. Replaces(w, <<r, p, q, y>>)
      BY <2>1, <2>2
    <3> QED BY <3>1 DEF Goes
  <2>4. Stage("push", f, 0, s, <<r, p, q, y>> \o Tail(agenda[w]), Append(sent[s], x), f, rest[s])
    BY <1>a, <1>9, <1>12, <2>0
  <2>5. Stage("push", f, 0, s, Steps(s)', sent'[s], dst'[s], rest'[s])
    BY <1>1, <1>7, <1>8, <2>0, <2>3, <2>4
  <2>6. ASSUME NEW d \in Streams, Only(s, d) PROVE Passing(s, d, "push", f, 0)'
    <3>2. Flies("push", f, 0, rest[s], d) = Hears(dst[s], rest[s], d)
      BY <1>6, <1>12, <2>0, FliesAll
    <3>3. ~Adds("push", f, d)
      BY DEF Adds
    <3> QED BY <1>2, <1>3, <1>7, <2>6, <3>2, <3>3, OwnPasses
  <2>7. Emits(s, "push", f, 0)'
    BY <1>1, <2>5, <2>6, OwnEmits DEF Keeps
  <2> QED BY <2>7
<1> QED BY <1>11, <1>12

\* The stream that is executed makes a step of its own.
LEMMA OwnGoes ==
  ASSUME Typed, NEW w \in Workers, NEW s, NEW o, Goes(w, s, o), Step(w), NEW c, NEW e, NEW i, Emits(s, c, e, i)
  PROVE  \E c2, e2, i2 : Emits(s, c2, e2, i2)'
<1>1. /\ s \in Streams /\ o = Head(agenda[w]) /\ agenda[w] # <<>> /\ agenda[w] \in Seq(Ops)
      /\ Steps(s) = agenda[w] /\ o.op \notin Building
  BY DEF Goes
<1>2. Stage(c, e, i, s, agenda[w], sent[s], dst[s], rest[s]) /\ rest[s] \in Seq(Streams)
  BY <1>1, OwnTypes DEF Emits
<1>3. /\ o.op \notin {"dropDst", "emitRest", "addStream", "push", "addTask"} => c = "clean"
      /\ o.op = "addStream" => c \in {"clean", "stream"}
      /\ o.op = "push" => IF o.d = Nil THEN c = "clean" ELSE c = "push"
      /\ o.op = "addTask" => IF o.d = Nil THEN c = "clean" ELSE c = "task"
      /\ o.op \in {"dropDst", "emitRest"} => c = "send"
  BY <1>1, <1>2, StageTop
<1>4. CASE c = "clean" /\ ~Passes(w)
  <2>1. Emits(s, "clean", e, i)'
    BY <1>4, OwnQuiet
  <2> QED BY <2>1
<1>5. CASE c = "clean" /\ Passes(w)
  <2>1. Emit(w)
    BY <1>1, <1>5, StepNames DEF Step, Passes
  <2>2. Emits(s, "clean", e, i)
    BY <1>5
  <2> QED BY <1>5, <2>1, <2>2, OwnEmit
<1>6. CASE c # "clean"
  <2>1. o.op \in {"dropDst", "emitRest", "addStream", "push", "addTask"}
    BY <1>3, <1>6
  <2>2. CASE o.op = "push"
    <3>1. Push(w) /\ c = "push"
      BY <1>1, <1>3, <1>6, <2>2, StepNames DEF Step
    <3>2. Emits(s, "push", e, i)
      BY <3>1
    <3>3. \E c2 : Emits(s, c2, e, i)'
      BY <3>1, <3>2, OwnPush
    <3> QED BY <3>3
  <2>3. CASE o.op = "addTask"
    <3>1. AddTask(w) /\ c = "task"
      BY <1>1, <1>3, <1>6, <2>3, StepNames DEF Step
    <3>2. Emits(s, "task", e, i)
      BY <3>1
    <3>3. Emits(s, "stream", e, i)'
      BY <3>1, <3>2, OwnTask
    <3> QED BY <3>3
  <2>4. CASE o.op = "addStream"
    <3>1. AddStream(w) /\ c = "stream"
      BY <1>1, <1>3, <1>6, <2>4, StepNames DEF Step
    <3>2. Emits(s, "stream", e, i)
      BY <3>1
    <3>3. Emits(s, "send", e, i)'
      BY <3>1, <3>2, OwnStream
    <3> QED BY <3>3
  <2>5. CASE o.op = "dropDst"
    <3>1. DropDst(w) /\ c = "send"
      BY <1>1, <1>3, <2>5, StepNames DEF Step
    <3>2. Emits(s, "send", e, i)
      BY <3>1
    <3>3. Emits(s, "send", e, 1)'
      BY <3>1, <3>2, OwnDrop
    <3> QED BY <3>3
  <2>6. CASE o.op = "emitRest"
    <3>1. EmitRest(w) /\ c = "send"
      BY <1>1, <1>3, <2>6, StepNames DEF Step
    <3>2. Emits(s, "send", e, i)
      BY <3>1
    <3> QED BY <3>1, <3>2, OwnRest
  <2> QED BY <2>1, <2>2, <2>3, <2>4, <2>5, <2>6
<1> QED BY <1>4, <1>5, <1>6

LEMMA WorkerGapless ==
  ASSUME ExclusiveInv, ExclusiveInv', Places, NEW k \in 0..Len(program), Progress(k), Gapless,
         NEW w \in Workers, Step(w)
  PROVE  Gapless'
<1>1. Typed
  BY DEF ExclusiveInv
<1>2. PICK s, o : s = cur[w] /\ o = Head(agenda[w])
  OBVIOUS
<1>3. Goes(w, s, o) /\ s \in Streams
  <2>1. Goes(w, s, o)
    BY <1>2, StepGoes
  <2> QED BY <2>1 DEF Goes
<1>4. PICK c, e, i : Emits(s, c, e, i)
  BY <1>3 DEF Gapless
<1>5. ASSUME NEW u \in Streams PROVE \E c2, e2, i2 : Emits(u, c2, e2, i2)'
  <2>1. CASE u = s
    BY <1>1, <1>3, <1>4, <2>1, OwnGoes
  <2>2. CASE u # s
    <3>1. PICK cu, eu, iu : Emits(u, cu, eu, iu)
      BY DEF Gapless
    <3>2. Emits(u, cu, eu, iu)'
      BY <1>1, <1>3, <1>4, <2>2, <3>1, OthersKept
    <3> QED BY <3>2
  <2> QED BY <2>1, <2>2
<1> QED BY <1>5 DEF Gapless

-----------------------------------------------------------------------------
(* The steps of the program.                                               *)

LEMMA FliesMore ==
  ASSUME NEW R \in Seq(Streams), NEW f \in Streams, NEW d \in Streams, f # d, NEW c, NEW e, NEW i
  PROVE  Flies(c, e, i, Append(R, f), d) = Flies(c, e, i, R, d)
<1>1. PICK Q, l : Q = Append(R, f) /\ l = Len(R)
  OBVIOUS
<1>2. l \in Nat /\ Len(Q) = l + 1 /\ Q[l + 1] = f /\ \A j \in 1..l : Q[j] = R[j]
  BY <1>1
<1>3. \A j \in 1..(l + 1) : j \in 1..l \/ j = l + 1
  BY <1>2
<1>4. 1..l \subseteq 1..(l + 1)
  BY <1>2
<1>5. Ahead(Q, d, i) <=> Ahead(R, d, i)
  BY <1>1, <1>2, <1>3, <1>4 DEF Ahead
<1> QED BY <1>1, <1>5 DEF Flies

\* What a step of main leaves as it is.
LEMMA MainGoes ==
  ASSUME ExclusiveInv, ExclusiveInv', Places, NEW k \in 0..Len(program), Progress(k), Step(Main),
         NEW o, o = Head(agenda[Main])
  PROVE  /\ Keeps(o) /\ sent' = sent
         /\ \A u : Steps(u)' = Steps(u)
         /\ \A d \in Streams : /\ Quiescent(d)
                               /\ Alive(d)' => Alive(d)
                               /\ Open(d)' => Open(d)
<1>1. Typed /\ NotBorn /\ Main \in Threads /\ Workers \subseteq Threads /\ Main \notin Workers
  BY SchedulerAssumption DEF ExclusiveInv, Places, Threads
<1>2. Keeps(o) /\ agenda[Main] # <<>>
  BY <1>1, StepKeeps, StepFrame
<1>3. PICK C : C = Created(program, k) /\ Ready(C)
  BY DEF Progress
<1>4. o \in Ops /\ o.s \in Streams /\ o.op \notin Own /\ (o.op \in {"push", "addTask"} => o.d = Nil)
  <2>1. o.op \notin Own /\ (o.op \in {"push", "addTask"} => o.d = Nil)
    BY <1>1, <1>2, <1>3, WhoSteps
  <2> QED BY <1>1, <1>2, <1>3, <2>1, BelongsTop
<1>5. sent' = sent
  <2>1. o.op # "emit"
    BY <1>4 DEF Own
  <2> QED BY <1>1, <2>1, StepSent
<1>6. ASSUME NEW u PROVE Steps(u)' = Steps(u)
  <2>1. PICK ops : Replaces(Main, ops)
    BY <1>1, <1>2, StepExecuted DEF Brings
  <2>2. \A w \in Workers : agenda'[w] = agenda[w]
    BY <1>1, <2>1 DEF Replaces, Typed, TypeOK, AgendasOK
  <2>3. /\ cur' = cur
        /\ \A w \in Workers : pc[w] # "unborn" => pc'[w] = pc[w]
        /\ \A w \in Workers : pc[w] = "unborn" => pc'[w] \in {"unborn", "get"}
    BY <1>1, StepKeepsPlace
  <2> QED BY <2>2, <2>3, StepsOthers
<1>7. ASSUME NEW d \in Streams PROVE Quiescent(d)
  <2>1. CASE tasks' = tasks
    BY <2>1 DEF Quiescent
  <2>2. CASE o.op = "addTask" /\ tasks' = [tasks EXCEPT ![o.s] = Append(@, [f |-> o.f, d |-> o.d])]
    <3>1. o.f \in Funcs /\ o.d \in Data
      BY <1>4, <2>2, OpFields
    <3>2. PICK x : x = [f |-> o.f, d |-> o.d]
      OBVIOUS
    <3>3. x \in Tasks /\ x.d = Nil
      BY <1>4, <2>2, <3>1, <3>2 DEF Tasks
    <3>4. tasks' = [tasks EXCEPT ![o.s] = Append(tasks[o.s], x)]
      BY <2>2, <3>2
    <3> QED BY <1>1, <1>4, <3>3, <3>4 DEF Quiescent, Typed, TypeOK, QueuesOK
  <2> QED BY <1>2, <2>1, <2>2 DEF Keeps
<1>8. ASSUME NEW d \in Streams PROVE (Alive(d)' => Alive(d)) /\ (Open(d)' => Open(d))
  <2>1. mode \in [Streams -> Modes]
    BY <1>1 DEF Typed, TypeOK, StreamsOK
  <2>2. CASE mode'[d] = mode[d]
    BY <1>6, <2>2 DEF Alive, Open
  <2>3. CASE mode'[d] # mode[d]
    <3>1. o.op = "new" /\ d = o.s
      BY <1>2, <1>4, <2>1, <2>3 DEF Keeps
    <3>2. StreamNew(Main)
      BY <3>1, <1>4, StepNames DEF Step
    <3>3. PICK m \in {k, k + 1} : m = k + 1 /\ m \in 1..Len(program) /\ o = program[m]
      BY <1>1, <3>2, StepExecuted
    <3>4. o.s \notin Created(program, k)
      BY <1>1, <3>1, <3>3, CreatedMore
    <3>5. mode[d] = "none"
      BY <1>3, <3>1, <3>4 DEF Ready
    <3> QED BY <3>5 DEF Alive, Open
  <2> QED BY <2>2, <2>3
<1> QED BY <1>2, <1>5, <1>6, <1>7, <1>8

\* u is connected to f, the first time that anything is.
LEMMA FirstCall ==
  ASSUME Typed, NEW k \in 0..Len(program), Linked(k), k + 1 \in 1..Len(program),
         NEW u \in Streams, NEW f \in Streams, program[k + 1] = ConnectOp(u, f), Only(u, f)
  PROVE  ~Hears(dst[u], rest[u], f)
<1>1. SUFFICES ASSUME Hears(dst[u], rest[u], f) PROVE FALSE
  OBVIOUS
<1>2. PICK j \in 1..k : program[j] = ConnectOp(u, f)
  BY <1>1 DEF Linked, Joins
<1>3. PICK i \in 1..Len(program) : \A h \in 1..Len(program) : program[h].op = "connect" /\ program[h].dst = f => h = i
  BY DEF Only
<1>4. ConnectOp(u, f).op = "connect" /\ ConnectOp(u, f).dst = f
  BY DEF ConnectOp
<1>5. j \in 1..Len(program) /\ j # k + 1
  BY <1>2
<1> QED BY <1>2, <1>3, <1>4, <1>5

LEMMA ConnectEmits ==
  ASSUME ExclusiveInv, ExclusiveInv', Places, NEW k \in 0..Len(program), Progress(k), Connect(Main), Step(Main),
         NEW o, o = Head(agenda[Main]), NEW u, u = o.s, NEW c, NEW e, NEW i, Emits(u, c, e, i)
  PROVE  Emits(u, c, e, i)'
<1>1. Typed /\ Main \in Threads
  BY DEF ExclusiveInv, Threads
<1>2. PICK f : f = o.dst
  OBVIOUS
<1>3. /\ u \in Streams /\ f \in Streams /\ o = ConnectOp(u, f)
      /\ \/ dst[u] = NoStream /\ dst'[u] = f /\ rest'[u] = rest[u]
         \/ dst'[u] = dst[u] /\ rest'[u] = Append(rest[u], f)
  BY <1>1, <1>2, ConnectKeeps
<1>4. /\ Keeps(o) /\ sent' = sent /\ Steps(u)' = Steps(u)
      /\ \A d \in Streams : Quiescent(d) /\ (Alive(d)' => Alive(d)) /\ (Open(d)' => Open(d))
  BY MainGoes
<1>5. got' = got /\ program' = program
  BY <1>4 DEF Keeps
<1>6. k + 1 \in 1..Len(program) /\ program[k + 1] = o
  <2>1. PICK m \in {k, k + 1} : m = k + 1 /\ m \in 1..Len(program) /\ o = program[m]
    BY <1>1, StepExecuted
  <2> QED BY <2>1
<1>7. dst[u] \in Streams \union {NoStream} /\ rest[u] \in Seq(Streams) /\ sent[u] \in Seq(Data)
  BY <1>1, <1>3, OwnTypes
<1>8. Stage(c, e, i, u, Steps(u), sent[u], dst[u], rest[u])
  BY DEF Emits
<1>a. PICK a, T, D, R, D2, R2 : /\ a = Steps(u) /\ T = sent[u] /\ D = dst[u] /\ R = rest[u]
                                /\ D2 = dst'[u] /\ R2 = rest'[u]
  OBVIOUS
<1>b. /\ D \in Streams \union {NoStream} /\ R \in Seq(Streams)
      /\ (D = NoStream /\ D2 = f /\ R2 = R) \/ (D2 = D /\ R2 = Append(R, f))
  BY <1>3, <1>7, <1>a
<1>9. Stage(c, e, i, u, Steps(u)', sent'[u], dst'[u], rest'[u])
  <2>1. Stage(c, e, i, u, a, T, D, R)
    BY <1>8, <1>a
  <2>2. Stage(c, e, i, u, a, T, D2, R2)
    BY <1>3, <1>b, <2>1, StageConnect
  <2> QED BY <1>4, <1>a, <2>2
<1>10. ASSUME NEW d \in Streams, Only(u, d) PROVE Passing(u, d, c, e, i)'
  <2>1. Passing(u, d, c, e, i) /\ Once(dst[u], rest[u], d)
    BY <1>10 DEF Emits, Passing
  <2>2. f = d => ~Hears(dst[u], rest[u], d)
    BY <1>1, <1>3, <1>6, <1>10, FirstCall DEF Progress
  <2>3. Once(dst'[u], rest'[u], d) /\ (Hears(dst[u], rest[u], d) => Hears(dst'[u], rest'[u], d))
    <3>1. Once(D, R, d) /\ (f = d => ~Hears(D, R, d))
      BY <1>a, <2>1, <2>2
    <3>2. Once(D2, R2, d) /\ (Hears(D, R, d) => Hears(D2, R2, d))
      <4>1. /\ D = NoStream => Once(f, R, d)
            /\ Once(D, Append(R, f), d)
            /\ Hears(D, R, d) => Hears(D, Append(R, f), d) /\ (D = NoStream => Hears(f, R, d))
        BY <1>3, <1>b, <3>1, OnceMore
      <4> QED BY <1>b, <4>1
    <3> QED BY <1>a, <3>2
  <2>4. Once(dst[u], rest[u], d)' /\ (Hears(dst[u], rest[u], d) => Hears(dst[u], rest[u], d)')
    BY <2>3 DEF Once, Hears, InSeq
  <2>5. CASE f # d
    <3>1. Flies(c, e, i, rest'[u], d) = Flies(c, e, i, rest[u], d)
      <4>1. Flies(c, e, i, R2, d) = Flies(c, e, i, R, d)
        <5>1. Flies(c, e, i, Append(R, f), d) = Flies(c, e, i, R, d)
          BY <1>3, <1>b, <2>5, FliesMore
        <5> QED BY <1>b, <5>1
      <4> QED BY <1>a, <4>1
    <3> QED BY <1>1, <1>3, <1>4, <1>5, <2>1, <2>4, <3>1, PassingKept DEF Quiescent
  <2>6. CASE f = d
    <3>1. ~Adds(c, e, d)
      <4>1. SUFFICES ASSUME c = "task", e = d PROVE FALSE
        BY DEF Adds
      <4>2. Aim(d, i, dst[u], rest[u])
        BY <1>8, <4>1 DEF Stage
      <4> QED BY <1>7, <2>2, <2>6, <4>2, AimHears
    <3>2. Hears(dst[u], rest[u], d)'
      <4>1. Hears(dst'[u], rest'[u], d)
        <5>1. Once(D, R, d) /\ ~Hears(D, R, d)
          BY <1>a, <2>1, <2>2, <2>6
        <5>2. Hears(D2, R2, d)
          <6>1. CASE R2 = R
            BY <1>3, <1>b, <2>6, <6>1, NullAssumption DEF Hears
          <6>2. CASE R2 # R
            <7>1. R2 = Append(R, d)
              BY <1>b, <2>6, <6>2
            <7>2. Hears(D, Append(R, d), d)
              BY <1>3, <1>b, <5>1, OnceMore
            <7>3. InSeq(d, Append(R, d))
              BY <5>1, <7>2 DEF Hears
            <7> QED BY <7>1, <7>3 DEF Hears
          <6> QED BY <6>1, <6>2
        <5> QED BY <1>a, <5>2
      <4> QED BY <4>1 DEF Hears, InSeq
    <3>3. PICK q, g, S : q = tasks[d] /\ g = got[d] /\ S = sent[u]
      OBVIOUS
    <3>4. q \in Seq(Tasks) /\ g \in Seq(Data) /\ S \in Seq(Data)
      BY <1>1, <1>7, <3>3 DEF Typed, TypeOK, QueuesOK, HistoryOK
    <3>5. PICK al, op, fl, no, fl2 :
            /\ al = Alive(d) /\ op = Open(d) /\ fl = Flies(c, e, i, rest[u], d) /\ no = FALSE
            /\ fl2 = Flies(c, e, i, rest'[u], d)
      OBVIOUS
    <3>6. al \in BOOLEAN /\ op \in BOOLEAN /\ fl \in BOOLEAN /\ no \in BOOLEAN /\ fl2 \in BOOLEAN
      BY <3>5 DEF Alive, Open, Flies
    <3>7. Flow(q, g, S, al, op, fl, no)
      <4>1. Adds(c, e, d) = no
        BY <3>1, <3>5 DEF Adds
      <4> QED BY <2>1, <3>3, <3>5, <4>1 DEF Passing
    <3>8. Flow(q, g, S, al, op, fl2, no)
      <4>1. CASE op
        <5>1. g = <<>> /\ Bare(q)
          BY <2>1, <2>2, <2>6, <3>3, <3>5, <4>1 DEF Passing
        <5>2. fl2 => S # <<>>
          BY <1>8, <3>3, <3>5 DEF Flies, Stage
        <5>3. Flow(q, <<>>, S, al, op, fl2, FALSE)
          BY <3>4, <3>6, <5>1, <5>2, FlowFresh
        <5> QED BY <3>5, <5>1, <5>3
      <4>2. CASE ~op
        <5>1. (op => op /\ fl2 = fl) /\ (no => no \/ (op /\ fl))
          BY <4>2
        <5> QED BY <3>4, <3>6, <3>7, <5>1, FlowSame
      <4> QED BY <4>1, <4>2
    <3>9. PICK p : p = tasks'[d]
      OBVIOUS
    <3>10. Flow(p, g, S, al, op, fl2, no)
      <4>1. CASE p = q
        BY <3>8, <4>1
      <4>2. ASSUME NEW x \in Tasks, x.d = Nil, p = Append(q, x) PROVE Flow(p, g, S, al, op, fl2, no)
        BY <3>4, <3>8, <4>2, FlowNil
      <4>3. p = q \/ \E x \in Tasks : x.d = Nil /\ p = Append(q, x)
        BY <1>4, <3>3, <3>9 DEF Quiescent
      <4> QED BY <4>1, <4>2, <4>3
    <3>11. PICK al2, op2 : al2 = Alive(d)' /\ op2 = Open(d)'
      OBVIOUS
    <3>12. al2 \in BOOLEAN /\ op2 \in BOOLEAN /\ (al2 => al) /\ (op2 => op)
      BY <1>4, <3>5, <3>11 DEF Alive, Open
    <3>13. Flow(p, g, S, al2, op2, fl2, no)
      <4>1. (op2 => op /\ fl2 = fl2) /\ (no => no \/ (op /\ fl2))
        BY <3>12
      <4> QED BY <3>6, <3>10, <3>12, <4>1, FlowSame
    <3>14. Flow(tasks'[d], got'[d], sent'[u], Alive(d)', Open(d)', Flies(c, e, i, rest'[u], d), Adds(c, e, d)')
      <4>1. Adds(c, e, d)' = no
        BY <3>1, <3>5 DEF Adds
      <4> QED BY <1>4, <1>5, <3>3, <3>5, <3>9, <3>11, <3>13, <4>1
    <3> QED BY <2>4, <3>2, <3>14 DEF Passing
  <2> QED BY <2>5, <2>6
<1> QED BY <1>3, <1>5, <1>9, <1>10, OwnEmits

LEMMA MainGapless ==
  ASSUME ExclusiveInv, ExclusiveInv', Places, NEW k \in 0..Len(program), Progress(k), Gapless, Step(Main)
  PROVE  Gapless'
<1>1. Typed /\ Main \in Threads
  BY DEF ExclusiveInv, Threads
<1>2. PICK o : o = Head(agenda[Main])
  OBVIOUS
<1>3. /\ Keeps(o) /\ sent' = sent /\ \A u : Steps(u)' = Steps(u)
      /\ \A d \in Streams : Quiescent(d) /\ (Alive(d)' => Alive(d)) /\ (Open(d)' => Open(d))
  BY <1>2, MainGoes
<1>4. ASSUME NEW u \in Streams, NEW c, NEW e, NEW i, Emits(u, c, e, i) PROVE Emits(u, c, e, i)'
  <2>1. CASE o.op = "connect" /\ u = o.s
    <3>1. Connect(Main)
      BY <1>2, <2>1, StepNames DEF Step
    <3> QED BY <1>2, <1>4, <2>1, <3>1, ConnectEmits
  <2>2. CASE ~(o.op = "connect" /\ u = o.s)
    <3>1. dst'[u] = dst[u] /\ rest'[u] = rest[u]
      <4>1. CASE o.op = "connect"
        <5>1. Connect(Main)
          BY <1>2, <4>1, StepNames DEF Step
        <5> QED BY <1>1, <1>2, <2>2, <4>1, <5>1, ConnectKeeps
      <4>2. CASE o.op # "connect"
        <5>1. o.op # "dropDst"
          <6>1. o.op \notin Own
            <7>1. agenda[Main] # <<>> /\ Ready(Created(program, k)) /\ Main \notin Workers
              BY <1>1, StepFrame, SchedulerAssumption DEF Progress
            <7> QED BY <1>1, <1>2, <7>1, WhoSteps
          <6> QED BY <6>1 DEF Own
        <5> QED BY <1>3, <4>2, <5>1 DEF Keeps
      <4> QED BY <4>1, <4>2
    <3>2. got' = got /\ program' = program
      BY <1>3 DEF Keeps
    <3>3. Stage(c, e, i, u, Steps(u)', sent'[u], dst'[u], rest'[u])
      BY <1>3, <1>4, <3>1 DEF Emits
    <3>4. ASSUME NEW d \in Streams, Only(u, d) PROVE Passing(u, d, c, e, i)'
      <4>1. Passing(u, d, c, e, i)
        BY <1>4, <3>4 DEF Emits
      <4>2. Once(dst[u], rest[u], d)' /\ (Hears(dst[u], rest[u], d) => Hears(dst[u], rest[u], d)')
        BY <3>1, <4>1 DEF Passing, Once, Hears, InSeq
      <4> QED BY <1>1, <1>3, <3>1, <3>2, <4>1, <4>2, PassingKept DEF Quiescent
    <3> QED BY <3>2, <3>3, <3>4, OwnEmits
  <2> QED BY <2>1, <2>2
<1> QED BY <1>4 DEF Gapless

-----------------------------------------------------------------------------
(* The steps of task_loop.                                                 *)

LEMMA CallsClean ==
  ASSUME NEW s \in Streams, NEW k \in Kinds, NEW num \in Int, NEW lim \in Nat, NEW d \in Data,
         NEW call, call = StartFunc(s, k, num, lim, d) \/ call = <<CloseOp(s)>>
  PROVE  call \o <<AfterOp(s)>> \in Seq(Ops) /\ Clean(call \o <<AfterOp(s)>>)
<1>1. call \in Seq(Ops) /\ \A i \in 1..Len(call) : call[i].op \in {"emit", "seqNext", "takeNext", "close"}
  BY CallbackSteps
<1>2. Clean(call)
  BY <1>1 DEF Clean, Light
<1>3. PICK z : z = AfterOp(s)
  OBVIOUS
<1>4. z \in Ops /\ Light(z)
  BY <1>3, OpTypes, LightSteps
<1>5. <<z>> \in Seq(Ops) /\ Clean(<<z>>)
  BY <1>4, CleanSmall, Small
<1>6. call \o <<z>> \in Seq(Ops) /\ Clean(call \o <<z>>)
  BY <1>1, <1>2, <1>5, Small, CleanJoin
<1> QED BY <1>3, <1>6

\* Nothing happens to the connections but that the worker of u may begin to execute.
LEMMA StillEmits ==
  ASSUME Typed, NEW u \in Streams, NEW c, NEW e, NEW i, Emits(u, c, e, i),
         program' = program, sent' = sent, got' = got, tasks' = tasks, mode' = mode, dst' = dst, rest' = rest,
         \A d \in Streams : Steps(d)' = Steps(d)
  PROVE  Emits(u, c, e, i)'
<1>1. Stage(c, e, i, u, Steps(u)', sent'[u], dst'[u], rest'[u])
  BY DEF Emits
<1>2. ASSUME NEW d \in Streams, Only(u, d) PROVE Passing(u, d, c, e, i)'
  <2>1. Passing(u, d, c, e, i)
    BY <1>2 DEF Emits
  <2>2. (Alive(d)' => Alive(d)) /\ (Open(d)' => Open(d))
    BY DEF Alive, Open
  <2>3. Once(dst[u], rest[u], d)' /\ (Hears(dst[u], rest[u], d) => Hears(dst[u], rest[u], d)')
    BY <2>1 DEF Passing, Once, Hears, InSeq
  <2>4. tasks'[d] = tasks[d] /\ got'[d] = got[d] /\ sent'[u] = sent[u] /\ rest'[u] = rest[u]
    OBVIOUS
  <2> QED BY <2>1, <2>2, <2>3, <2>4, PassingKept
<1> QED BY <1>1, <1>2, OwnEmits

LEMMA StillGapless ==
  ASSUME Typed, Gapless,
         program' = program, sent' = sent, got' = got, tasks' = tasks, mode' = mode, dst' = dst, rest' = rest,
         \A d \in Streams : Steps(d)' = Steps(d)
  PROVE  Gapless'
<1>1. \A u \in Streams : \A c, e, i : Emits(u, c, e, i) => Emits(u, c, e, i)'
  BY StillEmits
<1> QED BY <1>1 DEF Gapless

\* A worker takes the next task of d from its queue: an element comes to d, or what
\* is left for it is discarded.
LEMMA TakesTask ==
  ASSUME Typed, NEW u \in Streams, NEW d \in Streams, NEW c, NEW e, NEW i, Passing(u, d, c, e, i),
         tasks[d] # <<>>, tasks'[d] = Tail(tasks[d]), sent' = sent, dst' = dst, rest' = rest,
         Open(d)' <=> Open(d),
         \/ ~Alive(d)' /\ got' = got
         \/ Alive(d) /\ Alive(d)' /\ got'[d] = IF Head(tasks[d]).d # Nil THEN Append(got[d], Head(tasks[d]).d) ELSE got[d]
  PROVE  Passing(u, d, c, e, i)'
<1>1. PICK q, g, S, h : q = tasks[d] /\ g = got[d] /\ S = sent[u] /\ h = got'[d]
  OBVIOUS
<1>2. q \in Seq(Tasks) /\ g \in Seq(Data) /\ S \in Seq(Data) /\ q # <<>>
  BY <1>1 DEF Typed, TypeOK, QueuesOK, HistoryOK
<1>3. PICK al, op, fl, ad, al2, op2 :
        /\ al = Alive(d) /\ op = Open(d) /\ fl = Flies(c, e, i, rest[u], d) /\ ad = Adds(c, e, d)
        /\ al2 = Alive(d)' /\ op2 = Open(d)'
  OBVIOUS
<1>4. /\ al \in BOOLEAN /\ op \in BOOLEAN /\ fl \in BOOLEAN /\ ad \in BOOLEAN
      /\ al2 \in BOOLEAN /\ op2 \in BOOLEAN /\ op2 = op
  BY <1>3 DEF Alive, Open, Flies, Adds
<1>5. Flow(q, g, S, al, op, fl, ad)
  BY <1>1, <1>3 DEF Passing
<1>6. Flow(Tail(q), h, S, al2, op2, fl, ad)
  <2>1. CASE ~Alive(d)' /\ got' = got
    <3>1. al2 = FALSE /\ h = g
      BY <1>1, <1>3, <1>4, <2>1
    <3>2. Flow(Tail(q), g, S, FALSE, op2, fl, ad)
      BY <1>5, FlowOver
    <3> QED BY <3>1, <3>2
  <2>2. CASE /\ Alive(d) /\ Alive(d)'
             /\ got'[d] = IF Head(tasks[d]).d # Nil THEN Append(got[d], Head(tasks[d]).d) ELSE got[d]
    <3>1. al = TRUE /\ al2 = TRUE /\ h = IF Head(q).d # Nil THEN Append(g, Head(q).d) ELSE g
      BY <1>1, <1>3, <1>4, <2>2
    <3>2. Flow(q, g, S, TRUE, op, fl, ad)
      BY <1>5, <3>1
    <3>3. Flow(Tail(q), IF Head(q).d # Nil THEN Append(g, Head(q).d) ELSE g, S, TRUE, op, fl, ad)
      BY <1>2, <3>2, FlowTake
    <3> QED BY <1>4, <3>1, <3>3
  <2> QED BY <2>1, <2>2
<1>7. Flow(tasks'[d], got'[d], sent'[u], Alive(d)', Open(d)', Flies(c, e, i, rest'[u], d), Adds(c, e, d)')
  <2>1. Adds(c, e, d)' = ad
    BY <1>3 DEF Adds
  <2> QED BY <1>1, <1>3, <1>6, <2>1
<1>8. ASSUME Open(d)', ~Hears(dst[u], rest[u], d)' PROVE got'[d] = <<>> /\ Bare(tasks'[d])
  <2>1. ~Hears(dst[u], rest[u], d)
    BY <1>8 DEF Hears, InSeq
  <2>2. g = <<>> /\ Bare(q)
    BY <1>1, <1>8, <2>1 DEF Passing
  <2>3. /\ Head(q) = q[1] /\ 1 \in 1..Len(q) /\ Len(Tail(q)) = Len(q) - 1 /\ Len(q) \in Nat
        /\ \A j \in 1..Len(Tail(q)) : Tail(q)[j] = q[j + 1] /\ j + 1 \in 1..Len(q)
    BY <1>2
  <2>4. Bare(Tail(q)) /\ Head(q).d = Nil
    BY <2>2, <2>3 DEF Bare
  <2>5. got'[d] = g
    BY <1>1, <2>4
  <2> QED BY <1>1, <2>2, <2>4, <2>5
<1>9. Once(dst[u], rest[u], d)'
  <2>1. Once(dst[u], rest[u], d)
    BY DEF Passing
  <2> QED BY <2>1 DEF Once, InSeq
<1> QED BY <1>7, <1>8, <1>9 DEF Passing

LEMMA DrainGapless ==
  ASSUME ExclusiveInv, ExclusiveInv', Places, NEW k \in 0..Len(program), Progress(k), Gapless,
         NEW w \in Workers, Drain(w)
  PROVE  Gapless'
<1>1. Typed /\ IdleAgendas /\ w \in Threads /\ Workers \subseteq Threads /\ Main \notin Workers
  BY SchedulerAssumption DEF ExclusiveInv, Places, Threads
<1>2. PICK s, task : s = cur[w] /\ task = Head(tasks[s])
  OBVIOUS
<1>3. /\ s \in Streams /\ task \in Tasks /\ kind[s] \in Kinds /\ n[s] \in Int /\ limit[s] \in Nat
      /\ task.d \in Data /\ tasks[s] # <<>> /\ (task.d # Nil => task.f = "start")
  <2>1. s \in Streams /\ tasks[s] \in Seq(Tasks) /\ tasks[s] # <<>>
    BY <1>1, <1>2 DEF Drain, Typed, HoldsStream, TypeOK, QueuesOK
  <2>2. task \in Tasks
    BY <1>2, <2>1
  <2>3. tasks[s] \in Seq(DataTasks)
    BY <2>1 DEF Progress
  <2>4. task \in DataTasks
    BY <1>2, <2>1, <2>3
  <2> QED BY <1>1, <2>1, <2>2, <2>4 DEF Typed, TypeOK, StreamsOK, Tasks, DataTasks
<1>4. /\ sent' = sent /\ dst' = dst /\ rest' = rest /\ mode' = mode /\ program' = program /\ cur' = cur
      /\ pc[w] = "drain" /\ tasks' = [tasks EXCEPT ![s] = Tail(@)]
  BY <1>2 DEF Drain
<1>5. tasks'[s] = Tail(tasks[s]) /\ \A d \in Streams : d # s => tasks'[d] = tasks[d]
  BY <1>1, <1>3, <1>4 DEF Typed, TypeOK, QueuesOK
<1>6. Steps(s) = <<>>
  <2>1. ASSUME NEW v \in Workers, pc[v] = "run" PROVE cur[v] # s
    <3>1. v # w
      BY <1>4, <2>1
    <3> QED BY <1>2, <1>4, <2>1, <3>1 DEF ExclusiveInv, Exclusive, Executing
  <2> QED BY <2>1, StepsIdle
<1>7. pc \in [Threads -> Labels] /\ agenda \in [Threads -> Seq(Ops)] /\ got \in [Streams -> Seq(Data)]
  BY <1>1 DEF Typed, TypeOK, ThreadsOK, AgendasOK, HistoryOK
<1>8. \A v \in Workers : v # w => pc'[v] = pc[v] /\ agenda'[v] = agenda[v]
  BY <1>1, <1>7 DEF Drain, GoTo
<1>9. ASSUME NEW d, d # s PROVE Steps(d)' = Steps(d)
  BY <1>2, <1>4, <1>8, <1>9, StepsOthers
<1>10. CASE mode[s] = "killed"
  <2>1. pc' = pc /\ agenda' = agenda /\ got' = got
    BY <1>2, <1>10 DEF Drain, Discards
  <2>2. Steps(s)' = Steps(s)
    BY <1>4, <2>1, StepsOthers
  <2>3. ASSUME NEW u \in Streams, NEW c, NEW e, NEW i, Emits(u, c, e, i) PROVE Emits(u, c, e, i)'
    <3>1. Stage(c, e, i, u, Steps(u)', sent'[u], dst'[u], rest'[u])
      BY <1>4, <1>9, <2>2, <2>3 DEF Emits
    <3>2. ASSUME NEW d \in Streams, Only(u, d) PROVE Passing(u, d, c, e, i)'
      <4>1. Passing(u, d, c, e, i)
        BY <2>3, <3>2 DEF Emits
      <4>2. (Open(d)' <=> Open(d)) /\ Steps(d)' = Steps(d)
        BY <1>4, <1>9, <2>2 DEF Open
      <4>3. CASE d = s
        <5>1. ~Alive(d)'
          BY <1>4, <1>6, <1>10, <2>2, <4>3 DEF Alive
        <5>2. tasks[d] # <<>> /\ tasks'[d] = Tail(tasks[d])
          BY <1>3, <1>5, <4>3
        <5> QED BY <1>1, <1>4, <2>1, <4>1, <4>2, <5>1, <5>2, TakesTask
      <4>4. CASE d # s
        <5>1. (Alive(d)' => Alive(d)) /\ (Open(d)' => Open(d))
          BY <1>4, <4>2 DEF Alive
        <5>2. Once(dst[u], rest[u], d)' /\ (Hears(dst[u], rest[u], d) => Hears(dst[u], rest[u], d)')
          BY <1>4, <4>1 DEF Passing, Once, Hears, InSeq
        <5>3. tasks'[d] = tasks[d] /\ got'[d] = got[d] /\ sent'[u] = sent[u] /\ rest'[u] = rest[u]
          BY <1>4, <1>5, <2>1, <4>4
        <5> QED BY <1>1, <4>1, <5>1, <5>2, <5>3, PassingKept
      <4> QED BY <4>3, <4>4
    <3> QED BY <1>4, <3>1, <3>2, OwnEmits
  <2> QED BY <2>3 DEF Gapless
<1>11. CASE mode[s] # "killed"
  <2>1. PICK call : call = IF task.f = "close" THEN <<CloseOp(s)>>
                           ELSE StartFunc(s, kind[s], n[s], limit[s], task.d)
    OBVIOUS
  <2>2. /\ pc' = [pc EXCEPT ![w] = "run"] /\ agenda' = [agenda EXCEPT ![w] = call \o <<AfterOp(s)>>]
        /\ got' = [got EXCEPT ![s] = IF task.f = "start" /\ task.d # Nil THEN Append(@, task.d) ELSE @]
    BY <1>2, <1>11, <2>1 DEF Drain, Discards, GoTo
  <2>3. Steps(s)' = call \o <<AfterOp(s)>>
    <3>1. pc'[w] = "run" /\ cur'[w] = s /\ agenda'[w] = call \o <<AfterOp(s)>>
      BY <1>1, <1>2, <1>4, <1>7, <2>2
    <3> QED BY <3>1, StepsAreNext
  <2>4. Steps(s)' \in Seq(Ops) /\ Clean(Steps(s)')
    BY <1>3, <2>1, <2>3, CallsClean
  <2>5. /\ got'[s] = IF task.d # Nil THEN Append(got[s], task.d) ELSE got[s]
        /\ \A d \in Streams : d # s => got'[d] = got[d]
    BY <1>3, <1>7, <2>2
  <2>6. ASSUME NEW u \in Streams, NEW c, NEW e, NEW i, Emits(u, c, e, i) PROVE \E c2 : Emits(u, c2, e, i)'
    <3>1. Stage(c, e, i, u, Steps(u), sent[u], dst[u], rest[u])
      BY <2>6 DEF Emits
    <3>2. u = s => c = "clean"
      BY <1>6, <3>1 DEF Stage, Shape, Sends
    <3>3. Stage(c, e, i, u, Steps(u)', sent'[u], dst'[u], rest'[u])
      <4>1. CASE u = s
        BY <2>4, <3>2, <4>1 DEF Stage
      <4>2. CASE u # s
        BY <1>4, <1>9, <3>1, <4>2
      <4> QED BY <4>1, <4>2
    <3>4. ASSUME NEW d \in Streams, Only(u, d) PROVE Passing(u, d, c, e, i)'
      <4>1. Passing(u, d, c, e, i)
        BY <2>6, <3>4 DEF Emits
      <4>2. Open(d)' <=> Open(d)
        BY <1>4 DEF Open
      <4>3. CASE d = s
        <5>1. Alive(d) /\ Alive(d)'
          BY <1>4, <1>11, <4>3 DEF Alive
        <5>2. tasks[d] # <<>> /\ tasks'[d] = Tail(tasks[d])
          BY <1>3, <1>5, <4>3
        <5>3. got'[d] = IF Head(tasks[d]).d # Nil THEN Append(got[d], Head(tasks[d]).d) ELSE got[d]
          BY <1>2, <2>5, <4>3
        <5> QED BY <1>1, <1>4, <4>1, <4>2, <5>1, <5>2, <5>3, TakesTask
      <4>4. CASE d # s
        <5>1. (Alive(d)' => Alive(d)) /\ (Open(d)' => Open(d))
          BY <1>4, <1>9, <4>2, <4>4 DEF Alive
        <5>2. Once(dst[u], rest[u], d)' /\ (Hears(dst[u], rest[u], d) => Hears(dst[u], rest[u], d)')
          BY <1>4, <4>1 DEF Passing, Once, Hears, InSeq
        <5>3. tasks'[d] = tasks[d] /\ got'[d] = got[d] /\ sent'[u] = sent[u] /\ rest'[u] = rest[u]
          BY <1>4, <1>5, <2>5, <4>4
        <5> QED BY <1>1, <4>1, <5>1, <5>2, <5>3, PassingKept
      <4> QED BY <4>3, <4>4
    <3>5. Emits(u, c, e, i)'
      BY <1>4, <3>3, <3>4, OwnEmits
    <3> QED BY <3>5
  <2> QED BY <2>6 DEF Gapless
<1> QED BY <1>10, <1>11

LEMMA LoopGapless ==
  ASSUME ExclusiveInv, ExclusiveInv', Places, NEW k \in 0..Len(program), Progress(k), Gapless,
         NEW w \in Workers, Loop(w)
  PROVE  Gapless'
<1>1. Typed /\ w \in Threads /\ Workers \subseteq Threads
  BY DEF ExclusiveInv, Threads
<1>2. pc \in [Threads -> Labels] /\ cur \in [Workers -> Streams \union {NoStream}]
  BY <1>1 DEF Typed, TypeOK, ThreadsOK
<1>3. CASE Drain(w)
  BY <1>3, DrainGapless
<1>4. CASE GetStream(w) \/ GetProducer(w) \/ Claim(w) \/ Drained(w) \/ Release(w) \/ CheckCount(w)
  <2>1. /\ program' = program /\ sent' = sent /\ got' = got /\ tasks' = tasks /\ mode' = mode /\ dst' = dst
        /\ rest' = rest /\ agenda' = agenda
    BY <1>4 DEF GetStream, GetProducer, Claim, Drained, Release, CheckCount, streamVars, historyVars
  <2>2. /\ pc[w] # "run" /\ pc'[w] # "run"
        /\ \A v \in Workers : v # w => pc'[v] = pc[v] /\ cur'[v] = cur[v]
    <3>1. CASE GetStream(w) \/ GetProducer(w)
      BY <1>1, <1>2, <3>1 DEF GetStream, GetProducer, GoTo
    <3>2. CASE Claim(w) \/ Release(w)
      BY <1>1, <1>2, <3>2 DEF Claim, Release, GoTo
    <3>3. CASE Drained(w) \/ CheckCount(w)
      BY <1>1, <1>2, <3>3 DEF Drained, CheckCount, GoTo
    <3> QED BY <1>4, <3>1, <3>2, <3>3
  <2>3. ASSUME NEW d \in Streams PROVE Steps(d)' = Steps(d)
    BY <2>1, <2>2, StepsOthers
  <2> QED BY <1>1, <2>1, <2>3, StillGapless
<1>5. CASE TaskDone(w)
  <2>1. /\ program' = program /\ sent' = sent /\ got' = got /\ tasks' = tasks /\ mode' = mode /\ dst' = dst
        /\ rest' = rest /\ agenda' = agenda /\ cur' = cur
    BY <1>5 DEF TaskDone, streamVars, historyVars
  <2>2. /\ pc[w] = "run" /\ agenda[w] = <<>> /\ pc'[w] = "drain"
        /\ \A v \in Workers : v # w => pc'[v] = pc[v]
    BY <1>1, <1>2, <1>5 DEF TaskDone, GoTo
  <2>3. ASSUME NEW d \in Streams PROVE Steps(d)' = Steps(d)
    <3>1. CASE d = cur[w]
      <4>1. Steps(d) = <<>>
        BY <2>2, <3>1, StepsAre
      <4>2. \A v \in Workers : pc'[v] = "run" => cur'[v] # d
        BY <2>1, <2>2, <3>1 DEF ExclusiveInv, Exclusive, Executing
      <4>3. Steps(d)' = <<>>
        BY <4>2, StepsIdleNext
      <4> QED BY <4>1, <4>3
    <3>2. CASE d # cur[w]
      BY <2>1, <2>2, <3>2, StepsOthers
    <3> QED BY <3>1, <3>2
  <2> QED BY <1>1, <2>1, <2>3, StillGapless
<1> QED BY <1>3, <1>4, <1>5 DEF Loop

\* What strm_loop does, and what changes nothing.
LEMMA IdleGapless ==
  ASSUME ExclusiveInv, ExclusiveInv', Places, NEW k \in 0..Len(program), Progress(k), Gapless,
         EnterLoop \/ LeaveLoop \/ UNCHANGED vars
  PROVE  Gapless' /\ \E m \in 0..Len(program') : Progress(m)'
<1>1. Typed /\ NotBorn /\ Workers \subseteq Threads /\ Main \notin Workers
  BY SchedulerAssumption DEF ExclusiveInv, Places, Threads
<1>2. /\ program' = program /\ sent' = sent /\ got' = got /\ tasks' = tasks /\ mode' = mode /\ dst' = dst
      /\ rest' = rest /\ agenda' = agenda /\ cur' = cur /\ queue' = queue /\ prodQueue' = prodQueue
  <2>1. CASE EnterLoop
    BY <2>1 DEF EnterLoop, streamVars, historyVars
  <2>2. CASE LeaveLoop
    BY <2>2 DEF LeaveLoop, streamVars, historyVars, sharedVars
  <2>3. CASE UNCHANGED vars
    BY <2>3 DEF vars, streamVars, historyVars, sharedVars, threadVars
  <2> QED BY <2>1, <2>2, <2>3
<1>3. \A w \in Workers : pc'[w] = "run" <=> pc[w] = "run"
  <2>1. pc \in [Threads -> Labels]
    BY <1>1 DEF Typed, TypeOK, ThreadsOK
  <2>2. CASE EnterLoop
    BY <1>1, <2>1, <2>2 DEF EnterLoop, GoTo, NotBorn, Threads
  <2>3. CASE LeaveLoop
    BY <1>1, <2>1, <2>3 DEF LeaveLoop, GoTo
  <2>4. CASE UNCHANGED vars
    BY <2>4 DEF vars, threadVars
  <2> QED BY <2>2, <2>3, <2>4
<1>4. ASSUME NEW d \in Streams PROVE Steps(d)' = Steps(d)
  BY <1>2, <1>3, StepsOthers
<1>5. Gapless'
  BY <1>1, <1>2, <1>4, StillGapless
<1>6. k \in 0..Len(program') /\ Progress(k)'
  BY <1>2, IdleProgress
<1> QED BY <1>5, <1>6

LEMMA GaplessInit ==
  ASSUME Init
  PROVE  Gapless
<1>1. ASSUME NEW u \in Streams PROVE Emits(u, "clean", NoStream, 0)
  <2>1. Workers \subseteq Threads /\ Main \notin Workers
    BY SchedulerAssumption DEF Threads
  <2>2. \A s : Steps(s) = <<>>
    <3>1. \A w \in Workers : pc[w] # "run"
      BY <2>1 DEF Init
    <3> QED BY <3>1, StepsIdle
  <2>3. Stage("clean", NoStream, 0, u, Steps(u), sent[u], dst[u], rest[u])
    BY <2>2, CleanSmall DEF Stage
  <2>4. ASSUME NEW d \in Streams PROVE Passing(u, d, "clean", NoStream, 0)
    <3>1. dst[u] = NoStream /\ rest[u] = <<>> /\ got[d] = <<>> /\ tasks[d] = <<>> /\ sent[u] = <<>>
      BY <1>1 DEF Init
    <3>2. Once(dst[u], rest[u], d)
      BY <3>1, NullAssumption DEF Once
    <3>3. Bare(tasks[d])
      BY <3>1 DEF Bare
    <3>4. PICK al, op, fl, ad, q : /\ al = Alive(d) /\ op = Open(d) /\ fl = Flies("clean", NoStream, 0, rest[u], d)
                                /\ ad = Adds("clean", NoStream, d) /\ q = tasks[d]
      OBVIOUS
    <3>5. fl = FALSE /\ ad = FALSE
      BY <3>4 DEF Flies, Adds
    <3>6. Flow(q, <<>>, q, al, op, fl, ad)
      <4>1. q \in Seq(Tasks) /\ q \in Seq(Data) /\ Bare(q) /\ fl \in BOOLEAN /\ (fl => q # <<>>)
        BY <3>1, <3>3, <3>4, <3>5, Small
      <4>2. Flow(q, <<>>, q, al, op, fl, FALSE)
        BY <4>1, FlowFresh
      <4> QED BY <3>5, <4>2
    <3>7. Flow(tasks[d], got[d], sent[u], Alive(d), Open(d), Flies("clean", NoStream, 0, rest[u], d), Adds("clean", NoStream, d))
      <4>1. tasks[d] = q /\ got[d] = <<>> /\ sent[u] = q
        BY <3>1, <3>4
      <4> QED BY <3>4, <3>6, <4>1
    <3>8. got[d] = <<>> /\ Bare(tasks[d])
      BY <3>1, <3>3, Zenon
    <3> QED BY <3>2, <3>7, <3>8 DEF Passing
  <2> QED BY <2>3, <2>4 DEF Emits
<1> QED BY <1>1 DEF Gapless

\* From it the property follows.
LEMMA GaplessEnough ==
  ASSUME Typed, Exclusive, Gapless
  PROVE  NoGaps
<1>1. SUFFICES ASSUME NEW u \in Streams, NEW d \in Streams, Only(u, d)
               PROVE  \E k \in 0..Len(sent[u]) :
                        /\ Follows(got[d], sent[u], k)
                        /\ Settled(u, d) => k + Len(got[d]) = Len(sent[u])
  BY DEF NoGaps
<1>2. PICK c, e, i : Emits(u, c, e, i)
  BY DEF Gapless
<1>3. PICK q, g, S, al, op, fl, ad :
        /\ q = tasks[d] /\ g = got[d] /\ S = sent[u] /\ al = Alive(d) /\ op = Open(d)
        /\ fl = Flies(c, e, i, rest[u], d) /\ ad = Adds(c, e, d)
  OBVIOUS
<1>4. q \in Seq(Tasks) /\ g \in Seq(Data) /\ S \in Seq(Data)
  BY <1>3 DEF Typed, TypeOK, QueuesOK, HistoryOK
<1>5. Flow(q, g, S, al, op, fl, ad)
  BY <1>1, <1>2, <1>3 DEF Emits, Passing
<1>6. op => al
  BY <1>3 DEF Open, Alive
<1>7. PICK k \in 0..Len(S) : Follows(g, S, k) /\ (op /\ ~fl /\ Bare(q) => k + Len(g) = Len(S))
  BY <1>4, <1>5, <1>6, FlowSettled
<1>8. ASSUME Settled(u, d) PROVE op /\ ~fl /\ Bare(q)
  <2>1. op /\ Bare(q)
    BY <1>3, <1>8 DEF Settled, Open, Bare
  <2>2. Steps(u) = <<>>
    <3>1. CASE \E w \in Workers : pc[w] = "run" /\ cur[w] = u
      <4>1. PICK w \in Workers : pc[w] = "run" /\ cur[w] = u
        BY <3>1
      <4>2. (CHOOSE v \in Workers : Executes(v, u)) \in Workers /\ Executes(CHOOSE v \in Workers : Executes(v, u), u)
        BY <4>1 DEF Executes
      <4> QED BY <1>8, <4>1, <4>2 DEF Steps, Settled, Executes
    <3>2. CASE ~\E w \in Workers : pc[w] = "run" /\ cur[w] = u
      BY <3>2, StepsIdle
    <3> QED BY <3>1, <3>2
  <2>3. c = "clean"
    <3>1. Stage(c, e, i, u, <<>>, sent[u], dst[u], rest[u])
      BY <1>2, <2>2 DEF Emits
    <3> QED BY <3>1 DEF Stage, Shape, Sends
  <2> QED BY <1>3, <2>1, <2>3 DEF Flies
<1> QED BY <1>3, <1>7, <1>8

GapInv == /\ ExclusiveInv /\ Places
          /\ \E k \in 0..Len(program) : Progress(k)
          /\ Gapless

LEMMA GapStep == GapInv /\ [Next]_vars => GapInv'
<1>1. SUFFICES ASSUME GapInv, [Next]_vars PROVE GapInv'
  OBVIOUS
<1>2. ExclusiveInv /\ ExclusiveInv' /\ Places /\ Typed /\ Gapless /\ IdleAgendas /\ Main \in Threads /\ Workers \subseteq Threads
  BY <1>1, ExclusiveStep DEF GapInv, ExclusiveInv, Places, Threads
<1>3. Places'
  BY <1>1, <1>2, PlacesStep
<1>4. PICK k \in 0..Len(program) : Progress(k)
  BY <1>1 DEF GapInv
<1>5. ASSUME Step(Main) PROVE Gapless' /\ \E m \in 0..Len(program') : Progress(m)'
  BY <1>2, <1>4, <1>5, MainGapless, StepProgress
<1>6. ASSUME NEW w \in Workers, Step(w) PROVE Gapless' /\ \E m \in 0..Len(program') : Progress(m)'
  BY <1>2, <1>4, <1>6, WorkerGapless, StepProgress
<1>7. ASSUME NEW w \in Workers, Loop(w) PROVE Gapless' /\ \E m \in 0..Len(program') : Progress(m)'
  BY <1>2, <1>4, <1>7, LoopGapless, LoopProgress
<1>8. ASSUME EnterLoop \/ LeaveLoop \/ UNCHANGED vars PROVE Gapless' /\ \E m \in 0..Len(program') : Progress(m)'
  BY <1>2, <1>4, <1>8, IdleGapless
<1>9. Gapless' /\ \E m \in 0..Len(program') : Progress(m)'
  BY <1>1, <1>5, <1>6, <1>7, <1>8 DEF Next, MainStep, WorkerStep, Ended
<1> QED BY <1>2, <1>3, <1>9 DEF GapInv

LEMMA GapInit == Init => GapInv
<1>1. SUFFICES ASSUME Init PROVE GapInv
  OBVIOUS
<1>2. ExclusiveInv
  BY <1>1, InitTyped, SchedulerAssumption DEF Init, ExclusiveInv, Flagged, Exclusive, Executing, Threads
<1>3. Places
  BY <1>1, NothingLostInit DEF NothingLost, Places
<1>4. \E k \in 0..Len(program) : Progress(k)
  BY <1>1, ProgressInit
<1>5. Gapless
  BY <1>1, GaplessInit
<1> QED BY <1>2, <1>3, <1>4, <1>5 DEF GapInv

\* Whatever the program, and however many workers run it while it is still being
\* connected: of what the only upstream of a stream emits, the stream gets everything
\* from the first element that comes to it on, in order and once, until it is closed.
THEOREM DeliversOnwards == Spec => []NoGaps
<1>1. GapInv => NoGaps
  BY GaplessEnough DEF GapInv, ExclusiveInv
<1> QED BY <1>1, GapInit, GapStep, PTL DEF Spec
================================================================================
