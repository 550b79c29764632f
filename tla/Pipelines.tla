------------------------------- MODULE Pipelines -------------------------------
(***************************************************************************)
(* The programs for which the scheduler delivers everything and no more,   *)
(* whatever its workers do meanwhile: they are complete before anything    *)
(* runs, and everything that is emitted has somewhere to go.               *)
(*                                                                         *)
(* These are programs built from their ends up (FromTheEnds): streams kept *)
(* in variables and connected afterwards, or two stages, a | b.  But       *)
(* a | b | c as it is usually written is not one of them: the              *)
(* parser groups it as (a | b) | c and exec_expr connects a to b first     *)
(* (parse.y:98, exec.c:129-135), which starts the workers (core.c:117)     *)
(* before b has a downstream.  What b emits until then is lost, and a sort *)
(* that is closed by then finds that nobody listens, goes dying (core.c:88)*)
(* and is closed and counted down twice.                                   *)
(***************************************************************************)
EXTENDS Scheduler

Lines(p) == {i \in 1..Len(p) : p[i].op = "connect"}
Declaration(p, s) == CHOOSE o \in {p[i] : i \in {j \in 1..Len(p) : p[j].op = "new"}} : o.s = s
KindIn(p, s) == Declaration(p, s).kind

\* What s emits may come to t.
Reaches(p, s, t) ==
  \A S \in SUBSET Streams :
    s \in S /\ (\A i \in Lines(p) : p[i].s \in S => p[i].dst \in S) => t \in S

\* A stream is connected to what comes after it before anything is connected to it,
\* and a producer, which starts at once, is connected last and to one stream.  No
\* stream is connected where another is already that may run.
FromTheEnds(p) == \A i, j \in Lines(p) :
  /\ i <= j => p[j].s # p[i].dst
  /\ i < j => /\ p[j] # p[i]
              /\ p[j].s = p[i].s => KindIn(p, p[i].s) # "seq"
              /\ p[j].dst = p[i].dst => /\ KindIn(p, p[i].s) # "seq"
                                      /\ \A h \in Lines(p) : h < j => p[h].dst # p[i].s

\* Nothing is connected to a producer, and what emits is connected to something: one
\* that is not finds that nobody listens.
Outlets(p) == \A i \in Lines(p) :
  /\ KindIn(p, p[i].dst) # "seq"
  /\ KindIn(p, p[i].dst) \in {"map", "take", "sort", "reduce"} => \E j \in Lines(p) : p[j].s = p[i].dst

\* Where streams join, they bring different elements.
OnePath(p) == \A i, j \in Lines(p) : p[i].dst = p[j].dst /\ p[i].s # p[j].s =>
  ~\E s \in Streams : Reaches(p, s, p[i].s) /\ Reaches(p, s, p[j].s)

\* Streams that must not find that nobody listens: one that emits when it is closed
\* would be closed again, and of one with several upstreams only one close would
\* count.  So there is no take after them.
Joint(p, s) == \E i, j \in Lines(p) : p[i].dst = s /\ p[j].dst = s /\ p[i].s # p[j].s
Lasting(p, t) == \E s \in Created(p, Len(p)) :
  Reaches(p, s, t) /\ (KindIn(p, s) \in {"sort", "reduce"} \/ Joint(p, s))
NoTakeAfter(p) == \A t \in Created(p, Len(p)) : Lasting(p, t) => KindIn(p, t) # "take"

\* A program that is complete before it runs.
ReadyToRun(p) == FromTheEnds(p) /\ Outlets(p) /\ OnePath(p) /\ NoTakeAfter(p)
=============================================================================
