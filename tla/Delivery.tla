------------------------------- MODULE Delivery -------------------------------
(***************************************************************************)
(* What the stream scheduler promises of a program without two paths       *)
(* between the same streams: a link is a reliable first-in first-out       *)
(* channel that ends.  A stream is invoked for every element each of its   *)
(* upstreams emits, in the upstream's order, and it ends only              *)
(*   - when its upstreams have ended and it has processed everything,      *)
(*   - when it has had enough (take), or                                   *)
(*   - when none of its downstreams listens any more.                      *)
(* There are no threads, tasks, run queues or reference counts here.       *)
(***************************************************************************)
EXTENDS Naturals, Sequences, FiniteSets, Functions

CONSTANTS Streams, Programs

VARIABLES program,  \* the streams and their links, fixed
          sent,     \* what each stream has emitted
          got,      \* what each stream has been invoked for
          closed,   \* the streams that take nothing more
          ended     \* the streams that emit nothing more

vars == <<program, sent, got, closed, ended>>

News  == {o \in Range(program) : o.op = "new"}
Links == {<<o.s, o.dst>> : o \in {p \in Range(program) : p.op = "connect"}}
Declared == {o.s : o \in News}
Stream(s) == CHOOSE o \in News : o.s = s
Upstreams(s)   == {u \in Declared : <<u, s>> \in Links}
Downstreams(s) == {d \in Declared : <<s, d>> \in Links}

Init == /\ program \in Programs
        /\ sent = [s \in Streams |-> <<>>] /\ got = [s \in Streams |-> <<>>]
        /\ closed = {} /\ ended = {}

\* A producer generates its next element (without a limit, for ever).
Generate(s) ==
  /\ Stream(s).kind = "seq" /\ s \notin closed
  /\ Stream(s).limit > 0 => Len(sent[s]) < Stream(s).limit
  /\ sent' = [sent EXCEPT ![s] = Append(@, <<s, Len(@) + 1>>)]
  /\ UNCHANGED <<program, got, closed, ended>>

\* How much of what its upstream u has emitted s has been invoked for.
Received(u, s) == Cardinality({k \in DOMAIN got[s] : got[s][k] \in Range(sent[u])})

\* A stream is invoked for the next element of an upstream.
Invoke(u, s) ==
  /\ <<u, s>> \in Links /\ s \notin closed
  /\ LET k == Received(u, s)
     IN k < Len(sent[u]) /\ got' = [got EXCEPT ![s] = Append(@, sent[u][k + 1])]
  /\ UNCHANGED <<program, sent, closed, ended>>

\* A filter emits the next element it owes: map and take as they get it, sort
\* all and reduce one, when they have been closed.
Owed(s) == CASE Stream(s).kind \in {"map", "take", "sort"} -> Len(got[s])
             [] Stream(s).kind = "reduce" -> IF got[s] = <<>> THEN 0 ELSE 1
             [] OTHER -> 0

Forward(s) ==
  /\ s \notin ended
  /\ Len(sent[s]) < Owed(s)
  /\ Stream(s).kind \in {"sort", "reduce"} => s \in closed
  /\ sent' = [sent EXCEPT ![s] = Append(@, got[s][Len(@) + 1])]
  /\ UNCHANGED <<program, got, closed, ended>>

Unheard(s) == Downstreams(s) # {} /\ Downstreams(s) \subseteq closed

Exhausted(s) ==
  IF Stream(s).kind = "seq" THEN Stream(s).limit > 0 /\ Len(sent[s]) = Stream(s).limit
  ELSE /\ Upstreams(s) \subseteq ended
       /\ \A u \in Upstreams(s) : Received(u, s) = Len(sent[u])

Satisfied(s) == Stream(s).kind = "take" /\ Len(got[s]) = Stream(s).limit

Close(s) ==
  /\ s \notin closed
  /\ Exhausted(s) \/ Satisfied(s) \/ Unheard(s)
  /\ Stream(s).kind \in {"map", "take"} => Len(sent[s]) = Owed(s)
  /\ closed' = closed \union {s}
  /\ UNCHANGED <<program, sent, got, ended>>

End(s) ==
  /\ s \in closed \ ended
  /\ Stream(s).kind # "seq" => Len(sent[s]) = Owed(s) \/ Unheard(s)
  /\ ended' = ended \union {s}
  /\ UNCHANGED <<program, sent, got, closed>>

Next == \E s \in Declared :
          \/ Generate(s) \/ Forward(s) \/ Close(s) \/ End(s)
          \/ \E u \in Declared : Invoke(u, s)

Safety == Init /\ [][Next]_vars

Spec == Safety /\ WF_vars(Next)
=============================================================================
