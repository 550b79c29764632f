--------------------------------- MODULE Store ---------------------------------
(***************************************************************************)
(* What the key-value store promises to the threads that share one: every  *)
(* get, put and update, and every transaction as a whole, takes effect at  *)
(* one moment, or fails and has no effect.                                 *)
(*                                                                         *)
(* A value is the sequence of the tags of the functions that made it, so   *)
(* that values tell which calls they depend on; nil is the empty one.      *)
(***************************************************************************)
EXTENDS Naturals, Sequences, SequencesExt

CONSTANTS Threads, Keys,
          Programs,   \* functions from threads to the calls each one makes
          Initial,    \* what the store holds at first
          Fragile     \* the programs that may run out of memory

VARIABLES program,
          db,
          answers     \* what the calls of each thread have returned

vars == <<program, db, answers>>

Nil == <<>>

(* A call is a body of operations on the store, alone or as a transaction. *)

Made(s, k, v) == [s EXCEPT !.db[k] = v]

Read(s, v) == [s EXCEPT !.got = Append(@, v)]

Do(s, o) ==
  CASE ~s.ok           -> s
    [] o.op = "get"    -> Read(s, s.db[o.key])
    [] o.op = "put"    -> Made(s, o.key, <<o.tag>>)
    [] o.op = "derive" -> Made(s, o.key, Append(Last(s.got), o.tag))
    [] o.op = "update" -> IF s.db[o.key] = Nil THEN [s EXCEPT !.ok = FALSE]
                          ELSE LET v == Append(s.db[o.key], o.tag)
                               IN Read(Made(s, o.key, v), v)

\* What there is after each number of the operations.
After(values, body) ==
  LET s[n \in 0..Len(body)] ==
        IF n = 0 THEN [db |-> values, got |-> <<>>, ok |-> TRUE] ELSE Do(s[n - 1], body[n])
  IN s

Run(values, body) == After(values, body)[Len(body)]

Failed == [ok |-> FALSE, got |-> <<>>]

Init == program \in Programs /\ db = Initial /\ answers = [t \in Threads |-> <<>>]

Busy(t) == Len(answers[t]) < Len(program[t])

Current(t) == program[t][Len(answers[t]) + 1]

Answer(t, a) == answers' = [answers EXCEPT ![t] = Append(@, a)]

Succeed(t) == LET r == Run(db, Current(t).body)
              IN r.ok /\ db' = r.db /\ Answer(t, [ok |-> TRUE, got |-> r.got])

Fail(t) == /\ \/ Current(t).txn
              \/ Current(t).body[1].op = "update"
              \/ program \in Fragile /\ Current(t).body[1].op = "put"
           /\ db' = db /\ Answer(t, Failed)

Next == \E t \in Threads : Busy(t) /\ (Succeed(t) \/ Fail(t)) /\ UNCHANGED program

Spec == Init /\ [][Next]_vars
=============================================================================
