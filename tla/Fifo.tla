--------------------------------- MODULE Fifo ---------------------------------
(***************************************************************************)
(* What strm_queue promises the threads that share one: a first-in         *)
(* first-out queue whose operations take effect at one moment between      *)
(* their call and their return.                                            *)
(***************************************************************************)
EXTENDS Sequences

CONSTANTS Threads, Values,
          None     \* NULL, which get answers when there is nothing

VARIABLES items,   \* what the queue holds
          call     \* what each thread is asking for, or has been answered

vars == <<items, call>>

Idle == [op |-> "idle", v |-> None]

Init == items = <<>> /\ call = [t \in Threads |-> Idle]

Answer(t, op, v) == call' = [call EXCEPT ![t] = [op |-> op, v |-> v]]

Invoke(t) == /\ call[t] = Idle
             /\ \/ \E v \in Values : Answer(t, "add", v)
                \/ Answer(t, "get", None)
                \/ Answer(t, "empty", None)
             /\ UNCHANGED items

Add(t) == /\ call[t].op = "add"
          /\ \/ items' = Append(items, call[t].v) /\ Answer(t, "added", call[t].v)
             \/ UNCHANGED items /\ Answer(t, "refused", call[t].v)   \* no memory

Get(t) == /\ call[t].op = "get"
          /\ IF items = <<>>
               THEN UNCHANGED items /\ Answer(t, "got", None)
               ELSE items' = Tail(items) /\ Answer(t, "got", Head(items))

Empty(t) == /\ call[t].op = "empty"
            /\ Answer(t, "told", items = <<>>)
            /\ UNCHANGED items

Return(t) == /\ call[t].op \in {"added", "refused", "got", "told"}
             /\ call' = [call EXCEPT ![t] = Idle]
             /\ UNCHANGED items

Next == \E t \in Threads : Invoke(t) \/ Add(t) \/ Get(t) \/ Empty(t) \/ Return(t)

Spec == Init /\ [][Next]_vars
=============================================================================
