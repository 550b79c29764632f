--------------------------------- MODULE MCKvs ---------------------------------
(* Programs for the key-value store.                                       *)
EXTENDS Kvs, TLC

CONSTANTS t1, t2, t3, a, b, c

get(k) == [op |-> "get", key |-> k]
put(k, g) == [op |-> "put", key |-> k, tag |-> g]
derive(k, g) == [op |-> "derive", key |-> k, tag |-> g]   \* put(k, f(what get returned))
update(k, g) == [op |-> "update", key |-> k, tag |-> g]
one(o) == [txn |-> FALSE, body |-> <<o>>]
all(body) == [txn |-> TRUE, body |-> body]

TwoKeys == a :> <<"0">> @@ b :> <<"0">> @@ c :> Nil

\* Transactions that read one key and write another, which conflict in circles,
\* against a thread of single calls; and a transaction that writes two keys
\* against one that reads both.
Contention == {
  t1 :> <<all(<<get(a), derive(b, "1")>>), one(get(a))>>
    @@ t2 :> <<all(<<get(b), derive(a, "2")>>)>>
    @@ t3 :> <<one(update(a, "3")), one(put(b, "4")), one(update(b, "5"))>>,
  t1 :> <<all(<<get(a), put(b, "1"), derive(c, "2")>>)>>
    @@ t2 :> <<one(update(a, "3")), one(get(c)), one(get(b))>>
    @@ t3 :> <<all(<<get(b), get(c), derive(a, "4")>>)>>}

\* Memory may run out, and transactions write a single key; some that read what they have
\* written, with nobody else writing.
OneKeyEach == {
  t1 :> <<all(<<get(a), derive(b, "1")>>), one(update(a, "2"))>>
    @@ t2 :> <<all(<<get(b), derive(c, "3")>>), one(put(a, "4"))>>
    @@ t3 :> <<all(<<get(c), put(b, "5")>>)>>,
  t1 :> <<one(update(c, "5")), all(<<update(c, "4")>>),
          all(<<update(a, "1"), get(a), update(a, "2")>>), all(<<put(b, "3"), update(b, "4")>>)>>
    @@ t2 :> <<one(get(a)), one(get(b))>>
    @@ t3 :> <<one(get(b)), one(get(a))>>}

\* Two threads that add to the same value.
TwoAdders == {
  t1 :> <<all(<<get(a), derive(a, "1")>>)>> @@ t2 :> <<one(update(a, "2"))>> @@ t3 :> <<>>}

AllTags == {"0", "1", "2", "3", "4", "5"}
Both == Contention \cup OneKeyEach

ASSUME BothSupported == SupportedIn(Both)
=============================================================================
