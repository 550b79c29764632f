# A TLA+ model of Streem

Streem is a small language for stream processing.  A program such as
`seq(100) | map{x->x*2} | stdout` creates streams and links them; worker
threads then move elements along the links.  This directory holds TLA+ modules
for the parts of the implementation in which concurrency, ordering and protocol
decide whether a program does what it says, and for the language and the library
of stream functions, whose meaning is stated independently of the code; TLC
configurations that check them on small instances; and proofs that TLAPS checks
for every instance.

Source paths are relative to the repository's root; `core.c` is `src/core.c`.

## 1. The system

| Part | State | Operations | Hard behaviour | What makes it correct |
|---|---|---|---|---|
| Scheduler and streams (`core.c`) | per stream: mode, dst, rest, refcnt, excl, its task queue; two global run queues; `stream_count`; the workers | new, connect, push a task, emit, close, the worker's loop, `strm_loop` | workers and the main thread interleave at every access; a stream is queued once per task; closing is a distributed protocol | one worker per stream; elements in order, none lost or repeated; a stream closes once, after its upstreams; the count is exact; the program ends |
| Queue (`queue.c`, `atomic.h`) | linked list, with a mutex or with compare-and-swap | new, add, get, free, empty_p | interleaving of adds and gets; memory reuse | a linearizable FIFO |
| Latch, zip, concat (`latch.c`) | a data queue and a receiver queue per latch | push, receive, close; zip's and concat's iteration | check-then-add on two workers | every datum meets a receiver; zip and concat end |
| Key-value store (`kvs.c`) | hash table, serial number, mutex; transactions with a table and a serial | get, put, update, txn with get, put, update | optimistic retry; unlocked calls of user functions | committed transactions are serializable |
| Input and output (`io.c`, `pollfd.c`) | read buffer, poll set, count of waiting streams | read lines, write, the poll thread | lines across chunks, end of file, poll thread against workers | lines are what the file holds |
| Stream operators (`iter.c`) | the counters and buffers of each filter | seq, repeat, cycle, each, map, filter, count, min, max, reduce, slice, consec, take, drop, uniq | boundary counts, end of stream | the list function of the same name |
| Sort and median (`sort.c`) | a growing buffer | sort, median | comparison of mixed values, quickselect | a permutation in order; the middle element |
| Statistics (`stat.c`) | running sums | average, stdev, correl and others | empty and short streams | the closed formula |
| CSV (`csv.c`) | current record, header, quote state | feed a line, emit a record | quoted newlines across elements | fields of RFC 4180 |
| Sockets (`socket.c`) | file descriptors | connect, accept | the poll loop | pure I/O |
| Signals (`signal.c`) | list of listeners | register, deliver, remove | removal while delivering | every open listener gets the signal |
| Graph (`graph.c`) | the bars on the terminal | redraw | none | layout |
| Environments, namespaces (`env.c`, `ns.c`) | tables of bindings, chain of scopes | define, set, get, import | concurrent lookups | lexical scope, single assignment |
| Interpreter (`exec.c`) | state and exception of a stream | evaluate, call, match patterns | early exits | the language |
| Parser (`parse.y`, `lex.l`, `node.c`) | syntax tree | constructors | none | grammar |
| Values (`value.c`, `string.c`, `array.c`, `number.c`, `args.c`) | tagged words, table of interned strings | make, compare, intern | interning under a lock | equal strings are one |
| Library (`math.c`, `random.c`, `time.c`, `strptime.c`) | random state | wrappers of the C library | dates | the C library's |
| Start (`main.c`, `init.c`, `ncpu.c`) | options | parse, run, wait | order of run and wait | see the scheduler |

How they interact: `main` runs the program (`node_run`), which calls
`strm_connect` for every `|`; that makes streams of lambdas, arrays, functions
and files and links them in `strm_stream_connect`.  Connecting a producer
starts the workers.  A worker calls a stream's `start_func` with an element;
the callback calls `strm_emit`, which pushes tasks to the downstream streams.
When a producer is exhausted it closes itself, and each close is passed on as
a task.  Latches, files, sockets and signals push tasks from other threads.

## 2. Modules

| Module | What it models |
|---|---|
| `Callbacks` | the vocabulary of the scheduler: kinds of streams, tasks, the steps a call consists of, and what each kind's `start_func` and `close_func` do (`gen_seq`, `iter_take`, `blk_exec` for map and sinks, `finish_sort`, `reduce_finish`) |
| `Scheduler` | `core.c`: streams, tasks, emit, close, the workers' loop and the main thread; its properties |
| `Delivery` | abstract: the links of a program as reliable first-in first-out channels that end; no threads, tasks or queues |
| `MCScheduler` | the programs TLC checks the scheduler on |
| `SchedulerProofs`, `ClosingProofs` | theorems about `Scheduler` for every program: types, exclusion, one worker, delivery without gaps; closing and counting without sort and reduce |
| `Pipelines` | the programs of which the delivery is proved: those that are complete before they run |
| `PipelineProofs`, `DeliveryProofs` | what holds of such a program while it runs; that `Scheduler` implements `Delivery` then; closing and counting with sort and reduce |
| `Fifo` | abstract: a queue whose operations take effect at one moment |
| `MutexQueue`, `MCMutexQueue` | `queue.c` as the Makefile builds it (`-DNO_LOCKFREE_QUEUE`): linked list under a mutex, nodes that malloc reuses |
| `MutexQueueProofs` | theorems about `MutexQueue`, and that it implements `Fifo` |
| `Induction` | induction over the natural numbers, as a fact about sets of them |
| `Store` | abstract: a key-value store whose calls and transactions take effect at one moment or not at all |
| `Kvs`, `MCKvs` | `kvs.c`: get, put, update and transactions of concurrent threads |
| `KvsProofs` | theorems about `Kvs`: retries, types, and that it implements `Store` |
| `Latch`, `MCLatch` | `latch.c`: pushing and receiving, zip and concat on several workers |
| `LatchProofs` | theorems about `Latch` |
| `Values` | `strm_value`: tags, truth, equality, namespaces of values (`value.c`, `array.c`, `string.c`) |
| `Filter` | a stream of the library as its callbacks see it: what it received, emitted, and keeps |
| `Operators` | `iter.c`: every operator's function, `start_func` and `close_func`, and the array functions of the same names |
| `Sorting` | `sort.c`: comparisons, quicksort, quickselect; sort, sort_by and median |
| `Statistics` | `stat.c` and sample of `random.c`: compensated sums, one-pass variances, correlation |
| `Csv` | `csv.c`: csv and ltsv |
| `Reading` | `io.c`: lines out of chunks, from a descriptor, a file or a mapping |
| `Library`, `MCLibrary` | one stream of any of these between its upstream and its downstream; what each call promises; the calls, inputs and functions of the run |
| `Environments` | `env.c`, `ns.c`: environments, scopes, namespaces |
| `Primitives` | `number.c`, `string.c`, `args.c`: arithmetic, comparison, split, chars |
| `Syntax` | `node.c` and the actions of `parse.y`: the syntax tree and the escapes of literals |
| `Interpreter` | `exec.c`: evaluation, calls, patterns, exceptions, connecting |
| `Language`, `MCLanguage` | a program: its statements, and its pipelines element by element as soon as they are connected; what programs mean; the programs of the run |

**Scheduler.**  One variable per field or global: `mode`, `dst`, `rest`,
`refcnt`, `excl`, `tasks` (`strm->queue`), `queue`, `prodQueue`,
`streamCount`, `started` (`workers != NULL`); `limit` and `n` stand for
`strm->data` of seq and take.  `sent`, `got`, `kills` and `program` are history.
The threads are `Main` and `Workers`.  The code nests calls (emit pushes, push
adds, close calls a callback that emits); a thread therefore has an `agenda`,
the steps it is inside of, and each action does the first of them and puts what
it calls in front of the rest.  One access to shared state is one step: the
guard of `strm_task_push` reads `mode` (`Push`), then the task is queued
(`AddTask`), then the stream (`AddStream`); `strm_stream_close` decrements
(`Close`), tests and exchanges the mode and calls `close_func` (`Kill`), passes
the close on (`CloseDst`, `CloseRest`), and counts down (`CountDown`).  `excl` is
a flag that is tested and set in one step (`Claim`); when that fails the entry
of the run queue is forgotten, as in the code.  The queues are sequences; the
module `MutexQueue` shows that the implementation is one.

Elements are pairs of a producer and a number, so that order and identity can
be seen.  A program is a sequence of `new` and `connect` in the order in which
`main` executes them; `SchedulerAssumption` says that a stream is created once and
connected after it has been created (`WellFormed`), as `strm_stream_new` returns a
new one each time.

**MutexQueue.**  `head`, `tail`, `next`, `val` are the list, `heap` the nodes
malloc may hand out, `owner` the mutex.  Every store in a critical section is a
step, because `strm_queue_empty_p` reads `head` without the lock.

**Kvs.**  `kv`, `serial` are `struct strm_kvs`; `txn[t]` is the thread's
`struct strm_txn` with the locals of `kvs_txn`.  A critical section is one step.
A value is the sequence of the tags of the functions it went through, so a lost
or repeated change can be seen.  A program gives each thread a list of calls; a
transaction is a list of operations in which `derive` is a put of a function of
what the last get returned.  `Check` is the comparison of serials at the start
of `txn.get` and `txn.update`; the access itself is a later step, since the code
releases the lock in between.  Memory may run out (`MayFail`) in the programs of
the constant `Fragile`.

**Latch.**  `dq` and `rq` are the two queues of a latch (of the receivers only
their number, since all are the same), `tasks` the queue of its stream, `z` the
`struct zip_data` or `concat_data` with the mode of its stream, `dst` the
downstream.  A worker's `stack` holds what it is inside of, because the code
calls back: a push finds a receiver and runs `zip_iter`, which receives from the
next latch and may find a datum there, and so on to `strm_stream_close`.  One
access to a queue or a mode is one step; so `Push` looks for a receiver, `Pushed`
looks at the latch's mode, `Queue` adds the datum, and `Receive` and `Wait` do the
same from the other side.  The scheduler is reduced to what `Delivery` and
`Exclusive` say of it: tasks of one stream in order and one at a time.

**Library.**  `call` is the call that made the stream, `data` its `strm->data`,
`fed` and `out` what it received and emitted, `mode` whether it has closed
itself.  Each `Iter...` operator is a `start_func`, each `Gen...` a producer's
step, each `Finish...` a `close_func`, each `Exec...` the function that parses
the arguments and makes the stream, each `Ary...` the function of arrays.
`Funcall`, a constant, says what the functions of the program return; they fail
(`Failed`) for some arguments.  In `Library` exactly one of these is one step.

**Language.**  The machine `m` holds environments and scopes by number (`envs`,
`scopes`), the namespaces, the streams and links made so far, and for the
function being executed its result (`val`), its stream's exception (`exc`) and
what it has emitted.  `Expr` of `Interpreter` is `exec_expr`: one case per node.
`Statement` executes a statement of the program; `Element` calls the function of
a stream with the next element of a link.  Workers run as soon as a producer is
connected (`core.c:117`), so elements and the statements that follow the
pipeline come in any order.  A call is one step.  For calls of different streams
that is right because they share nothing that they change (`Isolated`, checked
on every step); for a call and a statement of the main thread, because a name
that a call has found stays as it is, and a call ends at the first it does not
find.  What is inside of a single insertion into the table, which has no lock,
is not modelled (section 7).  Names and texts are sequences of bytes; names of the library
that no property looks into are single numbers above 2000.

## 3. Runs

### Scheduler

- `sched_counts` (2 workers, 4 streams): producer | map, sort, take or reduce |
  sink and a fan-out, built from the ends up, and producer | map or take | sink
  connected from left to right, as the parser groups it, so that workers run the
  producer while `main` still links the rest.  `Exclusive` (no two workers in one stream), `CountsLiveStreams`
  (`stream_count` is exactly the streams created and not yet counted down),
  `ReturnsAfterAll` (`strm_loop` returns after every stream has been closed),
  `CloseFuncOnce`.  `NoGaps`: in all of these programs, and whatever the others of
  a program do, from the first element that a stream is invoked for on it gets
  everything from its only upstream, in order and once, until it is closed; what
  is lost when a pipeline is connected while it runs is a beginning.  Deadlock is not checked: in the last program the workers may
  have left when the last stream is created, and `strm_loop` spins for ever.
- `sched_delivery` (2 workers, 5 streams): the pipelines and the fan-out that are
  built from the ends up, a fan-in, and a reduce that gets nothing.  `DeliversSafely`: every step is a step
  of `Delivery`.  So every stream is invoked, per upstream, for a prefix of what
  the upstream emitted, in order, and it is closed after the last upstream and
  with everything they emitted, unless it has had enough or nobody listens.
  `NoEndAfterFailure`: the `close_func` of the empty reduce fails, so its close
  reaches nobody and it is not counted down (`core.c:253`); `strm_loop` does not
  return as if all had been done (it spins).
  All programs of this run are complete before they run (`ReadyToRun`), which
  `DeliveryAssumption` checks; of those both properties are proved (section 6).
  Of a pipeline of three stages as it is usually written the first is false: it
  runs while it is connected.
- `sched_one_worker` (1 worker, 6 streams): `NoStranded`, `ImplementsDelivery`
  (the scheduler implements `Delivery` with its fairness) and `Termination`, also
  for a filter with two upstreams that loses its only listener.

Two runs are expected to find a violation:

- `v_lost_wakeup`: with two workers a task may be left in a stream's queue where
  nobody looks (`core.c:169`).  This is why the liveness run has one worker.
- `v_sort_take`: a killed sort becomes dying again, is closed twice and counted
  twice; the program ends before the last stage has run.  `seq(2) | sort | stdout`
  does the same without a take when the workers are quick: the sort is connected
  to the producer first, and when it is closed before `stdout` is connected to it
  nobody listens.  That is why no program of the passing runs connects a sort or a
  reduce from left to right: `CloseFuncOnce`, `CountsLiveStreams` and
  `ReturnsAfterAll` are false of them.

Three more things the model shows and no run keeps.  A pipeline created after
the first has ended never runs: the workers have left (`core.c:178`) and
`task_init` does not start them again.  The workers start when a
producer is connected, while the program is executed (README.md:48-49 of the
repository says processing comes after it); elements are then lost that are
emitted before the next stage is linked (the beginning only, `NoGaps`), and a sink is closed early if a second
upstream is connected after the first has finished.  And a function object that
returns a value at the end of a pipeline is invoked once only, since its stream
has no listener (`core.c:87`).

### Queue

- `queue_mutex` (3 threads, 3 nodes, 2 values): `Accounted` (a node is free, in
  the list or one thread's, never two of these) and `ImplementsFifo`.

### Key-value store

- `kvs` (3 threads, 3 keys, at most 2 retries): transactions that read one key
  and write another against single calls; and transactions of a single key, when
  memory may run out in any call, one of which reads what it has written itself.
  `ImplementsStore`: whatever the interleaving, what the calls return is what
  some order of whole calls returns.  `RetriesCaused`: a transaction is never tried more often than
  the store has changed since it began.  `EveryCallReturns`.

The programs keep to what the code supports, which `Supported` of `Kvs` states:
each transaction calls get or update and reads no key that it has written
(`Apart`), or nobody else writes and its updates are of keys whose indices agree
in both tables (`Alone`, `InSlots`); with failing memory it writes one key
(`OneKey`), because a commit that fails in the middle leaves what it has copied
(`kvs.c:238`, `CommitPartly`).  `BothSupported` is evaluated with the run.  What
happens outside:

- `v_txn_reread`: a retry reads the values of the try before (`kvs.c:213`); two
  threads that add to one value lose an addition.
- Without a run: a transaction that only puts retries for ever once the store
  has changed (`kvs.c:230`), and `txn.update` stores at an index of the wrong
  table (`kvs.c:382`; `SameSlot` says for which keys the indices agree).

### Latch, zip and concat

- `latch` (two or three upstreams of none to three elements; one worker, and two
  workers with two upstreams; a downstream that takes everything or closes
  itself after one element).  `OneCursor`: `zip_iter` runs on whatever worker
  brings the datum, outside `excl`, and what protects its index and array is that
  a receiver, a callback or a `zip_start` is unique.  `Accounted`: an element is
  in one place.  `InStep`: on one worker zip pairs elements of equal number and
  only its last array may hold nil.  `OvertakenOnce`: with two workers a receiver
  that misses what is being queued gets the next element; an element is overtaken
  by one other at most, and concat never mixes upstreams.  `Ends`: on one worker,
  under fairness, the stream ends, or is dying, or its receiver has come to a
  latch that was already closed; concat of non-empty upstreams ends.  Of two
  workers nothing of that kind holds, since the scheduler may forget the stream of
  a latch (`v_lost_wakeup`).  Deadlock is not checked: calls end.

What `Ends` excepts is what the code does: `latch_close` calls the receivers of
its moment, and one that is queued later (`latch.c:60`) waits for ever; and a zip
whose emit runs on a latch's worker goes dying without a worker that would close
it, as only `task_exec` of its own task looks (`core.c:153`).  When its
downstream has closed itself, concat may be freed while its receiver waits, and
`concat_iter` then reads through NULL (`latch.c:183`); `TypeOK` says that this
needs such a downstream.

### The library

- `library` (61 calls, each with every sequence of up to five of its inputs).
  `ListPromise`: at any moment what has been emitted is the list function of the
  operator's name applied to what has come, elements whose function fails left
  out.  `ArraysAgree`: the function of arrays gives what the stream gives at
  its end, and fails when the function fails for an element (which the stream
  leaves out), with the exceptions below.
  `SortPromise`: the result is an ordered permutation under the comparison in use,
  and the median is in the middle.  `SumPromise`: the compensated sum is the exact
  sum rounded once, with numbers so different that single additions lose the
  small one.  `StatPromise`: one-pass variances and covariances are the sums of
  products of distances from the mean.  `CsvPromise`: rows, headers and types
  from records split by a reference definition that counts quotes.
  `LtsvPromise`, `LinesPromise`: put together again, the pieces are the text, and
  lines come out whole.  Deadlock is not checked: the input is bounded.

Where the code differs from what its name says, the property says what it does.
Of arrays: min and max without a function compare every element with the first
as if it were that one, and return the first (`array.c:121`); variance and stdev
without a function call an uninitialised variable (`stat.c:400` tests for an
argument count that never occurs), and nothing can be said of what they return;
flatmap takes nested arrays apart before it calls the function; correl skips
what is no pair but counts it.  Of streams: take(0) passes everything; median of an even number of elements uses the entry
after the selected one, which may not be the next in order (1, 1, 2, 1 gives
3/2); a median skips nothing but counts an element whose function fails; seq up
to an end of 0 or less is endless; the first element that finds a sample full
always replaces one; a field that ends in a doubled quote keeps its closing
quote; an empty regular file that is not mapped, and one whose last line lacks
its end, are never closed; `sizeof(b->buf)` is the size of a pointer in the
build that maps files (`io.c:208`), so a line longer than eight bytes may be
cut at the end of the buffer; a mapped file whose last line lacks its end is
searched behind its end (`io.c:191`).

### The language

- `language` (1032 programs, some of which go on with statements after the
  pipeline, which the elements overtake or not).  `MapPromise`: what comes out of a pipeline of
  functions is what a definition of the language without scopes, exceptions or
  addresses (`Means`) gives for each element,
  with the variables of the program that are set by then.  `FirstMatch`: a case function runs
  its first clause for which values of the variables make the pattern the
  argument; nothing bound by a clause that failed remains.  `ClassPromise`: where
  a name is found that a class, a field and the program all define.
  `SingleAssignment` and `Isolated`: no variable is ever changed, and a call of a
  stream's function changes no environment that existed before, not even that of
  the function that made the one called, so that two workers do not disturb each
  other without a lock around `env.c`.  (The main thread, which goes on setting
  variables of the program, may disturb them: section 7.)  `TextPromise`: split, chars and escapes
  lose nothing.  Deadlock is not checked: programs end.
- `v_emit`: `map{x-> emit x, x}` gives every element three times, not twice as
  `examples/04emit.strm` says, since emit leaves its last value as the value of
  the function.

Programs of the run avoid what the code does not define.  Met while modelling,
and kept out: a `return` leaves its mark on the stream (`lambda_call` does not
clear it), so a later failure of a stage is taken for a return; `emit` without a
value emits an unwritten one; a splat in a call is not spliced; `N` in an
argument format raises an error and returns OK; `x % 0` stops the process; a
number times what is no number fails an assertion; `!`, `~`, `&`, `&&` and `||`
parse but name no function; a pattern `[head, *rest, last]` never matches, and a
struct pattern whose field is missing reads behind the array (`exec.c:205` tests
the wrong index).

## 4. Bounds

The scheduler has no counters but those of its programs, so a run is finite
because its program is: one or two elements per producer, which is enough for
an element to be overtaken by a close or by its successor, and for a take to
end before its producer.  Two workers and the main thread give all the races of
two threads at every access; what three workers in three streams at once could
add is not checked.  Four or five streams are a producer, two stages, a sink
and a branch, or two producers that meet.  `queue_mutex` has as many nodes as
threads, so that malloc fails, a freed node is reused while a third thread is in
its operation, and the list is emptied and filled again.  The store's programs have up to five writes
by others, more than the retries allowed, so that giving up happens; `MaxTry` is
2 instead of 10, and 10 in `v_txn_reread`.

A latch call has at most three upstreams and three elements in one: enough for
two data to wait while a receiver comes, for one upstream to end before, with or
after another, and for a receiver to miss a datum and get the next.  `library`:
`MaxFed` is 5 elements, so a slice or window of three fills, empties and is left
half full, the quicksort (`Small` 4 instead of 10) partitions, and a reservoir of
two replaces; `MaxOut` 6 bounds endless producers only.  `Precision` 4 and
`Scale` 120 make doubles small: with four significant bits 128 + 1 is 128, so
compensation matters; 120 is divisible by every count up to 5.  Chunks and
buffers of `lines` have up to four bytes.  `language`: `Width` is 4 bits instead
of 32, so that sums and products overflow; programs have bodies of two
statements, patterns of depth two, and one to three elements.

## 5. Fairness

`FairSpec` of `Scheduler` asks weak fairness of each worker's next step and of
the main thread's: they are pthreads, which the operating system runs, no lock
is held across a step.  The only step that waits is the end of `strm_loop`,
whose polling of `stream_count` is modelled by its last reading; `task_loop`
polls in the model too, so a stuck program is a lasso as long as a worker lives.
No fairness between the run queues is assumed.  `FairSpec` of `Kvs` asks the same
of each thread; the mutex is never held between two steps.  `FairSpec` of
`Latch` asks weak fairness of each worker's next step, of the main thread's
`Connect`, of each upstream, and of executing each stream that has a task; but of what a
worker has to find in a run queue (the upstreams, the tasks of a latch, the
start and the end of the stream) only where there is one worker, for which
`sched_one_worker` shows it of the scheduler.  With two, `core.c:169` may forget
a stream, and `Ends` promises nothing.  All behaviours of
`Latch` are finite, so weak fairness says no more than that nobody stops halfway.

## 6. Proofs

The assumptions are those the modules name, which TLC evaluates in the runs:
`NilAssumption` (nil, which tasks without data carry, is no element),
`NullAssumption` and `SchedulerAssumption` (the null pointer is no stream, the
main thread no worker, programs are well-formed), `QueueAssumption` (there are
finitely many nodes, and `Null` is none), `KvsAssumption` (finitely many keys;
programs are lists of calls, and only what has been read can be derived from) and
`LatchAssumption` (calls are of zip or concat with an upstream or more; and, in
`Latch`'s own `NilAssumption`, that nil is no element and no array).  What a
theorem asks beyond these is in its statement.

`SchedulerProofs`, for every set of streams and workers and every program:

- `TypeCorrect`: `TypeOK`.  One lemma per action; the agenda's elements are
  typed operations, which is what types the primed variables.
- `MutualExclusion`: `Exclusive`.  The invariant says that a worker between
  `Claim` and `Release` holds a stream whose `excl` is set and that no two hold
  the same; only these two actions touch `excl`.
- `NothingStranded`: with one worker (`OneWorker`), `NoStranded`.  The invariant
  `NothingLost` adds that an `addTask` on an agenda is followed by its `addStream`
  (`AddsComplete`), that idle workers have an empty agenda, that streams not yet
  created have no tasks, and that a set `excl` has a holder (`FlagHeld`).  With
  two workers the theorem is false, which `v_lost_wakeup` shows.

`ClosingProofs`, for every set of streams and workers and every program in which
no stream emits when it is closed (`Quiet`: no sort and no reduce):

- `ClosedOnce`: `CloseFuncOnce`.  `CountIsExact`: `CountsLiveStreams`.
  `ReturnsLast`: `ReturnsAfterAll`, from the count and from strm_loop's test of it.

  The guard of `Kill` compares the mode with what `Close` has read, which does not
  say by itself that a stream is killed once: a killed stream that went dying would
  be killed again.  The invariant `Closing` says why it does not.  A worker's steps
  belong to the stream it holds (`Fit`), so two agendas never have steps of one
  stream that only its worker does (`OwnStep`, from `Exclusive`); and in one agenda
  no emission or termination check comes after a step that may close the stream,
  and no two steps count down (`Orderly`).  Each step gives way to steps that may
  stand where it stood (`GivesWay`, `Inherits`), so the order survives without
  looking at whole agendas.  `Prepared` and `Exists` say that a stream that is
  connected, queued or linked has been created, so no mode is changed before.

  The hypothesis is needed: a sort that emits in its `close_func` and finds that
  nobody listens makes itself dying and is closed and counted down again
  (`v_sort_take`), and a reduce that fails is never counted down (`core.c:253`).
  Programs connected from left to right are among these, as long as they have no
  sort or reduce.  With sort and reduce the same is proved of programs that are
  complete before they run, next; connected from left to right it is false.

and, for every set of streams and workers and every program, `a | b | c` as the parser
groups it included:

- `DeliversOnwards`: `NoGaps`.  What a stream has emitted may be in five places at
  once: lost before the connection, received, queued, emitted and still to be passed
  on, or refused by a closed stream.  The invariant `Gapless` puts them in order.  For
  every connection, `Flow`: from some element on, what upstream has emitted is what has
  come, then what the tasks in the queue bring, then the element in flight.  For every
  stream, `Stage`: whether its agenda is before, in or after passing an element to its
  `dst` and its `rest`, and which of them have it (`Flies`), which is what the interleaving
  of a worker in `emit` with the main thread in `strm_stream_connect` comes down to.  A
  connection made meanwhile starts its `Flow` at the element emitted next, or at the one
  in flight if the walk over `rest` still reaches it.  `Progress` relates what is created
  and connected to how far the main thread is in the program, so that the one
  connection to a stream is made once.  A stream that is closed takes nothing more
  (`Open`), but what is in its queue may still be executed while it is only dying, or
  while a step of its `close_func` is left that may make it so (`Alive`).

`PipelineProofs` and `DeliveryProofs`, for every set of streams and workers and
every set of programs that are complete before they run (`ReadyToRun`), with all
kinds of stream, fan-out and fan-in.  Those are streams that are kept in variables
and connected afterwards, or two stages; `a | b | c` is not one, since the parser
groups it as `(a | b) | c` (`parse.y:98`, `exec.c:129-135`), and `a` runs before `b` has
a downstream:

- `Delivers`: `DeliversSafely`, that every step of a worker or of the main thread is
  a step of `Delivery` or none.
- `ClosesOnce`: `CloseFuncOnce`.  `ReturnsSafely`: `ReturnsAfterAll`.
  `FailureHolds`: `NoEndAfterFailure`.  `CountsExactly`: `CountsLiveStreams`, when
  there is no reduce, whose `close_func` may fail.

  `ReadyToRun` has four parts.  Each excludes programs
  of which the statement is false or which `Delivery` does not describe:
  `FromTheEnds` (built from the ends, each producer connected last and once): the
  workers start when a producer is connected, and what is emitted before a link
  exists does not go over it; a stream whose first upstream has closed it cannot
  take a second.  `Outlets` (what emits is connected to something): a stream
  without outlet finds that nobody listens and goes dying.  `OnePath` (streams that
  meet bring different elements): `Delivery` tells the elements of two upstreams
  apart by where they were made.  `NoTakeAfter` (no take after a sort, a reduce or
  a stream with two upstreams): a take that has had enough makes the stream before
  it find that nobody listens, and a sort or reduce is then closed again
  (`v_sort_take`), while of two upstreams only one close counts (`core.c:153`).

  The invariant `Delivering` says of each stream where its execution is (`Phase`):
  what stands on the agenda of the worker that executes it, and with that what the
  stream has emitted against what it owes.  And it says of each open stream what is
  under way to it (`Channel`): what an upstream has emitted is what the stream has
  been invoked for, then what its queue holds of this upstream, then what the
  upstream is about to add; and the closes still to be counted are as many as
  upstreams that have not passed theirs on (`refcnt`, corrected by the reference
  being added or the close being counted).  Around these: what of the program the
  main thread has executed and what is therefore linked (`MainOK`, `Linked`), that
  nothing is executed or queued of a stream that is not connected (`Awake`), where
  each element comes from (`Origins`), that streams before a lasting one find
  somebody listening (`Lasts`).  Since only the executing worker has steps of a
  stream (`ExclusiveInv`), a step changes one stream's `Phase` and the `Channel`s
  that begin or end there.  `Moves` says what the step is for `Delivery`: an emission,
  an invocation, a close, an end, or nothing; `PastsAgree`, that a stream has ended
  for `Delivery` when its closes have been passed on.

  `Tallied` adds the count: `stream_count` is the number of streams that are open, or
  whose `close_func` has failed, or whose `countDown` is still on an agenda
  (`Standing`); `kills` is 1 exactly for killed streams.  `CountsPhase` says that an
  execution counts only its own stream down, once and after its `close_func`.

`MutexQueueProofs`, for any number of threads, nodes and values:

- `TypeCorrect`: `TypeOK`.  `MemoryAccounted`: `Accounted`.  `ImplementsQueue`:
  `ImplementsFifo`, by a step of `Fifo` or a stutter for each step of the code.

  The invariant `Queues` says that there is a sequence of nodes that the memory
  holds from `head` on (`IsList`), in which each node is once and no thread's
  (`Apart`), that no node is lost (`Kept`), and where `tail` points in the middle of
  each critical section (`Tailed`).  The refinement reads the queue's content from
  memory; there is one such sequence only (`OneList`, by induction), so `List`, which
  is a choice in the module, is that one.  The read of `head` outside of the lock is
  where an operation on the empty queue takes effect.

`KvsProofs`, for every program, number of threads and keys, and `MaxTry`:

- `NoSpuriousRetry`: `RetriesCaused`.  The invariant `Counted` bounds the tries since
  the transaction began by the serial it has read, not by the store's, and strictly
  by the store's while a retry is under way.
- `TypeCorrect`: `TypeOK`, with where each kind of call can be in the code (`Placed`).
- `Serializable`, for programs that are `Supported`: `ImplementsStore`.  The invariant `Following` says: as long as the
  store's serial is the one the transaction has read, running the operations it has
  done on the store of this moment gives what it has read and what its table holds
  for the keys it has written; what an earlier try left in the table will be written
  again before it is read.  So at the commit, which the serial guards, the whole
  body takes effect at once.  A commit changes the serial, so nothing is to be shown
  for other transactions afterwards.  A failing or abandoned call is a step of `Store`
  that changes nothing.  Without `Supported` the refinement fails (`v_txn_reread`).

`LatchProofs`, for any number of upstreams, of any length, and of workers:

- `OneGoesOn`: `OneCursor`.  The invariant has a witness: there is one `c`, the
  unborn stream, the start task, the receiver of one latch, a worker or the freed
  stream, that may go on (`Only`), and every step hands it over.  That needs what a
  worker's stack can look like in the middle of nested calls (`Stack`: the calls in
  progress form one chain and only the innermost can go on), and that `z.i` stays
  within the array as long as somebody asks for a datum (`Filling`).
- `TypeCorrect`: `TypeOK`, in particular that `zip_iter` and `concat_iter` find their
  data as long as the downstream listens.

Induction over the natural numbers is done once, in `Induction`: the library's
theorems take an operator as a parameter, which the provers cannot instantiate, so
it is stated for sets (`EveryNumber`) and derived from the well-foundedness of the
subsets of a finite set.

Only model-checked: what needs fairness (`Termination`, `EveryCallReturns`, `Ends`,
the liveness of `ImplementsDelivery`), which is beyond the prover; of
`Latch`, `Accounted`, `InStep` and `OvertakenOnce`, which speak of the history of all
elements.  `Library` and `Language` rest on recursive operators
(equality of arrays, quicksort, evaluation), which the prover does not accept: what
they promise is model-checked only.

## 7. What is not modelled

- C undefined behaviour: `rest` reallocated while a worker walks it, the second
  `finish_sort` on freed data, `kvs_close` under use, the unlock without lock
  in `kvs_update` when its function fails (functions given to the store do not
  fail here), and an out-of-bounds store in `txn.update` (its effect is modelled
  as the entry staying uninitialised).
- The tables of variables under concurrent use: `khash` has no lock, and the main
  thread may be inside `kh_put` for a variable of the program, where the table is
  enlarged and a key is there before its value, while a worker looks a name up.
- Memory failure in the scheduler: it is not checked by `core.c`.  Weak memory
  orders: steps are sequentially consistent.
- The lock-free variant of `queue.c`, which the Makefile does not build (its
  comment at line 169 names the ABA problem), and `strm_queue_free`, which has no
  caller.
- Of input and output: the poll thread, `strm_io_stop` and writing.
- The table of interned strings under its mutex (`string.c`): names are equal or
  not in the model.  Formatting of values for output.
- Calendar arithmetic, the mathematical functions, random number generators,
  sockets, the terminal graph, option parsing: wrappers of the C library and the
  operating system, or arithmetic without a protocol.
- Signals.  One thing to note: `strm_unsignal` never moves `tmp`, so it takes every
  entry it removes for the head of the list and drops what comes before it; only
  `graph.c` calls it.
- Generated code (grammar, scanner) and `khash.h`.

## 8. Plan

1. Proofs: `Accounted` and `InStep` of `Latch`.
2. `PollLoop`: the count of waiting streams against `strm_loop`, composed with
   `Delivery`.
3. `Intern`: the table of strings under its lock.
