---------------------------- MODULE PipelineProofs ----------------------------
(***************************************************************************)
(* What holds of a program that is complete before it runs (ReadyToRun)    *)
(* while the scheduler executes it, and how it survives the steps of one   *)
(* stream's execution.                                                     *)
(*                                                                         *)
(* The invariant, Delivering, says of every stream where in its execution  *)
(* it is (Phase), and of every stream what is under way to it (Channel):   *)
(* the elements its upstreams have emitted are those it has been invoked   *)
(* for, then those in its queue, then those the upstreams are just passing *)
(* on, and as many closes are still to be counted as upstreams are open.   *)
(***************************************************************************)
EXTENDS SchedulerProofs, Pipelines, FiniteSetTheorems

-----------------------------------------------------------------------------
(* One link: what upstream u has emitted, Su, is what the stream has been  *)
(* invoked for, what its queue q holds of u, and what u is about to add to *)
(* it.                                                                     *)

\* The last of q.
Latest(q) == q[Len(q)]

\* The elements of E in g.
Count(g, E) == Cardinality({j \in 1..Len(g) : g[j] \in E})

\* Task x brings an element of E.
Brings(x, E) == x.f = "start" /\ x.d \in E

Gain(x, E) == IF Brings(x, E) THEN 1 ELSE 0

\* r[i] elements of E have been delivered when the first i tasks of q are done.
Advance(E, q, r, Su, i) ==
  \/ Brings(q[i], E) /\ r[i] = r[i - 1] + 1 /\ q[i].d = Su[r[i]]
  \/ ~Brings(q[i], E) /\ r[i] = r[i - 1]

Line(E, q, g, r, Su, flying) ==
  /\ r \in [Nat -> Nat]
  /\ r[0] = Count(g, E)
  /\ \A i \in 1..Len(q) : Advance(E, q, r, Su, i)
  /\ \A i \in 0..Len(q) : r[i] <= r[Len(q)]
  /\ Len(Su) = r[Len(q)] + flying

\* r goes on with v after its number l.
Extend(r, l, v) == [i \in Nat |-> IF i <= l THEN r[i] ELSE v]

\* r without its first number.
Beyond(r) == [i \in Nat |-> r[i + 1]]

LEMMA BeyondFacts ==
  ASSUME NEW r \in [Nat -> Nat]
  PROVE  /\ Beyond(r) \in [Nat -> Nat]
         /\ \A i \in Nat : Beyond(r)[i] = r[i + 1]
  BY DEF Beyond

\* h is r up to l, and v after that.
Extends(h, r, l, v) == /\ h \in [Nat -> Nat]
                       /\ \A i \in 0..l : h[i] = r[i]
                       /\ h[l + 1] = v

LEMMA ExtendFacts ==
  ASSUME NEW r \in [Nat -> Nat], NEW l \in Nat, NEW v \in Nat
  PROVE  Extends(Extend(r, l, v), r, l, v)
  BY DEF Extend, Extends

LEMMA CountFacts ==
  ASSUME NEW T, NEW g \in Seq(T), NEW d \in T, NEW E
  PROVE  /\ Count(g, E) \in Nat
         /\ Count(Append(g, d), E) = Count(g, E) + (IF d \in E THEN 1 ELSE 0)
<1> DEFINE A == {j \in 1..Len(g) : g[j] \in E}
           B == {j \in 1..Len(Append(g, d)) : Append(g, d)[j] \in E}
<1>1. IsFiniteSet(A) /\ Cardinality(A) \in Nat
  <2>1. IsFiniteSet(1..Len(g)) /\ A \in SUBSET (1..Len(g))
    BY FS_Interval
  <2> QED
    BY <2>1, FS_Subset, FS_CardinalityType
<1>2. /\ Len(Append(g, d)) = Len(g) + 1
      /\ \A j \in 1..Len(g) : Append(g, d)[j] = g[j]
      /\ Append(g, d)[Len(g) + 1] = d
  OBVIOUS
<1>3. d \in E => Cardinality(B) = Cardinality(A) + 1
  <2> SUFFICES ASSUME d \in E PROVE Cardinality(B) = Cardinality(A) + 1
    OBVIOUS
  <2>1. B = A \cup {Len(g) + 1} /\ Len(g) + 1 \notin A
    BY <1>2
  <2> HIDE DEF A, B
  <2> QED
    BY <2>1, <1>1, FS_AddElement
<1>4. d \notin E => Cardinality(B) = Cardinality(A)
  <2> SUFFICES ASSUME d \notin E PROVE Cardinality(B) = Cardinality(A)
    OBVIOUS
  <2>1. B = A
    BY <1>2
  <2> HIDE DEF A, B
  <2> QED
    BY <2>1
<1>5. Count(g, E) = Cardinality(A) /\ Count(Append(g, d), E) = Cardinality(B)
  BY DEF Count
<1> HIDE DEF A, B
<1> QED
  BY <1>1, <1>3, <1>4, <1>5

\* The upstream emits.
LEMMA LineEmit ==
  ASSUME NEW E, NEW q, Len(q) \in Nat, NEW g, NEW r, NEW Su \in Seq(Data), NEW e \in Data,
         Line(E, q, g, r, Su, 0)
  PROVE  Line(E, q, g, r, Append(Su, e), 1)
<1>1. /\ Len(Append(Su, e)) = Len(Su) + 1 /\ Len(Su) \in Nat
      /\ \A i \in 1..Len(Su) : Append(Su, e)[i] = Su[i]
  OBVIOUS
<1>2. /\ r \in [Nat -> Nat] /\ Len(Su) = r[Len(q)]
      /\ \A i \in 0..Len(q) : r[i] <= r[Len(q)]
  BY DEF Line
<1>3. ASSUME NEW i \in 1..Len(q)
      PROVE  Advance(E, q, r, Append(Su, e), i)
  <2>1. Advance(E, q, r, Su, i)
    BY DEF Line
  <2>2. i - 1 \in Nat /\ i \in Nat /\ i \in 0..Len(q)
    OBVIOUS
  <2>3. r[i - 1] \in Nat /\ r[i] \in Nat /\ r[i] <= Len(Su)
    BY <2>2, <1>2
  <2>4. CASE Brings(q[i], E)
    <3>1. r[i] \in 1..Len(Su)
      BY <2>1, <2>3, <2>4, <1>1 DEF Advance
    <3> QED
      BY <2>1, <2>4, <3>1, <1>1 DEF Advance
  <2>5. CASE ~Brings(q[i], E)
    BY <2>1, <2>5 DEF Advance
  <2> QED
    BY <2>4, <2>5
<1> QED
  BY <1>1, <1>2, <1>3 DEF Line

\* A task comes into the queue: the element in flight, or nothing of this upstream.
LEMMA LineAppend ==
  ASSUME NEW E, NEW q \in Seq(Tasks), NEW x \in Tasks, NEW g, NEW r, NEW Su \in Seq(Data), NEW b \in {0, 1},
         NEW flying \in {0, 1}, Line(E, q, g, r, Su, flying + b),
         flying + b \in {0, 1},
         Brings(x, E) => b = 1 /\ x.d = Latest(Su), ~Brings(x, E) => b = 0
  PROVE  Line(E, Append(q, x), g, Extend(r, Len(q), r[Len(q)] + b), Su, flying)
<1> DEFINE p == Append(q, x)
           v == r[Len(q)] + b
           h == Extend(r, Len(q), v)
<1>1. /\ Len(p) = Len(q) + 1 /\ Len(q) \in Nat
      /\ \A i \in 1..Len(q) : p[i] = q[i]
      /\ p[Len(q) + 1] = x
  OBVIOUS
<1>2. /\ r \in [Nat -> Nat] /\ r[0] = Count(g, E)
      /\ Len(Su) = v + flying
      /\ \A i \in 0..Len(q) : r[i] <= r[Len(q)]
  <2>1. Len(Su) = r[Len(q)] + (flying + b) /\ r[Len(q)] \in Nat
    BY <1>1 DEF Line
  <2>2. Len(Su) = v + flying
    BY <2>1
  <2> QED
    BY <2>2 DEF Line
<1>3. v \in Nat /\ r[Len(q)] \in Nat /\ r[Len(q)] <= v
  <2>1. r[Len(q)] \in Nat
    BY <1>1, <1>2
  <2> QED
    BY <2>1
<1>4. /\ h \in [Nat -> Nat]
      /\ \A i \in 0..Len(q) : h[i] = r[i]
      /\ h[Len(q) + 1] = v
  <2>1. Len(q) \in Nat /\ r \in [Nat -> Nat]
    BY <1>1, <1>2
  <2> HIDE DEF p, v
  <2> QED
    BY <2>1, <1>3, ExtendFacts, ZenonT(40) DEF Extends
<1> HIDE DEF p, h, v
<1>5. ASSUME NEW i \in 1..Len(p)
      PROVE  Advance(E, p, h, Su, i)
  <2>1. CASE i \in 1..Len(q)
    <3>1. i - 1 \in 0..Len(q) /\ i \in 0..Len(q) /\ p[i] = q[i]
      BY <2>1, <1>1
    <3>2. Advance(E, q, r, Su, i)
      BY <2>1 DEF Line
    <3>3. h[i - 1] = r[i - 1] /\ h[i] = r[i]
      BY <3>1, <1>4
    <3> QED
      BY <3>1, <3>2, <3>3 DEF Advance
  <2>2. CASE i = Len(q) + 1
    <3>1. p[i] = x /\ h[i] = v /\ h[i - 1] = r[Len(q)]
      BY <2>2, <1>1, <1>4
    <3>2. CASE Brings(x, E)
      <4>1. b = 1 /\ x.d = Latest(Su) /\ Len(Su) = v /\ v = r[Len(q)] + 1
        <5>1. b = 1 /\ flying = 0 /\ x.d = Latest(Su)
          BY <3>2
        <5> QED
          BY <5>1, <1>2, <1>3 DEF v
      <4> QED
        BY <3>1, <3>2, <4>1 DEF Advance, Latest
    <3>3. CASE ~Brings(x, E)
      <4>1. v = r[Len(q)]
        BY <3>3, <1>3 DEF v
      <4> QED
        BY <3>1, <3>3, <4>1 DEF Advance
    <3> QED
      BY <3>2, <3>3
  <2> QED
    BY <1>1, <2>1, <2>2
<1>6. ASSUME NEW i \in 0..Len(p)
      PROVE  h[i] <= h[Len(p)]
  <2>1. CASE i \in 0..Len(q)
    <3>1. h[i] = r[i] /\ r[i] <= r[Len(q)] /\ r[i] \in Nat /\ h[Len(p)] = v
      BY <2>1, <1>1, <1>2, <1>4
    <3> QED
      BY <3>1, <1>3
  <2>2. CASE i = Len(p)
    <3>1. h[i] \in Nat
      BY <2>2, <1>1, <1>4
    <3> QED
      BY <3>1, <2>2
  <2> QED
    BY <2>1, <2>2, <1>1
<1>7. Len(Su) = h[Len(p)] + flying
  <2>1. h[Len(p)] = v
    BY <1>1, <1>4
  <2> QED
    BY <2>1, <1>2
<1>8. h[0] = Count(g, E)
  BY <1>1, <1>2, <1>4
<1> QED
  BY <1>4, <1>5, <1>6, <1>7, <1>8 DEF Line, p, h, v

\* The first task leaves the queue, and the stream is invoked for its element.
LEMMA LineTake ==
  ASSUME NEW E, NEW q \in Seq(Tasks), q # <<>>, NEW g \in Seq(Data), NEW h \in Seq(Data),
         NEW r, NEW Su \in Seq(Data), NEW flying \in {0, 1}, Line(E, q, g, r, Su, flying),
         Brings(Head(q), E) => h = Append(g, Head(q).d),
         ~Brings(Head(q), E) => Count(h, E) = Count(g, E)
  PROVE  Line(E, Tail(q), h, Beyond(r), Su, flying)
<1> DEFINE p == Tail(q)
           f == Beyond(r)
<1>1. /\ Len(p) + 1 = Len(q) /\ Len(p) \in Nat
      /\ \A i \in 1..Len(p) : p[i] = q[i + 1]
      /\ Head(q) = q[1] /\ q[1] \in Tasks
  OBVIOUS
<1>2. /\ r \in [Nat -> Nat] /\ r[0] = Count(g, E)
      /\ Len(Su) = r[Len(q)] + flying
      /\ \A i \in 0..Len(q) : r[i] <= r[Len(q)]
  BY DEF Line
<1>3. f \in [Nat -> Nat] /\ \A i \in Nat : f[i] = r[i + 1]
  BY <1>2, BeyondFacts
<1>4. f[0] = Count(h, E)
  <2>1. Advance(E, q, r, Su, 1) /\ f[0] = r[1] /\ 1 - 1 = 0
    BY <1>1, <1>3 DEF Line
  <2>2. CASE Brings(Head(q), E)
    <3>1. Head(q).d \in Data /\ Head(q).d \in E /\ h = Append(g, Head(q).d)
      BY <2>2, <1>1 DEF Brings, Tasks
    <3>2. Count(h, E) = Count(g, E) + 1
      BY <3>1, CountFacts
    <3> QED
      BY <2>1, <2>2, <3>2, <1>1, <1>2 DEF Advance
  <2>3. CASE ~Brings(Head(q), E)
    BY <2>1, <2>3, <1>1, <1>2 DEF Advance
  <2> QED
    BY <2>2, <2>3
<1> HIDE DEF p, f
<1>5. ASSUME NEW i \in 1..Len(p)
      PROVE  Advance(E, p, f, Su, i)
  <2>1. i + 1 \in 1..Len(q) /\ i \in Nat /\ i - 1 \in Nat /\ (i + 1) - 1 = i /\ (i - 1) + 1 = i
    BY <1>1
  <2>2. Advance(E, q, r, Su, i + 1)
    BY <2>1 DEF Line
  <2>3. f[i] = r[i + 1] /\ f[i - 1] = r[i] /\ p[i] = q[i + 1]
    BY <2>1, <1>1, <1>3
  <2> QED
    BY <2>1, <2>2, <2>3 DEF Advance
<1>6. f[Len(p)] = r[Len(q)]
  BY <1>1, <1>3
<1>7. ASSUME NEW i \in 0..Len(p)
      PROVE  f[i] <= f[Len(p)]
  <2>1. i \in Nat /\ i + 1 \in 0..Len(q)
    BY <1>1
  <2> QED
    BY <2>1, <1>2, <1>3, <1>6
<1> QED
  BY <1>2, <1>3, <1>4, <1>5, <1>6, <1>7 DEF Line, p, f

-----------------------------------------------------------------------------
(* What comes to a stream from its upstreams U: E[u] is what may come from *)
(* u, S[u] what u has emitted, q the stream's tasks and g what it has been *)
(* invoked for.  The upstreams in F have emitted an element that is not in *)
(* q yet, and those in C have not closed it; m is how many closes it still *)
(* waits for.                                                              *)

\* k[i] closes are still to come when the first i tasks of q are done.
Expires(q, k, i) == \/ q[i].f = "close" /\ k[i - 1] = k[i] + 1
                    \/ q[i].f # "close" /\ k[i - 1] = k[i]

\* The upstreams of which something comes after the first i tasks.
Behind(U, C, r, l, i) == C \union {u \in U : r[u][i] # r[u][l]}

Ending(U, q, r, k, C, m) ==
  /\ k \in [Nat -> Nat] /\ k[0] = m /\ k[Len(q)] = Cardinality(C)
  /\ \A i \in 1..Len(q) : Expires(q, k, i)
  /\ \A i \in 0..Len(q) : Cardinality(Behind(U, C, r, Len(q), i)) <= k[i]

\* A task brings something only from an upstream.
Brought(U, E, q) == \A i \in 1..Len(q) :
  q[i].f = "start" /\ q[i].d # Nil => \E u \in U : q[i].d \in E[u]

Flying(F, u) == IF u \in F THEN 1 ELSE 0

Chan(U, E, q, g, S, F, C, m) ==
  \E r, k :
    /\ r \in [U -> [Nat -> Nat]]
    /\ \A u \in U : Line(E[u], q, g, r[u], S[u], Flying(F, u))
    /\ Ending(U, q, r, k, C, m)
    /\ Brought(U, E, q) /\ F \subseteq C /\ C \subseteq U /\ m <= Cardinality(U)

\* A sequence for each of U.
Sequences(S, U, T) == \A u \in U : S[u] \in Seq(T)

\* An upstream emits an element.
LEMMA ChanEmit ==
  ASSUME NEW U, NEW E, NEW q \in Seq(Tasks), NEW g, NEW S, Sequences(S, U, Data), NEW F, NEW C, NEW m,
         Chan(U, E, q, g, S, F, C, m), NEW u \in C, u \notin F, NEW e \in Data,
         NEW Z, \A v \in U : Z[v] = IF v = u THEN Append(S[v], e) ELSE S[v]
  PROVE  Chan(U, E, q, g, Z, F \union {u}, C, m)
<1>1. PICK r, k :
        /\ r \in [U -> [Nat -> Nat]]
        /\ \A v \in U : Line(E[v], q, g, r[v], S[v], Flying(F, v))
        /\ Ending(U, q, r, k, C, m)
        /\ Brought(U, E, q) /\ F \subseteq C /\ C \subseteq U /\ m <= Cardinality(U)
  BY DEF Chan
<1>2. Len(q) \in Nat /\ u \in U
  BY <1>1
<1>3. ASSUME NEW v \in U
      PROVE  Line(E[v], q, g, r[v], Z[v], Flying(F \union {u}, v))
  <2>1. Line(E[v], q, g, r[v], S[v], Flying(F, v)) /\ S[v] \in Seq(Data)
    BY <1>1 DEF Sequences
  <2>2. CASE v = u
    <3>1. Flying(F, v) = 0 /\ Flying(F \union {u}, v) = 1 /\ Z[v] = Append(S[v], e)
      BY <2>2, <1>2 DEF Flying
    <3> QED
      BY <2>1, <3>1, <1>2, LineEmit
  <2>3. CASE v # u
    <3>1. Flying(F \union {u}, v) = Flying(F, v) /\ Z[v] = S[v]
      BY <2>3 DEF Flying
    <3> QED
      BY <2>1, <3>1
  <2> QED
    BY <2>2, <2>3
<1>4. F \union {u} \subseteq C
  BY <1>1
<1> QED
  BY <1>1, <1>3, <1>4 DEF Chan

\* A task comes into the queue: the element an upstream has emitted last, the close
\* of an upstream, or nil.
LEMMA ChanAppend ==
  ASSUME NEW U, IsFiniteSet(U), NEW E, NEW q \in Seq(Tasks), NEW g, NEW S, Sequences(S, U, Data),
         NEW F, NEW C, NEW m, Chan(U, E, q, g, S, F, C, m),
         NEW x \in Tasks, NEW G, NEW B, G \subseteq B,
         \A v \in U : Brings(x, E[v]) => v \in F /\ v \notin G /\ x.d = Latest(S[v]),
         \A v \in U : ~Brings(x, E[v]) => (v \in G <=> v \in F),
         x.f = "start" /\ x.d # Nil => \E v \in U : x.d \in E[v],
         x.f = "start" => B = C, x.f = "close" => \E u \in C : B = C \ {u}
  PROVE  Chan(U, E, Append(q, x), g, S, G, B, m)
<1> DEFINE p == Append(q, x)
           l == Len(q)
<1>1. PICK r, k :
        /\ r \in [U -> [Nat -> Nat]]
        /\ \A v \in U : Line(E[v], q, g, r[v], S[v], Flying(F, v))
        /\ Ending(U, q, r, k, C, m)
        /\ Brought(U, E, q) /\ F \subseteq C /\ C \subseteq U /\ m <= Cardinality(U)
  BY DEF Chan
<1> DEFINE R == [v \in U |-> Extend(r[v], l, r[v][l] + Gain(x, E[v]))]
           K == Extend(k, l, Cardinality(B))
<1>2. /\ Len(p) = l + 1 /\ l \in Nat
      /\ \A i \in 1..l : p[i] = q[i]
      /\ p[l + 1] = x
  OBVIOUS
<1>3. /\ B \subseteq C /\ IsFiniteSet(C) /\ IsFiniteSet(B)
      /\ Cardinality(B) \in Nat
      /\ x.f = "start" => Cardinality(C) = Cardinality(B)
      /\ x.f = "close" => Cardinality(C) = Cardinality(B) + 1
  <2>1. IsFiniteSet(C) /\ Cardinality(C) \in Nat /\ x.f \in {"start", "close"}
    BY <1>1, FS_Subset, FS_CardinalityType DEF Tasks, Funcs
  <2>2. CASE x.f = "start"
    BY <2>1, <2>2
  <2>3. CASE x.f = "close"
    <3>1. PICK u \in C : B = C \ {u}
      BY <2>3
    <3>2. IsFiniteSet(B) /\ Cardinality(B) = Cardinality(C) - 1
      BY <2>1, <3>1, FS_RemoveElement
    <3> QED
      BY <2>1, <2>3, <3>1, <3>2, FS_CardinalityType
  <2> QED
    BY <2>1, <2>2, <2>3
<1>4. ASSUME NEW v \in U
      PROVE  /\ Line(E[v], p, g, Extend(r[v], l, r[v][l] + Gain(x, E[v])), S[v], Flying(G, v))
             /\ Extend(r[v], l, r[v][l] + Gain(x, E[v])) \in [Nat -> Nat]
  <2>1. Line(E[v], q, g, r[v], S[v], Flying(F, v)) /\ S[v] \in Seq(Data)
    BY <1>1 DEF Sequences
  <2>2. Gain(x, E[v]) \in {0, 1} /\ Flying(G, v) \in {0, 1}
    BY DEF Flying, Gain
  <2>3. Flying(F, v) = Flying(G, v) + Gain(x, E[v])
    BY DEF Flying, Gain
  <2>4. Flying(G, v) + Gain(x, E[v]) \in {0, 1}
    BY <2>3 DEF Flying
  <2>5. Brings(x, E[v]) => Gain(x, E[v]) = 1 /\ x.d = Latest(S[v])
    BY DEF Gain
  <2>6. ~Brings(x, E[v]) => Gain(x, E[v]) = 0
    BY DEF Gain
  <2>7. PICK c : c = Gain(x, E[v])
    OBVIOUS
  <2>8. PICK f : f = Flying(G, v)
    OBVIOUS
  <2>9. PICK h : h = r[v]
    OBVIOUS
  <2> HIDE DEF p, l
  <2>10. Line(E[v], Append(q, x), g, Extend(h, Len(q), h[Len(q)] + c), S[v], f)
    <3>1. /\ c \in {0, 1} /\ f \in {0, 1} /\ f + c \in {0, 1}
          /\ Line(E[v], q, g, h, S[v], f + c)
          /\ Brings(x, E[v]) => c = 1 /\ x.d = Latest(S[v])
          /\ ~Brings(x, E[v]) => c = 0
      BY <2>1, <2>2, <2>3, <2>4, <2>5, <2>6, <2>7, <2>8, <2>9
    <3> QED
      BY <2>1, <3>1, LineAppend
  <2>11. Line(E[v], p, g, Extend(r[v], l, r[v][l] + Gain(x, E[v])), S[v], Flying(G, v))
    BY <2>7, <2>8, <2>9, <2>10 DEF p, l
  <2> QED
    BY <2>11 DEF Line
<1>5. R \in [U -> [Nat -> Nat]] /\ \A v \in U : Line(E[v], p, g, R[v], S[v], Flying(G, v))
  BY <1>4
<1>6. /\ k \in [Nat -> Nat] /\ k[0] = m /\ k[l] = Cardinality(C)
      /\ \A i \in 0..l : Cardinality(Behind(U, C, r, l, i)) <= k[i]
  BY <1>1 DEF Ending
<1>7. /\ K \in [Nat -> Nat] /\ \A i \in 0..l : K[i] = k[i]
      /\ K[l + 1] = Cardinality(B)
  <2>1. PICK c : c = Cardinality(B)
    OBVIOUS
  <2> HIDE DEF p, l
  <2>2. k \in [Nat -> Nat] /\ l \in Nat /\ c \in Nat
    BY <1>2, <1>3, <1>6, <2>1
  <2>3. Extends(Extend(k, l, c), k, l, c)
    BY <2>2, ExtendFacts
  <2>4. Extends(K, k, l, c)
    BY <2>1, <2>3
  <2> QED
    BY <2>1, <2>4 DEF Extends
<1> HIDE DEF p, l, R, K
<1>8. ASSUME NEW i \in 1..Len(p)
      PROVE  Expires(p, K, i)
  <2>1. CASE i \in 1..l
    <3>1. i - 1 \in 0..l /\ i \in 0..l /\ p[i] = q[i]
      BY <2>1, <1>2
    <3>2. Expires(q, k, i)
      BY <2>1, <1>1 DEF Ending, l
    <3>3. K[i - 1] = k[i - 1] /\ K[i] = k[i]
      BY <3>1, <1>7
    <3> QED
      BY <3>1, <3>2, <3>3 DEF Expires
  <2>2. CASE i = l + 1
    <3>1. p[i] = x /\ K[i] = Cardinality(B) /\ K[i - 1] = Cardinality(C) /\ x.f \in {"start", "close"}
      BY <2>2, <1>2, <1>6, <1>7 DEF Tasks, Funcs
    <3> QED
      BY <3>1, <1>3 DEF Expires
  <2> QED
    BY <1>2, <2>1, <2>2
<1>9. ASSUME NEW i \in 0..Len(p)
      PROVE  Cardinality(Behind(U, B, R, Len(p), i)) <= K[i]
  <2>1. CASE i \in 0..l
    <3>1. Behind(U, B, R, Len(p), i) \subseteq Behind(U, C, r, l, i)
      <4> SUFFICES ASSUME NEW v \in U, R[v][i] # R[v][Len(p)], v \notin C
                   PROVE  r[v][i] # r[v][l]
        BY <1>3 DEF Behind
      <4>1. v \notin F
        BY <1>1
      <4>2. Gain(x, E[v]) = 0
        BY <4>1 DEF Gain
      <4>3. r[v] \in [Nat -> Nat] /\ r[v][l] \in Nat /\ r[v][l] + Gain(x, E[v]) = r[v][l]
        <5>1. r[v] \in [Nat -> Nat]
          BY <1>1
        <5>2. r[v][l] \in Nat
          BY <5>1, <1>2
        <5>3. PICK c : c = r[v][l]
          OBVIOUS
        <5>4. c + Gain(x, E[v]) = c
          BY <5>2, <5>3, <4>2
        <5> QED
          BY <5>1, <5>2, <5>3, <5>4
      <4>4. R[v][i] = r[v][i] /\ R[v][l + 1] = r[v][l]
        <5>1. R[v] = Extend(r[v], l, r[v][l])
          BY <4>3 DEF R
        <5>2. PICK h, c : h = r[v] /\ c = r[v][l]
          OBVIOUS
        <5>3. Extends(Extend(h, l, c), h, l, c)
          BY <4>3, <5>2, <1>2, ExtendFacts
        <5> QED
          BY <2>1, <4>3, <5>1, <5>2, <5>3 DEF Extends
      <4> QED
        BY <4>4, <1>2
    <3>2. IsFiniteSet(Behind(U, C, r, l, i))
      BY <1>1, FS_Subset DEF Behind
    <3>3. /\ Cardinality(Behind(U, B, R, Len(p), i)) <= Cardinality(Behind(U, C, r, l, i))
          /\ Cardinality(Behind(U, C, r, l, i)) \in Nat
          /\ Cardinality(Behind(U, B, R, Len(p), i)) \in Nat
      BY <3>1, <3>2, FS_Subset, FS_CardinalityType
    <3>4. K[i] = k[i] /\ Cardinality(Behind(U, C, r, l, i)) <= k[i] /\ k[i] \in Nat
      <4>1. i \in Nat
        BY <2>1, <1>2
      <4> QED
        BY <2>1, <4>1, <1>6, <1>7
    <3> QED
      BY <3>3, <3>4
  <2>2. CASE i = Len(p)
    <3>1. Behind(U, B, R, Len(p), i) = B
      BY <2>2 DEF Behind
    <3> QED
      BY <2>2, <3>1, <1>2, <1>3, <1>7
  <2> QED
    BY <1>2, <2>1, <2>2
<1>10. Ending(U, p, R, K, B, m)
  <2>1. K[0] = m /\ K[Len(p)] = Cardinality(B)
    BY <1>2, <1>6, <1>7
  <2> QED
    BY <2>1, <1>7, <1>8, <1>9 DEF Ending
<1>11. Brought(U, E, p)
  <2> SUFFICES ASSUME NEW i \in 1..Len(p), p[i].f = "start", p[i].d # Nil
               PROVE  \E v \in U : p[i].d \in E[v]
    BY DEF Brought
  <2>1. CASE i \in 1..l
    BY <2>1, <1>1, <1>2 DEF Brought, l
  <2>2. CASE i = l + 1
    BY <2>2, <1>2
  <2> QED
    BY <1>2, <2>1, <2>2
<1>12. B \subseteq U
  BY <1>1, <1>3
<1> QED
  BY <1>1, <1>5, <1>10, <1>11, <1>12 DEF Chan, p

\* The first task x has left q: it brought the next element of its upstream, or one
\* close less is to come.
Passed(U, E, q, x, g, h, S, F, C, m) ==
  /\ x.f = "start" => Chan(U, E, Tail(q), h, S, F, C, m)
  /\ x.f = "close" => m \in Nat \ {0} /\ Chan(U, E, Tail(q), h, S, F, C, m - 1)
  /\ x.f = "start" /\ x.d # Nil => \E u \in U : x.d \in E[u]
  /\ \A u \in U : Brings(x, E[u]) =>
       Count(g, E[u]) < Len(S[u]) /\ x.d = S[u][Count(g, E[u]) + 1]

\* The stream takes its first task: it is invoked for the element, or waits for one
\* close less.
LEMMA ChanTake ==
  ASSUME NEW U, IsFiniteSet(U), NEW E, NEW q \in Seq(Tasks), q # <<>>, NEW g \in Seq(Data),
         NEW h \in Seq(Data), NEW S, Sequences(S, U, Data),
         NEW F, NEW C, NEW m, Chan(U, E, q, g, S, F, C, m), NEW x, x = Head(q),
         \A v \in U : Brings(x, E[v]) => h = Append(g, x.d),
         \A v \in U : ~Brings(x, E[v]) => Count(h, E[v]) = Count(g, E[v])
  PROVE  Passed(U, E, q, x, g, h, S, F, C, m)
<1> DEFINE p == Tail(q)
           l == Len(p)
<1>1. PICK r, k :
        /\ r \in [U -> [Nat -> Nat]]
        /\ \A v \in U : Line(E[v], q, g, r[v], S[v], Flying(F, v))
        /\ Ending(U, q, r, k, C, m)
        /\ Brought(U, E, q) /\ F \subseteq C /\ C \subseteq U /\ m <= Cardinality(U)
  BY DEF Chan
<1> DEFINE R == [v \in U |-> Beyond(r[v])]
           K == Beyond(k)
<1>2. /\ Len(q) = l + 1 /\ l \in Nat
      /\ \A i \in 1..l : p[i] = q[i + 1]
      /\ x = q[1] /\ x \in Tasks
  OBVIOUS
<1>3. /\ k \in [Nat -> Nat] /\ k[0] = m /\ k[Len(q)] = Cardinality(C)
      /\ \A i \in 0..Len(q) : Cardinality(Behind(U, C, r, Len(q), i)) <= k[i]
  BY <1>1 DEF Ending
<1>4. \A u \in U : Flying(F, u) \in {0, 1}
  BY DEF Flying
<1>5. K \in [Nat -> Nat] /\ \A i \in Nat : K[i] = k[i + 1]
  BY <1>3, BeyondFacts
<1>6. \A v \in U : R[v] \in [Nat -> Nat] /\ \A i \in Nat : R[v][i] = r[v][i + 1]
  BY <1>1, BeyondFacts
<1>7. ASSUME NEW v \in U
      PROVE  Line(E[v], p, h, R[v], S[v], Flying(F, v))
  <2>1. PICK e, a, su, fl : e = E[v] /\ a = r[v] /\ su = S[v] /\ fl = Flying(F, v)
    OBVIOUS
  <2>2. Line(e, q, g, a, su, fl) /\ su \in Seq(Data) /\ fl \in {0, 1}
    BY <1>1, <1>4, <2>1 DEF Sequences
  <2>3. /\ Brings(Head(q), e) => h = Append(g, Head(q).d)
        /\ ~Brings(Head(q), e) => Count(h, e) = Count(g, e)
    BY <2>1
  <2>4. Line(e, Tail(q), h, Beyond(a), su, fl)
    BY <2>2, <2>3, LineTake
  <2> QED
    BY <2>1, <2>4
<1>8. Expires(q, k, 1) /\ K[0] = k[1] /\ 1 - 1 = 0 /\ k[1] \in Nat
  BY <1>1, <1>2, <1>3, <1>5 DEF Ending
<1> HIDE DEF p, l, R, K
<1>9. ASSUME NEW i \in 1..l
      PROVE  Expires(p, K, i)
  <2>1. i + 1 \in 1..Len(q) /\ i \in Nat /\ i - 1 \in Nat /\ (i + 1) - 1 = i /\ (i - 1) + 1 = i
    BY <1>2
  <2>2. Expires(q, k, i + 1)
    BY <2>1, <1>1 DEF Ending
  <2>3. K[i] = k[i + 1] /\ K[i - 1] = k[i] /\ p[i] = q[i + 1]
    BY <2>1, <1>2, <1>5
  <2> QED
    BY <2>1, <2>2, <2>3 DEF Expires
<1>10. ASSUME NEW i \in 0..l
       PROVE  Cardinality(Behind(U, C, R, l, i)) <= K[i]
  <2>1. i + 1 \in 0..Len(q) /\ i \in Nat
    BY <1>2
  <2>2. \A v \in U : R[v][i] = r[v][i + 1] /\ R[v][l] = r[v][Len(q)]
    BY <2>1, <1>2, <1>6
  <2>3. Behind(U, C, R, l, i) = Behind(U, C, r, Len(q), i + 1)
    BY <2>2 DEF Behind
  <2> QED
    BY <2>1, <2>3, <1>3, <1>5
<1>11. K[l] = Cardinality(C)
  BY <1>2, <1>3, <1>5
<1>12. Ending(U, p, R, K, C, K[0])
  BY <1>5, <1>9, <1>10, <1>11 DEF Ending, l
<1>13. Brought(U, E, p)
  <2> SUFFICES ASSUME NEW i \in 1..l, p[i].f = "start", p[i].d # Nil
               PROVE  \E v \in U : p[i].d \in E[v]
    BY DEF Brought, l
  <2>1. i + 1 \in 1..Len(q) /\ p[i] = q[i + 1]
    BY <1>2
  <2> QED
    BY <2>1, <1>1 DEF Brought
<1>14. R \in [U -> [Nat -> Nat]]
  BY <1>6 DEF R
<1>15. K[0] <= Cardinality(U) => Chan(U, E, p, h, S, F, C, K[0])
  BY <1>1, <1>7, <1>12, <1>13, <1>14 DEF Chan
<1>16. Cardinality(U) \in Nat
  BY FS_CardinalityType
<1>17. x.f = "start" => Chan(U, E, Tail(q), h, S, F, C, m)
  BY <1>1, <1>2, <1>3, <1>8, <1>15 DEF Expires, p
<1>18. x.f = "close" => m \in Nat \ {0} /\ Chan(U, E, Tail(q), h, S, F, C, m - 1)
  <2> SUFFICES ASSUME x.f = "close" PROVE m \in Nat \ {0} /\ Chan(U, E, Tail(q), h, S, F, C, m - 1)
    OBVIOUS
  <2>1. m = k[1] + 1
    BY <1>2, <1>3, <1>8 DEF Expires
  <2>2. m \in Nat \ {0} /\ k[1] = m - 1 /\ m - 1 <= Cardinality(U)
    <3>1. PICK k1, c : k1 = k[1] /\ c = Cardinality(U)
      OBVIOUS
    <3>2. k1 \in Nat /\ c \in Nat /\ m = k1 + 1 /\ m <= c
      BY <2>1, <3>1, <1>1, <1>8, <1>16
    <3>3. m \in Nat \ {0} /\ k1 = m - 1 /\ m - 1 <= c
      BY <3>2
    <3> QED
      BY <3>1, <3>3
  <2> QED
    BY <2>2, <1>8, <1>15 DEF p
<1>19. x.f = "start" /\ x.d # Nil => \E u \in U : x.d \in E[u]
  BY <1>1, <1>2 DEF Brought
<1>20. ASSUME NEW u \in U, Brings(x, E[u])
       PROVE  Count(g, E[u]) < Len(S[u]) /\ x.d = S[u][Count(g, E[u]) + 1]
  <2>1. PICK e, a, su, fl : e = E[u] /\ a = r[u] /\ su = S[u] /\ fl = Flying(F, u)
    OBVIOUS
  <2>2. Line(e, q, g, a, su, fl) /\ fl \in {0, 1}
    BY <1>1, <1>4, <2>1
  <2>3. /\ a \in [Nat -> Nat] /\ a[0] = Count(g, e) /\ Advance(e, q, a, su, 1)
        /\ a[1] <= a[Len(q)] /\ Len(su) = a[Len(q)] + fl
    <3>1. 1 \in 1..Len(q) /\ 1 \in 0..Len(q)
      BY <1>2
    <3> QED
      BY <2>2, <3>1 DEF Line
  <2>4. a[1] = a[0] + 1 /\ x.d = su[a[1]]
    BY <2>1, <2>3, <1>2, <1>8, <1>20 DEF Advance
  <2>5. a[0] \in Nat /\ a[1] \in Nat /\ a[Len(q)] \in Nat
    BY <2>3, <1>2
  <2>6. a[0] < Len(su)
    <3>1. PICK a0, a1, al : a0 = a[0] /\ a1 = a[1] /\ al = a[Len(q)]
      OBVIOUS
    <3>2. a0 \in Nat /\ al \in Nat /\ a0 + 1 <= al /\ Len(su) = al + fl
      BY <2>3, <2>4, <2>5, <3>1
    <3> QED
      BY <2>2, <3>1, <3>2
  <2> QED
    BY <2>1, <2>3, <2>4, <2>6
<1> QED
  BY <1>17, <1>18, <1>19, <1>20 DEF Passed

\* No close is awaited any more: everything has come.
LEMMA ChanOver ==
  ASSUME NEW U, IsFiniteSet(U), NEW E, NEW q, Len(q) \in Nat, NEW g, NEW S, NEW F, NEW C,
         Chan(U, E, q, g, S, F, C, 0)
  PROVE  C = {} /\ \A u \in U : Count(g, E[u]) = Len(S[u])
<1>1. PICK r, k :
        /\ r \in [U -> [Nat -> Nat]]
        /\ \A v \in U : Line(E[v], q, g, r[v], S[v], Flying(F, v))
        /\ Ending(U, q, r, k, C, 0)
        /\ Brought(U, E, q) /\ F \subseteq C /\ C \subseteq U
  BY DEF Chan
<1>2. k[0] = 0 /\ Cardinality(Behind(U, C, r, Len(q), 0)) <= k[0]
  BY <1>1 DEF Ending
<1>3. Behind(U, C, r, Len(q), 0) \subseteq U
  BY <1>1 DEF Behind
<1>4. IsFiniteSet(Behind(U, C, r, Len(q), 0)) /\ Cardinality(Behind(U, C, r, Len(q), 0)) \in Nat
  BY <1>3, FS_Subset, FS_CardinalityType
<1>5. Behind(U, C, r, Len(q), 0) = {}
  BY <1>2, <1>4, FS_EmptySet
<1>6. C = {} /\ \A u \in U : r[u][0] = r[u][Len(q)]
  BY <1>5 DEF Behind
<1>7. ASSUME NEW u \in U
      PROVE  Count(g, E[u]) = Len(S[u])
  <2>1. PICK a, fl : a = r[u] /\ fl = Flying(F, u)
    OBVIOUS
  <2>2. fl = 0
    BY <2>1, <1>1, <1>6 DEF Flying
  <2>3. /\ a \in [Nat -> Nat] /\ a[0] = Count(g, E[u]) /\ Len(S[u]) = a[Len(q)] + 0
    BY <2>1, <2>2, <1>1 DEF Line
  <2>4. a[Len(q)] \in Nat /\ a[0] = a[Len(q)]
    BY <2>1, <2>3, <1>6
  <2> QED
    BY <2>3, <2>4
<1> QED
  BY <1>6, <1>7

\* At most one close of each upstream is awaited.
LEMMA ChanBound ==
  ASSUME NEW U, NEW E, NEW q, NEW g, NEW S, NEW F, NEW C, NEW m, Chan(U, E, q, g, S, F, C, m)
  PROVE  m \in Nat /\ m <= Cardinality(U) /\ F \subseteq C /\ C \subseteq U
  BY DEF Chan, Ending

\* Nothing comes to a stream without upstreams.
LEMMA ChanSource ==
  ASSUME NEW E, NEW q \in Seq(Tasks), q # <<>>, NEW g \in Seq(Data), NEW S, NEW F, NEW C, NEW m,
         Chan({}, E, q, g, S, F, C, m)
  PROVE  Head(q) = [f |-> "start", d |-> Nil]
<1>1. IsFiniteSet({}) /\ Cardinality({}) = 0 /\ Sequences(S, {}, Data)
  BY FS_EmptySet DEF Sequences
<1>2. Head(q) \in Tasks
  OBVIOUS
<1>3. PICK x : x = Head(q)
  OBVIOUS
<1>4. PICK U : U = {}
  OBVIOUS
<1>5. /\ x.f = "close" => m \in Nat \ {0} 
      /\ ~(x.f = "start" /\ x.d # Nil)
  <2>1. /\ IsFiniteSet(U) /\ Sequences(S, U, Data) /\ Chan(U, E, q, g, S, F, C, m)
        /\ \A v \in U : Brings(x, E[v]) => g = Append(g, x.d)
        /\ \A v \in U : ~Brings(x, E[v]) => Count(g, E[v]) = Count(g, E[v])
    BY <1>1, <1>4
  <2>2. /\ x.f = "close" => m \in Nat \ {0} /\ Chan(U, E, Tail(q), g, S, F, C, m - 1)
        /\ x.f = "start" /\ x.d # Nil => \E u \in U : x.d \in E[u]
    BY <2>1, <1>3, ChanTake DEF Passed
  <2> QED
    BY <2>2, <1>4
<1>6. m \in Nat /\ m <= 0
  BY <1>1, ChanBound
<1> QED
  BY <1>2, <1>3, <1>5, <1>6 DEF Tasks, Funcs

\* Before anything happens.
LEMMA ChanInit ==
  ASSUME NEW U, IsFiniteSet(U), NEW E, NEW S, \A u \in U : S[u] = <<>>
  PROVE  Chan(U, E, <<>>, <<>>, S, {}, U, Cardinality(U))
<1> DEFINE z == [i \in Nat |-> 0]
           r == [u \in U |-> z]
           k == [i \in Nat |-> Cardinality(U)]
<1>1. Cardinality(U) \in Nat
  BY FS_CardinalityType
<1>2. \A e : Count(<<>>, e) = 0
  <2> SUFFICES ASSUME NEW e PROVE Count(<<>>, e) = 0
    OBVIOUS
  <2>1. {j \in 1..Len(<<>>) : <<>>[j] \in e} = {}
    OBVIOUS
  <2> QED
    BY <2>1, FS_EmptySet DEF Count
<1>3. z \in [Nat -> Nat] /\ z[0] = 0
  OBVIOUS
<1>4. k \in [Nat -> Nat] /\ k[0] = Cardinality(U)
  BY <1>1
<1> HIDE DEF z, k
<1>5. ASSUME NEW u \in U PROVE Line(E[u], <<>>, <<>>, r[u], S[u], Flying({}, u))
  <2>1. r[u] = z /\ S[u] = <<>> /\ Flying({}, u) = 0 /\ Len(<<>>) = 0
    BY DEF Flying
  <2>2. Line(E[u], <<>>, <<>>, z, <<>>, 0)
    BY <2>1, <1>2, <1>3 DEF Line
  <2> QED
    BY <2>1, <2>2
<1>6. \A i \in 0..0 : Behind(U, U, r, 0, i) = U
  BY DEF Behind
<1>7. Ending(U, <<>>, r, k, U, Cardinality(U))
  BY <1>1, <1>4, <1>6 DEF Ending
<1>8. r \in [U -> [Nat -> Nat]] /\ Brought(U, E, <<>>)
  BY <1>3 DEF Brought
<1> QED
  BY <1>1, <1>5, <1>7, <1>8 DEF Chan

-----------------------------------------------------------------------------
(* The program.                                                            *)

Link(u, t) == \E i \in Lines(program) : program[i].s = u /\ program[i].dst = t

\* The streams that are connected to t.
Ups(t) == {u \in Streams : Link(u, t)}

\* The elements that may come from u.
From(u) == {d \in Elements : Reaches(program, d[1], u)}

KindOf(s) == KindIn(program, s)
LimitOf(s) == Declaration(program, s).limit

\* A program that is complete before it runs.
Given == program \in Scripts /\ ReadyToRun(program)

LEMMA ProgramTyped ==
  ASSUME Given, NEW i \in 1..Len(program)
  PROVE  /\ program \in Seq(Ops) /\ Len(program) \in Nat /\ program[i] \in Ops
         /\ program[i].op \in {"new", "connect"} /\ program[i].s \in Streams
         /\ program[i].op = "new" => program[i].kind \in Kinds /\ program[i].limit \in Nat
         /\ program[i].op = "connect" => program[i].dst \in Streams
<1>1. program \in Seq(ScriptOps)
  BY SchedulerAssumption DEF Given
<1>2. program[i] \in ScriptOps
  BY <1>1
<1>3. program[i] \in Ops /\ program[i].op \in {"new", "connect"}
  BY <1>2 DEF ScriptOps
<1>4. program \in Seq(Ops)
  BY <1>1, SeqMonotonic DEF ScriptOps
<1> QED
  BY <1>3, <1>4, OpFields

\* What is created when the first k operations are done.
LEMMA CreatedBy ==
  ASSUME Given, NEW k \in 0..Len(program), NEW s
  PROVE  s \in Created(program, k) <=> \E i \in 1..k : program[i].op = "new" /\ program[i].s = s
  BY DEF Created

LEMMA WellFormedProgram ==
  ASSUME Given
  PROVE  /\ \A i, j \in 1..Len(program) :
              program[i].op = "new" /\ program[j].op = "new" /\ program[i].s = program[j].s => i = j
         /\ \A i \in 1..Len(program) : program[i].op = "connect" =>
              /\ program[i].s \in Created(program, i - 1)
              /\ program[i].dst \in Created(program, i - 1)
<1>1. WellFormed(program)
  BY SchedulerAssumption DEF Given
<1>2. Len(program) \in Nat
  BY SchedulerAssumption DEF Given
<1>3. ASSUME NEW i \in 1..Len(program), NEW j \in 1..Len(program), i < j,
             program[i].op = "new", program[j].op = "new", program[i].s = program[j].s
      PROVE  FALSE
  <2>1. program[j].s \notin Created(program, j - 1)
    BY <1>1, <1>3 DEF WellFormed
  <2>2. j - 1 \in 0..Len(program) /\ i \in 1..(j - 1)
    BY <1>2, <1>3
  <2> QED
    BY <2>1, <2>2, <1>3, CreatedBy
<1>4. ASSUME NEW i \in 1..Len(program), NEW j \in 1..Len(program),
             program[i].op = "new", program[j].op = "new", program[i].s = program[j].s
      PROVE  i = j
  <2>1. i < j \/ j < i \/ i = j
    BY <1>2
  <2> QED
    BY <2>1, <1>3, <1>4
<1> QED
  BY <1>1, <1>4 DEF WellFormed

\* A stream is declared by its one "new".
LEMMA Declares ==
  ASSUME Given, NEW i \in 1..Len(program), program[i].op = "new"
  PROVE  Declaration(program, program[i].s) = program[i]
<1> DEFINE N == {program[h] : h \in {j \in 1..Len(program) : program[j].op = "new"}}
<1>1. program[i] \in N
  OBVIOUS
<1>2. \A o \in N : o.s = program[i].s => o = program[i]
  BY WellFormedProgram
<1>3. (CHOOSE o \in N : o.s = program[i].s) = program[i]
  BY <1>1, <1>2
<1> QED
  BY <1>3 DEF Declaration

LEMMA UpsFinite ==
  ASSUME Given, NEW t
  PROVE  IsFiniteSet(Ups(t)) /\ Cardinality(Ups(t)) \in Nat
<1> DEFINE L == 1..Len(program)
           T == {program[i].s : i \in L}
           f == [i \in L |-> program[i].s]
<1>1. IsFiniteSet(L)
  <2>1. Len(program) \in Int
    BY SchedulerAssumption DEF Given
  <2> QED
    BY <2>1, FS_Interval
<1>2. f \in Surjection(L, T)
  BY DEF Surjection
<1>3. IsFiniteSet(T)
  <2> HIDE DEF L, T, f
  <2> QED
    BY <1>1, <1>2, FS_Surjection
<1>4. Ups(t) \subseteq T
  BY DEF Ups, Link, Lines
<1> QED
  BY <1>3, <1>4, FS_Subset, FS_CardinalityType

LEMMA ReachDown ==
  ASSUME NEW u, NEW t, Link(u, t)
  PROVE  /\ From(u) \subseteq From(t)
         /\ \A s : Reaches(program, s, u) => Reaches(program, s, t)
<1>1. ASSUME NEW s, Reaches(program, s, u)
      PROVE  Reaches(program, s, t)
  <2> SUFFICES ASSUME NEW S \in SUBSET Streams, s \in S,
                      \A i \in Lines(program) : program[i].s \in S => program[i].dst \in S
               PROVE  t \in S
    BY DEF Reaches
  <2>1. u \in S
    BY <1>1 DEF Reaches
  <2> QED
    BY <2>1 DEF Link
<1> QED
  BY <1>1 DEF From

LEMMA ReachSelf == ASSUME NEW s PROVE Reaches(program, s, s)
  BY DEF Reaches

\* What comes from two upstreams of a stream is different.
LEMMA Disjoint ==
  ASSUME Given, NEW t, NEW u \in Ups(t), NEW v \in Ups(t), u # v
  PROVE  From(u) \cap From(v) = {}
<1> SUFFICES ASSUME NEW d, d \in From(u), d \in From(v) PROVE FALSE
  OBVIOUS
<1>1. d[1] \in Streams /\ Reaches(program, d[1], u) /\ Reaches(program, d[1], v)
  BY DEF From, Elements
<1>2. PICK i \in Lines(program) : program[i].s = u /\ program[i].dst = t
  BY DEF Ups, Link
<1>3. PICK j \in Lines(program) : program[j].s = v /\ program[j].dst = t
  BY DEF Ups, Link
<1>4. OnePath(program)
  BY DEF Given, ReadyToRun
<1> QED
  BY <1>1, <1>2, <1>3, <1>4 DEF OnePath

\* What is linked is created.
LEMMA LinkTyped ==
  ASSUME Given, NEW u, NEW t, Link(u, t)
  PROVE  /\ u \in Streams /\ t \in Streams /\ u # t
         /\ u \in Created(program, Len(program)) /\ t \in Created(program, Len(program))
         /\ KindOf(t) # "seq"
         /\ KindOf(t) \in {"map", "take", "sort", "reduce"} => \E x \in Streams : Link(t, x)
<1>1. PICK i \in Lines(program) : program[i].s = u /\ program[i].dst = t
  BY DEF Link
<1>2. i \in 1..Len(program) /\ program[i].op = "connect" /\ Len(program) \in Nat
  BY <1>1, ProgramTyped DEF Lines
<1>3. u \in Streams /\ t \in Streams
  BY <1>1, <1>2, ProgramTyped
<1>4. u \in Created(program, i - 1) /\ t \in Created(program, i - 1)
  BY <1>1, <1>2, WellFormedProgram
<1>5. Created(program, i - 1) \subseteq Created(program, Len(program))
  BY <1>2 DEF Created
<1>6. ReadyToRun(program)
  BY DEF Given
<1>7. i <= i
  BY <1>2
<1>8. u # t
  BY <1>1, <1>6, <1>7 DEF ReadyToRun, FromTheEnds
<1>9. /\ KindOf(t) # "seq"
      /\ KindOf(t) \in {"map", "take", "sort", "reduce"} => \E j \in Lines(program) : program[j].s = t
  BY <1>1, <1>6 DEF ReadyToRun, Outlets, KindOf
<1>10. ASSUME NEW j \in Lines(program), program[j].s = t PROVE \E x \in Streams : Link(t, x)
  <2>1. j \in 1..Len(program) /\ program[j].op = "connect"
    BY DEF Lines
  <2>2. program[j].dst \in Streams
    BY <2>1, ProgramTyped
  <2> QED
    BY <2>2, <1>10 DEF Link
<1> QED
  BY <1>3, <1>4, <1>5, <1>8, <1>9, <1>10

\* The streams that must last.
LEMMA LastingFacts ==
  ASSUME Given, NEW t \in Streams
  PROVE  /\ t \in Created(program, Len(program)) /\ KindOf(t) \in {"sort", "reduce"}
              => Lasting(program, t)
         /\ t \in Created(program, Len(program)) /\ Lasting(program, t) => KindOf(t) # "take"
         /\ t \in Created(program, Len(program)) /\ ~Lasting(program, t) => Cardinality(Ups(t)) <= 1
         /\ \A x : Lasting(program, t) /\ Link(t, x) => Lasting(program, x)
<1>1. ASSUME t \in Created(program, Len(program)), KindOf(t) \in {"sort", "reduce"} PROVE Lasting(program, t)
  BY <1>1, ReachSelf DEF Lasting, KindOf
<1>2. ASSUME t \in Created(program, Len(program)), Lasting(program, t) PROVE KindOf(t) # "take"
  BY <1>2 DEF Given, ReadyToRun, NoTakeAfter, KindOf
<1>3. ASSUME t \in Created(program, Len(program)), ~Lasting(program, t) PROVE Cardinality(Ups(t)) <= 1
  <2>1. ~Joint(program, t)
    BY <1>3, ReachSelf DEF Lasting
  <2>2. ASSUME NEW u \in Ups(t), NEW v \in Ups(t) PROVE u = v
    BY <2>1 DEF Joint, Ups, Link
  <2>3. CASE Ups(t) = {}
    BY <2>3, FS_EmptySet
  <2>4. CASE Ups(t) # {}
    <3>1. PICK u : u \in Ups(t)
      BY <2>4
    <3>2. Ups(t) = {u}
      BY <2>2, <3>1
    <3>3. Cardinality({u}) = 1
      BY FS_Singleton
    <3> QED
      BY <3>2, <3>3
  <2> QED
    BY <2>3, <2>4
<1>4. ASSUME NEW x, Lasting(program, t), Link(t, x) PROVE Lasting(program, x)
  BY <1>4, ReachDown DEF Lasting
<1> QED
  BY <1>1, <1>2, <1>3, <1>4

-----------------------------------------------------------------------------
(* The local state of a stream, and what it says of the streams below it.  *)

\* Everything about s but its queue, which others write, and its flag.
Local(s) == [a |-> Steps(s), kind |-> kind[s], limit |-> limit[s], n |-> n[s],
             mode |-> mode[s], dst |-> dst[s], rest |-> rest[s], ref |-> refcnt[s],
             sent |-> sent[s], got |-> got[s]]

Live(m) == m \notin {"dying", "killed"}

\* The streams that step o will push a task for f to, when they take one; q is rest.
Due(o, q, f) ==
  CASE o.op \in {"push", "addTask"} -> IF o.f = f /\ (f = "start" => o.d # Nil) THEN {o.s} ELSE {}
    [] o.op = "emitRest" /\ f = "start" -> {q[j] : j \in o.i..Len(q)}
    [] o.op = "closeRest" /\ f = "close" -> {q[j] : j \in o.i..Len(q)}
    [] OTHER -> {}
Dues(a, q, f) == UNION {Due(a[i], q, f) : i \in 1..Len(a)}

\* The close has not been passed on yet.
Closes(a, s) == \E i \in 1..Len(a) : a[i] = CloseDstOp(s)

\* s has ended: it emits nothing more and passes its close on.
Gone(L, s) == L.mode = "killed" /\ ~CloseFails(L.kind, L.got) /\ ~Closes(L.a, s)
Opens(L, s, t) == ~Gone(L, s) \/ t \in Dues(L.a, L.rest, "close")

Flights(t) == {u \in Ups(t) : t \in Dues(Local(u).a, Local(u).rest, "start")}
Open(t)    == {u \in Ups(t) : Opens(Local(u), u, t)}

\* The main thread has yet to count u as an upstream of t.
UnRef(u, t) == \/ InSeq(ConnectOp(u, t), agenda[Main])
               \/ /\ agenda[Main] # <<>> /\ Head(agenda[Main]) = RefOp(t)
                  /\ Tail(agenda[Main]) # <<>> /\ Head(Tail(agenda[Main])) = StartOp(u)
UnRefs(t) == {u \in Ups(t) : UnRef(u, t)}

\* What comes to t, which waits for as many closes as its count says: one less when a
\* close is being executed that has not been counted yet (x = 1), one more when t has
\* counted itself (x = -1).
Channel(t, x) == Chan(Ups(t), [u \in Ups(t) |-> From(u)], tasks[t], got[t],
                      [u \in Ups(t) |-> sent[u]], Flights(t), Open(t),
                      refcnt[t] + Cardinality(UnRefs(t)) - x)
-----------------------------------------------------------------------------
(* Where the execution of s is, with what then holds: L is its local state, *)
(* x as in Channel.                                                        *)

Is(a, o) == a # <<>> /\ Head(a) = o
AtAfter(a, s) == Is(a, AfterOp(s)) /\ Tail(a) = <<>>
AtEnd(a, s) == a = <<>> \/ AtAfter(a, s)

\* What s will have emitted in the end.
Owes(L) == CASE L.kind \in {"map", "take", "sort"} -> Len(L.got)
             [] L.kind = "reduce" -> IF L.got = <<>> THEN 0 ELSE 1
             [] OTHER -> 0

\* Emissions and invocations agree, up to due elements and x numbers.
Sums(L, due, x) ==
  /\ L.kind \in {"map", "take"} => Len(L.sent) + due = Len(L.got)
  /\ L.kind = "take" => L.n = L.limit - Len(L.got) + x
  /\ L.kind = "seq" => /\ L.n = Len(L.sent) + 1 - x
                       /\ L.limit > 0 => Len(L.sent) + due <= L.limit
  /\ L.kind \in {"sort", "reduce", "sink", "print"} => L.sent = <<>>

\* What is left of the close: j emissions, and the closes of the others.
Left(L, a, s, j) ==
  /\ L.kind # "seq" => Len(L.sent) + j = Owes(L)
  /\ L.kind \notin {"sort", "reduce"} => j = 0
  /\ \A i \in 1..j : a[i] = EmitOp(s, L.got[Len(L.sent) + i], FALSE)
  /\ Len(a) \in {j + 3, j + 4}
  /\ a[j + 1] = CloseDstOp(s) /\ a[j + 2] = CloseRestOp(s, 1) /\ a[j + 3] = CountDownOp(s)
  /\ Len(a) = j + 4 => a[j + 4] = AfterOp(s)
Remains(L, a, s) == \E j \in 0..Len(a) : Left(L, a, s, j)

\* After an emission.
Emitted(L, a, s) ==
  \/ L.kind = "seq" /\ Is(a, SeqNextOp(s)) /\ AtAfter(Tail(a), s)
  \/ L.kind = "map" /\ AtAfter(a, s)
  \/ L.kind = "take" /\ Is(a, TakeNextOp(s)) /\ AtAfter(Tail(a), s)
  \/ L.kind \in {"sort", "reduce"} /\ Remains(L, a, s)
AtCheck(L, a, s) == /\ \/ L.kind = "seq" /\ Is(a, CheckOp(s, TRUE))
                       \/ L.kind # "seq" /\ Is(a, CheckOp(s, FALSE))
                    /\ Emitted(L, Tail(a), s)
AtRest(L, a, s, i) == Is(a, EmitRestOp(s, Latest(L.sent), i)) /\ AtCheck(L, Tail(a), s)
AtDrop(L, a, s) == Is(a, DropDstOp(s)) /\ AtRest(L, Tail(a), s, 1)
AtCloseRest(a, s, i) == /\ Is(a, CloseRestOp(s, i)) /\ Is(Tail(a), CountDownOp(s))
                        /\ AtEnd(Tail(Tail(a)), s)

Closing(L) == L.mode = "killed" /\ ~CloseFails(L.kind, L.got)
Spreading(L, x) ==
  /\ L.sent # <<>>
  /\ \/ /\ Live(L.mode) /\ x = 0 /\ L.kind \in {"seq", "map", "take"}
        /\ Sums(L, 0, IF L.kind = "map" THEN 0 ELSE 1)
     \/ Closing(L) /\ L.kind \in {"sort", "reduce"}

\* A push of f and d to t, before r.
Following(L, s, x, t, f, d, r) ==
  \/ /\ Spreading(L, x) /\ f = "start" /\ d = Latest(L.sent)
     /\ \/ t = L.dst /\ t # NoStream /\ AtDrop(L, r, s)
        \/ \E i \in 1..Len(L.rest) : t = L.rest[i] /\ AtRest(L, r, s, i + 1)
  \/ /\ L.kind = "seq" /\ Live(L.mode) /\ x = 0 /\ Sums(L, 0, 1)
     /\ f = "start" /\ t = s /\ d = Nil /\ Emitted(L, r, s)
  \/ /\ Closing(L) /\ f = "close" /\ d = Nil
     /\ \/ t = L.dst /\ t # NoStream /\ AtCloseRest(r, s, 1)
        \/ \E i \in 1..Len(L.rest) : t = L.rest[i] /\ AtCloseRest(r, s, i + 1)

Emitting(L, s, x) ==
  LET a == L.a
      r == Tail(a) IN
  \/ /\ Live(L.mode) /\ x = 0 /\ Emitted(L, r, s)
     /\ \/ L.kind = "seq" /\ Sums(L, 1, 0) /\ Head(a) = EmitOp(s, <<s, Len(L.sent) + 1>>, TRUE)
        \/ L.kind = "map" /\ Sums(L, 1, 0) /\ Head(a) = EmitOp(s, L.got[Len(L.sent) + 1], FALSE)
        \/ L.kind = "take" /\ Sums(L, 1, 1) /\ Head(a) = EmitOp(s, L.got[Len(L.sent) + 1], FALSE)
  \/ /\ Live(L.mode) /\ x = 0 /\ L.kind = "print" /\ Sums(L, 0, 0)
     /\ Head(a) = EmitOp(s, Nil, FALSE) /\ AtAfter(r, s)
  \/ Closing(L) /\ L.kind \in {"sort", "reduce"} /\ Remains(L, a, s)

Counting(L, s, x) ==
  /\ L.kind \in {"seq", "take"} /\ Emitted(L, L.a, s) /\ Sums(L, 0, 1)
  /\ (Live(L.mode) /\ x = 0) \/ (L.mode = "dying" /\ L.ref <= 1)

\* Why s is closed, b closes still to be counted: its last upstream closes it, it has
\* come to its limit, or nobody listens.
Stopped(L, x, b) ==
  \/ Live(L.mode) /\ x = b /\ L.kind # "seq"
  \/ /\ Live(L.mode) /\ x = b - 1
     /\ \/ L.kind = "seq" /\ L.limit > 0 /\ Len(L.sent) = L.limit
        \/ L.kind = "take" /\ Len(L.got) = L.limit
  \/ L.mode = "dying" /\ L.ref <= b
Stopping(L, s, x) ==
  /\ AtEnd(Tail(L.a), s) /\ Sums(L, 0, 0)
  /\ \/ Head(L.a) = CloseOp(s) /\ Stopped(L, x, 1)
     \/ Head(L.a) = KillOp(s, L.mode) /\ Stopped(L, x, 0)

Phase(L, s, x) ==
  LET a == L.a
      o == Head(a)
      r == Tail(a) IN
  \/ a = <<>> /\ x = 0 /\ L.mode # "dying" /\ (Live(L.mode) => Sums(L, 0, 0))
  \/ /\ a # <<>>
     /\ \/ o.op = "emit" /\ Emitting(L, s, x)
        \/ o.op = "dropDst" /\ Spreading(L, x) /\ AtDrop(L, a, s)
        \/ o.op = "emitRest" /\ Spreading(L, x) /\ \E i \in 1..(Len(L.rest) + 1) : AtRest(L, a, s, i)
        \/ o.op = "check" /\ Spreading(L, x) /\ AtCheck(L, a, s)
        \/ o.op = "push" /\ Following(L, s, x, o.s, o.f, o.d, r)
        \/ o.op = "addTask" /\ Is(r, AddStreamOp(o.s)) /\ Following(L, s, x, o.s, o.f, o.d, Tail(r))
        \/ o.op = "addStream" /\ \E t, f, d : Following(L, s, x, t, f, d, r)
        \/ o.op \in {"seqNext", "takeNext"} /\ Counting(L, s, x)
        \/ o.op \in {"close", "kill"} /\ Stopping(L, s, x)
        \/ o.op = "closeDst" /\ Closing(L) /\ Left(L, a, s, 0)
        \/ o.op = "closeRest" /\ Closing(L) /\ \E i \in 1..(Len(L.rest) + 1) : AtCloseRest(a, s, i)
        \/ o.op = "countDown" /\ Closing(L) /\ o.s = s /\ AtEnd(r, s)
        \/ /\ o.op = "after" /\ AtAfter(a, s) /\ x = 0
           /\ L.mode = "dying" => L.ref <= 1
           /\ L.mode # "killed" => Sums(L, 0, 0)

\* Every stream is in one of the phases and, as long as it takes something, everything
\* comes to it.
Phased == \A s \in Streams : \E x \in {-1, 0, 1} :
            Phase(Local(s), s, x) /\ (Live(mode[s]) => Channel(s, x))
-----------------------------------------------------------------------------
(* The other parts of the invariant.                                       *)

\* a is what is left of the program after its first k operations.
Rest(a, k) == Len(a) = Len(program) - k /\ \A i \in 1..Len(a) : a[i] = program[k + i]

\* Stream t is part of a link, and no link is missing that something could pass that
\* comes to t.
Touched(t) == \E i \in Lines(program) : t \in {program[i].s, program[i].dst}
Ready(t) == /\ Touched(t)
            /\ \A v, x \in Streams : UnRef(v, x) => v # t /\ x # t /\ ~Link(t, x)

\* The main thread is inside of the k-th operation, the connection of s to t.
Connecting(a, k) ==
  /\ k \in Lines(program)
  /\ LET s == program[k].s
         t == program[k].dst IN
     \/ Is(a, RefOp(t)) /\ Is(Tail(a), StartOp(s)) /\ Rest(Tail(Tail(a)), k)
     \/ Is(a, StartOp(s)) /\ Rest(Tail(a), k)
     \/ /\ KindOf(s) = "seq" /\ Ready(s)
        /\ \/ Is(a, PushOp(s, "start", Nil)) /\ Rest(Tail(a), k)
           \/ Is(a, AddTaskOp(s, "start", Nil)) /\ Is(Tail(a), AddStreamOp(s)) /\ Rest(Tail(Tail(a)), k)
           \/ Is(a, AddStreamOp(s)) /\ Rest(Tail(a), k)

MainAt(k) == /\ Rest(agenda[Main], k) \/ Connecting(agenda[Main], k)
             /\ \A s \in Streams : mode[s] # "none" <=> s \in Created(program, k)
MainOK == \E k \in 0..Len(program) : MainAt(k)

Kinded == \A s \in Streams :
  /\ mode[s] # "none" => /\ kind[s] = KindOf(s) /\ limit[s] = LimitOf(s)
                         /\ mode[s] \in {ModeOf(KindOf(s)), "dying", "killed"}
  /\ mode[s] = "none" => sent[s] = <<>> /\ got[s] = <<>> /\ tasks[s] = <<>>

Joined(u, t) == t = dst[u] \/ InSeq(t, rest[u])
Linked == \A u, t \in Streams :
  /\ Joined(u, t) => /\ Link(u, t) /\ ~InSeq(ConnectOp(u, t), agenda[Main])
                     /\ mode[u] # "none" /\ mode[t] # "none"
  /\ Link(u, t) /\ ~InSeq(ConnectOp(u, t), agenda[Main]) => Joined(u, t) \/ mode[t] = "killed"
Apart == \A u \in Streams :
  /\ \A i \in 1..Len(rest[u]) : rest[u][i] # dst[u]
  /\ \A i, j \in 1..Len(rest[u]) : rest[u][i] = rest[u][j] => i = j

\* Who has something to do is complete.
Awake == \A s \in Streams :
           Steps(s) # <<>> \/ tasks[s] # <<>> => Ready(s) /\ mode[s] # "none"

\* Only a producer is asked to start without an element.
Tokens == \A s \in Streams : \A i \in 1..Len(tasks[s]) :
            tasks[s][i].f = "start" /\ tasks[s][i].d = Nil => KindOf(s) = "seq"

\* Where elements come from.
Origins == \A s \in Streams :
  /\ \A i \in 1..Len(sent[s]) : sent[s][i] \in From(s)
  /\ \A i \in 1..Len(got[s]) : got[s][i] \in From(s)
  /\ \A u \in Ups(s), i \in 1..Len(got[s]) : got[s][i] \in From(u) => InSeq(got[s][i], sent[u])

\* A stream that must last does.
Lasts == \A s \in Streams : Lasting(program, s) =>
  /\ mode[s] # "dying"
  /\ mode[s] = "killed" => \A u \in Ups(s) : Gone(Local(u), u)

\* Only the execution of a stream passes its close on.
OwnCloses(a, s) == \A i \in 1..Len(a) : a[i].op = "closeDst" => a[i].s = s
Ends == \A s \in Streams : OwnCloses(Steps(s), s)

Flowing == /\ Given /\ MainOK /\ Kinded /\ Linked /\ Apart /\ Awake /\ Tokens /\ Origins
           /\ Lasts /\ Ends /\ Phased
Delivering == ExclusiveInv /\ Places /\ Flowing

-----------------------------------------------------------------------------
(* Agendas.                                                                *)

TypedLocal(L) ==
  /\ L.a \in Seq(Ops) /\ L.kind \in Kinds /\ L.limit \in Nat /\ L.n \in Int
  /\ L.mode \in Modes /\ L.dst \in Streams \union {NoStream} /\ L.rest \in Seq(Streams)
  /\ L.ref \in Int /\ L.sent \in Seq(Data) /\ L.got \in Seq(Data)

LEMMA DuesNone == ASSUME NEW q, NEW f PROVE Dues(<<>>, q, f) = {}
  BY DEF Dues

LEMMA DuesCons ==
  ASSUME NEW a \in Seq(Ops), a # <<>>, NEW q, NEW f
  PROVE  Dues(a, q, f) = Due(Head(a), q, f) \union Dues(Tail(a), q, f)
<1>1. /\ Len(a) \in Nat \ {0} /\ Head(a) = a[1] /\ Len(Tail(a)) = Len(a) - 1
      /\ \A i \in 1..Len(Tail(a)) : Tail(a)[i] = a[i + 1]
  BY HeadTail
<1>2. ASSUME NEW t, t \in Dues(a, q, f) PROVE t \in Due(Head(a), q, f) \union Dues(Tail(a), q, f)
  <2>1. PICK i \in 1..Len(a) : t \in Due(a[i], q, f)
    BY <1>2 DEF Dues
  <2>2. CASE i = 1
    BY <2>1, <2>2, <1>1
  <2>3. CASE i # 1
    <3>1. i - 1 \in 1..Len(Tail(a)) /\ Tail(a)[i - 1] = a[i]
      BY <2>3, <1>1
    <3> QED
      BY <3>1, <2>1 DEF Dues
  <2> QED
    BY <2>2, <2>3
<1>3. ASSUME NEW t, t \in Due(Head(a), q, f) PROVE t \in Dues(a, q, f)
  <2>1. 1 \in 1..Len(a)
    BY <1>1
  <2> QED
    BY <2>1, <1>1, <1>3 DEF Dues
<1>4. ASSUME NEW t, t \in Dues(Tail(a), q, f) PROVE t \in Dues(a, q, f)
  <2>1. PICK i \in 1..Len(Tail(a)) : t \in Due(Tail(a)[i], q, f)
    BY <1>4 DEF Dues
  <2>2. i + 1 \in 1..Len(a) /\ Tail(a)[i] = a[i + 1]
    BY <1>1
  <2> QED
    BY <2>1, <2>2 DEF Dues
<1> QED
  BY <1>2, <1>3, <1>4, Zenon

LEMMA ClosesNone == ASSUME NEW s PROVE ~Closes(<<>>, s)
  BY DEF Closes

LEMMA ClosesCons ==
  ASSUME NEW a \in Seq(Ops), a # <<>>, NEW s
  PROVE  Closes(a, s) <=> Head(a) = CloseDstOp(s) \/ Closes(Tail(a), s)
<1>1. /\ Len(a) \in Nat \ {0} /\ Head(a) = a[1] /\ Len(Tail(a)) = Len(a) - 1
      /\ \A i \in 1..Len(Tail(a)) : Tail(a)[i] = a[i + 1]
  BY HeadTail
<1>2. Closes(a, s) => Head(a) = CloseDstOp(s) \/ Closes(Tail(a), s)
  <2> SUFFICES ASSUME NEW i \in 1..Len(a), a[i] = CloseDstOp(s), i # 1
               PROVE  Closes(Tail(a), s)
    BY <1>1 DEF Closes
  <2>1. i - 1 \in 1..Len(Tail(a)) /\ Tail(a)[i - 1] = a[i]
    BY <1>1
  <2> QED
    BY <2>1 DEF Closes
<1>3. Head(a) = CloseDstOp(s) => Closes(a, s)
  <2>1. 1 \in 1..Len(a)
    BY <1>1
  <2> QED
    BY <2>1, <1>1 DEF Closes
<1>4. Closes(Tail(a), s) => Closes(a, s)
  <2> SUFFICES ASSUME NEW i \in 1..Len(Tail(a)), Tail(a)[i] = CloseDstOp(s) PROVE Closes(a, s)
    BY DEF Closes
  <2>1. i + 1 \in 1..Len(a) /\ Tail(a)[i] = a[i + 1]
    BY <1>1
  <2> QED
    BY <2>1 DEF Closes
<1> QED
  BY <1>2, <1>3, <1>4

\* What one step is about to push.
LEMMA DueNone ==
  ASSUME NEW q, NEW f, NEW o, o.op \notin {"push", "addTask", "emitRest", "closeRest"}
  PROVE  Due(o, q, f) = {}
  BY DEF Due

LEMMA DuePush ==
  ASSUME NEW q, NEW f, NEW o, o.op \in {"push", "addTask"}
  PROVE  /\ o.f = f /\ (f = "start" => o.d # Nil) => Due(o, q, f) = {o.s}
         /\ ~(o.f = f /\ (f = "start" => o.d # Nil)) => Due(o, q, f) = {}
  BY DEF Due

LEMMA DueEmitRest ==
  ASSUME NEW q, NEW f, NEW o, o.op = "emitRest"
  PROVE  Due(o, q, f) = IF f = "start" THEN {q[j] : j \in o.i..Len(q)} ELSE {}
  BY DEF Due

LEMMA DueCloseRest ==
  ASSUME NEW q, NEW f, NEW o, o.op = "closeRest"
  PROVE  Due(o, q, f) = IF f = "close" THEN {q[j] : j \in o.i..Len(q)} ELSE {}
  BY DEF Due

-----------------------------------------------------------------------------
(* The local state has its types.                                          *)

LEMMA LocalTyped ==
  ASSUME Typed, NEW s \in Streams
  PROVE  TypedLocal(Local(s))
<1>1. Steps(s) \in Seq(Ops)
  <2>1. CASE \E w \in Workers : Executes(w, s)
    <3>1. (CHOOSE w \in Workers : Executes(w, s)) \in Workers
      BY <2>1
    <3> QED
      BY <2>1, <3>1 DEF Steps, Typed, TypeOK, AgendasOK, Threads
  <2> QED
    BY <2>1 DEF Steps
<1> QED
  BY <1>1 DEF TypedLocal, Local, Typed, TypeOK, StreamsOK, HistoryOK

-----------------------------------------------------------------------------
(* What stays as it was.                                                   *)

LEMMA SameProgram ==
  ASSUME program' = program
  PROVE  /\ \A u, t : Link(u, t)' <=> Link(u, t)
         /\ \A t : Ups(t)' = Ups(t)
         /\ \A u : From(u)' = From(u)
         /\ \A s : KindOf(s)' = KindOf(s) /\ LimitOf(s)' = LimitOf(s)
         /\ Given' <=> Given
         /\ \A k : Created(program, k)' = Created(program, k)
         /\ \A s : Lasting(program, s)' <=> Lasting(program, s)
         /\ \A t : Touched(t)' <=> Touched(t)
         /\ Lines(program)' = Lines(program)
<1>1. \A u, t : Link(u, t)' <=> Link(u, t)
  BY DEF Link
<1>2. \A t : Ups(t)' = Ups(t)
  BY <1>1 DEF Ups
<1> QED
  BY <1>1, <1>2 DEF From, KindOf, LimitOf, Given, Touched

LEMMA SameMain ==
  ASSUME program' = program, agenda'[Main] = agenda[Main]
  PROVE  /\ \A u, t : UnRef(u, t)' <=> UnRef(u, t)
         /\ \A t : UnRefs(t)' = UnRefs(t)
         /\ \A t : Ready(t)' <=> Ready(t)
<1>1. \A u, t : UnRef(u, t)' <=> UnRef(u, t)
  BY DEF UnRef
<1>2. \A t : UnRefs(t)' = UnRefs(t)
  BY <1>1, SameProgram DEF UnRefs
<1>3. \A t : Ready(t)' <=> Ready(t)
  BY <1>1, SameProgram DEF Ready
<1> QED
  BY <1>1, <1>2, <1>3

LEMMA UnRefsTyped ==
  ASSUME Given, NEW t
  PROVE  IsFiniteSet(UnRefs(t)) /\ Cardinality(UnRefs(t)) \in Nat
<1>1. UnRefs(t) \subseteq Ups(t)
  BY DEF UnRefs
<1> QED
  BY <1>1, UpsFinite, FS_Subset, FS_CardinalityType

\* The fields of a local state.
LEMMA SameLocal ==
  ASSUME NEW u, Local(u)' = Local(u)
  PROVE  /\ Steps(u)' = Steps(u) /\ kind'[u] = kind[u] /\ limit'[u] = limit[u]
         /\ n'[u] = n[u] /\ mode'[u] = mode[u] /\ dst'[u] = dst[u] /\ rest'[u] = rest[u]
         /\ refcnt'[u] = refcnt[u] /\ sent'[u] = sent[u] /\ got'[u] = got[u]
  BY DEF Local

\* A channel does not see who writes into it and how closes are counted.
LEMMA ChannelSame ==
  ASSUME program' = program, NEW t, NEW x, NEW y, Channel(t, x),
         tasks'[t] = tasks[t], got'[t] = got[t],
         \A u \in Ups(t) : sent'[u] = sent[u] /\ (u \in Flights(t)' <=> u \in Flights(t))
                           /\ (u \in Open(t)' <=> u \in Open(t)),
         refcnt[t]' + Cardinality(UnRefs(t))' - y = refcnt[t] + Cardinality(UnRefs(t)) - x
  PROVE  Channel(t, y)'
<1>1. Ups(t)' = Ups(t) /\ \A u : From(u)' = From(u)
  BY SameProgram
<1>2. Flights(t)' = Flights(t)
  BY <1>1 DEF Flights
<1>3. Open(t)' = Open(t)
  BY <1>1 DEF Open
<1>4. [u \in Ups(t) |-> From(u)]' = [u \in Ups(t) |-> From(u)]
  BY <1>1
<1>5. [u \in Ups(t) |-> sent[u]]' = [u \in Ups(t) |-> sent[u]]
  BY <1>1
<1> QED
  BY <1>1, <1>2, <1>3, <1>4, <1>5 DEF Channel

\* Stream s does a step.
Steady(s) ==
  /\ program' = program /\ agenda'[Main] = agenda[Main]
  /\ kind' = kind /\ limit' = limit /\ rest' = rest
  /\ \A u \in Streams : u # s => Local(u)' = Local(u)
  /\ mode[s] # "none" /\ mode'[s] # "none" /\ (mode[s] = "killed" => mode'[s] = "killed")
  /\ mode'[s] = mode[s] \/ mode'[s] \in {"dying", "killed"}
  /\ dst'[s] = dst[s] \/ (dst'[s] = NoStream /\ mode[dst[s]] = "killed")

LEMMA SteadyChannel ==
  ASSUME Given, Typed, Typed', NEW s \in Streams, Steady(s), NEW L, L = Local(s), NEW M, M = Local(s)',
         NEW t \in Streams, NEW x \in Int, NEW y \in Int, Channel(t, x),
         tasks'[t] = tasks[t], got'[t] = got[t], M.sent = L.sent,
         refcnt'[t] - y = refcnt[t] - x,
         s \in Ups(t) => /\ t \in Dues(M.a, M.rest, "start") <=> t \in Dues(L.a, L.rest, "start")
                         /\ Opens(M, s, t) <=> Opens(L, s, t)
  PROVE  Channel(t, y)'
<1>1. program' = program /\ agenda'[Main] = agenda[Main]
  BY DEF Steady
<1>2. Ups(t)' = Ups(t) /\ UnRefs(t)' = UnRefs(t)
  BY <1>1, SameProgram, SameMain
<1>3. ASSUME NEW u \in Ups(t)
      PROVE  /\ sent'[u] = sent[u] /\ (u \in Flights(t)' <=> u \in Flights(t))
             /\ (u \in Open(t)' <=> u \in Open(t))
  <2>1. u \in Streams
    BY DEF Ups
  <2>2. CASE u # s
    <3>1. Local(u)' = Local(u)
      BY <2>1, <2>2 DEF Steady
    <3> QED
      BY <3>1, <1>2, SameLocal DEF Flights, Open
  <2>3. CASE u = s
    <3>1. sent'[u] = M.sent /\ sent[u] = L.sent
      BY <2>3 DEF Local
    <3> QED
      BY <3>1, <1>2, <2>3 DEF Flights, Open
  <2> QED
    BY <2>2, <2>3
<1>4. refcnt[t]' + Cardinality(UnRefs(t))' - y = refcnt[t] + Cardinality(UnRefs(t)) - x
  <2>1. PICK c : c = Cardinality(UnRefs(t))
    OBVIOUS
  <2>2. c \in Nat /\ c = Cardinality(UnRefs(t))'
    BY <2>1, <1>2, UnRefsTyped
  <2>3. refcnt[t] \in Int /\ refcnt'[t] \in Int
    BY DEF Typed, TypeOK, StreamsOK
  <2>4. refcnt'[t] + c - y = refcnt[t] + c - x
    BY <2>2, <2>3
  <2> QED
    BY <2>1, <2>2, <2>4
<1> QED
  BY <1>1, <1>3, <1>4, ChannelSame

-----------------------------------------------------------------------------
(* The parts of the invariant that a step of s keeps.                      *)

LEMMA SteadyKeeps ==
  ASSUME Given, MainOK, Kinded, Linked, Apart, Awake, Typed, NEW s \in Streams, Steady(s),
         \A t \in Streams : mode[t] = "none" => tasks'[t] = tasks[t],
         Steps(s)' # <<>> => Steps(s) # <<>> \/ tasks[s] # <<>>,
         \A t \in Streams : tasks'[t] # <<>> => tasks[t] # <<>> \/ (Ready(t) /\ mode[t] # "none")
  PROVE  Given' /\ MainOK' /\ Kinded' /\ Linked' /\ Apart' /\ Awake'
<1>1. program' = program /\ agenda'[Main] = agenda[Main] /\ kind' = kind /\ limit' = limit /\ rest' = rest
  BY DEF Steady
<1>2. ASSUME NEW u \in Streams, u # s
      PROVE  /\ Steps(u)' = Steps(u) /\ mode'[u] = mode[u] /\ dst'[u] = dst[u]
             /\ sent'[u] = sent[u] /\ got'[u] = got[u]
  <2>1. Local(u)' = Local(u)
    BY <1>2 DEF Steady
  <2> QED
    BY <2>1, SameLocal
<1>3. \A u \in Streams : mode'[u] = "none" <=> mode[u] = "none"
  BY <1>2 DEF Steady
<1>4. \A u \in Streams : mode[u] = "killed" => mode'[u] = "killed"
  BY <1>2 DEF Steady
<1>5. Given'
  BY <1>1, SameProgram
<1>6. MainOK'
  <2>1. PICK k \in 0..Len(program) : MainAt(k)
    BY DEF MainOK
  <2>2. Rest(agenda[Main], k)' <=> Rest(agenda[Main], k)
    BY <1>1 DEF Rest
  <2>3. Connecting(agenda[Main], k) => Connecting(agenda[Main], k)'
    <3>1. /\ \A a : Rest(a, k)' <=> Rest(a, k)
          /\ \A t : Ready(t)' <=> Ready(t)
          /\ \A t : KindOf(t)' = KindOf(t)
          /\ Lines(program)' = Lines(program)
      BY <1>1, SameMain, SameProgram DEF Rest
    <3> QED
      BY <3>1, <1>1 DEF Connecting
  <2>4. MainAt(k)'
    BY <2>1, <2>2, <2>3, <1>1, <1>3 DEF MainAt
  <2> QED
    BY <2>4, <1>1 DEF MainOK
<1>7. Kinded'
  <2> SUFFICES ASSUME NEW u \in Streams
               PROVE  /\ mode'[u] # "none" => /\ kind'[u] = KindOf(u)' /\ limit'[u] = LimitOf(u)'
                                              /\ mode'[u] \in {ModeOf(KindOf(u)'), "dying", "killed"}
                      /\ mode'[u] = "none" => sent'[u] = <<>> /\ got'[u] = <<>> /\ tasks'[u] = <<>>
    BY DEF Kinded
  <2>1. KindOf(u)' = KindOf(u) /\ LimitOf(u)' = LimitOf(u)
    BY <1>1, SameProgram
  <2>2. mode'[u] # "none" => kind'[u] = KindOf(u)' /\ limit'[u] = LimitOf(u)'
    BY <2>1, <1>1, <1>3 DEF Kinded
  <2>3. mode'[u] # "none" => mode'[u] \in {ModeOf(KindOf(u)'), "dying", "killed"}
    BY <2>1, <1>2, <1>3 DEF Kinded, Steady
  <2>4. mode'[u] = "none" => sent'[u] = <<>> /\ got'[u] = <<>> /\ tasks'[u] = <<>>
    <3>1. mode'[u] = "none" => u # s
      BY DEF Steady
    <3> QED
      BY <3>1, <1>2, <1>3 DEF Kinded
  <2> QED
    BY <2>2, <2>3, <2>4
<1>8. Linked'
  <2> SUFFICES ASSUME NEW u \in Streams, NEW t \in Streams
               PROVE  /\ Joined(u, t)' => /\ Link(u, t)' /\ ~InSeq(ConnectOp(u, t), agenda'[Main])
                                          /\ mode'[u] # "none" /\ mode'[t] # "none"
                      /\ Link(u, t)' /\ ~InSeq(ConnectOp(u, t), agenda'[Main])
                           => Joined(u, t)' \/ mode'[t] = "killed"
    BY DEF Linked, InSeq
  <2>1. Joined(u, t)' => Joined(u, t)
    BY <1>1, <1>2, NullAssumption DEF Joined, InSeq, Steady
  <2>2. Joined(u, t) => Joined(u, t)' \/ mode[t] = "killed"
    BY <1>1, <1>2 DEF Joined, InSeq, Steady
  <2>3. Link(u, t)' <=> Link(u, t)
    BY <1>1, SameProgram
  <2> QED
    BY <2>1, <2>2, <2>3, <1>1, <1>3, <1>4 DEF Linked
<1>9. Apart'
  <2> SUFFICES ASSUME NEW u \in Streams
               PROVE  /\ \A i \in 1..Len(rest'[u]) : rest'[u][i] # dst'[u]
                      /\ \A i, j \in 1..Len(rest'[u]) : rest'[u][i] = rest'[u][j] => i = j
    BY DEF Apart
  <2>1. rest[u] \in Seq(Streams)
    BY DEF Typed, TypeOK, StreamsOK
  <2>2. \A i \in 1..Len(rest[u]) : rest[u][i] \in Streams
    BY <2>1
  <2>3. dst'[u] = dst[u] \/ dst'[u] = NoStream
    BY <1>2 DEF Steady
  <2> QED
    BY <1>1, <2>2, <2>3, NullAssumption DEF Apart
<1>10. Awake'
  <2> SUFFICES ASSUME NEW u \in Streams, Steps(u)' # <<>> \/ tasks'[u] # <<>>
               PROVE  Ready(u)' /\ mode'[u] # "none"
    BY DEF Awake
  <2>1. Ready(u)' <=> Ready(u)
    BY <1>1, SameMain
  <2>2. Ready(u) /\ mode[u] # "none"
    BY <1>2 DEF Awake
  <2> QED
    BY <2>1, <2>2, <1>3
<1> QED
  BY <1>5, <1>6, <1>7, <1>8, <1>9, <1>10

LEMMA PhasedNext ==
  ASSUME Phased, NEW s \in Streams, Steady(s), NEW M, M = Local(s)', NEW y \in {-1, 0, 1},
         Phase(M, s, y), Live(M.mode) => Channel(s, y)',
         \A t \in Streams, x \in {-1, 0, 1} : t # s /\ Live(mode[t]) /\ Channel(t, x) => Channel(t, x)'
  PROVE  Phased'
<1> SUFFICES ASSUME NEW t \in Streams
             PROVE  \E x \in {-1, 0, 1} : Phase(Local(t)', t, x) /\ (Live(mode'[t]) => Channel(t, x)')
  BY DEF Phased
<1>1. CASE t = s
  <2>1. M.mode = mode'[s]
    BY DEF Local
  <2> QED
    BY <1>1, <2>1
<1>2. CASE t # s
  <2>1. PICK x \in {-1, 0, 1} : Phase(Local(t), t, x) /\ (Live(mode[t]) => Channel(t, x))
    BY DEF Phased
  <2>2. Local(t)' = Local(t)
    BY <1>2 DEF Steady
  <2>3. mode'[t] = mode[t]
    BY <2>2, SameLocal
  <2>4. Phase(Local(t)', t, x)
    BY <2>1, <2>2
  <2>5. Live(mode'[t]) => Channel(t, x)'
    BY <2>1, <2>3, <1>2
  <2> QED
    BY <2>4, <2>5
<1> QED
  BY <1>1, <1>2

LEMMA LastsNext ==
  ASSUME Lasts, NEW s \in Streams, Steady(s), NEW L, L = Local(s), NEW M, M = Local(s)',
         Gone(L, s) => Gone(M, s),
         Lasting(program, s) => /\ M.mode # "dying"
                                /\ M.mode = "killed" => L.mode = "killed" \/ \A u \in Ups(s) : Gone(Local(u), u)
  PROVE  Lasts'
<1>1. program' = program
  BY DEF Steady
<1>2. ASSUME NEW u \in Streams, Gone(Local(u), u) PROVE Gone(Local(u)', u)
  <2>1. CASE u = s
    BY <2>1, <1>2
  <2>2. CASE u # s
    <3>1. Local(u)' = Local(u)
      BY <2>2 DEF Steady
    <3> QED
      BY <3>1, <1>2
  <2> QED
    BY <2>1, <2>2
<1> SUFFICES ASSUME NEW t \in Streams, Lasting(program, t)'
             PROVE  mode'[t] # "dying" /\ (mode'[t] = "killed" => \A u \in Ups(t)' : Gone(Local(u), u)')
  BY DEF Lasts
<1>3. Lasting(program, t) /\ Ups(t)' = Ups(t) /\ Ups(t) \subseteq Streams
  BY <1>1, SameProgram DEF Ups
<1>4. L.mode = mode[s] /\ M.mode = mode'[s]
  BY DEF Local
<1>5. t # s => mode'[t] = mode[t]
  BY SameLocal DEF Steady
<1>6. mode'[t] # "dying"
  BY <1>3, <1>4, <1>5 DEF Lasts
<1>7. mode'[t] = "killed" => \A u \in Ups(t) : Gone(Local(u), u)
  BY <1>3, <1>4, <1>5 DEF Lasts
<1>8. \A u \in Streams : Gone(Local(u), u)' <=> Gone(Local(u)', u)
  OBVIOUS
<1> QED
  BY <1>2, <1>3, <1>6, <1>7, <1>8

LEMMA EndsNext ==
  ASSUME Ends, NEW s \in Streams, Steady(s),
         OwnCloses(Steps(s)', s)
  PROVE  Ends'
<1> SUFFICES ASSUME NEW t \in Streams
             PROVE  OwnCloses(Steps(t)', t)
  BY DEF Ends, OwnCloses
<1>1. t # s => Steps(t)' = Steps(t)
  BY SameLocal DEF Steady
<1> QED
  BY <1>1 DEF Ends

\* A step that only its own stream sees, but for the upstreams it stops to push to.
LEMMA QuietKeeps ==
  ASSUME Delivering, Typed', NEW s \in Streams, Steady(s), NEW L, L = Local(s), NEW M, M = Local(s)',
         tasks' = tasks, M.sent = L.sent, M.got = L.got, L.a # <<>>,
         NEW x \in {-1, 0, 1}, Live(L.mode) => Channel(s, x),
         NEW y \in {-1, 0, 1}, Phase(M, s, y),
         Live(M.mode) => Live(L.mode) /\ M.ref - y = L.ref - x,
         \A t \in Streams : Live(mode[t]) /\ Link(s, t) =>
           /\ t \in Dues(M.a, M.rest, "start") <=> t \in Dues(L.a, L.rest, "start")
           /\ Opens(M, s, t) <=> Opens(L, s, t),
         Gone(L, s) => Gone(M, s),
         OwnCloses(M.a, s),
         Lasting(program, s) => /\ M.mode # "dying"
                                /\ M.mode = "killed" => L.mode = "killed" \/ \A u \in Ups(s) : Gone(Local(u), u)
  PROVE  Flowing'
<1>1. /\ Given /\ MainOK /\ Kinded /\ Linked /\ Apart /\ Awake /\ Tokens /\ Origins
      /\ Lasts /\ Ends /\ Phased /\ Typed
  BY DEF Delivering, Flowing, ExclusiveInv
<1>2. program' = program
  BY DEF Steady
<1>3. /\ L.a = Steps(s) /\ M.a = Steps(s)' /\ L.sent = sent[s] /\ M.sent = sent'[s]
      /\ L.got = got[s] /\ M.got = got'[s] /\ L.ref = refcnt[s] /\ M.ref = refcnt'[s]
      /\ L.mode = mode[s] /\ M.mode = mode'[s]
  BY DEF Local
<1>4. \A u \in Streams : u # s => /\ sent'[u] = sent[u] /\ got'[u] = got[u] /\ refcnt'[u] = refcnt[u]
  BY SameLocal DEF Steady
<1>5. \A u \in Streams : sent'[u] = sent[u] /\ got'[u] = got[u]
  BY <1>3, <1>4
<1>6. Given' /\ MainOK' /\ Kinded' /\ Linked' /\ Apart' /\ Awake'
  <2>1. Steps(s) # <<>>
    BY <1>3
  <2> QED
    BY <1>1, <2>1, SteadyKeeps
<1>7. Tokens'
  BY <1>1, <1>2, SameProgram DEF Tokens
<1>8. Origins'
  BY <1>1, <1>2, <1>5, SameProgram DEF Origins, InSeq, Ups
<1>9. Lasts'
  BY <1>1, LastsNext
<1>10. Ends'
  BY <1>1, <1>3, EndsNext
<1>11. x \in Int /\ y \in Int
  OBVIOUS
<1>12. Phased'
  <2>1. ASSUME Live(M.mode) PROVE Channel(s, y)'
    <3>1. Channel(s, x) /\ refcnt'[s] - y = refcnt[s] - x
      BY <2>1, <1>3
    <3>2. s \notin Ups(s)
      BY <1>1, LinkTyped DEF Ups
    <3> QED
      BY <3>1, <3>2, <1>1, <1>5, <1>11, SteadyChannel
  <2>2. ASSUME NEW t \in Streams, NEW z \in {-1, 0, 1}, t # s, Live(mode[t]), Channel(t, z)
        PROVE  Channel(t, z)'
    <3>1. refcnt'[t] - z = refcnt[t] - z /\ z \in Int
      BY <1>4, <2>2
    <3>2. s \in Ups(t) => Link(s, t)
      BY DEF Ups
    <3> QED
      BY <3>1, <3>2, <2>2, <1>1, <1>5, SteadyChannel
  <2> QED
    BY <1>1, <2>1, <2>2, PhasedNext
<1> QED
  BY <1>6, <1>7, <1>8, <1>9, <1>10, <1>12 DEF Flowing

-----------------------------------------------------------------------------
(* From one phase to the next.                                             *)

\* What is done is replaced.
LEMMA ConcatFacts ==
  ASSUME NEW T, NEW p \in Seq(T), NEW r \in Seq(T)
  PROVE  /\ p \o r \in Seq(T) /\ Len(p \o r) = Len(p) + Len(r) /\ Len(p) \in Nat /\ Len(r) \in Nat
         /\ \A i \in 1..Len(p) : (p \o r)[i] = p[i]
         /\ \A i \in 1..Len(r) : (p \o r)[Len(p) + i] = r[i]
         /\ \A i \in 1..(Len(p) + Len(r)) :
              i \in 1..Len(p) \/ \E j \in 1..Len(r) : i = Len(p) + j
<1>1. /\ p \o r \in Seq(T) /\ Len(p \o r) = Len(p) + Len(r) /\ Len(p) \in Nat /\ Len(r) \in Nat
  OBVIOUS
<1>2. \A i \in 1..Len(p) : (p \o r)[i] = p[i]
  OBVIOUS
<1>3. \A i \in 1..Len(r) : (p \o r)[Len(p) + i] = r[i]
  OBVIOUS
<1>4. ASSUME NEW i \in 1..(Len(p) + Len(r)), i \notin 1..Len(p)
      PROVE  \E j \in 1..Len(r) : i = Len(p) + j
  <2>1. i - Len(p) \in 1..Len(r) /\ i = Len(p) + (i - Len(p))
    BY <1>1, <1>4
  <2> QED
    BY <2>1
<1> QED
  BY <1>1, <1>2, <1>3, <1>4

LEMMA DuesConcat ==
  ASSUME NEW p \in Seq(Ops), NEW r \in Seq(Ops), NEW q, NEW f
  PROVE  Dues(p \o r, q, f) = Dues(p, q, f) \union Dues(r, q, f)
<1>1. ASSUME NEW t, t \in Dues(p \o r, q, f) PROVE t \in Dues(p, q, f) \union Dues(r, q, f)
  <2>1. PICK i \in 1..Len(p \o r) : t \in Due((p \o r)[i], q, f)
    BY <1>1 DEF Dues
  <2> QED
    BY <2>1, ConcatFacts DEF Dues
<1>2. ASSUME NEW t, t \in Dues(p, q, f) PROVE t \in Dues(p \o r, q, f)
  <2>1. PICK i \in 1..Len(p) : t \in Due(p[i], q, f)
    BY <1>2 DEF Dues
  <2>2. i \in 1..Len(p \o r) /\ (p \o r)[i] = p[i]
    BY ConcatFacts
  <2> QED
    BY <2>1, <2>2 DEF Dues
<1>3. ASSUME NEW t, t \in Dues(r, q, f) PROVE t \in Dues(p \o r, q, f)
  <2>1. PICK i \in 1..Len(r) : t \in Due(r[i], q, f)
    BY <1>3 DEF Dues
  <2>2. Len(p) + i \in 1..Len(p \o r) /\ (p \o r)[Len(p) + i] = r[i]
    BY ConcatFacts
  <2> QED
    BY <2>1, <2>2 DEF Dues
<1> QED
  BY <1>1, <1>2, <1>3, Zenon

LEMMA ClosesConcat ==
  ASSUME NEW p \in Seq(Ops), NEW r \in Seq(Ops), NEW s
  PROVE  Closes(p \o r, s) <=> Closes(p, s) \/ Closes(r, s)
<1>1. Closes(p \o r, s) => Closes(p, s) \/ Closes(r, s)
  <2> SUFFICES ASSUME NEW i \in 1..Len(p \o r), (p \o r)[i] = CloseDstOp(s)
               PROVE  Closes(p, s) \/ Closes(r, s)
    BY DEF Closes
  <2>1. i \in 1..(Len(p) + Len(r))
    BY ConcatFacts
  <2>2. CASE i \in 1..Len(p)
    <3>1. (p \o r)[i] = p[i]
      BY <2>2, ConcatFacts
    <3> QED
      BY <2>2, <3>1 DEF Closes
  <2>3. CASE i \notin 1..Len(p)
    <3>1. PICK j \in 1..Len(r) : i = Len(p) + j
      BY <2>1, <2>3, ConcatFacts
    <3>2. (p \o r)[i] = r[j]
      BY <3>1, ConcatFacts
    <3> QED
      BY <3>2 DEF Closes
  <2> QED
    BY <2>2, <2>3
<1>2. Closes(p, s) => Closes(p \o r, s)
  <2> SUFFICES ASSUME NEW i \in 1..Len(p), p[i] = CloseDstOp(s) PROVE Closes(p \o r, s)
    BY DEF Closes
  <2>1. i \in 1..Len(p \o r) /\ (p \o r)[i] = p[i]
    BY ConcatFacts
  <2> QED
    BY <2>1 DEF Closes
<1>3. Closes(r, s) => Closes(p \o r, s)
  <2> SUFFICES ASSUME NEW i \in 1..Len(r), r[i] = CloseDstOp(s) PROVE Closes(p \o r, s)
    BY DEF Closes
  <2>1. Len(p) + i \in 1..Len(p \o r) /\ (p \o r)[Len(p) + i] = r[i]
    BY ConcatFacts
  <2> QED
    BY <2>1 DEF Closes
<1> QED
  BY <1>1, <1>2, <1>3

LEMMA OwnClosesNext ==
  ASSUME NEW a \in Seq(Ops), a # <<>>, NEW p \in Seq(Ops), NEW s, OwnCloses(a, s), OwnCloses(p, s)
  PROVE  OwnCloses(p \o Tail(a), s)
<1> DEFINE r == Tail(a)
<1>1. r \in Seq(Ops) /\ \A i \in 1..Len(r) : i + 1 \in 1..Len(a) /\ r[i] = a[i + 1]
  OBVIOUS
<1> HIDE DEF r
<1>2. ASSUME NEW i \in 1..Len(p \o r), (p \o r)[i].op = "closeDst" PROVE (p \o r)[i].s = s
  <2>1. i \in 1..Len(p) \/ \E j \in 1..Len(r) : i = Len(p) + j
    BY <1>1, ConcatFacts
  <2>2. CASE i \in 1..Len(p)
    BY <2>2, <1>1, <1>2, ConcatFacts DEF OwnCloses
  <2>3. CASE \E j \in 1..Len(r) : i = Len(p) + j
    <3>1. PICK j \in 1..Len(r) : i = Len(p) + j
      BY <2>3
    <3>2. (p \o r)[i] = a[j + 1] /\ j + 1 \in 1..Len(a)
      BY <3>1, <1>1, ConcatFacts
    <3> QED
      BY <3>2, <1>2 DEF OwnCloses
  <2> QED
    BY <2>1, <2>2, <2>3
<1> QED
  BY <1>2 DEF OwnCloses, r

\* Only the agenda changes, and possibly dst.
Turns(L, M, a) ==
  /\ M.a = a /\ M.kind = L.kind /\ M.limit = L.limit /\ M.n = L.n /\ M.mode = L.mode
  /\ M.rest = L.rest /\ M.ref = L.ref /\ M.sent = L.sent /\ M.got = L.got

LEMMA TurnsSame ==
  ASSUME NEW L, NEW M, NEW b, Turns(L, M, b), NEW s
  PROVE  /\ \A z : Spreading(M, z) <=> Spreading(L, z)
         /\ Closing(M) <=> Closing(L)
         /\ \A e, z : Sums(M, e, z) <=> Sums(L, e, z)
         /\ \A a, j : Left(M, a, s, j) <=> Left(L, a, s, j)
         /\ \A a : Remains(M, a, s) <=> Remains(L, a, s)
         /\ \A a : Emitted(M, a, s) <=> Emitted(L, a, s)
         /\ \A a : AtCheck(M, a, s) <=> AtCheck(L, a, s)
         /\ \A a, i : AtRest(M, a, s, i) <=> AtRest(L, a, s, i)
         /\ \A a : AtDrop(M, a, s) <=> AtDrop(L, a, s)
         /\ M.dst = L.dst => \A z, t, f, d, a : Following(M, s, z, t, f, d, a) <=> Following(L, s, z, t, f, d, a)
<1>1. \A e, z : Sums(M, e, z) <=> Sums(L, e, z)
  BY DEF Turns, Sums
<1>2. Closing(M) <=> Closing(L)
  BY DEF Turns, Closing
<1>3. \A z : Spreading(M, z) <=> Spreading(L, z)
  BY <1>1, <1>2 DEF Turns, Spreading
<1>4. \A a, j : Left(M, a, s, j) <=> Left(L, a, s, j)
  BY DEF Turns, Left, Owes
<1>5. \A a : Remains(M, a, s) <=> Remains(L, a, s)
  BY <1>4 DEF Remains
<1>6. \A a : Emitted(M, a, s) <=> Emitted(L, a, s)
  BY <1>5 DEF Turns, Emitted
<1>7. \A a : AtCheck(M, a, s) <=> AtCheck(L, a, s)
  BY <1>6 DEF Turns, AtCheck
<1>8. \A a, i : AtRest(M, a, s, i) <=> AtRest(L, a, s, i)
  BY <1>7 DEF Turns, AtRest
<1>9. \A a : AtDrop(M, a, s) <=> AtDrop(L, a, s)
  BY <1>8 DEF AtDrop
<1>10. M.dst = L.dst => \A z, t, f, d, a : Following(M, s, z, t, f, d, a) <=> Following(L, s, z, t, f, d, a)
  BY <1>1, <1>2, <1>3, <1>6, <1>8, <1>9 DEF Turns, Following
<1> QED
  BY <1>1, <1>2, <1>3, <1>4, <1>5, <1>6, <1>7, <1>8, <1>9, <1>10

\* No stream of T sees that L becomes M.
Passes(L, M, s, T) ==
  /\ Gone(M, s) <=> Gone(L, s)
  /\ \A t \in T, f \in Funcs : t \in Dues(M.a, M.rest, f) <=> t \in Dues(L.a, L.rest, f)

LEMMA ShortFacts ==
  ASSUME NEW q, NEW f, NEW s
  PROVE  /\ Dues(<<>>, q, f) = {} /\ ~Closes(<<>>, s) /\ OwnCloses(<<>>, s)
         /\ \A o \in Ops : /\ Dues(<<o>>, q, f) = Due(o, q, f)
                           /\ Closes(<<o>>, s) <=> o = CloseDstOp(s)
                           /\ o.op # "closeDst" => OwnCloses(<<o>>, s)
         /\ \A o, p \in Ops : /\ Dues(<<o, p>>, q, f) = Due(o, q, f) \union Due(p, q, f)
                              /\ Closes(<<o, p>>, s) <=> o = CloseDstOp(s) \/ p = CloseDstOp(s)
                              /\ o.op # "closeDst" /\ p.op # "closeDst" => OwnCloses(<<o, p>>, s)
<1>1. Dues(<<>>, q, f) = {} /\ ~Closes(<<>>, s) /\ OwnCloses(<<>>, s)
  BY DEF Dues, Closes, OwnCloses
<1>2. ASSUME NEW o \in Ops
      PROVE  /\ Dues(<<o>>, q, f) = Due(o, q, f)
             /\ Closes(<<o>>, s) <=> o = CloseDstOp(s)
             /\ o.op # "closeDst" => OwnCloses(<<o>>, s)
  <2>1. <<o>> \in Seq(Ops) /\ <<o>> # <<>> /\ Head(<<o>>) = o /\ Tail(<<o>>) = <<>>
    OBVIOUS
  <2>2. Dues(<<o>>, q, f) = Due(o, q, f) \union Dues(<<>>, q, f)
    BY <2>1, DuesCons
  <2>3. Closes(<<o>>, s) <=> o = CloseDstOp(s) \/ Closes(<<>>, s)
    BY <2>1, ClosesCons
  <2>4. o.op # "closeDst" => OwnCloses(<<o>>, s)
    BY DEF OwnCloses
  <2> QED
    BY <2>2, <2>3, <2>4, <1>1
<1>3. ASSUME NEW o \in Ops, NEW p \in Ops
      PROVE  /\ Dues(<<o, p>>, q, f) = Due(o, q, f) \union Due(p, q, f)
             /\ Closes(<<o, p>>, s) <=> o = CloseDstOp(s) \/ p = CloseDstOp(s)
             /\ o.op # "closeDst" /\ p.op # "closeDst" => OwnCloses(<<o, p>>, s)
  <2>1. <<o, p>> \in Seq(Ops) /\ <<o, p>> # <<>> /\ Head(<<o, p>>) = o /\ Tail(<<o, p>>) = <<p>>
    OBVIOUS
  <2>2. Dues(<<o, p>>, q, f) = Due(o, q, f) \union Dues(<<p>>, q, f)
    BY <2>1, DuesCons, ZenonT(40)
  <2>3. Closes(<<o, p>>, s) <=> o = CloseDstOp(s) \/ Closes(<<p>>, s)
    BY <2>1, ClosesCons, ZenonT(40)
  <2>4. o.op # "closeDst" /\ p.op # "closeDst" => OwnCloses(<<o, p>>, s)
    BY DEF OwnCloses
  <2> QED
    BY <2>2, <2>3, <2>4, <1>2
<1> QED
  BY <1>1, <1>2, <1>3

LEMMA DuesTwo ==
  ASSUME NEW o \in Ops, NEW p \in Ops, NEW q, NEW f
  PROVE  Dues(<<o, p>>, q, f) = Due(o, q, f) \union Due(p, q, f)
<1>1. <<o, p>> \in Seq(Ops) /\ <<o, p>> # <<>> /\ Head(<<o, p>>) = o /\ Tail(<<o, p>>) = <<p>>
  OBVIOUS
<1>2. <<p>> \in Seq(Ops) /\ <<p>> # <<>> /\ Head(<<p>>) = p /\ Tail(<<p>>) = <<>>
  OBVIOUS
<1>3. Dues(<<o, p>>, q, f) = Due(o, q, f) \union Dues(<<p>>, q, f)
  BY <1>1, DuesCons, ZenonT(40)
<1>4. Dues(<<p>>, q, f) = Due(p, q, f) \union Dues(<<>>, q, f)
  BY <1>2, DuesCons, ZenonT(40)
<1>5. Dues(<<>>, q, f) = {}
  BY DuesNone
<1> QED
  BY <1>3, <1>4, <1>5

\* The next step and what follows.
Splits(a, o, r) == a \in Seq(Ops) /\ a # <<>> /\ o = Head(a) /\ r = Tail(a)

LEMMA SplitFacts ==
  ASSUME NEW a, NEW o, NEW r, Splits(a, o, r), NEW q, NEW f, NEW s
  PROVE  /\ a \in Seq(Ops) /\ o \in Ops /\ r \in Seq(Ops)
         /\ Dues(a, q, f) = Due(o, q, f) \union Dues(r, q, f)
         /\ Closes(a, s) <=> o = CloseDstOp(s) \/ Closes(r, s)
  BY HeadTail, DuesCons, ClosesCons DEF Splits

\* p takes the place of a step that is due to push to the same streams of T.
LEMMA PassesNext ==
  ASSUME NEW L, NEW M, NEW s, NEW T, NEW o, NEW r, Splits(L.a, o, r), NEW p \in Seq(Ops),
         M.a = p \o r, M.rest = L.rest, M.kind = L.kind, M.got = L.got,
         M.mode = "killed" <=> L.mode = "killed", ~Closes(p, s), o # CloseDstOp(s),
         \A t \in T, f \in Funcs : t \in Dues(p, L.rest, f) <=> t \in Due(o, L.rest, f)
  PROVE  Passes(L, M, s, T)
<1>1. r \in Seq(Ops)
  BY SplitFacts
<1>2. Closes(M.a, s) <=> Closes(L.a, s)
  <2>1. Closes(p \o r, s) <=> Closes(p, s) \/ Closes(r, s)
    BY <1>1, ClosesConcat
  <2>2. Closes(L.a, s) <=> o = CloseDstOp(s) \/ Closes(r, s)
    BY SplitFacts
  <2> QED
    BY <2>1, <2>2
<1>3. ASSUME NEW t \in T, NEW f \in Funcs
      PROVE  t \in Dues(M.a, M.rest, f) <=> t \in Dues(L.a, L.rest, f)
  <2>1. Dues(p \o r, L.rest, f) = Dues(p, L.rest, f) \union Dues(r, L.rest, f)
    BY <1>1, DuesConcat
  <2>2. Dues(L.a, L.rest, f) = Due(o, L.rest, f) \union Dues(r, L.rest, f)
    BY SplitFacts
  <2> QED
    BY <2>1, <2>2
<1> QED
  BY <1>2, <1>3 DEF Passes, Gone

\* The most frequent case: nothing takes its place.
LEMMA PassesDone ==
  ASSUME NEW L, NEW M, NEW s, NEW T, NEW o, NEW r, Splits(L.a, o, r),
         M.a = <<>> \o r, M.rest = L.rest, M.kind = L.kind, M.got = L.got,
         M.mode = "killed" <=> L.mode = "killed", o # CloseDstOp(s),
         \A t \in T, f \in Funcs : t \notin Due(o, L.rest, f)
  PROVE  Passes(L, M, s, T)
<1>1. <<>> \in Seq(Ops)
  OBVIOUS
<1>2. ~Closes(<<>>, s)
  BY ShortFacts
<1>3. \A f \in Funcs : Dues(<<>>, L.rest, f) = {}
  BY ShortFacts
<1> QED
  BY <1>1, <1>2, <1>3, PassesNext
-----------------------------------------------------------------------------
\* Something has been pushed, or need not be.
LEMMA FollowedPhase ==
  ASSUME NEW s \in Streams, NEW L, TypedLocal(L), NEW x, NEW t, NEW f, NEW d, NEW r,
         Following(L, s, x, t, f, d, r), NEW M, Turns(L, M, r), M.dst = L.dst
  PROVE  Phase(M, s, x)
<1>1. Len(L.rest) \in Nat
  BY DEF TypedLocal
<1>2. M.a = r /\ M.rest = L.rest
  BY DEF Turns
<1>3. CASE Spreading(L, x) /\ AtDrop(L, r, s)
  <2>1. Spreading(M, x) /\ AtDrop(M, M.a, s)
    BY <1>3, <1>2, TurnsSame
  <2>2. M.a # <<>> /\ Head(M.a).op = "dropDst"
    BY <2>1 DEF AtDrop, Is, DropDstOp
  <2> QED
    BY <2>1, <2>2 DEF Phase
<1>4. CASE Spreading(L, x) /\ \E i \in 1..Len(L.rest) : AtRest(L, r, s, i + 1)
  <2>1. PICK i \in 1..Len(L.rest) : AtRest(L, r, s, i + 1)
    BY <1>4
  <2>2. Spreading(M, x) /\ AtRest(M, M.a, s, i + 1)
    BY <1>4, <2>1, <1>2, TurnsSame
  <2>3. M.a # <<>> /\ Head(M.a).op = "emitRest"
    BY <2>2 DEF AtRest, Is, EmitRestOp
  <2>4. i + 1 \in 1..(Len(M.rest) + 1)
    BY <1>1, <1>2
  <2> QED
    BY <2>2, <2>3, <2>4 DEF Phase
<1>5. CASE L.kind = "seq" /\ Live(L.mode) /\ x = 0 /\ Sums(L, 0, 1) /\ Emitted(L, r, s)
  <2>1. Is(r, SeqNextOp(s))
    BY <1>5 DEF Emitted
  <2>2. M.a # <<>> /\ Head(M.a).op = "seqNext"
    BY <2>1, <1>2 DEF Is, SeqNextOp
  <2>3. Emitted(M, M.a, s) /\ Sums(M, 0, 1)
    BY <1>5, <1>2, TurnsSame
  <2>4. M.kind = "seq" /\ Live(M.mode)
    BY <1>5 DEF Turns
  <2> QED
    BY <2>2, <2>3, <2>4, <1>5 DEF Phase, Counting
<1>6. CASE Closing(L) /\ \E i \in 0..Len(L.rest) : AtCloseRest(r, s, i + 1)
  <2>1. PICK i \in 0..Len(L.rest) : AtCloseRest(r, s, i + 1)
    BY <1>6
  <2>2. Closing(M)
    BY <1>6, TurnsSame
  <2>3. M.a # <<>> /\ Head(M.a).op = "closeRest"
    BY <2>1, <1>2 DEF AtCloseRest, Is, CloseRestOp
  <2>4. i + 1 \in 1..(Len(M.rest) + 1)
    BY <1>1, <1>2
  <2> QED
    BY <2>1, <2>2, <2>3, <2>4, <1>2 DEF Phase
<1>7. AtCloseRest(r, s, 1) => AtCloseRest(r, s, 0 + 1) /\ 0 \in 0..Len(L.rest)
  BY <1>1
<1>8. \A i \in 1..Len(L.rest) : i \in 0..Len(L.rest)
  BY <1>1
<1> QED
  BY <1>3, <1>4, <1>5, <1>6, <1>7, <1>8, Zenon DEF Following

LEMMA PushLocal ==
  ASSUME NEW s \in Streams, NEW L, TypedLocal(L), NEW x, Phase(L, s, x),
         NEW o, NEW r, Splits(L.a, o, r), o.op = "push", NEW p, p \in {<<>>, TaskAdd(o.s, o.f, o.d)},
         NEW M, Turns(L, M, p \o r), M.dst = L.dst, NEW T, p = <<>> => o.s \notin T
  PROVE  Phase(M, s, x) /\ Passes(L, M, s, T) /\ OwnCloses(p, s) /\ p \in Seq(Ops)
<1>1. L.a \in Seq(Ops) /\ r \in Seq(Ops) /\ o \in Ops
  BY SplitFacts
<1>2. o.s \in Streams /\ o.f \in Funcs /\ o.d \in Data
  BY <1>1, OpFields
<1>3. Following(L, s, x, o.s, o.f, o.d, r)
  BY DEF Phase, Splits
<1>4. ASSUME NEW f 
      PROVE  /\ o.f = f /\ (f = "start" => o.d # Nil) => Due(o, L.rest, f) = {o.s}
             /\ ~(o.f = f /\ (f = "start" => o.d # Nil)) => Due(o, L.rest, f) = {}
  BY DuePush
<1>5. o # CloseDstOp(s)
  BY DEF CloseDstOp
<1>6. CASE p = <<>>
  <2>1. p \o r = r
    BY <1>1, <1>6, Front0
  <2>2. Phase(M, s, x)
    BY <1>1, <1>3, <2>1, FollowedPhase
  <2>3. ASSUME NEW t \in T, NEW f \in Funcs PROVE t \notin Due(o, L.rest, f)
    BY <1>4, <1>6
  <2>4. Passes(L, M, s, T)
    BY <1>5, <1>6, <2>3, PassesDone DEF Turns
  <2>5. OwnCloses(<<>>, s) /\ <<>> \in Seq(Ops)
    BY ShortFacts
  <2> QED
    BY <1>6, <2>2, <2>4, <2>5
<1>7. CASE p = TaskAdd(o.s, o.f, o.d)
  <2>1. PICK b : b = AddTaskOp(o.s, o.f, o.d)
    OBVIOUS
  <2>2. PICK c : c = AddStreamOp(o.s)
    OBVIOUS
  <2>3. b \in Ops /\ c \in Ops
    BY <1>2, <2>1, <2>2, OpTypes
  <2>4. b.op = "addTask" /\ b.s = o.s /\ b.f = o.f /\ b.d = o.d /\ c.op = "addStream" /\ c = AddStreamOp(b.s)
    BY <2>1, <2>2 DEF AddTaskOp, AddStreamOp
  <2>5. p = <<b, c>>
    BY <1>7, <2>1, <2>2 DEF TaskAdd
  <2>6. p \in Seq(Ops)
    BY <2>3, <2>5, ShortAgendas
  <2>7. p \o r = <<b>> \o (<<c>> \o r)
    BY <2>3, <2>5, <1>1, Front2
  <2>8. <<c>> \o r \in Seq(Ops) /\ <<c>> \o r # <<>> /\ Head(<<c>> \o r) = c /\ Tail(<<c>> \o r) = r
    BY <2>3, <1>1, Front1
  <2>9. p \o r # <<>> /\ Head(p \o r) = b /\ Tail(p \o r) = <<c>> \o r
    BY <2>3, <2>7, <2>8, Front1
  <2>10. M.a = p \o r
    BY DEF Turns
  <2>11. Is(Tail(M.a), AddStreamOp(b.s)) /\ Tail(Tail(M.a)) = r /\ Head(M.a) = b /\ M.a # <<>>
    BY <2>4, <2>8, <2>9, <2>10 DEF Is
  <2>12. Following(M, s, x, b.s, b.f, b.d, r)
    BY <1>3, <2>4, TurnsSame
  <2>13. Phase(M, s, x)
    BY <2>4, <2>11, <2>12 DEF Phase
  <2>14. ASSUME NEW f PROVE Dues(p, L.rest, f) = Due(o, L.rest, f)
    <3>1. /\ b.f = f /\ (f = "start" => b.d # Nil) => Due(b, L.rest, f) = {b.s}
          /\ ~(b.f = f /\ (f = "start" => b.d # Nil)) => Due(b, L.rest, f) = {}
      BY <2>4, DuePush
    <3>2. Due(c, L.rest, f) = {}
      BY <2>4, DueNone
    <3>3. Dues(<<b, c>>, L.rest, f) = Due(b, L.rest, f) \union Due(c, L.rest, f)
      BY <2>3, DuesTwo
    <3> QED
      BY <2>4, <2>5, <3>1, <3>2, <3>3, <1>4
  <2>15. b # CloseDstOp(s) /\ c # CloseDstOp(s) /\ b.op # "closeDst" /\ c.op # "closeDst"
    BY <2>4 DEF CloseDstOp
  <2>16. ~Closes(p, s) /\ OwnCloses(p, s)
    BY <2>3, <2>5, <2>15, ShortFacts
  <2>17. Passes(L, M, s, T)
    BY <1>5, <2>6, <2>10, <2>14, <2>16, PassesNext DEF Turns
  <2> QED
    BY <2>6, <2>13, <2>16, <2>17
<1> QED
  BY <1>6, <1>7

LEMMA AddStreamLocal ==
  ASSUME NEW s \in Streams, NEW L, TypedLocal(L), NEW x, Phase(L, s, x),
         NEW o, NEW r, Splits(L.a, o, r), o.op = "addStream",
         NEW M, Turns(L, M, <<>> \o r), M.dst = L.dst
  PROVE  Phase(M, s, x) /\ Passes(L, M, s, Streams)
<1>1. r \in Seq(Ops) /\ <<>> \o r = r
  BY SplitFacts, Front0
<1>2. \E t, f, d : Following(L, s, x, t, f, d, r)
  BY DEF Phase, Splits
<1>3. Phase(M, s, x)
  BY <1>1, <1>2, FollowedPhase
<1>4. o # CloseDstOp(s)
  BY DEF CloseDstOp
<1>5. ASSUME NEW f PROVE Due(o, L.rest, f) = {}
  BY DueNone
<1> QED
  BY <1>3, <1>4, <1>5, PassesDone DEF Turns

LEMMA AddTaskLocal ==
  ASSUME NEW s \in Streams, NEW L, TypedLocal(L), NEW x, Phase(L, s, x),
         NEW o, NEW r, Splits(L.a, o, r), o.op = "addTask",
         NEW M, Turns(L, M, <<>> \o r), M.dst = L.dst
  PROVE  /\ Phase(M, s, x) /\ Passes(L, M, s, Streams \ {o.s})
         /\ Following(L, s, x, o.s, o.f, o.d, Tail(r))
         /\ Is(r, AddStreamOp(o.s))
         /\ o.s \in Streams /\ o.f \in Funcs /\ o.d \in Data
<1>1. r \in Seq(Ops) /\ <<>> \o r = r /\ o \in Ops
  BY SplitFacts, Front0
<1>2. Following(L, s, x, o.s, o.f, o.d, Tail(r)) /\ Is(r, AddStreamOp(o.s))
  BY DEF Phase, Splits
<1>3. M.a = r
  BY <1>1 DEF Turns
<1>4. M.a # <<>> /\ Head(M.a).op = "addStream"
  BY <1>2, <1>3 DEF Is, AddStreamOp
<1>5. Following(M, s, x, o.s, o.f, o.d, Tail(M.a))
  BY <1>2, <1>3, TurnsSame
<1>6. Phase(M, s, x)
  BY <1>4, <1>5 DEF Phase
<1>7. ASSUME NEW f PROVE Due(o, L.rest, f) \subseteq {o.s}
  BY DuePush
<1>8. o # CloseDstOp(s)
  BY DEF CloseDstOp
<1>9. Passes(L, M, s, Streams \ {o.s})
  BY <1>7, <1>8, PassesDone DEF Turns
<1> QED
  BY <1>1, <1>2, <1>6, <1>9, OpFields

\* Elements are not nil.
Solid(L) == /\ \A i \in 1..Len(L.sent) : L.sent[i] # Nil
            /\ \A i \in 1..Len(L.got) : L.got[i] # Nil

LEMMA LatestSolid ==
  ASSUME NEW L, TypedLocal(L), Solid(L), L.sent # <<>>
  PROVE  Latest(L.sent) # Nil /\ Latest(L.sent) \in Data
<1>1. L.sent \in Seq(Data)
  BY DEF TypedLocal
<1>2. Len(L.sent) \in 1..Len(L.sent)
  BY <1>1
<1> QED
  BY <1>1, <1>2 DEF Solid, Latest

\* The streams from i on are the i-th and those from i + 1 on.
LEMMA FromOn ==
  ASSUME NEW T, NEW q \in Seq(T), NEW i \in Nat
  PROVE  /\ i <= Len(q) => {q[j] : j \in i..Len(q)} = {q[i]} \union {q[j] : j \in (i + 1)..Len(q)}
         /\ i > Len(q) => {q[j] : j \in i..Len(q)} = {}
<1>1. Len(q) \in Nat
  OBVIOUS
<1>2. ASSUME i <= Len(q)
      PROVE  {q[j] : j \in i..Len(q)} = {q[i]} \union {q[j] : j \in (i + 1)..Len(q)}
  <2>1. i..Len(q) = {i} \union (i + 1)..Len(q)
    BY <1>1, <1>2
  <2> QED
    BY <2>1
<1>3. ASSUME i > Len(q) PROVE {q[j] : j \in i..Len(q)} = {}
  <2>1. i..Len(q) = {}
    BY <1>1, <1>3
  <2> QED
    BY <2>1
<1> QED
  BY <1>2, <1>3

LEMMA EmitRestLocal ==
  ASSUME NEW s \in Streams, NEW L, TypedLocal(L), Solid(L), NEW x, Phase(L, s, x),
         NEW o, NEW r, Splits(L.a, o, r), o.op = "emitRest", NEW p,
         o.i > Len(L.rest) => p = <<>>,
         ~(o.i > Len(L.rest)) => p = <<PushOp(L.rest[o.i], "start", o.d), EmitRestOp(o.s, o.d, o.i + 1)>>,
         NEW M, Turns(L, M, p \o r), M.dst = L.dst
  PROVE  Phase(M, s, x) /\ Passes(L, M, s, Streams) /\ OwnCloses(p, s) /\ p \in Seq(Ops) /\ o.s = s
<1>0. r \in Seq(Ops)
  BY SplitFacts
<1>1. r \in Seq(Ops) /\ L.rest \in Seq(Streams) /\ Len(L.rest) \in Nat
  BY <1>0 DEF TypedLocal
<1>2. Spreading(L, x) /\ \E i \in 1..(Len(L.rest) + 1) : AtRest(L, L.a, s, i)
  BY DEF Phase, Splits
<1>3. PICK i \in 1..(Len(L.rest) + 1) : AtRest(L, L.a, s, i)
  BY <1>2
<1>4. o = EmitRestOp(s, Latest(L.sent), i) /\ AtCheck(L, r, s)
  BY <1>3 DEF AtRest, Is, Splits
<1>5. o.s = s /\ o.d = Latest(L.sent) /\ o.i = i /\ o.op = "emitRest" /\ i \in Nat \ {0}
  BY <1>4, <1>1 DEF EmitRestOp
<1>6. o.d # Nil /\ o.d \in Data
  BY <1>2, <1>5, LatestSolid DEF Spreading
<1>7. o # CloseDstOp(s)
  BY <1>5 DEF CloseDstOp
<1>8. M.a = p \o r /\ M.rest = L.rest
  BY DEF Turns
<1>9. CASE i > Len(L.rest)
  <2>1. p = <<>> /\ p \o r = r
    BY <1>1, <1>5, <1>9, Front0
  <2>2. AtCheck(M, M.a, s) /\ Spreading(M, x)
    BY <1>2, <1>4, <1>8, <2>1, TurnsSame
  <2>3. M.a # <<>> /\ Head(M.a).op = "check"
    BY <2>2 DEF AtCheck, Is, CheckOp
  <2>4. Phase(M, s, x)
    BY <2>2, <2>3 DEF Phase
  <2>5. ASSUME NEW f PROVE Due(o, L.rest, f) = {}
    <3>1. {L.rest[j] : j \in i..Len(L.rest)} = {}
      BY <1>1, <1>5, <1>9, FromOn
    <3> QED
      BY <3>1, <1>5, DueEmitRest
  <2>6. Passes(L, M, s, Streams)
    BY <1>7, <1>8, <2>1, <2>5, PassesDone DEF Turns
  <2>7. OwnCloses(<<>>, s) /\ <<>> \in Seq(Ops)
    BY ShortFacts, ShortAgendas
  <2> QED
    BY <1>5, <2>1, <2>4, <2>6, <2>7
<1>10. CASE ~(i > Len(L.rest))
  <2>1. PICK b : b = PushOp(L.rest[i], "start", o.d)
    OBVIOUS
  <2>2. PICK c : c = EmitRestOp(s, o.d, i + 1)
    OBVIOUS
  <2>3. L.rest[i] \in Streams /\ i + 1 \in Nat \ {0} /\ i \in 1..Len(L.rest)
    BY <1>1, <1>5, <1>10
  <2>4. b \in Ops /\ c \in Ops
    BY <1>6, <2>1, <2>2, <2>3, OpTypes DEF Funcs
  <2>5. /\ b.op = "push" /\ b.s = L.rest[i] /\ b.f = "start" /\ b.d = o.d
        /\ c.op = "emitRest" /\ c.i = i + 1
    BY <2>1, <2>2 DEF PushOp, EmitRestOp
  <2>6. p = <<b, c>>
    BY <1>5, <1>10, <2>1, <2>2
  <2>7. p \in Seq(Ops)
    BY <2>4, <2>6, ShortAgendas
  <2>8. p \o r = <<b>> \o (<<c>> \o r)
    BY <2>4, <2>6, <1>1, Front2
  <2>9. <<c>> \o r \in Seq(Ops) /\ <<c>> \o r # <<>> /\ Head(<<c>> \o r) = c /\ Tail(<<c>> \o r) = r
    BY <2>4, <1>1, Front1
  <2>10. M.a # <<>> /\ Head(M.a) = b /\ Tail(M.a) = <<c>> \o r
    BY <1>8, <2>4, <2>8, <2>9, Front1
  <2>11. AtRest(M, Tail(M.a), s, i + 1)
    <3>1. c = EmitRestOp(s, Latest(L.sent), i + 1)
      BY <2>2, <1>5
    <3>2. AtRest(L, Tail(M.a), s, i + 1)
      BY <3>1, <1>4, <2>9, <2>10 DEF AtRest, Is
    <3> QED
      BY <3>2, TurnsSame
  <2>12. Spreading(M, x) /\ M.sent = L.sent
    BY <1>2, TurnsSame DEF Turns
  <2>13. Following(M, s, x, b.s, b.f, b.d, Tail(M.a))
    BY <1>5, <1>8, <2>3, <2>5, <2>11, <2>12 DEF Following
  <2>14. Phase(M, s, x)
    BY <2>5, <2>10, <2>13 DEF Phase
  <2>15. ASSUME NEW f PROVE Dues(p, L.rest, f) = Due(o, L.rest, f)
    <3>1. Dues(<<b, c>>, L.rest, f) = Due(b, L.rest, f) \union Due(c, L.rest, f)
      BY <2>4, DuesTwo
    <3>2. CASE f = "start"
      <4>1. Due(b, L.rest, f) = {L.rest[i]}
        BY <2>5, <1>6, <3>2, DuePush
      <4>2. Due(c, L.rest, f) = {L.rest[j] : j \in (i + 1)..Len(L.rest)}
        BY <2>5, <3>2, DueEmitRest
      <4>3. Due(o, L.rest, f) = {L.rest[j] : j \in i..Len(L.rest)}
        BY <1>5, <3>2, DueEmitRest
      <4>4. i <= Len(L.rest)
        BY <2>3
      <4>5. {L.rest[j] : j \in i..Len(L.rest)} = {L.rest[i]} \union {L.rest[j] : j \in (i + 1)..Len(L.rest)}
        BY <4>4, <1>1, <1>5, FromOn
      <4> QED
        BY <2>6, <3>1, <4>1, <4>2, <4>3, <4>5
    <3>3. CASE f # "start"
      <4>1. Due(b, L.rest, f) = {}
        BY <2>5, <3>3, DuePush
      <4>2. Due(c, L.rest, f) = {}
        BY <2>5, <3>3, DueEmitRest
      <4>3. Due(o, L.rest, f) = {}
        BY <1>5, <3>3, DueEmitRest
      <4> QED
        BY <2>6, <3>1, <4>1, <4>2, <4>3
    <3> QED
      BY <3>2, <3>3
  <2>16. b # CloseDstOp(s) /\ c # CloseDstOp(s) /\ b.op # "closeDst" /\ c.op # "closeDst"
    BY <2>5 DEF CloseDstOp
  <2>17. ~Closes(p, s) /\ OwnCloses(p, s)
    BY <2>4, <2>6, <2>16, ShortFacts
  <2>18. Passes(L, M, s, Streams)
    BY <1>7, <1>8, <2>7, <2>15, <2>17, PassesNext DEF Turns
  <2> QED
    BY <1>5, <2>7, <2>14, <2>17, <2>18
<1> QED
  BY <1>9, <1>10

LEMMA CloseRestLocal ==
  ASSUME NEW s \in Streams, NEW L, TypedLocal(L), NEW x, Phase(L, s, x),
         NEW o, NEW r, Splits(L.a, o, r), o.op = "closeRest", NEW p,
         o.i > Len(L.rest) => p = <<>>,
         ~(o.i > Len(L.rest)) => p = <<PushOp(L.rest[o.i], "close", Nil), CloseRestOp(o.s, o.i + 1)>>,
         NEW M, Turns(L, M, p \o r), M.dst = L.dst
  PROVE  Phase(M, s, x) /\ Passes(L, M, s, Streams) /\ OwnCloses(p, s) /\ p \in Seq(Ops) /\ o.s = s
<1>0. r \in Seq(Ops)
  BY SplitFacts
<1>1. r \in Seq(Ops) /\ L.rest \in Seq(Streams) /\ Len(L.rest) \in Nat
  BY <1>0 DEF TypedLocal
<1>2. Closing(L) /\ \E i \in 1..(Len(L.rest) + 1) : AtCloseRest(L.a, s, i)
  BY DEF Phase, Splits
<1>3. PICK i \in 1..(Len(L.rest) + 1) : AtCloseRest(L.a, s, i)
  BY <1>2
<1>4. o = CloseRestOp(s, i) /\ Is(r, CountDownOp(s)) /\ AtEnd(Tail(r), s)
  BY <1>3 DEF AtCloseRest, Is, Splits
<1>5. o.s = s /\ o.i = i /\ o.op = "closeRest" /\ i \in Nat \ {0}
  BY <1>4, <1>1 DEF CloseRestOp
<1>6. Nil \in Data
  BY DEF Data
<1>7. o # CloseDstOp(s)
  BY <1>5 DEF CloseDstOp
<1>8. M.a = p \o r /\ M.rest = L.rest
  BY DEF Turns
<1>9. CASE i > Len(L.rest)
  <2>1. p = <<>> /\ p \o r = r
    BY <1>1, <1>5, <1>9, Front0
  <2>2. Closing(M)
    BY <1>2, TurnsSame
  <2>3. M.a # <<>> /\ Head(M.a).op = "countDown" /\ Head(M.a).s = s
    BY <1>4, <1>8, <2>1 DEF Is, CountDownOp
  <2>4. Phase(M, s, x)
    BY <1>4, <1>8, <2>1, <2>2, <2>3 DEF Phase
  <2>5. ASSUME NEW f PROVE Due(o, L.rest, f) = {}
    <3>1. {L.rest[j] : j \in i..Len(L.rest)} = {}
      BY <1>1, <1>5, <1>9, FromOn
    <3> QED
      BY <3>1, <1>5, DueCloseRest
  <2>6. Passes(L, M, s, Streams)
    BY <1>7, <1>8, <2>1, <2>5, PassesDone DEF Turns
  <2>7. OwnCloses(<<>>, s) /\ <<>> \in Seq(Ops)
    BY ShortFacts, ShortAgendas
  <2> QED
    BY <1>5, <2>1, <2>4, <2>6, <2>7
<1>10. CASE ~(i > Len(L.rest))
  <2>1. PICK b : b = PushOp(L.rest[i], "close", Nil)
    OBVIOUS
  <2>2. PICK c : c = CloseRestOp(s, i + 1)
    OBVIOUS
  <2>3. L.rest[i] \in Streams /\ i + 1 \in Nat \ {0} /\ i \in 1..Len(L.rest)
    BY <1>1, <1>5, <1>10
  <2>4. b \in Ops /\ c \in Ops
    BY <1>6, <2>1, <2>2, <2>3, OpTypes DEF Funcs
  <2>5. /\ b.op = "push" /\ b.s = L.rest[i] /\ b.f = "close" /\ b.d = Nil
        /\ c.op = "closeRest" /\ c.i = i + 1
    BY <2>1, <2>2 DEF PushOp, CloseRestOp
  <2>6. p = <<b, c>>
    BY <1>5, <1>10, <2>1, <2>2
  <2>7. p \in Seq(Ops)
    BY <2>4, <2>6, ShortAgendas
  <2>8. p \o r = <<b>> \o (<<c>> \o r)
    BY <2>4, <2>6, <1>1, Front2
  <2>9. <<c>> \o r \in Seq(Ops) /\ <<c>> \o r # <<>> /\ Head(<<c>> \o r) = c /\ Tail(<<c>> \o r) = r
    BY <2>4, <1>1, Front1
  <2>10. M.a # <<>> /\ Head(M.a) = b /\ Tail(M.a) = <<c>> \o r
    BY <1>8, <2>4, <2>8, <2>9, Front1
  <2>11. AtCloseRest(Tail(M.a), s, i + 1)
    BY <1>4, <2>2, <2>9, <2>10 DEF AtCloseRest, Is
  <2>12. Closing(M)
    BY <1>2, TurnsSame
  <2>13. Following(M, s, x, b.s, b.f, b.d, Tail(M.a))
    BY <1>8, <2>3, <2>5, <2>11, <2>12 DEF Following
  <2>14. Phase(M, s, x)
    BY <2>5, <2>10, <2>13 DEF Phase
  <2>15. ASSUME NEW f PROVE Dues(p, L.rest, f) = Due(o, L.rest, f)
    <3>1. Dues(<<b, c>>, L.rest, f) = Due(b, L.rest, f) \union Due(c, L.rest, f)
      BY <2>4, DuesTwo
    <3>2. CASE f = "close"
      <4>1. Due(b, L.rest, f) = {L.rest[i]}
        BY <2>5, <3>2, DuePush
      <4>2. Due(c, L.rest, f) = {L.rest[j] : j \in (i + 1)..Len(L.rest)}
        BY <2>5, <3>2, DueCloseRest
      <4>3. Due(o, L.rest, f) = {L.rest[j] : j \in i..Len(L.rest)}
        BY <1>5, <3>2, DueCloseRest
      <4>4. i <= Len(L.rest)
        BY <2>3
      <4>5. {L.rest[j] : j \in i..Len(L.rest)} = {L.rest[i]} \union {L.rest[j] : j \in (i + 1)..Len(L.rest)}
        BY <4>4, <1>1, <1>5, FromOn
      <4> QED
        BY <2>6, <3>1, <4>1, <4>2, <4>3, <4>5
    <3>3. CASE f # "close"
      <4>1. Due(b, L.rest, f) = {}
        BY <2>5, <3>3, DuePush
      <4>2. Due(c, L.rest, f) = {}
        BY <2>5, <3>3, DueCloseRest
      <4>3. Due(o, L.rest, f) = {}
        BY <1>5, <3>3, DueCloseRest
      <4> QED
        BY <2>6, <3>1, <4>1, <4>2, <4>3
    <3> QED
      BY <3>2, <3>3
  <2>16. b # CloseDstOp(s) /\ c # CloseDstOp(s) /\ b.op # "closeDst" /\ c.op # "closeDst"
    BY <2>5 DEF CloseDstOp
  <2>17. ~Closes(p, s) /\ OwnCloses(p, s)
    BY <2>4, <2>6, <2>16, ShortFacts
  <2>18. Passes(L, M, s, Streams)
    BY <1>7, <1>8, <2>7, <2>15, <2>17, PassesNext DEF Turns
  <2> QED
    BY <1>5, <2>7, <2>14, <2>17, <2>18
<1> QED
  BY <1>9, <1>10

\* What s has done and is owed.
SameWork(L, M) == /\ M.kind = L.kind /\ M.limit = L.limit /\ M.n = L.n
                  /\ M.sent = L.sent /\ M.got = L.got

LEMMA WorkSame ==
  ASSUME NEW L, NEW M, SameWork(L, M), NEW s
  PROVE  /\ \A e, z : Sums(M, e, z) <=> Sums(L, e, z)
         /\ \A a, j : Left(M, a, s, j) <=> Left(L, a, s, j)
         /\ \A a : Emitted(M, a, s) <=> Emitted(L, a, s)
<1>1. \A e, z : Sums(M, e, z) <=> Sums(L, e, z)
  BY DEF SameWork, Sums
<1>2. \A a, j : Left(M, a, s, j) <=> Left(L, a, s, j)
  BY DEF SameWork, Left, Owes
<1>3. \A a : Emitted(M, a, s) <=> Emitted(L, a, s)
  BY <1>2 DEF SameWork, Emitted, Remains
<1> QED
  BY <1>1, <1>2, <1>3

\* The execution of s ends, or comes to its end.
LEMMA AfterPhase ==
  ASSUME NEW s, NEW M, AtAfter(M.a, s), M.mode = "dying" => M.ref <= 1,
         M.mode # "killed" => Sums(M, 0, 0)
  PROVE  Phase(M, s, 0)
<1>1. M.a # <<>> /\ Head(M.a).op = "after"
  BY DEF AtAfter, Is, AfterOp
<1> QED
  BY <1>1 DEF Phase

LEMMA EndPhase ==
  ASSUME NEW s, NEW M, AtEnd(M.a, s), M.mode = "killed" \/ (Live(M.mode) /\ Sums(M, 0, 0))
  PROVE  Phase(M, s, 0)
<1>1. M.mode # "dying" /\ (M.mode # "killed" => Sums(M, 0, 0)) /\ (Live(M.mode) => Sums(M, 0, 0))
  BY DEF Live
<1>2. CASE M.a = <<>>
  BY <1>1, <1>2 DEF Phase
<1>3. CASE AtAfter(M.a, s)
  BY <1>1, <1>3, AfterPhase
<1> QED
  BY <1>2, <1>3 DEF AtEnd

\* What Gone and the due pushes depend on, but for the agenda.
Like(L, M) == /\ M.rest = L.rest /\ M.kind = L.kind /\ M.got = L.got
              /\ M.mode = "killed" <=> L.mode = "killed"

\* A step that replaces itself by nothing and pushes nothing.
LEMMA QuietDone ==
  ASSUME NEW L, NEW M, NEW s, NEW o, NEW r, Splits(L.a, o, r),
         Like(L, M), M.a = <<>> \o r,
         o.op \notin {"push", "addTask", "emitRest", "closeRest", "closeDst"}
  PROVE  Passes(L, M, s, Streams) /\ M.a = r /\ OwnCloses(<<>>, s) /\ <<>> \in Seq(Ops)
<1>1. r \in Seq(Ops) /\ <<>> \o r = r
  BY SplitFacts, Front0
<1>2. o # CloseDstOp(s)
  BY DEF CloseDstOp
<1>3. ASSUME NEW f PROVE Due(o, L.rest, f) = {}
  BY DueNone
<1>4. Passes(L, M, s, Streams)
  BY <1>2, <1>3, PassesDone DEF Like
<1> QED
  BY <1>1, <1>4, ShortFacts, ShortAgendas

\* ... or by a step that pushes nothing either.
LEMMA QuietNext ==
  ASSUME NEW L, NEW M, NEW s, NEW o, NEW r, Splits(L.a, o, r), NEW b \in Ops,
         Like(L, M), M.a = <<b>> \o r,
         o.op \notin {"push", "addTask", "emitRest", "closeRest", "closeDst"},
         \/ b.op \notin {"push", "addTask", "emitRest", "closeRest", "closeDst"}
         \/ b.op = "push" /\ b.f = "start" /\ b.d = Nil
  PROVE  /\ Passes(L, M, s, Streams) /\ M.a # <<>> /\ Head(M.a) = b /\ Tail(M.a) = r
         /\ OwnCloses(<<b>>, s) /\ <<b>> \in Seq(Ops)
<1>1. r \in Seq(Ops) /\ <<b>> \in Seq(Ops)
  BY SplitFacts, ShortAgendas
<1>2. M.a # <<>> /\ Head(M.a) = b /\ Tail(M.a) = r
  BY <1>1, Front1
<1>3. o # CloseDstOp(s) /\ b # CloseDstOp(s) /\ b.op # "closeDst"
  BY DEF CloseDstOp
<1>4. ASSUME NEW f PROVE Due(o, L.rest, f) = {} /\ Dues(<<b>>, L.rest, f) = {}
  <2>1. Due(o, L.rest, f) = {}
    BY DueNone
  <2>2. Due(b, L.rest, f) = {}
    BY DueNone, DuePush
  <2> QED
    BY <2>1, <2>2, ShortFacts
<1>5. ~Closes(<<b>>, s) /\ OwnCloses(<<b>>, s)
  BY <1>3, ShortFacts
<1>6. Passes(L, M, s, Streams)
  BY <1>1, <1>3, <1>4, <1>5, PassesNext DEF Like
<1> QED
  BY <1>1, <1>2, <1>5, <1>6

\* The same when nothing else changes.
LEMMA TurnsDone ==
  ASSUME NEW L, NEW M, NEW s, NEW o, NEW r, Splits(L.a, o, r), Turns(L, M, <<>> \o r),
         o.op \notin {"push", "addTask", "emitRest", "closeRest", "closeDst"}
  PROVE  Passes(L, M, s, Streams) /\ M.a = r /\ OwnCloses(<<>>, s) /\ <<>> \in Seq(Ops)
<1>1. /\ M.a = <<>> \o r /\ Like(L, M)
  BY DEF Turns, Like
<1> QED
  BY <1>1, QuietDone

LEMMA TurnsNext ==
  ASSUME NEW L, NEW M, NEW s, NEW o, NEW r, Splits(L.a, o, r), NEW b \in Ops,
         Turns(L, M, <<b>> \o r),
         o.op \notin {"push", "addTask", "emitRest", "closeRest", "closeDst"},
         \/ b.op \notin {"push", "addTask", "emitRest", "closeRest", "closeDst"}
         \/ b.op = "push" /\ b.f = "start" /\ b.d = Nil
  PROVE  /\ Passes(L, M, s, Streams) /\ M.a # <<>> /\ Head(M.a) = b /\ Tail(M.a) = r
         /\ OwnCloses(<<b>>, s) /\ <<b>> \in Seq(Ops)
<1>1. /\ M.a = <<b>> \o r /\ Like(L, M)
  BY DEF Turns, Like
<1> QED
  BY <1>1, QuietNext

LEMMA CountDownLocal ==
  ASSUME NEW s \in Streams, NEW L, TypedLocal(L), NEW x, Phase(L, s, x),
         NEW o, NEW r, Splits(L.a, o, r), o.op = "countDown",
         NEW M, Turns(L, M, <<>> \o r)
  PROVE  Phase(M, s, 0) /\ Passes(L, M, s, Streams) /\ L.mode = "killed"
<1>1. Closing(L) /\ AtEnd(r, s)
  BY DEF Phase, Splits
<1>2. Passes(L, M, s, Streams) /\ M.a = r
  BY TurnsDone
<1>3. L.mode = "killed" /\ M.mode = "killed"
  BY <1>1 DEF Closing, Turns
<1>4. Phase(M, s, 0)
  BY <1>1, <1>2, <1>3, EndPhase
<1> QED
  BY <1>2, <1>3, <1>4

LEMMA DropDstLocal ==
  ASSUME NEW s \in Streams, NEW L, TypedLocal(L), NEW x, Phase(L, s, x),
         NEW o, NEW r, Splits(L.a, o, r), o.op = "dropDst",
         NEW M, Turns(L, M, <<>> \o r)
  PROVE  Phase(M, s, x) /\ Passes(L, M, s, Streams) /\ o.s = s
<1>1. Spreading(L, x) /\ AtDrop(L, L.a, s)
  BY DEF Phase, Splits
<1>2. Passes(L, M, s, Streams) /\ M.a = r
  BY TurnsDone
<1>3. AtRest(L, r, s, 1) /\ o = DropDstOp(s)
  BY <1>1 DEF AtDrop, Is, Splits
<1>4. Spreading(M, x) /\ AtRest(M, M.a, s, 1)
  BY <1>1, <1>2, <1>3, TurnsSame
<1>5. M.a # <<>> /\ Head(M.a).op = "emitRest"
  BY <1>4 DEF AtRest, Is, EmitRestOp
<1>6. 1 \in 1..(Len(M.rest) + 1)
  BY DEF Turns, TypedLocal
<1>7. Phase(M, s, x)
  BY <1>4, <1>5, <1>6 DEF Phase
<1> QED
  BY <1>2, <1>3, <1>7 DEF DropDstOp

LEMMA AfterLocal ==
  ASSUME NEW s \in Streams, NEW L, TypedLocal(L), NEW x, Phase(L, s, x),
         NEW o, NEW r, Splits(L.a, o, r), o.op = "after", NEW p,
         L.mode = "dying" => p = <<CloseOp(s)>>, L.mode # "dying" => p = <<>>,
         NEW M, Turns(L, M, p \o r), M.dst = L.dst
  PROVE  Phase(M, s, 0) /\ Passes(L, M, s, Streams) /\ OwnCloses(p, s) /\ p \in Seq(Ops) /\ o.s = s /\ x = 0
<1>1. AtAfter(L.a, s) /\ x = 0 /\ (L.mode = "dying" => L.ref <= 1) /\ (L.mode # "killed" => Sums(L, 0, 0))
  BY DEF Phase, Splits
<1>2. r = <<>> /\ o = AfterOp(s)
  BY <1>1 DEF AtAfter, Is, Splits
<1>3. o.s = s
  BY <1>2 DEF AfterOp
<1>4. M.mode = L.mode /\ M.ref = L.ref /\ (L.mode # "killed" => Sums(M, 0, 0))
  BY <1>1, TurnsSame DEF Turns
<1>5. CASE L.mode = "dying"
  <2>1. PICK b : b = CloseOp(s)
    OBVIOUS
  <2>2. b \in Ops /\ b.op = "close" /\ p = <<b>>
    BY <2>1, <1>5, OpTypes DEF CloseOp
  <2>3. Turns(L, M, <<b>> \o r)
    BY <2>2
  <2>4. /\ Passes(L, M, s, Streams) /\ M.a # <<>> /\ Head(M.a) = b /\ Tail(M.a) = r
        /\ OwnCloses(<<b>>, s) /\ <<b>> \in Seq(Ops)
    BY <2>2, <2>3, TurnsNext
  <2>5. AtEnd(Tail(M.a), s) /\ Stopped(M, 0, 1) /\ Sums(M, 0, 0)
    BY <2>4, <1>1, <1>2, <1>4, <1>5 DEF AtEnd, Stopped
  <2>6. Stopping(M, s, 0)
    BY <2>1, <2>4, <2>5 DEF Stopping
  <2>7. Phase(M, s, 0)
    BY <2>2, <2>4, <2>6 DEF Phase
  <2> QED
    BY <2>2, <2>4, <2>7, <1>1, <1>3
<1>6. CASE L.mode # "dying"
  <2>1. p = <<>> /\ Turns(L, M, <<>> \o r)
    BY <1>6
  <2>2. Passes(L, M, s, Streams) /\ M.a = r /\ OwnCloses(p, s) /\ p \in Seq(Ops)
    BY <2>1, TurnsDone
  <2>3. Phase(M, s, 0)
    BY <2>2, <1>2, <1>4, <1>6, EndPhase DEF AtEnd, Live
  <2> QED
    BY <2>2, <2>3, <1>1, <1>3
<1> QED
  BY <1>5, <1>6

\* Everything but the agenda and the number is the same.
Counts(L, M, a) ==
  /\ M.a = a /\ M.kind = L.kind /\ M.limit = L.limit /\ M.mode = L.mode /\ M.dst = L.dst
  /\ M.rest = L.rest /\ M.ref = L.ref /\ M.sent = L.sent /\ M.got = L.got

LEMMA SeqNextLocal ==
  ASSUME NEW s \in Streams, NEW L, TypedLocal(L), NEW x, Phase(L, s, x),
         NEW o, NEW r, Splits(L.a, o, r), o.op = "seqNext",
         NEW M, Counts(L, M, <<>> \o r), M.n = L.n + 1
  PROVE  /\ Phase(M, s, 0) /\ Passes(L, M, s, Streams) /\ o.s = s
         /\ Live(L.mode) => x = 0
<1>1. Counting(L, s, x)
  BY DEF Phase, Splits
<1>2. M.a = <<>> \o r /\ Like(L, M)
  BY DEF Counts, Like
<1>3. Passes(L, M, s, Streams) /\ M.a = r
  BY <1>2, QuietDone
<1>4. L.kind = "seq" /\ o = SeqNextOp(s) /\ AtAfter(r, s)
  <2>1. Emitted(L, L.a, s) /\ L.kind \in {"seq", "take"}
    BY <1>1 DEF Counting
  <2>2. ~Is(L.a, TakeNextOp(s))
    BY DEF Is, TakeNextOp, Splits
  <2> QED
    BY <2>1, <2>2 DEF Emitted, Is, Splits
<1>5. Sums(M, 0, 0)
  <2>1. Sums(L, 0, 1) /\ L.kind = "seq"
    BY <1>1, <1>4 DEF Counting
  <2>2. L.n = Len(L.sent) + 1 - 1 /\ (L.limit > 0 => Len(L.sent) + 0 <= L.limit)
    BY <2>1 DEF Sums
  <2>3. Len(L.sent) \in Nat /\ L.n \in Int
    BY DEF TypedLocal
  <2>4. M.n = Len(L.sent) + 1 - 0
    BY <2>2, <2>3
  <2> QED
    BY <2>1, <2>2, <2>4 DEF Sums, Counts
<1>6. M.mode = L.mode /\ M.ref = L.ref /\ (L.mode = "dying" => L.ref <= 1) /\ (Live(L.mode) => x = 0)
  BY <1>1 DEF Counting, Counts, Live
<1>7. Phase(M, s, 0)
  BY <1>3, <1>4, <1>5, <1>6, AfterPhase
<1> QED
  BY <1>3, <1>4, <1>6, <1>7 DEF SeqNextOp

LEMMA TakeNextLocal ==
  ASSUME NEW s \in Streams, NEW L, TypedLocal(L), NEW x, Phase(L, s, x),
         NEW o, NEW r, Splits(L.a, o, r), o.op = "takeNext", NEW p,
         L.n = 1 => p = <<CloseOp(s)>>, L.n # 1 => p = <<>>,
         NEW M, Counts(L, M, p \o r), M.n = L.n - 1
  PROVE  /\ Phase(M, s, 0) /\ Passes(L, M, s, Streams) /\ OwnCloses(p, s) /\ p \in Seq(Ops) /\ o.s = s
         /\ Live(L.mode) => x = 0
<1>1. Counting(L, s, x)
  BY DEF Phase, Splits
<1>2. L.kind = "take" /\ o = TakeNextOp(s) /\ AtAfter(r, s)
  <2>1. Emitted(L, L.a, s) /\ L.kind \in {"seq", "take"}
    BY <1>1 DEF Counting
  <2>2. ~Is(L.a, SeqNextOp(s))
    BY DEF Is, SeqNextOp, Splits
  <2> QED
    BY <2>1, <2>2 DEF Emitted, Is, Splits
<1>3. M.a = p \o r /\ Like(L, M)
  BY DEF Counts, Like
<1>4. Sums(M, 0, 0) /\ (L.n = 1 => Len(L.got) = L.limit)
  <2>1. Sums(L, 0, 1) /\ L.kind = "take"
    BY <1>1, <1>2 DEF Counting
  <2>2. Len(L.sent) + 0 = Len(L.got) /\ L.n = L.limit - Len(L.got) + 1
    BY <2>1 DEF Sums
  <2>3. Len(L.sent) \in Nat /\ Len(L.got) \in Nat /\ L.n \in Int /\ L.limit \in Nat
    BY DEF TypedLocal
  <2>4. M.n = L.limit - Len(L.got) + 0 /\ (L.n = 1 => Len(L.got) = L.limit)
    BY <2>2, <2>3
  <2> QED
    BY <2>1, <2>2, <2>4 DEF Sums, Counts
<1>5. M.mode = L.mode /\ M.ref = L.ref /\ (L.mode = "dying" => L.ref <= 1) /\ (Live(L.mode) => x = 0)
      /\ (Live(L.mode) \/ L.mode = "dying")
  BY <1>1 DEF Counting, Counts, Live
<1>6. CASE L.n = 1
  <2>1. PICK b : b = CloseOp(s)
    OBVIOUS
  <2>2. b \in Ops /\ b.op = "close" /\ p = <<b>> /\ M.a = <<b>> \o r
    BY <2>1, <1>3, <1>6, OpTypes DEF CloseOp
  <2>3. /\ Passes(L, M, s, Streams) /\ M.a # <<>> /\ Head(M.a) = b /\ Tail(M.a) = r
        /\ OwnCloses(<<b>>, s) /\ <<b>> \in Seq(Ops)
    <3>1. b.op \notin {"push", "addTask", "emitRest", "closeRest", "closeDst"}
      BY <2>2
    <3> QED
      BY <2>2, <3>1, <1>3, QuietNext
  <2>4. Stopped(M, 0, 1)
    <3>1. M.kind = "take" /\ Len(M.got) = M.limit
      BY <1>2, <1>4, <1>6 DEF Counts
    <3> QED
      BY <3>1, <1>5 DEF Stopped
  <2>5. AtEnd(Tail(M.a), s)
    BY <2>3, <1>2 DEF AtEnd
  <2>6. Stopping(M, s, 0)
    BY <2>1, <2>3, <2>4, <2>5, <1>4 DEF Stopping
  <2>7. Phase(M, s, 0)
    BY <2>2, <2>3, <2>6 DEF Phase
  <2> QED
    BY <2>2, <2>3, <2>7, <1>2, <1>5 DEF TakeNextOp
<1>7. CASE L.n # 1
  <2>1. p = <<>> /\ M.a = <<>> \o r
    BY <1>3, <1>7
  <2>2. Passes(L, M, s, Streams) /\ M.a = r /\ OwnCloses(<<>>, s) /\ <<>> \in Seq(Ops)
    BY <2>1, <1>3, QuietDone
  <2>3. Phase(M, s, 0)
    BY <2>2, <1>2, <1>4, <1>5, AfterPhase
  <2> QED
    BY <2>1, <2>2, <2>3, <1>2, <1>5 DEF TakeNextOp
<1> QED
  BY <1>6, <1>7

LEMMA CloseLocal ==
  ASSUME NEW s \in Streams, NEW L, TypedLocal(L), NEW x \in {-1, 0, 1}, Phase(L, s, x),
         NEW o, NEW r, Splits(L.a, o, r), o.op = "close",
         NEW M, M.a = <<KillOp(s, L.mode)>> \o r, M.rest = L.rest, M.mode = L.mode, M.ref = L.ref - 1,
         SameWork(L, M)
  PROVE  /\ \E y \in {-1, 0, 1} : Phase(M, s, y) /\ (Live(M.mode) => M.ref - y = L.ref - x)
         /\ Passes(L, M, s, Streams) /\ OwnCloses(<<KillOp(s, L.mode)>>, s)
         /\ o.s = s /\ L.mode # "killed"
<1>1. Stopping(L, s, x)
  BY DEF Phase, Splits
<1>2. Sums(L, 0, 0) /\ o = CloseOp(s) /\ AtEnd(r, s) /\ Stopped(L, x, 1)
  <2>1. o # KillOp(s, L.mode)
    BY DEF KillOp
  <2> QED
    BY <2>1, <1>1 DEF Stopping, Splits
<1>3. PICK b : b = KillOp(s, L.mode)
  OBVIOUS
<1>4. b \in Ops /\ b.op = "kill"
  BY <1>3, OpTypes DEF KillOp, TypedLocal
<1>5. M.a = <<b>> \o r /\ Like(L, M)
  BY <1>3 DEF SameWork, Like
<1>6. /\ Passes(L, M, s, Streams) /\ M.a # <<>> /\ Head(M.a) = b /\ Tail(M.a) = r
      /\ OwnCloses(<<b>>, s) /\ <<b>> \in Seq(Ops)
  <2>1. b.op \notin {"push", "addTask", "emitRest", "closeRest", "closeDst"}
    BY <1>4
  <2> QED
    BY <2>1, <1>4, <1>5, QuietNext
<1>7. L.ref \in Int
  BY DEF TypedLocal
<1>8. PICK y \in {-1, 0, 1} : Stopped(M, y, 0) /\ (Live(M.mode) => M.ref - y = L.ref - x)
  <2>1. CASE L.mode = "dying"
    <3>1. L.ref <= 1
      BY <2>1, <1>2 DEF Stopped, Live
    <3>2. M.ref <= 0
      BY <3>1, <1>7
    <3> QED
      BY <3>2, <2>1 DEF Stopped, Live
  <2>2. CASE L.mode # "dying"
    <3>1. Live(L.mode) /\ x \in {0, 1}
      BY <2>2, <1>2 DEF Stopped
    <3>2. x - 1 \in {-1, 0, 1}
      BY <3>1
    <3>3. L.ref - 1 - (x - 1) = L.ref - x
      BY <3>1, <1>7
    <3>4. Stopped(M, x - 1, 0)
      <4>1. CASE x = 1
        <5>1. L.kind # "seq"
          BY <4>1, <2>2, <1>2 DEF Stopped
        <5> QED
          BY <4>1, <5>1, <3>1 DEF Stopped, SameWork
      <4>2. CASE x = 0
        <5>1. \/ L.kind = "seq" /\ L.limit > 0 /\ Len(L.sent) = L.limit
              \/ L.kind = "take" /\ Len(L.got) = L.limit
          BY <4>2, <2>2, <1>2 DEF Stopped
        <5> QED
          BY <4>2, <5>1, <3>1 DEF Stopped, SameWork
      <4> QED
        BY <4>1, <4>2, <3>1
    <3> QED
      BY <3>2, <3>3, <3>4
  <2> QED
    BY <2>1, <2>2
<1>9. Sums(M, 0, 0)
  BY <1>2, WorkSame
<1>10. Stopping(M, s, y)
  BY <1>2, <1>3, <1>6, <1>8, <1>9 DEF Stopping
<1>11. Phase(M, s, y)
  BY <1>4, <1>6, <1>10 DEF Phase
<1>12. L.mode # "killed"
  BY <1>2 DEF Stopped, Live
<1> QED
  BY <1>2, <1>3, <1>6, <1>8, <1>11, <1>12 DEF CloseOp

LEMMA EmptyLen == ASSUME NEW v, v = <<>> PROVE Len(v) = 0
  OBVIOUS

LEMMA OneStep ==
  ASSUME NEW r \in Seq(Ops), NEW s, AtAfter(r, s)
  PROVE  Len(r) = 1 /\ r[1] = AfterOp(s) /\ r # <<>> /\ Head(r) = AfterOp(s)
<1>0. r # <<>> /\ Head(r) = AfterOp(s)
  BY DEF AtAfter, Is
<1>1. Len(Tail(r)) = Len(r) - 1 /\ Len(r) \in Nat /\ Head(r) = r[1]
  BY <1>0, HeadTail
<1>2. Len(Tail(r)) = 0
  BY EmptyLen DEF AtAfter
<1> QED
  <2>1. PICK v : v = Len(Tail(r))
    OBVIOUS
  <2>2. v = 0 /\ v = Len(r) - 1
    BY <2>1, <1>1, <1>2
  <2> QED
    BY <2>2, <1>0, <1>1

LEMMA OpsConcat ==
  ASSUME NEW q \in Seq(Ops), NEW c \in Seq(Ops)
  PROVE  /\ q \o c \in Seq(Ops) /\ Len(q \o c) = Len(q) + Len(c) /\ Len(q) \in Nat /\ Len(c) \in Nat
         /\ \A i \in 1..Len(q) : (q \o c)[i] = q[i]
         /\ \A i \in 1..Len(c) : (q \o c)[Len(q) + i] = c[i]
<1>1. q \o c \in Seq(Ops) /\ Len(q \o c) = Len(q) + Len(c) /\ Len(q) \in Nat /\ Len(c) \in Nat
  BY ConcatFacts
<1>2. \A i \in 1..Len(q) : (q \o c)[i] = q[i]
  BY ConcatFacts
<1>3. \A i \in 1..Len(c) : (q \o c)[Len(q) + i] = c[i]
  BY ConcatFacts
<1> QED
  BY <1>1, <1>2, <1>3

ClosingSteps(c, s) == /\ c \in Seq(Ops) /\ Len(c) = 3
                      /\ c[1] = CloseDstOp(s) /\ c[2] = CloseRestOp(s, 1) /\ c[3] = CountDownOp(s)

LEMMA ThreeMore ==
  ASSUME NEW s, NEW q \in Seq(Ops), NEW c \in Seq(Ops), ClosingSteps(c, s)
  PROVE  /\ q \o c \in Seq(Ops) /\ Len(q \o c) = Len(q) + 3 /\ Len(q) \in Nat /\ Len(q \o c) \in Nat
         /\ \A i \in 1..Len(q) : (q \o c)[i] = q[i]
         /\ \A i \in 1..3 : (q \o c)[Len(q) + i] = c[i]
<1> DEFINE p == q \o c
<1>1. /\ p \in Seq(Ops) /\ Len(p) = Len(q) + Len(c) /\ Len(q) \in Nat /\ Len(c) \in Nat
      /\ \A i \in 1..Len(q) : p[i] = q[i]
      /\ \A i \in 1..Len(c) : p[Len(q) + i] = c[i]
  BY OpsConcat
<1> HIDE DEF p
<1>2. PICK v : v = Len(c)
  OBVIOUS
<1>3. v = 3 
  BY <1>2 DEF ClosingSteps
<1>4. Len(p) = Len(q) + v
  BY <1>1, <1>2
<1>5. \A i \in 1..v : p[Len(q) + i] = c[i]
  BY <1>1, <1>2
<1>6. Len(p) = Len(q) + 3 /\ Len(p) \in Nat
  BY <1>4, <1>3, <1>1
<1>7. \A i \in 1..3 : p[Len(q) + i] = c[i]
  BY <1>3, <1>5
<1> QED
  BY <1>1, <1>6, <1>7 DEF p

\* The end of an execution pushes nothing and passes no close on.
LEMMA EndFacts ==
  ASSUME NEW r \in Seq(Ops), NEW s, AtEnd(r, s)
  PROVE  /\ \A q, f : Dues(r, q, f) = {}
         /\ ~Closes(r, s) /\ OwnCloses(r, s)
         /\ Len(r) \in {0, 1} /\ (Len(r) = 1 => r[1] = AfterOp(s))
<1>1. CASE r = <<>>
  BY <1>1, ShortFacts
<1>2. CASE AtAfter(r, s)
  <2>1. r # <<>> /\ Head(r) = AfterOp(s) /\ Tail(r) = <<>>
    BY <1>2 DEF AtAfter, Is
  <2>2. Len(r) = 1 /\ r[1] = AfterOp(s)
    BY <1>2, OneStep
  <2>3. AfterOp(s).op = "after" /\ AfterOp(s) # CloseDstOp(s)
    BY DEF AfterOp, CloseDstOp
  <2>4. \A q, f : Dues(r, q, f) = {}
    <3> SUFFICES ASSUME NEW q, NEW f PROVE Dues(r, q, f) = {}
      OBVIOUS
    <3>1. Dues(r, q, f) = Due(AfterOp(s), q, f) \union Dues(<<>>, q, f)
      BY <2>1, DuesCons
    <3>2. Due(AfterOp(s), q, f) = {}
      BY <2>3, DueNone
    <3> QED
      BY <3>1, <3>2, DuesNone
  <2>5. ~Closes(r, s)
    BY <2>1, <2>3, ClosesCons, ClosesNone
  <2>6. OwnCloses(r, s)
    BY <2>2, <2>3 DEF OwnCloses
  <2> QED
    BY <2>2, <2>4, <2>5, <2>6
<1> QED
  BY <1>1, <1>2 DEF AtEnd

\* Neither do emissions.
LEMMA EmitsFacts ==
  ASSUME NEW q \in Seq(Ops), \A i \in 1..Len(q) : q[i].op = "emit"
  PROVE  /\ \A c, f : Dues(q, c, f) = {}
         /\ \A s : ~Closes(q, s) /\ OwnCloses(q, s)
<1>1. \A c, f : Dues(q, c, f) = {}
  BY DueNone DEF Dues
<1>2. \A s : ~Closes(q, s) /\ OwnCloses(q, s)
  BY DEF Closes, OwnCloses, CloseDstOp
<1> QED
  BY <1>1, <1>2

\* What a stream that has been killed has to do: its emissions q, and to pass the close on.
LEMMA ClosingStepsFacts ==
  ASSUME NEW s \in Streams
  PROVE  ClosingSteps(<<CloseDstOp(s), CloseRestOp(s, 1), CountDownOp(s)>>, s)
<1>1. CloseDstOp(s) \in Ops /\ CloseRestOp(s, 1) \in Ops /\ CountDownOp(s) \in Ops
  BY OpTypes
<1> QED
  BY <1>1, ShortAgendas DEF ClosingSteps

KilledSteps(a, q, s) ==
  /\ a \in Seq(Ops) /\ Len(a) \in {Len(q) + 3, Len(q) + 4}
  /\ \A i \in 1..Len(q) : a[i] = q[i]
  /\ a[Len(q) + 1] = CloseDstOp(s) /\ a[Len(q) + 2] = CloseRestOp(s, 1)
  /\ a[Len(q) + 3] = CountDownOp(s)
  /\ Len(a) = Len(q) + 4 => a[Len(q) + 4] = AfterOp(s)
  /\ Closes(a, s) /\ \A b : Dues(a, b, "start") = {}

LEMMA KilledAgenda ==
  ASSUME NEW s \in Streams, NEW q \in Seq(Ops), \A i \in 1..Len(q) : q[i].op = "emit",
         NEW r \in Seq(Ops), AtEnd(r, s), NEW c, ClosingSteps(c, s)
  PROVE  KilledSteps((q \o c) \o r, q, s) /\ OwnCloses(q \o c, s) /\ q \o c \in Seq(Ops)
<1> DEFINE p == q \o c
           a == p \o r
<1>1. c \in Seq(Ops)
  BY DEF ClosingSteps
<1>2. /\ p \in Seq(Ops) /\ Len(p) = Len(q) + 3 /\ Len(q) \in Nat /\ Len(p) \in Nat
      /\ \A i \in 1..Len(q) : p[i] = q[i]
      /\ \A i \in 1..3 : p[Len(q) + i] = c[i]
  BY <1>1, ThreeMore
<1>3. /\ \A b : Dues(p, b, "start") = Dues(q, b, "start") \union Dues(c, b, "start")
      /\ Closes(p, s) <=> Closes(q, s) \/ Closes(c, s)
  BY <1>1, DuesConcat, ClosesConcat
<1> HIDE DEF p
<1>4. /\ a \in Seq(Ops) /\ Len(a) = Len(p) + Len(r) /\ Len(r) \in Nat
      /\ \A i \in 1..Len(p) : a[i] = p[i]
      /\ \A i \in 1..Len(r) : a[Len(p) + i] = r[i]
  BY <1>2, OpsConcat
<1>5. /\ \A b : Dues(a, b, "start") = Dues(p, b, "start") \union Dues(r, b, "start")
      /\ Closes(a, s) <=> Closes(p, s) \/ Closes(r, s)
  BY <1>2, DuesConcat, ClosesConcat
<1> HIDE DEF a
<1>14. PICK l : l = Len(q)
  OBVIOUS
<1>15. PICK h : h = Len(r)
  OBVIOUS
<1>6. /\ h \in {0, 1} /\ (h = 1 => r[1] = AfterOp(s))
      /\ \A b : Dues(r, b, "start") = {}
  BY <1>15, EndFacts
<1>7. Len(a) \in {Len(q) + 3, Len(q) + 4} /\ (Len(a) = Len(q) + 4 => h = 1)
  <2>1. Len(p) = l + 3 /\ l \in Nat
    BY <1>2, <1>14
  <2>2. Len(a) = l + 3 + h
    BY <2>1, <1>4, <1>15
  <2>3. Len(a) \in {l + 3, l + 4} /\ (Len(a) = l + 4 => h = 1)
    BY <2>1, <2>2, <1>6
  <2> QED
    BY <2>3, <1>14
<1>8. \A i \in 1..Len(q) : a[i] = q[i]
  BY <1>2, <1>4
<1>9. /\ a[Len(q) + 1] = CloseDstOp(s) /\ a[Len(q) + 2] = CloseRestOp(s, 1)
      /\ a[Len(q) + 3] = CountDownOp(s)
  <2>1. \A i \in 1..3 : a[Len(q) + i] = c[i]
    BY <1>2, <1>4
  <2>2. a[Len(q) + 1] = c[1] /\ a[Len(q) + 2] = c[2] /\ a[Len(q) + 3] = c[3]
    BY <2>1
  <2> QED
    BY <2>2 DEF ClosingSteps
<1>10. ASSUME Len(a) = Len(q) + 4 PROVE a[Len(q) + 4] = AfterOp(s)
  <2>1. h = 1
    BY <1>10, <1>7
  <2>2. a[Len(p) + 1] = r[1]
    <3>1. \A i \in 1..h : a[Len(p) + i] = r[i]
      BY <1>4, <1>15
    <3> QED
      BY <2>1, <3>1
  <2>3. Len(p) + 1 = Len(q) + 4
    BY <1>2
  <2> QED
    BY <2>1, <2>2, <2>3, <1>6
<1>11. Closes(c, s)
  <2>1. 1 \in 1..Len(c) /\ c[1] = CloseDstOp(s)
    BY DEF ClosingSteps
  <2> QED
    BY <2>1 DEF Closes
<1>12. OwnCloses(p, s)
  <2> SUFFICES ASSUME NEW i \in 1..Len(p), p[i].op = "closeDst" PROVE p[i].s = s
    BY DEF OwnCloses
  <2>1. CASE i \in 1..Len(q)
    BY <2>1, <1>2
  <2>2. CASE i \notin 1..Len(q)
    <3>1. i - Len(q) \in 1..3 /\ i = Len(q) + (i - Len(q))
      BY <2>2, <1>2
    <3>2. p[i] = c[i - Len(q)]
      BY <3>1, <1>2
    <3>3. c[i - Len(q)] \in {CloseDstOp(s), CloseRestOp(s, 1), CountDownOp(s)}
      BY <3>1 DEF ClosingSteps
    <3> QED
      BY <3>2, <3>3 DEF CloseDstOp, CloseRestOp, CountDownOp
  <2> QED
    BY <2>1, <2>2
<1>13. ASSUME NEW b PROVE Dues(a, b, "start") = {}
  <2>1. Dues(c, b, "start") = {}
    <3>1. ASSUME NEW i \in 1..Len(c) PROVE Due(c[i], b, "start") = {}
      <4>1. c[i] \in {CloseDstOp(s), CloseRestOp(s, 1), CountDownOp(s)}
        <5>1. PICK v : v = Len(c)
          OBVIOUS
        <5>2. v = 3
          BY <5>1 DEF ClosingSteps
        <5>3. i \in 1..3
          BY <5>1, <5>2
        <5> QED
          BY <5>3 DEF ClosingSteps
      <4>2. c[i].op \in {"closeDst", "closeRest", "countDown"}
        BY <4>1 DEF CloseDstOp, CloseRestOp, CountDownOp
      <4> QED
        BY <4>2, DueNone, DueCloseRest
    <3> QED
      BY <3>1 DEF Dues
  <2>2. Dues(q, b, "start") = {}
    BY EmitsFacts
  <2> QED
    BY <2>1, <2>2, <1>3, <1>5, <1>6
<1>16. Closes(a, s)
  BY <1>3, <1>5, <1>11
<1>17. KilledSteps(a, q, s)
  BY <1>4, <1>7, <1>8, <1>9, <1>10, <1>13, <1>16 DEF KilledSteps
<1> QED
  BY <1>2, <1>12, <1>17 DEF p, a

\* Before strm_stream_close takes its decision.
LEMMA KillFacts ==
  ASSUME NEW s \in Streams, NEW L, TypedLocal(L), NEW x, Phase(L, s, x),
         NEW o, NEW r, Splits(L.a, o, r), o.op = "kill"
  PROVE  /\ o.s = s /\ o.mode = L.mode /\ AtEnd(r, s) /\ Sums(L, 0, 0) /\ Stopped(L, x, 0)
         /\ L.mode # "killed" /\ ~Gone(L, s) /\ r \in Seq(Ops)
         /\ Dues(L.a, L.rest, "start") = {}
<1>1. Stopping(L, s, x)
  BY DEF Phase, Splits
<1>2. o = KillOp(s, L.mode) /\ AtEnd(r, s) /\ Sums(L, 0, 0) /\ Stopped(L, x, 0)
  <2>1. o # CloseOp(s)
    BY DEF CloseOp
  <2> QED
    BY <2>1, <1>1 DEF Stopping, Splits
<1>3. L.mode # "killed"
  BY <1>2 DEF Stopped, Live
<1>4. r \in Seq(Ops)
  BY SplitFacts
<1>5. Dues(L.a, L.rest, "start") = {}
  <2>1. Dues(L.a, L.rest, "start") = Due(o, L.rest, "start") \union Dues(r, L.rest, "start")
    BY SplitFacts
  <2>2. Due(o, L.rest, "start") = {}
    BY DueNone
  <2>3. Dues(r, L.rest, "start") = {}
    BY <1>2, <1>4, EndFacts
  <2> QED
    BY <2>1, <2>2, <2>3
<1> QED
  BY <1>2, <1>3, <1>4, <1>5 DEF KillOp, Gone

\* Other closes are to come.
LEMMA AwaitedLocal ==
  ASSUME NEW s \in Streams, NEW L, TypedLocal(L), NEW x, Phase(L, s, x),
         NEW o, NEW r, Splits(L.a, o, r), o.op = "kill", L.ref > 0, x = -1 => L.ref <= 0,
         NEW M, Turns(L, M, <<>> \o r), M.dst = L.dst
  PROVE  Phase(M, s, 0) /\ Passes(L, M, s, Streams) /\ x = 0 /\ Live(L.mode)
<1>1. AtEnd(r, s) /\ Sums(L, 0, 0) /\ Stopped(L, x, 0) /\ r \in Seq(Ops)
  BY KillFacts
<1>2. L.ref \in Int
  BY DEF TypedLocal
<1>3. x = 0 /\ Live(L.mode)
  BY <1>1, <1>2 DEF Stopped
<1>4. Passes(L, M, s, Streams) /\ M.a = r
  BY TurnsDone
<1>5. Live(M.mode) /\ Sums(M, 0, 0)
  BY <1>1, <1>3, TurnsSame DEF Turns
<1>6. Phase(M, s, 0)
  BY <1>1, <1>4, <1>5, EndPhase
<1> QED
  BY <1>3, <1>4, <1>6

\* It was the last close.
LEMMA KilledLocal ==
  ASSUME NEW s \in Streams, NEW L, TypedLocal(L), NEW x, Phase(L, s, x),
         NEW o, NEW r, Splits(L.a, o, r), o.op = "kill", NEW p,
         CloseFails(L.kind, L.got) => p = <<>>,
         ~CloseFails(L.kind, L.got) =>
           p = CloseFunc(s, L.kind, L.got) \o <<CloseDstOp(s), CloseRestOp(s, 1), CountDownOp(s)>>,
         NEW M, M.a = p \o r, SameWork(L, M), M.rest = L.rest, M.mode = "killed"
  PROVE  /\ Phase(M, s, 0) /\ ~Gone(M, s) /\ p \in Seq(Ops) /\ OwnCloses(p, s)
         /\ Dues(M.a, M.rest, "start") = {}
<1>1. AtEnd(r, s) /\ Sums(L, 0, 0) /\ r \in Seq(Ops)
  BY KillFacts, ZenonT(40)
<1>2. M.kind = L.kind /\ M.got = L.got /\ M.sent = L.sent
  BY DEF SameWork
<1>3. L.got \in Seq(Data) /\ L.sent \in Seq(Data) /\ L.kind \in Kinds
  BY DEF TypedLocal
<1>4. CASE CloseFails(L.kind, L.got)
  <2>1. p = <<>> /\ M.a = r
    BY <1>1, <1>4, Front0
  <2>2. Phase(M, s, 0)
    BY <2>1, <1>1, EndPhase
  <2>3. ~Gone(M, s)
    BY <1>2, <1>4 DEF Gone
  <2>4. Dues(M.a, M.rest, "start") = {}
    BY <2>1, <1>1, EndFacts
  <2> QED
    BY <2>1, <2>2, <2>3, <2>4, ShortFacts, ShortAgendas
<1>5. CASE ~CloseFails(L.kind, L.got)
  <2>1. PICK q : q = CloseFunc(s, L.kind, L.got)
    OBVIOUS
  <2>2. q \in Seq(Ops)
    BY <2>1, <1>3, <1>5, CloseFuncTyped
  <2>3. /\ L.kind = "sort" => Len(q) = Len(L.got) /\ \A i \in 1..Len(q) : q[i] = EmitOp(s, L.got[i], FALSE)
        /\ L.kind = "reduce" => Len(q) = 1 /\ q[1] = EmitOp(s, L.got[1], FALSE)
        /\ L.kind \notin {"sort", "reduce"} => q = <<>>
    <3>1. CASE L.kind = "sort"
      <4>1. q = [i \in 1..Len(L.got) |-> EmitOp(s, L.got[i], FALSE)]
        BY <2>1, <3>1 DEF CloseFunc
      <4>2. Len(q) = Len(L.got)
        BY <4>1, <1>3
      <4> QED
        BY <4>1, <4>2, <3>1
    <3>2. CASE L.kind = "reduce"
      <4>1. q = <<EmitOp(s, L.got[1], FALSE)>>
        BY <2>1, <3>2 DEF CloseFunc
      <4> QED
        BY <4>1, <3>2
    <3>3. CASE L.kind \notin {"sort", "reduce"}
      BY <2>1, <3>3 DEF CloseFunc
    <3> QED
      BY <3>1, <3>2, <3>3
  <2>4. Len(q) \in Nat
    BY <2>2
  <2>5. /\ \A i \in 1..Len(q) : q[i] = EmitOp(s, L.got[i], FALSE)
        /\ L.kind \notin {"sort", "reduce"} => Len(q) = 0
    <3>1. CASE L.kind \notin {"sort", "reduce"}
      <4>1. Len(q) = 0
        BY <2>3, <3>1
      <4> QED
        BY <4>1, <3>1
    <3>2. CASE L.kind = "sort"
      BY <2>3, <3>2
    <3>3. CASE L.kind = "reduce"
      <4>1. PICK l : l = Len(q)
        OBVIOUS
      <4>2. l = 1 /\ q[1] = EmitOp(s, L.got[1], FALSE)
        BY <2>3, <3>3, <4>1
      <4>3. ASSUME NEW i \in 1..l PROVE q[i] = EmitOp(s, L.got[i], FALSE)
        <5>1. i = 1
          BY <4>2
        <5> QED
          BY <4>2, <5>1
      <4> QED
        BY <4>1, <4>3, <3>3
    <3> QED
      BY <3>1, <3>2, <3>3
  <2>6. \A i \in 1..Len(q) : q[i].op = "emit"
    <3> SUFFICES ASSUME NEW i \in 1..Len(q) PROVE q[i].op = "emit"
      OBVIOUS
    <3>1. q[i] = EmitOp(s, L.got[i], FALSE)
      BY <2>5
    <3> QED
      BY <3>1 DEF EmitOp
  <2>7. PICK c : c = <<CloseDstOp(s), CloseRestOp(s, 1), CountDownOp(s)>>
    OBVIOUS
  <2>12. ClosingSteps(c, s)
    BY <2>7, ClosingStepsFacts
  <2>13. p = q \o c /\ M.a = (q \o c) \o r
    BY <2>1, <2>7, <1>5
  <2>14. KilledSteps(M.a, q, s) /\ OwnCloses(p, s) /\ p \in Seq(Ops)
    <3>1. KilledSteps((q \o c) \o r, q, s) /\ OwnCloses(q \o c, s) /\ q \o c \in Seq(Ops)
      BY <2>2, <2>6, <2>12, <1>1, KilledAgenda
    <3> QED
      BY <3>1, <2>13
  <2>8. /\ M.a \in Seq(Ops)
        /\ Len(M.a) \in {Len(q) + 3, Len(q) + 4}
        /\ \A i \in 1..Len(q) : M.a[i] = q[i]
        /\ M.a[Len(q) + 1] = CloseDstOp(s) /\ M.a[Len(q) + 2] = CloseRestOp(s, 1)
        /\ M.a[Len(q) + 3] = CountDownOp(s)
        /\ Len(M.a) = Len(q) + 4 => M.a[Len(q) + 4] = AfterOp(s)
        /\ Closes(M.a, s) /\ \A b : Dues(M.a, b, "start") = {}
    BY <2>14 DEF KilledSteps
  <2>9. Closing(M)
    BY <1>2, <1>5 DEF Closing
  <2>10. Left(M, M.a, s, Len(q))
    <3>1. Len(L.got) \in Nat /\ Len(L.sent) \in Nat /\ (L.got = <<>> <=> Len(L.got) = 0)
          /\ (L.sent = <<>> <=> Len(L.sent) = 0)
      BY <1>3
    <3>2. L.kind \in {"sort", "reduce"} => Len(L.sent) = 0
      BY <1>1, <3>1 DEF Sums
    <3>3. L.kind # "seq" => Len(L.sent) + Len(q) = Owes(L)
      <4>1. CASE L.kind \in {"map", "take"}
        <5>1. Len(L.sent) + 0 = Len(L.got) /\ Len(q) = 0
          BY <4>1, <1>1, <2>5 DEF Sums
        <5> QED
          BY <4>1, <5>1 DEF Owes
      <4>2. CASE L.kind = "sort"
        <5>1. Len(q) = Len(L.got) /\ Len(L.sent) = 0
          BY <4>2, <3>2, <2>3
        <5> QED
          BY <4>2, <5>1, <3>1 DEF Owes
      <4>3. CASE L.kind = "reduce"
        <5>1. Len(q) = 1 /\ Len(L.sent) = 0 /\ L.got # <<>>
          BY <4>3, <3>2, <2>3, <1>5 DEF CloseFails
        <5> QED
          BY <4>3, <5>1 DEF Owes
      <4>4. CASE L.kind \in {"print", "sink"}
        <5>1. Len(q) = 0 /\ Len(L.sent) = 0
          BY <4>4, <2>5, <1>1, <3>1 DEF Sums
        <5> QED
          BY <4>4, <5>1 DEF Owes
      <4> QED
        BY <4>1, <4>2, <4>3, <4>4, <1>3 DEF Kinds
    <3>4. Owes(M) = Owes(L)
      BY <1>2 DEF Owes
    <3>5. ASSUME NEW i \in 1..Len(q) PROVE M.a[i] = EmitOp(s, M.got[Len(M.sent) + i], FALSE)
      <4>1. L.kind \in {"sort", "reduce"}
        BY <2>5
      <4>2. Len(M.sent) + i = i
        BY <4>1, <1>2, <3>2
      <4> QED
        BY <4>2, <1>2, <2>5, <2>8
    <3> QED
      BY <1>2, <2>5, <2>8, <3>3, <3>4, <3>5 DEF Left
  <2>11. Phase(M, s, 0)
    <3>1. M.a # <<>> /\ Head(M.a) = M.a[1]
      <4>1. Len(M.a) # 0
        BY <2>4, <2>8
      <4> QED
        BY <4>1, <2>8, HeadTail, SMTT(30)
    <3>2. CASE Len(q) = 0
      <4>1. Head(M.a) = CloseDstOp(s)
        <5>1. PICK l : l = Len(q)
          OBVIOUS
        <5>2. M.a[l + 1] = CloseDstOp(s) /\ l = 0
          BY <5>1, <3>2, <2>8
        <5>3. l + 1 = 1
          BY <5>2
        <5>4. M.a[1] = CloseDstOp(s)
          BY <5>2, <5>3
        <5> QED
          BY <5>4, <3>1
      <4>2. Head(M.a).op = "closeDst"
        <5>1. CloseDstOp(s).op = "closeDst"
          BY DEF CloseDstOp
        <5> QED
          BY <4>1, <5>1
      <4> QED
        BY <4>2, <3>1, <3>2, <2>9, <2>10 DEF Phase
    <3>3. CASE Len(q) # 0
      <4>1. 1 \in 1..Len(q) /\ L.kind \in {"sort", "reduce"}
        BY <3>3, <2>4, <2>5
      <4>2. Head(M.a).op = "emit"
        BY <4>1, <3>1, <2>6, <2>8
      <4>3. Len(q) \in 0..Len(M.a)
        BY <2>4, <2>8
      <4>4. Remains(M, M.a, s)
        BY <4>3, <2>10 DEF Remains
      <4>5. Emitting(M, s, 0)
        BY <4>1, <4>4, <2>9, <1>2 DEF Emitting
      <4> QED
        BY <4>2, <4>5, <3>1 DEF Phase
    <3> QED
      BY <3>2, <3>3
  <2> QED
    BY <2>8, <2>11, <2>14 DEF Gone
<1> QED
  BY <1>4, <1>5

LEMMA LengthZero ==
  ASSUME NEW y \in Seq(Ops), Len(y) = 0
  PROVE  y = <<>>
  OBVIOUS

\* No element is due.
Mute(L) == Dues(L.a, L.rest, "start") = {}

\* The close is passed on.
LEMMA CloseDstLocal ==
  ASSUME NEW s \in Streams, NEW L, TypedLocal(L), NEW x, Phase(L, s, x),
         NEW o, NEW r, Splits(L.a, o, r), o.op = "closeDst", NEW p,
         L.dst = NoStream => p = <<>>,
         L.dst # NoStream => p = <<PushOp(L.dst, "close", Nil)>>,
         NEW M, Turns(L, M, p \o r), M.dst = L.dst
  PROVE  /\ Phase(M, s, x) /\ ~Gone(L, s) /\ Gone(M, s) /\ p \in Seq(Ops) /\ OwnCloses(p, s) /\ o.s = s
         /\ Dues(L.a, L.rest, "start") = {} /\ Mute(M)
         /\ \A t \in Streams : t = L.dst \/ InSeq(t, L.rest) => t \in Dues(M.a, M.rest, "close")
         /\ (L.kind # "seq" => Len(L.sent) = Owes(L)) /\ Closing(L)
<1>1. Closing(L) /\ Left(L, L.a, s, 0)
  BY DEF Phase, Splits
<1>2. r \in Seq(Ops)
  BY SplitFacts
<1>3. o = CloseDstOp(s) /\ AtCloseRest(r, s, 1)
  <2>1. PICK l : l = Len(L.a)
    OBVIOUS
  <2>2. /\ l \in {3, 4} /\ L.a[1] = CloseDstOp(s) /\ L.a[2] = CloseRestOp(s, 1) /\ L.a[3] = CountDownOp(s)
        /\ l = 4 => L.a[4] = AfterOp(s)
    <3>1. /\ Len(L.a) \in {0 + 3, 0 + 4} /\ L.a[0 + 1] = CloseDstOp(s) /\ L.a[0 + 2] = CloseRestOp(s, 1)
          /\ L.a[0 + 3] = CountDownOp(s) /\ (Len(L.a) = 0 + 4 => L.a[0 + 4] = AfterOp(s))
      BY <1>1 DEF Left
    <3> QED
      BY <2>1, <3>1
  <2>3. Head(L.a) = L.a[1] /\ Len(r) = l - 1 /\ \A i \in 1..Len(r) : r[i] = L.a[i + 1]
    BY <2>1, HeadTail DEF Splits
  <2>4. PICK h : h = Len(r)
    OBVIOUS
  <2>5. h \in {2, 3} /\ \A i \in 1..h : r[i] = L.a[i + 1]
    BY <2>2, <2>3, <2>4
  <2>6. r[1] = CloseRestOp(s, 1) /\ r[2] = CountDownOp(s) /\ (h = 3 => r[3] = AfterOp(s))
    <3>1. r[1] = L.a[1 + 1] /\ r[2] = L.a[2 + 1] /\ (h = 3 => r[3] = L.a[3 + 1])
      BY <2>5
    <3>2. h = 3 => l = 4
      BY <2>2, <2>3, <2>4
    <3> QED
      BY <3>1, <3>2, <2>2
  <2>7. r # <<>> /\ Head(r) = r[1]
    <3>1. r # <<>>
      <4>1. ASSUME r = <<>> PROVE h = 0
        BY <4>1, <2>4
      <4> QED
        BY <4>1, <2>5
    <3> QED
      BY <3>1, <1>2, HeadTail
  <2>8. PICK v : v = Tail(r)
    OBVIOUS
  <2>9. v \in Seq(Ops) /\ Len(v) = h - 1 /\ \A i \in 1..Len(v) : v[i] = r[i + 1]
    BY <2>7, <2>8, <2>4, <1>2, HeadTail
  <2>10. PICK m : m = Len(v)
    OBVIOUS
  <2>11. m \in {1, 2} /\ \A i \in 1..m : v[i] = r[i + 1]
    BY <2>9, <2>10, <2>5
  <2>12. v[1] = CountDownOp(s) /\ (m = 2 => v[2] = AfterOp(s))
    <3>1. v[1] = r[1 + 1] /\ (m = 2 => v[2] = r[2 + 1])
      BY <2>11
    <3>2. m = 2 => h = 3
      BY <2>9, <2>10, <2>5
    <3> QED
      BY <3>1, <3>2, <2>6
  <2>13. v # <<>> /\ Head(v) = v[1]
    <3>1. v # <<>>
      <4>1. ASSUME v = <<>> PROVE m = 0
        BY <4>1, <2>10
      <4> QED
        BY <4>1, <2>11
    <3> QED
      BY <3>1, <2>9, HeadTail
  <2>14. PICK y : y = Tail(v)
    OBVIOUS
  <2>15. y \in Seq(Ops) /\ Len(y) = m - 1 /\ \A i \in 1..Len(y) : y[i] = v[i + 1]
    BY <2>13, <2>14, <2>9, <2>10, HeadTail
  <2>16. AtEnd(y, s)
    <3>1. PICK g : g = Len(y)
      OBVIOUS
    <3>2. g = m - 1 /\ g \in {0, 1} /\ \A i \in 1..g : y[i] = v[i + 1]
      BY <3>1, <2>15, <2>11
    <3>3. CASE g = 0
      <4>1. y \in Seq(Ops) /\ Len(y) = 0
        BY <3>1, <3>3, <2>15
      <4>2. y = <<>>
        BY <4>1, LengthZero
      <4> QED
        BY <4>2 DEF AtEnd
    <3>4. CASE g = 1
      <4>1. m = 2
        BY <3>2, <3>4, <2>11
      <4>2. y[1] = AfterOp(s)
        <5>1. y[1] = v[1 + 1]
          BY <3>2, <3>4
        <5> QED
          BY <5>1, <4>1, <2>12
      <4>3. y # <<>>
        <5>1. ASSUME y = <<>> PROVE g = 0
          BY <5>1, <3>1
        <5> QED
          BY <5>1, <3>4
      <4>4. Head(y) = y[1] /\ Tail(y) \in Seq(Ops) /\ Len(Tail(y)) = g - 1
        BY <4>3, <2>15, <3>1, HeadTail
      <4>5. Tail(y) = <<>>
        <5>1. PICK z : z = Tail(y)
          OBVIOUS
        <5>2. z \in Seq(Ops) /\ Len(z) = 0
          BY <5>1, <4>4, <3>4
        <5>3. z = <<>>
          BY <5>2
        <5> QED
          BY <5>1, <5>3
      <4> QED
        BY <4>2, <4>3, <4>4, <4>5 DEF AtEnd, AtAfter, Is
    <3> QED
      BY <3>2, <3>3, <3>4
  <2>17. o = CloseDstOp(s)
    BY <2>2, <2>3 DEF Splits
  <2>18. Is(r, CloseRestOp(s, 1))
    BY <2>6, <2>7 DEF Is
  <2>19. Is(v, CountDownOp(s))
    BY <2>12, <2>13 DEF Is
  <2> QED
    BY <2>8, <2>14, <2>16, <2>17, <2>18, <2>19 DEF AtCloseRest
<1>4. L.mode = "killed" /\ ~CloseFails(L.kind, L.got) /\ Closes(L.a, s) /\ o.s = s
  BY <1>1, <1>3, SplitFacts DEF Closing, CloseDstOp
<1>5. ~Gone(L, s)
  BY <1>4 DEF Gone
<1>6. PICK v : v = Tail(r)
  OBVIOUS
<1>7. PICK y : y = Tail(v)
  OBVIOUS
<1>8. PICK b : b = CloseRestOp(s, 1)
  OBVIOUS
<1>9. PICK c : c = CountDownOp(s)
  OBVIOUS
<1>10. Splits(r, b, v) /\ Splits(v, c, y) /\ AtEnd(y, s) /\ y \in Seq(Ops)
  <2>1. r # <<>> /\ Head(r) = b /\ v # <<>> /\ Head(v) = c /\ AtEnd(y, s)
    BY <1>3, <1>6, <1>7, <1>8, <1>9 DEF AtCloseRest, Is
  <2>2. v \in Seq(Ops)
    BY <2>1, <1>2, <1>6, HeadTail
  <2>3. y \in Seq(Ops)
    BY <2>1, <2>2, <1>7, HeadTail
  <2> QED
    BY <2>1, <2>2, <2>3, <1>2, <1>6, <1>7 DEF Splits
<1>11. b.op = "closeRest" /\ b.i = 1 /\ c.op = "countDown" /\ b # CloseDstOp(s) /\ c # CloseDstOp(s)
  BY <1>8, <1>9 DEF CloseRestOp, CountDownOp, CloseDstOp
<1>12. ~Closes(r, s)
  <2>1. ~Closes(y, s)
    BY <1>10, EndFacts
  <2>2. ~Closes(v, s)
    BY <2>1, <1>10, <1>11, SplitFacts
  <2> QED
    BY <2>2, <1>10, <1>11, SplitFacts
<1>13. \A f : Dues(r, L.rest, f) = IF f = "close" THEN {L.rest[j] : j \in 1..Len(L.rest)} ELSE {}
  <2> SUFFICES ASSUME NEW f
               PROVE  Dues(r, L.rest, f) = IF f = "close" THEN {L.rest[j] : j \in 1..Len(L.rest)} ELSE {}
    OBVIOUS
  <2>1. Dues(y, L.rest, f) = {}
    BY <1>10, EndFacts
  <2>2. Dues(v, L.rest, f) = Due(c, L.rest, f) \union Dues(y, L.rest, f)
    BY <1>10, SplitFacts
  <2>3. Due(c, L.rest, f) = {}
    BY <1>11, DueNone
  <2>4. Dues(r, L.rest, f) = Due(b, L.rest, f) \union Dues(v, L.rest, f)
    BY <1>10, SplitFacts
  <2>5. Due(b, L.rest, f) = IF f = "close" THEN {L.rest[j] : j \in 1..Len(L.rest)} ELSE {}
    BY <1>11, DueCloseRest
  <2> QED
    BY <2>1, <2>2, <2>3, <2>4, <2>5
<1>14. Dues(L.a, L.rest, "start") = {}
  <2>1. Dues(L.a, L.rest, "start") = Due(o, L.rest, "start") \union Dues(r, L.rest, "start")
    BY SplitFacts
  <2>2. Due(o, L.rest, "start") = {}
    BY DueNone
  <2> QED
    BY <2>1, <2>2, <1>13
<1>15. M.a = p \o r /\ M.rest = L.rest /\ M.dst = L.dst /\ M.mode = "killed" /\ ~CloseFails(M.kind, M.got)
  BY <1>4 DEF Turns
<1>16. Closing(M)
  BY <1>15 DEF Closing
<1>17. ASSUME NEW t \in Streams, InSeq(t, L.rest) PROVE t \in Dues(r, L.rest, "close")
  BY <1>13, <1>17 DEF InSeq
<1>18. L.kind # "seq" => Len(L.sent) = Owes(L)
  <2>1. L.kind # "seq" => Len(L.sent) + 0 = Owes(L)
    BY <1>1 DEF Left
  <2>2. Len(L.sent) \in Nat
    BY DEF TypedLocal
  <2> QED
    BY <2>1, <2>2
<1>19. Nil \in Data
  BY DEF Data
<1>20. CASE L.dst = NoStream
  <2>1. p = <<>> /\ M.a = r
    BY <1>2, <1>15, <1>20, Front0
  <2>2. ~Closes(M.a, s) /\ Gone(M, s)
    BY <2>1, <1>12, <1>15 DEF Gone
  <2>3. Phase(M, s, x)
    <3>1. M.a # <<>> /\ Head(M.a).op = "closeRest"
      BY <2>1, <1>10, <1>11 DEF Splits
    <3>2. 1 \in 1..(Len(M.rest) + 1)
      BY <1>15 DEF TypedLocal
    <3> QED
      BY <3>1, <3>2, <2>1, <1>3, <1>16 DEF Phase
  <2>4. Dues(M.a, M.rest, "start") = {}
    BY <2>1, <1>13, <1>15
  <2>5. OwnCloses(<<>>, s) /\ <<>> \in Seq(Ops)
    BY ShortFacts, ShortAgendas
  <2>6. \A t \in Streams : t = L.dst \/ InSeq(t, L.rest) => t \in Dues(M.a, M.rest, "close")
    BY <2>1, <1>15, <1>17, <1>20, NullAssumption
  <2> QED
    BY <2>1, <2>2, <2>3, <2>4, <2>5, <2>6, <1>1, <1>4, <1>5, <1>14, <1>18 DEF Mute
<1>21. CASE L.dst # NoStream
  <2>1. PICK d : d = PushOp(L.dst, "close", Nil)
    OBVIOUS
  <2>2. d \in Ops
    BY <2>1, <1>19, <1>21, OpTypes DEF Funcs, TypedLocal
  <2>3. d.op = "push" /\ d.s = L.dst /\ d.f = "close" /\ d.d = Nil /\ d # CloseDstOp(s)
    BY <2>1 DEF PushOp, CloseDstOp
  <2>4. p = <<d>> /\ p \in Seq(Ops) /\ OwnCloses(p, s) /\ ~Closes(p, s)
    BY <2>1, <2>2, <2>3, <1>21, ShortFacts, ShortAgendas
  <2>5. M.a = <<d>> \o r
    BY <2>4, <1>15
  <2>6. M.a # <<>> /\ Head(M.a) = d /\ Tail(M.a) = r
    BY <2>2, <2>5, <1>2, Front1
  <2>7. Following(M, s, x, d.s, d.f, d.d, Tail(M.a))
    <3>1. d.s = M.dst /\ d.s # NoStream /\ AtCloseRest(Tail(M.a), s, 1)
      BY <2>3, <2>6, <1>3, <1>15, <1>21
    <3> QED
      BY <3>1, <2>3, <1>16 DEF Following
  <2>8. Phase(M, s, x)
    BY <2>3, <2>6, <2>7 DEF Phase
  <2>9. Closes(M.a, s) <=> Closes(p, s) \/ Closes(r, s)
    <3>1. Closes(p \o r, s) <=> Closes(p, s) \/ Closes(r, s)
      BY <2>4, <1>2, ClosesConcat
    <3> QED
      BY <3>1, <1>15
  <2>10. Gone(M, s)
    BY <2>4, <2>9, <1>12, <1>15 DEF Gone
  <2>11. \A f : Dues(M.a, M.rest, f) = Dues(p, L.rest, f) \union Dues(r, L.rest, f)
    <3>1. ASSUME NEW f PROVE Dues(p \o r, L.rest, f) = Dues(p, L.rest, f) \union Dues(r, L.rest, f)
      <4>1. p \in Seq(Ops)
        BY <2>4
      <4> QED
        BY <4>1, <1>2, DuesConcat
    <3> QED
      BY <3>1, <1>15
  <2>12. Dues(p, L.rest, "start") = {} /\ Dues(p, L.rest, "close") = {L.dst}
    <3>1. Dues(p, L.rest, "start") = Due(d, L.rest, "start") /\ Dues(p, L.rest, "close") = Due(d, L.rest, "close")
      BY <2>2, <2>4, ShortFacts
    <3>2. Due(d, L.rest, "start") = {}
      BY <2>3, DuePush
    <3>3. Due(d, L.rest, "close") = {L.dst}
      BY <2>3, DuePush
    <3> QED
      BY <3>1, <3>2, <3>3
  <2>13. Dues(M.a, M.rest, "start") = {}
    BY <2>11, <2>12, <1>13
  <2>14. \A t \in Streams : t = L.dst \/ InSeq(t, L.rest) => t \in Dues(M.a, M.rest, "close")
    BY <2>11, <2>12, <1>17
  <2> QED
    BY <2>4, <2>8, <2>10, <2>13, <2>14, <1>1, <1>4, <1>5, <1>14, <1>18 DEF Mute
<1> QED
  BY <1>20, <1>21

LEMMA CheckFacts ==
  ASSUME NEW s \in Streams, NEW L, TypedLocal(L), NEW x, Phase(L, s, x),
         NEW o, NEW r, Splits(L.a, o, r), o.op = "check"
  PROVE  /\ o.s = s /\ (L.kind = "seq" => o.again = TRUE) /\ (L.kind # "seq" => o.again = FALSE)
         /\ Spreading(L, x) /\ Emitted(L, r, s)
<1>1. Spreading(L, x) /\ AtCheck(L, L.a, s)
  BY DEF Phase, Splits
<1>2. o \in {CheckOp(s, TRUE), CheckOp(s, FALSE)} /\ Emitted(L, r, s)
      /\ (L.kind = "seq" => o = CheckOp(s, TRUE)) /\ (L.kind # "seq" => o = CheckOp(s, FALSE))
  BY <1>1 DEF AtCheck, Is, Splits
<1>3. ASSUME NEW b PROVE CheckOp(s, b).s = s /\ CheckOp(s, b).again = b
  BY DEF CheckOp
<1>4. o.s = s
  BY <1>2, <1>3
<1>5. (L.kind = "seq" => o.again = TRUE) /\ (L.kind # "seq" => o.again = FALSE)
  BY <1>2, <1>3
<1> QED
  BY <1>1, <1>2, <1>4, <1>5

\* What comes after an emission while the stream lives, or has been killed.
LEMMA EmittedPhase ==
  ASSUME NEW s \in Streams, NEW L, TypedLocal(L), NEW x, L.kind # "seq", Spreading(L, x),
         Emitted(L, L.a, s)
  PROVE  Phase(L, s, x)
<1>1. CASE L.kind = "map"
  <2>1. AtAfter(L.a, s)
    BY <1>1 DEF Emitted
  <2>2. x = 0 /\ Live(L.mode) /\ Sums(L, 0, 0)
    BY <1>1 DEF Spreading
  <2>3. Phase(L, s, 0)
    BY <2>1, <2>2, AfterPhase DEF Live
  <2> QED
    BY <2>2, <2>3
<1>2. CASE L.kind = "take"
  <2>1. Is(L.a, TakeNextOp(s))
    BY <1>2 DEF Emitted
  <2>2. x = 0 /\ Live(L.mode) /\ Sums(L, 0, 1)
    BY <1>2 DEF Spreading
  <2>3. L.a # <<>> /\ Head(L.a).op = "takeNext"
    BY <2>1 DEF Is, TakeNextOp
  <2>4. Counting(L, s, x)
    BY <2>2, <1>2 DEF Counting
  <2> QED
    BY <2>3, <2>4 DEF Phase
<1>3. CASE L.kind \in {"sort", "reduce"}
  <2>1. Remains(L, L.a, s) /\ Closing(L)
    BY <1>3 DEF Emitted, Spreading
  <2>2. PICK j \in 0..Len(L.a) : Left(L, L.a, s, j)
    BY <2>1 DEF Remains
  <2>3. PICK l : l = Len(L.a)
    OBVIOUS
  <2>4. l \in {j + 3, j + 4} /\ j \in Nat
    BY <2>2, <2>3 DEF Left
  <2>5. L.a # <<>>
    <3>1. ASSUME L.a = <<>> PROVE l = 0
      BY <3>1, <2>3
    <3> QED
      BY <3>1, <2>4
  <2>6. Head(L.a) = L.a[1]
    BY <2>5, HeadTail DEF TypedLocal
  <2>7. CASE j = 0
    <3>1. L.a[0 + 1] = CloseDstOp(s) /\ Left(L, L.a, s, 0)
      BY <2>2, <2>7 DEF Left
    <3>2. Head(L.a) = CloseDstOp(s)
      BY <3>1, <2>6
    <3>3. CloseDstOp(s).op = "closeDst"
      BY DEF CloseDstOp
    <3>4. Head(L.a).op = "closeDst"
      BY <3>2, <3>3
    <3> QED
      BY <3>1, <3>4, <2>1, <2>5 DEF Phase
  <2>8. CASE j # 0
    <3>1. 1 \in 1..j
      BY <2>4, <2>8
    <3>2. L.a[1] = EmitOp(s, L.got[Len(L.sent) + 1], FALSE)
      BY <2>2, <3>1 DEF Left
    <3>3. EmitOp(s, L.got[Len(L.sent) + 1], FALSE).op = "emit"
      BY DEF EmitOp
    <3>4. Head(L.a).op = "emit"
      BY <3>2, <3>3, <2>6
    <3>5. Emitting(L, s, x)
      BY <2>1, <1>3 DEF Emitting
    <3> QED
      BY <3>4, <3>5, <2>5 DEF Phase
  <2> QED
    BY <2>7, <2>8
<1> QED
  BY <1>1, <1>2, <1>3 DEF Emitted

\* Somebody listens.
LEMMA HeardLocal ==
  ASSUME NEW s \in Streams, NEW L, TypedLocal(L), NEW x, Phase(L, s, x),
         NEW o, NEW r, Splits(L.a, o, r), o.op = "check", NEW p,
         o.again => p = <<PushOp(o.s, "start", Nil)>>, ~o.again => p = <<>>,
         NEW M, Turns(L, M, p \o r), M.dst = L.dst
  PROVE  Phase(M, s, x) /\ Passes(L, M, s, Streams) /\ OwnCloses(p, s) /\ p \in Seq(Ops)
<1>1. /\ o.s = s /\ (L.kind = "seq" => o.again = TRUE) /\ (L.kind # "seq" => o.again = FALSE)
      /\ Spreading(L, x) /\ Emitted(L, r, s)
  BY CheckFacts
<1>2. TypedLocal(M)
  <2>1. r \in Seq(Ops)
    BY SplitFacts
  <2>2. p \in Seq(Ops)
    <3>1. Nil \in Data
      BY DEF Data
    <3>2. PushOp(s, "start", Nil) \in Ops
      BY <3>1, OpTypes DEF Funcs
    <3> QED
      BY <3>2, <1>1, ShortAgendas
  <2>3. p \o r \in Seq(Ops)
    BY <2>1, <2>2, ShortAgendas
  <2> QED
    BY <2>3 DEF Turns, TypedLocal
<1>3. CASE L.kind # "seq"
  <2>1. p = <<>> /\ Turns(L, M, <<>> \o r)
    BY <1>1, <1>3
  <2>2. Passes(L, M, s, Streams) /\ M.a = r /\ OwnCloses(<<>>, s) /\ <<>> \in Seq(Ops)
    BY <2>1, TurnsDone
  <2>3. M.kind # "seq" /\ Spreading(M, x) /\ Emitted(M, M.a, s)
    BY <2>1, <2>2, <1>1, <1>3, TurnsSame DEF Turns
  <2>4. Phase(M, s, x)
    BY <2>3, <1>2, EmittedPhase
  <2> QED
    BY <2>1, <2>2, <2>4
<1>4. CASE L.kind = "seq"
  <2>1. PICK b : b = PushOp(s, "start", Nil)
    OBVIOUS
  <2>2. Nil \in Data
    BY DEF Data
  <2>3. b \in Ops /\ b.op = "push" /\ b.s = s /\ b.f = "start" /\ b.d = Nil /\ p = <<b>>
    BY <2>1, <2>2, <1>1, <1>4, OpTypes DEF Funcs, PushOp
  <2>4. Turns(L, M, <<b>> \o r)
    BY <2>3
  <2>5. /\ Passes(L, M, s, Streams) /\ M.a # <<>> /\ Head(M.a) = b /\ Tail(M.a) = r
        /\ OwnCloses(<<b>>, s) /\ <<b>> \in Seq(Ops)
    BY <2>3, <2>4, TurnsNext
  <2>6. Live(L.mode) /\ x = 0 /\ Sums(L, 0, 1)
    BY <1>1, <1>4 DEF Spreading
  <2>7. Following(L, s, x, b.s, b.f, b.d, r)
    BY <2>3, <2>6, <1>1, <1>4 DEF Following
  <2>8. Following(M, s, x, b.s, b.f, b.d, Tail(M.a))
    BY <2>5, <2>7, TurnsSame
  <2>9. Phase(M, s, x)
    BY <2>3, <2>5, <2>8 DEF Phase
  <2> QED
    BY <2>3, <2>5, <2>9
<1> QED
  BY <1>3, <1>4

\* Nobody does.
LEMMA UnheardLocal ==
  ASSUME NEW s \in Streams, NEW L, TypedLocal(L), NEW x, Phase(L, s, x),
         NEW o, NEW r, Splits(L.a, o, r), o.op = "check",
         L.kind \notin {"sort", "reduce"}, L.ref <= 1,
         NEW M, M.a = <<>> \o r, SameWork(L, M), M.rest = L.rest, M.ref = L.ref, M.mode = "dying"
  PROVE  /\ Phase(M, s, 0) /\ Passes(L, M, s, Streams) /\ Live(L.mode)
         /\ L.kind \in {"map", "take"} => Len(L.sent) = Len(L.got)
<1>1. Spreading(L, x) /\ Emitted(L, r, s)
  BY CheckFacts, ZenonT(40)
<1>2. /\ Live(L.mode) /\ x = 0 /\ L.kind \in {"seq", "map", "take"}
      /\ L.kind = "map" => Sums(L, 0, 0)
      /\ L.kind # "map" => Sums(L, 0, 1)
  BY <1>1 DEF Spreading
<1>3. Like(L, M)
  BY <1>2 DEF Like, SameWork, Live
<1>4. Passes(L, M, s, Streams) /\ M.a = r
  BY <1>3, QuietDone
<1>5. Emitted(M, M.a, s) /\ (L.kind = "map" => Sums(M, 0, 0)) /\ (L.kind # "map" => Sums(M, 0, 1))
  BY <1>1, <1>2, <1>4, WorkSame
<1>6. M.kind = L.kind
  BY DEF SameWork
<1>7. L.kind \in {"map", "take"} => Len(L.sent) = Len(L.got)
  <2>1. L.kind \in {"map", "take"} => Len(L.sent) + 0 = Len(L.got)
    BY <1>2 DEF Sums
  <2>2. Len(L.sent) \in Nat
    BY DEF TypedLocal
  <2> QED
    BY <2>1, <2>2
<1>8. Phase(M, s, 0)
  <2>1. CASE L.kind = "map"
    <3>1. AtAfter(M.a, s) /\ Sums(M, 0, 0)
      BY <2>1, <1>5, <1>6 DEF Emitted
    <3> QED
      BY <3>1, AfterPhase
  <2>2. CASE L.kind \in {"seq", "take"}
    <3>1. M.a # <<>> /\ Head(M.a).op \in {"seqNext", "takeNext"}
      BY <2>2, <1>5, <1>6 DEF Emitted, Is, SeqNextOp, TakeNextOp
    <3>2. Counting(M, s, 0)
      BY <2>2, <1>5, <1>6 DEF Counting
    <3> QED
      BY <3>1, <3>2 DEF Phase
  <2> QED
    BY <2>1, <2>2, <1>2
<1> QED
  BY <1>2, <1>4, <1>7, <1>8

\* M has emitted its m-th element, one more than L.
Later(L, M, m) == M.kind = L.kind /\ M.got = L.got /\ m = Len(L.sent) + 1 /\ m = Len(M.sent)

Lessens(L, M, r, o, s, m) ==
  /\ Remains(M, r, s) /\ o.s = s /\ o.d = L.got[m] /\ o.again = FALSE /\ L.kind \in {"sort", "reduce"}
  /\ L.kind = "sort" => m <= Len(L.got)
  /\ L.kind = "reduce" => L.got # <<>> /\ m <= 1

\* One emission less is left.
LEMMA LeftNext ==
  ASSUME NEW s, NEW L, TypedLocal(L), NEW a, NEW o, NEW r, Splits(a, o, r), NEW j, j \in Nat, j # 0, Left(L, a, s, j),
         NEW M, NEW m, Later(L, M, m)
  PROVE  Lessens(L, M, r, o, s, m)
<1>0. M.kind = L.kind /\ M.got = L.got /\ m = Len(L.sent) + 1 /\ m = Len(M.sent)
  BY DEF Later
<1>1. PICK l : l = Len(a)
  OBVIOUS
<1>2. PICK h : h = Len(r)
  OBVIOUS
<1>3. PICK k : k = Len(L.sent)
  OBVIOUS
<1>4. k \in Nat /\ m = k + 1 /\ m \in Nat /\ Len(L.got) \in Nat
  BY <1>0, <1>3 DEF TypedLocal
<1>5. /\ r \in Seq(Ops) /\ l \in Nat \ {0} /\ o = a[1] /\ h = l - 1
      /\ \A i \in 1..h : r[i] = a[i + 1]
  BY <1>1, <1>2, HeadTail DEF Splits
<1>6. /\ L.kind # "seq" => k + j = Owes(L)
      /\ L.kind \in {"sort", "reduce"}
      /\ \A i \in 1..j : a[i] = EmitOp(s, L.got[k + i], FALSE)
      /\ l \in {j + 3, j + 4}
      /\ a[j + 1] = CloseDstOp(s) /\ a[j + 2] = CloseRestOp(s, 1) /\ a[j + 3] = CountDownOp(s)
      /\ l = j + 4 => a[j + 4] = AfterOp(s)
  BY <1>1, <1>3 DEF Left
<1>7. PICK i : i = j - 1
  OBVIOUS
<1>8. i \in Nat /\ j = i + 1
  BY <1>7
<1>9. o = EmitOp(s, L.got[m], FALSE)
  <2>1. 1 \in 1..j
    BY <1>8
  <2>2. a[1] = EmitOp(s, L.got[k + 1], FALSE)
    BY <2>1, <1>6
  <2>3. k + 1 = m /\ o = a[1]
    BY <1>4, <1>5
  <2> QED
    BY <2>2, <2>3, Zenon
<1>11. h \in {i + 3, i + 4} /\ (h = i + 4 => l = j + 4)
  <2>1. h = l - 1 /\ l \in {j + 3, j + 4}
    BY <1>5, <1>6
  <2> QED
    BY <2>1, <1>8
<1>10. ASSUME NEW v \in 1..i PROVE r[v] = EmitOp(s, M.got[m + v], FALSE)
  <2>1. v \in 1..h /\ v + 1 \in 1..j /\ k + (v + 1) = m + v
    BY <1>4, <1>8, <1>11
  <2>2. r[v] = a[v + 1] /\ a[v + 1] = EmitOp(s, L.got[k + (v + 1)], FALSE)
    BY <2>1, <1>5, <1>6
  <2>3. M.got = L.got
    BY <1>0
  <2> QED
    BY <2>1, <2>2, <2>3
<1>12. r[i + 1] = CloseDstOp(s) /\ r[i + 2] = CloseRestOp(s, 1) /\ r[i + 3] = CountDownOp(s)
  <2>1. i + 1 \in 1..h /\ i + 2 \in 1..h /\ i + 3 \in 1..h
    BY <1>8, <1>11
  <2>2. r[i + 1] = a[i + 1 + 1] /\ r[i + 2] = a[i + 2 + 1] /\ r[i + 3] = a[i + 3 + 1]
    BY <2>1, <1>5
  <2>3. i + 1 + 1 = j + 1 /\ i + 2 + 1 = j + 2 /\ i + 3 + 1 = j + 3
    BY <1>8
  <2> QED
    BY <2>2, <2>3, <1>6
<1>13. ASSUME h = i + 4 PROVE r[i + 4] = AfterOp(s)
  <2>1. i + 4 \in 1..h /\ i + 4 + 1 = j + 4
    BY <1>8, <1>13
  <2>2. r[i + 4] = a[i + 4 + 1]
    BY <2>1, <1>5
  <2> QED
    BY <2>1, <2>2, <1>6, <1>11, <1>13
<1>14. Owes(M) = Owes(L)
  BY <1>0 DEF Owes
<1>15. k + j = Owes(L) /\ m + i = Owes(M)
  <2>1. k + j = Owes(L)
    BY <1>6
  <2>2. k + j = m + i
    BY <1>4, <1>8
  <2> QED
    BY <2>1, <2>2, <1>14
<1>16. Left(M, r, s, i)
  BY <1>0, <1>2, <1>6, <1>10, <1>11, <1>12, <1>13, <1>15 DEF Left
<1>17. Remains(M, r, s)
  <2>1. i \in 0..Len(r)
    BY <1>2, <1>8, <1>11
  <2> QED
    BY <2>1, <1>16 DEF Remains
<1>18. L.kind = "sort" => m <= Len(L.got)
  <2>1. L.kind = "sort" => k + j = Len(L.got)
    BY <1>15 DEF Owes
  <2> QED
    BY <2>1, <1>4, <1>8
<1>19. L.kind = "reduce" => L.got # <<>> /\ m <= 1
  <2>1. L.kind = "reduce" => /\ L.got = <<>> => k + j = 0
                             /\ L.got # <<>> => k + j = 1
    BY <1>15 DEF Owes
  <2> QED
    BY <2>1, <1>4, <1>8
<1>20. o.s = s /\ o.d = L.got[m] /\ o.again = FALSE
  BY <1>9 DEF EmitOp
<1> QED
  BY <1>6, <1>17, <1>18, <1>19, <1>20 DEF Lessens

\* What is left after an emission pushes no element.
LEMMA EmittedDues ==
  ASSUME NEW s, NEW L, NEW a \in Seq(Ops), Emitted(L, a, s), NEW q
  PROVE  Dues(a, q, "start") = {}
<1>1. ASSUME NEW b \in Seq(Ops), AtAfter(b, s) PROVE Dues(b, q, "start") = {}
  BY <1>1, EndFacts DEF AtEnd
<1>2. CASE AtAfter(a, s)
  BY <1>1, <1>2
<1>3. CASE (Is(a, SeqNextOp(s)) \/ Is(a, TakeNextOp(s))) /\ AtAfter(Tail(a), s)
  <2>1. a # <<>> /\ Head(a) \in {SeqNextOp(s), TakeNextOp(s)}
    BY <1>3 DEF Is
  <2>2. Tail(a) \in Seq(Ops)
    BY <2>1, HeadTail
  <2>3. Dues(Tail(a), q, "start") = {}
    BY <1>1, <1>3, <2>2
  <2>4. Head(a).op \in {"seqNext", "takeNext"}
    BY <2>1 DEF SeqNextOp, TakeNextOp
  <2>5. Due(Head(a), q, "start") = {}
    BY <2>4, DueNone
  <2>6. Dues(a, q, "start") = Due(Head(a), q, "start") \union Dues(Tail(a), q, "start")
    BY <2>1, DuesCons
  <2> QED
    BY <2>3, <2>5, <2>6
<1>4. CASE Remains(L, a, s)
  <2>1. PICK j \in 0..Len(a) : Left(L, a, s, j)
    BY <1>4 DEF Remains
  <2>2. PICK l : l = Len(a)
    OBVIOUS
  <2>3. l \in {j + 3, j + 4} /\ j \in Nat
    BY <2>1, <2>2 DEF Left
  <2>4. ASSUME NEW i \in 1..l PROVE Due(a[i], q, "start") = {}
    <3>1. i \in 1..j \/ i = j + 1 \/ i = j + 2 \/ i = j + 3 \/ (i = j + 4 /\ l = j + 4)
      BY <2>3
    <3>2. ASSUME i \in 1..j PROVE a[i].op = "emit"
      <4>1. a[i] = EmitOp(s, L.got[Len(L.sent) + i], FALSE)
        BY <2>1, <3>2 DEF Left
      <4> QED
        BY <4>1 DEF EmitOp
    <3>3. i = j + 1 => a[i].op = "closeDst"
      BY <2>1 DEF Left, CloseDstOp
    <3>4. i = j + 2 => a[i].op = "closeRest"
      BY <2>1 DEF Left, CloseRestOp
    <3>5. i = j + 3 => a[i].op = "countDown"
      BY <2>1 DEF Left, CountDownOp
    <3>6. i = j + 4 /\ l = j + 4 => a[i].op = "after"
      BY <2>1, <2>2 DEF Left, AfterOp
    <3>7. a[i].op \in {"emit", "closeDst", "closeRest", "countDown", "after"}
      BY <3>1, <3>2, <3>3, <3>4, <3>5, <3>6
    <3>8. CASE a[i].op = "closeRest"
      BY <3>8, DueCloseRest
    <3>9. CASE a[i].op # "closeRest"
      BY <3>7, <3>9, DueNone
    <3> QED
      BY <3>8, <3>9
  <2> QED
    BY <2>2, <2>4 DEF Dues
<1> QED
  BY <1>2, <1>3, <1>4 DEF Emitted

\* Its close has not been passed on.
LEMMA RemainsCloses ==
  ASSUME NEW s, NEW L, NEW a \in Seq(Ops), Remains(L, a, s)
  PROVE  Closes(a, s)
<1>1. PICK j \in 0..Len(a) : Left(L, a, s, j)
  BY DEF Remains
<1>2. PICK l : l = Len(a)
  OBVIOUS
<1>3. l \in {j + 3, j + 4} /\ j \in Nat /\ a[j + 1] = CloseDstOp(s)
  BY <1>1, <1>2 DEF Left
<1>4. j + 1 \in 1..l
  BY <1>3
<1> QED
  BY <1>2, <1>3, <1>4 DEF Closes

\* A lambda that returns nil emits nothing.
Silent(L, s, x, o, r) ==
  /\ o.s = s /\ o.d = Nil /\ o.again = FALSE /\ Live(L.mode)
  /\ \A M : Turns(L, M, <<>> \o r) => Phase(M, s, x) /\ Passes(L, M, s, Streams)

LEMMA EmitNilLocal ==
  ASSUME NEW s \in Streams, NEW L, TypedLocal(L), NEW x, Phase(L, s, x),
         NEW o, NEW r, Splits(L.a, o, r), o.op = "emit", L.kind = "print"
  PROVE  Silent(L, s, x, o, r)
<1>1. Emitting(L, s, x)
  BY DEF Phase, Splits
<1>2. Live(L.mode) /\ x = 0 /\ Sums(L, 0, 0) /\ Head(L.a) = EmitOp(s, Nil, FALSE) /\ AtAfter(Tail(L.a), s)
  BY <1>1 DEF Emitting
<1>3. o.s = s /\ o.d = Nil /\ o.again = FALSE
  BY <1>2 DEF EmitOp, Splits
<1>4. ASSUME NEW M, Turns(L, M, <<>> \o r) PROVE Phase(M, s, x) /\ Passes(L, M, s, Streams)
  <2>1. Passes(L, M, s, Streams) /\ M.a = r
    BY <1>4, TurnsDone
  <2>2. AtAfter(M.a, s) /\ Sums(M, 0, 0) /\ Live(M.mode)
    BY <2>1, <1>2, <1>4, TurnsSame DEF Turns, Splits
  <2>3. Phase(M, s, 0)
    BY <2>2, AfterPhase DEF Live
  <2> QED
    BY <2>1, <2>3, <1>2
<1> QED
  BY <1>2, <1>3, <1>4 DEF Silent

\* What a stream emits, and for which of its elements.
Emission(L, s, m, o, r) ==
  /\ o.s = s /\ o.d \in Data /\ o.d # Nil
  /\ L.kind = "seq" => /\ o.again = TRUE /\ o.d = <<s, m>> /\ Live(L.mode)
                       /\ L.limit > 0 => Len(L.sent) < L.limit
  /\ L.kind # "seq" => /\ o.again = FALSE /\ L.kind \in {"map", "take", "sort", "reduce"}
                       /\ m \in 1..Len(L.got) /\ o.d = L.got[m]
                       /\ L.kind \in {"map", "take"} => Live(L.mode)
                       /\ L.kind \in {"sort", "reduce"} => L.mode = "killed"
                       /\ Len(L.sent) < Owes(L)
  /\ L.mode # "dying" /\ ~Gone(L, s)
  /\ Dues(r, L.rest, "start") = {} /\ r \in Seq(Ops)

LEMMA EmitFacts ==
  ASSUME NEW s \in Streams, NEW L, TypedLocal(L), Solid(L), NEW x, Phase(L, s, x),
         NEW o, NEW r, Splits(L.a, o, r), o.op = "emit", L.kind # "print",
         NEW m, m = Len(L.sent) + 1
  PROVE  Emission(L, s, m, o, r)
<1>1. Emitting(L, s, x)
  BY DEF Phase, Splits
<1>2. PICK k : k = Len(L.sent)
  OBVIOUS
<1>3. PICK g : g = Len(L.got)
  OBVIOUS
<1>4. k \in Nat /\ g \in Nat /\ m = k + 1 /\ m \in Nat \ {0} /\ r \in Seq(Ops) /\ L.limit \in Nat /\ L.got \in Seq(Data)
  <2>1. r \in Seq(Ops)
    BY SplitFacts
  <2>2. L.sent \in Seq(Data) /\ L.got \in Seq(Data) /\ L.limit \in Nat
    BY DEF TypedLocal
  <2>3. k \in Nat /\ g \in Nat
    BY <2>2, <1>2, <1>3
  <2>4. m = k + 1
    BY <1>2
  <2> QED
    BY <2>1, <2>2, <2>3, <2>4
<1>5. \A i \in 1..g : L.got[i] \in Data /\ L.got[i] # Nil
  BY <1>3, <1>4 DEF Solid
<1>6. ASSUME NEW d, NEW b, o = EmitOp(s, d, b) PROVE o.s = s /\ o.d = d /\ o.again = b
  BY <1>6 DEF EmitOp
<1>7. L.got = <<>> <=> g = 0
  BY <1>3, <1>4
<1>8. CASE L.kind = "seq"
  <2>1. Live(L.mode) /\ Emitted(L, r, s) /\ Sums(L, 1, 0) /\ o = EmitOp(s, <<s, Len(L.sent) + 1>>, TRUE)
    BY <1>1, <1>8 DEF Emitting, Splits
  <2>2. o = EmitOp(s, <<s, m>>, TRUE)
    BY <2>1
  <2>3. o.s = s /\ o.d = <<s, m>> /\ o.again = TRUE
    BY <2>2, <1>6
  <2>4. <<s, m>> \in Elements
    BY <1>4 DEF Elements
  <2>5. o.d \in Data /\ o.d # Nil
    BY <2>3, <2>4, NilAssumption DEF Data
  <2>6. L.limit > 0 => Len(L.sent) < L.limit
    <3>1. L.limit > 0 => Len(L.sent) + 1 <= L.limit
      BY <2>1, <1>8 DEF Sums
    <3>2. Len(L.sent) \in Nat
      BY <1>2, <1>4
    <3> QED
      BY <3>1, <3>2, <1>4
  <2>7. Dues(r, L.rest, "start") = {}
    BY <2>1, <1>4, EmittedDues
  <2>8. L.mode # "dying" /\ ~Gone(L, s)
    BY <2>1 DEF Live, Gone
  <2> QED
    BY <2>1, <2>3, <2>5, <2>6, <2>7, <2>8, <1>4, <1>8 DEF Emission
<1>9. CASE L.kind \in {"map", "take"}
  <2>1. Live(L.mode) /\ Emitted(L, r, s) /\ o = EmitOp(s, L.got[m], FALSE)
    BY <1>1, <1>9 DEF Emitting, Splits
  <2>2. \E z : Sums(L, 1, z)
    BY <1>1, <1>9 DEF Emitting
  <2>3. k + 1 = g
    BY <2>2, <1>2, <1>3, <1>9 DEF Sums
  <2>4. m \in 1..g /\ k < g
    BY <2>3, <1>4
  <2>5. o.s = s /\ o.d = L.got[m] /\ o.again = FALSE
    BY <2>1, <1>6
  <2>6. Dues(r, L.rest, "start") = {}
    BY <2>1, <1>4, EmittedDues
  <2>7. L.mode # "dying" /\ ~Gone(L, s)
    BY <2>1 DEF Live, Gone
  <2>8. Owes(L) = g
    BY <1>3, <1>9 DEF Owes
  <2> QED
    BY <2>1, <2>4, <2>5, <2>6, <2>7, <2>8, <1>2, <1>3, <1>4, <1>5, <1>9 DEF Emission
<1>10. CASE L.kind \in {"sort", "reduce"}
  <2>1. Closing(L) /\ Remains(L, L.a, s)
    BY <1>1, <1>10 DEF Emitting
  <2>2. PICK j \in 0..Len(L.a) : Left(L, L.a, s, j)
    BY <2>1 DEF Remains
  <2>3. L.a \in Seq(Ops) /\ L.a # <<>> /\ o = L.a[1]
    BY HeadTail DEF Splits
  <2>4. j # 0
    <3> SUFFICES ASSUME j = 0 PROVE FALSE
      OBVIOUS
    <3>1. L.a[0 + 1] = CloseDstOp(s)
      BY <2>2 DEF Left
    <3>2. o = CloseDstOp(s)
      BY <3>1, <2>3
    <3> QED
      BY <3>2 DEF CloseDstOp
  <2>5. j \in Nat /\ j # 0
    BY <2>3, <2>4
  <2>6. PICK M : M = [kind |-> L.kind, got |-> L.got, sent |-> Append(L.sent, Nil)]
    OBVIOUS
  <2>7. M.kind = L.kind /\ M.got = L.got /\ Len(M.sent) = m
    <3>1. Nil \in Data /\ L.sent \in Seq(Data)
      BY DEF Data, TypedLocal
    <3> QED
      BY <3>1, <2>6
  <2>15. Later(L, M, m)
    BY <2>7 DEF Later
  <2>8. /\ Remains(M, r, s) /\ o.s = s /\ o.d = L.got[m] /\ o.again = FALSE
        /\ L.kind = "sort" => m <= Len(L.got)
        /\ L.kind = "reduce" => L.got # <<>> /\ m <= 1
    <3>1. TypedLocal(L) /\ Splits(L.a, o, r) /\ Left(L, L.a, s, j) /\ Later(L, M, m)
      BY <2>2, <2>15
    <3>2. Lessens(L, M, r, o, s, m)
      BY <3>1, <2>5, LeftNext
    <3> QED
      BY <3>2 DEF Lessens
  <2>9. m \in 1..g
    BY <2>8, <1>3, <1>4, <1>7, <1>10
  <2>11. Emitted(M, r, s)
    BY <2>7, <2>8, <1>10 DEF Emitted
  <2>12. Dues(r, L.rest, "start") = {}
    BY <2>11, <1>4, EmittedDues
  <2>13. L.mode = "killed" /\ ~Gone(L, s)
    <3>1. Closes(L.a, s)
      BY <2>1, <2>3, RemainsCloses
    <3> QED
      BY <3>1, <2>1 DEF Closing, Gone
  <2>14. k < Owes(L)
    <3>1. L.kind = "sort" => Owes(L) = g
      BY <1>3 DEF Owes
    <3>2. L.kind = "reduce" => Owes(L) = 1
      BY <2>8 DEF Owes
    <3> QED
      BY <3>1, <3>2, <2>8, <2>9, <1>4, <1>10
  <2> QED
    BY <2>8, <2>9, <2>12, <2>13, <2>14, <1>2, <1>3, <1>4, <1>5, <1>10 DEF Emission
<1> QED
  BY <1>1, <1>8, <1>9, <1>10 DEF Emitting

\* L emits d, and everything but its agenda stays as it was.
Emits(L, M, a, d) ==
  /\ M.a = a /\ M.kind = L.kind /\ M.limit = L.limit /\ M.n = L.n /\ M.mode = L.mode /\ M.dst = L.dst
  /\ M.rest = L.rest /\ M.ref = L.ref /\ M.sent = Append(L.sent, d) /\ M.got = L.got

LEMMA EmitsSent ==
  ASSUME NEW L, TypedLocal(L), NEW d \in Data, NEW M, NEW a, Emits(L, M, a, d)
  PROVE  /\ M.sent \in Seq(Data) /\ M.sent # <<>> /\ Latest(M.sent) = d /\ Len(M.sent) = Len(L.sent) + 1
         /\ Len(L.sent) \in Nat /\ Len(M.sent) \in Nat
<1>1. L.sent \in Seq(Data) /\ M.sent = Append(L.sent, d)
  BY DEF TypedLocal, Emits
<1>2. M.sent \in Seq(Data) /\ Len(M.sent) = Len(L.sent) + 1 /\ Len(L.sent) \in Nat /\ Len(M.sent) \in Nat
  BY <1>1
<1>3. M.sent[Len(L.sent) + 1] = d
  BY <1>1
<1>4. Latest(M.sent) = M.sent[Len(M.sent)]
  BY DEF Latest
<1>5. Latest(M.sent) = d
  BY <1>2, <1>3, <1>4
<1>6. M.sent # <<>>
  <2> SUFFICES ASSUME M.sent = <<>> PROVE FALSE
    OBVIOUS
  <2>1. Len(M.sent) = 0
    OBVIOUS
  <2> QED
    BY <2>1, <1>2
<1> QED
  BY <1>2, <1>5, <1>6

\* The sums agree again.
LEMMA EmitsSums ==
  ASSUME NEW L, TypedLocal(L), NEW d \in Data, NEW M, NEW a, Emits(L, M, a, d)
  PROVE  /\ L.kind = "seq" /\ Sums(L, 1, 0) => Sums(M, 0, 1)
         /\ L.kind = "map" /\ Sums(L, 1, 0) => Sums(M, 0, 0)
         /\ L.kind = "take" /\ Sums(L, 1, 1) => Sums(M, 0, 1)
<1>1. PICK k : k = Len(L.sent)
  OBVIOUS
<1>2. PICK l : l = Len(M.sent)
  OBVIOUS
<1>3. l = k + 1 /\ k \in Nat
  BY <1>1, <1>2, EmitsSent
<1>4. M.kind = L.kind /\ M.limit = L.limit /\ M.n = L.n /\ M.got = L.got
  BY DEF Emits
<1>5. L.n \in Int /\ L.limit \in Nat /\ Len(L.got) \in Nat
  BY DEF TypedLocal
<1>6. ASSUME L.kind = "seq", Sums(L, 1, 0) PROVE Sums(M, 0, 1)
  <2>1. L.n = k + 1 - 0 /\ (L.limit > 0 => k + 1 <= L.limit)
    BY <1>1, <1>6 DEF Sums
  <2>2. M.n = l + 1 - 1 /\ (M.limit > 0 => l + 0 <= M.limit)
    BY <2>1, <1>3, <1>4
  <2> QED
    BY <2>2, <1>2, <1>4, <1>6 DEF Sums
<1>7. ASSUME L.kind \in {"map", "take"}, NEW z, Sums(L, 1, z) PROVE Sums(M, 0, z)
  <2>1. k + 1 = Len(L.got) /\ (L.kind = "take" => L.n = L.limit - Len(L.got) + z)
    BY <1>1, <1>7 DEF Sums
  <2>2. l + 0 = Len(M.got) /\ (M.kind = "take" => M.n = M.limit - Len(M.got) + z)
    BY <2>1, <1>3, <1>4
  <2> QED
    BY <2>2, <1>2, <1>4, <1>7 DEF Sums
<1> QED
  BY <1>6, <1>7

\* What follows the emission has been reached.
LEMMA EmitsNext ==
  ASSUME NEW s \in Streams, NEW L, TypedLocal(L), Solid(L), NEW x, Phase(L, s, x),
         NEW o, NEW r, Splits(L.a, o, r), o.op = "emit", L.kind # "print",
         NEW M, NEW a, Emits(L, M, a, o.d)
  PROVE  Emitted(M, r, s) /\ Spreading(M, x)
<1>1. Emitting(L, s, x)
  BY DEF Phase, Splits
<1>2. PICK m : m = Len(L.sent) + 1
  OBVIOUS
<1>3. o.d \in Data
  <2>1. Emission(L, s, m, o, r)
    BY <1>2, EmitFacts
  <2> QED
    BY <2>1 DEF Emission
<1>4. M.sent # <<>> /\ Len(M.sent) = m /\ M.kind = L.kind /\ M.got = L.got /\ M.mode = L.mode
  BY <1>2, <1>3, EmitsSent DEF Emits
<1>5. CASE L.kind \in {"seq", "map", "take"}
  <2>1. Live(L.mode) /\ x = 0 /\ Emitted(L, r, s)
    BY <1>1, <1>5 DEF Emitting, Splits
  <2>2. /\ L.kind = "seq" => Sums(L, 1, 0)
        /\ L.kind = "map" => Sums(L, 1, 0)
        /\ L.kind = "take" => Sums(L, 1, 1)
    BY <1>1, <1>5 DEF Emitting
  <2>3. /\ L.kind = "seq" => Sums(M, 0, 1)
        /\ L.kind = "map" => Sums(M, 0, 0)
        /\ L.kind = "take" => Sums(M, 0, 1)
    BY <2>2, <1>3, EmitsSums
  <2>4. Emitted(M, r, s)
    BY <2>1, <1>4, <1>5 DEF Emitted
  <2>5. Spreading(M, x)
    BY <2>1, <2>3, <1>4, <1>5 DEF Spreading
  <2> QED
    BY <2>4, <2>5
<1>6. CASE L.kind \in {"sort", "reduce"}
  <2>1. Closing(L) /\ Remains(L, L.a, s)
    BY <1>1, <1>6 DEF Emitting
  <2>2. PICK j \in 0..Len(L.a) : Left(L, L.a, s, j)
    BY <2>1 DEF Remains
  <2>3. L.a \in Seq(Ops) /\ L.a # <<>> /\ o = L.a[1]
    BY HeadTail DEF Splits
  <2>4. j # 0
    <3> SUFFICES ASSUME j = 0 PROVE FALSE
      OBVIOUS
    <3>1. L.a[0 + 1] = CloseDstOp(s)
      BY <2>2 DEF Left
    <3>2. o = CloseDstOp(s)
      BY <3>1, <2>3
    <3> QED
      BY <3>2 DEF CloseDstOp
  <2>5. j \in Nat /\ j # 0
    BY <2>3, <2>4
  <2>6. Later(L, M, m)
    BY <1>2, <1>4 DEF Later
  <2>7. Lessens(L, M, r, o, s, m)
    BY <2>2, <2>5, <2>6, LeftNext
  <2>8. Remains(M, r, s)
    BY <2>7 DEF Lessens
  <2>9. Emitted(M, r, s)
    BY <2>8, <1>4, <1>6 DEF Emitted
  <2>10. Spreading(M, x)
    BY <2>1, <1>4, <1>6 DEF Spreading, Closing
  <2> QED
    BY <2>9, <2>10
<1> QED
  BY <1>1, <1>5, <1>6 DEF Emitting

\* What has been emitted is due to every stream s is joined to.
LEMMA EmitDataLocal ==
  ASSUME NEW s \in Streams, NEW L, TypedLocal(L), Solid(L), NEW x, Phase(L, s, x),
         NEW o, NEW r, Splits(L.a, o, r), o.op = "emit", L.kind # "print", NEW p,
         L.dst = NoStream => p = <<>> \o <<EmitRestOp(o.s, o.d, 1), CheckOp(o.s, o.again)>>,
         L.dst # NoStream => p = <<PushOp(L.dst, "start", o.d), DropDstOp(o.s)>>
                                 \o <<EmitRestOp(o.s, o.d, 1), CheckOp(o.s, o.again)>>,
         NEW M, Emits(L, M, p \o r, o.d)
  PROVE  /\ Phase(M, s, x) /\ ~Gone(M, s) /\ OwnCloses(p, s) /\ p \in Seq(Ops)
         /\ Dues(L.a, L.rest, "start") = {} 
         /\ \A t \in Streams : t \in Dues(M.a, M.rest, "start") <=> t = L.dst \/ InSeq(t, L.rest)
<1>1. PICK m : m = Len(L.sent) + 1
  OBVIOUS
<1>2. /\ o.s = s /\ o.d \in Data /\ o.d # Nil /\ r \in Seq(Ops)
      /\ (L.kind = "seq" => o.again = TRUE) /\ (L.kind # "seq" => o.again = FALSE)
      /\ Dues(r, L.rest, "start") = {} /\ ~Gone(L, s)
  <2>1. Emission(L, s, m, o, r)
    BY <1>1, EmitFacts
  <2> QED
    BY <2>1 DEF Emission
<1>3. Emitted(M, r, s) /\ Spreading(M, x)
  BY EmitsNext
<1>4. /\ M.sent # <<>> /\ Latest(M.sent) = o.d
  BY <1>2, EmitsSent
<1>5. /\ M.a = p \o r /\ M.kind = L.kind /\ M.got = L.got /\ M.mode = L.mode /\ M.rest = L.rest /\ M.dst = L.dst
  BY DEF Emits
<1>6. L.rest \in Seq(Streams) /\ L.dst \in Streams \union {NoStream} /\ Len(L.rest) \in Nat
  BY DEF TypedLocal
<1>7. PICK e : e = EmitRestOp(s, o.d, 1)
  OBVIOUS
<1>8. PICK c : c = CheckOp(s, o.again)
  OBVIOUS
<1>9. /\ e \in Ops /\ e.op = "emitRest" /\ e.i = 1
      /\ c \in Ops /\ c.op = "check"
  <2>1. o.again \in BOOLEAN
    BY <1>2
  <2>2. e \in Ops /\ c \in Ops
    BY <2>1, <1>2, <1>7, <1>8, OpTypes
  <2>3. e.op = "emitRest" /\ e.i = 1 /\ c.op = "check"
    BY <1>7, <1>8 DEF EmitRestOp, CheckOp
  <2> QED
    BY <2>2, <2>3
<1>10. PICK h : h = <<c>> \o r
  OBVIOUS
<1>11. PICK g : g = <<e>> \o h
  OBVIOUS
<1>12. h \in Seq(Ops) /\ h # <<>> /\ Head(h) = c /\ Tail(h) = r
  BY <1>2, <1>9, <1>10, Front1
<1>13. g \in Seq(Ops) /\ g # <<>> /\ Head(g) = e /\ Tail(g) = h
  BY <1>9, <1>11, <1>12, Front1
<1>14. AtRest(M, g, s, 1)
  <2>1. AtCheck(M, h, s)
    BY <1>2, <1>3, <1>5, <1>8, <1>12 DEF AtCheck, Is
  <2> QED
    BY <2>1, <1>4, <1>7, <1>13 DEF AtRest, Is
<1>15. <<e, c>> \in Seq(Ops) /\ <<e, c>> \o r = g
  <2>1. <<e, c>> \o r = <<e>> \o (<<c>> \o r)
    BY <1>2, <1>9, Front2
  <2> QED
    BY <2>1, <1>9, <1>10, <1>11, ShortAgendas
<1>16. ~Closes(<<e, c>>, s) /\ OwnCloses(<<e, c>>, s)
  <2>1. e # CloseDstOp(s) /\ c # CloseDstOp(s)
    BY <1>9 DEF CloseDstOp
  <2> QED
    BY <2>1, <1>9, ShortFacts
<1>17. \A t : t \in Dues(g, L.rest, "start") <=> InSeq(t, L.rest)
  <2>1. Dues(g, L.rest, "start") = Due(e, L.rest, "start") \union Dues(h, L.rest, "start")
    BY <1>13, DuesCons
  <2>2. Dues(h, L.rest, "start") = Due(c, L.rest, "start") \union Dues(r, L.rest, "start")
    BY <1>12, DuesCons
  <2>3. Due(c, L.rest, "start") = {}
    BY <1>9, DueNone
  <2>4. Due(e, L.rest, "start") = {L.rest[j] : j \in 1..Len(L.rest)}
    BY <1>9, DueEmitRest
  <2>5. Dues(g, L.rest, "start") = {L.rest[j] : j \in 1..Len(L.rest)}
    BY <2>1, <2>2, <2>3, <2>4, <1>2
  <2> QED
    BY <2>5 DEF InSeq
<1>18. Dues(L.a, L.rest, "start") = {}
  <2>1. Dues(L.a, L.rest, "start") = Due(o, L.rest, "start") \union Dues(r, L.rest, "start")
    BY SplitFacts
  <2> QED
    BY <2>1, <1>2, DueNone
<1>19. ~Gone(M, s)
  <2>1. CASE Live(M.mode)
    BY <2>1 DEF Gone, Live
  <2>2. CASE ~Live(M.mode)
    <3>1. M.kind \in {"sort", "reduce"}
      BY <2>2, <1>3 DEF Spreading
    <3>2. Remains(M, r, s)
      BY <3>1, <1>3 DEF Emitted
    <3>3. Closes(r, s)
      BY <3>2, <1>2, RemainsCloses
    <3>4. Closes(M.a, s) <=> Closes(p, s) \/ Closes(r, s)
      <4>1. p \in Seq(Ops)
        <5>1. CASE L.dst = NoStream
          <6>1. p = <<e, c>>
            BY <5>1, <1>2, <1>7, <1>8, <1>15, Front0
          <6> QED
            BY <6>1, <1>15
        <5>2. CASE L.dst # NoStream
          <6>1. p = <<PushOp(L.dst, "start", o.d), DropDstOp(s)>> \o <<e, c>>
            BY <5>2, <1>2, <1>7, <1>8
          <6>2. PushOp(L.dst, "start", o.d) \in Ops /\ DropDstOp(s) \in Ops
            BY <5>2, <1>2, <1>6, OpTypes DEF Funcs
          <6>3. <<PushOp(L.dst, "start", o.d), DropDstOp(s)>> \in Seq(Ops)
            BY <6>2, ShortAgendas
          <6> QED
            BY <6>1, <6>3, <1>15, ConcatFacts
        <5> QED
          BY <5>1, <5>2
      <4> QED
        BY <4>1, <1>2, <1>5, ClosesConcat
    <3> QED
      BY <3>3, <3>4 DEF Gone
  <2> QED
    BY <2>1, <2>2
<1>20. CASE L.dst = NoStream
  <2>1. p = <<e, c>> /\ p \in Seq(Ops)
    BY <1>20, <1>2, <1>7, <1>8, <1>15, Front0
  <2>2. M.a = g
    BY <2>1, <1>5, <1>15
  <2>3. M.a # <<>> /\ Head(M.a).op = "emitRest" /\ 1 \in 1..(Len(M.rest) + 1)
    BY <2>2, <1>5, <1>6, <1>9, <1>13
  <2>4. Phase(M, s, x)
    BY <2>2, <2>3, <1>3, <1>14 DEF Phase
  <2>5. \A t \in Streams : t # L.dst
    BY <1>20, NullAssumption
  <2>6. OwnCloses(p, s)
    BY <2>1, <1>16
  <2> QED
    BY <2>1, <2>2, <2>4, <2>5, <2>6, <1>5, <1>17, <1>18, <1>19
<1>21. CASE L.dst # NoStream
  <2>1. PICK b : b = PushOp(L.dst, "start", o.d)
    OBVIOUS
  <2>2. PICK f : f = DropDstOp(s)
    OBVIOUS
  <2>3. /\ b \in Ops /\ b.op = "push" /\ b.s = L.dst /\ b.f = "start" /\ b.d = o.d
        /\ f \in Ops /\ f.op = "dropDst"
    <3>1. b \in Ops /\ f \in Ops
      BY <2>1, <2>2, <1>2, <1>6, <1>21, OpTypes DEF Funcs
    <3> QED
      BY <3>1, <2>1, <2>2 DEF PushOp, DropDstOp
  <2>4. p = <<b, f>> \o <<e, c>>
    BY <2>1, <2>2, <1>2, <1>7, <1>8, <1>21
  <2>5. <<b, f>> \in Seq(Ops)
    BY <2>3, ShortAgendas
  <2>6. p \in Seq(Ops)
    BY <2>4, <2>5, <1>15, ConcatFacts
  <2>7. M.a = <<b, f>> \o g
    <3>1. (<<b, f>> \o <<e, c>>) \o r = <<b, f>> \o (<<e, c>> \o r)
      BY <2>5, <1>2, <1>15
    <3> QED
      BY <3>1, <2>4, <1>5, <1>15
  <2>8. PICK v : v = <<f>> \o g
    OBVIOUS
  <2>9. v \in Seq(Ops) /\ v # <<>> /\ Head(v) = f /\ Tail(v) = g
    BY <2>3, <2>8, <1>13, Front1
  <2>10. M.a = <<b>> \o v
    BY <2>3, <2>7, <2>8, <1>13, Front2
  <2>11. M.a \in Seq(Ops) /\ M.a # <<>> /\ Head(M.a) = b /\ Tail(M.a) = v
    BY <2>3, <2>9, <2>10, Front1
  <2>12. AtDrop(M, v, s)
    BY <2>2, <2>9, <1>14 DEF AtDrop, Is
  <2>13. Following(M, s, x, b.s, b.f, b.d, Tail(M.a))
    BY <2>3, <2>11, <2>12, <1>3, <1>4, <1>5, <1>21 DEF Following
  <2>14. Phase(M, s, x)
    BY <2>3, <2>11, <2>13 DEF Phase
  <2>15. OwnCloses(p, s)
    <3>1. OwnCloses(<<b, f>>, s)
      BY <2>3, ShortFacts
    <3>2. /\ \A i \in 1..Len(<<b, f>>) : p[i] = <<b, f>>[i]
          /\ \A i \in 1..Len(<<e, c>>) : p[Len(<<b, f>>) + i] = <<e, c>>[i]
          /\ Len(p) = Len(<<b, f>>) + Len(<<e, c>>)
          /\ \A i \in 1..(Len(<<b, f>>) + Len(<<e, c>>)) :
              i \in 1..Len(<<b, f>>) \/ \E j \in 1..Len(<<e, c>>) : i = Len(<<b, f>>) + j
      BY <2>4, <2>5, <1>15, ConcatFacts
    <3> QED
      BY <3>1, <3>2, <1>16 DEF OwnCloses
  <2>16. \A t : t \in Dues(M.a, L.rest, "start") <=> t = L.dst \/ InSeq(t, L.rest)
    <3>1. Dues(M.a, L.rest, "start") = Due(b, L.rest, "start") \union Dues(v, L.rest, "start")
      BY <2>11, DuesCons
    <3>2. Dues(v, L.rest, "start") = Due(f, L.rest, "start") \union Dues(g, L.rest, "start")
      BY <2>9, DuesCons
    <3>3. Due(f, L.rest, "start") = {}
      BY <2>3, DueNone
    <3>4. Due(b, L.rest, "start") = {L.dst}
      BY <2>3, <1>2, DuePush
    <3> QED
      BY <3>1, <3>2, <3>3, <3>4, <1>17
  <2> QED
    BY <2>6, <2>14, <2>15, <2>16, <1>5, <1>18, <1>19
<1> QED
  BY <1>20, <1>21

-----------------------------------------------------------------------------
(* A worker takes a task of s.                                             *)

\* s starts to execute a, having got g.
Takes(L, M, a, g) ==
  /\ M.a = a /\ M.kind = L.kind /\ M.limit = L.limit /\ M.n = L.n /\ M.mode = L.mode /\ M.dst = L.dst
  /\ M.rest = L.rest /\ M.ref = L.ref /\ M.sent = L.sent /\ M.got = g

\* It pushes nothing at first.
Calm(a, s) == (\A q, f : Dues(a, q, f) = {}) /\ OwnCloses(a, s)

LEMMA CalmSteps ==
  ASSUME NEW s, NEW a \in Seq(Ops),
         \A i \in 1..Len(a) : a[i].op \in {"emit", "close", "seqNext", "takeNext", "after"}
  PROVE  Calm(a, s)
<1>1. ASSUME NEW q, NEW f PROVE Dues(a, q, f) = {}
  <2>1. \A i \in 1..Len(a) : Due(a[i], q, f) = {}
    BY DueNone
  <2> QED
    BY <2>1 DEF Dues
<1>2. OwnCloses(a, s)
  BY DEF OwnCloses
<1> QED
  BY <1>1, <1>2 DEF Calm

\* Between two tasks.
LEMMA WaitingFacts ==
  ASSUME NEW s, NEW L, NEW x, Phase(L, s, x), L.a = <<>>
  PROVE  x = 0 /\ L.mode # "dying" /\ (Live(L.mode) => Sums(L, 0, 0))
BY DEF Phase

\* One or two steps, and the end of the execution.
LEMMA CallOne ==
  ASSUME NEW s \in Streams, NEW b \in Ops, b.op \in {"emit", "close", "seqNext", "takeNext"},
         NEW a, a = <<b>> \o <<AfterOp(s)>>
  PROVE  a # <<>> /\ Head(a) = b /\ AtAfter(Tail(a), s) /\ Calm(a, s)
<1>1. PICK c : c = AfterOp(s)
  OBVIOUS
<1>2. c \in Ops /\ c.op = "after"
  <2>1. c \in Ops
    BY <1>1, OpTypes
  <2> QED
    BY <2>1, <1>1 DEF AfterOp
<1>3. PICK r : r = <<c>>
  OBVIOUS
<1>4. r \in Seq(Ops) /\ r # <<>> /\ Head(r) = c /\ Tail(r) = <<>> /\ Len(r) = 1 /\ r[1] = c
  BY <1>2, <1>3
<1>5. a = <<b>> \o r
  BY <1>1, <1>3
<1>6. a # <<>> /\ Head(a) = b /\ Tail(a) = r /\ a \in Seq(Ops)
  BY <1>4, <1>5, Front1
<1>7. AtAfter(Tail(a), s)
  BY <1>1, <1>4, <1>6 DEF AtAfter, Is
<1>8. Calm(a, s)
  <2>1. Len(a) = 2 /\ a[1] = b /\ a[2] = c
    BY <1>3, <1>5
  <2>2. PICK l : l = Len(a)
    OBVIOUS
  <2>3. ASSUME NEW i \in 1..l PROVE a[i].op \in {"emit", "close", "seqNext", "takeNext", "after"}
    <3>1. i = 1 \/ i = 2
      BY <2>1, <2>2
    <3> QED
      BY <3>1, <2>1, <1>2
  <2> QED
    BY <2>2, <2>3, <1>6, CalmSteps
<1> QED
  BY <1>6, <1>7, <1>8

LEMMA CallTwo ==
  ASSUME NEW s \in Streams, NEW b \in Ops, NEW d \in Ops, b.op \in {"emit", "close", "seqNext", "takeNext"},
         d.op \in {"emit", "close", "seqNext", "takeNext"}, NEW a, a = <<b, d>> \o <<AfterOp(s)>>
  PROVE  a # <<>> /\ Head(a) = b /\ Is(Tail(a), d) /\ AtAfter(Tail(Tail(a)), s) /\ Calm(a, s)
<1>1. PICK c : c = AfterOp(s)
  OBVIOUS
<1>2. c \in Ops /\ c.op = "after"
  <2>1. c \in Ops
    BY <1>1, OpTypes
  <2> QED
    BY <2>1, <1>1 DEF AfterOp
<1>3. PICK r : r = <<d>> \o <<c>>
  OBVIOUS
<1>4. r \in Seq(Ops) /\ r # <<>> /\ Head(r) = d /\ Tail(r) = <<c>>
  <2>1. <<c>> \in Seq(Ops)
    BY <1>2
  <2> QED
    BY <2>1, <1>3, Front1
<1>5. a = <<b>> \o r
  <2>1. <<c>> \in Seq(Ops)
    BY <1>2
  <2> QED
    BY <2>1, <1>1, <1>3, Front2, ZenonT(40)
<1>6. a # <<>> /\ Head(a) = b /\ Tail(a) = r /\ a \in Seq(Ops)
  BY <1>4, <1>5, Front1, SMTT(30)
<1>7. Is(Tail(a), d) /\ AtAfter(Tail(Tail(a)), s)
  <2>1. <<c>> # <<>> /\ Head(<<c>>) = c /\ Tail(<<c>>) = <<>>
    BY <1>2
  <2> QED
    BY <2>1, <1>1, <1>4, <1>6 DEF AtAfter, Is
<1>8. Calm(a, s)
  <2>1. Len(a) = 3 /\ a[1] = b /\ a[2] = d /\ a[3] = c
    BY <1>1
  <2>2. PICK l : l = Len(a)
    OBVIOUS
  <2>3. ASSUME NEW i \in 1..l PROVE a[i].op \in {"emit", "close", "seqNext", "takeNext", "after"}
    <3>1. i = 1 \/ i = 2 \/ i = 3
      BY <2>1, <2>2
    <3> QED
      BY <3>1, <2>1, <1>2
  <2> QED
    BY <2>2, <2>3, <1>6, CalmSteps
<1> QED
  BY <1>6, <1>7, <1>8

\* The close of an upstream.
LEMMA TakeCloseLocal ==
  ASSUME NEW s \in Streams, NEW L, TypedLocal(L), NEW x, Phase(L, s, x), L.a = <<>>, Live(L.mode), L.kind # "seq",
         NEW M, Takes(L, M, <<CloseOp(s)>> \o <<AfterOp(s)>>, L.got)
  PROVE  Phase(M, s, 1) /\ x = 0 /\ Calm(M.a, s)
<1>1. x = 0 /\ Sums(L, 0, 0)
  BY WaitingFacts
<1>2. PICK b : b = CloseOp(s)
  OBVIOUS
<1>3. b \in Ops /\ b.op = "close"
  <2>1. b \in Ops
    BY <1>2, OpTypes
  <2> QED
    BY <2>1, <1>2 DEF CloseOp
<1>4. M.a = <<b>> \o <<AfterOp(s)>>
  BY <1>2 DEF Takes
<1>5. M.a # <<>> /\ Head(M.a) = b /\ AtAfter(Tail(M.a), s) /\ Calm(M.a, s)
  BY <1>3, <1>4, CallOne
<1>6. SameWork(L, M) /\ M.mode = L.mode
  BY DEF Takes, SameWork
<1>7. Sums(M, 0, 0)
  BY <1>1, <1>6, WorkSame
<1>8. Stopped(M, 1, 1)
  BY <1>6 DEF Stopped, SameWork
<1>9. Stopping(M, s, 1)
  BY <1>2, <1>5, <1>7, <1>8 DEF Stopping, AtEnd
<1> QED
  BY <1>1, <1>3, <1>5, <1>9 DEF Phase

\* A producer is asked for its next element.
LEMMA TakeNilLocal ==
  ASSUME NEW s \in Streams, NEW L, TypedLocal(L), NEW x, Phase(L, s, x), L.a = <<>>, Live(L.mode), L.kind = "seq",
         NEW p, L.limit > 0 /\ L.n > L.limit => p = <<CloseOp(s)>>,
         ~(L.limit > 0 /\ L.n > L.limit) => p = <<EmitOp(s, <<s, L.n>>, TRUE), SeqNextOp(s)>>,
         NEW M, Takes(L, M, p \o <<AfterOp(s)>>, L.got)
  PROVE  Phase(M, s, 0) /\ x = 0 /\ Calm(M.a, s)
<1>1. x = 0 /\ Sums(L, 0, 0)
  BY WaitingFacts
<1>2. PICK k : k = Len(L.sent)
  OBVIOUS
<1>3. k \in Nat /\ L.limit \in Nat /\ L.n = k + 1 /\ (L.limit > 0 => k <= L.limit)
  <2>1. k \in Nat /\ L.limit \in Nat
    BY <1>2 DEF TypedLocal
  <2>2. L.n = k + 1 - 0 /\ (L.limit > 0 => k + 0 <= L.limit)
    BY <1>1, <1>2 DEF Sums
  <2> QED
    BY <2>1, <2>2
<1>4. SameWork(L, M) /\ M.mode = L.mode /\ M.kind = "seq" /\ M.limit = L.limit /\ M.sent = L.sent /\ M.n = L.n
  BY DEF Takes, SameWork
<1>5. CASE L.limit > 0 /\ L.n > L.limit
  <2>1. PICK b : b = CloseOp(s)
    OBVIOUS
  <2>2. b \in Ops /\ b.op = "close"
    <3>1. b \in Ops
      BY <2>1, OpTypes
    <3> QED
      BY <3>1, <2>1 DEF CloseOp
  <2>3. M.a = <<b>> \o <<AfterOp(s)>>
    BY <2>1, <1>5 DEF Takes
  <2>4. M.a # <<>> /\ Head(M.a) = b /\ AtAfter(Tail(M.a), s) /\ Calm(M.a, s)
    BY <2>2, <2>3, CallOne
  <2>5. Sums(M, 0, 0)
    BY <1>1, <1>4, WorkSame
  <2>6. k = L.limit
    BY <1>3, <1>5
  <2>7. Stopped(M, 0, 1)
    <3>1. Live(M.mode)
      BY <1>4
    <3>2. M.limit > 0 /\ Len(M.sent) = M.limit /\ M.kind = "seq"
      BY <2>6, <1>2, <1>4, <1>5
    <3>3. 0 = 1 - 1
      OBVIOUS
    <3> QED
      BY <3>1, <3>2, <3>3 DEF Stopped
  <2>8. Stopping(M, s, 0)
    BY <2>1, <2>4, <2>5, <2>7 DEF Stopping, AtEnd
  <2> QED
    BY <2>2, <2>4, <2>8, <1>1 DEF Phase
<1>6. CASE ~(L.limit > 0 /\ L.n > L.limit)
  <2>1. PICK b : b = EmitOp(s, <<s, L.n>>, TRUE)
    OBVIOUS
  <2>2. PICK c : c = SeqNextOp(s)
    OBVIOUS
  <2>3. b \in Ops /\ b.op = "emit"
    <3>1. <<s, L.n>> \in Data
      BY <1>3 DEF Data, Elements
    <3>2. b \in Ops
      BY <3>1, <2>1, OpTypes
    <3> QED
      BY <3>2, <2>1 DEF EmitOp
  <2>4. c \in Ops /\ c.op = "seqNext"
    <3>1. c \in Ops
      BY <2>2, OpTypes
    <3> QED
      BY <3>1, <2>2 DEF SeqNextOp
  <2>5. M.a = <<b, c>> \o <<AfterOp(s)>>
    BY <2>1, <2>2, <1>6 DEF Takes
  <2>6. M.a # <<>> /\ Head(M.a) = b /\ Is(Tail(M.a), c) /\ AtAfter(Tail(Tail(M.a)), s) /\ Calm(M.a, s)
    BY <2>3, <2>4, <2>5, CallTwo
  <2>7. b = EmitOp(s, <<s, Len(M.sent) + 1>>, TRUE)
    BY <2>1, <1>2, <1>3, <1>4
  <2>8. Sums(M, 1, 0)
    <3>1. M.n = k + 1 - 0 /\ (M.limit > 0 => k + 1 <= M.limit)
      BY <1>3, <1>4, <1>6
    <3> QED
      BY <3>1, <1>2, <1>4 DEF Sums
  <2>9. Emitting(M, s, 0)
    BY <2>2, <2>6, <2>7, <2>8, <1>4 DEF Emitting, Emitted
  <2> QED
    BY <2>3, <2>6, <2>9, <1>1 DEF Phase
<1> QED
  BY <1>5, <1>6

\* An element.
LEMMA TakeDataLocal ==
  ASSUME NEW s \in Streams, NEW L, TypedLocal(L), NEW x, Phase(L, s, x), L.a = <<>>, Live(L.mode), L.kind # "seq",
         NEW d \in Data, NEW p,
         L.kind = "map" => p = <<EmitOp(s, d, FALSE)>>,
         L.kind = "print" => p = <<EmitOp(s, Nil, FALSE)>>,
         L.kind = "take" => p = <<EmitOp(s, d, FALSE), TakeNextOp(s)>>,
         L.kind \in {"sort", "reduce", "sink"} => p = <<>>,
         NEW M, Takes(L, M, p \o <<AfterOp(s)>>, Append(L.got, d))
  PROVE  Phase(M, s, 0) /\ x = 0 /\ Calm(M.a, s)
<1>1. x = 0 /\ Sums(L, 0, 0)
  BY WaitingFacts
<1>2. PICK k : k = Len(L.sent)
  OBVIOUS
<1>3. PICK g : g = Len(L.got)
  OBVIOUS
<1>4. k \in Nat /\ g \in Nat /\ L.n \in Int /\ L.limit \in Nat
  BY <1>2, <1>3 DEF TypedLocal
<1>5. /\ M.kind = L.kind /\ M.mode = L.mode /\ M.limit = L.limit /\ M.sent = L.sent /\ M.n = L.n
      /\ M.a = p \o <<AfterOp(s)>>
  BY DEF Takes
<1>6. Len(M.got) = g + 1 /\ M.got[g + 1] = d
  <2>1. L.got \in Seq(Data) /\ M.got = Append(L.got, d)
    BY DEF TypedLocal, Takes
  <2> QED
    BY <2>1, <1>3
<1>7. L.kind \in Kinds
  BY DEF TypedLocal
<1>8. /\ L.kind \in {"map", "take"} => k = g
      /\ L.kind = "take" => L.n = L.limit - g
      /\ L.kind \in {"sort", "reduce", "sink", "print"} => L.sent = <<>>
  <2>1. /\ L.kind \in {"map", "take"} => k + 0 = g
        /\ L.kind = "take" => L.n = L.limit - g + 0
        /\ L.kind \in {"sort", "reduce", "sink", "print"} => L.sent = <<>>
    BY <1>1, <1>2, <1>3 DEF Sums
  <2> QED
    BY <2>1, <1>4
<1>9. CASE L.kind = "map"
  <2>1. PICK b : b = EmitOp(s, d, FALSE)
    OBVIOUS
  <2>2. b \in Ops /\ b.op = "emit"
    <3>1. b \in Ops
      BY <2>1, OpTypes
    <3> QED
      BY <3>1, <2>1 DEF EmitOp
  <2>3. M.a # <<>> /\ Head(M.a) = b /\ AtAfter(Tail(M.a), s) /\ Calm(M.a, s)
    BY <2>1, <2>2, <1>5, <1>9, CallOne
  <2>4. Sums(M, 1, 0)
    <3>1. k + 1 = g + 1
      BY <1>8, <1>9
    <3> QED
      BY <3>1, <1>2, <1>5, <1>6, <1>9 DEF Sums
  <2>5. b = EmitOp(s, M.got[Len(M.sent) + 1], FALSE)
    BY <2>1, <1>2, <1>5, <1>6, <1>8, <1>9
  <2>6. Emitting(M, s, 0)
    BY <2>3, <2>4, <2>5, <1>5, <1>9 DEF Emitting, Emitted
  <2> QED
    BY <2>2, <2>3, <2>6, <1>1 DEF Phase
<1>10. CASE L.kind = "print"
  <2>1. PICK b : b = EmitOp(s, Nil, FALSE)
    OBVIOUS
  <2>2. b \in Ops /\ b.op = "emit"
    <3>1. Nil \in Data
      BY DEF Data
    <3>2. b \in Ops
      BY <3>1, <2>1, OpTypes
    <3> QED
      BY <3>2, <2>1 DEF EmitOp
  <2>3. M.a # <<>> /\ Head(M.a) = b /\ AtAfter(Tail(M.a), s) /\ Calm(M.a, s)
    BY <2>1, <2>2, <1>5, <1>10, CallOne
  <2>4. Sums(M, 0, 0)
    BY <1>5, <1>8, <1>10 DEF Sums
  <2>5. Emitting(M, s, 0)
    BY <2>1, <2>3, <2>4, <1>5, <1>10 DEF Emitting
  <2> QED
    BY <2>2, <2>3, <2>5, <1>1 DEF Phase
<1>11. CASE L.kind = "take"
  <2>1. PICK b : b = EmitOp(s, d, FALSE)
    OBVIOUS
  <2>2. PICK c : c = TakeNextOp(s)
    OBVIOUS
  <2>3. b \in Ops /\ b.op = "emit"
    <3>1. b \in Ops
      BY <2>1, OpTypes
    <3> QED
      BY <3>1, <2>1 DEF EmitOp
  <2>4. c \in Ops /\ c.op = "takeNext"
    <3>1. c \in Ops
      BY <2>2, OpTypes
    <3> QED
      BY <3>1, <2>2 DEF TakeNextOp
  <2>5. M.a # <<>> /\ Head(M.a) = b /\ Is(Tail(M.a), c) /\ AtAfter(Tail(Tail(M.a)), s) /\ Calm(M.a, s)
    <3>1. PICK a : a = M.a
      OBVIOUS
    <3>2. a = <<b, c>> \o <<AfterOp(s)>>
      BY <2>1, <2>2, <3>1, <1>5, <1>11
    <3>3. a # <<>> /\ Head(a) = b /\ Is(Tail(a), c) /\ AtAfter(Tail(Tail(a)), s) /\ Calm(a, s)
      BY <2>3, <2>4, <3>2, CallTwo, ZenonT(40)
    <3> QED
      BY <3>1, <3>3, Zenon
  <2>6. Sums(M, 1, 1)
    <3>1. k + 1 = g + 1
      BY <1>8, <1>11
    <3>2. M.n = M.limit - (g + 1) + 1
      BY <1>4, <1>5, <1>8, <1>11, SMTT(30)
    <3> QED
      BY <3>1, <3>2, <1>2, <1>5, <1>6, <1>11 DEF Sums
  <2>7. b = EmitOp(s, M.got[Len(M.sent) + 1], FALSE)
    BY <2>1, <1>2, <1>5, <1>6, <1>8, <1>11
  <2>8. Emitting(M, s, 0)
    BY <2>2, <2>5, <2>6, <2>7, <1>5, <1>11 DEF Emitting, Emitted
  <2> QED
    BY <2>3, <2>5, <2>8, <1>1 DEF Phase
<1>12. CASE L.kind \in {"sort", "reduce", "sink"}
  <2>1. PICK c : c = AfterOp(s)
    OBVIOUS
  <2>2. c \in Ops /\ c.op = "after"
    <3>1. c \in Ops
      BY <2>1, OpTypes
    <3> QED
      BY <3>1, <2>1 DEF AfterOp
  <2>3. <<c>> \in Seq(Ops) /\ <<c>> # <<>> /\ Head(<<c>>) = c /\ Tail(<<c>>) = <<>> /\ Len(<<c>>) = 1 /\ <<c>>[1] = c
    BY <2>2
  <2>4. M.a = <<c>>
    <3>1. M.a = <<>> \o <<c>>
      BY <2>1, <1>5, <1>12
    <3> QED
      BY <3>1, <2>3, Front0
  <2>5. AtAfter(M.a, s)
    BY <2>1, <2>3, <2>4 DEF AtAfter, Is
  <2>6. Sums(M, 0, 0)
    BY <1>5, <1>8, <1>12 DEF Sums
  <2>7. Phase(M, s, 0)
    BY <2>5, <2>6, <1>5, AfterPhase DEF Live
  <2>8. Calm(M.a, s)
    <3>1. PICK l : l = Len(M.a)
      OBVIOUS
    <3>2. l = 1 /\ M.a[1] = c
      BY <3>1, <2>3, <2>4
    <3>3. ASSUME NEW i \in 1..l PROVE M.a[i].op \in {"emit", "close", "seqNext", "takeNext", "after"}
      BY <3>2, <2>2
    <3> QED
      BY <3>1, <3>3, <2>3, <2>4, CalmSteps
  <2> QED
    BY <2>7, <2>8, <1>1
<1> QED
  BY <1>7, <1>9, <1>10, <1>11, <1>12 DEF Kinds

=============================================================================
