------------------------------- MODULE CallProofs ---------------------------
(***************************************************************************)
(* Nothing is lost between a provider and its readers.                     *)
(*                                                                         *)
(* For every stream a provider may send, every limit and every order of    *)
(* frames, events, timers and failed writes, what is accepted is what was  *)
(* said, what is stored is what was accepted, and what the live deltas show*)
(* is the start of it.  The argument follows the text through its places:  *)
(* what was heard is what the executor has taken and what waits in the     *)
(* queue (HeardInv); what it has taken is what is persisted and what is    *)
(* buffered (DeltaInv).  Each adapter's normaliser gives the events of its *)
(* frame and no others (FrameAccepted); the coalescer cuts and merges, but *)
(* keeps the order (PushEventSays).  The folds of the model are computed by*)
(* induction over the numbers, stated with sets.                           *)
(***************************************************************************)
EXTENDS Conversation, FiniteSetTheorems, SequenceTheorems, TLAPS

-----------------------------------------------------------------------------
(***************************************************************************)
(* Sequences.  What a fold and FlattenSeq compute, by induction over the   *)
(* numbers; the induction is stated with the set of the numbers that fit.  *)
(***************************************************************************)

\* A set of numbers that has 0 and with a number its successor has them all.
LEMMA CountingUp ==
  ASSUME NEW G, 0 \in G, \A n \in Nat : n \in G => n + 1 \in G
  PROVE  \A n \in Nat : n \in G
<1> DEFINE bad == Nat \ G
<1>1. SUFFICES ASSUME bad # {} PROVE FALSE
  OBVIOUS
<1>2. PICK m \in bad : \A n \in bad : ~(<<n, m>> \in OpToRel(<, Nat))
  <2> HIDE DEF bad
  <2>1. bad \subseteq Nat
    BY DEF bad
  <2> QED BY <1>1, <2>1, NatLessThanWellFounded, WFMin
<1>3. m \in Nat /\ m # 0 /\ m - 1 \in Nat
  OBVIOUS
<1>4. <<m - 1, m>> \in OpToRel(<, Nat)
  BY <1>3 DEF OpToRel
<1>5. m - 1 \in G
  BY <1>2, <1>3, <1>4
<1> QED
  BY <1>3, <1>5

\* A nonempty set of indices has a last one.
LEMMA LastIndex ==
  ASSUME NEW n \in Nat, NEW T \in SUBSET (1..n), T # {}
  PROVE  Max(T) \in T /\ \A y \in T : y <= Max(T)
<1> DEFINE G == {k \in Nat : \A U \in SUBSET (1..k) : U # {} => \E x \in U : \A y \in U : x >= y}
<1>1. 0 \in G
  <2>1. \A U \in SUBSET (1..0) : U = {}
    OBVIOUS
  <2> QED BY <2>1
<1>2. ASSUME NEW k \in Nat, k \in G PROVE k + 1 \in G
  <2> SUFFICES ASSUME NEW U \in SUBSET (1..(k + 1)), U # {}
               PROVE  \E x \in U : \A y \in U : x >= y
    OBVIOUS
  <2>1. CASE k + 1 \in U
    <3>1. \A y \in U : k + 1 >= y
      OBVIOUS
    <3> QED BY <2>1, <3>1
  <2>2. CASE k + 1 \notin U
    <3>1. U \in SUBSET (1..k)
      BY <2>2
    <3> QED BY <1>2, <3>1
  <2> QED BY <2>1, <2>2
<1>3. n \in G
  <2> HIDE DEF G
  <2> QED BY <1>1, <1>2, CountingUp
<1>4. \E x \in T : \A y \in T : x >= y
  BY <1>3
<1>5. Max(T) \in T /\ \A y \in T : Max(T) >= y
  BY <1>4, ZenonT(30) DEF Max
<1> QED
  BY <1>5

\* The greatest of the first numbers, and the others.
LEMMA LastOfAll ==
  ASSUME NEW n \in Nat \ {0}
  PROVE  Max(1..n) = n /\ (1..n) \ {n} = 1..(n - 1)
<1>1. Max(1..n) \in 1..n /\ \A y \in 1..n : y <= Max(1..n)
  <2>1. 1..n \in SUBSET (1..n) /\ 1..n # {} /\ n \in Nat
    OBVIOUS
  <2> HIDE DEF Max
  <2> QED BY <2>1, LastIndex, ZenonT(30)
<1>2. n \in 1..n
  OBVIOUS
<1> QED
  BY <1>1, <1>2

\* A function over the sets of indices that folds h from the first index on.
Folding(it, n, base, h) ==
  it = [S \in SUBSET (1..n) |-> IF S = {} THEN base ELSE h[Max(S), it[S \ {Max(S)}]]]

\* There is one, with values where the steps have them.
LEMMA FoldExists ==
  ASSUME NEW n \in Nat, NEW A, NEW base \in A, NEW h \in [(1..n) \X A -> A]
  PROVE  \E it \in [SUBSET (1..n) -> A] : Folding(it, n, base, h)
<1> DEFINE Value(g, S) == IF S = {} THEN base ELSE h[Max(S), g[S \ {Max(S)}]]
           Fits(k, g) == /\ g \in [SUBSET (1..k) -> A]
                         /\ g = [S \in SUBSET (1..k) |-> Value(g, S)]
           G == {k \in Nat : k <= n => \E g : Fits(k, g)}
<1> HIDE DEF Fits, Value
<1>1. 0 \in G
  <2> DEFINE g == [S \in SUBSET (1..0) |-> base]
  <2>1. \A S \in SUBSET (1..0) : S = {}
    OBVIOUS
  <2>2. g = [S \in SUBSET (1..0) |-> Value(g, S)]
    BY <2>1 DEF Value
  <2>3. g \in [SUBSET (1..0) -> A]
    OBVIOUS
  <2> HIDE DEF g
  <2>4. Fits(0, g)
    BY <2>2, <2>3 DEF Fits
  <2> QED BY <2>4
<1>2. ASSUME NEW k \in Nat, k \in G PROVE k + 1 \in G
  <2> SUFFICES ASSUME k + 1 <= n
               PROVE  \E g : Fits(k + 1, g)
    OBVIOUS
  <2>1. PICK g : Fits(k, g)
    BY <1>2
  <2> DEFINE u == [S \in SUBSET (1..(k + 1)) |-> Value(g, S)]
  <2>2. ASSUME NEW S \in SUBSET (1..(k + 1)), S # {}
        PROVE  Max(S) \in 1..n /\ S \ {Max(S)} \in SUBSET (1..k)
    <3>1. k + 1 \in Nat
      OBVIOUS
    <3>2. Max(S) \in S /\ \A y \in S : y <= Max(S)
      BY ONLY <3>1, S \in SUBSET (1..(k + 1)), S # {}, LastIndex, ZenonT(30)
    <3>3. \A y \in S \ {Max(S)} : y \in 1..k
      <4> SUFFICES ASSUME NEW y \in S \ {Max(S)} PROVE y \in 1..k
        OBVIOUS
      <4>1. y <= Max(S) /\ y # Max(S) /\ Max(S) \in 1..(k + 1) /\ y \in 1..(k + 1)
        BY <3>2
      <4> QED BY ONLY <4>1, k \in Nat
    <3>4. Max(S) \in 1..(k + 1)
      BY <3>2
    <3>5. Max(S) \in 1..n
      BY ONLY <3>4, k + 1 <= n, k \in Nat, n \in Nat
    <3> QED BY <3>3, <3>5
  <2>3. ASSUME NEW S \in SUBSET (1..(k + 1)) PROVE Value(g, S) \in A
    <3>1. CASE S = {}
      BY <3>1 DEF Value
    <3>2. CASE S # {}
      <4>1. g[S \ {Max(S)}] \in A
        BY <2>1, <2>2, <3>2 DEF Fits
      <4>2. <<Max(S), g[S \ {Max(S)}]>> \in (1..n) \X A
        BY <2>2, <3>2, <4>1
      <4>3. h[Max(S), g[S \ {Max(S)}]] \in A
        BY ONLY <4>2, h \in [(1..n) \X A -> A]
      <4> QED BY <3>2, <4>3 DEF Value
    <3> QED BY <3>1, <3>2
  <2>4. u \in [SUBSET (1..(k + 1)) -> A]
    BY <2>3
  <2>5. \A S \in SUBSET (1..k) : g[S] = Value(g, S) /\ u[S] = Value(g, S)
    <3>1. SUBSET (1..k) \subseteq SUBSET (1..(k + 1))
      OBVIOUS
    <3> QED BY <2>1, <3>1 DEF Fits
  <2>6. \A S \in SUBSET (1..(k + 1)) : Value(u, S) = Value(g, S)
    <3> SUFFICES ASSUME NEW S \in SUBSET (1..(k + 1)) PROVE Value(u, S) = Value(g, S)
      OBVIOUS
    <3> HIDE DEF u
    <3>1. CASE S = {}
      BY <3>1 DEF Value
    <3>2. CASE S # {}
      <4>1. u[S \ {Max(S)}] = g[S \ {Max(S)}]
        BY <2>2, <2>5, <3>2
      <4> QED BY <4>1 DEF Value
    <3> QED BY <3>1, <3>2
  <2>7. u = [S \in SUBSET (1..(k + 1)) |-> Value(u, S)]
    BY <2>6
  <2> HIDE DEF u
  <2>8. Fits(k + 1, u)
    BY <2>4, <2>7 DEF Fits
  <2> QED BY <2>8
<1>3. n \in G
  <2> HIDE DEF G
  <2> QED BY <1>1, <1>2, CountingUp
<1>4. PICK g : Fits(n, g)
  BY <1>3
<1>5. g \in [SUBSET (1..n) -> A] /\ Folding(g, n, base, h)
  BY <1>4 DEF Folding, Fits, Value
<1> QED
  BY <1>5

\* Two runs that start and go on alike are alike.
Alike(u, v, n) == u[0] = v[0] /\ \A i \in 1..n : u[i - 1] = v[i - 1] => u[i] = v[i]

\* They are alike as far as they are compared.
LEMMA SameRun ==
  ASSUME NEW n \in Nat, NEW u, NEW v, Alike(u, v, n)
  PROVE  \A i \in 0..n : u[i] = v[i]
<1> DEFINE G == {i \in Nat : i <= n => u[i] = v[i]}
<1>1. 0 \in G
  BY DEF Alike
<1>2. ASSUME NEW i \in Nat, i \in G PROVE i + 1 \in G
  <2> SUFFICES ASSUME i + 1 <= n PROVE u[i + 1] = v[i + 1]
    OBVIOUS
  <2>1. i + 1 \in 1..n /\ (i + 1) - 1 = i /\ i <= n
    OBVIOUS
  <2>2. u[i] = v[i]
    BY <1>2, <2>1
  <2> QED BY <2>1, <2>2 DEF Alike
<1>3. \A i \in Nat : i \in G
  <2> HIDE DEF G
  <2> QED BY <1>1, <1>2, CountingUp
<1> QED
  BY <1>3

\* The first indices.
LEMMA FirstIndices ==
  ASSUME NEW n \in Nat, NEW i \in 1..n
  PROVE  /\ 1..i \in SUBSET (1..n) /\ 1..i # {} /\ Max(1..i) = i
         /\ (1..i) \ {i} = 1..(i - 1) /\ i - 1 \in 0..n /\ i \in 0..n
<1>1. i \in Nat \ {0} /\ i - 1 \in 0..n /\ i \in 0..n /\ i \in 1..i
  OBVIOUS
<1>2. Max(1..i) = i /\ (1..i) \ {i} = 1..(i - 1)
  BY <1>1, LastOfAll
<1>3. 1..i \in SUBSET (1..n)
  OBVIOUS
<1> QED
  BY <1>1, <1>2, <1>3

\* Bytes adds the widths up.
LEMMA BytesRun ==
  ASSUME NEW t \in Seq(Nat)
  PROVE  \E v : /\ v[0] = 0 /\ Bytes(t) = v[Len(t)]
                /\ \A i \in 1..Len(t) : v[i] = v[i - 1] + t[i]
<1> DEFINE n == Len(t)
           h == [p \in (1..n) \X Nat |-> p[2] + t[p[1]]]
           Adds(it) == it = [S \in SUBSET DOMAIN t |->
                               IF S = {} THEN 0 ELSE it[S \ {Max(S)}] + t[Max(S)]]
<1>1. n \in Nat /\ DOMAIN t = 1..n /\ \A i \in 1..n : t[i] \in Nat
  OBVIOUS
<1>2. h \in [(1..n) \X Nat -> Nat]
  BY <1>1
<1>3. PICK it \in [SUBSET (1..n) -> Nat] : Folding(it, n, 0, h)
  <2> HIDE DEF h, n
  <2> QED BY <1>1, <1>2, FoldExists
<1>4. Adds(it)
  <2> SUFFICES ASSUME NEW S \in SUBSET (1..n), S # {}
               PROVE  it[S] = it[S \ {Max(S)}] + t[Max(S)]
    BY <1>1, <1>3 DEF Folding
  <2>1. Max(S) \in 1..n
    BY <1>1, LastIndex
  <2>2. it[S] = h[Max(S), it[S \ {Max(S)}]] /\ it[S \ {Max(S)}] \in Nat
    BY <1>3 DEF Folding
  <2> QED BY <2>1, <2>2
<1> DEFINE j == CHOOSE f : Adds(f)
<1>5. Bytes(t) = j[DOMAIN t]
  BY ZenonT(30) DEF Bytes, FoldLeft, MapThenFoldSet
<1>6. Adds(j)
  <2> HIDE DEF Adds
  <2> QED BY <1>4
<1> HIDE DEF j, n
<1> DEFINE v == [i \in 0..n |-> j[1..i]]
<1>7. v[0] = 0 /\ v[n] = j[1..n]
  <2>1. j[{}] = 0 /\ 1..0 = {} /\ 0 \in 0..n /\ n \in 0..n
    BY <1>1, <1>6
  <2>2. v[0] = j[1..0] /\ v[n] = j[1..n]
    BY <2>1
  <2> QED BY <2>1, <2>2
<1>8. \A i \in 1..n : v[i] = v[i - 1] + t[i]
  <2> SUFFICES ASSUME NEW i \in 1..n PROVE v[i] = v[i - 1] + t[i]
    OBVIOUS
  <2>1. /\ 1..i \in SUBSET (1..n) /\ 1..i # {} /\ Max(1..i) = i
        /\ (1..i) \ {i} = 1..(i - 1) /\ i - 1 \in 0..n /\ i \in 0..n
    BY <1>1, FirstIndices
  <2>2. v[i] = j[1..i] /\ v[i - 1] = j[1..(i - 1)]
    BY <2>1
  <2>3. j[1..i] = j[(1..i) \ {Max(1..i)}] + t[Max(1..i)]
    BY <1>1, <1>6, <2>1
  <2> HIDE DEF v
  <2> QED BY <2>1, <2>2, <2>3
<1> HIDE DEF v
<1> QED
  BY <1>1, <1>5, <1>7, <1>8 DEF n

\* The bytes of a text, one character after the other.
LEMMA BytesOf ==
  /\ Bytes(<<>>) = 0
  /\ \A t \in Seq(Nat) : Bytes(t) \in Nat
  /\ \A t \in Seq(Nat), c \in Nat : Bytes(Append(t, c)) = Bytes(t) + c
<1>1. Bytes(<<>>) = 0
  <2>1. <<>> \in Seq(Nat) /\ Len(<<>>) = 0
    OBVIOUS
  <2> QED BY <2>1, BytesRun
<1>2. ASSUME NEW t \in Seq(Nat) PROVE Bytes(t) \in Nat
  <2>1. PICK v : /\ v[0] = 0 /\ Bytes(t) = v[Len(t)]
                 /\ \A i \in 1..Len(t) : v[i] = v[i - 1] + t[i]
    BY BytesRun
  <2> DEFINE G == {i \in Nat : i <= Len(t) => v[i] \in Nat}
  <2>2. 0 \in G
    BY <2>1
  <2>3. ASSUME NEW i \in Nat, i \in G PROVE i + 1 \in G
    <3> SUFFICES ASSUME i + 1 <= Len(t) PROVE v[i + 1] \in Nat
      OBVIOUS
    <3>1. i + 1 \in 1..Len(t) /\ (i + 1) - 1 = i /\ i <= Len(t)
      OBVIOUS
    <3>2. v[i] \in Nat /\ t[i + 1] \in Nat
      BY <2>3, <3>1
    <3>3. v[i + 1] = v[i] + t[i + 1]
      BY <2>1, <3>1
    <3> QED BY ONLY <3>2, <3>3
  <2>4. Len(t) \in G
    <3> HIDE DEF G
    <3> QED BY SMTT(30), <2>2, <2>3, CountingUp
  <2> QED BY <2>1, <2>4
<1>3. ASSUME NEW t \in Seq(Nat), NEW c \in Nat PROVE Bytes(Append(t, c)) = Bytes(t) + c
  <2> DEFINE s == Append(t, c)
             n == Len(t)
  <2>1. /\ s \in Seq(Nat) /\ Len(s) = n + 1 /\ s[n + 1] = c /\ n \in Nat
        /\ \A i \in 1..n : s[i] = t[i]
    OBVIOUS
  <2> HIDE DEF s
  <2>2. PICK v : /\ v[0] = 0 /\ Bytes(t) = v[n] /\ \A i \in 1..n : v[i] = v[i - 1] + t[i]
    BY BytesRun
  <2>3. PICK u : /\ u[0] = 0 /\ Bytes(s) = u[n + 1]
                 /\ \A i \in 1..(n + 1) : u[i] = u[i - 1] + s[i]
    BY <2>1, BytesRun
  <2> HIDE DEF n
  <2>4. Alike(u, v, n)
    BY SMTT(30), <2>1, <2>2, <2>3 DEF Alike
  <2>5. \A i \in 0..n : u[i] = v[i]
    <3>1. n \in Nat
      BY <2>1
    <3> QED BY ONLY <3>1, <2>4, SameRun, ZenonT(30)
  <2>6. u[n + 1] = u[n] + c /\ u[n] = v[n]
    BY <2>1, <2>3, <2>5
  <2> QED BY <2>2, <2>3, <2>6 DEF s
<1> QED
  BY <1>1, <1>2, <1>3

\* Concatenation.
LEMMA Concatenation ==
  ASSUME NEW T
  PROVE  /\ \A p \in Seq(T) : p \o <<>> = p /\ <<>> \o p = p
         /\ \A p, q \in Seq(T) : p \o q \in Seq(T) /\ Len(p \o q) = Len(p) + Len(q)
         /\ \A p, q, r \in Seq(T) : (p \o q) \o r = p \o (q \o r)
         /\ \A p, q \in Seq(T) : \A i \in 1..Len(p) : (p \o q)[i] = p[i]
         /\ \A p, q \in Seq(T) : \A i \in 1..Len(q) : (p \o q)[Len(p) + i] = q[i]
<1>1. \A p \in Seq(T) : p \o <<>> = p /\ <<>> \o p = p
  BY ConcatEmptySeq
<1>2. \A p, q \in Seq(T) : p \o q \in Seq(T) /\ Len(p \o q) = Len(p) + Len(q)
  BY ConcatProperties
<1>3. \A p, q, r \in Seq(T) : (p \o q) \o r = p \o (q \o r)
  <2> SUFFICES ASSUME NEW p \in Seq(T), NEW q \in Seq(T), NEW r \in Seq(T)
               PROVE  (p \o q) \o r = p \o (q \o r)
    OBVIOUS
  <2> QED BY SMTT(30), ConcatAssociative
<1>4. ASSUME NEW p \in Seq(T), NEW q \in Seq(T)
      PROVE  /\ \A i \in 1..Len(p) : (p \o q)[i] = p[i]
             /\ \A i \in 1..Len(q) : (p \o q)[Len(p) + i] = q[i]
  <2>1. \A i \in 1..Len(p) + Len(q) :
           (p \o q)[i] = IF i <= Len(p) THEN p[i] ELSE q[i - Len(p)]
    BY ConcatProperties
  <2>2. Len(p) \in Nat /\ Len(q) \in Nat
    OBVIOUS
  <2>3. ASSUME NEW i \in 1..Len(p) PROVE (p \o q)[i] = p[i]
    BY ONLY <2>1, <2>2, i \in 1..Len(p)
  <2>4. ASSUME NEW i \in 1..Len(q) PROVE (p \o q)[Len(p) + i] = q[i]
    <3>1. /\ Len(p) + i \in 1..Len(p) + Len(q) /\ ~(Len(p) + i <= Len(p))
          /\ (Len(p) + i) - Len(p) = i
      BY ONLY <2>2, i \in 1..Len(q)
    <3> QED BY ONLY <2>1, <3>1
  <2> QED BY <2>3, <2>4
<1> QED
  BY ONLY <1>1, <1>2, <1>3, <1>4

\* FlattenSeq puts the sequences together, from the first on.
Joins(v, ss) == v[0] = <<>> /\ \A i \in 1..Len(ss) : v[i] = v[i - 1] \o ss[i]

\* FlattenSeq is the end of such a run.
LEMMA FlattenRun ==
  ASSUME NEW T, NEW ss \in Seq(Seq(T))
  PROVE  \E v : /\ Joins(v, ss) /\ FlattenSeq(ss) = v[Len(ss)]
                /\ \A i \in 0..Len(ss) : v[i] \in Seq(T)
<1> DEFINE n == Len(ss)
           A == Seq(T)
           h == [p \in (1..n) \X A |-> p[2] \o ss[p[1]]]
           Flat(f) == f = [i \in 1..n |-> IF i = 1 THEN ss[i] ELSE f[i - 1] \o ss[i]]
<1>1. n \in Nat /\ \A i \in 1..n : ss[i] \in A
  OBVIOUS
<1>2. h \in [(1..n) \X A -> A] /\ <<>> \in A
  BY <1>1
<1>3. PICK it \in [SUBSET (1..n) -> A] : Folding(it, n, <<>>, h)
  <2> HIDE DEF h, n, A
  <2> QED BY <1>1, <1>2, FoldExists
<1> DEFINE v == [i \in 0..n |-> it[1..i]]
<1>4. \A i \in 0..n : v[i] \in A
  <2> SUFFICES ASSUME NEW i \in 0..n PROVE v[i] \in A
    OBVIOUS
  <2>1. 1..i \in SUBSET (1..n)
    OBVIOUS
  <2> QED BY <1>3, <2>1
<1>5. v[0] = <<>>
  <2>1. 1..0 = {} /\ 0 \in 0..n
    BY <1>1
  <2>2. it[{}] = <<>>
    BY <1>3 DEF Folding
  <2> QED BY <2>1, <2>2
<1>6. \A i \in 1..n : v[i] = v[i - 1] \o ss[i]
  <2> SUFFICES ASSUME NEW i \in 1..n PROVE v[i] = v[i - 1] \o ss[i]
    OBVIOUS
  <2>1. /\ 1..i \in SUBSET (1..n) /\ 1..i # {} /\ Max(1..i) = i
        /\ (1..i) \ {i} = 1..(i - 1) /\ i - 1 \in 0..n /\ i \in 0..n
    BY <1>1, FirstIndices
  <2>2. v[i] = it[1..i] /\ v[i - 1] = it[1..(i - 1)]
    BY <2>1
  <2>3. it[1..i] = h[i, it[1..(i - 1)]]
    BY ZenonT(30), <1>3, <2>1 DEF Folding
  <2>4. v[i - 1] \in A
    BY <1>4, <2>1
  <2> HIDE DEF v
  <2> QED BY <2>2, <2>3, <2>4
<1> HIDE DEF v
<1>7. CASE n = 0
  <2>1. ss = <<>> /\ FlattenSeq(ss) = ss
    BY <1>7 DEF FlattenSeq
  <2>2. Joins(v, ss)
    BY <1>5, <1>6 DEF Joins
  <2> QED BY <1>4, <1>5, <1>7, <2>1, <2>2
<1>8. CASE n # 0
  <2> DEFINE g == [i \in 1..n |-> v[i]]
             f == CHOOSE f : Flat(f)
  <2>1. Flat(g)
    <3> SUFFICES ASSUME NEW i \in 1..n PROVE v[i] = IF i = 1 THEN ss[i] ELSE g[i - 1] \o ss[i]
      OBVIOUS
    <3>1. v[i] = v[i - 1] \o ss[i] /\ ss[i] \in A
      BY <1>1, <1>6
    <3>2. CASE i = 1
      <4>1. i - 1 = 0 /\ \A x \in Seq(T) : <<>> \o x = x
        BY <3>2, Concatenation
      <4>2. v[i] = <<>> \o ss[i] /\ <<>> \o ss[i] = ss[i]
        BY <1>5, <3>1, <4>1
      <4> QED BY <3>2, <4>2
    <3>3. CASE i # 1
      <4>1. i - 1 \in 1..n
        BY <3>3
      <4> QED BY <3>1, <3>3, <4>1
    <3> QED BY <3>2, <3>3
  <2>2. FlattenSeq(ss) = f[n]
    BY <1>8, ZenonT(30) DEF FlattenSeq
  <2>3. Flat(f)
    <3> HIDE DEF Flat, g
    <3> QED BY <2>1
  <2> HIDE DEF f, g
  <2>4. \A i \in 1..n : f[i] = IF i = 1 THEN ss[i] ELSE f[i - 1] \o ss[i]
    BY <2>3
  <2> DEFINE u == [i \in 0..n |-> IF i = 0 THEN <<>> ELSE f[i]]
  <2>5. u[0] = v[0]
    BY <1>1, <1>5
  <2>6. \A i \in 1..n : u[i - 1] = v[i - 1] => u[i] = v[i]
    <3> SUFFICES ASSUME NEW i \in 1..n, u[i - 1] = v[i - 1] PROVE u[i] = v[i]
      OBVIOUS
    <3>1. u[i] = f[i] /\ v[i] = v[i - 1] \o ss[i] /\ ss[i] \in A
      <4>1. i \in 0..n /\ i # 0
        BY <1>1
      <4> QED BY <1>1, <1>6, <4>1
    <3>2. CASE i = 1
      <4>1. i - 1 = 0 /\ \A x \in Seq(T) : <<>> \o x = x
        BY <3>2, Concatenation
      <4>2. v[i] = <<>> \o ss[i] /\ <<>> \o ss[i] = ss[i]
        BY <1>5, <3>1, <4>1
      <4> QED BY <2>4, <3>1, <3>2, <4>2
    <3>3. CASE i # 1
      <4>1. u[i - 1] = f[i - 1]
        BY <3>3
      <4> HIDE DEF u
      <4> QED BY <2>4, <3>1, <3>3, <4>1
    <3> QED BY <3>2, <3>3
  <2>7. u[n] = f[n]
    BY <1>1, <1>8
  <2> HIDE DEF u
  <2>8. \A i \in 0..n : u[i] = v[i]
    <3>1. Alike(u, v, n)
      BY ONLY <2>5, <2>6 DEF Alike
    <3>2. n \in Nat
      BY <1>1
    <3> QED BY ONLY <3>1, <3>2, SameRun, ZenonT(30)
  <2>9. FlattenSeq(ss) = v[n]
    BY <1>1, <2>2, <2>7, <2>8
  <2>10. Joins(v, ss)
    BY <1>5, <1>6 DEF Joins
  <2> QED BY <1>4, <2>9, <2>10
<1> QED
  BY <1>7, <1>8

\* FlattenSeq of nothing and of one sequence, and its type.
LEMMA FlattenOf ==
  ASSUME NEW T
  PROVE  /\ FlattenSeq(<<>>) = <<>>
         /\ \A x \in Seq(T) : FlattenSeq(<<x>>) = x
         /\ \A ss \in Seq(Seq(T)) : FlattenSeq(ss) \in Seq(T)
<1>1. FlattenSeq(<<>>) = <<>>
  BY DEF FlattenSeq
<1>2. ASSUME NEW x \in Seq(T) PROVE FlattenSeq(<<x>>) = x
  <2> DEFINE s == <<x>>
  <2>1. s \in Seq(Seq(T)) /\ Len(s) = 1 /\ s[1] = x
    OBVIOUS
  <2> HIDE DEF s
  <2>2. PICK v : Joins(v, s) /\ FlattenSeq(s) = v[1]
    BY <2>1, FlattenRun
  <2>3. v[0] = <<>> /\ v[1] = v[1 - 1] \o x /\ 1 - 1 = 0
    BY <2>1, <2>2 DEF Joins
  <2>4. <<>> \o x = x
    BY Concatenation
  <2> QED BY <2>2, <2>3, <2>4 DEF s
<1>3. ASSUME NEW ss \in Seq(Seq(T)) PROVE FlattenSeq(ss) \in Seq(T)
  BY FlattenRun
<1> QED
  BY <1>1, <1>2, <1>3

\* FlattenSeq of two parts is the two results together.
LEMMA FlattenConcat ==
  ASSUME NEW T, NEW ss \in Seq(Seq(T)), NEW tt \in Seq(Seq(T))
  PROVE  FlattenSeq(ss \o tt) = FlattenSeq(ss) \o FlattenSeq(tt)
<1> DEFINE all == ss \o tt
           m == Len(ss)
           n == Len(tt)
<1>1. /\ all \in Seq(Seq(T)) /\ Len(all) = m + n /\ m \in Nat /\ n \in Nat
      /\ \A i \in 1..m : all[i] = ss[i]
      /\ \A i \in 1..n : all[m + i] = tt[i] /\ tt[i] \in Seq(T)
  OBVIOUS
<1> HIDE DEF all, m, n
<1>2. PICK a : /\ Joins(a, all) /\ FlattenSeq(all) = a[m + n]
  BY <1>1, FlattenRun
<1>3. PICK u : /\ Joins(u, ss) /\ FlattenSeq(ss) = u[m] /\ \A i \in 0..m : u[i] \in Seq(T)
  BY FlattenRun DEF m
<1>4. PICK v : /\ Joins(v, tt) /\ FlattenSeq(tt) = v[n] /\ \A i \in 0..n : v[i] \in Seq(T)
  BY FlattenRun DEF n
<1>5. /\ a[0] = <<>> /\ u[0] = <<>> /\ v[0] = <<>>
      /\ \A i \in 1..(m + n) : a[i] = a[i - 1] \o all[i]
      /\ \A i \in 1..m : u[i] = u[i - 1] \o ss[i]
      /\ \A i \in 1..n : v[i] = v[i - 1] \o tt[i]
  BY <1>1, <1>2, <1>3, <1>4 DEF Joins, m, n
<1>6. \A i \in 0..m : a[i] = u[i]
  <2>1. \A i \in 1..m : a[i] = a[i - 1] \o ss[i]
    <3>1. \A i \in 1..m : i \in 1..(m + n)
      BY <1>1
    <3> QED BY <1>1, <1>5, <3>1
  <2>2. Alike(a, u, m)
    BY <1>5, <2>1 DEF Alike
  <2>3. m \in Nat
    BY <1>1
  <2> QED BY ONLY <2>2, <2>3, SameRun, ZenonT(30)
<1> DEFINE b == [i \in 0..n |-> a[m + i]]
           c == [i \in 0..n |-> u[m] \o v[i]]
<1>7. b[0] = c[0] /\ b[n] = a[m + n] /\ c[n] = u[m] \o v[n]
  <2>1. 0 \in 0..n /\ n \in 0..n /\ m + 0 = m /\ m \in 0..m
    BY <1>1
  <2>2. a[m] = u[m] /\ u[m] \in Seq(T) /\ u[m] \o <<>> = u[m]
    BY <1>3, <1>6, <2>1
  <2> QED BY <1>5, <2>1, <2>2
<1>8. \A i \in 1..n : b[i - 1] = c[i - 1] => b[i] = c[i]
  <2> SUFFICES ASSUME NEW i \in 1..n, b[i - 1] = c[i - 1] PROVE b[i] = c[i]
    OBVIOUS
  <2>1. /\ i \in 0..n /\ i - 1 \in 0..n /\ m + i \in 1..(m + n) /\ (m + i) - 1 = m + (i - 1)
        /\ m \in 0..m
    BY <1>1
  <2>2. /\ b[i] = a[m + i] /\ c[i] = u[m] \o v[i]
        /\ b[i - 1] = a[m + (i - 1)] /\ c[i - 1] = u[m] \o v[i - 1]
    BY <2>1
  <2>3. a[m + i] = a[m + (i - 1)] \o tt[i]
    BY <1>1, <1>5, <2>1
  <2>4. u[m] \in Seq(T) /\ v[i - 1] \in Seq(T) /\ tt[i] \in Seq(T) /\ v[i] = v[i - 1] \o tt[i]
    BY <1>1, <1>3, <1>4, <1>5, <2>1
  <2>5. (u[m] \o v[i - 1]) \o tt[i] = u[m] \o (v[i - 1] \o tt[i])
    <3>1. \A p, q, r \in Seq(T) : (p \o q) \o r = p \o (q \o r)
      BY Concatenation
    <3> QED BY ONLY <2>4, <3>1, ZenonT(30)
  <2> HIDE DEF b, c
  <2> QED BY <2>2, <2>3, <2>4, <2>5
<1> HIDE DEF b, c
<1>9. b[n] = c[n]
  <2>1. \A i \in 0..n : b[i] = c[i]
    <3>1. Alike(b, c, n)
      BY ONLY <1>7, <1>8 DEF Alike
    <3>2. n \in Nat
      BY <1>1
    <3> QED BY ONLY <3>1, <3>2, SameRun, ZenonT(30)
  <2> QED BY SMTT(30), <1>1, <2>1
<1> QED
  BY <1>2, <1>3, <1>4, <1>7, <1>9 DEF all

\* The images of a sequence put together: what an answer says in all its
\* events, batches, items or blocks.
Mapped(m, q) == FlattenSeq([i \in 1..Len(q) |-> m[q[i]]])

\* How it is computed from the ends of a sequence.
LEMMA MappedOf ==
  ASSUME NEW E, NEW T, NEW m \in [E -> Seq(T)]
  PROVE  /\ Mapped(m, <<>>) = <<>>
         /\ \A q \in Seq(E) : Mapped(m, q) \in Seq(T)
         /\ \A x \in E : Mapped(m, <<x>>) = m[x]
         /\ \A q, r \in Seq(E) : Mapped(m, q \o r) = Mapped(m, q) \o Mapped(m, r)
         /\ \A q \in Seq(E), x \in E : Mapped(m, Append(q, x)) = Mapped(m, q) \o m[x]
         /\ \A q \in Seq(E) : q # <<>> =>
               /\ Head(q) \in E /\ Tail(q) \in Seq(E)
               /\ Mapped(m, q) = m[Head(q)] \o Mapped(m, Tail(q))
<1> DEFINE img(q) == [i \in 1..Len(q) |-> m[q[i]]]
<1>1. \A q \in Seq(E) : img(q) \in Seq(Seq(T)) /\ Mapped(m, q) = FlattenSeq(img(q))
  BY DEF Mapped
<1>2. \A x \in E : img(<<x>>) = <<m[x]>> /\ m[x] \in Seq(T) /\ <<x>> \in Seq(E)
  OBVIOUS
<1>3. \A q, r \in Seq(E) : img(q \o r) = img(q) \o img(r)
  <2> SUFFICES ASSUME NEW q \in Seq(E), NEW r \in Seq(E) PROVE img(q \o r) = img(q) \o img(r)
    OBVIOUS
  <2> DEFINE a == q \o r
             m1 == Len(q)
             m2 == Len(r)
  <2>1. /\ a \in Seq(E) /\ Len(a) = m1 + m2 /\ m1 \in Nat /\ m2 \in Nat
        /\ \A i \in 1..m1 : a[i] = q[i]
        /\ \A i \in 1..m2 : a[m1 + i] = r[i]
    OBVIOUS
  <2>2. img(q) \in Seq(Seq(T)) /\ img(r) \in Seq(Seq(T)) /\ img(a) \in Seq(Seq(T))
    BY <1>1, <2>1
  <2>3. Len(img(q)) = m1 /\ Len(img(r)) = m2 /\ Len(img(a)) = Len(a)
    BY <2>1
  <2>4. /\ \A i \in 1..m1 : img(q)[i] = m[q[i]]
        /\ \A i \in 1..m2 : img(r)[i] = m[r[i]]
        /\ \A i \in 1..Len(a) : img(a)[i] = m[a[i]]
    BY <2>1
  <2> HIDE DEF a, m1, m2, img
  <2> DEFINE b == img(q) \o img(r)
  <2>5. /\ b \in Seq(Seq(T)) /\ Len(b) = m1 + m2
        /\ \A i \in 1..m1 : b[i] = img(q)[i]
        /\ \A i \in 1..m2 : b[m1 + i] = img(r)[i]
    <3> DEFINE x == img(q)
               y == img(r)
    <3>1. x \in Seq(Seq(T)) /\ y \in Seq(Seq(T)) /\ Len(x) = m1 /\ Len(y) = m2
      BY <2>2, <2>3
    <3> HIDE DEF x, y
    <3>2. /\ x \o y \in Seq(Seq(T)) /\ Len(x \o y) = m1 + m2
          /\ \A i \in 1..m1 : (x \o y)[i] = x[i]
          /\ \A i \in 1..m2 : (x \o y)[m1 + i] = y[i]
      <4>1. /\ \A p, z \in Seq(Seq(T)) : p \o z \in Seq(Seq(T)) /\ Len(p \o z) = Len(p) + Len(z)
            /\ \A p, z \in Seq(Seq(T)) : \A i \in 1..Len(p) : (p \o z)[i] = p[i]
            /\ \A p, z \in Seq(Seq(T)) : \A i \in 1..Len(z) : (p \o z)[Len(p) + i] = z[i]
        BY ONLY Concatenation, ZenonT(30)
      <4> QED BY ONLY <3>1, <4>1, ZenonT(30)
    <3> QED BY <3>2 DEF x, y, b
  <2> HIDE DEF b
  <2>6. ASSUME NEW i \in 1..(m1 + m2) PROVE img(a)[i] = b[i]
    <3>1. CASE i \in 1..m1
      <4>1. i \in 1..Len(a)
        BY <2>1, <3>1
      <4>2. a[i] = q[i] /\ img(q)[i] = m[q[i]] /\ b[i] = img(q)[i]
        BY ONLY <2>1, <2>4, <2>5, <3>1
      <4> QED BY ONLY <2>4, <4>1, <4>2
    <3>2. CASE i \notin 1..m1
      <4>1. i - m1 \in 1..m2 /\ m1 + (i - m1) = i
        BY ONLY <2>1, <3>2, i \in 1..(m1 + m2)
      <4>2. img(a)[i] = m[a[i]] /\ a[i] = r[i - m1] /\ b[i] = img(r)[i - m1]
        BY <2>1, <2>4, <2>5, <4>1
      <4> QED BY <2>4, <4>1, <4>2
    <3> QED BY <3>1, <3>2
  <2>7. img(a) = b
    BY ONLY <2>1, <2>2, <2>3, <2>5, <2>6, SeqEqual
  <2> QED BY <2>7 DEF a, b
<1>4. Mapped(m, <<>>) = <<>>
  BY FlattenOf DEF Mapped
<1> HIDE DEF img
<1>5. \A q \in Seq(E) : Mapped(m, q) \in Seq(T)
  BY <1>1, FlattenOf
<1>6. \A x \in E : Mapped(m, <<x>>) = m[x]
  <2> SUFFICES ASSUME NEW x \in E PROVE Mapped(m, <<x>>) = m[x]
    OBVIOUS
  <2>1. FlattenSeq(<<m[x]>>) = m[x]
    BY <1>2, FlattenOf
  <2> QED BY <1>1, <1>2, <2>1
<1>7. \A q, r \in Seq(E) : q \o r \in Seq(E) /\ Mapped(m, q \o r) = Mapped(m, q) \o Mapped(m, r)
  <2> SUFFICES ASSUME NEW q \in Seq(E), NEW r \in Seq(E)
               PROVE  q \o r \in Seq(E) /\ Mapped(m, q \o r) = Mapped(m, q) \o Mapped(m, r)
    OBVIOUS
  <2>1. q \o r \in Seq(E)
    OBVIOUS
  <2>2. FlattenSeq(img(q) \o img(r)) = FlattenSeq(img(q)) \o FlattenSeq(img(r))
    BY <1>1, FlattenConcat
  <2> QED BY <1>1, <1>3, <2>1, <2>2
<1>8. \A q \in Seq(E), x \in E : Mapped(m, Append(q, x)) = Mapped(m, q) \o m[x]
  <2> SUFFICES ASSUME NEW q \in Seq(E), NEW x \in E
               PROVE  Mapped(m, Append(q, x)) = Mapped(m, q) \o m[x]
    OBVIOUS
  <2>1. Append(q, x) = q \o <<x>> /\ <<x>> \in Seq(E)
    OBVIOUS
  <2> QED BY <1>6, <1>7, <2>1
<1>9. ASSUME NEW q \in Seq(E), q # <<>>
      PROVE  /\ Head(q) \in E /\ Tail(q) \in Seq(E)
             /\ Mapped(m, q) = m[Head(q)] \o Mapped(m, Tail(q))
  <2>1. Head(q) \in E /\ Tail(q) \in Seq(E) /\ <<Head(q)>> \in Seq(E)
    BY <1>9, HeadTailProperties
  <2>2. q = <<Head(q)>> \o Tail(q)
    BY <1>9
  <2>3. Mapped(m, <<Head(q)>> \o Tail(q)) = Mapped(m, <<Head(q)>>) \o Mapped(m, Tail(q))
    BY <1>7, <2>1
  <2> QED BY <1>6, <2>1, <2>2, <2>3
<1> QED
  BY <1>4, <1>5, <1>6, <1>7, <1>8, <1>9
-----------------------------------------------------------------------------
(***************************************************************************)
(* What events say.  The ids of calls are taken from a set U that grows    *)
(* with the stream: the providers' ids and those Ollama's adapter makes.   *)
(***************************************************************************)
Char == {c \in 1..DeltaBytes : c <= BlockBytes}
Tagged == Kinds \X Char
Batch == [kind : Kinds, text : Seq(Char)]
EventTypes == {"started", "completed", "delta", "usage", "unknown", "call", "arguments",
               "call_done", "builtin", "builtin_done"}
EventOf(U) == [type : EventTypes, id : Nat, call : U, kind : Kinds, text : Seq(Char), args : Nat]

\* What an event says: text and calls.
VisibleIn(e) == IF e.type = "delta" THEN Tag(e.kind, e.text) ELSE <<>>
AskedIn(e) == IF e.type = "call" THEN <<e.call>> ELSE <<>>
Visible(q) == FlattenSeq([i \in 1..Len(q) |-> VisibleIn(q[i])])
Asked(q) == FlattenSeq([i \in 1..Len(q) |-> AskedIn(q[i])])

\* A fragment is a text of characters.
LEMMA FragmentsAre ==
  Fragment \subseteq Seq(Char)
<1> SUFFICES ASSUME NEW t \in Fragment PROVE t \in Seq(Char)
  OBVIOUS
<1>1. t \in Seq(1..DeltaBytes) /\ \A i \in DOMAIN t : t[i] <= BlockBytes
  BY LiveDeltaAssumption, ProviderCallAssumption
<1> DEFINE W == 1..DeltaBytes
<1>2. Len(t) \in Nat /\ DOMAIN t = 1..Len(t) /\ \A i \in 1..Len(t) : t[i] \in W
  <2>1. t \in Seq(W)
    BY <1>1
  <2> HIDE DEF W
  <2> QED BY <2>1
<1>3. t = [i \in 1..Len(t) |-> t[i]] /\ \A i \in 1..Len(t) : t[i] \in Char
  <2> HIDE DEF Char
  <2>1. t = [i \in 1..Len(t) |-> t[i]]
    BY <1>1, <1>2
  <2> QED BY <1>1, <1>2, <2>1 DEF Char
<1> HIDE DEF Char
<1>4. [i \in 1..Len(t) |-> t[i]] \in Seq(Char)
  BY ONLY <1>2, <1>3
<1> QED
  BY <1>3, <1>4

\* Tags of a text, character by character.
LEMMA TagOf ==
  /\ \A k \in Kinds : Tag(k, <<>>) = <<>>
  /\ \A k \in Kinds, t \in Seq(Char) : Tag(k, t) \in Seq(Tagged) /\ Len(Tag(k, t)) = Len(t)
  /\ \A k \in Kinds, t \in Seq(Char), c \in Char :
        /\ Tag(k, <<c>>) = <<<<k, c>>>> /\ <<k, c>> \in Tagged
        /\ Tag(k, Append(t, c)) = Append(Tag(k, t), <<k, c>>)
  BY DEF Tag, Tagged

\* The visible text and the calls of a queue of events.
LEMMA EventsSay ==
  ASSUME NEW U
  PROVE  /\ Visible(<<>>) = <<>> /\ Asked(<<>>) = <<>>
         /\ \A q \in Seq(EventOf(U)) : Visible(q) \in Seq(Tagged) /\ Asked(q) \in Seq(U)
         /\ \A e \in EventOf(U) : Visible(<<e>>) = VisibleIn(e) /\ Asked(<<e>>) = AskedIn(e)
         /\ \A q, r \in Seq(EventOf(U)) : /\ Visible(q \o r) = Visible(q) \o Visible(r)
                                          /\ Asked(q \o r) = Asked(q) \o Asked(r)
         /\ \A q \in Seq(EventOf(U)) : q # <<>> =>
               /\ Head(q) \in EventOf(U) /\ Tail(q) \in Seq(EventOf(U))
               /\ Visible(q) = VisibleIn(Head(q)) \o Visible(Tail(q))
               /\ Asked(q) = AskedIn(Head(q)) \o Asked(Tail(q))
<1> DEFINE E == EventOf(U)
           v == [e \in E |-> VisibleIn(e)]
           a == [e \in E |-> AskedIn(e)]
<1>1. v \in [E -> Seq(Tagged)]
  <2> SUFFICES ASSUME NEW e \in E PROVE VisibleIn(e) \in Seq(Tagged)
    OBVIOUS
  <2>1. e.kind \in Kinds /\ e.text \in Seq(Char)
    BY DEF EventOf
  <2> QED BY <2>1, TagOf DEF VisibleIn
<1>2. a \in [E -> Seq(U)]
  <2> SUFFICES ASSUME NEW e \in E PROVE AskedIn(e) \in Seq(U)
    OBVIOUS
  <2>1. e.call \in U
    BY DEF EventOf
  <2> QED BY <2>1 DEF AskedIn
<1>3. \A q \in Seq(E) : Visible(q) = Mapped(v, q) /\ Asked(q) = Mapped(a, q)
  <2> SUFFICES ASSUME NEW q \in Seq(E) PROVE Visible(q) = Mapped(v, q) /\ Asked(q) = Mapped(a, q)
    OBVIOUS
  <2>1. \A i \in 1..Len(q) : q[i] \in E
    OBVIOUS
  <2>2. /\ [i \in 1..Len(q) |-> VisibleIn(q[i])] = [i \in 1..Len(q) |-> v[q[i]]]
        /\ [i \in 1..Len(q) |-> AskedIn(q[i])] = [i \in 1..Len(q) |-> a[q[i]]]
    BY <2>1
  <2> QED BY <2>2 DEF Visible, Asked, Mapped
<1>4. <<>> \in Seq(E) /\ (\A e \in E : <<e>> \in Seq(E)) /\ (\A q, r \in Seq(E) : q \o r \in Seq(E))
  OBVIOUS
<1>5. \A e \in E : v[e] = VisibleIn(e) /\ a[e] = AskedIn(e)
  OBVIOUS
<1> HIDE DEF E, v, a
<1>6. /\ Mapped(v, <<>>) = <<>>
      /\ \A q \in Seq(E) : Mapped(v, q) \in Seq(Tagged)
      /\ \A x \in E : Mapped(v, <<x>>) = v[x]
      /\ \A q, r \in Seq(E) : Mapped(v, q \o r) = Mapped(v, q) \o Mapped(v, r)
      /\ \A q \in Seq(E) : q # <<>> =>
            /\ Head(q) \in E /\ Tail(q) \in Seq(E)
            /\ Mapped(v, q) = v[Head(q)] \o Mapped(v, Tail(q))
  BY ONLY SMTT(30), <1>1, MappedOf
<1>7. /\ Mapped(a, <<>>) = <<>>
      /\ \A q \in Seq(E) : Mapped(a, q) \in Seq(U)
      /\ \A x \in E : Mapped(a, <<x>>) = a[x]
      /\ \A q, r \in Seq(E) : Mapped(a, q \o r) = Mapped(a, q) \o Mapped(a, r)
      /\ \A q \in Seq(E) : q # <<>> =>
            /\ Head(q) \in E /\ Tail(q) \in Seq(E)
            /\ Mapped(a, q) = a[Head(q)] \o Mapped(a, Tail(q))
  BY ONLY SMTT(30), <1>2, MappedOf
<1>8. Visible(<<>>) = <<>> /\ Asked(<<>>) = <<>>
  BY <1>3, <1>4, <1>6, <1>7
<1>9. \A q \in Seq(E) : Visible(q) \in Seq(Tagged) /\ Asked(q) \in Seq(U)
  BY <1>3, <1>6, <1>7
<1>10. \A e \in E : Visible(<<e>>) = VisibleIn(e) /\ Asked(<<e>>) = AskedIn(e)
  BY <1>3, <1>4, <1>5, <1>6, <1>7
<1>11. \A q, r \in Seq(E) : /\ Visible(q \o r) = Visible(q) \o Visible(r)
                            /\ Asked(q \o r) = Asked(q) \o Asked(r)
  <2> SUFFICES ASSUME NEW q \in Seq(E), NEW r \in Seq(E)
               PROVE  /\ Visible(q \o r) = Visible(q) \o Visible(r)
                      /\ Asked(q \o r) = Asked(q) \o Asked(r)
    OBVIOUS
  <2>1. q \o r \in Seq(E)
    BY <1>4
  <2>2. Mapped(v, q \o r) = Mapped(v, q) \o Mapped(v, r) /\ Mapped(a, q \o r) = Mapped(a, q) \o Mapped(a, r)
    BY <1>6, <1>7
  <2> QED BY ONLY <1>3, <2>1, <2>2, q \in Seq(E), r \in Seq(E)
<1>12. \A q \in Seq(E) : q # <<>> =>
               /\ Head(q) \in E /\ Tail(q) \in Seq(E)
               /\ Visible(q) = VisibleIn(Head(q)) \o Visible(Tail(q))
               /\ Asked(q) = AskedIn(Head(q)) \o Asked(Tail(q))
  BY ZenonT(30), <1>3, <1>5, <1>6, <1>7
<1> QED
  BY <1>8, <1>9, <1>10, <1>11, <1>12 DEF E

\* One event, and the two that end a stream.
LEMMA FewEvents ==
  ASSUME NEW U, NEW d \in EventOf(U), NEW e \in EventOf(U)
  PROVE  /\ <<e>> \in Seq(EventOf(U)) /\ <<d, e>> \in Seq(EventOf(U)) /\ <<>> \in Seq(EventOf(U))
         /\ Visible(<<d, e>>) = VisibleIn(d) \o VisibleIn(e)
         /\ Asked(<<d, e>>) = AskedIn(d) \o AskedIn(e)
<1> DEFINE E == EventOf(U)
<1>1. d \in E /\ e \in E
  OBVIOUS
<1> HIDE DEF E
<1>2. <<d>> \in Seq(E) /\ <<e>> \in Seq(E) /\ <<d, e>> \in Seq(E) /\ <<>> \in Seq(E)
  BY ONLY <1>1
<1>3. <<d, e>> = <<d>> \o <<e>>
  <2> DEFINE x == <<d>>
             y == <<e>>
             z == <<d, e>>
  <2>1. /\ x \in Seq(E) /\ y \in Seq(E) /\ z \in Seq(E)
        /\ Len(x) = 1 /\ Len(y) = 1 /\ Len(z) = 2 /\ x[1] = d /\ y[1] = e /\ z[1] = d /\ z[2] = e
    BY <1>2
  <2> HIDE DEF x, y, z
  <2>2. /\ x \o y \in Seq(E) /\ Len(x \o y) = 1 + 1
        /\ \A i \in 1..1 : (x \o y)[i] = x[i]
        /\ \A i \in 1..1 : (x \o y)[1 + i] = y[i]
    <3>1. /\ \A p, q \in Seq(E) : p \o q \in Seq(E) /\ Len(p \o q) = Len(p) + Len(q)
          /\ \A p, q \in Seq(E) : \A i \in 1..Len(p) : (p \o q)[i] = p[i]
          /\ \A p, q \in Seq(E) : \A i \in 1..Len(q) : (p \o q)[Len(p) + i] = q[i]
      BY ONLY Concatenation, ZenonT(30)
    <3>2. /\ x \o y \in Seq(E) /\ Len(x \o y) = Len(x) + Len(y)
          /\ \A i \in 1..Len(x) : (x \o y)[i] = x[i]
          /\ \A i \in 1..Len(y) : (x \o y)[Len(x) + i] = y[i]
      BY ONLY <2>1, <3>1, ZenonT(30)
    <3> QED BY ONLY <2>1, <3>2
  <2>3. (x \o y)[1] = d /\ (x \o y)[2] = e /\ Len(x \o y) = 2
    BY ONLY <2>1, <2>2
  <2>4. z = x \o y
    BY ONLY <2>1, <2>2, <2>3, SeqEqual
  <2> QED BY <2>4 DEF x, y, z
<1>4. /\ Visible(<<d>> \o <<e>>) = Visible(<<d>>) \o Visible(<<e>>)
      /\ Asked(<<d>> \o <<e>>) = Asked(<<d>>) \o Asked(<<e>>)
  <2>1. \A q, r \in Seq(E) : /\ Visible(q \o r) = Visible(q) \o Visible(r)
                             /\ Asked(q \o r) = Asked(q) \o Asked(r)
    BY EventsSay DEF E
  <2> QED BY ONLY <1>2, <2>1
<1>5. /\ Visible(<<d>>) = VisibleIn(d) /\ Asked(<<d>>) = AskedIn(d)
      /\ Visible(<<e>>) = VisibleIn(e) /\ Asked(<<e>>) = AskedIn(e)
  BY EventsSay
<1> QED
  BY ONLY <1>2, <1>3, <1>4, <1>5 DEF E
-----------------------------------------------------------------------------
(***************************************************************************)
(* What the normalisers make of a frame.                                   *)
(***************************************************************************)
ItemOf(U) == [kind : {"none", "function", "builtin", "text", "closed"}, call : U, args : Nat]
Norm(U) == [started : BOOLEAN, completed : BOOLEAN, stop : BOOLEAN, id : Nat,
            items : [Item -> ItemOf(U)], seen : SUBSET U, done : SUBSET U, visible : Nat, wire : Nat]

\* What a frame says: text, calls and an end.
HeardText(w) == Tag(IF w.type = "delta" THEN w.kind ELSE "text", w.text)
HeardCalls(w) == w.calls + (IF w.kind = "function" THEN 1 ELSE 0)
HeardEnd(w) == w.done \/ w.type \in {"completed", "message_stop"}

\* The events are what the frame says.
Says(out, w, U, ended) ==
  /\ out \in Seq(EventOf(U))
  /\ Visible(out) = HeardText(w)
  /\ Len(Asked(out)) = HeardCalls(w)
  /\ \A i \in DOMAIN out : out[i].type = "completed" => ended

\* After its end a stream is refused, but for a second start of Anthropic's,
\* whose end will not be accepted.
Ends(mode, n, m, w) ==
  /\ m.completed <=> n.completed \/ HeardEnd(w)
  /\ n.completed => mode = "anthropic" /\ ~n.started /\ m.started
  /\ mode = "anthropic" /\ m.completed => m.stop

\* What an accepted frame leaves: a state, its events and its end.
Accepts(mode, n, w, r, U) ==
  r.ok => /\ r.n \in Norm(U)
          /\ Says(r.out, w, U, r.n.completed)
          /\ Ends(mode, n, r.n, w)

\* The fields every frame has.
WireFrame(w) ==
  /\ w.id \in Nat /\ w.item \in Item /\ w.text \in Seq(Char)
  /\ w.args \in Nat /\ w.tokens \in Nat /\ w.calls \in Nat /\ w.done \in BOOLEAN

\* The events the normalisers make.
LEMMA EventsAre ==
  ASSUME NEW U, 0 \in U
  PROVE  /\ \A id \in Nat : Started(id) \in EventOf(U) /\ Started(id).type = "started"
         /\ \A id \in Nat : Completed(id) \in EventOf(U) /\ Completed(id).type = "completed"
         /\ Event("usage") \in EventOf(U) /\ Event("usage").type = "usage"
         /\ Event("unknown") \in EventOf(U) /\ Event("unknown").type = "unknown"
         /\ \A k \in Kinds, t \in Seq(Char) :
               /\ Delta(k, t) \in EventOf(U) /\ Delta(k, t).type = "delta"
               /\ Delta(k, t).kind = k /\ Delta(k, t).text = t
         /\ \A type \in {"call", "arguments", "call_done", "builtin", "builtin_done"},
              call \in U, args \in Nat :
               /\ CallEvent(type, call, args) \in EventOf(U) /\ CallEvent(type, call, args).type = type
               /\ CallEvent(type, call, args).call = call
<1>1. \A type \in EventTypes : Event(type) \in EventOf(U) /\ Event(type).type = type
  <2>1. <<>> \in Seq(Char) /\ "text" \in Kinds
    BY DEF Kinds
  <2> QED BY <2>1 DEF Event, EventOf
<1>2. /\ \A id \in Nat : Started(id) \in EventOf(U) /\ Started(id).type = "started"
      /\ \A id \in Nat : Completed(id) \in EventOf(U) /\ Completed(id).type = "completed"
  BY <1>1 DEF Started, Completed, EventTypes, EventOf
<1>3. /\ Event("usage") \in EventOf(U) /\ Event("usage").type = "usage"
      /\ Event("unknown") \in EventOf(U) /\ Event("unknown").type = "unknown"
  BY <1>1 DEF EventTypes
<1>4. ASSUME NEW k \in Kinds, NEW t \in Seq(Char)
      PROVE  /\ Delta(k, t) \in EventOf(U) /\ Delta(k, t).type = "delta"
             /\ Delta(k, t).kind = k /\ Delta(k, t).text = t
  BY <1>1 DEF Delta, EventTypes, EventOf
<1>5. ASSUME NEW type \in {"call", "arguments", "call_done", "builtin", "builtin_done"},
             NEW call \in U, NEW args \in Nat
      PROVE  /\ CallEvent(type, call, args) \in EventOf(U) /\ CallEvent(type, call, args).type = type
             /\ CallEvent(type, call, args).call = call
  BY ZenonT(30), <1>1 DEF CallEvent, EventTypes, EventOf
<1> QED
  BY <1>2, <1>3, <1>4, <1>5

\* No event for a frame that says nothing.
LEMMA SaysNothing ==
  ASSUME NEW U, NEW w, NEW ended, WireFrame(w), w.text = <<>>, w.type # "delta", HeardCalls(w) = 0
  PROVE  Says(<<>>, w, U, ended)
<1>1. HeardText(w) = <<>>
  BY TagOf DEF HeardText, Kinds
<1>2. Visible(<<>>) = <<>> /\ Asked(<<>>) = <<>>
  BY EventsSay
<1> QED
  BY <1>1, <1>2 DEF Says

\* One event that says what the frame says.
LEMMA SaysOne ==
  ASSUME NEW U, NEW w, NEW ended, NEW e \in EventOf(U),
         VisibleIn(e) = HeardText(w), Len(AskedIn(e)) = HeardCalls(w),
         e.type # "completed"
  PROVE  Says(<<e>>, w, U, ended)
<1>1. Visible(<<e>>) = VisibleIn(e) /\ Asked(<<e>>) = AskedIn(e)
  BY EventsSay
<1>2. <<e>> \in Seq(EventOf(U)) /\ \A i \in DOMAIN <<e>> : <<e>>[i].type # "completed"
  OBVIOUS
<1> QED
  BY <1>1, <1>2 DEF Says

\* The two events of an end.
LEMMA SaysEnd ==
  ASSUME NEW U, 0 \in U, NEW id \in Nat, NEW w, WireFrame(w),
         w.text = <<>>, w.type # "delta", HeardCalls(w) = 0
  PROVE  Says(<<Event("usage"), Completed(id)>>, w, U, TRUE)
<1>1. HeardText(w) = <<>>
  BY TagOf DEF HeardText, Kinds
<1> DEFINE d == Event("usage")
           e == Completed(id)
<1>2. d \in EventOf(U) /\ e \in EventOf(U) /\ d.type = "usage" /\ e.type = "completed"
  BY EventsAre
<1> HIDE DEF d, e
<1>3. /\ <<d, e>> \in Seq(EventOf(U))
      /\ Visible(<<d, e>>) = VisibleIn(d) \o VisibleIn(e)
      /\ Asked(<<d, e>>) = AskedIn(d) \o AskedIn(e)
  BY <1>2, FewEvents
<1>4. /\ VisibleIn(d) = <<>> /\ VisibleIn(e) = <<>> /\ AskedIn(d) = <<>> /\ AskedIn(e) = <<>>
  BY <1>2 DEF VisibleIn, AskedIn
<1>5. <<>> \o <<>> = <<>> /\ Len(<<>>) = 0
  OBVIOUS
<1>6. Says(<<d, e>>, w, U, TRUE)
  BY <1>1, <1>3, <1>4, <1>5 DEF Says
<1> QED
  BY <1>6 DEF d, e

\* A frame of OpenAI: only a delta has text, only an added function is a call,
\* only the end is an end.
LEMMA OpenAiFrameIs ==
  ASSUME NEW w \in OpenAiFrames
  PROVE  /\ WireFrame(w) /\ w.calls = 0 /\ ~w.done
         /\ w.type \in {"created", "delta", "added", "arguments", "item_done", "builtin_done",
                        "completed", "other"}
         /\ w.type = "delta" => w.kind \in Kinds
         /\ w.type # "delta" => w.text = <<>>
         /\ w.type = "added" => w.kind \in {"function", "builtin", "message"} /\ w.call \in CallId \cup {0}
         /\ w.type # "added" => w.kind # "function"
<1>0. 1 \in Item /\ <<>> \in Seq(Char) /\ Fragment \subseteq Seq(Char) /\ "text" \in Kinds
      /\ "function" \notin Kinds /\ WholeArgs = 2
  BY FragmentsAre, AdaptersAssumption DEF Item, Kinds, WholeArgs
<1>1. \/ \E i \in ResponseId : w = CreatedFrame(i)
      \/ \E k \in Kinds, t \in Fragment : w = DeltaFrame(k, t)
      \/ \E i \in Item, k \in {"function", "builtin"}, c \in CallId : w = AddedFrame(i, k, c)
      \/ \E i \in Item : w = AddedFrame(i, "message", 0)
      \/ \E i \in Item : w = ArgumentsFrame(i)
      \/ \E i \in Item, a \in 1..WholeArgs : w = ItemDoneFrame(i, a)
      \/ \E i \in Item : w = BuiltinDoneFrame(i)
      \/ \E i \in ResponseId, t \in 1..2 : w = CompletedFrame(i, t)
      \/ w = Frame("other")
  BY ONLY w \in OpenAiFrames DEF OpenAiFrames
<1>2. CASE \E i \in ResponseId : w = CreatedFrame(i)
  BY <1>0, <1>2 DEF WireFrame, Frame, ResponseId, CreatedFrame
<1>3. CASE \E k \in Kinds, t \in Fragment : w = DeltaFrame(k, t)
  BY <1>0, <1>3 DEF WireFrame, Frame, ResponseId, DeltaFrame
<1>4. CASE \E i \in Item, k \in {"function", "builtin"}, c \in CallId : w = AddedFrame(i, k, c)
  BY <1>0, <1>4 DEF WireFrame, Frame, ResponseId, AddedFrame
<1>5. CASE \E i \in Item : w = AddedFrame(i, "message", 0)
  BY <1>0, <1>5 DEF WireFrame, Frame, ResponseId, AddedFrame
<1>6. CASE \E i \in Item : w = ArgumentsFrame(i)
  BY <1>0, <1>6 DEF WireFrame, Frame, ResponseId, ArgumentsFrame
<1>7. CASE \E i \in Item, a \in 1..WholeArgs : w = ItemDoneFrame(i, a)
  BY <1>0, <1>7 DEF WireFrame, Frame, ResponseId, ItemDoneFrame
<1>8. CASE \E i \in Item : w = BuiltinDoneFrame(i)
  BY <1>0, <1>8 DEF WireFrame, Frame, ResponseId, BuiltinDoneFrame
<1>9. CASE \E i \in ResponseId, t \in 1..2 : w = CompletedFrame(i, t)
  BY <1>0, <1>9 DEF WireFrame, Frame, ResponseId, CompletedFrame
<1>10. CASE w = Frame("other")
  BY <1>0, <1>10 DEF WireFrame, Frame
<1> QED
  BY <1>1, <1>2, <1>3, <1>4, <1>5, <1>6, <1>7, <1>8, <1>9, <1>10, ZenonT(30)

\* Visible text, of OpenAI and Anthropic.
LEMMA RecordedText ==
  ASSUME NEW U, 0 \in U, NEW n \in Norm(U), NEW w, NEW maximum, WireFrame(w), w.kind \in Kinds,
         w.calls = 0, w.type # "delta" => w.kind = "text"
  PROVE  LET r == RecordVisible(n, w, maximum)
         IN r.ok => /\ r.n \in Norm(U) /\ Says(r.out, w, U, r.n.completed)
                    /\ r.n.completed = n.completed /\ r.n.started = n.started /\ r.n.stop = n.stop
<1> DEFINE m == [n EXCEPT !.visible = @ + Bytes(w.text)]
           e == Delta(w.kind, w.text)
<1>1. Bytes(w.text) \in Nat
  <2>1. w.text \in Seq(Nat)
    <3>1. w.text \in Seq(Char) /\ \A c \in Char : c \in Nat
      BY DEF WireFrame, Char
    <3> QED BY ONLY <3>1
  <2> QED BY <2>1, BytesOf
<1>2. m \in Norm(U) /\ m.completed = n.completed /\ m.started = n.started /\ m.stop = n.stop
  BY <1>1 DEF Norm
<1>3. Says(<<e>>, w, U, m.completed)
  <2>1. e \in EventOf(U) /\ e.type = "delta" /\ e.kind = w.kind /\ e.text = w.text
    BY EventsAre DEF WireFrame
  <2>2. VisibleIn(e) = HeardText(w) /\ AskedIn(e) = <<>> /\ HeardCalls(w) = 0
    BY <2>1 DEF VisibleIn, AskedIn, HeardText, HeardCalls, Kinds
  <2> HIDE DEF e
  <2> QED BY <2>1, <2>2, SaysOne
<1> HIDE DEF m, e
<1>4. RecordVisible(n, w, maximum).ok => RecordVisible(n, w, maximum) = Emit(m, <<e>>)
  BY DEF RecordVisible, Rejected, m, e
<1>5. Emit(m, <<e>>).n = m /\ Emit(m, <<e>>).out = <<e>>
  BY DEF Emit
<1> QED
  BY <1>2, <1>3, <1>4, <1>5

\* The normaliser of the Responses streams.
LEMMA OpenAiAccepts ==
  ASSUME NEW U, 0 \in U, CallId \subseteq U, NEW n \in Norm(U), NEW w \in OpenAiFrames, NEW limits
  PROVE  Accepts("openai", n, w, OpenAiNormalize(n, w, limits), U)
<1> DEFINE r == OpenAiNormalize(n, w, limits)
<1>1. /\ WireFrame(w) /\ w.calls = 0 /\ ~w.done
      /\ w.type \in {"created", "delta", "added", "arguments", "item_done", "builtin_done",
                     "completed", "other"}
      /\ w.type = "delta" => w.kind \in Kinds
      /\ w.type # "delta" => w.text = <<>>
      /\ w.type = "added" => w.kind \in {"function", "builtin", "message"} /\ w.call \in CallId \cup {0}
      /\ w.type # "added" => w.kind # "function"
  BY OpenAiFrameIs
<1>2. /\ n.started \in BOOLEAN /\ n.completed \in BOOLEAN /\ n.stop \in BOOLEAN /\ n.id \in Nat
      /\ n.items \in [Item -> ItemOf(U)] /\ n.seen \in SUBSET U /\ n.done \in SUBSET U
  BY DEF Norm
<1>3. w.type # "delta" => HeardText(w) = <<>>
  BY <1>1, TagOf DEF HeardText, Kinds
<1>4. HeardCalls(w) = (IF w.kind = "function" THEN 1 ELSE 0) /\ HeardEnd(w) = (w.type = "completed")
  BY <1>1 DEF HeardCalls, HeardEnd
<1>5. w.item \in Item /\ n.items[w.item] \in ItemOf(U)
  BY <1>1, <1>2 DEF WireFrame
<1>6. /\ n.items[w.item].call \in U /\ n.items[w.item].args \in Nat
      /\ n.items[w.item].kind \in {"none", "function", "builtin", "text", "closed"}
  BY <1>5 DEF ItemOf
<1>7. SUFFICES ASSUME r.ok
               PROVE  r.n \in Norm(U) /\ Says(r.out, w, U, r.n.completed) /\ Ends("openai", n, r.n, w)
  BY DEF Accepts
<1>8. \A m, out : Emit(m, out).n = m /\ Emit(m, out).out = out /\ Emit(m, out).ok
  BY DEF Emit
<1>9. \A m : ~Rejected(m).ok
  BY DEF Rejected
<1>10. CASE w.type = "created"
  <2>1. r = ResponseCreated(n, w)
    BY ONLY <1>10 DEF OpenAiNormalize
  <2> DEFINE m == [n EXCEPT !.started = TRUE, !.id = w.id]
  <2>2. ~n.started /\ ~n.completed /\ r = Emit(m, <<Started(w.id)>>)
    BY <1>7, <1>9, <2>1 DEF ResponseCreated
  <2>3. m \in Norm(U) /\ m.completed = n.completed
    BY <1>1 DEF Norm, WireFrame
  <2>4. Says(<<Started(w.id)>>, w, U, m.completed)
    <3>1. Started(w.id) \in EventOf(U) /\ Started(w.id).type = "started"
      BY <1>1, EventsAre DEF WireFrame
    <3>2. VisibleIn(Started(w.id)) = <<>> /\ AskedIn(Started(w.id)) = <<>>
      BY <3>1 DEF VisibleIn, AskedIn
    <3>3. w.kind # "function"
      BY <1>1, <1>10
    <3> QED BY <1>3, <1>4, <1>10, <3>1, <3>2, <3>3, SaysOne
  <2> HIDE DEF m
  <2>5. Ends("openai", n, m, w)
    BY <1>4, <1>10, <2>2, <2>3 DEF Ends
  <2> QED BY <1>8, <2>2, <2>3, <2>4, <2>5
<1>11. ASSUME w.type # "created" PROVE n.started /\ ~n.completed
  <2>1. CASE ~n.started \/ n.completed
    <3>1. r = Rejected(n)
      BY ONLY <1>11, <2>1 DEF OpenAiNormalize
    <3> QED BY <1>7, <1>9, <3>1
  <2> QED BY <1>2, <2>1
<1>12. ASSUME NEW m, m.completed = n.completed, ~HeardEnd(w), ~n.completed
       PROVE  Ends("openai", n, m, w)
  BY <1>2, <1>12 DEF Ends
<1>13. CASE w.type = "delta"
  <2>1. r = RecordVisible(n, w, limits.visible)
    BY <1>11, <1>13 DEF OpenAiNormalize
  <2>2. /\ r.n \in Norm(U) /\ Says(r.out, w, U, r.n.completed)
        /\ r.n.completed = n.completed
    BY <1>1, <1>7, <1>13, <2>1, RecordedText
  <2>3. Ends("openai", n, r.n, w)
    BY <1>4, <1>11, <1>13, <1>12, <2>2
  <2> QED BY <2>2, <2>3
<1> DEFINE it == n.items[w.item]
<1>14. CASE w.type = "added"
  <2>1. r = OutputItemAdded(n, w, limits.builtins)
    BY <1>11, <1>14 DEF OpenAiNormalize
  <2>2. CASE w.kind = "message"
    <3>1. r = Emit(n, <<>>)
      BY <1>7, <1>9, <2>1, <2>2 DEF OutputItemAdded
    <3>2. Says(<<>>, w, U, n.completed)
      BY <1>1, <1>4, <1>14, <2>2, SaysNothing
    <3>3. Ends("openai", n, n, w)
      BY <1>4, <1>11, <1>14, <1>12
    <3> QED BY <1>8, <3>1, <3>2, <3>3
  <2>3. CASE w.kind # "message"
    <3> DEFINE m == [n EXCEPT !.items[w.item] = [kind |-> w.kind, call |-> w.call, args |-> w.args],
                              !.seen = @ \cup {w.call}]
               e == CallEvent(IF w.kind = "function" THEN "call" ELSE "builtin", w.call, 0)
    <3>1. r = Emit(m, <<e>>)
      BY <1>7, <1>9, <2>1, <2>3 DEF OutputItemAdded
    <3>2. w.kind \in {"function", "builtin"} /\ w.call \in U /\ w.args \in Nat
      BY <1>1, <1>14, <2>3 DEF WireFrame
    <3>3. m \in Norm(U) /\ m.completed = n.completed
      BY <1>5, <3>2 DEF Norm, ItemOf
    <3>4. Says(<<e>>, w, U, m.completed)
      <4>1. e \in EventOf(U) /\ e.type = (IF w.kind = "function" THEN "call" ELSE "builtin")
        BY <3>2, EventsAre
      <4>2. VisibleIn(e) = <<>> /\ Len(AskedIn(e)) = HeardCalls(w)
        BY <1>4, <4>1 DEF VisibleIn, AskedIn
      <4> HIDE DEF e, m
      <4> QED BY <1>3, <1>14, <4>1, <4>2, SaysOne
    <3> HIDE DEF m, e
    <3>5. Ends("openai", n, m, w)
      BY <1>4, <1>11, <1>14, <1>12, <3>3
    <3> QED BY <1>8, <3>1, <3>3, <3>4, <3>5
  <2> QED BY <2>2, <2>3
<1>15. ASSUME NEW m, NEW e \in EventOf(U), r = Emit(m, <<e>>), m \in Norm(U), m.completed = n.completed,
              w.type \in {"arguments", "item_done", "builtin_done", "other"},
              e.type \in {"arguments", "call_done", "builtin_done", "unknown"}
       PROVE  r.n \in Norm(U) /\ Says(r.out, w, U, r.n.completed) /\ Ends("openai", n, r.n, w)
  <2>1. VisibleIn(e) = <<>> /\ AskedIn(e) = <<>>
    BY <1>15 DEF VisibleIn, AskedIn
  <2>2. HeardText(w) = <<>> /\ HeardCalls(w) = 0 /\ ~HeardEnd(w) /\ ~n.completed
    BY <1>1, <1>3, <1>4, <1>11, <1>15
  <2>3. Says(<<e>>, w, U, m.completed)
    BY <1>15, <2>1, <2>2, SaysOne
  <2>4. Ends("openai", n, m, w)
    BY <1>15, <1>12, <2>2
  <2> QED BY <1>8, <1>15, <2>3, <2>4
<1>16. ASSUME r = Emit(n, <<>>), w.type \in {"item_done", "builtin_done"}
       PROVE  r.n \in Norm(U) /\ Says(r.out, w, U, r.n.completed) /\ Ends("openai", n, r.n, w)
  <2>1. HeardCalls(w) = 0 /\ ~HeardEnd(w) /\ ~n.completed
    BY <1>1, <1>4, <1>11, <1>16
  <2>2. Says(<<>>, w, U, n.completed)
    BY <1>1, <1>16, <2>1, SaysNothing
  <2>3. Ends("openai", n, n, w)
    BY <1>12, <2>1
  <2> QED BY <1>8, <1>16, <2>2, <2>3
<1>17. CASE w.type = "arguments"
  <2> DEFINE m == [n EXCEPT !.items[w.item].args = @ + w.args]
             e == CallEvent("arguments", it.call, w.args)
  <2>1. r = Emit(m, <<e>>)
    BY <1>7, <1>9, <1>11, <1>17 DEF OpenAiNormalize, ArgumentsDelta
  <2>2. m \in Norm(U) /\ m.completed = n.completed
    <3> DEFINE j == [it EXCEPT !.args = @ + w.args]
    <3>1. it \in ItemOf(U) /\ w.args \in Nat /\ w.item \in Item
      BY <1>1, <1>5 DEF WireFrame
    <3>2. j \in ItemOf(U)
      BY <3>1 DEF ItemOf
    <3>3. m = [n EXCEPT !.items[w.item] = j]
      BY <1>2, <3>1 DEF Norm
    <3> HIDE DEF it, j
    <3> QED BY <3>1, <3>2, <3>3 DEF Norm
  <2>3. e \in EventOf(U) /\ e.type = "arguments"
    BY <1>1, <1>6, EventsAre DEF WireFrame
  <2> HIDE DEF m, e
  <2> QED BY <1>15, <1>17, <2>1, <2>2, <2>3
<1>18. CASE w.type = "item_done"
  <2> DEFINE m == [n EXCEPT !.done = @ \cup {it.call}]
             e == CallEvent("call_done", it.call, w.args)
  <2>1. r = Emit(n, <<>>) \/ r = Emit(m, <<e>>)
    BY <1>7, <1>9, <1>11, <1>18 DEF OpenAiNormalize, CompleteFunction
  <2>2. m \in Norm(U) /\ m.completed = n.completed
    BY <1>6 DEF Norm
  <2>3. e \in EventOf(U) /\ e.type = "call_done"
    BY <1>1, <1>6, EventsAre DEF WireFrame
  <2> HIDE DEF m, e
  <2> QED BY <1>15, <1>16, <1>18, <2>1, <2>2, <2>3
<1>19. CASE w.type = "builtin_done"
  <2> DEFINE m == [n EXCEPT !.done = @ \cup {it.call}]
             e == CallEvent("builtin_done", it.call, 0)
  <2>1. r = Emit(n, <<>>) \/ r = Emit(m, <<e>>)
    BY <1>7, <1>9, <1>11, <1>19 DEF OpenAiNormalize, CompleteBuiltin
  <2>2. m \in Norm(U) /\ m.completed = n.completed
    BY <1>6 DEF Norm
  <2>3. e \in EventOf(U) /\ e.type = "builtin_done"
    BY <1>6, EventsAre
  <2> HIDE DEF m, e
  <2> QED BY <1>15, <1>16, <1>19, <2>1, <2>2, <2>3
<1>20. CASE w.type = "completed"
  <2> DEFINE m == [n EXCEPT !.completed = TRUE]
             out == <<Event("usage"), Completed(w.id)>>
  <2>1. r = Emit(m, out)
    BY <1>7, <1>9, <1>11, <1>20 DEF OpenAiNormalize, ResponseCompleted
  <2>2. m \in Norm(U) /\ m.completed = TRUE
    BY DEF Norm
  <2>3. Says(out, w, U, m.completed)
    <3>1. HeardCalls(w) = 0 /\ w.text = <<>> /\ w.id \in Nat
      BY <1>1, <1>4, <1>20 DEF WireFrame
    <3>2. Says(out, w, U, TRUE)
      BY <1>1, <1>20, <3>1, SaysEnd
    <3> QED BY <2>2, <3>2 DEF Says
  <2> HIDE DEF m, out
  <2>4. Ends("openai", n, m, w)
    BY <1>4, <1>11, <1>20, <2>2 DEF Ends
  <2> QED BY <1>8, <2>1, <2>2, <2>3, <2>4
<1>21. CASE w.type = "other"
  <2>1. r = Emit(n, <<Event("unknown")>>)
    BY <1>11, <1>21 DEF OpenAiNormalize
  <2>2. Event("unknown") \in EventOf(U) /\ Event("unknown").type = "unknown"
    BY EventsAre
  <2> QED BY <1>15, <1>21, <2>1, <2>2
<1> QED
  BY <1>1, <1>10, <1>13, <1>14, <1>17, <1>18, <1>19, <1>20, <1>21

\* A frame of Anthropic.
LEMMA AnthropicFrameIs ==
  ASSUME NEW w \in AnthropicFrames
  PROVE  /\ WireFrame(w) /\ w.calls = 0 /\ ~w.done
         /\ w.type \in {"message_start", "block_start", "block_delta", "block_stop",
                        "message_delta", "message_stop", "other"}
         /\ w.kind \in {"text", "function", "end_turn", "tool_use"} /\ w.call \in CallId \cup {0}
         /\ w.type \notin {"block_start", "block_delta"} => w.text = <<>>
         /\ w.type = "block_start" => w.kind \in {"text", "function"}
         /\ w.kind = "function" => w.type = "block_start" /\ w.text = <<>>
         /\ w.type = "block_delta" => w.kind = "text" /\ (w.args > 0 => w.text = <<>>)
<1>0. /\ 1 \in Item /\ <<>> \in Seq(Char) /\ Fragment \subseteq Seq(Char) /\ "text" \in Kinds
      /\ "function" \notin Kinds /\ WholeArgs = 2
  BY FragmentsAre, AdaptersAssumption DEF Item, Kinds, WholeArgs
<1>1. \/ w \in {Frame("message_start"), Frame("message_stop"), Frame("other")}
      \/ \E i \in Item, c \in CallId : w = FunctionBlockFrame(i, c)
      \/ \E i \in Item, t \in Fragment \cup {<<>>} : w = TextBlockFrame(i, t)
      \/ \E i \in Item, t \in Fragment : w = TextDeltaFrame(i, t)
      \/ \E i \in Item, a \in 1..WholeArgs : w = InputDeltaFrame(i, a)
      \/ \E i \in Item : w = BlockStopFrame(i)
      \/ \E k \in {"end_turn", "tool_use"}, t \in 1..2 : w = MessageDeltaFrame(k, t)
  BY ONLY w \in AnthropicFrames DEF AnthropicFrames
<1>2. CASE w \in {Frame("message_start"), Frame("message_stop"), Frame("other")}
  <2>1. CASE w = Frame("message_start")
    BY <1>0, <2>1 DEF WireFrame, Frame
  <2>2. CASE w = Frame("message_stop")
    BY <1>0, <2>2 DEF WireFrame, Frame
  <2>3. CASE w = Frame("other")
    BY <1>0, <2>3 DEF WireFrame, Frame
  <2> QED BY <1>2, <2>1, <2>2, <2>3
<1>3. CASE \E i \in Item, c \in CallId : w = FunctionBlockFrame(i, c)
  BY <1>0, <1>3 DEF WireFrame, Frame, FunctionBlockFrame
<1>4. CASE \E i \in Item, t \in Fragment \cup {<<>>} : w = TextBlockFrame(i, t)
  <2>1. PICK i \in Item, t \in Fragment \cup {<<>>} : w = TextBlockFrame(i, t)
    BY <1>4
  <2>2. t \in Seq(Char)
    BY <1>0
  <2> QED BY <1>0, <2>1, <2>2 DEF WireFrame, Frame, TextBlockFrame
<1>5. CASE \E i \in Item, t \in Fragment : w = TextDeltaFrame(i, t)
  BY <1>0, <1>5 DEF WireFrame, Frame, TextDeltaFrame
<1>6. CASE \E i \in Item, a \in 1..WholeArgs : w = InputDeltaFrame(i, a)
  BY <1>0, <1>6 DEF WireFrame, Frame, InputDeltaFrame
<1>7. CASE \E i \in Item : w = BlockStopFrame(i)
  BY <1>0, <1>7 DEF WireFrame, Frame, BlockStopFrame
<1>8. CASE \E k \in {"end_turn", "tool_use"}, t \in 1..2 : w = MessageDeltaFrame(k, t)
  BY <1>0, <1>8 DEF WireFrame, Frame, MessageDeltaFrame
<1> QED
  BY <1>1, <1>2, <1>3, <1>4, <1>5, <1>6, <1>7, <1>8, ZenonT(30)

\* The normaliser of the Messages streams.
LEMMA AnthropicAccepts ==
  ASSUME NEW U, 0 \in U, CallId \subseteq U, NEW n \in Norm(U), NEW w \in AnthropicFrames, NEW maximum,
         n.completed => n.stop
  PROVE  Accepts("anthropic", n, w, AnthropicNormalize(n, w, maximum), U)
<1> DEFINE r == AnthropicNormalize(n, w, maximum)
           it == n.items[w.item]
<1>1. /\ WireFrame(w) /\ w.calls = 0 /\ ~w.done
      /\ w.type \in {"message_start", "block_start", "block_delta", "block_stop",
                     "message_delta", "message_stop", "other"}
      /\ w.kind \in {"text", "function", "end_turn", "tool_use"} /\ w.call \in CallId \cup {0}
      /\ w.type \notin {"block_start", "block_delta"} => w.text = <<>>
      /\ w.type = "block_start" => w.kind \in {"text", "function"}
      /\ w.kind = "function" => w.type = "block_start" /\ w.text = <<>>
      /\ w.type = "block_delta" => w.kind = "text" /\ (w.args > 0 => w.text = <<>>)
  BY AnthropicFrameIs
<1>2. /\ n.started \in BOOLEAN /\ n.completed \in BOOLEAN /\ n.stop \in BOOLEAN
      /\ n.items \in [Item -> ItemOf(U)] /\ n.seen \in SUBSET U
  BY DEF Norm
<1>3. w.text = <<>> => HeardText(w) = <<>>
  BY <1>1, TagOf DEF HeardText, Kinds
<1>4. HeardCalls(w) = (IF w.kind = "function" THEN 1 ELSE 0) /\ HeardEnd(w) = (w.type = "message_stop")
  BY <1>1 DEF HeardCalls, HeardEnd
<1>5. w.item \in Item /\ it \in ItemOf(U) /\ w.args \in Nat /\ w.call \in U
  BY <1>1, <1>2 DEF WireFrame
<1>6. /\ it.call \in U /\ it.args \in Nat /\ it.kind \in {"none", "function", "builtin", "text", "closed"}
  BY <1>5 DEF ItemOf
<1> HIDE DEF it
<1>7. SUFFICES ASSUME r.ok
               PROVE  r.n \in Norm(U) /\ Says(r.out, w, U, r.n.completed) /\ Ends("anthropic", n, r.n, w)
  BY DEF Accepts
<1>8. \A m, out : Emit(m, out).n = m /\ Emit(m, out).out = out /\ Emit(m, out).ok
  BY DEF Emit
<1>9. \A m : ~Rejected(m).ok
  BY DEF Rejected
\* another state of a block or of the reason to stop
<1>10. ASSUME NEW m, m \in Norm(U), m.completed = n.completed, ~HeardEnd(w), ~n.stop
       PROVE  Ends("anthropic", n, m, w)
  <2>1. ~n.completed /\ ~m.completed
    BY <1>2, <1>10
  <2> QED BY <1>10, <2>1 DEF Ends
<1>11. ASSUME NEW j \in ItemOf(U), NEW s \in SUBSET U, NEW m,
              m = [n EXCEPT !.items[w.item] = j, !.seen = s] \/ m = [n EXCEPT !.items[w.item] = j]
       PROVE  m \in Norm(U) /\ m.completed = n.completed
  BY ZenonT(30), <1>2, <1>5, <1>11 DEF Norm
<1>12. ASSUME NEW m, r = Emit(m, <<>>), m \in Norm(U), m.completed = n.completed,
              w.text = <<>>, w.kind # "function", w.type # "message_stop", ~n.stop
       PROVE  r.n \in Norm(U) /\ Says(r.out, w, U, r.n.completed) /\ Ends("anthropic", n, r.n, w)
  <2>1. w.type # "delta" /\ HeardCalls(w) = 0 /\ ~HeardEnd(w)
    BY <1>1, <1>4, <1>12
  <2>2. Says(<<>>, w, U, m.completed)
    BY <1>1, <1>12, <2>1, SaysNothing
  <2>3. Ends("anthropic", n, m, w)
    BY <1>10, <1>12, <2>1
  <2> QED BY <1>8, <1>12, <2>2, <2>3
<1>13. ASSUME NEW m, NEW e \in EventOf(U), r = Emit(m, <<e>>), m \in Norm(U), m.completed = n.completed,
              w.text = <<>>, w.type # "message_stop", ~n.stop, e.type \notin {"completed", "delta"},
              (e.type = "call") <=> (w.kind = "function")
       PROVE  r.n \in Norm(U) /\ Says(r.out, w, U, r.n.completed) /\ Ends("anthropic", n, r.n, w)
  <2>1. VisibleIn(e) = HeardText(w) /\ Len(AskedIn(e)) = HeardCalls(w) /\ ~HeardEnd(w)
    BY <1>3, <1>4, <1>13 DEF VisibleIn, AskedIn
  <2>2. Says(<<e>>, w, U, m.completed)
    BY <1>13, <2>1, SaysOne
  <2>3. Ends("anthropic", n, m, w)
    BY <1>10, <1>13, <2>1
  <2> QED BY <1>8, <1>13, <2>2, <2>3
<1>14. ASSUME NEW m \in Norm(U), m.completed = n.completed, m.stop = n.stop, ~n.stop,
              r = RecordVisible(m, w, maximum), w.kind = "text", w.type # "message_stop"
       PROVE  r.n \in Norm(U) /\ Says(r.out, w, U, r.n.completed) /\ Ends("anthropic", n, r.n, w)
  <2>1. /\ r.n \in Norm(U) /\ Says(r.out, w, U, r.n.completed) /\ r.n.completed = m.completed
    BY <1>1, <1>7, <1>14, RecordedText DEF Kinds
  <2>2. Ends("anthropic", n, r.n, w)
    BY <1>4, <1>10, <1>14, <2>1
  <2> QED BY <2>1, <2>2
<1>15. CASE w.type = "message_start"
  <2> DEFINE m == [n EXCEPT !.started = TRUE]
  <2>1. r = MessageStart(n)
    BY ONLY <1>15 DEF AnthropicNormalize
  <2>2. ~n.started /\ r = Emit(m, <<Started(0)>>)
    BY <1>7, <1>9, <2>1 DEF MessageStart
  <2>3. m \in Norm(U) /\ m.completed = n.completed /\ m.started = TRUE /\ m.stop = n.stop
    BY DEF Norm
  <2>4. Says(<<Started(0)>>, w, U, m.completed)
    <3>1. Started(0) \in EventOf(U) /\ Started(0).type = "started"
      BY EventsAre
    <3>2. VisibleIn(Started(0)) = <<>> /\ AskedIn(Started(0)) = <<>>
      BY <3>1 DEF VisibleIn, AskedIn
    <3>3. HeardText(w) = <<>> /\ HeardCalls(w) = 0
      BY <1>1, <1>3, <1>4, <1>15
    <3> QED BY <3>1, <3>2, <3>3, SaysOne
  <2> HIDE DEF m
  <2>5. Ends("anthropic", n, m, w)
    BY <1>2, <1>4, <1>15, <2>2, <2>3 DEF Ends
  <2> QED BY <1>8, <2>2, <2>3, <2>4, <2>5
<1>16. CASE w.type = "block_start"
  <2> DEFINE m == [n EXCEPT !.items[w.item].kind = "text"]
             j == [n.items[w.item] EXCEPT !.kind = "text"]
             f == [n EXCEPT !.items[w.item] = [kind |-> "function", call |-> w.call, args |-> 0],
                            !.seen = @ \cup {w.call}]
             e == CallEvent("call", w.call, 0)
  <2>1. r = ContentStart(n, w, maximum)
    BY ONLY <1>16 DEF AnthropicNormalize
  <2>2. /\ n.started /\ ~n.stop
        /\ \/ w.kind = "text" /\ w.text = <<>> /\ r = Emit(m, <<>>)
           \/ w.kind = "text" /\ r = RecordVisible(m, w, maximum)
           \/ w.kind # "text" /\ r = Emit(f, <<e>>)
    BY <1>7, <1>9, <2>1 DEF ContentStart
  <2>3. m \in Norm(U) /\ m.completed = n.completed /\ m.stop = n.stop
    <3>1. j \in ItemOf(U)
      BY <1>5 DEF ItemOf, it
    <3>2. m = [n EXCEPT !.items[w.item] = j]
      BY <1>2, <1>5 DEF Norm
    <3>3. m.stop = n.stop
      BY DEF Norm
    <3> HIDE DEF j, m
    <3> QED BY <1>11, <3>1, <3>2, <3>3
  <2>4. CASE w.kind = "text" /\ w.text = <<>> /\ r = Emit(m, <<>>)
    <3> HIDE DEF m
    <3> QED BY <1>12, <1>16, <2>2, <2>3, <2>4
  <2>5. CASE w.kind = "text" /\ r = RecordVisible(m, w, maximum)
    <3> HIDE DEF m
    <3> QED BY <1>14, <1>16, <2>2, <2>3, <2>5
  <2>6. CASE w.kind # "text" /\ r = Emit(f, <<e>>)
    <3>1. f \in Norm(U) /\ f.completed = n.completed
      <4>1. [kind |-> "function", call |-> w.call, args |-> 0] \in ItemOf(U) /\ n.seen \cup {w.call} \in SUBSET U
        BY <1>2, <1>5 DEF ItemOf
      <4> QED BY <1>11, <4>1
    <3>2. e \in EventOf(U) /\ e.type = "call"
      BY <1>5, EventsAre
    <3>3. w.kind = "function" /\ w.text = <<>>
      BY <1>1, <1>16, <2>6
    <3> HIDE DEF f, e
    <3> QED BY <1>13, <1>16, <2>2, <2>6, <3>1, <3>2, <3>3
  <2> HIDE DEF m, f, e
  <2> QED BY <2>2, <2>4, <2>5, <2>6
<1>17. CASE w.type = "block_delta"
  <2>1. r = ContentDelta(n, w, maximum)
    BY ONLY <1>17 DEF AnthropicNormalize
  <2>2. /\ n.started /\ ~n.stop
        /\ \/ w.args = 0 /\ r = RecordVisible(n, w, maximum)
           \/ w.args > 0 /\ r = ArgumentsDelta(n, w)
    BY <1>7, <1>9, <2>1 DEF ContentDelta
  <2>3. CASE r = RecordVisible(n, w, maximum)
    BY <1>1, <1>14, <1>17, <2>2, <2>3
  <2>4. CASE w.args > 0 /\ r = ArgumentsDelta(n, w)
    <3> DEFINE m == [n EXCEPT !.items[w.item].args = @ + w.args]
               j == [n.items[w.item] EXCEPT !.args = @ + w.args]
               e == CallEvent("arguments", n.items[w.item].call, w.args)
    <3>1. r = Emit(m, <<e>>)
      BY <1>7, <1>9, <2>4 DEF ArgumentsDelta
    <3>2. m \in Norm(U) /\ m.completed = n.completed
      <4>1. j \in ItemOf(U)
        BY <1>5 DEF ItemOf, it
      <4>2. m = [n EXCEPT !.items[w.item] = j]
        BY <1>2, <1>5 DEF Norm
      <4> HIDE DEF j, m
      <4> QED BY <1>2, <1>11, <4>1, <4>2
    <3>3. e \in EventOf(U) /\ e.type = "arguments"
      BY <1>5, <1>6, EventsAre DEF it
    <3>4. w.text = <<>> /\ w.kind # "function"
      BY <1>1, <1>17, <2>4
    <3> HIDE DEF m, e
    <3> QED BY <1>13, <1>17, <2>2, <3>1, <3>2, <3>3, <3>4
  <2> QED BY <2>2, <2>3, <2>4
<1>18. CASE w.type = "block_stop"
  <2> DEFINE m == [n EXCEPT !.items[w.item].kind = "closed"]
             j == [n.items[w.item] EXCEPT !.kind = "closed"]
             e == CallEvent("call_done", n.items[w.item].call, n.items[w.item].args)
  <2>1. r = ContentStop(n, w)
    BY ONLY <1>18 DEF AnthropicNormalize
  <2>2. ~n.stop /\ (r = Emit(m, <<>>) \/ r = Emit(m, <<e>>))
    BY <1>7, <1>9, <2>1 DEF ContentStop
  <2>3. m \in Norm(U) /\ m.completed = n.completed
    <3>1. j \in ItemOf(U)
      BY <1>5 DEF ItemOf, it
    <3>2. m = [n EXCEPT !.items[w.item] = j]
      BY <1>2, <1>5 DEF Norm
    <3> HIDE DEF j, m
    <3> QED BY <1>2, <1>11, <3>1, <3>2
  <2>4. e \in EventOf(U) /\ e.type = "call_done"
    BY <1>6, EventsAre DEF it
  <2>5. w.text = <<>> /\ w.kind # "function"
    BY <1>1, <1>18
  <2> HIDE DEF m, e
  <2> QED BY <1>12, <1>13, <1>18, <2>2, <2>3, <2>4, <2>5
<1>19. CASE w.type = "message_delta"
  <2> DEFINE m == [n EXCEPT !.stop = TRUE]
  <2>1. r = MessageDelta(n, w)
    BY ONLY <1>19 DEF AnthropicNormalize
  <2>2. ~n.stop /\ r = Emit(m, <<>>)
    BY <1>7, <1>9, <2>1 DEF MessageDelta
  <2>3. m \in Norm(U) /\ m.completed = n.completed
    BY DEF Norm
  <2>4. w.text = <<>> /\ w.kind # "function"
    BY <1>1, <1>19
  <2> HIDE DEF m
  <2> QED BY <1>12, <1>19, <2>2, <2>3, <2>4
<1>20. CASE w.type = "message_stop"
  <2> DEFINE m == [n EXCEPT !.started = FALSE, !.completed = TRUE]
             out == <<Event("usage"), Completed(0)>>
  <2>1. r = MessageStop(n)
    BY ONLY <1>20 DEF AnthropicNormalize
  <2>2. n.stop /\ ~n.completed /\ r = Emit(m, out)
    BY <1>7, <1>9, <2>1 DEF MessageStop
  <2>3. m \in Norm(U) /\ m.completed = TRUE /\ m.stop = n.stop
    BY DEF Norm
  <2>4. Says(out, w, U, m.completed)
    <3>1. HeardCalls(w) = 0 /\ w.text = <<>> /\ w.type # "delta"
      BY <1>1, <1>4, <1>20
    <3>2. Says(out, w, U, TRUE)
      BY <1>1, <3>1, SaysEnd
    <3> QED BY <2>3, <3>2 DEF Says
  <2> HIDE DEF m, out
  <2>5. Ends("anthropic", n, m, w)
    BY <1>4, <1>20, <2>2, <2>3 DEF Ends
  <2> QED BY <1>8, <2>2, <2>3, <2>4, <2>5
<1>21. CASE w.type = "other"
  <2>1. ~n.stop /\ r = Emit(n, <<Event("unknown")>>)
    <3>1. r = IF n.started /\ ~n.stop THEN Emit(n, <<Event("unknown")>>) ELSE Rejected(n)
      BY ONLY <1>21 DEF AnthropicNormalize
    <3> QED BY <1>7, <1>9, <3>1
  <2>2. Event("unknown") \in EventOf(U) /\ Event("unknown").type = "unknown"
    BY EventsAre
  <2>3. w.text = <<>> /\ w.kind # "function"
    BY <1>1, <1>21
  <2> QED BY <1>13, <1>21, <2>1, <2>2, <2>3
<1> QED
  BY <1>1, <1>15, <1>16, <1>17, <1>18, <1>19, <1>20, <1>21

\* A line of Ollama.
LEMMA OllamaFrameIs ==
  ASSUME NEW w \in OllamaFrames
  PROVE  /\ WireFrame(w) /\ w.type = "line" /\ w.kind = "text"
         /\ w.text \in Seq(Char) /\ w.calls \in Nat /\ w.done \in BOOLEAN
<1>1. PICK t \in Fragment \cup {<<>>}, k \in 0..Cardinality(CallId), d \in BOOLEAN : w = LineFrame(t, k, d)
  BY ONLY w \in OllamaFrames DEF OllamaFrames
<1>2. t \in Seq(Char)
  <2>1. <<>> \in Seq(Char) /\ Fragment \subseteq Seq(Char)
    BY FragmentsAre
  <2> QED BY <2>1
<1>3. k \in Nat
  BY AdaptersAssumption, FS_CardinalityType
<1>4. 1 \in Item
  BY AdaptersAssumption DEF Item
<1> QED
  BY <1>1, <1>2, <1>3, <1>4 DEF LineFrame, Frame, WireFrame

\* Events that are no text and no end.
Quiet(q, V, n) == /\ q \in Seq(EventOf(V)) /\ Visible(q) = <<>> /\ Len(Asked(q)) = n
                  /\ \A i \in DOMAIN q : q[i].type # "completed"

\* Two quiet sequences are one.
LEMMA QuietTogether ==
  ASSUME NEW V, NEW p, NEW q, NEW j \in Nat, NEW k \in Nat, Quiet(p, V, j), Quiet(q, V, k)
  PROVE  Quiet(p \o q, V, j + k)
<1> DEFINE E == EventOf(V)
<1>1. p \in Seq(E) /\ q \in Seq(E)
  BY DEF Quiet
<1>2. Visible(p \o q) = Visible(p) \o Visible(q) /\ Asked(p \o q) = Asked(p) \o Asked(q)
  BY <1>1, EventsSay
<1>3. Asked(p) \in Seq(V) /\ Asked(q) \in Seq(V) /\ Len(Asked(p)) = j /\ Len(Asked(q)) = k
  BY <1>1, EventsSay DEF Quiet
<1>4. Len(Asked(p) \o Asked(q)) = j + k
  BY ONLY <1>3
<1>5. <<>> \o <<>> = <<>>
  OBVIOUS
<1>6. Visible(p \o q) = <<>> /\ Len(Asked(p \o q)) = j + k
  BY <1>2, <1>4, <1>5 DEF Quiet
<1> HIDE DEF E
<1>7. /\ p \o q \in Seq(E) /\ Len(p \o q) = Len(p) + Len(q)
      /\ \A i \in 1..Len(p) : (p \o q)[i] = p[i]
      /\ \A i \in 1..Len(q) : (p \o q)[Len(p) + i] = q[i]
  <2>1. /\ \A x, y \in Seq(E) : x \o y \in Seq(E) /\ Len(x \o y) = Len(x) + Len(y)
        /\ \A x, y \in Seq(E) : \A i \in 1..Len(x) : (x \o y)[i] = x[i]
        /\ \A x, y \in Seq(E) : \A i \in 1..Len(y) : (x \o y)[Len(x) + i] = y[i]
    BY ONLY Concatenation, ZenonT(30)
  <2> QED BY ONLY <1>1, <2>1, ZenonT(30)
<1>8. ASSUME NEW i \in DOMAIN (p \o q) PROVE (p \o q)[i].type # "completed"
  <2>0. i \in 1..(Len(p) + Len(q)) /\ Len(p) \in Nat /\ Len(q) \in Nat /\ DOMAIN p = 1..Len(p) /\ DOMAIN q = 1..Len(q)
    BY ONLY <1>1, <1>7, i \in DOMAIN (p \o q)
  <2>1. CASE i \in 1..Len(p)
    BY <1>7, <2>0, <2>1 DEF Quiet
  <2>2. CASE i \notin 1..Len(p)
    <3>1. i - Len(p) \in 1..Len(q) /\ Len(p) + (i - Len(p)) = i
      BY ONLY <2>0, <2>2
    <3>2. (p \o q)[i] = q[i - Len(p)]
      BY <1>7, <3>1
    <3> QED BY <2>0, <3>1, <3>2 DEF Quiet
  <2> QED BY <2>1, <2>2
<1> QED
  BY <1>6, <1>7, <1>8 DEF Quiet, E

\* Whole calls, each with its end.
LEMMA WholeCalls ==
  ASSUME NEW V, NEW k \in Nat, NEW ids \in [1..k -> V]
  PROVE  Quiet(FlattenSeq([i \in 1..k |-> <<CallEvent("call", ids[i], 0),
                                            CallEvent("call_done", ids[i], WholeArgs)>>]), V, k)
<1> DEFINE E == EventOf(V)
           x(i) == CallEvent("call", ids[i], 0)
           y(i) == CallEvent("call_done", ids[i], WholeArgs)
           ss == [i \in 1..k |-> <<x(i), y(i)>>]
<1>1. ASSUME NEW i \in 1..k
      PROVE  <<x(i), y(i)>> \in Seq(E) /\ Quiet(<<x(i), y(i)>>, V, 1)
  <2> DEFINE c == x(i)
             d == y(i)
  <2>0. \A type \in EventTypes, call \in V, args \in Nat :
           /\ CallEvent(type, call, args) \in E /\ CallEvent(type, call, args).type = type
           /\ CallEvent(type, call, args).call = call
    <3>1. <<>> \in Seq(Char) /\ "text" \in Kinds
      BY DEF Kinds
    <3> QED BY <3>1 DEF CallEvent, Event, EventOf
  <2>1. c \in E /\ d \in E /\ c.type = "call" /\ d.type = "call_done"
    BY <2>0 DEF WholeArgs, EventTypes
  <2>2. VisibleIn(c) = <<>> /\ VisibleIn(d) = <<>> /\ AskedIn(c) = <<c.call>> /\ AskedIn(d) = <<>>
    BY <2>1 DEF VisibleIn, AskedIn
  <2> HIDE DEF c, d
  <2>3. /\ <<c, d>> \in Seq(E)
        /\ Visible(<<c, d>>) = VisibleIn(c) \o VisibleIn(d)
        /\ Asked(<<c, d>>) = AskedIn(c) \o AskedIn(d)
    BY <2>1, FewEvents
  <2>4. <<>> \o <<>> = <<>> /\ Len(<<c.call>> \o <<>>) = 1
    OBVIOUS
  <2>5. \A j \in DOMAIN <<c, d>> : <<c, d>>[j].type # "completed"
    BY <2>1
  <2>6. Quiet(<<c, d>>, V, 1)
    BY <2>2, <2>3, <2>4, <2>5 DEF Quiet
  <2> QED BY <2>3, <2>6 DEF c, d
<1> HIDE DEF x, y
<1>2. ss \in Seq(Seq(E)) /\ Len(ss) = k /\ \A i \in 1..k : ss[i] = <<x(i), y(i)>>
  <2> DEFINE z(i) == <<x(i), y(i)>>
  <2>1. \A i \in 1..k : z(i) \in Seq(E)
    BY <1>1
  <2>2. ss = [i \in 1..k |-> z(i)]
    OBVIOUS
  <2> HIDE DEF z, ss, E
  <2>3. ss \in Seq(Seq(E)) /\ Len(ss) = k /\ \A i \in 1..k : ss[i] = z(i)
    BY ONLY <2>1, <2>2, k \in Nat
  <2> QED BY <2>3 DEF z
<1> HIDE DEF ss, E
<1>3. PICK v : Joins(v, ss) /\ FlattenSeq(ss) = v[k] /\ \A i \in 0..k : v[i] \in Seq(E)
  BY <1>2, FlattenRun
<1> DEFINE G == {i \in Nat : i <= k => Quiet(v[i], V, i)}
<1>4. 0 \in G
  <2>1. v[0] = <<>> /\ <<>> \in Seq(E) /\ DOMAIN <<>> = {}
    BY <1>3 DEF Joins
  <2>2. Visible(<<>>) = <<>> /\ Asked(<<>>) = <<>> /\ Len(<<>>) = 0
    BY EventsSay
  <2> QED BY <2>1, <2>2 DEF Quiet, E
<1>5. ASSUME NEW i \in Nat, i \in G PROVE i + 1 \in G
  <2> SUFFICES ASSUME i + 1 <= k PROVE Quiet(v[i + 1], V, i + 1)
    OBVIOUS
  <2>1. i + 1 \in 1..k /\ (i + 1) - 1 = i /\ i <= k
    OBVIOUS
  <2>2. v[i + 1] = v[i] \o ss[i + 1] /\ Quiet(v[i], V, i) /\ Quiet(ss[i + 1], V, 1)
    BY <1>1, <1>2, <1>3, <1>5, <2>1 DEF Joins
  <2> QED BY <2>2, QuietTogether
<1>6. k \in G
  <2> HIDE DEF G
  <2> QED BY <1>4, <1>5, CountingUp
<1>7. Quiet(FlattenSeq(ss), V, k)
  BY <1>3, <1>6
<1> QED
  BY <1>7 DEF ss, x, y

\* More ids are allowed to call.
LEMMA MoreIds ==
  ASSUME NEW U, NEW V, U \subseteq V
  PROVE  /\ \A e \in EventOf(U) : e \in EventOf(V)
         /\ \A q \in Seq(EventOf(U)) : q \in Seq(EventOf(V))
         /\ \A n \in Norm(U) : n \in Norm(V)
<1>1. \A e \in EventOf(U) : e \in EventOf(V)
  BY DEF EventOf
<1>2. \A q \in Seq(EventOf(U)) : q \in Seq(EventOf(V))
  <2> DEFINE E == EventOf(U)
             F == EventOf(V)
  <2>1. \A e \in E : e \in F
    BY <1>1
  <2> HIDE DEF E, F
  <2>2. \A q \in Seq(E) : q \in Seq(F)
    BY ONLY <2>1
  <2> QED BY <2>2 DEF E, F
<1>3. \A n \in Norm(U) : n \in Norm(V)
  <2> SUFFICES ASSUME NEW n \in Norm(U) PROVE n \in Norm(V)
    OBVIOUS
  <2>1. n.items \in [Item -> ItemOf(U)]
    BY DEF Norm
  <2>2. \A i \in ItemOf(U) : i \in ItemOf(V)
    BY DEF ItemOf
  <2>3. n.items \in [Item -> ItemOf(V)]
    BY <2>1, <2>2
  <2> HIDE DEF ItemOf
  <2> QED BY <2>3 DEF Norm
<1> QED
  BY <1>1, <1>2, <1>3

\* Ollama's adapter: the start, the text, the calls and the end of one line.
LEMMA OllamaAccepts ==
  ASSUME NEW U, 0 \in U, NEW n \in Norm(U), NEW w \in OllamaFrames, NEW used
  PROVE  \E V : U \subseteq V /\ Accepts("ollama", n, w, OllamaNormalize(n, w, used), V)
<1> DEFINE r == OllamaNormalize(n, w, used)
           ids == FreshCalls(n, w.calls, used)
           V == U \cup Range(ids)
           E == EventOf(V)
<1>1. /\ WireFrame(w) /\ w.type = "line" /\ w.kind = "text"
      /\ w.text \in Seq(Char) /\ w.calls \in Nat /\ w.done \in BOOLEAN
  BY OllamaFrameIs
<1>2. ids \in [1..w.calls -> V] /\ 0 \in V /\ U \subseteq V
  BY DEF FreshCalls, Range
<1>3. n \in Norm(V)
  BY <1>2, MoreIds
<1> DEFINE m == [n EXCEPT !.started = TRUE, !.completed = w.done, !.seen = @ \cup Range(ids)]
           a == IF n.started THEN <<>> ELSE <<Started(0)>>
           b == IF w.text = <<>> THEN <<>> ELSE <<Delta("text", w.text)>>
           c == FlattenSeq([i \in 1..w.calls |->
                   <<CallEvent("call", ids[i], 0), CallEvent("call_done", ids[i], WholeArgs)>>])
           d == IF w.done THEN <<Event("usage"), Completed(0)>> ELSE <<>>
<1>4. r.ok => ~n.completed /\ r = Emit(m, a \o b \o c \o d)
  BY DEF OllamaNormalize, Rejected
<1>5. m \in Norm(V) /\ m.completed = w.done
  BY <1>1, <1>3 DEF Norm
<1> HIDE DEF V
<1>6. <<>> \in Seq(E) /\ Visible(<<>>) = <<>> /\ Asked(<<>>) = <<>> /\ Quiet(<<>>, V, 0)
  <2>1. Visible(<<>>) = <<>> /\ Asked(<<>>) = <<>> /\ <<>> \in Seq(E) /\ Len(<<>>) = 0 /\ DOMAIN <<>> = {}
    BY EventsSay
  <2> QED BY <2>1 DEF Quiet
<1>7. a \in Seq(E) /\ Visible(a) = <<>> /\ Len(Asked(a)) = 0 /\ \A i \in DOMAIN a : a[i].type # "completed"
  <2> DEFINE e == Started(0)
  <2>1. e \in E /\ e.type = "started"
    BY <1>2, EventsAre
  <2>2. VisibleIn(e) = <<>> /\ AskedIn(e) = <<>>
    BY <2>1 DEF VisibleIn, AskedIn
  <2> HIDE DEF e
  <2>3. <<e>> \in Seq(E) /\ Visible(<<e>>) = <<>> /\ Asked(<<e>>) = <<>> /\ Len(<<>>) = 0
    BY <2>1, <2>2, EventsSay
  <2>4. \A i \in DOMAIN <<e>> : <<e>>[i].type # "completed"
    BY <2>1
  <2>5. a = <<>> \/ a = <<e>>
    BY DEF e
  <2> HIDE DEF a
  <2>6. Len(<<>>) = 0 /\ DOMAIN <<>> = {}
    OBVIOUS
  <2>7. CASE a = <<>>
    BY <1>6, <2>6, <2>7
  <2>8. CASE a = <<e>>
    BY <2>3, <2>4, <2>8
  <2> QED BY <2>5, <2>7, <2>8
<1>8. b \in Seq(E) /\ Visible(b) = HeardText(w) /\ Len(Asked(b)) = 0 /\ \A i \in DOMAIN b : b[i].type # "completed"
  <2> DEFINE e == Delta("text", w.text)
  <2>0. "text" \in Kinds
    BY DEF Kinds
  <2>1. e \in E /\ e.type = "delta" /\ e.kind = "text" /\ e.text = w.text
    BY <1>1, <1>2, <2>0, EventsAre
  <2>2. VisibleIn(e) = HeardText(w) /\ AskedIn(e) = <<>>
    BY <1>1, <2>1 DEF VisibleIn, AskedIn, HeardText
  <2> HIDE DEF e
  <2>3. <<e>> \in Seq(E) /\ Visible(<<e>>) = HeardText(w) /\ Asked(<<e>>) = <<>> /\ Len(<<>>) = 0
    BY <2>1, <2>2, EventsSay
  <2>4. \A i \in DOMAIN <<e>> : <<e>>[i].type # "completed"
    BY <2>1
  <2>5. w.text = <<>> => HeardText(w) = <<>>
    BY <1>1, <2>0, TagOf DEF HeardText
  <2>6. (w.text = <<>> /\ b = <<>>) \/ b = <<e>>
    BY DEF e
  <2> HIDE DEF b
  <2>7. Len(<<>>) = 0 /\ DOMAIN <<>> = {}
    OBVIOUS
  <2>8. CASE w.text = <<>> /\ b = <<>>
    BY <1>6, <2>5, <2>7, <2>8
  <2>9. CASE b = <<e>>
    BY <2>3, <2>4, <2>9
  <2> QED BY <2>6, <2>8, <2>9
<1>9. Quiet(c, V, w.calls)
  <2> HIDE DEF ids
  <2> QED BY <1>1, <1>2, WholeCalls
<1>10. d \in Seq(E) /\ Visible(d) = <<>> /\ Len(Asked(d)) = 0 /\ \A i \in DOMAIN d : d[i].type = "completed" => w.done
  <2> DEFINE e == Event("usage")
             f == Completed(0)
  <2>1. e \in E /\ f \in E /\ e.type = "usage" /\ f.type = "completed"
    BY <1>2, EventsAre
  <2>2. VisibleIn(e) = <<>> /\ AskedIn(e) = <<>> /\ VisibleIn(f) = <<>> /\ AskedIn(f) = <<>>
    BY <2>1 DEF VisibleIn, AskedIn
  <2> HIDE DEF e, f
  <2>3. /\ <<e, f>> \in Seq(E) /\ Visible(<<e, f>>) = VisibleIn(e) \o VisibleIn(f)
        /\ Asked(<<e, f>>) = AskedIn(e) \o AskedIn(f)
    BY <2>1, FewEvents
  <2>4. <<>> \o <<>> = <<>> /\ Len(<<>>) = 0
    OBVIOUS
  <2>5. (w.done /\ d = <<e, f>>) \/ d = <<>>
    BY DEF e, f
  <2>6. \A i \in DOMAIN <<>> : <<>>[i].type = "completed" => w.done
    OBVIOUS
  <2> HIDE DEF d
  <2> QED BY <1>6, <2>2, <2>3, <2>4, <2>5, <2>6
<1> HIDE DEF a, b, c, d, ids, m, E
<1> DEFINE all == a \o b \o c \o d
<1>11. all \in Seq(E) /\ Visible(all) = HeardText(w) /\ Len(Asked(all)) = w.calls
  <2>1. a \in Seq(E) /\ b \in Seq(E) /\ c \in Seq(E) /\ d \in Seq(E)
    BY <1>7, <1>8, <1>9, <1>10 DEF Quiet, E
  <2>2. a \o b \in Seq(E) /\ a \o b \o c \in Seq(E) /\ a \o b \o c \o d \in Seq(E)
    <3>1. \A p, q \in Seq(E) : p \o q \in Seq(E)
      BY ONLY Concatenation, ZenonT(30)
    <3> QED BY ONLY <2>1, <3>1, ZenonT(30)
  <2>3. /\ Visible(a \o b) = Visible(a) \o Visible(b) /\ Asked(a \o b) = Asked(a) \o Asked(b)
        /\ Visible(a \o b \o c) = Visible(a \o b) \o Visible(c)
        /\ Asked(a \o b \o c) = Asked(a \o b) \o Asked(c)
        /\ Visible(a \o b \o c \o d) = Visible(a \o b \o c) \o Visible(d)
        /\ Asked(a \o b \o c \o d) = Asked(a \o b \o c) \o Asked(d)
    <3>1. \A p, q \in Seq(E) : Visible(p \o q) = Visible(p) \o Visible(q) /\ Asked(p \o q) = Asked(p) \o Asked(q)
      BY EventsSay DEF E
    <3> QED BY ONLY <2>1, <2>2, <3>1, ZenonT(30)
  <2>4. Visible(c) = <<>> /\ Len(Asked(c)) = w.calls
    BY <1>9 DEF Quiet
  <2>5. Visible(b) \in Seq(Tagged) /\ \A q \in Seq(E) : Asked(q) \in Seq(V)
    BY <2>1, EventsSay DEF E
  <2>6. <<>> \o Visible(b) = Visible(b) /\ Visible(b) \o <<>> = Visible(b)
    BY <2>5, Concatenation
  <2>7. Visible(all) = Visible(b)
    BY <1>7, <1>10, <2>3, <2>4, <2>6
  <2>8. \A p, q \in Seq(V) : Len(p \o q) = Len(p) + Len(q)
    BY ONLY Concatenation, ZenonT(30)
  <2>9. /\ Len(Asked(a \o b)) = Len(Asked(a)) + Len(Asked(b))
        /\ Len(Asked(a \o b \o c)) = Len(Asked(a \o b)) + Len(Asked(c))
        /\ Len(Asked(a \o b \o c \o d)) = Len(Asked(a \o b \o c)) + Len(Asked(d))
    BY ONLY <2>1, <2>2, <2>3, <2>5, <2>8, ZenonT(30)
  <2>10. Len(Asked(all)) = w.calls
    BY ONLY <1>1, <1>7, <1>8, <1>10, <2>4, <2>9
  <2> QED BY <1>8, <2>2, <2>7, <2>10
<1>12. \A i \in DOMAIN all : all[i].type = "completed" => w.done
  <2> DEFINE Fine(q) == q \in Seq(E) /\ \A i \in DOMAIN q : q[i].type = "completed" => w.done
  <2>1. ASSUME NEW p, NEW q, Fine(p), Fine(q) PROVE Fine(p \o q)
    <3>1. /\ p \o q \in Seq(E) /\ Len(p \o q) = Len(p) + Len(q)
          /\ \A i \in 1..Len(p) : (p \o q)[i] = p[i]
          /\ \A i \in 1..Len(q) : (p \o q)[Len(p) + i] = q[i]
      <4>1. /\ \A x, y \in Seq(E) : x \o y \in Seq(E) /\ Len(x \o y) = Len(x) + Len(y)
            /\ \A x, y \in Seq(E) : \A i \in 1..Len(x) : (x \o y)[i] = x[i]
            /\ \A x, y \in Seq(E) : \A i \in 1..Len(y) : (x \o y)[Len(x) + i] = y[i]
        BY ONLY Concatenation, ZenonT(30)
      <4>2. p \in Seq(E) /\ q \in Seq(E)
        BY <2>1
      <4> QED BY ONLY <4>1, <4>2, ZenonT(30)
    <3>2. /\ Len(p) \in Nat /\ Len(q) \in Nat /\ DOMAIN p = 1..Len(p) /\ DOMAIN q = 1..Len(q)
          /\ DOMAIN (p \o q) = 1..(Len(p) + Len(q))
      BY <2>1, <3>1
    <3>3. ASSUME NEW i \in DOMAIN (p \o q), (p \o q)[i].type = "completed" PROVE w.done
      <4>1. CASE i \in 1..Len(p)
        BY <2>1, <3>1, <3>2, <3>3, <4>1
      <4>2. CASE i \notin 1..Len(p)
        <5>1. i - Len(p) \in 1..Len(q) /\ Len(p) + (i - Len(p)) = i
          BY ONLY <3>2, <4>2, i \in DOMAIN (p \o q)
        <5>2. (p \o q)[i] = q[i - Len(p)]
          BY <3>1, <5>1
        <5> QED BY <2>1, <3>2, <3>3, <5>1, <5>2
      <4> QED BY <4>1, <4>2
    <3> QED BY <3>1, <3>3
  <2>2. Fine(a) /\ Fine(b) /\ Fine(c) /\ Fine(d)
    BY <1>7, <1>8, <1>9, <1>10 DEF Quiet, E
  <2>3. Fine(a \o b) /\ Fine(a \o b \o c) /\ Fine(a \o b \o c \o d)
    <3> HIDE DEF Fine
    <3>1. Fine(a \o b)
      BY <2>1, <2>2
    <3>2. Fine(a \o b \o c)
      BY <2>1, <2>2, <3>1
    <3> QED BY <2>1, <2>2, <3>1, <3>2
  <2> QED BY <2>3
<1> HIDE DEF all, r
<1>13. Accepts("ollama", n, w, r, V)
  <2> SUFFICES ASSUME r.ok
               PROVE  r.n \in Norm(V) /\ Says(r.out, w, V, r.n.completed) /\ Ends("ollama", n, r.n, w)
    BY DEF Accepts
  <2>1. r.n = m /\ r.out = all /\ ~n.completed
    BY <1>4 DEF Emit, all
  <2>2. HeardCalls(w) = w.calls /\ (HeardEnd(w) <=> w.done)
    BY <1>1 DEF HeardCalls, HeardEnd
  <2>3. Says(all, w, V, m.completed)
    BY <1>5, <1>11, <1>12, <2>2 DEF Says, E
  <2>4. Ends("ollama", n, m, w)
    BY <1>5, <2>1, <2>2 DEF Ends
  <2> QED BY <1>5, <2>1, <2>3, <2>4
<1> QED
  BY <1>2, <1>13 DEF r

\* A frame that is not refused.
LEMMA FrameAccepted ==
  ASSUME NEW U, 0 \in U, CallId \subseteq U,
         NEW mode \in {"openai", "anthropic", "ollama", "background"},
         NEW n \in Norm(U), NEW w \in FramesOf(mode), NEW limits, NEW used,
         mode = "anthropic" /\ n.completed => n.stop
  PROVE  WireFrame(w) /\ \E V : U \subseteq V /\ Accepts(mode, n, w, Normalize(mode, n, w, limits, used), V)
<1> DEFINE r == Normalize(mode, n, w, limits, used)
           m == [n EXCEPT !.wire = @ + 1]
<1>1. m \in Norm(U) /\ m.completed = n.completed /\ m.started = n.started /\ m.stop = n.stop
  BY DEF Norm
<1>2. r.ok => /\ mode = "openai" => r = OpenAiNormalize(m, w, limits)
              /\ mode = "anthropic" => r = AnthropicNormalize(m, w, limits.visible)
              /\ mode = "ollama" => r = OllamaNormalize(m, w, used)
  BY DEF Normalize, Rejected
<1>3. /\ mode = "openai" => w \in OpenAiFrames
      /\ mode = "anthropic" => w \in AnthropicFrames
      /\ mode = "ollama" => w \in OllamaFrames
      /\ mode # "background"
  BY DEF FramesOf
<1> HIDE DEF m
<1>4. ASSUME NEW V, NEW s, U \subseteq V, Accepts(mode, m, w, s, V), r.ok => r = s
      PROVE  \E X : U \subseteq X /\ Accepts(mode, n, w, r, X)
  <2>1. Accepts(mode, n, w, r, V)
    BY <1>1, <1>4 DEF Accepts, Ends
  <2> QED BY <1>4, <2>1
<1> HIDE DEF r
<1>5. CASE mode = "openai"
  <2>1. Accepts(mode, m, w, OpenAiNormalize(m, w, limits), U)
    BY <1>1, <1>3, <1>5, OpenAiAccepts
  <2>2. WireFrame(w)
    BY <1>3, <1>5, OpenAiFrameIs
  <2> QED BY <1>2, <1>4, <1>5, <2>1, <2>2 DEF r
<1>6. CASE mode = "anthropic"
  <2>1. Accepts(mode, m, w, AnthropicNormalize(m, w, limits.visible), U)
    BY <1>1, <1>3, <1>6, AnthropicAccepts
  <2>2. WireFrame(w)
    BY <1>3, <1>6, AnthropicFrameIs
  <2> QED BY <1>2, <1>4, <1>6, <2>1, <2>2 DEF r
<1>7. CASE mode = "ollama"
  <2>1. PICK V : U \subseteq V /\ Accepts(mode, m, w, OllamaNormalize(m, w, used), V)
    BY <1>1, <1>3, <1>7, OllamaAccepts
  <2>2. WireFrame(w)
    BY <1>3, <1>7, OllamaFrameIs
  <2> QED BY <1>2, <1>4, <1>7, <2>1, <2>2 DEF r
<1> QED
  BY <1>3, <1>5, <1>6, <1>7 DEF r
-----------------------------------------------------------------------------
(***************************************************************************)
(* The coalescer.                                                          *)
(***************************************************************************)
LEMMA BytesIn ==
  ASSUME NEW t \in Seq(Char)
  PROVE  /\ Bytes(t) \in Nat /\ (t # <<>> => Bytes(t) > 0)
         /\ \A c \in Char : Bytes(Append(t, c)) = Bytes(t) + c /\ Bytes(<<c>>) = c
         /\ Bytes(<<>>) = 0
<1>1. \A c \in Char : c \in Nat /\ c > 0
  BY DEF Char
<1>2. t \in Seq(Nat) /\ <<>> \in Seq(Nat)
  BY <1>1
<1>3. Bytes(<<>>) = 0 /\ Bytes(t) \in Nat /\ \A c \in Char : Bytes(Append(t, c)) = Bytes(t) + c
  BY <1>1, <1>2, BytesOf
<1>4. ASSUME NEW c \in Char PROVE Bytes(<<c>>) = c
  <2>1. <<c>> = Append(<<>>, c) /\ c \in Nat
    BY <1>1
  <2>2. Bytes(Append(<<>>, c)) = Bytes(<<>>) + c
    BY <1>2, <2>1, BytesOf
  <2> QED BY <1>3, <2>1, <2>2
<1>5. ASSUME t # <<>> PROVE Bytes(t) > 0
  <2> DEFINE s == SubSeq(t, 1, Len(t) - 1)
             c == t[Len(t)]
  <2>1. s \in Seq(Char) /\ c \in Char /\ t = Append(s, c)
    BY <1>5
  <2> HIDE DEF s, c
  <2>2. s \in Seq(Nat) /\ c \in Nat /\ c > 0
    BY <1>1, <2>1
  <2>3. Bytes(s) \in Nat /\ Bytes(Append(s, c)) = Bytes(s) + c
    BY <2>2, BytesOf
  <2> QED BY <2>1, <2>2, <2>3
<1> QED
  BY <1>3, <1>4, <1>5

\* The first elements of a sequence.
LEMMA Firsts ==
  ASSUME NEW T, NEW t \in Seq(T)
  PROVE  /\ SubSeq(t, 1, 0) = <<>> /\ SubSeq(t, 1, Len(t)) = t
         /\ \A i \in 0..Len(t) : SubSeq(t, 1, i) \in Seq(T)
         /\ \A i \in 1..Len(t) : SubSeq(t, 1, i) = Append(SubSeq(t, 1, i - 1), t[i])
<1>1. SubSeq(t, 1, 0) = <<>> /\ SubSeq(t, 1, Len(t)) = t
  OBVIOUS
<1>2. \A i \in 0..Len(t) : SubSeq(t, 1, i) \in Seq(T)
  OBVIOUS
<1>3. ASSUME NEW i \in 1..Len(t) PROVE SubSeq(t, 1, i) = Append(SubSeq(t, 1, i - 1), t[i])
  OBVIOUS
<1> QED
  BY <1>1, <1>2, <1>3

\* What batches say, put together.
LEMMA FlattenSays ==
  /\ Flatten(<<>>) = <<>>
  /\ \A q \in Seq(Batch) : Flatten(q) \in Seq(Tagged)
  /\ \A b \in Batch : Flatten(<<b>>) = Tag(b.kind, b.text)
  /\ \A q, r \in Seq(Batch) : Flatten(q \o r) = Flatten(q) \o Flatten(r)
  /\ \A q \in Seq(Batch), b \in Batch : Flatten(Append(q, b)) = Flatten(q) \o Tag(b.kind, b.text)
<1> DEFINE v == [b \in Batch |-> Tag(b.kind, b.text)]
<1>1. v \in [Batch -> Seq(Tagged)]
  <2> SUFFICES ASSUME NEW b \in Batch PROVE Tag(b.kind, b.text) \in Seq(Tagged)
    OBVIOUS
  <2>1. b.kind \in Kinds /\ b.text \in Seq(Char)
    BY DEF Batch
  <2> QED BY <2>1, TagOf
<1>2. \A q \in Seq(Batch) : Flatten(q) = Mapped(v, q)
  <2> SUFFICES ASSUME NEW q \in Seq(Batch) PROVE Flatten(q) = Mapped(v, q)
    OBVIOUS
  <2>1. \A i \in 1..Len(q) : q[i] \in Batch
    OBVIOUS
  <2>2. [i \in 1..Len(q) |-> Tag(q[i].kind, q[i].text)] = [i \in 1..Len(q) |-> v[q[i]]]
    BY <2>1
  <2> QED BY <2>2 DEF Flatten, Mapped
<1>3. /\ <<>> \in Seq(Batch) /\ (\A b \in Batch : <<b>> \in Seq(Batch))
      /\ (\A q, r \in Seq(Batch) : q \o r \in Seq(Batch))
      /\ (\A q \in Seq(Batch), b \in Batch : Append(q, b) \in Seq(Batch))
  <2> HIDE DEF Batch
  <2> QED OBVIOUS
<1>4. \A b \in Batch : v[b] = Tag(b.kind, b.text)
  OBVIOUS
<1> HIDE DEF v
<1>5. /\ Mapped(v, <<>>) = <<>>
      /\ \A q \in Seq(Batch) : Mapped(v, q) \in Seq(Tagged)
      /\ \A x \in Batch : Mapped(v, <<x>>) = v[x]
      /\ \A q, r \in Seq(Batch) : Mapped(v, q \o r) = Mapped(v, q) \o Mapped(v, r)
      /\ \A q \in Seq(Batch), x \in Batch : Mapped(v, Append(q, x)) = Mapped(v, q) \o v[x]
  BY ONLY SMTT(30), <1>1, MappedOf
<1>6. ASSUME NEW q \in Seq(Batch), NEW r \in Seq(Batch) PROVE Flatten(q \o r) = Flatten(q) \o Flatten(r)
  <2>1. q \o r \in Seq(Batch)
    BY <1>3
  <2>2. Mapped(v, q \o r) = Mapped(v, q) \o Mapped(v, r)
    BY <1>5
  <2> QED BY ONLY <1>2, <2>1, <2>2, q \in Seq(Batch), r \in Seq(Batch)
<1>7. ASSUME NEW q \in Seq(Batch), NEW b \in Batch
      PROVE  Flatten(Append(q, b)) = Flatten(q) \o Tag(b.kind, b.text)
  <2>1. Append(q, b) \in Seq(Batch) /\ v[b] = Tag(b.kind, b.text)
    BY <1>3, <1>4
  <2>2. Mapped(v, Append(q, b)) = Mapped(v, q) \o v[b]
    BY <1>5
  <2> QED BY ONLY <1>2, <2>1, <2>2, q \in Seq(Batch)
<1>8. Flatten(<<>>) = <<>> /\ \A q \in Seq(Batch) : Flatten(q) \in Seq(Tagged)
  BY <1>2, <1>3, <1>5
<1>9. \A b \in Batch : Flatten(<<b>>) = Tag(b.kind, b.text)
  BY <1>2, <1>3, <1>4, <1>5
<1> QED
  BY <1>6, <1>7, <1>8, <1>9

\* The pieces a fragment is cut into, as batches of its kind.
Pieces(k, out) == [i \in 1..Len(out) |-> [kind |-> k, text |-> out[i]]]
Cutting == [text : Seq(Char), out : Seq(Seq(Char))]

\* The pieces, one after the other.
LEMMA PiecesOf ==
  ASSUME NEW k \in Kinds, NEW out \in Seq(Seq(Char)), NEW x \in Seq(Char)
  PROVE  /\ Pieces(k, out) \in Seq(Batch) /\ Len(Pieces(k, out)) = Len(out)
         /\ \A i \in 1..Len(out) : Pieces(k, out)[i].text = out[i]
         /\ [kind |-> k, text |-> x] \in Batch
         /\ Pieces(k, Append(out, x)) = Append(Pieces(k, out), [kind |-> k, text |-> x])
         /\ Pieces(k, <<>>) = <<>>
<1> DEFINE b(y) == [kind |-> k, text |-> y]
<1>1. \A y \in Seq(Char) : b(y) \in Batch /\ b(y).text = y
  BY DEF Batch
<1>2. \A o \in Seq(Seq(Char)) : Pieces(k, o) = [i \in 1..Len(o) |-> b(o[i])]
  BY DEF Pieces
<1> DEFINE T == Seq(Char)
<1> HIDE DEF b, T
<1>3. \A o \in Seq(T) : /\ Pieces(k, o) \in Seq(Batch) /\ Len(Pieces(k, o)) = Len(o)
                        /\ \A i \in 1..Len(o) : Pieces(k, o)[i] = b(o[i]) /\ Pieces(k, o)[i].text = o[i]
  <2> SUFFICES ASSUME NEW o \in Seq(T)
               PROVE  /\ Pieces(k, o) \in Seq(Batch) /\ Len(Pieces(k, o)) = Len(o)
                      /\ \A i \in 1..Len(o) : Pieces(k, o)[i] = b(o[i]) /\ Pieces(k, o)[i].text = o[i]
    OBVIOUS
  <2>1. \A i \in 1..Len(o) : o[i] \in T /\ b(o[i]) \in Batch /\ b(o[i]).text = o[i]
    BY <1>1 DEF T
  <2>2. Pieces(k, o) = [i \in 1..Len(o) |-> b(o[i])]
    BY <1>2 DEF T
  <2> HIDE DEF Batch
  <2>3. Len(o) \in Nat
    OBVIOUS
  <2> QED BY ONLY <2>1, <2>2, <2>3
<1>4. out \in Seq(T) /\ x \in T /\ Append(out, x) \in Seq(T)
  BY DEF T
<1>5. Pieces(k, Append(out, x)) = Append(Pieces(k, out), b(x))
  <2> DEFINE a == Append(out, x)
             p == Pieces(k, a)
             q == Append(Pieces(k, out), b(x))
  <2>1. /\ a \in Seq(T) /\ Len(a) = Len(out) + 1 /\ a[Len(out) + 1] = x
        /\ \A i \in 1..Len(out) : a[i] = out[i]
    BY <1>4
  <2>2. b(x) \in Batch
    BY <1>1, <1>4 DEF T
  <2>3. /\ Pieces(k, out) \in Seq(Batch) /\ Len(Pieces(k, out)) = Len(out)
        /\ \A i \in 1..Len(out) : Pieces(k, out)[i] = b(out[i])
    BY <1>3, <1>4
  <2> HIDE DEF a
  <2>4. /\ p \in Seq(Batch) /\ Len(p) = Len(out) + 1
        /\ \A i \in 1..(Len(out) + 1) : p[i] = b(a[i])
    BY <1>3, <2>1
  <2>5. /\ q \in Seq(Batch) /\ Len(q) = Len(out) + 1 /\ q[Len(out) + 1] = b(x)
        /\ \A i \in 1..Len(out) : q[i] = b(out[i])
    BY ONLY <2>2, <2>3
  <2> HIDE DEF p, q
  <2>6. Len(out) \in Nat
    BY <1>4
  <2>7. \A i \in 1..(Len(out) + 1) : p[i] = q[i]
    BY ONLY <2>1, <2>4, <2>5, <2>6
  <2>8. p = q
    BY ONLY <2>4, <2>5, <2>6, <2>7, SeqEqual
  <2> QED BY <2>8 DEF p, q, a
<1>6. Pieces(k, <<>>) = <<>>
  BY DEF Pieces
<1> QED
  BY <1>1, <1>3, <1>4, <1>5, <1>6 DEF b, T

\* What is in the pieces and the rest.
Whole(k, a) == Flatten(Pieces(k, a.out)) \o Tag(k, a.text)
Cut(a) == /\ a \in Cutting /\ Bytes(a.text) < DeltaBytes
          /\ \A i \in 1..Len(a.out) : Bytes(a.out[i]) \in 1..DeltaBytes

\* One character more.
LEMMA PushOne ==
  ASSUME NEW k \in Kinds, NEW c \in Char, NEW a, Cut(a)
  PROVE  Cut(PushChar(a, c)) /\ Whole(k, PushChar(a, c)) = Append(Whole(k, a), <<k, c>>)
<1>1. /\ a.text \in Seq(Char) /\ a.out \in Seq(Seq(Char)) /\ Bytes(a.text) \in Nat
      /\ Bytes(a.text) < DeltaBytes /\ DeltaBytes \in Nat /\ c \in Nat /\ c > 0 /\ c <= DeltaBytes
  BY BytesIn, LiveDeltaAssumption DEF Cut, Cutting, Char
<1>2. <<c>> \in Seq(Char) /\ Bytes(<<c>>) = c /\ Append(a.text, c) \in Seq(Char)
      /\ Bytes(Append(a.text, c)) = Bytes(a.text) + c /\ <<>> \in Seq(Char) /\ Bytes(<<>>) = 0
  BY <1>1, BytesIn
<1> DEFINE split == Bytes(a.text) + c > DeltaBytes
           text == IF split THEN <<c>> ELSE Append(a.text, c)
           out == IF split THEN Append(a.out, a.text) ELSE a.out
           Long(o) == \A i \in 1..Len(o) : Bytes(o[i]) \in 1..DeltaBytes
           W(o, t) == Flatten(Pieces(k, o)) \o Tag(k, t)
<1>3. ASSUME NEW o \in Seq(Seq(Char)), Long(o), NEW t \in Seq(Char), Bytes(t) \in 1..DeltaBytes
      PROVE  /\ Append(o, t) \in Seq(Seq(Char)) /\ Long(Append(o, t))
             /\ Flatten(Pieces(k, Append(o, t))) = W(o, t)
  <2>1. Append(o, t) \in Seq(Seq(Char)) /\ Long(Append(o, t))
    <3> DEFINE T == Seq(Char)
    <3>1. o \in Seq(T) /\ t \in T
      OBVIOUS
    <3> HIDE DEF T
    <3>2. /\ Append(o, t) \in Seq(T) /\ Len(Append(o, t)) = Len(o) + 1 /\ Len(o) \in Nat
          /\ \A i \in 1..Len(o) : Append(o, t)[i] = o[i]
          /\ Append(o, t)[Len(o) + 1] = t
      BY ONLY <3>1
    <3>3. ASSUME NEW i \in 1..Len(Append(o, t)) PROVE Bytes(Append(o, t)[i]) \in 1..DeltaBytes
      <4>1. CASE i = Len(o) + 1
        BY <1>3, <3>2, <4>1
      <4>2. CASE i # Len(o) + 1
        <5>1. i \in 1..Len(o)
          BY ONLY <3>2, <4>2, i \in 1..Len(Append(o, t))
        <5> QED BY <1>3, <3>2, <5>1
      <4> QED BY <4>1, <4>2
    <3> QED BY <3>2, <3>3 DEF T
  <2>2. /\ Pieces(k, o) \in Seq(Batch) /\ [kind |-> k, text |-> t] \in Batch
        /\ Pieces(k, Append(o, t)) = Append(Pieces(k, o), [kind |-> k, text |-> t])
    BY PiecesOf
  <2>3. Flatten(Append(Pieces(k, o), [kind |-> k, text |-> t])) = Flatten(Pieces(k, o)) \o Tag(k, t)
    BY <2>2, FlattenSays
  <2> QED BY <2>1, <2>2, <2>3
<1>4. ASSUME NEW o \in Seq(Seq(Char))
      PROVE  Flatten(Pieces(k, o)) \in Seq(Tagged)
  BY PiecesOf, FlattenSays, <1>2
<1>5. ASSUME NEW p \in Seq(Tagged), NEW t \in Seq(Char)
      PROVE  p \o Tag(k, Append(t, c)) = Append(p \o Tag(k, t), <<k, c>>)
  <2>1. Tag(k, t) \in Seq(Tagged) /\ <<k, c>> \in Tagged /\ Tag(k, Append(t, c)) = Append(Tag(k, t), <<k, c>>)
    BY TagOf
  <2> HIDE DEF Tagged
  <2>2. \A s \in Seq(Tagged), x \in Tagged : p \o Append(s, x) = Append(p \o s, x)
    OBVIOUS
  <2> QED BY <2>1, <2>2
<1> HIDE DEF Long, W
<1>6. /\ out \in Seq(Seq(Char)) /\ Long(out) /\ text \in Seq(Char) /\ Bytes(text) \in 1..DeltaBytes
      /\ W(out, text) = Append(Whole(k, a), <<k, c>>)
  <2>0. Long(a.out)
    BY DEF Long, Cut
  <2>1. CASE split
    <3>1. Bytes(a.text) \in 1..DeltaBytes
      BY ONLY <1>1, <2>1
    <3>2. out = Append(a.out, a.text) /\ text = <<c>>
      BY <2>1
    <3>3. /\ out \in Seq(Seq(Char)) /\ Long(out) /\ Flatten(Pieces(k, out)) = W(a.out, a.text)
      BY <1>1, <1>3, <2>0, <3>1, <3>2
    <3>4. W(a.out, a.text) = Whole(k, a) /\ Whole(k, a) \in Seq(Tagged)
      <4>1. Flatten(Pieces(k, out)) \in Seq(Tagged)
        BY <1>4, <3>3
      <4> QED BY <3>3, <4>1 DEF W, Whole
    <3>5. Whole(k, a) \o Tag(k, <<c>>) = Append(Whole(k, a), <<k, c>>)
      <4>1. Tag(k, <<c>>) = <<<<k, c>>>> /\ <<k, c>> \in Tagged
        BY TagOf, <1>2
      <4>2. \A s \in Seq(Tagged), x \in Tagged : s \o <<x>> = Append(s, x)
        OBVIOUS
      <4> QED BY <3>4, <4>1, <4>2
    <3>6. Bytes(text) \in 1..DeltaBytes
      BY <1>1, <1>2, <3>2
    <3> QED BY <1>2, <3>2, <3>3, <3>4, <3>5, <3>6 DEF W
  <2>2. CASE ~split
    <3>1. out = a.out /\ text = Append(a.text, c)
      BY <2>2
    <3>2. Bytes(text) \in 1..DeltaBytes
      BY <1>1, <1>2, <2>2, <3>1
    <3>3. Flatten(Pieces(k, a.out)) \in Seq(Tagged)
      BY <1>1, <1>4
    <3>4. W(out, text) = Append(Whole(k, a), <<k, c>>)
      BY <1>1, <1>5, <3>1, <3>3 DEF W, Whole
    <3> QED BY <1>1, <1>2, <2>0, <3>1, <3>2, <3>4
  <2> QED BY <2>1, <2>2
<1>7. PushChar(a, c) = IF Bytes(text) = DeltaBytes THEN [text |-> <<>>, out |-> Append(out, text)]
                       ELSE [text |-> text, out |-> out]
  BY DEF PushChar
<1> HIDE DEF text, out, split
<1>8. CASE Bytes(text) = DeltaBytes
  <2> DEFINE o == Append(out, text)
  <2>1. o \in Seq(Seq(Char)) /\ Long(o) /\ Flatten(Pieces(k, o)) = W(out, text)
    BY <1>3, <1>6
  <2>2. PushChar(a, c) = [text |-> <<>>, out |-> o]
    BY <1>7, <1>8
  <2> HIDE DEF o
  <2>3. [text |-> <<>>, out |-> o] \in Cutting
    BY <1>2, <2>1 DEF Cutting
  <2>4. Cut(PushChar(a, c))
    BY <1>1, <1>2, <2>1, <2>2, <2>3 DEF Cut, Long
  <2>5. Flatten(Pieces(k, o)) \o Tag(k, <<>>) = Flatten(Pieces(k, o))
    BY <1>4, <2>1, TagOf, Concatenation
  <2>6. Whole(k, PushChar(a, c)) = Flatten(Pieces(k, o)) \o Tag(k, <<>>)
    BY <2>2 DEF Whole
  <2> QED BY <1>6, <2>1, <2>4, <2>5, <2>6
<1>9. CASE Bytes(text) # DeltaBytes
  <2>1. PushChar(a, c) = [text |-> text, out |-> out]
    BY <1>7, <1>9
  <2>2. [text |-> text, out |-> out] \in Cutting
    BY <1>6 DEF Cutting
  <2>3. Bytes(text) < DeltaBytes
    BY <1>1, <1>6, <1>9
  <2>4. Cut(PushChar(a, c))
    BY <1>6, <2>1, <2>2, <2>3 DEF Cut, Long
  <2>5. Whole(k, PushChar(a, c)) = W(out, text)
    BY <2>1 DEF Whole, W
  <2> QED BY <1>6, <2>4, <2>5
<1> QED
  BY <1>8, <1>9

\* A whole fragment.
LEMMA PushAll ==
  ASSUME NEW k \in Kinds, NEW x \in Seq(Char), Bytes(x) < DeltaBytes, NEW t \in Seq(Char)
  PROVE  LET r == FoldLeft(PushChar, [text |-> x, out |-> <<>>], t)
         IN Cut(r) /\ Whole(k, r) = Tag(k, x) \o Tag(k, t)
<1> DEFINE n == Len(t)
           base == [text |-> x, out |-> <<>>]
           A == {a \in Cutting : Cut(a)}
           h == [p \in (1..n) \X A |-> PushChar(p[2], t[p[1]])]
           Pushes(it) == it = [S \in SUBSET DOMAIN t |->
                                 IF S = {} THEN base ELSE PushChar(it[S \ {Max(S)}], t[Max(S)])]
<1>1. n \in Nat /\ DOMAIN t = 1..n /\ \A i \in 1..n : t[i] \in Char
  OBVIOUS
<1>2. base \in A /\ Whole(k, base) = Tag(k, x)
  <2>1. base \in Cutting /\ base.text = x /\ base.out = <<>> /\ Len(<<>>) = 0
    BY DEF Cutting
  <2>2. Flatten(Pieces(k, <<>>)) = <<>> /\ <<>> \o Tag(k, x) = Tag(k, x)
    <3>1. <<>> \in Seq(Seq(Char))
      OBVIOUS
    <3>2. Pieces(k, <<>>) = <<>>
      BY <3>1, PiecesOf
    <3> QED BY <3>2, FlattenSays, TagOf, Concatenation
  <2>3. Bytes(base.text) < DeltaBytes /\ \A i \in 1..Len(base.out) : Bytes(base.out[i]) \in 1..DeltaBytes
    BY <2>1
  <2>4. Cut(base)
    BY <2>1, <2>3 DEF Cut
  <2>5. Whole(k, base) = Tag(k, x)
    <3> HIDE DEF base
    <3> QED BY <2>1, <2>2 DEF Whole
  <2> QED BY <2>1, <2>4, <2>5
<1>3. \A a \in A, c \in Char : PushChar(a, c) \in A /\ Whole(k, PushChar(a, c)) = Append(Whole(k, a), <<k, c>>)
  <2> SUFFICES ASSUME NEW a \in A, NEW c \in Char
               PROVE  PushChar(a, c) \in A /\ Whole(k, PushChar(a, c)) = Append(Whole(k, a), <<k, c>>)
    OBVIOUS
  <2>1. Cut(PushChar(a, c)) /\ Whole(k, PushChar(a, c)) = Append(Whole(k, a), <<k, c>>)
    BY PushOne
  <2> QED BY <2>1 DEF Cut
<1> HIDE DEF A, base
<1>4. h \in [(1..n) \X A -> A]
  BY <1>1, <1>3
<1>5. PICK it \in [SUBSET (1..n) -> A] : Folding(it, n, base, h)
  <2> HIDE DEF h, n
  <2> QED BY <1>1, <1>2, <1>4, FoldExists
<1>6. Pushes(it)
  <2> SUFFICES ASSUME NEW S \in SUBSET (1..n), S # {}
               PROVE  it[S] = PushChar(it[S \ {Max(S)}], t[Max(S)])
    BY <1>1, <1>5 DEF Folding
  <2>1. Max(S) \in 1..n
    BY <1>1, LastIndex
  <2>2. it[S] = h[Max(S), it[S \ {Max(S)}]] /\ it[S \ {Max(S)}] \in A
    BY <1>5 DEF Folding
  <2> QED BY <2>1, <2>2
<1> DEFINE j == CHOOSE f : Pushes(f)
           r == FoldLeft(PushChar, base, t)
<1>7. r = j[DOMAIN t]
  BY ZenonT(30) DEF FoldLeft, MapThenFoldSet
<1>8. Pushes(j)
  <2> HIDE DEF Pushes
  <2> QED BY <1>6
<1> HIDE DEF j, n, r
<1> DEFINE Good(i, a) == a \in A /\ Whole(k, a) = Tag(k, x) \o Tag(k, SubSeq(t, 1, i))
           G == {i \in Nat : i <= n => Good(i, j[1..i])}
<1>9. 0 \in G
  <2>1. j[{}] = base /\ 1..0 = {}
    BY <1>1, <1>8
  <2>2. Tag(k, x) \in Seq(Tagged) /\ Tag(k, <<>>) = <<>> /\ SubSeq(t, 1, 0) = <<>>
    BY TagOf, Firsts
  <2>3. Tag(k, x) \o <<>> = Tag(k, x)
    BY <2>2, Concatenation
  <2> QED BY <1>2, <2>1, <2>2, <2>3
<1>10. ASSUME NEW i \in Nat, i \in G PROVE i + 1 \in G
  <2> SUFFICES ASSUME i + 1 <= n PROVE Good(i + 1, j[1..(i + 1)])
    OBVIOUS
  <2>1. Good(i, j[1..i]) /\ i + 1 \in 1..n /\ (i + 1) - 1 = i /\ i \in 0..n /\ t[i + 1] \in Char
    BY <1>1, <1>10
  <2>2. /\ 1..(i + 1) \in SUBSET (1..n) /\ 1..(i + 1) # {} /\ Max(1..(i + 1)) = i + 1
        /\ (1..(i + 1)) \ {i + 1} = 1..i
    BY <1>1, <2>1, FirstIndices
  <2>3. j[1..(i + 1)] = PushChar(j[1..i], t[i + 1])
    BY <1>1, <1>8, <2>2
  <2> DEFINE a == j[1..i]
             s == SubSeq(t, 1, i)
             c == t[i + 1]
  <2>4. a \in A /\ Whole(k, a) = Tag(k, x) \o Tag(k, s) /\ c \in Char
    BY <2>1
  <2>5. s \in Seq(Char) /\ SubSeq(t, 1, i + 1) = Append(s, c)
    BY <2>1, Firsts DEF n
  <2> HIDE DEF a, s, c
  <2>6. PushChar(a, c) \in A /\ Whole(k, PushChar(a, c)) = Append(Whole(k, a), <<k, c>>)
    BY <1>3, <2>4
  <2>7. /\ Tag(k, x) \in Seq(Tagged) /\ Tag(k, s) \in Seq(Tagged) /\ <<k, c>> \in Tagged
        /\ Tag(k, Append(s, c)) = Append(Tag(k, s), <<k, c>>)
    BY <2>4, <2>5, TagOf
  <2> DEFINE p == Tag(k, x)
  <2>8. \A q \in Seq(Tagged), y \in Tagged : p \o Append(q, y) = Append(p \o q, y)
    <3>1. p \in Seq(Tagged)
      BY <2>7
    <3> HIDE DEF p, Tagged
    <3> QED BY ONLY <3>1
  <2> HIDE DEF p, Tagged
  <2>9. Whole(k, PushChar(a, c)) = Tag(k, x) \o Tag(k, Append(s, c))
    BY ONLY <2>4, <2>6, <2>7, <2>8 DEF p
  <2> QED BY <2>3, <2>5, <2>6, <2>9 DEF a, c
<1>11. n \in G
  <2> HIDE DEF G
  <2> QED BY <1>1, <1>9, <1>10, CountingUp
<1>12. Good(n, r)
  BY <1>1, <1>7, <1>11
<1>13. SubSeq(t, 1, n) = t
  BY Firsts DEF n
<1>14. Cut(r) /\ Whole(k, r) = Tag(k, x) \o Tag(k, t)
  BY <1>12, <1>13 DEF A
<1> QED
  BY <1>14 DEF r, base

\* What the coalescer holds: of at most one kind, less than a batch.
Pend == [Kinds -> [text : Seq(Char), age : Nat]]
Short(p) == \A k \in Kinds : /\ Bytes(p[k].text) < DeltaBytes
                             /\ p[k].text = <<>> => p[k].age = 0
OneKind(p) == \A j, k \in Pending(p) : j = k
Kept(p) == p \in Pend /\ Short(p) /\ OneKind(p)
PendText(p) == Tag("text", p["text"].text) \o Tag("reasoning", p["reasoning"].text)

\* Batches as they are persisted.
Sized(out) == out \in Seq(Batch) /\ \A i \in 1..Len(out) : Bytes(out[i].text) \in 1..DeltaBytes

\* BatchesOf for no kind and for one; more never wait together.
LEMMA OneBatch ==
  ASSUME NEW p, NEW k
  PROVE  /\ BatchesOf(p, {}) = <<>>
         /\ BatchesOf(p, {k}) = <<[kind |-> k, text |-> p[k].text]>>
<1> DEFINE Old(s) == \A i, j \in DOMAIN s : i < j => p[s[i]].age >= p[s[j]].age
           first(ks) == CHOOSE s \in SetToSeqs(ks) : Old(s)
<1>1. \A ks : BatchesOf(p, ks) = [i \in 1..Len(first(ks)) |->
                                    [kind |-> first(ks)[i], text |-> p[first(ks)[i]].text]]
  BY DEF BatchesOf
<1>2. SetToSeqs({}) = {<<>>}
  <2>1. Cardinality({}) = 0 /\ 1..0 = {}
    BY FS_EmptySet
  <2>2. SetToSeqs({}) = {f \in [{} -> {}] : \A i, j \in {} : i # j => f[i] # f[j]}
    BY <2>1 DEF SetToSeqs
  <2>3. <<>> \in [{} -> {}] /\ \A f \in [{} -> {}] : f = <<>>
    OBVIOUS
  <2> QED BY <2>2, <2>3
<1>3. SetToSeqs({k}) = {<<k>>}
  <2>1. Cardinality({k}) = 1 /\ 1..1 = {1}
    BY FS_Singleton
  <2>2. SetToSeqs({k}) = {f \in [{1} -> {k}] : \A i, j \in {1} : i # j => f[i] # f[j]}
    BY <2>1 DEF SetToSeqs
  <2>3. <<k>> \in [{1} -> {k}] /\ \A f \in [{1} -> {k}] : f = <<k>>
    <3>1. Len(<<k>>) = 1 /\ <<k>>[1] = k /\ <<k>> \in Seq({k})
      OBVIOUS
    <3>2. <<k>> \in [{1} -> {k}]
      BY <3>1
    <3>3. ASSUME NEW f \in [{1} -> {k}] PROVE f = <<k>>
      <4>1. f[1] = k
        BY <3>3
      <4> QED BY <3>1, <3>2, <4>1
    <3> QED BY <3>2, <3>3
  <2> QED BY <2>2, <2>3
<1>4. Old(<<>>) /\ Old(<<k>>)
  <2>1. DOMAIN <<>> = {} /\ DOMAIN <<k>> = {1}
    OBVIOUS
  <2> QED BY <2>1
<1> HIDE DEF Old
<1>5. first({}) = <<>> /\ first({k}) = <<k>>
  BY <1>2, <1>3, <1>4
<1> HIDE DEF first
<1>6. Len(<<>>) = 0 /\ Len(<<k>>) = 1 /\ <<k>>[1] = k /\ 1..0 = {} /\ 1..1 = {1}
  OBVIOUS
<1>7. BatchesOf(p, {}) = <<>>
  BY <1>1, <1>5, <1>6
<1>8. BatchesOf(p, {k}) = <<[kind |-> k, text |-> p[k].text]>>
  <2> DEFINE b == [kind |-> k, text |-> p[k].text]
  <2>1. BatchesOf(p, {k}) = [i \in {1} |-> b]
    BY <1>1, <1>5, <1>6
  <2> HIDE DEF b
  <2>2. [i \in {1} |-> b] = <<b>>
    OBVIOUS
  <2> QED BY <2>1, <2>2 DEF b
<1> QED
  BY <1>7, <1>8

\* A buffer of one kind holds the text of that kind.
LEMMA PendSays ==
  ASSUME NEW p \in Pend
  PROVE  /\ PendText(p) \in Seq(Tagged)
         /\ \A k \in Kinds : Pending(p) \subseteq {k} => PendText(p) = Tag(k, p[k].text)
         /\ PendText(EmptyBuffers) = <<>> /\ Kept(EmptyBuffers) /\ Pending(EmptyBuffers) = {}
<1>1. /\ p["text"].text \in Seq(Char) /\ p["reasoning"].text \in Seq(Char)
      /\ "text" \in Kinds /\ "reasoning" \in Kinds /\ \A k \in Kinds : k \in {"text", "reasoning"}
  BY DEF Pend, Kinds
<1>2. Tag("text", p["text"].text) \in Seq(Tagged) /\ Tag("reasoning", p["reasoning"].text) \in Seq(Tagged)
  BY <1>1, TagOf
<1>3. PendText(p) \in Seq(Tagged)
  BY <1>2, Concatenation DEF PendText
<1>4. ASSUME NEW k \in Kinds, Pending(p) \subseteq {k} PROVE PendText(p) = Tag(k, p[k].text)
  <2>1. CASE k = "text"
    <3>1. p["reasoning"].text = <<>>
      BY <1>1, <1>4, <2>1 DEF Pending
    <3>2. Tag("reasoning", p["reasoning"].text) = <<>>
      BY <1>1, <3>1, TagOf
    <3> QED BY <1>2, <2>1, <3>2, Concatenation DEF PendText
  <2>2. CASE k = "reasoning"
    <3>1. p["text"].text = <<>>
      BY <1>1, <1>4, <2>2 DEF Pending
    <3>2. Tag("text", p["text"].text) = <<>>
      BY <1>1, <3>1, TagOf
    <3> QED BY <1>2, <2>2, <3>2, Concatenation DEF PendText
  <2> QED BY <1>1, <2>1, <2>2
<1>5. \A k \in Kinds : EmptyBuffers[k] = NoDelta /\ NoDelta.text = <<>> /\ NoDelta.age = 0
  BY DEF EmptyBuffers, NoDelta
<1>6. Pending(EmptyBuffers) = {}
  BY <1>5 DEF Pending
<1>7. PendText(EmptyBuffers) = <<>>
  BY <1>1, <1>5, TagOf, Concatenation DEF PendText
<1>8. EmptyBuffers \in Pend
  <2>1. NoDelta \in [text : Seq(Char), age : Nat]
    BY DEF NoDelta
  <2> QED BY <2>1 DEF EmptyBuffers, Pend
<1>9. Short(EmptyBuffers)
  <2>1. <<>> \in Seq(Char)
    OBVIOUS
  <2>2. Bytes(<<>>) = 0
    BY <2>1, BytesIn
  <2> QED BY <1>5, <2>2, LiveDeltaAssumption DEF Short
<1> QED
  BY <1>3, <1>4, <1>6, <1>7, <1>8, <1>9 DEF Kept, OneKind

\* What is taken from the buffers is what was in them.
LEMMA Taking ==
  ASSUME NEW p, Kept(p), NEW ks, ks \subseteq Pending(p)
  PROVE  /\ Kept(Taken(p, ks)) /\ Sized(BatchesOf(p, ks))
         /\ Flatten(BatchesOf(p, ks)) \o PendText(Taken(p, ks)) = PendText(p)
         /\ \A k \in Kinds : Taken(p, ks)[k] = IF k \in ks THEN NoDelta ELSE p[k]
         /\ Pending(Taken(p, ks)) = Pending(p) \ ks
<1> DEFINE q == Taken(p, ks)
<1>1. \A k \in Kinds : q[k] = IF k \in ks THEN NoDelta ELSE p[k]
  BY DEF Taken
<1>2. NoDelta \in [text : Seq(Char), age : Nat] /\ NoDelta.text = <<>> /\ NoDelta.age = 0
  BY DEF NoDelta
<1>3. p \in Pend /\ \A k \in Kinds : p[k] \in [text : Seq(Char), age : Nat]
  BY DEF Kept, Pend
<1>4. q \in Pend
  <2>1. q = [k \in Kinds |-> IF k \in ks THEN NoDelta ELSE p[k]]
    BY DEF Taken
  <2> QED BY <1>2, <1>3, <2>1 DEF Pend
<1>5. Pending(q) = Pending(p) \ ks
  BY <1>1, <1>2 DEF Pending
<1>6. CASE ks = {}
  <2>1. q = p
    BY <1>1, <1>3, <1>4, <1>6 DEF Pend
  <2>2. BatchesOf(p, ks) = <<>>
    BY <1>6, OneBatch
  <2>3. Flatten(<<>>) \o PendText(p) = PendText(p)
    BY <1>3, FlattenSays, PendSays, Concatenation
  <2>4. Sized(<<>>)
    BY DEF Sized
  <2> QED BY <1>1, <1>5, <2>1, <2>2, <2>3, <2>4
<1>7. CASE ks # {}
  <2>1. PICK k \in ks : TRUE
    BY <1>7
  <2>2. k \in Kinds /\ p[k].text # <<>> /\ k \in Pending(p)
    BY <2>1 DEF Pending
  <2>3. Pending(p) = {k} /\ ks = {k}
    BY <2>1, <2>2 DEF Kept, OneKind
  <2>4. BatchesOf(p, ks) = <<[kind |-> k, text |-> p[k].text]>>
    BY <2>3, OneBatch
  <2>5. \A j \in Kinds : q[j] = NoDelta
    <3> SUFFICES ASSUME NEW j \in Kinds PROVE q[j] = NoDelta
      OBVIOUS
    <3>1. CASE j \in ks
      BY <1>1, <3>1
    <3>2. CASE j \notin ks
      <4>1. p[j].text = <<>> /\ p[j].age = 0
        BY <2>3, <3>2 DEF Pending, Kept, Short
      <4>2. p[j] = [text |-> <<>>, age |-> 0]
        BY <1>3, <4>1
      <4> QED BY <1>1, <3>2, <4>2 DEF NoDelta
    <3> QED BY <3>1, <3>2
  <2>6. q = EmptyBuffers
    BY <1>4, <2>5 DEF Pend, EmptyBuffers
  <2> DEFINE b == [kind |-> k, text |-> p[k].text]
  <2>7. b \in Batch /\ b.kind = k /\ b.text = p[k].text /\ p[k].text \in Seq(Char)
    BY <1>3, <2>2 DEF Batch
  <2>8. Flatten(<<b>>) = Tag(k, p[k].text) /\ Flatten(<<b>>) \in Seq(Tagged)
    BY <2>2, <2>7, FlattenSays, TagOf
  <2>9. Flatten(<<b>>) \o PendText(q) = PendText(p)
    <3>1. PendText(p) = Tag(k, p[k].text)
      BY <1>3, <2>2, <2>3, PendSays
    <3>2. PendText(q) = <<>>
      BY <1>3, <2>6, PendSays
    <3>3. Flatten(<<b>>) \o <<>> = Flatten(<<b>>)
      BY ONLY <2>8, Concatenation
    <3> QED BY <2>8, <3>1, <3>2, <3>3
  <2>10. Sized(<<b>>)
    <3>1. Bytes(b.text) \in 1..DeltaBytes
      <4>1. Bytes(p[k].text) < DeltaBytes
        BY <2>2 DEF Kept, Short
      <4>2. Bytes(p[k].text) > 0 /\ Bytes(p[k].text) \in Nat
        BY <2>2, <2>7, BytesIn
      <4> QED BY <2>7, <4>1, <4>2, LiveDeltaAssumption
    <3> HIDE DEF b
    <3>2. <<b>> \in Seq(Batch) /\ Len(<<b>>) = 1 /\ <<b>>[1] = b
      BY <2>7
    <3> QED BY <3>1, <3>2 DEF Sized
  <2>11. Kept(q)
    BY <1>3, <2>6, PendSays
  <2> QED BY <1>1, <1>5, <2>4, <2>9, <2>10, <2>11
<1> QED
  BY <1>6, <1>7

\* No fragment waits longer than its delay.
Young(p, n) == \A k \in Kinds : p[k].age < n

\* What is due goes; nothing that stays is old.
LEMMA FlushDueSays ==
  ASSUME NEW p, Kept(p)
  PROVE  /\ Kept(FlushDue(p).p) /\ Sized(FlushDue(p).out) /\ Young(FlushDue(p).p, DeltaDelay)
         /\ Flatten(FlushDue(p).out) \o PendText(FlushDue(p).p) = PendText(p)
<1>1. FlushDue(p).p = Taken(p, Due(p)) /\ FlushDue(p).out = BatchesOf(p, Due(p))
  BY DEF FlushDue
<1>2. Due(p) \subseteq Pending(p)
  BY DEF Due
<1>3. ASSUME NEW k \in Kinds PROVE Taken(p, Due(p))[k].age < DeltaDelay
  <2>1. DeltaDelay \in Nat /\ DeltaDelay > 0
    BY LiveDeltaAssumption
  <2>2. CASE k \in Due(p)
    BY <1>2, <2>1, <2>2, Taking DEF NoDelta
  <2>3. CASE k \notin Due(p)
    <3>1. Taken(p, Due(p))[k] = p[k]
      BY <1>2, <2>3, Taking
    <3>2. p[k].age \in Nat
      BY DEF Kept, Pend
    <3>3. CASE p[k].text = <<>>
      BY <2>1, <3>1, <3>3 DEF Kept, Short
    <3>4. CASE p[k].text # <<>>
      BY <2>1, <2>3, <3>1, <3>2, <3>4 DEF Due, Pending
    <3> QED BY <3>3, <3>4
  <2> QED BY <2>2, <2>3
<1> QED
  BY <1>1, <1>2, <1>3, Taking DEF Young

\* At the end everything goes.
LEMMA FlushAllSays ==
  ASSUME NEW p, Kept(p)
  PROVE  Sized(FlushAll(p).out) /\ Flatten(FlushAll(p).out) = PendText(p)
<1>1. FlushAll(p).out = BatchesOf(p, Pending(p))
  BY DEF FlushAll
<1>2. /\ Kept(Taken(p, Pending(p))) /\ Pending(Taken(p, Pending(p))) = {}
      /\ Sized(BatchesOf(p, Pending(p)))
      /\ Flatten(BatchesOf(p, Pending(p))) \o PendText(Taken(p, Pending(p))) = PendText(p)
  BY Taking
<1> DEFINE q == Taken(p, Pending(p))
<1>3. PendText(q) = <<>>
  <2>1. q \in Pend /\ "text" \in Kinds /\ Pending(q) \subseteq {"text"}
    BY <1>2 DEF Kept, Kinds
  <2>2. q["text"].text = <<>>
    BY <1>2, <2>1 DEF Pending
  <2> HIDE DEF q
  <2> QED BY <2>1, <2>2, PendSays, TagOf
<1>4. Flatten(BatchesOf(p, Pending(p))) \in Seq(Tagged)
  BY <1>2, FlattenSays DEF Sized
<1>5. Flatten(BatchesOf(p, Pending(p))) \o <<>> = Flatten(BatchesOf(p, Pending(p)))
  BY ONLY <1>4, Concatenation
<1> QED
  BY <1>1, <1>2, <1>3, <1>5

\* A visible fragment: what goes and what stays is what was there and the
\* fragment after it.
LEMMA PushEventSays ==
  ASSUME NEW p, Kept(p), NEW k \in Kinds, NEW t \in Seq(Char)
  PROVE  LET r == PushEvent(p, k, t)
         IN /\ Kept(r.p) /\ Sized(r.out) /\ Young(r.p, DeltaDelay)
            /\ Flatten(r.out) \o PendText(r.p) = PendText(p) \o Tag(k, t)
<1> DEFINE due == FlushDue(p)
           other == Pending(due.p) \ {k}
           q == Taken(due.p, other)
           left == q[k]
           acc == FoldLeft(PushChar, [text |-> left.text, out |-> <<>>], t)
           new == IF acc.text = <<>> THEN NoDelta
                  ELSE [text |-> acc.text, age |-> IF acc.out = <<>> THEN left.age ELSE 0]
           whole == [p |-> [q EXCEPT ![k] = new],
                     out |-> due.out \o BatchesOf(due.p, other) \o Pieces(k, acc.out)]
<1>1. PushEvent(p, k, t) = IF t = <<>> THEN due ELSE whole
  BY DEF PushEvent, OtherKinds, Pieces
<1>2. /\ Kept(due.p) /\ Sized(due.out) /\ Young(due.p, DeltaDelay)
      /\ Flatten(due.out) \o PendText(due.p) = PendText(p)
  BY FlushDueSays
<1>3. PendText(p) \in Seq(Tagged) /\ p \in Pend
  BY PendSays DEF Kept
<1>4. CASE t = <<>>
  <2>1. Tag(k, t) = <<>>
    BY <1>4, TagOf
  <2>2. PendText(p) \o <<>> = PendText(p)
    BY ONLY <1>3, Concatenation
  <2> HIDE DEF due, whole
  <2> QED BY <1>1, <1>2, <1>4, <2>1, <2>2
<1>5. CASE t # <<>>
  <2> HIDE DEF due
  <2>1. /\ Kept(q) /\ Sized(BatchesOf(due.p, other))
        /\ Flatten(BatchesOf(due.p, other)) \o PendText(q) = PendText(due.p)
        /\ \A j \in Kinds : q[j] = IF j \in other THEN NoDelta ELSE due.p[j]
        /\ Pending(q) = Pending(due.p) \ other
    BY ZenonT(30), <1>2, Taking
  <2>2. Pending(q) \subseteq {k} /\ q \in Pend /\ left.age < DeltaDelay
    BY <1>2, <2>1 DEF Kept, Young
  <2> DEFINE B == BatchesOf(due.p, other)
  <2> HIDE DEF q, other, B
  <2>3. left.text \in Seq(Char) /\ left.age \in Nat /\ Bytes(left.text) < DeltaBytes
    BY <2>1, <2>2 DEF Kept, Short, Pend
  <2>4. PendText(q) = Tag(k, left.text)
    BY <2>2, PendSays
  <2> HIDE DEF left
  <2>5. Cut(acc) /\ Whole(k, acc) = Tag(k, left.text) \o Tag(k, t)
    BY <2>3, PushAll
  <2> HIDE DEF acc
  <2>6. /\ acc.text \in Seq(Char) /\ acc.out \in Seq(Seq(Char)) /\ Bytes(acc.text) < DeltaBytes
        /\ \A i \in 1..Len(acc.out) : Bytes(acc.out[i]) \in 1..DeltaBytes
    BY <2>5 DEF Cut, Cutting
  <2>7. /\ new \in [text : Seq(Char), age : Nat] /\ new.text = acc.text /\ new.age < DeltaDelay
        /\ new.text = <<>> => new.age = 0
    BY <2>2, <2>3, <2>6, LiveDeltaAssumption DEF NoDelta, left
  <2> HIDE DEF new
  <2> DEFINE r == [q EXCEPT ![k] = new]
  <2>8. r \in Pend /\ r[k] = new /\ \A j \in Kinds : j # k => r[j] = q[j]
    BY <2>2, <2>7 DEF Pend
  <2> HIDE DEF r
  <2>9. Pending(r) \subseteq {k}
    BY <2>2, <2>8 DEF Pending
  <2>10. Short(r) /\ OneKind(r)
    <3>1. Short(q)
      BY <2>1 DEF Kept
    <3> QED BY <2>6, <2>7, <2>8, <2>9, <3>1 DEF Short, OneKind
  <2>11. PendText(r) = Tag(k, acc.text)
    BY <2>7, <2>8, <2>9, PendSays
  <2>12. Young(r, DeltaDelay)
    <3>1. \A j \in Kinds : j # k => q[j].age < DeltaDelay
      <4> SUFFICES ASSUME NEW j \in Kinds, j # k PROVE q[j].age < DeltaDelay
        OBVIOUS
      <4>1. q[j].text = <<>>
        BY <2>2 DEF Pending
      <4>2. q[j].age = 0
        BY <2>1, <4>1 DEF Kept, Short
      <4> QED BY <4>2, LiveDeltaAssumption
    <3> QED BY <2>7, <2>8, <3>1 DEF Young
  <2> DEFINE P == Pieces(k, acc.out)
             X == Flatten(due.out)
             Y == Flatten(B)
             Z == Flatten(P)
             L == Tag(k, left.text)
             T == Tag(k, t)
             R == Tag(k, acc.text)
  <2>13. P \in Seq(Batch) /\ Len(P) = Len(acc.out) /\ \A i \in 1..Len(acc.out) : P[i].text = acc.out[i]
    BY <2>6, PiecesOf
  <2> HIDE DEF P
  <2>14. Sized(P)
    BY <2>6, <2>13 DEF Sized
  <2>15. /\ X \in Seq(Tagged) /\ Y \in Seq(Tagged) /\ Z \in Seq(Tagged) /\ L \in Seq(Tagged)
         /\ T \in Seq(Tagged) /\ R \in Seq(Tagged)
    <3>1. due.out \in Seq(Batch) /\ B \in Seq(Batch)
      BY <1>2, <2>1 DEF Sized, B
    <3> QED BY <2>3, <2>6, <2>13, <3>1, FlattenSays, TagOf
  <2>16. X \o (Y \o L) = PendText(p)
    BY <1>2, <2>1, <2>4 DEF B
  <2>17. Z \o R = L \o T
    BY <2>5 DEF Whole, P
  <2>18. Flatten(due.out \o B \o P) = (X \o Y) \o Z
    <3>1. due.out \in Seq(Batch) /\ B \in Seq(Batch) /\ P \in Seq(Batch)
      BY <1>2, <2>1, <2>13 DEF Sized, B
    <3>2. due.out \o B \in Seq(Batch)
      BY ONLY <3>1, Concatenation
    <3>3. Flatten((due.out \o B) \o P) = Flatten(due.out \o B) \o Flatten(P)
      BY <3>1, <3>2, FlattenSays
    <3>4. Flatten(due.out \o B) = X \o Y
      BY <3>1, FlattenSays
    <3> QED BY <3>3, <3>4
  <2> HIDE DEF X, Y, Z, L, T, R
  <2>19. ((X \o Y) \o Z) \o R = (X \o (Y \o L)) \o T
    <3> HIDE DEF Tagged
    <3>1. \A a, b, c \in Seq(Tagged) : (a \o b) \o c = a \o (b \o c)
      BY ONLY Concatenation, ZenonT(30)
    <3>2. \A a, b \in Seq(Tagged) : a \o b \in Seq(Tagged)
      BY ONLY Concatenation, ZenonT(30)
    <3> DEFINE W == X \o Y
    <3>3. W \in Seq(Tagged)
      BY ONLY <2>15, <3>2, ZenonT(30)
    <3>4. W \o L = X \o (Y \o L)
      BY ONLY <2>15, <3>1, ZenonT(60)
    <3> HIDE DEF W
    <3>5. (W \o Z) \o R = W \o (Z \o R)
      BY ONLY <2>15, <3>1, <3>3, ZenonT(60)
    <3>6. (W \o L) \o T = W \o (L \o T)
      BY ONLY <2>15, <3>1, <3>3, ZenonT(60)
    <3>7. (W \o Z) \o R = (X \o (Y \o L)) \o T
      BY ONLY <2>17, <3>4, <3>5, <3>6
    <3> QED BY ONLY <3>7 DEF W
  <2>20. Sized(due.out \o B \o P)
    <3> DEFINE Fits(b) == Bytes(b.text) \in 1..DeltaBytes
    <3>1. /\ due.out \in Seq(Batch) /\ B \in Seq(Batch) /\ P \in Seq(Batch)
          /\ \A i \in 1..Len(due.out) : Fits(due.out[i])
          /\ \A i \in 1..Len(B) : Fits(B[i])
          /\ \A i \in 1..Len(P) : Fits(P[i])
      BY <1>2, <2>1, <2>14 DEF Sized, B
    <3> HIDE DEF Fits
    <3> DEFINE D == due.out
    <3> HIDE DEF D, Batch
    <3>2. D \o B \o P \in Seq(Batch) /\ \A i \in 1..Len(D \o B \o P) : Fits((D \o B \o P)[i])
      <4>1. D \in Seq(Batch) /\ \A i \in 1..Len(D) : Fits(D[i])
        BY <3>1 DEF D
      <4> QED BY ONLY <3>1, <4>1
    <3> QED BY <3>2 DEF D, Sized, Fits
  <2> HIDE DEF B, P
  <2>21. PushEvent(p, k, t) = [p |-> r, out |-> due.out \o B \o P]
    BY <1>1, <1>5 DEF r, B, P
  <2>22. Flatten(due.out \o B \o P) \o PendText(r) = PendText(p) \o T
    BY <2>11, <2>16, <2>18, <2>19 DEF R
  <2> QED BY <2>8, <2>10, <2>12, <2>20, <2>21, <2>22 DEF Kept, T
<1> QED
  BY <1>4, <1>5

\* A tick.
LEMMA AgedKeeps ==
  ASSUME NEW p, Kept(p), NEW n \in Nat, Young(p, n)
  PROVE  Kept(Aged(p)) /\ PendText(Aged(p)) = PendText(p) /\ Young(Aged(p), n + 1)
<1>1. p \in Pend
  BY DEF Kept
<1>2. \A k \in Kinds : p[k] \in [text : Seq(Char), age : Nat]
  BY <1>1 DEF Pend
<1>3. ASSUME NEW k \in Kinds
      PROVE  /\ Aged(p)[k] \in [text : Seq(Char), age : Nat] /\ Aged(p)[k].text = p[k].text
             /\ Aged(p)[k].age < n + 1 /\ (p[k].text = <<>> => Aged(p)[k].age = 0)
  <2>1. Aged(p)[k] = IF p[k].text = <<>> THEN p[k] ELSE [p[k] EXCEPT !.age = @ + 1]
    BY DEF Aged
  <2>2. p[k].age \in Nat /\ p[k].age < n /\ (p[k].text = <<>> => p[k].age = 0)
    BY <1>2 DEF Young, Kept, Short
  <2> DEFINE b == [p[k] EXCEPT !.age = @ + 1]
  <2>3. b \in [text : Seq(Char), age : Nat] /\ b.text = p[k].text /\ b.age = p[k].age + 1
    BY <1>2
  <2> HIDE DEF b
  <2>4. CASE p[k].text = <<>>
    BY <1>2, <2>1, <2>2, <2>4
  <2>5. CASE p[k].text # <<>>
    BY <1>2, <2>1, <2>2, <2>3, <2>5 DEF b
  <2> QED BY <2>4, <2>5
<1>4. Aged(p) \in Pend
  <2>1. Aged(p) = [k \in Kinds |-> Aged(p)[k]]
    BY DEF Aged
  <2> HIDE DEF Pend
  <2>2. [k \in Kinds |-> Aged(p)[k]] \in [Kinds -> [text : Seq(Char), age : Nat]]
    BY <1>3
  <2> QED BY <2>1, <2>2 DEF Pend
<1>5. Pending(Aged(p)) = Pending(p)
  BY <1>3 DEF Pending
<1>6. Short(Aged(p)) /\ OneKind(Aged(p)) /\ Young(Aged(p), n + 1)
  <2>1. Short(p) /\ OneKind(p)
    BY DEF Kept
  <2> QED BY <1>3, <1>5, <2>1 DEF Short, OneKind, Young
<1>7. PendText(Aged(p)) = PendText(p)
  <2>1. "text" \in Kinds /\ "reasoning" \in Kinds
    BY DEF Kinds
  <2> QED BY <1>3, <2>1 DEF PendText
<1> QED
  BY <1>4, <1>6, <1>7 DEF Kept
-----------------------------------------------------------------------------
(***************************************************************************)
(* The call.                                                               *)
(***************************************************************************)
CallOf(U) == [id : Nat, usage : BOOLEAN, completed : BOOLEAN, count : Nat, order : Seq(U),
              done : SUBSET U, builtin : SUBSET U, builtinDone : SUBSET U, text : Seq(Tagged)]
SaidOf == [visible : Seq(Tagged), calls : Nat, ended : BOOLEAN, after : BOOLEAN]

\* The ids an adapter has at least.
Ids(U) == 0 \in U /\ CallId \subseteq U

\* The normaliser, the events it gave and the locals of execute.
Reading(U) == /\ Ids(U) /\ norm \in Norm(U) /\ queue \in Seq(EventOf(U))
              /\ exec \in CallOf(U) /\ IsFiniteSet(exec.builtinDone)

\* What a call starts with.
LEMMA NewReading ==
  ASSUME NEW U, Ids(U)
  PROVE  /\ NewNormalizer \in Norm(U) /\ NewCall \in CallOf(U) /\ IsFiniteSet(NewCall.builtinDone)
         /\ NewCall.text = <<>> /\ NewCall.order = <<>> /\ ~NewCall.completed
         /\ ~NewNormalizer.completed /\ Silence \in SaidOf
         /\ Silence.visible = <<>> /\ Silence.calls = 0 /\ ~Silence.ended /\ ~Silence.after
<1>1. NoItem \in ItemOf(U)
  BY DEF Ids, NoItem, ItemOf
<1>2. NewNormalizer \in Norm(U) /\ ~NewNormalizer.completed
  <2>1. [i \in Item |-> NoItem] \in [Item -> ItemOf(U)]
    BY <1>1
  <2> HIDE DEF ItemOf
  <2> QED BY <2>1 DEF NewNormalizer, Norm
<1>3. /\ NewCall \in CallOf(U) /\ NewCall.builtinDone = {} /\ NewCall.text = <<>>
      /\ NewCall.order = <<>> /\ ~NewCall.completed
  BY DEF NewCall, CallOf
<1>4. /\ Silence \in SaidOf /\ Silence.visible = <<>> /\ Silence.calls = 0
      /\ ~Silence.ended /\ ~Silence.after
  BY DEF Silence, SaidOf
<1> QED
  BY <1>2, <1>3, <1>4, FS_EmptySet

\* What the executor remembers is what the event says.
LEMMA RecordedSays ==
  ASSUME NEW U, NEW x \in CallOf(U), IsFiniteSet(x.builtinDone), NEW e \in EventOf(U)
  PROVE  LET r == Recorded(x, e)
         IN /\ r \in CallOf(U) /\ IsFiniteSet(r.builtinDone)
            /\ r.text = x.text \o VisibleIn(e) /\ r.order = x.order \o AskedIn(e)
            /\ r.completed => x.completed \/ e.type = "completed"
            /\ r.count = x.count
<1> DEFINE r == Recorded(x, e)
<1>0. /\ e.type \in EventTypes /\ e.id \in Nat /\ e.call \in U /\ e.kind \in Kinds /\ e.text \in Seq(Char)
  BY DEF EventOf
<1>1. /\ x.id \in Nat /\ x.text \in Seq(Tagged) /\ x.order \in Seq(U)
      /\ x.text \o <<>> = x.text /\ x.order \o <<>> = x.order
  <2>1. x.id \in Nat /\ x.text \in Seq(Tagged) /\ x.order \in Seq(U)
    BY DEF CallOf
  <2> QED BY <2>1, Concatenation
<1>2. CASE e.type \in {"started", "completed"}
  <2>1. r = [x EXCEPT !.id = IF e.id = 0 THEN @ ELSE e.id, !.completed = @ \/ e.type = "completed"]
    BY <1>2 DEF Recorded
  <2>2. VisibleIn(e) = <<>> /\ AskedIn(e) = <<>>
    BY <1>2 DEF VisibleIn, AskedIn
  <2> HIDE DEF r
  <2>3. /\ r \in CallOf(U) /\ r.text = x.text /\ r.order = x.order /\ r.count = x.count
        /\ r.builtinDone = x.builtinDone /\ r.completed = (x.completed \/ e.type = "completed")
    BY <1>0, <1>1, <2>1 DEF CallOf
  <2> QED BY <1>1, <2>2, <2>3 DEF r
<1>3. CASE e.type = "usage"
  <2>1. r = [x EXCEPT !.usage = TRUE]
    BY <1>3 DEF Recorded
  <2>2. VisibleIn(e) = <<>> /\ AskedIn(e) = <<>>
    BY <1>3 DEF VisibleIn, AskedIn
  <2> HIDE DEF r
  <2>3. /\ r \in CallOf(U) /\ r.text = x.text /\ r.order = x.order /\ r.count = x.count
        /\ r.builtinDone = x.builtinDone /\ r.completed = x.completed
    BY <2>1 DEF CallOf
  <2> QED BY <1>1, <2>2, <2>3 DEF r
<1>4. CASE e.type = "call"
  <2>1. r = [x EXCEPT !.order = Append(@, e.call)]
    BY <1>4 DEF Recorded
  <2>2. VisibleIn(e) = <<>> /\ AskedIn(e) = <<e.call>>
    BY <1>4 DEF VisibleIn, AskedIn
  <2>3. Append(x.order, e.call) = x.order \o <<e.call>> /\ Append(x.order, e.call) \in Seq(U)
    <3>1. \A s \in Seq(U), c \in U : Append(s, c) = s \o <<c>> /\ Append(s, c) \in Seq(U)
      OBVIOUS
    <3> QED BY ONLY <1>0, <1>1, <3>1
  <2> HIDE DEF r
  <2>4. /\ r \in CallOf(U) /\ r.text = x.text /\ r.order = Append(x.order, e.call) /\ r.count = x.count
        /\ r.builtinDone = x.builtinDone /\ r.completed = x.completed
    BY <2>1, <2>3 DEF CallOf
  <2> QED BY <1>1, <2>2, <2>3, <2>4 DEF r
<1>5. CASE e.type = "call_done"
  <2>1. r = [x EXCEPT !.done = @ \cup {e.call}]
    BY <1>5 DEF Recorded
  <2>2. VisibleIn(e) = <<>> /\ AskedIn(e) = <<>>
    BY <1>5 DEF VisibleIn, AskedIn
  <2> HIDE DEF r
  <2>3. /\ r \in CallOf(U) /\ r.text = x.text /\ r.order = x.order /\ r.count = x.count
        /\ r.builtinDone = x.builtinDone /\ r.completed = x.completed
    BY <1>0, <2>1 DEF CallOf
  <2> QED BY <1>1, <2>2, <2>3 DEF r
<1>6. CASE e.type = "builtin"
  <2>1. r = [x EXCEPT !.builtin = @ \cup {e.call}]
    BY <1>6 DEF Recorded
  <2>2. VisibleIn(e) = <<>> /\ AskedIn(e) = <<>>
    BY <1>6 DEF VisibleIn, AskedIn
  <2> HIDE DEF r
  <2>3. /\ r \in CallOf(U) /\ r.text = x.text /\ r.order = x.order /\ r.count = x.count
        /\ r.builtinDone = x.builtinDone /\ r.completed = x.completed
    BY <1>0, <2>1 DEF CallOf
  <2> QED BY <1>1, <2>2, <2>3 DEF r
<1>7. CASE e.type = "builtin_done"
  <2>1. r = [x EXCEPT !.builtinDone = @ \cup {e.call}]
    BY <1>7 DEF Recorded
  <2>2. VisibleIn(e) = <<>> /\ AskedIn(e) = <<>>
    BY <1>7 DEF VisibleIn, AskedIn
  <2> HIDE DEF r
  <2>3. /\ r \in CallOf(U) /\ r.text = x.text /\ r.order = x.order /\ r.count = x.count
        /\ r.builtinDone = x.builtinDone \cup {e.call} /\ r.completed = x.completed
    BY <1>0, <2>1 DEF CallOf
  <2>4. IsFiniteSet(x.builtinDone \cup {e.call})
    BY FS_AddElement
  <2> QED BY <1>1, <2>2, <2>3, <2>4 DEF r
<1>8. CASE e.type = "delta"
  <2>1. r = [x EXCEPT !.text = @ \o Tag(e.kind, e.text)]
    BY <1>8 DEF Recorded
  <2>2. VisibleIn(e) = Tag(e.kind, e.text) /\ AskedIn(e) = <<>>
    BY <1>8 DEF VisibleIn, AskedIn
  <2>3. x.text \o Tag(e.kind, e.text) \in Seq(Tagged)
    BY <1>0, <1>1, TagOf, Concatenation
  <2> HIDE DEF r
  <2>4. /\ r \in CallOf(U) /\ r.text = x.text \o Tag(e.kind, e.text) /\ r.order = x.order
        /\ r.count = x.count /\ r.builtinDone = x.builtinDone /\ r.completed = x.completed
    BY <2>1, <2>3 DEF CallOf
  <2> QED BY <1>1, <2>2, <2>4 DEF r
<1>9. CASE e.type \in {"unknown", "arguments"}
  <2>1. r = x
    BY <1>9 DEF Recorded
  <2>2. VisibleIn(e) = <<>> /\ AskedIn(e) = <<>>
    BY <1>9 DEF VisibleIn, AskedIn
  <2> HIDE DEF r
  <2> QED BY <1>1, <2>1, <2>2 DEF r
<1> QED
  BY <1>0, <1>2, <1>3, <1>4, <1>5, <1>6, <1>7, <1>8, <1>9 DEF EventTypes

\* A frame, refused or not, says some text.
LEMMA FrameSays ==
  ASSUME NEW mode \in {"openai", "anthropic", "ollama", "background"}, NEW w \in FramesOf(mode)
  PROVE  WireFrame(w) /\ HeardText(w) \in Seq(Tagged) /\ HeardCalls(w) \in Nat /\ HeardEnd(w) \in BOOLEAN
<1>1. WireFrame(w) /\ (w.type = "delta" => w.kind \in Kinds)
  <2>1. /\ mode = "openai" => w \in OpenAiFrames
        /\ mode = "anthropic" => w \in AnthropicFrames
        /\ mode = "ollama" => w \in OllamaFrames
        /\ mode # "background"
    BY DEF FramesOf
  <2>2. CASE mode = "openai"
    BY <2>1, <2>2, OpenAiFrameIs
  <2>3. CASE mode = "anthropic"
    BY <2>1, <2>3, AnthropicFrameIs
  <2>4. CASE mode = "ollama"
    BY <2>1, <2>4, OllamaFrameIs
  <2> QED BY <2>1, <2>2, <2>3, <2>4
<1>2. HeardText(w) \in Seq(Tagged)
  <2> DEFINE k == IF w.type = "delta" THEN w.kind ELSE "text"
  <2>1. k \in Kinds /\ w.text \in Seq(Char)
    BY <1>1 DEF Kinds, WireFrame
  <2> HIDE DEF k
  <2>2. Tag(k, w.text) \in Seq(Tagged)
    BY <2>1, TagOf
  <2> QED BY <2>2 DEF k, HeardText
<1>3. HeardCalls(w) \in Nat /\ HeardEnd(w) \in BOOLEAN
  BY <1>1 DEF HeardCalls, HeardEnd, WireFrame
<1> QED
  BY <1>1, <1>2, <1>3

\* All events of a document.
LEMMA RecordAll ==
  ASSUME NEW U, Ids(U), NEW t \in Seq(EventOf(U))
  PROVE  LET r == FoldLeft(Recorded, NewCall, t)
         IN /\ r \in CallOf(U) /\ IsFiniteSet(r.builtinDone) /\ r.text = Visible(t) /\ r.order = Asked(t)
            /\ r.count = 0
<1> DEFINE n == Len(t)
           base == NewCall
           A == {x \in CallOf(U) : IsFiniteSet(x.builtinDone) /\ x.count = 0}
           h == [p \in (1..n) \X A |-> Recorded(p[2], t[p[1]])]
           Records(it) == it = [S \in SUBSET DOMAIN t |->
                                  IF S = {} THEN base ELSE Recorded(it[S \ {Max(S)}], t[Max(S)])]
           E == EventOf(U)
<1>0. /\ \A p, q \in Seq(E) : /\ Visible(p \o q) = Visible(p) \o Visible(q)
                               /\ Asked(p \o q) = Asked(p) \o Asked(q)
      /\ \A e \in E : Visible(<<e>>) = VisibleIn(e) /\ Asked(<<e>>) = AskedIn(e)
  BY EventsSay DEF E
<1>1. n \in Nat /\ DOMAIN t = 1..n /\ \A i \in 1..n : t[i] \in E
  <2> HIDE DEF E
  <2>1. t \in Seq(E)
    BY DEF E
  <2> QED BY <2>1
<1>2. base \in A /\ base.text = <<>> /\ base.order = <<>>
  BY NewReading DEF NewCall
<1>3. \A a \in A, e \in E : /\ Recorded(a, e) \in A
                            /\ Recorded(a, e).text = a.text \o VisibleIn(e)
                            /\ Recorded(a, e).order = a.order \o AskedIn(e)
  BY RecordedSays
<1> HIDE DEF A, base, E
<1>4. h \in [(1..n) \X A -> A]
  BY <1>1, <1>3
<1>5. PICK it \in [SUBSET (1..n) -> A] : Folding(it, n, base, h)
  <2> HIDE DEF h, n
  <2> QED BY <1>1, <1>2, <1>4, FoldExists
<1>6. Records(it)
  <2> SUFFICES ASSUME NEW S \in SUBSET (1..n), S # {}
               PROVE  it[S] = Recorded(it[S \ {Max(S)}], t[Max(S)])
    BY <1>1, <1>5 DEF Folding
  <2>1. Max(S) \in 1..n
    BY <1>1, LastIndex
  <2>2. it[S] = h[Max(S), it[S \ {Max(S)}]] /\ it[S \ {Max(S)}] \in A
    BY <1>5 DEF Folding
  <2> QED BY <2>1, <2>2
<1> DEFINE j == CHOOSE f : Records(f)
           r == FoldLeft(Recorded, base, t)
<1>7. r = j[DOMAIN t]
  BY ZenonT(30) DEF FoldLeft, MapThenFoldSet
<1>8. Records(j)
  <2> HIDE DEF Records
  <2> QED BY <1>6
<1> HIDE DEF j, n, r
<1> DEFINE Good(i, a) == /\ a \in A /\ a.text = Visible(SubSeq(t, 1, i))
                         /\ a.order = Asked(SubSeq(t, 1, i))
           G == {i \in Nat : i <= n => Good(i, j[1..i])}
<1>9. 0 \in G
  <2>1. j[{}] = base /\ 1..0 = {}
    BY <1>1, <1>8
  <2>2. SubSeq(t, 1, 0) = <<>>
    BY Firsts
  <2>3. Visible(<<>>) = <<>> /\ Asked(<<>>) = <<>>
    BY EventsSay
  <2> QED BY <1>2, <2>1, <2>2, <2>3
<1>10. ASSUME NEW i \in Nat, i \in G PROVE i + 1 \in G
  <2> SUFFICES ASSUME i + 1 <= n PROVE Good(i + 1, j[1..(i + 1)])
    OBVIOUS
  <2>1. Good(i, j[1..i]) /\ i + 1 \in 1..n /\ (i + 1) - 1 = i /\ i \in 0..n /\ t[i + 1] \in E
    BY <1>1, <1>10
  <2>2. /\ 1..(i + 1) \in SUBSET (1..n) /\ 1..(i + 1) # {} /\ Max(1..(i + 1)) = i + 1
        /\ (1..(i + 1)) \ {i + 1} = 1..i
    BY <1>1, <2>1, FirstIndices
  <2>3. j[1..(i + 1)] = Recorded(j[1..i], t[i + 1])
    BY <1>1, <1>8, <2>2
  <2> DEFINE a == j[1..i]
             s == SubSeq(t, 1, i)
             e == t[i + 1]
  <2>4. a \in A /\ a.text = Visible(s) /\ a.order = Asked(s) /\ e \in E
    BY <2>1
  <2>5. s \in Seq(E) /\ SubSeq(t, 1, i + 1) = Append(s, e)
    BY <2>1, Firsts DEF n, E
  <2> HIDE DEF a, s, e
  <2>6. Append(s, e) = s \o <<e>> /\ <<e>> \in Seq(E)
    BY ONLY <2>4, <2>5
  <2>7. /\ Visible(s \o <<e>>) = Visible(s) \o VisibleIn(e)
        /\ Asked(s \o <<e>>) = Asked(s) \o AskedIn(e)
    BY ONLY <1>0, <2>4, <2>5, <2>6
  <2>8. Good(i + 1, Recorded(a, e))
    BY <1>3, <2>4, <2>5, <2>6, <2>7
  <2> HIDE DEF Good
  <2> QED BY <2>3, <2>8 DEF a, e
<1>11. n \in G
  <2> HIDE DEF G
  <2> QED BY <1>1, <1>9, <1>10, CountingUp
<1>12. Good(n, r)
  BY <1>1, <1>7, <1>11
<1>13. SubSeq(t, 1, n) = t
  BY Firsts DEF n
<1>14. /\ r \in CallOf(U) /\ IsFiniteSet(r.builtinDone) /\ r.text = Visible(t) /\ r.order = Asked(t)
       /\ r.count = 0
  BY <1>12, <1>13 DEF A
<1> QED
  BY <1>14 DEF r, base

\* The document of a background response says its text and asks for nothing.
LEMMA DocumentSays ==
  ASSUME NEW U, Ids(U), NEW d \in BackgroundDocuments
  PROVE  /\ BackgroundEvents(d) \in Seq(EventOf(U)) /\ BackgroundText(d.output) \in Seq(Tagged)
         /\ Visible(BackgroundEvents(d)) = BackgroundText(d.output)
         /\ Asked(BackgroundEvents(d)) = <<>>
<1> DEFINE E == EventOf(U)
           ev(i) == Delta(i.kind, i.text)
           deltas == [i \in 1..Len(d.output) |-> ev(d.output[i])]
           first == Started(1)
           u == Event("usage")
           c == Completed(1)
<1>0. /\ \A p, q \in Seq(E) : /\ Visible(p \o q) = Visible(p) \o Visible(q)
                               /\ Asked(p \o q) = Asked(p) \o Asked(q)
      /\ \A e \in E : Visible(<<e>>) = VisibleIn(e) /\ Asked(<<e>>) = AskedIn(e)
  BY EventsSay DEF E
<1>1. /\ first \in E /\ u \in E /\ c \in E
      /\ first.type = "started" /\ u.type = "usage" /\ c.type = "completed"
  BY EventsAre DEF Ids
<1>2. /\ VisibleIn(first) = <<>> /\ VisibleIn(u) = <<>> /\ VisibleIn(c) = <<>>
      /\ AskedIn(first) = <<>> /\ AskedIn(u) = <<>> /\ AskedIn(c) = <<>>
  BY <1>1 DEF VisibleIn, AskedIn
<1> HIDE DEF first, u, c
<1>3. \A i \in BackgroundItems : i.kind \in Kinds /\ i.text \in Seq(Char)
  <2>1. Fragment \subseteq Seq(Char)
    BY FragmentsAre
  <2> QED BY <2>1 DEF BackgroundItems
<1>4. \A i \in BackgroundItems : /\ ev(i) \in E /\ VisibleIn(ev(i)) = Tag(i.kind, i.text)
                                 /\ AskedIn(ev(i)) = <<>> /\ Tag(i.kind, i.text) \in Seq(Tagged)
  <2> SUFFICES ASSUME NEW i \in BackgroundItems
               PROVE  /\ ev(i) \in E /\ VisibleIn(ev(i)) = Tag(i.kind, i.text)
                      /\ AskedIn(ev(i)) = <<>> /\ Tag(i.kind, i.text) \in Seq(Tagged)
    OBVIOUS
  <2>1. i.kind \in Kinds /\ i.text \in Seq(Char)
    BY <1>3
  <2>2. ev(i) \in E /\ ev(i).type = "delta" /\ ev(i).kind = i.kind /\ ev(i).text = i.text
    BY <2>1, EventsAre DEF Ids
  <2> HIDE DEF ev
  <2> QED BY <2>1, <2>2, TagOf DEF VisibleIn, AskedIn
<1> DEFINE I == {b \in BackgroundItems : b.whole}
<1>5. \/ d.output = <<>>
      \/ \E i \in BackgroundItems : d.output = <<i>>
      \/ \E i, j \in BackgroundItems : d.output = <<i, j>>
  <2>1. d.output \in {<<>>} \cup {<<i>> : i \in BackgroundItems}
                     \cup {<<i, j>> : i, j \in {b \in BackgroundItems : b.whole}}
    BY DEF BackgroundDocuments
  <2> DEFINE one(i) == <<i>>
             two(i, j) == <<i, j>>
  <2>2. d.output \in {<<>>} \cup {one(i) : i \in BackgroundItems} \cup {two(i, j) : i, j \in I}
    BY <2>1
  <2>3. I \subseteq BackgroundItems
    OBVIOUS
  <2> HIDE DEF BackgroundItems, I, one, two
  <2>4. \/ d.output = <<>>
        \/ \E i \in BackgroundItems : d.output = one(i)
        \/ \E i, j \in BackgroundItems : d.output = two(i, j)
    BY ONLY <2>2, <2>3
  <2> QED BY <2>4 DEF one, two
<1> HIDE DEF ev, I
<1> DEFINE q == d.output
<1>6. q \in Seq(BackgroundItems) /\ Len(q) \in Nat /\ \A i \in 1..Len(q) : q[i] \in BackgroundItems
  <2> HIDE DEF BackgroundItems
  <2>1. \A i, j \in BackgroundItems : <<i>> \in Seq(BackgroundItems) /\ <<i, j>> \in Seq(BackgroundItems)
    OBVIOUS
  <2>2. <<>> \in Seq(BackgroundItems)
    OBVIOUS
  <2>3. q \in Seq(BackgroundItems)
    BY <1>5, <2>1, <2>2
  <2> HIDE DEF q
  <2> QED BY <2>3
<1> HIDE DEF q, E
<1>7. /\ deltas = [i \in 1..Len(q) |-> ev(q[i])] /\ deltas \in Seq(E) /\ Len(deltas) = Len(q)
      /\ \A i \in 1..Len(q) : deltas[i] = ev(q[i])
  <2>1. deltas = [i \in 1..Len(q) |-> ev(q[i])]
    BY DEF q
  <2>2. \A i \in 1..Len(q) : ev(q[i]) \in E
    BY <1>4, <1>6
  <2> HIDE DEF deltas
  <2> QED BY ONLY <1>6, <2>1, <2>2
<1> HIDE DEF deltas
<1>8. Visible(deltas) = Flatten(q) /\ Flatten(q) \in Seq(Tagged)
  <2>1. [i \in 1..Len(deltas) |-> VisibleIn(deltas[i])] = [i \in 1..Len(q) |-> Tag(q[i].kind, q[i].text)]
    BY <1>4, <1>6, <1>7
  <2>2. Visible(deltas) = Flatten(q)
    BY <2>1 DEF Visible, Flatten
  <2> QED BY <1>7, <2>2, EventsSay DEF E
<1>9. Asked(deltas) = <<>>
  <2>1. CASE q = <<>>
    <3>1. Len(deltas) = 0
      BY <1>7, <2>1
    <3>2. deltas = <<>>
      BY <1>7, <3>1
    <3> QED BY <3>2, EventsSay
  <2>2. CASE \E i \in BackgroundItems : q = <<i>>
    <3>1. PICK i \in BackgroundItems : q = <<i>>
      BY <2>2
    <3>2. Len(q) = 1 /\ q[1] = i
      BY <3>1
    <3>3. deltas = <<ev(i)>>
      BY <1>7, <3>2
    <3>4. Asked(<<ev(i)>>) = AskedIn(ev(i))
      BY <1>4, EventsSay DEF E
    <3> QED BY <1>4, <3>3, <3>4
  <2>3. CASE \E i, j \in BackgroundItems : q = <<i, j>>
    <3>1. PICK i \in BackgroundItems, j \in BackgroundItems : q = <<i, j>>
      BY <2>3
    <3>2. Len(q) = 2 /\ q[1] = i /\ q[2] = j
      BY <3>1
    <3>3. deltas = <<ev(i), ev(j)>>
      BY <1>7, <3>2
    <3>4. Asked(<<ev(i), ev(j)>>) = AskedIn(ev(i)) \o AskedIn(ev(j))
      BY <1>4, FewEvents DEF E
    <3>5. AskedIn(ev(i)) = <<>> /\ AskedIn(ev(j)) = <<>> /\ <<>> \o <<>> = <<>>
      BY <1>4
    <3> QED BY <3>3, <3>4, <3>5
  <2> QED BY <1>5, <2>1, <2>2, <2>3 DEF q
<1> DEFINE all == <<first>> \o deltas \o <<u, c>>
<1>10. BackgroundEvents(d) = all
  BY DEF BackgroundEvents, deltas, first, u, c, ev
<1>11. /\ <<first>> \in Seq(E) /\ <<u, c>> \in Seq(E)
       /\ Visible(<<first>>) = <<>> /\ Asked(<<first>>) = <<>>
       /\ Visible(<<u, c>>) = <<>> /\ Asked(<<u, c>>) = <<>>
  <2>1. <<>> \o <<>> = <<>>
    OBVIOUS
  <2>2. <<first>> \in Seq(E)
    BY ONLY <1>1
  <2>3. <<u, c>> \in Seq(E) /\ Visible(<<u, c>>) = VisibleIn(u) \o VisibleIn(c)
        /\ Asked(<<u, c>>) = AskedIn(u) \o AskedIn(c)
    BY <1>1, FewEvents DEF E
  <2> QED BY <1>0, <1>1, <1>2, <2>1, <2>2, <2>3
<1>12. <<first>> \o deltas \in Seq(E) /\ all \in Seq(E)
  BY ONLY <1>7, <1>11, Concatenation
<1>13. /\ Visible(all) = (Visible(<<first>>) \o Visible(deltas)) \o Visible(<<u, c>>)
       /\ Asked(all) = (Asked(<<first>>) \o Asked(deltas)) \o Asked(<<u, c>>)
  <2> DEFINE x == <<first>> \o deltas
             y == <<u, c>>
  <2>1. x \in Seq(E) /\ y \in Seq(E) /\ all = x \o y
    BY <1>11, <1>12
  <2>2. /\ Visible(x) = Visible(<<first>>) \o Visible(deltas)
        /\ Asked(x) = Asked(<<first>>) \o Asked(deltas)
    BY ONLY <1>0, <1>7, <1>11
  <2> HIDE DEF x, y, all
  <2>3. Visible(x \o y) = Visible(x) \o Visible(y) /\ Asked(x \o y) = Asked(x) \o Asked(y)
    BY ONLY <1>0, <2>1
  <2> QED BY <2>1, <2>2, <2>3 DEF y
<1>14. (<<>> \o Flatten(q)) \o <<>> = Flatten(q)
  BY ONLY <1>8, Concatenation
<1>15. (<<>> \o <<>>) \o <<>> = <<>>
  OBVIOUS
<1> HIDE DEF all
<1> QED
  BY <1>8, <1>9, <1>10, <1>11, <1>12, <1>13, <1>14, <1>15 DEF E, q, BackgroundText
-----------------------------------------------------------------------------
(***************************************************************************)
(* The message.                                                            *)
(***************************************************************************)
Filled(b) == b \in Seq(Seq(Char)) /\ \A i \in 1..Len(b) : Bytes(b[i]) \in 1..BlockBytes

\* One character more in the blocks.
LEMMA FillOne ==
  ASSUME NEW b, Filled(b), NEW c \in Char
  PROVE  /\ Filled(AppendCharacter(b, c))
         /\ FlattenSeq(AppendCharacter(b, c)) = Append(FlattenSeq(b), c)
<1> DEFINE T == Seq(Char)
           Fits(y) == Bytes(y) \in 1..BlockBytes
<1>0. b \in Seq(T) /\ Len(b) \in Nat /\ c \in Nat /\ c > 0 /\ c <= BlockBytes /\ BlockBytes \in Nat
  <2>1. b \in Seq(T)
    BY DEF Filled
  <2> HIDE DEF T
  <2> QED BY <2>1, ProviderCallAssumption DEF Char
<1>1. ASSUME NEW o \in Seq(T), \A i \in 1..Len(o) : Fits(o[i]), NEW y \in T, Fits(y)
      PROVE  /\ Append(o, y) \in Seq(T) /\ \A i \in 1..Len(Append(o, y)) : Fits(Append(o, y)[i])
             /\ FlattenSeq(Append(o, y)) = FlattenSeq(o) \o y
  <2>1. Append(o, y) \in Seq(T) /\ \A i \in 1..Len(Append(o, y)) : Fits(Append(o, y)[i])
    <3> HIDE DEF T, Fits
    <3> QED BY ONLY <1>1
  <2>2. Append(o, y) = o \o <<y>> /\ <<y>> \in Seq(T)
    <3> HIDE DEF T
    <3> QED BY ONLY <1>1
  <2>3. FlattenSeq(o \o <<y>>) = FlattenSeq(o) \o FlattenSeq(<<y>>)
    BY <2>2, FlattenConcat
  <2>4. FlattenSeq(<<y>>) = y
    BY FlattenOf
  <2> QED BY <2>1, <2>2, <2>3, <2>4
<1>2. \A o \in Seq(T) : FlattenSeq(o) \in T
  BY FlattenOf
<1>3. <<c>> \in T /\ Fits(<<c>>) /\ <<>> \in T
  <2>1. <<>> \in Seq(Char) /\ <<c>> \in Seq(Char)
    OBVIOUS
  <2>2. Bytes(<<c>>) = c
    BY <2>1, BytesIn
  <2> QED BY <1>0, <2>1, <2>2
<1>4. \A i \in 1..Len(b) : Fits(b[i])
  BY DEF Filled
<1>5. CASE ~(b # <<>> /\ Bytes(Last(b)) + c <= BlockBytes)
  <2>1. AppendCharacter(b, c) = Append(b, <<c>>)
    BY <1>5 DEF AppendCharacter
  <2>2. /\ Append(b, <<c>>) \in Seq(T)
        /\ \A i \in 1..Len(Append(b, <<c>>)) : Fits(Append(b, <<c>>)[i])
        /\ FlattenSeq(Append(b, <<c>>)) = FlattenSeq(b) \o <<c>>
    BY <1>0, <1>1, <1>3, <1>4
  <2>3. FlattenSeq(b) \o <<c>> = Append(FlattenSeq(b), c)
    <3>1. \A s \in Seq(Char) : s \o <<c>> = Append(s, c)
      OBVIOUS
    <3> QED BY <1>0, <1>2, <3>1
  <2> QED BY <2>1, <2>2, <2>3 DEF Filled
<1>6. CASE b # <<>> /\ Bytes(Last(b)) + c <= BlockBytes
  <2> DEFINE n == Len(b)
             front == SubSeq(b, 1, n - 1)
             last == b[n]
             y == Append(last, c)
  <2>1. AppendCharacter(b, c) = [b EXCEPT ![n] = Append(@, c)]
    BY <1>6 DEF AppendCharacter
  <2>2. n \in Nat /\ n > 0
    BY <1>0, <1>6
  <2>3. /\ front \in Seq(T) /\ Len(front) = n - 1 /\ last \in T /\ b = Append(front, last)
        /\ \A i \in 1..(n - 1) : front[i] = b[i]
    <3> HIDE DEF T
    <3>1. b \in Seq(T) /\ n = Len(b) /\ n \in 1..Len(b) /\ SubSeq(b, 1, Len(b)) = b
      BY <1>0, <2>2, Firsts
    <3>2. front \in Seq(T) /\ b = Append(front, last)
      BY <1>0, <2>2, <3>1, Firsts
    <3>3. last \in T
      BY <3>1
    <3>4. Len(front) = n - 1 /\ \A i \in 1..(n - 1) : front[i] = b[i]
      BY ONLY <3>1, <2>2
    <3> QED BY <3>2, <3>3, <3>4
  <2>4. Last(b) = last
    BY DEF Last
  <2>5. last \in Seq(Char) /\ Bytes(last) \in Nat /\ Bytes(y) = Bytes(last) + c /\ y \in T
    <3>1. last \in Seq(Char)
      BY <2>3
    <3> HIDE DEF last
    <3>2. Append(last, c) \in Seq(Char)
      BY <3>1
    <3> QED BY <3>1, <3>2, BytesIn
  <2>6. Fits(y)
    BY <1>0, <1>6, <2>4, <2>5
  <2> HIDE DEF n, last, y
  <2>7. \A i \in 1..Len(front) : Fits(front[i])
    BY <1>4, <2>2, <2>3 DEF n
  <2>8. [b EXCEPT ![n] = y] = Append(front, y)
    <3> HIDE DEF T
    <3>1. b \in Seq(T) /\ n = Len(b) /\ n \in Nat /\ n > 0
      BY <1>0, <2>2 DEF n
    <3>2. front \in Seq(T) /\ Len(front) = n - 1 /\ \A i \in 1..(n - 1) : front[i] = b[i]
      BY <2>3
    <3> HIDE DEF front
    <3> DEFINE f == [b EXCEPT ![n] = y]
               g == Append(front, y)
    <3>3. y \in T
      BY <2>5
    <3>4. f \in Seq(T) /\ Len(f) = n /\ f[n] = y /\ \A i \in 1..(n - 1) : f[i] = b[i]
      BY ONLY <3>1, <3>3
    <3>5. g \in Seq(T) /\ Len(g) = n /\ g[n] = y /\ \A i \in 1..(n - 1) : g[i] = b[i]
      BY ONLY <3>1, <3>2, <3>3
    <3> HIDE DEF f, g
    <3>6. \A i \in 1..n : f[i] = g[i]
      <4>1. \A i \in 1..n : i = n \/ i \in 1..(n - 1)
        BY ONLY <3>1
      <4> QED BY ONLY <3>4, <3>5, <4>1
    <3>7. f = g
      BY ONLY <3>1, <3>4, <3>5, <3>6, SeqEqual
    <3> QED BY <3>7 DEF f, g
  <2>9. AppendCharacter(b, c) = Append(front, y)
    BY <2>1, <2>8 DEF y, last, n
  <2> HIDE DEF front
  <2>10. /\ Append(front, y) \in Seq(T)
         /\ \A i \in 1..Len(Append(front, y)) : Fits(Append(front, y)[i])
         /\ FlattenSeq(Append(front, y)) = FlattenSeq(front) \o y
    BY <1>1, <2>3, <2>5, <2>6, <2>7
  <2>11. FlattenSeq(b) = FlattenSeq(front) \o last
    <3>1. front \in Seq(T) /\ last \in T /\ b = Append(front, last) /\ Fits(last)
      BY <1>4, <2>2, <2>3 DEF last, n
    <3> HIDE DEF T, Fits
    <3> QED BY <1>1, <2>7, <3>1
  <2>12. FlattenSeq(front) \o y = Append(FlattenSeq(front) \o last, c)
    <3>1. FlattenSeq(front) \in Seq(Char) /\ last \in Seq(Char)
      BY <1>2, <2>3, <2>5
    <3> DEFINE p == FlattenSeq(front)
    <3> HIDE DEF p, Char
    <3>2. p \in Seq(Char) /\ last \in Seq(Char)
      BY <3>1 DEF p
    <3>3. p \o Append(last, c) = Append(p \o last, c)
      BY ONLY <3>2, c \in Char
    <3> QED BY <3>3 DEF p, y
  <2> QED BY <2>9, <2>10, <2>11, <2>12 DEF Filled
<1> QED
  BY <1>5, <1>6

\* The blocks of a text put together are the text.
LEMMA TextBlocksOf ==
  ASSUME NEW t \in Seq(Char)
  PROVE  Filled(TextBlocks(t)) /\ FlattenSeq(TextBlocks(t)) = t
<1> DEFINE n == Len(t)
           A == {b \in Seq(Seq(Char)) : Filled(b)}
           h == [p \in (1..n) \X A |-> AppendCharacter(p[2], t[p[1]])]
           Fills(it) == it = [S \in SUBSET DOMAIN t |->
                                IF S = {} THEN <<>> ELSE AppendCharacter(it[S \ {Max(S)}], t[Max(S)])]
<1>1. n \in Nat /\ DOMAIN t = 1..n /\ \A i \in 1..n : t[i] \in Char
  <2> HIDE DEF Char
  <2> QED OBVIOUS
<1>2. <<>> \in A /\ FlattenSeq(<<>>) = <<>>
  BY FlattenOf DEF Filled
<1>3. \A b \in A, c \in Char : /\ AppendCharacter(b, c) \in A
                               /\ FlattenSeq(AppendCharacter(b, c)) = Append(FlattenSeq(b), c)
  <2> SUFFICES ASSUME NEW b \in A, NEW c \in Char
               PROVE  /\ AppendCharacter(b, c) \in A
                      /\ FlattenSeq(AppendCharacter(b, c)) = Append(FlattenSeq(b), c)
    OBVIOUS
  <2>1. Filled(AppendCharacter(b, c)) /\ FlattenSeq(AppendCharacter(b, c)) = Append(FlattenSeq(b), c)
    BY FillOne
  <2> QED BY <2>1 DEF Filled
<1> HIDE DEF A
<1>4. h \in [(1..n) \X A -> A]
  BY <1>1, <1>3
<1>5. PICK it \in [SUBSET (1..n) -> A] : Folding(it, n, <<>>, h)
  <2> HIDE DEF h, n
  <2> QED BY <1>1, <1>2, <1>4, FoldExists
<1>6. Fills(it)
  <2> SUFFICES ASSUME NEW S \in SUBSET (1..n), S # {}
               PROVE  it[S] = AppendCharacter(it[S \ {Max(S)}], t[Max(S)])
    BY <1>1, <1>5 DEF Folding
  <2>1. Max(S) \in 1..n
    BY <1>1, LastIndex
  <2>2. it[S] = h[Max(S), it[S \ {Max(S)}]] /\ it[S \ {Max(S)}] \in A
    BY <1>5 DEF Folding
  <2> QED BY <2>1, <2>2
<1> DEFINE j == CHOOSE f : Fills(f)
           r == FoldLeft(AppendCharacter, <<>>, t)
<1>7. r = j[DOMAIN t]
  BY ZenonT(30) DEF FoldLeft, MapThenFoldSet
<1>8. Fills(j)
  <2> HIDE DEF Fills
  <2> QED BY <1>6
<1> HIDE DEF j, n, r
<1> DEFINE Good(i, b) == b \in A /\ FlattenSeq(b) = SubSeq(t, 1, i)
           G == {i \in Nat : i <= n => Good(i, j[1..i])}
<1>9. 0 \in G
  <2>1. j[{}] = <<>> /\ 1..0 = {}
    BY <1>1, <1>8
  <2>2. SubSeq(t, 1, 0) = <<>>
    BY Firsts
  <2> QED BY <1>2, <2>1, <2>2
<1>10. ASSUME NEW i \in Nat, i \in G PROVE i + 1 \in G
  <2> SUFFICES ASSUME i + 1 <= n PROVE Good(i + 1, j[1..(i + 1)])
    OBVIOUS
  <2>1. Good(i, j[1..i]) /\ i + 1 \in 1..n /\ (i + 1) - 1 = i /\ i \in 0..n /\ t[i + 1] \in Char
    BY <1>1, <1>10
  <2>2. /\ 1..(i + 1) \in SUBSET (1..n) /\ 1..(i + 1) # {} /\ Max(1..(i + 1)) = i + 1
        /\ (1..(i + 1)) \ {i + 1} = 1..i
    BY <1>1, <2>1, FirstIndices
  <2>3. j[1..(i + 1)] = AppendCharacter(j[1..i], t[i + 1])
    BY <1>1, <1>8, <2>2
  <2>4. SubSeq(t, 1, i + 1) = Append(SubSeq(t, 1, i), t[i + 1])
    BY <2>1, Firsts DEF n
  <2> DEFINE b == j[1..i]
             c == t[i + 1]
  <2>5. b \in A /\ FlattenSeq(b) = SubSeq(t, 1, i) /\ c \in Char
    BY <2>1
  <2> HIDE DEF b, c
  <2>6. AppendCharacter(b, c) \in A /\ FlattenSeq(AppendCharacter(b, c)) = Append(FlattenSeq(b), c)
    BY <1>3, <2>5
  <2> QED BY <2>3, <2>4, <2>5, <2>6 DEF b, c
<1>11. n \in G
  <2> HIDE DEF G
  <2> QED BY <1>1, <1>9, <1>10, CountingUp
<1>12. Good(n, r)
  BY <1>1, <1>7, <1>11
<1>13. SubSeq(t, 1, n) = t
  BY Firsts DEF n
<1>14. Filled(r) /\ FlattenSeq(r) = t
  BY <1>12, <1>13 DEF A
<1> QED
  BY <1>14 DEF r, TextBlocks

\* Nothing put together is nothing.
LEMMA FlattenNothing ==
  ASSUME NEW n \in Nat
  PROVE  FlattenSeq([i \in 1..n |-> <<>>]) = <<>>
<1> DEFINE ss == [i \in 1..n |-> <<>>]
<1>1. ss \in Seq(Seq(Char)) /\ Len(ss) = n /\ \A i \in 1..n : ss[i] = <<>>
  <2> DEFINE T == Seq(Char)
  <2>1. <<>> \in T
    OBVIOUS
  <2> HIDE DEF T
  <2>2. ss \in Seq(T) /\ Len(ss) = n /\ \A i \in 1..n : ss[i] = <<>>
    BY <2>1
  <2> QED BY <2>2 DEF T
<1> HIDE DEF ss
<1>2. PICK v : Joins(v, ss) /\ FlattenSeq(ss) = v[n]
  BY <1>1, FlattenRun
<1> DEFINE G == {i \in Nat : i <= n => v[i] = <<>>}
<1>3. 0 \in G
  BY <1>2 DEF Joins
<1>4. ASSUME NEW i \in Nat, i \in G PROVE i + 1 \in G
  <2> SUFFICES ASSUME i + 1 <= n PROVE v[i + 1] = <<>>
    OBVIOUS
  <2>1. i + 1 \in 1..n /\ v[i] = <<>> /\ (i + 1) - 1 = i
    BY <1>4
  <2>2. v[i + 1] = v[i] \o ss[i + 1]
    BY <1>1, <1>2, <2>1 DEF Joins
  <2>3. <<>> \o <<>> = <<>>
    OBVIOUS
  <2> QED BY <1>1, <2>1, <2>2, <2>3
<1>5. n \in G
  <2> HIDE DEF G
  <2> QED BY <1>3, <1>4, CountingUp
<1> QED
  BY <1>2, <1>5 DEF ss

\* A block of a message, and its text of one kind.
Block == [kind : {"text", "reasoning", "builtin", "metadata"}, text : Seq(Char)]
InBlock(b, k) == IF b.kind = k THEN b.text ELSE <<>>

\* The text in blocks, put together.
LEMMA TextInSays ==
  ASSUME NEW k \in Kinds
  PROVE  /\ TextIn(<<>>, k) = <<>>
         /\ \A q \in Seq(Block) : TextIn(q, k) \in Seq(Char)
         /\ \A b \in Block : TextIn(<<b>>, k) = InBlock(b, k)
         /\ \A q, r \in Seq(Block) : TextIn(q \o r, k) = TextIn(q, k) \o TextIn(r, k)
<1> DEFINE m == [b \in Block |-> InBlock(b, k)]
<1>1. m \in [Block -> Seq(Char)]
  <2> SUFFICES ASSUME NEW b \in Block PROVE InBlock(b, k) \in Seq(Char)
    OBVIOUS
  <2>1. b.text \in Seq(Char) /\ <<>> \in Seq(Char)
    BY DEF Block
  <2> QED BY <2>1 DEF InBlock
<1>2. ASSUME NEW q \in Seq(Block) PROVE TextIn(q, k) = Mapped(m, q)
  <2>1. \A i \in 1..Len(q) : q[i] \in Block
    <3> HIDE DEF Block
    <3> QED OBVIOUS
  <2>2. [i \in 1..Len(q) |-> IF q[i].kind = k THEN q[i].text ELSE <<>>] = [i \in 1..Len(q) |-> m[q[i]]]
    <3> HIDE DEF Block
    <3> QED BY <2>1 DEF InBlock
  <2> QED BY <2>2 DEF TextIn, Mapped
<1>3. \A b \in Block : m[b] = InBlock(b, k)
  OBVIOUS
<1> DEFINE E == Block
           T == Char
<1>4. m \in [E -> Seq(T)]
  BY <1>1
<1> HIDE DEF m, E, T
<1>5. /\ Mapped(m, <<>>) = <<>>
      /\ \A q \in Seq(E) : Mapped(m, q) \in Seq(T)
      /\ \A x \in E : Mapped(m, <<x>>) = m[x]
      /\ \A q, r \in Seq(E) : Mapped(m, q \o r) = Mapped(m, q) \o Mapped(m, r)
  BY ONLY <1>4, MappedOf
<1>6. /\ \A q, r \in Seq(E) : q \o r \in Seq(E)
      /\ \A x \in E : <<x>> \in Seq(E)
      /\ <<>> \in Seq(E)
  OBVIOUS
<1>7. \A q \in Seq(E) : TextIn(q, k) = Mapped(m, q)
  BY <1>2 DEF E
<1>8. TextIn(<<>>, k) = <<>>
  BY <1>5, <1>6, <1>7
<1>9. \A q \in Seq(E) : TextIn(q, k) \in Seq(T)
  BY <1>5, <1>7
<1>10. \A x \in E : TextIn(<<x>>, k) = m[x]
  BY <1>5, <1>6, <1>7
<1>11. \A q, r \in Seq(E) : TextIn(q \o r, k) = TextIn(q, k) \o TextIn(r, k)
  BY ZenonT(30), <1>5, <1>6, <1>7
<1> QED
  BY <1>3, <1>8, <1>9, <1>10, <1>11 DEF E, T

\* The text of a kind.
LEMMA TextOfSays ==
  ASSUME NEW k \in Kinds, NEW t \in Seq(Tagged)
  PROVE  TextOf(t, k) \in Seq(Char)
<1> DEFINE m == [x \in Tagged |-> IF x[1] = k THEN <<x[2]>> ELSE <<>>]
<1>1. m \in [Tagged -> Seq(Char)]
  <2> SUFFICES ASSUME NEW x \in Tagged PROVE (IF x[1] = k THEN <<x[2]>> ELSE <<>>) \in Seq(Char)
    OBVIOUS
  <2>1. x[2] \in Char
    BY DEF Tagged
  <2> HIDE DEF Char
  <2> QED BY <2>1
<1>2. TextOf(t, k) = Mapped(m, t)
  <2>1. \A i \in 1..Len(t) : t[i] \in Tagged
    <3> HIDE DEF Tagged
    <3> QED OBVIOUS
  <2>2. [i \in 1..Len(t) |-> IF t[i][1] = k THEN <<t[i][2]>> ELSE <<>>] = [i \in 1..Len(t) |-> m[t[i]]]
    <3> HIDE DEF Tagged
    <3> QED BY <2>1
  <2> QED BY <2>2 DEF TextOf, Mapped
<1> HIDE DEF m
<1> QED
  BY <1>1, <1>2, MappedOf

\* The blocks of one kind.
LEMMA BlocksOfKind ==
  ASSUME NEW j \in Kinds, NEW k \in Kinds, NEW t \in Seq(Char)
  PROVE  LET p == Pieces(j, TextBlocks(t))
         IN /\ p \in Seq(Block) /\ TextIn(p, k) = IF j = k THEN t ELSE <<>>
            /\ \A i \in 1..Len(p) : Bytes(p[i].text) \in 1..BlockBytes
<1> DEFINE out == TextBlocks(t)
           p == Pieces(j, out)
<1>1. out \in Seq(Seq(Char)) /\ FlattenSeq(out) = t /\ \A i \in 1..Len(out) : Bytes(out[i]) \in 1..BlockBytes
  BY TextBlocksOf DEF Filled
<1> HIDE DEF out
<1>2. /\ p \in Seq(Batch) /\ Len(p) = Len(out) /\ \A i \in 1..Len(out) : p[i].text = out[i]
      /\ \A i \in 1..Len(out) : p[i].kind = j
  <2>1. <<>> \in Seq(Char)
    OBVIOUS
  <2> QED BY <1>1, <2>1, PiecesOf DEF Pieces
<1>3. p \in Seq(Block)
  <2>1. \A b \in Batch : b \in Block
    BY DEF Batch, Block, Kinds
  <2> HIDE DEF p, Batch, Block
  <2> QED BY ONLY <1>2, <2>1
<1>4. Len(out) \in Nat /\ out = [i \in 1..Len(out) |-> out[i]]
  <2> DEFINE T == Seq(Char)
  <2>1. out \in Seq(T)
    BY <1>1
  <2> HIDE DEF T
  <2> QED BY <2>1
<1> HIDE DEF p
<1>5. CASE j = k
  <2>1. [i \in 1..Len(p) |-> IF p[i].kind = k THEN p[i].text ELSE <<>>] = [i \in 1..Len(out) |-> out[i]]
    BY <1>2, <1>5
  <2> QED BY <1>1, <1>2, <1>3, <1>4, <1>5, <2>1 DEF TextIn, p, out
<1>6. CASE j # k
  <2>1. [i \in 1..Len(p) |-> IF p[i].kind = k THEN p[i].text ELSE <<>>] = [i \in 1..Len(out) |-> <<>>]
    BY <1>2, <1>6
  <2>2. TextIn(p, k) = <<>>
    BY <1>4, <2>1, FlattenNothing DEF TextIn
  <2> QED BY <1>1, <1>2, <1>3, <1>6, <2>2 DEF p, out
<1> QED
  BY <1>5, <1>6

\* The message holds the text.
LEMMA NormalizeSays ==
  ASSUME NEW x, x.text \in Seq(Tagged), IsFiniteSet(x.builtinDone), NEW k \in Kinds
  PROVE  LET b == NormalizeBlocks(x)
         IN /\ TextIn(b, k) = TextOf(x.text, k)
            /\ \A i \in DOMAIN b : b[i].kind = k => Bytes(b[i].text) \in 1..BlockBytes
<1> DEFINE of(j) == Pieces(j, TextBlocks(TextOf(x.text, j)))
           none == [kind |-> "builtin", text |-> <<>>]
           n == Cardinality(x.builtinDone)
           rest == [i \in 1..n |-> none]
           all == of("text") \o of("reasoning") \o rest
           meta == [kind |-> "metadata", text |-> <<>>]
           Fits(b) == b.kind = k => Bytes(b.text) \in 1..BlockBytes
<1>1. NormalizeBlocks(x) = IF all = <<>> THEN <<meta>> ELSE all
  BY DEF NormalizeBlocks, Pieces
<1>2. /\ none \in Block /\ meta \in Block /\ InBlock(none, k) = <<>> /\ InBlock(meta, k) = <<>>
      /\ Fits(none) /\ Fits(meta)
  <2>1. <<>> \in Seq(Char)
    OBVIOUS
  <2> QED BY <2>1 DEF Block, InBlock, Kinds
<1>3. n \in Nat
  BY FS_CardinalityType
<1>4. ASSUME NEW j \in Kinds
      PROVE  /\ of(j) \in Seq(Block) /\ TextIn(of(j), k) = IF j = k THEN TextOf(x.text, k) ELSE <<>>
             /\ \A i \in 1..Len(of(j)) : Fits(of(j)[i])
  <2>1. TextOf(x.text, j) \in Seq(Char)
    BY TextOfSays
  <2> QED BY <2>1, BlocksOfKind
<1>5. rest \in Seq(Block) /\ TextIn(rest, k) = <<>> /\ \A i \in 1..Len(rest) : Fits(rest[i])
  <2> HIDE DEF n, none, Fits, Block
  <2>1. rest \in Seq(Block) /\ Len(rest) = n /\ \A i \in 1..n : rest[i] = none
    BY <1>2, <1>3
  <2>2. [i \in 1..n |-> IF rest[i].kind = k THEN rest[i].text ELSE <<>>] = [i \in 1..n |-> <<>>]
    BY <1>2, <2>1 DEF InBlock
  <2> HIDE DEF rest
  <2>3. TextIn(rest, k) = <<>>
    BY <1>3, <2>1, <2>2, FlattenNothing DEF TextIn
  <2> QED BY <1>2, <2>1, <2>3
<1>6. "text" \in Kinds /\ "reasoning" \in Kinds /\ k \in {"text", "reasoning"}
  BY DEF Kinds
<1> DEFINE p == of("text")
           q == of("reasoning")
<1>7. /\ p \in Seq(Block) /\ TextIn(p, k) = (IF k = "text" THEN TextOf(x.text, k) ELSE <<>>)
      /\ \A i \in 1..Len(p) : Fits(p[i])
      /\ q \in Seq(Block) /\ TextIn(q, k) = (IF k = "reasoning" THEN TextOf(x.text, k) ELSE <<>>)
      /\ \A i \in 1..Len(q) : Fits(q[i])
  BY <1>4, <1>6
<1>8. all = p \o q \o rest
  OBVIOUS
<1> HIDE DEF of, p, q, rest, all, Fits, meta, none, n
<1>9. all \in Seq(Block) /\ \A i \in DOMAIN all : Fits(all[i])
  <2> HIDE DEF Block
  <2>1. p \o q \o rest \in Seq(Block) /\ \A i \in 1..Len(p \o q \o rest) : Fits((p \o q \o rest)[i])
    BY ONLY <1>5, <1>7
  <2>2. DOMAIN all = 1..Len(all)
    BY <1>8, <2>1
  <2> QED BY <1>8, <2>1, <2>2
<1>10. TextIn(all, k) = TextOf(x.text, k)
  <2>1. p \o q \in Seq(Block)
    BY ONLY <1>7, Concatenation
  <2>2. TextIn(p \o q, k) = TextIn(p, k) \o TextIn(q, k)
    BY ONLY <1>7, k \in Kinds, TextInSays
  <2>3. TextIn(all, k) = TextIn(p \o q, k) \o TextIn(rest, k)
    BY ONLY <1>5, <1>8, <2>1, k \in Kinds, TextInSays
  <2>4. TextOf(x.text, k) \in Seq(Char)
    BY TextOfSays
  <2> DEFINE t == TextOf(x.text, k)
  <2>5. (t \o <<>>) \o <<>> = t /\ (<<>> \o t) \o <<>> = t
    BY ONLY <2>4, Concatenation
  <2> HIDE DEF t
  <2> QED BY <1>5, <1>6, <1>7, <2>2, <2>3, <2>5 DEF t
<1>11. CASE all = <<>>
  <2>1. TextIn(<<meta>>, k) = <<>> /\ TextIn(<<>>, k) = <<>>
    BY <1>2, TextInSays
  <2>2. \A i \in DOMAIN <<meta>> : Fits(<<meta>>[i])
    BY <1>2
  <2> QED BY <1>1, <1>10, <1>11, <2>1, <2>2 DEF Fits
<1>12. CASE all # <<>>
  BY <1>1, <1>9, <1>10, <1>12 DEF Fits
<1> QED
  BY <1>11, <1>12
-----------------------------------------------------------------------------
(***************************************************************************)
(* The invariant of a call.                                                *)
(***************************************************************************)
\* One text is the start of another.
Extends(a, b) == \E u \in Seq(Tagged) : b = a \o u

\* The shape of the state; the ids are those seen so far.
CallTypes == conf \in Deployment /\ said \in SaidOf /\ \E U : Reading(U)

\* What was heard is what was taken and what waits in the queue.
HeardInv ==
  phase = "streaming" /\ conf.kind # "background" =>
    /\ exec.text \o Visible(queue) = said.visible
    /\ Len(exec.order) + Len(Asked(queue)) = said.calls
    /\ said.ended <=> norm.completed
    /\ said.after => conf.kind = "anthropic" /\ norm.completed /\ norm.started
    /\ conf.kind = "anthropic" /\ norm.completed => norm.stop
    /\ exec.completed \/ (\E i \in DOMAIN queue : queue[i].type = "completed") => said.ended

\* A background response says nothing before it is retrieved.
BackgroundInv ==
  conf.kind = "background" =>
    /\ live = <<>> /\ pend = EmptyBuffers /\ queue = <<>>
    /\ phase = "streaming" => exec = NewCall /\ said = Silence

\* What was taken is what is persisted and what is buffered.
DeltaInv ==
  /\ Kept(pend) /\ timer \in 0..DeltaDelay /\ Young(pend, DeltaDelay + timer)
  /\ phase # "streaming" => pend = EmptyBuffers
  /\ ~conf.live => pend = EmptyBuffers /\ live = <<>>
  /\ Sized(live) /\ Extends(Flatten(live), said.visible)
  /\ phase = "streaming" /\ conf.live => Flatten(live) \o PendText(pend) = exec.text
  /\ phase = "accepted" /\ conf.live /\ conf.kind # "background" => Flatten(live) = exec.text

\* The inductive invariant of a call.
CallInv == CallTypes /\ HeardInv /\ BackgroundInv /\ DeltaInv /\ AnswerIsWhole /\ MessageIsTheAnswer

\* Sequences put together, in any grouping.
LEMMA Together ==
  ASSUME NEW T, NEW a \in Seq(T), NEW b \in Seq(T), NEW c \in Seq(T)
  PROVE  (a \o b) \o c = a \o (b \o c)
BY SMTT(30), Concatenation

\* Tagged texts put together, as an operator the provers need not look into.
Text == Seq(Tagged)
Cat(a, b) == a \o b

\* The same for tagged texts.
LEMMA CatIs ==
  /\ \A a, b \in Text : Cat(a, b) \in Text
  /\ \A a, b, c \in Text : Cat(Cat(a, b), c) = Cat(a, Cat(b, c))
<1>1. \A a, b \in Seq(Tagged) : a \o b \in Seq(Tagged)
  BY ONLY Concatenation
<1>2. \A a, b, c \in Seq(Tagged) : (a \o b) \o c = a \o (b \o c)
  BY ONLY Concatenation, ZenonT(60)
<1> QED
  BY <1>1, <1>2 DEF Text, Cat

\* Some of the batches, in their order, are a part of the answer.
LEMMA Persisting ==
  ASSUME NEW l, Sized(l), NEW out, Sized(out), NEW k \in 0..Len(out), NEW v,
         Extends(Flatten(l \o out), v)
  PROVE  Sized(l \o SubSeq(out, 1, k)) /\ Extends(Flatten(l \o SubSeq(out, 1, k)), v)
<1> DEFINE a == SubSeq(out, 1, k)
           b == SubSeq(out, k + 1, Len(out))
           Fits(x) == Bytes(x.text) \in 1..DeltaBytes
           E == Batch
<1>1. /\ l \in Seq(E) /\ \A i \in 1..Len(l) : Fits(l[i])
      /\ out \in Seq(E) /\ \A i \in 1..Len(out) : Fits(out[i])
  BY DEF Sized
<1> HIDE DEF E, Fits
<1>2. a \in Seq(E) /\ Len(a) = k /\ \A i \in 1..k : a[i] = out[i]
  BY ONLY <1>1, k \in 0..Len(out)
<1>3. b \in Seq(E) /\ out = a \o b
  <2>1. b \in Seq(E) /\ Len(b) = Len(out) - k /\ \A i \in 1..(Len(out) - k) : b[i] = out[k + i]
    BY ONLY <1>1, k \in 0..Len(out)
  <2> HIDE DEF a, b
  <2>2. a \o b \in Seq(E) /\ Len(a \o b) = Len(out)
    BY ONLY <1>1, <1>2, <2>1, k \in 0..Len(out)
  <2>3. ASSUME NEW i \in 1..Len(out) PROVE (a \o b)[i] = out[i]
    <3>1. Len(a) = k /\ Len(b) = Len(out) - k /\ Len(out) \in Nat /\ k \in 0..Len(out)
      BY <1>1, <1>2, <2>1
    <3>2. CASE i <= k
      <4>1. i \in 1..Len(a)
        BY <3>1, <3>2
      <4>2. (a \o b)[i] = a[i]
        BY ONLY <1>2, <2>1, <4>1, Concatenation
      <4> QED BY <1>2, <3>1, <4>1, <4>2
    <3>3. CASE i > k
      <4>1. i - k \in 1..Len(b) /\ i = Len(a) + (i - k) /\ k + (i - k) = i
        BY <3>1, <3>3
      <4>2. (a \o b)[Len(a) + (i - k)] = b[i - k]
        BY ONLY <1>2, <2>1, <4>1, Concatenation
      <4>3. b[i - k] = out[k + (i - k)]
        BY <2>1, <3>1, <4>1
      <4> QED BY <4>1, <4>2, <4>3
    <3> QED BY <3>1, <3>2, <3>3
  <2>4. out = a \o b
    BY ONLY <1>1, <2>2, <2>3, SeqEqual
  <2> QED BY <2>1, <2>4
<1>4. l \o a \in Seq(E) /\ \A i \in 1..Len(l \o a) : Fits((l \o a)[i])
  <2> HIDE DEF a
  <2>1. k \in 0..Len(out) /\ Len(out) \in Nat
    BY <1>1
  <2>2. \A i \in 1..Len(a) : Fits(a[i])
    BY <1>1, <1>2, <2>1
  <2> QED BY ONLY <1>1, <1>2, <2>2
<1> HIDE DEF a, b
<1>5. l \o out = (l \o a) \o b
  BY ONLY SMTT(30), <1>1, <1>2, <1>3, Together
<1>6. Flatten(l \o out) = Flatten(l \o a) \o Flatten(b)
  BY <1>3, <1>4, <1>5, FlattenSays DEF E
<1>7. Flatten(l \o a) \in Seq(Tagged) /\ Flatten(b) \in Seq(Tagged)
  BY <1>3, <1>4, FlattenSays DEF E
<1>8. PICK u \in Seq(Tagged) : v = Flatten(l \o out) \o u
  BY DEF Extends
<1>9. v = Flatten(l \o a) \o (Flatten(b) \o u) /\ Flatten(b) \o u \in Seq(Tagged)
  BY ONLY SMTT(30), <1>6, <1>7, <1>8, Concatenation
<1> QED
  BY <1>4, <1>9 DEF Sized, Extends, E, Fits, a

\* push_event, and flush_due for the events that are no text.
LEMMA PushedSays ==
  ASSUME Kept(pend), conf.live, NEW U, NEW e \in EventOf(U)
  PROVE  /\ Kept(Pushed(e).p) /\ Sized(Pushed(e).out) /\ Young(Pushed(e).p, DeltaDelay)
         /\ Flatten(Pushed(e).out) \o PendText(Pushed(e).p) = PendText(pend) \o VisibleIn(e)
<1>1. e.kind \in Kinds /\ e.text \in Seq(Char)
  BY DEF EventOf
<1>2. CASE e.type = "delta"
  BY <1>1, <1>2, PushEventSays DEF Pushed, VisibleIn
<1>3. CASE e.type # "delta"
  <2>1. Pushed(e) = FlushDue(pend) /\ VisibleIn(e) = <<>>
    BY <1>3 DEF Pushed, VisibleIn
  <2>2. PendText(pend) \in Seq(Tagged)
    BY PendSays DEF Kept
  <2>3. PendText(pend) \o <<>> = PendText(pend)
    BY ONLY <2>2, Concatenation
  <2> QED BY <2>1, <2>3, FlushDueSays
<1> QED
  BY <1>2, <1>3

\* A call that fails keeps what was persisted.
LEMMA FailingKeeps ==
  ASSUME CallTypes, CallFails, conf' = conf, said' \in SaidOf,
         Sized(live'), Extends(Flatten(live'), said'.visible),
         ~conf.live \/ conf.kind = "background" => live' = <<>>
  PROVE  CallInv'
<1>1. /\ phase' = "failed" /\ norm' = NewNormalizer /\ queue' = <<>> /\ exec' = NewCall
      /\ pend' = EmptyBuffers /\ timer' = 0
  BY DEF CallFails, StreamEnds
<1>2. PICK U : Reading(U)
  BY DEF CallTypes
<1>3. Reading(U)'
  <2>1. Ids(U) /\ <<>> \in Seq(EventOf(U))
    BY <1>2 DEF Reading
  <2> QED BY <1>1, <2>1, NewReading DEF Reading
<1>4. CallTypes'
  BY <1>3 DEF CallTypes
<1>5. HeardInv' /\ BackgroundInv' /\ AnswerIsWhole' /\ MessageIsTheAnswer'
  BY <1>1 DEF HeardInv, BackgroundInv, AnswerIsWhole, MessageIsTheAnswer
<1>6. DeltaInv'
  <2>1. Kept(EmptyBuffers)
    <3>1. EmptyBuffers \in Pend
      BY DEF EmptyBuffers, NoDelta, Pend
    <3> QED BY <3>1, PendSays
  <2>2. timer' \in 0..DeltaDelay /\ Young(EmptyBuffers, DeltaDelay + 0)
    BY <1>1, LiveDeltaAssumption DEF Young, EmptyBuffers, NoDelta
  <2> QED BY <1>1, <2>1, <2>2 DEF DeltaInv
<1> QED
  BY <1>4, <1>5, <1>6 DEF CallInv

\* Facts about empty buffers and texts the steps need.
LEMMA EmptyFacts ==
  /\ Kept(EmptyBuffers) /\ Young(EmptyBuffers, DeltaDelay + 0) /\ PendText(EmptyBuffers) = <<>>
  /\ 0 \in 0..DeltaDelay /\ DeltaDelay \in Nat /\ DeltaDelay > 0
  /\ Sized(<<>>) /\ Flatten(<<>>) = <<>> /\ <<>> \in Seq(Tagged)
  /\ \A v \in Seq(Tagged) : Extends(<<>>, v) /\ Extends(v, v) /\ v \o <<>> = v /\ <<>> \o v = v
<1>1. Kept(EmptyBuffers) /\ PendText(EmptyBuffers) = <<>>
  <2>1. EmptyBuffers \in Pend
    BY DEF EmptyBuffers, NoDelta, Pend
  <2> QED BY <2>1, PendSays
<1>2. /\ Young(EmptyBuffers, DeltaDelay + 0) /\ 0 \in 0..DeltaDelay /\ DeltaDelay \in Nat
      /\ DeltaDelay > 0
  BY LiveDeltaAssumption DEF Young, EmptyBuffers, NoDelta
<1>3. Sized(<<>>) /\ Flatten(<<>>) = <<>> /\ <<>> \in Seq(Tagged)
  BY FlattenSays DEF Sized
<1>4. \A v \in Seq(Tagged) : v \o <<>> = v /\ <<>> \o v = v
  BY ONLY Concatenation
<1>5. \A v \in Seq(Tagged) : Extends(<<>>, v) /\ Extends(v, v)
  BY <1>3, <1>4 DEF Extends
<1> QED
  BY <1>1, <1>2, <1>3, <1>4, <1>5

\* A new stream.
LEMMA OpenStreamKeeps ==
  ASSUME CallInv, OpenStream
  PROVE  CallInv'
<1>1. /\ phase' = "streaming" /\ norm' = NewNormalizer /\ queue' = <<>> /\ exec' = NewCall
      /\ pend' = EmptyBuffers /\ timer' = 0 /\ live' = <<>> /\ said' = Silence /\ conf' = conf
  BY DEF OpenStream
<1>2. PICK U : Reading(U)
  BY DEF CallInv, CallTypes
<1>3. Ids(U) /\ <<>> \in Seq(EventOf(U))
  BY <1>2 DEF Reading
<1>4. Reading(U)'
  BY <1>1, <1>3, NewReading DEF Reading
<1>5. CallTypes'
  BY <1>1, <1>3, <1>4, NewReading DEF CallTypes, CallInv
<1>6. HeardInv'
  <2>1. Visible(<<>>) = <<>> /\ Asked(<<>>) = <<>> /\ <<>> \o <<>> = <<>> /\ Len(<<>>) = 0 /\ DOMAIN <<>> = {}
    BY EventsSay
  <2>2. /\ NewCall.text \o Visible(<<>>) = Silence.visible
        /\ Len(NewCall.order) + Len(Asked(<<>>)) = Silence.calls
        /\ Silence.ended <=> NewNormalizer.completed
        /\ ~Silence.after /\ ~NewNormalizer.completed /\ ~NewCall.completed
    <3>1. /\ NewCall.text = <<>> /\ NewCall.order = <<>> /\ ~NewCall.completed
          /\ ~NewNormalizer.completed /\ Silence.visible = <<>> /\ Silence.calls = 0
          /\ ~Silence.ended /\ ~Silence.after
      BY <1>3, NewReading
    <3> QED BY <2>1, <3>1
  <2>3. ~\E i \in DOMAIN <<>> : <<>>[i].type = "completed"
    BY <2>1
  <2> QED BY <1>1, <2>2, <2>3 DEF HeardInv
<1>7. BackgroundInv' /\ AnswerIsWhole' /\ MessageIsTheAnswer'
  BY <1>1 DEF BackgroundInv, AnswerIsWhole, MessageIsTheAnswer
<1>8. DeltaInv'
  BY <1>1, <1>3, EmptyFacts, NewReading DEF DeltaInv
<1> QED
  BY <1>5, <1>6, <1>7, <1>8 DEF CallInv

\* A frame.
LEMMA ReceiveKeeps ==
  ASSUME CallInv, NEW w \in FramesOf(conf.kind), NEW used, Receive(w, used)
  PROVE  CallInv'
<1> DEFINE r == Normalize(conf.kind, norm, w, conf, used)
<1>1. /\ phase = "streaming" /\ queue = <<>> /\ conf' = conf /\ live' = live /\ message' = message
      /\ said' = Heard(said, w)
      /\ \/ /\ r.ok /\ norm' = r.n /\ queue' = r.out
            /\ phase' = phase /\ exec' = exec /\ pend' = pend /\ timer' = timer
         \/ CallFails
  BY DEF Receive, Waiting
<1>2. conf \in Deployment /\ said \in SaidOf /\ HeardInv /\ BackgroundInv /\ DeltaInv
  BY DEF CallInv, CallTypes
<1>3. conf.kind \in {"openai", "anthropic", "ollama", "background"} /\ conf.kind # "background"
  <2>1. conf.kind \in {"openai", "anthropic", "ollama", "background"}
    BY <1>2, ProviderCallAssumption
  <2> QED BY <2>1 DEF FramesOf
<1>4. WireFrame(w) /\ HeardText(w) \in Seq(Tagged) /\ HeardCalls(w) \in Nat /\ HeardEnd(w) \in BOOLEAN
  BY <1>3, FrameSays
<1>5. /\ said.visible \in Seq(Tagged) /\ said.calls \in Nat /\ said.ended \in BOOLEAN /\ said.after \in BOOLEAN
  BY <1>2 DEF SaidOf
<1>6. /\ said'.visible = said.visible \o HeardText(w) /\ said'.calls = said.calls + HeardCalls(w)
      /\ said'.ended = (said.ended \/ HeardEnd(w)) /\ said'.after = (said.after \/ said.ended)
      /\ said' \in SaidOf
  <2>1. said' = [visible |-> said.visible \o HeardText(w), calls |-> said.calls + HeardCalls(w),
                 ended |-> said.ended \/ HeardEnd(w), after |-> said.after \/ said.ended]
    <3>1. /\ said.calls + w.calls + (IF w.kind = "function" THEN 1 ELSE 0)
             = said.calls + (w.calls + (IF w.kind = "function" THEN 1 ELSE 0))
      BY <1>4, <1>5 DEF WireFrame
    <3>2. (said.ended \/ w.done \/ w.type \in {"completed", "message_stop"})
          = (said.ended \/ (w.done \/ w.type \in {"completed", "message_stop"}))
      OBVIOUS
    <3> QED BY <1>1, <3>1, <3>2 DEF Heard, HeardText, HeardCalls, HeardEnd
  <2>2. said.visible \o HeardText(w) \in Seq(Tagged)
    BY ONLY <1>4, <1>5, Concatenation
  <2>3. said.calls + HeardCalls(w) \in Nat
    BY <1>4, <1>5
  <2> QED BY <1>4, <1>5, <2>1, <2>2, <2>3 DEF SaidOf
<1>7. Extends(Flatten(live), said'.visible)
  <2>1. PICK u \in Seq(Tagged) : said.visible = Flatten(live) \o u
    BY <1>2 DEF DeltaInv, Extends
  <2>2. Flatten(live) \in Seq(Tagged)
    BY <1>2, FlattenSays DEF DeltaInv, Sized
  <2>3. (Flatten(live) \o u) \o HeardText(w) = Flatten(live) \o (u \o HeardText(w))
    BY ONLY SMTT(30), <1>4, <2>1, <2>2, Together
  <2>4. u \o HeardText(w) \in Seq(Tagged)
    BY ONLY <1>4, <2>1, Concatenation
  <2> QED BY <1>6, <2>1, <2>3, <2>4 DEF Extends
<1>8. CASE CallFails
  BY <1>1, <1>2, <1>6, <1>7, <1>8, FailingKeeps DEF CallInv, DeltaInv, BackgroundInv
<1>9. CASE r.ok /\ norm' = r.n /\ queue' = r.out /\ phase' = phase /\ exec' = exec
           /\ pend' = pend /\ timer' = timer
  <2>1. PICK U : Reading(U)
    BY DEF CallInv, CallTypes
  <2>2. /\ 0 \in U /\ CallId \subseteq U /\ norm \in Norm(U) /\ exec \in CallOf(U)
        /\ IsFiniteSet(exec.builtinDone)
    BY <2>1 DEF Reading, Ids
  <2>3. /\ exec.text \o Visible(queue) = said.visible
        /\ Len(exec.order) + Len(Asked(queue)) = said.calls
        /\ said.ended <=> norm.completed
        /\ said.after => conf.kind = "anthropic" /\ norm.completed /\ norm.started
        /\ conf.kind = "anthropic" /\ norm.completed => norm.stop
        /\ exec.completed => said.ended
    BY <1>1, <1>2, <1>3 DEF HeardInv
  <2>4. PICK V : U \subseteq V /\ Accepts(conf.kind, norm, w, r, V)
    <3>1. conf.kind = "anthropic" /\ norm.completed => norm.stop
      BY <2>3
    <3>2. \E V : U \subseteq V /\ Accepts(conf.kind, norm, w, Normalize(conf.kind, norm, w, conf, used), V)
      BY ONLY <1>3, <2>2, <3>1, w \in FramesOf(conf.kind), FrameAccepted
    <3> QED BY <3>2
  <2> HIDE DEF r
  <2>5. r.n \in Norm(V) /\ Says(r.out, w, V, r.n.completed) /\ Ends(conf.kind, norm, r.n, w)
    BY <1>9, <2>4 DEF Accepts
  <2>6. /\ r.out \in Seq(EventOf(V)) /\ Visible(r.out) = HeardText(w) /\ Len(Asked(r.out)) = HeardCalls(w)
        /\ \A i \in DOMAIN r.out : r.out[i].type = "completed" => r.n.completed
    BY <2>5 DEF Says
  <2>7. /\ r.n.completed <=> norm.completed \/ HeardEnd(w)
        /\ norm.completed => conf.kind = "anthropic" /\ ~norm.started /\ r.n.started
        /\ conf.kind = "anthropic" /\ r.n.completed => r.n.stop
    BY <2>5 DEF Ends
  <2>8. exec \in CallOf(V)
    <3>1. exec.order \in Seq(U)
      BY <2>2 DEF CallOf
    <3>2. exec.order \in Seq(V)
      BY ONLY <2>4, <3>1
    <3> QED BY <2>2, <2>4, <3>2 DEF CallOf
  <2>9. Reading(V)'
    BY <1>9, <2>2, <2>4, <2>5, <2>6, <2>8 DEF Reading, Ids
  <2>10. CallTypes'
    BY <1>1, <1>2, <1>6, <2>9 DEF CallTypes
  <2>11. HeardInv'
    <3>1. Visible(<<>>) = <<>> /\ Asked(<<>>) = <<>> /\ Len(<<>>) = 0
      BY EventsSay
    <3>2. exec.text \in Seq(Tagged) /\ exec.order \in Seq(U) /\ Len(exec.order) \in Nat
      BY <2>2 DEF CallOf
    <3>3. said.visible = exec.text /\ said.calls = Len(exec.order)
      <4>1. exec.text \o <<>> = exec.text
        BY ONLY <3>2, EmptyFacts
      <4>2. exec.text \o Visible(<<>>) = said.visible /\ Len(exec.order) + Len(Asked(<<>>)) = said.calls
        BY <1>1, <2>3
      <4>3. exec.text \o <<>> = said.visible
        BY ONLY <3>1, <4>2
      <4>4. Len(exec.order) + 0 = said.calls
        BY ONLY <3>1, <4>2
      <4>5. Len(exec.order) + 0 = Len(exec.order)
        BY <3>2
      <4> QED BY ONLY <4>1, <4>3, <4>4, <4>5
    <3>4. exec.text \o Visible(r.out) = said'.visible /\ Len(exec.order) + Len(Asked(r.out)) = said'.calls
      BY <1>6, <2>6, <3>3
    <3>5. r.n.completed \in BOOLEAN /\ norm.completed \in BOOLEAN /\ r.n.started \in BOOLEAN
      BY <2>2, <2>5 DEF Norm
    <3>6. said'.ended <=> r.n.completed
      BY <1>4, <1>5, <1>6, <2>3, <2>7, <3>5
    <3>7. said'.after => conf.kind = "anthropic" /\ r.n.completed /\ r.n.started
      BY <1>5, <1>6, <2>3, <2>7, <3>5
    <3>8. exec.completed \/ (\E i \in DOMAIN r.out : r.out[i].type = "completed") => said'.ended
      BY <1>4, <1>5, <1>6, <2>3, <2>6, <3>5, <3>6
    <3> QED BY <1>1, <1>9, <2>7, <3>4, <3>6, <3>7, <3>8 DEF HeardInv
  <2>12. BackgroundInv' /\ AnswerIsWhole' /\ MessageIsTheAnswer'
    BY <1>1, <1>3, <1>9 DEF BackgroundInv, AnswerIsWhole, MessageIsTheAnswer
  <2>13. DeltaInv'
    BY <1>1, <1>2, <1>7, <1>9 DEF DeltaInv
  <2> QED BY <2>10, <2>11, <2>12, <2>13 DEF CallInv
<1> QED
  BY <1>1, <1>8, <1>9

\* A call that fails with nothing heard.
LEMMA BrokenStreamKeeps ==
  ASSUME CallInv, CallFails, conf' = conf, live' = live, said' = said
  PROVE  CallInv'
BY FailingKeeps DEF CallInv, CallTypes, DeltaInv, BackgroundInv

\* The batches of an event or a timer, persisted in part: the call fails.
LEMMA PersistFailsKeeps ==
  ASSUME CallInv, NEW out, Sized(out), Extends(Flatten(live \o out), said.visible),
         PersistFails(out), conf' = conf, said' = said,
         ~conf.live \/ conf.kind = "background" => out = <<>>
  PROVE  CallInv'
<1>1. PICK k \in 0..Len(out) : live' = live \o SubSeq(out, 1, k)
  BY DEF PersistFails, PersistBatches
<1>2. CallFails /\ out # <<>>
  BY DEF PersistFails
<1>3. CallTypes /\ said \in SaidOf /\ Sized(live)
  BY DEF CallInv, CallTypes, DeltaInv
<1>4. Sized(live') /\ Extends(Flatten(live'), said'.visible)
  BY <1>1, <1>3, Persisting
<1> QED
  BY <1>2, <1>3, <1>4, FailingKeeps

\* An event.
LEMMA ConsumeKeeps ==
  ASSUME CallInv, Consume
  PROVE  CallInv'
<1> DEFINE e == Head(queue)
           push == Pushed(e)
           x == Recorded(exec, e)
<1>1. /\ phase = "streaming" /\ queue # <<>> /\ conf' = conf /\ said' = said /\ message' = message
      /\ \/ /\ live' = live \o push.out
            /\ exec' = [x EXCEPT !.count = @ + 1]
            /\ pend' = push.p /\ queue' = Tail(queue) /\ timer' = 0
            /\ phase' = phase /\ norm' = norm
         \/ PersistFails(push.out)
  BY DEF Consume, PersistBatches
<1>2. conf \in Deployment /\ said \in SaidOf /\ HeardInv /\ BackgroundInv /\ DeltaInv
  BY DEF CallInv, CallTypes
<1>3. conf.kind # "background"
  BY <1>1, <1>2 DEF BackgroundInv
<1>4. PICK U : Reading(U)
  BY DEF CallInv, CallTypes
<1>5. /\ Ids(U) /\ norm \in Norm(U) /\ queue \in Seq(EventOf(U)) /\ exec \in CallOf(U)
      /\ IsFiniteSet(exec.builtinDone)
  BY <1>4 DEF Reading
<1>6. /\ e \in EventOf(U) /\ Tail(queue) \in Seq(EventOf(U))
      /\ Visible(queue) = VisibleIn(e) \o Visible(Tail(queue))
      /\ Asked(queue) = AskedIn(e) \o Asked(Tail(queue))
  BY <1>1, <1>5, EventsSay
<1>7. /\ Visible(Tail(queue)) \in Seq(Tagged) /\ Asked(Tail(queue)) \in Seq(U)
      /\ VisibleIn(e) \in Seq(Tagged) /\ AskedIn(e) \in Seq(U)
  <2>1. Visible(<<e>>) = VisibleIn(e) /\ Asked(<<e>>) = AskedIn(e)
    BY <1>6, EventsSay
  <2>2. <<e>> \in Seq(EventOf(U))
    BY <1>6, FewEvents
  <2>3. /\ Visible(<<e>>) \in Seq(Tagged) /\ Asked(<<e>>) \in Seq(U)
    BY <2>2, EventsSay
  <2> QED BY <1>6, <2>1, <2>3, EventsSay
<1> HIDE DEF e
<1>8. /\ x \in CallOf(U) /\ IsFiniteSet(x.builtinDone) /\ x.text = exec.text \o VisibleIn(e)
      /\ x.order = exec.order \o AskedIn(e) /\ (x.completed => exec.completed \/ e.type = "completed")
  BY <1>5, <1>6, RecordedSays
<1> HIDE DEF x
<1>9. exec.text \in Seq(Tagged) /\ exec.order \in Seq(U)
  BY <1>5 DEF CallOf
<1>10. /\ exec.text \o Visible(queue) = said.visible
       /\ Len(exec.order) + Len(Asked(queue)) = said.calls
       /\ said.ended <=> norm.completed
       /\ said.after => conf.kind = "anthropic" /\ norm.completed /\ norm.started
       /\ conf.kind = "anthropic" /\ norm.completed => norm.stop
       /\ exec.completed \/ (\E i \in DOMAIN queue : queue[i].type = "completed") => said.ended
  BY <1>1, <1>2, <1>3 DEF HeardInv
<1>11. /\ Sized(push.out) /\ Kept(push.p) /\ Young(push.p, DeltaDelay + 0)
       /\ Extends(Flatten(live \o push.out), said.visible)
       /\ conf.live => Flatten(live \o push.out) \o PendText(push.p) = exec.text \o VisibleIn(e)
       /\ ~conf.live => push.p = EmptyBuffers /\ push.out = <<>> /\ live = <<>>
  <2>1. CASE ~conf.live
    <3>1. push = [p |-> pend, out |-> <<>>] /\ pend = EmptyBuffers /\ live = <<>>
      BY <1>2, <2>1 DEF Pushed, DeltaInv
    <3>2. <<>> \o <<>> = <<>> /\ said.visible \in Seq(Tagged)
      BY <1>2 DEF SaidOf
    <3>3. live \o push.out = <<>>
      BY <3>1, <3>2
    <3>4. Extends(Flatten(live \o push.out), said.visible)
      BY <3>2, <3>3, EmptyFacts
    <3> QED BY <2>1, <3>1, <3>4, EmptyFacts
  <2>2. CASE conf.live
    <3>1. /\ Kept(push.p) /\ Sized(push.out) /\ Young(push.p, DeltaDelay)
          /\ Flatten(push.out) \o PendText(push.p) = PendText(pend) \o VisibleIn(e)
      BY <1>2, <1>6, <2>2, PushedSays DEF DeltaInv
    <3> HIDE DEF push
    <3>2. Flatten(live) \o PendText(pend) = exec.text
      BY <1>1, <1>2, <2>2 DEF DeltaInv
    <3>3. /\ live \in Seq(Batch) /\ push.out \in Seq(Batch) /\ pend \in Pend /\ push.p \in Pend
      BY <1>2, <3>1 DEF DeltaInv, Sized, Kept
    <3>4. /\ Flatten(live) \in Seq(Tagged) /\ Flatten(push.out) \in Seq(Tagged)
          /\ PendText(pend) \in Seq(Tagged) /\ PendText(push.p) \in Seq(Tagged)
          /\ Flatten(live \o push.out) = Flatten(live) \o Flatten(push.out)
      BY <3>3, FlattenSays, PendSays
    <3>5. /\ (Flatten(live) \o Flatten(push.out)) \o PendText(push.p) = exec.text \o VisibleIn(e)
          /\ exec.text \o (VisibleIn(e) \o Visible(Tail(queue)))
             = (Flatten(live) \o Flatten(push.out)) \o (PendText(push.p) \o Visible(Tail(queue)))
      <4> DEFINE L == Flatten(live)
                 O == Flatten(push.out)
                 P == PendText(pend)
                 R == PendText(push.p)
                 X == exec.text
                 Y == VisibleIn(e)
                 Q == Visible(Tail(queue))
      <4>1. /\ L \in Text /\ O \in Text /\ P \in Text /\ R \in Text /\ X \in Text /\ Y \in Text
            /\ Q \in Text /\ Cat(L, P) = X /\ Cat(O, R) = Cat(P, Y)
        BY <1>7, <1>9, <3>1, <3>2, <3>4 DEF Text, Cat
      <4> HIDE DEF L, O, P, R, X, Y, Q
      <4>2. /\ Cat(Cat(L, O), R) = Cat(L, Cat(O, R)) /\ Cat(Cat(L, P), Y) = Cat(L, Cat(P, Y))
            /\ Cat(Cat(X, Y), Q) = Cat(X, Cat(Y, Q)) /\ Cat(L, O) \in Text
        BY ONLY <4>1, CatIs
      <4>3. Cat(Cat(Cat(L, O), R), Q) = Cat(Cat(L, O), Cat(R, Q))
        BY ONLY <4>1, <4>2, CatIs
      <4>4. Cat(Cat(L, O), R) = Cat(X, Y) /\ Cat(X, Cat(Y, Q)) = Cat(Cat(L, O), Cat(R, Q))
        BY ONLY <4>1, <4>2, <4>3
      <4> QED BY ONLY <4>4 DEF Cat, L, O, P, R, X, Y, Q
    <3>6. PendText(push.p) \o Visible(Tail(queue)) \in Seq(Tagged)
      BY ONLY <1>7, <3>4, Concatenation
    <3>7. Extends(Flatten(live \o push.out), said.visible)
      BY <1>6, <1>10, <3>4, <3>5, <3>6 DEF Extends
    <3>8. Young(push.p, DeltaDelay + 0)
      BY <3>1, EmptyFacts DEF Young
    <3> QED BY <2>2, <3>1, <3>4, <3>5, <3>7, <3>8
  <2> QED BY <2>1, <2>2
<1> HIDE DEF push
<1>12. CASE PersistFails(push.out)
  BY <1>1, <1>3, <1>11, <1>12, PersistFailsKeeps
<1>13. CASE /\ live' = live \o push.out
            /\ exec' = [x EXCEPT !.count = @ + 1]
            /\ pend' = push.p /\ queue' = Tail(queue) /\ timer' = 0
            /\ phase' = phase /\ norm' = norm
  <2>1. /\ exec' \in CallOf(U) /\ exec'.text = x.text /\ exec'.order = x.order
        /\ exec'.builtinDone = x.builtinDone /\ exec'.completed = x.completed
    <3> DEFINE y == [x EXCEPT !.count = @ + 1]
    <3>1. x.count \in Nat
      BY <1>8 DEF CallOf
    <3>2. y = [x EXCEPT !.count = x.count + 1] /\ x.count + 1 \in Nat
      BY <3>1
    <3> HIDE DEF y
    <3>3. /\ y \in CallOf(U) /\ y.text = x.text /\ y.order = x.order
          /\ y.builtinDone = x.builtinDone /\ y.completed = x.completed
      BY ONLY <1>8, <3>2 DEF CallOf
    <3> QED BY <1>13, <3>3 DEF y
  <2>2. Reading(U)'
    BY <1>5, <1>6, <1>8, <1>13, <2>1 DEF Reading
  <2>3. CallTypes'
    BY <1>1, <1>2, <2>2 DEF CallTypes
  <2>4. HeardInv'
    <3>1. (exec.text \o VisibleIn(e)) \o Visible(Tail(queue)) = said.visible
      <4>1. (exec.text \o VisibleIn(e)) \o Visible(Tail(queue))
            = exec.text \o (VisibleIn(e) \o Visible(Tail(queue)))
        <5> DEFINE X == exec.text
                   Y == VisibleIn(e)
                   Q == Visible(Tail(queue))
        <5>1. X \in Text /\ Y \in Text /\ Q \in Text
          BY <1>7, <1>9 DEF Text
        <5> HIDE DEF X, Y, Q
        <5>2. Cat(Cat(X, Y), Q) = Cat(X, Cat(Y, Q))
          BY ONLY <5>1, CatIs
        <5> QED BY ONLY <5>2 DEF Cat, X, Y, Q
      <4> QED BY <1>6, <1>10, <4>1
    <3>2. Len(exec.order \o AskedIn(e)) + Len(Asked(Tail(queue))) = said.calls
      <4>1. /\ Len(exec.order \o AskedIn(e)) = Len(exec.order) + Len(AskedIn(e))
            /\ Len(AskedIn(e) \o Asked(Tail(queue))) = Len(AskedIn(e)) + Len(Asked(Tail(queue)))
        BY ONLY <1>7, <1>9, Concatenation
      <4>2. Len(exec.order) \in Nat /\ Len(AskedIn(e)) \in Nat /\ Len(Asked(Tail(queue))) \in Nat
        BY <1>7, <1>9
      <4>3. Len(Asked(queue)) = Len(AskedIn(e)) + Len(Asked(Tail(queue)))
        BY ONLY <1>6, <4>1
      <4>4. Len(exec.order) + (Len(AskedIn(e)) + Len(Asked(Tail(queue)))) = said.calls
        BY ONLY <1>10, <4>3
      <4> DEFINE i == Len(exec.order)
                 j == Len(AskedIn(e))
                 k == Len(Asked(Tail(queue)))
                 n == Len(exec.order \o AskedIn(e))
      <4>5. n = i + j /\ i \in Nat /\ j \in Nat /\ k \in Nat /\ i + (j + k) = said.calls
        BY <4>1, <4>2, <4>4
      <4> HIDE DEF i, j, k, n
      <4>6. n + k = said.calls
        BY ONLY <4>5
      <4> QED BY ONLY <4>6 DEF n, k
    <3>3. /\ e.type = "completed" => \E i \in DOMAIN queue : queue[i].type = "completed"
          /\ (\E i \in DOMAIN Tail(queue) : Tail(queue)[i].type = "completed")
             => \E i \in DOMAIN queue : queue[i].type = "completed"
      <4> DEFINE E == EventOf(U)
                 q == queue
      <4>1. q \in Seq(E) /\ q # <<>>
        BY <1>1, <1>5
      <4> HIDE DEF E, q
      <4>2. 1 \in DOMAIN q /\ Head(q) = q[1]
        BY ONLY <4>1
      <4>3. ASSUME NEW i \in DOMAIN Tail(q) PROVE i + 1 \in DOMAIN q /\ Tail(q)[i] = q[i + 1]
        BY ONLY <4>1, i \in DOMAIN Tail(q)
      <4> QED BY <4>2, <4>3 DEF q, e
    <3>4. exec'.completed \/ (\E i \in DOMAIN Tail(queue) : Tail(queue)[i].type = "completed")
          => said.ended
      BY <1>8, <1>10, <2>1, <3>3
    <3> QED BY <1>1, <1>8, <1>10, <1>13, <2>1, <3>1, <3>2, <3>4 DEF HeardInv
  <2>5. BackgroundInv' /\ AnswerIsWhole' /\ MessageIsTheAnswer'
    BY <1>1, <1>3, <1>13 DEF BackgroundInv, AnswerIsWhole, MessageIsTheAnswer
  <2>6. Sized(live')
    <3>1. Sized(live) /\ push.out \in Seq(Batch)
      BY <1>2, <1>11 DEF DeltaInv, Sized
    <3>2. Len(push.out) \in 0..Len(push.out) /\ SubSeq(push.out, 1, Len(push.out)) = push.out
      <4> HIDE DEF Batch
      <4> QED BY <3>1, Firsts
    <3> QED BY <1>11, <1>13, <3>1, <3>2, Persisting
  <2>7. DeltaInv'
    BY <1>1, <1>8, <1>11, <1>13, <2>1, <2>6, EmptyFacts DEF DeltaInv
  <2> QED BY <2>3, <2>4, <2>5, <2>7 DEF CallInv
<1> QED
  BY <1>1, <1>12, <1>13

\* Time.
LEMMA TickKeeps ==
  ASSUME CallInv, Tick
  PROVE  CallInv'
<1>1. /\ phase = "streaming" /\ queue = <<>> /\ conf.live /\ timer < DeltaDelay
      /\ timer' = timer + 1 /\ pend' = Aged(pend) /\ conf' = conf /\ phase' = phase /\ norm' = norm
      /\ queue' = queue /\ exec' = exec /\ live' = live /\ said' = said /\ message' = message
  BY DEF Tick, Waiting
<1>2. CallTypes /\ HeardInv /\ BackgroundInv /\ DeltaInv /\ AnswerIsWhole /\ MessageIsTheAnswer
  BY DEF CallInv
<1>3. CallTypes' /\ HeardInv' /\ AnswerIsWhole' /\ MessageIsTheAnswer'
  BY <1>1, <1>2 DEF CallTypes, Reading, HeardInv, AnswerIsWhole, MessageIsTheAnswer
<1>4. Aged(EmptyBuffers) = EmptyBuffers
  BY DEF Aged, EmptyBuffers, NoDelta
<1>5. BackgroundInv'
  BY <1>1, <1>2, <1>4 DEF BackgroundInv
<1>6. DeltaInv'
  <2>1. timer \in Nat /\ DeltaDelay \in Nat /\ DeltaDelay + timer \in Nat
        /\ timer + 1 \in 0..DeltaDelay /\ (DeltaDelay + timer) + 1 = DeltaDelay + (timer + 1)
    BY <1>1, <1>2, EmptyFacts DEF DeltaInv
  <2>2. Kept(pend) /\ Young(pend, DeltaDelay + timer)
    BY <1>2 DEF DeltaInv
  <2>3. Kept(Aged(pend)) /\ PendText(Aged(pend)) = PendText(pend) /\ Young(Aged(pend), (DeltaDelay + timer) + 1)
    BY <2>1, <2>2, AgedKeeps
  <2> QED BY <1>1, <1>2, <2>1, <2>3 DEF DeltaInv
<1> QED
  BY <1>3, <1>5, <1>6 DEF CallInv

\* The batches that go at a time when no event waits.
LEMMA PersistingWhileWaiting ==
  ASSUME DeltaInv, CallTypes, HeardInv, BackgroundInv, phase = "streaming", queue = <<>>, conf.live,
         NEW out, Sized(out), NEW p \in Pend, Flatten(out) \o PendText(p) = PendText(pend)
  PROVE  /\ Sized(live \o out)
         /\ Flatten(live \o out) \o PendText(p) = exec.text
         /\ Extends(Flatten(live \o out), said.visible)
<1>1. live \in Seq(Batch) /\ out \in Seq(Batch) /\ pend \in Pend
  BY DEF DeltaInv, Sized, Kept
<1>2. /\ Flatten(live) \in Seq(Tagged) /\ Flatten(out) \in Seq(Tagged) /\ PendText(p) \in Seq(Tagged)
      /\ Flatten(live \o out) = Flatten(live) \o Flatten(out)
  BY <1>1, FlattenSays, PendSays
<1>3. Flatten(live) \o PendText(pend) = exec.text
  BY DEF DeltaInv
<1>4. (Flatten(live) \o Flatten(out)) \o PendText(p) = Flatten(live) \o (Flatten(out) \o PendText(p))
  <2> DEFINE L == Flatten(live)
             O == Flatten(out)
             R == PendText(p)
  <2>1. L \in Text /\ O \in Text /\ R \in Text
    BY <1>2 DEF Text
  <2> HIDE DEF L, O, R
  <2>2. Cat(Cat(L, O), R) = Cat(L, Cat(O, R))
    BY ONLY <2>1, CatIs
  <2> QED BY ONLY <2>2 DEF Cat, L, O, R
<1>5. Flatten(live \o out) \o PendText(p) = exec.text
  BY <1>2, <1>3, <1>4
<1>6. exec.text = said.visible
  <2>1. CASE conf.kind = "background"
    <3>1. exec = NewCall /\ said = Silence
      BY <2>1 DEF BackgroundInv
    <3> QED BY <3>1 DEF NewCall, Silence
  <2>2. CASE conf.kind # "background"
    <3>1. exec.text \o Visible(<<>>) = said.visible
      BY <2>2 DEF HeardInv
    <3>2. PICK U : Reading(U)
      BY DEF CallTypes
    <3>3. exec.text \in Seq(Tagged)
      BY <3>2 DEF Reading, CallOf
    <3>4. exec.text \o <<>> = exec.text
      BY ONLY <3>3, EmptyFacts
    <3> QED BY <3>1, <3>4, EventsSay
  <2> QED BY <2>1, <2>2
<1>7. Extends(Flatten(live \o out), said.visible)
  BY <1>2, <1>5, <1>6 DEF Extends
<1>8. Sized(live \o out)
  <2>1. Len(out) \in 0..Len(out) /\ SubSeq(out, 1, Len(out)) = out
    <3> HIDE DEF Batch
    <3> QED BY <1>1, Firsts
  <2>2. Sized(live)
    BY DEF DeltaInv
  <2>3. Sized(live \o SubSeq(out, 1, Len(out)))
    BY <1>7, <2>1, <2>2, Persisting
  <2> QED BY <2>1, <2>3
<1> QED
  BY <1>5, <1>7, <1>8

\* Empty buffers have nothing to flush.
LEMMA NothingToFlush ==
  /\ FlushDue(EmptyBuffers).p = EmptyBuffers /\ FlushDue(EmptyBuffers).out = <<>>
  /\ FlushAll(EmptyBuffers).out = <<>>
<1>1. Pending(EmptyBuffers) = {}
  BY DEF Pending, EmptyBuffers, NoDelta
<1>2. Due(EmptyBuffers) = {}
  BY <1>1 DEF Due
<1>3. Taken(EmptyBuffers, {}) = EmptyBuffers
  BY DEF Taken, EmptyBuffers, NoDelta
<1>4. BatchesOf(EmptyBuffers, {}) = <<>>
  BY OneBatch
<1> QED
  BY <1>1, <1>2, <1>3, <1>4 DEF FlushDue, FlushAll

\* The sleep ends.
LEMMA TimerFiresKeeps ==
  ASSUME CallInv, TimerFires
  PROVE  CallInv'
<1> DEFINE due == FlushDue(pend)
<1>1. /\ phase = "streaming" /\ queue = <<>> /\ conf.live /\ conf' = conf /\ said' = said /\ message' = message
      /\ \/ /\ live' = live \o due.out /\ pend' = due.p /\ timer' = 0
            /\ phase' = phase /\ norm' = norm /\ queue' = queue /\ exec' = exec
         \/ PersistFails(due.out)
  BY DEF TimerFires, Waiting, PersistBatches
<1>2. CallTypes /\ HeardInv /\ BackgroundInv /\ DeltaInv /\ AnswerIsWhole /\ MessageIsTheAnswer
  BY DEF CallInv
<1>3. /\ Kept(due.p) /\ Sized(due.out) /\ Young(due.p, DeltaDelay)
      /\ Flatten(due.out) \o PendText(due.p) = PendText(pend)
  BY <1>2, FlushDueSays DEF DeltaInv
<1>4. conf.kind = "background" => due.out = <<>> /\ due.p = EmptyBuffers /\ live = <<>>
  BY <1>2, NothingToFlush DEF BackgroundInv
<1> HIDE DEF due
<1>5. /\ Sized(live \o due.out) /\ Flatten(live \o due.out) \o PendText(due.p) = exec.text
      /\ Extends(Flatten(live \o due.out), said.visible)
  BY <1>1, <1>2, <1>3, PersistingWhileWaiting DEF Kept
<1>6. CASE PersistFails(due.out)
  BY <1>1, <1>3, <1>4, <1>5, <1>6, PersistFailsKeeps
<1>7. CASE /\ live' = live \o due.out /\ pend' = due.p /\ timer' = 0
           /\ phase' = phase /\ norm' = norm /\ queue' = queue /\ exec' = exec
  <2>1. CallTypes' /\ HeardInv' /\ AnswerIsWhole' /\ MessageIsTheAnswer'
    BY <1>1, <1>2, <1>7 DEF CallTypes, Reading, HeardInv, AnswerIsWhole, MessageIsTheAnswer
  <2>2. BackgroundInv'
    <3>1. <<>> \o <<>> = <<>>
      OBVIOUS
    <3> QED BY <1>1, <1>2, <1>4, <1>7, <3>1 DEF BackgroundInv
  <2>3. Young(due.p, DeltaDelay + 0)
    BY <1>3, EmptyFacts DEF Young
  <2>4. DeltaInv'
    BY <1>1, <1>3, <1>5, <1>7, <2>3, EmptyFacts DEF DeltaInv
  <2> QED BY <2>1, <2>2, <2>4 DEF CallInv
<1> QED
  BY <1>1, <1>6, <1>7

\* The end of the stream.
LEMMA EndOfStreamKeeps ==
  ASSUME CallInv, EndOfStream
  PROVE  CallInv'
<1>1. /\ phase = "streaming" /\ queue = <<>> /\ Finished(conf.kind, norm) /\ conf' = conf
      /\ said' = said /\ message' = message
      /\ \/ /\ AnswerIsComplete(exec) /\ live' = live \o Rest /\ StreamEnds
            /\ phase' = "accepted" /\ exec' = exec
         \/ PersistFails(Rest)
         \/ live' = live \o Rest /\ CallFails
  BY DEF EndOfStream, Waiting, PersistBatches
<1>2. CallTypes /\ HeardInv /\ BackgroundInv /\ DeltaInv /\ AnswerIsWhole /\ MessageIsTheAnswer
  BY DEF CallInv
<1>3. conf.kind # "background"
  BY <1>1 DEF Finished
<1>4. PICK U : Reading(U)
  BY <1>2 DEF CallTypes
<1>5. exec.text \in Seq(Tagged) /\ exec.order \in Seq(U) /\ exec.text \o <<>> = exec.text
  <2>1. exec.text \in Seq(Tagged) /\ exec.order \in Seq(U)
    BY <1>4 DEF Reading, CallOf
  <2> QED BY <2>1, EmptyFacts
<1>6. exec.text = said.visible /\ Len(exec.order) = said.calls
  <2>1. /\ exec.text \o Visible(<<>>) = said.visible
        /\ Len(exec.order) + Len(Asked(<<>>)) = said.calls
    BY <1>1, <1>2, <1>3 DEF HeardInv
  <2>2. Visible(<<>>) = <<>> /\ Asked(<<>>) = <<>> /\ Len(<<>>) = 0 /\ Len(exec.order) + 0 = Len(exec.order)
    BY <1>5, EventsSay
  <2>3. exec.text \o <<>> = said.visible /\ Len(exec.order) + 0 = said.calls
    BY ONLY <2>1, <2>2
  <2> QED BY ONLY <1>5, <2>2, <2>3
<1>7. /\ Sized(Rest) /\ Sized(live \o Rest) /\ Extends(Flatten(live \o Rest), said.visible)
      /\ conf.live => Flatten(live \o Rest) = exec.text
      /\ ~conf.live => live \o Rest = <<>> /\ Rest = <<>>
  <2>1. CASE conf.live
    <3>1. Rest = FlushAll(pend).out
      BY <2>1 DEF Rest
    <3>2. Kept(pend)
      BY <1>2 DEF DeltaInv
    <3>3. Sized(Rest) /\ Flatten(Rest) = PendText(pend)
      BY <3>1, <3>2, FlushAllSays
    <3> DEFINE o == Rest
    <3> HIDE DEF o
    <3>4. Sized(o) /\ Flatten(o) = PendText(pend) /\ Flatten(o) \in Seq(Tagged)
      BY <3>3, FlattenSays DEF o, Sized
    <3>5. Flatten(o) \o <<>> = Flatten(o)
      BY ONLY <3>4, EmptyFacts
    <3>6. EmptyBuffers \in Pend /\ PendText(EmptyBuffers) = <<>>
      BY EmptyFacts DEF Kept
    <3>7. Flatten(o) \o PendText(EmptyBuffers) = PendText(pend)
      BY ONLY <3>4, <3>5, <3>6
    <3>8. /\ Sized(live \o o) /\ Flatten(live \o o) \o PendText(EmptyBuffers) = exec.text
          /\ Extends(Flatten(live \o o), said.visible)
      BY <1>1, <1>2, <2>1, <3>4, <3>6, <3>7, PersistingWhileWaiting
    <3>9. Flatten(live \o o) \in Seq(Tagged)
      BY <3>8, FlattenSays DEF Sized
    <3>10. Flatten(live \o o) \o <<>> = Flatten(live \o o)
      BY ONLY <3>9, EmptyFacts
    <3> QED BY <2>1, <3>4, <3>6, <3>8, <3>10 DEF o
  <2>2. CASE ~conf.live
    <3>1. Rest = <<>> /\ live = <<>> /\ <<>> \o <<>> = <<>>
      BY <1>2, <2>2 DEF Rest, DeltaInv
    <3>2. said.visible \in Seq(Tagged)
      BY <1>2 DEF CallTypes, SaidOf
    <3> QED BY <2>2, <3>1, <3>2, EmptyFacts
  <2> QED BY <2>1, <2>2
<1>8. CASE PersistFails(Rest)
  BY <1>1, <1>3, <1>7, <1>8, PersistFailsKeeps
<1>9. CASE live' = live \o Rest /\ CallFails
  BY <1>1, <1>2, <1>3, <1>7, <1>9, FailingKeeps DEF CallTypes
<1>10. CASE AnswerIsComplete(exec) /\ live' = live \o Rest /\ StreamEnds /\ phase' = "accepted" /\ exec' = exec
  <2>1. norm' = NewNormalizer /\ queue' = <<>> /\ pend' = EmptyBuffers /\ timer' = 0
    BY <1>10 DEF StreamEnds
  <2>2. CallTypes'
    <3>1. Ids(U) /\ exec \in CallOf(U) /\ IsFiniteSet(exec.builtinDone) /\ <<>> \in Seq(EventOf(U))
      BY <1>4 DEF Reading
    <3>2. Reading(U)'
      BY <1>10, <2>1, <3>1, NewReading DEF Reading
    <3> QED BY <1>1, <1>2, <3>2 DEF CallTypes
  <2>3. HeardInv' /\ BackgroundInv' /\ MessageIsTheAnswer'
    BY <1>1, <1>3, <1>10 DEF HeardInv, BackgroundInv, MessageIsTheAnswer
  <2>4. said.ended /\ ~said.after
    <3>1. exec.completed
      BY <1>10 DEF AnswerIsComplete
    <3>2. said.ended
      BY <1>1, <1>2, <1>3, <3>1 DEF HeardInv
    <3>3. said.after => conf.kind = "anthropic" /\ norm.started
      BY <1>1, <1>2, <1>3 DEF HeardInv
    <3>4. conf.kind = "anthropic" => ~norm.started
      BY <1>1 DEF Finished, AnthropicFinish
    <3> QED BY <3>2, <3>3, <3>4
  <2>5. AnswerIsWhole'
    BY <1>1, <1>6, <1>10, <2>4 DEF AnswerIsWhole
  <2>6. DeltaInv'
    BY <1>1, <1>7, <1>10, <2>1, EmptyFacts DEF DeltaInv
  <2> QED BY <2>2, <2>3, <2>5, <2>6 DEF CallInv
<1> QED
  BY <1>1, <1>8, <1>9, <1>10

\* A background response is retrieved.
LEMMA RetrieveKeeps ==
  ASSUME CallInv, NEW d \in BackgroundDocuments, Retrieve(d)
  PROVE  CallInv'
<1> DEFINE fine == BackgroundFine(d, conf.visible) /\ d.status = "completed"
<1>1. /\ phase = "streaming" /\ conf.kind = "background"
      /\ said' = [said EXCEPT !.visible = BackgroundText(d.output), !.ended = TRUE]
      /\ fine => /\ phase' = "accepted" /\ exec' = FoldLeft(Recorded, exec, BackgroundEvents(d))
                 /\ StreamEnds
      /\ ~fine => CallFails
      /\ conf' = conf /\ live' = live /\ message' = message
  BY DEF Retrieve
<1> HIDE DEF fine
<1>2. CallTypes /\ BackgroundInv /\ DeltaInv
  BY DEF CallInv
<1>3. live = <<>> /\ pend = EmptyBuffers /\ exec = NewCall /\ said = Silence
  BY <1>1, <1>2 DEF BackgroundInv
<1>4. PICK U : Reading(U)
  BY <1>2 DEF CallTypes
<1>5. Ids(U) /\ <<>> \in Seq(EventOf(U))
  BY <1>4 DEF Reading
<1>6. /\ BackgroundEvents(d) \in Seq(EventOf(U)) /\ BackgroundText(d.output) \in Seq(Tagged)
      /\ Visible(BackgroundEvents(d)) = BackgroundText(d.output) /\ Asked(BackgroundEvents(d)) = <<>>
  BY <1>5, DocumentSays
<1>7. /\ said' \in SaidOf /\ said'.visible = BackgroundText(d.output) /\ said'.ended
      /\ said'.calls = 0 /\ ~said'.after
  BY <1>1, <1>3, <1>6 DEF Silence, SaidOf
<1>8. Sized(live') /\ Extends(Flatten(live'), said'.visible)
  BY <1>1, <1>3, <1>6, <1>7, EmptyFacts
<1>9. CASE ~fine
  BY <1>1, <1>2, <1>3, <1>7, <1>8, <1>9, FailingKeeps
<1>10. CASE fine
  <2>1. norm' = NewNormalizer /\ queue' = <<>> /\ pend' = EmptyBuffers /\ timer' = 0
    BY <1>1, <1>10 DEF StreamEnds
  <2>2. /\ exec' \in CallOf(U) /\ IsFiniteSet(exec'.builtinDone)
        /\ exec'.text = BackgroundText(d.output) /\ exec'.order = <<>>
    BY <1>1, <1>3, <1>5, <1>6, <1>10, RecordAll
  <2>3. Reading(U)'
    BY <1>5, <2>1, <2>2, NewReading DEF Reading
  <2>4. CallTypes'
    BY <1>1, <1>2, <1>7, <2>3 DEF CallTypes
  <2>5. HeardInv' /\ BackgroundInv' /\ MessageIsTheAnswer'
    BY <1>1, <1>3, <1>10, <2>1 DEF HeardInv, BackgroundInv, MessageIsTheAnswer
  <2>6. AnswerIsWhole'
    <3>1. Len(<<>>) = 0
      OBVIOUS
    <3> QED BY <1>7, <2>2, <3>1 DEF AnswerIsWhole
  <2>7. DeltaInv'
    BY <1>1, <1>3, <1>8, <1>10, <2>1, EmptyFacts DEF DeltaInv
  <2> QED BY <2>4, <2>5, <2>6, <2>7 DEF CallInv
<1> QED
  BY <1>9, <1>10

\* The message of an accepted answer.
LEMMA MessageKeeps ==
  ASSUME CallInv, phase = "accepted"
  PROVE  \A k \in Kinds :
            /\ TextIn(NormalizeBlocks(exec), k) = TextOf(said.visible, k)
            /\ \A i \in DOMAIN NormalizeBlocks(exec) :
                  NormalizeBlocks(exec)[i].kind = k
                  => Bytes(NormalizeBlocks(exec)[i].text) \in 1..BlockBytes
<1>1. PICK U : Reading(U)
  BY DEF CallInv, CallTypes
<1>2. exec.text \in Seq(Tagged) /\ IsFiniteSet(exec.builtinDone)
  BY <1>1 DEF Reading, CallOf
<1>3. exec.text = said.visible
  BY DEF CallInv, AnswerIsWhole
<1> QED
  BY <1>2, <1>3, NormalizeSays

\* The answer becomes a message, or its run fails.
LEMMA PersistOutputKeeps ==
  ASSUME CallInv, NEW failed \in BOOLEAN, PersistOutput(failed)
  PROVE  CallInv'
<1>1. /\ phase = "accepted" /\ conf.kind # "background"
      /\ message' = (IF failed THEN message ELSE NormalizeBlocks(exec))
      /\ phase' = (IF failed THEN "failed" ELSE "finished")
      /\ conf' = conf /\ norm' = norm /\ queue' = queue /\ exec' = exec /\ pend' = pend
      /\ timer' = timer /\ live' = live /\ said' = said
  BY DEF PersistOutput
<1>2. CallTypes /\ HeardInv /\ BackgroundInv /\ DeltaInv /\ AnswerIsWhole /\ MessageIsTheAnswer
  BY DEF CallInv
<1>3. CallTypes' /\ HeardInv' /\ BackgroundInv' /\ DeltaInv' /\ AnswerIsWhole'
  BY <1>1, <1>2 DEF CallTypes, Reading, HeardInv, BackgroundInv, DeltaInv, AnswerIsWhole
<1>4. MessageIsTheAnswer'
  BY <1>1, MessageKeeps DEF MessageIsTheAnswer
<1> QED
  BY <1>3, <1>4 DEF CallInv

\* The same for a background answer, which may be retrieved again.
LEMMA PersistBackgroundOutputKeeps ==
  ASSUME CallInv, NEW failed \in BOOLEAN, PersistBackgroundOutput(failed)
  PROVE  CallInv'
<1>1. /\ phase = "accepted" /\ conf.kind = "background"
      /\ message' = (IF failed THEN message ELSE NormalizeBlocks(exec))
      /\ phase' = (IF failed THEN "streaming" ELSE "finished")
      /\ exec' = (IF failed THEN NewCall ELSE exec)
      /\ said' = (IF failed THEN Silence ELSE said)
      /\ conf' = conf /\ norm' = norm /\ queue' = queue /\ pend' = pend
      /\ timer' = timer /\ live' = live
  BY DEF PersistBackgroundOutput
<1>2. CallTypes /\ HeardInv /\ BackgroundInv /\ DeltaInv /\ AnswerIsWhole /\ MessageIsTheAnswer
  BY DEF CallInv
<1>3. PICK U : Reading(U)
  BY <1>2 DEF CallTypes
<1>4. CASE ~failed
  <2>1. CallTypes' /\ HeardInv' /\ BackgroundInv' /\ DeltaInv' /\ AnswerIsWhole'
    BY <1>1, <1>2, <1>4 DEF CallTypes, Reading, HeardInv, BackgroundInv, DeltaInv, AnswerIsWhole
  <2>2. MessageIsTheAnswer'
    BY <1>1, <1>4, MessageKeeps DEF MessageIsTheAnswer
  <2> QED BY <2>1, <2>2 DEF CallInv
<1>5. CASE failed
  <2>1. Ids(U)
    BY <1>3 DEF Reading
  <2>2. exec' = NewCall /\ said' = Silence /\ phase' = "streaming"
    BY <1>1, <1>5
  <2>3. CallTypes'
    <3>1. Reading(U)'
      BY <1>1, <1>3, <2>1, <2>2, NewReading DEF Reading
    <3> QED BY <1>1, <1>2, <2>1, <2>2, <3>1, NewReading DEF CallTypes
  <2>4. HeardInv' /\ AnswerIsWhole' /\ MessageIsTheAnswer'
    BY <1>1, <2>2 DEF HeardInv, AnswerIsWhole, MessageIsTheAnswer
  <2>5. BackgroundInv'
    BY <1>1, <1>2, <2>2 DEF BackgroundInv
  <2>6. DeltaInv'
    <3>1. /\ live' = <<>> /\ pend' = EmptyBuffers /\ timer' \in 0..DeltaDelay
          /\ Kept(pend') /\ Young(pend', DeltaDelay + timer')
      BY <1>1, <1>2 DEF BackgroundInv, DeltaInv
    <3>2. exec'.text = <<>> /\ <<>> \o <<>> = <<>> /\ said'.visible = <<>>
      BY <2>2, EmptyFacts DEF NewCall, Silence
    <3> QED BY <1>1, <2>2, <3>1, <3>2, EmptyFacts DEF DeltaInv
  <2> QED BY <2>3, <2>4, <2>5, <2>6 DEF CallInv
<1> QED
  BY <1>4, <1>5

\* An observed turn: the locals of the call are gone.
LEMMA ObserveTurnKeeps ==
  ASSUME CallInv, ObserveTurn
  PROVE  CallInv'
<1>1. /\ phase = "accepted" /\ phase' \in {"tools", "failed"} /\ exec' = NewCall /\ said' = Silence
      /\ live' = <<>> /\ conf' = conf /\ norm' = norm /\ queue' = queue /\ pend' = pend
      /\ timer' = timer /\ message' = message
  BY DEF ObserveTurn
<1>2. CallTypes /\ BackgroundInv /\ DeltaInv
  BY DEF CallInv
<1>3. PICK U : Reading(U)
  BY <1>2 DEF CallTypes
<1>4. Ids(U)
  BY <1>3 DEF Reading
<1>5. CallTypes'
  <2>1. Reading(U)'
    BY <1>1, <1>3, <1>4, NewReading DEF Reading
  <2> QED BY <1>1, <1>2, <1>4, <2>1, NewReading DEF CallTypes
<1>6. HeardInv' /\ BackgroundInv' /\ AnswerIsWhole' /\ MessageIsTheAnswer'
  BY <1>1, <1>2 DEF HeardInv, BackgroundInv, AnswerIsWhole, MessageIsTheAnswer
<1>7. DeltaInv'
  BY <1>1, <1>2, EmptyFacts DEF DeltaInv, Silence
<1> QED
  BY <1>5, <1>6, <1>7 DEF CallInv

\* A step outside a call.
LEMMA QuietKeeps ==
  ASSUME CallInv, UNCHANGED <<conf, norm, queue, exec, pend, timer, live, said, message>>,
         \/ phase' = phase
         \/ phase # "streaming" /\ phase' \notin {"streaming", "accepted", "finished"}
  PROVE  CallInv'
<1>1. CallTypes /\ HeardInv /\ BackgroundInv /\ DeltaInv /\ AnswerIsWhole /\ MessageIsTheAnswer
  BY DEF CallInv
<1>2. CallTypes'
  BY <1>1 DEF CallTypes, Reading
<1>3. HeardInv'
  BY <1>1 DEF HeardInv
<1>4. BackgroundInv'
  BY <1>1 DEF BackgroundInv
<1>5. DeltaInv'
  BY <1>1 DEF DeltaInv
<1>6. AnswerIsWhole' /\ MessageIsTheAnswer'
  BY <1>1 DEF AnswerIsWhole, MessageIsTheAnswer
<1> QED
  BY <1>2, <1>3, <1>4, <1>5, <1>6 DEF CallInv

\* A step of a call.
LEMMA StreamingKeeps ==
  ASSUME CallInv, NEW used, CallNext(used)
  PROVE  CallInv'
<1>1. CASE \E w \in FramesOf(conf.kind) : Receive(w, used)
  <2>1. PICK w \in FramesOf(conf.kind) : Receive(w, used)
    BY <1>1
  <2> QED BY <2>1, ReceiveKeeps
<1>2. CASE BrokenStream
  <2>1. CallFails /\ conf' = conf /\ live' = live /\ said' = said
    BY <1>2 DEF BrokenStream
  <2> QED BY <2>1, BrokenStreamKeeps
<1>3. CASE Consume
  BY <1>3, ConsumeKeeps
<1>4. CASE RefuseEvent
  <2>1. CallFails /\ conf' = conf /\ live' = live /\ said' = said
    BY <1>4 DEF RefuseEvent
  <2> QED BY <2>1, BrokenStreamKeeps
<1>5. CASE Tick
  BY <1>5, TickKeeps
<1>6. CASE TimerFires
  BY <1>6, TimerFiresKeeps
<1>7. CASE EndOfStream
  BY <1>7, EndOfStreamKeeps
<1>8. CASE \E d \in BackgroundDocuments : Retrieve(d)
  <2>1. PICK d \in BackgroundDocuments : Retrieve(d)
    BY <1>8
  <2> QED BY <2>1, RetrieveKeeps
<1> QED
  BY <1>1, <1>2, <1>3, <1>4, <1>5, <1>6, <1>7, <1>8 DEF CallNext

\* Every step of the conversation preserves the invariant of the call.
LEMMA CallStep ==
  ASSUME CallInv, [Next]_vars
  PROVE  CallInv'
<1>1. CASE BeginTurn
  <2>1. \/ OpenStream
        \/ /\ phase = "idle" /\ phase' = "refused"
           /\ UNCHANGED <<conf, norm, queue, exec, pend, timer, live, said, message>>
    BY <1>1 DEF BeginTurn
  <2>2. CASE OpenStream
    BY <2>2, OpenStreamKeeps
  <2>3. CASE /\ phase = "idle" /\ phase' = "refused"
             /\ UNCHANGED <<conf, norm, queue, exec, pend, timer, live, said, message>>
    BY <2>3, QuietKeeps
  <2> QED BY <2>1, <2>2, <2>3
<1>2. CASE Streaming
  <2>1. CallNext(UsedCalls)
    BY <1>2 DEF Streaming
  <2> HIDE DEF UsedCalls
  <2> QED BY <2>1, StreamingKeeps
<1>3. CASE ObserveTurn
  BY <1>3, ObserveTurnKeeps
<1>4. CASE \E i \in DOMAIN guard.order : RunTool(i)
  <2>1. /\ phase = "tools" /\ phase' \in {"tools", "failed"}
        /\ UNCHANGED <<conf, norm, queue, exec, pend, timer, live, said, message>>
    BY <1>4 DEF RunTool
  <2> QED BY <2>1, QuietKeeps
<1>5. CASE CloseBatch
  <2>1. /\ phase = "tools" /\ phase' = "idle"
        /\ UNCHANGED <<conf, norm, queue, exec, pend, timer, live, said, message>>
    BY <1>5 DEF CloseBatch
  <2> QED BY <2>1, QuietKeeps
<1>6. CASE Crash
  <2>1. /\ phase = "idle" /\ phase' = "crashed"
        /\ UNCHANGED <<conf, norm, queue, exec, pend, timer, live, said, message>>
    BY <1>6 DEF Crash
  <2> QED BY <2>1, QuietKeeps
<1>7. CASE Adopt
  <2>1. /\ phase = "crashed" /\ phase' \in {"idle", "not_adopted"}
        /\ UNCHANGED <<conf, norm, queue, exec, pend, timer, live, said, message>>
    BY <1>7 DEF Adopt
  <2> QED BY <2>1, QuietKeeps
<1>8. CASE ChangeDefinition \/ UNCHANGED vars
  <2>1. phase' = phase /\ UNCHANGED <<conf, norm, queue, exec, pend, timer, live, said, message>>
    BY <1>8 DEF ChangeDefinition, vars, callVars
  <2> QED BY <2>1, QuietKeeps
<1>9. CASE Finish
  <2>1. PICK failed \in BOOLEAN : PersistOutput(failed)
    BY <1>9 DEF Finish
  <2> QED BY <2>1, PersistOutputKeeps
<1>10. CASE FinishBackground
  <2>1. PICK failed \in BOOLEAN : PersistBackgroundOutput(failed)
    BY <1>10 DEF FinishBackground
  <2> QED BY <2>1, PersistBackgroundOutputKeeps
<1> QED
  BY <1>1, <1>2, <1>3, <1>4, <1>5, <1>6, <1>7, <1>8, <1>9, <1>10 DEF Next

\* The invariant holds initially.
LEMMA CallStarts ==
  ASSUME Init
  PROVE  CallInv
<1>1. PICK c \in Deployment : CallInit(c)
  BY DEF Init
<1>2. /\ conf \in Deployment /\ phase = "idle" /\ norm = NewNormalizer /\ queue = <<>>
      /\ exec = NewCall /\ pend = EmptyBuffers /\ timer = 0 /\ live = <<>> /\ said = Silence
      /\ message = <<>>
  BY <1>1 DEF CallInit
<1>3. CallTypes
  <2> DEFINE U == {0} \cup CallId
  <2>1. Ids(U)
    BY DEF Ids
  <2> HIDE DEF U
  <2>2. <<>> \in Seq(EventOf(U))
    OBVIOUS
  <2>3. Reading(U)
    BY <1>2, <2>1, <2>2, NewReading DEF Reading
  <2> QED BY <1>2, <2>1, <2>3, NewReading DEF CallTypes
<1>4. HeardInv /\ BackgroundInv /\ AnswerIsWhole /\ MessageIsTheAnswer
  BY <1>2 DEF HeardInv, BackgroundInv, AnswerIsWhole, MessageIsTheAnswer
<1>5. DeltaInv
  BY <1>2, EmptyFacts DEF DeltaInv, Silence
<1> QED
  BY <1>3, <1>4, <1>5 DEF CallInv

\* A part of a text, and the whole of it.
LEMMA ExtendsIsPrefix ==
  ASSUME NEW a \in Seq(Tagged), NEW v \in Seq(Tagged), Extends(a, v)
  PROVE  IsPrefix(a, v)
<1>1. PICK u \in Seq(Tagged) : v = a \o u
  BY DEF Extends
<1> HIDE DEF Tagged
<1>2. Len(a) <= Len(v) /\ SubSeq(a, 1, Len(a)) = SubSeq(v, 1, Len(a))
  <2>1. Len(a) \in Nat /\ Len(u) \in Nat /\ Len(v) = Len(a) + Len(u)
    BY <1>1
  <2>2. \A i \in 1..Len(a) : a[i] = v[i]
    BY <1>1
  <2> QED BY <2>1, <2>2
<1> QED
  BY <1>2 DEF IsPrefix

\* The invariant has what the runs check.
LEMMA CallInvSays ==
  ASSUME CallInv
  PROVE  AnswerIsKept /\ ReadersSeeTheAnswer
<1>1. CallTypes /\ DeltaInv
  BY DEF CallInv
<1>2. AnswerIsKept
  BY DEF CallInv, AnswerIsKept
<1>3. Flatten(live) \in Seq(Tagged) /\ said.visible \in Seq(Tagged)
  BY <1>1, FlattenSays DEF DeltaInv, Sized, CallTypes, SaidOf
<1>4. IsPrefix(Flatten(live), said.visible)
  BY <1>1, <1>3, ExtendsIsPrefix DEF DeltaInv
<1>5. \A i \in DOMAIN live : Bytes(live[i].text) \in 1..DeltaBytes
  <2>1. live \in Seq(Batch) /\ \A i \in 1..Len(live) : Bytes(live[i].text) \in 1..DeltaBytes
    BY <1>1 DEF DeltaInv, Sized
  <2> HIDE DEF Batch
  <2>2. DOMAIN live = 1..Len(live)
    BY <2>1
  <2> QED BY <2>1, <2>2
<1>6. LiveIsTheAnswer
  BY <1>1, <1>4, <1>5 DEF LiveIsTheAnswer, DeltaInv
<1>7. BufferedAtMostTwice
  <2>1. pend \in [Kinds -> [text : Seq(Char), age : Nat]] /\ timer \in 0..DeltaDelay /\ DeltaDelay \in Nat
    BY <1>1, EmptyFacts DEF DeltaInv, Kept, Pend
  <2> SUFFICES ASSUME NEW k \in Kinds PROVE pend[k].age < 2 * DeltaDelay
    BY DEF BufferedAtMostTwice
  <2>2. pend[k].age < DeltaDelay + timer
    BY <1>1 DEF DeltaInv, Young
  <2>3. pend[k].age \in Nat
    BY <2>1
  <2> QED BY <2>1, <2>2, <2>3
<1> QED
  BY <1>2, <1>6, <1>7 DEF ReadersSeeTheAnswer

\* In every reachable state of a conversation the text is where the invariant
\* says: heard, taken, buffered, persisted or stored (provider_calls.rs: the
\* loop of execute; live_delta.rs; orm_provider_output.rs).
THEOREM CallInvHolds == Spec => []CallInv
<1>1. Init => CallInv
  BY CallStarts
<1>2. CallInv /\ [Next]_vars => CallInv'
  BY CallStep
<1> QED
  BY <1>1, <1>2, PTL DEF Spec

\* An answer is accepted only whole: what execute hands on is all the provider
\* said, up to an end it heard, and the message persist writes says the same
\* in blocks that are not empty and keep their limit.
THEOREM AnswerKept == Spec => []AnswerIsKept
<1>1. CallInv => AnswerIsKept
  BY CallInvSays
<1> QED
  BY <1>1, CallInvHolds, PTL

\* The batches that push_event and the timer persist are, in their order, the
\* start of the answer, and all of it once it is accepted; no text waits for
\* as long as twice the delay.
THEOREM ReadersSee == Spec => []ReadersSeeTheAnswer
<1>1. CallInv => ReadersSeeTheAnswer
  BY CallInvSays
<1> QED
  BY <1>1, CallInvHolds, PTL

=============================================================================
