------------------------- MODULE ConversationProofs --------------------------
(***************************************************************************)
(* What is sent to a provider, and what a reader is given, is what there   *)
(* was.  CallProofs has the answer of a single call.                       *)
(*                                                                         *)
(* The conversation: for any number of turns, calls and crashes, a request *)
(* tells the provider what happened.  The witness is a history: for each   *)
(* accepted turn its text, its calls and the results they really had       *)
(* (History).  The messages replayed, the rows, the guard, the checkpoint  *)
(* and what is on the wire each tell that history (Told, RowsAre, SentTo,  *)
(* Batching, Stopped); every step adds a turn to it or leaves it alone     *)
(* (ConvStep).                                                             *)
(*                                                                         *)
(* The streams: no event goes missing between the stored stream and a      *)
(* client, and no client is told to start again for nothing.  What a       *)
(* client has seen is compared with its cursor only; what makes the        *)
(* comparison hold is the page in hand.  A page that was not answered with *)
(* a reset is an interval that starts right after the cursor, and where    *)
(* the last page of a replay stops short of the target, the row it stops   *)
(* at is gone (PageInv).  That a page is such an interval follows from two *)
(* different arguments: a session page has looked for holes, an inbox page *)
(* relies on the retained rows having none.                                *)
(***************************************************************************)
EXTENDS CallProofs, Streams

-----------------------------------------------------------------------------
(***************************************************************************)
(* The streams.                                                            *)
(***************************************************************************)

\* A session's events are not pruned by the inbox pruner, and pruning leaves
\* the newest events of an inbox.
MinimumInv ==
  /\ kind = "session" => minimum = 1 /\ pruner = "none"
  /\ minimum = 1 \/ head - minimum + 1 >= MinimumEvents

\* Between its two reads a session page knows a watermark that no target of
\* the replay is past.
RowsInv ==
  sub.at = "rows" =>
    /\ kind = "session" /\ sub.cursor <= sub.mark
    /\ sub.first \/ sub.target <= sub.mark

\* The page in hand is the interval up to some b, and a last page that stops
\* before the target stops at a row that is gone.
PageInv ==
  sub.at = "deliver" =>
    \E b \in Nat :
      /\ sub.cursor < b
      /\ sub.page = sub.cursor + 1 .. b - 1
      /\ ~sub.more => b > sub.target \/ event[b] = "gone"

\* The stored shape of a connection.
Connection ==
  [at : {"closed", "replay", "rows", "deliver", "wait"}, from : Nat, cursor : Nat,
   target : Nat, mark : Nat, page : SUBSET Sequence, more : BOOLEAN,
   first : BOOLEAN, wakeups : Seq(Nat), lagged : BOOLEAN]

\* The table and the passes over it.
StreamInv ==
  /\ kind \in {"inbox", "session"}
  /\ head \in 0 .. MaxHead
  /\ minimum \in 1 .. head + 1
  /\ event \in [Sequence -> {"none", "lasting", "fleeting", "purged", "gone"}]
  /\ \A i \in Sequence : event[i] = "none" <=> i > head
  /\ expired \in 0 .. head
  /\ deleting \in BOOLEAN
  /\ pruner \in {"none", "same", "moved"}
  /\ RetainedIsContiguous
  /\ MinimumInv

\* The receiver's side of the channel.
ChannelInv == sub.wakeups \in Seq(0 .. head) /\ Len(sub.wakeups) <= Buffer

\* A client's place in the stream.
PlaceInv ==
  /\ sub.from <= sub.cursor /\ sub.cursor <= head
  /\ sub.target <= head /\ sub.mark <= head
  /\ NothingSkipped

SInv ==
  /\ StreamInv
  /\ sub \in Connection
  /\ ChannelInv /\ PlaceInv /\ RowsInv /\ PageInv
  /\ revoked \in BOOLEAN /\ told \in 0 .. head /\ drops \in 0 .. MaxDrops

\* The bounds, one by one.
LEMMA Bounds ==
  /\ MaxHead \in Nat \ {0} /\ PageSize \in Nat \ {0} /\ MinimumEvents \in Nat \ {0}
  /\ PruneLimit \in Nat \ {0} /\ Buffer \in Nat \ {0} /\ MaxDrops \in Nat
BY StreamConstants

USE Bounds
---------------------------------------------------------------------------
(***************************************************************************)
(* The first members of a set                                              *)
(***************************************************************************)

Less == {p \in Nat \X Nat : p[1] < p[2]}

\* A nonempty set of naturals has a least member.
LEMMA Least ==
  ASSUME NEW S, S \subseteq Nat, S # {}
  PROVE  \E n \in S : \A m \in S : n <= m
<1>1. IsWellFoundedOn(Less, Nat)
  BY NatLessThanWellFounded, ZenonT(30) DEF OpToRel, Less
<1>2. PICK n \in S : \A m \in S : <<m, n>> \notin Less
  BY WFMin, <1>1
<1>3. \A m \in S : m \in Nat /\ n \in Nat /\ ~(m < n)
  BY <1>2 DEF Less
<1>4. \A m \in S : n <= m
  BY <1>3
<1> QED BY <1>4

\* The first of an interval is where it begins.
LEMMA FirstOfInterval ==
  ASSUME NEW a \in Nat, NEW b \in Nat, a <= b
  PROVE  First(a .. b) = a
<1>1. a \in a .. b /\ \A j \in a .. b : a <= j
  OBVIOUS
<1>2. \A i \in a .. b : (\A j \in a .. b : i <= j) => i = a
  BY <1>1
<1> QED BY <1>1, <1>2 DEF First

\* The first members of a set are closed downwards in it.
LEMMA EarliestIsClosed ==
  ASSUME NEW S, IsFiniteSet(S), S \subseteq Nat, NEW n \in Nat,
         NEW i \in Earliest(S, n), NEW k \in S, k <= i
  PROVE  k \in Earliest(S, n)
<1> DEFINE K == {j \in S : j <= k}
           I == {j \in S : j <= i}
<1>1. i \in S /\ Cardinality(I) <= n /\ \A j \in S : j \in Nat
  BY DEF Earliest
<1>2. K \subseteq I
  <2>1. i \in Nat /\ k \in Nat
    BY <1>1
  <2>2. ASSUME NEW j \in Nat, j <= k PROVE j <= i
    BY <2>1, <2>2
  <2> QED BY <1>1, <2>2
<1>3. IsFiniteSet(I) /\ IsFiniteSet(K)
  BY FS_Subset
<1>4. Cardinality(K) <= Cardinality(I) /\ Cardinality(K) \in Nat /\ Cardinality(I) \in Nat
  BY <1>2, <1>3, FS_Subset, FS_CardinalityType
<1>5. Cardinality(K) <= n
  BY <1>1, <1>4
<1> QED BY <1>5 DEF Earliest

\* There is a first member.
LEMMA EarliestNotEmpty ==
  ASSUME NEW S, S \subseteq Nat, S # {}, NEW n \in Nat \ {0}
  PROVE  Earliest(S, n) # {}
<1>1. PICK m \in S : \A j \in S : m <= j
  BY Least
<1>2. {j \in S : j <= m} = {m}
  <2>1. m \in Nat /\ \A j \in S : j \in Nat /\ m <= j
    BY <1>1
  <2>2. \A j \in S : j <= m => j = m
    BY <2>1
  <2>3. m \in S /\ m <= m
    BY <2>1
  <2> QED BY <2>2, <2>3
<1>3. Cardinality({m}) = 1
  BY FS_Singleton
<1>4. m \in Earliest(S, n)
  BY <1>2, <1>3 DEF Earliest
<1> QED BY <1>4

\* A small set is its own beginning.
LEMMA EarliestIsAll ==
  ASSUME NEW S, IsFiniteSet(S), NEW n \in Nat, Cardinality(S) <= n
  PROVE  Earliest(S, n) = S
<1> SUFFICES ASSUME NEW i \in S PROVE Cardinality({j \in S : j <= i}) <= n
  BY DEF Earliest
<1>1. IsFiniteSet({j \in S : j <= i}) /\ Cardinality({j \in S : j <= i}) <= Cardinality(S)
  BY FS_Subset
<1>2. Cardinality({j \in S : j <= i}) \in Nat /\ Cardinality(S) \in Nat
  BY <1>1, FS_CardinalityType
<1> QED BY <1>1, <1>2
---------------------------------------------------------------------------
(***************************************************************************)
(* Pages                                                                   *)
(***************************************************************************)

Stored(cursor, watermark) == {i \in cursor + 1 .. watermark : event[i] # "gone"}

\* The rows of a read are some of the stored ones.
LEMMA RowsAreStored ==
  ASSUME NEW cursor \in Nat, NEW mark \in Nat
  PROVE  /\ IsFiniteSet(Stored(cursor, mark)) /\ Stored(cursor, mark) \subseteq Nat
         /\ RowsAfter(cursor, mark) \subseteq Stored(cursor, mark)
         /\ IsFiniteSet(RowsAfter(cursor, mark))
         /\ RowsAfter(cursor, mark) = Earliest(Stored(cursor, mark), PageSize + 1)
<1>1. IsFiniteSet(cursor + 1 .. mark)
  <2>1. cursor + 1 \in Int /\ mark \in Int
    OBVIOUS
  <2> QED BY <2>1, FS_Interval
<1>2. IsFiniteSet(Stored(cursor, mark))
  BY <1>1, FS_Subset DEF Stored
<1>3. RowsAfter(cursor, mark) = Earliest(Stored(cursor, mark), PageSize + 1)
  BY DEF RowsAfter, Stored
<1>4. RowsAfter(cursor, mark) \subseteq Stored(cursor, mark)
  BY <1>3 DEF Earliest
<1>5. IsFiniteSet(RowsAfter(cursor, mark))
  BY <1>2, <1>4, FS_Subset
<1>6. Stored(cursor, mark) \subseteq Nat
  BY DEF Stored
<1> QED BY <1>2, <1>3, <1>4, <1>5, <1>6

\* A page of rows without a hole is an interval after the cursor, and where a
\* last page stops, nothing is stored up to the watermark.
LEMMA PageIsInterval ==
  ASSUME NEW cursor \in Nat, NEW mark \in Nat,
         \A i \in RowsAfter(cursor, mark) :
           \A k \in cursor + 1 .. i - 1 : k \in RowsAfter(cursor, mark)
  PROVE  \E b \in Nat :
           /\ cursor < b
           /\ Shown(RowsAfter(cursor, mark)) = cursor + 1 .. b - 1
           /\ Cardinality(RowsAfter(cursor, mark)) <= PageSize
                => b > mark \/ event[b] = "gone"
<1> DEFINE S == Stored(cursor, mark)
           kept == RowsAfter(cursor, mark)
           B == {b \in Nat : cursor < b /\ b \notin Shown(kept)}
<1>1. /\ IsFiniteSet(S) /\ S \subseteq Nat /\ kept \subseteq S /\ IsFiniteSet(kept)
      /\ kept = Earliest(S, PageSize + 1) /\ kept \subseteq Nat
  BY RowsAreStored
<1>h. \A i \in kept : \A k \in cursor + 1 .. i - 1 : k \in kept
  OBVIOUS
<1>s. \A i \in S : cursor < i /\ i <= mark /\ event[i] # "gone"
  BY DEF Stored
<1>t. \A i \in Nat : cursor < i /\ i <= mark /\ event[i] # "gone" => i \in S
  BY DEF Stored
<1> HIDE DEF S, kept
<1>2. Shown(kept) \subseteq kept
  BY DEF Shown, Earliest
<1>3. cursor + mark + 1 \in B
  BY <1>1, <1>2, <1>s
<1>4. PICK b \in B : \A c \in B : b <= c
  <2>1. B \subseteq Nat /\ B # {} BY <1>3
  <2> HIDE DEF B
  <2> QED BY <2>1, Least
<1>5. b \in Nat /\ cursor < b /\ b \notin Shown(kept)
  OBVIOUS
<1>6. cursor + 1 .. b - 1 \subseteq Shown(kept)
  <2> SUFFICES ASSUME NEW k \in cursor + 1 .. b - 1 PROVE k \in Shown(kept)
    OBVIOUS
  <2>1. k \notin B BY <1>4, <1>5
  <2> QED BY <2>1
<1>7. Shown(kept) \subseteq cursor + 1 .. b - 1
  <2> SUFFICES ASSUME NEW i \in Shown(kept), i >= b PROVE FALSE
    BY <1>1, <1>2, <1>5, <1>s
  <2>1. i \in kept /\ i \in Nat BY <1>1, <1>2
  <2>2. b \in kept
    BY <1>5, <1>h, <2>1
  <2>3. b \in Shown(kept)
    BY <1>1, <2>1, <2>2, EarliestIsClosed DEF Shown
  <2> QED BY <1>5, <2>3
<1>8. ASSUME Cardinality(kept) <= PageSize, b <= mark, event[b] # "gone"
      PROVE  FALSE
  <2>1. Shown(kept) = kept
    BY <1>1, <1>8, EarliestIsAll DEF Shown
  <2>2. kept = cursor + 1 .. b - 1 /\ b \notin kept
    BY <1>5, <1>6, <1>7, <2>1
  <2>3. b \in S
    BY <1>5, <1>8, <1>t
  <2>4. {j \in S : j <= b} = cursor + 1 .. b
    <3>1. ASSUME NEW j \in S, j <= b PROVE j \in cursor + 1 .. b
      BY <1>1, <1>5, <1>s, <3>1
    <3>2. ASSUME NEW j \in cursor + 1 .. b PROVE j \in S /\ j <= b
      BY <1>1, <1>5, <2>2, <2>3
    <3> QED BY <3>1, <3>2
  <2>5. Cardinality(cursor + 1 .. b) = b - cursor
    BY <1>5, FS_Interval
  <2>6. Cardinality(kept) = b - 1 - cursor
    BY <1>5, <2>2, FS_Interval
  <2>7. b - cursor > PageSize + 1
    <3>1. ~(Cardinality({j \in S : j <= b}) <= PageSize + 1)
      BY <1>1, <2>2, <2>3 DEF Earliest
    <3>2. ~(b - cursor <= PageSize + 1)
      BY <2>4, <2>5, <3>1
    <3> QED BY <1>5, <3>2
  <2> QED BY <1>5, <1>8, <2>6, <2>7
<1>9. Shown(kept) = cursor + 1 .. b - 1
  BY <1>6, <1>7
<1> QED BY <1>5, <1>8, <1>9 DEF kept
---------------------------------------------------------------------------
(***************************************************************************)
(* The table                                                               *)
(***************************************************************************)

\* An append keeps the stream.
LEMMA AppendKeepsStream ==
  ASSUME StreamInv, NEW what \in {"lasting", "fleeting"}, NEW here \in BOOLEAN,
         AppendEvent(what, here)
  PROVE  StreamInv' /\ head <= head' /\ kind' = kind
         /\ \A i \in 1 .. head : event'[i] = event[i]
<1>0. /\ kind \in {"inbox", "session"} /\ head \in Nat /\ head < MaxHead
      /\ minimum \in 1 .. head + 1 /\ expired \in 0 .. head
      /\ event \in [Sequence -> {"none", "lasting", "fleeting", "purged", "gone"}]
      /\ \A i \in Sequence : event[i] = "none" <=> i > head
      /\ head' = head + 1 /\ minimum' = minimum /\ kind' = kind /\ expired' = expired
      /\ event' = [event EXCEPT ![head + 1] = what] /\ deleting' = deleting
      /\ pruner' = IF pruner = "same" THEN "moved" ELSE pruner
  BY DEF StreamInv, AppendEvent
<1>1. head + 1 \in Sequence /\ head' \in 0 .. MaxHead
  BY <1>0 DEF Sequence
<1>2. /\ event' \in [Sequence -> {"none", "lasting", "fleeting", "purged", "gone"}]
      /\ event'[head + 1] = what
      /\ \A i \in Sequence : i # head + 1 => event'[i] = event[i]
  BY <1>0, <1>1
<1>3. \A i \in Sequence : event'[i] = "none" <=> i > head'
  BY <1>0, <1>2 DEF Sequence
<1>4. \A i \in 1 .. head : i \in Sequence /\ event'[i] = event[i]
  BY <1>0, <1>2 DEF Sequence
<1>5. RetainedIsContiguous'
  <2> SUFFICES ASSUME kind = "inbox", NEW i \in 1 .. head + 1
               PROVE  event'[i] = "gone" <=> i < minimum
    BY <1>0 DEF RetainedIsContiguous
  <2>1. CASE i = head + 1
    BY <1>0, <1>2, <2>1
  <2>2. CASE i \in 1 .. head
    BY <1>4, <2>2 DEF StreamInv, RetainedIsContiguous
  <2> QED BY <1>0, <2>1, <2>2
<1>6. MinimumInv'
  BY <1>0 DEF StreamInv, MinimumInv
<1>7. minimum' \in 1 .. head' + 1 /\ expired' \in 0 .. head'
  BY <1>0
<1>8. pruner' \in {"none", "same", "moved"} /\ deleting' \in BOOLEAN
  BY <1>0 DEF StreamInv
<1> QED BY <1>0, <1>1, <1>2, <1>3, <1>4, <1>5, <1>6, <1>7, <1>8 DEF StreamInv

\* What a pass of the pruner takes is the oldest part of the stream, none of it
\* within the policy's floor.
LEMMA DeletableIsPrefix ==
  ASSUME StreamInv
  PROVE  \E m \in minimum - 1 .. head :
           /\ Deletable = minimum .. m
           /\ m >= minimum => head - m >= MinimumEvents
<1>0. head \in Nat /\ minimum \in Nat /\ expired \in Nat
      /\ minimum >= 1 /\ minimum <= head + 1 /\ expired <= head
  BY DEF StreamInv
<1> DEFINE In(i) == i <= minimum + PruneLimit - 1 /\ i <= expired /\ i <= NewestDeletable
<1>1. \A i : i \in Deletable <=> i \in Int /\ minimum <= i /\ In(i)
  BY <1>0 DEF Deletable
<1>2. PICK u \in Int : \A i \in Int : In(i) <=> i <= u
  <2>1. NewestDeletable \in Int BY <1>0 DEF NewestDeletable
  <2>2. \E u \in {minimum + PruneLimit - 1, expired, NewestDeletable} : In(u)
    BY <1>0, <2>1
  <2>3. PICK u \in {minimum + PruneLimit - 1, expired, NewestDeletable} : In(u)
    BY <2>2
  <2>4. u \in Int BY <1>0, <2>1, <2>3
  <2>5. \A i \in Int : In(i) <=> i <= u
    BY <1>0, <2>1, <2>3, <2>4
  <2> QED BY <2>4, <2>5
<1>3. In(u) BY <1>2
<1>c. \A i : i \in Deletable <=> i \in Int /\ minimum <= i /\ i <= u
  <2> HIDE DEF In
  <2> QED BY <1>1, <1>2
<1>4. CASE u < minimum
  <2>1. Deletable = minimum .. minimum - 1
    <3>1. \A i : i \notin Deletable
      BY <1>0, <1>4, <1>c
    <3>2. \A i : i \notin minimum .. minimum - 1
      BY <1>0
    <3> QED BY <3>1, <3>2
  <2> QED BY <1>0, <2>1
<1>5. CASE u >= minimum
  <2>1. Deletable = minimum .. u
    <3>1. \A i : i \in minimum .. u <=> i \in Int /\ minimum <= i /\ i <= u
      BY <1>0
    <3> QED BY <1>c, <3>1
  <2>2. u <= head /\ head - u >= MinimumEvents
    BY <1>0, <1>3 DEF NewestDeletable
  <2> QED BY <1>0, <1>5, <2>1, <2>2
<1> QED BY <1>0, <1>4, <1>5

\* A pruning pass keeps the stream.
LEMMA PruneKeepsStream ==
  ASSUME StreamInv, PruneStream
  PROVE  StreamInv' /\ head' = head /\ kind' = kind
         /\ \A i \in 1 .. head : event[i] = "gone" => event'[i] = "gone"
<1>0. /\ head \in 0 .. MaxHead /\ minimum \in Nat /\ minimum >= 1 /\ minimum <= head + 1
      /\ event \in [Sequence -> {"none", "lasting", "fleeting", "purged", "gone"}]
      /\ \A i \in Sequence : event[i] = "none" <=> i > head
      /\ kind = "inbox" /\ RetainedIsContiguous
      /\ UNCHANGED <<kind, head, expired, deleting>> /\ pruner' = "none"
  BY DEF StreamInv, PruneStream, MinimumInv
<1>1. CASE pruner # "same"
  BY <1>0, <1>1 DEF PruneStream, StreamInv, MinimumInv, RetainedIsContiguous
<1>2. CASE pruner = "same"
  <2>1. PICK m \in minimum - 1 .. head :
          /\ Deletable = minimum .. m
          /\ m >= minimum => head - m >= MinimumEvents
    BY DeletableIsPrefix
  <2>2. Cardinality(minimum .. m) = m - minimum + 1
    <3>1. m \in Int /\ minimum \in Int /\ m >= minimum - 1 BY <1>0
    <3>2. Cardinality(minimum .. m) = IF minimum > m THEN 0 ELSE m - minimum + 1
      BY <3>1, FS_Interval
    <3> QED BY <3>1, <3>2
  <2>3. /\ minimum' = m + 1
        /\ event' = [i \in Sequence |-> IF i \in minimum .. m THEN "gone" ELSE event[i]]
    BY <1>0, <1>2, <2>1, <2>2 DEF PruneStream
  <2>4. m \in Int /\ m >= minimum - 1 /\ m <= head
    BY <1>0, <2>1
  <2>5. /\ event' \in [Sequence -> {"none", "lasting", "fleeting", "purged", "gone"}]
        /\ \A i \in Sequence : event'[i] = IF i \in minimum .. m THEN "gone" ELSE event[i]
    BY <1>0, <2>3
  <2>6. \A i \in Sequence : event'[i] = "none" <=> i > head
    BY <1>0, <2>4, <2>5 DEF Sequence
  <2>7. \A i \in 1 .. head : event'[i] = "gone" <=> i < m + 1
    <3> SUFFICES ASSUME NEW i \in 1 .. head
                 PROVE  event'[i] = "gone" <=> i < m + 1
      OBVIOUS
    <3>1. i \in Sequence BY <1>0 DEF Sequence
    <3>2. event[i] = "gone" <=> i < minimum BY <1>0 DEF RetainedIsContiguous
    <3> QED BY <1>0, <2>4, <2>5, <3>1, <3>2
  <2>8. RetainedIsContiguous' BY <1>0, <2>3, <2>7 DEF RetainedIsContiguous
  <2>9. MinimumInv'
    BY <1>0, <2>1, <2>3, <2>4 DEF MinimumInv, StreamInv
  <2>10. \A i \in 1 .. head : event[i] = "gone" => event'[i] = "gone"
    BY <1>0, <2>4, <2>7 DEF RetainedIsContiguous
  <2>11. minimum' \in 1 .. head' + 1
    BY <1>0, <2>3, <2>4
  <2> QED BY <1>0, <2>5, <2>6, <2>8, <2>9, <2>10, <2>11 DEF StreamInv
<1> QED BY <1>1, <1>2

\* A retention pass keeps the stream: it leaves inbox rows as tombstones.
LEMMA RetentionKeepsStream ==
  ASSUME StreamInv, RetentionPass
  PROVE  StreamInv' /\ head' = head /\ kind' = kind
         /\ \A i \in 1 .. head : event[i] = "gone" => event'[i] = "gone"
<1>0. /\ head \in 0 .. MaxHead
      /\ event \in [Sequence -> {"none", "lasting", "fleeting", "purged", "gone"}]
      /\ \A i \in Sequence : event[i] = "none" <=> i > head
      /\ UNCHANGED <<kind, head, minimum, expired, deleting, pruner>>
      /\ event' = [i \in Sequence |->
                 IF i \in Retained
                 THEN IF kind = "inbox" THEN "purged" ELSE "gone"
                 ELSE event[i]]
  BY DEF StreamInv, RetentionPass
<1>1. \A i \in Retained : i \in Sequence /\ event[i] = "fleeting"
  BY DEF Retained, FirstFleeting, Earliest, Fleeting
<1>2. /\ event' \in [Sequence -> {"none", "lasting", "fleeting", "purged", "gone"}]
      /\ \A i \in Sequence : event'[i] = "none" <=> i > head
      /\ \A i \in Sequence : event[i] = "gone" => event'[i] = "gone"
      /\ kind = "inbox" => \A i \in Sequence : event'[i] = "gone" => event[i] = "gone"
  BY <1>0, <1>1
<1>3. \A i \in 1 .. head : i \in Sequence
  BY <1>0 DEF Sequence
<1>4. RetainedIsContiguous'
  BY <1>0, <1>2, <1>3 DEF StreamInv, RetainedIsContiguous
<1> QED BY <1>0, <1>2, <1>3, <1>4 DEF StreamInv, MinimumInv
---------------------------------------------------------------------------
(***************************************************************************)
(* The client, while the table changes                                     *)
(***************************************************************************)

\* A commit is announced within the channel's bound.
LEMMA AnnounceKeepsChannel ==
  ASSUME SInv, NEW h \in Nat, head <= h, NEW i \in 0 .. h
  PROVE  /\ Announce(i) \in Connection
         /\ Announce(i).wakeups \in Seq(0 .. h) /\ Len(Announce(i).wakeups) <= Buffer
         /\ \E w, l : Announce(i) = [sub EXCEPT !.wakeups = w, !.lagged = l]
<1>0. /\ sub \in Connection /\ sub.wakeups \in Seq(0 .. head)
      /\ Len(sub.wakeups) <= Buffer /\ head \in Nat
  BY DEF SInv, ChannelInv, StreamInv
<1>1. sub.wakeups \in Seq(0 .. h)
  BY <1>0
<1> DEFINE w == sub.wakeups
<1>2. Len(w) \in Nat BY <1>0
<1>3. Append(w, i) \in Seq(0 .. h) /\ Len(Append(w, i)) = Len(w) + 1
  BY <1>1
<1>4. Len(w) > 0 => /\ Append(Tail(w), i) \in Seq(0 .. h)
                    /\ Len(Append(Tail(w), i)) = Len(w)
  <2> SUFFICES ASSUME Len(w) > 0
               PROVE  /\ Append(Tail(w), i) \in Seq(0 .. h)
                      /\ Len(Append(Tail(w), i)) = Len(w)
    OBVIOUS
  <2>1. w # <<>> BY <1>1
  <2>2. \A s \in Seq(0 .. h) : s # <<>> =>
          Tail(s) \in Seq(0 .. h) /\ Len(Tail(s)) = Len(s) - 1
    OBVIOUS
  <2>3. \A s \in Seq(0 .. h) : /\ Append(s, i) \in Seq(0 .. h)
                               /\ Len(Append(s, i)) = Len(s) + 1
    OBVIOUS
  <2>4. Tail(w) \in Seq(0 .. h) /\ Len(Tail(w)) = Len(w) - 1
    BY <1>1, <2>1, <2>2
  <2> QED BY <1>2, <2>3, <2>4
<1>5. \A s \in Seq(0 .. h) : s \in Seq(Nat)
  OBVIOUS
<1>6. ASSUME NEW s \in Seq(0 .. h), NEW l \in BOOLEAN
      PROVE  [sub EXCEPT !.wakeups = s, !.lagged = l] \in Connection
             /\ [sub EXCEPT !.wakeups = s, !.lagged = l].wakeups = s
  BY <1>0, <1>5 DEF Connection
<1>7. \/ Announce(i) = [sub EXCEPT !.wakeups = w, !.lagged = sub.lagged]
      \/ /\ Len(w) < Buffer
         /\ Announce(i) = [sub EXCEPT !.wakeups = Append(w, i), !.lagged = sub.lagged]
      \/ /\ ~(Len(w) < Buffer)
         /\ Announce(i) = [sub EXCEPT !.wakeups = Append(Tail(w), i), !.lagged = TRUE]
  BY <1>0 DEF Announce, Connection
<1>8. sub.lagged \in BOOLEAN BY <1>0 DEF Connection
<1>9. \E s \in Seq(0 .. h), l \in BOOLEAN :
        /\ Len(s) <= Buffer
        /\ Announce(i) = [sub EXCEPT !.wakeups = s, !.lagged = l]
  <2>1. CASE Announce(i) = [sub EXCEPT !.wakeups = w, !.lagged = sub.lagged]
    BY <1>0, <1>1, <1>8, <2>1
  <2>2. CASE /\ Len(w) < Buffer
             /\ Announce(i) = [sub EXCEPT !.wakeups = Append(w, i), !.lagged = sub.lagged]
    <3>1. Len(Append(w, i)) <= Buffer BY <1>2, <1>3, <2>2
    <3> HIDE DEF w
    <3> QED BY <1>3, <1>8, <2>2, <3>1
  <2>3. CASE /\ ~(Len(w) < Buffer)
             /\ Announce(i) = [sub EXCEPT !.wakeups = Append(Tail(w), i), !.lagged = TRUE]
    <3>1. Len(w) > 0 BY <1>2, <2>3
    <3>2. Len(Append(Tail(w), i)) <= Buffer BY <1>0, <1>4, <3>1
    <3> HIDE DEF w
    <3> QED BY <1>4, <2>3, <3>1, <3>2
  <2> QED BY <1>7, <2>1, <2>2, <2>3
<1>10. PICK s \in Seq(0 .. h), l \in BOOLEAN :
        /\ Len(s) <= Buffer
        /\ Announce(i) = [sub EXCEPT !.wakeups = s, !.lagged = l]
  BY <1>9
<1> QED BY ZenonT(30), <1>6, <1>10

\* Rows that come and go leave the client's place and its page as they are.
LEMMA ClientKept ==
  ASSUME SInv, NEW w, NEW l,
         sub' = sub \/ sub' = [sub EXCEPT !.wakeups = w, !.lagged = l],
         head <= head', head' \in Nat, kind' = kind, seen' = seen,
         \A i \in 1 .. head : event[i] = "gone" => event'[i] = "gone"
  PROVE  PlaceInv' /\ RowsInv' /\ PageInv'
<1>0. /\ sub \in Connection /\ head \in Nat /\ PlaceInv /\ RowsInv /\ PageInv
  BY DEF SInv, StreamInv
<1>1. /\ sub'.at = sub.at /\ sub'.from = sub.from /\ sub'.cursor = sub.cursor
      /\ sub'.target = sub.target /\ sub'.mark = sub.mark /\ sub'.page = sub.page
      /\ sub'.more = sub.more /\ sub'.first = sub.first
      /\ sub.cursor \in Nat /\ sub.target \in Nat /\ sub.mark \in Nat /\ sub.from \in Nat
  BY <1>0 DEF Connection
<1>2. PlaceInv'
  BY SMTT(30), <1>0, <1>1 DEF PlaceInv, NothingSkipped
<1>3. RowsInv'
  BY <1>0, <1>1 DEF RowsInv
<1>4. PageInv'
  <2> SUFFICES ASSUME sub.at = "deliver"
               PROVE  \E b \in Nat :
                        /\ sub.cursor < b
                        /\ sub.page = sub.cursor + 1 .. b - 1
                        /\ ~sub.more => b > sub.target \/ event'[b] = "gone"
    BY <1>1 DEF PageInv
  <2>1. PICK b \in Nat :
          /\ sub.cursor < b
          /\ sub.page = sub.cursor + 1 .. b - 1
          /\ ~sub.more => b > sub.target \/ event[b] = "gone"
    BY <1>0 DEF PageInv
  <2>2. b > sub.target \/ b \in 1 .. head
    BY SMTT(30), <1>0, <1>1, <2>1 DEF PlaceInv
  <2> QED BY <2>1, <2>2
<1> QED BY <1>2, <1>3, <1>4
---------------------------------------------------------------------------
(***************************************************************************)
(* The client's own steps                                                  *)
(***************************************************************************)

ClientInv == sub \in Connection /\ ChannelInv /\ PlaceInv /\ RowsInv /\ PageInv

\* A closed connection, and one that has just been opened, keep a cursor up to
\* which everything was seen.
LEMMA ClosedClient ==
  ASSUME head \in Nat, head' = head, NEW f \in Nat, NEW c \in Nat, f <= c, c <= head,
         \/ sub' = Closed(c) /\ f = c
         \/ sub' = [Closed(c) EXCEPT !.from = f]
         \/ sub' = [Closed(c) EXCEPT !.at = "replay", !.from = f],
         seen' = f + 1 .. c
  PROVE  ClientInv'
<1> DEFINE Fresh(a) ==
      [at |-> a, from |-> f, cursor |-> c, target |-> 0, mark |-> 0, page |-> {},
       more |-> FALSE, first |-> TRUE, wakeups |-> <<>>, lagged |-> FALSE]
<1>0. sub' = Fresh("closed") \/ sub' = Fresh("replay")
  <2>1. CASE sub' = Closed(c) /\ f = c
    BY <2>1 DEF Closed
  <2>2. CASE sub' = [Closed(c) EXCEPT !.from = f]
    BY <2>2 DEF Closed
  <2>3. CASE sub' = [Closed(c) EXCEPT !.at = "replay", !.from = f]
    BY <2>3 DEF Closed
  <2> QED BY <2>1, <2>2, <2>3
<1>1. PICK a \in {"closed", "replay"} : sub' = Fresh(a)
  BY <1>0
<1>2. \A S : <<>> \in Seq(S) /\ Len(<<>>) = 0
  OBVIOUS
<1>3. sub' \in Connection
  BY <1>1, <1>2 DEF Connection
<1>4. ChannelInv'
  BY <1>1, <1>2 DEF ChannelInv
<1>5. PlaceInv'
  BY <1>1 DEF PlaceInv, NothingSkipped
<1>6. RowsInv' /\ PageInv'
  BY <1>1 DEF RowsInv, PageInv
<1> QED BY <1>3, <1>4, <1>5, <1>6 DEF ClientInv

\* The client after a reset has seen all there is to see from its new cursor.
LEMMA ResetClient ==
  ASSUME head \in Nat, head' = head, NEW c \in Nat, c <= head, EndWithReset(c)
  PROVE  ClientInv'
<1>1. sub' = Closed(c) /\ seen' = {}
  BY DEF EndWithReset
<1>2. c <= c /\ seen' = c + 1 .. c
  BY <1>1
<1> QED BY <1>1, <1>2, ClosedClient

\* A page that was judged to have no hole is an interval after the cursor.
LEMMA ArriveKeepsClient ==
  ASSUME SInv, UNCHANGED stream, NEW mark \in Nat, mark <= head,
         ~sub.first => sub.target <= mark,
         NEW reset,
         ~reset => \A i \in RowsAfter(sub.cursor, mark) :
                     \A k \in sub.cursor + 1 .. i - 1 : k \in RowsAfter(sub.cursor, mark),
         Arrive(mark, RowsAfter(sub.cursor, mark), reset)
  PROVE  ClientInv'
<1> DEFINE kept == RowsAfter(sub.cursor, mark)
           target == IF sub.first THEN mark ELSE sub.target
<1>0. /\ sub \in Connection /\ ChannelInv /\ PlaceInv /\ head \in Nat /\ head <= MaxHead
      /\ head' = head /\ event' = event /\ kind' = kind
  BY DEF SInv, StreamInv, stream
<1>1. /\ sub.cursor \in Nat /\ sub.from \in Nat /\ sub.cursor <= head
      /\ target \in Nat /\ target <= mark
  BY <1>0 DEF Connection, PlaceInv
<1>2. CASE reset \/ (sub.first /\ mark < sub.cursor)
  <2>1. EndWithReset(target)
    BY <1>2 DEF Arrive
  <2> HIDE DEF target
  <2> QED BY <1>0, <1>1, <2>1, ResetClient
<1>3. CASE ~(reset \/ (sub.first /\ mark < sub.cursor))
  <2> DEFINE more == Cardinality(kept) > PageSize
  <2>1. /\ sub' = [sub EXCEPT !.at = "deliver", !.target = target, !.mark = 0,
                              !.page = Shown(kept), !.more = more, !.first = FALSE]
        /\ seen' = seen
    BY <1>3 DEF Arrive
  <2>2. PICK b \in Nat :
          /\ sub.cursor < b
          /\ Shown(kept) = sub.cursor + 1 .. b - 1
          /\ Cardinality(kept) <= PageSize => b > mark \/ event[b] = "gone"
    BY <1>1, <1>3, PageIsInterval
  <2>3. Cardinality(kept) \in Nat /\ kept \subseteq Sequence
    <3>1. kept \subseteq Stored(sub.cursor, mark) /\ IsFiniteSet(kept)
      BY <1>1, RowsAreStored
    <3>2. Stored(sub.cursor, mark) \subseteq Sequence
      BY <1>0, <1>1 DEF Stored, Sequence
    <3> HIDE DEF kept
    <3> QED BY <3>1, <3>2, FS_CardinalityType
  <2>4. ~more => Cardinality(kept) <= PageSize
    BY <2>3
  <2>5. Shown(kept) \in SUBSET Sequence /\ more \in BOOLEAN
    BY <2>3 DEF Shown, Earliest
  <2> HIDE DEF kept, target, more
  <2>6. /\ sub'.at = "deliver" /\ sub'.from = sub.from /\ sub'.cursor = sub.cursor
        /\ sub'.target = target /\ sub'.mark = 0 /\ sub'.page = Shown(kept)
        /\ sub'.more = more /\ sub'.wakeups = sub.wakeups
    BY <1>0, <2>1 DEF Connection
  <2>7. sub' \in Connection
    BY <1>0, <1>1, <2>1, <2>5 DEF Connection
  <2>8. ChannelInv' BY <1>0, <2>6 DEF ChannelInv
  <2>9. PlaceInv' BY <1>0, <1>1, <2>1, <2>6 DEF PlaceInv, NothingSkipped
  <2>10. RowsInv' BY <2>6 DEF RowsInv
  <2>11. PageInv'
    <3>1. ~more => b > target \/ event[b] = "gone"
      BY <1>1, <2>2, <2>4
    <3> QED BY <1>0, <2>2, <2>6, <3>1 DEF PageInv
  <2> QED BY <2>7, <2>8, <2>9, <2>10, <2>11 DEF ClientInv
<1> QED BY <1>2, <1>3

\* What an inbox page is judged by: its rows have no holes from the retained
\* minimum on.
LEMMA InboxPageHasNoHole ==
  ASSUME SInv, kind = "inbox", sub.cursor + 1 >= minimum
  PROVE  \A i \in RowsAfter(sub.cursor, head) :
           \A k \in sub.cursor + 1 .. i - 1 : k \in RowsAfter(sub.cursor, head)
<1> SUFFICES ASSUME NEW i \in RowsAfter(sub.cursor, head), NEW k \in sub.cursor + 1 .. i - 1
             PROVE  k \in RowsAfter(sub.cursor, head)
  OBVIOUS
<1>0. /\ sub.cursor \in Nat /\ head \in Nat /\ minimum \in Nat
      /\ \A j \in 1 .. head : event[j] = "gone" <=> j < minimum
  BY DEF SInv, StreamInv, Connection, RetainedIsContiguous
<1> DEFINE S == Stored(sub.cursor, head)
<1>1. /\ IsFiniteSet(S) /\ S \subseteq Nat /\ i \in S
      /\ RowsAfter(sub.cursor, head) = Earliest(S, PageSize + 1)
  BY <1>0, RowsAreStored
<1>2. i \in Nat /\ i <= head /\ k \in Nat /\ k <= i /\ sub.cursor < k
  BY <1>0, <1>1 DEF Stored
<1>3. k \in S
  BY <1>0, <1>2 DEF Stored
<1>4. PageSize + 1 \in Nat
  OBVIOUS
<1> HIDE DEF S
<1> QED BY <1>1, <1>2, <1>3, <1>4, EarliestIsClosed

\* Reading an inbox page.
LEMMA InboxPageStep ==
  ASSUME SInv, ReadInboxPage
  PROVE  ClientInv'
<1>0. /\ head \in Nat /\ sub \in Connection /\ sub.target <= head /\ UNCHANGED stream
      /\ sub.cursor \in Nat /\ minimum \in Nat
  BY DEF SInv, StreamInv, PlaceInv, ReadInboxPage, Connection
<1> DEFINE kept == RowsAfter(sub.cursor, head)
           reset == InboxReset(sub.cursor, kept)
<1>1. Arrive(head, kept, reset) /\ kind = "inbox"
  BY DEF ReadInboxPage
<1>2. ~reset => sub.cursor + 1 >= minimum
  BY <1>0 DEF InboxReset
<1> HIDE DEF reset
<1> QED BY <1>0, <1>1, <1>2, InboxPageHasNoHole, ArriveKeepsClient

\* Reading the rows of a session page.
LEMMA SessionPageStep ==
  ASSUME SInv, ReadSessionRows
  PROVE  ClientInv'
<1>0. /\ head \in Nat /\ sub \in Connection /\ UNCHANGED stream
      /\ sub.mark \in Nat /\ sub.mark <= head /\ sub.cursor <= sub.mark
      /\ sub.cursor \in Nat /\ (~sub.first => sub.target <= sub.mark)
  BY DEF SInv, StreamInv, PlaceInv, RowsInv, ReadSessionRows, Connection
<1> DEFINE kept == RowsAfter(sub.cursor, sub.mark)
           reset == SessionReset(sub.cursor, sub.mark, kept)
<1>1. Arrive(sub.mark, kept, reset)
  BY DEF ReadSessionRows
<1>2. ~reset => \A i \in kept : \A k \in sub.cursor + 1 .. i - 1 : k \in kept
  <2>1. CASE sub.cursor < sub.mark
    BY <2>1 DEF SessionReset
  <2>2. CASE ~(sub.cursor < sub.mark)
    <3>1. Stored(sub.cursor, sub.mark) = {}
      BY <1>0, <2>2 DEF Stored
    <3>2. kept = {}
      BY <1>0, <3>1, RowsAreStored
    <3> QED BY <3>2
  <2> QED BY <2>1, <2>2
<1> HIDE DEF reset
<1> QED BY <1>0, <1>1, <1>2, ArriveKeepsClient

\* The next event of a page is the one after the cursor.
LEMMA DeliverStep ==
  ASSUME SInv, DeliverEvent
  PROVE  ClientInv'
<1>0. /\ head \in Nat /\ sub \in Connection /\ ChannelInv /\ PlaceInv
      /\ UNCHANGED stream /\ sub.at = "deliver" /\ sub.page # {}
      /\ First(sub.page) <= sub.target
      /\ sub' = [sub EXCEPT !.cursor = First(sub.page), !.page = @ \ {First(sub.page)}]
      /\ seen' = seen \cup {First(sub.page)}
  BY DEF SInv, StreamInv, DeliverEvent, EventDue
<1>1. PICK b \in Nat :
        /\ sub.cursor < b
        /\ sub.page = sub.cursor + 1 .. b - 1
        /\ ~sub.more => b > sub.target \/ event[b] = "gone"
  BY <1>0 DEF SInv, PageInv
<1> DEFINE c == sub.cursor + 1
<1>2. sub.cursor \in Nat /\ sub.from \in Nat /\ sub.target \in Nat /\ c <= b - 1 /\ c \in Nat
  BY SMTT(30), <1>0, <1>1 DEF Connection
<1>3. First(sub.page) = c
  BY <1>1, <1>2, FirstOfInterval
<1>4. sub' = [sub EXCEPT !.cursor = c, !.page = sub.page \ {c}] /\ seen' = seen \cup {c}
      /\ c <= sub.target
  BY <1>0, <1>3
<1>5. /\ sub'.at = sub.at /\ sub'.from = sub.from /\ sub'.cursor = c
      /\ sub'.target = sub.target /\ sub'.mark = sub.mark /\ sub'.page = sub.page \ {c}
      /\ sub'.more = sub.more /\ sub'.wakeups = sub.wakeups /\ sub' \in Connection
  BY ZenonT(30), <1>0, <1>2, <1>4 DEF Connection
<1>6. sub.page \ {c} = c + 1 .. b - 1
  BY <1>1, <1>2
<1>7. PageInv'
  <2>1. c < b BY <1>2, <1>1
  <2>2. event' = event BY <1>0 DEF stream
  <2> QED BY <1>1, <1>5, <1>6, <2>1, <2>2 DEF PageInv
<1>8. head' = head /\ sub.target <= head BY <1>0 DEF stream, PlaceInv
<1>9. seen \cup {c} = sub.from + 1 .. c
  BY SMTT(30), <1>0, <1>2 DEF PlaceInv, NothingSkipped
<1>10. PlaceInv'
  BY SMTT(30), <1>0, <1>2, <1>4, <1>5, <1>8, <1>9 DEF PlaceInv, NothingSkipped
<1>11. ChannelInv' BY <1>0, <1>5, <1>8 DEF ChannelInv
<1>12. RowsInv' BY <1>0, <1>5 DEF RowsInv
<1> QED BY <1>5, <1>7, <1>10, <1>11, <1>12 DEF ClientInv

\* Any step of the loop that reads nothing: it leaves the place in the stream
\* and goes on in a state where no page is in hand.
LEMMA LoopKeepsClient ==
  ASSUME SInv, UNCHANGED <<kind, head>>, seen' = seen, sub' \in Connection,
         sub'.at \in {"replay", "wait"}, sub'.from = sub.from, sub'.cursor = sub.cursor,
         sub'.target \in {0, sub.target}, sub'.mark = sub.mark,
         sub'.wakeups \in Seq(0 .. head), Len(sub'.wakeups) <= Buffer
  PROVE  ClientInv'
<1>0. sub \in Connection /\ PlaceInv /\ head \in Nat
  BY DEF SInv, StreamInv
<1>1. PlaceInv'
  BY <1>0 DEF PlaceInv, NothingSkipped
<1>2. ChannelInv' BY DEF ChannelInv
<1>3. RowsInv' /\ PageInv' BY DEF RowsInv, PageInv
<1> QED BY <1>1, <1>2, <1>3 DEF ClientInv
---------------------------------------------------------------------------
(***************************************************************************)
(* Every step                                                              *)
(***************************************************************************)

\* A page used up, a wakeup, a tick: the loop goes round.
LEMMA LoopStep ==
  ASSUME SInv, PageDone \/ RecvLagged \/ Recv \/ Reauthorize
  PROVE  ClientInv'
<1>0. /\ sub \in Connection /\ ChannelInv /\ PlaceInv /\ head \in Nat
      /\ UNCHANGED <<kind, head>> /\ sub.cursor \in Nat /\ sub.from \in Nat
      /\ sub.target \in Nat /\ sub.from <= sub.cursor /\ sub.cursor <= head
      /\ sub.target <= head /\ seen = sub.from + 1 .. sub.cursor
      /\ sub.wakeups \in Seq(0 .. head) /\ Len(sub.wakeups) <= Buffer
  BY SMTT(30) DEF SInv, StreamInv, ChannelInv, PlaceInv, NothingSkipped, Connection,
         PageDone, RecvLagged, Recv, Reauthorize, stream
<1>1. ASSUME sub' \in Connection, seen' = seen,
             sub'.at \in {"replay", "wait"}, sub'.from = sub.from,
             sub'.cursor = sub.cursor, sub'.target \in {0, sub.target},
             sub'.mark = sub.mark,
             \/ sub'.wakeups = sub.wakeups
             \/ sub'.wakeups = Tail(sub.wakeups) /\ sub.wakeups # <<>>
      PROVE  ClientInv'
  <2>1. \A w \in Seq(0 .. head) : w # <<>> =>
          Tail(w) \in Seq(0 .. head) /\ Len(Tail(w)) = Len(w) - 1 /\ Len(w) \in Nat
    OBVIOUS
  <2>2. sub'.wakeups \in Seq(0 .. head) /\ Len(sub'.wakeups) <= Buffer
    <3>1. CASE sub'.wakeups = sub.wakeups
      BY <1>0, <3>1
    <3>2. CASE sub'.wakeups = Tail(sub.wakeups) /\ sub.wakeups # <<>>
      <4>1. /\ Tail(sub.wakeups) \in Seq(0 .. head) /\ Len(sub.wakeups) \in Nat
            /\ Len(Tail(sub.wakeups)) = Len(sub.wakeups) - 1
        BY <1>0, <2>1, <3>2
      <4>2. Len(Tail(sub.wakeups)) <= Buffer
        BY <1>0, <4>1
      <4> QED BY <3>2, <4>1, <4>2
    <3> QED BY <1>1, <3>1, <3>2
  <2> QED BY <1>0, <1>1, <2>2, LoopKeepsClient
<1>2. ASSUME sub' = [Closed(sub.cursor) EXCEPT !.from = sub.from], seen' = seen
      PROVE  ClientInv'
  BY <1>0, <1>2, ClosedClient
<1>3. CASE PageDone
  <2>1. CASE sub' = Listening /\ UNCHANGED seen
    <3>1. Listening \in Connection /\ Listening.at = "wait" /\ Listening.from = sub.from
          /\ Listening.cursor = sub.cursor /\ Listening.target = 0
          /\ Listening.mark = sub.mark /\ Listening.wakeups = sub.wakeups
      BY <1>0 DEF Listening, Connection
    <3>2. sub' = Listening /\ seen' = seen BY <2>1
    <3> QED BY <1>1, <3>1, <3>2
  <2>2. CASE EndWithReset(sub.target)
    BY <1>0, <2>2, ResetClient
  <2>3. CASE sub' = [sub EXCEPT !.at = "replay", !.page = {}] /\ UNCHANGED seen
    <3> DEFINE n == [sub EXCEPT !.at = "replay", !.page = {}]
    <3>1. n \in Connection /\ n.at = "replay" /\ n.from = sub.from
          /\ n.cursor = sub.cursor /\ n.target = sub.target
          /\ n.mark = sub.mark /\ n.wakeups = sub.wakeups
      BY <1>0 DEF Connection
    <3>2. sub' = n /\ seen' = seen BY <2>3
    <3> HIDE DEF n
    <3> QED BY <1>1, <3>1, <3>2
  <2> QED BY <1>3, <2>1, <2>2, <2>3 DEF PageDone
<1>4. CASE RecvLagged
  <2> DEFINE n == Replay([sub EXCEPT !.lagged = FALSE])
  <2>1. n \in Connection /\ n.at = "replay" /\ n.from = sub.from
        /\ n.cursor = sub.cursor /\ n.target = sub.target
        /\ n.mark = sub.mark /\ n.wakeups = sub.wakeups
    BY <1>0 DEF Connection, Replay
  <2>2. sub' = n /\ seen' = seen BY <1>4 DEF RecvLagged
  <2> HIDE DEF n
  <2> QED BY <1>1, <2>1, <2>2
<1>5. CASE Recv
  <2> DEFINE taken == [sub EXCEPT !.wakeups = Tail(@)]
  <2>0. sub.wakeups # <<>> /\ sub.at = "wait" BY <1>5 DEF Recv
  <2>1. Tail(sub.wakeups) \in Seq(Nat)
    <3>1. sub.wakeups \in Seq(Nat) BY <1>0 DEF Connection
    <3>2. \A w \in Seq(Nat) : w # <<>> => Tail(w) \in Seq(Nat)
      OBVIOUS
    <3> QED BY <2>0, <3>1, <3>2
  <2>2. \A n \in {taken, Replay(taken)} :
          /\ n \in Connection /\ n.at \in {"replay", "wait"} /\ n.from = sub.from
          /\ n.cursor = sub.cursor /\ n.target = sub.target
          /\ n.mark = sub.mark /\ n.wakeups = Tail(sub.wakeups)
    BY ZenonT(30), <1>0, <2>0, <2>1 DEF Connection, Replay
  <2>3. sub' \in {taken, Replay(taken)} /\ seen' = seen BY <1>5 DEF Recv
  <2> HIDE DEF taken
  <2> QED BY <1>1, <2>0, <2>2, <2>3
<1>6. CASE Reauthorize
  <2>1. CASE sub' = [Closed(sub.cursor) EXCEPT !.from = sub.from]
    BY <1>2, <1>6, <2>1 DEF Reauthorize
  <2>2. CASE sub' \in {sub, Replay(sub)}
    <3>1. \A n \in {sub, Replay(sub)} :
          /\ n \in Connection /\ n.at \in {"replay", "wait"} /\ n.from = sub.from
          /\ n.cursor = sub.cursor /\ n.target = sub.target
          /\ n.mark = sub.mark /\ n.wakeups = sub.wakeups
      BY ZenonT(30), <1>0, <1>6 DEF Connection, Replay, Reauthorize
    <3>2. seen' = seen BY <1>6 DEF Reauthorize
    <3> QED BY <1>1, <2>2, <3>1, <3>2
  <2> QED BY <1>6, <2>1, <2>2 DEF Reauthorize
<1> QED BY <1>3, <1>4, <1>5, <1>6

\* The client's steps that open, close or refuse, and the first read of a
\* session page.
LEMMA OpenStep ==
  ASSUME SInv, Connect \/ Drop \/ PageRefused \/ ReadSessionRow
  PROVE  ClientInv'
<1>0. /\ sub \in Connection /\ ChannelInv /\ PlaceInv /\ head \in Nat
      /\ UNCHANGED <<kind, head>> /\ sub.cursor \in Nat /\ sub.from \in Nat
      /\ sub.target \in Nat /\ sub.from <= sub.cursor /\ sub.cursor <= head
      /\ sub.target <= head /\ seen = sub.from + 1 .. sub.cursor
      /\ sub.wakeups \in Seq(0 .. head) /\ Len(sub.wakeups) <= Buffer
      /\ seen' = seen
  BY SMTT(30) DEF SInv, StreamInv, ChannelInv, PlaceInv, NothingSkipped, Connection,
         Connect, Drop, PageRefused, ReadSessionRow, stream
<1>1. CASE \/ sub' = [Closed(sub.cursor) EXCEPT !.from = sub.from]
           \/ sub' = [Closed(sub.cursor) EXCEPT !.at = "replay", !.from = sub.from]
  BY <1>0, <1>1, ClosedClient
<1>2. CASE ReadSessionRow /\ sub' = [sub EXCEPT !.at = "rows", !.mark = head]
  <2>1. /\ sub' \in Connection /\ sub'.at = "rows" /\ sub'.from = sub.from
        /\ sub'.cursor = sub.cursor /\ sub'.target = sub.target /\ sub'.mark = head
        /\ sub'.wakeups = sub.wakeups
    BY <1>0, <1>2 DEF Connection
  <2>2. kind' = "session" BY <1>0, <1>2 DEF ReadSessionRow
  <2>3. PlaceInv' BY <1>0, <2>1 DEF PlaceInv, NothingSkipped
  <2>4. RowsInv' /\ PageInv' BY <1>0, <2>1, <2>2 DEF RowsInv, PageInv
  <2>5. ChannelInv' BY <1>0, <2>1 DEF ChannelInv
  <2> QED BY <2>1, <2>3, <2>4, <2>5 DEF ClientInv
<1> QED BY <1>1, <1>2 DEF Connect, Drop, PageRefused, ReadSessionRow

\* The table's steps, seen from the client.
LEMMA TableStep ==
  ASSUME SInv,
         \/ \E what \in {"lasting", "fleeting"}, here \in BOOLEAN : AppendEvent(what, here)
         \/ PruneStream \/ RetentionPass
  PROVE  SInv'
<1>0. /\ StreamInv /\ sub \in Connection /\ ChannelInv /\ head \in Nat
      /\ told \in 0 .. head /\ revoked \in BOOLEAN /\ drops \in 0 .. MaxDrops
  BY DEF SInv, StreamInv
<1>1. CASE \E what \in {"lasting", "fleeting"}, here \in BOOLEAN : AppendEvent(what, here)
  <2> PICK what \in {"lasting", "fleeting"}, here \in BOOLEAN : AppendEvent(what, here)
    BY <1>1
  <2>1. StreamInv' /\ kind' = kind /\ \A i \in 1 .. head : event'[i] = event[i]
    BY <1>0, AppendKeepsStream
  <2>2. head' = head + 1 /\ UNCHANGED <<revoked, seen, drops>>
    BY DEF AppendEvent
  <2>3. \/ sub' = sub /\ told' = told
        \/ sub' = Announce(head + 1) /\ told' \in {told, head + 1}
    BY DEF AppendEvent
  <2>4. head + 1 \in Nat /\ head <= head + 1 /\ head + 1 \in 0 .. head + 1
    BY <1>0
  <2>5. /\ Announce(head + 1) \in Connection
        /\ Announce(head + 1).wakeups \in Seq(0 .. head + 1)
        /\ Len(Announce(head + 1).wakeups) <= Buffer
        /\ \E w, l : Announce(head + 1) = [sub EXCEPT !.wakeups = w, !.lagged = l]
    BY <2>4, AnnounceKeepsChannel
  <2>6. PICK w, l : Announce(head + 1) = [sub EXCEPT !.wakeups = w, !.lagged = l]
    BY <2>5
  <2>7. sub' = sub \/ sub' = [sub EXCEPT !.wakeups = w, !.lagged = l]
    BY <2>3, <2>6
  <2>8. PlaceInv' /\ RowsInv' /\ PageInv'
    BY <2>1, <2>2, <2>4, <2>7, ClientKept
  <2>9. sub' \in Connection BY <1>0, <2>3, <2>5
  <2>10. ChannelInv'
    <3>1. \A s \in Seq(0 .. head) : s \in Seq(0 .. head + 1)
      BY <1>0
    <3> QED BY <1>0, <2>2, <2>3, <2>5, <3>1 DEF ChannelInv
  <2>11. told' \in 0 .. head' BY <1>0, <2>2, <2>3
  <2> QED BY <1>0, <2>1, <2>2, <2>8, <2>9, <2>10, <2>11 DEF SInv
<1>2. CASE PruneStream \/ RetentionPass
  <2>1. /\ StreamInv' /\ head' = head /\ kind' = kind
        /\ \A i \in 1 .. head : event[i] = "gone" => event'[i] = "gone"
    BY <1>0, <1>2, PruneKeepsStream, RetentionKeepsStream
  <2>2. UNCHANGED <<revoked, sub, told, seen, drops>>
    BY <1>2 DEF PruneStream, RetentionPass
  <2>3. PlaceInv' /\ RowsInv' /\ PageInv'
    BY <1>0, <2>1, <2>2, ClientKept
  <2>4. ChannelInv' BY <1>0, <2>1, <2>2 DEF ChannelInv
  <2> QED BY <1>0, <2>1, <2>2, <2>3, <2>4 DEF SInv
<1> QED BY <1>1, <1>2

\* Wakeups of other streams, time, the deletion of the session and the start
\* of a pruning pass.
LEMMA QuietStep ==
  ASSUME SInv, OtherWakeup \/ Expire \/ DeleteSession \/ Revoke \/ PruneScan
  PROVE  SInv'
<1>0. /\ StreamInv /\ sub \in Connection /\ ChannelInv /\ head \in Nat
      /\ told \in 0 .. head /\ revoked \in BOOLEAN /\ drops \in 0 .. MaxDrops
      /\ UNCHANGED <<kind, head, minimum, event, told, seen, drops>>
  BY DEF SInv, StreamInv, OtherWakeup, Expire, DeleteSession, Revoke, PruneScan, stream
<1>p. /\ expired' \in 0 .. head /\ deleting' \in BOOLEAN /\ revoked' \in BOOLEAN
      /\ pruner' \in {"none", "same", "moved"} /\ (kind = "session" => pruner' = "none")
  <2>1. expired \in 0 .. head /\ deleting \in BOOLEAN /\ revoked \in BOOLEAN
        /\ pruner \in {"none", "same", "moved"} /\ (kind = "session" => pruner = "none")
    BY <1>0 DEF StreamInv, MinimumInv
  <2>2. CASE OtherWakeup
    BY <2>1, <2>2 DEF OtherWakeup, stream
  <2>3. CASE Expire
    BY <1>0, <2>1, <2>3 DEF Expire
  <2>4. CASE DeleteSession
    BY <2>1, <2>4 DEF DeleteSession
  <2>5. CASE Revoke
    BY <2>1, <2>5 DEF Revoke, stream
  <2>6. CASE PruneScan
    BY <2>1, <2>6 DEF PruneScan, stream
  <2> QED BY <2>2, <2>3, <2>4, <2>5, <2>6
<1>1. StreamInv'
  <2>1. RetainedIsContiguous' /\ MinimumInv'
    BY <1>0, <1>p DEF StreamInv, RetainedIsContiguous, MinimumInv
  <2> QED BY <1>0, <1>p, <2>1 DEF StreamInv
<1>2. \/ sub' = sub
      \/ sub' = Announce(0)
  BY DEF OtherWakeup, Expire, DeleteSession, Revoke, PruneScan
<1>h. head <= head /\ 0 \in 0 .. head
  BY <1>0
<1>3. /\ Announce(0) \in Connection
      /\ Announce(0).wakeups \in Seq(0 .. head) /\ Len(Announce(0).wakeups) <= Buffer
      /\ \E w, l : Announce(0) = [sub EXCEPT !.wakeups = w, !.lagged = l]
  BY <1>0, <1>h, AnnounceKeepsChannel
<1>4. PICK w, l : Announce(0) = [sub EXCEPT !.wakeups = w, !.lagged = l]
  BY <1>3
<1>5. PlaceInv' /\ RowsInv' /\ PageInv'
  <2>1. sub' = sub \/ sub' = [sub EXCEPT !.wakeups = w, !.lagged = l]
    BY <1>2, <1>4
  <2>2. head <= head' /\ head' \in Nat /\ kind' = kind /\ seen' = seen /\ event' = event
    BY <1>0, <1>h
  <2> QED BY <2>1, <2>2, ClientKept
<1>6. sub' \in Connection /\ ChannelInv'
  BY <1>0, <1>2, <1>3 DEF ChannelInv
<1> QED BY <1>0, <1>1, <1>p, <1>5, <1>6 DEF SInv

\* Every step preserves the inductive invariant.
LEMMA StepSInv ==
  ASSUME SInv, [StreamNext]_streamVars
  PROVE  SInv'
<1>1. CASE \/ Connect \/ Drop \/ ReadPage \/ PageRefused \/ DeliverEvent \/ PageDone
           \/ RecvLagged \/ Recv \/ Reauthorize
  <2>1. ClientInv'
    BY <1>1, OpenStep, InboxPageStep, SessionPageStep, DeliverStep, LoopStep DEF ReadPage
  <2>2. UNCHANGED <<stream, pruner, revoked, told>> /\ drops' \in 0 .. MaxDrops
    BY <1>1 DEF Connect, Drop, ReadPage, ReadInboxPage, ReadSessionRow, ReadSessionRows,
       PageRefused, DeliverEvent, PageDone, RecvLagged, Recv, Reauthorize, SInv
  <2>3. StreamInv'
    BY <2>2 DEF SInv, StreamInv, MinimumInv, RetainedIsContiguous, stream
  <2> QED BY <2>1, <2>2, <2>3 DEF SInv, ClientInv, stream
<1>2. CASE UNCHANGED streamVars
  BY <1>2 DEF streamVars, stream, SInv, StreamInv, MinimumInv, RetainedIsContiguous,
     ChannelInv, PlaceInv, NothingSkipped, RowsInv, PageInv
<1> QED BY <1>1, <1>2, TableStep, QuietStep DEF StreamNext

\* The empty stream and a client without a connection.
LEMMA InitSInv == StreamInit => SInv
<1> SUFFICES ASSUME StreamInit PROVE SInv OBVIOUS
<1>0. <<>> \in Seq(Nat) /\ <<>> \in Seq(0 .. head) /\ Len(<<>>) = 0
  <2>1. \A S : <<>> \in Seq(S) /\ Len(<<>>) = 0 OBVIOUS
  <2> QED BY <2>1
<1>1. StreamInv
  <2>1. /\ head = 0 /\ minimum = 1 /\ expired = 0 /\ pruner = "none"
        /\ event = [i \in Sequence |-> "none"] /\ kind \in {"inbox", "session"}
        /\ deleting = FALSE
    BY DEF StreamInit
  <2>2. \A i \in Sequence : event[i] = "none" /\ i > head
    BY <2>1 DEF Sequence
  <2>3. RetainedIsContiguous /\ MinimumInv
    BY <2>1 DEF RetainedIsContiguous, MinimumInv
  <2>4. head \in 0 .. MaxHead /\ minimum \in 1 .. head + 1 /\ expired \in 0 .. head
    BY <2>1
  <2>5. event \in [Sequence -> {"none", "lasting", "fleeting", "purged", "gone"}]
    BY <2>1
  <2> QED BY <2>1, <2>2, <2>3, <2>4, <2>5 DEF StreamInv
<1>2. sub = [at |-> "closed", from |-> 0, cursor |-> 0, target |-> 0, mark |-> 0,
             page |-> {}, more |-> FALSE, first |-> TRUE, wakeups |-> <<>>,
             lagged |-> FALSE] /\ head = 0
  BY DEF StreamInit, Closed
<1>3. sub \in Connection
  BY <1>0, <1>2 DEF Connection
<1>4. ChannelInv BY <1>0, <1>2 DEF ChannelInv
<1>5. seen = {} BY DEF StreamInit
<1>6. PlaceInv /\ RowsInv /\ PageInv
  BY <1>2, <1>5 DEF PlaceInv, NothingSkipped, RowsInv, PageInv
<1>7. revoked \in BOOLEAN /\ told \in 0 .. head /\ drops \in 0 .. MaxDrops
  <2>1. revoked = FALSE /\ told = 0 /\ drops = 0 BY DEF StreamInit
  <2>2. 0 \in 0 .. 0 /\ 0 \in 0 .. MaxDrops
    OBVIOUS
  <2>3. told \in 0 .. head BY <1>2, <2>1, <2>2
  <2>4. drops \in 0 .. MaxDrops BY <2>1, <2>2
  <2> QED BY <2>1, <2>3, <2>4
<1> QED BY <1>1, <1>3, <1>4, <1>6, <1>7 DEF SInv
---------------------------------------------------------------------------
(***************************************************************************)
(* Theorems                                                                *)
(***************************************************************************)

\* Every reachable state of a stream and its client satisfies the invariant.
THEOREM StreamInvariance == StreamSpec => []SInv
<1>1. SInv /\ [StreamNext]_streamVars => SInv'
  BY StepSInv
<1> QED BY InitSInv, <1>1, PTL DEF StreamSpec

\* The floor of the pruner's policy, counted in rows that are still there.
LEMMA FloorIsKept ==
  ASSUME SInv
  PROVE  RecentFloorIsKept
<1> SUFFICES ASSUME NEW i \in 1 .. head, i < minimum
             PROVE  Cardinality({j \in 1 .. head : event[j] # "gone"}) >= MinimumEvents
  BY DEF RecentFloorIsKept
<1>0. /\ head \in Nat /\ minimum \in Nat /\ minimum >= 1 /\ minimum <= head + 1
      /\ kind \in {"inbox", "session"} /\ RetainedIsContiguous /\ MinimumInv
  BY DEF SInv, StreamInv
<1>1. kind = "inbox" /\ head - minimum + 1 >= MinimumEvents
  BY <1>0 DEF MinimumInv
<1>2. {j \in 1 .. head : event[j] # "gone"} = minimum .. head
  <2>1. \A j \in 1 .. head : event[j] # "gone" <=> j >= minimum
    BY <1>0, <1>1 DEF RetainedIsContiguous
  <2>2. \A j \in minimum .. head : j \in 1 .. head
    BY <1>0
  <2> QED BY <1>0, <2>1, <2>2
<1>3. Cardinality(minimum .. head) = IF minimum > head THEN 0 ELSE head - minimum + 1
  <2>1. minimum \in Int /\ head \in Int BY <1>0
  <2> QED BY <2>1, FS_Interval
<1>4. ~(minimum > head) BY <1>0, <1>1
<1> QED BY <1>1, <1>2, <1>3, <1>4

\* No event goes missing: the retained rows of an inbox are contiguous and
\* include the newest, and a client has seen every event up to its cursor.
THEOREM StreamsAreUnbroken == StreamSpec => []StreamIsUnbroken
<1>1. ASSUME SInv PROVE StreamIsUnbroken
  <2>1. StreamTypeOK
    <3>1. seen \subseteq Sequence
      BY <1>1 DEF SInv, StreamInv, PlaceInv, NothingSkipped, Connection, Sequence
    <3> QED BY <1>1, <3>1 DEF SInv, StreamInv, PlaceInv, ChannelInv, Connection, StreamTypeOK
  <2>2. RetainedIsContiguous /\ NothingSkipped
    BY <1>1 DEF SInv, StreamInv, PlaceInv
  <2> QED BY <1>1, <2>1, <2>2, FloorIsKept DEF StreamIsUnbroken
<1>2. SInv => StreamIsUnbroken BY <1>1
<1> QED BY <1>2, StreamInvariance, PTL
---------------------------------------------------------------------------
(***************************************************************************)
(* Resets                                                                  *)
(***************************************************************************)

\* Something after the client's cursor is lost to it.
Loss == \E i \in sub.cursor + 1 .. head : event[i] \in {"gone", "purged"}

\* An inbox page asks for a reset only over a pruned or purged event: the row
\* before the retained minimum is one, if the cursor has not passed it.
LEMMA InboxResetHasReason ==
  ASSUME SInv, kind = "inbox",
         InboxReset(sub.cursor, RowsAfter(sub.cursor, head))
  PROVE  Loss
<1>0. /\ sub.cursor \in Nat /\ head \in Nat /\ minimum \in Nat /\ minimum <= head + 1
      /\ \A j \in 1 .. head : event[j] = "gone" <=> j < minimum
  BY DEF SInv, StreamInv, Connection, RetainedIsContiguous
<1>1. CASE sub.cursor + 1 < minimum
  <2>1. sub.cursor + 1 \in 1 .. head /\ event[sub.cursor + 1] = "gone"
    BY <1>0, <1>1
  <2> QED BY <1>0, <2>1 DEF Loss
<1>2. CASE \E i \in Shown(RowsAfter(sub.cursor, head)) : event[i] = "purged"
  <2> PICK i \in Shown(RowsAfter(sub.cursor, head)) : event[i] = "purged"
    BY <1>2
  <2>1. i \in RowsAfter(sub.cursor, head)
    BY DEF Shown, Earliest
  <2>2. i \in Stored(sub.cursor, head)
    BY <1>0, <2>1, RowsAreStored
  <2> QED BY <2>2 DEF Stored, Loss
<1> QED BY <1>1, <1>2 DEF InboxReset

\* A session page asks for a reset only over a hole, and a hole below a row it
\* read is a row that is gone.
LEMMA SessionResetHasReason ==
  ASSUME SInv, sub.at = "rows",
         SessionReset(sub.cursor, sub.mark, RowsAfter(sub.cursor, sub.mark))
  PROVE  Loss
<1>0. /\ sub.cursor \in Nat /\ head \in Nat /\ sub.mark \in Nat /\ sub.mark <= head
      /\ sub.cursor < sub.mark
  BY DEF SInv, StreamInv, Connection, PlaceInv, SessionReset
<1> DEFINE S == Stored(sub.cursor, sub.mark)
           kept == RowsAfter(sub.cursor, sub.mark)
<1>1. /\ IsFiniteSet(S) /\ S \subseteq Nat /\ kept \subseteq S
      /\ kept = Earliest(S, PageSize + 1)
  BY <1>0, RowsAreStored
<1>2. ASSUME NEW i \in sub.cursor + 1 .. sub.mark, i \notin S
      PROVE  Loss
  <2>1. event[i] = "gone" BY <1>2 DEF Stored
  <2> QED BY <1>0, <2>1 DEF Loss
<1>3. PageSize + 1 \in Nat \ {0} /\ PageSize + 1 \in Nat
  OBVIOUS
<1>4. CASE kept = {}
  <2>1. S = {}
    <3> HIDE DEF S, kept
    <3> QED BY <1>1, <1>3, <1>4, EarliestNotEmpty
  <2>2. sub.cursor + 1 \in sub.cursor + 1 .. sub.mark
    BY <1>0
  <2> HIDE DEF S
  <2> QED BY <1>2, <2>1, <2>2
<1>5. CASE \E i \in kept : \E k \in sub.cursor + 1 .. i - 1 : k \notin kept
  <2>1. PICK i \in kept : \E k \in sub.cursor + 1 .. i - 1 : k \notin kept
    BY <1>5
  <2>2. PICK k \in sub.cursor + 1 .. i - 1 : k \notin kept
    BY <2>1
  <2>3. i \in sub.cursor + 1 .. sub.mark
    BY <1>1 DEF Stored
  <2>4. k \in sub.cursor + 1 .. sub.mark /\ k <= i
    BY <1>0, <2>3
  <2> HIDE DEF S, kept
  <2>5. k \notin S
    BY <1>1, <1>3, <2>2, <2>4, EarliestIsClosed
  <2> QED BY <1>2, <2>4, <2>5
<1> QED BY <1>4, <1>5 DEF SessionReset

\* A connection moves its start only when it ends with a reset.
LEMMA ResetHasReason ==
  ASSUME SInv, [StreamNext]_streamVars, sub'.from # sub.from
  PROVE  Loss
<1>0. /\ sub \in Connection /\ head \in Nat /\ sub.cursor \in Nat /\ sub.from \in Nat
      /\ sub.cursor <= head /\ sub.target \in Nat
  BY DEF SInv, StreamInv, PlaceInv, Connection
<1>a. \A i : Announce(i).from = sub.from
  BY <1>0 DEF Announce, Connection
<1>c. /\ [Closed(sub.cursor) EXCEPT !.from = sub.from].from = sub.from
      /\ [Closed(sub.cursor) EXCEPT !.at = "replay", !.from = sub.from].from = sub.from
  BY DEF Closed
<1>1. ~\E what \in {"lasting", "fleeting"}, here \in BOOLEAN : AppendEvent(what, here)
  BY <1>a DEF AppendEvent
<1>2. ~(OtherWakeup \/ Expire \/ DeleteSession \/ Revoke)
  BY <1>a DEF OtherWakeup, Expire, DeleteSession, Revoke
<1>3. ~(PruneScan \/ PruneStream \/ RetentionPass)
  BY DEF PruneScan, PruneStream, RetentionPass
<1>4. ~(Connect \/ Drop \/ PageRefused)
  BY <1>c DEF Connect, Drop, PageRefused
<1>5. ~(DeliverEvent \/ RecvLagged)
  BY <1>0 DEF DeliverEvent, RecvLagged, Replay, Connection
<1>6. ~Recv
  BY <1>0 DEF Recv, Replay, Connection
<1>7. ~Reauthorize
  BY <1>0, <1>c DEF Reauthorize, Replay, Connection
<1>8. ~ReadSessionRow
  BY <1>0, <1>c DEF ReadSessionRow, Connection
<1>9. ASSUME NEW mark, NEW kept, NEW reset, Arrive(mark, kept, reset)
      PROVE  reset \/ (sub.first /\ mark < sub.cursor)
  BY <1>0, <1>9 DEF Arrive, Connection
<1>10. CASE ReadInboxPage
  <2>1. kind = "inbox" /\ ~(head < sub.cursor)
    BY <1>0, <1>10 DEF ReadInboxPage
  <2>2. InboxReset(sub.cursor, RowsAfter(sub.cursor, head))
    BY <1>9, <1>10, <2>1 DEF ReadInboxPage
  <2> QED BY <2>1, <2>2, InboxResetHasReason
<1>11. CASE ReadSessionRows
  <2>1. sub.at = "rows" /\ ~(sub.mark < sub.cursor)
    BY <1>0, <1>11 DEF ReadSessionRows, SInv, RowsInv, Connection
  <2>2. SessionReset(sub.cursor, sub.mark, RowsAfter(sub.cursor, sub.mark))
    BY <1>9, <1>11, <2>1 DEF ReadSessionRows
  <2> QED BY <2>1, <2>2, SessionResetHasReason
<1>12. CASE PageDone
  <2>1. /\ sub.at = "deliver" /\ sub.page = {} /\ sub.cursor < sub.target /\ ~sub.more
    <3>1. Listening.from = sub.from /\ [sub EXCEPT !.at = "replay", !.page = {}].from = sub.from
      BY <1>0 DEF Listening, Connection
    <3>2. /\ sub.at = "deliver" /\ ~sub.more
          /\ ~(sub.cursor >= sub.target \/ sub.page # {})
      BY <1>12, <3>1 DEF PageDone
    <3> QED BY <1>0, <3>2
  <2>2. PICK b \in Nat :
          /\ sub.cursor < b
          /\ sub.page = sub.cursor + 1 .. b - 1
          /\ ~sub.more => b > sub.target \/ event[b] = "gone"
    BY <2>1 DEF SInv, PageInv
  <2>3. b = sub.cursor + 1
    <3>1. sub.cursor + 1 \notin sub.cursor + 1 .. b - 1 BY <2>1, <2>2
    <3> QED BY <1>0, <2>2, <3>1
  <2>4. event[sub.cursor + 1] = "gone" /\ sub.cursor + 1 \in sub.cursor + 1 .. head
    BY <1>0, <2>1, <2>2, <2>3 DEF SInv, PlaceInv
  <2> QED BY <2>4 DEF Loss
<1>13. ~UNCHANGED streamVars
  BY DEF streamVars
<1> QED
  BY <1>1, <1>2, <1>3, <1>4, <1>5, <1>6, <1>7, <1>8, <1>10, <1>11, <1>12, <1>13
  DEF StreamNext, ReadPage

\* A subscription tells its client to load the state again only when an event
\* after the client's cursor is gone or purged.
THEOREM ResetsHaveAReason == StreamSpec => ResetOnlyForLoss
<1>1. SInv /\ [StreamNext]_streamVars =>
        [sub'.from # sub.from =>
           \E i \in sub.cursor + 1 .. head : event[i] \in {"gone", "purged"}]_streamVars
  BY ResetHasReason DEF Loss
<1> QED BY <1>1, StreamInvariance, PTL DEF StreamSpec, ResetOnlyForLoss
-----------------------------------------------------------------------------
(***************************************************************************)
(* What a fold of a conversation computes: the walk over its messages, and *)
(* Anthropic's history of them.                                            *)
(***************************************************************************)
\* Results, messages, wire messages and what the walk knows, with the ids of
\* their calls in V.
ResultOf(V) == [call : V, output : Nat]
MessageOf(V) == [role : {"user", "assistant", "tool"}, text : Seq(Char), calls : Seq(V),
                 tool : Nat, call : V, output : Nat]
WireOf(V) == [role : {"user", "assistant", "output", "tool"}, text : Seq(Char), calls : Seq(V),
              results : Seq(ResultOf(V))]
WalkOf(V) == [ok : BOOLEAN, index : Nat, expecting : BOOLEAN, pending : Seq(V), ids : SUBSET V,
              turns : Nat, tools : SUBSET Nat,
              evidence : Seq([turn : Nat, call : V, output : Nat])]
WalkStart == [ok |-> TRUE, index |-> 0, expecting |-> FALSE, pending |-> <<>>, ids |-> {},
              turns |-> 0, tools |-> {}, evidence |-> <<>>]

\* A run takes a step of h for each element of t.
Steps(v, t, base, h) == v[0] = base /\ \A i \in 1..Len(t) : v[i] = h[v[i - 1], t[i]]

\* A function over sets of indices that folds h.
LEMMA FoldWitness ==
  ASSUME NEW A, NEW M, NEW base \in A, NEW h \in [A \X M -> A], NEW t \in Seq(M)
  PROVE  \E it \in [SUBSET DOMAIN t -> A] :
            /\ it[{}] = base
            /\ \A S \in SUBSET DOMAIN t : S # {} =>
                  it[S] = h[it[S \ {Max(S)}], t[Max(S)]] /\ Max(S) \in DOMAIN t
<1> DEFINE n == Len(t)
           g == [p \in (1..n) \X A |-> h[p[2], t[p[1]]]]
<1>1. n \in Nat /\ DOMAIN t = 1..n /\ \A i \in 1..n : t[i] \in M
  OBVIOUS
<1>2. g \in [(1..n) \X A -> A]
  BY <1>1
<1>3. \A i \in 1..n, a \in A : g[i, a] = h[a, t[i]]
  BY <1>1
<1> HIDE DEF g, n
<1>4. PICK it \in [SUBSET (1..n) -> A] : Folding(it, n, base, g)
  BY <1>1, <1>2, FoldExists
<1>5. it[{}] = base
  BY <1>4 DEF Folding
<1>6. ASSUME NEW S \in SUBSET (1..n), S # {}
      PROVE  it[S] = h[it[S \ {Max(S)}], t[Max(S)]] /\ Max(S) \in 1..n
  <2>1. Max(S) \in S
    BY <1>1, <1>6, LastIndex
  <2>2. Max(S) \in 1..n /\ it[S \ {Max(S)}] \in A
    BY <1>4, <2>1
  <2>3. it[S] = g[Max(S), it[S \ {Max(S)}]]
    BY <1>4, <1>6 DEF Folding
  <2> QED BY <1>3, <2>2, <2>3
<1> QED
  BY <1>1, <1>4, <1>5, <1>6

Goes(v, w, t, m, h) == w[Len(Append(t, m))] = h[v[Len(t)], m]

\* The runs over a sequence and over the same with one element more.
LEMMA StepsMore ==
  ASSUME NEW A, NEW M, NEW base, NEW h \in [A \X M -> A], NEW t \in Seq(M), NEW m \in M,
         NEW v, NEW w, Steps(v, t, base, h), Steps(w, Append(t, m), base, h)
  PROVE  Goes(v, w, t, m, h)
<1> DEFINE n == Len(t)
           u == Append(t, m)
<1>1. n \in Nat /\ Len(u) = n + 1 /\ u[n + 1] = m /\ \A i \in 1..n : u[i] = t[i] /\ i \in 1..(n + 1)
  OBVIOUS
<1> HIDE DEF n, u
<1>2. v[0] = base /\ w[0] = base
  BY DEF Steps
<1>3. \A i \in 1..n : v[i - 1] = w[i - 1] => v[i] = w[i]
  BY <1>1 DEF Steps, n, u
<1>4. v[n] = w[n]
  <2>1. Alike(v, w, n)
    BY <1>2, <1>3 DEF Alike
  <2>2. n \in 0..n
    BY <1>1
  <2> QED BY <1>1, <2>1, <2>2, SameRun
<1>5. w[n + 1] = h[w[n], m]
  <2>1. n + 1 \in 1..Len(u) /\ (n + 1) - 1 = n
    BY <1>1
  <2> QED BY <1>1, <2>1 DEF Steps, u
<1> QED
  BY <1>1, <1>4, <1>5 DEF n, u, Goes

\* A step of the walk.
LEMMA WalkStepIs ==
  ASSUME NEW V, NEW a \in WalkOf(V), NEW m \in MessageOf(V)
  PROVE  WalkMessage(a, m) \in WalkOf(V)
<1> DEFINE T == [turn : Nat, call : V, output : Nat]
           x == [turn |-> a.turns, call |-> m.call, output |-> m.output]
<1>1. /\ a.turns \in Nat /\ a.index \in Nat /\ a.ids \subseteq V /\ a.tools \subseteq Nat
      /\ a.pending \in Seq(V) /\ a.evidence \in Seq(T)
      /\ m.calls \in Seq(V) /\ m.call \in V /\ m.output \in Nat /\ m.tool \in Nat
  BY DEF WalkOf, MessageOf
<1>2. Append(a.evidence, x) \in Seq(T)
  <2>1. x \in T
    BY <1>1
  <2> HIDE DEF T, x
  <2> QED BY <1>1, <2>1
<1>3. a.ids \cup Range(m.calls) \subseteq V
  <2>1. \A s \in Seq(V) : Range(s) \subseteq V
    BY DEF Range
  <2> QED BY <1>1, <2>1
<1>4. a.pending # <<>> => Tail(a.pending) \in Seq(V)
  <2>1. \A s \in Seq(V) : s # <<>> => Tail(s) \in Seq(V)
    OBVIOUS
  <2> QED BY <1>1, <2>1
<1> DEFINE ids == a.ids \cup Range(m.calls)
           ev == Append(a.evidence, x)
<1> HIDE DEF T, x, ids, ev
<1> DEFINE R == [ok : BOOLEAN, index : Nat, expecting : BOOLEAN, pending : Seq(V), ids : SUBSET V,
                 turns : Nat, tools : SUBSET Nat, evidence : Seq(T)]
<1>5. a \in R
  BY DEF WalkOf, T
<1>6. CASE m.role = "user" /\ a.index = 0
  BY <1>5, <1>6 DEF WalkMessage, WalkOf, T
<1>7. CASE /\ m.role = "assistant" /\ a.expecting /\ m.calls # <<>>
           /\ Range(m.calls) \cap a.ids = {} /\ IsInjective(m.calls)
  <2>1. WalkMessage(a, m) = [a EXCEPT !.index = @ + 1, !.expecting = FALSE, !.pending = m.calls,
                                      !.ids = ids, !.turns = @ + 1, !.tools = @ \cup {m.tool}]
    BY <1>7 DEF WalkMessage, ids
  <2>2. ids \in SUBSET V /\ a.tools \cup {m.tool} \in SUBSET Nat /\ a.index + 1 \in Nat /\ a.turns + 1 \in Nat
    BY <1>1, <1>3 DEF ids
  <2>3. WalkMessage(a, m) \in R
    BY ONLY <1>1, <1>5, <2>1, <2>2 DEF R
  <2> QED BY <2>3 DEF WalkOf, T, R
<1>8. CASE /\ m.role = "tool" /\ ~a.expecting /\ a.pending # <<>> /\ m.call = Head(a.pending)
  <2>1. WalkMessage(a, m) = [a EXCEPT !.index = @ + 1, !.pending = Tail(@),
                                      !.expecting = Len(a.pending) = 1, !.evidence = ev]
    BY <1>8 DEF WalkMessage, ev, x
  <2>2. ev \in Seq(T) /\ Tail(a.pending) \in Seq(V) /\ a.index + 1 \in Nat /\ (Len(a.pending) = 1) \in BOOLEAN
    BY <1>1, <1>2, <1>4, <1>8 DEF ev
  <2>3. WalkMessage(a, m) \in R
    BY ONLY <1>1, <1>5, <2>1, <2>2 DEF R
  <2> QED BY <2>3 DEF WalkOf, T, R
<1>9. CASE /\ ~(m.role = "user" /\ a.index = 0)
           /\ ~(/\ m.role = "assistant" /\ a.expecting /\ m.calls # <<>>
                /\ Range(m.calls) \cap a.ids = {} /\ IsInjective(m.calls))
           /\ ~(/\ m.role = "tool" /\ ~a.expecting /\ a.pending # <<>> /\ m.call = Head(a.pending))
  <2>1. WalkMessage(a, m) = [a EXCEPT !.ok = FALSE]
    BY <1>9 DEF WalkMessage
  <2> QED BY <1>5, <2>1 DEF WalkOf, T
<1> QED
  BY <1>6, <1>7, <1>8, <1>9

\* The walk takes a step per message.
LEMMA WalkRun ==
  ASSUME NEW V, NEW t \in Seq(MessageOf(V))
  PROVE  LET A == WalkOf(V)
             h == [p \in A \X MessageOf(V) |-> WalkMessage(p[1], p[2])]
         IN \E v : Steps(v, t, WalkStart, h) /\ Walk(t) = v[Len(t)] /\ Walk(t) \in A
<1> DEFINE A == WalkOf(V)
           M == MessageOf(V)
           h == [p \in A \X M |-> WalkMessage(p[1], p[2])]
           n == Len(t)
           P(f) == f = [S \in SUBSET DOMAIN t |->
                          IF S = {} THEN WalkStart ELSE WalkMessage(f[S \ {Max(S)}], t[Max(S)])]
           j == CHOOSE f : P(f)
<1>0. WalkStart \in A
  <2> DEFINE T == [turn : Nat, call : V, output : Nat]
  <2>1. <<>> \in Seq(T) /\ <<>> \in Seq(V) /\ {} \in SUBSET V /\ {} \in SUBSET Nat
    OBVIOUS
  <2> HIDE DEF T
  <2> QED BY <2>1 DEF WalkStart, WalkOf, T
<1>1. WalkStart \in A /\ \A a \in A, m \in M : WalkMessage(a, m) \in A
  BY <1>0, WalkStepIs
<1> HIDE DEF A, M
<1>2. h \in [A \X M -> A] /\ \A a \in A, m \in M : h[a, m] = WalkMessage(a, m)
  BY <1>1
<1>3. n \in Nat /\ DOMAIN t = 1..n /\ \A i \in 1..n : t[i] \in M
  <2>1. t \in Seq(M)
    BY DEF M
  <2> QED BY <2>1
<1> HIDE DEF h
<1>4. PICK it \in [SUBSET DOMAIN t -> A] :
            /\ it[{}] = WalkStart
            /\ \A S \in SUBSET DOMAIN t : S # {} =>
                  it[S] = h[it[S \ {Max(S)}], t[Max(S)]] /\ Max(S) \in DOMAIN t
  <2>1. t \in Seq(M)
    BY DEF M
  <2> QED BY <1>1, <1>2, <2>1, FoldWitness
<1>5. P(it)
  <2>1. ASSUME NEW S \in SUBSET DOMAIN t, S # {}
        PROVE  it[S] = WalkMessage(it[S \ {Max(S)}], t[Max(S)])
    <3>1. it[S \ {Max(S)}] \in A /\ t[Max(S)] \in M
      BY <1>3, <1>4, <2>1
    <3> QED BY <1>2, <1>4, <2>1, <3>1
  <2> QED BY <1>4, <2>1
<1>6. P(j)
  <2> HIDE DEF P
  <2> QED BY <1>5
<1>7. Walk(t) = j[DOMAIN t]
  BY ZenonT(30) DEF Walk, FoldLeft, MapThenFoldSet, WalkStart
<1> HIDE DEF j, n
<1> DEFINE v == [i \in 0..n |-> j[1..i]]
<1>8. v[0] = WalkStart /\ \A i \in 1..n : v[i] = WalkMessage(v[i - 1], t[i])
  <2>1. 1..0 = {} /\ 0 \in 0..n
    BY <1>3
  <2>2. ASSUME NEW i \in 1..n PROVE v[i] = WalkMessage(v[i - 1], t[i])
    <3>1. /\ 1..i \in SUBSET (1..n) /\ 1..i # {} /\ Max(1..i) = i
          /\ (1..i) \ {i} = 1..(i - 1) /\ i - 1 \in 0..n /\ i \in 0..n
      BY <1>3, FirstIndices
    <3> QED BY <1>3, <1>6, <3>1
  <2> QED BY <1>6, <2>1, <2>2
<1> HIDE DEF v
<1>9. \A i \in 0..n : v[i] \in A
  <2> DEFINE G == {i \in Nat : i <= n => v[i] \in A}
  <2>1. 0 \in G
    BY <1>1, <1>8
  <2>2. ASSUME NEW i \in Nat, i \in G PROVE i + 1 \in G
    <3> SUFFICES ASSUME i + 1 <= n PROVE v[i + 1] \in A
      OBVIOUS
    <3>1. i + 1 \in 1..n /\ (i + 1) - 1 = i /\ v[i] \in A /\ t[i + 1] \in M
      BY <1>3, <2>2
    <3> QED BY <1>1, <1>8, <3>1
  <2>3. \A i \in Nat : i \in G
    <3> HIDE DEF G
    <3> QED BY <2>1, <2>2, CountingUp
  <2> QED BY <1>3, <2>3
<1>10. Walk(t) = v[n] /\ v[n] \in A
  <2>1. n \in 0..n
    BY <1>3
  <2> QED BY <1>3, <1>7, <1>9, <2>1 DEF v
<1>11. Steps(v, t, WalkStart, h)
  <2>1. ASSUME NEW i \in 1..n PROVE v[i] = h[v[i - 1], t[i]]
    <3>1. i - 1 \in 0..n
      BY <1>3
    <3> QED BY <1>2, <1>3, <1>8, <1>9, <3>1
  <2> QED BY <1>8, <2>1 DEF Steps, n
<1> QED
  BY <1>10, <1>11 DEF A, M, h, n

\* The walk over one message more.
LEMMA WalkAppends ==
  ASSUME NEW V, NEW q \in Seq(MessageOf(V)), NEW m \in MessageOf(V)
  PROVE  /\ Walk(q) \in WalkOf(V) /\ Walk(<<>>) = WalkStart
         /\ Walk(Append(q, m)) = WalkMessage(Walk(q), m)
<1> DEFINE A == WalkOf(V)
           M == MessageOf(V)
           h == [p \in A \X M |-> WalkMessage(p[1], p[2])]
<1>1. \A t \in Seq(M) : \E v : Steps(v, t, WalkStart, h) /\ Walk(t) = v[Len(t)] /\ Walk(t) \in A
  BY WalkRun
<1>2. \A a \in A, z \in M : WalkMessage(a, z) \in A
  BY WalkStepIs
<1> HIDE DEF A, M
<1>3. h \in [A \X M -> A] /\ \A a \in A, z \in M : h[a, z] = WalkMessage(a, z)
  BY <1>2
<1> HIDE DEF h
<1>4. q \in Seq(M) /\ m \in M /\ Append(q, m) \in Seq(M) /\ <<>> \in Seq(M)
  BY DEF M
<1>5. PICK v : Steps(v, q, WalkStart, h) /\ Walk(q) = v[Len(q)] /\ Walk(q) \in A
  BY <1>1, <1>4
<1>6. PICK w : Steps(w, Append(q, m), WalkStart, h) /\ Walk(Append(q, m)) = w[Len(Append(q, m))]
  BY <1>1, <1>4
<1>7. w[Len(Append(q, m))] = h[v[Len(q)], m]
  <2>1. Goes(v, w, q, m, h)
    BY <1>3, <1>4, <1>5, <1>6, StepsMore
  <2> QED BY <2>1 DEF Goes
<1>8. Walk(<<>>) = WalkStart
  <2>1. PICK u : Steps(u, <<>>, WalkStart, h) /\ Walk(<<>>) = u[Len(<<>>)]
    BY <1>1, <1>4
  <2> QED BY <2>1 DEF Steps
<1> QED
  BY <1>3, <1>4, <1>5, <1>6, <1>7, <1>8 DEF A

\* A step of Anthropic's history.
LEMMA HistoryStepIs ==
  ASSUME NEW V, NEW a \in Seq(WireOf(V)), NEW m \in MessageOf(V)
  PROVE  AnthropicMessage(a, m) \in Seq(WireOf(V))
<1> DEFINE W == WireOf(V)
           R == ResultOf(V)
           r == WireResult(m)
<1>1. m.calls \in Seq(V) /\ m.call \in V /\ m.output \in Nat /\ m.text \in Seq(Char)
      /\ m.role \in {"user", "assistant", "tool"}
  <2> HIDE DEF Char
  <2> QED BY DEF MessageOf
<1>2. r \in R
  BY <1>1 DEF WireResult, ResultOf
<1>3. /\ W = [role : {"user", "assistant", "output", "tool"}, text : Seq(Char), calls : Seq(V), results : Seq(R)]
      /\ <<>> \in Seq(Char) /\ <<>> \in Seq(V) /\ <<>> \in Seq(R)
  BY DEF WireOf
<1> HIDE DEF R, r, Char
<1>4. <<r>> \in Seq(R) /\ \A s \in Seq(R) : Append(s, r) \in Seq(R)
  BY <1>2
<1>5. WireUser \in W /\ WireAnswer(m) \in W /\ Wire("user", <<>>, <<>>, <<r>>) \in W
  <2> HIDE DEF W
  <2> QED BY <1>1, <1>3, <1>4 DEF WireUser, WireAnswer, Wire
<1>6. a \in Seq(W)
  OBVIOUS
<1> DEFINE more == [a EXCEPT ![Len(a)].results = Append(@, r)]
<1> HIDE DEF W
<1>7. more \in Seq(W)
  <2>1. Len(a) \in Nat /\ DOMAIN a = 1..Len(a) /\ \A i \in 1..Len(a) : a[i] \in W
    BY <1>6
  <2>2. ASSUME NEW w \in W PROVE [w EXCEPT !.results = Append(@, r)] \in W
    BY <1>3, <1>4
  <2>3. more = [i \in 1..Len(a) |-> IF i = Len(a) THEN [a[i] EXCEPT !.results = Append(@, r)] ELSE a[i]]
    BY <2>1
  <2> HIDE DEF more
  <2>4. more \in [1..Len(a) -> W]
    BY <2>1, <2>2, <2>3
  <2> QED BY <2>1, <2>4
<1>8. \A w \in W : Append(a, w) \in Seq(W)
  BY <1>6
<1> HIDE DEF more
<1>9. AnthropicMessage(a, m) \in {Append(a, WireUser), Append(a, WireAnswer(m)),
                                  more, Append(a, Wire("user", <<>>, <<>>, <<r>>))}
  BY <1>1 DEF AnthropicMessage, more, r
<1> QED
  BY <1>5, <1>7, <1>8, <1>9 DEF W

\* Anthropic's history takes a step per message.
LEMMA HistoryRun ==
  ASSUME NEW V, NEW t \in Seq(MessageOf(V))
  PROVE  LET A == Seq(WireOf(V))
             h == [p \in A \X MessageOf(V) |-> AnthropicMessage(p[1], p[2])]
         IN \E v : Steps(v, t, <<>>, h) /\ AnthropicHistory(t) = v[Len(t)] /\ AnthropicHistory(t) \in A
<1> DEFINE A == Seq(WireOf(V))
           M == MessageOf(V)
           h == [p \in A \X M |-> AnthropicMessage(p[1], p[2])]
           n == Len(t)
           P(f) == f = [S \in SUBSET DOMAIN t |->
                          IF S = {} THEN <<>> ELSE AnthropicMessage(f[S \ {Max(S)}], t[Max(S)])]
           j == CHOOSE f : P(f)
<1>1. <<>> \in A /\ \A a \in A, m \in M : AnthropicMessage(a, m) \in A
  BY HistoryStepIs
<1> HIDE DEF A, M
<1>2. h \in [A \X M -> A] /\ \A a \in A, m \in M : h[a, m] = AnthropicMessage(a, m)
  BY <1>1
<1>3. n \in Nat /\ DOMAIN t = 1..n /\ \A i \in 1..n : t[i] \in M
  <2>1. t \in Seq(M)
    BY DEF M
  <2> QED BY <2>1
<1> HIDE DEF h
<1>4. PICK it \in [SUBSET DOMAIN t -> A] :
            /\ it[{}] = <<>>
            /\ \A S \in SUBSET DOMAIN t : S # {} =>
                  it[S] = h[it[S \ {Max(S)}], t[Max(S)]] /\ Max(S) \in DOMAIN t
  <2>1. t \in Seq(M)
    BY DEF M
  <2> QED BY <1>1, <1>2, <2>1, FoldWitness
<1>5. P(it)
  <2>1. ASSUME NEW S \in SUBSET DOMAIN t, S # {}
        PROVE  it[S] = AnthropicMessage(it[S \ {Max(S)}], t[Max(S)])
    <3>1. it[S \ {Max(S)}] \in A /\ t[Max(S)] \in M
      BY <1>3, <1>4, <2>1
    <3> QED BY <1>2, <1>4, <2>1, <3>1
  <2> QED BY <1>4, <2>1
<1>6. P(j)
  <2> HIDE DEF P
  <2> QED BY <1>5
<1>7. AnthropicHistory(t) = j[DOMAIN t]
  BY ZenonT(30) DEF AnthropicHistory, FoldLeft, MapThenFoldSet
<1> HIDE DEF j, n
<1> DEFINE v == [i \in 0..n |-> j[1..i]]
<1>8. v[0] = <<>> /\ \A i \in 1..n : v[i] = AnthropicMessage(v[i - 1], t[i])
  <2>1. 1..0 = {} /\ 0 \in 0..n
    BY <1>3
  <2>2. ASSUME NEW i \in 1..n PROVE v[i] = AnthropicMessage(v[i - 1], t[i])
    <3>1. /\ 1..i \in SUBSET (1..n) /\ 1..i # {} /\ Max(1..i) = i
          /\ (1..i) \ {i} = 1..(i - 1) /\ i - 1 \in 0..n /\ i \in 0..n
      BY <1>3, FirstIndices
    <3> QED BY <1>3, <1>6, <3>1
  <2> QED BY <1>6, <2>1, <2>2
<1> HIDE DEF v
<1>9. \A i \in 0..n : v[i] \in A
  <2> DEFINE G == {i \in Nat : i <= n => v[i] \in A}
  <2>1. 0 \in G
    BY <1>1, <1>8
  <2>2. ASSUME NEW i \in Nat, i \in G PROVE i + 1 \in G
    <3> SUFFICES ASSUME i + 1 <= n PROVE v[i + 1] \in A
      OBVIOUS
    <3>1. i + 1 \in 1..n /\ (i + 1) - 1 = i /\ v[i] \in A /\ t[i + 1] \in M
      BY <1>3, <2>2
    <3> QED BY <1>1, <1>8, <3>1
  <2>3. \A i \in Nat : i \in G
    <3> HIDE DEF G
    <3> QED BY <2>1, <2>2, CountingUp
  <2> QED BY <1>3, <2>3
<1>10. AnthropicHistory(t) = v[n] /\ v[n] \in A
  <2>1. n \in 0..n
    BY <1>3
  <2> QED BY <1>3, <1>7, <1>9, <2>1 DEF v
<1>11. Steps(v, t, <<>>, h)
  <2>1. ASSUME NEW i \in 1..n PROVE v[i] = h[v[i - 1], t[i]]
    <3>1. i - 1 \in 0..n
      BY <1>3
    <3> QED BY <1>2, <1>3, <1>8, <1>9, <3>1
  <2> QED BY <1>8, <2>1 DEF Steps, n
<1> QED
  BY <1>10, <1>11 DEF A, M, h, n

\* The history of one message more.
LEMMA HistoryAppends ==
  ASSUME NEW V, NEW q \in Seq(MessageOf(V)), NEW m \in MessageOf(V)
  PROVE  /\ AnthropicHistory(q) \in Seq(WireOf(V)) /\ AnthropicHistory(<<>>) = <<>>
         /\ AnthropicHistory(Append(q, m)) = AnthropicMessage(AnthropicHistory(q), m)
<1> DEFINE A == Seq(WireOf(V))
           M == MessageOf(V)
           h == [p \in A \X M |-> AnthropicMessage(p[1], p[2])]
<1>1. \A t \in Seq(M) : \E v : Steps(v, t, <<>>, h) /\ AnthropicHistory(t) = v[Len(t)] /\ AnthropicHistory(t) \in A
  BY HistoryRun
<1>2. \A a \in A, z \in M : AnthropicMessage(a, z) \in A
  BY HistoryStepIs
<1> HIDE DEF A, M
<1>3. h \in [A \X M -> A] /\ \A a \in A, z \in M : h[a, z] = AnthropicMessage(a, z)
  BY <1>2
<1> HIDE DEF h
<1>4. q \in Seq(M) /\ m \in M /\ Append(q, m) \in Seq(M) /\ <<>> \in Seq(M)
  BY DEF M
<1>5. PICK v : Steps(v, q, <<>>, h) /\ AnthropicHistory(q) = v[Len(q)] /\ AnthropicHistory(q) \in A
  BY <1>1, <1>4
<1>6. PICK w : Steps(w, Append(q, m), <<>>, h) /\ AnthropicHistory(Append(q, m)) = w[Len(Append(q, m))]
  BY <1>1, <1>4
<1>7. w[Len(Append(q, m))] = h[v[Len(q)], m]
  <2>1. Goes(v, w, q, m, h)
    BY <1>3, <1>4, <1>5, <1>6, StepsMore
  <2> QED BY <2>1 DEF Goes
<1>8. AnthropicHistory(<<>>) = <<>>
  <2>1. PICK u : Steps(u, <<>>, <<>>, h) /\ AnthropicHistory(<<>>) = u[Len(<<>>)]
    BY <1>1, <1>4
  <2> QED BY <2>1 DEF Steps
<1> QED
  BY <1>3, <1>4, <1>5, <1>6, <1>7, <1>8 DEF A

\* Sequences of one element each, put together.
LEMMA Singles ==
  ASSUME NEW T, NEW o \in Seq(T)
  PROVE  FlattenSeq([i \in 1..Len(o) |-> <<o[i]>>]) = o
<1> DEFINE ss == [i \in 1..Len(o) |-> <<o[i]>>]
           n == Len(o)
<1>1. /\ ss \in Seq(Seq(T)) /\ Len(ss) = n /\ n \in Nat
      /\ \A i \in 1..n : ss[i] = <<o[i]>> /\ o[i] \in T
  OBVIOUS
<1> HIDE DEF ss, n
<1>2. PICK v : /\ Joins(v, ss) /\ FlattenSeq(ss) = v[n] /\ \A i \in 0..n : v[i] \in Seq(T)
  BY <1>1, FlattenRun
<1>3. \A i \in 0..n : v[i] = SubSeq(o, 1, i)
  <2> DEFINE G == {i \in Nat : i <= n => v[i] = SubSeq(o, 1, i)}
  <2>1. 0 \in G
    BY <1>2, Firsts DEF Joins
  <2>2. ASSUME NEW i \in Nat, i \in G PROVE i + 1 \in G
    <3> SUFFICES ASSUME i + 1 <= n PROVE v[i + 1] = SubSeq(o, 1, i + 1)
      OBVIOUS
    <3>1. i + 1 \in 1..n /\ (i + 1) - 1 = i /\ v[i] = SubSeq(o, 1, i) /\ i \in 0..n
      BY <1>1, <2>2
    <3>2. v[i + 1] = v[i] \o <<o[i + 1]>>
      BY <1>1, <1>2, <3>1 DEF Joins
    <3>3. SubSeq(o, 1, i) \in Seq(T) /\ SubSeq(o, 1, i + 1) = Append(SubSeq(o, 1, i), o[i + 1])
      BY <3>1, Firsts DEF n
    <3>4. \A s \in Seq(T), x \in T : s \o <<x>> = Append(s, x)
      OBVIOUS
    <3> QED BY <1>1, <3>1, <3>2, <3>3, <3>4
  <2>3. \A i \in Nat : i \in G
    <3> HIDE DEF G
    <3> QED BY <2>1, <2>2, CountingUp
  <2> QED BY <1>1, <2>3
<1>4. v[n] = SubSeq(o, 1, n) /\ SubSeq(o, 1, n) = o
  <2>1. n \in 0..n
    BY <1>1
  <2> QED BY <1>3, <2>1, Firsts DEF n
<1> QED
  BY <1>2, <1>4 DEF ss

-----------------------------------------------------------------------------
\* The messages of a conversation, and what is sent for them.
UserIs(V) == UserMessage \in MessageOf(V) /\ UserMessage.role = "user"
Tools(rs) == [i \in 1..Len(rs) |-> ToolMessage(rs[i])]
Outputs(rs) == [i \in 1..Len(rs) |-> rs[i].output]
OutputIn(m) == IF m.role = "tool" THEN <<m.output>> ELSE <<>>
ToolOutputs(q) == FlattenSeq([i \in 1..Len(q) |-> OutputIn(q[i])])
WireOutputs(s) == FlattenSeq([i \in 1..Len(s) |-> Outputs(s[i].results)])
OllamaOf(q) == [i \in 1..Len(q) |-> OllamaMessage(q[i])]

\* The fields of the messages.
LEMMA MessagesAre ==
  ASSUME NEW V, 0 \in V
  PROVE  /\ UserIs(V)
         /\ \A text \in Seq(Char), calls \in Seq(V), tl \in Nat :
               LET m == AssistantMessage(text, calls, tl)
               IN m \in MessageOf(V) /\ m.role = "assistant" /\ m.text = text /\ m.calls = calls /\ m.tool = tl
         /\ \A r \in ResultOf(V) :
               LET m == ToolMessage(r)
               IN m \in MessageOf(V) /\ m.role = "tool" /\ m.call = r.call /\ m.output = r.output
<1>1. <<>> \in Seq(Char) /\ <<>> \in Seq(V)
  OBVIOUS
<1>2. UserIs(V)
  BY <1>1 DEF UserIs, UserMessage, Message, MessageOf
<1>3. ASSUME NEW text \in Seq(Char), NEW calls \in Seq(V), NEW tl \in Nat
      PROVE  LET m == AssistantMessage(text, calls, tl)
             IN m \in MessageOf(V) /\ m.role = "assistant" /\ m.text = text /\ m.calls = calls /\ m.tool = tl
  <2> HIDE DEF Char
  <2> QED BY DEF AssistantMessage, Message, MessageOf
<1>4. ASSUME NEW r \in ResultOf(V)
      PROVE  LET m == ToolMessage(r)
             IN m \in MessageOf(V) /\ m.role = "tool" /\ m.call = r.call /\ m.output = r.output
  <2>1. r.call \in V /\ r.output \in Nat
    BY DEF ResultOf
  <2> HIDE DEF Char
  <2> QED BY <1>1, <2>1 DEF ToolMessage, Message, MessageOf
<1> QED
  BY <1>2, <1>3, <1>4

\* The results of a turn as messages.
LEMMA ToolsAre ==
  ASSUME NEW V, 0 \in V, NEW rs \in Seq(ResultOf(V))
  PROVE  /\ Tools(rs) \in Seq(MessageOf(V)) /\ Len(Tools(rs)) = Len(rs) /\ Len(rs) \in Nat
         /\ Outputs(rs) \in Seq(Nat) /\ Len(Outputs(rs)) = Len(rs)
         /\ \A i \in 1..Len(rs) :
               /\ rs[i] \in ResultOf(V) /\ rs[i].call \in V /\ rs[i].output \in Nat
               /\ Tools(rs)[i] = ToolMessage(rs[i]) /\ Outputs(rs)[i] = rs[i].output
<1> DEFINE R == ResultOf(V)
           M == MessageOf(V)
<1>1. \A r \in R : r.call \in V /\ r.output \in Nat /\ ToolMessage(r) \in M
  BY MessagesAre DEF ResultOf
<1>2. rs \in Seq(R)
  OBVIOUS
<1> HIDE DEF R, M
<1>3. Len(rs) \in Nat /\ \A i \in 1..Len(rs) : rs[i] \in R
  BY <1>2
<1>4. Tools(rs) \in Seq(M) /\ Len(Tools(rs)) = Len(rs) /\ \A i \in 1..Len(rs) : Tools(rs)[i] = ToolMessage(rs[i])
  BY <1>1, <1>3 DEF Tools
<1>5. Outputs(rs) \in Seq(Nat) /\ Len(Outputs(rs)) = Len(rs) /\ \A i \in 1..Len(rs) : Outputs(rs)[i] = rs[i].output
  BY <1>1, <1>3 DEF Outputs
<1> QED
  BY <1>1, <1>3, <1>4, <1>5 DEF R, M

\* The outputs in the messages.
LEMMA ToolOutputsAre ==
  ASSUME NEW V, 0 \in V
  PROVE  /\ ToolOutputs(<<>>) = <<>>
         /\ \A q \in Seq(MessageOf(V)) : ToolOutputs(q) \in Seq(Nat)
         /\ \A q \in Seq(MessageOf(V)), m \in MessageOf(V) :
               ToolOutputs(Append(q, m)) = ToolOutputs(q) \o OutputIn(m)
         /\ \A q, r \in Seq(MessageOf(V)) : ToolOutputs(q \o r) = ToolOutputs(q) \o ToolOutputs(r)
         /\ \A rs \in Seq(ResultOf(V)) : ToolOutputs(Tools(rs)) = Outputs(rs)
<1> DEFINE M == MessageOf(V)
           f == [m \in M |-> OutputIn(m)]
<1>1. f \in [M -> Seq(Nat)] /\ \A m \in M : f[m] = OutputIn(m)
  <2>1. ASSUME NEW m \in M PROVE OutputIn(m) \in Seq(Nat)
    <3>1. m.output \in Nat
      <4> HIDE DEF Char
      <4> QED BY DEF MessageOf
    <3> QED BY <3>1 DEF OutputIn
  <2> HIDE DEF M
  <2> QED BY <2>1
<1> HIDE DEF M, f
<1>2. ASSUME NEW q \in Seq(M) PROVE ToolOutputs(q) = Mapped(f, q)
  <2>1. [i \in 1..Len(q) |-> OutputIn(q[i])] = [i \in 1..Len(q) |-> f[q[i]]]
    BY <1>1
  <2> QED BY <2>1 DEF ToolOutputs, Mapped
<1>3. /\ Mapped(f, <<>>) = <<>>
      /\ \A q \in Seq(M) : Mapped(f, q) \in Seq(Nat)
      /\ \A q, r \in Seq(M) : Mapped(f, q \o r) = Mapped(f, q) \o Mapped(f, r)
      /\ \A q \in Seq(M), m \in M : Mapped(f, Append(q, m)) = Mapped(f, q) \o f[m]
  BY <1>1, MappedOf
<1>4. /\ <<>> \in Seq(M) /\ \A q, r \in Seq(M) : q \o r \in Seq(M)
      /\ \A q \in Seq(M), m \in M : Append(q, m) \in Seq(M)
  OBVIOUS
<1>5. /\ ToolOutputs(<<>>) = <<>>
      /\ \A q \in Seq(M) : ToolOutputs(q) \in Seq(Nat)
      /\ \A q, r \in Seq(M) : ToolOutputs(q \o r) = ToolOutputs(q) \o ToolOutputs(r)
  <2>1. ToolOutputs(<<>>) = <<>> /\ \A q \in Seq(M) : ToolOutputs(q) \in Seq(Nat)
    BY ONLY <1>2, <1>3, <1>4
  <2>2. ASSUME NEW q \in Seq(M), NEW r \in Seq(M)
        PROVE  ToolOutputs(q \o r) = ToolOutputs(q) \o ToolOutputs(r)
    <3>1. q \o r \in Seq(M) /\ Mapped(f, q \o r) = Mapped(f, q) \o Mapped(f, r)
      BY ONLY <1>3, <1>4, q \in Seq(M), r \in Seq(M)
    <3>2. /\ ToolOutputs(q \o r) = Mapped(f, q \o r)
          /\ ToolOutputs(q) = Mapped(f, q) /\ ToolOutputs(r) = Mapped(f, r)
      BY ONLY <1>2, <3>1, q \in Seq(M), r \in Seq(M)
    <3> QED BY ONLY <3>1, <3>2
  <2> QED BY <2>1, <2>2
<1>6. \A q \in Seq(M), m \in M : ToolOutputs(Append(q, m)) = ToolOutputs(q) \o OutputIn(m)
  BY ZenonT(30), <1>1, <1>2, <1>3, <1>4
<1>7. ASSUME NEW rs \in Seq(ResultOf(V)) PROVE ToolOutputs(Tools(rs)) = Outputs(rs)
  <2> DEFINE n == Len(rs)
             o == Outputs(rs)
             ss == [i \in 1..n |-> <<o[i]>>]
  <2>1. /\ n \in Nat /\ Len(Tools(rs)) = n /\ o \in Seq(Nat) /\ Len(o) = n
        /\ \A i \in 1..n : OutputIn(Tools(rs)[i]) = <<o[i]>>
    <3>1. \A i \in 1..n : /\ rs[i] \in ResultOf(V) /\ Tools(rs)[i] = ToolMessage(rs[i]) /\ o[i] = rs[i].output
      BY ToolsAre
    <3>2. \A r \in ResultOf(V) : ToolMessage(r).role = "tool" /\ ToolMessage(r).output = r.output
      BY MessagesAre
    <3>3. n \in Nat /\ Len(Tools(rs)) = n /\ o \in Seq(Nat) /\ Len(o) = n
      BY ToolsAre
    <3> HIDE DEF o, n
    <3> QED BY <3>1, <3>2, <3>3 DEF OutputIn
  <2> HIDE DEF o, n
  <2>2. ToolOutputs(Tools(rs)) = FlattenSeq(ss)
    <3>1. [i \in 1..Len(Tools(rs)) |-> OutputIn(Tools(rs)[i])] = ss
      BY <2>1
    <3> QED BY <3>1 DEF ToolOutputs
  <2>3. FlattenSeq(ss) = o
    BY <2>1, Singles
  <2> QED BY <2>2, <2>3 DEF o
<1> QED
  BY <1>5, <1>6, <1>7 DEF M

\* The outputs on the wire.
LEMMA WireOutputsAre ==
  ASSUME NEW V, 0 \in V
  PROVE  /\ WireOutputs(<<>>) = <<>>
         /\ \A s \in Seq(WireOf(V)) : WireOutputs(s) \in Seq(Nat)
         /\ \A s \in Seq(WireOf(V)), x \in WireOf(V) :
               WireOutputs(Append(s, x)) = WireOutputs(s) \o Outputs(x.results)
<1> DEFINE W == WireOf(V)
           f == [w \in W |-> Outputs(w.results)]
<1>1. f \in [W -> Seq(Nat)] /\ \A w \in W : f[w] = Outputs(w.results)
  <2>1. ASSUME NEW w \in W PROVE Outputs(w.results) \in Seq(Nat)
    <3>1. w.results \in Seq(ResultOf(V))
      <4> HIDE DEF Char
      <4> QED BY DEF WireOf
    <3> QED BY <3>1, ToolsAre
  <2> HIDE DEF W
  <2> QED BY <2>1
<1> HIDE DEF W, f
<1>2. ASSUME NEW s \in Seq(W) PROVE WireOutputs(s) = Mapped(f, s)
  <2>1. [i \in 1..Len(s) |-> Outputs(s[i].results)] = [i \in 1..Len(s) |-> f[s[i]]]
    BY <1>1
  <2> QED BY <2>1 DEF WireOutputs, Mapped
<1>3. /\ Mapped(f, <<>>) = <<>>
      /\ \A q \in Seq(W) : Mapped(f, q) \in Seq(Nat)
      /\ \A q \in Seq(W), m \in W : Mapped(f, Append(q, m)) = Mapped(f, q) \o f[m]
  BY <1>1, MappedOf
<1>4. <<>> \in Seq(W) /\ \A q \in Seq(W), m \in W : Append(q, m) \in Seq(W)
  OBVIOUS
<1>5. WireOutputs(<<>>) = <<>> /\ \A s \in Seq(W) : WireOutputs(s) \in Seq(Nat)
  BY <1>2, <1>3, <1>4
<1>6. \A s \in Seq(W), x \in W : WireOutputs(Append(s, x)) = WireOutputs(s) \o Outputs(x.results)
  BY <1>1, <1>2, <1>3, <1>4
<1> QED
  BY <1>5, <1>6 DEF W

\* What Ollama is sent.
LEMMA OllamaIs ==
  ASSUME NEW V, 0 \in V
  PROVE  /\ OllamaOf(<<>>) = <<>>
         /\ \A q \in Seq(MessageOf(V)) :
               OllamaOf(q) \in Seq(WireOf(V)) /\ WireOutputs(OllamaOf(q)) = ToolOutputs(q)
         /\ \A q \in Seq(MessageOf(V)), m \in MessageOf(V) :
               OllamaOf(Append(q, m)) = Append(OllamaOf(q), OllamaMessage(m))
         /\ \A q, r \in Seq(MessageOf(V)) : OllamaOf(q \o r) = OllamaOf(q) \o OllamaOf(r)
<1> DEFINE M == MessageOf(V)
           W == WireOf(V)
<1>1. ASSUME NEW m \in M
      PROVE  OllamaMessage(m) \in W /\ Outputs(OllamaMessage(m).results) = OutputIn(m)
  <2> DEFINE c == [i \in 1..Len(m.calls) |-> 0]
             r == [call |-> 0, output |-> m.output]
  <2>1. /\ m.role \in {"user", "assistant", "tool"} /\ m.text \in Seq(Char) /\ m.calls \in Seq(V)
        /\ m.output \in Nat /\ <<>> \in Seq(Char) /\ <<>> \in Seq(V) /\ <<>> \in Seq(ResultOf(V))
    <3> HIDE DEF Char
    <3> QED BY DEF MessageOf
  <2>2. c \in Seq(V) /\ r \in ResultOf(V) /\ <<r>> \in Seq(ResultOf(V))
    <3>1. r \in ResultOf(V)
      BY <2>1 DEF ResultOf
    <3>2. c \in Seq(V)
      BY <2>1
    <3> HIDE DEF r
    <3> QED BY <3>1, <3>2
  <2>3. Outputs(<<>>) = <<>> /\ Outputs(<<r>>) = <<m.output>>
    <3>1. Len(<<r>>) = 1 /\ <<r>>[1] = r /\ r.output = m.output
      OBVIOUS
    <3> HIDE DEF r
    <3>2. Outputs(<<r>>) = <<m.output>>
      BY <3>1 DEF Outputs
    <3> QED BY <3>2 DEF Outputs
  <2> HIDE DEF c, M, W
  <2>4. CASE m.role = "user"
    <3>1. OllamaMessage(m) = Wire("user", <<>>, <<>>, <<>>)
      BY <2>4 DEF OllamaMessage, WireUser
    <3> QED BY <2>1, <2>3, <2>4, <3>1 DEF Wire, WireOf, W, OutputIn
  <2>5. CASE m.role = "assistant"
    <3>1. OllamaMessage(m) = Wire("assistant", m.text, c, <<>>)
      BY <2>5 DEF OllamaMessage, c
    <3> QED BY <2>1, <2>2, <2>3, <2>5, <3>1 DEF Wire, WireOf, W, OutputIn
  <2>6. CASE m.role = "tool"
    <3>1. OllamaMessage(m) = Wire("tool", <<>>, <<>>, <<r>>)
      BY <2>6 DEF OllamaMessage
    <3> HIDE DEF r
    <3> QED BY <2>1, <2>2, <2>3, <2>6, <3>1 DEF Wire, WireOf, W, OutputIn
  <2> QED BY <2>1, <2>4, <2>5, <2>6
<1>2. ASSUME NEW q \in Seq(M)
      PROVE  /\ OllamaOf(q) \in Seq(W) /\ WireOutputs(OllamaOf(q)) = ToolOutputs(q)
             /\ Len(OllamaOf(q)) = Len(q) /\ Len(q) \in Nat
             /\ \A i \in 1..Len(q) : OllamaOf(q)[i] = OllamaMessage(q[i]) /\ q[i] \in M
  <2> HIDE DEF M, W
  <2>1. Len(q) \in Nat /\ \A i \in 1..Len(q) : q[i] \in M
    OBVIOUS
  <2>2. \A i \in 1..Len(q) : OllamaMessage(q[i]) \in W
    BY <1>1, <2>1
  <2>3. OllamaOf(q) \in Seq(W) /\ Len(OllamaOf(q)) = Len(q)
    BY <2>1, <2>2 DEF OllamaOf
  <2>4. \A i \in 1..Len(q) : OllamaOf(q)[i] = OllamaMessage(q[i])
    BY DEF OllamaOf
  <2>5. [i \in 1..Len(OllamaOf(q)) |-> Outputs(OllamaOf(q)[i].results)]
        = [i \in 1..Len(q) |-> OutputIn(q[i])]
    BY <1>1, <2>1, <2>3, <2>4
  <2> QED BY <2>1, <2>3, <2>4, <2>5 DEF WireOutputs, ToolOutputs
<1>3. OllamaOf(<<>>) = <<>>
  BY DEF OllamaOf
<1> HIDE DEF M, W
<1>4. ASSUME NEW q \in Seq(M), NEW m \in M
      PROVE  OllamaOf(Append(q, m)) = Append(OllamaOf(q), OllamaMessage(m))
  <2> DEFINE u == Append(q, m)
             a == OllamaOf(q)
             b == OllamaOf(u)
             w == OllamaMessage(m)
  <2>1. u \in Seq(M) /\ Len(u) = Len(q) + 1 /\ u[Len(q) + 1] = m /\ \A i \in 1..Len(q) : u[i] = q[i]
    OBVIOUS
  <2>2. a \in Seq(W) /\ Len(a) = Len(q) /\ Len(q) \in Nat /\ \A i \in 1..Len(q) : a[i] = OllamaMessage(q[i])
    BY <1>2
  <2> HIDE DEF u
  <2>3. b \in Seq(W) /\ Len(b) = Len(u) /\ \A i \in 1..Len(u) : b[i] = OllamaMessage(u[i])
    BY <1>2, <2>1
  <2>4. w \in W
    BY <1>1
  <2> HIDE DEF a, b
  <2>5. Len(b) = Len(q) + 1 /\ b[Len(q) + 1] = w /\ \A i \in 1..Len(q) : b[i] = a[i]
    BY <2>1, <2>2, <2>3
  <2> HIDE DEF w
  <2>6. /\ Append(a, w) \in Seq(W) /\ Len(Append(a, w)) = Len(q) + 1 /\ Append(a, w)[Len(q) + 1] = w
        /\ \A i \in 1..Len(q) : Append(a, w)[i] = a[i]
    BY ONLY <2>2, <2>4
  <2>7. \A i \in 1..(Len(q) + 1) : Append(a, w)[i] = b[i]
    BY ONLY <2>2, <2>5, <2>6
  <2>8. b = Append(a, w)
    BY ONLY <2>2, <2>3, <2>5, <2>6, <2>7, SeqEqual
  <2> QED BY <2>8 DEF a, b, w, u
<1>5. ASSUME NEW q \in Seq(M), NEW r \in Seq(M) PROVE OllamaOf(q \o r) = OllamaOf(q) \o OllamaOf(r)
  <2> DEFINE u == q \o r
             a == OllamaOf(q)
             b == OllamaOf(r)
             c == OllamaOf(u)
             m == Len(q)
             n == Len(r)
  <2>1. /\ u \in Seq(M) /\ Len(u) = m + n /\ m \in Nat /\ n \in Nat
        /\ \A i \in 1..m : u[i] = q[i]
        /\ \A i \in 1..n : u[m + i] = r[i]
    OBVIOUS
  <2>2. /\ a \in Seq(W) /\ Len(a) = m /\ \A i \in 1..m : a[i] = OllamaMessage(q[i])
        /\ b \in Seq(W) /\ Len(b) = n /\ \A i \in 1..n : b[i] = OllamaMessage(r[i])
    BY <1>2
  <2> HIDE DEF u, m, n
  <2>3. c \in Seq(W) /\ Len(c) = m + n /\ \A i \in 1..(m + n) : c[i] = OllamaMessage(u[i])
    BY <1>2, <2>1
  <2> HIDE DEF a, b, c
  <2>4. /\ a \o b \in Seq(W) /\ Len(a \o b) = m + n
        /\ \A i \in 1..m : (a \o b)[i] = a[i]
        /\ \A i \in 1..n : (a \o b)[m + i] = b[i]
    <3>1. /\ \A p, z \in Seq(W) : p \o z \in Seq(W) /\ Len(p \o z) = Len(p) + Len(z)
          /\ \A p, z \in Seq(W) : \A i \in 1..Len(p) : (p \o z)[i] = p[i]
          /\ \A p, z \in Seq(W) : \A i \in 1..Len(z) : (p \o z)[Len(p) + i] = z[i]
      BY ONLY Concatenation, ZenonT(30)
    <3> QED BY ONLY <2>2, <3>1, ZenonT(30)
  <2>5. ASSUME NEW i \in 1..(m + n) PROVE c[i] = (a \o b)[i]
    <3>0. c[i] = OllamaMessage(u[i])
      BY ONLY <2>3, <2>5
    <3>1. CASE i \in 1..m
      <4>1. u[i] = q[i]
        BY ONLY <2>1, <3>1
      <4>2. (a \o b)[i] = a[i]
        BY ONLY <2>4, <3>1
      <4>3. a[i] = OllamaMessage(q[i])
        BY ONLY <2>2, <3>1
      <4> QED BY ONLY <3>0, <4>1, <4>2, <4>3
    <3>2. CASE i \notin 1..m
      <4>1. i - m \in 1..n /\ m + (i - m) = i
        BY ONLY <2>1, <2>5, <3>2
      <4>2. u[i] = r[i - m]
        BY ONLY <2>1, <4>1
      <4>3. (a \o b)[i] = b[i - m]
        BY ONLY <2>4, <4>1
      <4>4. b[i - m] = OllamaMessage(r[i - m])
        BY ONLY <2>2, <4>1
      <4> QED BY ONLY <3>0, <4>2, <4>3, <4>4
    <3> QED BY <3>1, <3>2
  <2>6. c = a \o b
    BY ONLY <2>1, <2>3, <2>4, <2>5, SeqEqual
  <2> QED BY <2>6 DEF a, b, c, u
<1> QED
  BY <1>2, <1>3, <1>4, <1>5 DEF M, W

-----------------------------------------------------------------------------
(***************************************************************************)
(* The results of a turn after its answer: what the walk and Anthropic's   *)
(* history make of them, one after the other.                              *)
(***************************************************************************)
\* A conversation with one result more at a time.
Upto(q, rs, k) == q \o Tools(SubSeq(rs, 1, k))

\* It grows by a message.
LEMMA ToolsGrow ==
  ASSUME NEW V, 0 \in V, NEW q \in Seq(MessageOf(V)), NEW rs \in Seq(ResultOf(V))
  PROVE  /\ Upto(q, rs, 0) = q /\ Upto(q, rs, Len(rs)) = q \o Tools(rs)
         /\ \A k \in 0..Len(rs) : Upto(q, rs, k) \in Seq(MessageOf(V))
         /\ \A k \in 1..Len(rs) : Upto(q, rs, k) = Append(Upto(q, rs, k - 1), ToolMessage(rs[k]))
<1> DEFINE R == ResultOf(V)
           M == MessageOf(V)
<1>1. \A s \in Seq(R) : Tools(s) \in Seq(M)
  BY ToolsAre
<1>2. \A r \in R : ToolMessage(r) \in M
  BY MessagesAre
<1>3. ASSUME NEW s \in Seq(R), NEW r \in R PROVE Tools(Append(s, r)) = Append(Tools(s), ToolMessage(r))
  <2> DEFINE u == Append(s, r)
             a == Tools(s)
             b == Tools(u)
             m == ToolMessage(r)
  <2>1. u \in Seq(R) /\ Len(u) = Len(s) + 1 /\ u[Len(s) + 1] = r /\ Len(s) \in Nat /\ \A i \in 1..Len(s) : u[i] = s[i]
    <3> HIDE DEF R
    <3> QED OBVIOUS
  <2>2. a \in Seq(M) /\ Len(a) = Len(s) /\ \A i \in 1..Len(s) : a[i] = ToolMessage(s[i])
    BY ToolsAre
  <2> HIDE DEF u
  <2>3. b \in Seq(M) /\ Len(b) = Len(u) /\ \A i \in 1..Len(u) : b[i] = ToolMessage(u[i])
    BY <2>1, ToolsAre
  <2>4. m \in M
    BY <1>2
  <2> HIDE DEF a, b, M
  <2>5. Len(b) = Len(s) + 1 /\ b[Len(s) + 1] = m /\ \A i \in 1..Len(s) : b[i] = a[i]
    BY <2>1, <2>2, <2>3
  <2> HIDE DEF m
  <2>6. /\ Append(a, m) \in Seq(M) /\ Len(Append(a, m)) = Len(s) + 1 /\ Append(a, m)[Len(s) + 1] = m
        /\ \A i \in 1..Len(s) : Append(a, m)[i] = a[i]
    BY ONLY <2>2, <2>4
  <2>7. \A i \in 1..(Len(s) + 1) : Append(a, m)[i] = b[i]
    <3>1. \A i \in 1..(Len(s) + 1) : i \in 1..Len(s) \/ i = Len(s) + 1
      BY ONLY <2>1
    <3> QED BY ONLY <2>5, <2>6, <3>1
  <2>8. b = Append(a, m)
    BY ONLY <2>1, <2>3, <2>5, <2>6, <2>7, SeqEqual
  <2> QED BY <2>8 DEF a, b, m, u
<1>4. rs \in Seq(R) /\ q \in Seq(M)
  OBVIOUS
<1> HIDE DEF R, M
<1>5. /\ SubSeq(rs, 1, 0) = <<>> /\ SubSeq(rs, 1, Len(rs)) = rs
      /\ \A i \in 0..Len(rs) : SubSeq(rs, 1, i) \in Seq(R)
      /\ \A i \in 1..Len(rs) : SubSeq(rs, 1, i) = Append(SubSeq(rs, 1, i - 1), rs[i])
  BY <1>4, Firsts
<1>6. Tools(<<>>) = <<>> /\ q \o <<>> = q
  <2>1. q \o <<>> = q
    BY <1>4, Concatenation
  <2> QED BY <2>1 DEF Tools
<1>7. \A s \in Seq(M), m \in M : q \o Append(s, m) = Append(q \o s, m) /\ q \o s \in Seq(M)
  BY <1>4
<1>8. Len(rs) \in Nat /\ \A k \in 1..Len(rs) : rs[k] \in R /\ k - 1 \in 0..Len(rs)
  BY <1>4
<1>9. \A k \in 0..Len(rs) : Upto(q, rs, k) \in Seq(M)
  BY <1>1, <1>5, <1>7, <1>2, ConcatProperties, <1>4 DEF Upto
<1>10. ASSUME NEW k \in 1..Len(rs) PROVE Upto(q, rs, k) = Append(Upto(q, rs, k - 1), ToolMessage(rs[k]))
  <2> DEFINE s == SubSeq(rs, 1, k - 1)
  <2>1. s \in Seq(R) /\ SubSeq(rs, 1, k) = Append(s, rs[k]) /\ rs[k] \in R
    BY <1>5, <1>8
  <2> HIDE DEF s
  <2>2. Tools(SubSeq(rs, 1, k)) = Append(Tools(s), ToolMessage(rs[k])) /\ Tools(s) \in Seq(M) /\ ToolMessage(rs[k]) \in M
    BY <1>1, <1>2, <1>3, <2>1
  <2> QED BY <1>7, <2>2 DEF Upto, s
<1> QED
  BY <1>5, <1>6, <1>9, <1>10 DEF Upto, M

\* What the walk knows after k of the results.
Seen(w, w0, rs, k) ==
  /\ w.ok /\ w.turns = w0.turns /\ w.ids = w0.ids /\ w.tools = w0.tools
  /\ w.expecting <=> k = Len(rs)
  /\ Len(w.pending) = Len(rs) - k /\ \A i \in 1..Len(rs) - k : w.pending[i] = rs[k + i].call
  /\ Len(w.evidence) = Len(w0.evidence) + k
  /\ \A i \in 1..Len(w0.evidence) : w.evidence[i] = w0.evidence[i]
  /\ \A i \in 1..k : w.evidence[Len(w0.evidence) + i]
                     = [turn |-> w0.turns, call |-> rs[i].call, output |-> rs[i].output]

\* And after one more.
LEMMA SeenMore ==
  ASSUME NEW V, 0 \in V, NEW rs \in Seq(ResultOf(V)), NEW w \in WalkOf(V), NEW w0 \in WalkOf(V),
         NEW k \in 0..Len(rs), k < Len(rs), Seen(w, w0, rs, k)
  PROVE  Seen(WalkMessage(w, ToolMessage(rs[k + 1])), w0, rs, k + 1)
<1> DEFINE E == [turn : Nat, call : V, output : Nat]
           r == rs[k + 1]
           m == ToolMessage(r)
           x == [turn |-> w.turns, call |-> r.call, output |-> r.output]
           y == WalkMessage(w, m)
           n == Len(rs)
           e0 == Len(w0.evidence)
<1>1. n \in Nat /\ k \in Nat /\ k + 1 <= n /\ k + 1 \in 1..n
  BY ToolsAre
<1>2. r \in ResultOf(V) /\ r.call \in V /\ r.output \in Nat
  BY <1>1, ToolsAre
<1>3. m.role = "tool" /\ m.call = r.call /\ m.output = r.output
  BY <1>2, MessagesAre
<1>4. /\ w.pending \in Seq(V) /\ w.evidence \in Seq(E) /\ w0.evidence \in Seq(E) /\ w.turns \in Nat
      /\ w = [ok |-> w.ok, index |-> w.index, expecting |-> w.expecting, pending |-> w.pending, ids |-> w.ids,
              turns |-> w.turns, tools |-> w.tools, evidence |-> w.evidence]
  BY DEF WalkOf
<1>5. x \in E
  BY <1>2, <1>4
<1> HIDE DEF E, n
<1>6. /\ w.ok /\ w.turns = w0.turns /\ w.ids = w0.ids /\ w.tools = w0.tools /\ ~w.expecting
      /\ Len(w.pending) = n - k /\ \A i \in 1..n - k : w.pending[i] = rs[k + i].call
      /\ Len(w.evidence) = e0 + k
      /\ \A i \in 1..e0 : w.evidence[i] = w0.evidence[i]
      /\ \A i \in 1..k : w.evidence[e0 + i] = [turn |-> w0.turns, call |-> rs[i].call, output |-> rs[i].output]
  BY <1>1 DEF Seen, n
<1>7. w.pending # <<>> /\ Head(w.pending) = r.call
  <2>1. 1 \in 1..n - k
    BY <1>1
  <2>2. w.pending[1] = r.call /\ Len(w.pending) # 0
    BY <1>1, <1>6, <2>1
  <2> QED BY <1>4, <2>2
<1>8. y = [w EXCEPT !.index = @ + 1, !.pending = Tail(@), !.expecting = Len(w.pending) = 1,
                    !.evidence = Append(@, x)]
  <2> HIDE DEF r
  <2> QED BY <1>3, <1>6, <1>7 DEF WalkMessage
<1> HIDE DEF x, y, r, m
<1>9. /\ y.ok = w.ok /\ y.turns = w.turns /\ y.ids = w.ids /\ y.tools = w.tools
      /\ y.expecting = (Len(w.pending) = 1) /\ y.pending = Tail(w.pending) /\ y.evidence = Append(w.evidence, x)
  BY ONLY <1>4, <1>8
<1>10. e0 \in Nat /\ Len(w.evidence) \in Nat
  BY <1>4
<1> HIDE DEF e0
<1>11. y.expecting <=> k + 1 = n
  <2>1. Len(w.pending) = 1 <=> k + 1 = n
    BY ONLY <1>1, <1>6
  <2> QED BY ONLY <1>9, <2>1, Zenon
<1>12. Len(y.pending) = n - (k + 1) /\ \A i \in 1..n - (k + 1) : y.pending[i] = rs[(k + 1) + i].call
  <2>1. /\ Len(Tail(w.pending)) = Len(w.pending) - 1
        /\ \A i \in 1..Len(w.pending) - 1 : Tail(w.pending)[i] = w.pending[i + 1]
    BY ONLY <1>4, <1>7
  <2>2. ASSUME NEW i \in 1..n - (k + 1) PROVE Tail(w.pending)[i] = rs[(k + 1) + i].call
    <3>1. i \in 1..(n - k) - 1 /\ i + 1 \in 1..n - k /\ k + (i + 1) = (k + 1) + i
      BY ONLY <1>1, <2>2
    <3> QED BY ONLY <1>6, <2>1, <3>1
  <2>3. (n - k) - 1 = n - (k + 1)
    BY ONLY <1>1
  <2> QED BY ONLY <1>6, <1>9, <2>1, <2>2, <2>3
<1>13. /\ Len(Append(w.evidence, x)) = (e0 + k) + 1 /\ Append(w.evidence, x)[(e0 + k) + 1] = x
       /\ \A i \in 1..e0 + k : Append(w.evidence, x)[i] = w.evidence[i]
  BY ONLY <1>4, <1>5, <1>6
<1>14. Len(y.evidence) = e0 + (k + 1) /\ \A i \in 1..e0 : y.evidence[i] = w0.evidence[i]
  <2>1. (e0 + k) + 1 = e0 + (k + 1) /\ \A i \in 1..e0 : i \in 1..e0 + k
    BY ONLY <1>1, <1>10
  <2> QED BY ONLY <1>6, <1>9, <1>13, <2>1
<1>15. ASSUME NEW i \in 1..k + 1
       PROVE  y.evidence[e0 + i] = [turn |-> w0.turns, call |-> rs[i].call, output |-> rs[i].output]
  <2>1. CASE i \in 1..k
    <3>1. e0 + i \in 1..e0 + k
      BY ONLY <1>1, <1>10, <2>1
    <3> QED BY ONLY <1>6, <1>9, <1>13, <2>1, <3>1
  <2>2. CASE i = k + 1
    <3>1. e0 + (k + 1) = (e0 + k) + 1
      BY ONLY <1>1, <1>10
    <3> QED BY ONLY <1>6, <1>9, <1>13, <2>2, <3>1 DEF x, r
  <2> QED BY <1>1, <2>1, <2>2
<1> QED
  BY <1>6, <1>9, <1>11, <1>12, <1>14, <1>15 DEF Seen, n, e0, y, m, r

\* The walk over the results of a turn.
LEMMA ToolsWalked ==
  ASSUME NEW V, 0 \in V, NEW q \in Seq(MessageOf(V)), NEW rs \in Seq(ResultOf(V)),
         Seen(Walk(q), Walk(q), rs, 0)
  PROVE  Seen(Walk(q \o Tools(rs)), Walk(q), rs, Len(rs))
<1> DEFINE w0 == Walk(q)
           G == {k \in Nat : k <= Len(rs) => Seen(Walk(Upto(q, rs, k)), w0, rs, k)}
<1>1. /\ Upto(q, rs, 0) = q /\ Upto(q, rs, Len(rs)) = q \o Tools(rs)
      /\ \A k \in 0..Len(rs) : Upto(q, rs, k) \in Seq(MessageOf(V))
      /\ \A k \in 1..Len(rs) : Upto(q, rs, k) = Append(Upto(q, rs, k - 1), ToolMessage(rs[k]))
  BY ToolsGrow
<1>2. Len(rs) \in Nat /\ \A k \in 1..Len(rs) : ToolMessage(rs[k]) \in MessageOf(V)
  BY ToolsAre, MessagesAre
<1>3. w0 \in WalkOf(V)
  BY WalkAppends, MessagesAre DEF UserIs
<1> HIDE DEF w0
<1>4. 0 \in G
  BY <1>1 DEF w0
<1>5. ASSUME NEW k \in Nat, k \in G PROVE k + 1 \in G
  <2> SUFFICES ASSUME k + 1 <= Len(rs) PROVE Seen(Walk(Upto(q, rs, k + 1)), w0, rs, k + 1)
    OBVIOUS
  <2>1. k \in 0..Len(rs) /\ k < Len(rs) /\ k + 1 \in 1..Len(rs) /\ (k + 1) - 1 = k
    BY <1>2
  <2> DEFINE u == Upto(q, rs, k)
             m == ToolMessage(rs[k + 1])
  <2>2. u \in Seq(MessageOf(V)) /\ m \in MessageOf(V) /\ Upto(q, rs, k + 1) = Append(u, m)
    BY <1>1, <1>2, <2>1
  <2>3. Seen(Walk(u), w0, rs, k)
    BY <1>5, <2>1
  <2> HIDE DEF u, m
  <2>4. Walk(u) \in WalkOf(V) /\ Walk(Append(u, m)) = WalkMessage(Walk(u), m)
    BY <2>2, WalkAppends
  <2>5. Seen(WalkMessage(Walk(u), m), w0, rs, k + 1)
    BY <1>3, <2>1, <2>3, <2>4, SeenMore DEF m
  <2> QED BY <2>2, <2>4, <2>5
<1>6. \A k \in Nat : k \in G
  <2> HIDE DEF G
  <2> QED BY <1>4, <1>5, CountingUp
<1>7. Seen(Walk(Upto(q, rs, Len(rs))), w0, rs, Len(rs))
  BY <1>2, <1>6
<1> QED
  BY <1>1, <1>7 DEF w0

\* Anthropic's history of them.
LEMMA ToolsTold ==
  ASSUME NEW V, 0 \in V, NEW q \in Seq(MessageOf(V)), NEW rs \in Seq(ResultOf(V)), rs # <<>>,
         AnthropicHistory(q) # <<>>, Last(AnthropicHistory(q)).results = <<>>
  PROVE  AnthropicHistory(q \o Tools(rs)) = Append(AnthropicHistory(q), Wire("user", <<>>, <<>>, rs))
<1> DEFINE a == AnthropicHistory(q)
           U(s) == Wire("user", <<>>, <<>>, s)
           S(k) == SubSeq(rs, 1, k)
           H(k) == AnthropicHistory(Upto(q, rs, k))
           G == {k \in Nat : k + 1 <= Len(rs) => H(k + 1) = Append(a, U(S(k + 1)))}
<1>1. /\ Upto(q, rs, 0) = q /\ Upto(q, rs, Len(rs)) = q \o Tools(rs)
      /\ \A k \in 0..Len(rs) : Upto(q, rs, k) \in Seq(MessageOf(V))
      /\ \A k \in 1..Len(rs) : Upto(q, rs, k) = Append(Upto(q, rs, k - 1), ToolMessage(rs[k]))
  BY ToolsGrow
<1>2. /\ Len(rs) \in Nat /\ Len(rs) # 0
      /\ \A k \in 1..Len(rs) :
            /\ ToolMessage(rs[k]) \in MessageOf(V) /\ rs[k] \in ResultOf(V)
            /\ ToolMessage(rs[k]).role = "tool" /\ WireResult(ToolMessage(rs[k])) = rs[k]
  <2>1. Len(rs) \in Nat /\ Len(rs) # 0 /\ \A k \in 1..Len(rs) : rs[k] \in ResultOf(V)
    OBVIOUS
  <2>2. ASSUME NEW r \in ResultOf(V)
        PROVE  ToolMessage(r) \in MessageOf(V) /\ ToolMessage(r).role = "tool" /\ WireResult(ToolMessage(r)) = r
    <3>1. LET m == ToolMessage(r)
          IN m \in MessageOf(V) /\ m.role = "tool" /\ m.call = r.call /\ m.output = r.output
      BY MessagesAre
    <3>2. r = [call |-> r.call, output |-> r.output]
      BY DEF ResultOf
    <3> QED BY <3>1, <3>2 DEF WireResult
  <2> QED BY <2>1, <2>2
<1>3. /\ S(0) = <<>> /\ S(Len(rs)) = rs
      /\ \A k \in 1..Len(rs) : S(k) = Append(S(k - 1), rs[k]) /\ S(k - 1) \in Seq(ResultOf(V)) /\ k - 1 \in 0..Len(rs)
  <2>1. /\ S(0) = <<>> /\ S(Len(rs)) = rs
        /\ \A i \in 0..Len(rs) : S(i) \in Seq(ResultOf(V))
        /\ \A i \in 1..Len(rs) : S(i) = Append(S(i - 1), rs[i])
    BY Firsts
  <2> HIDE DEF S
  <2>2. \A k \in 1..Len(rs) : k - 1 \in 0..Len(rs)
    BY <1>2
  <2> QED BY <2>1, <2>2
<1>4. a \in Seq(WireOf(V))
  BY HistoryAppends, MessagesAre DEF UserIs
<1> HIDE DEF S
<1>5. ASSUME NEW k \in 1..Len(rs)
      PROVE  H(k) = AnthropicMessage(H(k - 1), ToolMessage(rs[k]))
  <2>1. Upto(q, rs, k - 1) \in Seq(MessageOf(V))
    BY <1>1, <1>3
  <2> QED BY <1>1, <1>2, <2>1, HistoryAppends
<1> HIDE DEF H, a
<1>6. ASSUME NEW k \in 1..Len(rs), NEW b
      PROVE  AnthropicMessage(b, ToolMessage(rs[k]))
             = IF Last(b).results # <<>> THEN [b EXCEPT ![Len(b)].results = Append(@, rs[k])]
               ELSE Append(b, U(<<rs[k]>>))
  BY <1>2 DEF AnthropicMessage
<1>7. 0 \in G
  <2>1. 0 + 1 \in 1..Len(rs) /\ (0 + 1) - 1 = 0
    BY <1>2
  <2>2. H(0) = a /\ Last(a).results = <<>>
    BY <1>1 DEF H, a
  <2>3. H(0 + 1) = Append(a, U(<<rs[0 + 1]>>))
    BY <1>5, <1>6, <2>1, <2>2
  <2>4. S(0 + 1) = <<rs[0 + 1]>>
    <3>1. S(0 + 1) = Append(<<>>, rs[0 + 1])
      BY <1>3, <2>1
    <3> QED BY <3>1
  <2> QED BY <2>3, <2>4
<1>8. ASSUME NEW k \in Nat, k \in G PROVE k + 1 \in G
  <2> SUFFICES ASSUME (k + 1) + 1 <= Len(rs) PROVE H((k + 1) + 1) = Append(a, U(S((k + 1) + 1)))
    OBVIOUS
  <2> DEFINE s == S(k + 1)
             b == Append(a, U(s))
             r == rs[(k + 1) + 1]
  <2>1. /\ (k + 1) + 1 \in 1..Len(rs) /\ ((k + 1) + 1) - 1 = k + 1 /\ k + 1 <= Len(rs)
        /\ k + 1 \in 1..Len(rs)
    BY <1>2
  <2>2. H(k + 1) = b
    BY <1>8, <2>1
  <2>3. S((k + 1) + 1) = Append(s, r) /\ s \in Seq(ResultOf(V)) /\ s # <<>>
    <3>1. S((k + 1) + 1) = Append(s, r) /\ s \in Seq(ResultOf(V))
      BY <1>3, <2>1
    <3>2. s = Append(S((k + 1) - 1), rs[k + 1]) /\ S((k + 1) - 1) \in Seq(ResultOf(V)) /\ rs[k + 1] \in ResultOf(V)
      BY <1>2, <1>3, <2>1
    <3>3. \A z \in Seq(ResultOf(V)), y \in ResultOf(V) : Append(z, y) # <<>>
      OBVIOUS
    <3> QED BY <3>1, <3>2, <3>3
  <2> HIDE DEF s
  <2>4. Last(b).results = s /\ [b EXCEPT ![Len(b)].results = Append(@, r)] = Append(a, U(Append(s, r)))
    <3> DEFINE c == [b EXCEPT ![Len(b)].results = Append(@, r)]
               n == Len(a)
               W == {U(s), U(Append(s, r))} \cup WireOf(V)
               u == U(s)
               t == U(Append(s, r))
    <3>1. a \in Seq(W) /\ u \in W /\ t \in W
      <4>1. \A T, T2 : T \subseteq T2 => Seq(T) \subseteq Seq(T2)
        OBVIOUS
      <4>2. WireOf(V) \subseteq W
        OBVIOUS
      <4> QED BY <1>4, <4>1, <4>2
    <3>2. u.results = s /\ [u EXCEPT !.results = Append(@, r)] = t
      <4>1. u = [role |-> "user", text |-> <<>>, calls |-> <<>>, results |-> s]
        BY DEF Wire
      <4>2. t = [role |-> "user", text |-> <<>>, calls |-> <<>>, results |-> Append(s, r)]
        BY DEF Wire
      <4>3. \A x, y : LET o == [role |-> "user", text |-> <<>>, calls |-> <<>>, results |-> x]
                      IN o.results = x /\ [o EXCEPT !.results = y]
                                          = [role |-> "user", text |-> <<>>, calls |-> <<>>, results |-> y]
        OBVIOUS
      <4> HIDE DEF u, t, r, W
      <4>4. u.results = s
        BY <4>1
      <4>5. [u EXCEPT !.results = Append(s, r)] = t
        BY ONLY <4>1, <4>2, <4>3, Zenon
      <4> QED BY <4>4, <4>5
    <3> HIDE DEF W, u, t
    <3>3. b = Append(a, u)
      BY DEF u
    <3> HIDE DEF b
    <3>4. /\ b \in Seq(W) /\ Len(b) = n + 1 /\ n \in Nat /\ b[n + 1] = u /\ \A i \in 1..n : b[i] = a[i] /\ b[i] \in W
          /\ DOMAIN b = 1..n + 1
      BY ONLY <3>1, <3>3
    <3>5. Last(b) = u
      BY ONLY <3>4 DEF Last
    <3>6. c = [i \in 1..n + 1 |-> IF i = n + 1 THEN [b[i] EXCEPT !.results = Append(@, r)] ELSE b[i]]
      BY ONLY <3>4 DEF c
    <3> HIDE DEF n
    <3>7. c \in [1..n + 1 -> W] /\ c[n + 1] = t /\ \A i \in 1..n : c[i] = a[i]
      <4> HIDE DEF c
      <4>1. n + 1 \in 1..n + 1 /\ \A i \in 1..n : i # n + 1 /\ i \in 1..n + 1
        BY ONLY <3>4
      <4>2. c[n + 1] = t /\ \A i \in 1..n : c[i] = a[i]
        BY ONLY <3>2, <3>4, <3>6, <4>1
      <4>3. ASSUME NEW i \in 1..n + 1 PROVE (IF i = n + 1 THEN [b[i] EXCEPT !.results = Append(@, r)] ELSE b[i]) \in W
        <5>1. i # n + 1 => i \in 1..n
          BY ONLY <3>4, <4>3
        <5> QED BY ONLY <3>1, <3>2, <3>4, <5>1
      <4> QED BY ONLY <3>6, <4>2, <4>3
    <3>8. c \in Seq(W) /\ Len(c) = n + 1
      BY ONLY <3>4, <3>7
    <3>9. /\ Append(a, t) \in Seq(W) /\ Len(Append(a, t)) = n + 1 /\ Append(a, t)[n + 1] = t
          /\ \A i \in 1..n : Append(a, t)[i] = a[i]
      BY ONLY <3>1 DEF n
    <3>10. \A i \in 1..n + 1 : c[i] = Append(a, t)[i]
      <4>1. \A i \in 1..n + 1 : i \in 1..n \/ i = n + 1
        BY ONLY <3>4
      <4> QED BY ONLY <3>7, <3>9, <4>1
    <3>11. c = Append(a, t)
      <4> HIDE DEF c
      <4> QED BY ONLY <3>8, <3>9, <3>10, SeqEqual
    <3> QED BY <3>2, <3>5, <3>11 DEF c, t
  <2>5. H((k + 1) + 1) = AnthropicMessage(b, ToolMessage(r))
    BY <1>5, <2>1, <2>2
  <2> HIDE DEF b
  <2>6. AnthropicMessage(b, ToolMessage(r)) = [b EXCEPT ![Len(b)].results = Append(@, r)]
    BY <1>6, <2>1, <2>3, <2>4
  <2> QED BY <2>3, <2>4, <2>5, <2>6
<1>9. \A k \in Nat : k \in G
  <2> HIDE DEF G
  <2> QED BY <1>7, <1>8, CountingUp
<1>10. H((Len(rs) - 1) + 1) = Append(a, U(S((Len(rs) - 1) + 1)))
  <2>1. Len(rs) - 1 \in Nat /\ (Len(rs) - 1) + 1 <= Len(rs)
    BY <1>2
  <2>2. Len(rs) - 1 \in G
    BY <1>9, <2>1
  <2> QED BY <2>1, <2>2
<1>11. (Len(rs) - 1) + 1 = Len(rs)
  BY <1>2
<1> QED
  BY <1>1, <1>3, <1>10, <1>11 DEF H, a

-----------------------------------------------------------------------------
(***************************************************************************)
(* A conversation tells a history: the accepted turns with the results     *)
(* their calls really had.                                                 *)
(***************************************************************************)
TurnOf(V) == [text : Seq(Char), calls : Seq(V), results : Seq(ResultOf(V))]

\* Every call of a turn has its result, in the order of the calls.
Fitting(x) ==
  /\ x.calls # <<>> /\ IsInjective(x.calls) /\ Len(x.results) = Len(x.calls)
  /\ \A i \in 1..Len(x.calls) : x.results[i].call = x.calls[i]

CallsOf(h) == UNION {Range(h[j].calls) : j \in 1..Len(h)}

\* What the walk finds in the messages is in the history.
Walked(q, h) ==
  LET w == Walk(q)
  IN /\ w.ok /\ w.turns = Len(h) /\ w.ids \subseteq CallsOf(h)
     /\ \A tl \in w.tools : \E i \in 1..Len(q) : q[i].role = "assistant" /\ q[i].tool = tl
     /\ Len(w.evidence) = Len(ToolOutputs(q))
     /\ \A i \in 1..Len(w.evidence) : \E j \in 1..Len(h) : \E k \in 1..Len(h[j].results) :
           w.evidence[i] = [turn |-> j, call |-> h[j].results[k].call, output |-> h[j].results[k].output]

\* So is every output they disclose, once.
Discloses(o, h) ==
  /\ IsInjective(o)
  /\ \A i \in 1..Len(o) : \E j \in 1..Len(h) : \E k \in 1..Len(h[j].results) : o[i] = h[j].results[k].output

Disclosing(q, h) == Discloses(ToolOutputs(q), h)

OllamaTurn(x) ==
  <<Wire("assistant", x.text, [i \in 1..Len(x.calls) |-> 0], <<>>)>>
  \o [i \in 1..Len(x.results) |-> Wire("tool", <<>>, <<>>, <<[call |-> 0, output |-> x.results[i].output]>>)]

OllamaTold(q, h) == OllamaOf(q) = <<WireUser>> \o FlattenSeq([j \in 1..Len(h) |-> OllamaTurn(h[j])])

AnthropicTold(a, h) ==
  /\ Len(a) = 2 * Len(h) + 1
  /\ \A j \in 1..Len(h) : /\ a[2 * j] = Wire("assistant", h[j].text, h[j].calls, <<>>)
                          /\ a[2 * j + 1] = Wire("user", <<>>, <<>>, h[j].results)

Told(q, h, V) ==
  /\ q \in Seq(MessageOf(V)) /\ q # <<>> /\ h \in Seq(TurnOf(V))
  /\ Walked(q, h) /\ Walk(q).expecting /\ Disclosing(q, h) /\ OllamaTold(q, h)
  /\ AnthropicTold(AnthropicHistory(q), h) /\ WireOutputs(AnthropicHistory(q)) = ToolOutputs(q)

\* The outputs of a turn's results are its own.
Apart(x, h) ==
  /\ \A i, k \in 1..Len(x.results) : x.results[i].output = x.results[k].output => i = k
  /\ \A j \in 1..Len(h) : \A k \in 1..Len(h[j].results) : \A i \in 1..Len(x.results) :
        h[j].results[k].output # x.results[i].output

\* The conversation starts with the user's message.
LEMMA ToldStarts ==
  ASSUME NEW V, 0 \in V
  PROVE  /\ Told(<<UserMessage>>, <<>>, V) /\ ToolOutputs(<<UserMessage>>) = <<>>
         /\ AnthropicHistory(<<UserMessage>>) = <<WireUser>> /\ OllamaOf(<<UserMessage>>) = <<WireUser>>
<1> DEFINE m == UserMessage
           q == <<m>>
           M == MessageOf(V)
<1>1. m \in M /\ m.role = "user"
  BY MessagesAre DEF UserIs
<1>2. <<>> \in Seq(M) /\ q \in Seq(M) /\ q # <<>> /\ Append(<<>>, m) = q
  <2> HIDE DEF m, M
  <2> QED BY <1>1
<1>3. <<>> \in Seq(TurnOf(V))
  OBVIOUS
<1>4. Walk(q) = [WalkStart EXCEPT !.index = 1, !.expecting = TRUE]
  <2>1. Walk(q) = WalkMessage(WalkStart, m)
    BY <1>1, <1>2, WalkAppends
  <2> QED BY <1>1, <2>1 DEF WalkMessage, WalkStart
<1>5. ToolOutputs(q) = <<>>
  <2>1. ToolOutputs(q) = ToolOutputs(<<>>) \o OutputIn(m)
    BY <1>1, <1>2, ToolOutputsAre
  <2>2. OutputIn(m) = <<>>
    BY <1>1 DEF OutputIn
  <2>3. ToolOutputs(<<>>) = <<>> /\ <<>> \o <<>> = <<>>
    BY ToolOutputsAre
  <2> QED BY <2>1, <2>2, <2>3
<1>6. AnthropicHistory(q) = <<WireUser>> /\ AnthropicHistory(<<>>) = <<>>
  <2>1. AnthropicHistory(q) = AnthropicMessage(<<>>, m) /\ AnthropicHistory(<<>>) = <<>>
    BY <1>1, <1>2, HistoryAppends
  <2>2. AnthropicMessage(<<>>, m) = Append(<<>>, WireUser)
    BY <1>1 DEF AnthropicMessage
  <2> HIDE DEF q
  <2> QED BY <2>1, <2>2
<1>7. WireOutputs(<<WireUser>>) = <<>>
  <2>1. WireUser \in WireOf(V) /\ WireUser.results = <<>>
    BY DEF WireUser, Wire, WireOf
  <2> HIDE DEF q, m
  <2>2. Append(<<>>, WireUser) = <<WireUser>> /\ <<>> \in Seq(WireOf(V))
    OBVIOUS
  <2>3. WireOutputs(<<WireUser>>) = WireOutputs(<<>>) \o Outputs(<<>>)
    BY <2>1, <2>2, WireOutputsAre
  <2>4. WireOutputs(<<>>) = <<>> /\ Outputs(<<>>) = <<>> /\ <<>> \o <<>> = <<>>
    BY WireOutputsAre DEF Outputs
  <2> QED BY <2>3, <2>4
<1>8. OllamaTold(q, <<>>) /\ OllamaOf(q) = <<WireUser>>
  <2>1. OllamaOf(q) = <<WireUser>>
    <3>1. Len(q) = 1 /\ q[1] = m
      OBVIOUS
    <3>2. OllamaMessage(m) = WireUser
      BY <1>1 DEF OllamaMessage
    <3> HIDE DEF q, m
    <3> QED BY <3>1, <3>2 DEF OllamaOf
  <2>2. FlattenSeq([j \in 1..Len(<<>>) |-> OllamaTurn(<<>>[j])]) = <<>>
    <3>1. [j \in 1..Len(<<>>) |-> OllamaTurn(<<>>[j])] = <<>>
      OBVIOUS
    <3>2. FlattenSeq(<<>>) = <<>>
      BY FlattenOf
    <3> QED BY <3>1, <3>2
  <2>3. <<WireUser>> \o <<>> = <<WireUser>>
    OBVIOUS
  <2> HIDE DEF q
  <2> QED BY <2>1, <2>2, <2>3 DEF OllamaTold
<1> HIDE DEF q, m
<1>9. AnthropicTold(AnthropicHistory(q), <<>>)
  BY <1>6 DEF AnthropicTold
<1>10. Walked(q, <<>>) /\ Walk(q).expecting
  BY <1>4, <1>5 DEF Walked, WalkStart
<1>11. Disclosing(q, <<>>)
  BY <1>5 DEF Disclosing, Discloses, IsInjective
<1> QED
  BY <1>2, <1>3, <1>5, <1>6, <1>7, <1>8, <1>9, <1>10, <1>11 DEF Told, q, m

\* A history with a turn more.
LEMMA TurnMore ==
  ASSUME NEW V, NEW p \in Seq(TurnOf(V)), NEW x \in TurnOf(V)
  PROVE  /\ Append(p, x) \in Seq(TurnOf(V)) /\ Len(Append(p, x)) = Len(p) + 1 /\ Len(p) \in Nat
         /\ Append(p, x)[Len(p) + 1] = x /\ \A j \in 1..Len(p) : Append(p, x)[j] = p[j] /\ p[j] \in TurnOf(V)
         /\ \A j \in 1..Len(p) + 1 : j \in 1..Len(p) \/ j = Len(p) + 1
         /\ \A j \in 1..Len(p) : j \in 1..Len(p) + 1
         /\ Len(p) + 1 \in 1..Len(p) + 1
         /\ CallsOf(Append(p, x)) = CallsOf(p) \cup Range(x.calls)
         /\ x.text \in Seq(Char) /\ x.calls \in Seq(V) /\ x.results \in Seq(ResultOf(V))
<1> DEFINE T == TurnOf(V)
           u == Append(p, x)
<1>1. x.text \in Seq(Char) /\ x.calls \in Seq(V) /\ x.results \in Seq(ResultOf(V))
  BY DEF TurnOf
<1>2. p \in Seq(T) /\ x \in T
  OBVIOUS
<1> HIDE DEF T
<1>3. u \in Seq(T) /\ Len(u) = Len(p) + 1 /\ Len(p) \in Nat /\ u[Len(p) + 1] = x
      /\ \A j \in 1..Len(p) : u[j] = p[j] /\ p[j] \in T
  BY <1>2
<1>4. /\ \A j \in 1..Len(p) + 1 : j \in 1..Len(p) \/ j = Len(p) + 1
      /\ \A j \in 1..Len(p) : j \in 1..Len(p) + 1
      /\ Len(p) + 1 \in 1..Len(p) + 1
  BY <1>3
<1> HIDE DEF u
<1>5. CallsOf(u) = CallsOf(p) \cup Range(x.calls)
  BY ONLY <1>3, <1>4, ZenonT(30) DEF CallsOf
<1> QED
  BY <1>1, <1>3, <1>4, <1>5 DEF T, u

\* What an answer adds to a conversation.
AnswerSays(q, h, x, tl, V) ==
  LET a == AssistantMessage(x.text, x.calls, tl)
      m == Append(q, a)
      w == Walk(m)
      answer == Wire("assistant", x.text, x.calls, <<>>)
  IN /\ a \in MessageOf(V) /\ a.role = "assistant" /\ a.tool = tl /\ m \in Seq(MessageOf(V))
     /\ w \in WalkOf(V) /\ w.ok /\ ~w.expecting /\ w.pending = x.calls /\ w.turns = Len(h) + 1
     /\ w.ids \subseteq CallsOf(h) \cup Range(x.calls)
     /\ w.tools = Walk(q).tools \cup {tl} /\ w.evidence = Walk(q).evidence
     /\ ToolOutputs(m) = ToolOutputs(q) /\ ToolOutputs(q) \in Seq(Nat)
     /\ AnthropicHistory(q) \in Seq(WireOf(V)) /\ answer \in WireOf(V)
     /\ AnthropicHistory(m) = Append(AnthropicHistory(q), answer)
     /\ WireOutputs(AnthropicHistory(m)) = ToolOutputs(q)
     /\ OllamaOf(q) \in Seq(WireOf(V))
     /\ OllamaOf(m) = Append(OllamaOf(q), Wire("assistant", x.text, [i \in 1..Len(x.calls) |-> 0], <<>>))

LEMMA AnswerTold ==
  ASSUME NEW V, 0 \in V, NEW q, NEW h, Told(q, h, V), NEW x \in TurnOf(V), NEW tl \in Nat,
         x.calls # <<>>, IsInjective(x.calls), Range(x.calls) \cap CallsOf(h) = {}
  PROVE  AnswerSays(q, h, x, tl, V)
<1> DEFINE a == AssistantMessage(x.text, x.calls, tl)
           m == Append(q, a)
           w0 == Walk(q)
           w == Walk(m)
           answer == Wire("assistant", x.text, x.calls, <<>>)
<1>1. x.text \in Seq(Char) /\ x.calls \in Seq(V) /\ x.results \in Seq(ResultOf(V))
  BY DEF TurnOf
<1>2. a \in MessageOf(V) /\ a.role = "assistant" /\ a.text = x.text /\ a.calls = x.calls /\ a.tool = tl
  BY <1>1, MessagesAre
<1>3. q \in Seq(MessageOf(V)) /\ h \in Seq(TurnOf(V)) /\ Walked(q, h) /\ w0.expecting
      /\ WireOutputs(AnthropicHistory(q)) = ToolOutputs(q)
  BY DEF Told
<1> HIDE DEF a
<1>4. m \in Seq(MessageOf(V))
  BY <1>2, <1>3
<1>5. w0 \in WalkOf(V) /\ w = WalkMessage(w0, a) /\ w \in WalkOf(V)
  BY <1>2, <1>3, <1>4, WalkAppends
<1>6. w0.ok /\ w0.turns = Len(h) /\ w0.ids \subseteq CallsOf(h)
  BY <1>3 DEF Walked
<1> HIDE DEF w0, w, m
<1>7. w = [w0 EXCEPT !.index = @ + 1, !.expecting = FALSE, !.pending = x.calls,
                     !.ids = @ \cup Range(x.calls), !.turns = @ + 1, !.tools = @ \cup {tl}]
  <2>1. Range(a.calls) \cap w0.ids = {}
    BY <1>2, <1>6
  <2> QED BY <1>2, <1>3, <1>5, <2>1 DEF WalkMessage
<1>8. /\ w.ok = w0.ok /\ w.expecting = FALSE /\ w.pending = x.calls /\ w.ids = w0.ids \cup Range(x.calls)
      /\ w.turns = w0.turns + 1 /\ w.tools = w0.tools \cup {tl} /\ w.evidence = w0.evidence
  BY ONLY <1>5, <1>7 DEF WalkOf
<1>9. ToolOutputs(m) = ToolOutputs(q) /\ ToolOutputs(q) \in Seq(Nat)
  <2>1. ToolOutputs(m) = ToolOutputs(q) \o OutputIn(a) /\ ToolOutputs(q) \in Seq(Nat)
    BY <1>2, <1>3, ToolOutputsAre DEF m
  <2>2. OutputIn(a) = <<>>
    BY <1>2 DEF OutputIn
  <2>3. \A s \in Seq(Nat) : s \o <<>> = s
    BY Concatenation
  <2> QED BY <2>1, <2>2, <2>3
<1>10. answer \in WireOf(V) /\ answer.results = <<>>
  <2> HIDE DEF Char
  <2> QED BY <1>1 DEF Wire, WireOf
<1>11. AnthropicHistory(q) \in Seq(WireOf(V)) /\ AnthropicHistory(m) = Append(AnthropicHistory(q), answer)
  <2>1. AnthropicHistory(q) \in Seq(WireOf(V)) /\ AnthropicHistory(m) = AnthropicMessage(AnthropicHistory(q), a)
    BY <1>2, <1>3, HistoryAppends DEF m
  <2>2. WireAnswer(a) = answer
    BY <1>2 DEF WireAnswer
  <2>3. AnthropicMessage(AnthropicHistory(q), a) = Append(AnthropicHistory(q), WireAnswer(a))
    BY <1>2 DEF AnthropicMessage
  <2> HIDE DEF answer
  <2> QED BY <2>1, <2>2, <2>3
<1>12. WireOutputs(AnthropicHistory(m)) = ToolOutputs(q)
  <2>1. WireOutputs(AnthropicHistory(m)) = WireOutputs(AnthropicHistory(q)) \o Outputs(<<>>)
    BY <1>10, <1>11, WireOutputsAre
  <2>2. Outputs(<<>>) = <<>>
    BY DEF Outputs
  <2>3. \A s \in Seq(Nat) : s \o <<>> = s
    BY Concatenation
  <2> QED BY <1>3, <1>9, <2>1, <2>2, <2>3
<1>13. /\ OllamaOf(q) \in Seq(WireOf(V))
       /\ OllamaOf(m) = Append(OllamaOf(q), Wire("assistant", x.text, [i \in 1..Len(x.calls) |-> 0], <<>>))
  <2>1. OllamaOf(q) \in Seq(WireOf(V)) /\ OllamaOf(m) = Append(OllamaOf(q), OllamaMessage(a))
    BY <1>2, <1>3, OllamaIs DEF m
  <2>2. OllamaMessage(a) = Wire("assistant", x.text, [i \in 1..Len(x.calls) |-> 0], <<>>)
    BY <1>2 DEF OllamaMessage
  <2> QED BY <2>1, <2>2
<1>14. w.ids \subseteq CallsOf(h) \cup Range(x.calls)
  BY <1>6, <1>8
<1> HIDE DEF answer
<1> QED
  BY <1>2, <1>4, <1>5, <1>6, <1>8, <1>9, <1>10, <1>11, <1>12, <1>13, <1>14 DEF AnswerSays, a, m, w, w0, answer

\* What a turn adds to a conversation.
TurnSays(q, h, x, tl, V) ==
  LET m == Append(q, AssistantMessage(x.text, x.calls, tl))
      u == m \o Tools(x.results)
  IN /\ Told(u, Append(h, x), V)
     /\ ToolOutputs(u) = ToolOutputs(q) \o Outputs(x.results)
     /\ ToolOutputs(m) = ToolOutputs(q)
     /\ AnthropicHistory(u) = Append(AnthropicHistory(m), Wire("user", <<>>, <<>>, x.results))

\* The outputs stay apart.
LEMMA OutputsApart ==
  ASSUME NEW V, NEW h \in Seq(TurnOf(V)), NEW x \in TurnOf(V), Apart(x, h),
         NEW o \in Seq(Nat), NEW z \in Seq(Nat), Len(z) = Len(x.results),
         \A i \in 1..Len(x.results) : z[i] = x.results[i].output, Discloses(o, h)
  PROVE  Discloses(o \o z, Append(h, x))
<1> DEFINE all == o \o z
           p == Append(h, x)
           a == Len(o)
           n == Len(x.results)
           t == Len(h)
<1>1. /\ t \in Nat /\ Len(p) = t + 1 /\ p[t + 1] = x /\ t + 1 \in 1..t + 1
      /\ \A j \in 1..t : p[j] = h[j] /\ j \in 1..t + 1
  BY TurnMore
<1>2. /\ Len(all) = a + n /\ a \in Nat /\ n \in Nat /\ DOMAIN all = 1..a + n /\ DOMAIN o = 1..a
      /\ \A i \in 1..a : all[i] = o[i]
      /\ \A i \in 1..n : all[a + i] = z[i]
  <2>1. /\ \A u, v \in Seq(Nat) : u \o v \in Seq(Nat) /\ Len(u \o v) = Len(u) + Len(v)
        /\ \A u, v \in Seq(Nat) : \A i \in 1..Len(u) : (u \o v)[i] = u[i]
        /\ \A u, v \in Seq(Nat) : \A i \in 1..Len(v) : (u \o v)[Len(u) + i] = v[i]
    BY ONLY Concatenation, ZenonT(30)
  <2>2. all \in Seq(Nat) /\ Len(all) = Len(o) + Len(z)
    BY <2>1
  <2> HIDE DEF all
  <2>3. Len(o) \in Nat /\ Len(z) \in Nat /\ DOMAIN all = 1..Len(all) /\ DOMAIN o = 1..Len(o)
    BY <2>2
  <2>4. /\ \A i \in 1..Len(o) : all[i] = o[i]
        /\ \A i \in 1..Len(z) : all[Len(o) + i] = z[i]
    BY <2>1 DEF all
  <2> QED BY <2>2, <2>3, <2>4
<1> HIDE DEF all, p, a, n, t
<1>3. ASSUME NEW i \in 1..a + n
      PROVE  i \in 1..a \/ \E k \in 1..n : i = a + k /\ all[i] = x.results[k].output
  <2>1. CASE i \in 1..a
    BY <2>1
  <2>2. CASE i \notin 1..a
    <3>1. i - a \in 1..n /\ i = a + (i - a)
      BY ONLY <1>2, <1>3, <2>2
    <3>2. all[a + (i - a)] = z[i - a] /\ z[i - a] = x.results[i - a].output
      BY <1>2, <3>1 DEF n
    <3> QED BY <3>1, <3>2
  <2> QED BY <2>1, <2>2
<1>4. ASSUME NEW i \in 1..a
      PROVE  \E j \in 1..t : \E k \in 1..Len(h[j].results) : all[i] = h[j].results[k].output
  BY ZenonT(30), <1>2 DEF a, t, Discloses
<1>5. IsInjective(o) <=> \A i, k \in 1..a : o[i] = o[k] => i = k
  BY <1>2 DEF IsInjective
<1>6. ASSUME NEW i \in 1..a + n, NEW k \in 1..a + n, all[i] = all[k] PROVE i = k
  <2>1. CASE i \in 1..a /\ k \in 1..a
    BY <1>2, <1>5, <1>6, <2>1 DEF Discloses
  <2>2. ASSUME NEW b \in 1..a, NEW c \in 1..n, NEW d \in 1..a + n, d = a + c, all[d] = x.results[c].output, all[b] = all[d]
        PROVE  FALSE
    <3>1. PICK j \in 1..t : \E l \in 1..Len(h[j].results) : all[b] = h[j].results[l].output
      BY <1>4
    <3>2. PICK l \in 1..Len(h[j].results) : all[b] = h[j].results[l].output
      BY <3>1
    <3>3. h[j].results[l].output # x.results[c].output
      BY <2>2, <3>1, <3>2 DEF Apart, n, t
    <3> QED BY ONLY <2>2, <3>2, <3>3
  <2>3. CASE i \in 1..a /\ k \notin 1..a
    <3>1. PICK c \in 1..n : k = a + c /\ all[k] = x.results[c].output
      BY <1>3, <2>3
    <3> QED BY <1>6, <2>2, <2>3, <3>1
  <2>4. CASE i \notin 1..a /\ k \in 1..a
    <3>1. PICK c \in 1..n : i = a + c /\ all[i] = x.results[c].output
      BY <1>3, <2>4
    <3> QED BY <1>6, <2>2, <2>4, <3>1
  <2>5. CASE i \notin 1..a /\ k \notin 1..a
    <3>1. PICK c \in 1..n : k = a + c /\ all[k] = x.results[c].output
      BY <1>3, <2>5
    <3>2. PICK d \in 1..n : i = a + d /\ all[i] = x.results[d].output
      BY <1>3, <2>5
    <3>3. c = d
      BY <1>6, <3>1, <3>2 DEF Apart, n
    <3> QED BY <3>1, <3>2, <3>3
  <2> QED BY <2>1, <2>3, <2>4, <2>5
<1>7. IsInjective(all)
  BY <1>2, <1>6 DEF IsInjective
<1>8. ASSUME NEW i \in 1..a + n
      PROVE  \E j \in 1..t + 1 : \E k \in 1..Len(p[j].results) : all[i] = p[j].results[k].output
  <2>1. CASE i \in 1..a
    <3>1. PICK j \in 1..t : \E k \in 1..Len(h[j].results) : all[i] = h[j].results[k].output
      BY <1>4, <2>1
    <3> QED BY <1>1, <3>1
  <2>2. CASE i \notin 1..a
    <3>1. PICK k \in 1..n : all[i] = x.results[k].output
      BY <1>3, <2>2
    <3> QED BY <1>1, <3>1 DEF n
  <2> QED BY <2>1, <2>2
<1>9. /\ IsInjective(all)
      /\ \A i \in 1..Len(all) : \E j \in 1..Len(p) : \E k \in 1..Len(p[j].results) : all[i] = p[j].results[k].output
  <2>1. Len(all) = a + n /\ Len(p) = t + 1
    BY <1>1, <1>2
  <2> QED BY ONLY <1>7, <1>8, <2>1, ZenonT(30)
<1> QED
  BY <1>9 DEF all, p, Discloses

\* The walk over a turn more.
WalksOn(u, h, x) == Walked(u, Append(h, x)) /\ Walk(u).expecting

LEMMA WalkedMore ==
  ASSUME NEW V, 0 \in V, NEW q \in Seq(MessageOf(V)), NEW h \in Seq(TurnOf(V)), NEW x \in TurnOf(V), NEW tl \in Nat,
         Walked(q, h), Fitting(x), AnswerSays(q, h, x, tl, V), NEW u,
         u = Append(q, AssistantMessage(x.text, x.calls, tl)) \o Tools(x.results),
         ToolOutputs(u) = ToolOutputs(q) \o Outputs(x.results)
  PROVE  WalksOn(u, h, x)
<1> DEFINE rs == x.results
           a == AssistantMessage(x.text, x.calls, tl)
           m == Append(q, a)
           w == Walk(u)
           w0 == Walk(m)
           p == Append(h, x)
           n == Len(rs)
           t == Len(h)
           e0 == Len(w0.evidence)
<1>1. /\ a \in MessageOf(V) /\ a.role = "assistant" /\ a.tool = tl /\ m \in Seq(MessageOf(V))
      /\ w0 \in WalkOf(V) /\ w0.ok /\ ~w0.expecting /\ w0.pending = x.calls /\ w0.turns = t + 1
      /\ w0.ids \subseteq CallsOf(h) \cup Range(x.calls)
      /\ w0.tools = Walk(q).tools \cup {tl} /\ w0.evidence = Walk(q).evidence
      /\ ToolOutputs(q) \in Seq(Nat)
  BY DEF AnswerSays
<1>2. /\ t \in Nat /\ Len(p) = t + 1 /\ p[t + 1] = x /\ t + 1 \in 1..t + 1
      /\ \A j \in 1..t : p[j] = h[j] /\ j \in 1..t + 1
      /\ CallsOf(p) = CallsOf(h) \cup Range(x.calls) /\ rs \in Seq(ResultOf(V)) /\ x.calls \in Seq(V)
  BY TurnMore
<1>3. /\ Tools(rs) \in Seq(MessageOf(V)) /\ Outputs(rs) \in Seq(Nat) /\ Len(Outputs(rs)) = n /\ n \in Nat
      /\ Len(Tools(rs)) = n
  BY <1>2, ToolsAre
<1>4. n # 0 /\ Len(x.calls) = n /\ \A i \in 1..n : rs[i].call = x.calls[i]
  BY <1>2 DEF Fitting
<1> HIDE DEF a
<1>5. /\ Len(m) = Len(q) + 1 /\ m[Len(q) + 1] = a /\ Len(q) \in Nat /\ \A i \in 1..Len(q) : m[i] = q[i]
  BY <1>1
<1> HIDE DEF m, w, w0, p, rs
<1>6. u \in Seq(MessageOf(V)) /\ Len(u) = Len(m) + n /\ \A i \in 1..Len(m) : u[i] = m[i]
  <2>1. u = m \o Tools(rs)
    BY DEF m, a, rs
  <2>2. /\ \A s, v \in Seq(MessageOf(V)) : s \o v \in Seq(MessageOf(V)) /\ Len(s \o v) = Len(s) + Len(v)
        /\ \A s, v \in Seq(MessageOf(V)) : \A i \in 1..Len(s) : (s \o v)[i] = s[i]
    BY ONLY Concatenation, ZenonT(30)
  <2> QED BY ONLY <1>1, <1>3, <2>1, <2>2
<1>7. Seen(w0, w0, rs, 0)
  <2>1. w0.evidence \in Seq([turn : Nat, call : V, output : Nat])
    BY <1>1 DEF WalkOf
  <2>2. e0 \in Nat /\ e0 + 0 = e0
    BY <2>1
  <2> HIDE DEF e0, n
  <2>3. n - 0 = n /\ (0 = n <=> FALSE) /\ 1..0 = {} /\ \A i \in 1..n : 0 + i = i
    BY <1>3, <1>4
  <2>4. Len(w0.pending) = n /\ \A i \in 1..n : w0.pending[i] = rs[i].call
    BY ONLY <1>1, <1>4
  <2> QED BY ONLY <1>1, <2>2, <2>3, <2>4 DEF Seen, e0, n
<1>8. Seen(w, w0, rs, n)
  <2>1. Seen(Walk(m \o Tools(rs)), Walk(m), rs, Len(rs))
    BY <1>1, <1>2, <1>7, ToolsWalked DEF w0
  <2> QED BY <2>1 DEF w, w0, m, a, rs
<1>9. /\ w.ok /\ w.turns = t + 1 /\ w.ids \subseteq CallsOf(p) /\ w.tools = Walk(q).tools \cup {tl} /\ w.expecting
      /\ Len(w.evidence) = e0 + n
      /\ \A i \in 1..e0 : w.evidence[i] = Walk(q).evidence[i]
      /\ \A i \in 1..n : w.evidence[e0 + i] = [turn |-> t + 1, call |-> rs[i].call, output |-> rs[i].output]
  <2> HIDE DEF t, e0, n
  <2> QED BY ONLY <1>1, <1>2, <1>8 DEF Seen, e0, n
<1>10. /\ \A z \in Walk(q).tools : \E i \in 1..Len(q) : q[i].role = "assistant" /\ q[i].tool = z
       /\ e0 = Len(ToolOutputs(q)) /\ e0 = Len(Walk(q).evidence)
       /\ \A i \in 1..e0 : \E j \in 1..t : \E k \in 1..Len(h[j].results) :
            Walk(q).evidence[i] = [turn |-> j, call |-> h[j].results[k].call, output |-> h[j].results[k].output]
  BY <1>1 DEF Walked
<1>11. e0 \in Nat
  BY <1>1, <1>10
<1> HIDE DEF e0, n, t
<1>12. ASSUME NEW z \in w.tools PROVE \E i \in 1..Len(u) : u[i].role = "assistant" /\ u[i].tool = z
  <2>1. \A i \in 1..Len(q) : i \in 1..Len(u) /\ u[i] = q[i]
    <3>1. \A i \in 1..Len(q) : i \in 1..Len(u) /\ i \in 1..Len(m)
      BY ONLY <1>3, <1>5, <1>6
    <3> QED BY ONLY <1>5, <1>6, <3>1
  <2>2. Len(q) + 1 \in 1..Len(u) /\ u[Len(q) + 1] = a
    BY ONLY <1>3, <1>5, <1>6
  <2> QED BY <1>1, <1>9, <1>10, <2>1, <2>2
<1>13. Len(w.evidence) = Len(ToolOutputs(u))
  <2>1. \A s, v \in Seq(Nat) : Len(s \o v) = Len(s) + Len(v)
    BY ONLY Concatenation, ZenonT(30)
  <2>2. Len(ToolOutputs(u)) = Len(ToolOutputs(q)) + Len(Outputs(rs))
    BY <1>1, <1>3, <2>1 DEF rs
  <2> QED BY ONLY <1>3, <1>9, <1>10, <2>2
<1>14. ASSUME NEW i \in 1..Len(w.evidence)
       PROVE  \E j \in 1..Len(p) : \E k \in 1..Len(p[j].results) :
                w.evidence[i] = [turn |-> j, call |-> p[j].results[k].call, output |-> p[j].results[k].output]
  <2>1. CASE i \in 1..e0
    <3>1. PICK j \in 1..t : \E k \in 1..Len(h[j].results) :
            Walk(q).evidence[i] = [turn |-> j, call |-> h[j].results[k].call, output |-> h[j].results[k].output]
      BY <1>10, <2>1
    <3>2. j \in 1..Len(p) /\ p[j] = h[j]
      BY <1>2
    <3>3. PICK k \in 1..Len(h[j].results) :
            Walk(q).evidence[i] = [turn |-> j, call |-> h[j].results[k].call, output |-> h[j].results[k].output]
      BY <3>1
    <3>4. w.evidence[i] = Walk(q).evidence[i]
      BY <1>9, <2>1
    <3>5. /\ k \in 1..Len(p[j].results)
          /\ w.evidence[i] = [turn |-> j, call |-> p[j].results[k].call, output |-> p[j].results[k].output]
      BY <3>2, <3>3, <3>4
    <3> QED BY <3>2, <3>5
  <2>2. CASE i \notin 1..e0
    <3>1. PICK k : k \in 1..n /\ i = e0 + k
      <4>1. i - e0 \in 1..n /\ i = e0 + (i - e0)
        BY ONLY <1>3, <1>9, <1>11, <1>14, <2>2
      <4> QED BY <4>1
    <3>2. t + 1 \in 1..Len(p) /\ p[t + 1].results = rs /\ k \in 1..Len(rs)
      BY <1>2, <3>1 DEF rs, n
    <3>3. w.evidence[i] = [turn |-> t + 1, call |-> rs[k].call, output |-> rs[k].output]
      BY <1>9, <3>1
    <3> QED BY <3>2, <3>3
  <2> QED BY <2>1, <2>2
<1> QED
  BY <1>2, <1>9, <1>12, <1>13, <1>14 DEF WalksOn, Walked, w, p

\* A turn as Ollama is told it.
LEMMA OllamaTurnIs ==
  ASSUME NEW V, 0 \in V, NEW x \in TurnOf(V)
  PROVE  LET answer == Wire("assistant", x.text, [i \in 1..Len(x.calls) |-> 0], <<>>)
         IN /\ answer \in WireOf(V) /\ OllamaOf(Tools(x.results)) \in Seq(WireOf(V))
            /\ OllamaTurn(x) = <<answer>> \o OllamaOf(Tools(x.results))
            /\ OllamaTurn(x) \in Seq(WireOf(V))
<1> DEFINE rs == x.results
           c == [i \in 1..Len(x.calls) |-> 0]
           answer == Wire("assistant", x.text, c, <<>>)
           b == OllamaOf(Tools(rs))
           W == WireOf(V)
<1>1. x.text \in Seq(Char) /\ x.calls \in Seq(V) /\ rs \in Seq(ResultOf(V))
  BY DEF TurnOf
<1>2. answer \in W
  <2>1. c \in Seq(V) /\ <<>> \in Seq(ResultOf(V))
    BY <1>1
  <2> HIDE DEF c, Char
  <2> QED BY <1>1, <2>1 DEF Wire, WireOf
<1>3. Tools(rs) \in Seq(MessageOf(V)) /\ Len(Tools(rs)) = Len(rs)
      /\ \A i \in 1..Len(rs) : rs[i] \in ResultOf(V) /\ Tools(rs)[i] = ToolMessage(rs[i])
  BY <1>1, ToolsAre
<1>4. b \in Seq(W)
  BY <1>3, OllamaIs
<1>5. b = [i \in 1..Len(rs) |-> Wire("tool", <<>>, <<>>, <<[call |-> 0, output |-> rs[i].output]>>)]
  <2>1. ASSUME NEW i \in 1..Len(rs)
        PROVE  OllamaMessage(Tools(rs)[i]) = Wire("tool", <<>>, <<>>, <<[call |-> 0, output |-> rs[i].output]>>)
    <3>1. Tools(rs)[i].role = "tool" /\ Tools(rs)[i].output = rs[i].output
      BY <1>3, MessagesAre
    <3> QED BY <3>1 DEF OllamaMessage
  <2>2. b = [i \in 1..Len(rs) |-> OllamaMessage(Tools(rs)[i])]
    BY <1>3 DEF OllamaOf
  <2> HIDE DEF b, rs
  <2> QED BY <2>1, <2>2
<1>6. OllamaTurn(x) = <<answer>> \o b
  BY <1>5 DEF OllamaTurn
<1> HIDE DEF answer, b, W
<1>7. <<answer>> \o b \in Seq(W)
  <2>1. <<answer>> \in Seq(W)
    BY <1>2
  <2>2. \A s, v \in Seq(W) : s \o v \in Seq(W)
    BY ONLY Concatenation, ZenonT(30)
  <2> QED BY <1>4, <2>1, <2>2
<1> QED
  BY <1>2, <1>4, <1>6, <1>7 DEF answer, b, W

\* All turns of a history, put together.
LEMMA OllamaTurns ==
  ASSUME NEW V, 0 \in V, NEW h \in Seq(TurnOf(V)), NEW x \in TurnOf(V)
  PROVE  LET all(p) == FlattenSeq([j \in 1..Len(p) |-> OllamaTurn(p[j])])
         IN all(h) \in Seq(WireOf(V)) /\ all(Append(h, x)) = all(h) \o OllamaTurn(x)
<1> DEFINE T == TurnOf(V)
           W == WireOf(V)
           f == [y \in T |-> OllamaTurn(y)]
           all(p) == FlattenSeq([j \in 1..Len(p) |-> OllamaTurn(p[j])])
<1>1. \A y \in T : OllamaTurn(y) \in Seq(W)
  BY OllamaTurnIs
<1> HIDE DEF T, W
<1>2. f \in [T -> Seq(W)] /\ \A y \in T : f[y] = OllamaTurn(y)
  BY <1>1
<1> HIDE DEF f
<1>3. ASSUME NEW p \in Seq(T) PROVE all(p) = Mapped(f, p)
  <2>1. [j \in 1..Len(p) |-> OllamaTurn(p[j])] = [j \in 1..Len(p) |-> f[p[j]]]
    BY <1>2
  <2> QED BY <2>1 DEF Mapped
<1> HIDE DEF all
<1>4. /\ \A q \in Seq(T) : Mapped(f, q) \in Seq(W)
      /\ \A q \in Seq(T), y \in T : Mapped(f, Append(q, y)) = Mapped(f, q) \o f[y]
  BY <1>2, MappedOf
<1>5. h \in Seq(T) /\ x \in T /\ Append(h, x) \in Seq(T)
  BY DEF T
<1>6. all(h) \in Seq(W) /\ all(Append(h, x)) = all(h) \o OllamaTurn(x)
  BY <1>2, <1>3, <1>4, <1>5
<1> QED
  BY <1>6 DEF all, W

\* What Ollama is told of a turn more.
LEMMA OllamaMore ==
  ASSUME NEW V, 0 \in V, NEW q \in Seq(MessageOf(V)), NEW h \in Seq(TurnOf(V)), NEW x \in TurnOf(V), NEW tl \in Nat,
         OllamaTold(q, h), AnswerSays(q, h, x, tl, V), NEW u,
         u = Append(q, AssistantMessage(x.text, x.calls, tl)) \o Tools(x.results)
  PROVE  OllamaTold(u, Append(h, x))
<1> DEFINE W == WireOf(V)
           rs == x.results
           m == Append(q, AssistantMessage(x.text, x.calls, tl))
           answer == Wire("assistant", x.text, [i \in 1..Len(x.calls) |-> 0], <<>>)
           b == OllamaOf(Tools(rs))
           all(p) == FlattenSeq([j \in 1..Len(p) |-> OllamaTurn(p[j])])
           a == all(h)
           o == OllamaOf(q)
           user == <<WireUser>>
<1>1. m \in Seq(MessageOf(V)) /\ o \in Seq(W) /\ OllamaOf(m) = Append(o, answer)
  BY DEF AnswerSays
<1>2. Tools(rs) \in Seq(MessageOf(V))
  BY ToolsAre DEF TurnOf
<1> HIDE DEF m
<1>3. OllamaOf(u) = OllamaOf(m) \o b
  <2>1. u = m \o Tools(rs)
    BY DEF m
  <2> QED BY <1>1, <1>2, <2>1, OllamaIs
<1>4. answer \in W /\ b \in Seq(W) /\ OllamaTurn(x) = <<answer>> \o b
  BY OllamaTurnIs
<1>5. a \in Seq(W) /\ all(Append(h, x)) = a \o OllamaTurn(x)
  BY OllamaTurns
<1>6. o = user \o a
  BY DEF OllamaTold
<1>7. user \in Seq(W)
  <2>1. WireUser \in W
    BY DEF WireUser, Wire, WireOf
  <2> HIDE DEF W
  <2> QED BY <2>1
<1> HIDE DEF W, answer, b, all, a, o, user
<1>8. <<answer>> \in Seq(W) /\ Append(o, answer) = o \o <<answer>>
  <2>1. \A s \in Seq(W), y \in W : <<y>> \in Seq(W) /\ Append(s, y) = s \o <<y>>
    OBVIOUS
  <2> QED BY ONLY <1>1, <1>4, <2>1
<1>9. /\ \A p, s \in Seq(W) : p \o s \in Seq(W)
      /\ \A p, s, r \in Seq(W) : (p \o s) \o r = p \o (s \o r)
  BY ONLY Concatenation, ZenonT(30)
<1>10. OllamaOf(u) = user \o all(Append(h, x))
  <2>1. OllamaOf(u) = (o \o <<answer>>) \o b
    BY ONLY <1>1, <1>3, <1>8
  <2>2. (o \o <<answer>>) \o b = o \o (<<answer>> \o b) /\ <<answer>> \o b \in Seq(W)
    BY ONLY <1>1, <1>4, <1>8, <1>9
  <2>3. o \o (<<answer>> \o b) = user \o (a \o (<<answer>> \o b))
    BY ONLY <1>5, <1>6, <1>7, <1>9, <2>2
  <2> QED BY ONLY <1>4, <1>5, <2>1, <2>2, <2>3
<1> QED
  BY <1>10 DEF OllamaTold, user, all

\* And Anthropic.
LEMMA AnthropicMore ==
  ASSUME NEW V, 0 \in V, NEW h \in Seq(TurnOf(V)), NEW x \in TurnOf(V), NEW a \in Seq(WireOf(V)), AnthropicTold(a, h)
  PROVE  AnthropicTold(Append(Append(a, Wire("assistant", x.text, x.calls, <<>>)), Wire("user", <<>>, <<>>, x.results)),
                       Append(h, x))
         /\ Wire("user", <<>>, <<>>, x.results) \in WireOf(V)
         /\ Wire("user", <<>>, <<>>, x.results).results = x.results
         /\ Wire("assistant", x.text, x.calls, <<>>) \in WireOf(V)
         /\ Wire("assistant", x.text, x.calls, <<>>).results = <<>>
<1> DEFINE W == WireOf(V)
           answer == Wire("assistant", x.text, x.calls, <<>>)
           results == Wire("user", <<>>, <<>>, x.results)
           b == Append(Append(a, answer), results)
           p == Append(h, x)
           t == Len(h)
<1>1. /\ t \in Nat /\ Len(p) = t + 1 /\ p[t + 1] = x /\ \A j \in 1..t : p[j] = h[j]
      /\ x.text \in Seq(Char) /\ x.calls \in Seq(V) /\ x.results \in Seq(ResultOf(V))
  BY TurnMore
<1>2. answer \in W /\ results \in W /\ answer.results = <<>> /\ results.results = x.results
  <2> HIDE DEF Char
  <2> QED BY <1>1 DEF Wire, WireOf
<1> HIDE DEF W, answer, results, p, t
<1>3. a \in Seq(W)
  BY DEF W
<1>4. /\ Len(b) = Len(a) + 2 /\ b[Len(a) + 1] = answer /\ b[Len(a) + 2] = results
      /\ \A i \in 1..Len(a) : b[i] = a[i]
  <2>1. /\ Append(a, answer) \in Seq(W) /\ Len(Append(a, answer)) = Len(a) + 1 /\ Len(a) \in Nat
        /\ Append(a, answer)[Len(a) + 1] = answer
        /\ \A i \in 1..Len(a) : Append(a, answer)[i] = a[i]
    BY ONLY <1>2, <1>3
  <2> DEFINE c == Append(a, answer)
  <2> HIDE DEF c
  <2>2. /\ Len(Append(c, results)) = Len(c) + 1 /\ Append(c, results)[Len(c) + 1] = results
        /\ \A i \in 1..Len(c) : Append(c, results)[i] = c[i]
    BY ONLY <1>2, <2>1 DEF c
  <2>3. /\ Len(c) = Len(a) + 1 /\ (Len(a) + 1) + 1 = Len(a) + 2 /\ Len(a) + 1 \in 1..Len(c)
        /\ \A i \in 1..Len(a) : i \in 1..Len(c)
    BY ONLY <2>1 DEF c
  <2> QED BY <2>1, <2>2, <2>3 DEF c
<1>5. /\ Len(a) = 2 * t + 1
      /\ \A j \in 1..t : /\ a[2 * j] = Wire("assistant", h[j].text, h[j].calls, <<>>)
                         /\ a[2 * j + 1] = Wire("user", <<>>, <<>>, h[j].results)
  BY DEF AnthropicTold, t
<1> HIDE DEF b
<1>6. Len(b) = 2 * (t + 1) + 1 /\ b[2 * (t + 1)] = answer /\ b[2 * (t + 1) + 1] = results
  <2>1. (2 * t + 1) + 1 = 2 * (t + 1) /\ (2 * t + 1) + 2 = 2 * (t + 1) + 1
    <3>1. t \in Nat
      BY <1>1
    <3> HIDE DEF t
    <3> QED BY ONLY <3>1
  <2> QED BY <1>4, <1>5, <2>1
<1>7. ASSUME NEW j \in 1..t + 1
      PROVE  /\ b[2 * j] = Wire("assistant", p[j].text, p[j].calls, <<>>)
             /\ b[2 * j + 1] = Wire("user", <<>>, <<>>, p[j].results)
  <2>1. CASE j \in 1..t
    <3>1. 2 * j \in 1..2 * t + 1 /\ 2 * j + 1 \in 1..2 * t + 1
      BY <1>1, <2>1
    <3>2. b[2 * j] = a[2 * j] /\ b[2 * j + 1] = a[2 * j + 1]
      BY <1>4, <1>5, <3>1
    <3> QED BY <1>1, <1>5, <2>1, <3>2
  <2>2. CASE j = t + 1
    BY <1>1, <1>6, <2>2 DEF answer, results
  <2> QED BY <1>1, <2>1, <2>2
<1>8. AnthropicTold(b, p)
  BY <1>1, <1>6, <1>7 DEF AnthropicTold
<1> QED
  BY <1>2, <1>8 DEF W, answer, results, b, p

\* A conversation with the turn tells the history with it.
LEMMA TurnTold ==
  ASSUME NEW V, 0 \in V, NEW q, NEW h, Told(q, h, V), NEW x \in TurnOf(V), NEW tl \in Nat,
         Fitting(x), Range(x.calls) \cap CallsOf(h) = {}, Apart(x, h)
  PROVE  TurnSays(q, h, x, tl, V)
<1> DEFINE rs == x.results
           m == Append(q, AssistantMessage(x.text, x.calls, tl))
           u == m \o Tools(rs)
           p == Append(h, x)
           answer == Wire("assistant", x.text, x.calls, <<>>)
           results == Wire("user", <<>>, <<>>, rs)
<1>1. AnswerSays(q, h, x, tl, V)
  BY AnswerTold DEF Fitting
<1>2. /\ q \in Seq(MessageOf(V)) /\ h \in Seq(TurnOf(V)) /\ Walked(q, h) /\ Disclosing(q, h)
      /\ OllamaTold(q, h) /\ AnthropicTold(AnthropicHistory(q), h)
  BY DEF Told
<1>3. /\ m \in Seq(MessageOf(V)) /\ ToolOutputs(m) = ToolOutputs(q) /\ ToolOutputs(q) \in Seq(Nat)
      /\ AnthropicHistory(q) \in Seq(WireOf(V))
      /\ AnthropicHistory(m) = Append(AnthropicHistory(q), answer)
      /\ WireOutputs(AnthropicHistory(m)) = ToolOutputs(q)
  BY <1>1 DEF AnswerSays
<1>4. /\ rs \in Seq(ResultOf(V)) /\ Tools(rs) \in Seq(MessageOf(V)) /\ Outputs(rs) \in Seq(Nat)
      /\ Len(Outputs(rs)) = Len(rs) /\ \A i \in 1..Len(rs) : Outputs(rs)[i] = rs[i].output
  <2>1. rs \in Seq(ResultOf(V))
    BY DEF TurnOf
  <2> HIDE DEF rs
  <2> QED BY <2>1, ToolsAre
<1>5. rs # <<>>
  <2>1. Len(rs) = Len(x.calls) /\ x.calls # <<>> /\ x.calls \in Seq(V)
    BY DEF Fitting, TurnOf
  <2>2. Len(x.calls) # 0
    BY <2>1
  <2> QED BY <1>4, <2>1, <2>2
<1>6. p \in Seq(TurnOf(V))
  BY <1>2, TurnMore
<1> HIDE DEF m
<1>7. u \in Seq(MessageOf(V)) /\ u # <<>>
  <2>1. \A s, v \in Seq(MessageOf(V)) : s \o v \in Seq(MessageOf(V)) /\ Len(s \o v) = Len(s) + Len(v)
    BY ONLY Concatenation, ZenonT(30)
  <2>2. u \in Seq(MessageOf(V)) /\ Len(u) = Len(m) + Len(Tools(rs))
    BY <1>3, <1>4, <2>1
  <2>3. Len(m) \in Nat /\ Len(Tools(rs)) \in Nat /\ Len(Tools(rs)) # 0
    <3>1. Len(m) \in Nat
      BY <1>3
    <3>2. Len(Tools(rs)) = Len(rs) /\ Len(rs) \in Nat
      BY <1>4, ToolsAre
    <3>3. Len(rs) # 0
      BY <1>4, <1>5
    <3> QED BY <3>1, <3>2, <3>3
  <2> HIDE DEF u
  <2>4. Len(u) # 0
    BY <2>2, <2>3
  <2> QED BY <2>2, <2>4
<1>8. ToolOutputs(u) = ToolOutputs(q) \o Outputs(rs)
  <2>1. ToolOutputs(u) = ToolOutputs(m) \o ToolOutputs(Tools(rs)) /\ ToolOutputs(Tools(rs)) = Outputs(rs)
    BY <1>3, <1>4, ToolOutputsAre
  <2> QED BY <1>3, <2>1
<1>9. u = Append(q, AssistantMessage(x.text, x.calls, tl)) \o Tools(x.results)
  BY DEF m
<1> HIDE DEF u
<1>10. Walked(u, p) /\ Walk(u).expecting
  <2>1. /\ 0 \in V /\ x \in TurnOf(V) /\ tl \in Nat /\ Fitting(x)
        /\ ToolOutputs(u) = ToolOutputs(q) \o Outputs(x.results)
    BY <1>8
  <2>2. WalksOn(u, h, x)
    BY ONLY <1>1, <1>2, <1>9, <2>1, WalkedMore
  <2> QED BY <2>2 DEF WalksOn
<1>11. Disclosing(u, p)
  <2> DEFINE o == ToolOutputs(q)
             z == Outputs(rs)
  <2>1. /\ o \in Seq(Nat) /\ z \in Seq(Nat) /\ Len(z) = Len(x.results)
        /\ \A i \in 1..Len(x.results) : z[i] = x.results[i].output
        /\ Discloses(o, h)
    BY <1>2, <1>3, <1>4 DEF Disclosing
  <2> HIDE DEF o, z
  <2>2. Discloses(o \o z, Append(h, x))
    BY <1>2, <2>1, OutputsApart
  <2>3. ToolOutputs(u) = o \o z
    BY <1>8 DEF o, z
  <2> QED BY ONLY <2>2, <2>3 DEF Disclosing
<1>12. OllamaTold(u, p)
  BY <1>1, <1>2, <1>9, OllamaMore
<1>13. AnthropicHistory(u) = Append(AnthropicHistory(m), results)
  <2>1. AnthropicHistory(m) # <<>> /\ Last(AnthropicHistory(m)) = answer
    <3>1. answer \in WireOf(V)
      BY <1>1 DEF AnswerSays
    <3> DEFINE W == WireOf(V)
    <3> HIDE DEF answer, W
    <3>2. \A s \in Seq(W), y \in W : Append(s, y) # <<>> /\ Last(Append(s, y)) = y
      BY DEF Last
    <3> QED BY <1>3, <3>1, <3>2 DEF W
  <2>2. answer.results = <<>>
    BY DEF Wire
  <2>3. AnthropicHistory(m \o Tools(rs)) = Append(AnthropicHistory(m), Wire("user", <<>>, <<>>, rs))
    <3> HIDE DEF answer
    <3> QED BY <1>3, <1>4, <1>5, <2>1, <2>2, ToolsTold
  <2> QED BY <2>3 DEF u
<1>14. AnthropicTold(AnthropicHistory(u), p) /\ results \in WireOf(V) /\ results.results = rs /\ answer \in WireOf(V)
  <2>1. /\ AnthropicTold(Append(Append(AnthropicHistory(q), answer), results), p)
        /\ results \in WireOf(V) /\ results.results = rs /\ answer \in WireOf(V)
    BY <1>2, <1>3, AnthropicMore
  <2> HIDE DEF results, answer, p
  <2> QED BY <1>3, <1>13, <2>1
<1>15. WireOutputs(AnthropicHistory(u)) = ToolOutputs(u)
  <2> HIDE DEF results, answer
  <2>1. AnthropicHistory(m) \in Seq(WireOf(V))
    BY <1>3, HistoryAppends, MessagesAre DEF UserIs
  <2>2. WireOutputs(AnthropicHistory(u)) = WireOutputs(AnthropicHistory(m)) \o Outputs(results.results)
    BY <1>13, <1>14, <2>1, WireOutputsAre
  <2> QED BY <1>3, <1>8, <1>14, <2>2
<1>16. Told(u, p, V)
  <2> HIDE DEF p
  <2> QED BY <1>6, <1>7, <1>10, <1>11, <1>12, <1>14, <1>15 DEF Told
<1> QED
  BY <1>3, <1>8, <1>13, <1>16 DEF TurnSays, m, u

-----------------------------------------------------------------------------
(***************************************************************************)
(* What happened: the turns accepted (ak), the rows of their calls (rs),   *)
(* and the history of the turns whose calls all have their rows.           *)
(***************************************************************************)
Cont(id, messages, input, transfers, replay) ==
  [id |-> id, messages |-> messages, input |-> input, transfers |-> transfers, replay |-> replay]

AskedOf(V) == [id : Nat, text : Seq(Char), calls : Seq(V)]
ToolRowOf(V) == [turn : Nat, index : Nat, call : V, gen : Nat, output : Nat]

\* A row is of a call that was asked for, and a call has one row at most.
RowsAre(ak, rs, V) ==
  /\ ak \in Seq(AskedOf(V)) /\ rs \in Seq(ToolRowOf(V))
  /\ \A j \in 1..Len(ak) : ak[j].calls # <<>> /\ IsInjective(ak[j].calls)
  /\ \A k \in 1..Len(rs) :
        /\ rs[k].output = k /\ rs[k].turn \in 1..Len(ak)
        /\ rs[k].index \in 1..Len(ak[rs[k].turn].calls)
        /\ rs[k].call = ak[rs[k].turn].calls[rs[k].index]
  /\ \A k, l \in 1..Len(rs) : rs[k].call = rs[l].call => k = l

\* A turn of the history is the accepted one, each result that of its row.
Happened(x, j, ak, rs) ==
  /\ Fitting(x) /\ x.text = ak[j].text /\ x.calls = ak[j].calls
  /\ \A i \in 1..Len(x.calls) :
        /\ x.results[i].output \in 1..Len(rs)
        /\ rs[x.results[i].output].turn = j /\ rs[x.results[i].output].index = i

History(h, V, ak, rs) ==
  /\ h \in Seq(TurnOf(V)) /\ Len(h) <= Len(ak)
  /\ \A j \in 1..Len(h) : Happened(h[j], j, ak, rs)

\* The row of a result.
LEMMA RowOfResult ==
  ASSUME NEW V, NEW ak, NEW rs, RowsAre(ak, rs, V), NEW h, History(h, V, ak, rs),
         NEW j \in 1..Len(h), NEW i \in 1..Len(h[j].results)
  PROVE  LET o == h[j].results[i].output
         IN /\ o \in 1..Len(rs) /\ rs[o].turn = j /\ rs[o].index = i /\ rs[o].output = o
            /\ rs[o].call = h[j].results[i].call /\ i \in 1..Len(h[j].calls)
            /\ h[j].calls[i] = h[j].results[i].call /\ Len(h[j].calls) = Len(h[j].results)
<1> DEFINE x == h[j]
           o == x.results[i].output
<1>1. Happened(x, j, ak, rs)
  BY DEF History
<1> HIDE DEF x
<1>2. i \in 1..Len(x.calls) /\ x.results[i].call = x.calls[i] /\ Len(x.calls) = Len(x.results)
  BY <1>1 DEF Happened, Fitting, x
<1>3. o \in 1..Len(rs) /\ rs[o].turn = j /\ rs[o].index = i /\ x.calls = ak[j].calls
  BY <1>1, <1>2 DEF Happened
<1> HIDE DEF o
<1>4. rs[o].output = o /\ rs[o].call = ak[j].calls[i]
  BY <1>3 DEF RowsAre
<1> QED
  BY <1>2, <1>3, <1>4 DEF x, o

\* Results of two turns, or of one turn twice, are of different rows and calls.
LEMMA ResultsApart ==
  ASSUME NEW V, NEW ak, NEW rs, RowsAre(ak, rs, V), NEW h, History(h, V, ak, rs),
         NEW j \in 1..Len(h), NEW i \in 1..Len(h[j].results),
         NEW k \in 1..Len(h), NEW l \in 1..Len(h[k].results),
         \/ h[j].results[i].output = h[k].results[l].output
         \/ h[j].results[i].call = h[k].results[l].call
  PROVE  j = k /\ i = l
<1> DEFINE a == h[j].results[i].output
           b == h[k].results[l].output
<1>1. /\ a \in 1..Len(rs) /\ rs[a].turn = j /\ rs[a].index = i /\ rs[a].call = h[j].results[i].call
      /\ b \in 1..Len(rs) /\ rs[b].turn = k /\ rs[b].index = l /\ rs[b].call = h[k].results[l].call
  BY SMTT(30), RowOfResult
<1>2. a = b
  <2>1. CASE a = b
    BY <2>1
  <2>2. CASE h[j].results[i].call = h[k].results[l].call
    <3> HIDE DEF a, b
    <3>1. rs[a].call = rs[b].call
      BY <1>1, <2>2
    <3> QED BY <1>1, <3>1 DEF RowsAre
  <2> QED BY <2>1, <2>2
<1> HIDE DEF a, b
<1> QED
  BY <1>1, <1>2

\* More calls, turns and rows leave the history as it was.
LEMMA HistoryStays ==
  ASSUME NEW V, NEW W, V \subseteq W, NEW ak, NEW rs, NEW h, History(h, V, ak, rs),
         NEW bk, NEW ss, Len(ak) \in Nat, Len(rs) \in Nat, Len(bk) \in Nat, Len(ss) \in Nat,
         Len(ak) <= Len(bk), \A j \in 1..Len(ak) : bk[j] = ak[j],
         Len(rs) <= Len(ss), \A k \in 1..Len(rs) : ss[k] = rs[k]
  PROVE  History(h, W, bk, ss)
<1>1. h \in Seq(TurnOf(V)) /\ Len(h) <= Len(ak) /\ Len(h) \in Nat
  BY DEF History
<1>2. TurnOf(V) \subseteq TurnOf(W)
  <2>1. ResultOf(V) \subseteq ResultOf(W)
    BY DEF ResultOf
  <2>2. \A S, T : S \subseteq T => Seq(S) \subseteq Seq(T)
    OBVIOUS
  <2>3. Seq(ResultOf(V)) \subseteq Seq(ResultOf(W)) /\ Seq(V) \subseteq Seq(W)
    BY <2>1, <2>2
  <2> QED BY ONLY <2>3 DEF TurnOf
<1>3. h \in Seq(TurnOf(W))
  <2>1. \A S, T : S \subseteq T => Seq(S) \subseteq Seq(T)
    OBVIOUS
  <2> QED BY <1>1, <1>2, <2>1
<1>4. ASSUME NEW j \in 1..Len(h) PROVE Happened(h[j], j, bk, ss)
  <2>1. Happened(h[j], j, ak, rs)
    BY DEF History
  <2>2. bk[j] = ak[j]
    BY <1>1
  <2>3. \A o \in 1..Len(rs) : ss[o] = rs[o] /\ o \in 1..Len(ss)
    OBVIOUS
  <2> DEFINE x == h[j]
  <2> HIDE DEF x
  <2>4. Happened(x, j, ak, rs)
    BY <2>1 DEF x
  <2>5. Happened(x, j, bk, ss)
    BY ONLY <2>2, <2>3, <2>4 DEF Happened
  <2> QED BY <2>5 DEF x
<1>5. Len(h) <= Len(bk)
  BY <1>1
<1> QED
  BY <1>3, <1>4, <1>5 DEF History

\* So do more calls what a conversation tells.
LEMMA ToldStays ==
  ASSUME NEW V, NEW W, V \subseteq W, NEW q, NEW h, Told(q, h, V)
  PROVE  Told(q, h, W)
<1>1. q \in Seq(MessageOf(V)) /\ h \in Seq(TurnOf(V))
  BY DEF Told
<1>2. \A S, T : S \subseteq T => Seq(S) \subseteq Seq(T)
  OBVIOUS
<1>3. ResultOf(V) \subseteq ResultOf(W)
  BY DEF ResultOf
<1>4. Seq(ResultOf(V)) \subseteq Seq(ResultOf(W)) /\ Seq(V) \subseteq Seq(W)
  BY <1>2, <1>3
<1>5. TurnOf(V) \subseteq TurnOf(W)
  BY ONLY <1>4 DEF TurnOf
<1>6. MessageOf(V) \subseteq MessageOf(W)
  <2> HIDE DEF Char
  <2> QED BY ONLY <1>4, V \subseteq W DEF MessageOf
<1>7. q \in Seq(MessageOf(W)) /\ h \in Seq(TurnOf(W))
  BY <1>1, <1>2, <1>5, <1>6
<1> QED
  BY <1>7 DEF Told

\* And the turns and the rows are what they were.
LEMMA RowsStay ==
  ASSUME NEW V, NEW W, V \subseteq W, NEW ak, NEW rs, RowsAre(ak, rs, V)
  PROVE  RowsAre(ak, rs, W)
<1>1. \A S, T : S \subseteq T => Seq(S) \subseteq Seq(T)
  OBVIOUS
<1>2. Seq(V) \subseteq Seq(W)
  BY <1>1
<1>3. AskedOf(V) \subseteq AskedOf(W)
  BY ONLY <1>2 DEF AskedOf
<1>4. ToolRowOf(V) \subseteq ToolRowOf(W)
  BY DEF ToolRowOf
<1>5. ak \in Seq(AskedOf(V)) /\ rs \in Seq(ToolRowOf(V))
  BY DEF RowsAre
<1>6. ak \in Seq(AskedOf(W)) /\ rs \in Seq(ToolRowOf(W))
  BY <1>1, <1>3, <1>4, <1>5
<1> QED
  BY <1>6 DEF RowsAre

\* The results of a turn are those of its rows.
LEMMA ResultsOfIs ==
  ASSUME NEW V, RowsAre(asked, rows, V), NEW h, History(h, V, asked, rows), NEW t \in 1..Len(h)
  PROVE  ResultsOf(t) = h[t].results
<1> DEFINE x == h[t]
           n == Len(x.calls)
           row(i) == CHOOSE j \in DOMAIN rows : rows[j].turn = t /\ rows[j].index = i
<1>1. /\ x \in TurnOf(V) /\ x.calls = asked[t].calls /\ x.results \in Seq(ResultOf(V))
      /\ Len(x.results) = n /\ n \in Nat
  <2>1. h \in Seq(TurnOf(V)) /\ Happened(x, t, asked, rows)
    BY DEF History
  <2>2. x \in TurnOf(V)
    BY <2>1
  <2> HIDE DEF x
  <2>3. x.calls = asked[t].calls /\ Len(x.results) = Len(x.calls)
    BY <2>1 DEF Happened, Fitting
  <2>4. x.results \in Seq(ResultOf(V)) /\ x.calls \in Seq(V)
    BY <2>2 DEF TurnOf
  <2> QED BY <2>2, <2>3, <2>4
<1>2. DOMAIN rows = 1..Len(rows)
  BY DEF RowsAre
<1>3. ASSUME NEW i \in 1..n
      PROVE  [call |-> asked[t].calls[i], output |-> rows[row(i)].output] = x.results[i]
  <2> DEFINE o == x.results[i].output
  <2>1. /\ o \in 1..Len(rows) /\ rows[o].turn = t /\ rows[o].index = i /\ rows[o].output = o
        /\ rows[o].call = x.results[i].call /\ x.calls[i] = x.results[i].call
    BY <1>1, RowOfResult
  <2> HIDE DEF o, x
  <2>2. row(i) \in 1..Len(rows) /\ rows[row(i)].turn = t /\ rows[row(i)].index = i
    <3> HIDE DEF n
    <3> QED BY <1>2, <2>1
  <2> HIDE DEF row
  <2>3. rows[row(i)].call = rows[o].call
    <3>1. \A k \in 1..Len(rows) : rows[k].call = asked[rows[k].turn].calls[rows[k].index]
      BY DEF RowsAre
    <3>2. rows[row(i)].call = asked[t].calls[i]
      BY ONLY <2>2, <3>1
    <3>3. rows[o].call = asked[t].calls[i]
      BY ONLY <2>1, <3>1
    <3> QED BY ONLY <3>2, <3>3
  <2>4. row(i) = o
    BY <2>1, <2>2, <2>3 DEF RowsAre
  <2>5. x.results[i] \in ResultOf(V)
    BY <1>1
  <2>6. x.results[i] = [call |-> x.results[i].call, output |-> o]
    BY <2>5 DEF ResultOf, o
  <2> QED BY <1>1, <2>1, <2>4, <2>6
<1>4. ResultsOf(t) = [i \in 1..n |-> [call |-> asked[t].calls[i], output |-> rows[row(i)].output]]
  BY <1>1 DEF ResultsOf
<1> HIDE DEF x, n, row
<1>5. x.results = [i \in 1..n |-> x.results[i]]
  BY <1>1
<1> QED
  BY <1>3, <1>4, <1>5 DEF x

-----------------------------------------------------------------------------
(***************************************************************************)
(* The invariant of a conversation.  In every phase there are the ids seen *)
(* so far (V) and a history (h) of the accepted turns whose results are    *)
(* known; what is in hand tells that history.                              *)
(***************************************************************************)
\* The messages a request stands for.
Before(r) == IF r.cont = NoContinuation THEN <<UserMessage>> ELSE r.cont.messages \o Tools(r.cont.input)

Answered(q, x, tl) == Append(q, AssistantMessage(x.text, x.calls, tl))

\* The continuation of a turn x after a history.
Replays(c, h, x, q, tl, V) ==
  /\ Told(q, h, V) /\ tl \in Nat
  /\ Len(ToolOutputs(q)) + Len(x.results) = Len(rows)
  /\ c = Cont(0, Answered(q, x, tl), x.results, Outputs(x.results), ToolOutputs(q))

Resumes(c, x) ==
  /\ asked[Len(asked)].id # 0
  /\ c = Cont(asked[Len(asked)].id, <<>>, x.results, Outputs(x.results), <<>>)

Continues(c, h, V) ==
  \E p \in Seq(TurnOf(V)), x \in TurnOf(V) :
    /\ h = Append(p, x)
    /\ Stateless => \E q, tl : Replays(c, p, x, q, tl, V)
    /\ ~Stateless => Resumes(c, x)

\* The checkpoint of the last turn.
Stopped(V, h) ==
  /\ Len(h) = Len(asked) /\ Len(asked) \in 0..conf.turns /\ Len(rows) \in 0..conf.total
  /\ Continues(checkpoint.cont, h, V)
  /\ checkpoint.turns = Len(asked) /\ checkpoint.total = Len(rows) /\ checkpoint.gen \in Nat
  /\ \A k \in 1..Len(rows) : rows[k].turn = Len(asked) => rows[k].gen = checkpoint.gen

\* Between two turns.
Idle(V, h) ==
  /\ Len(h) = Len(asked) /\ guard.turns = Len(asked) /\ guard.total = Len(rows)
  /\ guard.order = <<>> /\ guard.outputs = {}
  /\ \/ asked = <<>> /\ rows = <<>> /\ cont = NoContinuation /\ checkpoint = NoCheckpoint
     \/ Stopped(V, h) /\ cont = checkpoint.cont /\ guard.expected = ChainReference(cont)

OpenAiResults(rs) == [i \in 1..Len(rs) |-> Wire("output", <<>>, <<>>, <<WireResult(rs[i])>>)]

\* What a turn was sent.
SentTo(V, h) ==
  /\ Stateless =>
       /\ Told(Before(request), h, V)
       /\ Len(ToolOutputs(Before(request))) = Len(rows)
       /\ request.transfers = ToolOutputs(Before(request))
       /\ sent = IF conf.kind = "anthropic" THEN AnthropicHistory(Before(request)) ELSE OllamaOf(Before(request))
  /\ ~Stateless =>
       /\ asked = <<>> => request.transfers = <<>> /\ sent = <<WireUser>>
       /\ asked # <<>> => /\ request.cont.id = asked[Len(asked)].id
                          /\ request.transfers = Outputs(h[Len(h)].results)
                          /\ sent = OpenAiResults(h[Len(h)].results)

\* A turn is with the provider.
Sending(V, h) ==
  /\ Len(h) = Len(asked) /\ Len(asked) < conf.turns /\ Len(rows) \in 0..conf.total
  /\ guard.turns = Len(asked) /\ guard.total = Len(rows)
  /\ guard.order = <<>> /\ guard.outputs = {} /\ request.tool \in Nat
  /\ SentTo(V, h)

TurnRows(t) == {k \in 1..Len(rows) : rows[k].turn = t}
OutputsOf(S) == {[call |-> rows[k].call, output |-> k] : k \in S}

\* The tools of a turn run.
Batching(V, h) ==
  LET t == Len(asked)
  IN /\ t = Len(h) + 1 /\ t \in 0..conf.turns /\ guard.turns = t
     /\ guard.order = asked[t].calls /\ guard.total \in 0..conf.total
     /\ IsFiniteSet(guard.outputs) /\ guard.outputs = OutputsOf(TurnRows(t))
     /\ guard.total + Cardinality(guard.outputs) = Len(rows) + Len(guard.order)
     /\ \A k \in TurnRows(t) : rows[k].gen = guard.gen
     /\ Stateless => \E q, tl :
          /\ Told(q, h, V) /\ tl \in Nat
          /\ Len(ToolOutputs(q)) + Cardinality(guard.outputs) = Len(rows)
          /\ guard.cont = Cont(0, Answered(q, asked[t], tl), <<>>, <<>>, <<>>)
          /\ guard.replay = ToolOutputs(q)
     /\ ~Stateless => /\ asked[t].id # 0 /\ guard.replay = <<>>
                      /\ guard.cont = Cont(asked[t].id, <<>>, <<>>, <<>>, <<>>)

NotAdoptedForAReason ==
  phase = "not_adopted" =>
    Stateless /\ \/ \E i \in DOMAIN rows : rows[i].gen # checkpoint.gen
                 \/ Len(checkpoint.cont.messages) > MaxMessages
                 \/ checkpoint.total > MaxResults

Going(V, h) ==
  /\ 0 \in V /\ RowsAre(asked, rows, V) /\ History(h, V, asked, rows)
  /\ phase = "idle" => Idle(V, h)
  /\ phase \in {"streaming", "accepted"} => Sending(V, h)
  /\ phase = "tools" => Batching(V, h)
  /\ phase = "crashed" => Stopped(V, h)

GuardIs ==
  /\ guard = [turns |-> guard.turns, total |-> guard.total, expected |-> guard.expected,
              order |-> guard.order, outputs |-> guard.outputs, cont |-> guard.cont,
              replay |-> guard.replay, terminal |-> guard.terminal, gen |-> guard.gen]
  /\ guard.turns \in 0..conf.turns /\ guard.total \in 0..conf.total /\ guard.gen \in Nat
  /\ crashes \in Nat /\ definition \in Nat /\ conf \in Deployment

Phases == {"idle", "streaming", "accepted", "tools", "crashed"}
Endings == {"finished", "failed", "refused", "not_adopted"}

ConvInv ==
  /\ phase \in Phases \cup Endings /\ GuardIs
  /\ phase \in Phases => \E V, h : Going(V, h)
  /\ RefusedForAReason /\ NotAdoptedForAReason

-----------------------------------------------------------------------------
\* The last turn of a history and those before it.
HistorySplits(p, x, V, ak, rs) ==
  /\ History(p, V, ak, rs) /\ Len(p) \in Nat /\ Len(Append(p, x)) = Len(p) + 1
  /\ Append(p, x)[Len(p) + 1] = x /\ Len(p) + 1 \in 1..Len(ak)
  /\ Happened(x, Len(p) + 1, ak, rs) /\ Fitting(x) /\ Apart(x, p)
  /\ Range(x.calls) \cap CallsOf(p) = {}

LEMMA HistoryOfTurn ==
  ASSUME NEW V, NEW ak, NEW rs, RowsAre(ak, rs, V), NEW p \in Seq(TurnOf(V)), NEW x \in TurnOf(V),
         History(Append(p, x), V, ak, rs)
  PROVE  HistorySplits(p, x, V, ak, rs)
<1> DEFINE h == Append(p, x)
           t == Len(p) + 1
<1>1. /\ h \in Seq(TurnOf(V)) /\ Len(h) = t /\ Len(p) \in Nat /\ h[t] = x /\ t \in 1..Len(h)
      /\ \A j \in 1..Len(p) : h[j] = p[j] /\ j \in 1..Len(h) /\ j # t
      /\ x.calls \in Seq(V)
  BY TurnMore
<1>2. Len(ak) \in Nat
  BY DEF RowsAre
<1> HIDE DEF h
<1>3. Len(h) <= Len(ak) /\ \A j \in 1..Len(h) : Happened(h[j], j, ak, rs)
  BY DEF History, h
<1>4. History(p, V, ak, rs)
  <2>1. \A j \in 1..Len(p) : Happened(p[j], j, ak, rs)
    BY <1>1, <1>3
  <2>2. Len(p) <= Len(ak)
    BY <1>1, <1>2, <1>3
  <2> QED BY <2>1, <2>2 DEF History
<1>5. t \in 1..Len(ak) /\ Happened(x, t, ak, rs)
  <2>1. t \in 1..Len(ak)
    BY <1>1, <1>2, <1>3
  <2> QED BY <1>1, <1>3, <2>1
<1>6. Fitting(x)
  BY <1>5 DEF Happened
<1> HIDE DEF t
<1>7. ASSUME NEW j \in 1..Len(h), NEW i \in 1..Len(h[j].results), NEW k \in 1..Len(h), NEW l \in 1..Len(h[k].results),
             \/ h[j].results[i].output = h[k].results[l].output
             \/ h[j].results[i].call = h[k].results[l].call
      PROVE  j = k /\ i = l
  <2>1. History(h, V, ak, rs)
    BY DEF h
  <2> QED BY <1>7, <2>1, ResultsApart
<1>8. Apart(x, p)
  <2>1. ASSUME NEW i \in 1..Len(x.results), NEW k \in 1..Len(x.results), x.results[i].output = x.results[k].output
        PROVE  i = k
    BY ONLY <1>1, <1>7, <2>1, i \in 1..Len(x.results), k \in 1..Len(x.results)
  <2>2. ASSUME NEW j \in 1..Len(p), NEW k \in 1..Len(p[j].results), NEW i \in 1..Len(x.results),
               p[j].results[k].output = x.results[i].output
        PROVE  FALSE
    BY ONLY <1>1, <1>7, <2>2, i \in 1..Len(x.results), j \in 1..Len(p), k \in 1..Len(p[j].results)
  <2> QED BY <2>1, <2>2 DEF Apart
<1>9. Range(x.calls) \cap CallsOf(p) = {}
  <2> SUFFICES ASSUME NEW c \in Range(x.calls), c \in CallsOf(p) PROVE FALSE
    OBVIOUS
  <2>1. PICK j \in 1..Len(p) : c \in Range(p[j].calls)
    BY DEF CallsOf
  <2>2. Fitting(p[j]) /\ p[j].calls \in Seq(V)
    <3>1. Happened(p[j], j, ak, rs) /\ p[j] \in TurnOf(V)
      BY <1>4, <2>1 DEF History
    <3> QED BY <3>1 DEF Happened, TurnOf
  <2>3. PICK i \in DOMAIN x.calls : x.calls[i] = c
    BY DEF Range
  <2>4. PICK l \in DOMAIN p[j].calls : p[j].calls[l] = c
    BY <2>1 DEF Range
  <2>5. i \in 1..Len(x.calls) /\ l \in 1..Len(p[j].calls)
    BY <1>1, <2>2, <2>3, <2>4
  <2>6. /\ i \in 1..Len(x.results) /\ x.results[i].call = c
        /\ l \in 1..Len(p[j].results) /\ p[j].results[l].call = c
    BY <1>6, <2>2, <2>3, <2>4, <2>5 DEF Fitting
  <2> QED BY ONLY <1>1, <1>7, <2>1, <2>6
<1> QED
  BY <1>1, <1>4, <1>5, <1>6, <1>8, <1>9 DEF HistorySplits, h, t

\* Results go on the wire as they are.
LEMMA WireResultsAre ==
  ASSUME NEW V, NEW rs \in Seq(ResultOf(V))
  PROVE  [i \in 1..Len(rs) |-> WireResult(rs[i])] = rs
<1>1. ASSUME NEW r \in ResultOf(V) PROVE WireResult(r) = r
  BY DEF WireResult, ResultOf
<1> DEFINE R == ResultOf(V)
<1> HIDE DEF R
<1>2. rs \in Seq(R) /\ \A r \in R : WireResult(r) = r
  BY <1>1 DEF R
<1>3. rs = [i \in 1..Len(rs) |-> rs[i]] /\ \A i \in 1..Len(rs) : rs[i] \in R
  BY <1>2
<1> QED
  BY <1>2, <1>3

\* What a continuation discloses.
DisclosedIs(c, messages, input) ==
  /\ c.messages = messages /\ c.input = input
  /\ Disclosed(c) = ToolOutputs(messages) \o Outputs(input)
  /\ c = NoContinuation => input = <<>>

LEMMA DisclosedInCont ==
  ASSUME NEW id, NEW messages, NEW input, NEW transfers, NEW replay, NEW c,
         c = Cont(id, messages, input, transfers, replay)
  PROVE  /\ DisclosedIs(c, messages, input)
         /\ c.id = id /\ c.transfers = transfers /\ c.replay = replay
<1>1. c.messages = messages /\ c.input = input /\ c.id = id /\ c.transfers = transfers /\ c.replay = replay
  BY DEF Cont
<1>2. Disclosed(c) = ToolOutputs(messages) \o Outputs(input)
  BY <1>1 DEF Disclosed, ToolOutputs, OutputIn, Outputs
<1>3. c = NoContinuation => input = <<>>
  BY <1>1 DEF NoContinuation
<1> QED
  BY <1>1, <1>2, <1>3 DEF DisclosedIs

\* Evidence of results of a history.
Evident(ev, p) ==
  \A i \in 1..Len(ev) : \E j \in 1..Len(p) : \E k \in 1..Len(p[j].results) :
    ev[i] = [turn |-> j, call |-> p[j].results[k].call, output |-> p[j].results[k].output]

\* What the walk finds in a replayed answer.
ReplayWalk(p, x, q, tl) ==
  LET m == Answered(q, x, tl)
      w == Walk(m)
  IN /\ WalkIsWhole(w, x.results) /\ w.turns = Len(p) + 1 /\ Len(m) \in Nat /\ Len(m) >= 2
     /\ DOMAIN m = 1..Len(m)
     /\ \A z \in w.tools : \E i \in 1..Len(m) : m[i].role = "assistant" /\ m[i].tool = z
     /\ Len(w.evidence) = Len(ToolOutputs(q)) /\ Len(w.evidence) \in Nat
     /\ Evident(w.evidence, p)

LEMMA ReplayWalks ==
  ASSUME NEW V, 0 \in V, NEW q, NEW p, Told(q, p, V), NEW x \in TurnOf(V), NEW tl \in Nat,
         Fitting(x), Range(x.calls) \cap CallsOf(p) = {}
  PROVE  ReplayWalk(p, x, q, tl)
<1> DEFINE a == AssistantMessage(x.text, x.calls, tl)
           m == Append(q, a)
           w == Walk(m)
<1>1. AnswerSays(q, p, x, tl, V)
  BY AnswerTold DEF Fitting
<1>2. /\ a \in MessageOf(V) /\ a.role = "assistant" /\ a.tool = tl /\ m \in Seq(MessageOf(V))
      /\ w \in WalkOf(V) /\ w.ok /\ ~w.expecting /\ w.pending = x.calls /\ w.turns = Len(p) + 1
      /\ w.tools = Walk(q).tools \cup {tl} /\ w.evidence = Walk(q).evidence
      /\ ToolOutputs(q) \in Seq(Nat)
  BY <1>1 DEF AnswerSays
<1>3. q \in Seq(MessageOf(V)) /\ q # <<>> /\ Walked(q, p)
  BY DEF Told
<1> HIDE DEF a
<1>4. /\ Len(m) = Len(q) + 1 /\ m[Len(q) + 1] = a /\ Len(q) \in Nat /\ Len(q) # 0 /\ DOMAIN m = 1..Len(m)
      /\ \A i \in 1..Len(q) : m[i] = q[i]
  BY <1>2, <1>3
<1> HIDE DEF m, w
<1>5. WalkIsWhole(w, x.results)
  <2>1. x.calls \in Seq(V) /\ Len(x.results) = Len(x.calls) /\ x.calls # <<>>
        /\ \A i \in 1..Len(x.calls) : x.results[i].call = x.calls[i]
    BY DEF TurnOf, Fitting
  <2>2. x.calls = [i \in 1..Len(x.calls) |-> x.calls[i]]
    BY <2>1
  <2>3. x.calls = [i \in 1..Len(x.results) |-> x.results[i].call]
    BY <2>1, <2>2
  <2> QED BY <1>2, <2>1, <2>3 DEF WalkIsWhole
<1>6. /\ \A z \in Walk(q).tools : \E i \in 1..Len(q) : q[i].role = "assistant" /\ q[i].tool = z
      /\ Len(Walk(q).evidence) = Len(ToolOutputs(q))
      /\ Evident(Walk(q).evidence, p)
  BY <1>3 DEF Walked, Evident
<1>7. ASSUME NEW z \in w.tools PROVE \E i \in 1..Len(m) : m[i].role = "assistant" /\ m[i].tool = z
  <2>1. \A i \in 1..Len(q) : i \in 1..Len(m)
    BY <1>4
  <2>2. Len(q) + 1 \in 1..Len(m)
    BY <1>4
  <2> QED BY <1>2, <1>4, <1>6, <2>1, <2>2
<1>8. Len(w.evidence) \in Nat
  BY <1>2, <1>6
<1>9. Len(m) \in Nat /\ Len(m) >= 2
  BY <1>4
<1>10. /\ w.turns = Len(p) + 1 /\ DOMAIN m = 1..Len(m) /\ Len(w.evidence) = Len(ToolOutputs(q))
       /\ Evident(w.evidence, p)
  <2>1. w.turns = Len(p) + 1 /\ w.evidence = Walk(q).evidence
    BY <1>2
  <2>2. DOMAIN m = 1..Len(m)
    BY <1>4
  <2> QED BY ONLY <1>6, <2>1, <2>2, ZenonT(30)
<1>11. m = Answered(q, x, tl) /\ w = Walk(m)
  BY DEF Answered, m, a, w
<1> QED
  BY ONLY <1>5, <1>7, <1>8, <1>9, <1>10, <1>11 DEF ReplayWalk

\* A request that replays a conversation.
ReplayIs(r, p, x, q, V) ==
  /\ Told(Before(r), Append(p, x), V)
  /\ ToolOutputs(Before(r)) = r.transfers /\ Disclosed(r.cont) = r.transfers
  /\ Len(r.transfers) = Len(ToolOutputs(q)) + Len(x.results)
  /\ r.transfers \in Seq(Nat) /\ IsInjective(r.transfers)
  /\ r.cont # NoContinuation
  /\ AnthropicBody(r) = AnthropicHistory(Before(r)) /\ OllamaBody(r) = OllamaOf(Before(r))

LEMMA ReplayTells ==
  ASSUME NEW V, 0 \in V, NEW q, NEW p, Told(q, p, V), NEW x \in TurnOf(V), NEW tl \in Nat,
         Fitting(x), Range(x.calls) \cap CallsOf(p) = {}, Apart(x, p), NEW r,
         r.cont = Cont(0, Answered(q, x, tl), x.results, <<>>, <<>>),
         r.transfers = ToolOutputs(q) \o Outputs(x.results)
  PROVE  ReplayIs(r, p, x, q, V)
<1> DEFINE m == Answered(q, x, tl)
           rs == x.results
           u == m \o Tools(rs)
<1>1. /\ Told(u, Append(p, x), V) /\ ToolOutputs(u) = ToolOutputs(q) \o Outputs(rs)
      /\ ToolOutputs(m) = ToolOutputs(q)
      /\ AnthropicHistory(u) = Append(AnthropicHistory(m), Wire("user", <<>>, <<>>, rs))
  <2>1. TurnSays(q, p, x, tl, V)
    BY TurnTold
  <2> QED BY <2>1 DEF TurnSays, Answered
<1>2. rs \in Seq(ResultOf(V)) /\ rs # <<>>
  <2>1. rs \in Seq(ResultOf(V)) /\ x.calls \in Seq(V) /\ Len(rs) = Len(x.calls) /\ x.calls # <<>>
    BY DEF TurnOf, Fitting
  <2>2. Len(x.calls) # 0
    BY <2>1
  <2> QED BY <2>1, <2>2
<1> HIDE DEF m, u, rs
<1>3. /\ r.cont.messages = m /\ r.cont.input = rs /\ Disclosed(r.cont) = ToolOutputs(m) \o Outputs(rs)
      /\ r.cont # NoContinuation
  <2>1. DisclosedIs(r.cont, m, rs)
    BY DisclosedInCont DEF m, rs
  <2> QED BY <1>2, <2>1 DEF DisclosedIs
<1>4. Before(r) = u
  BY <1>3 DEF Before, u
<1>5. /\ ToolOutputs(u) = r.transfers /\ Disclosed(r.cont) = r.transfers
  BY <1>1, <1>3 DEF rs
<1>6. r.transfers \in Seq(Nat) /\ IsInjective(r.transfers)
  <2>1. u \in Seq(MessageOf(V)) /\ Discloses(ToolOutputs(u), Append(p, x))
    BY <1>1 DEF Told, Disclosing
  <2>2. IsInjective(ToolOutputs(u))
    BY <2>1 DEF Discloses
  <2> QED BY <1>5, <2>1, <2>2, ToolOutputsAre
<1>7. Len(r.transfers) = Len(ToolOutputs(q)) + Len(rs)
  <2>1. ToolOutputs(q) \in Seq(Nat)
    BY ToolOutputsAre DEF Told
  <2>2. Outputs(rs) \in Seq(Nat) /\ Len(Outputs(rs)) = Len(rs)
    BY <1>2, ToolsAre
  <2>3. \A s, v \in Seq(Nat) : Len(s \o v) = Len(s) + Len(v)
    BY ONLY Concatenation, ZenonT(30)
  <2>4. r.transfers = ToolOutputs(q) \o Outputs(rs)
    BY DEF rs
  <2> QED BY ONLY <2>1, <2>2, <2>3, <2>4
<1>8. AnthropicBody(r) = AnthropicHistory(u)
  <2>1. [i \in 1..Len(rs) |-> WireResult(rs[i])] = rs
    BY <1>2, WireResultsAre
  <2> QED BY <1>1, <1>3, <2>1 DEF AnthropicBody
<1>9. OllamaBody(r) = OllamaOf(u)
  <2>1. [i \in 1..Len(rs) |-> ToolMessage(rs[i])] = Tools(rs)
    BY DEF Tools
  <2> QED BY <1>3, <2>1 DEF OllamaBody, OllamaOf, u
<1> QED
  BY <1>1, <1>3, <1>4, <1>5, <1>6, <1>7, <1>8, <1>9 DEF ReplayIs, rs

-----------------------------------------------------------------------------
(***************************************************************************)
(* The limits of a call: frames, visible bytes, events.                    *)
(***************************************************************************)
\* A step of a normaliser leaves the count of frames alone and the visible
\* bytes within their maximum.
Within(n, r, maximum) ==
  r.ok => /\ r.n.wire = n.wire
          /\ n.visible <= maximum => r.n.visible <= maximum

LEMMA VisibleWithin ==
  ASSUME NEW U, NEW n \in Norm(U), NEW w, WireFrame(w), NEW maximum \in Nat
  PROVE  Within(n, RecordVisible(n, w, maximum), maximum)
<1> DEFINE m == [n EXCEPT !.visible = @ + Bytes(w.text)]
           e == Delta(w.kind, w.text)
<1>1. Bytes(w.text) \in Nat
  <2>1. w.text \in Seq(Nat)
    <3>1. w.text \in Seq(Char) /\ \A c \in Char : c \in Nat
      BY DEF WireFrame, Char
    <3> QED BY ONLY <3>1
  <2> QED BY <2>1, BytesOf
<1>2. m.visible \in Nat /\ m.wire = n.wire
  BY <1>1 DEF Norm
<1> HIDE DEF m, e
<1>3. RecordVisible(n, w, maximum) = IF m.visible > maximum THEN Rejected(n) ELSE Emit(m, <<e>>)
  BY DEF RecordVisible, m, e
<1>4. ~Rejected(n).ok /\ Emit(m, <<e>>).n = m
  BY DEF Rejected, Emit
<1>5. CASE m.visible > maximum
  BY <1>3, <1>4, <1>5 DEF Within
<1>6. CASE ~(m.visible > maximum)
  <2>1. m.visible <= maximum
    BY <1>2, <1>6
  <2> QED BY <1>2, <1>3, <1>4, <1>6, <2>1 DEF Within
<1> QED
  BY <1>5, <1>6

\* Two ways a step stays within: refused, or with these fields as they were.
LEMMA StaysWithin ==
  ASSUME NEW n, NEW r, NEW maximum,
         r.ok => r.n.wire = n.wire /\ r.n.visible = n.visible
  PROVE  Within(n, r, maximum)
BY DEF Within

LEMMA OpenAiWithin ==
  ASSUME NEW U, NEW n \in Norm(U), NEW w \in OpenAiFrames, NEW limits, limits.visible \in Nat
  PROVE  Within(n, OpenAiNormalize(n, w, limits), limits.visible)
<1> DEFINE r == OpenAiNormalize(n, w, limits)
<1>1. /\ WireFrame(w)
      /\ w.type \in {"created", "delta", "added", "arguments", "item_done", "builtin_done",
                     "completed", "other"}
  BY OpenAiFrameIs
<1>2. CASE w.type = "delta"
  <2>1. r = IF ~n.started \/ n.completed THEN Rejected(n) ELSE RecordVisible(n, w, limits.visible)
    BY <1>2 DEF OpenAiNormalize
  <2>2. ~Rejected(n).ok
    BY DEF Rejected
  <2>3. Within(n, RecordVisible(n, w, limits.visible), limits.visible)
    BY <1>1, VisibleWithin
  <2> HIDE DEF r
  <2>4. Within(n, r, limits.visible)
    BY ONLY <2>1, <2>2, <2>3 DEF Within
  <2> QED BY <2>4 DEF r
<1>3. CASE w.type = "created"
  <2>1. r = ResponseCreated(n, w)
    BY <1>3 DEF OpenAiNormalize
  <2> HIDE DEF r
  <2>2. r.ok => r.n.wire = n.wire /\ r.n.visible = n.visible
    BY <2>1 DEF ResponseCreated, Rejected, Emit, Norm
  <2> QED BY <2>2, StaysWithin DEF r
<1>4. CASE w.type = "added"
  <2>1. r \in {Rejected(n), OutputItemAdded(n, w, limits.builtins)}
    BY <1>4 DEF OpenAiNormalize
  <2> HIDE DEF r
  <2> DEFINE m == [n EXCEPT !.items[w.item] = [kind |-> w.kind, call |-> w.call, args |-> w.args],
                            !.seen = @ \cup {w.call}]
             out == <<CallEvent(IF w.kind = "function" THEN "call" ELSE "builtin", w.call, 0)>>
  <2>3. r \in {Rejected(n), Emit(n, <<>>), Emit(m, out)}
    BY <2>1 DEF OutputItemAdded
  <2>4. m.wire = n.wire /\ m.visible = n.visible
    BY DEF Norm
  <2> HIDE DEF m, out
  <2>2. r.ok => r.n.wire = n.wire /\ r.n.visible = n.visible
    BY <2>3, <2>4 DEF Rejected, Emit
  <2> QED BY <2>2, StaysWithin DEF r
<1>5. CASE w.type = "arguments"
  <2>1. r \in {Rejected(n), ArgumentsDelta(n, w)}
    BY <1>5 DEF OpenAiNormalize
  <2> HIDE DEF r
  <2>2. r.ok => r.n.wire = n.wire /\ r.n.visible = n.visible
    BY <2>1 DEF ArgumentsDelta, Rejected, Emit, Norm
  <2> QED BY <2>2, StaysWithin DEF r
<1>6. CASE w.type = "item_done"
  <2>1. r \in {Rejected(n), CompleteFunction(n, w)}
    BY <1>6 DEF OpenAiNormalize
  <2> HIDE DEF r
  <2>2. r.ok => r.n.wire = n.wire /\ r.n.visible = n.visible
    BY <2>1 DEF CompleteFunction, Rejected, Emit, Norm
  <2> QED BY <2>2, StaysWithin DEF r
<1>7. CASE w.type = "builtin_done"
  <2>1. r \in {Rejected(n), CompleteBuiltin(n, w)}
    BY <1>7 DEF OpenAiNormalize
  <2> HIDE DEF r
  <2>2. r.ok => r.n.wire = n.wire /\ r.n.visible = n.visible
    BY <2>1 DEF CompleteBuiltin, Rejected, Emit, Norm
  <2> QED BY <2>2, StaysWithin DEF r
<1>8. CASE w.type = "completed"
  <2>1. r \in {Rejected(n), ResponseCompleted(n, w)}
    BY <1>8 DEF OpenAiNormalize
  <2> HIDE DEF r
  <2>2. r.ok => r.n.wire = n.wire /\ r.n.visible = n.visible
    BY <2>1 DEF ResponseCompleted, Rejected, Emit, Norm
  <2> QED BY <2>2, StaysWithin DEF r
<1>9. CASE w.type = "other"
  <2>1. r \in {Rejected(n), Emit(n, <<Event("unknown")>>)}
    BY <1>9 DEF OpenAiNormalize
  <2> HIDE DEF r
  <2>2. r.ok => r.n.wire = n.wire /\ r.n.visible = n.visible
    BY <2>1 DEF Rejected, Emit
  <2> QED BY <2>2, StaysWithin DEF r
<1> QED
  BY <1>1, <1>2, <1>3, <1>4, <1>5, <1>6, <1>7, <1>8, <1>9

LEMMA AnthropicWithin ==
  ASSUME NEW U, NEW n \in Norm(U), NEW w \in AnthropicFrames, NEW maximum \in Nat
  PROVE  Within(n, AnthropicNormalize(n, w, maximum), maximum)
<1> DEFINE r == AnthropicNormalize(n, w, maximum)
<1>1. /\ WireFrame(w)
      /\ w.type \in {"message_start", "block_start", "block_delta", "block_stop", "message_delta",
                     "message_stop", "other"}
  BY AnthropicFrameIs
<1>2. ~Rejected(n).ok /\ \A m, out : Emit(m, out).n = m
  BY DEF Rejected, Emit
<1>3. CASE w.type = "message_start"
  <2>1. r = MessageStart(n)
    BY <1>3 DEF AnthropicNormalize
  <2> HIDE DEF r
  <2>2. r.ok => r.n.wire = n.wire /\ r.n.visible = n.visible
    BY <2>1 DEF MessageStart, Rejected, Emit, Norm
  <2> QED BY <2>2, StaysWithin DEF r
<1>4. CASE w.type = "block_start"
  <2> DEFINE m == [n EXCEPT !.items[w.item].kind = "text"]
             k == [n EXCEPT !.items[w.item] = [kind |-> "function", call |-> w.call, args |-> 0],
                            !.seen = @ \cup {w.call}]
             out == <<CallEvent("call", w.call, 0)>>
  <2>1. m.wire = n.wire /\ m.visible = n.visible /\ k.wire = n.wire /\ k.visible = n.visible
    BY DEF Norm
  <2>2. r \in {Rejected(n), Emit(m, <<>>), RecordVisible(m, w, maximum), Emit(k, out)}
    BY <1>4 DEF AnthropicNormalize, ContentStart
  <2>3. n.items[w.item].kind = "none" \/ r = Rejected(n)
    BY <1>4 DEF AnthropicNormalize, ContentStart
  <2>4. m \in Norm(U)
    <3>1. n.items \in [Item -> ItemOf(U)] /\ w.item \in Item
      BY <1>1 DEF Norm, WireFrame
    <3>2. [n.items[w.item] EXCEPT !.kind = "text"] \in ItemOf(U)
      BY <3>1 DEF ItemOf
    <3>3. [n.items EXCEPT ![w.item].kind = "text"] \in [Item -> ItemOf(U)]
      BY <3>1, <3>2
    <3> QED BY <3>3 DEF Norm
  <2> HIDE DEF r, m, k, out
  <2>5. Within(m, RecordVisible(m, w, maximum), maximum)
    BY <1>1, <2>4, VisibleWithin
  <2>6. Within(n, r, maximum)
    BY ONLY <1>2, <2>1, <2>2, <2>5 DEF Within
  <2> QED BY <2>6 DEF r
<1>5. CASE w.type = "block_delta"
  <2>1. r \in {Rejected(n), RecordVisible(n, w, maximum), ArgumentsDelta(n, w)}
    BY <1>5 DEF AnthropicNormalize, ContentDelta
  <2>2. Within(n, RecordVisible(n, w, maximum), maximum)
    BY <1>1, VisibleWithin
  <2>3. ArgumentsDelta(n, w).ok => ArgumentsDelta(n, w).n.wire = n.wire /\ ArgumentsDelta(n, w).n.visible = n.visible
    BY DEF ArgumentsDelta, Rejected, Emit, Norm
  <2> HIDE DEF r
  <2>4. Within(n, r, maximum)
    BY ONLY <1>2, <2>1, <2>2, <2>3 DEF Within
  <2> QED BY <2>4 DEF r
<1>6. CASE w.type = "block_stop"
  <2>1. r = ContentStop(n, w)
    BY <1>6 DEF AnthropicNormalize
  <2> HIDE DEF r
  <2>2. r.ok => r.n.wire = n.wire /\ r.n.visible = n.visible
    BY <2>1 DEF ContentStop, Rejected, Emit, Norm
  <2> QED BY <2>2, StaysWithin DEF r
<1>7. CASE w.type = "message_delta"
  <2>1. r = MessageDelta(n, w)
    BY <1>7 DEF AnthropicNormalize
  <2> HIDE DEF r
  <2>2. r.ok => r.n.wire = n.wire /\ r.n.visible = n.visible
    BY <2>1 DEF MessageDelta, Rejected, Emit, Norm
  <2> QED BY <2>2, StaysWithin DEF r
<1>8. CASE w.type = "message_stop"
  <2>1. r = MessageStop(n)
    BY <1>8 DEF AnthropicNormalize
  <2> HIDE DEF r
  <2>2. r.ok => r.n.wire = n.wire /\ r.n.visible = n.visible
    BY <2>1 DEF MessageStop, Rejected, Emit, Norm
  <2> QED BY <2>2, StaysWithin DEF r
<1>9. CASE w.type = "other"
  <2>1. r \in {Rejected(n), Emit(n, <<Event("unknown")>>)}
    BY <1>9 DEF AnthropicNormalize
  <2> HIDE DEF r
  <2>2. r.ok => r.n.wire = n.wire /\ r.n.visible = n.visible
    BY <2>1 DEF Rejected, Emit
  <2> QED BY <2>2, StaysWithin DEF r
<1> QED
  BY <1>1, <1>3, <1>4, <1>5, <1>6, <1>7, <1>8, <1>9

\* A frame keeps within the limits of its stream.
LEMMA NormalizeWithin ==
  ASSUME NEW U, NEW n \in Norm(U), NEW mode \in {"openai", "anthropic", "ollama", "background"},
         NEW w \in FramesOf(mode), NEW limits, limits.visible \in Nat, limits.frames \in Nat, NEW used,
         n.visible <= limits.visible, Normalize(mode, n, w, limits, used).ok
  PROVE  LET k == Normalize(mode, n, w, limits, used).n
         IN k.wire <= limits.frames /\ k.visible <= limits.visible
<1> DEFINE m == [n EXCEPT !.wire = @ + 1]
           r == Normalize(mode, n, w, limits, used)
<1>1. m \in Norm(U) /\ m.wire = n.wire + 1 /\ m.visible = n.visible /\ n.wire \in Nat
  BY DEF Norm
<1>2. ~(n.wire >= limits.frames)
  BY DEF Normalize, Rejected
<1>3. m.wire <= limits.frames
  BY <1>1, <1>2
<1> HIDE DEF m
<1>4. Within(m, r, limits.visible)
  <2>1. CASE mode = "openai"
    <3>1. w \in OpenAiFrames /\ r = OpenAiNormalize(m, w, limits)
      BY <1>2, <2>1 DEF FramesOf, Normalize, m
    <3> QED BY <1>1, <3>1, OpenAiWithin
  <2>2. CASE mode = "anthropic"
    <3>1. w \in AnthropicFrames /\ r = AnthropicNormalize(m, w, limits.visible)
      BY <1>2, <2>2 DEF FramesOf, Normalize, m
    <3> QED BY <1>1, <3>1, AnthropicWithin
  <2>3. CASE mode = "ollama"
    <3>1. r = OllamaNormalize(m, w, used)
      BY <1>2, <2>3 DEF Normalize, m
    <3>2. r.n.wire = m.wire /\ r.n.visible = m.visible
      BY <1>1, <3>1 DEF OllamaNormalize, Rejected, Emit, Norm
    <3> QED BY <3>2, StaysWithin
  <2>4. CASE mode = "background"
    BY <2>4 DEF FramesOf
  <2> QED BY <2>1, <2>2, <2>3, <2>4
<1> HIDE DEF r
<1>5. r.n.wire = m.wire /\ r.n.visible <= limits.visible
  <2>1. r.ok
    BY DEF r
  <2> QED BY <1>1, <1>4, <2>1 DEF Within
<1> QED
  BY <1>3, <1>5 DEF r

\* The counts of a call are within its limits; it asks for a call once; an
\* answer of OpenAI that asks for calls has an id.
CountInv ==
  /\ norm.wire \in 0..conf.frames /\ norm.visible \in 0..conf.visible
  /\ exec.count \in 0..MaxEvents /\ IsInjective(exec.order)
  /\ conf.kind = "background" => exec.order = <<>>
  /\ phase = "accepted" /\ exec.order # <<>> /\ ~Stateless => exec.id # 0

LEMMA LimitsAre ==
  ASSUME conf \in Deployment
  PROVE  /\ conf.frames \in Nat /\ conf.visible \in Nat /\ conf.calls \in Nat /\ conf.turns \in Nat
         /\ conf.total \in Nat /\ conf.store \in BOOLEAN /\ conf.live \in BOOLEAN /\ MaxEvents \in Nat
         /\ conf.kind \in {"openai", "anthropic", "ollama", "background"}
BY ProviderCallAssumption

LEMMA NewCounts ==
  ASSUME conf \in Deployment
  PROVE  /\ NewNormalizer.wire \in 0..conf.frames /\ NewNormalizer.visible \in 0..conf.visible
         /\ NewCall.count \in 0..MaxEvents /\ NewCall.order = <<>> /\ IsInjective(NewCall.order)
<1>1. conf.frames \in Nat /\ conf.visible \in Nat /\ MaxEvents \in Nat
  BY LimitsAre
<1>2. NewNormalizer.wire = 0 /\ NewNormalizer.visible = 0 /\ NewCall.count = 0 /\ NewCall.order = <<>>
  BY DEF NewNormalizer, NewCall
<1>3. IsInjective(<<>>)
  BY DEF IsInjective
<1> QED
  BY <1>1, <1>2, <1>3

\* A call that starts, or fails.
LEMMA FreshCounts ==
  ASSUME CallTypes, conf' = conf, norm' = NewNormalizer, exec' = NewCall
  PROVE  CountInv'
<1>1. conf \in Deployment
  BY DEF CallTypes
<1> QED
  BY <1>1, NewCounts DEF CountInv

LEMMA FailingCounts ==
  ASSUME CallTypes, conf' = conf, CallFails
  PROVE  CountInv'
BY FreshCounts DEF CallFails, StreamEnds

\* A call that is over, or waits.
LEMMA SameCounts ==
  ASSUME CountInv, conf' = conf, norm' = norm, exec' = exec, phase' = phase \/ phase' # "accepted"
  PROVE  CountInv'
BY DEF CountInv, Stateless

LEMMA ReceiveCounts ==
  ASSUME CallInv, CountInv, NEW used, NEW w \in FramesOf(conf.kind), Receive(w, used)
  PROVE  CountInv'
<1> DEFINE r == Normalize(conf.kind, norm, w, conf, used)
<1>0. CallTypes /\ HeardInv
  BY DEF CallInv
<1>1. /\ conf' = conf /\ phase = "streaming"
      /\ \/ r.ok /\ norm' = r.n /\ phase' = phase /\ exec' = exec
         \/ CallFails
  BY DEF Receive, Waiting
<1>2. CASE CallFails
  BY <1>0, <1>1, <1>2, FailingCounts
<1>3. CASE r.ok /\ norm' = r.n /\ phase' = phase /\ exec' = exec
  <2>1. conf \in Deployment
    BY <1>0 DEF CallTypes
  <2>2. PICK U : Reading(U)
    BY <1>0 DEF CallTypes
  <2>3. norm \in Norm(U) /\ norm.visible <= conf.visible
    BY <2>1, <2>2, LimitsAre DEF Reading, CountInv
  <2>4. conf.kind \in {"openai", "anthropic", "ollama", "background"} /\ conf.visible \in Nat /\ conf.frames \in Nat
    BY <2>1, LimitsAre
  <2>5. r.n.wire <= conf.frames /\ r.n.visible <= conf.visible
    BY <1>3, <2>3, <2>4, NormalizeWithin
  <2> HIDE DEF r
  <2>6. PICK V : norm' \in Norm(V)
    <3>1. conf.kind = "anthropic" /\ norm.completed => norm.stop
      BY <1>0, <1>1 DEF HeardInv
    <3>2. 0 \in U /\ CallId \subseteq U /\ norm \in Norm(U)
      BY <2>2 DEF Reading, Ids
    <3>3. \E V : U \subseteq V /\ Accepts(conf.kind, norm, w, r, V)
      BY <2>4, <3>1, <3>2, FrameAccepted DEF r
    <3> QED BY <1>3, <3>3 DEF Accepts
  <2>7. norm'.wire \in Nat /\ norm'.visible \in Nat
    BY <2>6 DEF Norm
  <2>8. norm'.wire \in 0..conf.frames /\ norm'.visible \in 0..conf.visible
    BY <1>3, <2>4, <2>5, <2>7
  <2> QED BY <1>1, <1>3, <2>8 DEF CountInv
<1> QED
  BY <1>1, <1>2, <1>3

LEMMA ConsumeCounts ==
  ASSUME CallInv, CountInv, Consume
  PROVE  CountInv'
<1> DEFINE e == Head(queue)
<1>1. /\ conf' = conf /\ phase = "streaming" /\ queue # <<>> /\ Acceptable(exec, e)
      /\ \/ exec' = [Recorded(exec, e) EXCEPT !.count = @ + 1] /\ phase' = phase /\ norm' = norm
         \/ CallFails
  BY DEF Consume, PersistFails
<1>2. CallTypes /\ BackgroundInv
  BY DEF CallInv
<1>3. CASE CallFails
  BY <1>1, <1>2, <1>3, FailingCounts
<1>4. CASE exec' = [Recorded(exec, e) EXCEPT !.count = @ + 1] /\ phase' = phase /\ norm' = norm
  <2>1. PICK U : Reading(U)
    BY <1>2 DEF CallTypes
  <2>2. e \in EventOf(U)
    <3> DEFINE E == EventOf(U)
    <3>1. queue \in Seq(E)
      BY <2>1 DEF Reading
    <3> HIDE DEF E
    <3>2. Head(queue) \in E
      BY <1>1, <3>1
    <3> QED BY <3>2 DEF E
  <2> DEFINE r == Recorded(exec, e)
  <2>3. r \in CallOf(U) /\ r.order = exec.order \o AskedIn(e) /\ r.count = exec.count /\ exec \in CallOf(U)
    BY <2>1, <2>2, RecordedSays DEF Reading
  <2> HIDE DEF e, r
  <2>4. exec'.order = exec.order \o AskedIn(e) /\ exec'.count = exec.count + 1
    <3>1. exec' = [r EXCEPT !.count = @ + 1]
      BY <1>4 DEF r
    <3> QED BY ONLY <2>3, <3>1 DEF CallOf
  <2>5. exec'.count \in 0..MaxEvents
    <3>1. exec.count < MaxEvents /\ exec.count \in Nat /\ MaxEvents \in Nat
      BY <1>1, <1>2, <2>3, LimitsAre DEF Acceptable, CallTypes, CallOf
    <3> QED BY <2>4, <3>1
  <2>6. IsInjective(exec'.order)
    <3>1. exec.order \in Seq(U) /\ IsInjective(exec.order)
      BY <2>3 DEF CallOf, CountInv
    <3>2. CASE e.type # "call"
      <4>1. AskedIn(e) = <<>>
        BY <3>2 DEF AskedIn
      <4>2. exec.order \o <<>> = exec.order
        BY <3>1, Concatenation
      <4> QED BY <2>4, <3>1, <4>1, <4>2
    <3>3. CASE e.type = "call"
      <4>1. AskedIn(e) = <<e.call>> /\ e.call \notin Range(exec.order) /\ e.call \in U
        BY <1>1, <2>2, <3>3 DEF AskedIn, Acceptable, EventOf
      <4> DEFINE o == exec.order
                 c == e.call
                 u == o \o <<c>>
      <4> HIDE DEF o, c
      <4>2. o \in Seq(U) /\ c \in U /\ c \notin Range(o) /\ IsInjective(o)
        BY <3>1, <4>1 DEF o, c
      <4>3. u = Append(o, c)
        BY <4>2
      <4>4. /\ DOMAIN u = 1..Len(o) + 1 /\ Len(o) \in Nat /\ u[Len(o) + 1] = c
            /\ \A i \in 1..Len(o) : u[i] = o[i] /\ o[i] # c
        <5>1. \A i \in 1..Len(o) : o[i] # c
          BY <4>2 DEF Range
        <5> QED BY <4>2, <4>3, <5>1
      <4>5. \A i, j \in 1..Len(o) : o[i] = o[j] => i = j
        BY <4>2 DEF IsInjective
      <4> HIDE DEF u
      <4>6. \A i \in 1..Len(o) + 1 : i \in 1..Len(o) \/ i = Len(o) + 1
        BY <4>4
      <4>7. IsInjective(u)
        BY ONLY <4>4, <4>5, <4>6, ZenonT(30) DEF IsInjective
      <4> QED BY <2>4, <4>1, <4>7 DEF u, o, c
    <3> QED BY <3>2, <3>3
  <2>7. conf.kind # "background"
    BY <1>1, <1>2 DEF BackgroundInv
  <2> QED BY <1>1, <1>4, <2>5, <2>6, <2>7 DEF CountInv
<1> QED
  BY <1>1, <1>3, <1>4

LEMMA RetrieveCounts ==
  ASSUME CallInv, NEW d \in BackgroundDocuments, Retrieve(d)
  PROVE  CountInv'
<1>1. /\ conf' = conf /\ conf.kind = "background" /\ phase = "streaming"
      /\ \/ StreamEnds /\ exec' = FoldLeft(Recorded, exec, BackgroundEvents(d))
         \/ CallFails
  BY DEF Retrieve
<1>2. CallTypes /\ exec = NewCall /\ conf \in Deployment
  BY <1>1 DEF CallInv, BackgroundInv, CallTypes
<1>3. CASE CallFails
  BY <1>1, <1>2, <1>3, FailingCounts
<1>4. CASE StreamEnds /\ exec' = FoldLeft(Recorded, exec, BackgroundEvents(d))
  <2>1. PICK U : Ids(U)
    BY <1>2 DEF CallTypes, Reading
  <2>2. BackgroundEvents(d) \in Seq(EventOf(U)) /\ Asked(BackgroundEvents(d)) = <<>>
    BY <2>1, DocumentSays
  <2>3. exec'.order = <<>> /\ exec'.count = 0
    BY <1>2, <1>4, <2>1, <2>2, RecordAll
  <2>4. IsInjective(<<>>)
    BY DEF IsInjective
  <2> QED BY <1>1, <1>2, <1>4, <2>3, <2>4, NewCounts, LimitsAre DEF CountInv, StreamEnds
<1> QED
  BY <1>1, <1>3, <1>4

LEMMA StreamingCounts ==
  ASSUME CallInv, CountInv, Streaming
  PROVE  CountInv'
<1>1. CallTypes
  BY DEF CallInv
<1>2. CASE \E w \in FramesOf(conf.kind) : Receive(w, UsedCalls)
  <2>1. PICK w \in FramesOf(conf.kind) : Receive(w, UsedCalls)
    BY <1>2
  <2> QED BY <2>1, ReceiveCounts
<1>3. CASE BrokenStream
  BY <1>1, <1>3, FailingCounts DEF BrokenStream
<1>4. CASE Consume
  BY <1>4, ConsumeCounts
<1>5. CASE RefuseEvent
  BY <1>1, <1>5, FailingCounts DEF RefuseEvent
<1>6. CASE Tick
  BY <1>6, SameCounts DEF Tick
<1>7. CASE TimerFires
  <2>1. \/ conf' = conf /\ norm' = norm /\ exec' = exec /\ phase' = phase
        \/ conf' = conf /\ CallFails
    BY <1>7 DEF TimerFires, PersistFails
  <2> QED BY <1>1, <2>1, SameCounts, FailingCounts
<1>8. CASE EndOfStream
  <2>1. /\ conf' = conf
        /\ \/ AnswerIsComplete(exec) /\ StreamEnds /\ exec' = exec /\ phase' = "accepted"
           \/ CallFails
    BY <1>8 DEF EndOfStream, PersistFails
  <2>2. CASE CallFails
    BY <1>1, <2>1, <2>2, FailingCounts
  <2>3. CASE AnswerIsComplete(exec) /\ StreamEnds /\ exec' = exec /\ phase' = "accepted"
    <3>1. conf \in Deployment
      BY <1>1 DEF CallTypes
    <3>2. conf.kind \in {"openai", "anthropic", "ollama", "background"}
      BY <3>1, LimitsAre
    <3>3. norm'.wire \in 0..conf.frames /\ norm'.visible \in 0..conf.visible
      BY <2>3, <3>1, NewCounts DEF StreamEnds
    <3>4. exec.order # <<>> /\ ~Stateless => exec.id # 0
      BY <2>3, <3>2 DEF AnswerIsComplete, Stateless, CountInv
    <3> QED BY <2>1, <2>3, <3>3, <3>4 DEF CountInv, Stateless
  <2> QED BY <2>1, <2>2, <2>3
<1>9. CASE \E d \in BackgroundDocuments : Retrieve(d)
  BY <1>9, RetrieveCounts
<1> QED
  BY <1>2, <1>3, <1>4, <1>5, <1>6, <1>7, <1>8, <1>9 DEF Streaming, CallNext

\* Every step keeps the counts.
LEMMA CountStep ==
  ASSUME CallInv, CountInv, [Next]_vars
  PROVE  CountInv'
<1>1. CallTypes
  BY DEF CallInv
<1>2. CASE BeginTurn
  <2>1. /\ \/ conf' = conf /\ norm' = NewNormalizer /\ exec' = NewCall
           \/ conf' = conf /\ norm' = norm /\ exec' = exec /\ phase' = "refused"
    BY <1>2 DEF BeginTurn, OpenStream
  <2> QED BY <1>1, <2>1, FreshCounts, SameCounts
<1>3. CASE Streaming
  BY <1>3, StreamingCounts
<1>4. CASE ObserveTurn
  <2>1. conf' = conf /\ norm' = norm /\ exec' = NewCall
    BY <1>4 DEF ObserveTurn
  <2> QED BY <1>1, <2>1, NewCounts DEF CountInv, CallTypes
<1>5. CASE \E i \in DOMAIN guard.order : RunTool(i)
  BY <1>5, SameCounts DEF RunTool
<1>6. CASE CloseBatch
  BY <1>6, SameCounts DEF CloseBatch
<1>7. CASE Crash
  BY <1>7, SameCounts DEF Crash
<1>8. CASE Adopt
  BY <1>8, SameCounts DEF Adopt
<1>9. CASE ChangeDefinition
  BY <1>9, SameCounts DEF ChangeDefinition, callVars
<1>10. CASE Finish
  BY <1>10, SameCounts DEF Finish, PersistOutput
<1>11. CASE FinishBackground
  <2>1. \/ conf' = conf /\ norm' = norm /\ exec' = exec /\ phase' = "finished"
        \/ conf' = conf /\ norm' = norm /\ exec' = NewCall
    BY <1>11 DEF FinishBackground, PersistBackgroundOutput
  <2>2. CASE conf' = conf /\ norm' = norm /\ exec' = NewCall
    BY <1>1, <2>2, NewCounts DEF CountInv, CallTypes
  <2> QED BY <2>1, <2>2, SameCounts
<1>12. CASE UNCHANGED vars
  BY <1>12, SameCounts DEF vars, callVars
<1> QED
  BY <1>2, <1>3, <1>4, <1>5, <1>6, <1>7, <1>8, <1>9, <1>10, <1>11, <1>12 DEF Next

LEMMA CountStarts == Init => CountInv
<1> SUFFICES ASSUME Init PROVE CountInv
  OBVIOUS
<1>1. PICK c \in Deployment : CallInit(c)
  BY DEF Init
<1>2. conf \in Deployment /\ phase = "idle" /\ norm = NewNormalizer /\ exec = NewCall
  BY <1>1 DEF CallInit
<1> QED
  BY <1>2, NewCounts DEF CountInv

-----------------------------------------------------------------------------
(***************************************************************************)
(* The steps that leave the conversation as it is.                         *)
(***************************************************************************)
\* The fields of the guard.
GuardOf(turns, total, expected, order, outputs, c, replay, terminal, gen) ==
  [turns |-> turns, total |-> total, expected |-> expected, order |-> order, outputs |-> outputs,
   cont |-> c, replay |-> replay, terminal |-> terminal, gen |-> gen]

GuardBox(turns, total, expected, order, outputs, c, replay, terminal, gen) ==
  [turns : {turns}, total : {total}, expected : {expected}, order : {order}, outputs : {outputs},
   cont : {c}, replay : {replay}, terminal : {terminal}, gen : {gen}]

LEMMA GuardInBox ==
  ASSUME NEW turns, NEW total, NEW expected, NEW order, NEW outputs, NEW c, NEW replay, NEW terminal, NEW gen, NEW g
  PROVE  g \in GuardBox(turns, total, expected, order, outputs, c, replay, terminal, gen)
         <=> g = GuardOf(turns, total, expected, order, outputs, c, replay, terminal, gen)
BY DEF GuardBox, GuardOf

LEMMA GuardFields ==
  ASSUME NEW turns, NEW total, NEW expected, NEW order, NEW outputs, NEW c, NEW replay, NEW terminal, NEW gen,
         NEW g, g = GuardOf(turns, total, expected, order, outputs, c, replay, terminal, gen)
  PROVE  /\ g.turns = turns /\ g.total = total /\ g.expected = expected /\ g.order = order
         /\ g.outputs = outputs /\ g.cont = c /\ g.replay = replay /\ g.gen = gen
         /\ g = GuardOf(g.turns, g.total, g.expected, g.order, g.outputs, g.cont, g.replay, g.terminal, g.gen)
BY DEF GuardOf

\* A guard with fields of its own keeps GuardIs.
LEMMA GuardIsNext ==
  ASSUME conf' \in Deployment, definition' \in Nat, crashes' \in Nat,
         NEW turns, NEW total, NEW expected, NEW order, NEW outputs, NEW c, NEW replay, NEW terminal, NEW gen,
         guard' = GuardOf(turns, total, expected, order, outputs, c, replay, terminal, gen),
         turns \in 0..conf'.turns, total \in 0..conf'.total, gen \in Nat
  PROVE  /\ GuardIs'
         /\ guard'.turns = turns /\ guard'.total = total /\ guard'.expected = expected /\ guard'.order = order
         /\ guard'.outputs = outputs /\ guard'.cont = c /\ guard'.replay = replay /\ guard'.gen = gen
<1>1. /\ guard'.turns = turns /\ guard'.total = total /\ guard'.expected = expected /\ guard'.order = order
      /\ guard'.outputs = outputs /\ guard'.cont = c /\ guard'.replay = replay /\ guard'.gen = gen
      /\ guard' = GuardOf(guard'.turns, guard'.total, guard'.expected, guard'.order, guard'.outputs,
                          guard'.cont, guard'.replay, guard'.terminal, guard'.gen)
  BY GuardFields
<1> QED
  BY <1>1 DEF GuardIs, GuardOf

LEMMA GuardStays ==
  ASSUME GuardIs, guard' = guard, conf' = conf, definition' \in Nat, crashes' \in Nat
  PROVE  GuardIs'
BY DEF GuardIs

\* What a guard starts with, in this attempt and in the next.
LEMMA NewGuardIs == NewGuard = GuardOf(0, 0, NoContinuation, <<>>, {}, NoContinuation, <<>>, FALSE, 1)
BY DEF NewGuard, GuardOf

\* The parts of the invariant.
LEMMA ConvNext ==
  ASSUME GuardIs', NEW V, NEW h,
         \/ phase' \in Phases /\ Going(V, h)'
         \/ phase' \in {"finished", "failed"}
  PROVE  ConvInv'
<1>1. phase' # "refused" /\ phase' # "not_adopted" /\ phase' \in Phases \cup Endings
  BY DEF Phases, Going, Endings
<1>2. phase' \in Phases => \E W, k : Going(W, k)'
  BY DEF Phases
<1> QED
  BY <1>1, <1>2 DEF ConvInv, RefusedForAReason, NotAdoptedForAReason

LEMMA SendingStays ==
  ASSUME NEW V, NEW h, Sending(V, h), conf' = conf, UNCHANGED <<guard, request, sent, rows, asked>>
  PROVE  Sending(V, h)'
BY DEF Sending, SentTo, Stateless

LEMMA StoppedStays ==
  ASSUME NEW V, NEW h, Stopped(V, h), conf' = conf, UNCHANGED <<checkpoint, rows, asked>>
  PROVE  Stopped(V, h)'
BY DEF Stopped, Continues, Replays, Resumes, Stateless

\* The conversation starts.
LEMMA ConvStarts == Init => ConvInv
<1> SUFFICES ASSUME Init PROVE ConvInv
  OBVIOUS
<1>1. PICK c \in Deployment : CallInit(c)
  BY DEF Init
<1>2. /\ conf \in Deployment /\ phase = "idle" /\ guard = NewGuard /\ cont = NoContinuation
      /\ rows = <<>> /\ checkpoint = NoCheckpoint /\ definition = 1 /\ asked = <<>> /\ crashes = 0
  BY <1>1 DEF Init, CallInit
<1>3. conf.turns \in Nat /\ conf.total \in Nat
  BY <1>2, LimitsAre
<1>4. /\ guard = GuardOf(guard.turns, guard.total, guard.expected, guard.order, guard.outputs, guard.cont,
                         guard.replay, guard.terminal, guard.gen)
      /\ guard.turns = 0 /\ guard.total = 0 /\ guard.order = <<>> /\ guard.outputs = {} /\ guard.gen = 1
  <2>1. guard = GuardOf(0, 0, NoContinuation, <<>>, {}, NoContinuation, <<>>, FALSE, 1)
    BY <1>2, NewGuardIs
  <2> QED BY ONLY <2>1 DEF GuardOf
<1>5. GuardIs
  BY <1>2, <1>3, <1>4 DEF GuardIs, GuardOf
<1>6. Len(<<>>) = 0
  OBVIOUS
<1>7. RowsAre(<<>>, <<>>, {0}) /\ History(<<>>, {0}, <<>>, <<>>)
  <2>1. \A S : <<>> \in Seq(S)
    OBVIOUS
  <2> QED BY <1>6, <2>1 DEF RowsAre, History
<1>8. Idle({0}, <<>>)
  BY <1>2, <1>4, <1>6 DEF Idle
<1>9. Going({0}, <<>>)
  BY <1>2, <1>7, <1>8 DEF Going
<1> QED
  BY <1>2, <1>5, <1>9 DEF ConvInv, Phases, RefusedForAReason, NotAdoptedForAReason

\* The provider is with the turn.
LEMMA StreamingGoes ==
  ASSUME ConvInv, Streaming
  PROVE  ConvInv'
<1>1. UNCHANGED convVars /\ conf' = conf /\ phase = "streaming" /\ phase' \in {"streaming", "accepted", "failed"}
  <2>1. UNCHANGED convVars /\ CallNext(UsedCalls)
    BY DEF Streaming
  <2>2. CASE \E w \in FramesOf(conf.kind) : Receive(w, UsedCalls)
    BY <2>1, <2>2 DEF Receive, Waiting, CallFails
  <2>3. CASE BrokenStream
    BY <2>1, <2>3 DEF BrokenStream, Waiting, CallFails
  <2>4. CASE Consume
    BY <2>1, <2>4 DEF Consume, PersistFails, CallFails
  <2>5. CASE RefuseEvent
    BY <2>1, <2>5 DEF RefuseEvent, CallFails
  <2>6. CASE Tick
    BY <2>1, <2>6 DEF Tick, Waiting
  <2>7. CASE TimerFires
    BY <2>1, <2>7 DEF TimerFires, Waiting, PersistFails, CallFails
  <2>8. CASE EndOfStream
    BY <2>1, <2>8 DEF EndOfStream, Waiting, PersistFails, CallFails
  <2>9. CASE \E d \in BackgroundDocuments : Retrieve(d)
    BY <2>1, <2>9 DEF Retrieve, CallFails
  <2> QED BY <2>1, <2>2, <2>3, <2>4, <2>5, <2>6, <2>7, <2>8, <2>9 DEF CallNext
<1>2. UNCHANGED <<guard, request, sent, rows, asked>> /\ definition' = definition /\ crashes' = crashes
  BY <1>1 DEF convVars
<1>3. PICK V, h : Going(V, h)
  BY <1>1 DEF ConvInv, Phases
<1>4. Sending(V, h)'
  BY <1>1, <1>2, <1>3, SendingStays DEF Going
<1>5. Going(V, h)' \/ phase' = "failed"
  BY <1>1, <1>2, <1>3, <1>4 DEF Going
<1>6. GuardIs'
  BY <1>1, <1>2, GuardStays DEF ConvInv, GuardIs
<1> QED
  BY <1>1, <1>5, <1>6, ConvNext DEF Phases

\* A background answer that could not be stored is retrieved again.
LEMMA FinishBackgroundGoes ==
  ASSUME ConvInv, FinishBackground
  PROVE  ConvInv'
<1>1. UNCHANGED convVars /\ conf' = conf /\ phase = "accepted" /\ phase' \in {"streaming", "finished"}
  BY DEF FinishBackground, PersistBackgroundOutput
<1>2. UNCHANGED <<guard, request, sent, rows, asked>> /\ definition' = definition /\ crashes' = crashes
  BY <1>1 DEF convVars
<1>3. PICK V, h : Going(V, h)
  BY <1>1 DEF ConvInv, Phases
<1>4. Sending(V, h)'
  BY <1>1, <1>2, <1>3, SendingStays DEF Going
<1>5. Going(V, h)'
  BY <1>1, <1>2, <1>3, <1>4 DEF Going
<1>6. GuardIs'
  BY <1>1, <1>2, GuardStays DEF ConvInv, GuardIs
<1> QED
  BY <1>1, <1>5, <1>6, ConvNext DEF Phases

\* The last answer is a turn within the limit.
LEMMA FinishGoes ==
  ASSUME ConvInv, Finish
  PROVE  ConvInv'
<1>1. /\ conf' = conf /\ phase = "accepted" /\ phase' \in {"failed", "finished"}
      /\ guard' = [guard EXCEPT !.terminal = TRUE, !.turns = @ + 1]
      /\ definition' = definition /\ crashes' = crashes
  BY DEF Finish, PersistOutput
<1>2. PICK V, h : Going(V, h)
  BY <1>1 DEF ConvInv, Phases
<1>3. guard.turns < conf.turns /\ GuardIs
  BY <1>1, <1>2 DEF ConvInv, Going, Sending
<1>4. guard.turns + 1 \in 0..conf.turns /\ conf.turns \in Nat
  <2>1. guard.turns \in 0..conf.turns /\ conf.turns \in Nat
    BY <1>3, LimitsAre DEF GuardIs
  <2> QED BY <1>3, <2>1
<1>5. guard' = GuardOf(guard.turns + 1, guard.total, guard.expected, guard.order, guard.outputs, guard.cont,
                       guard.replay, TRUE, guard.gen)
  <2>1. guard = GuardOf(guard.turns, guard.total, guard.expected, guard.order, guard.outputs, guard.cont,
                        guard.replay, guard.terminal, guard.gen)
    BY <1>3 DEF GuardIs, GuardOf
  <2>2. guard \in GuardBox(guard.turns, guard.total, guard.expected, guard.order, guard.outputs, guard.cont,
                          guard.replay, guard.terminal, guard.gen)
    BY <2>1, GuardInBox
  <2>3. guard' \in GuardBox(guard.turns + 1, guard.total, guard.expected, guard.order, guard.outputs, guard.cont,
                           guard.replay, TRUE, guard.gen)
    BY ONLY <1>1, <2>2 DEF GuardBox
  <2> QED BY ONLY <2>3 DEF GuardBox, GuardOf
<1>6. GuardIs'
  <2>1. guard.total \in 0..conf'.total /\ guard.gen \in Nat /\ conf' \in Deployment /\ definition' \in Nat /\ crashes' \in Nat
    BY <1>1, <1>3 DEF GuardIs
  <2>2. guard.turns + 1 \in 0..conf'.turns
    BY <1>1, <1>4
  <2> QED BY ONLY <1>5, <2>1, <2>2, GuardIsNext
<1> QED
  BY <1>1, <1>6, ConvNext DEF Phases

\* The process dies with the checkpoint of the last turn.
LEMMA CrashGoes ==
  ASSUME ConvInv, Crash
  PROVE  ConvInv'
<1>1. /\ conf' = conf /\ phase = "idle" /\ phase' = "crashed" /\ guard' = NewGuard /\ checkpoint # NoCheckpoint
      /\ crashes' = crashes + 1 /\ definition' = definition
      /\ UNCHANGED <<rows, checkpoint, asked>>
  BY DEF Crash
<1>2. PICK V, h : Going(V, h)
  BY <1>1 DEF ConvInv, Phases
<1>3. Stopped(V, h)'
  BY <1>1, <1>2, StoppedStays DEF Going, Idle
<1>4. Going(V, h)'
  BY <1>1, <1>2, <1>3 DEF Going
<1>5. GuardIs'
  <2>1. conf.turns \in Nat /\ conf.total \in Nat /\ conf' \in Deployment /\ definition' \in Nat /\ crashes' \in Nat
    BY <1>1, LimitsAre DEF ConvInv, GuardIs
  <2>2. 0 \in 0..conf'.turns /\ 0 \in 0..conf'.total /\ 1 \in Nat
    BY <1>1, <2>1
  <2>3. guard' = GuardOf(0, 0, NoContinuation, <<>>, {}, NoContinuation, <<>>, FALSE, 1)
    BY <1>1, NewGuardIs
  <2> QED BY ONLY <2>1, <2>2, <2>3, GuardIsNext
<1> QED
  BY <1>1, <1>4, <1>5, ConvNext DEF Phases

\* The tool's definition changes; and a step may leave everything as it is.
LEMMA ChangeDefinitionGoes ==
  ASSUME ConvInv, ChangeDefinition
  PROVE  ConvInv'
<1>1. /\ conf' = conf /\ phase = "idle" /\ phase' = phase /\ guard' = guard /\ definition' = 2 /\ crashes' = crashes
      /\ cont' = cont /\ UNCHANGED <<rows, checkpoint, asked>>
  BY DEF ChangeDefinition, callVars
<1>2. PICK V, h : Going(V, h)
  BY <1>1 DEF ConvInv, Phases
<1>3. Idle(V, h)'
  BY <1>1, <1>2, StoppedStays DEF Going, Idle
<1>4. Going(V, h)'
  BY <1>1, <1>2, <1>3 DEF Going
<1>5. GuardIs'
  BY <1>1, GuardStays DEF ConvInv, GuardIs
<1> QED
  BY <1>1, <1>4, <1>5, ConvNext DEF Phases

LEMMA StutterGoes ==
  ASSUME ConvInv, UNCHANGED vars
  PROVE  ConvInv'
<1>1. UNCHANGED <<conf, phase, guard, cont, request, sent, rows, checkpoint, definition, asked, crashes>>
  BY DEF vars, callVars, convVars
<1>2. GuardIs' /\ phase' \in Phases \cup Endings
  BY <1>1, GuardStays DEF ConvInv, GuardIs
<1>3. RefusedForAReason' /\ NotAdoptedForAReason'
  BY <1>1 DEF ConvInv, RefusedForAReason, NotAdoptedForAReason, Stateless
<1>4. ASSUME NEW V, NEW h, Going(V, h) PROVE Going(V, h)'
  <2>1. phase = "idle" => Idle(V, h)'
    BY <1>1, <1>4, StoppedStays DEF Going, Idle
  <2>2. phase \in {"streaming", "accepted"} => Sending(V, h)'
    BY <1>1, <1>4, SendingStays DEF Going
  <2>3. phase = "tools" => Batching(V, h)'
    BY <1>1, <1>4 DEF Going, Batching, TurnRows, OutputsOf, Stateless
  <2>4. phase = "crashed" => Stopped(V, h)'
    BY <1>1, <1>4, StoppedStays DEF Going
  <2> QED BY <1>1, <1>4, <2>1, <2>2, <2>3, <2>4 DEF Going
<1> QED
  BY <1>1, <1>2, <1>3, <1>4 DEF ConvInv

-----------------------------------------------------------------------------
(***************************************************************************)
(* A turn begins: the request that is applied from what is in hand.        *)
(***************************************************************************)
FineRequest(r) == PlanIsBound(r) /\ TransfersCover(r) /\ CanContinue(r)

\* The reasons to refuse a request.
Refusable(r) ==
  \/ ~Stateless /\ ~conf.store
  \/ Stateless /\ \/ \E i \in DOMAIN r.cont.messages :
                        r.cont.messages[i].role = "assistant" /\ r.cont.messages[i].tool # r.tool
                  \/ Len(r.cont.messages) > MaxMessages
                  \/ Len(r.transfers) > MaxResults

ContBox(id, messages, input, transfers, replay) ==
  [id : {id}, messages : {messages}, input : {input}, transfers : {transfers}, replay : {replay}]

LEMMA ContInBox ==
  ASSUME NEW id, NEW messages, NEW input, NEW transfers, NEW replay, NEW c
  PROVE  c \in ContBox(id, messages, input, transfers, replay) <=> c = Cont(id, messages, input, transfers, replay)
BY DEF ContBox, Cont

\* apply_with_transfers.
AppliedSays(r, id, messages, input, transfers, replay) ==
  /\ r.cont = Cont(id, messages, input, <<>>, <<>>) /\ r.transfers = replay \o transfers
  /\ r.tool = definition

LEMMA AppliedIs ==
  ASSUME NEW id, NEW messages, NEW input, NEW transfers, NEW replay, NEW c,
         c = Cont(id, messages, input, transfers, replay)
  PROVE  AppliedSays(Applied(c), id, messages, input, transfers, replay)
<1>1. c \in ContBox(id, messages, input, transfers, replay)
  BY ContInBox
<1>2. [c EXCEPT !.transfers = <<>>, !.replay = <<>>] \in ContBox(id, messages, input, <<>>, <<>>)
  BY ONLY <1>1 DEF ContBox
<1>3. [c EXCEPT !.transfers = <<>>, !.replay = <<>>] = Cont(id, messages, input, <<>>, <<>>)
  BY <1>2, ContInBox
<1>4. c.replay = replay /\ c.transfers = transfers
  BY DEF Cont
<1> QED
  BY <1>3, <1>4 DEF AppliedSays, Applied

LEMMA NoContinuationIs == NoContinuation = Cont(0, <<>>, <<>>, <<>>, <<>>)
BY DEF NoContinuation, Cont

\* A turn's results answer its calls, each once.
LEMMA CallsAnswered ==
  ASSUME NEW V, 0 \in V, NEW x \in TurnOf(V), Fitting(x)
  PROVE  /\ [i \in 1..Len(x.results) |-> x.results[i].call] = x.calls
         /\ IsInjective([i \in 1..Len(x.results) |-> x.results[i].call])
         /\ x.results \in Seq(ResultOf(V)) /\ x.results # <<>> /\ Len(x.results) = Len(x.calls) /\ Len(x.calls) \in Nat
         /\ Len(Outputs(x.results)) = Len(x.results) /\ Outputs(x.results) \in Seq(Nat)
<1>1. /\ x.calls \in Seq(V) /\ Len(x.results) = Len(x.calls) /\ x.calls # <<>> /\ x.results \in Seq(ResultOf(V))
      /\ \A i \in 1..Len(x.calls) : x.results[i].call = x.calls[i]
      /\ IsInjective(x.calls)
  BY DEF TurnOf, Fitting
<1>2. x.calls = [i \in 1..Len(x.calls) |-> x.calls[i]] /\ Len(x.calls) # 0 /\ Len(x.calls) \in Nat
  BY <1>1
<1>3. [i \in 1..Len(x.results) |-> x.results[i].call] = x.calls
  BY <1>1, <1>2
<1>4. x.results # <<>>
  BY <1>1, <1>2
<1> QED
  BY <1>1, <1>2, <1>3, <1>4, ToolsAre

\* The first request.
FirstIs(r) ==
  /\ r.cont = NoContinuation /\ r.transfers = <<>> /\ FineRequest(r) /\ Before(r) = <<UserMessage>>
  /\ OpenAiBody(r) = <<WireUser>> /\ AnthropicBody(r) = <<WireUser>> /\ OllamaBody(r) = <<WireUser>>

LEMMA FirstRequest == FirstIs(Applied(NoContinuation))
<1> DEFINE r == Applied(NoContinuation)
<1>1. r.cont = NoContinuation /\ r.transfers = <<>> \o <<>>
  BY NoContinuationIs, AppliedIs DEF AppliedSays
<1>2. <<>> \o <<>> = <<>> /\ Len(<<>>) = 0 /\ IsInjective(<<>>)
  BY DEF IsInjective
<1> HIDE DEF r
<1>3. Disclosed(r.cont) = <<>>
  <2>1. DisclosedIs(r.cont, <<>>, <<>>)
    BY <1>1, NoContinuationIs, DisclosedInCont
  <2>2. ToolOutputs(<<>>) = <<>>
    BY ToolOutputsAre, 0 \in {0}
  <2>3. Outputs(<<>>) = <<>>
    BY DEF Outputs
  <2> QED BY <1>2, <2>1, <2>2, <2>3 DEF DisclosedIs
<1>4. FineRequest(r)
  BY <1>1, <1>2, <1>3 DEF FineRequest, PlanIsBound, ValidRequest, TransfersCover, CanContinue
<1> QED
  BY <1>1, <1>2, <1>4 DEF FirstIs, Before, OpenAiBody, AnthropicBody, OllamaBody, r

\* A request that replays the conversation is fine, or has a reason to be refused.
LEMMA ReplayRequest ==
  ASSUME NEW V, 0 \in V, NEW p, NEW x \in TurnOf(V), NEW q, NEW tl \in Nat, Told(q, p, V),
         Fitting(x), Range(x.calls) \cap CallsOf(p) = {}, Apart(x, p), Stateless, NEW c,
         c = Cont(0, Answered(q, x, tl), x.results, Outputs(x.results), ToolOutputs(q)), NEW r, r = Applied(c)
  PROVE  ReplayIs(r, p, x, q, V) /\ r.tool = definition /\ (FineRequest(r) \/ Refusable(r))
<1> DEFINE m == Answered(q, x, tl)
           w == Walk(m)
<1>1. r.cont = Cont(0, m, x.results, <<>>, <<>>) /\ r.transfers = ToolOutputs(q) \o Outputs(x.results) /\ r.tool = definition
  BY AppliedIs DEF AppliedSays
<1>2. ReplayIs(r, p, x, q, V)
  BY <1>1, ReplayTells
<1>3. r.cont.messages = m /\ r.cont.input = x.results
  BY <1>1, DisclosedInCont DEF DisclosedIs
<1>4. /\ WalkIsWhole(w, x.results) /\ Len(m) \in Nat /\ Len(m) >= 2 /\ DOMAIN m = 1..Len(m)
      /\ \A z \in w.tools : \E i \in 1..Len(m) : m[i].role = "assistant" /\ m[i].tool = z
      /\ Len(w.evidence) = Len(ToolOutputs(q)) /\ Len(w.evidence) \in Nat
  BY ReplayWalks DEF ReplayWalk
<1>5. Disclosed(r.cont) = r.transfers /\ IsInjective(r.transfers) /\ r.cont # NoContinuation
      /\ Len(r.transfers) = Len(ToolOutputs(q)) + Len(x.results)
  BY <1>2 DEF ReplayIs
<1>6. IsInjective([i \in 1..Len(x.results) |-> x.results[i].call]) /\ Len(x.results) \in Nat
  BY CallsAnswered
<1> HIDE DEF m, w
<1>7. ASSUME ~Refusable(r) PROVE FineRequest(r)
  <2>1. /\ ~\E i \in DOMAIN m : m[i].role = "assistant" /\ m[i].tool # r.tool
        /\ ~(Len(m) > MaxMessages) /\ ~(Len(r.transfers) > MaxResults)
    BY <1>3, <1>7 DEF Refusable
  <2>2. w.tools \subseteq {r.tool}
    BY <1>4, <2>1
  <2>3. Len(m) \in 2..MaxMessages /\ Len(w.evidence) + Len(x.results) <= MaxResults
    <3>1. MaxMessages \in Nat /\ MaxResults \in Nat
      BY ConversationAssumption
    <3> QED BY <1>4, <1>5, <1>6, <2>1, <3>1
  <2>4. ValidMessages(r.cont, r.tool)
    BY <1>3, <1>4, <2>2, <2>3 DEF ValidMessages, w
  <2> QED BY <1>3, <1>5, <1>6, <2>4 DEF FineRequest, PlanIsBound, ValidRequest, TransfersCover, CanContinue
<1> QED
  BY <1>1, <1>2, <1>7

\* A request that continues the retained response.
ResumeIs(r, x, id) ==
  /\ r.cont.id = id /\ r.transfers = Outputs(x.results) /\ OpenAiBody(r) = OpenAiResults(x.results)
  /\ r.tool = definition

LEMMA ResumeRequest ==
  ASSUME NEW V, 0 \in V, NEW p, NEW x \in TurnOf(V), Fitting(x), Apart(x, p), ~Stateless, NEW id, id # 0, NEW c,
         c = Cont(id, <<>>, x.results, Outputs(x.results), <<>>), NEW r, r = Applied(c)
  PROVE  ResumeIs(r, x, id) /\ (FineRequest(r) \/ Refusable(r))
<1>1. r.cont = Cont(id, <<>>, x.results, <<>>, <<>>) /\ r.transfers = <<>> \o Outputs(x.results) /\ r.tool = definition
  <2>1. AppliedSays(Applied(c), id, <<>>, x.results, Outputs(x.results), <<>>)
    BY AppliedIs
  <2> QED BY <2>1 DEF AppliedSays
<1>2. /\ r.cont.id = id /\ r.cont.input = x.results
      /\ Disclosed(r.cont) = ToolOutputs(<<>>) \o Outputs(x.results)
  BY <1>1, DisclosedInCont DEF DisclosedIs
<1>3. /\ IsInjective([i \in 1..Len(x.results) |-> x.results[i].call])
      /\ Outputs(x.results) \in Seq(Nat) /\ Len(Outputs(x.results)) = Len(x.results)
      /\ Len(x.results) \in Nat
  BY CallsAnswered
<1>4. <<>> \o Outputs(x.results) = Outputs(x.results) /\ ToolOutputs(<<>>) = <<>>
  BY <1>3, ToolOutputsAre, Concatenation
<1>5. r.cont # NoContinuation
  BY <1>2 DEF NoContinuation
<1>6. IsInjective(r.transfers)
  <2>1. \A i \in 1..Len(x.results) : Outputs(x.results)[i] = x.results[i].output
    BY DEF Outputs
  <2>2. DOMAIN Outputs(x.results) = 1..Len(x.results)
    BY <1>3
  <2>3. \A i, k \in 1..Len(x.results) : x.results[i].output = x.results[k].output => i = k
    BY DEF Apart
  <2>4. IsInjective(Outputs(x.results))
    BY <2>1, <2>2, <2>3 DEF IsInjective
  <2> QED BY <1>1, <1>4, <2>4
<1>7. OpenAiBody(r) = OpenAiResults(x.results)
  BY <1>2, <1>5 DEF OpenAiBody, OpenAiResults
<1>8. ASSUME conf.store PROVE FineRequest(r)
  BY <1>1, <1>2, <1>3, <1>4, <1>6, <1>8
     DEF FineRequest, PlanIsBound, ValidRequest, TransfersCover, CanContinue
<1> QED
  BY <1>1, <1>2, <1>4, <1>7, <1>8 DEF ResumeIs, Refusable

\* What the next turn is sent.
LEMMA FirstSent ==
  ASSUME NEW V, 0 \in V, asked = <<>>, rows = <<>>, NEW r, FirstIs(r), request' = r, sent' = Body(r),
         conf \in Deployment, conf' = conf, UNCHANGED <<asked, rows>>
  PROVE  SentTo(V, <<>>)'
<1>1. /\ Told(<<UserMessage>>, <<>>, V) /\ ToolOutputs(<<UserMessage>>) = <<>>
      /\ AnthropicHistory(<<UserMessage>>) = <<WireUser>> /\ OllamaOf(<<UserMessage>>) = <<WireUser>>
  BY ToldStarts
<1>2. sent' = <<WireUser>>
  <2>1. conf.kind \in {"openai", "anthropic", "ollama", "background"}
    BY LimitsAre
  <2>2. Body(r) = <<WireUser>>
    BY <2>1 DEF FirstIs, Body, Stateless
  <2> QED BY <2>2
<1>3. Before(request') = <<UserMessage>> /\ request'.transfers = <<>> /\ Len(<<>>) = 0
  BY DEF FirstIs
<1>4. asked' = <<>> /\ rows' = <<>>
  OBVIOUS
<1> QED
  BY ONLY <1>1, <1>2, <1>3, <1>4 DEF SentTo

LEMMA ReplaySent ==
  ASSUME NEW V, NEW p, NEW x, NEW q, NEW r, ReplayIs(r, p, x, q, V), Stateless, request' = r, sent' = Body(r),
         conf \in Deployment, conf' = conf, UNCHANGED <<asked, rows>>,
         Len(ToolOutputs(q)) + Len(x.results) = Len(rows)
  PROVE  SentTo(V, Append(p, x))'
<1>1. /\ Told(Before(r), Append(p, x), V) /\ ToolOutputs(Before(r)) = r.transfers
      /\ Len(r.transfers) = Len(rows)
      /\ AnthropicBody(r) = AnthropicHistory(Before(r)) /\ OllamaBody(r) = OllamaOf(Before(r))
  BY DEF ReplayIs
<1>2. Body(r) = IF conf.kind = "anthropic" THEN AnthropicHistory(Before(r)) ELSE OllamaOf(Before(r))
  BY <1>1 DEF Body, Stateless
<1>3. Stateless'
  BY DEF Stateless
<1> QED
  BY <1>1, <1>2, <1>3 DEF SentTo

LEMMA ResumeSent ==
  ASSUME NEW V, NEW p \in Seq(TurnOf(V)), NEW x \in TurnOf(V), NEW r, ResumeIs(r, x, asked[Len(asked)].id), ~Stateless,
         request' = r, sent' = Body(r), conf \in Deployment, conf' = conf, UNCHANGED <<asked, rows>>, asked # <<>>
  PROVE  SentTo(V, Append(p, x))'
<1>1. /\ r.cont.id = asked[Len(asked)].id /\ r.transfers = Outputs(x.results)
      /\ Body(r) = OpenAiResults(x.results)
  <2>1. Body(r) = OpenAiBody(r)
    BY DEF Body, Stateless
  <2> QED BY <2>1 DEF ResumeIs
<1>2. Append(p, x)[Len(Append(p, x))] = x
  BY TurnMore
<1>3. ~Stateless'
  BY DEF Stateless
<1> DEFINE h == Append(p, x)
<1> HIDE DEF h
<1>4. h[Len(h)] = x
  BY <1>2 DEF h
<1>5. SentTo(V, h)'
  BY <1>1, <1>3, <1>4 DEF SentTo
<1> QED
  BY <1>5 DEF h

\* The next turn begins, or has a reason not to.
LEMMA BeginTurnGoes ==
  ASSUME ConvInv, BeginTurn
  PROVE  ConvInv'
<1> DEFINE r == Applied(cont)
<1>1. /\ phase = "idle" /\ CanBegin /\ request' = r /\ conf' = conf
      /\ FineRequest(r) => phase' = "streaming" /\ sent' = Body(r)
      /\ ~FineRequest(r) => phase' = "refused"
      /\ UNCHANGED <<guard, cont, rows, checkpoint, definition, asked, crashes>>
  BY DEF BeginTurn, OpenStream, FineRequest
<1>2. PICK V, h : Going(V, h)
  BY <1>1 DEF ConvInv, Phases
<1>3. GuardIs /\ conf \in Deployment /\ definition \in Nat
  BY DEF ConvInv, GuardIs
<1>4. GuardIs'
  BY <1>1, <1>3, GuardStays DEF GuardIs
<1>5. /\ 0 \in V /\ RowsAre(asked, rows, V) /\ History(h, V, asked, rows) /\ Idle(V, h)
      /\ conf.turns \in Nat /\ guard.turns < conf.turns
  BY <1>1, <1>2, <1>3, LimitsAre DEF Going, CanBegin
<1>6. ASSUME FineRequest(r), SentTo(V, h)', r.tool = definition, Len(rows) \in 0..conf.total PROVE ConvInv'
  <2>1. Sending(V, h)'
    BY <1>1, <1>3, <1>5, <1>6 DEF Sending, Idle
  <2>2. Going(V, h)'
    BY <1>1, <1>5, <1>6, <2>1 DEF Going
  <2> QED BY <1>1, <1>4, <1>6, <2>2, ConvNext DEF Phases
<1>7. ASSUME Refusable(r), ~FineRequest(r) PROVE ConvInv'
  <2>1. phase' = "refused"
    BY <1>1, <1>7
  <2>2. RefusedForAReason'
    <3>1. request' = r /\ conf' = conf
      BY <1>1
    <3> HIDE DEF r
    <3> QED BY <1>7, <3>1 DEF RefusedForAReason, Refusable, Stateless
  <2> QED BY <1>4, <2>1, <2>2 DEF ConvInv, Endings, Phases, NotAdoptedForAReason
<1>8. CASE asked = <<>> /\ rows = <<>> /\ cont = NoContinuation
  <2>1. FirstIs(r)
    BY <1>8, FirstRequest
  <2>2. r.tool = definition
    BY DEF Applied
  <2>3. h = <<>>
    <3>1. Len(h) = 0
      BY <1>5, <1>8 DEF Idle
    <3> QED BY <1>5, <3>1 DEF History
  <2> HIDE DEF r
  <2>4. FineRequest(r)
    BY <2>1 DEF FirstIs
  <2>5. SentTo(V, <<>>)'
    BY <1>1, <1>3, <1>5, <1>8, <2>1, <2>4, FirstSent
  <2>6. Len(rows) \in 0..conf.total
    BY <1>3, <1>8, LimitsAre
  <2> QED BY <1>6, <2>2, <2>3, <2>4, <2>5, <2>6
<1>9. CASE Stopped(V, h) /\ cont = checkpoint.cont
  <2>1. Len(h) = Len(asked) /\ Len(rows) \in 0..conf.total /\ Continues(cont, h, V)
    BY <1>9 DEF Stopped
  <2>2. PICK p \in Seq(TurnOf(V)), x \in TurnOf(V) :
          /\ h = Append(p, x)
          /\ Stateless => \E q, tl : Replays(cont, p, x, q, tl, V)
          /\ ~Stateless => Resumes(cont, x)
    BY <2>1 DEF Continues
  <2>3. Fitting(x) /\ Apart(x, p) /\ Range(x.calls) \cap CallsOf(p) = {}
    BY <1>5, <2>2, HistoryOfTurn DEF HistorySplits
  <2> HIDE DEF r
  <2>4. CASE Stateless
    <3>1. PICK q, tl : Replays(cont, p, x, q, tl, V)
      BY <2>2, <2>4
    <3>2. /\ Told(q, p, V) /\ tl \in Nat /\ Len(ToolOutputs(q)) + Len(x.results) = Len(rows)
          /\ cont = Cont(0, Answered(q, x, tl), x.results, Outputs(x.results), ToolOutputs(q))
      BY <3>1 DEF Replays
    <3>3. ReplayIs(r, p, x, q, V) /\ r.tool = definition /\ (FineRequest(r) \/ Refusable(r))
      BY <1>5, <2>3, <2>4, <3>2, ReplayRequest DEF r
    <3>4. FineRequest(r) => SentTo(V, h)'
      BY <1>1, <1>3, <2>2, <2>4, <3>2, <3>3, ReplaySent
    <3> QED BY <1>6, <1>7, <2>1, <3>3, <3>4
  <2>5. CASE ~Stateless
    <3>1. asked[Len(asked)].id # 0 /\ cont = Cont(asked[Len(asked)].id, <<>>, x.results, Outputs(x.results), <<>>)
      BY <2>2, <2>5 DEF Resumes
    <3>2. ResumeIs(r, x, asked[Len(asked)].id) /\ (FineRequest(r) \/ Refusable(r))
      BY <1>5, <2>3, <2>5, <3>1, ResumeRequest DEF r
    <3>3. asked # <<>>
      BY <2>1, <2>2, TurnMore
    <3>4. FineRequest(r) => SentTo(V, h)'
      BY <1>1, <1>3, <2>2, <2>5, <3>2, <3>3, ResumeSent
    <3>5. r.tool = definition
      BY <3>2 DEF ResumeIs
    <3> QED BY <1>6, <1>7, <2>1, <3>2, <3>4, <3>5
  <2> QED BY <2>4, <2>5
<1> QED
  BY <1>5, <1>8, <1>9 DEF Idle

-----------------------------------------------------------------------------
(***************************************************************************)
(* A turn is observed: it is accepted, its calls are still to run.         *)
(***************************************************************************)
\* A turn more was accepted.
AskedOnce(ak, a, rs, W) ==
  /\ RowsAre(Append(ak, a), rs, W) /\ Len(Append(ak, a)) = Len(ak) + 1 /\ Len(ak) \in Nat
  /\ Append(ak, a)[Len(ak) + 1] = a /\ \A j \in 1..Len(ak) : Append(ak, a)[j] = ak[j]
  /\ \A k \in 1..Len(rs) : rs[k].turn # Len(ak) + 1

LEMMA AskedMore ==
  ASSUME NEW W, NEW ak, NEW rs, RowsAre(ak, rs, W), NEW a \in AskedOf(W),
         a.calls # <<>>, IsInjective(a.calls)
  PROVE  AskedOnce(ak, a, rs, W)
<1> DEFINE u == Append(ak, a)
           n == Len(ak)
           T == AskedOf(W)
<1>1. ak \in Seq(T) /\ rs \in Seq(ToolRowOf(W)) /\ a \in T
  BY DEF RowsAre
<1> HIDE DEF T
<1>2. u \in Seq(T) /\ Len(u) = n + 1 /\ n \in Nat /\ u[n + 1] = a /\ \A j \in 1..n : u[j] = ak[j]
  BY <1>1
<1>3. /\ \A j \in 1..n : ak[j].calls # <<>> /\ IsInjective(ak[j].calls)
      /\ \A k \in 1..Len(rs) :
            /\ rs[k].output = k /\ rs[k].turn \in 1..n
            /\ rs[k].index \in 1..Len(ak[rs[k].turn].calls)
            /\ rs[k].call = ak[rs[k].turn].calls[rs[k].index]
      /\ \A k, l \in 1..Len(rs) : rs[k].call = rs[l].call => k = l
  BY DEF RowsAre
<1> HIDE DEF u, n
<1>4. /\ \A j \in 1..n + 1 : j \in 1..n \/ j = n + 1
      /\ \A j \in 1..n : j \in 1..n + 1 /\ j # n + 1
  BY <1>2
<1>5. \A j \in 1..Len(u) : u[j].calls # <<>> /\ IsInjective(u[j].calls)
  BY <1>2, <1>3, <1>4
<1>6. ASSUME NEW k \in 1..Len(rs)
      PROVE  /\ rs[k].output = k /\ rs[k].turn \in 1..Len(u) /\ rs[k].turn # n + 1
             /\ rs[k].index \in 1..Len(u[rs[k].turn].calls)
             /\ rs[k].call = u[rs[k].turn].calls[rs[k].index]
  BY <1>2, <1>3, <1>4
<1>7. RowsAre(u, rs, W)
  BY <1>1, <1>2, <1>3, <1>5, <1>6 DEF RowsAre, T
<1> QED
  BY <1>2, <1>6, <1>7 DEF AskedOnce, u, n

\* The continuation of the turn observed.
LEMMA NextIs ==
  ASSUME NEW r, NEW x, NEW a, a.text = TextOf(x.text, "text"), a.calls = x.order
  PROVE  /\ Stateless => NextContinuation(r, x) = Cont(0, Answered(Before(r), a, r.tool), <<>>, <<>>, <<>>)
         /\ ~Stateless => NextContinuation(r, x) = Cont(x.id, <<>>, <<>>, <<>>, <<>>)
<1>1. ASSUME NEW id, NEW m
      PROVE  /\ [NoContinuation EXCEPT !.id = id] = Cont(id, <<>>, <<>>, <<>>, <<>>)
             /\ [NoContinuation EXCEPT !.messages = m] = Cont(0, m, <<>>, <<>>, <<>>)
  BY DEF NoContinuation, Cont
<1>2. CASE ~Stateless
  BY <1>1, <1>2 DEF NextContinuation
<1>3. CASE Stateless
  <2> DEFINE b == IF r.cont = NoContinuation THEN <<UserMessage>>
                  ELSE r.cont.messages \o [i \in 1..Len(r.cont.input) |-> ToolMessage(r.cont.input[i])]
             m == Append(b, AssistantMessage(TextOf(x.text, "text"), x.order, r.tool))
  <2>1. b = Before(r)
    BY DEF Before, Tools
  <2>2. m = Answered(Before(r), a, r.tool)
    BY <2>1 DEF Answered
  <2>3. NextContinuation(r, x) = [NoContinuation EXCEPT !.messages = m]
    BY <1>3 DEF NextContinuation
  <2> HIDE DEF m
  <2> QED BY <1>1, <1>3, <2>2, <2>3
<1> QED
  BY <1>2, <1>3

LEMMA ObserveTurnGoes ==
  ASSUME CallInv, CountInv, ConvInv, ObserveTurn
  PROVE  ConvInv'
<1> DEFINE fine == WithinLimits(exec) /\ ChainReference(request.cont) = guard.expected
           a == [id |-> exec.id, text |-> TextOf(exec.text, "text"), calls |-> exec.order]
           nx == NextContinuation(request, exec)
           rt == ReplayTransfers(request)
<1>1. /\ phase = "accepted" /\ exec.order # <<>> /\ conf' = conf
      /\ fine => /\ phase' = "tools" /\ asked' = Append(asked, a)
                 /\ guard' = [guard EXCEPT !.turns = @ + 1, !.total = @ + Len(exec.order), !.order = exec.order,
                                           !.cont = nx, !.replay = rt]
      /\ ~fine => phase' = "failed" /\ guard' = guard
      /\ UNCHANGED <<request, sent, rows, checkpoint, definition, crashes>>
  BY DEF ObserveTurn
<1>2. GuardIs /\ conf \in Deployment /\ definition \in Nat /\ crashes \in Nat
  BY DEF ConvInv, GuardIs
<1>3. CASE ~fine
  <2>1. GuardIs'
    BY <1>1, <1>2, <1>3, GuardStays
  <2> QED BY <1>1, <1>3, <2>1, ConvNext
<1>4. CASE fine
  <2>1. PICK V, h : Going(V, h)
    BY <1>1 DEF ConvInv, Phases
  <2>2. 0 \in V /\ RowsAre(asked, rows, V) /\ History(h, V, asked, rows) /\ Sending(V, h)
    BY <1>1, <2>1 DEF Going
  <2>3. PICK U : exec \in CallOf(U)
    BY DEF CallInv, CallTypes, Reading
  <2>4. PICK n : n = Len(asked)
    OBVIOUS
  <2>5. PICK k : k = Len(exec.order)
    OBVIOUS
  <2>6. exec.id \in Nat /\ exec.order \in Seq(U) /\ exec.text \in Seq(Tagged) /\ k \in Nat
    BY <2>3, <2>5 DEF CallOf
  <2>7. TextOf(exec.text, "text") \in Seq(Char)
    BY <2>6, TextOfSays DEF Kinds
  <2> DEFINE W == V \cup U
  <2>8. V \subseteq W /\ 0 \in W /\ exec.order \in Seq(W)
    <3>1. \A S, T : S \subseteq T => Seq(S) \subseteq Seq(T)
      OBVIOUS
    <3>2. U \subseteq W /\ V \subseteq W
      OBVIOUS
    <3> QED BY <2>2, <2>6, <3>1, <3>2
  <2>9. /\ Len(h) = n /\ guard.turns = n /\ guard.total = Len(rows) /\ guard.order = <<>> /\ guard.outputs = {}
        /\ request.tool \in Nat /\ SentTo(V, h) /\ n \in Nat /\ Len(rows) \in Nat
    BY <2>2, <2>4 DEF Sending, RowsAre
  <2>10. IsInjective(exec.order) /\ (~Stateless => exec.id # 0)
    BY <1>1 DEF CountInv
  <2>11. n + 1 \in 0..conf.turns /\ Len(rows) + k \in 0..conf.total
    <3>1. guard.turns < conf.turns /\ guard.total + Len(exec.order) <= conf.total
      BY <1>4 DEF WithinLimits
    <3>2. conf.turns \in Nat /\ conf.total \in Nat
      BY <1>2, LimitsAre
    <3> QED BY <2>5, <2>6, <2>9, <3>1, <3>2
  <2>12. guard' = GuardOf(n + 1, Len(rows) + k, guard.expected, exec.order, {}, nx, rt, guard.terminal, guard.gen)
    <3>1. guard \in GuardBox(n, Len(rows), guard.expected, <<>>, {}, guard.cont, guard.replay, guard.terminal, guard.gen)
      BY <1>2, <2>9 DEF GuardIs, GuardBox
    <3>2. guard' = [guard EXCEPT !.turns = @ + 1, !.total = @ + k, !.order = exec.order, !.cont = nx, !.replay = rt]
      BY <1>1, <1>4, <2>5
    <3> HIDE DEF nx, rt, a, fine
    <3>3. guard' \in GuardBox(n + 1, Len(rows) + k, guard.expected, exec.order, {}, nx, rt, guard.terminal, guard.gen)
      BY ONLY <3>1, <3>2 DEF GuardBox
    <3> QED BY ONLY <3>3 DEF GuardBox, GuardOf
  <2> HIDE DEF nx, rt, fine
  <2>13. GuardIs' /\ guard'.turns = n + 1 /\ guard'.total = Len(rows) + k /\ guard'.order = exec.order
         /\ guard'.outputs = {} /\ guard'.cont = nx /\ guard'.replay = rt /\ guard'.gen = guard.gen
    <3>1. /\ n + 1 \in 0..conf'.turns /\ Len(rows) + k \in 0..conf'.total /\ guard.gen \in Nat
          /\ conf' \in Deployment /\ definition' \in Nat /\ crashes' \in Nat
      BY <1>1, <1>2, <2>11 DEF GuardIs
    <3> QED BY ONLY <2>12, <3>1, GuardIsNext
  <2>14. a \in AskedOf(W) /\ a.calls = exec.order /\ a.id = exec.id /\ a.text = TextOf(exec.text, "text")
    <3> HIDE DEF W
    <3>1. a \in AskedOf(W)
      BY <2>6, <2>7, <2>8 DEF AskedOf
    <3> QED BY <3>1
  <2> HIDE DEF a, W
  <2>15. AskedOnce(asked, a, rows, W)
    <3>1. RowsAre(asked, rows, W)
      BY <2>2, <2>8, RowsStay
    <3> QED BY <1>1, <2>10, <2>14, <3>1, AskedMore
  <2>16. /\ RowsAre(asked', rows', W) /\ Len(asked') = n + 1 /\ asked'[n + 1] = a
         /\ \A j \in 1..n : asked'[j] = asked[j]
         /\ \A j \in 1..Len(rows) : rows[j].turn # n + 1
    BY <1>1, <1>4, <2>4, <2>15 DEF AskedOnce, fine
  <2>17. History(h, W, asked', rows')
    <3>1. rows' = rows /\ Len(asked) = n /\ Len(asked') = n + 1
      BY <1>1, <2>4, <2>16
    <3>2. Len(asked) <= Len(asked') /\ Len(asked) \in Nat /\ Len(asked') \in Nat
      BY <2>9, <3>1
    <3>3. \A j \in 1..Len(asked) : asked'[j] = asked[j]
      BY <2>4, <2>16
    <3>4. Len(rows) \in Nat /\ Len(rows') \in Nat /\ Len(rows) <= Len(rows') /\ \A j \in 1..Len(rows) : rows'[j] = rows[j]
      BY <2>9, <3>1
    <3> QED BY ONLY <2>2, <2>8, <3>2, <3>3, <3>4, HistoryStays
  <2>18. TurnRows(n + 1)' = {} /\ OutputsOf({})' = {}
    BY <1>1, <2>16 DEF TurnRows, OutputsOf
  <2>19. Stateless' <=> Stateless
    BY <1>1 DEF Stateless
  <2>20. ASSUME Stateless
         PROVE  \E q, tl :
                  /\ Told(q, h, W) /\ tl \in Nat
                  /\ Len(ToolOutputs(q)) + Cardinality(guard'.outputs) = Len(rows')
                  /\ guard'.cont = Cont(0, Answered(q, asked'[n + 1], tl), <<>>, <<>>, <<>>)
                  /\ guard'.replay = ToolOutputs(q)
    <3> DEFINE q == Before(request)
    <3>1. Told(q, h, V) /\ Len(ToolOutputs(q)) = Len(rows) /\ request.transfers = ToolOutputs(q)
      BY <2>9, <2>20 DEF SentTo
    <3> HIDE DEF q
    <3>2. Told(q, h, W)
      BY <2>8, <3>1, ToldStays
    <3>3. Len(ToolOutputs(q)) + Cardinality(guard'.outputs) = Len(rows')
      BY <1>1, <2>9, <2>13, <3>1, FS_EmptySet
    <3>4. nx = Cont(0, Answered(q, a, request.tool), <<>>, <<>>, <<>>)
      BY <2>14, <2>20, NextIs DEF nx, q
    <3>5. rt = ToolOutputs(q)
      BY <2>20, <3>1 DEF rt, ReplayTransfers
    <3> QED BY <2>9, <2>13, <2>16, <3>2, <3>3, <3>4, <3>5
  <2>21. ASSUME ~Stateless
         PROVE  /\ asked'[n + 1].id # 0 /\ guard'.replay = <<>>
                /\ guard'.cont = Cont(asked'[n + 1].id, <<>>, <<>>, <<>>, <<>>)
    <3>1. nx = Cont(exec.id, <<>>, <<>>, <<>>, <<>>)
      BY <2>14, <2>21, NextIs DEF nx
    <3>2. rt = <<>>
      BY <2>21 DEF rt, ReplayTransfers
    <3> QED BY <2>10, <2>13, <2>14, <2>16, <2>21, <3>1, <3>2
  <2>22. /\ IsFiniteSet(guard'.outputs) /\ guard'.outputs = OutputsOf(TurnRows(n + 1))'
         /\ guard'.total + Cardinality(guard'.outputs) = Len(rows') + Len(guard'.order)
    <3>1. Cardinality({}) = 0 /\ IsFiniteSet({})
      BY FS_EmptySet
    <3>2. OutputsOf(TurnRows(n + 1))' = {}
      BY <1>1, <2>16 DEF TurnRows, OutputsOf
    <3> QED BY <1>1, <2>5, <2>6, <2>9, <2>13, <3>1, <3>2
  <2>23. Batching(W, h)'
    <3>1. /\ Len(asked') = n + 1 /\ n + 1 = Len(h) + 1 /\ n + 1 \in 0..conf'.turns /\ guard'.turns = n + 1
          /\ guard'.order = asked'[n + 1].calls /\ guard'.total \in 0..conf'.total
      BY <1>1, <2>9, <2>11, <2>13, <2>14, <2>16
    <3>2. \A j \in TurnRows(n + 1)' : rows'[j].gen = guard'.gen
      BY <2>18
    <3> QED BY <2>19, <2>20, <2>21, <2>22, <3>1, <3>2 DEF Batching
  <2>24. Going(W, h)'
    BY <1>1, <1>4, <2>8, <2>16, <2>17, <2>23 DEF Going, fine
  <2> QED BY <1>1, <1>4, <2>13, <2>24, ConvNext DEF Phases, fine
<1> QED
  BY <1>3, <1>4

-----------------------------------------------------------------------------
(***************************************************************************)
(* A tool runs: its row is durable before its result is observed.          *)
(***************************************************************************)
RowOnce(ak, rs, row, V) ==
  /\ RowsAre(ak, Append(rs, row), V) /\ Len(Append(rs, row)) = Len(rs) + 1 /\ Len(rs) \in Nat
  /\ Append(rs, row)[Len(rs) + 1] = row /\ \A j \in 1..Len(rs) : Append(rs, row)[j] = rs[j]
  /\ \A j \in 1..Len(rs) + 1 : j \in 1..Len(rs) \/ j = Len(rs) + 1
  /\ \A j \in 1..Len(rs) : j \in 1..Len(rs) + 1 /\ j # Len(rs) + 1

LEMMA RowMore ==
  ASSUME NEW V, NEW ak, NEW rs, RowsAre(ak, rs, V), NEW row \in ToolRowOf(V),
         row.output = Len(rs) + 1, row.turn \in 1..Len(ak), row.index \in 1..Len(ak[row.turn].calls),
         row.call = ak[row.turn].calls[row.index], \A j \in 1..Len(rs) : rs[j].call # row.call
  PROVE  RowOnce(ak, rs, row, V)
<1> DEFINE u == Append(rs, row)
           n == Len(rs)
           T == ToolRowOf(V)
<1>1. ak \in Seq(AskedOf(V)) /\ rs \in Seq(T) /\ row \in T
  BY DEF RowsAre
<1> HIDE DEF T
<1>2. u \in Seq(T) /\ Len(u) = n + 1 /\ n \in Nat /\ u[n + 1] = row /\ \A j \in 1..n : u[j] = rs[j]
  BY <1>1
<1>3. /\ \A j \in 1..Len(ak) : ak[j].calls # <<>> /\ IsInjective(ak[j].calls)
      /\ \A k \in 1..n :
            /\ rs[k].output = k /\ rs[k].turn \in 1..Len(ak)
            /\ rs[k].index \in 1..Len(ak[rs[k].turn].calls)
            /\ rs[k].call = ak[rs[k].turn].calls[rs[k].index]
      /\ \A k, l \in 1..n : rs[k].call = rs[l].call => k = l
  BY DEF RowsAre
<1>4. row.output = n + 1 /\ \A j \in 1..n : rs[j].call # row.call
  OBVIOUS
<1> HIDE DEF u, n
<1>5. /\ \A j \in 1..n + 1 : j \in 1..n \/ j = n + 1
      /\ \A j \in 1..n : j \in 1..n + 1 /\ j # n + 1
  BY <1>2
<1>6. ASSUME NEW k \in 1..Len(u)
      PROVE  /\ u[k].output = k /\ u[k].turn \in 1..Len(ak)
             /\ u[k].index \in 1..Len(ak[u[k].turn].calls)
             /\ u[k].call = ak[u[k].turn].calls[u[k].index]
  <2>1. CASE k \in 1..n
    BY SMTT(30), <1>2, <1>3, <2>1
  <2>2. CASE k = n + 1
    BY <1>2, <1>4, <2>2
  <2> QED BY <1>2, <1>5, <2>1, <2>2
<1>7. ASSUME NEW k \in 1..Len(u), NEW l \in 1..Len(u), u[k].call = u[l].call PROVE k = l
  <2>1. (k \in 1..n \/ k = n + 1) /\ (l \in 1..n \/ l = n + 1)
    BY <1>2, <1>5
  <2> QED BY <1>2, <1>3, <1>4, <1>7, <2>1
<1>8. RowsAre(ak, u, V)
  BY <1>1, <1>2, <1>3, <1>6, <1>7 DEF RowsAre, T
<1> QED
  BY <1>2, <1>5, <1>8 DEF RowOnce, u, n

LEMMA RunToolGoes ==
  ASSUME ConvInv, NEW i \in DOMAIN guard.order, RunTool(i)
  PROVE  ConvInv'
<1> DEFINE call == guard.order[i]
           known == \E j \in DOMAIN rows : rows[j].call = call
           n == Len(rows)
           row == [turn |-> guard.turns, index |-> i, call |-> call, gen |-> guard.gen, output |-> n + 1]
           o == [call |-> call, output |-> row.output]
<1>1. /\ phase = "tools" /\ conf' = conf
      /\ \A z \in guard.outputs : z.call # call
      /\ known => phase' = "failed" /\ guard' = guard
      /\ ~known => /\ phase' = "tools" /\ rows' = Append(rows, row)
                   /\ guard' = [guard EXCEPT !.outputs = @ \cup {o}]
      /\ UNCHANGED <<cont, request, sent, checkpoint, definition, asked, crashes>>
  BY DEF RunTool
<1>2. GuardIs /\ conf \in Deployment /\ definition \in Nat /\ crashes \in Nat
  BY DEF ConvInv, GuardIs
<1>3. CASE known
  <2>1. GuardIs'
    BY <1>1, <1>2, <1>3, GuardStays
  <2> QED BY <1>1, <1>3, <2>1, ConvNext
<1>4. CASE ~known
  <2>1. PICK V, h : Going(V, h)
    BY <1>1 DEF ConvInv, Phases
  <2>2. 0 \in V /\ RowsAre(asked, rows, V) /\ History(h, V, asked, rows) /\ Batching(V, h)
    BY <1>1, <2>1 DEF Going
  <2>3. PICK t : t = Len(asked)
    OBVIOUS
  <2>4. /\ t = Len(h) + 1 /\ t \in 0..conf.turns /\ guard.turns = t
        /\ guard.order = asked[t].calls /\ guard.total \in 0..conf.total
        /\ IsFiniteSet(guard.outputs) /\ guard.outputs = OutputsOf(TurnRows(t))
        /\ guard.total + Cardinality(guard.outputs) = Len(rows) + Len(guard.order)
        /\ \A k \in TurnRows(t) : rows[k].gen = guard.gen
    BY <2>2, <2>3 DEF Batching
  <2>5. /\ t \in 1..Len(asked) /\ t \in Nat /\ n \in Nat /\ guard.order \in Seq(V) /\ rows \in Seq(ToolRowOf(V))
        /\ asked \in Seq(AskedOf(V)) /\ Len(guard.order) \in Nat
    <3>1. Len(h) \in Nat
      BY <2>2 DEF History
    <3>2. asked \in Seq(AskedOf(V)) /\ rows \in Seq(ToolRowOf(V))
      BY <2>2 DEF RowsAre
    <3>3. t \in 1..Len(asked)
      BY <2>3, <2>4, <3>1, <3>2
    <3> DEFINE A == AskedOf(V)
    <3> HIDE DEF A
    <3>4. asked[t] \in A
      BY <3>2, <3>3 DEF A
    <3>5. asked[t].calls \in Seq(V)
      BY <3>4 DEF A, AskedOf
    <3> QED BY <2>3, <2>4, <3>2, <3>3, <3>5
  <2>6. i \in 1..Len(guard.order) /\ call \in V /\ i \in Nat
    BY <2>5
  <2>7. /\ row \in ToolRowOf(V) /\ row.output = n + 1 /\ row.turn = t /\ row.index = i
        /\ row.call = call /\ row.gen = guard.gen /\ o = [call |-> call, output |-> n + 1]
    <3>1. guard.turns \in Nat /\ guard.gen \in Nat
      BY <1>2, <2>4, <2>5 DEF GuardIs
    <3> HIDE DEF call
    <3> QED BY <2>4, <2>5, <2>6, <3>1 DEF ToolRowOf
  <2>8. \A j \in 1..n : rows[j].call # call
    BY <1>4, <2>5
  <2> HIDE DEF row, known, o
  <2>9. RowOnce(asked, rows, row, V)
    BY <2>2, <2>4, <2>5, <2>6, <2>7, <2>8, RowMore
  <2>10. /\ RowsAre(asked', rows', V) /\ Len(rows') = n + 1 /\ rows'[n + 1] = row
         /\ \A j \in 1..n : rows'[j] = rows[j]
         /\ \A j \in 1..n + 1 : j \in 1..n \/ j = n + 1
         /\ \A j \in 1..n : j \in 1..n + 1 /\ j # n + 1
    BY <1>1, <1>4, <2>9 DEF RowOnce
  <2>11. guard' = GuardOf(t, guard.total, guard.expected, guard.order, guard.outputs \cup {o}, guard.cont,
                          guard.replay, guard.terminal, guard.gen)
    <3>1. guard \in GuardBox(t, guard.total, guard.expected, guard.order, guard.outputs, guard.cont, guard.replay,
                             guard.terminal, guard.gen)
      BY <1>2, <2>4 DEF GuardIs, GuardBox
    <3>2. guard' = [guard EXCEPT !.outputs = @ \cup {o}]
      BY <1>1, <1>4
    <3>3. guard' \in GuardBox(t, guard.total, guard.expected, guard.order, guard.outputs \cup {o}, guard.cont,
                              guard.replay, guard.terminal, guard.gen)
      BY ONLY <3>1, <3>2 DEF GuardBox
    <3> QED BY ONLY <3>3 DEF GuardBox, GuardOf
  <2>12. /\ GuardIs' /\ guard'.turns = t /\ guard'.total = guard.total /\ guard'.order = guard.order
         /\ guard'.outputs = guard.outputs \cup {o} /\ guard'.cont = guard.cont /\ guard'.replay = guard.replay
         /\ guard'.gen = guard.gen
    <3>1. /\ t \in 0..conf'.turns /\ guard.total \in 0..conf'.total /\ guard.gen \in Nat
          /\ conf' \in Deployment /\ definition' \in Nat /\ crashes' \in Nat
      BY <1>1, <1>2, <2>4 DEF GuardIs
    <3> QED BY ONLY <2>11, <3>1, GuardIsNext
  <2>13. History(h, V, asked', rows')
    <3>1. Len(asked) \in Nat /\ Len(asked') \in Nat /\ Len(asked) <= Len(asked') /\ \A j \in 1..Len(asked) : asked'[j] = asked[j]
      BY <1>1, <2>5
    <3>2. Len(rows) \in Nat /\ Len(rows') \in Nat /\ Len(rows) <= Len(rows') /\ \A j \in 1..Len(rows) : rows'[j] = rows[j]
      BY <2>5, <2>10
    <3> QED BY ONLY <2>2, <3>1, <3>2, HistoryStays, V \subseteq V
  <2>14. TurnRows(t)' = TurnRows(t) \cup {n + 1}
    <3>1. TurnRows(t)' = {k \in 1..n + 1 : rows'[k].turn = t}
      BY <2>10 DEF TurnRows
    <3>2. TurnRows(t) = {k \in 1..n : rows[k].turn = t}
      BY DEF TurnRows
    <3>3. n + 1 \in 1..n + 1 /\ rows'[n + 1].turn = t
      BY <2>5, <2>7, <2>10
    <3> HIDE DEF n
    <3> QED BY ONLY <2>10, <3>1, <3>2, <3>3
  <2>15. guard'.outputs = OutputsOf(TurnRows(t))'
    <3> DEFINE S == TurnRows(t)
    <3>1. guard.outputs = {[call |-> rows[k].call, output |-> k] : k \in S}
      BY <2>4 DEF OutputsOf
    <3>2. OutputsOf(TurnRows(t))' = {[call |-> rows'[k].call, output |-> k] : k \in S \cup {n + 1}}
      BY <2>14 DEF OutputsOf
    <3>3. \A k \in S : rows'[k] = rows[k]
      BY <2>10 DEF TurnRows
    <3>4. rows'[n + 1].call = call /\ o = [call |-> call, output |-> n + 1]
      BY <2>7, <2>10
    <3> HIDE DEF S, n, call
    <3> QED BY ONLY <2>12, <3>1, <3>2, <3>3, <3>4
  <2>16. /\ IsFiniteSet(guard'.outputs) /\ Cardinality(guard'.outputs) = Cardinality(guard.outputs) + 1
         /\ Cardinality(guard.outputs) \in Nat
    <3>1. o \notin guard.outputs
      BY <1>1, <2>7
    <3> HIDE DEF call
    <3> QED BY <2>4, <2>12, <3>1, FS_AddElement, FS_CardinalityType
  <2>17. \A k \in TurnRows(t)' : rows'[k].gen = guard'.gen
    <3>1. \A k \in TurnRows(t) : rows'[k] = rows[k]
      BY <2>10 DEF TurnRows
    <3>2. rows'[n + 1].gen = guard.gen
      BY <2>7, <2>10
    <3> HIDE DEF n
    <3> QED BY ONLY <2>4, <2>12, <2>14, <3>1, <3>2
  <2>18. guard'.total + Cardinality(guard'.outputs) = Len(rows') + Len(guard'.order)
    <3>1. guard.total \in Nat
      BY <1>2, <2>4, LimitsAre
    <3>2. PICK a : a = Cardinality(guard.outputs)
      OBVIOUS
    <3>3. PICK b : b = Len(guard.order)
      OBVIOUS
    <3>4. a \in Nat /\ b \in Nat /\ guard.total + a = n + b
      BY <2>4, <2>5, <2>16, <3>2, <3>3
    <3>5. guard'.total = guard.total /\ Cardinality(guard'.outputs) = a + 1 /\ Len(rows') = n + 1 /\ Len(guard'.order) = b
      BY <2>10, <2>12, <2>16, <3>2, <3>3
    <3> QED BY ONLY SMTT(30), <2>5, <3>1, <3>4, <3>5
  <2>19. ASSUME Stateless
         PROVE  \E q, tl :
                  /\ Told(q, h, V) /\ tl \in Nat
                  /\ Len(ToolOutputs(q)) + Cardinality(guard'.outputs) = Len(rows')
                  /\ guard'.cont = Cont(0, Answered(q, asked'[t], tl), <<>>, <<>>, <<>>)
                  /\ guard'.replay = ToolOutputs(q)
    <3>1. PICK q, tl :
            /\ Told(q, h, V) /\ tl \in Nat
            /\ Len(ToolOutputs(q)) + Cardinality(guard.outputs) = Len(rows)
            /\ guard.cont = Cont(0, Answered(q, asked[t], tl), <<>>, <<>>, <<>>)
            /\ guard.replay = ToolOutputs(q)
      BY <2>2, <2>3, <2>19 DEF Batching
    <3>2. Len(ToolOutputs(q)) \in Nat
      <4>1. ToolOutputs(q) \in Seq(Nat)
        BY <2>2, <3>1, ToolOutputsAre DEF Told
      <4> QED BY <4>1
    <3>3. Len(ToolOutputs(q)) + Cardinality(guard'.outputs) = Len(rows')
      BY <2>10, <2>16, <3>1, <3>2
    <3>4. asked'[t] = asked[t]
      BY <1>1
    <3> QED BY <2>12, <3>1, <3>3, <3>4
  <2>20. ASSUME ~Stateless
         PROVE  /\ asked'[t].id # 0 /\ guard'.replay = <<>>
                /\ guard'.cont = Cont(asked'[t].id, <<>>, <<>>, <<>>, <<>>)
    <3>1. asked[t].id # 0 /\ guard.replay = <<>> /\ guard.cont = Cont(asked[t].id, <<>>, <<>>, <<>>, <<>>)
      BY <2>2, <2>3, <2>20 DEF Batching
    <3> QED BY <1>1, <2>12, <3>1
  <2>21. Batching(V, h)'
    <3>1. /\ Len(asked') = t /\ t = Len(h) + 1 /\ t \in 0..conf'.turns /\ guard'.turns = t
          /\ guard'.order = asked'[t].calls /\ guard'.total \in 0..conf'.total
      BY <1>1, <2>3, <2>4, <2>12
    <3>2. Stateless' <=> Stateless
      BY <1>1 DEF Stateless
    <3> QED BY <2>15, <2>16, <2>17, <2>18, <2>19, <2>20, <3>1, <3>2 DEF Batching
  <2>22. Going(V, h)'
    BY <1>1, <1>4, <2>2, <2>10, <2>13, <2>21 DEF Going, known
  <2> QED BY <1>1, <1>4, <2>12, <2>22, ConvNext DEF Phases, known
<1> QED
  BY <1>3, <1>4

-----------------------------------------------------------------------------
(***************************************************************************)
(* A batch is closed: every call has its result, in the order of the       *)
(* calls.                                                                  *)
(***************************************************************************)
\* As many results as calls: every call has one.
LEMMA EveryCallHasItsResult ==
  ASSUME NEW V, RowsAre(asked, rows, V), NEW t \in 1..Len(asked), NEW outs, IsFiniteSet(outs),
         outs = OutputsOf(TurnRows(t)), Cardinality(outs) = Len(asked[t].calls)
  PROVE  \A i \in 1..Len(asked[t].calls) : \E k \in TurnRows(t) :
            /\ [call |-> asked[t].calls[i], output |-> k] \in outs
            /\ rows[k].index = i
<1> DEFINE n == Len(asked[t].calls)
           S == TurnRows(t)
           f == [o \in outs |-> rows[o.output].index]
<1>1. n \in Nat
  <2> DEFINE A == AskedOf(V)
  <2>1. asked \in Seq(A)
    BY DEF RowsAre
  <2> HIDE DEF A
  <2>2. asked[t] \in A
    BY <2>1
  <2>3. asked[t].calls \in Seq(V)
    BY <2>2 DEF A, AskedOf
  <2> QED BY <2>3
<1>2. ASSUME NEW k \in S
      PROVE  rows[k].index \in 1..n /\ rows[k].call = asked[t].calls[rows[k].index]
  BY DEF RowsAre, TurnRows
<1>3. \A o \in outs : o.output \in S /\ o = [call |-> rows[o.output].call, output |-> o.output]
  BY DEF OutputsOf
<1>4. \A k, l \in S : rows[k].index = rows[l].index => k = l
  <2> SUFFICES ASSUME NEW k \in S, NEW l \in S, rows[k].index = rows[l].index PROVE k = l
    OBVIOUS
  <2>1. rows[k].call = rows[l].call /\ k \in 1..Len(rows) /\ l \in 1..Len(rows)
    BY <1>2 DEF TurnRows
  <2> QED BY <2>1 DEF RowsAre
<1> HIDE DEF n, S
<1>5. f \in Injection(outs, 1..n)
  <2>1. f \in [outs -> 1..n]
    BY <1>2, <1>3
  <2>2. \A a, b \in outs : f[a] = f[b] => a = b
    BY <1>3, <1>4
  <2> HIDE DEF f
  <2> QED BY <2>1, <2>2 DEF Injection, IsInjective
<1>6. IsFiniteSet(1..n) /\ Cardinality(1..n) = n
  <2>1. IsFiniteSet(1..n)
    BY <1>1, FS_Interval
  <2>2. Cardinality(1..n) = IF 1 > n THEN 0 ELSE n - 1 + 1
    BY <1>1, FS_Interval
  <2>3. Cardinality(1..n) = n
    <3>1. CASE n = 0
      BY <2>2, <3>1
    <3>2. CASE n # 0
      BY <1>1, <2>2, <3>2
    <3> QED BY <3>1, <3>2
  <2> QED BY <2>1, <2>3
<1>7. f \in Surjection(outs, 1..n)
  <2>1. Cardinality(outs) = Cardinality(1..n)
    BY <1>6 DEF n
  <2> HIDE DEF f
  <2> QED BY <1>5, <1>6, <2>1, FS_Injection
<1>8. \A i \in 1..n : \E o \in outs : f[o] = i
  <2> HIDE DEF f
  <2> QED BY <1>7 DEF Surjection
<1>9. ASSUME NEW i \in 1..n
      PROVE  \E k \in S : [call |-> asked[t].calls[i], output |-> k] \in outs /\ rows[k].index = i
  <2>1. PICK o \in outs : f[o] = i
    BY <1>8
  <2>2. o.output \in S /\ rows[o.output].index = i /\ o = [call |-> rows[o.output].call, output |-> o.output]
    BY <1>3, <2>1
  <2>3. rows[o.output].call = asked[t].calls[i]
    BY <1>2, <2>2
  <2> QED BY <2>2, <2>3
<1> QED
  BY <1>9 DEF n, S

\* The results in the order of the calls are those of the turn.
BatchTurn(x, t, res, V) ==
  /\ x \in TurnOf(V) /\ x.results = res /\ x.text = asked[t].text /\ x.calls = asked[t].calls
  /\ Happened(x, t, asked, rows) /\ Len(res) = Len(asked[t].calls)

LEMMA BatchIsWhole ==
  ASSUME NEW V, RowsAre(asked, rows, V), NEW t \in 1..Len(asked), IsFiniteSet(guard.outputs),
         guard.outputs = OutputsOf(TurnRows(t)), guard.order = asked[t].calls,
         Cardinality(guard.outputs) = Len(guard.order)
  PROVE  BatchTurn([text |-> asked[t].text, calls |-> asked[t].calls, results |-> ResultsInOrder], t, ResultsInOrder, V)
<1> DEFINE n == Len(asked[t].calls)
           res == ResultsInOrder
           x == [text |-> asked[t].text, calls |-> asked[t].calls, results |-> res]
<1>1. /\ asked[t].text \in Seq(Char) /\ asked[t].calls \in Seq(V) /\ n \in Nat
      /\ asked[t].calls # <<>> /\ IsInjective(asked[t].calls)
  <2> DEFINE A == AskedOf(V)
  <2>1. asked \in Seq(A) /\ asked[t].calls # <<>> /\ IsInjective(asked[t].calls)
    BY DEF RowsAre
  <2> HIDE DEF A
  <2>2. asked[t] \in A
    BY <2>1
  <2>3. asked[t].text \in Seq(Char) /\ asked[t].calls \in Seq(V)
    <3> HIDE DEF Char
    <3> QED BY <2>2 DEF A, AskedOf
  <2> QED BY <2>1, <2>3
<1>2. res = [i \in 1..n |-> CHOOSE o \in guard.outputs : o.call = asked[t].calls[i]]
  BY DEF ResultsInOrder
<1>3. ASSUME NEW i \in 1..n
      PROVE  /\ res[i] \in ResultOf(V) /\ res[i].call = asked[t].calls[i] /\ res[i].output \in 1..Len(rows)
             /\ rows[res[i].output].turn = t /\ rows[res[i].output].index = i
  <2> DEFINE c == asked[t].calls[i]
             o == CHOOSE z \in guard.outputs : z.call = c
  <2>1. \E z \in guard.outputs : z.call = c
    <3>1. PICK k \in TurnRows(t) : [call |-> c, output |-> k] \in guard.outputs
      BY EveryCallHasItsResult
    <3> QED BY <3>1
  <2>2. o \in guard.outputs /\ o.call = c
    <3> HIDE DEF c
    <3> QED BY <2>1
  <2>3. res[i] = o
    BY <1>2
  <2> HIDE DEF o, res
  <2>4. PICK k \in TurnRows(t) : o = [call |-> rows[k].call, output |-> k]
    BY <2>2 DEF OutputsOf
  <2>5. k \in 1..Len(rows) /\ rows[k].turn = t /\ o.output = k /\ rows[k].call = c
    BY <2>2, <2>4 DEF TurnRows
  <2>6. rows[k].index \in 1..n /\ asked[t].calls[rows[k].index] = c
    BY <2>5 DEF RowsAre
  <2>7. rows[k].index = i
    <3>1. DOMAIN asked[t].calls = 1..n
      BY <1>1
    <3> QED BY <1>1, <2>6, <3>1 DEF IsInjective
  <2>8. c \in V /\ k \in Nat
    <3>1. Len(rows) \in Nat
      BY DEF RowsAre
    <3> QED BY <1>1, <2>5, <3>1
  <2>9. o \in ResultOf(V)
    BY <2>4, <2>5, <2>8 DEF ResultOf
  <2> QED BY <2>2, <2>3, <2>5, <2>7, <2>9
<1>4. res \in Seq(ResultOf(V)) /\ Len(res) = n
  <2>1. \A i \in 1..n : res[i] \in ResultOf(V)
    BY <1>3
  <2>2. DOMAIN res = 1..n /\ res = [i \in 1..n |-> res[i]]
    BY <1>2
  <2> HIDE DEF res, n
  <2> DEFINE R == ResultOf(V)
  <2> HIDE DEF R
  <2>3. \A i \in 1..n : res[i] \in R
    BY <2>1 DEF R
  <2>4. res \in Seq(R) /\ Len(res) = n
    BY ONLY <1>1, <2>2, <2>3
  <2> QED BY <2>4 DEF R
<1> HIDE DEF res
<1>5. x \in TurnOf(V) /\ x.results = res /\ x.text = asked[t].text /\ x.calls = asked[t].calls
  <2> HIDE DEF Char
  <2> QED BY <1>1, <1>4 DEF TurnOf
<1> HIDE DEF x
<1>6. Fitting(x)
  BY <1>1, <1>3, <1>4, <1>5 DEF Fitting
<1>7. Happened(x, t, asked, rows)
  BY <1>3, <1>5, <1>6 DEF Happened
<1>8. BatchTurn(x, t, res, V)
  BY <1>4, <1>5, <1>7 DEF BatchTurn
<1> QED
  BY <1>8 DEF x, res

\* A history with the turn closed.
LEMMA HistoryMore ==
  ASSUME NEW V, NEW ak, NEW rs, NEW h, RowsAre(ak, rs, V), History(h, V, ak, rs), NEW x \in TurnOf(V),
         Len(h) + 1 <= Len(ak), Happened(x, Len(h) + 1, ak, rs)
  PROVE  History(Append(h, x), V, ak, rs)
<1>1. h \in Seq(TurnOf(V)) /\ \A j \in 1..Len(h) : Happened(h[j], j, ak, rs)
  BY DEF History
<1> DEFINE u == Append(h, x)
<1>2. /\ u \in Seq(TurnOf(V)) /\ Len(u) = Len(h) + 1 /\ u[Len(h) + 1] = x
      /\ \A j \in 1..Len(h) : u[j] = h[j]
      /\ \A j \in 1..Len(h) + 1 : j \in 1..Len(h) \/ j = Len(h) + 1
  BY <1>1, TurnMore
<1> HIDE DEF u
<1>3. \A j \in 1..Len(u) : Happened(u[j], j, ak, rs)
  BY <1>1, <1>2
<1>4. History(u, V, ak, rs)
  BY <1>2, <1>3 DEF History
<1> QED
  BY <1>4 DEF u

LEMMA CloseBatchGoes ==
  ASSUME ConvInv, CloseBatch
  PROVE  ConvInv'
<1> DEFINE res == ResultsInOrder
           nx == [guard.cont EXCEPT !.input = res, !.transfers = [i \in 1..Len(res) |-> res[i].output],
                                    !.replay = guard.replay]
<1>1. /\ phase = "tools" /\ conf' = conf /\ Cardinality(guard.outputs) = Len(guard.order)
      /\ cont' = nx /\ phase' = "idle"
      /\ guard' = [guard EXCEPT !.order = <<>>, !.outputs = {}, !.cont = NoContinuation, !.replay = <<>>,
                                !.expected = ChainReference(nx)]
      /\ checkpoint' = [cont |-> nx, turns |-> guard.turns, total |-> guard.total, gen |-> guard.gen]
      /\ UNCHANGED <<rows, definition, asked, crashes>>
  BY DEF CloseBatch
<1>2. GuardIs /\ conf \in Deployment /\ definition \in Nat /\ crashes \in Nat /\ guard.gen \in Nat
  BY DEF ConvInv, GuardIs
<1>3. PICK V, h : Going(V, h)
  BY <1>1 DEF ConvInv, Phases
<1>4. 0 \in V /\ RowsAre(asked, rows, V) /\ History(h, V, asked, rows) /\ Batching(V, h)
  BY <1>1, <1>3 DEF Going
<1>5. PICK t : t = Len(asked)
  OBVIOUS
<1>6. /\ t = Len(h) + 1 /\ t \in 0..conf.turns /\ guard.turns = t
      /\ guard.order = asked[t].calls /\ guard.total \in 0..conf.total
      /\ IsFiniteSet(guard.outputs) /\ guard.outputs = OutputsOf(TurnRows(t))
      /\ guard.total + Cardinality(guard.outputs) = Len(rows) + Len(guard.order)
      /\ \A k \in TurnRows(t) : rows[k].gen = guard.gen
  BY <1>4, <1>5 DEF Batching
<1>7. t \in 1..Len(asked) /\ h \in Seq(TurnOf(V)) /\ Len(h) \in Nat /\ Len(rows) \in Nat
  <2>1. h \in Seq(TurnOf(V))
    BY <1>4 DEF History
  <2>2. Len(h) \in Nat /\ Len(rows) \in Nat /\ Len(asked) \in Nat
    BY <1>4, <2>1 DEF RowsAre
  <2> QED BY <1>5, <1>6, <2>1, <2>2
<1> DEFINE x == [text |-> asked[t].text, calls |-> asked[t].calls, results |-> res]
<1>8. BatchTurn(x, t, res, V)
  BY <1>1, <1>4, <1>6, <1>7, BatchIsWhole
<1> HIDE DEF x, res
<1>y. PICK y : y = x
  OBVIOUS
<1>9. /\ y \in TurnOf(V) /\ y.results = res /\ y.text = asked[t].text /\ y.calls = asked[t].calls
      /\ Happened(y, t, asked, rows) /\ Len(res) = Len(guard.order)
  BY <1>6, <1>8, <1>y DEF BatchTurn
<1>10. guard.total = Len(rows) /\ Cardinality(guard.outputs) = Len(res)
  <2>1. guard.total \in Nat
    BY <1>2, <1>6, LimitsAre
  <2>2. Cardinality(guard.outputs) \in Nat
    BY <1>6, FS_CardinalityType
  <2>3. PICK a : a = Cardinality(guard.outputs)
    OBVIOUS
  <2>4. guard.total + a = Len(rows) + a /\ a \in Nat
    BY <1>1, <1>6, <2>2, <2>3
  <2>5. guard.total = Len(rows)
    BY ONLY <1>7, <2>1, <2>4
  <2> QED BY <1>1, <1>9, <2>5
<1>11. ASSUME NEW id, NEW m, guard.cont = Cont(id, m, <<>>, <<>>, <<>>)
       PROVE  nx = Cont(id, m, y.results, Outputs(y.results), guard.replay)
  <2>1. guard.cont \in ContBox(id, m, <<>>, <<>>, <<>>)
    BY <1>11, ContInBox
  <2>2. [i \in 1..Len(res) |-> res[i].output] = Outputs(res)
    BY DEF Outputs
  <2>3. nx \in ContBox(id, m, res, Outputs(res), guard.replay)
    BY ONLY <2>1, <2>2 DEF ContBox
  <2> QED BY <1>9, <2>3, ContInBox
<1> HIDE DEF nx
<1>c. PICK c : c = nx
  OBVIOUS
<1>12. guard' = GuardOf(t, guard.total, ChainReference(c), <<>>, {}, NoContinuation, <<>>, guard.terminal, guard.gen)
  <2>1. guard \in GuardBox(t, guard.total, guard.expected, guard.order, guard.outputs, guard.cont, guard.replay,
                           guard.terminal, guard.gen)
    BY <1>2, <1>6 DEF GuardIs, GuardBox
  <2>2. guard' = [guard EXCEPT !.order = <<>>, !.outputs = {}, !.cont = NoContinuation, !.replay = <<>>,
                               !.expected = ChainReference(c)]
    BY <1>1, <1>c
  <2>3. guard' \in GuardBox(t, guard.total, ChainReference(c), <<>>, {}, NoContinuation, <<>>, guard.terminal, guard.gen)
    BY ONLY <2>1, <2>2 DEF GuardBox
  <2> QED BY ONLY <2>3 DEF GuardBox, GuardOf
<1>g. PICK u : u = Append(h, y)
  OBVIOUS
<1>13. Continues(c, u, V)'
  <2>1. Stateless' <=> Stateless
    BY <1>1 DEF Stateless
  <2>2. ASSUME Stateless PROVE \E q, tl : Replays(c, h, y, q, tl, V)'
    <3>1. PICK q, tl :
            /\ Told(q, h, V) /\ tl \in Nat
            /\ Len(ToolOutputs(q)) + Cardinality(guard.outputs) = Len(rows)
            /\ guard.cont = Cont(0, Answered(q, asked[t], tl), <<>>, <<>>, <<>>)
            /\ guard.replay = ToolOutputs(q)
      BY <1>4, <1>5, <2>2 DEF Batching
    <3>2. Answered(q, asked[t], tl) = Answered(q, y, tl)
      BY <1>9 DEF Answered
    <3>3. c = Cont(0, Answered(q, y, tl), y.results, Outputs(y.results), ToolOutputs(q))
      BY <1>11, <1>c, <3>1, <3>2
    <3>4. Replays(c, h, y, q, tl, V)'
      BY <1>1, <1>9, <1>10, <3>1, <3>3 DEF Replays
    <3> QED BY <3>4
  <2>3. ASSUME ~Stateless PROVE Resumes(c, y)'
    <3>1. asked[t].id # 0 /\ guard.replay = <<>> /\ guard.cont = Cont(asked[t].id, <<>>, <<>>, <<>>, <<>>)
      BY <1>4, <1>5, <2>3 DEF Batching
    <3>2. c = Cont(asked[t].id, <<>>, y.results, Outputs(y.results), <<>>)
      BY <1>11, <1>c, <3>1
    <3> QED BY <1>1, <1>5, <3>1, <3>2 DEF Resumes
  <2> QED BY <1>7, <1>9, <1>g, <2>1, <2>2, <2>3 DEF Continues
<1>14. /\ checkpoint'.cont = c /\ checkpoint'.turns = t /\ checkpoint'.total = Len(rows) /\ checkpoint'.gen = guard.gen
  BY <1>1, <1>6, <1>10, <1>c
<1>15. Len(u) = t /\ History(u, V, asked, rows)
  <2>1. Len(u) = Len(h) + 1
    BY <1>7, <1>9, <1>g, TurnMore
  <2>2. Len(h) + 1 <= Len(asked)
    BY <1>5, <1>6, <1>7
  <2>3. History(u, V, asked, rows)
    BY <1>4, <1>6, <1>9, <1>g, <2>2, HistoryMore
  <2> QED BY <1>6, <2>1, <2>3
<1>16. Stopped(V, u)'
  <2>1. Len(u) = Len(asked') /\ Len(asked') \in 0..conf'.turns /\ Len(rows') \in 0..conf'.total
    BY <1>1, <1>5, <1>6, <1>10, <1>15
  <2>2. Continues(checkpoint.cont, u, V)'
    BY <1>1, <1>13, <1>14
  <2>3. \A k \in 1..Len(rows') : rows'[k].turn = Len(asked') => rows'[k].gen = checkpoint'.gen
    BY <1>1, <1>5, <1>6, <1>14 DEF TurnRows
  <2> QED BY <1>1, <1>2, <1>5, <1>14, <2>1, <2>2, <2>3 DEF Stopped
<1>17. /\ GuardIs' /\ guard'.turns = t /\ guard'.total = guard.total /\ guard'.expected = ChainReference(c)
       /\ guard'.order = <<>> /\ guard'.outputs = {}
  <2>1. /\ t \in 0..conf'.turns /\ guard.total \in 0..conf'.total /\ guard.gen \in Nat
        /\ conf' \in Deployment /\ definition' \in Nat /\ crashes' \in Nat
    BY <1>1, <1>2, <1>6
  <2> QED BY ONLY <1>12, <2>1, GuardIsNext
<1>18. Idle(V, u)'
  BY <1>1, <1>5, <1>10, <1>14, <1>15, <1>16, <1>17, <1>c DEF Idle
<1>19. Going(V, u)'
  BY <1>1, <1>4, <1>15, <1>18 DEF Going
<1> QED
  BY <1>1, <1>17, <1>19, ConvNext DEF Phases

-----------------------------------------------------------------------------
(***************************************************************************)
(* Another attempt adopts the checkpoint: the evidence in it is that of    *)
(* the durable rows.                                                       *)
(***************************************************************************)
InRows(o, t, c) == o \in DOMAIN rows /\ rows[o].call = c /\ rows[o].turn = t

LEMMA OutputIsRow ==
  ASSUME NEW V, RowsAre(asked, rows, V), NEW h, History(h, V, asked, rows),
         NEW j \in 1..Len(h), NEW i \in 1..Len(h[j].results)
  PROVE  InRows(h[j].results[i].output, j, h[j].results[i].call)
<1>1. DOMAIN rows = 1..Len(rows)
  BY DEF RowsAre
<1> QED
  BY <1>1, RowOfResult DEF InRows

\* The reasons not to adopt.
Unadoptable ==
  Stateless /\ \/ \E i \in DOMAIN rows : rows[i].gen # checkpoint.gen
               \/ Len(checkpoint.cont.messages) > MaxMessages
               \/ checkpoint.total > MaxResults

FineCheckpoint(cp) == CheckpointIsValid(cp) /\ OneGeneration(cp)

\* Evidence of the turns before the last, then of the last.
LEMMA EvidenceIsThere ==
  ASSUME NEW V, 0 \in V, NEW p, NEW x \in TurnOf(V), NEW q, NEW tl \in Nat, NEW cp,
         HistorySplits(p, x, V, asked, rows), RowsAre(asked, rows, V), Told(q, p, V),
         Len(ToolOutputs(q)) + Len(x.results) = Len(rows),
         cp.cont.messages = Answered(q, x, tl), cp.cont.input = x.results,
         cp.turns = Len(p) + 1, cp.total = Len(rows)
  PROVE  EvidenceIsDurable(cp)
<1> DEFINE m == Answered(q, x, tl)
           w == Walk(m)
           rs == x.results
           e == w.evidence
           f == [i \in 1..Len(rs) |-> [turn |-> w.turns, call |-> rs[i].call, output |-> rs[i].output]]
           ev == Evidence(cp.cont)
           E == [turn : Nat, call : V, output : Nat]
<1>1. /\ History(p, V, asked, rows) /\ Len(p) \in Nat /\ Happened(x, Len(p) + 1, asked, rows) /\ Fitting(x)
      /\ Range(x.calls) \cap CallsOf(p) = {}
  BY DEF HistorySplits
<1>2. w.turns = Len(p) + 1 /\ Len(e) = Len(ToolOutputs(q)) /\ Len(e) \in Nat /\ Evident(e, p)
  BY <1>1, ReplayWalks DEF ReplayWalk
<1>3. e \in Seq(E)
  <2>1. AnswerSays(q, p, x, tl, V)
    BY <1>1, AnswerTold DEF Fitting
  <2>2. w \in WalkOf(V)
    BY <2>1 DEF AnswerSays, Answered
  <2> HIDE DEF w
  <2> QED BY <2>2 DEF WalkOf
<1>4. /\ rs \in Seq(ResultOf(V)) /\ Len(rs) = Len(x.calls) /\ Len(rs) \in Nat
      /\ \A i \in 1..Len(rs) : rs[i].call \in V /\ rs[i].output \in Nat
  <2>1. rs \in Seq(ResultOf(V)) /\ Len(rs) = Len(x.calls)
    BY <1>1, CallsAnswered
  <2> QED BY <2>1, ToolsAre
<1>5. ev = e \o f
  BY DEF Evidence
<1> HIDE DEF m, w, rs, e, ev
<1>6. f \in Seq(E) /\ Len(f) = Len(rs)
  <2>1. \A i \in 1..Len(rs) : f[i] \in E
    BY <1>1, <1>2, <1>4
  <2>2. DOMAIN f = 1..Len(rs) /\ f = [i \in 1..Len(rs) |-> f[i]]
    OBVIOUS
  <2> HIDE DEF E, f
  <2>3. PICK n : n = Len(rs)
    OBVIOUS
  <2>4. n \in Nat /\ (\A i \in 1..n : f[i] \in E) /\ f = [i \in 1..n |-> f[i]]
    BY ONLY <1>4, <2>1, <2>2, <2>3, ZenonT(30)
  <2>5. f \in Seq(E) /\ Len(f) = n
    BY ONLY <2>4
  <2> QED BY ONLY <2>3, <2>5
<1>7. /\ \A i \in 1..Len(rs) : /\ f[i].turn = Len(p) + 1 /\ f[i].call = rs[i].call /\ f[i].output = rs[i].output
  BY <1>2
<1> HIDE DEF f, E
<1>8. /\ ev \in Seq(E) /\ Len(ev) = Len(e) + Len(rs)
      /\ \A i \in 1..Len(e) : ev[i] = e[i]
      /\ \A i \in 1..Len(rs) : ev[Len(e) + i] = f[i]
  <2>1. \A s, v \in Seq(E) : s \o v \in Seq(E) /\ Len(s \o v) = Len(s) + Len(v)
    BY ONLY Concatenation, ZenonT(30)
  <2>2. \A s, v \in Seq(E) : \A i \in 1..Len(s) : (s \o v)[i] = s[i]
    BY ONLY Concatenation, ZenonT(30)
  <2>3. \A s, v \in Seq(E) : \A i \in 1..Len(v) : (s \o v)[Len(s) + i] = v[i]
    BY ONLY Concatenation, ZenonT(30)
  <2> QED BY ONLY <1>3, <1>5, <1>6, <2>1, <2>2, <2>3
<1>9. Len(ev) = cp.total /\ DOMAIN ev = 1..Len(e) + Len(rs)
  <2>1. Len(ev) = cp.total
    BY ONLY <1>2, <1>8, Len(ToolOutputs(q)) + Len(x.results) = Len(rows), cp.total = Len(rows) DEF rs
  <2> QED BY <1>8, <2>1
<1>10. DOMAIN rows = 1..Len(rows)
  BY DEF RowsAre
<1>11. ASSUME NEW i \in 1..Len(e) PROVE InRows(e[i].output, e[i].turn, e[i].call)
  <2>1. PICK j \in 1..Len(p) : \E k \in 1..Len(p[j].results) :
          e[i] = [turn |-> j, call |-> p[j].results[k].call, output |-> p[j].results[k].output]
    BY <1>2 DEF Evident
  <2>2. PICK k \in 1..Len(p[j].results) :
          e[i] = [turn |-> j, call |-> p[j].results[k].call, output |-> p[j].results[k].output]
    BY <2>1
  <2>3. InRows(p[j].results[k].output, j, p[j].results[k].call)
    BY <1>1, OutputIsRow
  <2>4. e[i].turn = j /\ e[i].call = p[j].results[k].call /\ e[i].output = p[j].results[k].output
    BY <2>2
  <2> QED BY <2>3, <2>4
<1>12. ASSUME NEW i \in 1..Len(rs) PROVE InRows(f[i].output, f[i].turn, f[i].call)
  <2>1. /\ rs[i].output \in 1..Len(rows) /\ rows[rs[i].output].turn = Len(p) + 1
        /\ rows[rs[i].output].index = i /\ rs[i].call = x.calls[i] /\ x.calls = asked[Len(p) + 1].calls
    BY <1>1, <1>4 DEF Happened, Fitting, rs
  <2>2. rows[rs[i].output].call = rs[i].call
    <3>1. \A k \in 1..Len(rows) : rows[k].call = asked[rows[k].turn].calls[rows[k].index]
      BY DEF RowsAre
    <3> QED BY ONLY <2>1, <3>1
  <2> QED BY <1>7, <1>10, <2>1, <2>2 DEF InRows
<1>13. ASSUME NEW i \in DOMAIN ev PROVE InRows(ev[i].output, ev[i].turn, ev[i].call)
  <2>1. CASE i \in 1..Len(e)
    BY <1>8, <1>11, <2>1
  <2>2. CASE i \notin 1..Len(e)
    <3>1. i - Len(e) \in 1..Len(rs) /\ i = Len(e) + (i - Len(e))
      BY ONLY <1>2, <1>4, <1>9, <2>2, i \in DOMAIN ev
    <3> QED BY <1>8, <1>12, <3>1
  <2> QED BY <2>1, <2>2
<1>14. Walk(cp.cont.messages).turns = cp.turns
  BY <1>2 DEF w, m
<1> QED
  BY <1>9, <1>13, <1>14 DEF EvidenceIsDurable, InRows, RowOf, ev

\* A checkpoint that replays the conversation is adopted, or has a reason not to be.
LEMMA ReplayAdopts ==
  ASSUME NEW V, 0 \in V, NEW h, RowsAre(asked, rows, V), History(h, V, asked, rows), Stopped(V, h), Stateless
  PROVE  FineCheckpoint(checkpoint) \/ Unadoptable
<1>1. PICK p \in Seq(TurnOf(V)), x \in TurnOf(V) :
        h = Append(p, x) /\ \E q, tl : Replays(checkpoint.cont, p, x, q, tl, V)
  BY DEF Stopped, Continues
<1>2. PICK q, tl : Replays(checkpoint.cont, p, x, q, tl, V)
  BY <1>1
<1> DEFINE c == checkpoint.cont
           m == Answered(q, x, tl)
           rs == x.results
<1>3. /\ Told(q, p, V) /\ tl \in Nat /\ Len(ToolOutputs(q)) + Len(rs) = Len(rows)
      /\ c = Cont(0, m, rs, Outputs(rs), ToolOutputs(q))
  BY <1>2 DEF Replays
<1>4. HistorySplits(p, x, V, asked, rows)
  BY <1>1, HistoryOfTurn
<1>5. Fitting(x) /\ Apart(x, p) /\ Range(x.calls) \cap CallsOf(p) = {} /\ Len(h) = Len(p) + 1
  BY <1>1, <1>4 DEF HistorySplits
<1>6. /\ Len(h) = Len(asked) /\ checkpoint.turns = Len(asked) /\ checkpoint.total = Len(rows)
  BY DEF Stopped
<1>7. rs # <<>> /\ Len(Outputs(rs)) = Len(rs) /\ Len(rs) \in Nat /\ Outputs(rs) \in Seq(Nat)
  BY <1>5, CallsAnswered
<1>8. /\ c.messages = m /\ c.input = rs /\ c.transfers = Outputs(rs) /\ c.replay = ToolOutputs(q)
      /\ Disclosed(c) = ToolOutputs(m) \o Outputs(rs)
  BY <1>3, DisclosedInCont DEF DisclosedIs
<1>9. /\ ToolOutputs(m \o Tools(rs)) = ToolOutputs(q) \o Outputs(rs) /\ ToolOutputs(m) = ToolOutputs(q)
      /\ Told(m \o Tools(rs), h, V)
  <2>1. TurnSays(q, p, x, tl, V)
    BY <1>3, <1>5, TurnTold
  <2> QED BY <1>1, <2>1 DEF TurnSays, Answered
<1>10. ToolOutputs(q) \in Seq(Nat) /\ Disclosed(c) \in Seq(Nat)
       /\ Len(Disclosed(c)) = Len(ToolOutputs(q)) + Len(Outputs(rs))
  <2>1. ToolOutputs(q) \in Seq(Nat)
    BY <1>3, ToolOutputsAre DEF Told
  <2>2. \A s, v \in Seq(Nat) : s \o v \in Seq(Nat) /\ Len(s \o v) = Len(s) + Len(v)
    BY ONLY Concatenation, ZenonT(30)
  <2> QED BY ONLY ZenonT(30), <1>7, <1>8, <1>9, <2>1, <2>2
<1>11. Discloses(Disclosed(c), h)
  BY <1>8, <1>9 DEF Told, Disclosing
<1>12. WalkIsWhole(Walk(m), rs) /\ Len(m) \in Nat /\ Len(m) >= 2
  BY <1>3, <1>5, ReplayWalks DEF ReplayWalk
<1>13. EvidenceIsDurable(checkpoint)
  BY <1>3, <1>4, <1>5, <1>6, <1>8, EvidenceIsThere
<1> HIDE DEF c, m, rs
<1>14. ASSUME ~Unadoptable PROVE FineCheckpoint(checkpoint)
  <2>1. /\ \A i \in DOMAIN rows : rows[i].gen = checkpoint.gen
        /\ ~(Len(m) > MaxMessages) /\ ~(Len(rows) > MaxResults)
    BY <1>6, <1>8, <1>14 DEF Unadoptable, c
  <2>2. Len(m) \in 2..MaxMessages
    BY <1>12, <2>1, ConversationAssumption
  <2>3. Len(Disclosed(c)) <= MaxResults /\ Len(c.replay) + Len(c.transfers) = Len(Disclosed(c))
        /\ Len(c.transfers) = Len(c.input)
    <3>1. Len(rows) \in Nat /\ MaxResults \in Nat
      BY ConversationAssumption DEF RowsAre
    <3>2. Len(Disclosed(c)) = Len(rows)
      BY <1>3, <1>7, <1>10
    <3>3. Len(Disclosed(c)) <= MaxResults
      BY ONLY <2>1, <3>1, <3>2
    <3>4. Len(c.replay) = Len(ToolOutputs(q)) /\ Len(c.transfers) = Len(Outputs(rs)) /\ Len(c.input) = Len(rs)
      BY <1>8
    <3> QED BY ONLY <1>7, <1>10, <3>3, <3>4
  <2>4. CheckpointIsValid(checkpoint)
    BY <1>7, <1>8, <1>12, <1>13, <2>2, <2>3 DEF CheckpointIsValid, c
  <2>5. ASSUME NEW i \in DOMAIN Disclosed(c) PROVE Disclosed(c)[i] \in DOMAIN rows
    <3>1. i \in 1..Len(Disclosed(c))
      BY <1>10
    <3>2. PICK j \in 1..Len(h) : \E k \in 1..Len(h[j].results) : Disclosed(c)[i] = h[j].results[k].output
      BY <1>11, <3>1 DEF Discloses
    <3>3. PICK k \in 1..Len(h[j].results) : Disclosed(c)[i] = h[j].results[k].output
      BY <3>2
    <3>4. InRows(h[j].results[k].output, j, h[j].results[k].call)
      BY OutputIsRow
    <3> QED BY <3>3, <3>4 DEF InRows
  <2>6. OneGeneration(checkpoint)
    BY <2>1, <2>5 DEF OneGeneration, RowOf, c
  <2> QED BY <2>4, <2>6 DEF FineCheckpoint
<1> QED
  BY <1>14

\* A checkpoint that continues the retained response is adopted.
LEMMA ResumeAdopts ==
  ASSUME NEW V, 0 \in V, NEW h, RowsAre(asked, rows, V), History(h, V, asked, rows), Stopped(V, h), ~Stateless
  PROVE  FineCheckpoint(checkpoint)
<1>1. PICK p \in Seq(TurnOf(V)), x \in TurnOf(V) : h = Append(p, x) /\ Resumes(checkpoint.cont, x)
  BY DEF Stopped, Continues
<1> DEFINE c == checkpoint.cont
           rs == x.results
           t == Len(asked)
<1>2. asked[t].id # 0 /\ c = Cont(asked[t].id, <<>>, rs, Outputs(rs), <<>>)
  BY <1>1 DEF Resumes
<1>3. Fitting(x) /\ Len(h) = t /\ t = Len(p) + 1 /\ Happened(x, t, asked, rows)
  BY <1>1, HistoryOfTurn DEF HistorySplits, Stopped
<1>4. rs # <<>> /\ Len(Outputs(rs)) = Len(rs) /\ Len(rs) \in Nat /\ Outputs(rs) \in Seq(Nat) /\ Len(rs) = Len(x.calls)
  BY <1>3, CallsAnswered
<1>5. /\ c.id = asked[t].id /\ c.input = rs /\ c.transfers = Outputs(rs) /\ c.replay = <<>>
      /\ Disclosed(c) = ToolOutputs(<<>>) \o Outputs(rs)
  BY <1>2, DisclosedInCont DEF DisclosedIs
<1>6. Disclosed(c) = Outputs(rs)
  BY <1>4, <1>5, ToolOutputsAre, Concatenation
<1> HIDE DEF c, rs, t
<1>7. CheckpointIsValid(checkpoint)
  BY <1>2, <1>4, <1>5 DEF CheckpointIsValid, c
<1>8. ASSUME NEW i \in DOMAIN Disclosed(c) PROVE rows[Disclosed(c)[i]].gen = checkpoint.gen
  <2>1. i \in 1..Len(rs) /\ Disclosed(c)[i] = rs[i].output
    BY <1>4, <1>6 DEF Outputs
  <2>2. rs[i].output \in 1..Len(rows) /\ rows[rs[i].output].turn = t
    BY <1>3, <1>4, <2>1 DEF Happened, rs
  <2> QED BY <2>1, <2>2 DEF Stopped, t
<1> QED
  BY <1>7, <1>8 DEF FineCheckpoint, OneGeneration, RowOf, c

LEMMA AdoptGoes ==
  ASSUME ConvInv, Adopt
  PROVE  ConvInv'
<1> DEFINE fine == FineCheckpoint(checkpoint)
<1>1. /\ phase = "crashed" /\ conf' = conf
      /\ UNCHANGED <<rows, checkpoint, definition, asked, crashes>>
      /\ fine => phase' = "idle" /\ cont' = checkpoint.cont /\ guard' = Resumed(checkpoint)
      /\ ~fine => phase' = "not_adopted" /\ guard' = guard
  BY DEF Adopt, FineCheckpoint
<1>2. PICK V, h : Going(V, h)
  BY <1>1 DEF ConvInv, Phases
<1>3. /\ 0 \in V /\ RowsAre(asked, rows, V) /\ History(h, V, asked, rows) /\ Stopped(V, h)
      /\ GuardIs /\ conf \in Deployment /\ definition \in Nat /\ crashes \in Nat
  BY <1>1, <1>2 DEF Going, ConvInv, GuardIs
<1>4. Stopped(V, h)'
  BY <1>1, <1>3, StoppedStays
<1> HIDE DEF fine
<1>5. CASE fine
  <2>1. PICK t, n, e : t = checkpoint.turns /\ n = checkpoint.total /\ e = ChainReference(checkpoint.cont)
    OBVIOUS
  <2>2. t = Len(asked) /\ t \in 0..conf.turns /\ n = Len(rows) /\ n \in 0..conf.total
    BY <1>3, <2>1 DEF Stopped
  <2>3. guard' = GuardOf(t, n, e, <<>>, {}, NoContinuation, <<>>, FALSE, crashes + 1)
    <3>1. NewGuard \in GuardBox(0, 0, NoContinuation, <<>>, {}, NoContinuation, <<>>, FALSE, 1)
      BY NewGuardIs, GuardInBox
    <3>2. guard' = [NewGuard EXCEPT !.turns = t, !.total = n, !.expected = e, !.gen = crashes + 1]
      BY <1>1, <1>5, <2>1 DEF Resumed
    <3>3. guard' \in GuardBox(t, n, e, <<>>, {}, NoContinuation, <<>>, FALSE, crashes + 1)
      BY ONLY <3>1, <3>2 DEF GuardBox
    <3> QED BY ONLY <3>3 DEF GuardBox, GuardOf
  <2>4. PICK k : k = crashes + 1 /\ k \in Nat
    BY <1>3
  <2>5. /\ GuardIs' /\ guard'.turns = t /\ guard'.total = n /\ guard'.expected = e /\ guard'.order = <<>>
        /\ guard'.outputs = {}
    <3>1. t \in 0..conf'.turns /\ n \in 0..conf'.total /\ conf' \in Deployment /\ definition' \in Nat /\ crashes' \in Nat
      BY <1>1, <1>3, <2>2
    <3>2. guard' = GuardOf(t, n, e, <<>>, {}, NoContinuation, <<>>, FALSE, k)
      BY <2>3, <2>4
    <3> QED BY ONLY ZenonT(30), <2>4, <3>1, <3>2, GuardIsNext
  <2>6. Idle(V, h)'
    <3>1. cont' = checkpoint' .cont /\ guard'.expected = ChainReference(checkpoint.cont) /\ cont' = checkpoint.cont
      BY <1>1, <1>5, <2>1, <2>5
    <3>2. PICK c : c = checkpoint.cont
      OBVIOUS
    <3>3. guard'.expected = ChainReference(c) /\ cont' = c
      BY <3>1, <3>2
    <3>4. guard'.expected = ChainReference(cont')
      BY <3>3
    <3>5. Len(h) = Len(asked)
      BY <1>3 DEF Stopped
    <3> QED BY <1>1, <1>4, <2>2, <2>5, <3>1, <3>4, <3>5 DEF Idle
  <2>7. Going(V, h)'
    BY <1>1, <1>3, <1>5, <2>6 DEF Going
  <2> QED BY <1>1, <1>5, <2>5, <2>7, ConvNext DEF Phases
<1>6. CASE ~fine
  <2>1. Unadoptable
    BY <1>3, <1>6, ReplayAdopts, ResumeAdopts DEF fine
  <2>2. NotAdoptedForAReason'
    BY <1>1, <2>1 DEF NotAdoptedForAReason, Unadoptable, Stateless
  <2>3. GuardIs'
    BY <1>1, <1>3, <1>6, GuardStays
  <2> QED BY <1>1, <1>6, <2>2, <2>3 DEF ConvInv, Phases, Endings, RefusedForAReason
<1> QED
  BY <1>5, <1>6

\* Every step keeps the invariant of a conversation.
LEMMA ConvStep ==
  ASSUME CallInv, CountInv, ConvInv, [Next]_vars
  PROVE  ConvInv'
<1>1. CASE BeginTurn
  BY <1>1, BeginTurnGoes
<1>2. CASE Streaming
  BY <1>2, StreamingGoes
<1>3. CASE ObserveTurn
  BY <1>3, ObserveTurnGoes
<1>4. CASE \E i \in DOMAIN guard.order : RunTool(i)
  BY <1>4, RunToolGoes
<1>5. CASE CloseBatch
  BY <1>5, CloseBatchGoes
<1>6. CASE Crash
  BY <1>6, CrashGoes
<1>7. CASE Adopt
  BY <1>7, AdoptGoes
<1>8. CASE ChangeDefinition
  BY <1>8, ChangeDefinitionGoes
<1>9. CASE Finish
  BY <1>9, FinishGoes
<1>10. CASE FinishBackground
  BY <1>10, FinishBackgroundGoes
<1>11. CASE UNCHANGED vars
  BY <1>11, StutterGoes
<1> QED
  BY <1>1, <1>2, <1>3, <1>4, <1>5, <1>6, <1>7, <1>8, <1>9, <1>10, <1>11 DEF Next

-----------------------------------------------------------------------------
(***************************************************************************)
(* What the invariant says: requests are true, conversations go on.        *)
(***************************************************************************)
\* The results sent after a retained response, one message each.
LEMMA ResumedWire ==
  ASSUME NEW V, 0 \in V, NEW rs \in Seq(ResultOf(V)), NEW s, s = OpenAiResults(rs)
  PROVE  [i \in 1..Len(s) |-> s[i].results[1]] = rs /\ WireOutputs(s) = Outputs(rs)
<1> DEFINE n == Len(rs)
<1>1. n \in Nat /\ rs = [i \in 1..n |-> rs[i]] /\ \A i \in 1..n : WireResult(rs[i]) = rs[i]
  <2>1. rs = [i \in 1..n |-> WireResult(rs[i])]
    BY WireResultsAre
  <2>2. n \in Nat /\ rs = [i \in 1..n |-> rs[i]]
    OBVIOUS
  <2> HIDE DEF n
  <2>3. \A i \in 1..n : WireResult(rs[i]) = rs[i]
    BY ONLY <2>1, ZenonT(30)
  <2> QED BY <2>2, <2>3
<1>2. s = [i \in 1..n |-> Wire("output", <<>>, <<>>, <<rs[i]>>)]
  <2> HIDE DEF n
  <2> QED BY <1>1 DEF OpenAiResults, n
<1>3. Len(s) = n /\ \A i \in 1..n : s[i].results = <<rs[i]>>
  <2>1. \A r : Wire("output", <<>>, <<>>, <<r>>).results = <<r>>
    BY DEF Wire
  <2> HIDE DEF n
  <2>2. Len(s) = n
    BY ONLY <1>1, <1>2
  <2>3. \A i \in 1..n : s[i] = Wire("output", <<>>, <<>>, <<rs[i]>>)
    BY ONLY <1>2
  <2> QED BY ONLY <2>1, <2>2, <2>3
<1> HIDE DEF n
<1>4. [i \in 1..Len(s) |-> s[i].results[1]] = rs
  <2>1. \A i \in 1..n : s[i].results[1] = rs[i]
    BY <1>3
  <2> QED BY <1>1, <1>3, <2>1
<1>5. WireOutputs(s) = Outputs(rs)
  <2> DEFINE o == Outputs(rs)
  <2>1. o \in Seq(Nat) /\ Len(o) = n /\ \A i \in 1..n : o[i] = rs[i].output
    BY ToolsAre DEF n
  <2>2. ASSUME NEW i \in 1..n PROVE Outputs(s[i].results) = <<o[i]>>
    <3>1. s[i].results = <<rs[i]>>
      BY <1>3
    <3>2. Outputs(<<rs[i]>>) = <<rs[i].output>>
      BY DEF Outputs
    <3> QED BY <2>1, <3>1, <3>2
  <2> HIDE DEF o
  <2>3. [i \in 1..Len(s) |-> Outputs(s[i].results)] = [i \in 1..Len(o) |-> <<o[i]>>]
    BY <1>3, <2>1, <2>2
  <2>4. FlattenSeq([i \in 1..Len(o) |-> <<o[i]>>]) = o
    BY <2>1, Singles
  <2> QED BY <2>3, <2>4 DEF WireOutputs, o
<1> QED
  BY <1>4, <1>5

\* The first message carries no result.
LEMMA FirstWire == WireOutputs(<<WireUser>>) = <<>>
<1> DEFINE V == {0}
<1>1. WireUser \in WireOf(V) /\ WireUser.results = <<>>
  <2>1. <<>> \in Seq(Char) /\ <<>> \in Seq(V) /\ <<>> \in Seq(ResultOf(V))
    OBVIOUS
  <2> HIDE DEF Char
  <2> QED BY <2>1 DEF WireUser, Wire, WireOf
<1>2. /\ WireOutputs(<<>>) = <<>>
      /\ \A s \in Seq(WireOf(V)), x \in WireOf(V) : WireOutputs(Append(s, x)) = WireOutputs(s) \o Outputs(x.results)
  BY WireOutputsAre
<1>3. Append(<<>>, WireUser) = <<WireUser>> /\ <<>> \in Seq(WireOf(V))
  OBVIOUS
<1>4. Outputs(<<>>) = <<>> /\ <<>> \o <<>> = <<>>
  BY DEF Outputs
<1>5. WireOutputs(Append(<<>>, WireUser)) = WireOutputs(<<>>) \o Outputs(WireUser.results)
  BY <1>1, <1>2, <1>3
<1> QED
  BY <1>1, <1>2, <1>3, <1>4, <1>5

\* A turn of the history is what was asked and what its calls really had.
LEMMA TurnIsAsked ==
  ASSUME NEW V, RowsAre(asked, rows, V), NEW h, History(h, V, asked, rows), NEW j \in 1..Len(h)
  PROVE  /\ h[j].text = asked[j].text /\ h[j].calls = asked[j].calls /\ h[j].results = ResultsOf(j)
         /\ h[j].results \in Seq(ResultOf(V)) /\ Len(h[j].results) = Len(h[j].calls)
<1>1. Happened(h[j], j, asked, rows) /\ h[j] \in TurnOf(V)
  BY DEF History
<1>2. h[j].results \in Seq(ResultOf(V))
  BY <1>1 DEF TurnOf
<1> QED
  BY <1>1, <1>2, ResultsOfIs DEF Happened, Fitting

\* A turn as Ollama is told it, in the words of the property.
OllamaAsked(j) ==
  <<Wire("assistant", asked[j].text, [i \in 1..Len(asked[j].calls) |-> 0], <<>>)>>
  \o [i \in 1..Len(asked[j].calls) |-> Wire("tool", <<>>, <<>>, NoIds(<<ResultsOf(j)[i]>>))]

LEMMA OllamaTurnAsked ==
  ASSUME NEW V, RowsAre(asked, rows, V), NEW h, History(h, V, asked, rows), NEW j \in 1..Len(h)
  PROVE  OllamaTurn(h[j]) = OllamaAsked(j)
<1> DEFINE x == h[j]
           rs == ResultsOf(j)
           n == Len(asked[j].calls)
<1>1. x.text = asked[j].text /\ x.calls = asked[j].calls /\ x.results = rs /\ rs \in Seq(ResultOf(V)) /\ Len(rs) = n
  BY TurnIsAsked
<1> HIDE DEF x, rs
<1>2. ASSUME NEW i \in 1..n PROVE NoIds(<<rs[i]>>) = <<[call |-> 0, output |-> rs[i].output]>>
  <2>1. rs[i] \in ResultOf(V)
    BY <1>1
  <2>2. PICK r \in ResultOf(V) : r = rs[i]
    BY <2>1
  <2>3. [r EXCEPT !.call = 0] = [call |-> 0, output |-> r.output]
    BY DEF ResultOf
  <2>4. Len(<<r>>) = 1 /\ <<r>>[1] = r /\ 1..1 = {1}
    OBVIOUS
  <2>5. NoIds(<<r>>) = [i1 \in {1} |-> [call |-> 0, output |-> r.output]]
    BY <2>3, <2>4 DEF NoIds
  <2>6. <<[call |-> 0, output |-> r.output]>> = [i1 \in {1} |-> [call |-> 0, output |-> r.output]]
    OBVIOUS
  <2> QED BY <2>2, <2>5, <2>6
<1>3. [i \in 1..n |-> Wire("tool", <<>>, <<>>, NoIds(<<rs[i]>>))]
      = [i \in 1..n |-> Wire("tool", <<>>, <<>>, <<[call |-> 0, output |-> rs[i].output]>>)]
  BY <1>2
<1>4. OllamaTurn(x) = <<Wire("assistant", asked[j].text, [i \in 1..n |-> 0], <<>>)>>
                      \o [i \in 1..n |-> Wire("tool", <<>>, <<>>, <<[call |-> 0, output |-> rs[i].output]>>)]
  BY <1>1 DEF OllamaTurn
<1> QED
  BY <1>3, <1>4 DEF OllamaAsked, x, rs

\* A request tells what happened, each result with its transfer.
LEMMA SentIsTrue == ConvInv => RequestsAreTrue
<1> SUFFICES ASSUME ConvInv, phase = "streaming" PROVE RequestsAreTrue
  BY DEF RequestsAreTrue, SentIsTheConversation, EveryResultIsCovered
<1>1. PICK V, h : Going(V, h)
  BY DEF ConvInv, Phases
<1>2. /\ 0 \in V /\ RowsAre(asked, rows, V) /\ History(h, V, asked, rows) /\ SentTo(V, h) /\ Len(h) = Len(asked)
      /\ h \in Seq(TurnOf(V)) /\ Len(h) \in Nat
  BY <1>1 DEF Going, Sending, History
<1> DEFINE t == Len(asked)
<1>3. ASSUME NEW j \in 1..t
      PROVE  /\ h[j].text = asked[j].text /\ h[j].calls = asked[j].calls /\ h[j].results = ResultsOf(j)
             /\ h[j].results \in Seq(ResultOf(V)) /\ OllamaTurn(h[j]) = OllamaAsked(j)
  BY <1>2, TurnIsAsked, OllamaTurnAsked
<1>4. OnTheWire = WireOutputs(sent)
  BY DEF OnTheWire, WireOutputs, Outputs
<1>5. ASSUME WireOutputs(sent) = request.transfers PROVE EveryResultIsCovered
  BY <1>4, <1>5 DEF EveryResultIsCovered
<1>6. CASE ~Stateless
  <2>1. CASE t = 0
    <3>1. asked = <<>>
      BY <1>2, <2>1 DEF RowsAre
    <3>2. request.transfers = <<>> /\ sent = <<WireUser>>
      BY <1>2, <1>6, <3>1 DEF SentTo
    <3>3. EveryResultIsCovered
      BY <1>5, <3>2, FirstWire
    <3>4. ~(t > 0) /\ conf.kind # "anthropic" /\ conf.kind # "ollama"
      BY <1>6, <2>1 DEF Stateless
    <3>5. SentIsTheConversation
      BY ONLY <1>6, <3>4 DEF SentIsTheConversation
    <3> QED BY <3>3, <3>5 DEF RequestsAreTrue
  <2>2. CASE t # 0
    <3> DEFINE rs == h[t].results
    <3>1. t \in 1..t /\ asked # <<>>
      BY <1>2, <2>2
    <3>2. rs = ResultsOf(t) /\ rs \in Seq(ResultOf(V))
      BY <1>3, <3>1
    <3>3. request.cont.id = asked[t].id /\ request.transfers = Outputs(rs) /\ sent = OpenAiResults(rs)
      BY <1>2, <1>6, <3>1 DEF SentTo
    <3>4. [i \in 1..Len(sent) |-> sent[i].results[1]] = rs /\ WireOutputs(sent) = Outputs(rs)
      BY <1>2, <3>2, <3>3, ResumedWire
    <3>5. EveryResultIsCovered
      BY <1>5, <3>3, <3>4
    <3>6. [i \in 1..Len(sent) |-> sent[i].results[1]] = ResultsOf(t)
      BY <3>2, <3>4
    <3>7. conf.kind # "anthropic" /\ conf.kind # "ollama"
      BY <1>6 DEF Stateless
    <3>8. SentIsTheConversation
      BY ONLY <1>6, <3>3, <3>6, <3>7 DEF SentIsTheConversation
    <3> QED BY <3>5, <3>8 DEF RequestsAreTrue
  <2> QED BY <2>1, <2>2
<1>7. CASE conf.kind = "anthropic"
  <2> DEFINE q == Before(request)
  <2>1. Told(q, h, V) /\ request.transfers = ToolOutputs(q) /\ sent = AnthropicHistory(q)
    BY <1>2, <1>7 DEF SentTo, Stateless
  <2>2. AnthropicTold(sent, h) /\ WireOutputs(sent) = ToolOutputs(q)
    BY <2>1 DEF Told
  <2>3. EveryResultIsCovered
    BY <1>5, <2>1, <2>2
  <2>4. Len(sent) = 2 * t + 1
    BY <1>2, <2>2 DEF AnthropicTold
  <2>5. ASSUME NEW j \in 1..t
        PROVE  /\ sent[2 * j] = Wire("assistant", asked[j].text, asked[j].calls, <<>>)
               /\ sent[2 * j + 1] = Wire("user", <<>>, <<>>, ResultsOf(j))
    BY <1>2, <1>3, <2>2 DEF AnthropicTold
  <2>6. Stateless
    BY <1>7 DEF Stateless
  <2>7. SentIsTheConversation
    BY ONLY <1>7, <2>4, <2>5, <2>6 DEF SentIsTheConversation
  <2> QED BY <2>3, <2>7 DEF RequestsAreTrue
<1>8. CASE conf.kind = "ollama"
  <2> DEFINE q == Before(request)
  <2>1. Told(q, h, V) /\ request.transfers = ToolOutputs(q) /\ sent = OllamaOf(q)
    BY <1>2, <1>8 DEF SentTo, Stateless
  <2>2. q \in Seq(MessageOf(V)) /\ OllamaTold(q, h)
    BY <2>1 DEF Told
  <2>3. WireOutputs(sent) = ToolOutputs(q)
    BY <1>2, <2>1, <2>2, OllamaIs
  <2>4. EveryResultIsCovered
    BY <1>5, <2>1, <2>3
  <2>5. [j \in 1..Len(h) |-> OllamaTurn(h[j])] = [j \in 1..t |-> OllamaAsked(j)]
    BY <1>2, <1>3
  <2>6. sent = <<WireUser>> \o FlattenSeq([j \in 1..t |-> OllamaAsked(j)])
    BY <2>1, <2>2, <2>5 DEF OllamaTold
  <2>7. Stateless /\ conf.kind # "anthropic"
    BY <1>8 DEF Stateless
  <2>8. SentIsTheConversation
    BY ONLY <1>8, <2>6, <2>7 DEF SentIsTheConversation, OllamaAsked
  <2> QED BY <2>4, <2>8 DEF RequestsAreTrue
<1> QED
  BY <1>6, <1>7, <1>8 DEF Stateless

\* A conversation goes on.
LEMMA GoesOn == CallInv /\ CountInv /\ ConvInv => ConversationGoesOn
<1> SUFFICES ASSUME CallInv, CountInv, ConvInv PROVE ConversationGoesOn
  OBVIOUS
<1>1. TypeOK
  <2>1. conf \in Deployment /\ guard.turns \in 0..conf.turns /\ guard.total \in 0..conf.total
    BY DEF ConvInv, GuardIs
  <2>2. phase \in {"idle", "streaming", "accepted", "finished", "failed", "tools", "refused", "crashed", "not_adopted"}
    BY DEF ConvInv, Phases, Endings
  <2>3. norm.wire \in 0..conf.frames /\ norm.visible <= conf.visible /\ exec.count \in 0..MaxEvents
    BY <2>1, LimitsAre DEF CountInv
  <2>4. timer \in 0..DeltaDelay
    BY DEF CallInv, DeltaInv
  <2> QED BY <2>1, <2>2, <2>3, <2>4 DEF TypeOK
<1>2. phase = "idle" /\ cont # NoContinuation =>
         /\ guard.turns = Len(asked) /\ guard.total = Len(rows) /\ guard.expected = ChainReference(cont)
  <2> SUFFICES ASSUME phase = "idle", cont # NoContinuation
               PROVE  /\ guard.turns = Len(asked) /\ guard.total = Len(rows)
                      /\ guard.expected = ChainReference(cont)
    OBVIOUS
  <2>1. PICK V, h : Going(V, h)
    BY DEF ConvInv, Phases
  <2> QED BY <2>1 DEF Going, Idle
<1>3. AdoptedWhereItStopped
  BY <1>2 DEF AdoptedWhereItStopped, ConvInv, NotAdoptedForAReason
<1> QED
  BY <1>1, <1>3 DEF ConversationGoesOn, ConvInv

\* The inductive invariant of a conversation: what was accepted of every turn,
\* what its calls had, and that the continuation in hand, the checkpoint and
\* the guard tell that same history (observe_provider_turn, next_continuation,
\* continuation, adopt).
THEOREM ConversationInvariance == Spec => [](CallInv /\ CountInv /\ ConvInv)
<1>1. Init => CallInv /\ CountInv /\ ConvInv
  BY CallStarts, CountStarts, ConvStarts
<1>2. (CallInv /\ CountInv /\ ConvInv) /\ [Next]_vars => (CallInv /\ CountInv /\ ConvInv)'
  BY CallStep, CountStep, ConvStep
<1> QED
  BY <1>1, <1>2, PTL DEF Spec

\* A request tells the provider the conversation that happened, and every
\* result in it has a transfer of its own, over any number of turns, crashes
\* and adoptions (request_body of the adapters, replay_tool_transfers).
THEOREM RequestsHold == Spec => []RequestsAreTrue
<1>1. CallInv /\ CountInv /\ ConvInv => RequestsAreTrue
  BY SentIsTrue
<1> QED
  BY <1>1, ConversationInvariance, PTL

\* A batch whose results are durable can go to the provider, and an adopted
\* run goes on where it stopped, unless a stated limit forbids it
\* (validate_stateless_messages, adopt, resume_after_tool_batch).
THEOREM ConversationHolds == Spec => []ConversationGoesOn
<1>1. CallInv /\ CountInv /\ ConvInv => ConversationGoesOn
  BY GoesOn
<1> QED
  BY <1>1, ConversationInvariance, PTL

=============================================================================
