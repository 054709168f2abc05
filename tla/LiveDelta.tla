------------------------------ MODULE LiveDelta ------------------------------
(***************************************************************************)
(* The coalescer of live deltas (live_delta.rs).  A character stands for   *)
(* its UTF-8 width, a text is a sequence of characters; a batch is cut at  *)
(* the byte ceiling without splitting a character, when the kind of the    *)
(* visible content changes, and when it is old enough.                     *)
(***************************************************************************)
EXTENDS Naturals, Sequences, SequencesExt

CONSTANTS DeltaBytes,    \* maximum_bytes of a batch (4..4096 in the code)
          DeltaDelay,    \* maximum_delay of a batch, in ticks (50 ms)
          Fragment       \* visible fragments of a stream: sequences of widths 1..4

ASSUME LiveDeltaAssumption ==
    /\ {DeltaBytes, DeltaDelay} \subseteq Nat \ {0}
    /\ Fragment \subseteq Seq(1..DeltaBytes) \ {<<>>}

Kinds == {"text", "reasoning"}

Bytes(text) == FoldLeft(LAMBDA n, c : n + c, 0, text)

(* what waits in the buffer of a kind, and for how long *)
NoDelta == [text |-> <<>>, age |-> 0]
EmptyBuffers == [k \in Kinds |-> NoDelta]

Pending(p) == {k \in Kinds : p[k].text # <<>>}

(* batch: what is buffered, the earlier kind first (the order of the first *)
(* fragments is the order of the ages)                                     *)
BatchesOf(p, ks) ==
    LET sorted == CHOOSE s \in SetToSeqs(ks) :
                     \A i, j \in DOMAIN s : i < j => p[s[i]].age >= p[s[j]].age
    IN [i \in 1..Len(sorted) |-> [kind |-> sorted[i], text |-> p[sorted[i]].text]]

Taken(p, ks) == [k \in Kinds |-> IF k \in ks THEN NoDelta ELSE p[k]]

FlushAll(p) == [p |-> Taken(p, Pending(p)), out |-> BatchesOf(p, Pending(p))]

Due(p) == {k \in Pending(p) : p[k].age >= DeltaDelay}

FlushDue(p) == [p |-> Taken(p, Due(p)), out |-> BatchesOf(p, Due(p))]

(* push_event, inner loop: the longest prefix that fits, then a new batch *)
PushChar(acc, c) ==
    LET split == Bytes(acc.text) + c > DeltaBytes
        text == IF split THEN <<c>> ELSE Append(acc.text, c)
        out == IF split THEN Append(acc.out, acc.text) ELSE acc.out
    IN IF Bytes(text) = DeltaBytes THEN [text |-> <<>>, out |-> Append(out, text)]
       ELSE [text |-> text, out |-> out]

(* Mutant: text of another kind is left behind. *)
OtherKindsLeft(p, kind) == {}

(* push_event: the content of the other kind goes first *)
OtherKinds(p, kind) == Pending(p) \ {kind}

(* push_event for a visible fragment; for any other event, FlushDue *)
PushEvent(p, kind, text) ==
    LET due == FlushDue(p)
        other == OtherKinds(due.p, kind)
        left == Taken(due.p, other)[kind]
        acc == FoldLeft(PushChar, [text |-> left.text, out |-> <<>>], text)
    IN IF text = <<>> THEN due
       ELSE [p |-> [Taken(due.p, other) EXCEPT ![kind] =
                      IF acc.text = <<>> THEN NoDelta
                      ELSE [text |-> acc.text, age |-> IF acc.out = <<>> THEN left.age ELSE 0]],
             out |-> due.out \o BatchesOf(due.p, other)
                     \o [i \in 1..Len(acc.out) |-> [kind |-> kind, text |-> acc.out[i]]]]

Aged(p) == [k \in Kinds |-> IF p[k].text = <<>> THEN p[k] ELSE [p[k] EXCEPT !.age = @ + 1]]

Tag(kind, text) == [i \in 1..Len(text) |-> <<kind, text[i]>>]

Flatten(batches) == FlattenSeq([i \in 1..Len(batches) |-> Tag(batches[i].kind, batches[i].text)])
=============================================================================
