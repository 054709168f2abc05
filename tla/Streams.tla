------------------------------ MODULE Streams ------------------------------
(***************************************************************************)
(* The durable event streams and their subscriptions: a principal's inbox  *)
(* (OrmAiInboxService) and a session's events (OrmAiSubscriptionService    *)
(* over session_event_page).  Writers append rows under a head counter,    *)
(* retention takes rows away, and a subscriber replays rows up to a        *)
(* watermark and then waits for in-process wakeups.  The two services run  *)
(* the same loop over pages that are read and judged differently; one      *)
(* behaviour follows one stream of either kind and one client of it.       *)
(*                                                                         *)
(* A fleeting event is one that retention takes by itself: a live delta in *)
(* a session stream, an event of a session that is deleted in an inbox.    *)
(***************************************************************************)
EXTENDS Integers, Sequences, FiniteSets

CONSTANTS
  MaxHead,        \* bound: events ever appended
  PageSize,       \* replay_page_size
  MinimumEvents,  \* inbox_minimum_events of the retention policy
  PruneLimit,     \* maximum_events_per_stream of a pruning or retention pass
  Buffer,         \* capacity of the broadcast channel of wakeups
  MaxDrops        \* bound: connections lost

ASSUME StreamConstants ==
  /\ {MaxHead, PageSize, MinimumEvents, PruneLimit, Buffer} \subseteq Nat \ {0}
  /\ MaxDrops \in Nat

VARIABLES
  kind,      \* which service: "inbox" or "session"
  head,      \* stream_head
  minimum,   \* minimum_retained_sequence of an inbox stream
  event,     \* what is stored for each sequence
  expired,   \* events 1 .. expired are older than the policy's cutoff
  deleting,  \* the session is deleted (inbox: one that has events in it)
  revoked,   \* the resolver no longer resolves the principal
  pruner,    \* the pruner's candidate: "none", or its row version "same"/"moved"
  sub,       \* the client's connection
  told,      \* highest sequence of a session announced in this process
  seen,      \* sequences delivered since the client last loaded the state
  drops      \* connections lost

stream == <<kind, head, minimum, event, expired, deleting>>
streamVars == <<stream, revoked, pruner, sub, told, seen, drops>>

Sequence == 1 .. MaxHead

\* The first n members of a set of sequences, and the first of all.
Earliest(S, n) == {i \in S : Cardinality({j \in S : j <= i}) <= n}
First(S) == CHOOSE i \in S : \A j \in S : i <= j

\* at: where the subscription's loop is.  from: the cursor it was given;
\* cursor: delivered_sequence; target: target_watermark, the head of the first
\* page; mark: watermark of the page being read; page: its events; more: its
\* has_more; first: it is the first page of a replay; wakeups, lagged: the
\* receiver's side of the broadcast channel.
Closed(cursor) ==
  [at |-> "closed", from |-> cursor, cursor |-> cursor, target |-> 0, mark |-> 0,
   page |-> {}, more |-> FALSE, first |-> TRUE, wakeups |-> <<>>, lagged |-> FALSE]

\* The stored shape of every part of the state.
StreamTypeOK ==
  /\ kind \in {"inbox", "session"}
  /\ head \in 0 .. MaxHead
  /\ minimum \in 1 .. head + 1
  /\ event \in [Sequence -> {"none", "lasting", "fleeting", "purged", "gone"}]
  /\ \A i \in Sequence : event[i] = "none" <=> i > head
  /\ expired \in 0 .. head
  /\ deleting \in BOOLEAN /\ revoked \in BOOLEAN
  /\ pruner \in {"none", "same", "moved"}
  /\ sub.at \in {"closed", "replay", "rows", "deliver", "wait"}
  /\ 0 <= sub.from /\ sub.from <= sub.cursor /\ sub.cursor <= head
  /\ sub.target \in 0 .. head /\ sub.mark \in 0 .. head
  /\ sub.page \subseteq Sequence
  /\ sub.more \in BOOLEAN /\ sub.first \in BOOLEAN /\ sub.lagged \in BOOLEAN
  /\ sub.wakeups \in Seq(0 .. head) /\ Len(sub.wakeups) <= Buffer
  /\ told \in 0 .. head
  /\ seen \subseteq Sequence
  /\ drops \in 0 .. MaxDrops

StreamInit ==
  /\ kind \in {"inbox", "session"}
  /\ head = 0 /\ minimum = 1 /\ expired = 0
  /\ event = [i \in Sequence |-> "none"]
  /\ deleting = FALSE /\ revoked = FALSE
  /\ pruner = "none"
  /\ sub = Closed(0)
  /\ told = 0 /\ seen = {} /\ drops = 0

-----------------------------------------------------------------------------
(***************************************************************************)
(* Writers.                                                                *)
(***************************************************************************)

\* queue_event: a commit announces its sequence to the receivers attached in
\* this process; a full channel drops its oldest entry and marks the receiver.
Announce(i) ==
  IF sub.at = "closed" THEN sub
  ELSE IF Len(sub.wakeups) < Buffer
       THEN [sub EXCEPT !.wakeups = Append(@, i)]
       ELSE [sub EXCEPT !.wakeups = Append(Tail(@), i), !.lagged = TRUE]

\* The channel carries the wakeups of every stream of the process; one of
\* another stream counts as sequence 0 here.
OtherWakeup ==
  /\ sub.at # "closed"
  /\ sub' = Announce(0)
  /\ UNCHANGED <<stream, revoked, pruner, told, seen, drops>>

\* One event in the writer's transaction: the head moves by one under the row
\* version, which every candidate of the pruner then misses, and the commit
\* is announced, to this process only.  A session that is deleted has no
\* further events.
AppendEvent(what, here) ==
  /\ head < MaxHead
  /\ deleting => kind = "inbox" /\ what = "lasting"
  /\ head' = head + 1
  /\ event' = [event EXCEPT ![head + 1] = what]
  /\ pruner' = IF pruner = "same" THEN "moved" ELSE pruner
  /\ IF here
     THEN /\ sub' = Announce(head + 1)
          /\ told' = IF kind = "session" THEN head + 1 ELSE told
     ELSE UNCHANGED <<sub, told>>
  /\ UNCHANGED <<kind, minimum, expired, deleting, revoked, seen, drops>>

\* The oldest event that is not expired passes the policy's age.
Expire ==
  /\ expired < head
  /\ expired' = expired + 1
  /\ UNCHANGED <<kind, head, minimum, event, deleting, revoked, pruner, sub, told, seen,
                 drops>>

DeleteSession ==
  /\ ~deleting
  /\ deleting' = TRUE
  /\ UNCHANGED <<kind, head, minimum, event, expired, revoked, pruner, sub, told, seen,
                 drops>>

-----------------------------------------------------------------------------
(***************************************************************************)
(* Retention.                                                              *)
(***************************************************************************)

\* candidates: read outside the transactions that prune.
PruneScan ==
  /\ kind = "inbox" /\ head > 0
  /\ pruner = "none"
  /\ pruner' = "same"
  /\ UNCHANGED <<stream, revoked, sub, told, seen, drops>>

\* The newest sequence the policy's floor lets go ...
NewestDeletable == head - MinimumEvents

\* ... and the rows prune_stream takes: the expired prefix, in one bounded page.
Deletable ==
  {i \in minimum .. minimum + PruneLimit - 1 : i <= expired /\ i <= NewestDeletable}

\* Mutant: a candidate that moved is kept for the next pass.
PruneStreamKeepsCandidate ==
  /\ pruner = "same"
  /\ minimum' = minimum + Cardinality(Deletable)
  /\ event' = [i \in Sequence |-> IF i \in Deletable THEN "gone" ELSE event[i]]
  /\ pruner' = "none"
  /\ UNCHANGED <<kind, head, expired, deleting, revoked, sub, told, seen, drops>>

\* prune_stream: a candidate that moved is a conflict, left for a later pass.
PruneStream ==
  /\ pruner # "none"
  /\ IF pruner = "same"
     THEN /\ minimum' = minimum + Cardinality(Deletable)
          /\ event' = [i \in Sequence |-> IF i \in Deletable THEN "gone" ELSE event[i]]
     ELSE UNCHANGED <<minimum, event>>
  /\ pruner' = "none"
  /\ UNCHANGED <<kind, head, expired, deleting, revoked, sub, told, seen, drops>>

\* What a pass of the session retention takes from this stream: the first page
\* of live deltas, as far as they are expired, or of the inbox payloads of a
\* deleted session.
Fleeting == {i \in Sequence : event[i] = "fleeting"}
FirstFleeting == Earliest(Fleeting, PruneLimit)
Retained ==
  IF kind = "inbox"
  THEN IF deleting THEN FirstFleeting ELSE {}
  ELSE IF deleting THEN {} ELSE {i \in FirstFleeting : i <= expired}

\* prune_session: inbox rows stay as tombstones, live deltas go.
RetentionPass ==
  /\ Retained # {}
  /\ event' = [i \in Sequence |->
                 IF i \in Retained
                 THEN IF kind = "inbox" THEN "purged" ELSE "gone"
                 ELSE event[i]]
  /\ UNCHANGED <<kind, head, minimum, expired, deleting, revoked, pruner, sub, told, seen,
                 drops>>

-----------------------------------------------------------------------------
(***************************************************************************)
(* Pages.                                                                  *)
(***************************************************************************)

\* The stored rows after a cursor and up to a watermark, one more than the page
\* holds, which only tells that there are more.
RowsAfter(cursor, watermark) ==
  Earliest({i \in cursor + 1 .. watermark : event[i] # "gone"}, PageSize + 1)

Shown(rows) == Earliest(rows, PageSize)

\* Mutant: the retained prefix is not compared with the cursor.
InboxResetUnpruned(cursor, rows) == \E i \in Shown(rows) : event[i] = "purged"

\* Mutant: the event at the cursor counts as lost, too.
InboxResetAlways(cursor, rows) ==
  cursor + 1 <= minimum \/ \E i \in Shown(rows) : event[i] = "purged"

\* event_page: the inbox page asks for a reset when the cursor is before the
\* retained prefix or the page holds a tombstone; the rows behind the retained
\* minimum have no holes, and it does not look for one.
InboxReset(cursor, rows) ==
  cursor + 1 < minimum \/ \E i \in Shown(rows) : event[i] = "purged"

\* session_event_page: any hole in what it read, the row past the page
\* included, and nothing at all below the watermark.
SessionReset(cursor, watermark, rows) ==
  /\ cursor < watermark
  /\ rows = {} \/ \E i \in rows : \E k \in cursor + 1 .. i - 1 : k \notin rows

-----------------------------------------------------------------------------
(***************************************************************************)
(* The subscription.                                                       *)
(***************************************************************************)

\* inbox_events, session_events: the receiver is attached before anything is
\* read, and the loop starts with a replay from the client's cursor.
Connect ==
  /\ sub.at = "closed"
  /\ ~revoked
  /\ kind = "session" => ~deleting
  /\ sub' = [Closed(sub.cursor) EXCEPT !.at = "replay", !.from = sub.from]
  /\ UNCHANGED <<stream, revoked, pruner, told, seen, drops>>

\* The connection is lost; the client keeps its cursor.
Drop ==
  /\ sub.at # "closed"
  /\ drops < MaxDrops
  /\ sub' = [Closed(sub.cursor) EXCEPT !.from = sub.from]
  /\ drops' = drops + 1
  /\ UNCHANGED <<stream, revoked, pruner, told, seen>>

\* The stream ends with an envelope that asks for a reset.  The client loads
\* the current state and comes back from the watermark it was given.
EndWithReset(watermark) ==
  /\ sub' = Closed(watermark)
  /\ seen' = {}

\* A page arrived: rows up to the watermark `mark', judged by `reset'.
Arrive(mark, rows, reset) ==
  LET target == IF sub.first THEN mark ELSE sub.target IN
  IF reset \/ (sub.first /\ mark < sub.cursor)
  THEN EndWithReset(target)
  ELSE /\ sub' = [sub EXCEPT !.at = "deliver", !.target = target, !.mark = 0,
                             !.page = Shown(rows), !.more = Cardinality(rows) > PageSize,
                             !.first = FALSE]
       /\ UNCHANGED seen

\* The inbox page reads stream row and event rows in one transaction.
ReadInboxPage ==
  /\ kind = "inbox" /\ sub.at = "replay"
  /\ LET rows == RowsAfter(sub.cursor, head)
     IN Arrive(head, rows, InboxReset(sub.cursor, rows))
  /\ UNCHANGED <<stream, revoked, pruner, told, drops>>

\* The session page reads the session row, which a deleted session hides ...
ReadSessionRow ==
  /\ kind = "session" /\ sub.at = "replay"
  /\ sub' = IF deleting
            THEN [Closed(sub.cursor) EXCEPT !.from = sub.from]
            ELSE [sub EXCEPT !.at = "rows", !.mark = head]
  /\ UNCHANGED <<stream, revoked, pruner, told, seen, drops>>

\* ... and then its rows in a transaction of their own.
ReadSessionRows ==
  /\ sub.at = "rows"
  /\ LET rows == RowsAfter(sub.cursor, sub.mark)
     IN Arrive(sub.mark, rows, SessionReset(sub.cursor, sub.mark, rows))
  /\ UNCHANGED <<stream, revoked, pruner, told, drops>>

\* The access policy may refuse the read of a principal that was revoked.
PageRefused ==
  /\ revoked
  /\ sub.at \in {"replay", "rows"}
  /\ sub' = [Closed(sub.cursor) EXCEPT !.from = sub.from]
  /\ UNCHANGED <<stream, revoked, pruner, told, seen, drops>>

\* The next event of the page goes to the client, unless it is past the
\* watermark of this replay.
EventDue == sub.page # {} /\ First(sub.page) <= sub.target

DeliverEvent ==
  /\ sub.at = "deliver" /\ EventDue
  /\ sub' = [sub EXCEPT !.cursor = First(sub.page), !.page = @ \ {First(sub.page)}]
  /\ seen' = seen \cup {First(sub.page)}
  /\ UNCHANGED <<stream, revoked, pruner, told, drops>>

Listening == [sub EXCEPT !.at = "wait", !.page = {}, !.target = 0, !.more = FALSE,
                         !.first = TRUE]

\* The page is used up: the replay has reached its watermark, or the page was
\* short of it, or the next one is read.
PageDone ==
  /\ sub.at = "deliver" /\ ~EventDue
  /\ IF sub.cursor >= sub.target \/ sub.page # {}
     THEN sub' = Listening /\ UNCHANGED seen
     ELSE IF ~sub.more
     THEN EndWithReset(sub.target)
     ELSE sub' = [sub EXCEPT !.at = "replay", !.page = {}] /\ UNCHANGED seen
  /\ UNCHANGED <<stream, revoked, pruner, told, drops>>

\* A replay starts again from the cursor.
Replay(s) == [s EXCEPT !.at = "replay"]

\* recv: a lagged receiver first learns that it lagged, then the entries left.
RecvLagged ==
  /\ sub.at = "wait" /\ sub.lagged
  /\ sub' = Replay([sub EXCEPT !.lagged = FALSE])
  /\ UNCHANGED <<stream, revoked, pruner, told, seen, drops>>

\* A wakeup past the cursor is a reason to read; any other is not.
Recv ==
  /\ sub.at = "wait" /\ ~sub.lagged /\ sub.wakeups # <<>>
  /\ LET taken == [sub EXCEPT !.wakeups = Tail(@)]
     IN sub' = IF Head(sub.wakeups) > sub.cursor THEN Replay(taken) ELSE taken
  /\ UNCHANGED <<stream, revoked, pruner, told, seen, drops>>

\* Mutant: the principal is not resolved again.
ReauthorizeStale ==
  /\ sub.at = "wait"
  /\ sub' = IF kind = "session" /\ deleting
            THEN [Closed(sub.cursor) EXCEPT !.from = sub.from]
            ELSE IF kind = "inbox" THEN Replay(sub) ELSE sub
  /\ UNCHANGED <<stream, revoked, pruner, told, seen, drops>>

\* The tick resolves the principal again and, for an inbox, replays; for a
\* session it looks the session up and goes on waiting.
Reauthorize ==
  /\ sub.at = "wait"
  /\ sub' = IF revoked \/ (kind = "session" /\ deleting)
            THEN [Closed(sub.cursor) EXCEPT !.from = sub.from]
            ELSE IF kind = "inbox" THEN Replay(sub) ELSE sub
  /\ UNCHANGED <<stream, revoked, pruner, told, seen, drops>>

Revoke ==
  /\ ~revoked
  /\ revoked' = TRUE
  /\ UNCHANGED <<stream, pruner, sub, told, seen, drops>>

-----------------------------------------------------------------------------
ReadPage == ReadInboxPage \/ ReadSessionRow \/ ReadSessionRows

StreamNext ==
  \/ \E what \in {"lasting", "fleeting"}, here \in BOOLEAN : AppendEvent(what, here)
  \/ OtherWakeup \/ Expire \/ DeleteSession \/ Revoke
  \/ PruneScan \/ PruneStream \/ RetentionPass
  \/ Connect \/ Drop \/ ReadPage \/ PageRefused \/ DeliverEvent \/ PageDone
  \/ RecvLagged \/ Recv \/ Reauthorize

StreamSpec == StreamInit /\ [][StreamNext]_streamVars

\* The host schedules the pruner, the runtime polls the subscription and fires
\* its interval, and a client whose stream ended connects again.  select! picks
\* at random among its ready branches, so a due tick is not passed over forever
\* however many wakeups there are.
Fairness ==
  /\ WF_streamVars(PruneScan) /\ WF_streamVars(PruneStream)
  /\ WF_streamVars(Connect)
  /\ WF_streamVars(ReadPage) /\ WF_streamVars(DeliverEvent) /\ WF_streamVars(PageDone)
  /\ WF_streamVars(RecvLagged) /\ WF_streamVars(Recv)
  /\ SF_streamVars(Reauthorize)

FairSpec == StreamSpec /\ Fairness

-----------------------------------------------------------------------------
(***************************************************************************)
(* What makes it correct.                                                  *)
(***************************************************************************)

\* A client has been given every event between the state it loaded and its
\* cursor, whatever was pruned, purged or removed while pages were read: the
\* loop advances over no hole (inbox_events, session_events).
NothingSkipped == seen = sub.from + 1 .. sub.cursor

\* The rows of an inbox are exactly those from the retained minimum to the
\* head, which is what lets event_page do without a search for holes and
\* prune_stream fail on any row out of place.
RetainedIsContiguous ==
  kind = "inbox" => \A i \in 1 .. head : event[i] = "gone" <=> i < minimum

\* Pruning leaves the newest inbox_minimum_events in the stream, whatever their
\* age and however it races with appends.
RecentFloorIsKept ==
  \A i \in 1 .. head :
    i < minimum => Cardinality({j \in 1 .. head : event[j] # "gone"}) >= MinimumEvents

\* A subscription only gives up on a client when something after the client's
\* cursor is really lost to it.
ResetOnlyForLoss ==
  [][ sub'.from # sub.from =>
        \E i \in sub.cursor + 1 .. head : event[i] \in {"gone", "purged"} ]_streamVars

\* An inbox client catches up again and again with everything committed, in
\* whichever process: the reauthorization tick replays even when no wakeup came.
InboxCatchesUp == []<>(kind = "inbox" => sub.cursor = head \/ revoked)

\* A session client catches up with everything announced to its process, lag
\* of the channel included.
SessionCatchesUp ==
  []<>(kind = "session" => sub.cursor >= told \/ revoked \/ deleting)

\* The stream of a revoked principal ends, although pages go on being read with
\* the principal the stream was opened with.
RevokedIsClosed == revoked ~> (sub.at = "closed")

\* A pass that lost its candidate to an append is made up for: what the policy
\* lets go is removed from the inbox.
ExpiredIsPruned ==
  []<>(kind = "inbox" => \A i \in 1 .. expired : i <= head - MinimumEvents => minimum > i)

\* No event goes missing between the table and a client: rows are contiguous,
\* the newest are kept, and a client's cursor leaves none behind.
StreamIsUnbroken ==
  StreamTypeOK /\ RetainedIsContiguous /\ RecentFloorIsKept /\ NothingSkipped

\* A client gets what it may have and no more: inbox and session subscribers
\* catch up, and the stream of a revoked one ends.
SubscribersAreServed == InboxCatchesUp /\ SessionCatchesUp /\ RevokedIsClosed
=============================================================================
