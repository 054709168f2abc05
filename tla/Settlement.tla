---------------------------- MODULE Settlement ----------------------------
(***************************************************************************)
(* What a background provider turn promises, without leases, claims or     *)
(* clocks.  Capacity is booked for a turn and either freed or held; only a *)
(* held turn is sent, and only once; from then on its capacity is not      *)
(* freed.  An answer and what it cost are recorded in one step, and a turn *)
(* whose answer cannot be had is left to an operator with its capacity     *)
(* still held.                                                             *)
(***************************************************************************)
CONSTANT Turn

VARIABLES
  cost,    \* what happened to the turn's capacity
  sent,    \* the turn has been sent to the provider
  answer   \* what the turn came to

svars == <<cost, sent, answer>>

Costs == {"none", "booked", "freed", "held", "spent"}
Answers == {"none", "answered", "refused", "doubtful"}

SInit ==
  /\ cost = [s \in Turn |-> "none"]
  /\ sent = [s \in Turn |-> FALSE]
  /\ answer = [s \in Turn |-> "none"]

Becomes(s, from, to) ==
  /\ cost[s] = from
  /\ cost' = [cost EXCEPT ![s] = to]

Book(s) == Becomes(s, "none", "booked") /\ UNCHANGED <<sent, answer>>
Free(s) == Becomes(s, "booked", "freed") /\ UNCHANGED <<sent, answer>>
Hold(s) == Becomes(s, "booked", "held") /\ UNCHANGED <<sent, answer>>

Send(s) ==
  /\ cost[s] = "held" /\ ~sent[s]
  /\ sent' = [sent EXCEPT ![s] = TRUE]
  /\ UNCHANGED <<cost, answer>>

Settle(s) ==
  /\ sent[s] /\ answer[s] = "none"
  /\ Becomes(s, "held", "spent")
  /\ \E a \in {"answered", "refused"} : answer' = [answer EXCEPT ![s] = a]
  /\ UNCHANGED sent

Doubt(S) ==
  /\ \A s \in S : answer[s] = "none"
  /\ answer' = [s \in Turn |-> IF s \in S THEN "doubtful" ELSE answer[s]]
  /\ UNCHANGED <<cost, sent>>

SNext ==
  \/ \E s \in Turn : Book(s) \/ Free(s) \/ Hold(s) \/ Send(s) \/ Settle(s)
  \/ \E S \in SUBSET Turn : Doubt(S)

SSpec == SInit /\ [][SNext]_svars
===========================================================================
