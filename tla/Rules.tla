-------------------------------- MODULE Rules --------------------------------
(***************************************************************************)
(* Hierarchical rules (orm_rules.rs, rules.rs).  A run works under the     *)
(* intersection of the deployment ceiling and of every stored layer of its *)
(* scope.  OrmAiCurrentRuleResolver reads the whole lineage twice, checks  *)
(* the principal before each pass, and answers only if both passes have    *)
(* the same fingerprint.  Layers are read here one at a time, with writes  *)
(* in between: nothing is assumed of the isolation of the reads.           *)
(***************************************************************************)
EXTENDS Naturals, FiniteSets, Sequences

CONSTANTS Depth,          \* layers of the lineage, broadest first
          Tools,          \* tool fingerprints
          Ceiling,        \* the constraints of the deployment
          Inputs,         \* constraints an administrator may submit
          MaxRuleWrites,  \* bound: writes of a behaviour
          MaxUsage        \* bound: units one provider call may report

Unlimited == MaxUsage * (MaxUsage + 1) + 1      \* stands for no ceiling
EveryTool == {"every tool"}                       \* no allowlist
Constraint == [enabled : BOOLEAN, tools : (SUBSET Tools) \cup {EveryTool},
               limit : 0..Unlimited]

ASSUME RulesAssumption ==
    /\ Depth \in Nat \ {0} /\ MaxRuleWrites \in Nat /\ MaxUsage \in Nat
    /\ Ceiling \in Constraint /\ Inputs \subseteq Constraint
    /\ "every tool" \notin Tools

VARIABLES rule,        \* layer -> stored policy, version 0 if absent
          principal,   \* is the principal of the run still valid?
          reader,      \* the resolution under way
          resolved,    \* the answer the run holds, or NoRules
          spent,       \* AiRuleRunUsage: units accepted so far
          together,    \* ghost: lineages in force, with a valid principal, during the resolution
          basis,       \* ghost: the lineages the held answer may rest on
          ruleWrites

ruleVars == <<rule, principal, reader, resolved, spent, together, basis, ruleWrites>>

NoPolicy == [version |-> 0, value |-> Ceiling]
NoReading == [pass |-> 0, seen |-> <<>>, first |-> <<>>]
NoRules == [pass |-> 0, value |-> Ceiling]

(* minimum_optional, intersect_optional_sets: absence does not constrain *)
MeetTools(a, b) == IF a = EveryTool THEN b ELSE IF b = EveryTool THEN a ELSE a \cap b
Lower(a, b) == IF a < b THEN a ELSE b

Narrow(a, b) == [enabled |-> a.enabled /\ b.enabled,
                 tools |-> MeetTools(a.tools, b.tools),
                 limit |-> Lower(a.limit, b.limit)]

(* optional_set_is_subset, budget_is_no_broader: absence inherits *)
NoBroader(a, b) ==
    /\ a.enabled => b.enabled
    /\ a.tools = EveryTool \/ b.tools = EveryTool \/ a.tools \subseteq b.tools
    /\ a.limit = Unlimited \/ b.limit = Unlimited \/ a.limit <= b.limit

Effective(lineage) ==
    LET upto[n \in 0..Depth] ==
            IF n = 0 THEN Ceiling ELSE Narrow(upto[n - 1], lineage[n].value)
    IN upto[Depth]

RuleInit ==
    /\ rule \in [1..Depth -> {NoPolicy} \cup {[version |-> 1, value |-> c] : c \in Inputs}]
    /\ principal = TRUE
    /\ reader = NoReading /\ resolved = NoRules
    /\ spent = 0 /\ together = {} /\ basis = {} /\ ruleWrites = 0

Witness(lineage, valid) == IF reader.pass > 0 /\ valid THEN {lineage} ELSE {}

(* set_policy: within the deployment ceiling; insert, or swap under the    *)
(* version                                                                 *)
SetPolicy(l) ==
    /\ ruleWrites < MaxRuleWrites
    /\ \E c \in Inputs :
          /\ NoBroader(c, Ceiling)
          /\ rule' = [rule EXCEPT ![l] = [version |-> @.version + 1, value |-> c]]
    /\ ruleWrites' = ruleWrites + 1
    /\ together' = together \cup Witness(rule', principal)
    /\ UNCHANGED <<principal, reader, resolved, spent, basis>>

Revoke ==
    /\ principal
    /\ principal' = FALSE
    /\ UNCHANGED <<rule, reader, resolved, spent, together, basis, ruleWrites>>

(* resolve_rules: current_principal, then the first pass *)
StartResolution ==
    /\ reader = NoReading /\ resolved = NoRules
    /\ principal
    /\ reader' = [NoReading EXCEPT !.pass = 1]
    /\ together' = {rule}
    /\ UNCHANGED <<rule, principal, resolved, spent, basis, ruleWrites>>

(* resolve_for_run reads one layer: it must exist, and stay within the     *)
(* ceiling of this deployment                                              *)
Readable(p) == p.version > 0 /\ NoBroader(p.value, Ceiling)

ReadLayer ==
    /\ reader.pass > 0 /\ Len(reader.seen) < Depth
    /\ LET p == rule[Len(reader.seen) + 1]
       IN reader' = IF Readable(p) THEN [reader EXCEPT !.seen = Append(@, p)] ELSE NoReading
    /\ UNCHANGED <<rule, principal, resolved, spent, together, basis, ruleWrites>>

(* current_principal again, then the second pass *)
SecondPass ==
    /\ reader.pass = 1 /\ Len(reader.seen) = Depth
    /\ reader' = IF principal THEN [pass |-> 2, seen |-> <<>>, first |-> reader.seen]
                 ELSE NoReading
    /\ UNCHANGED <<rule, principal, resolved, spent, together, basis, ruleWrites>>

(* Mutant: only the number of layers is compared. *)
FingerprintOfTarget(lineage) == <<Len(lineage)>>

(* the fingerprint covers the effective constraints and every version *)
Fingerprint(lineage) == <<Effective(lineage), [n \in 1..Depth |-> lineage[n].version]>>

Resolve ==
    /\ reader.pass = 2 /\ Len(reader.seen) = Depth
    /\ IF Fingerprint(reader.seen) = Fingerprint(reader.first)
       THEN /\ resolved' = [pass |-> 2, value |-> Effective(reader.seen)]
            /\ basis' = together
       ELSE UNCHANGED <<resolved, basis>>
    /\ reader' = NoReading
    /\ UNCHANGED <<rule, principal, spent, together, ruleWrites>>

(* accept_provider: the usage a call reported is added and checked against *)
(* a fresh answer; the answer is used once                                 *)
AcceptProvider ==
    /\ resolved # NoRules
    /\ \/ \E n \in 0..MaxUsage :
             /\ resolved.value.enabled
             /\ spent + n <= resolved.value.limit
             /\ spent < MaxUsage                 \* bound
             /\ spent' = spent + n
       \/ UNCHANGED spent                       \* denied
    /\ resolved' = NoRules /\ basis' = {}
    /\ UNCHANGED <<rule, principal, reader, together, ruleWrites>>

RuleNext ==
    \/ \E l \in 1..Depth : SetPolicy(l)
    \/ Revoke \/ StartResolution \/ ReadLayer \/ SecondPass \/ Resolve \/ AcceptProvider

-----------------------------------------------------------------------------
RuleTypeOK ==
    /\ \A l \in 1..Depth : rule[l].version \in 0..(MaxRuleWrites + 1) /\ rule[l].value \in Constraint
    /\ principal \in BOOLEAN
    /\ reader.pass \in 0..2 /\ Len(reader.seen) <= Depth
    /\ resolved.value \in Constraint
    /\ spent \in 0..(2 * MaxUsage)

(* What a run may do under a constraint set. *)
Permits(c, tool, n) ==
    /\ c.enabled
    /\ c.tools = EveryTool \/ tool \in c.tools
    /\ n <= c.limit

(* An answer is one the layers gave together: there was a moment during the *)
(* resolution at which the principal was valid and whatever the answer      *)
(* permits was permitted by the ceiling and by every layer, although the    *)
(* layers are read one at a time and administrators write in between        *)
(* (resolve_rules reads the lineage twice for this).                        *)
AnswerWasInForce ==
    resolved # NoRules =>
        \E lineage \in basis :
            \A tool \in Tools, n \in 0..Unlimited :
                Permits(resolved.value, tool, n) =>
                    /\ Permits(Ceiling, tool, n)
                    /\ \A l \in 1..Depth : Permits(lineage[l].value, tool, n)
=============================================================================
