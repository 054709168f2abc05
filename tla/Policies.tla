------------------------------- MODULE Policies -------------------------------
(***************************************************************************)
(* The administered rows of one scope: the content-protection policy, the  *)
(* retention policy, the budget policies (orm_configuration.rs) and the    *)
(* skill catalog (orm_skills.rs).  An administrator reads a row and writes *)
(* it back under the version read; a publication also reads the content    *)
(* policy and protects its instructions before its transaction.            *)
(***************************************************************************)
EXTENDS Naturals, FiniteSets

CONSTANTS Editors,            \* concurrent administrators
          Labels,             \* version labels of a skill
          MaximumPolicies,    \* maximum_policies_per_scope
          ListLimit,          \* rows a list read accepts (100 for every table)
          MaxEdits            \* bound: writes of a behaviour

ASSUME PoliciesAssumption ==
    /\ ListLimit \in Nat /\ MaxEdits \in Nat
    /\ MaximumPolicies \in 1..ListLimit

Slots == 1..(ListLimit + 1)
ContentKey == <<"content", 1>>
RetentionKey == <<"retention", 1>>
RowKeys == {ContentKey, RetentionKey} \cup ({"budget", "skill"} \X Slots)
\* a row: its version, what it says (the mode, the limits, the current
\* version of a skill) and its flag (ready, enabled)
NoRow == [version |-> 0, text |-> "absent", flag |-> FALSE]
NoVersion == "no_version"
ASSUME LabelsAreNoMarks == NoVersion \notin Labels
NoPublication == [pc |-> "idle", skill |-> 1, seen |-> NoRow, mode |-> "none"]

VARIABLES row,          \* key -> row of the table, with its row_version
          view,         \* editor -> the row it read last
          publishing,   \* editor -> its publication under way
          versions,     \* immutable skill version rows
          writer,       \* ghost: who wrote last
          edits

polVars == <<row, view, publishing, versions, writer, edits>>

NoView == [key |-> ContentKey, row |-> NoRow]

PolInit ==
    /\ row = [k \in RowKeys |-> NoRow]
    /\ view = [e \in Editors |-> NoView]
    /\ publishing = [e \in Editors |-> NoPublication]
    /\ versions = {}
    /\ writer = "nobody"
    /\ edits = 0

Rows(table) == {i \in Slots : row[<<table, i>>] # NoRow}
FreeSlot(table) == CHOOSE i \in Slots \ Rows(table) : TRUE

(* the list reads: above their bound they refuse rather than cut *)
BudgetsReadable == Cardinality(Rows("budget")) <= ListLimit
SkillsReadable == Cardinality(Rows("skill")) <= ListLimit

Read(e, k) ==
    /\ k \in {"budget"} \X Slots => BudgetsReadable
    /\ k \in {"skill"} \X Slots => SkillsReadable
    /\ view' = [view EXCEPT ![e] = [key |-> k, row |-> row[k]]]
    /\ UNCHANGED <<row, publishing, versions, writer, edits>>

Put(e, k, text, flag) ==
    /\ edits < MaxEdits
    /\ edits' = edits + 1
    /\ writer' = e
    /\ row' = [row EXCEPT ![k] = [version |-> row[k].version + 1,
                                     text |-> text, flag |-> flag]]

(* compare_and_swap under the version of the view *)
ViewIsCurrent(e, k) == view[e].row.version = row[k].version

(* set_content_protection_policy and set_retention_policy: no row and no   *)
(* expected version insert, a row and its version swap, anything else is a *)
(* conflict.  Content is ready at once only when the database protects it. *)
SetOne(e, k, text, flag) ==
    /\ view[e].key = k
    /\ ViewIsCurrent(e, k)
    /\ Put(e, k, text, flag)
    /\ UNCHANGED <<view, publishing, versions>>

SetContentPolicy(e) ==
    \E mode \in {"database", "application"} :
        SetOne(e, ContentKey, mode, mode = "database")

SetRetentionPolicy(e) == \E v \in {"short", "long"} : SetOne(e, RetentionKey, v, TRUE)

(* external: the deployment re-encrypts the content and declares it ready *)
MigrationIsDone ==
    /\ row[ContentKey] # NoRow /\ ~row[ContentKey].flag
    /\ row' = [row EXCEPT ![ContentKey] =
          [version |-> @.version + 1, text |-> @.text, flag |-> TRUE]]
    /\ writer' = "deployment"
    /\ UNCHANGED <<view, publishing, versions, edits>>

(* upsert_budget_policy: an insert needs room, an update the version *)
BudgetHasRoom == Cardinality(Rows("budget")) < MaximumPolicies

InsertBudget(e) ==
    /\ BudgetHasRoom
    /\ \E v \in {"low", "high"} : Put(e, <<"budget", FreeSlot("budget")>>, v, TRUE)
    /\ UNCHANGED <<view, publishing, versions>>

UpdateBudget(e) ==
    /\ \E i \in Rows("budget"), v \in {"low", "high"} :
          /\ view[e].key = <<"budget", i>>
          /\ ViewIsCurrent(e, <<"budget", i>>)
          /\ Put(e, <<"budget", i>>, v, TRUE)
    /\ UNCHANGED <<view, publishing, versions>>

(* upsert_skill: a new skill is disabled and has no version; there is no   *)
(* bound on the number of skills                                           *)
InsertSkill(e) ==
    /\ Slots # Rows("skill")
    /\ Put(e, <<"skill", FreeSlot("skill")>>, NoVersion, FALSE)
    /\ UNCHANGED <<view, publishing, versions>>

RenameSkill(e) ==
    /\ \E i \in Rows("skill") :
          /\ view[e].key = <<"skill", i>>
          /\ ViewIsCurrent(e, <<"skill", i>>)
          /\ Put(e, <<"skill", i>>, row[<<"skill", i>>].text, row[<<"skill", i>>].flag)
    /\ UNCHANGED <<view, publishing, versions>>

(* set_enabled: enabling needs a current version *)
CanEnable(i) == row[<<"skill", i>>].text # NoVersion

SetEnabled(e) ==
    /\ \E i \in Rows("skill"), on \in BOOLEAN :
          /\ on => CanEnable(i)
          /\ view[e].key = <<"skill", i>>
          /\ ViewIsCurrent(e, <<"skill", i>>)
          /\ Put(e, <<"skill", i>>, row[<<"skill", i>>].text, on)
    /\ UNCHANGED <<view, publishing, versions>>

(* publish_version before its transaction: the version expected comes from *)
(* the view, the content policy must be ready, the instructions are        *)
(* protected under it                                                      *)
PolicyIsReady == row[ContentKey] # NoRow /\ row[ContentKey].flag

Prepare(e) ==
    /\ publishing[e] = NoPublication
    /\ PolicyIsReady
    /\ \E i \in Rows("skill") :
          /\ view[e].key = <<"skill", i>>
          /\ publishing' = [publishing EXCEPT ![e] =
                [pc |-> "prepared", skill |-> i, seen |-> view[e].row,
                 mode |-> row[ContentKey].text]]
    /\ UNCHANGED <<row, view, versions, writer, edits>>

(* the transaction of publish_version: the version of the skill still      *)
(* holds and the label is new; the version row is inserted and becomes     *)
(* current                                                                 *)
LabelIsNew(i, label) == \A v \in versions : ~(v.skill = i /\ v.label = label)

CommitVersion(e) ==
    /\ publishing[e].pc = "prepared"
    /\ LET i == publishing[e].skill
       IN /\ publishing[e].seen.version = row[<<"skill", i>>].version
          /\ \E label \in Labels, on \in BOOLEAN :
                /\ LabelIsNew(i, label)
                /\ versions' = versions \cup
                      {[skill |-> i, label |-> label, mode |-> publishing[e].mode, id |-> edits]}
                /\ Put(e, <<"skill", i>>, label, on)
    /\ publishing' = [publishing EXCEPT ![e] = NoPublication]
    /\ UNCHANGED view

PublishConflicts(e) ==
    /\ publishing[e].pc = "prepared"
    /\ publishing[e].seen.version # row[<<"skill", publishing[e].skill>>].version
    /\ publishing' = [publishing EXCEPT ![e] = NoPublication]
    /\ UNCHANGED <<row, view, versions, writer, edits>>

PolNext ==
    \/ MigrationIsDone
    \/ \E e \in Editors :
          \/ \E k \in RowKeys : Read(e, k)
          \/ SetContentPolicy(e) \/ SetRetentionPolicy(e)
          \/ InsertBudget(e) \/ UpdateBudget(e)
          \/ InsertSkill(e) \/ RenameSkill(e) \/ SetEnabled(e)
          \/ Prepare(e) \/ CommitVersion(e) \/ PublishConflicts(e)

-----------------------------------------------------------------------------
(* The bounded tables keep within what their list reads accept, so a scope  *)
(* full of budget policies can still be read (upsert_budget_policy counts   *)
(* in the transaction that inserts).                                        *)
PolTypeOK ==
    /\ \A k \in RowKeys : row[k].version \in 0..(2 * MaxEdits) /\ (row[k] = NoRow <=> row[k].version = 0)
    /\ \A e \in Editors : view[e].row.version <= row[view[e].key].version
    /\ Cardinality(Rows("budget")) <= MaximumPolicies

(* No administrator overwrites a change it has not seen: what a write       *)
(* replaces is what the writer read, for every administered row and however *)
(* long a publication took to prepare.                                      *)
NoLostUpdate ==
    [][\A k \in RowKeys :
          row'[k] # row[k] /\ row[k] # NoRow /\ writer' # "deployment" =>
              view[writer'] = [key |-> k, row |-> row[k]]
              \/ publishing[writer'].seen = row[k]]_polVars

(* resolve_enabled_skills finds the current version of an enabled skill *)
Resolvable(i) ==
    Cardinality({v \in versions : v.skill = i /\ v.label = row[<<"skill", i>>].text}) = 1

(* An enabled skill has a current version, that version exists, and its     *)
(* label names one version only, whoever publishes, enables and renames at  *)
(* the same time (resolve_enabled_skills fails the whole scope otherwise).  *)
EnabledIsResolvable ==
    \A i \in Rows("skill") :
        row[<<"skill", i>>].flag => Resolvable(i)
=============================================================================
