------------------------- MODULE ConfigurationProofs -------------------------
(***************************************************************************)
(* The components of the configuration, for any number of administrators,  *)
(* callers, rows, calls and tokens: two stores without a common            *)
(* transaction agree, no administrator undoes what another one did, the    *)
(* accounts of a budget are the sums of its reservations, a quote covers   *)
(* what a call can cost, and a run works under rules that were in force    *)
(* together.                                                               *)
(*                                                                         *)
(* Credentials. Whether a reference is safe to delete is decided before it *)
(* is deleted, from a row read before the transaction. What makes the      *)
(* decision hold is what each call keeps in hand (CallFits): as long as    *)
(* the version it expects is the row's, what it read is what the row says; *)
(* a secret it is about to swap in is live, known to nobody else and named *)
(* nowhere; and what it deletes has a cleanup row, which no reference that *)
(* is or can become current has.                                           *)
(*                                                                         *)
(* Policies. An enabled skill resolves, since only a version that exists   *)
(* is enabled and none is taken away (PolInv). The rows have room for      *)
(* their versions because each edit writes one row (CountsInv).            *)
(*                                                                         *)
(* Budget. That no writer undoes another one is a property of steps; what  *)
(* it needs of the state are types (BooksInv) and that every write looks   *)
(* at the versions it read. That a balance is the sum of the reservations  *)
(* counted in it (AccountInv) needs what the sum of a set becomes when one *)
(* reservation moves, which is proved by induction over finite sets:       *)
(* SubsetInduction and NumberInduction are stated with the set of the      *)
(* instances that hold, and rest on well-founded minima.                   *)
(*                                                                         *)
(* Prices. A price is rounded up by less than a microunit per dimension,   *)
(* and the rates of a call's version are frozen with its quote (PriceInv). *)
(*                                                                         *)
(* Rules. Two passes over the layers that read the same versions enclose a *)
(* moment at which the whole lineage was in force (RuleInv); the           *)
(* constraints narrow along it.                                            *)
(***************************************************************************)
EXTENDS Configuration, FiniteSetTheorems, TLAPS

Secret == {"free", "live", "deleted"}
Cleanup == {"none", "pending", "complete"}
Named == Refs \cup {NoRef}
CallSteps == {"idle", "put", "swap", "compensate", "remove", "delete", "mark", "done"}
Call == [pc : CallSteps, expected : Nat, previous : Named, fresh : Named]

\* Types of the two stores and of the calls.
CredTypes ==
    /\ profile \in [version : 0..MaxRow, kind : {"absent", "remote", "harness"},
                    credential : Named]
    /\ profile = NoProfile <=> profile.version = 0
    /\ secret \in [Refs -> Secret]
    /\ cleanup \in [Refs -> Cleanup]
    /\ call \in [Admins -> Call]

\* A reference that was never allocated is used nowhere.
FreeIsUnused ==
    \A r \in Refs : secret[r] = "free" =>
        /\ cleanup[r] = "none" /\ profile.credential # r
        /\ \A a \in Admins : call[a].previous # r /\ call[a].fresh # r

\* A call that still expects the row's version knows what the row says.
SeenFits(a) ==
    /\ call[a].expected <= profile.version
    /\ call[a].pc \in {"put", "swap", "remove"} /\ call[a].expected = profile.version =>
          call[a].previous = profile.credential
    /\ call[a].pc \in {"put", "swap"} /\ call[a].expected = profile.version =>
          profile.kind # "harness"
    /\ call[a].pc = "remove" => call[a].fresh = NoRef

\* A secret that was put and not yet swapped in is nobody else's; one that is
\* to be taken back is current only if the commit that made it so is unclear.
FreshFits(a) ==
    /\ call[a].pc \in {"swap", "compensate"} => call[a].fresh \in Refs
    /\ call[a].pc = "swap" =>
          /\ secret[call[a].fresh] = "live" /\ cleanup[call[a].fresh] = "none"
          /\ profile.credential # call[a].fresh
          /\ \A b \in Admins : call[b].previous # call[a].fresh
    /\ call[a].pc = "compensate" =>
          (profile.credential = call[a].fresh => call[a].fresh \in unclear)
    /\ \A b \in Admins \ {a} :
          call[a].pc \in {"swap", "compensate"} /\ call[b].pc \in {"swap", "compensate"} =>
              call[a].fresh # call[b].fresh

\* What a call deletes has been given up.
PreviousFits(a) ==
    /\ call[a].pc \in {"delete", "mark"} =>
          call[a].previous \in Refs /\ cleanup[call[a].previous] # "none"
    /\ call[a].pc = "mark" => secret[call[a].previous] = "deleted"

CallFits == \A a \in Admins : SeenFits(a) /\ FreshFits(a) /\ PreviousFits(a)

CredInv == CredTypes /\ FreeIsUnused /\ CallFits /\ SecretsAgree

LEMMA CredConstants == MaxRow \in Nat \ {0} /\ MaxFaults \in Nat /\ NoRef \notin Refs
BY CredentialsAssumption

\* A write of the row raises its version.
LEMMA RowIsRaised ==
  ASSUME CredTypes, profile.version < MaxRow,
         NEW k \in {"remote", "harness", profile.kind}, NEW c \in Named,
         profile' = [version |-> profile.version + 1, kind |-> k, credential |-> c]
  PROVE  /\ profile' \in [version : 0..MaxRow, kind : {"absent", "remote", "harness"},
                           credential : Named]
         /\ profile' = NoProfile <=> profile'.version = 0
<1>1. profile.version \in 0..MaxRow /\ profile.kind \in {"absent", "remote", "harness"}
  BY DEF CredTypes
<1>2. profile.version + 1 \in 0..MaxRow /\ profile.version + 1 # 0
  BY <1>1, CredConstants
<1>3. profile'.version # 0 /\ NoProfile.version = 0
  BY <1>2 DEF NoProfile
<1> QED BY <1>1, <1>2, <1>3

LEMMA InsertProfileKeeps ==
  ASSUME CredInv, NEW kind \in {"remote", "harness"}, InsertProfile(kind)
  PROVE  CredInv'
<1> USE CredConstants DEF CredInv, CredTypes, Secret, Cleanup, Named, CallSteps, Call, InsertProfile
<1>1. CredTypes' BY DEF NoProfile, NoCall
<1>2. FreeIsUnused' BY DEF FreeIsUnused, CallFits, SeenFits, FreshFits, NoCall, PreviousFits
<1>3. (\A b \in Admins : SeenFits(b))' BY DEF CallFits, SeenFits, FreshFits, NoCall
<1>4. (\A b \in Admins : FreshFits(b))' BY DEF CallFits, SeenFits, FreshFits, PreviousFits, FreeIsUnused, NoCall
<1>5. (\A b \in Admins : PreviousFits(b))' BY DEF CallFits, PreviousFits, FreshFits, FreeIsUnused, NoCall
<1>6. HarnessHasNoCredential' BY DEF SecretsAgree, HarnessHasNoCredential, CallFits, SeenFits, FreshFits
<1>7. NamedSecretIsLive' BY DEF SecretsAgree, NamedSecretIsLive, CallFits, SeenFits, FreshFits, PreviousFits, CleanupNamesNoCurrent
<1>8. CleanupNamesNoCurrent' BY DEF SecretsAgree, CleanupNamesNoCurrent, CallFits, SeenFits, FreshFits, PreviousFits
<1>9. NoForgottenSecret'
  <2>1. \A r \in Refs : profile.credential # r
    BY DEF NoProfile
  <2> QED BY <2>1 DEF SecretsAgree, NoForgottenSecret, Owned
<1> QED BY <1>1, <1>2, <1>3, <1>4, <1>5, <1>6, <1>7, <1>8, <1>9 DEF CallFits, SecretsAgree

LEMMA UpdateProfileKeeps ==
  ASSUME CredInv, NEW kind \in {"remote", "harness"}, UpdateProfile(kind)
  PROVE  CredInv'
<1> USE CredConstants DEF CredInv, CredTypes, Secret, Cleanup, Named, CallSteps, Call, UpdateProfile, HarnessAllowed
<1>1. CredTypes'
  <2>1. profile' = [version |-> profile.version + 1, kind |-> kind, credential |-> profile.credential]
    OBVIOUS
  <2>2. profile.version < MaxRow /\ CredTypes
    BY DEF CredTypes
  <2>3. kind \in {"remote", "harness", profile.kind} /\ profile.credential \in Named
    OBVIOUS
  <2>4. /\ profile' \in [version : 0..MaxRow, kind : {"absent", "remote", "harness"},
                         credential : Named]
        /\ profile' = NoProfile <=> profile'.version = 0
    BY <2>1, <2>2, <2>3, RowIsRaised
  <2> QED BY <2>4
<1>2. FreeIsUnused' BY DEF FreeIsUnused, CallFits, SeenFits, FreshFits, NoCall, PreviousFits
<1>3. (\A b \in Admins : SeenFits(b))' BY DEF CallFits, SeenFits, FreshFits, NoCall
<1>4. (\A b \in Admins : FreshFits(b))' BY DEF CallFits, SeenFits, FreshFits, PreviousFits, FreeIsUnused, NoCall
<1>5. (\A b \in Admins : PreviousFits(b))' BY DEF CallFits, PreviousFits, FreshFits, FreeIsUnused, NoCall
<1>6. HarnessHasNoCredential' BY DEF SecretsAgree, HarnessHasNoCredential, CallFits, SeenFits, FreshFits
<1>7. NamedSecretIsLive' BY DEF SecretsAgree, NamedSecretIsLive, CallFits, SeenFits, FreshFits, PreviousFits, CleanupNamesNoCurrent
<1>8. CleanupNamesNoCurrent' BY DEF SecretsAgree, CleanupNamesNoCurrent, CallFits, SeenFits, FreshFits, PreviousFits
<1>9. NoForgottenSecret' BY DEF SecretsAgree, NoForgottenSecret, Owned, CallFits, SeenFits, FreshFits, PreviousFits, FreeIsUnused, NoCall
<1> QED BY <1>1, <1>2, <1>3, <1>4, <1>5, <1>6, <1>7, <1>8, <1>9 DEF CallFits, SecretsAgree

LEMMA ReadForSetKeeps ==
  ASSUME CredInv, NEW a \in Admins, ReadForSet(a)
  PROVE  CredInv'
<1> USE CredConstants DEF CredInv, CredTypes, Secret, Cleanup, Named, CallSteps, Call, ReadForSet
<1>1. CredTypes' BY DEF NoProfile, NoCall
<1>2. FreeIsUnused' BY DEF FreeIsUnused, CallFits, SeenFits, FreshFits, NoCall, PreviousFits
<1>3. (\A b \in Admins : SeenFits(b))' BY DEF CallFits, SeenFits, FreshFits, NoCall
<1>4. (\A b \in Admins : FreshFits(b))' BY DEF CallFits, SeenFits, FreshFits, PreviousFits, FreeIsUnused, NoCall
<1>5. (\A b \in Admins : PreviousFits(b))' BY DEF CallFits, PreviousFits, FreshFits, FreeIsUnused, NoCall
<1>6. HarnessHasNoCredential' BY DEF SecretsAgree, HarnessHasNoCredential, CallFits, SeenFits, FreshFits
<1>7. NamedSecretIsLive' BY DEF SecretsAgree, NamedSecretIsLive, CallFits, SeenFits, FreshFits, PreviousFits, CleanupNamesNoCurrent
<1>8. CleanupNamesNoCurrent' BY DEF SecretsAgree, CleanupNamesNoCurrent, CallFits, SeenFits, FreshFits, PreviousFits
<1>9. NoForgottenSecret' BY DEF SecretsAgree, NoForgottenSecret, Owned, CallFits, SeenFits, FreshFits, PreviousFits, FreeIsUnused, NoCall
<1> QED BY <1>1, <1>2, <1>3, <1>4, <1>5, <1>6, <1>7, <1>8, <1>9 DEF CallFits, SecretsAgree

LEMMA PutSecretKeeps ==
  ASSUME CredInv, NEW a \in Admins, PutSecret(a)
  PROVE  CredInv'
<1> USE CredConstants DEF CredInv, CredTypes, Secret, Cleanup, Named, CallSteps, Call, PutSecret
<1>1. CredTypes'
  <2>1. PICK r \in Refs :
          /\ secret[r] = "free"
          /\ secret' = [secret EXCEPT ![r] = "live"]
          /\ call' = [call EXCEPT ![a].pc = "swap", ![a].fresh = r]
    OBVIOUS
  <2>2. secret' \in [Refs -> Secret]
    BY <2>1
  <2>3. call[a] \in Call /\ [call[a] EXCEPT !.pc = "swap", !.fresh = r] \in Call
    BY ZenonT(30)
  <2>4. call' = [call EXCEPT ![a] = [call[a] EXCEPT !.pc = "swap", !.fresh = r]]
    BY <2>1
  <2>5. call' \in [Admins -> Call]
    BY <2>3, <2>4
  <2> QED BY <2>2, <2>5
<1>2. FreeIsUnused' BY DEF FreeIsUnused, CallFits, SeenFits, FreshFits, NoCall, PreviousFits
<1>3. (\A b \in Admins : SeenFits(b))' BY DEF CallFits, SeenFits, FreshFits, NoCall
<1>4. (\A b \in Admins : FreshFits(b))' BY DEF CallFits, SeenFits, FreshFits, PreviousFits, FreeIsUnused, NoCall
<1>5. (\A b \in Admins : PreviousFits(b))' BY DEF CallFits, PreviousFits, FreshFits, FreeIsUnused, NoCall
<1>6. HarnessHasNoCredential' BY DEF SecretsAgree, HarnessHasNoCredential, CallFits, SeenFits, FreshFits
<1>7. NamedSecretIsLive' BY DEF SecretsAgree, NamedSecretIsLive, CallFits, SeenFits, FreshFits, PreviousFits, CleanupNamesNoCurrent
<1>8. CleanupNamesNoCurrent' BY DEF SecretsAgree, CleanupNamesNoCurrent, CallFits, SeenFits, FreshFits, PreviousFits
<1>9. NoForgottenSecret' BY DEF SecretsAgree, NoForgottenSecret, Owned, CallFits, SeenFits, FreshFits, PreviousFits, FreeIsUnused, NoCall
<1> QED BY <1>1, <1>2, <1>3, <1>4, <1>5, <1>6, <1>7, <1>8, <1>9 DEF CallFits, SecretsAgree

LEMMA PutFailsKeeps ==
  ASSUME CredInv, NEW a \in Admins, PutFails(a)
  PROVE  CredInv'
<1> USE CredConstants DEF CredInv, CredTypes, Secret, Cleanup, Named, CallSteps, Call, PutFails, CredFault
<1>1. CredTypes' BY DEF NoProfile, NoCall
<1>2. FreeIsUnused' BY DEF FreeIsUnused, CallFits, SeenFits, FreshFits, NoCall, PreviousFits
<1>3. (\A b \in Admins : SeenFits(b))' BY DEF CallFits, SeenFits, FreshFits, NoCall
<1>4. (\A b \in Admins : FreshFits(b))' BY DEF CallFits, SeenFits, FreshFits, PreviousFits, FreeIsUnused, NoCall
<1>5. (\A b \in Admins : PreviousFits(b))' BY DEF CallFits, PreviousFits, FreshFits, FreeIsUnused, NoCall
<1>6. HarnessHasNoCredential' BY DEF SecretsAgree, HarnessHasNoCredential, CallFits, SeenFits, FreshFits
<1>7. NamedSecretIsLive' BY DEF SecretsAgree, NamedSecretIsLive, CallFits, SeenFits, FreshFits, PreviousFits, CleanupNamesNoCurrent
<1>8. CleanupNamesNoCurrent' BY DEF SecretsAgree, CleanupNamesNoCurrent, CallFits, SeenFits, FreshFits, PreviousFits
<1>9. NoForgottenSecret' BY DEF SecretsAgree, NoForgottenSecret, Owned, CallFits, SeenFits, FreshFits, PreviousFits, FreeIsUnused, NoCall
<1> QED BY <1>1, <1>2, <1>3, <1>4, <1>5, <1>6, <1>7, <1>8, <1>9 DEF CallFits, SecretsAgree

LEMMA SwapCredentialKeeps ==
  ASSUME CredInv, NEW a \in Admins, SwapCredential(a)
  PROVE  CredInv'
<1> USE CredConstants DEF CredInv, CredTypes, Secret, Cleanup, Named, CallSteps, Call, SwapCredential, Swapped, VersionHolds
<1>1. CredTypes'
  <2>1. profile' = [version |-> profile.version + 1, kind |-> profile.kind, credential |-> call[a].fresh]
    OBVIOUS
  <2>2. profile.version < MaxRow /\ CredTypes
    BY DEF CredTypes
  <2>3. profile.kind \in {"remote", "harness", profile.kind} /\ call[a].fresh \in Named
    OBVIOUS
  <2>4. /\ profile' \in [version : 0..MaxRow, kind : {"absent", "remote", "harness"},
                         credential : Named]
        /\ profile' = NoProfile <=> profile'.version = 0
    BY <2>1, <2>2, <2>3, RowIsRaised
  <2>5. cleanup' \in [Refs -> Cleanup]
    OBVIOUS
  <2>6. call' \in [Admins -> Call]
    BY DEF NoCall
  <2> QED BY <2>4, <2>5, <2>6
<1>2. FreeIsUnused' BY DEF FreeIsUnused, CallFits, SeenFits, FreshFits, NoCall, PreviousFits
<1>3. (\A b \in Admins : SeenFits(b))' BY DEF CallFits, SeenFits, FreshFits, NoCall
<1>4. (\A b \in Admins : FreshFits(b))' BY DEF CallFits, SeenFits, FreshFits, PreviousFits, FreeIsUnused, NoCall
<1>5. (\A b \in Admins : PreviousFits(b))' BY DEF CallFits, PreviousFits, FreshFits, FreeIsUnused, NoCall
<1>6. HarnessHasNoCredential' BY DEF SecretsAgree, HarnessHasNoCredential, CallFits, SeenFits, FreshFits
<1>7. NamedSecretIsLive' BY DEF SecretsAgree, NamedSecretIsLive, CallFits, SeenFits, FreshFits, PreviousFits, CleanupNamesNoCurrent
<1>8. CleanupNamesNoCurrent' BY DEF SecretsAgree, CleanupNamesNoCurrent, CallFits, SeenFits, FreshFits, PreviousFits
<1>9. NoForgottenSecret' BY DEF SecretsAgree, NoForgottenSecret, Owned, CallFits, SeenFits, FreshFits, PreviousFits, FreeIsUnused, NoCall
<1> QED BY <1>1, <1>2, <1>3, <1>4, <1>5, <1>6, <1>7, <1>8, <1>9 DEF CallFits, SecretsAgree

LEMMA SwapConflictsKeeps ==
  ASSUME CredInv, NEW a \in Admins, SwapConflicts(a)
  PROVE  CredInv'
<1> USE CredConstants DEF CredInv, CredTypes, Secret, Cleanup, Named, CallSteps, Call, SwapConflicts, VersionHolds
<1>1. CredTypes' BY SMTT(30) DEF NoProfile, NoCall
<1>2. FreeIsUnused' BY DEF FreeIsUnused, CallFits, SeenFits, FreshFits, NoCall, PreviousFits
<1>3. (\A b \in Admins : SeenFits(b))' BY DEF CallFits, SeenFits, FreshFits, NoCall
<1>4. (\A b \in Admins : FreshFits(b))' BY DEF CallFits, SeenFits, FreshFits, PreviousFits, FreeIsUnused, NoCall
<1>5. (\A b \in Admins : PreviousFits(b))' BY DEF CallFits, PreviousFits, FreshFits, FreeIsUnused, NoCall
<1>6. HarnessHasNoCredential' BY DEF SecretsAgree, HarnessHasNoCredential, CallFits, SeenFits, FreshFits
<1>7. NamedSecretIsLive' BY DEF SecretsAgree, NamedSecretIsLive, CallFits, SeenFits, FreshFits, PreviousFits, CleanupNamesNoCurrent
<1>8. CleanupNamesNoCurrent' BY DEF SecretsAgree, CleanupNamesNoCurrent, CallFits, SeenFits, FreshFits, PreviousFits
<1>9. NoForgottenSecret' BY DEF SecretsAgree, NoForgottenSecret, Owned, CallFits, SeenFits, FreshFits, PreviousFits, FreeIsUnused, NoCall
<1> QED BY <1>1, <1>2, <1>3, <1>4, <1>5, <1>6, <1>7, <1>8, <1>9 DEF CallFits, SecretsAgree

LEMMA SwapUnclearKeeps ==
  ASSUME CredInv, NEW a \in Admins, SwapUnclear(a)
  PROVE  CredInv'
<1> USE CredConstants DEF CredInv, CredTypes, Secret, Cleanup, Named, CallSteps, Call, SwapUnclear, Swapped, VersionHolds, CredFault
<1>1. CredTypes'
  <2>1. profile' = [version |-> profile.version + 1, kind |-> profile.kind, credential |-> call[a].fresh]
    OBVIOUS
  <2>2. profile.version < MaxRow /\ CredTypes
    BY DEF CredTypes
  <2>3. profile.kind \in {"remote", "harness", profile.kind} /\ call[a].fresh \in Named
    OBVIOUS
  <2>4. /\ profile' \in [version : 0..MaxRow, kind : {"absent", "remote", "harness"},
                         credential : Named]
        /\ profile' = NoProfile <=> profile'.version = 0
    BY <2>1, <2>2, <2>3, RowIsRaised
  <2>5. cleanup' \in [Refs -> Cleanup]
    OBVIOUS
  <2>6. call' \in [Admins -> Call]
    BY DEF NoCall
  <2> QED BY <2>4, <2>5, <2>6
<1>2. FreeIsUnused' BY DEF FreeIsUnused, CallFits, SeenFits, FreshFits, NoCall, PreviousFits
<1>3. (\A b \in Admins : SeenFits(b))' BY DEF CallFits, SeenFits, FreshFits, NoCall
<1>4. (\A b \in Admins : FreshFits(b))' BY DEF CallFits, SeenFits, FreshFits, PreviousFits, FreeIsUnused, NoCall
<1>5. (\A b \in Admins : PreviousFits(b))' BY DEF CallFits, PreviousFits, FreshFits, FreeIsUnused, NoCall
<1>6. HarnessHasNoCredential' BY DEF SecretsAgree, HarnessHasNoCredential, CallFits, SeenFits, FreshFits
<1>7. NamedSecretIsLive' BY DEF SecretsAgree, NamedSecretIsLive, CallFits, SeenFits, FreshFits, PreviousFits, CleanupNamesNoCurrent
<1>8. CleanupNamesNoCurrent' BY DEF SecretsAgree, CleanupNamesNoCurrent, CallFits, SeenFits, FreshFits, PreviousFits
<1>9. NoForgottenSecret' BY DEF SecretsAgree, NoForgottenSecret, Owned, CallFits, SeenFits, FreshFits, PreviousFits, FreeIsUnused, NoCall
<1> QED BY <1>1, <1>2, <1>3, <1>4, <1>5, <1>6, <1>7, <1>8, <1>9 DEF CallFits, SecretsAgree

LEMMA CompensateKeeps ==
  ASSUME CredInv, NEW a \in Admins, Compensate(a)
  PROVE  CredInv'
<1> USE CredConstants DEF CredInv, CredTypes, Secret, Cleanup, Named, CallSteps, Call, Compensate
<1>1. CredTypes' BY DEF NoProfile, NoCall
<1>2. FreeIsUnused' BY DEF FreeIsUnused, CallFits, SeenFits, FreshFits, NoCall, PreviousFits
<1>3. (\A b \in Admins : SeenFits(b))' BY DEF CallFits, SeenFits, FreshFits, NoCall
<1>4. (\A b \in Admins : FreshFits(b))' BY DEF CallFits, SeenFits, FreshFits, PreviousFits, FreeIsUnused, NoCall
<1>5. (\A b \in Admins : PreviousFits(b))' BY DEF CallFits, PreviousFits, FreshFits, FreeIsUnused, NoCall
<1>6. HarnessHasNoCredential' BY DEF SecretsAgree, HarnessHasNoCredential, CallFits, SeenFits, FreshFits
<1>7. NamedSecretIsLive' BY DEF SecretsAgree, NamedSecretIsLive, CallFits, SeenFits, FreshFits, PreviousFits, CleanupNamesNoCurrent
<1>8. CleanupNamesNoCurrent' BY DEF SecretsAgree, CleanupNamesNoCurrent, CallFits, SeenFits, FreshFits, PreviousFits
<1>9. NoForgottenSecret' BY DEF SecretsAgree, NoForgottenSecret, Owned, CallFits, SeenFits, FreshFits, PreviousFits, FreeIsUnused, NoCall
<1> QED BY <1>1, <1>2, <1>3, <1>4, <1>5, <1>6, <1>7, <1>8, <1>9 DEF CallFits, SecretsAgree

LEMMA CompensateFailsKeeps ==
  ASSUME CredInv, NEW a \in Admins, CompensateFails(a)
  PROVE  CredInv'
<1> USE CredConstants DEF CredInv, CredTypes, Secret, Cleanup, Named, CallSteps, Call, CompensateFails, CredFault
<1>1. CredTypes' BY DEF NoProfile, NoCall
<1>2. FreeIsUnused' BY DEF FreeIsUnused, CallFits, SeenFits, FreshFits, NoCall, PreviousFits
<1>3. (\A b \in Admins : SeenFits(b))' BY DEF CallFits, SeenFits, FreshFits, NoCall
<1>4. (\A b \in Admins : FreshFits(b))' BY DEF CallFits, SeenFits, FreshFits, PreviousFits, FreeIsUnused, NoCall
<1>5. (\A b \in Admins : PreviousFits(b))' BY DEF CallFits, PreviousFits, FreshFits, FreeIsUnused, NoCall
<1>6. HarnessHasNoCredential' BY DEF SecretsAgree, HarnessHasNoCredential, CallFits, SeenFits, FreshFits
<1>7. NamedSecretIsLive' BY DEF SecretsAgree, NamedSecretIsLive, CallFits, SeenFits, FreshFits, PreviousFits, CleanupNamesNoCurrent
<1>8. CleanupNamesNoCurrent' BY DEF SecretsAgree, CleanupNamesNoCurrent, CallFits, SeenFits, FreshFits, PreviousFits
<1>9. NoForgottenSecret' BY DEF SecretsAgree, NoForgottenSecret, Owned, CallFits, SeenFits, FreshFits, PreviousFits, FreeIsUnused, NoCall
<1> QED BY <1>1, <1>2, <1>3, <1>4, <1>5, <1>6, <1>7, <1>8, <1>9 DEF CallFits, SecretsAgree

LEMMA ReadForRemoveKeeps ==
  ASSUME CredInv, NEW a \in Admins, ReadForRemove(a)
  PROVE  CredInv'
<1> USE CredConstants DEF CredInv, CredTypes, Secret, Cleanup, Named, CallSteps, Call, ReadForRemove
<1>1. CredTypes' BY DEF NoProfile, NoCall
<1>2. FreeIsUnused' BY DEF FreeIsUnused, CallFits, SeenFits, FreshFits, NoCall, PreviousFits
<1>3. (\A b \in Admins : SeenFits(b))' BY DEF CallFits, SeenFits, FreshFits, NoCall
<1>4. (\A b \in Admins : FreshFits(b))' BY DEF CallFits, SeenFits, FreshFits, PreviousFits, FreeIsUnused, NoCall
<1>5. (\A b \in Admins : PreviousFits(b))' BY DEF CallFits, PreviousFits, FreshFits, FreeIsUnused, NoCall
<1>6. HarnessHasNoCredential' BY DEF SecretsAgree, HarnessHasNoCredential, CallFits, SeenFits, FreshFits
<1>7. NamedSecretIsLive' BY DEF SecretsAgree, NamedSecretIsLive, CallFits, SeenFits, FreshFits, PreviousFits, CleanupNamesNoCurrent
<1>8. CleanupNamesNoCurrent' BY DEF SecretsAgree, CleanupNamesNoCurrent, CallFits, SeenFits, FreshFits, PreviousFits
<1>9. NoForgottenSecret' BY DEF SecretsAgree, NoForgottenSecret, Owned, CallFits, SeenFits, FreshFits, PreviousFits, FreeIsUnused, NoCall
<1> QED BY <1>1, <1>2, <1>3, <1>4, <1>5, <1>6, <1>7, <1>8, <1>9 DEF CallFits, SecretsAgree

LEMMA RemoveCredentialKeeps ==
  ASSUME CredInv, NEW a \in Admins, RemoveCredential(a)
  PROVE  CredInv'
<1> USE CredConstants DEF CredInv, CredTypes, Secret, Cleanup, Named, CallSteps, Call, RemoveCredential, Swapped, VersionHolds, CredFault
<1>1. CredTypes'
  <2>1. profile' = [version |-> profile.version + 1, kind |-> profile.kind, credential |-> call[a].fresh]
    OBVIOUS
  <2>2. profile.version < MaxRow /\ CredTypes
    BY DEF CredTypes
  <2>3. profile.kind \in {"remote", "harness", profile.kind} /\ call[a].fresh \in Named
    OBVIOUS
  <2>4. /\ profile' \in [version : 0..MaxRow, kind : {"absent", "remote", "harness"},
                         credential : Named]
        /\ profile' = NoProfile <=> profile'.version = 0
    BY <2>1, <2>2, <2>3, RowIsRaised
  <2>5. cleanup' \in [Refs -> Cleanup]
    OBVIOUS
  <2>6. call' \in [Admins -> Call]
    BY DEF NoCall
  <2> QED BY <2>4, <2>5, <2>6
<1>2. FreeIsUnused' BY DEF FreeIsUnused, CallFits, SeenFits, FreshFits, NoCall, PreviousFits
<1>3. (\A b \in Admins : SeenFits(b))' BY DEF CallFits, SeenFits, FreshFits, NoCall
<1>4. (\A b \in Admins : FreshFits(b))' BY DEF CallFits, SeenFits, FreshFits, PreviousFits, FreeIsUnused, NoCall
<1>5. (\A b \in Admins : PreviousFits(b))' BY DEF CallFits, PreviousFits, FreshFits, FreeIsUnused, NoCall
<1>6. HarnessHasNoCredential' BY DEF SecretsAgree, HarnessHasNoCredential, CallFits, SeenFits, FreshFits
<1>7. NamedSecretIsLive' BY DEF SecretsAgree, NamedSecretIsLive, CallFits, SeenFits, FreshFits, PreviousFits, CleanupNamesNoCurrent
<1>8. CleanupNamesNoCurrent' BY DEF SecretsAgree, CleanupNamesNoCurrent, CallFits, SeenFits, FreshFits, PreviousFits
<1>9. NoForgottenSecret' BY SMTT(30) DEF SecretsAgree, NoForgottenSecret, Owned, CallFits, SeenFits, FreshFits, PreviousFits, FreeIsUnused, NoCall
<1> QED BY <1>1, <1>2, <1>3, <1>4, <1>5, <1>6, <1>7, <1>8, <1>9 DEF CallFits, SecretsAgree

LEMMA RemoveConflictsKeeps ==
  ASSUME CredInv, NEW a \in Admins, RemoveConflicts(a)
  PROVE  CredInv'
<1> USE CredConstants DEF CredInv, CredTypes, Secret, Cleanup, Named, CallSteps, Call, RemoveConflicts, VersionHolds
<1>1. CredTypes' BY DEF NoProfile, NoCall
<1>2. FreeIsUnused' BY DEF FreeIsUnused, CallFits, SeenFits, FreshFits, NoCall, PreviousFits
<1>3. (\A b \in Admins : SeenFits(b))' BY DEF CallFits, SeenFits, FreshFits, NoCall
<1>4. (\A b \in Admins : FreshFits(b))' BY DEF CallFits, SeenFits, FreshFits, PreviousFits, FreeIsUnused, NoCall
<1>5. (\A b \in Admins : PreviousFits(b))' BY DEF CallFits, PreviousFits, FreshFits, FreeIsUnused, NoCall
<1>6. HarnessHasNoCredential' BY DEF SecretsAgree, HarnessHasNoCredential, CallFits, SeenFits, FreshFits
<1>7. NamedSecretIsLive' BY DEF SecretsAgree, NamedSecretIsLive, CallFits, SeenFits, FreshFits, PreviousFits, CleanupNamesNoCurrent
<1>8. CleanupNamesNoCurrent' BY DEF SecretsAgree, CleanupNamesNoCurrent, CallFits, SeenFits, FreshFits, PreviousFits
<1>9. NoForgottenSecret' BY DEF SecretsAgree, NoForgottenSecret, Owned, CallFits, SeenFits, FreshFits, PreviousFits, FreeIsUnused, NoCall
<1> QED BY <1>1, <1>2, <1>3, <1>4, <1>5, <1>6, <1>7, <1>8, <1>9 DEF CallFits, SecretsAgree

LEMMA DeletePreviousKeeps ==
  ASSUME CredInv, NEW a \in Admins, DeletePrevious(a)
  PROVE  CredInv'
<1> USE CredConstants DEF CredInv, CredTypes, Secret, Cleanup, Named, CallSteps, Call, DeletePrevious, CredFault
<1>1. CredTypes' BY DEF NoProfile, NoCall
<1>2. FreeIsUnused' BY SMTT(30) DEF FreeIsUnused, CallFits, SeenFits, FreshFits, NoCall, PreviousFits
<1>3. (\A b \in Admins : SeenFits(b))' BY DEF CallFits, SeenFits, FreshFits, NoCall
<1>4. (\A b \in Admins : FreshFits(b))' BY SMTT(30) DEF CallFits, SeenFits, FreshFits, PreviousFits, FreeIsUnused, NoCall
<1>5. (\A b \in Admins : PreviousFits(b))' BY SMTT(30) DEF CallFits, PreviousFits, FreshFits, FreeIsUnused, NoCall
<1>6. HarnessHasNoCredential' BY DEF SecretsAgree, HarnessHasNoCredential, CallFits, SeenFits, FreshFits
<1>7. NamedSecretIsLive' BY DEF SecretsAgree, NamedSecretIsLive, CallFits, SeenFits, FreshFits, PreviousFits, CleanupNamesNoCurrent
<1>8. CleanupNamesNoCurrent' BY DEF SecretsAgree, CleanupNamesNoCurrent, CallFits, SeenFits, FreshFits, PreviousFits
<1>9. NoForgottenSecret' BY DEF SecretsAgree, NoForgottenSecret, Owned, CallFits, SeenFits, FreshFits, PreviousFits, FreeIsUnused, NoCall
<1> QED BY <1>1, <1>2, <1>3, <1>4, <1>5, <1>6, <1>7, <1>8, <1>9 DEF CallFits, SecretsAgree

LEMMA MarkCleanupKeeps ==
  ASSUME CredInv, NEW a \in Admins, MarkCleanup(a)
  PROVE  CredInv'
<1> USE CredConstants DEF CredInv, CredTypes, Secret, Cleanup, Named, CallSteps, Call, MarkCleanup, CredFault
<1>1. CredTypes' BY DEF NoProfile, NoCall
<1>2. FreeIsUnused' BY DEF FreeIsUnused, CallFits, SeenFits, FreshFits, NoCall, PreviousFits
<1>3. (\A b \in Admins : SeenFits(b))' BY DEF CallFits, SeenFits, FreshFits, NoCall
<1>4. (\A b \in Admins : FreshFits(b))' BY DEF CallFits, SeenFits, FreshFits, PreviousFits, FreeIsUnused, NoCall
<1>5. (\A b \in Admins : PreviousFits(b))' BY DEF CallFits, PreviousFits, FreshFits, FreeIsUnused, NoCall
<1>6. HarnessHasNoCredential' BY DEF SecretsAgree, HarnessHasNoCredential, CallFits, SeenFits, FreshFits
<1>7. NamedSecretIsLive' BY DEF SecretsAgree, NamedSecretIsLive, CallFits, SeenFits, FreshFits, PreviousFits, CleanupNamesNoCurrent
<1>8. CleanupNamesNoCurrent' BY DEF SecretsAgree, CleanupNamesNoCurrent, CallFits, SeenFits, FreshFits, PreviousFits
<1>9. NoForgottenSecret' BY DEF SecretsAgree, NoForgottenSecret, Owned, CallFits, SeenFits, FreshFits, PreviousFits, FreeIsUnused, NoCall
<1> QED BY <1>1, <1>2, <1>3, <1>4, <1>5, <1>6, <1>7, <1>8, <1>9 DEF CallFits, SecretsAgree

LEMMA AnswerKeeps ==
  ASSUME CredInv, NEW a \in Admins, Answer(a)
  PROVE  CredInv'
<1> USE CredConstants DEF CredInv, CredTypes, Secret, Cleanup, Named, CallSteps, Call, Answer
<1>1. CredTypes' BY DEF NoProfile, NoCall
<1>2. FreeIsUnused' BY DEF FreeIsUnused, CallFits, SeenFits, FreshFits, NoCall, PreviousFits
<1>3. (\A b \in Admins : SeenFits(b))' BY DEF CallFits, SeenFits, FreshFits, NoCall
<1>4. (\A b \in Admins : FreshFits(b))' BY DEF CallFits, SeenFits, FreshFits, PreviousFits, FreeIsUnused, NoCall
<1>5. (\A b \in Admins : PreviousFits(b))' BY DEF CallFits, PreviousFits, FreshFits, FreeIsUnused, NoCall
<1>6. HarnessHasNoCredential' BY DEF SecretsAgree, HarnessHasNoCredential, CallFits, SeenFits, FreshFits
<1>7. NamedSecretIsLive' BY DEF SecretsAgree, NamedSecretIsLive, CallFits, SeenFits, FreshFits, PreviousFits, CleanupNamesNoCurrent
<1>8. CleanupNamesNoCurrent' BY DEF SecretsAgree, CleanupNamesNoCurrent, CallFits, SeenFits, FreshFits, PreviousFits
<1>9. NoForgottenSecret' BY DEF SecretsAgree, NoForgottenSecret, Owned, CallFits, SeenFits, FreshFits, PreviousFits, FreeIsUnused, NoCall
<1> QED BY <1>1, <1>2, <1>3, <1>4, <1>5, <1>6, <1>7, <1>8, <1>9 DEF CallFits, SecretsAgree

LEMMA CrashCallKeeps ==
  ASSUME CredInv, NEW a \in Admins, CrashCall(a)
  PROVE  CredInv'
<1> USE CredConstants DEF CredInv, CredTypes, Secret, Cleanup, Named, CallSteps, Call, CrashCall, CredFault
<1>1. CredTypes' BY DEF NoProfile, NoCall
<1>2. FreeIsUnused' BY DEF FreeIsUnused, CallFits, SeenFits, FreshFits, NoCall, PreviousFits
<1>3. (\A b \in Admins : SeenFits(b))' BY DEF CallFits, SeenFits, FreshFits, NoCall
<1>4. (\A b \in Admins : FreshFits(b))' BY DEF CallFits, SeenFits, FreshFits, PreviousFits, FreeIsUnused, NoCall
<1>5. (\A b \in Admins : PreviousFits(b))' BY DEF CallFits, PreviousFits, FreshFits, FreeIsUnused, NoCall
<1>6. HarnessHasNoCredential' BY DEF SecretsAgree, HarnessHasNoCredential, CallFits, SeenFits, FreshFits
<1>7. NamedSecretIsLive' BY DEF SecretsAgree, NamedSecretIsLive, CallFits, SeenFits, FreshFits, PreviousFits, CleanupNamesNoCurrent
<1>8. CleanupNamesNoCurrent' BY DEF SecretsAgree, CleanupNamesNoCurrent, CallFits, SeenFits, FreshFits, PreviousFits
<1>9. NoForgottenSecret' BY DEF SecretsAgree, NoForgottenSecret, Owned, CallFits, SeenFits, FreshFits, PreviousFits, FreeIsUnused, NoCall
<1> QED BY <1>1, <1>2, <1>3, <1>4, <1>5, <1>6, <1>7, <1>8, <1>9 DEF CallFits, SecretsAgree

LEMMA CredStepKeeps ==
  ASSUME CredInv, CredNext
  PROVE  CredInv'
BY InsertProfileKeeps, UpdateProfileKeeps, ReadForSetKeeps, PutSecretKeeps, PutFailsKeeps,
   SwapCredentialKeeps, SwapConflictsKeeps, SwapUnclearKeeps, CompensateKeeps,
   CompensateFailsKeeps, ReadForRemoveKeeps, RemoveCredentialKeeps, RemoveConflictsKeeps,
   DeletePreviousKeeps, MarkCleanupKeeps, AnswerKeeps, CrashCallKeeps
DEF CredNext

LEMMA CredStutterKeeps ==
  ASSUME CredInv, UNCHANGED credVars
  PROVE  CredInv'
<1> USE DEF CredInv, credVars
<1>1. CredTypes' BY DEF CredTypes
<1>2. FreeIsUnused' BY DEF FreeIsUnused
<1>3. CallFits' BY DEF CallFits, SeenFits, FreshFits, PreviousFits
<1>4. SecretsAgree'
  BY DEF SecretsAgree, HarnessHasNoCredential, NamedSecretIsLive, CleanupNamesNoCurrent,
         NoForgottenSecret, Owned
<1> QED BY <1>1, <1>2, <1>3, <1>4

LEMMA CredInitHolds == CredInit => CredInv
<1> SUFFICES ASSUME CredInit PROVE CredInv OBVIOUS
<1> USE CredConstants DEF CredInit, NoProfile, NoCall
<1>1. CredTypes BY DEF CredTypes, Secret, Cleanup, Named, CallSteps, Call
<1>2. FreeIsUnused BY DEF FreeIsUnused
<1>3. CallFits BY DEF CallFits, SeenFits, FreshFits, PreviousFits
<1>4. SecretsAgree
  BY DEF SecretsAgree, HarnessHasNoCredential, NamedSecretIsLive, CleanupNamesNoCurrent,
         NoForgottenSecret, Owned
<1> QED BY <1>1, <1>2, <1>3, <1>4 DEF CredInv

\* The inductive invariant of the credentials, whatever part is exercised.
THEOREM CredInvariance == Spec => []CredInv
<1>1. Init => CredInv BY CredInitHolds DEF Init
<1>2. CredInv /\ [Next]_confVars => CredInv'
  <2> SUFFICES ASSUME CredInv, [Next]_confVars PROVE CredInv' OBVIOUS
  <2>1. CredNext \/ UNCHANGED credVars BY DEF Next, confVars
  <2> QED BY <2>1, CredStepKeeps, CredStutterKeeps
<1> QED BY <1>1, <1>2, PTL DEF Spec

\* Database and secret store agree, though administrators interleave, crash
\* and lose answers between the two stores: a harness names no credential, a
\* named secret is live unless its commit was unclear, cleanup orders only
\* what was given up, and no live secret is forgotten but by a fault.
THEOREM StoresAgree == Spec => []SecretsAgree
<1>1. CredInv => SecretsAgree BY DEF CredInv
<1> QED BY <1>1, CredInvariance, PTL
-----------------------------------------------------------------------------
(***************************************************************************)
(* Policies and skills.  Who writes under the version of a row it read     *)
(* replaces the row it read, because a version names one content: a view   *)
(* (or the view a publication was prepared from) is never ahead of its row *)
(* and equals it when it is not behind.                                    *)
(***************************************************************************)

Text == {"absent", "database", "application", "short", "long", "low", "high", NoVersion}
        \cup Labels
StoredRow == [version : Nat, text : Text, flag : BOOLEAN]
Publication ==
    [pc : {"idle", "prepared"}, skill : Slots, seen : StoredRow, mode : Text \cup {"none"}]

PolTypes ==
    /\ row \in [RowKeys -> StoredRow]
    /\ \A k \in RowKeys : row[k] = NoRow <=> row[k].version = 0
    /\ view \in [Editors -> [key : RowKeys, row : StoredRow]]
    /\ publishing \in [Editors -> Publication]

\* What was read of key k is an earlier content or the present one.
ReadOf(seen, k) ==
    /\ seen.version <= row[k].version
    /\ seen.version = row[k].version => seen = row[k]

ViewsFit == \A e \in Editors : ReadOf(view[e].row, view[e].key)
PublicationsFit ==
    \A e \in Editors : publishing[e].pc = "prepared" =>
        ReadOf(publishing[e].seen, <<"skill", publishing[e].skill>>)

\* The current version of a skill exists and its label is not used twice.
SkillsFit ==
    \A i \in Slots :
        row[<<"skill", i>>] # NoRow /\ row[<<"skill", i>>].text # NoVersion => Resolvable(i)

\* The table of budget policies has a free slot for the next one.
BudgetsFit == Cardinality(Rows("budget")) <= MaximumPolicies

EnabledFits ==
    \A i \in Slots : row[<<"skill", i>>].flag => row[<<"skill", i>>].text # NoVersion

PolInv == PolTypes /\ ViewsFit /\ PublicationsFit /\ SkillsFit /\ EnabledFits

LEMMA PolConstants ==
  /\ ListLimit \in Nat /\ MaxEdits \in Nat
  /\ MaximumPolicies \in 1..ListLimit /\ 1 \in Slots
BY PoliciesAssumption DEF Slots

\* The keys of the tables.
LEMMA Keys ==
  /\ ContentKey \in RowKeys /\ RetentionKey \in RowKeys /\ ContentKey # RetentionKey
  /\ \A i \in Slots : /\ <<"budget", i>> \in RowKeys /\ <<"skill", i>> \in RowKeys
                      /\ <<"skill", i>> # ContentKey /\ <<"skill", i>> # RetentionKey
  /\ \A i, j \in Slots : <<"skill", i>> # <<"budget", j>>
BY DEF RowKeys, ContentKey, RetentionKey

\* A budget policy is inserted into an empty slot only: a table with room has one.
LEMMA BudgetSlotIsFree ==
  ASSUME BudgetHasRoom
  PROVE  /\ FreeSlot("budget") \in Slots
         /\ row[<<"budget", FreeSlot("budget")>>] = NoRow
<1>1. IsFiniteSet(Slots) /\ Cardinality(Slots) = ListLimit + 1
  <2>1. 1 \in Int /\ ListLimit + 1 \in Int /\ ListLimit \in Nat BY PolConstants
  <2>2. IsFiniteSet(1..(ListLimit + 1)) BY <2>1, FS_Interval
  <2>3. Cardinality(1..(ListLimit + 1)) = IF 1 > ListLimit + 1 THEN 0 ELSE (ListLimit + 1) - 1 + 1
    BY <2>1, FS_Interval
  <2> QED BY <2>1, <2>2, <2>3 DEF Slots
<1>2. Slots # Rows("budget")
  BY <1>1, PolConstants DEF BudgetHasRoom
<1>3. \E i \in Slots : i \notin Rows("budget")
  BY <1>2 DEF Rows
<1>4. FreeSlot("budget") \in Slots \ Rows("budget")
  BY <1>3 DEF FreeSlot
<1> QED BY <1>4 DEF Rows

LEMMA SkillSlotIsFree ==
  ASSUME Slots # Rows("skill")
  PROVE  /\ FreeSlot("skill") \in Slots
         /\ row[<<"skill", FreeSlot("skill")>>] = NoRow
<1>1. \E i \in Slots : i \notin Rows("skill")
  BY DEF Rows
<1>2. FreeSlot("skill") \in Slots \ Rows("skill")
  BY <1>1 DEF FreeSlot
<1> QED BY <1>2 DEF Rows

\* A write of one row under a higher version keeps every view in its place.
LEMMA WriteFits ==
  ASSUME PolTypes, ViewsFit, PublicationsFit,
         NEW k \in RowKeys, NEW t \in Text, NEW flag \in BOOLEAN,
         row' = [row EXCEPT ![k] = [version |-> row[k].version + 1, text |-> t, flag |-> flag]]
  PROVE  /\ row' \in [RowKeys -> StoredRow]
         /\ \A l \in RowKeys : row'[l] = NoRow <=> row'[l].version = 0
         /\ \A e \in Editors :
              /\ view[e].row.version <= row'[view[e].key].version
              /\ view[e].row.version = row'[view[e].key].version =>
                   view[e].row = row'[view[e].key]
         /\ \A e \in Editors : publishing[e].pc = "prepared" =>
              /\ publishing[e].seen.version <= row'[<<"skill", publishing[e].skill>>].version
              /\ publishing[e].seen.version = row'[<<"skill", publishing[e].skill>>].version =>
                   publishing[e].seen = row'[<<"skill", publishing[e].skill>>]
<1> DEFINE new == [version |-> row[k].version + 1, text |-> t, flag |-> flag]
<1>1. row[k] \in StoredRow BY DEF PolTypes
<1>2. new \in StoredRow /\ new.version # 0 /\ new.version > row[k].version
  BY <1>1 DEF StoredRow
<1>3. row' = [row EXCEPT ![k] = new] OBVIOUS
<1>4. NoRow.version = 0 BY DEF NoRow
<1> HIDE DEF new
<1>5. /\ row' \in [RowKeys -> StoredRow]
      /\ \A l \in RowKeys : row'[l] = IF l = k THEN new ELSE row[l]
  BY <1>2, <1>3 DEF PolTypes
<1>6. \A l \in RowKeys : row'[l] = NoRow <=> row'[l].version = 0
  BY <1>2, <1>4, <1>5 DEF PolTypes
<1>7. ASSUME NEW seen \in StoredRow, NEW l \in RowKeys, ReadOf(seen, l)
      PROVE  /\ seen.version <= row'[l].version
             /\ seen.version = row'[l].version => seen = row'[l]
  <2>1. seen.version \in Nat /\ row[k].version \in Nat /\ new.version \in Nat
    BY <1>1, <1>2 DEF StoredRow
  <2> QED BY <1>2, <1>5, <1>7, <2>1 DEF ReadOf
<1>8. \A e \in Editors : view[e].row \in StoredRow /\ view[e].key \in RowKeys
  BY DEF PolTypes
<1>9. \A e \in Editors : /\ publishing[e].seen \in StoredRow
                         /\ <<"skill", publishing[e].skill>> \in RowKeys
  BY Keys DEF PolTypes, Publication
<1> QED BY <1>5, <1>6, <1>7, <1>8, <1>9 DEF ViewsFit, PublicationsFit
\* A write that leaves the version of a skill as it is, or gives it none.
LEMMA SkillsKept ==
  ASSUME PolTypes, SkillsFit, EnabledFits, versions' = versions,
         NEW k \in RowKeys, NEW t \in Text, NEW flag \in BOOLEAN,
         row' = [row EXCEPT ![k] = [version |-> row[k].version + 1, text |-> t, flag |-> flag]],
         \A i \in Slots : k = <<"skill", i>> =>
            /\ t = NoVersion \/ (row[k] # NoRow /\ t = row[k].text)
            /\ flag => t # NoVersion
  PROVE  SkillsFit' /\ EnabledFits'
<1>1. \A i \in Slots : <<"skill", i>> \in RowKeys
  BY Keys
<1>2. \A i \in Slots :
        row'[<<"skill", i>>] =
          IF k = <<"skill", i>> THEN [version |-> row[k].version + 1, text |-> t, flag |-> flag]
          ELSE row[<<"skill", i>>]
  BY <1>1 DEF PolTypes
<1>3. EnabledFits'
  BY <1>2 DEF EnabledFits
<1>4. ASSUME NEW i \in Slots,
             (row[<<"skill", i>>] # NoRow /\ row[<<"skill", i>>].text # NoVersion)'
      PROVE  Resolvable(i)'
  <2>1. /\ row[<<"skill", i>>] # NoRow
        /\ row[<<"skill", i>>].text # NoVersion
        /\ row'[<<"skill", i>>].text = row[<<"skill", i>>].text
    BY <1>2, <1>4
  <2>2. Resolvable(i) BY <2>1 DEF SkillsFit
  <2> QED BY <2>1, <2>2 DEF Resolvable
<1> QED BY <1>3, <1>4 DEF SkillsFit

\* What a write replaces is what its writer read.
Seen(k) ==
    \/ view[writer'] = [key |-> k, row |-> row[k]]
    \/ publishing[writer'].seen = row[k]
ReplacesWhatWasSeen ==
    \A k \in RowKeys :
        row'[k] # row[k] /\ row[k] # NoRow /\ writer' # "deployment" => Seen(k)

\* A writer with a current view has seen the row.
LEMMA CurrentViewIsSeen ==
  ASSUME PolInv, NEW e \in Editors, NEW k \in RowKeys, view[e].key = k, ViewIsCurrent(e, k)
  PROVE  view[e] = [key |-> k, row |-> row[k]]
<1>1. view[e] \in [key : RowKeys, row : StoredRow] BY DEF PolInv, PolTypes
<1>2. view[e].row = row[k] BY DEF PolInv, ViewsFit, ReadOf, ViewIsCurrent
<1> QED BY <1>1, <1>2

\* The write of one row by an administrator, whoever and whatever it is.
LEMMA PutKeeps ==
  ASSUME PolInv, UNCHANGED <<view, publishing, versions>>,
         NEW e \in Editors, NEW k \in RowKeys, NEW t \in Text, NEW flag \in BOOLEAN,
         Put(e, k, t, flag),
         row[k] = NoRow \/ Seen(k),
         \A i \in Slots : k = <<"skill", i>> =>
            /\ t = NoVersion \/ (row[k] # NoRow /\ t = row[k].text)
            /\ flag => t # NoVersion
  PROVE  PolInv' /\ ReplacesWhatWasSeen
<1>1. /\ row' = [row EXCEPT ![k] = [version |-> row[k].version + 1, text |-> t, flag |-> flag]]
      /\ PolTypes /\ ViewsFit /\ PublicationsFit /\ SkillsFit /\ EnabledFits
  BY DEF Put, PolInv
<1>2. PolTypes' BY <1>1, WriteFits DEF PolTypes
<1>3. ViewsFit' /\ PublicationsFit'
  <2>1. ViewsFit'
    <3>1. \A f \in Editors :
            /\ view[f].row.version <= row'[view[f].key].version
            /\ view[f].row.version = row'[view[f].key].version =>
                 view[f].row = row'[view[f].key]
      BY <1>1, WriteFits
    <3> QED BY <3>1 DEF ViewsFit, ReadOf
  <2>2. PublicationsFit'
    <3>1. \A f \in Editors : publishing[f].pc = "prepared" =>
            /\ publishing[f].seen.version <= row'[<<"skill", publishing[f].skill>>].version
            /\ publishing[f].seen.version = row'[<<"skill", publishing[f].skill>>].version =>
                 publishing[f].seen = row'[<<"skill", publishing[f].skill>>]
      BY <1>1, WriteFits
    <3> QED BY <3>1 DEF PublicationsFit, ReadOf
  <2> QED BY <2>1, <2>2
<1>4. SkillsFit' /\ EnabledFits' BY <1>1, SkillsKept
<1>5. \A l \in RowKeys : row'[l] # row[l] => l = k
  BY <1>1 DEF PolTypes
<1>6. ReplacesWhatWasSeen BY <1>5 DEF ReplacesWhatWasSeen
<1> QED BY <1>2, <1>3, <1>4, <1>6 DEF PolInv

LEMMA PolStepKeeps ==
  ASSUME PolInv, PolNext
  PROVE  PolInv' /\ ReplacesWhatWasSeen
<1> DEFINE Goal == PolInv' /\ ReplacesWhatWasSeen
<1> USE Keys
<1>1. ASSUME NEW e \in Editors, NEW k \in RowKeys, Read(e, k)  PROVE Goal
  <2>0. /\ UNCHANGED <<row, publishing, versions>>
        /\ view' = [view EXCEPT ![e] = [key |-> k, row |-> row[k]]]
    BY <1>1 DEF Read
  <2>1. PolTypes' BY <2>0 DEF PolInv, PolTypes
  <2>2. ViewsFit'
    <3>1. \A f \in Editors : view'[f] = view[f] \/ view'[f] = [key |-> k, row |-> row[k]]
      BY <2>0 DEF PolInv, PolTypes
    <3>2. row[k].version \in Nat BY DEF PolInv, PolTypes, StoredRow
    <3>3. ReadOf(row[k], k) BY <3>2 DEF ReadOf
    <3> QED BY <2>0, <3>1, <3>3 DEF PolInv, ViewsFit, ReadOf
  <2>3. PublicationsFit' BY <2>0 DEF PolInv, PublicationsFit, ReadOf
  <2>4. SkillsFit' /\ EnabledFits' BY <2>0 DEF PolInv, SkillsFit, EnabledFits, Resolvable
  <2>5. ReplacesWhatWasSeen BY <2>0 DEF ReplacesWhatWasSeen
  <2> QED BY <2>1, <2>2, <2>3, <2>4, <2>5 DEF PolInv
<1>2. ASSUME NEW e \in Editors, NEW k \in {ContentKey, RetentionKey}, NEW t \in Text,
             NEW flag \in BOOLEAN, SetOne(e, k, t, flag)
      PROVE  Goal
  <2>1. Put(e, k, t, flag) /\ UNCHANGED <<view, publishing, versions>> /\ writer' = e
    BY <1>2 DEF SetOne, Put
  <2>2. Seen(k) BY <1>2, <2>1, CurrentViewIsSeen DEF SetOne, Seen
  <2>3. k \in RowKeys /\ \A i \in Slots : k # <<"skill", i>> OBVIOUS
  <2> QED BY <2>1, <2>2, <2>3, PutKeeps
<1>3. ASSUME NEW e \in Editors, SetContentPolicy(e)  PROVE Goal
  <2>1. PICK mode \in {"database", "application"} :
          SetOne(e, ContentKey, mode, mode = "database")
    BY <1>3 DEF SetContentPolicy
  <2>2. mode \in Text /\ (mode = "database") \in BOOLEAN BY DEF Text
  <2> QED BY <1>2, <2>1, <2>2
<1>4. ASSUME NEW e \in Editors, SetRetentionPolicy(e)  PROVE Goal
  <2>1. PICK v \in {"short", "long"} : SetOne(e, RetentionKey, v, TRUE)
    BY <1>4 DEF SetRetentionPolicy
  <2>2. v \in Text BY DEF Text
  <2> QED BY <1>2, <2>1, <2>2
<1>5. ASSUME NEW e \in Editors, InsertBudget(e)  PROVE Goal
  <2>1. PICK v \in {"low", "high"} : Put(e, <<"budget", FreeSlot("budget")>>, v, TRUE)
    BY <1>5 DEF InsertBudget
  <2>2. /\ FreeSlot("budget") \in Slots
        /\ row[<<"budget", FreeSlot("budget")>>] = NoRow
    BY <1>5, BudgetSlotIsFree DEF InsertBudget
  <2>3. UNCHANGED <<view, publishing, versions>> BY <1>5 DEF InsertBudget
  <2>4. v \in Text BY DEF Text
  <2>5. /\ <<"budget", FreeSlot("budget")>> \in RowKeys
        /\ \A i \in Slots : <<"budget", FreeSlot("budget")>> # <<"skill", i>>
    BY <2>2
  <2> QED BY <2>1, <2>2, <2>3, <2>4, <2>5, PutKeeps
<1>6. ASSUME NEW e \in Editors, UpdateBudget(e)  PROVE Goal
  <2>1. PICK i \in Rows("budget"), v \in {"low", "high"} :
          /\ view[e].key = <<"budget", i>>
          /\ ViewIsCurrent(e, <<"budget", i>>)
          /\ Put(e, <<"budget", i>>, v, TRUE)
    BY <1>6 DEF UpdateBudget
  <2>2. UNCHANGED <<view, publishing, versions>> /\ writer' = e
    BY <1>6, <2>1 DEF UpdateBudget, Put
  <2>3. i \in Slots /\ <<"budget", i>> \in RowKeys BY DEF Rows
  <2>4. Seen(<<"budget", i>>) BY <2>1, <2>2, <2>3, CurrentViewIsSeen DEF Seen
  <2>5. v \in Text BY DEF Text
  <2>6. \A j \in Slots : <<"budget", i>> # <<"skill", j>> BY <2>3
  <2> QED BY <2>1, <2>2, <2>3, <2>4, <2>5, <2>6, PutKeeps
<1>7. ASSUME NEW e \in Editors, InsertSkill(e)  PROVE Goal
  <2>1. /\ Put(e, <<"skill", FreeSlot("skill")>>, NoVersion, FALSE)
        /\ UNCHANGED <<view, publishing, versions>>
    BY <1>7 DEF InsertSkill
  <2>2. /\ FreeSlot("skill") \in Slots
        /\ row[<<"skill", FreeSlot("skill")>>] = NoRow
    BY <1>7, SkillSlotIsFree DEF InsertSkill
  <2>3. <<"skill", FreeSlot("skill")>> \in RowKeys /\ NoVersion \in Text
    BY <2>2 DEF Text
  <2> QED BY <2>1, <2>2, <2>3, PutKeeps
<1>8. ASSUME NEW e \in Editors, NEW i \in Rows("skill"), NEW on \in BOOLEAN,
             on => CanEnable(i),
             view[e].key = <<"skill", i>>, ViewIsCurrent(e, <<"skill", i>>),
             Put(e, <<"skill", i>>, row[<<"skill", i>>].text, on),
             UNCHANGED <<view, publishing, versions>>
      PROVE  Goal
  <2>1. writer' = e BY <1>8 DEF Put
  <2>2. i \in Slots /\ <<"skill", i>> \in RowKeys /\ row[<<"skill", i>>] # NoRow BY DEF Rows
  <2>3. Seen(<<"skill", i>>) BY <1>8, <2>1, <2>2, CurrentViewIsSeen DEF Seen
  <2>4. row[<<"skill", i>>].text \in Text BY <2>2 DEF PolInv, PolTypes, StoredRow
  <2>5. on => row[<<"skill", i>>].text # NoVersion BY <1>8 DEF CanEnable
  <2> QED BY <1>8, <2>2, <2>3, <2>4, <2>5, PutKeeps
<1>9. ASSUME NEW e \in Editors, RenameSkill(e)  PROVE Goal
  <2>1. PICK i \in Rows("skill") :
          /\ view[e].key = <<"skill", i>>
          /\ ViewIsCurrent(e, <<"skill", i>>)
          /\ Put(e, <<"skill", i>>, row[<<"skill", i>>].text, row[<<"skill", i>>].flag)
    BY <1>9 DEF RenameSkill
  <2>2. row[<<"skill", i>>] \in StoredRow /\ i \in Slots BY DEF Rows, PolInv, PolTypes
  <2>3. row[<<"skill", i>>].flag \in BOOLEAN BY <2>2 DEF StoredRow
  <2>4. row[<<"skill", i>>].flag => CanEnable(i)
    BY <2>2 DEF PolInv, EnabledFits, CanEnable
  <2>5. UNCHANGED <<view, publishing, versions>> BY <1>9 DEF RenameSkill
  <2> QED BY <1>8, <2>1, <2>3, <2>4, <2>5
<1>10. ASSUME NEW e \in Editors, SetEnabled(e)  PROVE Goal
  BY <1>8, <1>10 DEF SetEnabled
<1>11. ASSUME MigrationIsDone  PROVE Goal
  <2>0. /\ row[ContentKey] # NoRow
        /\ row' = [row EXCEPT ![ContentKey] =
             [version |-> @.version + 1, text |-> @.text, flag |-> TRUE]]
        /\ writer' = "deployment"
        /\ UNCHANGED <<view, publishing, versions, edits>>
        /\ row[ContentKey] \in StoredRow
    BY <1>11 DEF MigrationIsDone, PolInv, PolTypes
  <2>1. row' = [row EXCEPT ![ContentKey] =
                  [version |-> row[ContentKey].version + 1, text |-> row[ContentKey].text,
                   flag |-> TRUE]]
    BY <2>0
  <2>2. row[ContentKey].text \in Text BY <2>0 DEF StoredRow
  <2>3. PolTypes /\ ViewsFit /\ PublicationsFit /\ SkillsFit /\ EnabledFits BY DEF PolInv
  <2>4. PolTypes' BY <2>0, <2>1, <2>2, <2>3, WriteFits DEF PolTypes
  <2>5. ViewsFit'
    <3>1. \A f \in Editors :
            /\ view[f].row.version <= row'[view[f].key].version
            /\ view[f].row.version = row'[view[f].key].version =>
                 view[f].row = row'[view[f].key]
      BY <2>1, <2>2, <2>3, WriteFits
    <3> QED BY <2>0, <3>1 DEF ViewsFit, ReadOf
  <2>6. PublicationsFit'
    <3>1. \A f \in Editors : publishing[f].pc = "prepared" =>
            /\ publishing[f].seen.version <= row'[<<"skill", publishing[f].skill>>].version
            /\ publishing[f].seen.version = row'[<<"skill", publishing[f].skill>>].version =>
                 publishing[f].seen = row'[<<"skill", publishing[f].skill>>]
      BY <2>1, <2>2, <2>3, WriteFits
    <3> QED BY <2>0, <3>1 DEF PublicationsFit, ReadOf
  <2>7. SkillsFit' /\ EnabledFits' BY <2>0, <2>1, <2>2, <2>3, SkillsKept
  <2>8. ReplacesWhatWasSeen BY <2>0 DEF ReplacesWhatWasSeen
  <2> QED BY <2>4, <2>5, <2>6, <2>7, <2>8 DEF PolInv
<1>12. ASSUME NEW e \in Editors, Prepare(e)  PROVE Goal
  <2>1. PICK i \in Rows("skill") :
          /\ view[e].key = <<"skill", i>>
          /\ publishing' = [publishing EXCEPT ![e] =
                [pc |-> "prepared", skill |-> i, seen |-> view[e].row,
                 mode |-> row[ContentKey].text]]
    BY <1>12 DEF Prepare
  <2>2. UNCHANGED <<row, view, versions, writer, edits>> BY <1>12 DEF Prepare
  <2>3. i \in Slots /\ view[e].row \in StoredRow /\ row[ContentKey].text \in Text
    BY DEF Rows, PolInv, PolTypes, StoredRow
  <2>4. [pc |-> "prepared", skill |-> i, seen |-> view[e].row, mode |-> row[ContentKey].text]
          \in Publication
    BY <2>3 DEF Publication
  <2>5. PolTypes' BY <2>1, <2>2, <2>4 DEF PolInv, PolTypes
  <2>6. ViewsFit' BY <2>2 DEF PolInv, ViewsFit, ReadOf
  <2>7. PublicationsFit'
    <3>1. ReadOf(view[e].row, <<"skill", i>>) BY <2>1 DEF PolInv, ViewsFit
    <3> QED BY <2>1, <2>2, <3>1 DEF PolInv, PolTypes, PublicationsFit, ReadOf
  <2>8. SkillsFit' /\ EnabledFits' BY <2>2 DEF PolInv, SkillsFit, EnabledFits, Resolvable
  <2>9. ReplacesWhatWasSeen BY <2>2 DEF ReplacesWhatWasSeen
  <2> QED BY <2>5, <2>6, <2>7, <2>8, <2>9 DEF PolInv
<1>13. ASSUME NEW e \in Editors, PublishConflicts(e)  PROVE Goal
  <2>1. /\ UNCHANGED <<row, view, versions, writer, edits>>
        /\ publishing' = [publishing EXCEPT ![e] = NoPublication]
    BY <1>13 DEF PublishConflicts
  <2>2. NoPublication \in Publication /\ NoPublication.pc # "prepared"
    BY PolConstants DEF NoPublication, Publication, StoredRow, NoRow, Text
  <2>3. PolTypes' BY <2>1, <2>2 DEF PolInv, PolTypes
  <2>4. ViewsFit' /\ SkillsFit' /\ EnabledFits'
    BY <2>1 DEF PolInv, ViewsFit, ReadOf, SkillsFit, EnabledFits, Resolvable
  <2>5. PublicationsFit' BY <2>1, <2>2 DEF PolInv, PolTypes, PublicationsFit, ReadOf
  <2>6. ReplacesWhatWasSeen BY <2>1 DEF ReplacesWhatWasSeen
  <2> QED BY <2>3, <2>4, <2>5, <2>6 DEF PolInv
<1>14. ASSUME NEW e \in Editors, CommitVersion(e)  PROVE Goal
  <2> DEFINE i == publishing[e].skill
             k == <<"skill", i>>
  <2>1. /\ publishing[e].pc = "prepared"
        /\ publishing[e].seen.version = row[k].version
        /\ publishing' = [publishing EXCEPT ![e] = NoPublication]
        /\ view' = view
    BY <1>14 DEF CommitVersion
  <2>2. PICK label \in Labels, on \in BOOLEAN :
          /\ LabelIsNew(i, label)
          /\ versions' = versions \cup
                {[skill |-> i, label |-> label, mode |-> publishing[e].mode, id |-> edits]}
          /\ Put(e, k, label, on)
    BY <1>14 DEF CommitVersion
  <2>3. i \in Slots /\ k \in RowKeys /\ label \in Text
    BY DEF PolInv, PolTypes, Publication, Text
  <2>4. /\ row' = [row EXCEPT ![k] = [version |-> row[k].version + 1, text |-> label, flag |-> on]]
        /\ writer' = e
    BY <2>2 DEF Put
  <2>5. NoPublication \in Publication /\ NoPublication.pc # "prepared"
    BY PolConstants DEF NoPublication, Publication, StoredRow, NoRow, Text
  <2>6. PolTypes /\ ViewsFit /\ PublicationsFit BY DEF PolInv
  <2> HIDE DEF i, k
  <2>7. PolTypes' BY <2>1, <2>3, <2>4, <2>5, <2>6, WriteFits DEF PolTypes
  <2>8. ViewsFit'
    <3>1. \A f \in Editors :
            /\ view[f].row.version <= row'[view[f].key].version
            /\ view[f].row.version = row'[view[f].key].version =>
                 view[f].row = row'[view[f].key]
      BY <2>3, <2>4, <2>6, WriteFits
    <3> QED BY <2>1, <3>1 DEF ViewsFit, ReadOf
  <2>9. PublicationsFit'
    <3>1. \A f \in Editors : publishing[f].pc = "prepared" =>
            /\ publishing[f].seen.version <= row'[<<"skill", publishing[f].skill>>].version
            /\ publishing[f].seen.version = row'[<<"skill", publishing[f].skill>>].version =>
                 publishing[f].seen = row'[<<"skill", publishing[f].skill>>]
      BY <2>3, <2>4, <2>6, WriteFits
    <3>2. \A f \in Editors : publishing'[f].pc = "prepared" =>
             publishing'[f] = publishing[f]
      BY <2>1, <2>5, <2>6 DEF PolTypes
    <3> QED BY <3>1, <3>2 DEF PublicationsFit, ReadOf
  <2>10. \A j \in Slots : row'[<<"skill", j>>] =
           IF j = i THEN [version |-> row[k].version + 1, text |-> label, flag |-> on]
           ELSE row[<<"skill", j>>]
    BY <2>3, <2>4, <2>6 DEF PolTypes, k
  <2>11. ASSUME NEW j \in Slots, (row[<<"skill", j>>] # NoRow /\ row[<<"skill", j>>].text # NoVersion)'
         PROVE  Resolvable(j)'
    <3> DEFINE new == [skill |-> i, label |-> label, mode |-> publishing[e].mode, id |-> edits]
    <3>1. new.skill = i /\ new.label = label OBVIOUS
    <3>2. versions' = versions \cup {new} BY <2>2
    <3> HIDE DEF new
    <3>3. CASE j = i
      <4>1. {v \in versions' : v.skill = j /\ v.label = row'[<<"skill", j>>].text} = {new}
        BY <2>2, <2>10, <3>1, <3>2, <3>3 DEF LabelIsNew
      <4> QED BY <4>1, FS_Singleton DEF Resolvable
    <3>4. CASE j # i
      <4>1. row'[<<"skill", j>>] = row[<<"skill", j>>] BY <2>10, <3>4
      <4>2. Resolvable(j) BY <2>11, <4>1 DEF PolInv, SkillsFit
      <4>3. {v \in versions' : v.skill = j /\ v.label = row'[<<"skill", j>>].text}
              = {v \in versions : v.skill = j /\ v.label = row[<<"skill", j>>].text}
        BY <3>1, <3>2, <3>4, <4>1
      <4> QED BY <4>2, <4>3 DEF Resolvable
    <3> QED BY <3>3, <3>4
  <2>12. SkillsFit' BY <2>11 DEF SkillsFit
  <2>13. EnabledFits'
    <3>1. label # NoVersion BY LabelsAreNoMarks
    <3> QED BY <2>10, <3>1 DEF PolInv, EnabledFits
  <2>14. publishing[e].seen = row[k]
    BY <2>1 DEF PolInv, PublicationsFit, ReadOf, k, i
  <2>15. \A l \in RowKeys : row'[l] # row[l] => l = k
    BY <2>3, <2>4, <2>6 DEF PolTypes
  <2>16. ReplacesWhatWasSeen BY <2>4, <2>14, <2>15 DEF ReplacesWhatWasSeen, Seen
  <2> QED BY <2>7, <2>8, <2>9, <2>12, <2>13, <2>16 DEF PolInv
<1> QED
  BY <1>1, <1>3, <1>4, <1>5, <1>6, <1>7, <1>9, <1>10, <1>11, <1>12, <1>13, <1>14 DEF PolNext
LEMMA PolStutterKeeps ==
  ASSUME PolInv, UNCHANGED polVars
  PROVE  PolInv'
BY DEF PolInv, PolTypes, ViewsFit, PublicationsFit, SkillsFit, EnabledFits, ReadOf, Resolvable,
       polVars

LEMMA PolInitHolds == PolInit => PolInv
<1> SUFFICES ASSUME PolInit PROVE PolInv OBVIOUS
<1>1. NoRow \in StoredRow /\ NoRow.version = 0 /\ NoRow.flag = FALSE
  BY DEF NoRow, StoredRow, Text
<1>2. \A k \in RowKeys : row[k] = NoRow
  BY DEF PolInit
<1>3. NoPublication \in Publication /\ NoPublication.pc # "prepared"
  BY PolConstants, <1>1 DEF NoPublication, Publication
<1>4. NoView \in [key : RowKeys, row : StoredRow] /\ NoView.row = NoRow
  BY <1>1, Keys DEF NoView
<1>5. PolTypes
  BY <1>1, <1>2, <1>3, <1>4 DEF PolInit, PolTypes
<1>6. ViewsFit
  <2>1. \A e \in Editors : view[e] = NoView BY DEF PolInit
  <2> QED BY <1>1, <1>2, <1>4, <2>1 DEF ViewsFit, ReadOf
<1>7. PublicationsFit BY <1>3 DEF PolInit, PublicationsFit
<1>8. SkillsFit /\ EnabledFits BY <1>1, <1>2, Keys DEF SkillsFit, EnabledFits
<1> QED BY <1>5, <1>6, <1>7, <1>8 DEF PolInv

\* The inductive invariant of the administered rows.
THEOREM PolInvariance == Spec => []PolInv
<1>1. Init => PolInv BY PolInitHolds DEF Init
<1>2. PolInv /\ [Next]_confVars => PolInv'
  <2> SUFFICES ASSUME PolInv, [Next]_confVars PROVE PolInv' OBVIOUS
  <2>1. PolNext \/ UNCHANGED polVars BY DEF Next, confVars
  <2> QED BY <2>1, PolStepKeeps, PolStutterKeeps
<1> QED BY <1>1, <1>2, PTL DEF Spec

\* An enabled skill has its current version, and only one with that label,
\* whoever publishes, renames and enables at the same time.
THEOREM EnabledSkillsResolve == Spec => []EnabledIsResolvable
<1>1. PolInv => EnabledIsResolvable
  BY DEF PolInv, SkillsFit, EnabledFits, EnabledIsResolvable, Rows
<1> QED BY <1>1, PolInvariance, PTL

-----------------------------------------------------------------------------
(***************************************************************************)
(* Budgets.  A counter grows by an estimate that fits under the ceiling of *)
(* its policy, or by the difference between what was used and estimated.   *)
(***************************************************************************)

\* A reservation as the step properties read it; a provider may report more
\* than an amount.
Booked ==
    [state : OpenStates \cup Outcomes, run : Run, gen : 1..MaxGen,
     est : Nat, actual : Nat \cup {None}, counters : SUBSET Counter]

BooksInv ==
    /\ counter \in [Counter -> [reserved : Nat, committed : Nat]]
    /\ res \in [Key -> Booked \cup {NoRes}]
    /\ policy \in [Policy -> [enabled : BOOLEAN, ceiling : Nat]]
    /\ period \in 1..MaxPeriod

LEMMA BudgetConstants ==
  /\ MaxEstimate \in Nat /\ MaxActual \in Nat /\ MaxStorable \in Nat /\ Ceilings \subseteq Nat
  /\ None \notin Nat /\ None \notin OpenStates \cup Outcomes
  /\ MaxPeriod \in Nat \ {0}
BY BudgetAssumption, NoneAssumption DEF OpenStates, Outcomes

Overbooked(c) ==
    /\ counter'[c].reserved + counter'[c].committed >
         counter[c].reserved + counter[c].committed
    /\ counter'[c].reserved + counter'[c].committed > policy[c[1]].ceiling

\* Why a counter may rise above its ceiling.
Excess(c) ==
    \E k \in Key : /\ res[k].state \in OpenStates
                   /\ res'[k].state = "committed"
                   /\ res'[k].actual > res[k].est
                   /\ c \in res[k].counters

\* What is in doubt stays booked and what is settled stays as it is.
StaysBooked(k) ==
    /\ res[k].state = "uncertain" => res'[k].state \in {"uncertain", "committed"}
    /\ res[k].state \in {"committed", "released"} => res'[k] = res[k]

BookStep ==
    /\ \A c \in Counter : Overbooked(c) => Excess(c)
    /\ \A k \in Key : StaysBooked(k)

\* The writes of a settlement, by the attempt itself or by the reconciler.
LEMMA ApplyKeeps ==
  ASSUME BooksInv, NEW k \in Key, res[k] # NoRes,
         NEW outcome \in Outcomes, NEW actual \in ActualFor(outcome),
         MayBecome(res[k].state, outcome), Apply(k, outcome, actual),
         UNCHANGED <<policy, period>>
  PROVE  BooksInv' /\ BookStep
<1>1. /\ res[k] \in Booked /\ res[k].est \in Nat /\ res[k].counters \subseteq Counter
      /\ res[k].state \in OpenStates
  BY DEF BooksInv, Booked, MayBecome
<1>2. /\ actual \in Nat \cup {None}
      /\ outcome = "committed" => actual \in Nat /\ actual # None
      /\ outcome = "released" => actual = None
  BY BudgetConstants DEF ActualFor, Outcomes
<1> DEFINE new == [res[k] EXCEPT !.state = outcome, !.actual = actual]
<1>3. /\ new \in Booked
      /\ new.state = outcome /\ new.actual = actual
  BY <1>1, <1>2 DEF Booked
<1>4. res' = [res EXCEPT ![k] = new]
  BY DEF Apply
<1> HIDE DEF new
<1>5. /\ res' \in [Key -> Booked \cup {NoRes}]
      /\ \A l \in Key : res'[l] = IF l = k THEN new ELSE res[l]
  BY <1>3, <1>4 DEF BooksInv
<1>6. \A l \in Key : StaysBooked(l)
  BY <1>3, <1>5 DEF StaysBooked, MayBecome, Outcomes, OpenStates
<1>7. CASE outcome = "uncertain"
  <2>1. counter' = counter BY <1>7 DEF Apply
  <2>2. BooksInv' BY <1>5, <2>1 DEF BooksInv
  <2>3. \A c \in Counter : ~Overbooked(c)
    <3>1. \A c \in Counter : counter[c].reserved + counter[c].committed \in Nat
      BY DEF BooksInv
    <3> QED BY <2>1, <3>1 DEF Overbooked
  <2> QED BY <1>6, <2>2, <2>3 DEF BookStep
<1>8. CASE outcome # "uncertain"
  <2>1. Settleable(res[k], actual) /\ counter' = Settle(res[k], actual)
    BY <1>8 DEF Apply
  <2>2. ASSUME NEW c \in Counter, c \in res[k].counters
        PROVE  /\ counter'[c].reserved = counter[c].reserved - res[k].est
               /\ counter'[c].committed =
                    counter[c].committed + (IF actual = None THEN 0 ELSE actual)
               /\ counter[c].reserved >= res[k].est
    BY <2>1, <2>2 DEF Settleable, Settle
  <2>3. \A c \in Counter : c \notin res[k].counters => counter'[c] = counter[c]
    BY <2>1 DEF Settle
  <2>4. \A c \in Counter : counter[c].reserved \in Nat /\ counter[c].committed \in Nat
    BY DEF BooksInv
  <2>5. BooksInv'
    <3>1. \A c \in Counter : counter'[c] \in [reserved : Nat, committed : Nat]
      <4>1. ASSUME NEW c \in Counter, c \in res[k].counters
            PROVE  counter'[c] \in [reserved : Nat, committed : Nat]
        <5>1. counter'[c] = [reserved |-> counter[c].reserved - res[k].est,
                             committed |-> counter[c].committed +
                                           (IF actual = None THEN 0 ELSE actual)]
          BY <2>1, <4>1 DEF Settle
        <5>2. counter[c].reserved - res[k].est \in Nat
          BY <1>1, <2>2, <2>4, <4>1
        <5>3. counter[c].committed + (IF actual = None THEN 0 ELSE actual) \in Nat
          BY <1>2, <2>4
        <5> QED BY <5>1, <5>2, <5>3
      <4> QED BY <2>3, <4>1 DEF BooksInv
    <3>2. counter' = [c \in Counter |-> counter'[c]]
      BY <2>1 DEF Settle
    <3>3. counter' \in [Counter -> [reserved : Nat, committed : Nat]]
      BY <3>1, <3>2
    <3> QED BY <1>5, <3>3 DEF BooksInv
  <2>6. ASSUME NEW c \in Counter, Overbooked(c)  PROVE Excess(c)
    <3>1. c \in res[k].counters
      BY <2>3, <2>4, <2>6 DEF Overbooked
    <3>2. actual # None /\ actual \in Nat /\ actual > res[k].est
      BY <1>1, <1>2, <2>2, <2>4, <2>6, <3>1 DEF Overbooked
    <3>3. outcome = "committed" BY <1>2, <1>8, <3>2 DEF Outcomes
    <3> QED BY <1>1, <1>3, <1>5, <3>1, <3>2, <3>3 DEF Excess
  <2> QED BY <1>6, <2>5, <2>6 DEF BookStep
<1> QED BY <1>7, <1>8

LEMMA BudgetStepKeeps ==
  ASSUME BooksInv, BudgetNext
  PROVE  BooksInv' /\ BookStep
<1> USE BudgetConstants
<1>1. ASSUME NEW k \in Key, NEW r \in Run, NEW g \in 1..MaxGen, NEW est \in 1..MaxEstimate,
             NEW at \in BookedPeriods, Reserve(k, r, g, est, at)
      PROVE  BooksInv' /\ BookStep
  <2> DEFINE booked == {<<p, at>> : p \in Enabled}
             new == [state |-> "reserved", run |-> r, gen |-> g, est |-> est,
                     actual |-> None, counters |-> booked]
  <2>1. /\ \A c \in booked : Fits(c[1], c, est)
        /\ counter' = [c \in Counter |->
             IF c \in booked THEN [counter[c] EXCEPT !.reserved = @ + est] ELSE counter[c]]
        /\ res' = [res EXCEPT ![k] = [state |-> "reserved", run |-> r, gen |-> g, est |-> est,
                                      actual |-> None, counters |-> booked]]
        /\ res[k] = NoRes
        /\ UNCHANGED <<policy, period>>
    BY <1>1 DEF Reserve
  <2> HIDE DEF booked
  <2>2. \A c \in Counter : /\ counter[c].reserved \in Nat /\ counter[c].committed \in Nat
                           /\ counter[c] \in [reserved : Nat, committed : Nat]
    BY DEF BooksInv
  <2>3. est \in Nat OBVIOUS
  <2>4. ASSUME NEW c \in Counter, c \in booked
        PROVE  /\ counter'[c] = [reserved |-> counter[c].reserved + est,
                                 committed |-> counter[c].committed]
               /\ counter[c].reserved + est + counter[c].committed <= policy[c[1]].ceiling
    <3>1. counter'[c] = [counter[c] EXCEPT !.reserved = @ + est]
      BY <2>1, <2>4
    <3>2. counter[c] = [reserved |-> counter[c].reserved, committed |-> counter[c].committed]
      BY <2>2
    <3>3. Fits(c[1], c, est) BY <2>1, <2>4
    <3> QED BY <3>1, <3>2, <3>3 DEF Fits
  <2>5. \A c \in Counter : c \notin booked => counter'[c] = counter[c]
    BY <2>1
  <2>6. counter' \in [Counter -> [reserved : Nat, committed : Nat]]
    <3>1. \A c \in Counter : counter'[c] \in [reserved : Nat, committed : Nat]
      <4>1. \A c \in booked \cap Counter :
              [reserved |-> counter[c].reserved + est, committed |-> counter[c].committed]
                \in [reserved : Nat, committed : Nat]
        BY <2>2, <2>3
      <4> QED BY ZenonT(30), <2>2, <2>4, <2>5, <4>1
    <3>2. counter' = [c \in Counter |-> counter'[c]] BY <2>1
    <3> QED BY <3>1, <3>2
  <2>7. new \in Booked
    <3>1. at \in 1..MaxPeriod BY DEF BookedPeriods, BooksInv
    <3>2. booked \subseteq Counter BY <3>1 DEF Enabled, Counter, booked
    <3> QED BY <2>3, <3>2 DEF Booked, OpenStates
  <2>8. BooksInv'
    <3>1. res' \in [Key -> Booked \cup {NoRes}] BY <2>1, <2>7 DEF BooksInv
    <3> QED BY <2>1, <2>6, <3>1 DEF BooksInv
  <2>9. \A c \in Counter : ~Overbooked(c)
    <3> SUFFICES ASSUME NEW c \in Counter, Overbooked(c) PROVE FALSE OBVIOUS
    <3>1. c \in booked BY <2>2, <2>5 DEF Overbooked
    <3>2. policy[c[1]].ceiling \in Nat
      BY DEF Counter, BooksInv
    <3>3. /\ counter'[c].reserved = counter[c].reserved + est
          /\ counter'[c].committed = counter[c].committed
          /\ counter[c].reserved + est + counter[c].committed <= policy[c[1]].ceiling
      <4>1. counter'[c] = [reserved |-> counter[c].reserved + est,
                           committed |-> counter[c].committed]
        BY <2>4, <3>1
      <4>2. counter[c].reserved + est + counter[c].committed <= policy[c[1]].ceiling
        BY <2>4, <3>1
      <4> QED BY <4>1, <4>2
    <3> QED BY <2>2, <2>3, <3>2, <3>3 DEF Overbooked
  <2>10. \A l \in Key : StaysBooked(l)
    <3>1. \A l \in Key \ {k} : res'[l] = res[l] BY <2>1 DEF BooksInv
    <3>2. res[k].state = None BY <2>1 DEF NoRes
    <3> QED BY <3>1, <3>2 DEF StaysBooked, OpenStates, Outcomes
  <2> QED BY <2>8, <2>9, <2>10 DEF BookStep
<1>2. ASSUME NEW k \in Key, NEW outcome \in Outcomes, NEW actual \in ActualFor(outcome),
             Reconcile(k, outcome, actual)
      PROVE  BooksInv' /\ BookStep
  BY <1>2, ApplyKeeps DEF Reconcile
<1>3. ASSUME NEW k \in Key, NEW actual \in 0..MaxActual, CommitBackground(k, actual)
      PROVE  BooksInv' /\ BookStep
  <2>1. /\ res[k] # NoRes /\ res[k].state = "uncertain" /\ Apply(k, "committed", actual)
        /\ UNCHANGED <<policy, period>>
    BY <1>3 DEF CommitBackground
  <2>2. "committed" \in Outcomes /\ actual \in ActualFor("committed")
        /\ MayBecome(res[k].state, "committed")
    BY <2>1 DEF Outcomes, ActualFor, MayBecome, OpenStates
  <2> QED BY <2>1, <2>2, ApplyKeeps
<1>4. ASSUME UNCHANGED <<counter, res>>, policy' \in [Policy -> [enabled : BOOLEAN, ceiling : Nat]],
             period' \in 1..MaxPeriod
      PROVE  BooksInv' /\ BookStep
  <2>1. BooksInv' BY <1>4 DEF BooksInv
  <2>2. \A c \in Counter : counter[c].reserved \in Nat /\ counter[c].committed \in Nat
    BY DEF BooksInv
  <2>3. \A c \in Counter : ~Overbooked(c) BY <1>4, <2>2 DEF Overbooked
  <2>4. \A k \in Key : StaysBooked(k) BY <1>4 DEF StaysBooked
  <2> QED BY <2>1, <2>3, <2>4 DEF BookStep
<1>5. ASSUME NEW r \in Run, NextAttempt(r) \/ \E phase \in {"background", "closed"} : LeaveRunning(r, phase)
      PROVE  BooksInv' /\ BookStep
  BY <1>4, <1>5 DEF NextAttempt, LeaveRunning, BooksInv
<1>6. ASSUME NEW p \in Policy, NEW enabled \in BOOLEAN, NEW ceiling \in Ceilings,
             UpsertBudgetPolicy(p, enabled, ceiling)
      PROVE  BooksInv' /\ BookStep
  <2>1. policy' \in [Policy -> [enabled : BOOLEAN, ceiling : Nat]]
    BY <1>6 DEF UpsertBudgetPolicy, BooksInv
  <2> QED BY <1>4, <1>6, <2>1 DEF UpsertBudgetPolicy, BooksInv
<1>7. ASSUME NextPeriod  PROVE BooksInv' /\ BookStep
  BY <1>4, <1>7 DEF NextPeriod, BooksInv
<1> QED BY <1>1, <1>2, <1>3, <1>5, <1>6, <1>7 DEF BudgetNext
LEMMA BudgetInitHolds == BudgetInit => BooksInv
<1> SUFFICES ASSUME BudgetInit PROVE BooksInv OBVIOUS
<1>1. counter \in [Counter -> [reserved : Nat, committed : Nat]]
  BY DEF BudgetInit, EmptyCounter
<1>2. res \in [Key -> Booked \cup {NoRes}] BY DEF BudgetInit
<1>3. policy \in [Policy -> [enabled : BOOLEAN, ceiling : Nat]]
  <2>1. policy \in [Policy -> [enabled : BOOLEAN, ceiling : Ceilings]] BY DEF BudgetInit
  <2>2. [enabled : BOOLEAN, ceiling : Ceilings] \subseteq [enabled : BOOLEAN, ceiling : Nat]
    BY BudgetConstants
  <2> QED BY <2>1, <2>2
<1>4. period \in 1..MaxPeriod BY BudgetConstants DEF BudgetInit
<1> QED BY <1>1, <1>2, <1>3, <1>4 DEF BooksInv

LEMMA BudgetStutterKeeps ==
  ASSUME BooksInv, UNCHANGED budgetVars
  PROVE  BooksInv'
BY DEF BooksInv, budgetVars

\* The types the steps of the books rely on.
THEOREM BooksInvariance == Spec => []BooksInv
<1>1. Init => BooksInv BY BudgetInitHolds DEF Init
<1>2. BooksInv /\ [Next]_confVars => BooksInv'
  <2> SUFFICES ASSUME BooksInv, [Next]_confVars PROVE BooksInv' OBVIOUS
  <2>1. BudgetNext \/ UNCHANGED budgetVars BY DEF Next, confVars
  <2> QED BY <2>1, BudgetStepKeeps, BudgetStutterKeeps
<1> QED BY <1>1, <1>2, PTL DEF Spec

\* No writer undoes what another one did: concurrent calls do not overbook a
\* policy together, none frees what is in doubt or touches what is settled,
\* and no administrator overwrites a row it has not seen.
THEOREM WritersAreRespectful == Spec => WritersRespectEachOther
<1>1. BooksInv /\ [Next]_confVars => [\A c \in Counter : Overbooked(c) => Excess(c)]_budgetVars
  <2> SUFFICES ASSUME BooksInv, [Next]_confVars, ~UNCHANGED budgetVars
               PROVE  \A c \in Counter : Overbooked(c) => Excess(c)
    OBVIOUS
  <2>1. BudgetNext BY DEF Next, confVars
  <2> QED BY <2>1, BudgetStepKeeps DEF BookStep
<1>2. BooksInv /\ [Next]_confVars => [\A k \in Key : StaysBooked(k)]_budgetVars
  <2> SUFFICES ASSUME BooksInv, [Next]_confVars, ~UNCHANGED budgetVars
               PROVE  \A k \in Key : StaysBooked(k)
    OBVIOUS
  <2>1. BudgetNext BY DEF Next, confVars
  <2> QED BY <2>1, BudgetStepKeeps DEF BookStep
<1>3. PolInv /\ [Next]_confVars => [ReplacesWhatWasSeen]_polVars
  <2> SUFFICES ASSUME PolInv, [Next]_confVars, ~UNCHANGED polVars
               PROVE  ReplacesWhatWasSeen
    OBVIOUS
  <2>1. PolNext BY DEF Next, confVars
  <2> QED BY <2>1, PolStepKeeps
<1>4. Spec => NeverOverbooked
  <2>1. BooksInv /\ [Next]_confVars =>
          [\A c \in Counter :
             LET total == counter[c].reserved + counter[c].committed
                 next  == counter'[c].reserved + counter'[c].committed IN
             next > total /\ next > policy[c[1]].ceiling =>
               \E k \in Key : /\ res[k].state \in OpenStates
                              /\ res'[k].state = "committed"
                              /\ res'[k].actual > res[k].est
                              /\ c \in res[k].counters]_budgetVars
    BY <1>1 DEF Overbooked, Excess
  <2> QED BY <2>1, BooksInvariance, PTL DEF Spec, NeverOverbooked
<1>5. Spec => UncertainIsHeld
  <2>1. BooksInv /\ [Next]_confVars =>
          [\A k \in Key :
             /\ res[k].state = "uncertain" => res'[k].state \in {"uncertain", "committed"}
             /\ res[k].state \in {"committed", "released"} => res'[k] = res[k]]_budgetVars
    BY <1>2 DEF StaysBooked
  <2> QED BY <2>1, BooksInvariance, PTL DEF Spec, UncertainIsHeld
<1>6. Spec => NoLostUpdate
  <2>1. PolInv /\ [Next]_confVars =>
          [\A k \in RowKeys :
             row'[k] # row[k] /\ row[k] # NoRow /\ writer' # "deployment" =>
                 view[writer'] = [key |-> k, row |-> row[k]]
                 \/ publishing[writer'].seen = row[k]]_polVars
    BY <1>3 DEF ReplacesWhatWasSeen, Seen
  <2> QED BY <2>1, PolInvariance, PTL DEF Spec, NoLostUpdate
<1> QED BY <1>4, <1>5, <1>6, PTL DEF WritersRespectEachOther

-----------------------------------------------------------------------------
(***************************************************************************)
(* Accounts. A balance is the sum of a finite set of reservations, taken   *)
(* in the order MapThenSumSet chooses; that the sum does not depend on the *)
(* order, and what it becomes when one reservation moves, are facts about  *)
(* every finite set.                                                       *)
(***************************************************************************)

\* A set of numbers that has 0 and with a number its successor has them all.
LEMMA NumberInduction ==
  ASSUME NEW G, 0 \in G, \A n \in Nat : n \in G => n + 1 \in G
  PROVE  \A n \in Nat : n \in G
<1> DEFINE bad == Nat \ G
<1>1. SUFFICES ASSUME bad # {} PROVE FALSE
  OBVIOUS
<1>2. PICK m \in bad : \A n \in bad : ~(<<n, m>> \in OpToRel(<, Nat))
  <2> HIDE DEF bad
  <2>1. bad \subseteq Nat
    BY DEF bad
  <2> QED BY <1>1, <2>1, NatLessThanWellFounded, WFMin
<1>3. m \in Nat /\ m # 0 /\ m - 1 \in Nat
  OBVIOUS
<1>4. <<m - 1, m>> \in OpToRel(<, Nat)
  BY <1>3 DEF OpToRel
<1>5. m - 1 \in G
  BY <1>2, <1>3, <1>4
<1> QED
  BY <1>3, <1>5

\* A set that has a subset of S whenever it has all smaller ones has S.
LEMMA SubsetInduction ==
  ASSUME NEW S, IsFiniteSet(S), NEW G,
         \A T \in SUBSET S : (\A U \in SUBSET T : U # T => U \in G) => T \in G
  PROVE  S \in G
<1> DEFINE bad == (SUBSET S) \ G
<1>1. SUFFICES ASSUME S \notin G PROVE FALSE
  OBVIOUS
<1>2. bad # {} /\ bad \subseteq FiniteSubsetsOf(S)
  BY <1>1, FS_Subset DEF FiniteSubsetsOf
<1>3. PICK T \in bad : \A U \in bad : ~(<<U, T>> \in StrictSubsetOrdering(S))
  <2> HIDE DEF bad
  <2> QED BY <1>2, FS_StrictSubsetOrderingWellFounded, WFMin
<1>4. \A U \in SUBSET T : U # T => U \in G
  BY <1>3 DEF StrictSubsetOrdering
<1> QED
  BY <1>3, <1>4

Some(T) == CHOOSE x \in T : TRUE
\* it gives the sum of w over each subset of S
Sums(it, w, S) ==
  it = [T \in SUBSET S |-> IF T = {} THEN 0 ELSE w[Some(T)] + it[T \ {Some(T)}]]

\* The sum of nothing is 0, and a sum is an element's weight and the rest.
LEMMA SumsAt ==
  ASSUME NEW it, NEW w, NEW S, Sums(it, w, S)
  PROVE  /\ it[{}] = 0
         /\ \A T \in SUBSET S : T # {} =>
               Some(T) \in T /\ it[T] = w[Some(T)] + it[T \ {Some(T)}]
<1>1. \A T \in SUBSET S : it[T] = IF T = {} THEN 0 ELSE w[Some(T)] + it[T \ {Some(T)}]
  BY DEF Sums
<1>2. \A T \in SUBSET S : T # {} => Some(T) \in T
  BY DEF Some
<1> QED
  BY <1>1, <1>2

\* Over a finite set the sums exist: one for each size of a subset.
LEMMA SumExists ==
  ASSUME NEW S, IsFiniteSet(S), NEW w
  PROVE  \E it : Sums(it, w, S)
<1> DEFINE Small(n) == {T \in SUBSET S : Cardinality(T) <= n}
           Value(g, T) == IF T = {} THEN 0 ELSE w[Some(T)] + g[T \ {Some(T)}]
           UpTo(g, n) == g = [T \in Small(n) |-> Value(g, T)]
           G == {n \in Nat : \E g : UpTo(g, n)}
<1>0. \A T \in SUBSET S : IsFiniteSet(T) /\ Cardinality(T) \in Nat
  BY FS_Subset, FS_CardinalityType
<1>1. 0 \in G
  <2>1. \A T \in Small(0) : T = {}
    BY <1>0, FS_EmptySet
  <2>2. UpTo([T \in Small(0) |-> 0], 0)
    BY <2>1
  <2> HIDE DEF UpTo
  <2> QED BY <2>2
<1>2. ASSUME NEW n \in Nat, n \in G PROVE n + 1 \in G
  <2>1. PICK g : UpTo(g, n)
    BY <1>2
  <2> DEFINE h == [T \in Small(n + 1) |-> Value(g, T)]
  <2>2. ASSUME NEW T \in Small(n + 1), T # {} PROVE T \ {Some(T)} \in Small(n)
    <3>1. Some(T) \in T
      BY <2>2 DEF Some
    <3>2. Cardinality(T \ {Some(T)}) = Cardinality(T) - 1
      BY <1>0, <3>1, FS_RemoveElement
    <3> QED BY <1>0, <3>2
  <2>3. Small(n) \subseteq Small(n + 1)
    BY <1>0
  <2> HIDE DEF Small
  <2>4. \A T \in Small(n) : g[T] = Value(g, T) /\ h[T] = Value(g, T)
    BY <2>1, <2>3
  <2>5. \A T \in Small(n + 1) : Value(h, T) = Value(g, T)
    <3> SUFFICES ASSUME NEW T \in Small(n + 1) PROVE Value(h, T) = Value(g, T)
      OBVIOUS
    <3> HIDE DEF h
    <3>1. CASE T = {}
      BY <3>1
    <3>2. CASE T # {}
      <4>1. h[T \ {Some(T)}] = g[T \ {Some(T)}]
        BY <2>2, <2>4, <3>2
      <4> QED BY <4>1
    <3> QED BY <3>1, <3>2
  <2>6. UpTo(h, n + 1)
    <3> HIDE DEF Value
    <3> QED BY <2>5
  <2> HIDE DEF UpTo
  <2> QED BY <2>6
<1>3. Cardinality(S) \in G
  <2> HIDE DEF G
  <2> QED BY <1>0, <1>1, <1>2, NumberInduction
<1>4. PICK g : UpTo(g, Cardinality(S))
  BY <1>3
<1>5. Small(Cardinality(S)) = SUBSET S
  BY FS_Subset
<1> HIDE DEF Small
<1> QED
  BY <1>4, <1>5 DEF Sums

\* What is summed decides the sum.
LEMMA SumsAgree ==
  ASSUME NEW g, NEW w, NEW S, Sums(g, w, S), NEW h, NEW v, NEW T, Sums(h, v, T),
         NEW U, IsFiniteSet(U), U \subseteq S, U \subseteq T, \A x \in U : w[x] = v[x]
  PROVE  g[U] = h[U]
<1> DEFINE G == {V \in SUBSET U : g[V] = h[V]}
<1>0. \A W \in SUBSET T : W # {} => h[W] = v[Some(W)] + h[W \ {Some(W)}]
  <2>1. Sums(h, v, T)
    OBVIOUS
  <2> QED BY ONLY <2>1, SumsAt
<1>1. ASSUME NEW V \in SUBSET U, \A W \in SUBSET V : W # V => W \in G
      PROVE  V \in G
  <2>1. CASE V = {}
    BY <2>1, SumsAt
  <2>2. CASE V # {}
    <3>1. V \in SUBSET S /\ V \in SUBSET T
      OBVIOUS
    <3>2. Some(V) \in V /\ g[V] = w[Some(V)] + g[V \ {Some(V)}]
      BY <2>2, <3>1, SumsAt
    <3>3. h[V] = v[Some(V)] + h[V \ {Some(V)}]
      BY <1>0, <2>2, <3>1
    <3>4. V \ {Some(V)} \in G
      BY <1>1, <3>2
    <3> QED BY <3>2, <3>3, <3>4
  <2> QED BY <2>1, <2>2
<1>2. U \in G
  <2> HIDE DEF G
  <2> QED BY <1>1, SubsetInduction
<1> QED
  BY <1>2

\* The order in which the elements are taken does not matter.
LEMMA SumsTake ==
  ASSUME NEW g, NEW w, NEW S, Sums(g, w, S), IsFiniteSet(S), \A x \in S : w[x] \in Nat
  PROVE  g[S] \in Nat /\ \A x \in S : g[S] = w[x] + g[S \ {x}] /\ g[S \ {x}] \in Nat
<1> DEFINE G == {T \in SUBSET S : g[T] \in Nat /\ \A x \in T : g[T] = w[x] + g[T \ {x}]}
<1>1. ASSUME NEW T \in SUBSET S, \A U \in SUBSET T : U # T => U \in G
      PROVE  T \in G
  <2>1. CASE T = {}
    BY <2>1, SumsAt
  <2>2. CASE T # {}
    <3> DEFINE c == Some(T)
    <3>1. c \in T /\ g[T] = w[c] + g[T \ {c}]
      BY <2>2, SumsAt
    <3> HIDE DEF c
    <3>2. T \ {c} \in G /\ w[c] \in Nat
      BY <1>1, <3>1
    <3>3. g[T] \in Nat
      BY <3>1, <3>2
    <3>4. ASSUME NEW x \in T, x # c PROVE g[T] = w[x] + g[T \ {x}]
      <4>1. /\ T \ {x} \in G /\ c \in T \ {x} /\ x \in T \ {c}
            /\ (T \ {c}) \ {x} \in G /\ (T \ {c}) \ {x} = (T \ {x}) \ {c}
        BY <1>1, <3>1, <3>4
      <4>2. g[T \ {c}] = w[x] + g[(T \ {c}) \ {x}]
        BY <3>2, <4>1
      <4>3. g[T \ {x}] = w[c] + g[(T \ {c}) \ {x}]
        BY <4>1
      <4>4. g[(T \ {c}) \ {x}] \in Nat /\ w[x] \in Nat
        BY <4>1
      <4> QED BY <3>1, <3>2, <4>2, <4>3, <4>4
    <3> QED BY <3>1, <3>3, <3>4
  <2> QED BY <2>1, <2>2
<1>2. \A T \in SUBSET S : T \in G
  <2> SUFFICES ASSUME NEW T \in SUBSET S PROVE T \in G
    OBVIOUS
  <2>1. IsFiniteSet(T)
    BY FS_Subset
  <2> HIDE DEF G
  <2> QED BY <1>1, <2>1, SubsetInduction
<1>3. S \in G /\ \A x \in S : S \ {x} \in G
  BY <1>2
<1> QED
  BY <1>3

\* One more element adds its value.
LEMMA SumsAdd ==
  ASSUME NEW g, NEW w, NEW S, Sums(g, w, S), IsFiniteSet(S), NEW k, k \notin S,
         NEW h, NEW v, Sums(h, v, S \cup {k}),
         \A x \in S : w[x] = v[x], \A x \in S \cup {k} : v[x] \in Nat
  PROVE  h[S \cup {k}] = g[S] + v[k] /\ g[S] \in Nat
<1>1. IsFiniteSet(S \cup {k})
  BY FS_AddElement
<1>2. h[S \cup {k}] = v[k] + h[(S \cup {k}) \ {k}] /\ h[(S \cup {k}) \ {k}] \in Nat
  BY <1>1, SumsTake
<1>3. h[(S \cup {k}) \ {k}] = h[S]
  <2>1. (S \cup {k}) \ {k} = S
    OBVIOUS
  <2> QED BY <2>1
<1>4. g[S] = h[S]
  BY SumsAgree
<1>5. v[k] \in Nat
  OBVIOUS
<1> QED
  BY <1>2, <1>3, <1>4, <1>5

\* What the reservations S of the table R hold, and what they used.
HeldBy(R, S) == MapThenSumSet(LAMBDA k : R[k].est, S)
UsedBy(R, S) == MapThenSumSet(LAMBDA k : R[k].actual, S)

\* MapThenSumSet over a finite set of reservations is a sum in the sense above.
LEMMA HeldBySums ==
  ASSUME NEW R, NEW S, IsFiniteSet(S)
  PROVE  \E it : Sums(it, [k \in S |-> R[k].est], S) /\ HeldBy(R, S) = it[S]
<1> DEFINE w == [k \in S |-> R[k].est]
           It(it) == it = [s \in SUBSET S |->
                       IF s = {} THEN 0
                       ELSE LET x == CHOOSE x \in s : TRUE IN R[x].est + it[s \ {x}]]
           f == CHOOSE it : It(it)
<1>1. HeldBy(R, S) = f[S]
  BY DEF HeldBy, MapThenSumSet, MapThenFoldSet
<1>2. \A T \in SUBSET S : T # {} => w[CHOOSE x \in T : TRUE] = R[CHOOSE x \in T : TRUE].est
  OBVIOUS
<1>3. ASSUME NEW it PROVE It(it) <=> Sums(it, w, S)
  <2> HIDE DEF w
  <2> QED BY <1>2 DEF Sums, Some
<1> HIDE DEF It, w
<1>4. \E it : It(it)
  BY <1>3, SumExists
<1>5. It(f)
  BY <1>4
<1> HIDE DEF f
<1> QED
  BY <1>1, <1>3, <1>5 DEF w

\* What one reservation adds to the sum.
LEMMA HeldSplit ==
  ASSUME NEW R, NEW S, IsFiniteSet(S), \A j \in S : R[j].est \in Nat, NEW k
  PROVE  /\ HeldBy(R, S \ {k}) \in Nat
         /\ k \in S => HeldBy(R, S) = HeldBy(R, S \ {k}) + R[k].est
         /\ k \notin S => HeldBy(R, S) = HeldBy(R, S \ {k})
<1> DEFINE T == S \ {k}
<1>1. IsFiniteSet(T) /\ k \notin T
  BY FS_RemoveElement
<1>2. PICK g : Sums(g, [j \in T |-> R[j].est], T) /\ HeldBy(R, T) = g[T]
  BY <1>1, HeldBySums
<1>3. PICK h : Sums(h, [j \in S |-> R[j].est], S) /\ HeldBy(R, S) = h[S]
  BY HeldBySums
<1>4. g[T] \in Nat
  BY <1>1, <1>2, SumsTake
<1>5. CASE k \in S
  <2>1. S = T \cup {k}
    BY <1>5
  <2> DEFINE w == [j \in T |-> R[j].est]
             v == [j \in S |-> R[j].est]
  <2>2. /\ \A x \in T : w[x] = v[x]
        /\ \A x \in T \cup {k} : v[x] \in Nat
        /\ v[k] = R[k].est
    BY <1>5, <2>1
  <2>3. Sums(g, w, T) /\ Sums(h, v, T \cup {k})
    BY <1>2, <1>3, <2>1
  <2> HIDE DEF T, w, v
  <2>4. h[T \cup {k}] = g[T] + v[k]
    BY ONLY <1>1, <2>2, <2>3, SumsAdd
  <2> QED BY <1>2, <1>3, <1>4, <1>5, <2>1, <2>2, <2>4 DEF T
<1>6. CASE k \notin S
  <2>1. T = S
    BY <1>6
  <2> HIDE DEF T
  <2>2. HeldBy(R, T) = HeldBy(R, S)
    BY <2>1
  <2> QED BY <1>2, <1>4, <1>6, <2>2 DEF T
<1> QED
  BY <1>5, <1>6

\* What is held depends on the estimates of the counted reservations only.
LEMMA HeldSame ==
  ASSUME NEW R, NEW Q, NEW S, IsFiniteSet(S), \A j \in S : R[j].est = Q[j].est
  PROVE  HeldBy(R, S) = HeldBy(Q, S)
<1>1. PICK g : Sums(g, [j \in S |-> R[j].est], S) /\ HeldBy(R, S) = g[S]
  BY HeldBySums
<1>2. PICK h : Sums(h, [j \in S |-> Q[j].est], S) /\ HeldBy(Q, S) = h[S]
  BY HeldBySums
<1> DEFINE w == [j \in S |-> R[j].est]
           v == [j \in S |-> Q[j].est]
<1>3. \A x \in S : w[x] = v[x]
  OBVIOUS
<1>4. Sums(g, w, S) /\ Sums(h, v, S)
  BY <1>1, <1>2
<1> HIDE DEF w, v
<1>5. g[S] = h[S]
  BY <1>3, <1>4, SumsAgree
<1> QED
  BY <1>1, <1>2, <1>5

\* The same two facts of what was used.
LEMMA UsedBySums ==
  ASSUME NEW R, NEW S, IsFiniteSet(S)
  PROVE  \E it : Sums(it, [k \in S |-> R[k].actual], S) /\ UsedBy(R, S) = it[S]
<1> DEFINE w == [k \in S |-> R[k].actual]
           It(it) == it = [s \in SUBSET S |->
                       IF s = {} THEN 0
                       ELSE LET x == CHOOSE x \in s : TRUE IN R[x].actual + it[s \ {x}]]
           f == CHOOSE it : It(it)
<1>1. UsedBy(R, S) = f[S]
  BY DEF UsedBy, MapThenSumSet, MapThenFoldSet
<1>2. \A T \in SUBSET S : T # {} => w[CHOOSE x \in T : TRUE] = R[CHOOSE x \in T : TRUE].actual
  OBVIOUS
<1>3. ASSUME NEW it PROVE It(it) <=> Sums(it, w, S)
  <2> HIDE DEF w
  <2> QED BY <1>2 DEF Sums, Some
<1> HIDE DEF It, w
<1>4. \E it : It(it)
  BY <1>3, SumExists
<1>5. It(f)
  BY <1>4
<1> HIDE DEF f
<1> QED
  BY <1>1, <1>3, <1>5 DEF w

\* What one reservation adds to the sum.
LEMMA UsedSplit ==
  ASSUME NEW R, NEW S, IsFiniteSet(S), \A j \in S : R[j].actual \in Nat, NEW k
  PROVE  /\ UsedBy(R, S \ {k}) \in Nat
         /\ k \in S => UsedBy(R, S) = UsedBy(R, S \ {k}) + R[k].actual
         /\ k \notin S => UsedBy(R, S) = UsedBy(R, S \ {k})
<1> DEFINE T == S \ {k}
<1>1. IsFiniteSet(T) /\ k \notin T
  BY FS_RemoveElement
<1>2. PICK g : Sums(g, [j \in T |-> R[j].actual], T) /\ UsedBy(R, T) = g[T]
  BY <1>1, UsedBySums
<1>3. PICK h : Sums(h, [j \in S |-> R[j].actual], S) /\ UsedBy(R, S) = h[S]
  BY UsedBySums
<1>4. g[T] \in Nat
  BY <1>1, <1>2, SumsTake
<1>5. CASE k \in S
  <2>1. S = T \cup {k}
    BY <1>5
  <2> DEFINE w == [j \in T |-> R[j].actual]
             v == [j \in S |-> R[j].actual]
  <2>2. /\ \A x \in T : w[x] = v[x]
        /\ \A x \in T \cup {k} : v[x] \in Nat
        /\ v[k] = R[k].actual
    BY <1>5, <2>1
  <2>3. Sums(g, w, T) /\ Sums(h, v, T \cup {k})
    BY <1>2, <1>3, <2>1
  <2> HIDE DEF T, w, v
  <2>4. h[T \cup {k}] = g[T] + v[k]
    BY ONLY <1>1, <2>2, <2>3, SumsAdd
  <2> QED BY <1>2, <1>3, <1>4, <1>5, <2>1, <2>2, <2>4 DEF T
<1>6. CASE k \notin S
  <2>1. T = S
    BY <1>6
  <2> HIDE DEF T
  <2>2. UsedBy(R, T) = UsedBy(R, S)
    BY <2>1
  <2> QED BY <1>2, <1>4, <1>6, <2>2 DEF T
<1> QED
  BY <1>5, <1>6

LEMMA UsedSame ==
  ASSUME NEW R, NEW Q, NEW S, IsFiniteSet(S), \A j \in S : R[j].actual = Q[j].actual
  PROVE  UsedBy(R, S) = UsedBy(Q, S)
<1>1. PICK g : Sums(g, [j \in S |-> R[j].actual], S) /\ UsedBy(R, S) = g[S]
  BY UsedBySums
<1>2. PICK h : Sums(h, [j \in S |-> Q[j].actual], S) /\ UsedBy(Q, S) = h[S]
  BY UsedBySums
<1> DEFINE w == [j \in S |-> R[j].actual]
           v == [j \in S |-> Q[j].actual]
<1>3. \A x \in S : w[x] = v[x]
  OBVIOUS
<1>4. Sums(g, w, S) /\ Sums(h, v, S)
  BY <1>1, <1>2
<1> HIDE DEF w, v
<1>5. g[S] = h[S]
  BY <1>3, <1>4, SumsAgree
<1> QED
  BY <1>1, <1>2, <1>5

\* The invariant of the books: counters follow from reservations, which are
\* finitely many, and every committed one has its usage.
Counted == {k \in Key : res[k] # NoRes}
Within(R, c, states) == {k \in Key : R[k].state \in states /\ c \in R[k].counters}

\* Every balance is the sum of what is counted in it, and stays storable.
AccountInv ==
    /\ BudgetTypeOK
    /\ IsFiniteSet(Counted)
    /\ CountersBalance
    /\ UsageIsExact

\* What the bounds of the instance have to be.
LEMMA AccountConstants ==
  /\ MaxEstimate <= MaxStorable /\ MaxActual <= MaxStorable
  /\ Amount \subseteq Nat /\ 0..MaxActual \subseteq Amount /\ 1..MaxEstimate \subseteq Amount
  /\ None \notin Amount
BY BudgetConstants, BudgetAssumption DEF Amount

\* The types of the runs are within those of the steps above.
LEMMA TypesAreBooked == BudgetTypeOK => BooksInv
<1> SUFFICES ASSUME BudgetTypeOK PROVE BooksInv
  OBVIOUS
<1>1. [reserved : Amount, committed : Amount] \subseteq [reserved : Nat, committed : Nat]
  BY AccountConstants
<1>2. Reservation \subseteq Booked
  BY AccountConstants DEF Reservation, Booked
<1>3. [enabled : BOOLEAN, ceiling : Ceilings] \subseteq [enabled : BOOLEAN, ceiling : Nat]
  BY BudgetConstants
<1>4. counter \in [Counter -> [reserved : Nat, committed : Nat]]
  BY <1>1 DEF BudgetTypeOK
<1>5. res \in [Key -> Booked \cup {NoRes}]
  BY <1>2 DEF BudgetTypeOK
<1>6. policy \in [Policy -> [enabled : BOOLEAN, ceiling : Nat]]
  BY <1>3 DEF BudgetTypeOK
<1> QED
  BY <1>4, <1>5, <1>6 DEF BooksInv, BudgetTypeOK

\* The balance of the model, in terms of the two sums.
LEMMA BalanceIs ==
  CountersBalance <=>
    \A c \in Counter : /\ counter[c].reserved = HeldBy(res, Within(res, c, OpenStates))
                       /\ counter[c].committed = UsedBy(res, Within(res, c, {"committed"}))
BY DEF CountersBalance, HeldBy, UsedBy, In, Within, MapThenSumSet, MapThenFoldSet

LEMMA BalanceIsNext ==
  CountersBalance' <=>
    \A c \in Counter : /\ counter'[c].reserved = HeldBy(res', Within(res', c, OpenStates))
                       /\ counter'[c].committed = UsedBy(res', Within(res', c, {"committed"}))
BY DEF CountersBalance, HeldBy, UsedBy, In, Within, MapThenSumSet, MapThenFoldSet

\* What one changed reservation does to the two sums of a counter.
Held(r, c) == IF r.state \in OpenStates /\ c \in r.counters THEN r.est ELSE 0
Used(r, c) == IF r.state = "committed" /\ c \in r.counters THEN r.actual ELSE 0

\* Moving one reservation moves both balances of a counter by its own part.
LEMMA SumsMove ==
  ASSUME NEW R, NEW Q, NEW k \in Key, NEW c,
         IsFiniteSet({j \in Key : R[j] # NoRes}),
         \A j \in Key : R[j] \in Booked \cup {NoRes},
         Q[k] \in Booked, \A j \in Key : j # k => Q[j] = R[j],
         \A j \in Key : R[j].state = "committed" => R[j].actual # None,
         Q[k].state = "committed" => Q[k].actual # None
  PROVE  \E rest, others \in Nat :
           /\ HeldBy(R, Within(R, c, OpenStates)) = rest + Held(R[k], c)
           /\ HeldBy(Q, Within(Q, c, OpenStates)) = rest + Held(Q[k], c)
           /\ UsedBy(R, Within(R, c, {"committed"})) = others + Used(R[k], c)
           /\ UsedBy(Q, Within(Q, c, {"committed"})) = others + Used(Q[k], c)
<1> USE BudgetConstants
<1>1. NoRes.state \notin OpenStates \cup Outcomes
  BY DEF NoRes
<1>2. IsFiniteSet({j \in Key : R[j] # NoRes} \cup {k})
  BY FS_AddElement
<1>3. \A states \in SUBSET (OpenStates \cup Outcomes) :
        /\ IsFiniteSet(Within(R, c, states)) /\ IsFiniteSet(Within(Q, c, states))
        /\ Within(R, c, states) \ {k} = Within(Q, c, states) \ {k}
  <2> SUFFICES ASSUME NEW states \in SUBSET (OpenStates \cup Outcomes)
               PROVE  /\ IsFiniteSet(Within(R, c, states)) /\ IsFiniteSet(Within(Q, c, states))
                      /\ Within(R, c, states) \ {k} = Within(Q, c, states) \ {k}
    OBVIOUS
  <2>1. /\ Within(R, c, states) \subseteq {j \in Key : R[j] # NoRes} \cup {k}
        /\ Within(Q, c, states) \subseteq {j \in Key : R[j] # NoRes} \cup {k}
    BY <1>1 DEF Within
  <2>2. Within(R, c, states) \ {k} = Within(Q, c, states) \ {k}
    BY DEF Within
  <2> QED BY <1>2, <2>1, <2>2, FS_Subset
<1> DEFINE RO == Within(R, c, OpenStates)
           QO == Within(Q, c, OpenStates)
           RC == Within(R, c, {"committed"})
           QC == Within(Q, c, {"committed"})
<1>4. /\ IsFiniteSet(RO) /\ IsFiniteSet(QO) /\ RO \ {k} = QO \ {k}
      /\ IsFiniteSet(RC) /\ IsFiniteSet(QC) /\ RC \ {k} = QC \ {k}
  BY <1>3 DEF Outcomes
<1>5. /\ \A j \in RO : R[j].est \in Nat
      /\ \A j \in QO : Q[j].est \in Nat
      /\ \A j \in RC : R[j].actual \in Nat
      /\ \A j \in QC : Q[j].actual \in Nat
  <2>1. ASSUME NEW j \in Key
        PROVE  /\ R[j].state \in OpenStates => R[j].est \in Nat
               /\ R[j].state = "committed" => R[j].actual \in Nat
               /\ Q[j].state \in OpenStates => Q[j].est \in Nat
               /\ Q[j].state = "committed" => Q[j].actual \in Nat
    <3>1. R[j] \in Booked \/ R[j] = NoRes
      OBVIOUS
    <3>2. Q[j] = R[j] \/ (j = k /\ Q[j] \in Booked)
      OBVIOUS
    <3> QED BY <1>1, <3>1, <3>2 DEF Booked, Outcomes
  <2> QED BY <2>1 DEF Within
<1>6. /\ k \in RO <=> R[k].state \in OpenStates /\ c \in R[k].counters
      /\ k \in QO <=> Q[k].state \in OpenStates /\ c \in Q[k].counters
      /\ k \in RC <=> R[k].state = "committed" /\ c \in R[k].counters
      /\ k \in QC <=> Q[k].state = "committed" /\ c \in Q[k].counters
  BY DEF Within
<1>7. /\ \A j \in RO \ {k} : R[j].est = Q[j].est
      /\ \A j \in RC \ {k} : R[j].actual = Q[j].actual
  BY DEF Within
<1> HIDE DEF RO, QO, RC, QC
<1>8. /\ HeldBy(R, RO \ {k}) \in Nat
      /\ k \in RO => HeldBy(R, RO) = HeldBy(R, RO \ {k}) + R[k].est
      /\ k \notin RO => HeldBy(R, RO) = HeldBy(R, RO \ {k})
  <2>1. IsFiniteSet(RO) /\ \A j \in RO : R[j].est \in Nat
    BY <1>4, <1>5
  <2> QED BY ONLY <2>1, HeldSplit
<1>9. /\ k \in QO => HeldBy(Q, QO) = HeldBy(Q, QO \ {k}) + Q[k].est
      /\ k \notin QO => HeldBy(Q, QO) = HeldBy(Q, QO \ {k})
  <2>1. IsFiniteSet(QO) /\ \A j \in QO : Q[j].est \in Nat
    BY <1>4, <1>5
  <2> QED BY ONLY <2>1, HeldSplit
<1>10. HeldBy(Q, QO \ {k}) = HeldBy(R, RO \ {k})
  <2>1. HeldBy(R, RO \ {k}) = HeldBy(Q, RO \ {k})
    BY ONLY <1>4, <1>7, HeldSame, FS_RemoveElement
  <2> QED BY <1>4, <2>1
<1>11. /\ UsedBy(R, RC \ {k}) \in Nat
       /\ k \in RC => UsedBy(R, RC) = UsedBy(R, RC \ {k}) + R[k].actual
       /\ k \notin RC => UsedBy(R, RC) = UsedBy(R, RC \ {k})
  <2>1. IsFiniteSet(RC) /\ \A j \in RC : R[j].actual \in Nat
    BY <1>4, <1>5
  <2> QED BY ONLY <2>1, UsedSplit
<1>12. /\ k \in QC => UsedBy(Q, QC) = UsedBy(Q, QC \ {k}) + Q[k].actual
       /\ k \notin QC => UsedBy(Q, QC) = UsedBy(Q, QC \ {k})
  <2>1. IsFiniteSet(QC) /\ \A j \in QC : Q[j].actual \in Nat
    BY <1>4, <1>5
  <2> QED BY ONLY <2>1, UsedSplit
<1>13. UsedBy(Q, QC \ {k}) = UsedBy(R, RC \ {k})
  <2>1. UsedBy(R, RC \ {k}) = UsedBy(Q, RC \ {k})
    BY ONLY <1>4, <1>7, UsedSame, FS_RemoveElement
  <2> QED BY <1>4, <2>1
<1>14. /\ HeldBy(R, RO) = HeldBy(R, RO \ {k}) + Held(R[k], c)
       /\ HeldBy(Q, QO) = HeldBy(R, RO \ {k}) + Held(Q[k], c)
       /\ UsedBy(R, RC) = UsedBy(R, RC \ {k}) + Used(R[k], c)
       /\ UsedBy(Q, QC) = UsedBy(R, RC \ {k}) + Used(Q[k], c)
  BY <1>6, <1>8, <1>9, <1>10, <1>11, <1>12, <1>13 DEF Held, Used
<1> QED
  BY <1>8, <1>11, <1>14 DEF RO, QO, RC, QC

\* The books still balance when counters and one reservation move together.
LEMMA BooksMove ==
  ASSUME AccountInv, NEW k \in Key, NEW new \in Reservation,
         res' = [res EXCEPT ![k] = new],
         new.state = "committed" => new.actual # None,
         \A c \in Counter :
           /\ counter'[c].reserved = counter[c].reserved - Held(res[k], c) + Held(new, c)
           /\ counter'[c].committed = counter[c].committed - Used(res[k], c) + Used(new, c)
  PROVE  /\ CountersBalance' /\ IsFiniteSet(Counted)' /\ res' \in [Key -> Reservation \cup {NoRes}]
         /\ res'[k] = new /\ \A j \in Key : j # k => res'[j] = res[j]
<1>1. /\ res \in [Key -> Reservation \cup {NoRes}] /\ IsFiniteSet(Counted)
      /\ CountersBalance /\ UsageIsExact /\ BooksInv
      /\ usage \in [Key -> Seq(0..MaxActual)]
  BY TypesAreBooked DEF AccountInv, BudgetTypeOK
<1>2. /\ res'[k] = new /\ \A j \in Key : j # k => res'[j] = res[j]
      /\ res' \in [Key -> Reservation \cup {NoRes}]
  BY <1>1
<1>3. IsFiniteSet(Counted)'
  <2>1. Counted' \subseteq Counted \cup {k}
    BY <1>2 DEF Counted
  <2>2. IsFiniteSet(Counted \cup {k})
    BY <1>1, FS_AddElement
  <2> QED BY <2>1, <2>2, FS_Subset
<1>4. \A j \in Key : res[j].state = "committed" => res[j].actual # None
  <2> SUFFICES ASSUME NEW j \in Key, res[j].state = "committed" PROVE res[j].actual # None
    OBVIOUS
  <2>1. usage[j] = <<res[j].actual>> /\ usage[j] \in Seq(0..MaxActual)
    BY <1>1 DEF UsageIsExact
  <2>2. Len(usage[j]) = 1 /\ usage[j][1] = res[j].actual
    BY <2>1
  <2>3. usage[j][1] \in 0..MaxActual
    BY <2>1, <2>2
  <2> QED BY <2>2, <2>3, BudgetConstants
<1>5. ASSUME NEW c \in Counter
      PROVE  /\ counter'[c].reserved = HeldBy(res', Within(res', c, OpenStates))
             /\ counter'[c].committed = UsedBy(res', Within(res', c, {"committed"}))
  <2>1. IsFiniteSet({j \in Key : res[j] # NoRes}) /\ new \in Booked
    BY <1>1, AccountConstants DEF Counted, Booked, Reservation
  <2>2. \A j \in Key : res[j] \in Booked \cup {NoRes}
    BY <1>1 DEF BooksInv
  <2>3. PICK rest, others \in Nat :
          /\ HeldBy(res, Within(res, c, OpenStates)) = rest + Held(res[k], c)
          /\ HeldBy(res', Within(res', c, OpenStates)) = rest + Held(res'[k], c)
          /\ UsedBy(res, Within(res, c, {"committed"})) = others + Used(res[k], c)
          /\ UsedBy(res', Within(res', c, {"committed"})) = others + Used(res'[k], c)
    BY ONLY <1>2, <1>4, <2>1, <2>2, SumsMove, SMTT(30), k \in Key, new.state = "committed" => new.actual # None
  <2>4. /\ counter[c].reserved = HeldBy(res, Within(res, c, OpenStates))
        /\ counter[c].committed = UsedBy(res, Within(res, c, {"committed"}))
    BY <1>1, BalanceIs
  <2>5. /\ Held(res[k], c) \in Nat /\ Used(res[k], c) \in Nat
        /\ Held(new, c) \in Nat /\ Used(new, c) \in Nat
    <3>1. res[k] \in Booked \/ res[k].state = None
      BY <2>2 DEF NoRes
    <3> QED BY <1>4, <2>1, <3>1, BudgetConstants DEF Held, Used, Booked, Outcomes
  <2> QED BY <1>2, <2>3, <2>4, <2>5
<1>6. CountersBalance'
  BY <1>5, BalanceIsNext
<1> QED
  BY <1>2, <1>3, <1>6

\* A counter that changes as the reservation does keeps to its range and the
\* books stay as they should be: settlement.
LEMMA ApplyBalances ==
  ASSUME AccountInv, NEW k \in Key, res[k] # NoRes,
         NEW outcome \in Outcomes, NEW actual \in ActualFor(outcome),
         MayBecome(res[k].state, outcome), Apply(k, outcome, actual),
         lease' \in [Run -> [gen : 1..MaxGen, phase : Phases]],
         UNCHANGED <<policy, period>>
  PROVE  AccountInv'
<1> USE BudgetConstants
<1>1. /\ res \in [Key -> Reservation \cup {NoRes}]
      /\ counter \in [Counter -> [reserved : Amount, committed : Amount]]
      /\ usage \in [Key -> Seq(0..MaxActual)] /\ UsageIsExact
  BY DEF AccountInv, BudgetTypeOK
<1>2. /\ res[k] \in Reservation /\ res[k].est \in Nat /\ res[k].counters \subseteq Counter
      /\ res[k].state \in OpenStates /\ res[k].state # "committed"
  BY <1>1, AccountConstants DEF Reservation, MayBecome, OpenStates
<1>3. /\ actual \in Amount \cup {None}
      /\ outcome = "committed" => actual \in 0..MaxActual /\ actual \in Nat /\ actual # None
      /\ outcome = "released" => actual = None
  BY AccountConstants DEF ActualFor, Outcomes
<1> DEFINE new == [res[k] EXCEPT !.state = outcome, !.actual = actual]
<1>4. /\ new \in Reservation
      /\ new.state = outcome /\ new.actual = actual
      /\ new.est = res[k].est /\ new.counters = res[k].counters
  BY <1>2, <1>3 DEF Reservation
<1>5. res' = [res EXCEPT ![k] = new]
  BY DEF Apply
<1> HIDE DEF new
<1>6. \A c \in Counter : /\ counter[c] \in [reserved : Amount, committed : Amount]
                         /\ counter[c].reserved \in Nat /\ counter[c].committed \in Nat
  BY <1>1, AccountConstants
<1>7. /\ counter' \in [Counter -> [reserved : Amount, committed : Amount]]
      /\ \A c \in Counter :
           /\ counter'[c].reserved = counter[c].reserved - Held(res[k], c) + Held(new, c)
           /\ counter'[c].committed = counter[c].committed - Used(res[k], c) + Used(new, c)
  <2>1. CASE outcome = "uncertain"
    <3>1. counter' = counter
      BY <2>1 DEF Apply
    <3>2. \A c \in Counter :
            /\ Held(new, c) = Held(res[k], c) /\ Held(new, c) \in Nat
            /\ Used(new, c) = 0 /\ Used(res[k], c) = 0
      BY <1>2, <1>4, <2>1 DEF Held, Used, OpenStates
    <3> QED BY <1>1, <1>6, <3>1, <3>2
  <2>2. CASE outcome # "uncertain"
    <3>1. Settleable(res[k], actual) /\ counter' = Settle(res[k], actual)
      BY <2>2 DEF Apply
    <3> DEFINE gain == IF actual = None THEN 0 ELSE actual
    <3>2. gain \in Nat /\ (outcome = "committed" => gain = actual)
                       /\ (outcome # "committed" => gain = 0)
      BY <1>3, <2>2 DEF Outcomes
    <3>3. ASSUME NEW c \in Counter, c \in res[k].counters
          PROVE  /\ counter'[c].reserved = counter[c].reserved - res[k].est
                 /\ counter'[c].committed = counter[c].committed + gain
                 /\ counter'[c] \in [reserved : Amount, committed : Amount]
                 /\ Held(res[k], c) = res[k].est /\ Held(new, c) = 0
                 /\ Used(res[k], c) = 0 /\ Used(new, c) = gain
      <4>1. /\ counter[c].reserved >= res[k].est
            /\ actual # None => counter[c].committed + actual <= MaxStorable
        BY <3>1, <3>3 DEF Settleable
      <4>2. counter'[c] = [reserved |-> counter[c].reserved - res[k].est,
                           committed |-> counter[c].committed + gain]
        BY <3>1, <3>3 DEF Settle
      <4>3. counter[c].reserved \in 0..MaxStorable /\ counter[c].committed \in 0..MaxStorable
        BY <1>6 DEF Amount
      <4>4. counter[c].reserved - res[k].est \in Amount /\ counter[c].committed + gain \in Amount
        BY <1>2, <3>2, <4>1, <4>3 DEF Amount
      <4>5. /\ Held(res[k], c) = res[k].est /\ Held(new, c) = 0
            /\ Used(res[k], c) = 0 /\ Used(new, c) = gain
        BY <1>2, <1>4, <2>2, <3>2, <3>3 DEF Held, Used, Outcomes, OpenStates
      <4> HIDE DEF gain
      <4>6. /\ counter'[c].reserved = counter[c].reserved - res[k].est
            /\ counter'[c].committed = counter[c].committed + gain
            /\ counter'[c] \in [reserved : Amount, committed : Amount]
        BY ONLY <4>2, <4>4
      <4> QED BY <4>5, <4>6
    <3>4. ASSUME NEW c \in Counter, c \notin res[k].counters
          PROVE  /\ counter'[c] = counter[c]
                 /\ Held(res[k], c) = 0 /\ Held(new, c) = 0
                 /\ Used(res[k], c) = 0 /\ Used(new, c) = 0
      BY <1>4, <3>1, <3>4 DEF Settle, Held, Used
    <3> HIDE DEF gain
    <3>5. \A c \in Counter : counter'[c] \in [reserved : Amount, committed : Amount]
      <4> SUFFICES ASSUME NEW c \in Counter
                   PROVE  counter'[c] \in [reserved : Amount, committed : Amount]
        OBVIOUS
      <4>1. CASE c \in res[k].counters
        BY <3>3, <4>1
      <4>2. CASE c \notin res[k].counters
        BY <1>6, <3>4, <4>2
      <4> QED BY <4>1, <4>2
    <3>6. counter' = [c \in Counter |-> counter'[c]]
      BY <3>1 DEF Settle
    <3>7. counter' \in [Counter -> [reserved : Amount, committed : Amount]]
      BY <3>5, <3>6
    <3>8. ASSUME NEW c \in Counter
          PROVE  /\ counter'[c].reserved = counter[c].reserved - Held(res[k], c) + Held(new, c)
                 /\ counter'[c].committed = counter[c].committed - Used(res[k], c) + Used(new, c)
      <4>1. CASE c \in res[k].counters
        <5>1. /\ counter'[c].reserved = counter[c].reserved - res[k].est
              /\ counter'[c].committed = counter[c].committed + gain
          BY <3>3, <4>1
        <5>2. /\ Held(res[k], c) = res[k].est /\ Held(new, c) = 0
              /\ Used(res[k], c) = 0 /\ Used(new, c) = gain
          BY <3>3, <4>1
        <5> QED BY <1>2, <1>6, <3>2, <5>1, <5>2
      <4>2. CASE c \notin res[k].counters
        BY <1>6, <3>4, <4>2
      <4> QED BY <4>1, <4>2
    <3> QED BY <3>7, <3>8
  <2> QED BY <2>1, <2>2
<1>8. /\ CountersBalance' /\ IsFiniteSet(Counted)' /\ res' \in [Key -> Reservation \cup {NoRes}]
      /\ res'[k] = new /\ \A j \in Key : j # k => res'[j] = res[j]
  <2>1. new.state = "committed" => new.actual # None
    BY <1>3, <1>4
  <2> QED BY <1>4, <1>5, <1>7, <2>1, BooksMove
<1>9. usage' \in [Key -> Seq(0..MaxActual)] /\ UsageIsExact'
  <2>1. usage[k] = <<>>
    BY <1>1, <1>2 DEF UsageIsExact
  <2>2. CASE outcome = "committed"
    <3>1. usage' = [usage EXCEPT ![k] = Append(usage[k], actual)]
      BY <2>2 DEF Apply
    <3>2. Append(usage[k], actual) = <<actual>> /\ <<actual>> \in Seq(0..MaxActual)
      BY <1>3, <2>1, <2>2
    <3>3. usage' = [usage EXCEPT ![k] = <<actual>>]
      BY <3>1, <3>2
    <3>4. usage' \in [Key -> Seq(0..MaxActual)]
      BY <1>1, <3>2, <3>3
    <3>5. \A j \in Key : usage'[j] = IF j = k THEN <<actual>> ELSE usage[j]
      BY <1>1, <3>3
    <3> QED BY <1>1, <1>4, <1>8, <2>2, <3>4, <3>5 DEF UsageIsExact
  <2>3. CASE outcome # "committed"
    <3>1. usage' = usage
      BY <2>3 DEF Apply
    <3> QED BY <1>1, <1>4, <1>8, <2>1, <2>3, <3>1 DEF UsageIsExact
  <2> QED BY <2>2, <2>3
<1> QED
  <2>1. policy' = policy /\ period' = period /\ BudgetTypeOK
    BY DEF AccountInv
  <2>2. BudgetTypeOK'
    BY <1>7, <1>8, <1>9, <2>1 DEF BudgetTypeOK
  <2> QED BY <1>8, <1>9, <2>2 DEF AccountInv

\* A new reservation holds its estimate in every counter it is booked in.
LEMMA ReserveBalances ==
  ASSUME AccountInv, NEW k \in Key, NEW r \in Run, NEW g \in 1..MaxGen,
         NEW est \in 1..MaxEstimate, NEW at \in BookedPeriods, Reserve(k, r, g, est, at)
  PROVE  AccountInv'
<1> USE BudgetConstants
<1> DEFINE booked == {<<p, at>> : p \in Enabled}
           new == [state |-> "reserved", run |-> r, gen |-> g, est |-> est,
                   actual |-> None, counters |-> booked]
<1>1. /\ \A c \in booked : Fits(c[1], c, est)
      /\ counter' = [c \in Counter |->
           IF c \in booked THEN [counter[c] EXCEPT !.reserved = @ + est] ELSE counter[c]]
      /\ res' = [res EXCEPT ![k] = new]
      /\ res[k] = NoRes
      /\ UNCHANGED <<lease, policy, period, usage>>
  BY DEF Reserve
<1>2. booked \subseteq Counter
  <2>1. at \in 1..MaxPeriod
    BY DEF BookedPeriods, AccountInv, BudgetTypeOK
  <2> QED BY <2>1 DEF Enabled, Counter
<1> HIDE DEF booked
<1>3. /\ new \in Reservation /\ new.state = "reserved" /\ new.est = est /\ new.counters = booked
      /\ est \in Nat
  BY <1>2, AccountConstants DEF Reservation, OpenStates
<1> HIDE DEF new
<1>4. \A c \in Counter : /\ counter[c] \in [reserved : Amount, committed : Amount]
                         /\ counter[c].reserved \in Nat /\ counter[c].committed \in Nat
  BY AccountConstants DEF AccountInv, BudgetTypeOK
<1>5. ASSUME NEW c \in Counter
      PROVE  /\ counter'[c] = [reserved |-> counter[c].reserved + (IF c \in booked THEN est ELSE 0),
                               committed |-> counter[c].committed]
             /\ counter'[c] \in [reserved : Amount, committed : Amount]
  <2>1. CASE c \in booked
    <3>1. counter'[c] = [counter[c] EXCEPT !.reserved = @ + est]
      BY <1>1, <2>1
    <3>2. counter[c] = [reserved |-> counter[c].reserved, committed |-> counter[c].committed]
      BY <1>4
    <3>3. counter'[c] = [reserved |-> counter[c].reserved + est, committed |-> counter[c].committed]
      BY <3>1, <3>2
    <3>4. counter[c].reserved + est + counter[c].committed <= MaxStorable
      BY <1>1, <2>1 DEF Fits
    <3>5. counter[c].reserved + est \in Amount /\ counter[c].committed \in Amount
      BY <1>3, <1>4, <3>4 DEF Amount
    <3> QED BY <2>1, <3>3, <3>5
  <2>2. CASE c \notin booked
    <3>1. counter'[c] = counter[c]
      BY <1>1, <2>2
    <3>2. counter[c] = [reserved |-> counter[c].reserved + 0, committed |-> counter[c].committed]
      BY <1>4
    <3> QED BY <1>4, <2>2, <3>1, <3>2
  <2> QED BY <2>1, <2>2
<1>6. counter' \in [Counter -> [reserved : Amount, committed : Amount]]
  <2>1. counter' = [c \in Counter |-> counter'[c]]
    BY <1>1
  <2> QED BY <1>5, <2>1
<1>7. ASSUME NEW c \in Counter
      PROVE  /\ counter'[c].reserved = counter[c].reserved - Held(res[k], c) + Held(new, c)
             /\ counter'[c].committed = counter[c].committed - Used(res[k], c) + Used(new, c)
  <2>1. Held(res[k], c) = 0 /\ Used(res[k], c) = 0
    BY <1>1 DEF Held, Used, NoRes, OpenStates, Outcomes
  <2>2. Held(new, c) = (IF c \in booked THEN est ELSE 0) /\ Used(new, c) = 0
    BY <1>3 DEF Held, Used, OpenStates
  <2>3. /\ counter'[c].reserved = counter[c].reserved + (IF c \in booked THEN est ELSE 0)
        /\ counter'[c].committed = counter[c].committed
    <3>1. counter'[c] = [reserved |-> counter[c].reserved + (IF c \in booked THEN est ELSE 0),
                         committed |-> counter[c].committed]
      BY <1>5
    <3> QED BY ONLY <3>1
  <2> QED BY <1>3, <1>4, <2>1, <2>2, <2>3
<1>8. /\ CountersBalance' /\ IsFiniteSet(Counted)' /\ res' \in [Key -> Reservation \cup {NoRes}]
      /\ res'[k] = new /\ \A j \in Key : j # k => res'[j] = res[j]
  BY <1>1, <1>3, <1>7, BooksMove
<1>9. UsageIsExact'
  <2>1. res[k].state # "committed" /\ usage' = usage
    BY <1>1 DEF NoRes, Outcomes
  <2> QED BY <1>3, <1>8, <2>1 DEF AccountInv, UsageIsExact
<1>10. BudgetTypeOK'
  <2>1. BudgetTypeOK
    BY DEF AccountInv
  <2> QED BY <1>1, <1>6, <1>8, <2>1 DEF BudgetTypeOK
<1> QED
  BY <1>8, <1>9, <1>10 DEF AccountInv

\* What leaves the books alone leaves them balanced.
LEMMA RestBalances ==
  ASSUME AccountInv, BudgetTypeOK', UNCHANGED <<counter, res, usage>>
  PROVE  AccountInv'
<1>1. IsFiniteSet(Counted)'
  BY DEF AccountInv, Counted
<1>2. CountersBalance'
  BY BalanceIs, BalanceIsNext DEF AccountInv
<1>3. UsageIsExact'
  BY DEF AccountInv, UsageIsExact
<1> QED
  BY <1>1, <1>2, <1>3 DEF AccountInv

\* One lemma per way the table of reservations changes; together, every step.
LEMMA AccountStepKeeps ==
  ASSUME AccountInv, BudgetNext
  PROVE  AccountInv'
<1> USE BudgetConstants
<1>0. /\ lease \in [Run -> [gen : 1..MaxGen, phase : Phases]]
      /\ policy \in [Policy -> [enabled : BOOLEAN, ceiling : Ceilings]]
      /\ period \in 1..MaxPeriod /\ BudgetTypeOK
  BY DEF AccountInv, BudgetTypeOK
<1>1. ASSUME NEW k \in Key, NEW r \in Run, NEW g \in 1..MaxGen, NEW est \in 1..MaxEstimate,
             NEW at \in BookedPeriods, Reserve(k, r, g, est, at)
      PROVE  AccountInv'
  BY <1>1, ReserveBalances
<1>2. ASSUME NEW k \in Key, NEW outcome \in Outcomes, NEW actual \in ActualFor(outcome),
             Reconcile(k, outcome, actual)
      PROVE  AccountInv'
  <2>1. lease' \in [Run -> [gen : 1..MaxGen, phase : Phases]]
    BY <1>0, <1>2 DEF Reconcile
  <2> QED BY <1>2, <2>1, ApplyBalances DEF Reconcile
<1>3. ASSUME NEW k \in Key, NEW actual \in 0..MaxActual, CommitBackground(k, actual)
      PROVE  AccountInv'
  <2>1. /\ res[k] # NoRes /\ res[k].state = "uncertain" /\ Apply(k, "committed", actual)
        /\ UNCHANGED <<policy, period>>
        /\ lease' = [lease EXCEPT ![res[k].run].phase = "closed"]
    BY <1>3 DEF CommitBackground
  <2>2. /\ "committed" \in Outcomes /\ actual \in ActualFor("committed")
        /\ MayBecome(res[k].state, "committed")
    BY <2>1 DEF Outcomes, ActualFor, MayBecome, OpenStates
  <2>3. res[k].run \in Run
    BY <2>1 DEF AccountInv, BudgetTypeOK, Reservation
  <2>4. lease' \in [Run -> [gen : 1..MaxGen, phase : Phases]]
    <3> DEFINE x == res[k].run
    <3>1. x \in Run /\ lease' = [lease EXCEPT ![x].phase = "closed"]
      BY <2>1, <2>3
    <3> HIDE DEF x
    <3> QED BY <1>0, <3>1 DEF Phases
  <2> QED BY <2>1, <2>2, <2>4, ApplyBalances
<1>4. ASSUME NEW r \in Run, NextAttempt(r)
      PROVE  AccountInv'
  <2>1. lease' \in [Run -> [gen : 1..MaxGen, phase : Phases]]
    <3>1. lease[r].gen \in 1..MaxGen /\ lease[r].gen < MaxGen /\ MaxGen \in Nat
      BY <1>0, <1>4, BudgetAssumption DEF NextAttempt
    <3>2. lease' = [lease EXCEPT ![r] = [gen |-> lease[r].gen + 1, phase |-> "running"]]
      BY <1>4 DEF NextAttempt
    <3>3. [gen |-> lease[r].gen + 1, phase |-> "running"] \in [gen : 1..MaxGen, phase : Phases]
      BY <3>1 DEF Phases
    <3> QED BY <1>0, <3>2, <3>3
  <2>2. BudgetTypeOK'
    BY <1>0, <1>4, <2>1 DEF NextAttempt, BudgetTypeOK
  <2> QED BY <1>4, <2>2, RestBalances DEF NextAttempt
<1>5. ASSUME NEW r \in Run, NEW phase \in {"background", "closed"}, LeaveRunning(r, phase)
      PROVE  AccountInv'
  <2>1. lease' \in [Run -> [gen : 1..MaxGen, phase : Phases]]
    BY <1>0, <1>5 DEF LeaveRunning, Phases
  <2>2. BudgetTypeOK'
    BY <1>0, <1>5, <2>1 DEF LeaveRunning, BudgetTypeOK
  <2> QED BY <1>5, <2>2, RestBalances DEF LeaveRunning
<1>6. ASSUME NEW p \in Policy, NEW enabled \in BOOLEAN, NEW ceiling \in Ceilings,
             UpsertBudgetPolicy(p, enabled, ceiling)
      PROVE  AccountInv'
  <2>1. policy' \in [Policy -> [enabled : BOOLEAN, ceiling : Ceilings]]
    BY <1>0, <1>6 DEF UpsertBudgetPolicy
  <2>2. BudgetTypeOK'
    BY <1>0, <1>6, <2>1 DEF UpsertBudgetPolicy, BudgetTypeOK
  <2> QED BY <1>6, <2>2, RestBalances DEF UpsertBudgetPolicy
<1>7. ASSUME NextPeriod  PROVE AccountInv'
  <2>1. period' \in 1..MaxPeriod
    BY <1>0, <1>7 DEF NextPeriod
  <2>2. BudgetTypeOK'
    BY <1>0, <1>7, <2>1 DEF NextPeriod, BudgetTypeOK
  <2> QED BY <1>7, <2>2, RestBalances DEF NextPeriod
<1> QED
  BY <1>1, <1>2, <1>3, <1>4, <1>5, <1>6, <1>7 DEF BudgetNext

\* An empty table holds and used nothing.
LEMMA NothingHeld ==
  ASSUME NEW R
  PROVE  HeldBy(R, {}) = 0 /\ UsedBy(R, {}) = 0
<1>1. IsFiniteSet({})
  BY FS_EmptySet
<1>2. HeldBy(R, {}) = 0
  <2> DEFINE w == [k \in {} |-> R[k].est]
  <2>1. PICK h : Sums(h, w, {}) /\ HeldBy(R, {}) = h[{}]
    BY <1>1, HeldBySums
  <2> HIDE DEF w
  <2> QED BY <2>1, SumsAt
<1>3. UsedBy(R, {}) = 0
  <2> DEFINE w == [k \in {} |-> R[k].actual]
  <2>1. PICK h : Sums(h, w, {}) /\ UsedBy(R, {}) = h[{}]
    BY <1>1, UsedBySums
  <2> HIDE DEF w
  <2> QED BY <2>1, SumsAt
<1> QED
  BY <1>2, <1>3

LEMMA AccountInitHolds == BudgetInit => AccountInv
<1> SUFFICES ASSUME BudgetInit PROVE AccountInv
  OBVIOUS
<1> USE BudgetConstants
<1>1. \A k \in Key : res[k] = NoRes /\ usage[k] = <<>>
  BY DEF BudgetInit
<1>2. BudgetTypeOK
  <2>1. counter \in [Counter -> [reserved : Amount, committed : Amount]]
    BY DEF BudgetInit, EmptyCounter, Amount
  <2>2. lease \in [Run -> [gen : 1..MaxGen, phase : Phases]]
    BY BudgetAssumption DEF BudgetInit, Phases
  <2>3. usage \in [Key -> Seq(0..MaxActual)] /\ res \in [Key -> Reservation \cup {NoRes}]
    BY DEF BudgetInit
  <2>4. /\ policy \in [Policy -> [enabled : BOOLEAN, ceiling : Ceilings]]
        /\ period \in 1..MaxPeriod
    BY DEF BudgetInit
  <2> QED BY <2>1, <2>2, <2>3, <2>4 DEF BudgetTypeOK
<1>3. IsFiniteSet(Counted)
  <2>1. Counted = {}
    BY <1>1 DEF Counted
  <2> QED BY <2>1, FS_EmptySet
<1>4. CountersBalance
  <2>1. \A c \in Counter : Within(res, c, OpenStates) = {} /\ Within(res, c, {"committed"}) = {}
    BY <1>1 DEF Within, NoRes, Outcomes
  <2>2. \A c \in Counter : counter[c].reserved = 0 /\ counter[c].committed = 0
    BY DEF BudgetInit, EmptyCounter
  <2> QED BY <2>1, <2>2, NothingHeld, BalanceIs
<1>5. UsageIsExact
  BY <1>1 DEF UsageIsExact, NoRes, Outcomes
<1> QED
  BY <1>2, <1>3, <1>4, <1>5 DEF AccountInv

LEMMA AccountStutterKeeps ==
  ASSUME AccountInv, UNCHANGED budgetVars
  PROVE  AccountInv'
<1>1. BudgetTypeOK'
  BY DEF AccountInv, BudgetTypeOK, budgetVars
<1> QED
  BY <1>1, RestBalances DEF budgetVars

\* Every counter holds what its reservations say and every committed
\* reservation has its usage, for any number of keys, runs and policies.
THEOREM AccountInvariance == Spec => []AccountInv
<1>1. Init => AccountInv
  BY AccountInitHolds DEF Init
<1>2. AccountInv /\ [Next]_confVars => AccountInv'
  <2> SUFFICES ASSUME AccountInv, [Next]_confVars PROVE AccountInv'
    OBVIOUS
  <2>1. BudgetNext \/ UNCHANGED budgetVars
    BY DEF Next, confVars
  <2> QED BY <2>1, AccountStepKeeps, AccountStutterKeeps
<1> QED
  BY <1>1, <1>2, PTL DEF Spec

-----------------------------------------------------------------------------
(***************************************************************************)
(* Prices.  A dimension is rounded up by less than one microunit, so that  *)
(* splitting the input into cached and uncached tokens costs at most one   *)
(* more than the quote, and the greatest enabled rate covers every split   *)
(* of the built-in calls.                                                  *)
(***************************************************************************)

LEMMA PriceConstants ==
  /\ Denominator \in Nat \ {0} /\ MaximumVersions \in Nat /\ MaxTokens \in Nat
  /\ MaxCalls \in Nat /\ MaxCost \in Nat /\ NoCost = MaxCost + 1
  /\ \A r \in Rates : r \in RateRecord
BY PricingAssumption DEF NoCost

\* A dimension costs its exact price, rounded up by less than a microunit.
LEMMA DimensionIsRoundedUp ==
  ASSUME NEW units \in Nat, NEW rate \in Nat
  PROVE  /\ PriceDimension(units, rate) \in Nat
         /\ units * rate <= Denominator * PriceDimension(units, rate)
         /\ Denominator * PriceDimension(units, rate) < units * rate + Denominator
<1> DEFINE D == Denominator
<1>1. D \in Nat \ {0}
  BY PriceConstants
<1>2. CASE units = 0 \/ rate = 0
  BY <1>1, <1>2 DEF PriceDimension
<1>3. CASE ~(units = 0 \/ rate = 0)
  <2> DEFINE x == units * rate + D - 1
             q == x \div D
  <2>1. x \in Nat /\ PriceDimension(units, rate) = q
    BY <1>1, <1>3 DEF PriceDimension
  <2>2. q \in Nat /\ D * q <= x /\ x < D * q + D
    <3> HIDE DEF x, D
    <3> QED BY <1>1, <2>1
  <2>3. units * rate \in Nat
    OBVIOUS
  <2> HIDE DEF q
  <2> QED BY <1>1, <2>1, <2>2, <2>3
<1> QED
  BY <1>2, <1>3

\* The same for the tokens of a call.
LEMMA TokensArePriced ==
  ASSUME NEW r \in RateRecord, NEW input \in Nat, NEW cached \in 0..input, NEW output \in Nat
  PROVE  /\ PriceTokens(r, input, cached, output) \in Nat
         /\ PriceTokens(r, input, cached, output) =
              r.fixed + PriceDimension(input - cached, r.input)
                      + PriceDimension(cached, r.cached) + PriceDimension(output, r.output)
<1>1. /\ r.fixed \in Nat /\ r.input \in Nat /\ r.cached \in Nat /\ r.output \in Nat
      /\ input - cached \in Nat /\ cached \in Nat
  BY DEF RateRecord
<1>2. /\ PriceDimension(input - cached, r.input) \in Nat
      /\ PriceDimension(cached, r.cached) \in Nat
      /\ PriceDimension(output, r.output) \in Nat
  BY <1>1, DimensionIsRoundedUp
<1> QED
  BY <1>1, <1>2 DEF PriceTokens

\* More units cost no less.
LEMMA DimensionIsMonotone ==
  ASSUME NEW m \in Nat, NEW n \in Nat, m <= n, NEW rate \in Nat
  PROVE  PriceDimension(m, rate) <= PriceDimension(n, rate)
<1> DEFINE P == PriceDimension(m, rate)
           Q == PriceDimension(n, rate)
           D == Denominator
<1>1. /\ P \in Nat /\ Q \in Nat /\ D \in Nat \ {0}
      /\ D * P < m * rate + D /\ n * rate <= D * Q
  BY DimensionIsRoundedUp, PriceConstants
<1>2. m * rate <= n * rate /\ m * rate \in Nat /\ n * rate \in Nat
  OBVIOUS
<1>3. D * P < D * Q + D
  <2> HIDE DEF P, Q, D
  <2>1. D * P \in Nat /\ D * Q \in Nat
    BY <1>1
  <2> QED BY <1>1, <1>2, <2>1
<1>4. P < Q + 1
  <2> HIDE DEF P, Q, D
  <2>1. D * (Q + 1) = D * Q + D
    BY <1>1
  <2>2. SUFFICES ASSUME P >= Q + 1 PROVE FALSE
    BY <1>1
  <2>3. D * P >= D * (Q + 1)
    BY <1>1, <2>2
  <2>4. D * P \in Nat /\ D * Q \in Nat
    BY <1>1
  <2> QED BY <1>1, <1>3, <2>1, <2>3, <2>4
<1> QED
  BY <1>1, <1>4

\* Some of the tokens were cached, and cached ones are no dearer: separate
\* rounding costs one at most.
LEMMA CachingCostsOneAtMost ==
  ASSUME NEW asked \in Nat, NEW input \in 0..asked, NEW cached \in 0..input,
         NEW rate \in Nat, NEW low \in Nat, low <= rate
  PROVE  PriceDimension(input - cached, rate) + PriceDimension(cached, low)
           <= PriceDimension(asked, rate) + 1
<1> DEFINE D == Denominator
           P == PriceDimension(asked, rate)
           U == PriceDimension(input - cached, rate)
           C == PriceDimension(cached, low)
           u == (input - cached) * rate
           c == cached * low
           p == asked * rate
<1>1. input - cached \in Nat /\ cached \in Nat /\ input \in Nat
  OBVIOUS
<1>2. /\ P \in Nat /\ U \in Nat /\ C \in Nat /\ D \in Nat \ {0}
      /\ p <= D * P /\ D * U < u + D /\ D * C < c + D
  BY <1>1, DimensionIsRoundedUp, PriceConstants
<1>3. u \in Nat /\ c \in Nat /\ p \in Nat /\ u + c <= p
  <2>1. c <= cached * rate
    BY <1>1
  <2>2. u + cached * rate = input * rate
    BY <1>1
  <2>3. input * rate <= p
    BY <1>1
  <2>4. u \in Nat /\ c \in Nat /\ p \in Nat /\ cached * rate \in Nat /\ input * rate \in Nat
    BY <1>1
  <2> HIDE DEF u, c, p
  <2> QED BY <2>1, <2>2, <2>3, <2>4
<1> HIDE DEF D, P, U, C, u, c, p
<1>4. D * P \in Nat /\ D * U \in Nat /\ D * C \in Nat
  BY <1>2
<1>5. D * U + D * C < D * P + D + D
  BY <1>2, <1>3, <1>4
<1>6. U + C < P + 2
  <2>1. SUFFICES ASSUME U + C >= P + 2 PROVE FALSE
    BY <1>2
  <2>2. D * (U + C) >= D * (P + 2)
    BY <1>2, <2>1
  <2>3. D * (U + C) = D * U + D * C /\ D * (P + 2) = D * P + D + D
    BY <1>2
  <2> QED BY <1>2, <1>4, <1>5, <2>2, <2>3
<1>7. U + C <= P + 1
  BY <1>2, <1>6
<1> QED
  BY <1>7 DEF P, U, C

\* The greatest enabled rate is that of an enabled tool and above the others.
LEMMA GreatestRateCovers ==
  ASSUME NEW r \in RateRecord, NEW tools \in SUBSET Builtins, tools # {}, NEW calls \in Nat
  PROVE  \E top \in Nat : /\ PriceBuiltinQuote(r, tools, calls) = calls * top
                          /\ "web" \in tools => r.web <= top
                          /\ "file" \in tools => r.file <= top
<1> DEFINE rate == [t \in Builtins |-> IF t = "web" THEN r.web ELSE r.file]
           Top(x) == \A t \in tools : rate[t] <= x
           top == CHOOSE x \in {rate[t] : t \in tools} : Top(x)
<1>1. rate \in [Builtins -> Nat] /\ rate["web"] = r.web /\ rate["file"] = r.file
  BY DEF RateRecord, Builtins
<1>2. \A t \in tools : t = "web" \/ t = "file"
  BY DEF Builtins
<1>3. \E x \in {rate[t] : t \in tools} : Top(x)
  <2> HIDE DEF rate
  <2>1. PICK t \in tools : TRUE
    OBVIOUS
  <2>2. rate["web"] \in Nat /\ rate["file"] \in Nat
    BY <1>1 DEF Builtins
  <2>3. CASE "web" \in tools /\ "file" \in tools
    <3>1. CASE rate["web"] <= rate["file"]
      BY <1>2, <2>2, <2>3, <3>1
    <3>2. CASE ~(rate["web"] <= rate["file"])
      BY <1>2, <2>2, <2>3, <3>2
    <3> QED BY <3>1, <3>2
  <2>4. CASE ~("web" \in tools /\ "file" \in tools)
    <3>1. \A s \in tools : s = t
      BY <1>2, <2>4
    <3>2. rate[t] <= rate[t]
      BY <1>2, <2>1, <2>2
    <3> QED BY <2>1, <3>1, <3>2
  <2> QED BY <2>3, <2>4
<1>4. top \in {rate[t] : t \in tools} /\ Top(top)
  BY <1>3
<1>5. PriceBuiltinQuote(r, tools, calls) = calls * top
  BY DEF PriceBuiltinQuote
<1> HIDE DEF top
<1>6. top \in Nat
  <2> HIDE DEF rate
  <2> QED BY <1>1, <1>4
<1> QED
  BY <1>1, <1>4, <1>5, <1>6

\* A call that kept to its ceilings pays no more for built-in tools than quoted.
LEMMA BuiltinsAreCovered ==
  ASSUME NEW r \in RateRecord, NEW tools \in SUBSET Builtins, NEW calls \in Nat,
         tools = {} <=> calls = 0,
         NEW web \in 0..calls, NEW file \in 0..calls, web + file <= calls,
         web > 0 => "web" \in tools, file > 0 => "file" \in tools
  PROVE  /\ PriceBuiltinQuote(r, tools, calls) \in Nat
         /\ PriceBuiltinActual(r, web, file) \in Nat
         /\ PriceBuiltinActual(r, web, file) <= PriceBuiltinQuote(r, tools, calls)
<1>1. r.web \in Nat /\ r.file \in Nat /\ web \in Nat /\ file \in Nat
  BY DEF RateRecord
<1>2. PriceBuiltinActual(r, web, file) = web * r.web + file * r.file
  BY DEF PriceBuiltinActual
<1>3. CASE tools = {}
  <2>1. PriceBuiltinQuote(r, tools, calls) = 0
    BY <1>3 DEF PriceBuiltinQuote
  <2>2. web = 0 /\ file = 0
    BY <1>3
  <2> QED BY <1>1, <1>2, <2>1, <2>2
<1>4. CASE tools # {}
  <2>1. PICK top \in Nat : /\ PriceBuiltinQuote(r, tools, calls) = calls * top
                           /\ "web" \in tools => r.web <= top
                           /\ "file" \in tools => r.file <= top
    BY <1>4, GreatestRateCovers
  <2>2. web * r.web <= web * top
    BY <1>1, <2>1
  <2>3. file * r.file <= file * top
    BY <1>1, <2>1
  <2>4. web * top + file * top = (web + file) * top
    BY <1>1
  <2>5. (web + file) * top <= calls * top
    BY <1>1
  <2>6. /\ web * r.web \in Nat /\ file * r.file \in Nat /\ web * top \in Nat
        /\ file * top \in Nat /\ (web + file) * top \in Nat /\ calls * top \in Nat
    BY <1>1
  <2> QED BY <1>2, <2>1, <2>2, <2>3, <2>4, <2>5, <2>6
<1> QED
  BY <1>3, <1>4

\* A quote is what quote computes under a version of the catalog.
QuoteFits ==
    /\ quote.version \in 1..Len(catalog)
    /\ quote.input \in Nat /\ quote.output \in Nat
    /\ quote.tools \in SUBSET Builtins /\ quote.calls \in Nat
    /\ quote.tools = {} <=> quote.calls = 0
    /\ quote.cost <= MaxCost
    /\ quote.cost = PriceTokens(catalog[quote.version], quote.input, 0, quote.output)
                    + PriceBuiltinQuote(catalog[quote.version], quote.tools, quote.calls)

\* What is quoted was priced at the rates that the call froze.
PriceInv ==
    /\ catalog \in Seq(RateRecord) /\ Len(catalog) <= MaximumVersions
    /\ \A n \in 1..Len(catalog) : catalog[n].cached <= catalog[n].input
    /\ quote = NoQuote \/ QuoteFits
    /\ settled \in 0..NoCost
    /\ settled # NoCost => quote # NoQuote
    /\ SettledWithinRounding

\* What a quote is, whichever rates it was priced at.
LEMMA QuoteIsPriced ==
  ASSUME PriceInv, quote # NoQuote
  PROVE  /\ QuoteFits /\ catalog[quote.version] \in RateRecord
         /\ quote.cost \in Nat
         /\ PriceTokens(catalog[quote.version], quote.input, 0, quote.output) \in Nat
         /\ PriceBuiltinQuote(catalog[quote.version], quote.tools, quote.calls) \in Nat
<1>1. QuoteFits /\ catalog[quote.version] \in RateRecord
  BY DEF PriceInv, QuoteFits
<1>2. PriceTokens(catalog[quote.version], quote.input, 0, quote.output) \in Nat
  <2>1. quote.input \in Nat /\ quote.output \in Nat /\ 0 \in 0..quote.input
    BY <1>1 DEF QuoteFits
  <2> QED BY <1>1, <2>1, TokensArePriced
<1>3. PriceBuiltinQuote(catalog[quote.version], quote.tools, quote.calls) \in Nat
  <2>1. 0 \in 0..quote.calls /\ 0 + 0 <= quote.calls /\ ~(0 > 0)
    BY <1>1 DEF QuoteFits
  <2> QED BY <1>1, <2>1, BuiltinsAreCovered DEF QuoteFits
<1> QED
  BY <1>1, <1>2, <1>3 DEF QuoteFits

\* No quote is below the exact price of its tokens.
LEMMA QuoteCovers == PriceInv => QuoteCoversTokens
<1> SUFFICES ASSUME PriceInv, quote # NoQuote PROVE QuoteCoversTokens
  BY DEF QuoteCoversTokens
<1> DEFINE r == catalog[quote.version]
           D == Denominator
           I == PriceDimension(quote.input, r.input)
           O == PriceDimension(quote.output, r.output)
           T == PriceTokens(r, quote.input, 0, quote.output)
<1>1. /\ QuoteFits /\ r \in RateRecord /\ quote.cost \in Nat /\ T \in Nat
      /\ quote.input \in Nat /\ quote.output \in Nat
      /\ T <= quote.cost
  BY QuoteIsPriced DEF QuoteFits
<1>2. T = r.fixed + I + O
  <2>1. /\ PriceDimension(0, r.cached) = 0 /\ quote.input - 0 = quote.input
        /\ 0 \in 0..quote.input
    BY <1>1 DEF PriceDimension
  <2>2. T = r.fixed + PriceDimension(quote.input - 0, r.input)
              + PriceDimension(0, r.cached) + O
    BY <1>1, <2>1, TokensArePriced
  <2>3. I \in Nat /\ O \in Nat /\ r.fixed \in Nat
    BY <1>1, DimensionIsRoundedUp DEF RateRecord
  <2> HIDE DEF T, O
  <2>4. T = r.fixed + I + 0 + O
    BY <2>1, <2>2
  <2> HIDE DEF I
  <2> QED BY <2>3, <2>4
<1>3. /\ I \in Nat /\ O \in Nat /\ r.fixed \in Nat /\ D \in Nat \ {0}
      /\ quote.input * r.input <= D * I /\ quote.output * r.output <= D * O
      /\ quote.input * r.input \in Nat /\ quote.output * r.output \in Nat
  <2>1. r.fixed \in Nat /\ r.input \in Nat /\ r.output \in Nat
    BY <1>1 DEF RateRecord
  <2>2. I \in Nat /\ quote.input * r.input <= D * I /\ quote.input * r.input \in Nat
    <3>1. quote.input \in Nat /\ r.input \in Nat
      BY <1>1, <2>1
    <3>2. I \in Nat /\ quote.input * r.input <= D * I
      BY ONLY <3>1, DimensionIsRoundedUp
    <3> QED BY ONLY <3>1, <3>2
  <2>3. O \in Nat /\ quote.output * r.output <= D * O /\ quote.output * r.output \in Nat
    <3>1. quote.output \in Nat /\ r.output \in Nat
      BY <1>1, <2>1
    <3>2. O \in Nat /\ quote.output * r.output <= D * O
      BY ONLY <3>1, DimensionIsRoundedUp
    <3> QED BY ONLY <3>1, <3>2
  <2> QED BY <2>1, <2>2, <2>3, PriceConstants
<1> HIDE DEF T, I, O, D
<1>4. T * D = r.fixed * D + D * I + D * O
  BY <1>2, <1>3
<1>5. T * D <= quote.cost * D
  BY <1>1, <1>3
<1>6. /\ r.fixed * D \in Nat /\ D * I \in Nat /\ D * O \in Nat
      /\ T * D \in Nat /\ quote.cost * D \in Nat
  BY <1>1, <1>3
<1>7. quote.cost * D >= r.fixed * D + quote.input * r.input + quote.output * r.output
  BY <1>3, <1>4, <1>5, <1>6
<1> QED
  BY <1>7 DEF QuoteCoversTokens, D

LEMMA PriceStepKeeps ==
  ASSUME PriceInv, PriceNext
  PROVE  PriceInv'
<1> USE PriceConstants
<1>1. CASE CreatePricingPolicy
  <2>1. PICK r \in Rates : /\ ValidRates(r) /\ Len(catalog) < MaximumVersions
                           /\ catalog' = Append(catalog, r)
    BY <1>1 DEF CreatePricingPolicy
  <2>2. quote' = quote /\ settled' = settled
    BY <1>1 DEF CreatePricingPolicy
  <2>3. /\ catalog \in Seq(RateRecord) /\ r \in RateRecord /\ Len(catalog) \in Nat
        /\ catalog' \in Seq(RateRecord) /\ Len(catalog') = Len(catalog) + 1
        /\ \A n \in 1..Len(catalog) : catalog'[n] = catalog[n]
        /\ catalog'[Len(catalog) + 1] = r
    BY <2>1 DEF PriceInv
  <2>4. \A n \in 1..Len(catalog') : catalog'[n].cached <= catalog'[n].input
    <3> SUFFICES ASSUME NEW n \in 1..Len(catalog')
                 PROVE  catalog'[n].cached <= catalog'[n].input
      OBVIOUS
    <3>1. n \in 1..Len(catalog) \/ n = Len(catalog) + 1
      BY <2>3
    <3>2. r.cached <= r.input
      BY <2>1 DEF ValidRates
    <3>3. \A m \in 1..Len(catalog) : catalog[m].cached <= catalog[m].input
      BY DEF PriceInv
    <3> QED BY <2>3, <3>1, <3>2, <3>3
  <2>5. Len(catalog') <= MaximumVersions
    BY <2>1, <2>3
  <2>6. QuoteFits => QuoteFits'
    <3> SUFFICES ASSUME QuoteFits PROVE QuoteFits'
      OBVIOUS
    <3>1. quote.version \in 1..Len(catalog) /\ quote.version \in 1..Len(catalog')
      BY <2>3 DEF QuoteFits
    <3>2. catalog'[quote.version] = catalog[quote.version]
      BY <2>3, <3>1
    <3> QED BY <2>2, <3>1, <3>2 DEF QuoteFits
  <2> QED BY <2>2, <2>3, <2>4, <2>5, <2>6 DEF PriceInv, SettledWithinRounding
<1>2. CASE Quote
  <2>1. PICK v \in 1..Len(catalog), input \in 0..MaxTokens, output \in 0..MaxTokens,
             tools \in SUBSET Builtins, calls \in 0..MaxCalls :
          /\ tools = {} <=> calls = 0
          /\ LET cost == PriceTokens(catalog[v], input, 0, output)
                         + PriceBuiltinQuote(catalog[v], tools, calls)
             IN /\ cost <= MaxCost
                /\ quote' = [version |-> v, input |-> input, output |-> output,
                             tools |-> tools, calls |-> calls, cost |-> cost]
    BY <1>2 DEF Quote
  <2>2. quote = NoQuote /\ UNCHANGED <<catalog, settled>>
    BY <1>2 DEF Quote
  <2>3. settled = NoCost
    BY <2>2 DEF PriceInv
  <2>4. QuoteFits'
    BY <2>1, <2>2 DEF QuoteFits
  <2> QED BY <2>2, <2>3, <2>4 DEF PriceInv, SettledWithinRounding
<1>3. CASE SettleCost
  <2>0. quote # NoQuote /\ settled = NoCost /\ UNCHANGED <<catalog, quote>>
    BY <1>3 DEF SettleCost
  <2> DEFINE r == catalog[quote.version]
  <2>1. /\ QuoteFits /\ r \in RateRecord /\ quote.cost \in Nat
        /\ PriceTokens(r, quote.input, 0, quote.output) \in Nat
        /\ PriceBuiltinQuote(r, quote.tools, quote.calls) \in Nat
        /\ quote.cost = PriceTokens(r, quote.input, 0, quote.output)
                        + PriceBuiltinQuote(r, quote.tools, quote.calls)
        /\ r.cached <= r.input
    <3>1. quote.version \in 1..Len(catalog)
      BY <2>0, QuoteIsPriced DEF QuoteFits
    <3> QED BY <2>0, <3>1, QuoteIsPriced DEF QuoteFits, PriceInv
  <2> DEFINE Reported(i, ca, o, w, f) ==
               /\ w + f <= quote.calls
               /\ w > 0 => "web" \in quote.tools
               /\ f > 0 => "file" \in quote.tools
               /\ PriceTokens(r, i, ca, o) + PriceBuiltinActual(r, w, f) <= MaxCost
               /\ settled' = PriceTokens(r, i, ca, o) + PriceBuiltinActual(r, w, f)
  <2>a. PICK input \in 0..quote.input, output \in 0..quote.output, web \in 0..quote.calls,
             file \in 0..quote.calls :
          \E ca \in 0..input : Reported(input, ca, output, web, file)
    BY <1>3 DEF SettleCost
  <2>2. PICK cached \in 0..input : Reported(input, cached, output, web, file)
    BY <2>a
  <2>3. /\ quote.input \in Nat /\ quote.output \in Nat /\ quote.calls \in Nat
        /\ quote.tools \in SUBSET Builtins /\ (quote.tools = {} <=> quote.calls = 0)
    BY <2>1 DEF QuoteFits
  <2> HIDE DEF r
  <2>4. /\ PriceBuiltinActual(r, web, file) \in Nat
        /\ PriceBuiltinActual(r, web, file) <= PriceBuiltinQuote(r, quote.tools, quote.calls)
    <3>1. /\ web + file <= quote.calls /\ (web > 0 => "web" \in quote.tools)
          /\ (file > 0 => "file" \in quote.tools)
      BY <2>2
    <3>2. r \in RateRecord
      BY <2>1
    <3> QED BY ONLY <2>3, <3>1, <3>2, BuiltinsAreCovered, web \in 0..quote.calls,
                    file \in 0..quote.calls
  <2>5. /\ PriceTokens(r, input, cached, output) \in Nat
        /\ PriceTokens(r, input, cached, output)
             <= PriceTokens(r, quote.input, 0, quote.output) + 1
    <3> DEFINE I == PriceDimension(input - cached, r.input)
               C == PriceDimension(cached, r.cached)
               O == PriceDimension(output, r.output)
               QI == PriceDimension(quote.input, r.input)
               QO == PriceDimension(quote.output, r.output)
    <3>1. /\ r.fixed \in Nat /\ r.input \in Nat /\ r.cached \in Nat /\ r.output \in Nat
          /\ r.cached <= r.input
          /\ input \in Nat /\ cached \in Nat /\ input - cached \in Nat /\ output \in Nat
          /\ output <= quote.output
      BY <2>1, <2>3 DEF RateRecord
    <3>2. /\ I \in Nat /\ C \in Nat /\ O \in Nat /\ QI \in Nat /\ QO \in Nat
      BY <2>3, <3>1, DimensionIsRoundedUp
    <3>3. I + C <= QI + 1
      BY <2>3, <3>1, CachingCostsOneAtMost
    <3>4. O <= QO
      BY <2>3, <3>1, DimensionIsMonotone
    <3>5. PriceTokens(r, input, cached, output) = r.fixed + I + C + O
      BY <2>1, <3>1, TokensArePriced
    <3>6. PriceTokens(r, quote.input, 0, quote.output) = r.fixed + QI + 0 + QO
      <4>1. /\ PriceDimension(0, r.cached) = 0 /\ quote.input - 0 = quote.input
            /\ 0 \in 0..quote.input
        BY <2>3 DEF PriceDimension
      <4>2. PriceTokens(r, quote.input, 0, quote.output) =
              r.fixed + PriceDimension(quote.input - 0, r.input)
                      + PriceDimension(0, r.cached) + QO
        <5>1. r \in RateRecord /\ quote.input \in Nat /\ quote.output \in Nat
          BY <2>1, <2>3
        <5> QED BY ONLY <4>1, <5>1, TokensArePriced
      <4> QED BY <4>1, <4>2
    <3> HIDE DEF I, C, O, QI, QO
    <3> QED BY <3>1, <3>2, <3>3, <3>4, <3>5, <3>6
  <2>6. settled' \in 0..NoCost /\ settled' <= quote.cost + 1
    BY <2>1, <2>2, <2>4, <2>5
  <2>7. QuoteFits'
    BY <2>0, <2>1 DEF QuoteFits
  <2> QED BY <2>0, <2>6, <2>7 DEF PriceInv, SettledWithinRounding
<1> QED
  BY <1>1, <1>2, <1>3 DEF PriceNext

LEMMA PriceInitHolds == PriceInit => PriceInv
BY PriceConstants DEF PriceInit, PriceInv, SettledWithinRounding

LEMMA PriceStutterKeeps ==
  ASSUME PriceInv, UNCHANGED priceVars
  PROVE  PriceInv'
BY DEF PriceInv, QuoteFits, SettledWithinRounding, priceVars

\* In every reachable state a call's quote is the price at its frozen rates
\* (pricing.rs: the quote is taken with the version that the call is settled by).
THEOREM PriceInvariance == Spec => []PriceInv
<1>1. Init => PriceInv
  BY PriceInitHolds DEF Init
<1>2. PriceInv /\ [Next]_confVars => PriceInv'
  <2> SUFFICES ASSUME PriceInv, [Next]_confVars PROVE PriceInv'
    OBVIOUS
  <2>1. PriceNext \/ UNCHANGED priceVars
    BY DEF Next, confVars
  <2> QED BY <2>1, PriceStepKeeps, PriceStutterKeeps
<1> QED
  BY <1>1, <1>2, PTL DEF Spec

\* The books are right whoever interleaves: a counter holds exactly what its
\* unsettled reservations estimate and its committed ones used, every
\* committed reservation has one usage fact, no quote is below the exact
\* price, and no settlement is more than a microunit above its quote.
THEOREM AccountsHold == Spec => []AccountsAreExact
<1>1. AccountInv => CountersBalance /\ UsageIsExact
  BY DEF AccountInv
<1>2. PriceInv => QuoteCoversTokens /\ SettledWithinRounding
  BY QuoteCovers DEF PriceInv
<1>3. AccountInv /\ PriceInv => AccountsAreExact
  BY <1>1, <1>2 DEF AccountsAreExact
<1> QED
  BY <1>3, AccountInvariance, PriceInvariance, PTL

-----------------------------------------------------------------------------
(***************************************************************************)
(* The bounds of the administered tables.  A row is written once for each  *)
(* edit, and the content policy once more when its migration is done; a    *)
(* budget policy is inserted only into a table with room.                  *)
(***************************************************************************)

\* A row's version is at most twice the number of edits, and an unfinished
\* content migration leaves room for the write that finishes it.
EditsFit ==
    /\ edits \in 0..MaxEdits
    /\ \A k \in RowKeys :
          /\ row[k].version <= edits + edits
          /\ row[k].version # 0 /\ ~row[k].flag => row[k].version + 1 <= edits + edits

CountsInv == PolInv /\ EditsFit /\ BudgetsFit

\* What a step does to the table: a row put by an edit, or the migration.
Writes(k, t, flag) ==
    row' = [row EXCEPT ![k] = [version |-> row[k].version + 1, text |-> t, flag |-> flag]]

\* A step of the policies writes at most one row, as the next version.
LEMMA EveryStepWritesOneRow ==
  ASSUME PolInv, PolNext
  PROVE  \/ UNCHANGED <<row, edits>>
         \/ row[ContentKey].version # 0 /\ ~row[ContentKey].flag /\ edits' = edits
            /\ \E t \in Text : Writes(ContentKey, t, TRUE)
         \/ \E k \in RowKeys, t \in Text, flag \in BOOLEAN :
               /\ edits < MaxEdits /\ edits' = edits + 1 /\ Writes(k, t, flag)
               /\ (\E i \in Slots : k = <<"budget", i>>) /\ row[k] = NoRow => BudgetHasRoom
<1> DEFINE Edit(k, t, flag) ==
             /\ edits < MaxEdits /\ edits' = edits + 1 /\ Writes(k, t, flag)
             /\ (\E i \in Slots : k = <<"budget", i>>) /\ row[k] = NoRow => BudgetHasRoom
           Goal == \/ UNCHANGED <<row, edits>>
                   \/ row[ContentKey].version # 0 /\ ~row[ContentKey].flag /\ edits' = edits
                      /\ \E t \in Text : Writes(ContentKey, t, TRUE)
                   \/ \E k \in RowKeys, t \in Text, flag \in BOOLEAN : Edit(k, t, flag)
<1> USE Keys
<1>0. ASSUME NEW e \in Editors, NEW k \in RowKeys, NEW t \in Text, NEW flag \in BOOLEAN,
             Put(e, k, t, flag),
             (\E i \in Slots : k = <<"budget", i>>) /\ row[k] = NoRow => BudgetHasRoom
      PROVE  Goal
  <2>1. Edit(k, t, flag)
    BY <1>0 DEF Put, Writes
  <2> HIDE DEF Edit
  <2> QED BY <2>1
<1> HIDE DEF Edit
<1>1. ASSUME NEW e \in Editors, NEW k \in RowKeys, Read(e, k)  PROVE Goal
  BY <1>1 DEF Read
<1>2. ASSUME NEW e \in Editors, SetContentPolicy(e)  PROVE Goal
  <2>1. PICK mode \in {"database", "application"} : Put(e, ContentKey, mode, mode = "database")
    BY <1>2 DEF SetContentPolicy, SetOne
  <2>2. mode \in Text /\ (mode = "database") \in BOOLEAN
    BY DEF Text
  <2>3. \A i \in Slots : ContentKey # <<"budget", i>>
    BY DEF ContentKey
  <2> QED BY <1>0, <2>1, <2>2, <2>3
<1>3. ASSUME NEW e \in Editors, SetRetentionPolicy(e)  PROVE Goal
  <2>1. PICK v \in {"short", "long"} : Put(e, RetentionKey, v, TRUE)
    BY <1>3 DEF SetRetentionPolicy, SetOne
  <2>2. v \in Text
    BY DEF Text
  <2>3. \A i \in Slots : RetentionKey # <<"budget", i>>
    BY DEF RetentionKey
  <2> QED BY <1>0, <2>1, <2>2, <2>3
<1>4. ASSUME NEW e \in Editors, InsertBudget(e)  PROVE Goal
  <2>1. PICK v \in {"low", "high"} : Put(e, <<"budget", FreeSlot("budget")>>, v, TRUE)
    BY <1>4 DEF InsertBudget
  <2>2. FreeSlot("budget") \in Slots /\ BudgetHasRoom
    BY <1>4, BudgetSlotIsFree DEF InsertBudget
  <2>3. v \in Text /\ <<"budget", FreeSlot("budget")>> \in RowKeys
    BY <2>2 DEF Text
  <2> QED BY <1>0, <2>1, <2>2, <2>3
<1>5. ASSUME NEW e \in Editors, UpdateBudget(e)  PROVE Goal
  <2>1. PICK i \in Rows("budget"), v \in {"low", "high"} : Put(e, <<"budget", i>>, v, TRUE)
    BY <1>5 DEF UpdateBudget
  <2>2. v \in Text /\ <<"budget", i>> \in RowKeys /\ row[<<"budget", i>>] # NoRow
    BY DEF Text, Rows
  <2> QED BY <1>0, <2>1, <2>2
<1>6. ASSUME NEW e \in Editors, InsertSkill(e)  PROVE Goal
  <2>1. Put(e, <<"skill", FreeSlot("skill")>>, NoVersion, FALSE)
    BY <1>6 DEF InsertSkill
  <2>2. FreeSlot("skill") \in Slots
    BY <1>6, SkillSlotIsFree DEF InsertSkill
  <2>3. /\ NoVersion \in Text /\ <<"skill", FreeSlot("skill")>> \in RowKeys
        /\ \A i \in Slots : <<"skill", FreeSlot("skill")>> # <<"budget", i>>
    BY <2>2 DEF Text
  <2> QED BY <1>0, <2>1, <2>3
<1>7. ASSUME NEW e \in Editors, RenameSkill(e) \/ SetEnabled(e)  PROVE Goal
  <2>1. \A i \in Rows("skill") :
          /\ i \in Slots /\ <<"skill", i>> \in RowKeys
          /\ row[<<"skill", i>>].text \in Text /\ row[<<"skill", i>>].flag \in BOOLEAN
          /\ \A j \in Slots : <<"skill", i>> # <<"budget", j>>
    <3> SUFFICES ASSUME NEW i \in Rows("skill")
                 PROVE  /\ i \in Slots /\ <<"skill", i>> \in RowKeys
                        /\ row[<<"skill", i>>].text \in Text /\ row[<<"skill", i>>].flag \in BOOLEAN
                        /\ \A j \in Slots : <<"skill", i>> # <<"budget", j>>
      OBVIOUS
    <3>1. i \in Slots /\ <<"skill", i>> \in RowKeys
      BY DEF Rows
    <3>2. row[<<"skill", i>>].text \in Text /\ row[<<"skill", i>>].flag \in BOOLEAN
      BY <3>1 DEF PolInv, PolTypes, StoredRow
    <3> QED BY <3>1, <3>2
  <2>2. CASE RenameSkill(e)
    <3>1. PICK i \in Rows("skill") :
            Put(e, <<"skill", i>>, row[<<"skill", i>>].text, row[<<"skill", i>>].flag)
      BY <2>2 DEF RenameSkill
    <3> QED BY <1>0, <2>1, <3>1
  <2>3. CASE SetEnabled(e)
    <3>1. PICK i \in Rows("skill"), on \in BOOLEAN :
            Put(e, <<"skill", i>>, row[<<"skill", i>>].text, on)
      BY <2>3 DEF SetEnabled
    <3> QED BY <1>0, <2>1, <3>1
  <2> QED BY <1>7, <2>2, <2>3
<1>8. ASSUME NEW e \in Editors, CommitVersion(e)  PROVE Goal
  <2> DEFINE i == publishing[e].skill
  <2>1. PICK label \in Labels, on \in BOOLEAN : Put(e, <<"skill", i>>, label, on)
    BY <1>8 DEF CommitVersion
  <2>2. i \in Slots /\ label \in Text
    BY DEF PolInv, PolTypes, Publication, Text
  <2>3. <<"skill", i>> \in RowKeys /\ \A j \in Slots : <<"skill", i>> # <<"budget", j>>
    BY <2>2
  <2> QED BY <1>0, <2>1, <2>2, <2>3
<1>9. ASSUME NEW e \in Editors, Prepare(e) \/ PublishConflicts(e)  PROVE Goal
  BY <1>9 DEF Prepare, PublishConflicts
<1>10. ASSUME MigrationIsDone  PROVE Goal
  <2>1. /\ row[ContentKey] # NoRow /\ ~row[ContentKey].flag /\ edits' = edits
        /\ row' = [row EXCEPT ![ContentKey] =
             [version |-> row[ContentKey].version + 1, text |-> row[ContentKey].text,
              flag |-> TRUE]]
    BY <1>10 DEF MigrationIsDone, PolInv, PolTypes
  <2>2. row[ContentKey].version # 0 /\ row[ContentKey].text \in Text
    BY <2>1 DEF PolInv, PolTypes, StoredRow
  <2>3. Writes(ContentKey, row[ContentKey].text, TRUE)
    BY <2>1 DEF Writes
  <2> QED BY <2>1, <2>2, <2>3
<1>11. Goal
  BY <1>1, <1>2, <1>3, <1>4, <1>5, <1>6, <1>7, <1>8, <1>9, <1>10 DEF PolNext
<1> QED
  BY <1>11 DEF Edit

\* Such a write keeps the bound, when it counts as an edit or ends a migration.
LEMMA WriteCounts ==
  ASSUME CountsInv, NEW k \in RowKeys, NEW t \in Text, NEW flag \in BOOLEAN, Writes(k, t, flag),
         edits' \in 0..MaxEdits, edits <= edits',
         row[k].version + 1 <= edits' + edits',
         ~flag => row[k].version + 2 <= edits' + edits',
         (\E i \in Slots : k = <<"budget", i>>) /\ row[k] = NoRow => BudgetHasRoom
  PROVE  EditsFit' /\ BudgetsFit'
<1> DEFINE new == [version |-> row[k].version + 1, text |-> t, flag |-> flag]
<1>1. /\ row \in [RowKeys -> StoredRow] /\ row[k].version \in Nat /\ edits \in 0..MaxEdits
      /\ \A l \in RowKeys : row[l].version \in Nat
      /\ MaxEdits \in Nat /\ MaximumPolicies \in Nat
  BY PolConstants DEF CountsInv, PolInv, PolTypes, EditsFit, StoredRow
<1>2. /\ \A l \in RowKeys : row'[l] = IF l = k THEN new ELSE row[l]
      /\ new.version = row[k].version + 1 /\ new.flag = flag /\ new # NoRow
  BY <1>1 DEF Writes, NoRow
<1> HIDE DEF new
<1>3. EditsFit'
  <2> SUFFICES ASSUME NEW l \in RowKeys
               PROVE  /\ row'[l].version <= edits' + edits'
                      /\ row'[l].version # 0 /\ ~row'[l].flag =>
                            row'[l].version + 1 <= edits' + edits'
    BY DEF EditsFit
  <2>1. CASE l = k
    BY <1>1, <1>2, <2>1
  <2>2. CASE l # k
    <3>1. row'[l] = row[l]
      BY <1>2, <2>2
    <3>2. /\ row[l].version <= edits + edits
          /\ row[l].version # 0 /\ ~row[l].flag => row[l].version + 1 <= edits + edits
      BY DEF CountsInv, EditsFit
    <3> QED BY <1>1, <3>1, <3>2
  <2> QED BY <2>1, <2>2
<1>4. BudgetsFit'
  <2> DEFINE B == Rows("budget")
             C == {i \in Slots : row'[<<"budget", i>>] # NoRow}
  <2>1. IsFiniteSet(Slots)
    <3>1. 1 \in Int /\ ListLimit + 1 \in Int
      BY PolConstants
    <3> QED BY <3>1, FS_Interval DEF Slots
  <2>2. IsFiniteSet(B) /\ Cardinality(B) <= MaximumPolicies
    <3>1. B \subseteq Slots
      BY DEF Rows
    <3> QED BY <2>1, <3>1, FS_Subset DEF CountsInv, BudgetsFit
  <2>3. \A i \in Slots : <<"budget", i>> \in RowKeys
    BY Keys
  <2>4. CASE \E i \in Slots : k = <<"budget", i>>
    <3>1. PICK i \in Slots : k = <<"budget", i>>
      BY <2>4
    <3>2. C = B \cup {i}
      BY <1>2, <2>3, <3>1 DEF Rows
    <3>3. CASE row[k] = NoRow
      <4>1. Cardinality(B) < MaximumPolicies
        BY <2>4, <3>1, <3>3 DEF BudgetHasRoom
      <4>2. i \notin B
        BY <3>1, <3>3 DEF Rows
      <4> HIDE DEF B, C
      <4>3. Cardinality(B \cup {i}) = Cardinality(B) + 1 /\ Cardinality(B) \in Nat
        BY ONLY <2>2, <4>2, FS_AddElement, FS_CardinalityType
      <4>4. Cardinality(C) <= MaximumPolicies
        BY <1>1, <3>2, <4>1, <4>3
      <4> USE DEF B, C
      <4> QED BY <4>4 DEF BudgetsFit, Rows
    <3>4. CASE row[k] # NoRow
      <4>1. i \in B
        BY <3>1, <3>4 DEF Rows
      <4>2. C = B
        BY <3>2, <4>1
      <4> QED BY <2>2, <4>2 DEF BudgetsFit, Rows
    <3> QED BY <3>3, <3>4
  <2>5. CASE ~ \E i \in Slots : k = <<"budget", i>>
    <3>1. C = B
      BY <1>2, <2>3, <2>5 DEF Rows
    <3> QED BY <2>2, <3>1 DEF BudgetsFit, Rows
  <2> QED BY <2>4, <2>5
<1> QED
  BY <1>3, <1>4

LEMMA CountsStepKeeps ==
  ASSUME CountsInv, PolNext
  PROVE  CountsInv'
<1>1. PolInv /\ PolInv'
  BY PolStepKeeps DEF CountsInv
<1>2. /\ edits \in 0..MaxEdits /\ MaxEdits \in Nat
      /\ \A k \in RowKeys :
            /\ row[k].version \in Nat /\ row[k].version <= edits + edits
            /\ row[k].version # 0 /\ ~row[k].flag => row[k].version + 1 <= edits + edits
  BY PolConstants DEF CountsInv, EditsFit, PolInv, PolTypes, StoredRow
<1>3. EditsFit' /\ BudgetsFit'
  <2>1. CASE UNCHANGED <<row, edits>>
    BY <2>1 DEF CountsInv, EditsFit, BudgetsFit, Rows
  <2>2. CASE row[ContentKey].version # 0 /\ ~row[ContentKey].flag /\ edits' = edits
             /\ \E t \in Text : Writes(ContentKey, t, TRUE)
    <3>1. PICK t \in Text : Writes(ContentKey, t, TRUE)
      BY <2>2
    <3>2. ContentKey \in RowKeys /\ \A i \in Slots : ContentKey # <<"budget", i>>
      BY Keys DEF ContentKey
    <3>3. row[ContentKey].version + 1 <= edits' + edits' /\ edits <= edits' /\ edits' \in 0..MaxEdits
      BY <1>2, <2>2, <3>2
    <3> QED BY <3>1, <3>2, <3>3, WriteCounts
  <2>3. ASSUME NEW k \in RowKeys, NEW t \in Text, NEW flag \in BOOLEAN,
               edits < MaxEdits, edits' = edits + 1, Writes(k, t, flag),
               (\E i \in Slots : k = <<"budget", i>>) /\ row[k] = NoRow => BudgetHasRoom
        PROVE  EditsFit' /\ BudgetsFit'
    <3>1. /\ row[k].version + 1 <= edits' + edits' /\ row[k].version + 2 <= edits' + edits'
          /\ edits <= edits' /\ edits' \in 0..MaxEdits
      BY <1>2, <2>3
    <3> QED BY <2>3, <3>1, WriteCounts
  <2> QED BY <1>1, <2>1, <2>2, <2>3, EveryStepWritesOneRow
<1> QED
  BY <1>1, <1>3 DEF CountsInv

LEMMA CountsInitHolds == PolInit => CountsInv
<1> SUFFICES ASSUME PolInit PROVE CountsInv
  OBVIOUS
<1>1. edits = 0 /\ \A k \in RowKeys : row[k] = NoRow /\ NoRow.version = 0
  BY DEF PolInit, NoRow
<1>2. EditsFit
  BY <1>1, PolConstants DEF EditsFit
<1>3. BudgetsFit
  <2>1. Rows("budget") = {}
    BY <1>1, Keys DEF Rows
  <2> QED BY <2>1, FS_EmptySet, PolConstants DEF BudgetsFit
<1> QED
  BY <1>2, <1>3, PolInitHolds DEF CountsInv

LEMMA CountsStutterKeeps ==
  ASSUME CountsInv, UNCHANGED polVars
  PROVE  CountsInv'
<1>1. PolInv'
  BY PolStutterKeeps DEF CountsInv
<1> QED
  BY <1>1 DEF CountsInv, EditsFit, BudgetsFit, Rows, polVars

\* In every reachable state the administered rows are within their version bound
\* and the budget policies within their table (orm_budget.rs refuses the insert).
THEOREM CountsInvariance == Spec => []CountsInv
<1>1. Init => CountsInv
  BY CountsInitHolds DEF Init
<1>2. CountsInv /\ [Next]_confVars => CountsInv'
  <2> SUFFICES ASSUME CountsInv, [Next]_confVars PROVE CountsInv'
    OBVIOUS
  <2>1. PolNext \/ UNCHANGED polVars
    BY DEF Next, confVars
  <2> QED BY <2>1, CountsStepKeeps, CountsStutterKeeps
<1> QED
  BY <1>1, <1>2, PTL DEF Spec

\* The types of the parts follow from their invariants.
LEMMA CredTypesHold == CredInv => CredTypeOK
<1> SUFFICES ASSUME CredInv PROVE CredTypeOK
  OBVIOUS
<1>1. profile = NoProfile \/ profile.version > 0
  BY CredConstants DEF CredInv, CredTypes
<1> QED
  BY <1>1 DEF CredInv, CredTypes, CredTypeOK, FreeIsUnused, Named, Secret, Cleanup

\* Hence the types that the runs check, here and for the prices.
LEMMA PolTypesHold == CountsInv => PolTypeOK
<1> SUFFICES ASSUME CountsInv PROVE PolTypeOK
  OBVIOUS
<1>1. \A k \in RowKeys : /\ row[k].version \in 0..(2 * MaxEdits)
                         /\ row[k] = NoRow <=> row[k].version = 0
  BY PolConstants DEF CountsInv, PolInv, PolTypes, StoredRow, EditsFit
<1>2. \A e \in Editors : view[e].row.version <= row[view[e].key].version
  BY DEF CountsInv, PolInv, ViewsFit, ReadOf
<1> QED
  BY <1>1, <1>2 DEF PolTypeOK, CountsInv, BudgetsFit

LEMMA PriceTypesHold == PriceInv => PriceTypeOK
BY DEF PriceInv, QuoteFits, PriceTypeOK

-----------------------------------------------------------------------------
(***************************************************************************)
(* Rules.  The effective constraints are narrowed layer by layer, so what  *)
(* they permit every layer and the ceiling permit.  Between the two passes *)
(* of a resolution there is a moment at which the principal was valid and  *)
(* every layer was at the version both passes read: the layers only grow   *)
(* in version, and a version names one content.                            *)
(***************************************************************************)

\* The bounds of the instance; no set of tools is the mark for every tool.
LEMMA RuleConstants ==
  /\ Depth \in Nat \ {0} /\ MaxRuleWrites \in Nat /\ MaxUsage \in Nat /\ Unlimited \in Nat
  /\ Ceiling \in Constraint /\ Inputs \subseteq Constraint
  /\ EveryTool \notin SUBSET Tools
<1>1. MaxUsage \in Nat
  BY RulesAssumption
<1>2. Unlimited \in Nat
  BY ONLY <1>1 DEF Unlimited
<1> QED
  BY <1>1, <1>2, RulesAssumption DEF EveryTool

\* Narrowing stays within the constraints and permits what both permit.
LEMMA NarrowPermits ==
  ASSUME NEW a \in Constraint, NEW b \in Constraint
  PROVE  /\ Narrow(a, b) \in Constraint
         /\ \A tool \in Tools, n \in Nat :
               Permits(Narrow(a, b), tool, n) => Permits(a, tool, n) /\ Permits(b, tool, n)
<1>1. /\ a.enabled \in BOOLEAN /\ b.enabled \in BOOLEAN
      /\ a.tools \in (SUBSET Tools) \cup {EveryTool} /\ b.tools \in (SUBSET Tools) \cup {EveryTool}
      /\ a.limit \in 0..Unlimited /\ b.limit \in 0..Unlimited /\ Unlimited \in Nat
  BY RuleConstants DEF Constraint
<1>2. MeetTools(a.tools, b.tools) \in (SUBSET Tools) \cup {EveryTool}
  BY <1>1 DEF MeetTools
<1>3. Lower(a.limit, b.limit) \in 0..Unlimited
  BY <1>1 DEF Lower
<1>4. (a.enabled /\ b.enabled) \in BOOLEAN
  BY <1>1
<1>5. Narrow(a, b) \in Constraint
  BY <1>2, <1>3, <1>4 DEF Narrow, Constraint
<1>6. ASSUME NEW tool \in Tools, NEW n \in Nat, Permits(Narrow(a, b), tool, n)
      PROVE  Permits(a, tool, n) /\ Permits(b, tool, n)
  <2>1. /\ a.enabled /\ b.enabled
        /\ MeetTools(a.tools, b.tools) = EveryTool \/ tool \in MeetTools(a.tools, b.tools)
        /\ n <= Lower(a.limit, b.limit)
    BY <1>6 DEF Permits, Narrow
  <2>2. n <= a.limit /\ n <= b.limit
    BY <1>1, <2>1 DEF Lower
  <2>3. /\ a.tools = EveryTool \/ tool \in a.tools
        /\ b.tools = EveryTool \/ tool \in b.tools
    <3>1. CASE a.tools = EveryTool
      BY <2>1, <3>1 DEF MeetTools
    <3>2. CASE b.tools = EveryTool
      BY <2>1, <3>2 DEF MeetTools
    <3>3. CASE a.tools # EveryTool /\ b.tools # EveryTool
      <4>1. MeetTools(a.tools, b.tools) = a.tools \cap b.tools
        BY <3>3 DEF MeetTools
      <4>2. a.tools \cap b.tools \in SUBSET Tools
        BY <1>1, <3>3
      <4> QED BY <2>1, <4>1, <4>2, RuleConstants
    <3> QED BY <3>1, <3>2, <3>3
  <2> QED BY <2>1, <2>2, <2>3 DEF Permits
<1> QED
  BY <1>5, <1>6

\* The function that Effective narrows with exists: one layer after another.
Narrows(f, lineage, d) ==
    f = [n \in 0..d |-> IF n = 0 THEN Ceiling ELSE Narrow(f[n - 1], lineage[n].value)]

\* Effective is such a function's value at the last layer.
LEMMA EffectiveNarrows ==
  ASSUME NEW lineage
  PROVE  \E f : Narrows(f, lineage, Depth) /\ Effective(lineage) = f[Depth]
<1> DEFINE Next1(g, n) == IF n = 0 THEN Ceiling ELSE Narrow(g[n - 1], lineage[n].value)
           G == {d \in Nat : \E f : f = [n \in 0..d |-> Next1(f, n)]}
<1>1. 0 \in G
  <2> DEFINE f == [n \in 0..0 |-> Ceiling]
  <2>1. f = [n \in 0..0 |-> Next1(f, n)]
    OBVIOUS
  <2> HIDE DEF Next1, f
  <2> QED BY <2>1
<1>2. ASSUME NEW d \in Nat, d \in G PROVE d + 1 \in G
  <2>1. PICK f : f = [n \in 0..d |-> Next1(f, n)]
    BY <1>2
  <2> DEFINE h == [n \in 0..(d + 1) |-> Next1(f, n)]
  <2> HIDE DEF Next1
  <2>2. \A n \in 0..d : h[n] = f[n]
    BY <2>1
  <2>3. \A n \in 0..(d + 1) : Next1(h, n) = Next1(f, n)
    <3> SUFFICES ASSUME NEW n \in 0..(d + 1) PROVE Next1(h, n) = Next1(f, n)
      OBVIOUS
    <3> HIDE DEF h
    <3>1. CASE n = 0
      BY <3>1 DEF Next1
    <3>2. CASE n # 0
      <4>1. n - 1 \in 0..d
        BY <3>2
      <4>2. h[n - 1] = f[n - 1]
        BY <2>2, <4>1
      <4> QED BY <3>2, <4>2 DEF Next1
    <3> QED BY <3>1, <3>2
  <2>4. h = [n \in 0..(d + 1) |-> Next1(h, n)]
    BY <2>3
  <2> HIDE DEF h
  <2> QED BY <2>4
<1>3. Depth \in G
  <2> HIDE DEF G
  <2> QED BY <1>1, <1>2, NumberInduction, RuleConstants
<1> DEFINE upto == CHOOSE f : f = [n \in 0..Depth |-> Next1(f, n)]
<1>4. upto = [n \in 0..Depth |-> Next1(upto, n)]
  <2> HIDE DEF Next1
  <2> QED BY <1>3
<1>5. Effective(lineage) = upto[Depth]
  BY DEF Effective
<1> HIDE DEF upto
<1>6. Narrows(upto, lineage, Depth)
  BY <1>4 DEF Narrows
<1> QED
  BY <1>5, <1>6

\* What the effective constraints permit, the ceiling and every layer permit.
LEMMA EffectiveIsNarrow ==
  ASSUME NEW lineage, \A l \in 1..Depth : lineage[l].value \in Constraint
  PROVE  /\ Effective(lineage) \in Constraint
         /\ \A tool \in Tools, n \in Nat :
               Permits(Effective(lineage), tool, n) =>
                 /\ Permits(Ceiling, tool, n)
                 /\ \A l \in 1..Depth : Permits(lineage[l].value, tool, n)
<1>1. PICK f : Narrows(f, lineage, Depth) /\ Effective(lineage) = f[Depth]
  BY EffectiveNarrows
<1>2. /\ f[0] = Ceiling
      /\ \A d \in 1..Depth : f[d] = Narrow(f[d - 1], lineage[d].value)
  <2>1. f = [n \in 0..Depth |-> IF n = 0 THEN Ceiling ELSE Narrow(f[n - 1], lineage[n].value)]
    BY <1>1 DEF Narrows
  <2>2. \A n \in 0..Depth : f[n] = IF n = 0 THEN Ceiling ELSE Narrow(f[n - 1], lineage[n].value)
    BY ONLY <2>1, Zenon
  <2>3. Depth \in Nat /\ 0 \in 0..Depth /\ \A d \in 1..Depth : d \in 0..Depth /\ d # 0
    BY RuleConstants
  <2> QED BY ONLY <2>2, <2>3
<1> DEFINE Fits1(d) == /\ f[d] \in Constraint
                       /\ \A tool \in Tools, n \in Nat :
                             Permits(f[d], tool, n) =>
                               /\ Permits(Ceiling, tool, n)
                               /\ \A l \in 1..d : Permits(lineage[l].value, tool, n)
           G == {d \in Nat : d <= Depth => Fits1(d)}
<1>3. 0 \in G
  BY <1>2, RuleConstants
<1>4. ASSUME NEW d \in Nat, d \in G PROVE d + 1 \in G
  <2> SUFFICES ASSUME d + 1 <= Depth PROVE Fits1(d + 1)
    OBVIOUS
  <2>1. /\ d <= Depth /\ d + 1 \in 1..Depth /\ Depth \in Nat
        /\ (d + 1) - 1 = d
    BY RuleConstants
  <2>2. Fits1(d)
    BY <1>4, <2>1
  <2>3. f[d + 1] = Narrow(f[d], lineage[d + 1].value)
    BY <1>2, <2>1
  <2>4. f[d] \in Constraint /\ lineage[d + 1].value \in Constraint
    BY <2>1, <2>2
  <2>5. /\ f[d + 1] \in Constraint
        /\ \A tool \in Tools, n \in Nat : Permits(f[d + 1], tool, n) =>
              Permits(f[d], tool, n) /\ Permits(lineage[d + 1].value, tool, n)
    BY <2>3, <2>4, NarrowPermits
  <2>6. \A l \in 1..(d + 1) : l \in 1..d \/ l = d + 1
    OBVIOUS
  <2> QED BY <2>2, <2>5, <2>6
<1>5. Depth \in G
  <2> HIDE DEF G
  <2> QED BY <1>3, <1>4, NumberInduction, RuleConstants
<1>6. Fits1(Depth)
  BY <1>5, RuleConstants
<1> QED
  BY <1>1, <1>6

\* A stored layer.
StoredRule == [version : Nat, value : Constraint]

\* p is what q's layer said earlier, or says still.
NotAfter(p, q) == p.version <= q.version /\ (p.version = q.version => p = q)

\* Types; a layer's version is at most the number of writes and the first row.
RuleTypes ==
    /\ rule \in [1..Depth -> StoredRule]
    /\ ruleWrites \in 0..MaxRuleWrites
    /\ \A l \in 1..Depth : rule[l].version <= ruleWrites + 1
    /\ principal \in BOOLEAN
    /\ reader \in [pass : 0..2, seen : Seq(StoredRule), first : Seq(StoredRule)]
    /\ Len(reader.seen) <= Depth
    /\ resolved \in [pass : {0, 2}, value : Constraint]
    /\ spent \in 0..(2 * MaxUsage)
    /\ together \subseteq [1..Depth -> StoredRule]

\* While the principal is valid, what is in force now was in force during the
\* resolution.
PresentIsWitnessed == reader.pass > 0 /\ principal => rule \in together

\* What the first pass has read is no newer than what is stored.
FirstPassFits ==
    reader.pass = 1 => \A l \in 1..Len(reader.seen) : NotAfter(reader.seen[l], rule[l])

\* The moment between the passes.
SecondPassFits ==
    reader.pass = 2 =>
      /\ Len(reader.first) = Depth
      /\ \E m \in together :
            /\ \A l \in 1..Depth : NotAfter(reader.first[l], m[l]) /\ NotAfter(m[l], rule[l])
            /\ \A l \in 1..Len(reader.seen) : NotAfter(m[l], reader.seen[l])

\* The inductive invariant of the rules.
RuleInv ==
    /\ RuleTypes /\ PresentIsWitnessed /\ FirstPassFits /\ SecondPassFits /\ AnswerWasInForce

\* NotAfter is a partial order, and equal versions squeeze what lies between.
LEMMA NotAfterIsOrder ==
  ASSUME NEW p \in StoredRule, NEW q \in StoredRule, NEW r \in StoredRule
  PROVE  /\ NotAfter(p, p)
         /\ NotAfter(p, q) /\ NotAfter(q, r) => NotAfter(p, r)
         /\ NotAfter(p, q) /\ NotAfter(q, r) /\ p.version = r.version => q = r
BY DEF StoredRule, NotAfter

\* The layer read next is at least as new as anything that was in force.
LEMMA SetPolicyKeeps ==
  ASSUME RuleInv, NEW l \in 1..Depth, SetPolicy(l)
  PROVE  RuleInv'
<1>1. PICK c \in Inputs :
        /\ NoBroader(c, Ceiling)
        /\ rule' = [rule EXCEPT ![l] = [version |-> rule[l].version + 1, value |-> c]]
  BY DEF SetPolicy
<1>2. /\ ruleWrites < MaxRuleWrites /\ ruleWrites' = ruleWrites + 1
      /\ together' = together \cup Witness(rule', principal)
      /\ UNCHANGED <<principal, reader, resolved, spent, basis>>
  BY DEF SetPolicy
<1>3. /\ rule \in [1..Depth -> StoredRule] /\ ruleWrites \in 0..MaxRuleWrites
      /\ \A k \in 1..Depth : rule[k].version <= ruleWrites + 1 /\ rule[k].version \in Nat
      /\ RuleTypes
  BY DEF RuleInv, RuleTypes, StoredRule
<1> DEFINE new == [version |-> rule[l].version + 1, value |-> c]
<1>4. new \in StoredRule /\ new.version = rule[l].version + 1
  BY <1>3, RuleConstants DEF StoredRule
<1>5. rule' = [rule EXCEPT ![l] = new]
  BY <1>1
<1> HIDE DEF new
<1>6. /\ rule' \in [1..Depth -> StoredRule]
      /\ \A k \in 1..Depth : rule'[k] = IF k = l THEN new ELSE rule[k]
  BY <1>3, <1>4, <1>5
<1>7. \A k \in 1..Depth : NotAfter(rule[k], rule'[k])
  BY <1>3, <1>4, <1>6 DEF NotAfter
<1>8. together' \subseteq [1..Depth -> StoredRule] /\ together \subseteq together'
  BY <1>2, <1>3, <1>6 DEF RuleTypes, Witness
<1>9. RuleTypes'
  <2>1. \A k \in 1..Depth : rule'[k].version <= ruleWrites' + 1
    BY <1>2, <1>3, <1>4, <1>6
  <2>2. ruleWrites' \in 0..MaxRuleWrites
    BY <1>2, <1>3, RuleConstants
  <2> QED BY <1>2, <1>3, <1>6, <1>8, <2>1, <2>2 DEF RuleTypes
<1>10. PresentIsWitnessed'
  BY <1>2 DEF PresentIsWitnessed, Witness
<1>11. FirstPassFits'
  <2> SUFFICES ASSUME reader.pass = 1, NEW k \in 1..Len(reader.seen)
               PROVE  NotAfter(reader.seen[k], rule'[k])
    BY <1>2 DEF FirstPassFits
  <2>1. k \in 1..Depth /\ reader.seen[k] \in StoredRule
    BY <1>3, RuleConstants DEF RuleTypes
  <2>2. NotAfter(reader.seen[k], rule[k])
    BY DEF RuleInv, FirstPassFits
  <2>3. rule[k] \in StoredRule /\ rule'[k] \in StoredRule /\ NotAfter(rule[k], rule'[k])
    BY <1>3, <1>6, <1>7, <2>1
  <2> QED BY <2>1, <2>2, <2>3, NotAfterIsOrder
<1>12. SecondPassFits'
  <2> SUFFICES ASSUME reader.pass = 2 PROVE SecondPassFits'
    BY <1>2 DEF SecondPassFits
  <2>1. PICK m \in together :
          /\ \A k \in 1..Depth : NotAfter(reader.first[k], m[k]) /\ NotAfter(m[k], rule[k])
          /\ \A k \in 1..Len(reader.seen) : NotAfter(m[k], reader.seen[k])
    BY DEF RuleInv, SecondPassFits
  <2>2. \A k \in 1..Depth : NotAfter(m[k], rule'[k])
    <3> SUFFICES ASSUME NEW k \in 1..Depth PROVE NotAfter(m[k], rule'[k])
      OBVIOUS
    <3>1. m[k] \in StoredRule /\ rule[k] \in StoredRule /\ rule'[k] \in StoredRule
      BY <1>3, <1>6 DEF RuleTypes
    <3> QED BY <1>7, <2>1, <3>1, NotAfterIsOrder
  <2>3. Len(reader.first) = Depth
    BY DEF RuleInv, SecondPassFits
  <2>4. m \in together'
    BY <1>8
  <2> QED BY <1>2, <2>1, <2>2, <2>3, <2>4 DEF SecondPassFits
<1>13. AnswerWasInForce'
  BY <1>2 DEF RuleInv, AnswerWasInForce
<1> QED
  BY <1>9, <1>10, <1>11, <1>12, <1>13 DEF RuleInv

\* Revoking the principal ends the witnessing, and takes no witness away.
LEMMA RevokeKeeps ==
  ASSUME RuleInv, Revoke
  PROVE  RuleInv'
<1>1. principal' = FALSE /\ UNCHANGED <<rule, reader, resolved, spent, together, basis, ruleWrites>>
  BY DEF Revoke
<1> QED
  BY <1>1 DEF RuleInv, RuleTypes, PresentIsWitnessed, FirstPassFits, SecondPassFits,
              AnswerWasInForce

\* A resolution starts with what is in force as its only witness.
LEMMA StartResolutionKeeps ==
  ASSUME RuleInv, StartResolution
  PROVE  RuleInv'
<1>1. /\ reader' = [pass |-> 1, seen |-> <<>>, first |-> <<>>]
      /\ together' = {rule}
      /\ UNCHANGED <<rule, principal, resolved, spent, basis, ruleWrites>>
  BY DEF StartResolution, NoReading
<1>2. RuleTypes /\ AnswerWasInForce
  BY DEF RuleInv
<1>3. RuleTypes'
  <2>1. reader' \in [pass : 0..2, seen : Seq(StoredRule), first : Seq(StoredRule)]
    BY <1>1
  <2>2. Len(reader'.seen) = 0
    BY <1>1
  <2>3. together' \subseteq [1..Depth -> StoredRule]
    BY <1>1, <1>2 DEF RuleTypes
  <2> QED BY <1>1, <1>2, <2>1, <2>2, <2>3, RuleConstants DEF RuleTypes
<1>4. PresentIsWitnessed' /\ FirstPassFits' /\ SecondPassFits'
  BY <1>1 DEF PresentIsWitnessed, FirstPassFits, SecondPassFits
<1>5. AnswerWasInForce'
  BY <1>1, <1>2 DEF AnswerWasInForce
<1> QED
  BY <1>3, <1>4, <1>5 DEF RuleInv

\* A reader that gives up rests on nothing.
LEMMA GiveUpKeeps ==
  ASSUME RuleInv, reader' = NoReading, AnswerWasInForce',
         resolved' \in [pass : {0, 2}, value : Constraint],
         UNCHANGED <<rule, principal, spent, together, ruleWrites>>
  PROVE  RuleInv'
<1>1. reader'.pass = 0 /\ Len(reader'.seen) = 0
      /\ reader' \in [pass : 0..2, seen : Seq(StoredRule), first : Seq(StoredRule)]
  BY DEF NoReading
<1>2. RuleTypes'
  BY <1>1, RuleConstants DEF RuleInv, RuleTypes
<1> QED
  BY <1>1, <1>2 DEF RuleInv, PresentIsWitnessed, FirstPassFits, SecondPassFits

\* A layer that is read extends the pass with what is stored now.
LEMMA ReadLayerKeeps ==
  ASSUME RuleInv, ReadLayer
  PROVE  RuleInv'
<1> DEFINE l == Len(reader.seen) + 1
           p == rule[l]
<1>1. /\ reader.pass > 0 /\ Len(reader.seen) < Depth
      /\ reader' = IF Readable(p) THEN [reader EXCEPT !.seen = Append(@, p)] ELSE NoReading
      /\ UNCHANGED <<rule, principal, resolved, spent, together, basis, ruleWrites>>
  BY DEF ReadLayer
<1>2. /\ RuleTypes /\ AnswerWasInForce /\ PresentIsWitnessed /\ FirstPassFits /\ SecondPassFits
      /\ reader \in [pass : 0..2, seen : Seq(StoredRule), first : Seq(StoredRule)]
  BY DEF RuleInv, RuleTypes
<1>3. AnswerWasInForce'
  BY <1>1, <1>2 DEF AnswerWasInForce
<1>4. CASE ~Readable(p)
  <2>1. reader' = NoReading /\ resolved' \in [pass : {0, 2}, value : Constraint]
    BY <1>1, <1>2, <1>4 DEF RuleTypes
  <2> QED BY <1>1, <1>3, <2>1, GiveUpKeeps
<1>5. CASE Readable(p)
  <2>1. l \in 1..Depth /\ p \in StoredRule /\ Len(reader.seen) \in Nat
    BY <1>1, <1>2, RuleConstants DEF RuleTypes
  <2> DEFINE s == Append(reader.seen, p)
  <2>2. /\ reader'.pass = reader.pass /\ reader'.first = reader.first /\ reader'.seen = s
        /\ reader' \in [pass : 0..2, seen : Seq(StoredRule), first : Seq(StoredRule)]
    <3>1. reader' = [reader EXCEPT !.seen = s]
      BY <1>1, <1>5
    <3>2. s \in Seq(StoredRule)
      BY <1>2, <2>1
    <3> HIDE DEF s
    <3> QED BY ONLY <1>2, <3>1, <3>2
  <2>3. /\ Len(s) = l
        /\ \A k \in 1..l : s[k] = IF k = l THEN p ELSE reader.seen[k]
        /\ \A k \in 1..l : k = l \/ k \in 1..Len(reader.seen)
    BY <1>2, <2>1
  <2> HIDE DEF s
  <2>4. RuleTypes'
    BY <1>1, <1>2, <2>1, <2>2, <2>3 DEF RuleTypes
  <2>5. PresentIsWitnessed'
    BY <1>1, <1>2, <2>2 DEF PresentIsWitnessed
  <2>6. FirstPassFits'
    <3> SUFFICES ASSUME reader.pass = 1, NEW k \in 1..l PROVE NotAfter(s[k], rule[k])
      BY <1>1, <2>2, <2>3 DEF FirstPassFits
    <3>1. CASE k = l
      BY <2>1, <2>3, <3>1, NotAfterIsOrder
    <3>2. CASE k # l
      <4>1. k \in 1..Len(reader.seen) /\ s[k] = reader.seen[k]
        BY <2>3, <3>2
      <4> QED BY <1>2, <4>1 DEF FirstPassFits
    <3> QED BY <3>1, <3>2
  <2>7. SecondPassFits'
    <3> SUFFICES ASSUME reader.pass = 2 PROVE SecondPassFits'
      BY <2>2 DEF SecondPassFits
    <3>1. PICK m \in together :
            /\ \A k \in 1..Depth : NotAfter(reader.first[k], m[k]) /\ NotAfter(m[k], rule[k])
            /\ \A k \in 1..Len(reader.seen) : NotAfter(m[k], reader.seen[k])
      BY <1>2 DEF SecondPassFits
    <3>2. Len(reader.first) = Depth
      BY <1>2 DEF SecondPassFits
    <3>3. \A k \in 1..l : NotAfter(m[k], s[k])
      BY <2>1, <2>3, <3>1
    <3> QED BY <1>1, <2>2, <2>3, <3>1, <3>2, <3>3 DEF SecondPassFits
  <2> QED BY <1>3, <2>4, <2>5, <2>6, <2>7 DEF RuleInv
<1> QED
  BY <1>4, <1>5

\* At the turn of the passes the stored lineage is the moment in between.
LEMMA SecondPassKeeps ==
  ASSUME RuleInv, SecondPass
  PROVE  RuleInv'
<1>1. /\ reader.pass = 1 /\ Len(reader.seen) = Depth
      /\ reader' = IF principal THEN [pass |-> 2, seen |-> <<>>, first |-> reader.seen]
                   ELSE NoReading
      /\ UNCHANGED <<rule, principal, resolved, spent, together, basis, ruleWrites>>
  BY DEF SecondPass
<1>2. /\ RuleTypes /\ AnswerWasInForce /\ PresentIsWitnessed /\ FirstPassFits
      /\ reader \in [pass : 0..2, seen : Seq(StoredRule), first : Seq(StoredRule)]
  BY DEF RuleInv, RuleTypes
<1>3. AnswerWasInForce'
  BY <1>1, <1>2 DEF AnswerWasInForce
<1>4. CASE ~principal
  <2>1. reader' = NoReading /\ resolved' \in [pass : {0, 2}, value : Constraint]
    BY <1>1, <1>2, <1>4 DEF RuleTypes
  <2> QED BY <1>1, <1>3, <2>1, GiveUpKeeps
<1>5. CASE principal
  <2>1. /\ reader' = [pass |-> 2, seen |-> <<>>, first |-> reader.seen]
        /\ rule \in together
    BY <1>1, <1>2, <1>5 DEF PresentIsWitnessed
  <2>2. /\ reader'.pass = 2 /\ reader'.first = reader.seen /\ reader'.seen = <<>>
        /\ Len(reader'.seen) = 0
        /\ reader' \in [pass : 0..2, seen : Seq(StoredRule), first : Seq(StoredRule)]
    BY <1>2, <2>1
  <2>3. RuleTypes'
    BY <1>1, <1>2, <2>2, RuleConstants DEF RuleTypes
  <2>4. PresentIsWitnessed' /\ FirstPassFits'
    BY <1>1, <2>1, <2>2 DEF PresentIsWitnessed, FirstPassFits
  <2>5. \A k \in 1..Depth : NotAfter(reader.seen[k], rule[k]) /\ NotAfter(rule[k], rule[k])
    <3>1. \A k \in 1..Depth : rule[k] \in StoredRule
      BY <1>2 DEF RuleTypes
    <3> QED BY <1>1, <1>2, <3>1, NotAfterIsOrder DEF FirstPassFits
  <2>6. SecondPassFits'
    <3>1. \A k \in 1..Len(reader'.seen) : NotAfter(rule[k], reader'.seen[k])
      BY <2>2
    <3> QED BY <1>1, <2>1, <2>2, <2>5, <3>1 DEF SecondPassFits
  <2> QED BY <1>3, <2>3, <2>4, <2>6 DEF RuleInv
<1> QED
  BY <1>4, <1>5

\* Equal fingerprints are equal versions, so the moment between the passes is
\* the lineage that was read.
LEMMA ResolveKeeps ==
  ASSUME RuleInv, Resolve
  PROVE  RuleInv'
<1>1. /\ reader.pass = 2 /\ Len(reader.seen) = Depth
      /\ reader' = NoReading
      /\ UNCHANGED <<rule, principal, spent, together, ruleWrites>>
  BY DEF Resolve
<1>2. /\ RuleTypes /\ SecondPassFits /\ AnswerWasInForce
      /\ reader \in [pass : 0..2, seen : Seq(StoredRule), first : Seq(StoredRule)]
  BY DEF RuleInv, RuleTypes
<1>3. \A l \in 1..Depth : reader.seen[l] \in StoredRule /\ reader.seen[l].value \in Constraint
  <2>1. reader.seen \in Seq(StoredRule)
    BY <1>2
  <2>2. \A l \in 1..Depth : reader.seen[l] \in StoredRule
    BY ONLY <1>1, <2>1
  <2>3. \A p \in StoredRule : p.value \in Constraint
    BY DEF StoredRule
  <2> QED BY ONLY <2>2, <2>3
<1>4. CASE Fingerprint(reader.seen) # Fingerprint(reader.first)
  <2>1. UNCHANGED <<resolved, basis>>
    BY <1>4 DEF Resolve
  <2>2. AnswerWasInForce' /\ resolved' \in [pass : {0, 2}, value : Constraint]
    BY <1>2, <2>1 DEF AnswerWasInForce, RuleTypes
  <2> QED BY <1>1, <2>2, GiveUpKeeps
<1>5. CASE Fingerprint(reader.seen) = Fingerprint(reader.first)
  <2>1. resolved' = [pass |-> 2, value |-> Effective(reader.seen)] /\ basis' = together
    BY <1>5 DEF Resolve
  <2>2. /\ Effective(reader.seen) \in Constraint
        /\ \A tool \in Tools, n \in Nat :
              Permits(Effective(reader.seen), tool, n) =>
                /\ Permits(Ceiling, tool, n)
                /\ \A l \in 1..Depth : Permits(reader.seen[l].value, tool, n)
    BY <1>3, EffectiveIsNarrow
  <2>3. PICK m \in together :
          /\ \A l \in 1..Depth : NotAfter(reader.first[l], m[l]) /\ NotAfter(m[l], rule[l])
          /\ \A l \in 1..Len(reader.seen) : NotAfter(m[l], reader.seen[l])
    BY <1>1, <1>2 DEF SecondPassFits
  <2>4. \A l \in 1..Depth : reader.seen[l].version = reader.first[l].version
    <3>1. [n \in 1..Depth |-> reader.seen[n].version] = [n \in 1..Depth |-> reader.first[n].version]
      BY <1>5 DEF Fingerprint
    <3> DEFINE sv == [n \in 1..Depth |-> reader.seen[n].version]
               fv == [n \in 1..Depth |-> reader.first[n].version]
    <3>2. \A l \in 1..Depth : sv[l] = reader.seen[l].version /\ fv[l] = reader.first[l].version
      OBVIOUS
    <3>3. sv = fv
      BY <3>1
    <3> HIDE DEF sv, fv
    <3> QED BY <3>2, <3>3
  <2>5. \A l \in 1..Depth : m[l] = reader.seen[l]
    <3> SUFFICES ASSUME NEW l \in 1..Depth PROVE m[l] = reader.seen[l]
      OBVIOUS
    <3>1. reader.first[l] \in StoredRule /\ m[l] \in StoredRule /\ reader.seen[l] \in StoredRule
      BY <1>1, <1>2, <1>3, <2>3 DEF SecondPassFits, RuleTypes
    <3>2. NotAfter(reader.first[l], m[l]) /\ NotAfter(m[l], reader.seen[l])
      BY <1>1, <2>3
    <3> QED BY <2>4, <3>1, <3>2, NotAfterIsOrder
  <2>6. AnswerWasInForce'
    <3>1. \A tool \in Tools, n \in 0..Unlimited :
             Permits(resolved'.value, tool, n) =>
               /\ Permits(Ceiling, tool, n)
               /\ \A l \in 1..Depth : Permits(m[l].value, tool, n)
      <4>1. resolved'.value = Effective(reader.seen)
        BY <2>1
      <4>2. \A n \in 0..Unlimited : n \in Nat
        BY RuleConstants
      <4> QED BY <2>2, <2>5, <4>1, <4>2
    <3> QED BY <2>1, <2>3, <3>1 DEF AnswerWasInForce
  <2>7. resolved' \in [pass : {0, 2}, value : Constraint]
    BY <2>1, <2>2
  <2> QED BY <1>1, <2>6, <2>7, GiveUpKeeps
<1> QED
  BY <1>4, <1>5

\* Accepting what a provider reported moves only the run's usage.
LEMMA AcceptProviderKeeps ==
  ASSUME RuleInv, AcceptProvider
  PROVE  RuleInv'
<1>1. resolved' = NoRules /\ UNCHANGED <<rule, principal, reader, together, ruleWrites>>
  BY DEF AcceptProvider
<1>2. RuleTypes /\ PresentIsWitnessed /\ FirstPassFits /\ SecondPassFits
  BY DEF RuleInv
<1>3. spent' \in 0..(2 * MaxUsage)
  <2>1. spent \in 0..(2 * MaxUsage) /\ MaxUsage \in Nat
    BY <1>2, RuleConstants DEF RuleTypes
  <2>2. CASE UNCHANGED spent
    BY <2>1, <2>2
  <2>3. CASE \E n \in 0..MaxUsage : spent < MaxUsage /\ spent' = spent + n
    BY <2>1, <2>3
  <2> QED BY <2>2, <2>3 DEF AcceptProvider
<1>4. resolved' \in [pass : {0, 2}, value : Constraint]
  BY <1>1, RuleConstants DEF NoRules
<1>5. RuleTypes'
  BY <1>1, <1>2, <1>3, <1>4 DEF RuleTypes
<1>6. PresentIsWitnessed' /\ FirstPassFits' /\ SecondPassFits'
  BY <1>1, <1>2 DEF PresentIsWitnessed, FirstPassFits, SecondPassFits
<1>7. AnswerWasInForce'
  BY <1>1 DEF AnswerWasInForce
<1> QED
  BY <1>5, <1>6, <1>7 DEF RuleInv

\* Every step of the rules keeps the invariant.
LEMMA RuleStepKeeps ==
  ASSUME RuleInv, RuleNext
  PROVE  RuleInv'
BY SetPolicyKeeps, RevokeKeeps, StartResolutionKeeps, ReadLayerKeeps, SecondPassKeeps,
   ResolveKeeps, AcceptProviderKeeps
DEF RuleNext

LEMMA RuleInitHolds == RuleInit => RuleInv
<1> SUFFICES ASSUME RuleInit PROVE RuleInv
  OBVIOUS
<1>1. /\ rule \in [1..Depth -> {NoPolicy} \cup {[version |-> 1, value |-> c] : c \in Inputs}]
      /\ principal = TRUE /\ reader = NoReading /\ resolved = NoRules
      /\ spent = 0 /\ together = {} /\ ruleWrites = 0
  BY DEF RuleInit
<1>2. {NoPolicy} \cup {[version |-> 1, value |-> c] : c \in Inputs}
        \subseteq [version : {0, 1}, value : Constraint]
  BY RuleConstants DEF NoPolicy
<1>3. \A l \in 1..Depth : rule[l] \in [version : {0, 1}, value : Constraint]
  BY <1>1, <1>2
<1>4. rule \in [1..Depth -> StoredRule] /\ \A l \in 1..Depth : rule[l].version <= ruleWrites + 1
  <2>1. \A l \in 1..Depth : rule[l] \in StoredRule
    BY <1>3 DEF StoredRule
  <2>2. rule \in [1..Depth -> StoredRule]
    BY <1>1, <2>1
  <2> QED BY <1>1, <1>3, <2>2
<1>5. reader.pass = 0 /\ reader \in [pass : 0..2, seen : Seq(StoredRule), first : Seq(StoredRule)]
      /\ Len(reader.seen) = 0
  BY <1>1 DEF NoReading
<1>6. RuleTypes
  BY <1>1, <1>4, <1>5, RuleConstants DEF RuleTypes, NoRules
<1> QED
  BY <1>1, <1>5, <1>6 DEF RuleInv, PresentIsWitnessed, FirstPassFits, SecondPassFits,
                          AnswerWasInForce

LEMMA RuleStutterKeeps ==
  ASSUME RuleInv, UNCHANGED ruleVars
  PROVE  RuleInv'
BY DEF RuleInv, RuleTypes, PresentIsWitnessed, FirstPassFits, SecondPassFits, AnswerWasInForce,
       ruleVars

\* In every reachable state a resolution that may still answer is enclosed by
\* such a moment (orm_rules.rs: the two passes of the current-rule resolver).
THEOREM RuleInvariance == Spec => []RuleInv
<1>1. Init => RuleInv
  BY RuleInitHolds DEF Init
<1>2. RuleInv /\ [Next]_confVars => RuleInv'
  <2> SUFFICES ASSUME RuleInv, [Next]_confVars PROVE RuleInv'
    OBVIOUS
  <2>1. RuleNext \/ UNCHANGED ruleVars
    BY DEF Next, confVars
  <2> QED BY <2>1, RuleStepKeeps, RuleStutterKeeps
<1> QED
  BY <1>1, <1>2, PTL DEF Spec

\* Hence the types that the runs check.
LEMMA RuleTypesHold == RuleInv => RuleTypeOK
<1> SUFFICES ASSUME RuleInv PROVE RuleTypeOK
  OBVIOUS
<1>1. \A l \in 1..Depth : rule[l].version \in 0..(MaxRuleWrites + 1) /\ rule[l].value \in Constraint
  BY RuleConstants DEF RuleInv, RuleTypes, StoredRule
<1> QED
  BY <1>1 DEF RuleInv, RuleTypes, RuleTypeOK

\* What is resolved while administrators write is sound: the rules of an
\* answer were in force together at one moment of the resolution, though they
\* are read layer by layer, an enabled skill has its one current version, and
\* no table or counter leaves its range.
THEOREM ResolutionHolds == Spec => []ResolutionIsSound
<1>1. CountsInv => EnabledIsResolvable
  BY DEF CountsInv, PolInv, SkillsFit, EnabledFits, EnabledIsResolvable, Rows
<1>2. CredInv /\ CountsInv /\ RuleInv /\ PriceInv /\ AccountInv => TypeOK
  BY CredTypesHold, PolTypesHold, RuleTypesHold, PriceTypesHold DEF TypeOK, AccountInv
<1>3. CredInv /\ CountsInv /\ RuleInv /\ PriceInv /\ AccountInv => ResolutionIsSound
  BY <1>1, <1>2 DEF ResolutionIsSound, RuleInv
<1> QED
  BY <1>3, CredInvariance, CountsInvariance, RuleInvariance, PriceInvariance,
     AccountInvariance, PTL
=============================================================================
