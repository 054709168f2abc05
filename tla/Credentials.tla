----------------------------- MODULE Credentials -----------------------------
(***************************************************************************)
(* The credential of a provider profile (orm_configuration.rs).  The       *)
(* secret store and the database are two stores without a common           *)
(* transaction: a rotation puts the new secret, swaps the reference in the *)
(* profile row under its version, and then deletes the old secret; when    *)
(* the swap fails it deletes the new one.  Administrators interleave, the  *)
(* process crashes, a delete fails, the answer of a commit is lost.        *)
(***************************************************************************)
EXTENDS Naturals, FiniteSets

CONSTANTS Admins,         \* concurrent administrative calls
          Refs,           \* references the secret store may allocate
          MaxRow,         \* bound: versions of the profile row
          MaxFaults       \* bound: crashes, failed deletes and lost answers

NoRef == "no_reference"
ASSUME CredentialsAssumption ==
    MaxRow \in Nat \ {0} /\ MaxFaults \in Nat /\ IsFiniteSet(Refs) /\ NoRef \notin Refs

NoProfile == [version |-> 0, kind |-> "absent", credential |-> NoRef]
NoCall == [pc |-> "idle", expected |-> 0, previous |-> NoRef, fresh |-> NoRef]

VARIABLES profile,        \* the provider profile row
          secret,         \* the secret store: free, live or deleted
          cleanup,        \* AiSecretCleanupRecord: none, pending or complete
          call,           \* the call each administrator has under way
          excused,        \* ghost: fresh references a fault left without owner
          unclear,        \* ghost: references whose commit answer was lost
          credFaults

credVars == <<profile, secret, cleanup, call, excused, unclear, credFaults>>

CredInit ==
    /\ profile = NoProfile
    /\ secret = [r \in Refs |-> "free"]
    /\ cleanup = [r \in Refs |-> "none"]
    /\ call = [a \in Admins |-> NoCall]
    /\ excused = {} /\ unclear = {} /\ credFaults = 0

CredFault == credFaults < MaxFaults /\ credFaults' = credFaults + 1

(* upsert_provider_profile inserts, or swaps under the version it was      *)
(* given; a profile that holds a credential does not become a harness.     *)
InsertProfile(kind) ==
    /\ profile = NoProfile
    /\ profile' = [version |-> 1, kind |-> kind, credential |-> NoRef]
    /\ UNCHANGED <<secret, cleanup, call, excused, unclear, credFaults>>

HarnessAllowed(kind) == kind = "harness" => profile.credential = NoRef

UpdateProfile(kind) ==
    /\ profile # NoProfile
    /\ HarnessAllowed(kind)
    /\ profile.version < MaxRow
    /\ profile' = [profile EXCEPT !.version = @ + 1, !.kind = kind]
    /\ UNCHANGED <<secret, cleanup, call, excused, unclear, credFaults>>

(* set_provider_credential before the secret is put: it reads the profile  *)
(* outside any transaction and refuses a harness and an old version.       *)
ReadForSet(a) ==
    /\ call[a].pc = "idle"
    /\ profile # NoProfile /\ profile.kind # "harness"
    /\ call' = [call EXCEPT ![a] = [pc |-> "put", expected |-> profile.version,
                                    previous |-> profile.credential, fresh |-> NoRef]]
    /\ UNCHANGED <<profile, secret, cleanup, excused, unclear, credFaults>>

PutSecret(a) ==
    /\ call[a].pc = "put"
    /\ \E r \in Refs :
          /\ secret[r] = "free"
          /\ secret' = [secret EXCEPT ![r] = "live"]
          /\ call' = [call EXCEPT ![a].pc = "swap", ![a].fresh = r]
    /\ UNCHANGED <<profile, cleanup, excused, unclear, credFaults>>

(* the put fails; the store may have kept the value all the same *)
PutFails(a) ==
    /\ call[a].pc = "put"
    /\ CredFault
    /\ call' = [call EXCEPT ![a] = NoCall]
    /\ \/ UNCHANGED <<secret, excused>>
       \/ \E r \in Refs :
             /\ secret[r] = "free"
             /\ secret' = [secret EXCEPT ![r] = "live"]
             /\ excused' = excused \cup {r}
    /\ UNCHANGED <<profile, cleanup, unclear>>

VersionHolds(a) == profile.version = call[a].expected

(* the transaction: reference swapped, version raised, the previous        *)
(* reference recorded for cleanup                                          *)
Swapped(a) ==
    /\ VersionHolds(a)
    /\ profile.version < MaxRow
    /\ profile' = [profile EXCEPT !.version = @ + 1, !.credential = call[a].fresh]
    /\ cleanup' = IF call[a].previous = NoRef THEN cleanup
                  ELSE [cleanup EXCEPT ![call[a].previous] = "pending"]

SwapCredential(a) ==
    /\ call[a].pc = "swap" /\ call[a].fresh # NoRef
    /\ Swapped(a)
    /\ call' = [call EXCEPT ![a].pc = IF call[a].previous = NoRef THEN "done" ELSE "delete"]
    /\ UNCHANGED <<secret, excused, unclear, credFaults>>

SwapConflicts(a) ==
    /\ call[a].pc = "swap" /\ call[a].fresh # NoRef
    /\ ~VersionHolds(a)
    /\ call' = [call EXCEPT ![a].pc = "compensate"]
    /\ UNCHANGED <<profile, secret, cleanup, excused, unclear, credFaults>>

(* the commit happened but its answer did not arrive: an error like any other *)
SwapUnclear(a) ==
    /\ call[a].pc = "swap" /\ call[a].fresh # NoRef
    /\ CredFault
    /\ Swapped(a)
    /\ call' = [call EXCEPT ![a].pc = "compensate"]
    /\ unclear' = unclear \cup {call[a].fresh}
    /\ UNCHANGED <<secret, excused>>

(* Mutant: the secret put for a failed swap stays. *)
CompensateNothing(a) ==
    /\ call[a].pc = "compensate"
    /\ call' = [call EXCEPT ![a] = NoCall]
    /\ UNCHANGED <<profile, secret, cleanup, excused, unclear, credFaults>>

Compensate(a) ==
    /\ call[a].pc = "compensate"
    /\ secret' = [secret EXCEPT ![call[a].fresh] = "deleted"]
    /\ call' = [call EXCEPT ![a] = NoCall]
    /\ UNCHANGED <<profile, cleanup, excused, unclear, credFaults>>

CompensateFails(a) ==
    /\ call[a].pc = "compensate"
    /\ CredFault
    /\ excused' = excused \cup {call[a].fresh}
    /\ call' = [call EXCEPT ![a] = NoCall]
    /\ UNCHANGED <<profile, secret, cleanup, unclear>>

(* remove_provider_credential: the same swap, to no reference *)
ReadForRemove(a) ==
    /\ call[a].pc = "idle"
    /\ profile # NoProfile
    /\ call' = [call EXCEPT ![a] = [pc |-> "remove", expected |-> profile.version,
                                    previous |-> profile.credential, fresh |-> NoRef]]
    /\ UNCHANGED <<profile, secret, cleanup, excused, unclear, credFaults>>

RemoveCredential(a) ==
    /\ call[a].pc = "remove"
    /\ Swapped(a)
    /\ \/ /\ call' = [call EXCEPT ![a].pc =
                         IF call[a].previous = NoRef THEN "done" ELSE "delete"]
          /\ UNCHANGED credFaults
       \/ /\ CredFault                       \* the answer is lost: no cleanup
          /\ call' = [call EXCEPT ![a] = NoCall]
    /\ UNCHANGED <<secret, excused, unclear>>

RemoveConflicts(a) ==
    /\ call[a].pc = "remove"
    /\ ~VersionHolds(a)
    /\ call' = [call EXCEPT ![a] = NoCall]
    /\ UNCHANGED <<profile, secret, cleanup, excused, unclear, credFaults>>

(* complete_cleanup: delete, then mark; a failure of either is dropped *)
DeletePrevious(a) ==
    /\ call[a].pc = "delete"
    /\ \/ /\ secret' = [secret EXCEPT ![call[a].previous] = "deleted"]
          /\ call' = [call EXCEPT ![a].pc = "mark"]
          /\ UNCHANGED credFaults
       \/ /\ CredFault
          /\ call' = [call EXCEPT ![a].pc = "done"]
          /\ UNCHANGED secret
    /\ UNCHANGED <<profile, cleanup, excused, unclear>>

MarkCleanup(a) ==
    /\ call[a].pc = "mark"
    /\ \/ /\ cleanup' = [cleanup EXCEPT ![call[a].previous] = "complete"]
          /\ UNCHANGED credFaults
       \/ CredFault /\ UNCHANGED cleanup
    /\ call' = [call EXCEPT ![a].pc = "done"]
    /\ UNCHANGED <<profile, secret, excused, unclear>>

Answer(a) ==
    /\ call[a].pc = "done"
    /\ call' = [call EXCEPT ![a] = NoCall]
    /\ UNCHANGED <<profile, secret, cleanup, excused, unclear, credFaults>>

(* the process dies: whatever the call still had to do is forgotten *)
CrashCall(a) ==
    /\ call[a].pc \notin {"idle", "done"}
    /\ CredFault
    /\ call' = [call EXCEPT ![a] = NoCall]
    /\ excused' = IF call[a].pc \in {"swap", "compensate"}
                  THEN excused \cup {call[a].fresh} ELSE excused
    /\ UNCHANGED <<profile, secret, cleanup, unclear>>

CredNext ==
    \/ \E kind \in {"remote", "harness"} : InsertProfile(kind) \/ UpdateProfile(kind)
    \/ \E a \in Admins :
          \/ ReadForSet(a) \/ PutSecret(a) \/ PutFails(a)
          \/ SwapCredential(a) \/ SwapConflicts(a) \/ SwapUnclear(a)
          \/ Compensate(a) \/ CompensateFails(a)
          \/ ReadForRemove(a) \/ RemoveCredential(a) \/ RemoveConflicts(a)
          \/ DeletePrevious(a) \/ MarkCleanup(a) \/ Answer(a) \/ CrashCall(a)

-----------------------------------------------------------------------------
(* Every reference of the profile and of a call names an allocated secret. *)
CredTypeOK ==
    /\ profile.version \in 0..MaxRow
    /\ profile.kind \in {"absent", "remote", "harness"}
    /\ profile.credential \in Refs \cup {NoRef}
    /\ profile = NoProfile \/ profile.version > 0
    /\ \A r \in Refs :
          /\ secret[r] \in {"free", "live", "deleted"}
          /\ cleanup[r] \in {"none", "pending", "complete"}
          /\ secret[r] = "free" =>
                cleanup[r] = "none" /\ profile.credential # r
                /\ \A a \in Admins : r \notin {call[a].previous, call[a].fresh}

(* A harness profile never holds a credential, although                     *)
(* set_provider_credential looks at the provider kind outside the           *)
(* transaction that stores the reference, and an upsert may change the      *)
(* kind in between (docs/local-harness.md: harness profiles refuse          *)
(* credentials).                                                            *)
HarnessHasNoCredential == profile.kind = "harness" => profile.credential = NoRef

(* The reference a profile names can be resolved: no rotation, removal,     *)
(* compensation or cleanup of any call deletes the secret the row names,    *)
(* unless the answer of the commit that stored it was lost                  *)
(* (set_provider_credential compensates on every error).                    *)
NamedSecretIsLive ==
    profile.credential # NoRef =>
        \/ secret[profile.credential] = "live"
        \/ profile.credential \in unclear

(* A live secret nobody uses is always on the way out: named by the row,    *)
(* recorded for cleanup, or still in the hands of a call; only a fault      *)
(* between the two stores leaves one behind (secrets.rs: the store should   *)
(* expire those).                                                           *)
Owned(r) ==
    \/ profile.credential = r
    \/ cleanup[r] = "pending"
    \/ \E a \in Admins : call[a].fresh = r /\ call[a].pc \in {"swap", "compensate"}
NoForgottenSecret == \A r \in Refs : secret[r] = "live" => Owned(r) \/ r \in excused

(* A cleanup row names a reference that the profile has given up: the row   *)
(* was written for the reference read before the transaction, and must      *)
(* never order the deletion of the one in use.                              *)
CleanupNamesNoCurrent ==
    \A r \in Refs : cleanup[r] # "none" => profile.credential # r

(* Database and secret store agree, though they share no transaction: the  *)
(* row names a live secret it may have, cleanup orders only what was given  *)
(* up, and no live secret is forgotten.                                     *)
SecretsAgree ==
    HarnessHasNoCredential /\ NamedSecretIsLive /\ CleanupNamesNoCurrent /\ NoForgottenSecret
=============================================================================
