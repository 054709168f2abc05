---------------------------- MODULE Configuration ----------------------------
(***************************************************************************)
(* The administration of one scope and the accounts kept under it:         *)
(* provider credentials, policies and skills, rules, prices, budgets.  The *)
(* parts share no variable (what budgets read of policies and runs, Budget *)
(* changes by actions of its own), so every behaviour of the whole is an   *)
(* interleaving of behaviours of the parts, and one here exercises one.    *)
(***************************************************************************)
EXTENDS Credentials, Policies, Rules, Pricing, Budget

VARIABLE part     \* the part this behaviour exercises

confVars == <<part, credVars, polVars, ruleVars, priceVars, budgetVars>>

Init ==
    /\ part \in {"credentials", "policies", "rules", "prices", "budgets"}
    /\ CredInit /\ PolInit /\ RuleInit /\ PriceInit /\ BudgetInit
    /\ part # "rules" => rule = [l \in 1..Depth |-> NoPolicy]
    /\ part # "budgets" => policy = [p \in Policy |-> [enabled |-> FALSE, ceiling |-> Max(Ceilings)]]

Next ==
    /\ UNCHANGED part
    /\ \/ part = "credentials" /\ CredNext /\ UNCHANGED <<polVars, ruleVars, priceVars, budgetVars>>
       \/ part = "policies" /\ PolNext /\ UNCHANGED <<credVars, ruleVars, priceVars, budgetVars>>
       \/ part = "rules" /\ RuleNext /\ UNCHANGED <<credVars, polVars, priceVars, budgetVars>>
       \/ part = "prices" /\ PriceNext /\ UNCHANGED <<credVars, polVars, ruleVars, budgetVars>>
       \/ part = "budgets" /\ BudgetNext /\ UNCHANGED <<credVars, polVars, ruleVars, priceVars>>

Spec == Init /\ [][Next]_confVars

(* Every part keeps its variables in their ranges, its references to rows   *)
(* that exist, and its bounded tables within their bounds.                  *)
TypeOK == CredTypeOK /\ PolTypeOK /\ RuleTypeOK /\ PriceTypeOK /\ BudgetTypeOK

(* What is resolved while administrators write is sound: the rules of an    *)
(* answer were in force together, and an enabled skill has its version.     *)
ResolutionIsSound == TypeOK /\ AnswerWasInForce /\ EnabledIsResolvable

(* The books are right: counters and usage facts follow from reservations,  *)
(* and prices cover what was used up to the known rounding.                 *)
AccountsAreExact ==
    CountersBalance /\ UsageIsExact /\ QuoteCoversTokens /\ SettledWithinRounding

(* No writer undoes what another did: concurrent calls do not overbook a    *)
(* policy together or free what is in doubt, and no administrator           *)
(* overwrites a change it has not seen.                                     *)
WritersRespectEachOther == NeverOverbooked /\ UncertainIsHeld /\ NoLostUpdate
=============================================================================
