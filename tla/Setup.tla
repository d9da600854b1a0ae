-------------------------------- MODULE Setup --------------------------------
(***************************************************************************)
(* The setup wizard of src/src/bin/setup.rs: a dialogue with the user, two *)
(* requests to YNAB, and the builder.  The other users of the builder, who *)
(* have it from the library, are in place "library" for good.              *)
(*                                                                         *)
(* A prompt is repeated until the answer is acceptable; a refused answer   *)
(* changes nothing, so that only the acceptable ones are steps.            *)
(***************************************************************************)
EXTENDS Builder, FiniteSets

CONSTANTS
    Placeholder,        \* the IMAP server the user is to fill in later
    Owner,              \* external: the budget that each account belongs to
    MaxPicks            \* bound: account numbers in one answer

ASSUME SetupAssumption ==
    /\ Placeholder \in Servers
    /\ Owner \in [AccountIds -> Budgets]
    /\ IsFiniteSet(Budgets) /\ IsFiniteSet(AccountIds)
    /\ MaxPicks \in Nat /\ MaxPicks <= MaxAccounts

VARIABLES
    place,              \* what the wizard waits for or does next
    token,              \* the access token, an option
    budgets, accounts,  \* as YNAB listed them
    budget,             \* the one that was chosen, an option
    picked, parsers,    \* the accounts chosen, and the parsers so far
    exit                \* exit code, an option

wizardVars == <<place, token, budgets, accounts, budget, picked, parsers, exit>>
vars == <<builderVars, wizardVars>>

Init ==
    /\ BuilderInit
    /\ place \in {"token", "library"}
    /\ token = {} /\ budget = {} /\ exit = {}
    /\ budgets = <<>> /\ accounts = <<>> /\ picked = <<>> /\ parsers = <<>>

(* External: the lists of items that YNAB may answer with.                 *)
ListsOf(S) ==
    {list \in UNION {[1 .. n -> S] : n \in 0 .. Cardinality(S)} :
        \A i, j \in DOMAIN list : list[i] = list[j] => i = j}

(* What ends the wizard says why in its exit code.                         *)
Exit(code) ==
    /\ place' = "exited" /\ exit' = {code}
    /\ UNCHANGED <<builderVars, token, budgets, accounts, budget, picked, parsers>>
-----------------------------------------------------------------------------
EnterToken(t) ==
    /\ place = "token"
    /\ place' = "findBudgets" /\ token' = {t}
    /\ UNCHANGED <<builderVars, budgets, accounts, budget, picked, parsers, exit>>

(* No HTTP header can be made of the token, or there is no TLS.            *)
NoClient == place = "token" /\ Exit(2)

NoBudgets == place = "findBudgets" /\ Exit(2)

FindBudgets(list) ==
    /\ place = "findBudgets" /\ list # <<>>
    /\ budgets' = list
    /\ place' = IF Len(list) = 1 THEN "confirmBudget" ELSE "chooseBudget"
    /\ UNCHANGED <<builderVars, token, accounts, budget, picked, parsers, exit>>

DeclineBudget == place = "confirmBudget" /\ Exit(3)

(* The only budget is confirmed, or one of several chosen by its number.   *)
ChooseBudget(n) ==
    /\ place \in {"confirmBudget", "chooseBudget"}
    /\ n \in 1 .. Len(budgets)
    /\ budget' = {budgets[n]} /\ place' = "findAccounts"
    /\ UNCHANGED <<builderVars, token, budgets, accounts, picked, parsers, exit>>

NoAnswer == place = "findAccounts" /\ Exit(4)

(* Defect: an empty list is offered for a choice.                          *)
FindAccountsChecksOne(list) ==
    /\ place = "findAccounts"
    /\ \A i \in DOMAIN list : Owner[list[i]] \in budget
    /\ accounts' = list
    /\ place' = IF Len(list) = 1 THEN "confirmAccount" ELSE "chooseAccounts"
    /\ UNCHANGED <<builderVars, token, budgets, budget, picked, parsers, exit>>

FindAccounts(list) ==
    /\ place = "findAccounts"
    /\ \A i \in DOMAIN list : Owner[list[i]] \in budget
    /\ accounts' = list
    /\ place' = CASE Len(list) = 0 -> "imap"
                  [] Len(list) = 1 -> "confirmAccount"
                  [] OTHER         -> "chooseAccounts"
    /\ UNCHANGED <<builderVars, token, budgets, budget, picked, parsers, exit>>

(* The wizard goes on without any account.                                 *)
DeclineAccount ==
    /\ place = "confirmAccount"
    /\ place' = "imap"
    /\ UNCHANGED <<builderVars, token, budgets, accounts, budget, picked, parsers, exit>>

(* Any list of numbers, the same one twice included.                       *)
ChooseAccounts(numbers) ==
    /\ place \in {"confirmAccount", "chooseAccounts"}
    /\ place = "confirmAccount" => numbers = <<1>>
    /\ \A i \in DOMAIN numbers : numbers[i] \in 1 .. Len(accounts)
    /\ picked' = [i \in DOMAIN numbers |-> accounts[numbers[i]]]
    /\ place' = "chooseParser"
    /\ UNCHANGED <<builderVars, token, budgets, accounts, budget, parsers, exit>>

(* One parser for each account that was picked, in their order.            *)
ChooseParser(parser) ==
    /\ place = "chooseParser"
    /\ parsers' = Append(parsers, parser)
    /\ place' = IF Len(parsers') < Len(picked) THEN "chooseParser" ELSE "imap"
    /\ UNCHANGED <<builderVars, token, budgets, accounts, budget, picked, exit>>
-----------------------------------------------------------------------------
(* build_config and what main makes of its result, call by call.           *)
Calls(call, from, to) ==
    /\ place = from /\ place' = to
    /\ call
    /\ UNCHANGED <<token, budgets, accounts, budget, picked, parsers, exit>>

SetImap == Calls(imap_default(Placeholder), "imap", "ynab")

SetYnab == Calls(\E t \in token, b \in budget : ynab_access(t, b), "ynab", "accounts")

(* Defect: each parser goes to the first account.                          *)
SetAccountAgain ==
    LET i == Len(ynab_accounts) + 1
    IN  i <= Len(picked) /\ Calls(ynab_account(picked[1], parsers[i]), "accounts", "accounts")

SetAccount ==
    LET i == Len(ynab_accounts) + 1
    IN  i <= Len(picked) /\ Calls(ynab_account(picked[i], parsers[i]), "accounts", "accounts")

Build ==
    /\ Len(ynab_accounts) = Len(picked)
    /\ Calls(build, "accounts", "report")

Report ==
    /\ place = "report"
    /\ Exit(IF status = "built" THEN 0 ELSE 5)

BuildConfig == SetImap \/ SetYnab \/ SetAccount \/ Build \/ Report
-----------------------------------------------------------------------------
ListsOfNumbers == UNION {[1 .. n -> 1 .. Cardinality(AccountIds)] : n \in 1 .. MaxPicks}

Answer ==
    \/ \E t \in Tokens : EnterToken(t)
    \/ NoClient
    \/ \E n \in 1 .. Cardinality(Budgets) : ChooseBudget(n)
    \/ DeclineBudget \/ DeclineAccount
    \/ \E numbers \in ListsOfNumbers : ChooseAccounts(numbers)
    \/ \E parser \in Parsers : ChooseParser(parser)

YnabAnswers ==
    \/ NoBudgets \/ \E list \in ListsOf(Budgets) : FindBudgets(list)
    \/ NoAnswer  \/ \E list \in ListsOf(AccountIds) : FindAccounts(list)

Library ==
    /\ place = "library"
    /\ LibraryCall
    /\ UNCHANGED wizardVars

Next == Answer \/ YnabAnswers \/ BuildConfig \/ Library

(* A blocking request has a timeout of its own, so that it ends; the user  *)
(* is assumed to give an acceptable answer in the end.                     *)
Fairness ==
    /\ WF_vars(Answer)
    /\ WF_vars(YnabAnswers)
    /\ WF_vars(BuildConfig)

SafeSpec == Init /\ [][Next]_vars
Spec == SafeSpec /\ Fairness
-----------------------------------------------------------------------------
(* The wizard succeeds with a configuration of the accounts that were      *)
(* picked, each with the parser chosen for it, all of the budget that was  *)
(* chosen, and fails in the builder for nothing but the lack of accounts,  *)
(* which the user of a budget with several cannot run into                 *)
(* (setup.rs:51-84, 105-143, 254-270).                                     *)
ConfigIsWhatWasChosen ==
    /\ 0 \in exit =>
           \E c \in config :
               /\ {c.ynab.token} = token /\ {c.ynab.budget} = budget
               /\ Len(c.accounts) = Len(picked)
               /\ \A i \in DOMAIN picked :
                      /\ c.accounts[i] = [id |-> picked[i], parser |-> parsers[i]]
                      /\ Owner[picked[i]] = c.ynab.budget
    /\ 5 \in exit => status = "NoAccounts" /\ Len(accounts) <= 1
    /\ exit # {} /\ exit # {0} => config = {}

(* The dialogue comes to an end: no list is offered of which nothing can   *)
(* be chosen (setup.rs:91-143).                                            *)
WizardEnds == place = "token" ~> place = "exited"
=============================================================================
