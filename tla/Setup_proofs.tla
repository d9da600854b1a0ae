----------------------------- MODULE Setup_proofs ----------------------------
(***************************************************************************)
(* The builder and the wizard, for any servers, budgets, accounts, parsers *)
(* and bounds.                                                             *)
(***************************************************************************)
EXTENDS Setup, FiniteSetTheorems, TLAPS

(* The builder holds what it was given as long as nothing was missing or   *)
(* given twice.                                                            *)
Holds(option, calls, S) ==
    \/ option = {} /\ calls = <<>>
    \/ \E x \in S : option = {x} /\ calls = <<x>>

BuilderType ==
    /\ given \in [imap : Seq(IMAP), ynab : Seq(YNAB), account : Seq(YNABAccount)]
    /\ ynab_accounts \in Seq(YNABAccount)

Building ==
    status = "building" =>
        /\ Holds(imap, given.imap, IMAP)
        /\ Holds(ynab, given.ynab, YNAB)
        /\ ynab_accounts = given.account

BuilderInv == BuilderType /\ Building /\ BuilderRemembers
-----------------------------------------------------------------------------
LEMMA BuilderStarts == BuilderInit => BuilderInv
  BY DEF BuilderInit, BuilderInv, BuilderType, Building, Holds, BuilderRemembers

LEMMA BuilderUnchanged ==
    ASSUME BuilderInv, UNCHANGED builderVars
    PROVE  BuilderInv'
  BY DEF BuilderInv, BuilderType, Building, Holds, BuilderRemembers, builderVars

(* One call fills the option, a second one is one too many.               *)
LEMMA OneMoreCall ==
    ASSUME NEW option, NEW calls, NEW S, NEW x \in S,
           calls \in Seq(S), Holds(option, calls, S)
    PROVE  /\ Append(calls, x) \in Seq(S)
           /\ option = {} => Append(calls, x) = <<x>>
           /\ option # {} => Len(Append(calls, x)) = 2
<1>1. CASE option = {} /\ calls = <<>>
  BY <1>1
<1>2. ASSUME NEW y \in S, option = {y}, calls = <<y>>
      PROVE  Len(Append(calls, x)) = 2 /\ option # {} /\ Append(calls, x) \in Seq(S)
  BY <1>2
<1>. QED  BY <1>1, <1>2 DEF Holds

LEMMA ImapStep ==
    ASSUME BuilderInv, NEW server \in Servers, NEW port \in Ports,
           imap_with_port(server, port)
    PROVE  BuilderInv'
<1>. DEFINE i == [server |-> server, port |-> port]
<1>. USE DEF BuilderInv
<1>1. i \in IMAP /\ status = "building" /\ given' = [given EXCEPT !.imap = Append(@, i)]
  BY DEF imap_with_port, IMAP
<1>2. /\ given'.imap = Append(given.imap, i) /\ given'.ynab = given.ynab
      /\ given'.account = given.account /\ given.imap \in Seq(IMAP)
  BY <1>1 DEF BuilderType
<1>. HIDE DEF i
<1>3. /\ given' \in [imap : Seq(IMAP), ynab : Seq(YNAB), account : Seq(YNABAccount)]
      /\ imap = {} => given'.imap = <<i>>
      /\ imap # {} => Len(given'.imap) = 2
  <2>1. Holds(imap, given.imap, IMAP)
    BY <1>1 DEF Building
  <2>2. /\ Append(given.imap, i) \in Seq(IMAP)
        /\ imap = {} => Append(given.imap, i) = <<i>>
        /\ imap # {} => Len(Append(given.imap, i)) = 2
    BY <1>1, <1>2, <2>1, OneMoreCall
  <2>3. given' = [imap |-> Append(given.imap, i), ynab |-> given.ynab, account |-> given.account]
    BY <1>1 DEF BuilderType
  <2>. QED  BY <2>2, <2>3 DEF BuilderType
<1>4. CASE imap # {}
  <2>1. status' = "AlreadyHaveIMAP" /\ UNCHANGED <<imap, ynab, ynab_accounts, config>>
    BY <1>4 DEF imap_with_port, Fails
  <2>. QED  BY <1>1, <1>3, <1>4, <2>1 DEF BuilderType, Building, BuilderRemembers
<1>5. CASE imap = {}
  <2>1. imap' = {i} /\ UNCHANGED <<ynab, ynab_accounts, status, config>>
    BY <1>5 DEF imap_with_port, i
  <2>2. Building'
    BY <1>1, <1>2, <1>3, <1>5, <2>1 DEF Building, Holds
  <2>. QED  BY <1>1, <1>3, <2>1, <2>2 DEF BuilderType, BuilderRemembers
<1>. QED  BY <1>4, <1>5

LEMMA YnabStep ==
    ASSUME BuilderInv, NEW t \in Tokens, NEW b \in Budgets, ynab_access(t, b)
    PROVE  BuilderInv'
<1>. DEFINE y == [token |-> t, budget |-> b]
<1>. USE DEF BuilderInv
<1>1. y \in YNAB /\ status = "building" /\ given' = [given EXCEPT !.ynab = Append(@, y)]
  BY DEF ynab_access, YNAB
<1>2. /\ given'.ynab = Append(given.ynab, y) /\ given'.imap = given.imap
      /\ given'.account = given.account /\ given.ynab \in Seq(YNAB)
  BY <1>1 DEF BuilderType
<1>. HIDE DEF y
<1>3. /\ given' \in [imap : Seq(IMAP), ynab : Seq(YNAB), account : Seq(YNABAccount)]
      /\ ynab = {} => given'.ynab = <<y>>
      /\ ynab # {} => Len(given'.ynab) = 2
  <2>1. Holds(ynab, given.ynab, YNAB)
    BY <1>1 DEF Building
  <2>2. /\ Append(given.ynab, y) \in Seq(YNAB)
        /\ ynab = {} => Append(given.ynab, y) = <<y>>
        /\ ynab # {} => Len(Append(given.ynab, y)) = 2
    BY <1>1, <1>2, <2>1, OneMoreCall
  <2>3. given' = [imap |-> given.imap, ynab |-> Append(given.ynab, y), account |-> given.account]
    BY <1>1 DEF BuilderType
  <2>. QED  BY <2>2, <2>3 DEF BuilderType
<1>4. CASE ynab # {}
  <2>1. status' = "AlreadyHaveYNAB" /\ UNCHANGED <<imap, ynab, ynab_accounts, config>>
    BY <1>4 DEF ynab_access, Fails
  <2>. QED  BY <1>1, <1>3, <1>4, <2>1 DEF BuilderType, Building, BuilderRemembers
<1>5. CASE ynab = {}
  <2>1. ynab' = {y} /\ UNCHANGED <<imap, ynab_accounts, status, config>>
    BY <1>5 DEF ynab_access, y
  <2>2. Building'
    BY <1>1, <1>2, <1>3, <1>5, <2>1 DEF Building, Holds
  <2>. QED  BY <1>1, <1>3, <2>1, <2>2 DEF BuilderType, BuilderRemembers
<1>. QED  BY <1>4, <1>5

LEMMA AccountStep ==
    ASSUME BuilderInv, NEW id \in AccountIds, NEW parser \in Parsers,
           ynab_account(id, parser)
    PROVE  BuilderInv'
<1>. DEFINE a == [id |-> id, parser |-> parser]
<1>. USE DEF BuilderInv
<1>1. /\ a \in YNABAccount /\ status = "building"
      /\ given' = [given EXCEPT !.account = Append(@, a)]
      /\ ynab_accounts' = Append(ynab_accounts, a)
      /\ UNCHANGED <<imap, ynab, status, config>>
  BY DEF ynab_account, YNABAccount
<1>2. /\ given'.account = Append(given.account, a) /\ given'.imap = given.imap
      /\ given'.ynab = given.ynab
  BY <1>1 DEF BuilderType
<1>. HIDE DEF a
<1>3. BuilderType'
  <2>1. given' = [imap |-> given.imap, ynab |-> given.ynab,
                  account |-> Append(given.account, a)]
    BY <1>1 DEF BuilderType
  <2>2. \A s \in Seq(YNABAccount) : Append(s, a) \in Seq(YNABAccount)
    BY <1>1
  <2>3. given'.account \in Seq(YNABAccount) /\ ynab_accounts' \in Seq(YNABAccount)
    BY <1>1, <1>2, <2>2 DEF BuilderType
  <2>4. given' \in [imap : Seq(IMAP), ynab : Seq(YNAB), account : Seq(YNABAccount)]
    BY <1>2, <2>1, <2>3 DEF BuilderType
  <2>. QED  BY <2>3, <2>4 DEF BuilderType
<1>4. Building'
  BY <1>1, <1>2 DEF Building, Holds
<1>. QED  BY <1>1, <1>3, <1>4 DEF BuilderRemembers

(* What is missing has not been given.                                     *)
LEMMA BuildStep ==
    ASSUME BuilderInv, build
    PROVE  BuilderInv'
<1>. USE DEF BuilderInv
<1>1. status = "building" /\ UNCHANGED <<imap, ynab, ynab_accounts, given>>
  BY DEF build, Fails
<1>2. /\ Holds(imap, given.imap, IMAP) /\ Holds(ynab, given.ynab, YNAB)
      /\ ynab_accounts = given.account
  BY <1>1 DEF Building
<1>3. BuilderType'
  BY <1>1 DEF BuilderType
<1>4. CASE validate
  <2>1. PICK i \in IMAP : imap = {i} /\ given.imap = <<i>>
    BY <1>2, <1>4 DEF validate, Holds
  <2>2. PICK y \in YNAB : ynab = {y} /\ given.ynab = <<y>>
    BY <1>2, <1>4 DEF validate, Holds
  <2>. DEFINE c == [imap |-> i, ynab |-> y, accounts |-> ynab_accounts]
  <2>3. config' = {c} /\ status' = "built"
    BY <1>4, <2>1, <2>2 DEF build
  <2>4. given' = [imap |-> <<c.imap>>, ynab |-> <<c.ynab>>, account |-> c.accounts]
    BY <1>1, <1>2, <2>1, <2>2 DEF BuilderType
  <2>5. c.accounts # <<>>
    BY <1>4 DEF validate
  <2>. QED  BY <1>3, <2>3, <2>4, <2>5 DEF Building, BuilderRemembers
<1>5. CASE ~validate
  <2>1. status' = Missing /\ UNCHANGED config
    BY <1>5 DEF build, Fails
  <2>2. config' = {}
    BY <1>1, <2>1 DEF BuilderRemembers
  <2>3. CASE imap = {}
    <3>1. status' = "NoIMAP" /\ given.imap = <<>>
      BY <1>2, <2>1, <2>3 DEF Missing, Holds
    <3>. QED  BY <1>1, <1>3, <2>2, <3>1 DEF Building, BuilderRemembers
  <2>4. CASE imap # {} /\ ynab = {}
    <3>1. status' = "NoYNAB" /\ given.ynab = <<>> /\ given.imap # <<>>
      BY <1>2, <2>1, <2>4 DEF Missing, Holds
    <3>. QED  BY <1>1, <1>3, <2>2, <3>1 DEF Building, BuilderRemembers
  <2>5. CASE imap # {} /\ ynab # {}
    <3>1. status' = "NoAccounts" /\ given.account = <<>>
      BY <1>2, <1>5, <2>1, <2>5 DEF Missing, validate
    <3>. QED  BY <1>1, <1>3, <2>2, <3>1 DEF Building, BuilderRemembers
  <2>. QED  BY <2>3, <2>4, <2>5
<1>. QED  BY <1>4, <1>5
-----------------------------------------------------------------------------
LEMMA LibraryStep ==
    ASSUME BuilderInv, LibraryCall
    PROVE  BuilderInv'
<1>1. ASSUME NEW server \in Servers, imap_default(server) PROVE BuilderInv'
  BY <1>1, ImapStep, BuilderAssumption DEF imap_default
<1>2. ASSUME NEW server \in Servers, NEW port \in Ports, imap_with_port(server, port)
      PROVE  BuilderInv'
  BY <1>2, ImapStep
<1>3. ASSUME NEW t \in Tokens, NEW b \in Budgets, ynab_access(t, b)
      PROVE  BuilderInv'
  BY <1>3, YnabStep
<1>4. ASSUME NEW id \in AccountIds, NEW parser \in Parsers, ynab_account(id, parser)
      PROVE  BuilderInv'
  BY <1>4, AccountStep
<1>. QED  BY <1>1, <1>2, <1>3, <1>4, BuildStep DEF LibraryCall

-----------------------------------------------------------------------------
(* The wizard.                                                             *)
Dialogue == {"token", "findBudgets", "confirmBudget", "chooseBudget", "findAccounts",
             "confirmAccount", "chooseAccounts", "chooseParser"}
Building_config == {"imap", "ynab", "accounts", "report"}

WizardType ==
    /\ place \in Dialogue \union Building_config \union {"exited", "library"}
    /\ budgets \in Seq(Budgets) /\ accounts \in Seq(AccountIds)
    /\ picked \in Seq(AccountIds) /\ parsers \in Seq(Parsers)
    /\ token \in SUBSET Tokens /\ budget \in SUBSET Budgets

(* What the user has decided at each place.                                *)
Decided ==
    /\ place \in (Dialogue \ {"token"}) \union Building_config => \E t \in Tokens : token = {t}
    /\ place \in {"findAccounts", "confirmAccount", "chooseAccounts", "chooseParser"}
                  \union Building_config => \E b \in Budgets : budget = {b}
    /\ place \in Dialogue \ {"chooseParser"} => picked = <<>> /\ parsers = <<>>
    /\ place = "chooseParser" => Len(parsers) < Len(picked)
    /\ place \in Building_config => Len(parsers) = Len(picked)
    /\ place \in Building_config => (picked = <<>> => Len(accounts) <= 1)
    /\ \A i \in DOMAIN picked : Owner[picked[i]] \in budget
    /\ place = "confirmAccount" => Len(accounts) = 1
    /\ place \in {"confirmAccount", "chooseAccounts"} =>
           \A i \in DOMAIN accounts : Owner[accounts[i]] \in budget

(* What the builder has been given at each place.                          *)
Pair(i) == [id |-> picked[i], parser |-> parsers[i]]

Given ==
    /\ place \in Dialogue \union {"imap"} =>
           status = "building" /\ imap = {} /\ ynab = {} /\ ynab_accounts = <<>>
    /\ place = "ynab" =>
           status = "building" /\ imap # {} /\ ynab = {} /\ ynab_accounts = <<>>
    /\ place = "accounts" =>
           /\ status = "building" /\ imap # {}
           /\ \E t \in token, b \in budget : ynab = {[token |-> t, budget |-> b]}
           /\ Len(ynab_accounts) <= Len(picked)
           /\ \A i \in DOMAIN ynab_accounts : ynab_accounts[i] = Pair(i)
    /\ place = "report" =>
           IF status = "built"
           THEN \E c \in config :
                    /\ {c.ynab.token} = token /\ {c.ynab.budget} = budget
                    /\ Len(c.accounts) = Len(picked)
                    /\ \A i \in DOMAIN picked : c.accounts[i] = Pair(i)
           ELSE status = "NoAccounts" /\ picked = <<>>

WizardInv ==
    /\ WizardType /\ Decided /\ Given
    /\ place # "exited" => exit = {}
    /\ ConfigIsWhatWasChosen

Inv == BuilderInv /\ WizardInv

LEMMA ListsAreSequences ==
    ASSUME NEW S, IsFiniteSet(S), NEW list \in ListsOf(S)
    PROVE  list \in Seq(S)
<1>1. Cardinality(S) \in Nat
  BY FS_CardinalityType
<1>2. PICK n \in 0 .. Cardinality(S) : list \in [1 .. n -> S]
  BY DEF ListsOf
<1>. QED  BY <1>1, <1>2

LEMMA WizardStarts == Init => WizardInv
  BY DEF Init, BuilderInit, WizardInv, WizardType, Decided, Given, ConfigIsWhatWasChosen,
         Dialogue, Building_config

(* The end of the wizard before anything was built.                        *)
LEMMA ExitStep ==
    ASSUME Inv, place \in Dialogue, NEW code \in {2, 3, 4}, Exit(code)
    PROVE  WizardInv'
<1>1. config' = {} /\ exit' = {code} /\ place' = "exited"
  BY DEF Inv, WizardInv, Given, Exit, BuilderInv, BuilderRemembers, builderVars
<1>2. ConfigIsWhatWasChosen'
  BY <1>1 DEF ConfigIsWhatWasChosen
<1>3. WizardType' /\ Decided' /\ Given'
  BY <1>1 DEF Exit, Inv, WizardInv, WizardType, Decided, Given, Dialogue, Building_config
<1>. QED  BY <1>1, <1>2, <1>3 DEF WizardInv

(* Steps of the dialogue, which leave the builder alone.                   *)
LEMMA DialogueStep ==
    ASSUME Inv, UNCHANGED <<builderVars, exit>>, place \in Dialogue,
           place' \in Dialogue \union {"imap"}, WizardType', Decided'
    PROVE  WizardInv'
<1>1. exit' = {} /\ Given'
  BY DEF Inv, WizardInv, Given, builderVars, Dialogue, Building_config
<1>2. ConfigIsWhatWasChosen'
  BY <1>1 DEF ConfigIsWhatWasChosen
<1>. QED  BY <1>1, <1>2 DEF WizardInv

LEMMA AnswerStep ==
    ASSUME Inv, Answer
    PROVE  WizardInv'
<1>. USE DEF Inv, WizardInv
<1>1. ASSUME NEW t \in Tokens, EnterToken(t) PROVE WizardInv'
  <2>1. WizardType' /\ Decided'
    BY <1>1 DEF EnterToken, WizardType, Decided, Dialogue, Building_config
  <2>. QED  BY <1>1, <2>1, DialogueStep DEF EnterToken, Dialogue
<1>2. CASE NoClient
  BY <1>2, ExitStep DEF NoClient, Dialogue
<1>3. ASSUME NEW n \in 1 .. Cardinality(Budgets), ChooseBudget(n) PROVE WizardInv'
  <2>1. budgets[n] \in Budgets
    BY <1>3 DEF ChooseBudget, WizardType
  <2>2. WizardType' /\ Decided'
    BY <1>3, <2>1 DEF ChooseBudget, WizardType, Decided, Dialogue, Building_config
  <2>. QED  BY <1>3, <2>2, DialogueStep DEF ChooseBudget, Dialogue
<1>4. CASE DeclineBudget
  BY <1>4, ExitStep DEF DeclineBudget, Dialogue
<1>5. CASE DeclineAccount
  <2>1. /\ place' = "imap" /\ Len(accounts) = 1 /\ picked = <<>> /\ parsers = <<>>
        /\ UNCHANGED <<token, budgets, accounts, budget, picked, parsers>>
        /\ place = "confirmAccount"
    BY <1>5 DEF DeclineAccount, Decided, Dialogue
  <2>2. WizardType' /\ Len(parsers') = Len(picked')
    BY <2>1 DEF WizardType, Building_config
  <2>3. /\ (\E t \in Tokens : token' = {t}) /\ (\E b \in Budgets : budget' = {b})
        /\ \A i \in DOMAIN picked' : Owner[picked'[i]] \in budget'
    BY <2>1 DEF Decided, Dialogue
  <2>4. Decided'
    <3>1. place' \in Building_config /\ place' \notin Dialogue
      BY <2>1 DEF Dialogue, Building_config
    <3>2. Len(accounts') = 1 /\ Len(accounts') <= 1
      <4>1. accounts' = accounts /\ Len(accounts) = 1
        BY <2>1
      <4>. QED  BY <4>1
    <3>. QED  BY <2>1, <2>2, <2>3, <3>1, <3>2, Zenon DEF Decided
  <2>. QED  BY <1>5, <2>2, <2>4, DialogueStep DEF DeclineAccount, Dialogue
<1>6. ASSUME NEW numbers \in ListsOfNumbers, ChooseAccounts(numbers) PROVE WizardInv'
  <2>1. PICK k \in 1 .. MaxPicks : numbers \in [1 .. k -> 1 .. Cardinality(AccountIds)]
    BY DEF ListsOfNumbers
  <2>0. place \in {"confirmAccount", "chooseAccounts"} /\ parsers = <<>>
    BY <1>6 DEF ChooseAccounts, Decided, Dialogue
  <2>2. /\ \A i \in 1 .. k : numbers[i] \in DOMAIN accounts
        /\ picked' = [i \in 1 .. k |-> accounts[numbers[i]]]
        /\ UNCHANGED <<budget, accounts, parsers>>
        /\ place' = "chooseParser"
    BY <1>6, <2>1 DEF ChooseAccounts, WizardType
  <2>3. picked' \in Seq(AccountIds) /\ Len(picked') = k /\ k > 0
    BY <2>1, <2>2, SetupAssumption DEF WizardType
  <2>4. \A i \in DOMAIN picked' : Owner[picked'[i]] \in budget'
    BY <2>0, <2>1, <2>2 DEF Decided
  <2>5. WizardType' /\ Decided'
    BY <1>6, <2>0, <2>2, <2>3, <2>4 DEF ChooseAccounts, WizardType, Decided, Dialogue, Building_config
  <2>. QED  BY <1>6, <2>5, DialogueStep DEF ChooseAccounts, Dialogue
<1>7. ASSUME NEW parser \in Parsers, ChooseParser(parser) PROVE WizardInv'
  <2>1. /\ place = "chooseParser" /\ place' \in {"chooseParser", "imap"}
        /\ parsers' = Append(parsers, parser)
        /\ Len(parsers) < Len(picked) /\ parsers \in Seq(Parsers) /\ picked \in Seq(AccountIds)
        /\ UNCHANGED <<builderVars, token, budgets, accounts, budget, picked, exit>>
    BY <1>7 DEF ChooseParser, WizardType, Decided
  <2>2. parsers' \in Seq(Parsers) /\ Len(parsers') = Len(parsers) + 1
    BY <2>1
  <2>3. /\ place' = "chooseParser" => Len(parsers') < Len(picked')
        /\ place' = "imap" => Len(parsers') = Len(picked') /\ picked' # <<>>
    BY <1>7, <2>1, <2>2 DEF ChooseParser
  <2>4. WizardType' /\ Decided'
    BY <2>1, <2>2, <2>3 DEF WizardType, Decided, Dialogue, Building_config
  <2>. QED  BY <2>1, <2>4, DialogueStep DEF Dialogue
<1>. QED  BY <1>1, <1>2, <1>3, <1>4, <1>5, <1>6, <1>7 DEF Answer

LEMMA YnabAnswersStep ==
    ASSUME Inv, YnabAnswers
    PROVE  WizardInv'
<1>. USE DEF Inv, WizardInv
<1>1. CASE NoBudgets
  BY <1>1, ExitStep DEF NoBudgets, Dialogue
<1>2. ASSUME NEW list \in ListsOf(Budgets), FindBudgets(list) PROVE WizardInv'
  <2>1. list \in Seq(Budgets)
    BY SetupAssumption, ListsAreSequences
  <2>2. WizardType' /\ Decided'
    BY <1>2, <2>1 DEF FindBudgets, WizardType, Decided, Dialogue, Building_config
  <2>. QED  BY <1>2, <2>2, DialogueStep DEF FindBudgets, Dialogue
<1>3. CASE NoAnswer
  BY <1>3, ExitStep DEF NoAnswer, Dialogue
<1>4. ASSUME NEW list \in ListsOf(AccountIds), FindAccounts(list) PROVE WizardInv'
  <2>1. list \in Seq(AccountIds)
    BY SetupAssumption, ListsAreSequences
  <2>2. WizardType' /\ Decided'
    BY <1>4, <2>1 DEF FindAccounts, WizardType, Decided, Dialogue, Building_config
  <2>. QED  BY <1>4, <2>2, DialogueStep DEF FindAccounts, Dialogue
<1>. QED  BY <1>1, <1>2, <1>3, <1>4 DEF YnabAnswers

(* One account after the other gets its own parser; what build returns is  *)
(* the configuration of all of them, or that there is none.                *)
LEMMA BuildConfigStep ==
    ASSUME Inv, BuildConfig
    PROVE  Inv'
<1>. USE DEF Inv, WizardInv
<1>1. CASE SetImap
  <2>1. BuilderInv'
    BY <1>1, ImapStep, SetupAssumption, BuilderAssumption DEF SetImap, Calls, imap_default
  <2>2. /\ place' = "ynab" /\ status' = "building" /\ imap' # {}
        /\ UNCHANGED <<ynab, ynab_accounts>>
    BY <1>1 DEF SetImap, Calls, imap_default, imap_with_port, Given
  <2>3. WizardType' /\ Decided' /\ Given' /\ exit' = {}
    BY <1>1, <2>2 DEF SetImap, Calls, WizardType, Decided, Given, Dialogue, Building_config
  <2>. QED  BY <2>1, <2>2, <2>3 DEF ConfigIsWhatWasChosen
<1>2. CASE SetYnab
  <2>1. PICK t \in token, b \in budget : ynab_access(t, b)
    BY <1>2 DEF SetYnab, Calls
  <2>2. BuilderInv'
    BY <2>1, YnabStep DEF WizardType
  <2>3. /\ place' = "accounts" /\ status' = "building" /\ UNCHANGED <<imap, ynab_accounts>>
        /\ imap # {} /\ ynab' = {[token |-> t, budget |-> b]} /\ ynab_accounts = <<>>
        /\ UNCHANGED <<token, budgets, accounts, budget, picked, parsers, exit>>
    BY <1>2, <2>1 DEF SetYnab, Calls, ynab_access, Given
  <2>4. Given'
    BY <2>3 DEF Given, Dialogue, Building_config, WizardType
  <2>5. WizardType' /\ Decided' /\ exit' = {}
    BY <1>2, <2>3 DEF SetYnab, Calls, WizardType, Decided, Dialogue, Building_config
  <2>. QED  BY <2>2, <2>3, <2>4, <2>5 DEF ConfigIsWhatWasChosen
<1>3. CASE SetAccount
  <2>. DEFINE k == Len(ynab_accounts) + 1
  <2>1. /\ place = "accounts" /\ place' = "accounts" /\ k \in DOMAIN picked /\ k \in DOMAIN parsers
        /\ ynab_account(picked[k], parsers[k])
        /\ UNCHANGED <<token, budgets, accounts, budget, picked, parsers, exit>>
    BY <1>3 DEF SetAccount, Calls, WizardType, Decided, Building_config, BuilderInv, BuilderType
  <2>2. BuilderInv'
    BY <2>1, AccountStep DEF WizardType
  <2>3. /\ ynab_accounts' = Append(ynab_accounts, Pair(k))
        /\ ynab_accounts \in Seq(YNABAccount) /\ UNCHANGED <<imap, ynab, status>>
    BY <2>1 DEF ynab_account, Pair, BuilderInv, BuilderType
  <2>4. /\ Len(ynab_accounts') = k
        /\ \A i \in 1 .. k : ynab_accounts'[i] = IF i = k THEN Pair(k) ELSE ynab_accounts[i]
    BY <2>3
  <2>5. /\ Len(ynab_accounts') <= Len(picked')
        /\ \A i \in DOMAIN ynab_accounts' : ynab_accounts'[i] = Pair(i)'
    BY <2>1, <2>3, <2>4 DEF Given, Pair, WizardType
  <2>6. Given'
    BY <2>1, <2>3, <2>5 DEF Given, Dialogue, Building_config
  <2>7. WizardType' /\ Decided' /\ exit' = {}
    BY <2>1 DEF WizardType, Decided, Dialogue, Building_config
  <2>. QED  BY <2>1, <2>2, <2>6, <2>7 DEF ConfigIsWhatWasChosen
<1>4. CASE Build
  <2>1. /\ build /\ place = "accounts" /\ place' = "report"
        /\ Len(ynab_accounts) = Len(picked) /\ imap # {} /\ ynab # {}
        /\ UNCHANGED <<token, budgets, accounts, budget, picked, parsers, exit>>
    BY <1>4 DEF Build, Calls, Given
  <2>2. BuilderInv'
    BY <2>1, BuildStep
  <2>3. WizardType' /\ Decided' /\ exit' = {}
    BY <2>1 DEF WizardType, Decided, Dialogue, Building_config
  <2>4. CASE ynab_accounts = <<>>
    <3>1. status' = "NoAccounts" /\ picked = <<>>
      BY <2>1, <2>4 DEF build, validate, Missing, Fails, WizardType
    <3>2. Given'
      BY <2>1, <3>1 DEF Given, Dialogue, Building_config
    <3>. QED  BY <2>1, <2>2, <2>3, <3>2 DEF ConfigIsWhatWasChosen
  <2>5. CASE ynab_accounts # <<>>
    <3>1. PICK i : imap = {i}
      BY <2>1 DEF Given, BuilderInv, Building, Holds
    <3>2. PICK t \in token, b \in budget : ynab = {[token |-> t, budget |-> b]}
      BY <2>1 DEF Given
    <3>3. token = {t} /\ budget = {b}
      BY <2>1, <3>2 DEF Decided, Building_config
    <3>. DEFINE c == [imap |-> i, ynab |-> [token |-> t, budget |-> b], accounts |-> ynab_accounts]
    <3>4. status' = "built" /\ config' = {c}
      BY <2>1, <2>5, <3>1, <3>2 DEF build, validate
    <3>5. /\ {c.ynab.token} = token' /\ {c.ynab.budget} = budget'
          /\ Len(c.accounts) = Len(picked')
      BY <2>1, <3>3
    <3>6. \A j \in DOMAIN picked' : c.accounts[j] = Pair(j)'
      BY <2>1 DEF Given, Pair, WizardType, BuilderInv, BuilderType
    <3>7. Given'
      BY <2>1, <3>4, <3>5, <3>6 DEF Given, Dialogue, Building_config
    <3>. QED  BY <2>1, <2>2, <2>3, <3>7 DEF ConfigIsWhatWasChosen
  <2>. QED  BY <2>4, <2>5
<1>5. CASE Report
  <2>1. /\ place = "report" /\ place' = "exited"
        /\ exit' = {IF status = "built" THEN 0 ELSE 5}
        /\ UNCHANGED <<builderVars, token, budgets, accounts, budget, picked, parsers>>
    BY <1>5 DEF Report, Exit
  <2>2. BuilderInv'
    BY <2>1, BuilderUnchanged
  <2>3. WizardType' /\ Decided' /\ Given'
    BY <2>1 DEF WizardType, Decided, Given, Dialogue, Building_config
  <2>4. CASE status = "built"
    <3>1. PICK c \in config :
              /\ {c.ynab.token} = token /\ {c.ynab.budget} = budget
              /\ Len(c.accounts) = Len(picked)
              /\ \A i \in DOMAIN picked : c.accounts[i] = Pair(i)
      BY <2>1, <2>4 DEF Given
    <3>2. \A i \in DOMAIN picked : Owner[picked[i]] = c.ynab.budget
      BY <3>1 DEF Decided
    <3>3. exit' = {0} /\ UNCHANGED <<config, token, budget, picked, parsers>>
      BY <2>1, <2>4 DEF builderVars
    <3>4. \A j \in DOMAIN picked :
              /\ c.accounts[j] = [id |-> picked[j], parser |-> parsers[j]]
              /\ Owner[picked[j]] = c.ynab.budget
      BY <3>1, <3>2 DEF Pair
    <3>5. \E d \in config' :
              /\ {d.ynab.token} = token' /\ {d.ynab.budget} = budget'
              /\ Len(d.accounts) = Len(picked')
              /\ \A j \in DOMAIN picked' :
                     /\ d.accounts[j] = [id |-> picked'[j], parser |-> parsers'[j]]
                     /\ Owner[picked'[j]] = d.ynab.budget
      BY <3>1, <3>3, <3>4, Zenon
    <3>6. ConfigIsWhatWasChosen'
      <4>1. 5 \notin exit' /\ exit' = {0}
        BY <3>3
      <4>. QED  BY <3>5, <4>1, Zenon DEF ConfigIsWhatWasChosen
    <3>. QED  BY <2>1, <2>2, <2>3, <3>6
  <2>5. CASE status # "built"
    <3>1. status = "NoAccounts" /\ Len(accounts) <= 1
      BY <2>1, <2>5 DEF Given, Decided, Building_config
    <3>2. config = {}
      BY <2>5 DEF BuilderInv, BuilderRemembers
    <3>3. exit' = {5} /\ UNCHANGED <<config, status, accounts>>
      BY <2>1, <2>5 DEF builderVars
    <3>4. ConfigIsWhatWasChosen'
      BY <3>1, <3>2, <3>3 DEF ConfigIsWhatWasChosen
    <3>. QED  BY <2>1, <2>2, <2>3, <3>4
  <2>. QED  BY <2>4, <2>5
<1>. QED  BY <1>1, <1>2, <1>3, <1>4, <1>5 DEF BuildConfig

LEMMA Step == Inv /\ [Next]_vars => Inv'
<1>. SUFFICES ASSUME Inv, [Next]_vars PROVE Inv'
  OBVIOUS
<1>1. ASSUME UNCHANGED builderVars PROVE BuilderInv'
  BY <1>1, BuilderUnchanged DEF Inv
<1>2. CASE Answer
  BY <1>1, <1>2, AnswerStep
     DEF Inv, Answer, EnterToken, NoClient, ChooseBudget, DeclineBudget, DeclineAccount,
         ChooseAccounts, ChooseParser, Exit
<1>3. CASE YnabAnswers
  BY <1>1, <1>3, YnabAnswersStep
     DEF Inv, YnabAnswers, NoBudgets, FindBudgets, NoAnswer, FindAccounts, Exit
<1>4. CASE BuildConfig
  BY <1>4, BuildConfigStep
<1>5. CASE Library
  <2>1. BuilderInv' /\ place = "library" /\ UNCHANGED wizardVars
    BY <1>5, LibraryStep DEF Library, Inv
  <2>2. WizardInv'
    BY <2>1 DEF Inv, WizardInv, WizardType, Decided, Given, ConfigIsWhatWasChosen,
                wizardVars, Dialogue, Building_config
  <2>. QED  BY <2>1, <2>2 DEF Inv
<1>6. CASE UNCHANGED vars
  <2>1. BuilderInv'
    BY <1>1, <1>6 DEF vars
  <2>2. WizardInv'
    <3>1. UNCHANGED <<status, imap, ynab, ynab_accounts, config>> /\ UNCHANGED wizardVars
      BY <1>6 DEF vars, builderVars
    <3>2. WizardType' /\ Decided' /\ (place' # "exited" => exit' = {})
      BY <3>1 DEF Inv, WizardInv, WizardType, Decided, wizardVars
    <3>3. Given' /\ ConfigIsWhatWasChosen'
      BY <3>1 DEF Inv, WizardInv, Given, Pair, ConfigIsWhatWasChosen, wizardVars
    <3>. QED  BY <3>2, <3>3 DEF WizardInv
  <2>. QED  BY <2>1, <2>2 DEF Inv
<1>. QED  BY <1>2, <1>3, <1>4, <1>5, <1>6 DEF Next

LEMMA Invariant == SafeSpec => []Inv
<1>1. Init => Inv
  BY WizardStarts, BuilderStarts DEF Init, Inv
<1>. QED  BY <1>1, Step, PTL DEF SafeSpec

(* The builder keeps what it is given, whoever uses it (build.rs:36-137).  *)
THEOREM BuilderCorrect == SafeSpec => []BuilderRemembers
<1>1. Inv => BuilderRemembers
  BY DEF Inv, BuilderInv
<1>. QED  BY <1>1, Invariant, PTL

(* The wizard succeeds with what its user chose, all of one budget, and    *)
(* fails in the builder only for the lack of accounts (setup.rs:51-270).   *)
THEOREM WizardCorrect == SafeSpec => []ConfigIsWhatWasChosen
<1>1. Inv => ConfigIsWhatWasChosen
  BY DEF Inv, WizardInv
<1>. QED  BY <1>1, Invariant, PTL
=============================================================================
