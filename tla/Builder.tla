------------------------------- MODULE Builder -------------------------------
(***************************************************************************)
(* The builder of configurations of src/src/config/build.rs, as any        *)
(* program may use it: its methods are called in any order.  A method that *)
(* fails consumes the builder, and so does build.                          *)
(***************************************************************************)
EXTENDS Naturals, Sequences

CONSTANTS
    Servers,            \* IMAP servers, each with its user and password
    Ports,              \* 16-bit port numbers
    DefaultPort,        \* defaults::port()
    Tokens, Budgets,    \* what YNAB is accessed with
    AccountIds, Parsers,
    MaxAccounts         \* bound: accounts given to one builder

ASSUME BuilderAssumption ==
    /\ DefaultPort \in Ports
    /\ MaxAccounts \in Nat

(* The configuration.  The log level is always the default.                *)
IMAP        == [server : Servers, port : Ports]
YNAB        == [token : Tokens, budget : Budgets]
YNABAccount == [id : AccountIds, parser : Parsers]

VARIABLES
    imap, ynab,         \* options: sets of at most one element
    ynab_accounts,
    status,             \* "building", "built", or the error of the last call
    config,             \* what build returned, an option
    given               \* history: the arguments of all calls, by method

builderVars == <<imap, ynab, ynab_accounts, status, config, given>>

BuilderInit ==
    /\ imap = {} /\ ynab = {} /\ ynab_accounts = <<>>
    /\ status = "building"
    /\ config = {}
    /\ given = [imap |-> <<>>, ynab |-> <<>>, account |-> <<>>]

(* The builder is gone, and the caller has an error instead.               *)
Fails(error) ==
    /\ status' = error
    /\ UNCHANGED <<imap, ynab, ynab_accounts, config>>

imap_with_port(server, port) ==
    LET imap_config == [server |-> server, port |-> port]
    IN  /\ status = "building"
        /\ given' = [given EXCEPT !.imap = Append(@, imap_config)]
        /\ \/ imap # {} /\ Fails("AlreadyHaveIMAP")
           \/ /\ imap = {}
              /\ imap' = {imap_config}
              /\ UNCHANGED <<ynab, ynab_accounts, status, config>>

imap_default(server) == imap_with_port(server, DefaultPort)

(* Defect: the accounts are kept inside the YNAB configuration, which a    *)
(* later call of this method replaces.                                     *)
ynab_anew(token, budget) ==
    LET ynab_config == [token |-> token, budget |-> budget]
    IN  /\ status = "building"
        /\ given' = [given EXCEPT !.ynab = Append(@, ynab_config)]
        /\ \/ ynab # {} /\ Fails("AlreadyHaveYNAB")
           \/ /\ ynab = {}
              /\ ynab' = {ynab_config}
              /\ ynab_accounts' = <<>>
              /\ UNCHANGED <<imap, status, config>>

ynab_access(token, budget) ==
    LET ynab_config == [token |-> token, budget |-> budget]
    IN  /\ status = "building"
        /\ given' = [given EXCEPT !.ynab = Append(@, ynab_config)]
        /\ \/ ynab # {} /\ Fails("AlreadyHaveYNAB")
           \/ /\ ynab = {}
              /\ ynab' = {ynab_config}
              /\ UNCHANGED <<imap, ynab_accounts, status, config>>

ynab_account(id, parser) ==
    LET account == [id |-> id, parser |-> parser]
    IN  /\ status = "building"
        /\ Len(ynab_accounts) < MaxAccounts
        /\ given' = [given EXCEPT !.account = Append(@, account)]
        /\ ynab_accounts' = Append(ynab_accounts, account)
        /\ UNCHANGED <<imap, ynab, status, config>>

(* What validate finds missing first.                                      *)
Missing ==
    CASE imap = {}                -> "NoIMAP"
      [] imap # {} /\ ynab = {}   -> "NoYNAB"
      [] OTHER                    -> "NoAccounts"

validate == imap # {} /\ ynab # {} /\ ynab_accounts # <<>>

build ==
    /\ status = "building"
    /\ UNCHANGED given
    /\ \/ ~validate /\ Fails(Missing)
       \/ /\ validate
          /\ config' = {[imap |-> i, ynab |-> y, accounts |-> ynab_accounts] :
                            i \in imap, y \in ynab}
          /\ status' = "built"
          /\ UNCHANGED <<imap, ynab, ynab_accounts>>

(* Any call, by a program of which nothing else is known.                  *)
LibraryCall ==
    \/ \E server \in Servers :
           imap_default(server) \/ \E port \in Ports : imap_with_port(server, port)
    \/ \E token \in Tokens, budget \in Budgets : ynab_access(token, budget)
    \/ \E id \in AccountIds, parser \in Parsers : ynab_account(id, parser)
    \/ build
-----------------------------------------------------------------------------
(* A configuration is built of everything that was given, each part once   *)
(* and the accounts in their order, whatever the order of the calls; and a *)
(* failure names what was given twice or not at all (build.rs:36-137).     *)
BuilderRemembers ==
    /\ status = "built" =>
           \E c \in config :
               /\ config = {c}
               /\ given = [imap |-> <<c.imap>>, ynab |-> <<c.ynab>>,
                           account |-> c.accounts]
               /\ c.accounts # <<>>
    /\ status # "built"           => config = {}
    /\ status = "AlreadyHaveIMAP" => Len(given.imap) = 2
    /\ status = "AlreadyHaveYNAB" => Len(given.ynab) = 2
    /\ status = "NoIMAP"          => given.imap = <<>>
    /\ status = "NoYNAB"          => given.ynab = <<>> /\ given.imap # <<>>
    /\ status = "NoAccounts"      => given.account = <<>>
=============================================================================
