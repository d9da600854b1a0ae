-------------------------------- MODULE Parsing --------------------------------
(***************************************************************************)
(* The way of one mail through the program: from the parsers of the        *)
(* configured accounts to the conversion of the amount they find.          *)
(***************************************************************************)
EXTENDS Parsers

CONSTANTS
    Mails,              \* the mails that may come
    AccountLists        \* the parsers of the accounts, as configured

ASSUME MailsAssumption == Mails \subseteq Mail
ASSUME AccountListsAssumption == AccountLists \subseteq Seq(Banks)

VARIABLES mail, accounts, stage, result, milliunits

vars == <<mail, accounts, stage, result, milliunits>>

Init ==
    /\ mail \in Mails
    /\ accounts \in AccountLists
    /\ stage = "received"
    /\ result = Nothing
    /\ milliunits = {}

Parse ==
    /\ stage = "received"
    /\ stage' = "parsed"
    /\ result' = try_parse_email(accounts, mail)
    /\ UNCHANGED <<mail, accounts, milliunits>>

Convert ==
    /\ stage = "parsed" /\ result.answer.tag = "ok"
    /\ stage' = "converted"
    /\ milliunits' = convert_amount_to_ynab_form(result.answer.amount)
    /\ UNCHANGED <<mail, accounts, result>>

Spec == Init /\ [][Parse \/ Convert]_vars
-----------------------------------------------------------------------------
(* The levels of the tree below a part, from the top.                      *)
Level(root, depth) ==
    LET level[d \in Nat] ==
            IF d = 0 THEN <<root>>
            ELSE FlattenSeq([i \in 1 .. Len(level[d - 1]) |->
                                level[d - 1][i].subparts])
    IN  level[depth]

FirstHtml(level) == SelectInSeq(level, LAMBDA part : part.html)

(* The parser reads the leftmost HTML part of the highest level that has   *)
(* one, and finds one if there is one (parse.rs, find_html_subpart).       *)
ShallowestHtml ==
    LET depths == {d \in 0 .. MaxParts : FirstHtml(Level(mail.root, d)) # 0}
        top == {d \in depths : \A e \in depths : d <= e}
    IN  find_html_subpart(mail.root) =
            {Level(mail.root, d)[FirstHtml(Level(mail.root, d))] : d \in top}

(* Only an account with the parser of the mail's bank is billed, and of    *)
(* several the first.  What is found in the mail, and so which of these    *)
(* there are, depends on no account of another bank and on no order: a     *)
(* list with the same parsers, however often and in whatever order, finds  *)
(* the same, for the account that is the first of the bank in that list    *)
(* (main.rs, try_parse_email; has_correct_sender of parse.rs).             *)
BilledIsFirstOfItsBank(list, found) ==
    found.account # 0 =>
        /\ list[found.account] = mail.from
        /\ \A a \in 1 .. found.account - 1 : list[a] # mail.from

FirstOfItsBankSettles ==
    stage # "received" =>
        /\ BilledIsFirstOfItsBank(accounts, result)
        /\ \A others \in AccountLists :
            Range(others) = Range(accounts) =>
                LET found == try_parse_email(others, mail)
                IN  /\ found.answer = result.answer
                    /\ BilledIsFirstOfItsBank(others, found)

(* A text is converted to exactly the amount it stands for, and refused    *)
(* only if it is malformed or the amount does not fit (ynab.rs,            *)
(* convert_amount_to_ynab_form).                                           *)
AmountIsExact ==
    stage = "converted" => milliunits = ExactMilliunits(result.answer.amount)

(* A parser that finds no transaction answers with an error (parse.rs:30:  *)
(* "If no transaction data is found, an Error is returned").               *)
ParserReturns == result.answer.tag # "panic"
=============================================================================
