-------------------------------- MODULE Parsers --------------------------------
(***************************************************************************)
(* What becomes of a mail: src/src/parse.rs and the parsers below it look  *)
(* for a transaction, and try_parse_email of src/src/main.rs asks the      *)
(* parser of one account after the other.                                  *)
(*                                                                         *)
(* A mail is abstracted to what decides these outcomes; payees and dates   *)
(* are only found or missed, a transaction is the text of its amount.  An  *)
(* Option of the code is a set: {} is None, {x} is Some(x).                *)
(***************************************************************************)
EXTENDS Ynab, Sequences, SequencesExt

CONSTANTS
    Parts,              \* the parts that mails are made of
    MaxParts            \* bound: the parts of a mail

(* A text node: a label, a date, an "Amount: " line or anything else, and  *)
(* what remains of it as an amount without that prefix.                    *)
Text == [is : {"Merchant", "Date", "date", "amount", "other"},
         amount : AmountText]

(* A decoded HTML document: whether it has a presentation table, the texts *)
(* of the cells of the first one, the line that tells the date of a        *)
(* purchase, and the texts of the list items.                              *)
Body == [readable : BOOLEAN, table : BOOLEAN, cells : Seq(Text),
         purchase : {"missing", "noDate", "badDate", "dated"},
         items : Seq(Text)]

ASSUME PartsAssumption ==
    Parts \subseteq [html : BOOLEAN, body : Body, subparts : Seq(Parts)]
ASSUME MaxPartsAssumption == MaxParts \in Nat

Banks == {"citi", "td"}

(* The search for HTML is over: there is nothing left, or it is found.     *)
Over(to_visit) == to_visit = <<>> \/ to_visit[1].html

(* Defect: depth first.                                                    *)
VisitDepthFirst(to_visit) ==
    IF Over(to_visit)
    THEN to_visit
    ELSE to_visit[1].subparts \o Tail(to_visit)

(* One turn of the search: a part that is HTML stays at the head.          *)
Visit(to_visit) ==
    IF Over(to_visit)
    THEN to_visit
    ELSE Tail(to_visit) \o to_visit[1].subparts

Search(root) ==
    LET to_visit[n \in Nat] ==
            IF n = 0 THEN <<root>> ELSE Visit(to_visit[n - 1])
    IN  to_visit[MaxParts]

find_html_subpart(root) ==
    IF Search(root) = <<>> THEN {} ELSE {Head(Search(root))}

(* `parsed' is FALSE for a mail that is not a MIME message.                *)
Mail == {mail \in [parsed : BOOLEAN, from : Banks \union {"other"}, root : Parts] :
            Over(Search(mail.root))}
-----------------------------------------------------------------------------
Ok(amount) == [tag |-> "ok", amount |-> amount]
Err == [tag |-> "err"]
Panic == [tag |-> "panic"]

(* The texts are taken in pairs, and labels looked for in the left halves. *)
find_table_value_with_label(texts, label) ==
    LET lefts == {i \in 1 .. Len(texts) - 1 :
                    i % 2 = 1 /\ texts[i].is = label}
    IN  {texts[i + 1] : i \in {j \in lefts : \A k \in lefts : j <= k}}

find_amount_from_table_text(texts) ==
    LET i == SelectInSeq(texts, LAMBDA text : text.is = "amount")
    IN  IF i = 0 THEN {} ELSE {texts[i].amount}

ParseCiti(body) ==
    LET amount == find_amount_from_table_text(body.cells)
        payee  == find_table_value_with_label(body.cells, "Merchant")
        date   == find_table_value_with_label(body.cells, "Date")
    IN  IF ~body.table
        THEN Panic                                      \* table.unwrap()
        ELSE IF amount # {} /\ payee # {} /\ \E d \in date : d.is = "date"
        THEN Ok(CHOOSE a \in amount : TRUE)
        ELSE Err

(* The second item is taken for the amount, whatever it says, and gets a   *)
(* dollar sign in front.                                                   *)
ParseTD(body) ==
    IF body.purchase = "dated" /\ Len(body.items) = 2
    THEN Ok([body.items[2].amount EXCEPT !.signs = @ + 1])
    ELSE Err

ParseBody(bank, body) == IF bank = "citi" THEN ParseCiti(body) ELSE ParseTD(body)

(* Defect: the sender is not looked at.                                    *)
parse_email_of_anyone(bank, mail) ==
    LET part == find_html_subpart(mail.root)
    IN  IF mail.parsed /\ \E p \in part : p.body.readable
        THEN ParseBody(bank, (CHOOSE p \in part : TRUE).body)
        ELSE Err

parse_transaction_email(bank, mail) ==
    LET part == find_html_subpart(mail.root)
    IN  IF /\ mail.parsed
           /\ mail.from = bank
           /\ \E p \in part : p.body.readable
        THEN ParseBody(bank, (CHOOSE p \in part : TRUE).body)
        ELSE Err

(* Defect: the last account that does not refuse the mail.                 *)
last_settling_account(accounts, mail) ==
    SelectLastInSeq(accounts,
        LAMBDA bank : parse_transaction_email(bank, mail).tag # "err")

(* The accounts are given by their parsers.  The first that does not       *)
(* refuse the mail settles it, by a transaction or by a panic; 0 is none.  *)
settling_account(accounts, mail) ==
    SelectInSeq(accounts,
        LAMBDA bank : parse_transaction_email(bank, mail).tag # "err")

Nothing == [account |-> 0, answer |-> Err]

try_parse_email(accounts, mail) ==
    LET i == settling_account(accounts, mail)
    IN  IF i = 0
        THEN Nothing
        ELSE [account |-> i, answer |-> parse_transaction_email(accounts[i], mail)]
=============================================================================
