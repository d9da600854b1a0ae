------------------------------ MODULE MCListener ------------------------------
(***************************************************************************)
(* The mails and accounts of the model of the Listener: one mail for each  *)
(* thing that can become of it.                                            *)
(***************************************************************************)
EXTENDS Listener

MCAccounts == <<"td", "citi", "citi">>

AmountOf(dollars) == [signs |-> 1, dollars |-> dollars, cents |-> 50, plain |-> TRUE]

CitiMail(table, amount) ==
    LET text(is) == [is |-> is, amount |-> amount]
    IN  [parsed |-> TRUE, from |-> "citi",
         root |-> [html |-> TRUE, subparts |-> <<>>,
                   body |-> [readable |-> TRUE, table |-> table,
                             cells |-> <<text("Merchant"), text("other"),
                                         text("Date"), text("date"),
                                         text("amount")>>,
                             purchase |-> "missing", items |-> <<>>]]]

Paid == CitiMail(TRUE, AmountOf(4))
Overflowing == CitiMail(TRUE, AmountOf(5))
Authorization == CitiMail(TRUE, [AmountOf(0) EXCEPT !.cents = 0])
WithoutTable == CitiMail(FALSE, AmountOf(4))
Newsletter == [Paid EXCEPT !.from = "other"]

MCMails == {Paid, Overflowing, Authorization, WithoutTable, Newsletter}
MCParts == {mail.root : mail \in MCMails}
=============================================================================
