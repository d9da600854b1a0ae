------------------------------- MODULE MCParsers -------------------------------
(***************************************************************************)
(* The mails of the model of Parsing: trees of parts, every combination of *)
(* what may be wrong with one part, and amounts around the limit.          *)
(***************************************************************************)
EXTENDS Parsing

CONSTANT MaxDollars     \* bound: the dollars of an amount

ASSUME MaxDollarsAssumption == MaxDollars \in Nat

OneDollar == [signs |-> 1, dollars |-> 1, cents |-> 0, plain |-> TRUE]
Garbage == [OneDollar EXCEPT !.plain = FALSE]

T(is) == [is |-> is, amount |-> Garbage]
AmountOf(text) == [is |-> "amount", amount |-> text]

CitiCells(text) ==
    <<AmountOf(text), T("other"), T("Merchant"), T("other"), T("Date"), T("date")>>

Cells == {CitiCells(OneDollar), <<T("other")>> \o CitiCells(OneDollar),
          Tail(Tail(CitiCells(OneDollar))),
          [CitiCells(OneDollar) EXCEPT ![6] = T("other")]}

Items(text) == <<T("other"), AmountOf(text)>>

Good(text) == [readable |-> TRUE, table |-> TRUE, cells |-> CitiCells(text),
               purchase |-> "dated", items |-> Items(text)]

Bodies == [readable : BOOLEAN, table : BOOLEAN, cells : Cells,
           purchase : {"missing", "noDate", "badDate", "dated"},
           items : {<<>>, Tail(Items(OneDollar)), Items(OneDollar),
                    Reverse(Items(OneDollar)),
                    Items(OneDollar) \o Items(OneDollar)}]

Part(html, body, subparts) ==
    [html |-> html, body |-> body, subparts |-> subparts]

(* Trees of three levels, with two kinds of HTML parts to be told apart.   *)
Plain(subparts) == Part(FALSE, Good(OneDollar), subparts)
Leaves == {Plain(<<>>), Part(TRUE, Good(OneDollar), <<>>),
           Part(TRUE, Good(Garbage), <<>>)}
Branches == {Plain(subparts) : subparts \in SeqOf(Leaves, 2)}
Trees == {Plain(subparts) : subparts \in SeqOf(Leaves \union Branches, 2)}
         \union {Part(TRUE, Good(OneDollar), <<leaf>>) : leaf \in Leaves}

AmountTexts == [signs : 0 .. 2, dollars : 0 .. MaxDollars,
                cents : {0, 1, 9, 10, 50, 99}, plain : BOOLEAN]

Single == {Part(TRUE, body, <<>>) : body \in Bodies}
Amounts == {Part(TRUE, Good(text), <<>>) : text \in AmountTexts}

MCParts == Leaves \union Branches \union Trees \union Single \union Amounts

MCMails ==
    [parsed : {TRUE}, from : {"citi"}, root : Trees]
    \union [parsed : BOOLEAN, from : Banks \union {"other"}, root : Single]
    \union [parsed : {TRUE}, from : Banks, root : Amounts]

MCAccountLists == {<<"td", "citi">>, <<"citi", "td", "citi">>, <<"citi">>}
=============================================================================
