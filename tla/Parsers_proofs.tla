----------------------------- MODULE Parsers_proofs -----------------------------
(***************************************************************************)
(* Proofs about what becomes of a mail, for every mail: what the search    *)
(* for HTML visits, what a parser can answer, which account settles a      *)
(* mail, and that the conversion of amounts is exact, for every width of   *)
(* the integers.                                                           *)
(*                                                                         *)
(* The search is a recursive function.  The theorems of the library about  *)
(* induction and recursion take operators, which the provers cannot        *)
(* instantiate; the first lemmas state what is needed of them for sets and *)
(* functions, from the theorem that a well-founded relation has minima.    *)
(***************************************************************************)
EXTENDS Parsers, SequenceTheorems, WellFoundedInduction, TLAPS

(* Induction and recursion over the natural numbers.                       *)

LEMMA LeastElement ==
    ASSUME NEW T, T \subseteq Nat, T # {}
    PROVE  /\ Min(T) \in T
           /\ \A x \in T : Min(T) <= x
<1> DEFINE R == {pair \in Nat \X Nat : pair[1] < pair[2]}
<1>1. \E m \in T : \A x \in T : ~(<<x, m>> \in R)
  <2>1. IsWellFoundedOn(R, Nat)
    BY NatLessThanWellFounded, Zenon DEF OpToRel
  <2> HIDE DEF R
  <2> QED  BY <2>1, WFMin
<1>2. \E m \in T : \A x \in T : m <= x
  <2>1. PICK m \in T : \A x \in T : ~(<<x, m>> \in R)
    BY <1>1
  <2>2. ASSUME NEW x \in T
        PROVE  m <= x
    <3>1. x \in Nat /\ m \in Nat
      OBVIOUS
    <3>2. ~(x < m)
      BY <2>1, <3>1
    <3> QED  BY <3>1, <3>2
  <2> QED  BY <2>2
<1> QED  BY <1>2 DEF Min

LEMMA NatInductive ==
    ASSUME NEW S, 0 \in S, \A n \in Nat : n \in S => n + 1 \in S
    PROVE  Nat \subseteq S
<1> SUFFICES ASSUME Nat \ S # {} PROVE FALSE
  OBVIOUS
<1> DEFINE m == Min(Nat \ S)
<1>1. m \in Nat \ S /\ \A x \in Nat \ S : m <= x
  BY LeastElement, Zenon
<1> HIDE DEF m
<1>2. m - 1 \in Nat
  BY <1>1
<1>3. m - 1 \in S
  BY <1>1, <1>2
<1> QED  BY <1>1, <1>2, <1>3

(* A step may depend on how many were made before it.                      *)
IsRun(g, S, start, step) ==
    /\ g \in [Nat -> S]
    /\ g[0] = start
    /\ \A n \in Nat : g[n + 1] = step[n][g[n]]

LEMMA Recursion ==
    ASSUME NEW S, NEW start \in S, NEW step \in [Nat -> [S -> S]]
    PROVE  \E g : IsRun(g, S, start, step)
<1> DEFINE Prefix(n) == {h \in [0 .. n -> S] :
                            /\ h[0] = start
                            /\ \A i \in 0 .. n - 1 : h[i + 1] = step[i][h[i]]}
<1>1. \A n \in Nat : Prefix(n) # {}
  <2> DEFINE Good == {n \in Nat : Prefix(n) # {}}
  <2>1. 0 \in Good
    <3>1. [i \in 0 .. 0 |-> start] \in Prefix(0)
      OBVIOUS
    <3> QED  BY <3>1
  <2>2. ASSUME NEW n \in Nat, n \in Good
        PROVE  n + 1 \in Good
    <3>1. PICK h \in [0 .. n -> S] :
              /\ h[0] = start
              /\ \A i \in 0 .. n - 1 : h[i + 1] = step[i][h[i]]
      BY <2>2
    <3> DEFINE k == [i \in 0 .. n + 1 |-> IF i <= n THEN h[i] ELSE step[n][h[n]]]
    <3>2. h[n] \in S /\ step[n][h[n]] \in S
      <4>1. h[n] \in S
        BY <3>1
      <4> QED  BY <4>1
    <3>3. k \in [0 .. n + 1 -> S] /\ k[0] = start
      <4>1. ASSUME NEW i \in 0 .. n + 1
            PROVE  (IF i <= n THEN h[i] ELSE step[n][h[n]]) \in S
        BY <3>2
      <4> QED  BY <3>1, <4>1
    <3>4. ASSUME NEW i \in 0 .. (n + 1) - 1
          PROVE  k[i + 1] = step[i][k[i]]
      <4>1. CASE i = n
        BY <4>1
      <4>2. CASE i # n
        <5>1. i \in 0 .. n - 1
          BY <4>2
        <5>2. k[i + 1] = h[i + 1] /\ k[i] = h[i]
          BY <5>1
        <5> QED  BY <3>1, <5>1, <5>2
      <4> QED  BY <4>1, <4>2
    <3>5. k \in Prefix(n + 1)
      BY <3>3, <3>4
    <3> HIDE DEF k, Prefix
    <3> QED  BY <3>5
  <2> HIDE DEF Good
  <2>3. Nat \subseteq Good
    BY <2>1, <2>2, NatInductive
  <2> QED  BY <2>3 DEF Good
<1>2. \A n \in Nat : \A h \in Prefix(n), k \in Prefix(n + 1) : h[n] = k[n]
  <2> SUFFICES ASSUME NEW n \in Nat, NEW h \in Prefix(n), NEW k \in Prefix(n + 1)
               PROVE  h[n] = k[n]
    OBVIOUS
  <2> DEFINE Same == {i \in Nat : i <= n => h[i] = k[i]}
  <2>1. 0 \in Same
    OBVIOUS
  <2>2. ASSUME NEW i \in Nat, i \in Same
        PROVE  i + 1 \in Same
    <3> SUFFICES ASSUME i + 1 <= n PROVE h[i + 1] = k[i + 1]
      OBVIOUS
    <3>1. h[i] = k[i] /\ i \in 0 .. n - 1 /\ i \in 0 .. (n + 1) - 1
      BY <2>2
    <3> QED  BY <3>1
  <2> HIDE DEF Same
  <2>3. n \in Same
    BY <2>1, <2>2, NatInductive
  <2> QED  BY <2>3 DEF Same
<1> DEFINE g == [n \in Nat |-> (CHOOSE h \in Prefix(n) : TRUE)[n]]
           P(n) == CHOOSE h \in Prefix(n) : TRUE
<1>3. \A n \in Nat : P(n) \in Prefix(n)
  BY <1>1
<1>4. \A n \in Nat : g[n] = P(n)[n]
  OBVIOUS
<1> HIDE DEF P, g
<1>5. g \in [Nat -> S]
  <2>1. \A n \in Nat : P(n)[n] \in S
    BY <1>3
  <2> QED  BY <2>1 DEF g, P
<1>6. g[0] = start
  BY <1>3, <1>4
<1>7. ASSUME NEW n \in Nat
      PROVE  g[n + 1] = step[n][g[n]]
  <2>1. g[n + 1] = P(n + 1)[n + 1] /\ g[n] = P(n)[n]
    BY <1>4
  <2>2. P(n)[n] = P(n + 1)[n]
    <3>1. P(n) \in Prefix(n) /\ P(n + 1) \in Prefix(n + 1)
      BY <1>3
    <3> HIDE DEF Prefix
    <3> QED  BY <1>2, <3>1
  <2>3. P(n + 1)[n + 1] = step[n][P(n + 1)[n]]
    BY <1>3
  <2> QED  BY <2>1, <2>2, <2>3
<1>8. IsRun(g, S, start, step)
  BY <1>5, <1>6, <1>7 DEF IsRun
<1> QED  BY <1>8, Zenon
-----------------------------------------------------------------------------
(* The conversion of amounts.                                              *)

(* Whatever a parser found, YNAB is told exactly the amount it stands for, *)
(* or nothing because it is malformed or does not fit: no step of the      *)
(* conversion overflows unless the result does (ynab.rs,                   *)
(* convert_amount_to_ynab_form).                                           *)
THEOREM ConversionIsExact ==
    ASSUME NEW text \in AmountText
    PROVE  convert_amount_to_ynab_form(text) = ExactMilliunits(text)
<1> DEFINE d == text.dollars
           c == text.cents
<1>1. d \in Nat /\ c \in 0 .. 99 /\ text.signs \in Nat /\ text.plain \in BOOLEAN
  BY DEF AmountText
<1>2. ASSUME Captures(text)
      PROVE  CheckedNeg(CheckedMul(CheckedAdd(CheckedMul({d}, 100), c), 10))
                = IF -Milliunits(text) <= MaxI32 THEN {Milliunits(text)} ELSE {}
  <2>1. CASE -Milliunits(text) <= MaxI32
    <3>1. CheckedMul({d}, 100) = {d * 100}
      BY <1>1, <2>1, MaxI32Assumption DEF CheckedMul, I32, Milliunits
    <3>2. CheckedAdd({d * 100}, c) = {d * 100 + c}
      BY <1>1, <2>1, MaxI32Assumption DEF CheckedAdd, I32, Milliunits
    <3>3. CheckedMul({d * 100 + c}, 10) = {(d * 100 + c) * 10}
      BY <1>1, <2>1, MaxI32Assumption DEF CheckedMul, I32, Milliunits
    <3>4. CheckedNeg({(d * 100 + c) * 10}) = {Milliunits(text)}
      BY <1>1, <2>1, MaxI32Assumption DEF CheckedNeg, I32, Milliunits
    <3> QED  BY <2>1, <3>1, <3>2, <3>3, <3>4
  <2>2. CASE ~(-Milliunits(text) <= MaxI32)
    <3>1. CheckedMul({d}, 100) \subseteq {d * 100}
      BY DEF CheckedMul
    <3>2. CheckedAdd(CheckedMul({d}, 100), c) \subseteq {d * 100 + c}
      BY <3>1 DEF CheckedAdd
    <3>3. CheckedMul(CheckedAdd(CheckedMul({d}, 100), c), 10) = {}
      <4>1. (d * 100 + c) * 10 \notin I32
        BY <1>1, <2>2, MaxI32Assumption DEF I32, Milliunits
      <4>2. \A n \in CheckedAdd(CheckedMul({d}, 100), c) : n * 10 \notin I32
        BY <3>2, <4>1
      <4>3. \A S : (\A n \in S : n * 10 \notin I32) => CheckedMul(S, 10) = {}
        BY DEF CheckedMul
      <4> QED  BY <4>2, <4>3
    <3>4. CheckedNeg({}) = {}
      BY DEF CheckedNeg
    <3> QED  BY <2>2, <3>3, <3>4
  <2> QED  BY <2>1, <2>2
<1>3. CASE Captures(text)
  BY <1>2, <1>3 DEF convert_amount_to_ynab_form, ExactMilliunits, Captures
<1>4. CASE ~Captures(text)
  <2>1. d \notin I32 => ~(-Milliunits(text) <= MaxI32)
    BY <1>1, MaxI32Assumption DEF I32, Milliunits
  <2> QED
    BY <1>1, <1>4, <2>1
    DEF convert_amount_to_ynab_form, ExactMilliunits, Captures
<1> QED  BY <1>3, <1>4
-----------------------------------------------------------------------------
(* The search for HTML.                                                    *)

LEMMA VisitType ==
    ASSUME NEW to_visit \in Seq(Parts)
    PROVE  Visit(to_visit) \in Seq(Parts)
<1>1. CASE Over(to_visit)
  BY <1>1 DEF Visit
<1>2. CASE ~Over(to_visit)
  <2>1. to_visit # <<>>
    BY <1>2 DEF Over
  <2>2. to_visit[1] \in Parts /\ Tail(to_visit) \in Seq(Parts)
    BY <2>1, EmptySeq, HeadTailProperties
  <2>3. to_visit[1].subparts \in Seq(Parts)
    BY <2>2, PartsAssumption
  <2>4. Tail(to_visit) \o to_visit[1].subparts \in Seq(Parts)
    BY <2>2, <2>3, ConcatProperties
  <2> QED  BY <1>2, <2>4 DEF Visit
<1> QED  BY <1>1, <1>2

LEMMA SearchTurns ==
    ASSUME NEW root \in Parts
    PROVE  \E q \in [Nat -> Seq(Parts)] :
              /\ q[0] = <<root>>
              /\ \A n \in Nat : q[n + 1] = Visit(q[n])
              /\ q[MaxParts] = Search(root)
<1> DEFINE step == [n \in Nat |-> [s \in Seq(Parts) |-> Visit(s)]]
           Turns(f) == [n \in Nat |-> IF n = 0 THEN <<root>> ELSE Visit(f[n - 1])]
           q == CHOOSE f : f = Turns(f)
<1>1. <<root>> \in Seq(Parts)
  OBVIOUS
<1>2. step \in [Nat -> [Seq(Parts) -> Seq(Parts)]]
  BY VisitType
<1>3. \E g \in [Nat -> Seq(Parts)] :
          /\ g[0] = <<root>>
          /\ \A n \in Nat : g[n + 1] = step[n][g[n]]
  <2> DEFINE start == <<root>>
             Queues == Seq(Parts)
  <2>1. start \in Queues /\ step \in [Nat -> [Queues -> Queues]]
    BY <1>1, <1>2
  <2> HIDE DEF step, start, Queues
  <2>2. \E g : IsRun(g, Queues, start, step)
    BY <2>1, Recursion, Zenon
  <2> QED  BY <2>2 DEF start, Queues, IsRun
<1>4. PICK g \in [Nat -> Seq(Parts)] :
          /\ g[0] = <<root>>
          /\ \A n \in Nat : g[n + 1] = Visit(g[n])
  BY <1>3
<1>5. g = Turns(g)
  <2>1. ASSUME NEW n \in Nat, n # 0
        PROVE  g[n] = Visit(g[n - 1])
    <3>1. n - 1 \in Nat /\ (n - 1) + 1 = n
      BY <2>1
    <3> QED  BY <1>4, <3>1
  <2> QED  BY <1>4, <2>1
<1>6. q = Turns(q)
  <2> HIDE DEF Turns
  <2> QED  BY <1>5
<1>7. q[MaxParts] = Search(root)
  BY DEF Search
<1> HIDE DEF q
<1>8. q[0] = <<root>> /\ \A n \in Nat : q[n + 1] = Visit(q[n])
  <2>1. \A n \in Nat : q[n] = IF n = 0 THEN <<root>> ELSE Visit(q[n - 1])
    BY <1>6
  <2>2. ASSUME NEW n \in Nat
        PROVE  q[n + 1] = Visit(q[n])
    <3>1. n + 1 \in Nat /\ n + 1 # 0 /\ (n + 1) - 1 = n
      OBVIOUS
    <3> QED  BY <2>1, <3>1
  <2> QED  BY <2>1, <2>2
<1>9. q \in [Nat -> Seq(Parts)]
  <2> DEFINE Typed == {n \in Nat : q[n] \in Seq(Parts)}
  <2>1. 0 \in Typed
    BY <1>1, <1>8
  <2>2. ASSUME NEW n \in Nat, n \in Typed
        PROVE  n + 1 \in Typed
    <3>1. Visit(q[n]) \in Seq(Parts)
      BY <2>2, VisitType
    <3>2. q[n + 1] \in Seq(Parts)
      BY <1>8, <3>1, Zenon
    <3>3. n + 1 \in Nat
      OBVIOUS
    <3> QED  BY <3>2, <3>3, Zenon
  <2> HIDE DEF Typed
  <2>3. Nat \subseteq Typed
    BY <2>1, <2>2, NatInductive
  <2> QED  BY <1>6, <2>3 DEF Typed
<1> QED  BY <1>7, <1>8, <1>9

LEMMA FoundIsAPart ==
    ASSUME NEW root \in Parts
    PROVE  find_html_subpart(root) \subseteq Parts
<1>1. PICK q \in [Nat -> Seq(Parts)] : q[MaxParts] = Search(root)
  BY SearchTurns
<1>2. Search(root) \in Seq(Parts)
  BY <1>1, MaxPartsAssumption
<1> QED  BY <1>2, HeadTailProperties DEF find_html_subpart
-----------------------------------------------------------------------------
(* What the parsers answer.                                                *)

Answers == {Err, Panic} \union {Ok(amount) : amount \in AmountText}

LEMMA TextsAreTyped ==
    ASSUME NEW texts \in Seq(Text), NEW amount \in find_amount_from_table_text(texts)
    PROVE  amount \in AmountText
<1> DEFINE I == {i \in 1 .. Len(texts) : texts[i].is = "amount"}
           i == SelectInSeq(texts, LAMBDA text : text.is = "amount")
<1>1. i = IF I # {} THEN Min(I) ELSE 0
  BY DEF SelectInSeq
<1>2. i # 0 /\ amount = texts[i].amount
  BY DEF find_amount_from_table_text
<1>3. i \in I
  <2>1. I \subseteq Nat
    OBVIOUS
  <2> HIDE DEF I
  <2> QED  BY <1>1, <1>2, <2>1, LeastElement
<1>4. texts[i] \in Text
  BY <1>3, ElementOfSeq
<1> QED  BY <1>2, <1>4 DEF Text

LEMMA BodiesAreAnswered ==
    ASSUME NEW body \in Body, NEW bank
    PROVE  ParseBody(bank, body) \in Answers
<1>1. ParseCiti(body) \in Answers
  <2> DEFINE amount == find_amount_from_table_text(body.cells)
  <2>1. amount # {} => (CHOOSE a \in amount : TRUE) \in AmountText
    <3>1. body.cells \in Seq(Text)
      BY DEF Body
    <3> QED  BY <3>1, TextsAreTyped
  <2> HIDE DEF amount
  <2>2. \/ ParseCiti(body) \in {Err, Panic}
        \/ amount # {} /\ ParseCiti(body) = Ok(CHOOSE a \in amount : TRUE)
    BY DEF ParseCiti, amount
  <2> QED  BY <2>1, <2>2 DEF Answers
<1>2. ParseTD(body) \in Answers
  <2>1. ASSUME Len(body.items) = 2
        PROVE  [body.items[2].amount EXCEPT !.signs = @ + 1] \in AmountText
    <3>1. body.items[2] \in Text
      BY <2>1, ElementOfSeq DEF Body
    <3> QED  BY <3>1 DEF Text, AmountText
  <2> QED  BY <2>1 DEF ParseTD, Answers
<1> QED  BY <1>1, <1>2 DEF ParseBody

LEMMA MailsAreAnswered ==
    ASSUME NEW mail \in Mail, NEW bank
    PROVE  parse_transaction_email(bank, mail) \in Answers
<1> DEFINE part == find_html_subpart(mail.root)
<1>1. part \subseteq Parts
  BY FoundIsAPart DEF Mail
<1>2. part # {} => (CHOOSE p \in part : TRUE).body \in Body
  BY <1>1, PartsAssumption
<1> HIDE DEF part
<1>3. \/ parse_transaction_email(bank, mail) = Err
      \/ part # {} /\ parse_transaction_email(bank, mail)
                        = ParseBody(bank, (CHOOSE p \in part : TRUE).body)
  BY DEF parse_transaction_email, part
<1> QED  BY <1>2, <1>3, BodiesAreAnswered DEF Answers

(* Who settles a mail.                                                     *)

LEMMA OnlyItsBankParses ==
    ASSUME NEW bank, NEW mail, parse_transaction_email(bank, mail).tag # "err"
    PROVE  mail.from = bank
  BY DEF parse_transaction_email, Err

(* The first account with the parser of the mail's bank, if that parser    *)
(* does not refuse the mail (main.rs, try_parse_email).                    *)
LEMMA SettlingAccount ==
    ASSUME NEW accounts \in Seq(Banks), NEW mail,
           settling_account(accounts, mail) # 0
    PROVE  LET i == settling_account(accounts, mail)
           IN  /\ i \in 1 .. Len(accounts)
               /\ accounts[i] = mail.from
               /\ parse_transaction_email(accounts[i], mail).tag # "err"
               /\ \A a \in 1 .. i - 1 : accounts[a] # mail.from
<1> DEFINE I == {i \in 1 .. Len(accounts) :
                    parse_transaction_email(accounts[i], mail).tag # "err"}
           i == settling_account(accounts, mail)
<1>1. i = IF I # {} THEN Min(I) ELSE 0
  BY DEF settling_account, SelectInSeq
<1>2. i \in I /\ \A a \in I : i <= a
  <2>1. I \subseteq Nat
    OBVIOUS
  <2> HIDE DEF I
  <2> QED  BY <1>1, <2>1, LeastElement
<1>3. /\ i \in 1 .. Len(accounts) /\ accounts[i] = mail.from
      /\ parse_transaction_email(accounts[i], mail).tag # "err"
  BY <1>2, OnlyItsBankParses
<1>4. ASSUME NEW a \in 1 .. i - 1, accounts[a] = mail.from
      PROVE  FALSE
  <2>1. a \in I
    BY <1>2, <1>3, <1>4
  <2> QED  BY <1>2, <1>3, <1>4, <2>1
<1> QED  BY <1>3, <1>4

(* What is found in a mail depends on its sender and on whether an account *)
(* has the parser for it: on no account with another parser, whatever the  *)
(* mail says.  Nothing is said here of the account it is found for         *)
(* (main.rs, try_parse_email; has_correct_sender of parse.rs).             *)
THEOREM OneParserDecides ==
    ASSUME NEW accounts \in Seq(Banks), NEW mail \in Mail
    PROVE  try_parse_email(accounts, mail).answer =
             IF mail.from \in Range(accounts)
             THEN parse_transaction_email(mail.from, mail)
             ELSE Err
<1> DEFINE answer == parse_transaction_email(mail.from, mail)
           i == settling_account(accounts, mail)
<1>1. try_parse_email(accounts, mail).answer =
        IF i = 0 THEN Err ELSE parse_transaction_email(accounts[i], mail)
  BY DEF try_parse_email, Nothing
<1>2. Range(accounts) = {accounts[a] : a \in 1 .. Len(accounts)}
  BY RangeEquality
<1>3. CASE i # 0
  <2>1. i \in 1 .. Len(accounts) /\ accounts[i] = mail.from
    BY <1>3, SettlingAccount
  <2> HIDE DEF i
  <2> QED  BY <1>1, <1>2, <1>3, <2>1
<1>4. CASE i = 0 /\ mail.from \in Range(accounts)
  <2>1. PICK a \in 1 .. Len(accounts) : accounts[a] = mail.from
    BY <1>2, <1>4
  <2> DEFINE I == {b \in 1 .. Len(accounts) :
                      parse_transaction_email(accounts[b], mail).tag # "err"}
  <2>2. i = IF I # {} THEN Min(I) ELSE 0
    BY DEF settling_account, SelectInSeq
  <2>3. I = {}
    <3>1. I \subseteq 1 .. Len(accounts) /\ I \subseteq Nat
      OBVIOUS
    <3> HIDE DEF I, i
    <3>2. I # {} => i \in I
      BY <2>2, <3>1, LeastElement
    <3>3. 0 \notin I
      BY <3>1
    <3> QED  BY <1>4, <3>2, <3>3
  <2>4. answer.tag = "err"
    BY <2>1, <2>3
  <2>5. answer \in Answers
    BY MailsAreAnswered
  <2>6. answer = Err
    <3> HIDE DEF answer
    <3> QED  BY <2>4, <2>5 DEF Answers, Err, Panic, Ok
  <2> QED  BY <1>1, <1>4, <2>6
<1>5. CASE i = 0 /\ mail.from \notin Range(accounts)
  BY <1>1, <1>5
<1> QED  BY <1>3, <1>4, <1>5

LEMMA TriedAreAnswered ==
    ASSUME NEW accounts \in Seq(Banks), NEW mail \in Mail
    PROVE  try_parse_email(accounts, mail).answer \in Answers
  BY OneParserDecides, MailsAreAnswered DEF Answers

LEMMA FoundForTheFirst ==
    ASSUME NEW accounts \in Seq(Banks), NEW mail,
           try_parse_email(accounts, mail).account # 0
    PROVE  LET i == try_parse_email(accounts, mail).account
           IN  /\ accounts[i] = mail.from
               /\ \A a \in 1 .. i - 1 : accounts[a] # mail.from
<1>1. /\ try_parse_email(accounts, mail).account = settling_account(accounts, mail)
      /\ settling_account(accounts, mail) # 0
  BY DEF try_parse_email, Nothing
<1> QED  BY <1>1, SettlingAccount

(* The mails that end the program: those of a bank that an account has the *)
(* parser of, which is Citi's, whose HTML can be read and has no table     *)
(* (citi.rs:47-49, table.unwrap()).  No other mail does.                   *)
THEOREM OnlyCitiPanics ==
    ASSUME NEW accounts \in Seq(Banks), NEW mail \in Mail
    PROVE  try_parse_email(accounts, mail).answer.tag = "panic" <=>
             /\ mail.from = "citi" /\ "citi" \in Range(accounts) /\ mail.parsed
             /\ \E part \in find_html_subpart(mail.root) :
                    part.body.readable /\ ~part.body.table
<1> DEFINE parts == find_html_subpart(mail.root)
           the == CHOOSE part \in parts : TRUE
           readable == \E part \in parts : part.body.readable
<1>1. parts = {} \/ parts = {the}
  <2>1. parts = {} \/ parts = {Head(Search(mail.root))}
    BY DEF find_html_subpart
  <2> HIDE DEF parts
  <2>. QED  BY <2>1
<1>2. \A body : ParseTD(body).tag # "panic"
  BY DEF ParseTD, Ok, Err
<1>3. \A body : body.table \in BOOLEAN => (ParseCiti(body).tag = "panic" <=> ~body.table)
  BY DEF ParseCiti, Ok, Err, Panic
<1>4. \A part \in parts : part.body.table \in BOOLEAN
  <2>1. parts \subseteq Parts
    BY FoundIsAPart DEF Mail
  <2> HIDE DEF parts
  <2>2. \A part \in parts : part.body \in Body
    BY <2>1, PartsAssumption
  <2>. QED  BY <2>2 DEF Body
<1>5. parse_transaction_email(mail.from, mail) =
        IF mail.parsed /\ readable THEN ParseBody(mail.from, the.body) ELSE Err
  BY DEF parse_transaction_email
<1> HIDE DEF parts, the
<1>6. parse_transaction_email(mail.from, mail).tag = "panic" <=>
        /\ mail.from = "citi" /\ mail.parsed
        /\ \E part \in parts : part.body.readable /\ ~part.body.table
  <2>1. CASE mail.parsed /\ readable
    <3>1. parts = {the} /\ the.body.readable
      BY <1>1, <2>1
    <3>2. parse_transaction_email(mail.from, mail) = ParseBody(mail.from, the.body)
      BY <1>5, <2>1
    <3>3. mail.from = "citi" =>
            (ParseBody(mail.from, the.body).tag = "panic" <=> ~the.body.table)
      BY <1>3, <1>4, <3>1 DEF ParseBody
    <3>4. mail.from # "citi" => ParseBody(mail.from, the.body).tag # "panic"
      BY <1>2 DEF ParseBody
    <3>. QED  BY <2>1, <3>1, <3>2, <3>3, <3>4
  <2>2. CASE ~(mail.parsed /\ readable)
    BY <1>5, <2>2 DEF Err
  <2>. QED  BY <2>1, <2>2
<1>7. try_parse_email(accounts, mail).answer =
        IF mail.from \in Range(accounts)
        THEN parse_transaction_email(mail.from, mail) ELSE Err
  BY OneParserDecides
<1>. QED  BY <1>6, <1>7 DEF parts, Err
=============================================================================
