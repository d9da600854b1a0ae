----------------------------- MODULE Parsing_proofs -----------------------------
(***************************************************************************)
(* Proofs about the way of a mail through the program, for all mails,      *)
(* accounts and bounds: which part of a mail is read, which account is     *)
(* billed, and that the amount a parser found is converted exactly.        *)
(***************************************************************************)
EXTENDS Parsing, Parsers_proofs

(* What is known of the mail at each stage.                                *)
IInv ==
    /\ mail \in Mails
    /\ accounts \in AccountLists
    /\ stage \in {"received", "parsed", "converted"}
    /\ result = IF stage = "received" THEN Nothing ELSE try_parse_email(accounts, mail)
    /\ stage = "converted" =>
         /\ result.answer.tag = "ok"
         /\ milliunits = convert_amount_to_ynab_form(result.answer.amount)

LEMMA InitIInv == Init => IInv
  BY DEF Init, IInv

LEMMA NextIInv == IInv /\ [Parse \/ Convert]_vars => IInv'
<1> SUFFICES ASSUME IInv, [Parse \/ Convert]_vars
             PROVE  IInv'
  OBVIOUS
<1>1. CASE Parse
  BY <1>1 DEF Parse, IInv
<1>2. CASE Convert
  BY <1>2 DEF Convert, IInv
<1>3. CASE UNCHANGED vars
  BY <1>3 DEF vars, IInv
<1> QED  BY <1>1, <1>2, <1>3

LEMMA Invariance == Spec => []IInv
  BY InitIInv, NextIInv, PTL DEF Spec

(* Whatever the parser of a mail found as its amount, YNAB would be told   *)
(* exactly that, or nothing (parse.rs; ynab.rs,                            *)
(* convert_amount_to_ynab_form).                                           *)
THEOREM Exactness == Spec => []AmountIsExact
<1>1. IInv => AmountIsExact
  <2> SUFFICES ASSUME IInv, stage = "converted"
               PROVE  milliunits = ExactMilliunits(result.answer.amount)
    BY DEF AmountIsExact
  <2>1. result.answer \in Answers
    <3>1. accounts \in Seq(Banks) /\ mail \in Mail
      BY AccountListsAssumption, MailsAssumption DEF IInv
    <3> QED  BY <3>1, TriedAreAnswered DEF IInv
  <2>2. result.answer.amount \in AmountText
    BY <2>1 DEF IInv, Answers, Err, Panic, Ok
  <2> QED  BY <2>2, ConversionIsExact DEF IInv
<1> QED  BY <1>1, Invariance, PTL

(* The account that is billed is the first that has the parser of the      *)
(* mail's bank; any list of accounts with the same parsers finds the same  *)
(* transaction, for the first account of that bank in its own order        *)
(* (main.rs, try_parse_email).                                             *)
THEOREM FirstAccountIsBilled == Spec => []FirstOfItsBankSettles
<1>1. IInv => FirstOfItsBankSettles
  <2> SUFFICES ASSUME IInv, stage # "received"
               PROVE  /\ BilledIsFirstOfItsBank(accounts, result)
                      /\ \A others \in AccountLists :
                          Range(others) = Range(accounts) =>
                              LET found == try_parse_email(others, mail)
                              IN  /\ found.answer = result.answer
                                  /\ BilledIsFirstOfItsBank(others, found)
    BY DEF FirstOfItsBankSettles
  <2>1. mail \in Mail /\ accounts \in Seq(Banks)
    BY AccountListsAssumption, MailsAssumption DEF IInv
  <2>2. result = try_parse_email(accounts, mail)
    BY DEF IInv
  <2>3. ASSUME NEW list \in Seq(Banks)
        PROVE  BilledIsFirstOfItsBank(list, try_parse_email(list, mail))
    BY FoundForTheFirst DEF BilledIsFirstOfItsBank
  <2>4. ASSUME NEW others \in AccountLists, Range(others) = Range(accounts)
        PROVE  /\ try_parse_email(others, mail).answer = result.answer
               /\ BilledIsFirstOfItsBank(others, try_parse_email(others, mail))
    <3>1. others \in Seq(Banks)
      BY AccountListsAssumption
    <3> QED  BY <2>1, <2>2, <2>3, <2>4, <3>1, OneParserDecides
  <2> QED  BY <2>1, <2>2, <2>3, <2>4
<1> QED  BY <1>1, Invariance, PTL
-----------------------------------------------------------------------------
(* The levels of a tree of parts.                                          *)

(* What FlattenSeq builds up, from the left, out of N sequences of a set.  *)
IsBuilt(g, T, N, seqs) ==
    /\ g \in [Nat -> T]
    /\ g[0] = <<>>
    /\ \A i \in 0 .. N - 1 : g[i + 1] = g[i] \o seqs[i + 1]

Flattened(N, seqs) ==
    LET flatten[i \in 1 .. N] ==
            IF i = 1 THEN seqs[i] ELSE flatten[i - 1] \o seqs[i]
    IN  flatten[N]

LEMMA Building ==
    ASSUME NEW T, NEW N \in Nat, NEW seqs \in [1 .. N -> T], <<>> \in T,
           NEW join \in [T -> [T -> T]], \A s, t \in T : join[t][s] = s \o t
    PROVE  \E g : IsBuilt(g, T, N, seqs)
<1> DEFINE start == <<>>
           step == [n \in Nat |->
                        IF n < N THEN join[seqs[n + 1]] ELSE [s \in T |-> s]]
<1>1. start \in T /\ step \in [Nat -> [T -> T]]
  <2>1. ASSUME NEW n \in Nat, n < N
        PROVE  join[seqs[n + 1]] \in [T -> T]
    <3>1. seqs[n + 1] \in T
      BY <2>1
    <3> QED  BY <3>1
  <2> QED  BY <2>1
<1>2. PICK g : IsRun(g, T, start, step)
  <2> HIDE DEF start, step
  <2> QED  BY <1>1, Recursion, Zenon
<1>3. g \in [Nat -> T] /\ g[0] = <<>>
  BY <1>2 DEF IsRun
<1>4. ASSUME NEW i \in 0 .. N - 1
      PROVE  g[i + 1] = g[i] \o seqs[i + 1]
  <2>1. i \in Nat /\ i < N /\ i + 1 \in 1 .. N
    OBVIOUS
  <2>2. g[i] \in T /\ seqs[i + 1] \in T
    BY <1>3, <2>1
  <2>3. step[i] = join[seqs[i + 1]]
    BY <2>1
  <2>4. g[i + 1] = step[i][g[i]]
    BY <1>2, <2>1 DEF IsRun
  <2> HIDE DEF step
  <2> QED  BY <2>2, <2>3, <2>4
<1>5. IsBuilt(g, T, N, seqs)
  BY <1>3, <1>4, Zenon DEF IsBuilt
<1> QED  BY <1>5, Zenon

LEMMA Built ==
    ASSUME NEW T, NEW N \in Nat \ {0}, NEW seqs \in [1 .. N -> T],
           \A t \in T : <<>> \o t = t,
           NEW g, IsBuilt(g, T, N, seqs)
    PROVE  Flattened(N, seqs) = g[N]
<1> USE DEF IsBuilt
<1> DEFINE Partial(f) == [i \in 1 .. N |->
                            IF i = 1 THEN seqs[i] ELSE f[i - 1] \o seqs[i]]
           flatten == CHOOSE f : f = Partial(f)
<1>1. g[1] = seqs[1]
  <2>1. 0 \in 0 .. N - 1 /\ 0 + 1 = 1 /\ seqs[1] \in T
    OBVIOUS
  <2>2. g[1] = g[0] \o seqs[1]
    BY <2>1
  <2> QED  BY <2>1, <2>2
<1>2. ASSUME NEW i \in 1 .. N, i # 1
      PROVE  g[i] = g[i - 1] \o seqs[i]
  <2>1. i - 1 \in 0 .. N - 1 /\ (i - 1) + 1 = i
    BY <1>2
  <2> QED  BY <2>1
<1>3. flatten = Partial(flatten)
  <2> DEFINE f == [i \in 1 .. N |-> g[i]]
  <2>1. ASSUME NEW i \in 1 .. N
        PROVE  g[i] = IF i = 1 THEN seqs[i] ELSE f[i - 1] \o seqs[i]
    <3>1. i # 1 => f[i - 1] = g[i - 1]
      OBVIOUS
    <3> HIDE DEF f
    <3> QED  BY <1>1, <1>2, <3>1
  <2>2. f = Partial(f)
    BY <2>1
  <2> HIDE DEF f, Partial
  <2> QED  BY <2>2
<1>4. flatten[N] = g[N]
  <2> HIDE DEF flatten
  <2>1. \A i \in 1 .. N :
            flatten[i] = IF i = 1 THEN seqs[i] ELSE flatten[i - 1] \o seqs[i]
    BY <1>3
  <2> DEFINE Same == {i \in Nat : i + 1 <= N => flatten[i + 1] = g[i + 1]}
  <2>2. 0 \in Same
    BY <1>1, <2>1
  <2>3. ASSUME NEW i \in Nat, i \in Same
        PROVE  i + 1 \in Same
    <3> SUFFICES ASSUME (i + 1) + 1 <= N
                 PROVE  flatten[(i + 1) + 1] = g[(i + 1) + 1]
      OBVIOUS
    <3> DEFINE k == i + 2
    <3>1. k \in 1 .. N /\ k # 1 /\ k - 1 = i + 1 /\ (i + 1) + 1 = k
      OBVIOUS
    <3>2. flatten[k - 1] = g[k - 1]
      BY <2>3, <3>1
    <3> HIDE DEF k
    <3>3. flatten[k] = flatten[k - 1] \o seqs[k] /\ g[k] = g[k - 1] \o seqs[k]
      BY <1>2, <2>1, <3>1
    <3> QED  BY <3>1, <3>2, <3>3
  <2>4. N - 1 \in Same
    <3> HIDE DEF Same
    <3>1. Nat \subseteq Same
      BY <2>2, <2>3, NatInductive, Zenon
    <3>2. N - 1 \in Nat
      OBVIOUS
    <3> QED  BY <3>1, <3>2, Zenon
  <2> QED  BY <2>4
<1> QED  BY <1>4 DEF Flattened

LEMMA Flattening ==
    ASSUME NEW S, NEW seqs \in Seq(Seq(S))
    PROVE  \E g : /\ IsBuilt(g, Seq(S), Len(seqs), seqs)
                  /\ g[Len(seqs)] = FlattenSeq(seqs)
<1> DEFINE T == Seq(S)
           N == Len(seqs)
           join == [t \in T |-> [s \in T |-> s \o t]]
<1>1. N \in Nat /\ seqs \in [1 .. N -> T] /\ <<>> \in T
  OBVIOUS
<1>2. /\ join \in [T -> [T -> T]]
      /\ \A s, t \in T : join[t][s] = s \o t
      /\ \A t \in T : <<>> \o t = t
  BY ConcatProperties, ConcatEmptySeq
<1>3. N = 0 => FlattenSeq(seqs) = <<>>
  BY DEF FlattenSeq
<1>4. N # 0 => FlattenSeq(seqs) = Flattened(N, seqs)
  BY DEF FlattenSeq, Flattened
<1>5. \E g : IsBuilt(g, T, N, seqs) /\ g[N] = FlattenSeq(seqs)
  <2> HIDE DEF T, N, join
  <2>1. PICK g : IsBuilt(g, T, N, seqs)
    BY <1>1, <1>2, Building, Zenon
  <2>2. CASE N = 0
    BY <1>3, <2>1, <2>2 DEF IsBuilt
  <2>3. CASE N # 0
    <3>1. N \in Nat \ {0}
      BY <1>1, <2>3
    <3>2. Flattened(N, seqs) = g[N]
      BY <1>1, <1>2, <2>1, <3>1, Built
    <3> QED  BY <1>4, <2>1, <2>3, <3>2
  <2> QED  BY <2>2, <2>3
<1> QED  BY <1>5

Subparts(level) == [i \in 1 .. Len(level) |-> level[i].subparts]

(* The parts below the first i parts of a level.                           *)
Under(level) ==
    CHOOSE g : /\ IsBuilt(g, Seq(Parts), Len(level), Subparts(level))
               /\ g[Len(level)] = FlattenSeq(Subparts(level))

LEMMA SubpartsType ==
    ASSUME NEW level \in Seq(Parts)
    PROVE  /\ Subparts(level) \in Seq(Seq(Parts))
           /\ Len(Subparts(level)) = Len(level)
<1>1. Len(level) \in Nat
  OBVIOUS
<1>2. ASSUME NEW i \in 1 .. Len(level)
      PROVE  level[i].subparts \in Seq(Parts)
  BY PartsAssumption
<1> QED  BY <1>1, <1>2 DEF Subparts

LEMMA UnderFacts ==
    ASSUME NEW level \in Seq(Parts)
    PROVE  /\ Under(level) \in [Nat -> Seq(Parts)]
           /\ Under(level)[0] = <<>>
           /\ \A i \in 0 .. Len(level) - 1 :
                 Under(level)[i + 1] = Under(level)[i] \o level[i + 1].subparts
           /\ Under(level)[Len(level)] = FlattenSeq(Subparts(level))
<1> DEFINE seqs == Subparts(level)
           g == Under(level)
<1>1. seqs \in Seq(Seq(Parts)) /\ Len(seqs) = Len(level)
  BY SubpartsType
<1>2. IsBuilt(g, Seq(Parts), Len(level), seqs) /\ g[Len(level)] = FlattenSeq(seqs)
  <2>1. \E h : /\ IsBuilt(h, Seq(Parts), Len(seqs), seqs)
               /\ h[Len(seqs)] = FlattenSeq(seqs)
    BY <1>1, Flattening, Zenon
  <2> QED  BY <1>1, <2>1, Zenon DEF Under
<1> HIDE DEF g
<1>3. ASSUME NEW i \in 0 .. Len(level) - 1
      PROVE  g[i + 1] = g[i] \o level[i + 1].subparts
  <2>1. seqs[i + 1] = level[i + 1].subparts
    BY DEF Subparts
  <2> HIDE DEF seqs
  <2> QED  BY <1>2, <2>1 DEF IsBuilt
<1>4. g \in [Nat -> Seq(Parts)] /\ g[0] = <<>>
  BY <1>2 DEF IsBuilt
<1> QED  BY <1>2, <1>3, <1>4 DEF g

LEMMA BelowType ==
    ASSUME NEW level \in Seq(Parts)
    PROVE  FlattenSeq(Subparts(level)) \in Seq(Parts)
<1>1. Len(level) \in Nat
  OBVIOUS
<1> QED  BY <1>1, UnderFacts

LEMMA LevelTurns ==
    ASSUME NEW root \in Parts
    PROVE  \E L \in [Nat -> Seq(Parts)] :
              /\ L[0] = <<root>>
              /\ \A d \in Nat : L[d + 1] = FlattenSeq(Subparts(L[d]))
              /\ \A d \in Nat : L[d] = Level(root, d)
<1> DEFINE step == [n \in Nat |-> [s \in Seq(Parts) |-> FlattenSeq(Subparts(s))]]
           Turns(f) == [d \in Nat |->
                          IF d = 0 THEN <<root>>
                          ELSE FlattenSeq([i \in 1 .. Len(f[d - 1]) |->
                                             f[d - 1][i].subparts])]
           L == CHOOSE f : f = Turns(f)
<1>1. <<root>> \in Seq(Parts)
  OBVIOUS
<1>2. step \in [Nat -> [Seq(Parts) -> Seq(Parts)]]
  BY BelowType
<1>3. \E g \in [Nat -> Seq(Parts)] :
          /\ g[0] = <<root>>
          /\ \A n \in Nat : g[n + 1] = step[n][g[n]]
  <2> DEFINE start == <<root>>
             Levels == Seq(Parts)
  <2>1. start \in Levels /\ step \in [Nat -> [Levels -> Levels]]
    BY <1>1, <1>2
  <2> HIDE DEF step, start, Levels
  <2>2. \E g : IsRun(g, Levels, start, step)
    BY <2>1, Recursion, Zenon
  <2> QED  BY <2>2 DEF start, Levels, IsRun
<1>4. PICK g \in [Nat -> Seq(Parts)] :
          /\ g[0] = <<root>>
          /\ \A n \in Nat : g[n + 1] = FlattenSeq(Subparts(g[n]))
  BY <1>3
<1>5. g = Turns(g)
  <2>1. ASSUME NEW n \in Nat, n # 0
        PROVE  g[n] = FlattenSeq(Subparts(g[n - 1]))
    <3>1. n - 1 \in Nat /\ (n - 1) + 1 = n
      BY <2>1
    <3> QED  BY <1>4, <3>1
  <2> QED  BY <1>4, <2>1 DEF Subparts
<1>6. L = Turns(L)
  <2> HIDE DEF Turns
  <2> QED  BY <1>5
<1>7. \A d \in Nat : L[d] = Level(root, d)
  BY DEF Level
<1> HIDE DEF L
<1>8. L[0] = <<root>> /\ \A d \in Nat : L[d + 1] = FlattenSeq(Subparts(L[d]))
  <2>1. \A n \in Nat : L[n] = IF n = 0 THEN <<root>> ELSE FlattenSeq(Subparts(L[n - 1]))
    BY <1>6 DEF Subparts
  <2>2. ASSUME NEW n \in Nat
        PROVE  L[n + 1] = FlattenSeq(Subparts(L[n]))
    <3>1. n + 1 \in Nat /\ n + 1 # 0 /\ (n + 1) - 1 = n
      OBVIOUS
    <3> QED  BY <2>1, <3>1
  <2> QED  BY <2>1, <2>2
<1>9. L \in [Nat -> Seq(Parts)]
  <2> DEFINE Typed == {n \in Nat : L[n] \in Seq(Parts)}
  <2>1. 0 \in Typed
    BY <1>1, <1>8
  <2>2. ASSUME NEW n \in Nat, n \in Typed
        PROVE  n + 1 \in Typed
    <3>1. FlattenSeq(Subparts(L[n])) \in Seq(Parts)
      BY <2>2, BelowType
    <3>2. L[n + 1] \in Seq(Parts)
      BY <1>8, <3>1, Zenon
    <3>3. n + 1 \in Nat
      OBVIOUS
    <3> QED  BY <3>2, <3>3, Zenon
  <2> HIDE DEF Typed
  <2>3. Nat \subseteq Typed
    BY <2>1, <2>2, NatInductive
  <2> QED  BY <1>6, <2>3 DEF Typed
<1> QED  BY <1>7, <1>8, <1>9
-----------------------------------------------------------------------------
(* The search goes through the levels.                                     *)

(* After n turns what is left to visit is the rest of a level and the      *)
(* parts below the i first of it, and no part visited so far is HTML.      *)
Before(L, d, i) ==
    /\ \A e \in 0 .. d - 1 : \A j \in 1 .. Len(L[e]) : ~L[e][j].html
    /\ \A j \in 1 .. i : ~L[d][j].html

At(L, queue, d, i) ==
    /\ queue = SubSeq(L[d], i + 1, Len(L[d])) \o Under(L[d])[i]
    /\ Before(L, d, i)

IsTree(L) ==
    /\ L \in [Nat -> Seq(Parts)]
    /\ \A d \in Nat : L[d + 1] = FlattenSeq(Subparts(L[d]))

(* The first of a level is the first of a queue that begins with its rest. *)
LEMMA RestOfLevel ==
    ASSUME NEW S, NEW s \in Seq(S), NEW t \in Seq(S), NEW i \in 0 .. Len(s) - 1
    PROVE  LET queue == SubSeq(s, i + 1, Len(s)) \o t
           IN  /\ queue # <<>>
               /\ queue[1] = s[i + 1] /\ Head(queue) = s[i + 1]
               /\ Tail(queue) = SubSeq(s, i + 2, Len(s)) \o t
<1> DEFINE a == SubSeq(s, i + 1, Len(s))
           b == SubSeq(s, i + 2, Len(s))
           N == Len(s)
           queue == a \o t
<1>1. N \in Nat /\ i \in Nat /\ i < N
  OBVIOUS
<1>2. /\ a \in Seq(S) /\ Len(a) = N - i
      /\ \A j \in 1 .. N - i : a[j] = s[i + j]
  <2>1. \A j \in i + 1 .. N : s[j] \in S
    OBVIOUS
  <2>2. /\ a \in Seq(S)
        /\ Len(a) = IF i + 1 <= N THEN N - (i + 1) + 1 ELSE 0
        /\ \A j \in 1 .. N - (i + 1) + 1 : a[j] = s[(i + 1) + j - 1]
    <3> HIDE DEF N
    <3> QED  BY <1>1, <2>1, SubSeqProperties DEF N
  <2> HIDE DEF a, N
  <2> QED  BY <1>1, <2>2
<1>3. /\ b \in Seq(S) /\ Len(b) = N - i - 1
      /\ \A j \in 1 .. N - i - 1 : b[j] = s[i + 1 + j]
  <2>1. \A j \in i + 2 .. N : s[j] \in S
    OBVIOUS
  <2>2. /\ b \in Seq(S)
        /\ Len(b) = IF i + 2 <= N THEN N - (i + 2) + 1 ELSE 0
        /\ \A j \in 1 .. N - (i + 2) + 1 : b[j] = s[(i + 2) + j - 1]
    <3> HIDE DEF N
    <3> QED  BY <1>1, <2>1, SubSeqProperties DEF N
  <2> HIDE DEF b, N
  <2> QED  BY <1>1, <2>2
<1> HIDE DEF a, b, N
<1>4. Len(t) \in Nat
  OBVIOUS
<1>5. /\ queue \in Seq(S) /\ Len(queue) = N - i + Len(t)
      /\ \A j \in 1 .. N - i + Len(t) :
            queue[j] = IF j <= N - i THEN a[j] ELSE t[j - (N - i)]
  <2>1. /\ a \o t \in Seq(S) /\ Len(a \o t) = Len(a) + Len(t)
        /\ \A j \in 1 .. Len(a) + Len(t) :
              (a \o t)[j] = IF j <= Len(a) THEN a[j] ELSE t[j - Len(a)]
    BY <1>2, ConcatProperties, Zenon
  <2> QED  BY <1>2, <2>1
<1>6. /\ b \o t \in Seq(S) /\ Len(b \o t) = N - i - 1 + Len(t)
      /\ \A j \in 1 .. N - i - 1 + Len(t) :
            (b \o t)[j] = IF j <= N - i - 1 THEN b[j] ELSE t[j - (N - i - 1)]
  <2>1. /\ b \o t \in Seq(S) /\ Len(b \o t) = Len(b) + Len(t)
        /\ \A j \in 1 .. Len(b) + Len(t) :
              (b \o t)[j] = IF j <= Len(b) THEN b[j] ELSE t[j - Len(b)]
    BY <1>3, ConcatProperties, Zenon
  <2> QED  BY <1>3, <2>1
<1> HIDE DEF queue
<1>7. queue # <<>> /\ queue[1] = s[i + 1] /\ Head(queue) = queue[1]
  <2>1. Len(queue) > 0 /\ 1 \in 1 .. N - i + Len(t) /\ 1 <= N - i
    BY <1>1, <1>4, <1>5
  <2>2. queue[1] = a[1] /\ a[1] = s[i + 1]
    BY <1>1, <1>2, <1>5, <2>1
  <2> QED  BY <1>5, <2>1, <2>2
<1>8. Tail(queue) = b \o t
  <2>1. /\ Tail(queue) \in Seq(S) /\ Len(Tail(queue)) = Len(queue) - 1
        /\ \A j \in 1 .. Len(Tail(queue)) : Tail(queue)[j] = queue[j + 1]
    BY <1>5, <1>7, HeadTailProperties
  <2>2. ASSUME NEW j \in 1 .. N - i - 1 + Len(t)
        PROVE  queue[j + 1] = (b \o t)[j]
    <3>1. CASE j <= N - i - 1
      <4>1. queue[j + 1] = a[j + 1] /\ (b \o t)[j] = b[j]
        BY <1>1, <1>4, <1>5, <1>6, <3>1
      <4>2. a[j + 1] = s[i + (j + 1)] /\ b[j] = s[i + 1 + j]
        BY <1>1, <1>2, <1>3, <3>1
      <4>3. i + (j + 1) = i + 1 + j
        BY <1>1
      <4> QED  BY <4>1, <4>2, <4>3
    <3>2. CASE j > N - i - 1
      <4>1. /\ queue[j + 1] = t[(j + 1) - (N - i)]
            /\ (b \o t)[j] = t[j - (N - i - 1)]
        BY <1>1, <1>4, <1>5, <1>6, <3>2
      <4>2. (j + 1) - (N - i) = j - (N - i - 1)
        BY <1>1
      <4> QED  BY <4>1, <4>2
    <3>3. j <= N - i - 1 \/ j > N - i - 1
      BY <1>1, <1>4
    <3> QED  BY <3>1, <3>2, <3>3
  <2>3. Len(Tail(queue)) = N - i - 1 + Len(t)
    BY <1>1, <1>4, <1>5, <2>1
  <2> QED  BY <1>6, <2>1, <2>2, <2>3, SeqEqual
<1> QED  BY <1>7, <1>8 DEF queue, a, b, N

(* If nothing is left of a level, the next one begins.                     *)
LEMMA Normalised ==
    ASSUME NEW L, IsTree(L), NEW d \in Nat, NEW i \in 0 .. Len(L[d]),
           NEW queue, queue # <<>>, At(L, queue, d, i), i = Len(L[d])
    PROVE  At(L, queue, d + 1, 0) /\ 0 < Len(L[d + 1])
<1>1. /\ d + 1 \in Nat /\ L[d] \in Seq(Parts) /\ L[d + 1] \in Seq(Parts)
      /\ L[d + 1] = FlattenSeq(Subparts(L[d]))
  BY DEF IsTree
<1>2. i \in Nat /\ Len(L[d]) \in Nat
  BY <1>1
<1>3. queue = L[d + 1]
  <2>1. SubSeq(L[d], i + 1, Len(L[d])) = <<>>
    BY <1>2, SubSeqEmpty
  <2>2. <<>> \o Under(L[d])[i] = Under(L[d])[i] /\ Under(L[d])[i] = L[d + 1]
    <3>1. Under(L[d])[i] = L[d + 1]
      BY <1>1, UnderFacts
    <3> QED  BY <1>1, <3>1, ConcatEmptySeq
  <2> QED  BY <2>1, <2>2 DEF At
<1>4. L[d + 1] = SubSeq(L[d + 1], 0 + 1, Len(L[d + 1])) \o Under(L[d + 1])[0]
  <2>1. SubSeq(L[d + 1], 1, Len(L[d + 1])) = L[d + 1]
    BY <1>1, SubSeqFull
  <2>2. Under(L[d + 1])[0] = <<>> /\ L[d + 1] \o <<>> = L[d + 1]
    BY <1>1, UnderFacts, ConcatEmptySeq
  <2> QED  BY <2>1, <2>2
<1>5. Before(L, d + 1, 0)
  <2>1. ASSUME NEW e \in 0 .. (d + 1) - 1, NEW j \in 1 .. Len(L[e])
        PROVE  ~L[e][j].html
    <3>1. CASE e = d
      BY <2>1, <3>1 DEF At, Before
    <3>2. CASE e # d
      <4>1. e \in 0 .. d - 1
        BY <3>2
      <4> QED  BY <2>1, <4>1 DEF At, Before
    <3> QED  BY <3>1, <3>2
  <2> QED  BY <2>1 DEF Before
<1>6. 0 < Len(L[d + 1])
  BY <1>1, <1>3, EmptySeq
<1> QED  BY <1>3, <1>4, <1>5, <1>6 DEF At

(* One turn of the search visits one part of a level.                      *)
LEMMA VisitsNext ==
    ASSUME NEW L, IsTree(L), NEW d \in Nat, NEW i \in 0 .. Len(L[d]) - 1,
           NEW queue, At(L, queue, d, i)
    PROVE  /\ queue # <<>> /\ queue[1] = L[d][i + 1] /\ Head(queue) = L[d][i + 1]
           /\ ~Over(queue) => At(L, Visit(queue), d, i + 1)
<1> DEFINE U == Under(L[d])
           part == L[d][i + 1]
<1>1. L[d] \in Seq(Parts) /\ Len(L[d]) \in Nat
  BY DEF IsTree
<1>2. i \in Nat /\ i + 1 \in Nat /\ i + 1 \in 1 .. Len(L[d])
  BY <1>1
<1>3. /\ U[i] \in Seq(Parts) /\ U[i + 1] = U[i] \o part.subparts
      /\ part.subparts \in Seq(Parts)
  <2>1. part \in Parts
    BY <1>1, <1>2, ElementOfSeq
  <2>2. part.subparts \in Seq(Parts)
    BY <2>1, PartsAssumption
  <2>3. U[i] \in Seq(Parts) /\ U[i + 1] = U[i] \o part.subparts
    BY <1>1, <1>2, UnderFacts
  <2> QED  BY <2>2, <2>3
<1>4. /\ queue # <<>> /\ queue[1] = part /\ Head(queue) = part
      /\ Tail(queue) = SubSeq(L[d], i + 2, Len(L[d])) \o U[i]
  <2> HIDE DEF U
  <2>1. queue = SubSeq(L[d], i + 1, Len(L[d])) \o U[i]
    BY DEF At, U
  <2> QED  BY ZenonT(30), <1>1, <1>3, <2>1, RestOfLevel
<1>5. ASSUME ~Over(queue)
      PROVE  At(L, Visit(queue), d, i + 1)
  <2> DEFINE rest == SubSeq(L[d], i + 2, Len(L[d]))
  <2>1. rest \in Seq(Parts)
    <3>1. \A j \in i + 2 .. Len(L[d]) : L[d][j] \in Parts
      BY <1>1, <1>2
    <3>2. i + 2 \in Int /\ Len(L[d]) \in Int
      BY <1>1, <1>2
    <3> QED  BY <3>1, <3>2, SubSeqProperties
  <2>2. Visit(queue) = (rest \o U[i]) \o part.subparts
    BY <1>4, <1>5 DEF Visit
  <2>3. Visit(queue) = rest \o U[i + 1]
    <3> DEFINE u == U[i]
               subparts == part.subparts
    <3>1. u \in Seq(Parts) /\ subparts \in Seq(Parts)
      BY <1>3
    <3> HIDE DEF rest, u, subparts
    <3>2. (rest \o u) \o subparts = rest \o (u \o subparts)
      BY SMTT(30), <2>1, <3>1, ConcatAssociative
    <3>3. Visit(queue) = (rest \o u) \o subparts
      BY <2>2 DEF u, subparts
    <3>4. U[i + 1] = u \o subparts
      BY <1>3 DEF u, subparts
    <3> HIDE DEF U
    <3> QED  BY <3>2, <3>3, <3>4
  <2>4. i + 2 = (i + 1) + 1
    BY <1>2
  <2>5. ~part.html
    BY <1>4, <1>5 DEF Over
  <2>6. Before(L, d, i + 1)
    <3>1. ASSUME NEW j \in 1 .. i + 1
          PROVE  ~L[d][j].html
      BY <1>2, <2>5 DEF At, Before
    <3> QED  BY <3>1 DEF At, Before
  <2> QED  BY <2>3, <2>4, <2>6 DEF At
<1> QED  BY <1>4, <1>5

(* The place of the search after n turns.                                  *)
LEMMA SearchGoesByLevels ==
    ASSUME NEW L, IsTree(L), NEW root \in Parts, L[0] = <<root>>,
           NEW q \in [Nat -> Seq(Parts)], q[0] = <<root>>,
           \A n \in Nat : q[n + 1] = Visit(q[n])
    PROVE  \A n \in Nat : \E d \in 0 .. n : \E i \in 0 .. Len(L[d]) :
              At(L, q[n], d, i) /\ (i = Len(L[d]) => d < n)
<1> DEFINE Place(n, d, i) == At(L, q[n], d, i) /\ (i = Len(L[d]) => d < n)
           Some(n) == \E d \in 0 .. n : \E i \in 0 .. Len(L[d]) : Place(n, d, i)
           Placed == {n \in Nat : Some(n)}
<1>1. \A d \in Nat : L[d] \in Seq(Parts) /\ Len(L[d]) \in Nat
  <2>1. ASSUME NEW d \in Nat
        PROVE  L[d] \in Seq(Parts) /\ Len(L[d]) \in Nat
    <3>1. L[d] \in Seq(Parts)
      BY DEF IsTree
    <3> QED  BY <3>1, LenProperties
  <2> QED  BY <2>1
<1>2. Some(0)
  <2>1. Len(L[0]) = 1
    OBVIOUS
  <2>2. At(L, q[0], 0, 0)
    <3>1. SubSeq(L[0], 0 + 1, Len(L[0])) = L[0]
      <4>1. L[0] \in Seq(Parts) /\ 0 + 1 = 1
        BY <1>1
      <4> QED  BY <4>1, SubSeqFull
    <3>2. Under(L[0])[0] = <<>> /\ L[0] \o <<>> = L[0]
      <4>1. L[0] \in Seq(Parts)
        BY <1>1
      <4> QED  BY <4>1, UnderFacts, ConcatEmptySeq
    <3>3. Before(L, 0, 0)
      BY DEF Before
    <3> QED  BY <3>1, <3>2, <3>3, Zenon DEF At
  <2>3. 0 \in 0 .. 0 /\ 0 \in 0 .. Len(L[0]) /\ Place(0, 0, 0)
    BY <2>1, <2>2
  <2> HIDE DEF Place
  <2> QED  BY <2>3
<1>3. ASSUME NEW n \in Nat, Some(n)
      PROVE  Some(n + 1)
  <2>0. PICK d \in 0 .. n : \E i \in 0 .. Len(L[d]) : Place(n, d, i)
    BY <1>3
  <2>1. PICK i \in 0 .. Len(L[d]) : Place(n, d, i)
    BY <2>0
  <2>2. d \in Nat /\ d \in 0 .. n + 1 /\ d < n + 1
    BY <2>1
  <2>3. CASE Over(q[n])
    <3>1. q[n + 1] = q[n]
      BY <2>3 DEF Visit
    <3>2. Place(n + 1, d, i)
      BY <2>1, <2>2, <3>1
    <3> HIDE DEF Place
    <3> QED  BY <2>1, <2>2, <3>2, Zenon
  <2>4. CASE ~Over(q[n]) /\ i # Len(L[d])
    <3>1. i \in 0 .. Len(L[d]) - 1 /\ i + 1 \in 0 .. Len(L[d])
      <4> DEFINE N == Len(L[d])
      <4>1. N \in Nat /\ i \in 0 .. N /\ i # N
        BY <1>1, <2>2, <2>4
      <4> HIDE DEF N
      <4>2. i \in 0 .. N - 1 /\ i + 1 \in 0 .. N
        BY <4>1
      <4> QED  BY <4>2 DEF N
    <3>2. At(L, q[n + 1], d, i + 1)
      <4>1. At(L, Visit(q[n]), d, i + 1)
        BY <2>1, <2>2, <2>4, <3>1, VisitsNext
      <4> QED  BY <4>1, Zenon
    <3>3. Place(n + 1, d, i + 1)
      BY <2>2, <3>2
    <3> HIDE DEF Place
    <3> QED  BY <2>2, <3>1, <3>3, Zenon
  <2>5. CASE ~Over(q[n]) /\ i = Len(L[d])
    <3>1. q[n] # <<>>
      BY <2>5 DEF Over
    <3>2. At(L, q[n], d + 1, 0) /\ 0 < Len(L[d + 1])
      BY <2>1, <2>2, <2>5, <3>1, Normalised
    <3>3. d + 1 \in Nat /\ d + 1 \in 0 .. n + 1 /\ d + 1 < n + 1
      BY <2>1, <2>2, <2>5
    <3>4. 0 \in 0 .. Len(L[d + 1]) - 1 /\ 0 + 1 \in 0 .. Len(L[d + 1])
      <4> DEFINE N == Len(L[d + 1])
      <4>1. N \in Nat /\ 0 < N
        BY <1>1, <3>2, <3>3
      <4> HIDE DEF N
      <4>2. 0 \in 0 .. N - 1 /\ 0 + 1 \in 0 .. N
        BY <4>1
      <4> QED  BY <4>2 DEF N
    <3>5. At(L, q[n + 1], d + 1, 0 + 1)
      <4>1. At(L, Visit(q[n]), d + 1, 0 + 1)
        BY <2>5, <3>2, <3>3, <3>4, VisitsNext
      <4> QED  BY <4>1, Zenon
    <3>6. Place(n + 1, d + 1, 0 + 1)
      BY <3>3, <3>5
    <3> HIDE DEF Place
    <3> QED  BY <3>3, <3>4, <3>6, Zenon
  <2> QED  BY <2>3, <2>4, <2>5
<1> HIDE DEF Some
<1>4. 0 \in Placed /\ \A n \in Nat : n \in Placed => n + 1 \in Placed
  BY <1>2, <1>3
<1>5. Nat \subseteq Placed
  <2> HIDE DEF Placed
  <2> QED  BY <1>4, NatInductive
<1> QED  BY <1>5 DEF Some
-----------------------------------------------------------------------------
(* What is found.                                                          *)

LEMMA FirstHtmlFacts ==
    ASSUME NEW level \in Seq(Parts)
    PROVE  /\ (\A j \in 1 .. Len(level) : ~level[j].html) => FirstHtml(level) = 0
           /\ \A k \in 1 .. Len(level) :
                level[k].html /\ (\A j \in 1 .. k - 1 : ~level[j].html)
                    => FirstHtml(level) = k
<1> DEFINE I == {i \in 1 .. Len(level) : level[i].html}
<1>1. FirstHtml(level) = IF I # {} THEN Min(I) ELSE 0
  BY DEF FirstHtml, SelectInSeq
<1>2. ASSUME NEW k \in 1 .. Len(level), level[k].html,
             \A j \in 1 .. k - 1 : ~level[j].html
      PROVE  FirstHtml(level) = k
  <2>1. k \in I /\ I \subseteq Nat
    BY <1>2
  <2>2. \A i \in I : k <= i
    BY <1>2
  <2>3. Min(I) \in I /\ Min(I) <= k
    <3> HIDE DEF I
    <3> QED  BY <2>1, LeastElement
  <2>4. k <= Min(I)
    <3> HIDE DEF I
    <3> QED  BY <2>2, <2>3
  <2>5. Min(I) \in Nat /\ k \in Nat
    BY <2>1, <2>3
  <2> HIDE DEF I
  <2> QED  BY <1>1, <2>1, <2>3, <2>4, <2>5
<1>3. (\A j \in 1 .. Len(level) : ~level[j].html) => I = {}
  OBVIOUS
<1> HIDE DEF I
<1> QED  BY <1>1, <1>2, <1>3

(* An empty level has only empty levels below it.                          *)
LEMMA NothingBelow ==
    ASSUME NEW L, IsTree(L), NEW d \in Nat, L[d] = <<>>
    PROVE  \A e \in Nat : e >= d => L[e] = <<>>
<1> DEFINE Empty == {k \in Nat : L[d + k] = <<>>}
<1>1. 0 \in Empty
  <2>1. d + 0 = d
    OBVIOUS
  <2> QED  BY <2>1
<1>2. ASSUME NEW k \in Nat, k \in Empty
      PROVE  k + 1 \in Empty
  <2> DEFINE m == d + k
  <2>1. m \in Nat /\ d + (k + 1) = m + 1 /\ L[m] = <<>>
    BY <1>2
  <2> HIDE DEF m
  <2>2. L[m + 1] = FlattenSeq(Subparts(<<>>))
    BY <2>1 DEF IsTree
  <2>3. FlattenSeq(Subparts(<<>>)) = <<>>
    <3>1. <<>> \in Seq(Parts) /\ Len(<<>>) = 0
      OBVIOUS
    <3>2. Under(<<>>)[0] = <<>> /\ Under(<<>>)[Len(<<>>)] = FlattenSeq(Subparts(<<>>))
      BY <3>1, UnderFacts
    <3> QED  BY <3>1, <3>2
  <2> QED  BY <2>1, <2>2, <2>3
<1>3. Nat \subseteq Empty
  <2> HIDE DEF Empty
  <2> QED  BY <1>1, <1>2, NatInductive
<1>4. ASSUME NEW e \in Nat, e >= d
      PROVE  L[e] = <<>>
  <2>1. e - d \in Nat /\ d + (e - d) = e
    BY <1>4
  <2>2. e - d \in Empty
    <3> HIDE DEF Empty
    <3> QED  BY <1>3, <2>1
  <2> QED  BY <2>1, <2>2
<1> QED  BY <1>4

(* The search stands at the first HTML part of the tree.                   *)
Finds(L, queue, d, i) ==
    /\ queue # <<>> /\ Head(queue) = L[d][i + 1]
    /\ FirstHtml(L[d]) = i + 1
    /\ \A e \in 0 .. d - 1 : FirstHtml(L[e]) = 0

LEMMA StandsAtFirst ==
    ASSUME NEW L, IsTree(L), NEW d \in Nat, NEW i \in 0 .. Len(L[d]) - 1,
           NEW queue, At(L, queue, d, i), Over(queue)
    PROVE  Finds(L, queue, d, i)
<1>1. \A e \in Nat : L[e] \in Seq(Parts)
  BY DEF IsTree
<1>2. i + 1 \in 1 .. Len(L[d]) /\ i \in Nat
  BY <1>1, LenProperties
<1>3. queue # <<>> /\ queue[1] = L[d][i + 1] /\ Head(queue) = L[d][i + 1]
  BY VisitsNext
<1>4. L[d][i + 1].html
  BY <1>3 DEF Over
<1>5. FirstHtml(L[d]) = i + 1
  <2>1. \A j \in 1 .. (i + 1) - 1 : ~L[d][j].html
    BY <1>2 DEF At, Before
  <2> QED  BY <1>1, <1>2, <1>4, <2>1, FirstHtmlFacts
<1>6. ASSUME NEW e \in 0 .. d - 1
      PROVE  FirstHtml(L[e]) = 0
  <2>1. \A j \in 1 .. Len(L[e]) : ~L[e][j].html
    BY DEF At, Before
  <2>2. L[e] \in Seq(Parts)
    BY <1>1
  <2> QED  BY <2>1, <2>2, FirstHtmlFacts
<1> QED  BY <1>3, <1>5, <1>6, Zenon DEF Finds

(* The part that is read is the leftmost HTML part of the highest level    *)
(* that has one, whatever the tree, if the search ends within the bound    *)
(* (parse.rs, find_html_subpart).                                          *)
THEOREM SearchIsBreadthFirst ==
    ASSUME NEW root \in Parts, Over(Search(root))
    PROVE  LET depths == {d \in 0 .. MaxParts : FirstHtml(Level(root, d)) # 0}
               top == {d \in depths : \A e \in depths : d <= e}
           IN  find_html_subpart(root) =
                   {Level(root, d)[FirstHtml(Level(root, d))] : d \in top}
<1> DEFINE depths == {d \in 0 .. MaxParts : FirstHtml(Level(root, d)) # 0}
           top == {d \in depths : \A e \in depths : d <= e}
           queue == Search(root)
<1>1. PICK L \in [Nat -> Seq(Parts)] :
          /\ L[0] = <<root>>
          /\ \A d \in Nat : L[d + 1] = FlattenSeq(Subparts(L[d]))
          /\ \A d \in Nat : L[d] = Level(root, d)
  BY LevelTurns
<1>2. IsTree(L)
  BY <1>1 DEF IsTree
<1>3. \E d \in 0 .. MaxParts : \E i \in 0 .. Len(L[d]) :
          At(L, queue, d, i) /\ (i = Len(L[d]) => d < MaxParts)
  <2>1. PICK q \in [Nat -> Seq(Parts)] :
            /\ q[0] = <<root>>
            /\ \A n \in Nat : q[n + 1] = Visit(q[n])
            /\ q[MaxParts] = queue
    BY SearchTurns
  <2>2. \A n \in Nat : \E d \in 0 .. n : \E i \in 0 .. Len(L[d]) :
            At(L, q[n], d, i) /\ (i = Len(L[d]) => d < n)
    BY <1>1, <1>2, <2>1, SearchGoesByLevels
  <2> QED  BY <2>1, <2>2, MaxPartsAssumption
<1>4. PICK d \in 0 .. MaxParts : \E i \in 0 .. Len(L[d]) :
          At(L, queue, d, i) /\ (i = Len(L[d]) => d < MaxParts)
  BY <1>3
<1>5. PICK i \in 0 .. Len(L[d]) :
          At(L, queue, d, i) /\ (i = Len(L[d]) => d < MaxParts)
  BY <1>4
<1>6. /\ MaxParts \in Nat /\ d \in Nat /\ d <= MaxParts
      /\ L[d] \in Seq(Parts) /\ Len(L[d]) \in Nat
  BY <1>1, MaxPartsAssumption, LenProperties
<1> HIDE DEF queue
(* The search stands at the part k of the level c.                         *)
<1>7. ASSUME NEW c \in 0 .. MaxParts, NEW k \in 0 .. Len(L[c]) - 1,
             At(L, queue, c, k)
      PROVE  find_html_subpart(root)
                = {Level(root, e)[FirstHtml(Level(root, e))] : e \in top}
  <2> DEFINE part == L[c][k + 1]
  <2>1. c \in Nat /\ L[c] \in Seq(Parts) /\ k + 1 \in 1 .. Len(L[c])
    BY <1>1, MaxPartsAssumption, LenProperties
  <2>2. Over(queue)
    BY DEF queue
  <2>3. Finds(L, queue, c, k)
    BY <1>2, <1>7, <2>1, <2>2, StandsAtFirst
  <2>4. /\ queue # <<>> /\ Head(queue) = part
        /\ FirstHtml(L[c]) = k + 1
    BY <2>3, Zenon DEF Finds
  <2>5. \A e \in 0 .. c - 1 : FirstHtml(L[e]) = 0
    BY <2>3, Zenon DEF Finds
  <2>6. c \in depths
    <3>1. FirstHtml(Level(root, c)) # 0
      BY <1>1, <2>1, <2>4
    <3> QED  BY <3>1
  <2>7. ASSUME NEW e \in depths
        PROVE  c <= e
    <3>1. e \in Nat /\ FirstHtml(L[e]) # 0
      BY <1>1, MaxPartsAssumption
    <3>2. e \notin 0 .. c - 1
      BY <2>5, <3>1
    <3> QED  BY <2>1, <3>1, <3>2
  <2>8. top = {c}
    <3>1. c \in top
      BY <2>6, <2>7
    <3>2. ASSUME NEW e \in top
          PROVE  e = c
      <4>1. e \in Nat /\ e <= c /\ c <= e
        BY <2>6, <2>7, MaxPartsAssumption
      <4> QED  BY <2>1, <4>1
    <3> HIDE DEF top
    <3> QED  BY <3>1, <3>2
  <2>9. find_html_subpart(root) = {part}
    BY <2>4 DEF find_html_subpart, queue
  <2>10. Level(root, c)[FirstHtml(Level(root, c))] = part
    BY <1>1, <2>1, <2>4
  <2> HIDE DEF top, part
  <2> QED  BY <2>8, <2>9, <2>10
<1>8. CASE queue # <<>> /\ i # Len(L[d])
  <2>1. i \in 0 .. Len(L[d]) - 1
    BY <1>6, <1>8
  <2> QED  BY <1>5, <1>7, <2>1
<1>9. CASE queue # <<>> /\ i = Len(L[d])
  <2>1. At(L, queue, d + 1, 0) /\ 0 < Len(L[d + 1])
    BY <1>2, <1>5, <1>6, <1>9, Normalised
  <2>2. d + 1 \in 0 .. MaxParts
    BY <1>5, <1>6, <1>9
  <2>3. 0 \in 0 .. Len(L[d + 1]) - 1
    <3>1. Len(L[d + 1]) \in Nat
      BY <1>1, <1>6, LenProperties
    <3> QED  BY <2>1, <3>1
  <2> QED  BY <1>7, <2>1, <2>2, <2>3
<1>10. CASE queue = <<>>
  <2>1. i = Len(L[d])
    <3>1. CASE i # Len(L[d])
      <4>1. i \in 0 .. Len(L[d]) - 1
        BY <1>6, <3>1
      <4> QED  BY <1>2, <1>5, <1>6, <1>10, <4>1, VisitsNext
    <3> QED  BY <3>1
  <2>2. L[d + 1] = <<>>
    <3>1. SubSeq(L[d], i + 1, Len(L[d])) = <<>>
      BY <1>6, <2>1, SubSeqEmpty
    <3>2. /\ Under(L[d])[i] = FlattenSeq(Subparts(L[d]))
          /\ Under(L[d])[i] \in Seq(Parts)
      BY <1>6, <2>1, UnderFacts
    <3>3. <<>> \o Under(L[d])[i] = Under(L[d])[i]
      BY <3>2, ConcatEmptySeq
    <3>4. queue = <<>> \o Under(L[d])[i]
      BY <1>5, <3>1, Zenon DEF At
    <3> QED  BY <1>2, <1>6, <1>10, <3>2, <3>3, <3>4 DEF IsTree
  <2>3. ASSUME NEW e \in Nat
        PROVE  FirstHtml(L[e]) = 0
    <3>1. \A j \in 1 .. Len(L[e]) : ~L[e][j].html
      <4>1. CASE e < d
        <5>1. e \in 0 .. d - 1
          BY <1>6, <4>1
        <5> QED  BY <1>5, <5>1 DEF At, Before
      <4>2. CASE e = d
        BY <1>5, <2>1, <4>2 DEF At, Before
      <4>3. CASE e > d
        <5>1. d + 1 \in Nat /\ e >= d + 1
          BY <1>6, <4>3
        <5>2. L[e] = <<>>
          BY <1>2, <2>2, <5>1, NothingBelow
        <5> QED  BY <5>2
      <4>4. e < d \/ e = d \/ e > d
        BY <1>6
      <4> QED  BY <4>1, <4>2, <4>3, <4>4
    <3>2. L[e] \in Seq(Parts)
      BY <1>1
    <3> QED  BY <3>1, <3>2, FirstHtmlFacts
  <2>4. depths = {}
    <3>1. \A e \in 0 .. MaxParts : e \in Nat
      BY <1>6
    <3>2. \A e \in 0 .. MaxParts : FirstHtml(Level(root, e)) = 0
      BY <1>1, <2>3, <3>1
    <3> QED  BY <3>2
  <2>5. find_html_subpart(root) = {}
    BY <1>10 DEF find_html_subpart, queue
  <2> QED  BY <2>4, <2>5
<1> QED  BY <1>8, <1>9, <1>10

(* Every mail of a run is read that way.                                   *)
THEOREM Reading == Spec => []ShallowestHtml
<1>1. IInv => ShallowestHtml
  <2> SUFFICES ASSUME IInv
               PROVE  ShallowestHtml
    OBVIOUS
  <2>1. mail.root \in Parts /\ Over(Search(mail.root))
    BY MailsAssumption DEF IInv, Mail
  <2> QED  BY <2>1, SearchIsBreadthFirst DEF ShallowestHtml
<1> QED  BY <1>1, Invariance, PTL
=============================================================================
