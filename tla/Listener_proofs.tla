---------------------------- MODULE Listener_proofs ----------------------------
(***************************************************************************)
(* Proofs about the Listener, for all mails, accounts, workers and bounds: *)
(* its types, what YNAB is told, what becomes of the messages of a stream  *)
(* that ends, and that one Ctrl-C is not taken for two.                    *)
(***************************************************************************)
EXTENDS Listener, Parsers_proofs

(* What a transaction is made of.                                          *)

LEMMA MailFacts ==
    ASSUME NEW mail \in Mails, Result[mail].tag = "ok"
    PROVE  /\ Account[mail] \in 1 .. Len(Accounts)
           /\ Accounts[Account[mail]] = mail.from
           /\ \A a \in 1 .. Account[mail] - 1 : Accounts[a] # mail.from
           /\ Amount[mail] = ExactMilliunits(Result[mail].amount)
           /\ Amount[mail] \subseteq -MaxI32 .. 0
<1>1. /\ try_parse_email(Accounts, mail).answer.tag = "ok"
      /\ settling_account(Accounts, mail) # 0
  BY DEF Result, try_parse_email, Nothing, Err
<1>2. Account[mail] = settling_account(Accounts, mail)
  BY <1>1 DEF Account, try_parse_email
<1>3. Result[mail].amount \in AmountText
  <2>1. try_parse_email(Accounts, mail).answer \in Answers
    BY TriedAreAnswered, AccountsAssumption, MailsAssumption
  <2> QED  BY <1>1, <2>1 DEF Result, Answers, Err, Panic, Ok
<1>4. Amount[mail] = ExactMilliunits(Result[mail].amount)
  BY <1>3, ConversionIsExact DEF Amount
<1>5. ExactMilliunits(Result[mail].amount) \subseteq -MaxI32 .. 0
  <2> DEFINE text == Result[mail].amount
  <2>1. text.dollars \in Nat /\ text.cents \in 0 .. 99
    BY <1>3 DEF AmountText
  <2>2. Milliunits(text) \in Int /\ Milliunits(text) <= 0
    BY <2>1 DEF Milliunits
  <2>3. -Milliunits(text) <= MaxI32 => Milliunits(text) \in -MaxI32 .. 0
    BY <2>2, MaxI32Assumption
  <2>4. ExactMilliunits(text) =
          IF text.plain /\ text.signs <= 1 /\ -Milliunits(text) <= MaxI32
          THEN {Milliunits(text)} ELSE {}
    BY DEF ExactMilliunits
  <2> HIDE DEF text
  <2>5. ExactMilliunits(text) \subseteq -MaxI32 .. 0
    BY <2>3, <2>4
  <2> QED  BY <2>5 DEF text
<1> QED  BY <1>1, <1>2, <1>4, <1>5, SettlingAccount, AccountsAssumption

LEMMA InitIInv == Init => IInv
<1> SUFFICES ASSUME Init PROVE IInv
  OBVIOUS
<1>1. TypeOK
  <2>1. Stream!TypeOK
    BY DEF Init, Stream!Init, Stream!TypeOK, Stream!Phases
  <2>2. /\ <<>> \in Seq(Mails) /\ <<>> \in Seq(Fates) /\ <<>> \in Seq(Entry)
        /\ Len(<<>>) = 0
    OBVIOUS
  <2>3. handler \in BOOLEAN /\ signal \in BOOLEAN
    BY Zenon DEF Init
  <2>4. 0 <= MaxMails /\ 0 \in 0 .. MaxPresses /\ 0 \in 0 .. 0
    BY BoundsAssumption
  <2>5. wire \in SUBSET Entry /\ ledger \in Seq(Entry)
    BY <2>2 DEF Init
  <2> QED  BY <2>1, <2>2, <2>3, <2>4, <2>5 DEF Init, TypeOK
<1>2. LedgerIsFaithful /\ FatesAreTrue
  BY DEF Init, LedgerIsFaithful, FatesAreTrue
<1>3. OneCtrlCCleansUp /\ Control /\ Requests
  BY DEF Init, Stream!Init, OneCtrlCCleansUp, Control, Requests, OneIf
<1> QED  BY <1>1, <1>2, <1>3 DEF IInv
-----------------------------------------------------------------------------
(* The types.                                                              *)

LEMMA StreamTypeStep ==
    ASSUME Stream!TypeOK, Len(inbox') \in Nat, Stream!Next \/ UNCHANGED streamVars
    PROVE  Stream!TypeOK'
  BY DEF Stream!TypeOK, Stream!Next, Stream!Close, Stream!Drop, Stream!Resolve,
         Stream!Start, Stream!Finish, Stream!Break, Stream!Feed, Stream!Phases, streamVars

LEMMA ExitType ==
    ASSUME NEW how, Stream!TypeOK, Len(inbox') \in Nat, Exit(how)
    PROVE  Stream!TypeOK'
  BY StreamTypeStep DEF Exit, Stream!Next

LEMMA TypeStep == IInv /\ [Next]_vars => TypeOK'
<1> SUFFICES ASSUME IInv, [Next]_vars
             PROVE  TypeOK'
  OBVIOUS
<1> USE BoundsAssumption, MaxI32Assumption
        DEF IInv, TypeOK, loopVars, signalVars, ynabVars, streamVars, Fates
<1>1. CASE UNCHANGED vars
  BY <1>1, StreamTypeStep DEF vars
<1>2. CASE SetupOk
  BY <1>2, StreamTypeStep DEF SetupOk
<1>3. CASE SetupFails
  BY <1>3, ExitType DEF SetupFails, Exit
<1>4. CASE Deliver
  <2>1. PICK mail \in Mails : inbox' = Append(inbox, mail)
    BY <1>4 DEF Deliver
  <2>2. inbox' \in Seq(Mails) /\ Len(inbox') = Len(inbox) + 1
    BY <2>1
  <2>3. Stream!Next /\ Stream!TypeOK
    BY <1>4 DEF Deliver, Stream!Next
  <2>4. Stream!TypeOK'
    BY <2>2, <2>3, StreamTypeStep
  <2> QED  BY <1>4, <2>2, <2>4 DEF Deliver
<1>5. CASE Resolve \/ \E w \in Workers : \/ StartWorker(w) \/ FinishWorker(w)
                                          \/ BreakWorker(w)
  <2>1. Stream!Next
    BY <1>5
    DEF Resolve, StartWorker, FinishWorker, BreakWorker, StreamStep, Stream!Next
  <2>2. UNCHANGED <<pc, left, outcome, loopVars, signalVars, ynabVars>>
    BY <1>5 DEF Resolve, StartWorker, FinishWorker, BreakWorker, StreamStep
  <2> QED  BY <2>1, <2>2, StreamTypeStep
<1>6. CASE PressKills
  BY <1>6, ExitType DEF PressKills, Exit
<1>7. CASE Press
  BY <1>7, StreamTypeStep DEF Press
<1>8. CASE Broadcast
  <2>1. UNCHANGED <<pc, left, outcome, loopVars, handler, presses, ynabVars,
                    streamVars>>
    BY <1>8 DEF Broadcast
  <2>2. signal' = FALSE /\ listener' \in {"none", "armed", "notified"}
    BY <1>8 DEF Broadcast
  <2>3. Stream!TypeOK' /\ Len(inbox') \in Nat
    BY <2>1, StreamTypeStep
  <2> QED  BY <2>1, <2>2, <2>3
<1>9. CASE YnabRecords
  <2>1. PICK request \in wire : /\ wire' = wire \ {request}
                                /\ ledger' = Append(ledger, request)
    BY <1>9 DEF YnabRecords
  <2>2. ledger' \in Seq(Entry) /\ wire' \in SUBSET Entry
    BY <2>1
  <2> QED  BY <1>9, <2>2, StreamTypeStep DEF YnabRecords
<1>10. CASE MainStep
  <2>1. CASE Listen
    BY <2>1, StreamTypeStep DEF Listen
  <2>2. CASE ListenFails \/ Interrupted \/ EndOfStream
    BY <2>2, StreamTypeStep DEF ListenFails, Interrupted, EndOfStream, Leave
  <2>3. CASE TakePanics
    BY <2>3, ExitType DEF TakePanics, Take, Exit, Control, InLoop
  <2>4. CASE TakeSettles
    <3>1. PICK how \in Fates : fate' = Append(fate, how)
      BY <2>4 DEF TakeSettles
    <3>2. fate' \in Seq(Fates) /\ Len(fate') = Len(fate) + 1
      BY <3>1
    <3> QED
      BY <2>4, <3>2, StreamTypeStep DEF TakeSettles, Take, Control, InLoop
  <2>5. CASE TakeSubmits
    <3>1. Message \in Mails /\ read + 1 \in 1 .. MaxMails
      BY <2>5 DEF TakeSubmits, Take, Message
    <3>2. wire' \in SUBSET Entry
      <4>1. ASSUME NEW n \in Amount[Message]
            PROVE  [mail |-> read + 1, amount |-> n,
                    account |-> Account[Message]] \in Entry
        <5>1. n \in -MaxI32 .. 0 /\ Account[Message] \in 1 .. Len(Accounts)
          BY <2>5, <3>1, <4>1, MailFacts DEF TakeSubmits
        <5>2. Amount[Message] = {n}
          <6>1. Amount[Message] = ExactMilliunits(Result[Message].amount)
            BY <2>5, <3>1, MailFacts DEF TakeSubmits
          <6>2. ExactMilliunits(Result[Message].amount)
                    \in {{Milliunits(Result[Message].amount)}, {}}
            BY DEF ExactMilliunits
          <6>. HIDE DEF Message, Result, Amount
          <6>. QED  BY <4>1, <6>1, <6>2
        <5>3. n # 0
          BY <2>5, <5>2 DEF TakeSubmits
        <5> QED  BY <3>1, <5>1, <5>3 DEF Entry
      <4> QED  BY <2>5, <4>1 DEF TakeSubmits
    <3> QED
      BY <2>5, <3>2, StreamTypeStep DEF TakeSubmits, Take, Control, InLoop
  <2>6. CASE SubmitOk \/ SubmitFails
    <3>1. PICK how \in Fates : fate' = Append(fate, how)
      BY <2>6 DEF SubmitOk, SubmitFails, Submitted
    <3>2. fate' \in Seq(Fates) /\ Len(fate') = Len(fate) + 1
      BY <3>1
    <3> QED
      BY <2>6, <3>2, StreamTypeStep DEF SubmitOk, SubmitFails, Submitted, Control
  <2>7. CASE CloseStream
    BY <2>7, StreamTypeStep DEF CloseStream, Stream!Next
  <2>8. CASE CloseWithoutSignals \/ CloseDone \/ ForceExit
    BY <2>8, ExitType DEF CloseWithoutSignals, CloseDone, ForceExit, Exit
  <2> QED
    BY <1>10, <2>1, <2>2, <2>3, <2>4, <2>5, <2>6, <2>7, <2>8 DEF MainStep
<1> QED
  BY <1>1, <1>2, <1>3, <1>4, <1>5, <1>6, <1>7, <1>8, <1>9, <1>10 DEF Next
-----------------------------------------------------------------------------
(* Where the task is, and the Ctrl-Cs.                                     *)

LEMMA ControlStep == IInv /\ [Next]_vars => Control' /\ OneCtrlCCleansUp'
<1> SUFFICES ASSUME IInv, [Next]_vars
             PROVE  Control' /\ OneCtrlCCleansUp'
  OBVIOUS
<1> USE DEF IInv, TypeOK, Control, Stream!Dry, OneCtrlCCleansUp, OneIf,
            loopVars, signalVars, ynabVars, streamVars
<1>1. CASE UNCHANGED vars
  BY <1>1 DEF vars
<1>2. CASE SetupOk \/ SetupFails
  BY <1>2 DEF SetupOk, SetupFails, Exit, Stream!Drop
<1>3. CASE Deliver
  <2>1. PICK mail \in Mails : inbox' = Append(inbox, mail)
    BY <1>3 DEF Deliver
  <2>2. \A k \in 1 .. Len(inbox) : inbox'[k] = inbox[k]
    BY <2>1
  <2> QED  BY <1>3, <2>2 DEF Deliver, Stream!Feed
<1>4. CASE Resolve
  BY <1>4 DEF Resolve, StreamStep, Stream!Resolve
<1>5. CASE \E w \in Workers : StartWorker(w) \/ FinishWorker(w) \/ BreakWorker(w)
  <2>1. UNCHANGED <<pc, left, outcome, loopVars, signalVars, ynabVars>>
    BY <1>5 DEF StartWorker, FinishWorker, BreakWorker, StreamStep
  <2>2. PICK w \in Workers : Stream!Start(w) \/ Stream!Finish(w) \/ Stream!Break(w)
    BY <1>5 DEF StartWorker, FinishWorker, BreakWorker, StreamStep
  <2>3. phase' = phase /\ (broken => broken')
    BY <2>2 DEF Stream!Start, Stream!Finish, Stream!Break
  <2>4. Stream!Dry => active' \subseteq active
    BY <2>2 DEF Stream!Start, Stream!Finish, Stream!Break
  <2>5. /\ Stream!Dry => Stream!Dry'
        /\ active = {} \/ broken => active' = {} \/ broken'
    BY <2>3, <2>4 DEF Stream!Dry
  <2> QED  BY <2>1, <2>3, <2>5
<1>6. CASE PressKills
  BY <1>6 DEF PressKills, Exit, Stream!Drop
<1>7. CASE Press
  BY <1>7 DEF Press
<1>8. CASE Broadcast
  BY <1>8 DEF Broadcast
<1>9. CASE YnabRecords
  BY <1>9 DEF YnabRecords
<1>10. CASE MainStep
  <2>1. CASE Listen
    BY <2>1 DEF Listen
  <2>2. CASE ListenFails \/ Interrupted \/ EndOfStream
    BY <2>2 DEF ListenFails, Interrupted, EndOfStream, Leave, InLoop
  <2>3. CASE TakePanics
    BY <2>3 DEF TakePanics, Take, Exit, InLoop, Stream!Drop
  <2>4. CASE TakeSettles
    <3>1. PICK how \in Fates : fate' = Append(fate, how)
      BY <2>4 DEF TakeSettles, Fates
    <3>2. Len(fate') = Len(fate) + 1
      BY <3>1
    <3> QED  BY <2>4, <3>2 DEF TakeSettles, Take, InLoop
  <2>5. CASE TakeSubmits
    BY <2>5 DEF TakeSubmits, Take, InLoop, Message
  <2>6. CASE SubmitOk \/ SubmitFails
    <3>1. PICK how \in Fates : fate' = Append(fate, how)
      BY <2>6 DEF SubmitOk, SubmitFails, Submitted, Fates
    <3>2. Len(fate') = Len(fate) + 1
      BY <3>1
    <3> QED  BY <2>6, <3>2 DEF SubmitOk, SubmitFails, Submitted
  <2>7. CASE CloseStream
    BY <2>7 DEF CloseStream, Stream!Close
  <2>8. CASE CloseWithoutSignals \/ CloseDone \/ ForceExit
    BY <2>8 DEF CloseWithoutSignals, CloseDone, ForceExit, Exit, Stream!Drop
  <2> QED
    BY <1>10, <2>1, <2>2, <2>3, <2>4, <2>5, <2>6, <2>7, <2>8 DEF MainStep
<1> QED
  BY <1>1, <1>2, <1>3, <1>4, <1>5, <1>6, <1>7, <1>8, <1>9, <1>10 DEF Next
-----------------------------------------------------------------------------
(* What YNAB is told.                                                      *)

Ledgers == LedgerIsFaithful /\ FatesAreTrue /\ Requests

(* Nothing changes but that further messages may come and be taken.        *)
LEMMA LedgersFrame ==
    ASSUME TypeOK, Ledgers, read' >= read, read' \in Nat,
           \A k \in 1 .. Len(inbox) : inbox'[k] = inbox[k],
           UNCHANGED <<fate, wire, ledger>>
    PROVE  Ledgers'
<1>1. ASSUME NEW entry \in Entry, Faithful(entry)
      PROVE  Faithful(entry)'
  <2>1. entry.mail \in 1 .. Len(inbox)
    BY <1>1 DEF Faithful, Entry, TypeOK
  <2>2. inbox'[entry.mail] = inbox[entry.mail] /\ entry.mail <= read'
    BY <1>1, <2>1 DEF Faithful, Entry, TypeOK
  <2> QED  BY <1>1, <2>2 DEF Faithful
<1>2. LedgerIsFaithful'
  BY <1>1 DEF Ledgers, LedgerIsFaithful, TypeOK
<1>3. Requests'
  BY <1>1 DEF Ledgers, Requests, Recorded, TypeOK
<1>4. FatesAreTrue'
  <2> SUFFICES ASSUME NEW k \in 1 .. Len(fate)
               PROVE  IsTrueOf(fate[k], k)'
    BY DEF FatesAreTrue
  <2>1. inbox'[k] = inbox[k] /\ IsTrueOf(fate[k], k)
    BY DEF TypeOK, Ledgers, FatesAreTrue
  <2>2. Recorded' = Recorded
    BY DEF Recorded
  <2> QED  BY <2>1, <2>2 DEF IsTrueOf
<1> QED  BY <1>2, <1>3, <1>4 DEF Ledgers

(* A message is dealt with, and its fate is true of it.                    *)
LEMMA LedgersFate ==
    ASSUME TypeOK, Ledgers, NEW how \in Fates, Len(fate) + 1 \in 1 .. Len(inbox),
           fate' = Append(fate, how),
           read' >= read, read' \in Nat,
           UNCHANGED <<inbox, wire, ledger>>,
           IsTrueOf(how, Len(fate) + 1),
           how \in {"submitted", "failed"} \/ read = Len(fate)
    PROVE  Ledgers'
<1>1. /\ Len(fate') = Len(fate) + 1
      /\ fate'[Len(fate) + 1] = how
      /\ \A k \in 1 .. Len(fate) : fate'[k] = fate[k]
  BY DEF TypeOK
<1>2. ASSUME NEW entry \in Entry, Faithful(entry)
      PROVE  Faithful(entry)'
  BY <1>1, <1>2 DEF Faithful, Entry, TypeOK
<1>3. LedgerIsFaithful'
  BY <1>2 DEF Ledgers, LedgerIsFaithful, TypeOK
<1>4. Requests'
  BY <1>2 DEF Ledgers, Requests, Recorded, TypeOK
<1>5. FatesAreTrue'
  <2> SUFFICES ASSUME NEW k \in 1 .. Len(fate')
               PROVE  IsTrueOf(fate[k], k)'
    BY DEF FatesAreTrue
  <2>1. Recorded' = Recorded
    BY DEF Recorded
  <2>2. CASE k \in 1 .. Len(fate)
    <3>1. IsTrueOf(fate[k], k) /\ fate'[k] = fate[k]
      BY <1>1, <2>2 DEF Ledgers, FatesAreTrue
    <3> QED  BY <2>1, <3>1 DEF IsTrueOf
  <2>3. CASE k = Len(fate) + 1
    BY <1>1, <2>1, <2>3 DEF IsTrueOf
  <2> QED  BY <1>1, <2>2, <2>3 DEF TypeOK
<1> QED  BY <1>3, <1>4, <1>5 DEF Ledgers

LEMMA LedgersRecord ==
    ASSUME TypeOK, Ledgers, YnabRecords
    PROVE  Ledgers'
<1>1. PICK request \in wire : /\ wire' = wire \ {request}
                              /\ ledger' = Append(ledger, request)
  BY DEF YnabRecords
<1>2. /\ DOMAIN ledger = 1 .. Len(ledger)
      /\ DOMAIN ledger' = 1 .. Len(ledger) + 1
      /\ Len(ledger) \in Nat
      /\ ledger'[Len(ledger) + 1] = request
      /\ \A i \in 1 .. Len(ledger) : ledger'[i] = ledger[i]
  BY <1>1 DEF TypeOK
<1>3. Recorded' = Recorded \union {request.mail}
  BY <1>2 DEF Recorded
<1>4. ASSUME NEW entry, Faithful(entry)
      PROVE  Faithful(entry)'
  BY <1>4 DEF Faithful, YnabRecords, loopVars
<1>5. LedgerIsFaithful'
  <2>1. ASSUME NEW i \in DOMAIN ledger'
        PROVE  Faithful(ledger[i])'
    BY <1>2, <1>4 DEF Ledgers, LedgerIsFaithful, Requests
  <2>2. \A i \in 1 .. Len(ledger) : ledger[i].mail # request.mail
    BY <1>2 DEF Ledgers, Requests, Recorded
  <2>3. ASSUME NEW i \in DOMAIN ledger', NEW j \in DOMAIN ledger',
               ledger'[i].mail = ledger'[j].mail
        PROVE  i = j
    BY <1>2, <2>2, <2>3 DEF Ledgers, LedgerIsFaithful
  <2> QED  BY <2>1, <2>3 DEF LedgerIsFaithful
<1>6. Requests'
  <2> SUFFICES ASSUME NEW e \in wire'
               PROVE  /\ Faithful(e)' /\ e.mail \notin Recorded'
                      /\ \A other \in wire' : e.mail = other.mail => e = other
    BY DEF Requests
  <2> QED  BY <1>1, <1>3, <1>4 DEF Ledgers, Requests
<1>7. FatesAreTrue'
  BY <1>3 DEF Ledgers, FatesAreTrue, IsTrueOf, YnabRecords, loopVars
<1> QED  BY <1>5, <1>6, <1>7 DEF Ledgers

LEMMA LedgersSubmit ==
    ASSUME IInv, TakeSubmits
    PROVE  Ledgers'
<1>1. /\ Message \in Mails /\ Message = inbox[read + 1] /\ read + 1 \in 1 .. MaxMails
      /\ Result[Message].tag = "ok" /\ Amount[Message] \notin {{}, {0}}
      /\ read = Len(fate) /\ read \in Nat /\ read' = read + 1
      /\ UNCHANGED <<inbox, fate, ledger>>
  BY BoundsAssumption
  DEF TakeSubmits, Take, Message, InLoop, IInv, TypeOK, Control
<1>2. PICK n : Amount[Message] = {n}
  BY <1>1, MailFacts DEF ExactMilliunits
<1>3. PICK new :
        /\ new = [mail |-> read + 1, amount |-> n, account |-> Account[Message]]
        /\ wire' = wire \union {new}
  <2> DEFINE e == [mail |-> read + 1, amount |-> n, account |-> Account[Message]]
  <2>1. wire' = wire \union {e}
    BY <1>2 DEF TakeSubmits
  <2> QED  BY <2>1
<1>4. Faithful(new)'
  <2>1. new.mail = read + 1 /\ new.account = Account[Message] /\ new.amount = n
    BY <1>3
  <2>2. inbox'[new.mail] = Message /\ new.mail <= read' /\ ~(new.mail <= Len(fate'))
    BY <1>1, <2>1
  <2> QED  BY <1>1, <1>2, <2>1, <2>2, MailFacts DEF Faithful
<1>5. ASSUME NEW entry, Faithful(entry), entry \in Entry
      PROVE  Faithful(entry)' /\ entry.mail <= read
  BY <1>1, <1>5 DEF Faithful, Entry
<1>6. \A i \in DOMAIN ledger : ledger[i] \in Entry
  BY DEF IInv, TypeOK
<1>7. LedgerIsFaithful'
  BY <1>1, <1>5, <1>6 DEF IInv, LedgerIsFaithful
<1>8. Requests'
  <2>1. Recorded' = Recorded /\ \A m \in Recorded : m <= read
    BY <1>1, <1>5, <1>6 DEF Recorded, IInv, LedgerIsFaithful
  <2>2. \A e \in wire : Faithful(e)' /\ e.mail <= read
    BY <1>5 DEF IInv, TypeOK, Requests
  <2>3. new.mail = read + 1 /\ ~(read + 1 <= read)
    BY <1>1, <1>3
  <2>4. ASSUME NEW e \in wire'
        PROVE  /\ Faithful(e)' /\ e.mail \notin Recorded'
               /\ \A other \in wire' : e.mail = other.mail => e = other
    BY <1>3, <1>4, <2>1, <2>2, <2>3 DEF IInv, Requests
  <2> QED  BY <2>4 DEF Requests
<1>9. FatesAreTrue'
  BY <1>1 DEF IInv, FatesAreTrue, IsTrueOf, Recorded
<1> QED  BY <1>7, <1>8, <1>9 DEF Ledgers

LEMMA LedgersStep == IInv /\ [Next]_vars => Ledgers'
<1> SUFFICES ASSUME IInv, [Next]_vars
             PROVE  Ledgers'
  OBVIOUS
<1>1. TypeOK /\ Ledgers /\ Control
  BY DEF IInv, Ledgers
<1>2. read \in Nat /\ Len(inbox) \in Nat /\ Len(fate) \in Nat
  BY <1>1 DEF TypeOK
<1>3. CASE UNCHANGED <<loopVars, ynabVars>>
  BY <1>1, <1>2, <1>3, LedgersFrame DEF loopVars, ynabVars
<1>4. CASE Deliver
  <2>1. PICK mail \in Mails : inbox' = Append(inbox, mail)
    BY <1>4 DEF Deliver
  <2>2. \A k \in 1 .. Len(inbox) : inbox'[k] = inbox[k]
    BY <1>1, <2>1 DEF TypeOK
  <2> QED  BY <1>1, <1>2, <1>4, <2>2, LedgersFrame DEF Deliver, ynabVars
<1>5. CASE TakePanics
  BY <1>1, <1>2, <1>5, LedgersFrame DEF TakePanics, Take
<1>6. CASE TakeSettles
  <2>1. /\ Len(fate) + 1 \in 1 .. Len(inbox) /\ read = Len(fate)
        /\ Message = inbox[Len(fate) + 1] /\ Message \in Mails
        /\ read' >= read /\ read' \in Nat /\ UNCHANGED <<inbox, wire, ledger>>
    BY <1>1, <1>2, <1>6
    DEF TakeSettles, Take, InLoop, Control, TypeOK, Message
  <2>2. PICK how \in Fates : /\ fate' = Append(fate, how)
                             /\ IsTrueOf(how, Len(fate) + 1)
    <3>1. CASE Result[Message].tag = "err" /\ fate' = Append(fate, "ignored")
      BY <2>1, <3>1 DEF IsTrueOf, Fates
    <3>2. CASE /\ Result[Message].tag = "ok" /\ Amount[Message] = {}
               /\ fate' = Append(fate, "unconvertible")
      BY <2>1, <3>2, MailFacts DEF IsTrueOf, Fates
    <3>3. CASE /\ Result[Message].tag = "ok" /\ Amount[Message] = {0}
               /\ fate' = Append(fate, "zero")
      BY <2>1, <3>3, MailFacts DEF IsTrueOf, Fates
    <3> QED  BY <1>6, <3>1, <3>2, <3>3 DEF TakeSettles
  <2> QED  BY <1>1, <2>1, <2>2, LedgersFate
<1>7. CASE TakeSubmits
  BY <1>7, LedgersSubmit
<1>8. CASE SubmitOk \/ SubmitFails
  <2>1. /\ Len(fate) + 1 \in 1 .. Len(inbox) /\ read = Len(fate) + 1
        /\ Result[inbox[read]].tag = "ok"
        /\ UNCHANGED <<inbox, read, wire, ledger>>
    BY <1>1, <1>2, <1>8 DEF SubmitOk, SubmitFails, Submitted, Control, TypeOK
  <2>2. PICK how \in {"submitted", "failed"} :
            fate' = Append(fate, how) /\ IsTrueOf(how, Len(fate) + 1)
    BY <1>8, <2>1 DEF SubmitOk, SubmitFails, Submitted, IsTrueOf
  <2> QED  BY <1>1, <1>2, <2>1, <2>2, LedgersFate DEF Fates
<1>9. CASE YnabRecords
  BY <1>1, <1>9, LedgersRecord
<1> QED
  BY <1>3, <1>4, <1>5, <1>6, <1>7, <1>8, <1>9
  DEF Next, vars, MainStep, SetupOk, SetupFails, Listen, ListenFails, Interrupted,
      EndOfStream, Leave, CloseStream, CloseWithoutSignals, CloseDone, ForceExit,
      Resolve, StartWorker, FinishWorker, BreakWorker, StreamStep, PressKills, Press,
      Broadcast
-----------------------------------------------------------------------------
LEMMA StepIInv == IInv /\ [Next]_vars => IInv'
  BY TypeStep, ControlStep, LedgersStep DEF IInv, Ledgers

(* The invariant of the main task, which the other theorems follow from.   *)
THEOREM Invariance == Spec => []IInv
<1>1. Init => IInv
  BY InitIInv
<1>2. IInv /\ [Next]_vars => IInv'
  BY StepIInv
<1> QED  BY <1>1, <1>2, PTL DEF Spec

(* The types, that every transaction is a debit that fits, and that the    *)
(* message being submitted is the only one without a fate.                 *)
THEOREM TypeCorrect == Spec => []TypeOK
<1>1. IInv => TypeOK
  BY DEF IInv
<1> QED  BY <1>1, Invariance, PTL

(* YNAB records at most one transaction per message, with the exact amount *)
(* and for the right account, however late a request arrives.              *)
THEOREM LedgerCorrect == Spec => []LedgerIsFaithful
<1>1. IInv => LedgerIsFaithful
  BY DEF IInv
<1> QED  BY <1>1, Invariance, PTL

(* The program's own account of its messages is true.                      *)
THEOREM FatesCorrect == Spec => []FatesAreTrue
<1>1. IInv => FatesAreTrue
  BY DEF IInv
<1> QED  BY <1>1, Invariance, PTL

(* A stream that ends on its own takes no message with it.                 *)
THEOREM NothingLostAtTheEnd == Spec => []EndLosesNothing
<1>1. IInv => EndLosesNothing
  BY DEF IInv, Control, EndLosesNothing
<1> QED  BY <1>1, Invariance, PTL

(* A regular end leaves nothing running and nothing half done.             *)
THEOREM EndIsClean == Spec => []DoneIsClean
<1>1. IInv => DoneIsClean
  <2>1. ASSUME IInv, outcome = "done", presses = 0, left = "ctrlC" PROVE FALSE
    BY <2>1 DEF IInv, Control, OneIf
  <2>. QED  BY <2>1 DEF IInv, TypeOK, Control, DoneIsClean
<1> QED  BY <1>1, Invariance, PTL

(* The program does with its stream what the contract has it do: it closes *)
(* it once, or drops it by ending, and never after it was closed           *)
(* (main.rs:108-116, lib.rs:52-60).                                        *)
LEMMA UsesItsStream == Spec => Stream!SafeSpec
<1>1. Init => Stream!Init
  BY DEF Init
<1>2. ASSUME [Next]_vars PROVE [Stream!Next]_(Stream!vars)
  <2>1. \/ Stream!Close \/ Stream!Drop \/ Stream!Resolve \/ Stream!Feed
        \/ \E w \in Workers : Stream!Start(w) \/ Stream!Finish(w) \/ Stream!Break(w)
        \/ UNCHANGED <<streamVars, inbox>>
    BY <1>2
    DEF Next, vars, MainStep, SetupOk, SetupFails, Listen, ListenFails, Interrupted,
        EndOfStream, Leave, TakePanics, TakeSettles, TakeSubmits, SubmitOk, SubmitFails,
        Submitted, CloseStream, CloseWithoutSignals, CloseDone, ForceExit, Exit,
        Deliver, Resolve, StartWorker, FinishWorker, BreakWorker, StreamStep,
        PressKills, Press, Broadcast, YnabRecords, loopVars, Take
  <2>. QED  BY <2>1 DEF Stream!Next, Stream!vars, streamVars
<1> QED  BY <1>1, <1>2, PTL DEF Spec, Stream!SafeSpec

(* One Ctrl-C never counts for two.                                        *)
THEOREM CleanUpIsNotSkipped == Spec => []OneCtrlCCleansUp
<1>1. IInv => OneCtrlCCleansUp
  BY DEF IInv
<1> QED  BY <1>1, Invariance, PTL
=============================================================================
