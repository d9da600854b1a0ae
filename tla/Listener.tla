------------------------------- MODULE Listener -------------------------------
(***************************************************************************)
(* The main program, src/src/main.rs: it takes the messages of a stream    *)
(* one by one, submits the transactions found in them to YNAB, and is shut *)
(* down by Ctrl-C or by the end of the stream.                             *)
(*                                                                         *)
(* The stream is the contract CloseableStream, which MessageStream         *)
(* implements as far as its lock allows; it ends when no feeder is left.   *)
(* External: YNAB, the user, and tokio's signal driver, which tells the    *)
(* futures of ctrl_c() that exist at that moment of a signal.              *)
(***************************************************************************)
EXTENDS Parsers, FiniteSets

CONSTANTS
    Accounts,           \* the parsers of the configured accounts, in order
    Mails,              \* the mails that may come
    Workers, Feeders,   \* the workers of the stream, and who of them feeds it
    MaxMails,           \* bound: how many mails come
    MaxPresses          \* bound: how often the user presses Ctrl-C

ASSUME AccountsAssumption == Accounts \in Seq(Banks)
ASSUME MailsAssumption == Mails \subseteq Mail
ASSUME BoundsAssumption == MaxMails \in Nat /\ MaxPresses \in Nat

VARIABLES
    pc,                 \* where the main task is
    inbox,              \* the messages put into the stream so far
    read,               \* how many of them were taken out
    fate,               \* what became of each that has been dealt with
    left,               \* why the loop was left
    outcome,            \* how the process ended
    handler,            \* whether tokio's handler replaced the default action
    listener,           \* the current ctrl_c() future
    signal,             \* whether the driver has yet to pass a signal on
    presses,            \* how often Ctrl-C was pressed
    wire,               \* the transactions on their way to YNAB
    ledger,             \* the transactions YNAB recorded
    phase, fresh, active, broken        \* the stream

loopVars == <<inbox, read, fate>>
signalVars == <<handler, listener, signal, presses>>
ynabVars == <<wire, ledger>>
streamVars == <<phase, fresh, active, broken>>
vars == <<pc, left, outcome, loopVars, signalVars, ynabVars, streamVars>>

Stream == INSTANCE CloseableStream WITH items <- Len(inbox)

(* What try_parse_email makes of each mail, for which account, and what    *)
(* the conversion makes of its amount.                                     *)
Result == [mail \in Mails |-> try_parse_email(Accounts, mail).answer]
Account == [mail \in Mails |-> try_parse_email(Accounts, mail).account]
Amount == [mail \in {m \in Mails : Result[m].tag = "ok"} |->
                convert_amount_to_ynab_form(Result[mail].amount)]

Entry == [mail : 1 .. MaxMails, account : 1 .. Len(Accounts),
          amount : -MaxI32 .. -1]

Fates == {"ignored", "zero", "unconvertible", "submitted", "failed"}

TypeOK ==
    /\ pc \in {"setup", "poll", "wait", "submit", "close", "closing", "exited"}
    /\ inbox \in Seq(Mails) /\ Len(inbox) <= MaxMails
    /\ read \in 0 .. Len(inbox)
    /\ fate \in Seq(Fates) /\ Len(fate) \in {read - 1, read}
    /\ left \in {"no", "ctrlC", "noSignals", "streamEnd"}
    /\ outcome \in {"none", "done", "forced", "panicked", "killed",
                    "error"}
    /\ handler \in BOOLEAN /\ signal \in BOOLEAN
    /\ listener \in {"none", "armed", "notified"}
    /\ presses \in 0 .. MaxPresses
    /\ wire \in SUBSET Entry
    /\ ledger \in Seq(Entry)
    /\ Stream!TypeOK

Init ==
    /\ pc = "setup" /\ left = "no" /\ outcome = "none"
    /\ inbox = <<>> /\ read = 0 /\ fate = <<>>
    /\ handler = FALSE /\ listener = "none" /\ signal = FALSE /\ presses = 0
    /\ wire = {} /\ ledger = <<>>
    /\ Stream!Init

InLoop == pc \in {"poll", "wait"}

(* The process is gone, and its stream with it.                            *)
Exit(how) ==
    /\ pc' = "exited"
    /\ outcome' = how
    /\ IF phase = "closed" THEN UNCHANGED streamVars ELSE Stream!Drop
-----------------------------------------------------------------------------
(* The stream, the user and YNAB.                                          *)

Deliver ==
    /\ pc \notin {"setup", "exited"}
    /\ Len(inbox) < MaxMails
    /\ \E mail \in Mails : inbox' = Append(inbox, mail)
    /\ Stream!Feed
    /\ UNCHANGED <<pc, left, outcome, read, fate, signalVars, ynabVars>>

StreamStep(step) ==
    /\ pc \notin {"setup", "exited"}
    /\ UNCHANGED <<pc, left, outcome, loopVars, signalVars, ynabVars>>
    /\ step

StartWorker(w) == StreamStep(Stream!Start(w))
FinishWorker(w) == StreamStep(Stream!Finish(w))
BreakWorker(w) == StreamStep(Stream!Break(w))
Resolve == StreamStep(Stream!Resolve)

(* Without a handler the signal ends the process.                          *)
PressKills ==
    /\ pc # "exited" /\ presses < MaxPresses
    /\ ~handler
    /\ presses' = presses + 1
    /\ UNCHANGED <<left, loopVars, handler, listener, signal, ynabVars>>
    /\ Exit("killed")

Press ==
    /\ pc # "exited" /\ presses < MaxPresses
    /\ handler
    /\ presses' = presses + 1
    /\ signal' = TRUE
    /\ UNCHANGED <<pc, left, outcome, loopVars, handler, listener, ynabVars, streamVars>>

(* Defect: a signal is also passed on to futures made after it.            *)
BroadcastForEver ==
    /\ pc # "exited" /\ signal
    /\ listener' = IF listener = "armed" THEN "notified" ELSE listener
    /\ UNCHANGED <<pc, left, outcome, loopVars, handler, signal, presses, ynabVars, streamVars>>

(* A signal that nobody listens for is forgotten.                          *)
Broadcast ==
    /\ pc # "exited" /\ signal
    /\ signal' = FALSE
    /\ listener' = IF listener = "armed" THEN "notified" ELSE listener
    /\ UNCHANGED <<pc, left, outcome, loopVars, handler, presses, ynabVars, streamVars>>

(* A request may be recorded late, or never; its client may be gone.       *)
YnabRecords ==
    /\ \E request \in wire :
        /\ wire' = wire \ {request}
        /\ ledger' = Append(ledger, request)
    /\ UNCHANGED <<pc, left, outcome, loopVars, signalVars, streamVars>>
-----------------------------------------------------------------------------
(* The main task.                                                          *)

SetupOk ==
    /\ pc = "setup"
    /\ pc' = "poll"
    /\ UNCHANGED <<left, outcome, loopVars, signalVars, ynabVars, streamVars>>

SetupFails ==
    /\ pc = "setup"
    /\ UNCHANGED <<left, loopVars, signalVars, ynabVars>>
    /\ Exit("error")

(* Polling ctrl_c() for the first time installs the handler for good.      *)
Listen ==
    /\ pc = "poll"
    /\ pc' = "wait"
    /\ handler' = TRUE /\ listener' = "armed"
    /\ UNCHANGED <<left, outcome, loopVars, signal, presses, ynabVars, streamVars>>

(* Leaving the select drops the other future.                              *)
Leave(why) ==
    /\ pc' = "close"
    /\ left' = why
    /\ listener' = "none"
    /\ UNCHANGED <<outcome, loopVars, handler, signal, presses, ynabVars, streamVars>>

(* ctrl_c() resolves to an error, which the loop does not tell apart.      *)
ListenFails == pc = "poll" /\ ~handler /\ Leave("noSignals")

(* Defect: the loop goes on after a Ctrl-C.                                *)
InterruptedContinues ==
    /\ pc = "wait" /\ listener = "notified"
    /\ pc' = "poll"
    /\ listener' = "none"
    /\ UNCHANGED <<left, outcome, loopVars, handler, signal, presses, ynabVars, streamVars>>

Interrupted == pc = "wait" /\ listener = "notified" /\ Leave("ctrlC")

(* Defect: the end is believed while messages are waiting.                 *)
EndOfWorkers == InLoop /\ Stream!Dry /\ Leave("streamEnd")

(* Defect: the end is taken for a message that says nothing.               *)
EndIgnored ==
    /\ InLoop
    /\ Stream!Dry /\ read = Len(inbox)
    /\ pc' = "poll"
    /\ listener' = "none"
    /\ UNCHANGED <<left, outcome, loopVars, handler, signal, presses, ynabVars, streamVars>>

EndOfStream ==
    /\ InLoop
    /\ Stream!Dry /\ read = Len(inbox)
    /\ Leave("streamEnd")

(* The next message is taken, and any notification of a Ctrl-C dropped.    *)
Take ==
    /\ InLoop
    /\ read < Len(inbox)
    /\ read' = read + 1
    /\ listener' = "none"
    /\ UNCHANGED <<left, inbox, handler, signal, presses, ledger>>

Message == inbox[read + 1]

TakePanics ==
    /\ Take
    /\ Result[Message].tag = "panic"
    /\ UNCHANGED <<fate, wire>>
    /\ Exit("panicked")

(* What is settled without a request to YNAB.                              *)
TakeSettles ==
    /\ Take
    /\ \/ Result[Message].tag = "err" /\ fate' = Append(fate, "ignored")
       \/ Result[Message].tag = "ok" /\ Amount[Message] = {} /\ fate' = Append(fate, "unconvertible")
       \/ Result[Message].tag = "ok" /\ Amount[Message] = {0} /\ fate' = Append(fate, "zero")
    /\ pc' = "poll"
    /\ UNCHANGED <<outcome, wire, streamVars>>

TakeSubmits ==
    /\ Take
    /\ Result[Message].tag = "ok" /\ Amount[Message] \notin {{}, {0}}
    /\ wire' = wire \union
        {[mail |-> read + 1, amount |-> n,
          account |-> Account[Message]] : n \in Amount[Message]}
    /\ pc' = "submit"
    /\ UNCHANGED <<fate, outcome, streamVars>>

Recorded == {ledger[i].mail : i \in DOMAIN ledger}

Submitted(how) ==
    /\ pc = "submit"
    /\ fate' = Append(fate, how)
    /\ pc' = "poll"
    /\ UNCHANGED <<left, outcome, inbox, read, signalVars, ledger, streamVars>>

(* Defect: the status of the response is not looked at.                    *)
SubmitUnchecked == Submitted("submitted") /\ UNCHANGED wire

SubmitOk ==
    /\ read \in Recorded
    /\ Submitted("submitted")
    /\ UNCHANGED wire

(* Defect: a request that fails is sent again.                             *)
SubmitAgain ==
    /\ pc = "submit"
    /\ \E i \in DOMAIN ledger : wire' = wire \union {ledger[i]}
    /\ UNCHANGED <<pc, left, outcome, loopVars, signalVars, ledger, streamVars>>

(* Defect: a request that fails ends the program.                          *)
SubmitFailsForGood ==
    /\ pc = "submit"
    /\ UNCHANGED <<left, loopVars, signalVars, ynabVars>>
    /\ Exit("error")

(* Refused, not sent, or the answer is lost: it is only logged.            *)
SubmitFails == Submitted("failed") /\ UNCHANGED wire

CloseStream ==
    /\ pc = "close"
    /\ pc' = "closing"
    /\ handler' = TRUE /\ listener' = "armed"
    /\ UNCHANGED <<left, outcome, loopVars, signal, presses, ynabVars>>
    /\ Stream!Close

CloseWithoutSignals ==
    /\ pc = "close" /\ ~handler
    /\ UNCHANGED <<left, loopVars, signalVars, ynabVars>>
    /\ Exit("forced")

(* Defect: the stream is told to close, and the answer is not awaited.     *)
CloseUnawaited ==
    /\ pc = "closing"
    /\ UNCHANGED <<left, loopVars, signalVars, ynabVars>>
    /\ Exit("done")

CloseDone ==
    /\ pc = "closing" /\ phase = "closed"
    /\ UNCHANGED <<left, loopVars, signalVars, ynabVars>>
    /\ Exit("done")

ForceExit ==
    /\ pc = "closing" /\ listener = "notified"
    /\ UNCHANGED <<left, loopVars, signalVars, ynabVars>>
    /\ Exit("forced")
-----------------------------------------------------------------------------
MainStep ==
    \/ Listen \/ ListenFails \/ Interrupted \/ EndOfStream
    \/ TakePanics \/ TakeSettles \/ TakeSubmits
    \/ SubmitOk \/ SubmitFails
    \/ CloseStream \/ CloseWithoutSignals \/ CloseDone \/ ForceExit

Next ==
    \/ SetupOk \/ SetupFails \/ MainStep
    \/ Deliver \/ Resolve
    \/ \E w \in Workers : StartWorker(w) \/ FinishWorker(w) \/ BreakWorker(w)
    \/ PressKills \/ Press \/ Broadcast \/ YnabRecords

(* Nothing bounds how long a request to YNAB takes: the client has no      *)
(* timeout, and the main task waits for the answer.                        *)
AwaitsYnab == pc = "submit"

(* Nor does anything make a worker of the stream wind up: two of them may  *)
(* wait for each other (CloseResolves of MessageStream).  Then the program *)
(* waits for its stream to close until the user presses Ctrl-C again.      *)
AwaitsClose ==
    /\ pc = "closing" /\ active # {} /\ ~broken
    /\ ~signal /\ listener = "armed"

(* The main task is scheduled, and so is the close it waits for when there *)
(* is nothing to wait for; the driver runs.                                *)
Fairness ==
    /\ WF_vars(MainStep /\ ~AwaitsYnab)
    /\ WF_vars(Broadcast)
    /\ WF_vars(Resolve)

Spec == Init /\ [][Next]_vars /\ Fairness

(* ... with a YNAB that answers, or a connection that breaks, and a stream *)
(* that winds up.                                                          *)
WindUp(w) == StreamStep(Stream!WindUp(w))

AnsweringSpec ==
    /\ Spec
    /\ WF_vars(SubmitOk \/ SubmitFails)
    /\ \A w \in Workers : WF_vars(WindUp(w))
-----------------------------------------------------------------------------
(* A transaction for a message that was taken: the exact amount that the   *)
(* mail states, for the first account with a parser for its sender, and    *)
(* never for a message that was taken for anything else.                   *)
Faithful(entry) ==
    LET mail == inbox[entry.mail]
    IN  /\ entry.mail <= read
        /\ Result[mail].tag = "ok"
        /\ Accounts[entry.account] = mail.from
        /\ \A a \in 1 .. entry.account - 1 : Accounts[a] # mail.from
        /\ ExactMilliunits(Result[mail].amount) = {entry.amount}
        /\ entry.mail <= Len(fate) => fate[entry.mail] \in {"submitted", "failed"}

(* YNAB records at most one transaction per message, and a faithful one    *)
(* (main.rs, the loop; ynab.rs, submit_transaction).                       *)
LedgerIsFaithful ==
    /\ \A i, j \in DOMAIN ledger : ledger[i].mail = ledger[j].mail => i = j
    /\ \A i \in DOMAIN ledger : Faithful(ledger[i])

(* What a fate says of the k-th message.                                   *)
IsTrueOf(how, k) ==
    LET result == Result[inbox[k]]
    IN  /\ how = "submitted" => k \in Recorded
        /\ how = "ignored" <=> result.tag = "err"
        /\ how = "zero" => ExactMilliunits(result.amount) = {0}
        /\ how = "unconvertible" => ExactMilliunits(result.amount) = {}

(* What the log calls submitted YNAB has recorded, and whatever is not     *)
(* recorded although an account accepts it was logged as an error, is      *)
(* worth nothing, or is the message the program is at (main.rs,            *)
(* submit_transaction).                                                    *)
FatesAreTrue ==
    \A k \in 1 .. Len(fate) : IsTrueOf(fate[k], k)

(* A program that ends because its stream did has dealt with every message *)
(* that the stream ever held (main.rs, the loop).                          *)
EndLosesNothing ==
    left = "streamEnd" => Len(fate) = Len(inbox)

(* A single Ctrl-C never skips the clean-up: what breaks the loop is not   *)
(* heard again by the shut-down (main.rs:108-113).                         *)
OneCtrlCCleansUp ==
    outcome = "forced" => presses >= 2 \/ left \in {"streamEnd", "noSignals"}

(* A program that ends in the regular way leaves no worker of its stream   *)
(* behind, unless their keeper died, and no message half done, and it was  *)
(* asked to end, or its stream ended, or it could not listen               *)
(* (main.rs:83-116).                                                       *)
DoneIsClean ==
    outcome = "done" =>
        /\ active = {} \/ broken
        /\ Len(fate) = read
        /\ presses = 0 => left \in {"streamEnd", "noSignals"}

(* Why these hold: where the main task is tells what it has dealt with and *)
(* why it left the loop, every Ctrl-C that was heard or is about to be was *)
(* pressed, and a transaction is either on its way or recorded.            *)
OneIf(condition) == IF condition THEN 1 ELSE 0

Control ==
    /\ pc \in {"setup", "poll", "wait", "submit"} => left = "no"
    /\ pc \in {"close", "closing"} => left # "no"
    /\ pc = "submit" => /\ Len(fate) = read - 1
                         /\ Result[inbox[read]].tag = "ok"
    /\ pc \notin {"submit", "exited"} \/ left # "no" => Len(fate) = read
    /\ outcome \in {"done", "forced"} => left # "no"
    /\ outcome = "done" => phase = "closed"
    /\ phase = "closed" => active = {} \/ broken
    /\ left = "streamEnd" => Stream!Dry /\ read = Len(inbox)
    /\ left = "ctrlC" \/ listener # "none" => handler
    /\ OneIf(signal) + OneIf(listener = "notified") + OneIf(left = "ctrlC") <= presses

Requests ==
    \A request \in wire :
        /\ Faithful(request) /\ request.mail \notin Recorded
        /\ \A other \in wire : request.mail = other.mail => request = other

IInv ==
    /\ TypeOK /\ LedgerIsFaithful /\ FatesAreTrue /\ OneCtrlCCleansUp
    /\ Control /\ Requests

(* A message is dealt with, though YNAB refuse those before it.  Four      *)
(* things can come in between: the user presses Ctrl-C, ctrl_c() fails, a  *)
(* parser panics at a mail, or a request is never answered (main.rs, the   *)
(* loop).                                                                  *)
EveryMessageIsDealtWith ==
    \A k \in 1 .. MaxMails :
        (Len(inbox) >= k) ~>
            \/ Len(fate) >= k
            \/ presses > 0 \/ left = "noSignals" \/ outcome = "panicked"
            \/ []AwaitsYnab

(* The program ends after its stream ended; only a request that is never   *)
(* answered can keep it (main.rs, the loop).                               *)
EndOfStreamEndsProgram ==
    (pc # "setup" /\ Stream!Dry /\ (active = {} \/ broken))
        ~> (pc = "exited" \/ []AwaitsYnab)

(* A Ctrl-C that comes while the program waits and no mail comes ends it,  *)
(* whether or not YNAB ever answers, unless a worker of the stream does    *)
(* not wind up: then the next Ctrl-C does (main.rs, the loop and the       *)
(* shut-down).                                                             *)
IdleCtrlCEndsProgram ==
    (pc = "wait" /\ signal /\ read = MaxMails)
        ~> (pc = "exited" \/ []AwaitsClose)

(* The second Ctrl-C ends the program (main.rs:108: "Wait for the user to  *)
(* either ctrl-c a second time to forcibly shut off the app").             *)
SecondCtrlCEndsProgram ==
    (presses >= 2) ~> (pc = "exited")
=============================================================================
