------------------------------ MODULE Ynabifier ------------------------------
(***************************************************************************)
(* stream_new_messages of src/src/lib.rs: the inbox watcher and the        *)
(* message stream on top of it.  The stream task owns the watcher's        *)
(* stream; sequence numbers flow up through their channel, the stop flows  *)
(* down when that stream is closed or dropped.                             *)
(*                                                                         *)
(* What neither part sees alone is added here: every fetch has an IMAP     *)
(* session of its own, opened later than the sequence number was heard of, *)
(* and the number names whatever message is at that position by then.      *)
(***************************************************************************)
EXTENDS Naturals, Sequences

CONSTANTS OldMail, MaxMail, MaxExpunges, MaxFaults,     \* see InboxWatch
          MaxYields, Mortal                             \* see MessageStream

ASSUME ConstantsAssumption ==
    /\ OldMail \in Nat /\ MaxMail \in Nat /\ OldMail <= MaxMail
    /\ MaxExpunges \in Nat /\ MaxFaults \in Nat /\ MaxYields \in Nat

VARIABLES
    stage,          \* stream_new_messages: "setup", "running" or "failed"
    wpc, idle, res, watchSess, delay, slept,            \* the watch task
    mailbox, arrived, told, expunges, wire, faults,     \* the server
    sent, lost,                                         \* the channel
    taken, loop, joining, registry,                     \* the stream task
    fpc, killed, fetchSess, body,                       \* the fetch tasks
    sunk, read, owner,                                  \* the message stream
    named           \* the mail that each fetch's number names in its session

watchVars  == <<wpc, idle, res, watchSess, delay, slept, sent, mailbox, arrived,
                told, expunges, wire, lost, faults>>
streamVars == <<taken, loop, joining, registry, fpc, killed, fetchSess, body,
                sunk, read, owner>>
vars == <<stage, named, watchVars, streamVars>>

(* The stream task is the owner of the watcher's stream, or would be: a    *)
(* task that cannot be spawned, or dies, drops what was moved into it.     *)
watchOwner ==
    CASE stage = "failed" \/ loop = "diedOpen"              -> "gone"
      [] stage # "failed" /\ loop \in {"next", "register"} -> "reading"
      [] stage # "failed" /\ loop = "joinWatch"            -> "closing"
      [] stage # "failed"
         /\ loop \in {"lock", "joining", "done", "diedClosed"} -> "closed"

(* Defect: the watcher's stream is over before its session is logged out.  *)
upstreamBeforeLogout ==
    IF stage = "running" /\ wpc \in {"logout", "finished", "panicked"}
    THEN "ended" ELSE "live"

(* The watcher's stream ends, for the stream task, with the watch task.    *)
upstream ==
    IF stage = "running" /\ wpc \in {"finished", "panicked"}
    THEN "ended" ELSE "live"

Watch  == INSTANCE InboxWatch    WITH sess <- watchSess, owner <- watchOwner
Stream == INSTANCE MessageStream WITH sess <- fetchSess, announced <- Len(sent)

Fetch == Stream!Fetch

Init ==
    /\ stage = "setup" /\ loop = "next"
    /\ Watch!Init
    /\ Stream!Init
    /\ named = [f \in Fetch |-> 0]
-----------------------------------------------------------------------------
(* Defect: the stream task is spawned before watch() has returned.         *)
SpawnStreamEarly ==
    /\ stage = "setup" /\ wpc # "setupFailed"
    /\ stage' = "running"
    /\ UNCHANGED <<named, watchVars, streamVars>>

(* watch() has returned; the stream task is spawned, or cannot be.         *)
SpawnStream ==
    /\ stage = "setup" /\ wpc \notin {"setup", "setupFailed"}
    /\ stage' = "running"
    /\ UNCHANGED <<named, watchVars, streamVars>>

SpawnFails ==
    /\ stage = "setup" /\ wpc \notin {"setup", "setupFailed"}
    /\ stage' = "failed"
    /\ UNCHANGED <<named, watchVars, streamVars>>

(* The server and the watch task, in every stage.                          *)
WatchMoves(action) ==
    /\ UNCHANGED <<stage, named, streamVars>>
    /\ action
    /\ Len(sent') <= MaxYields

ServerStep == WatchMoves(Watch!Arrive \/ Watch!Notify \/ Watch!Expunge \/ Watch!Bye)
WatchStep  == WatchMoves(Watch!WatcherStep)

(* The stream task, its fetch tasks and its owner, once they exist.        *)
StreamMoves(action) ==
    /\ stage = "running"
    /\ UNCHANGED <<stage, watchVars>>
    /\ action

TaskStep  == StreamMoves(Stream!StreamTaskStep) /\ UNCHANGED named
OwnerStep == StreamMoves(Stream!OwnerStep) /\ UNCHANGED named

TaskDies ==
    /\ StreamMoves(Stream!StreamDies \/ \E f \in Fetch : Stream!Kill(f))
    /\ UNCHANGED named

(* 0 is no mail.                                                           *)
MailAt(seq) == IF seq \in 1 .. Len(mailbox) THEN mailbox[seq] ELSE 0

(* Defect: the newest message is fetched, not the one that was announced.  *)
ExamineLatest(f) ==
    /\ StreamMoves(Stream!ExamineOk(f))
    /\ named' = [named EXCEPT ![f] = MailAt(Len(mailbox))]

(* From EXAMINE on the number's meaning is fixed: the next command of this *)
(* session is FETCH, and the server reports no deletion to a session       *)
(* between commands or while it answers that one (RFC 3501, 7.4.1).        *)
Examine(f) ==
    /\ StreamMoves(Stream!ExamineOk(f))
    /\ named' = [named EXCEPT ![f] = MailAt(sent[f].seq)]

(* Defect: an answer without a message is taken for one.                   *)
FetchAnything(f) == StreamMoves(Stream!FetchOk(f)) /\ UNCHANGED named

FetchOk(f) ==
    /\ named[f] # 0
    /\ StreamMoves(Stream!FetchOk(f)) /\ UNCHANGED named

FetchOther(f) ==
    /\ StreamMoves(\/ Stream!TokenLost(f)
                   \/ Stream!LoginOk(f) \/ Stream!LoginErr(f)
                   \/ Stream!ExamineErr(f) \/ Stream!SetupLogout(f)
                   \/ Stream!StopSetup(f) \/ Stream!FetchErr(f)
                   \/ Stream!Logout(f) \/ Stream!Send(f)
                   \/ Stream!Unregister(f))
    /\ UNCHANGED named

FetchStep(f) == Examine(f) \/ FetchOk(f) \/ FetchOther(f)
-----------------------------------------------------------------------------
Next ==
    \/ SpawnStream \/ SpawnFails
    \/ ServerStep \/ WatchStep
    \/ TaskStep \/ OwnerStep \/ TaskDies
    \/ \E f \in Fetch : FetchStep(f)

(* The fairness is that of the parts, which ImplementsParts carries over:  *)
(* the watcher's does not rest on the message stream, and provides what    *)
(* that assumes of it, that it ends once it is stopped.                    *)
Spec == Init /\ [][Next]_vars
-----------------------------------------------------------------------------
TypeOK ==
    /\ stage \in {"setup", "running", "failed"}
    /\ Watch!TypeOK /\ Stream!TypeOK
    /\ named \in [Fetch -> 0 .. MaxMail]

(* The stream task exists from the end of watch() on, and idles before.    *)
Stages ==
    /\ stage # "running" => loop = "next"
    /\ stage # "setup" => wpc \notin {"setup", "setupFailed"}

(* What a fetch's number names is the announced mail or one of those that  *)
(* arrived next, and every body is that of such a mail.                    *)
Naming ==
    /\ \A f \in Fetch : named[f] # 0 =>
           /\ f <= Len(sent)
           /\ sent[f].mail <= named[f] /\ named[f] <= sent[f].mail + expunges
    /\ \A f \in body : named[f] # 0

IInv == TypeOK /\ Stages /\ Naming

(* What the owner receives was the mail that was announced, or one that    *)
(* arrived later and moved to its place when others were deleted: never an *)
(* older one, and no further from it than mail has been deleted            *)
(* (inbox.rs:329-330, message.rs:79-93, lib.rs:79-88).                     *)
FetchedIsAnnouncedOrLater ==
    \A f \in body :
        sent[f].mail <= named[f] /\ named[f] <= sent[f].mail + expunges

(* As long as no mail is deleted every message of the stream is that of    *)
(* a mail that arrived while it was watched, and no mail comes twice,      *)
(* whatever failed, was restarted or was stopped in between (lib.rs:62).   *)
DeliversNewMailOnce ==
    expunges = 0 =>
        \A i \in 1 .. Len(sunk) :
            /\ named[sunk[i]] > OldMail
            /\ \A j \in 1 .. i - 1 : named[sunk[j]] # named[sunk[i]]

(* Once the close of the whole stream has resolved no task works for it on *)
(* either side, and neither the watcher nor a fetch has left its IMAP      *)
(* session open, unless the stream task died: then fetches may run on, and *)
(* so may the watcher if its stream was not closed by then                 *)
(* (email.rs:121-134, 283-285, inbox.rs:131-146).                          *)
CloseLeavesNothing ==
    owner = "closed" =>
        /\ loop # "diedOpen" => Watch!Ended /\ watchSess # "live"
        /\ loop \notin Stream!Died => Stream!AllOver

(* Both parts behave as in their own modules.  The watcher's environment   *)
(* is a stream task that closes its stream, or that could not be spawned   *)
(* and leaves a dropped one behind; the message stream's is a watcher that *)
(* announces no more than it hears, and is over only when its task is      *)
(* (lib.rs:79-90, email.rs:175-187, 283).                                  *)
ImplementsParts == Watch!SafeSpec /\ Stream!SafeSpec

(* A bound of the run: a deletion is not combined with the end of the      *)
(* stream, by a close, a drop or a death.  The clauses about deletions     *)
(* and the one about the close speak of different halves of the state.     *)
Apart == expunges = 0 \/ (owner = "reading" /\ loop \notin Stream!Died)
=============================================================================
