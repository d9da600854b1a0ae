------------------------------ MODULE InboxWatch ------------------------------
(***************************************************************************)
(* The inbox watcher of src/src/email/inbox.rs: one task that keeps an     *)
(* IMAP session in IDLE, passes the sequence number of every EXISTS on to  *)
(* the owner of its SequenceNumberStream, re-issues IDLE after a timeout,  *)
(* and gets a new session, with exponential backoff, after a failure.      *)
(*                                                                         *)
(* The mail server and async-imap are external: what they may answer is    *)
(* modelled from what the watcher makes of it.  Mails are numbered in      *)
(* their order of arrival; a mail's sequence number is its position in the *)
(* mailbox, and an EXISTS reports the size of the mailbox.                 *)
(***************************************************************************)
EXTENDS Naturals, Sequences, SequencesExt

CONSTANTS
    OldMail,        \* the mails that are in the inbox from the beginning
    MaxMail,        \* bound: the mails that ever get there, the old included
    MaxExpunges,    \* bound: how many of them are deleted by other clients
    MaxFaults       \* bound: how often the connection or the server fails

ASSUME ConstantsAssumption ==
    /\ OldMail \in Nat /\ MaxMail \in Nat /\ OldMail <= MaxMail
    /\ MaxExpunges \in Nat /\ MaxFaults \in Nat

VARIABLES
    wpc,        \* where the watch task is
    idle,       \* the idler of the session cell: IDLE not sent, sent, accepted
    res,        \* the result of the watch that is being cleaned up after
    sess,       \* the IMAP session of the watcher
    delay,      \* how many seconds the next backoff waits
    slept,      \* how many seconds this outage has waited so far
    owner,      \* what the owner of the SequenceNumberStream is doing
    sent,       \* the sequence numbers put into the channel, with their mails
    mailbox,    \* the mails in the inbox
    arrived,    \* how many mails ever got there
    told,       \* the size of the inbox as this session has been told
    wire,       \* the responses of the server the watcher has not read
    lost,       \* history: mails whose EXISTS the watcher will never hear
    faults,     \* history: failures so far
    expunges    \* history: deletions so far

watcherVars == <<wpc, idle, res, sess, delay, slept>>
serverVars  == <<mailbox, arrived, told, expunges>>
vars == <<watcherVars, owner, sent, serverVars, wire, lost, faults>>

WatcherStates ==
    {"setup", "setupFailed",                \* watch(), before the spawn
     "prepare", "idle",                     \* watch_session_cell_for_new_emails
     "reinit", "reclaim", "errLogout",      \* ..._until_fail, around it
     "newSession", "examine", "backoff",    \* get_session_with_retry
     "logout", "finished", "panicked"}

Response == [kind : {"exists"}, seq : 0 .. MaxMail, mail : 0 .. MaxMail]
            \union [kind : {"bye", "other"}]

WatcherTypeOK ==
    /\ wpc \in WatcherStates
    /\ idle \in {"fresh", "sent", "prepared"}
    /\ res \in {"ok", "err"}
    /\ sess \in {"none", "live", "loggedOut", "dropped"}
    /\ delay \in Nat /\ slept \in Nat
    /\ owner \in {"reading", "closing", "closed", "gone"}
    /\ faults \in 0 .. MaxFaults

MailTypeOK ==
    /\ mailbox \in Seq(1 .. MaxMail)
    /\ arrived \in 0 .. MaxMail /\ Len(mailbox) <= arrived
    /\ told \in 0 .. Len(mailbox)
    /\ wire \in Seq(Response)
    /\ sent \in Seq([seq : 0 .. MaxMail, mail : 0 .. MaxMail])
    /\ lost \in SUBSET (0 .. MaxMail)
    /\ expunges \in 0 .. MaxExpunges

TypeOK == WatcherTypeOK /\ MailTypeOK

Init ==
    /\ wpc = "setup" /\ idle = "fresh" /\ res = "ok" /\ sess = "none"
    /\ delay = 1 /\ slept = 0
    /\ owner = "reading" /\ sent = <<>>
    /\ mailbox = [i \in 1 .. OldMail |-> i] /\ arrived = OldMail
    /\ told = OldMail /\ wire = <<>>
    /\ lost = {} /\ faults = 0 /\ expunges = 0

Stopped == owner # "reading"
Ended   == wpc \in {"setupFailed", "finished", "panicked"}

(* What a client learns from the size of the inbox: the last message.      *)
Exists == [kind |-> "exists", seq |-> Len(mailbox),
           mail |-> IF mailbox = <<>> THEN 0 ELSE mailbox[Len(mailbox)]]

MailIn(responses) ==
    {responses[i].mail :
        i \in {j \in 1 .. Len(responses) : responses[j].kind = "exists"}}

ByeOnWire == \E i \in 1 .. Len(wire) : wire[i].kind = "bye"

(* Whatever was on the wire is read by nobody: the responses that precede  *)
(* the continuation of IDLE or the completion of DONE are not passed on by *)
(* async-imap, and those of a session that is given up are not read.       *)
Drain == /\ wire' = <<>>
         /\ lost' = lost \union MailIn(wire)

(* A failure is the connection's or the server's.  A command that meets a  *)
(* BYE fails of it.                                                        *)
Fault == faults < MaxFaults /\ faults' = faults + 1

FaultOrBye == Fault \/ (ByeOnWire /\ UNCHANGED faults)
-----------------------------------------------------------------------------
(* The server.  It may speak while it executes IDLE, until it said BYE.    *)
MaySpeak == wpc \in {"prepare", "idle"} /\ idle # "fresh" /\ ~ByeOnWire

Arrive ==
    /\ wpc # "setup" /\ ~Ended /\ arrived < MaxMail
    /\ arrived' = arrived + 1
    /\ mailbox' = Append(mailbox, arrived')
    /\ UNCHANGED <<watcherVars, owner, sent, told, expunges, wire, lost, faults>>

Untold == {mailbox[i] : i \in told + 1 .. Len(mailbox)}

(* One EXISTS for all the mail that has arrived since the last one.        *)
Notify ==
    /\ MaySpeak /\ Untold # {}
    /\ wire' = Append(wire, Exists)
    /\ lost' = lost \union (Untold \ {Exists.mail})
    /\ told' = Len(mailbox)
    /\ UNCHANGED <<watcherVars, owner, sent, mailbox, arrived, expunges, faults>>

(* Another client deletes a mail.  The server reports the deletion with an *)
(* EXPUNGE and may report the new size with an EXISTS.                     *)
Expunge ==
    /\ wpc # "setup" /\ ~Ended /\ expunges < MaxExpunges
    /\ expunges' = expunges + 1
    /\ \E p \in 1 .. Len(mailbox) :
        /\ mailbox' = RemoveAt(mailbox, p)
        /\ told' = IF p <= told THEN told - 1 ELSE told
    /\ \/ ~MaySpeak /\ UNCHANGED wire
       \/ MaySpeak /\ wire' = Append(wire, [kind |-> "other"])
       \/ /\ MaySpeak /\ Untold = {}
          /\ wire' = wire \o <<[kind |-> "other"], Exists'>>
    /\ UNCHANGED <<watcherVars, owner, sent, arrived, lost, faults>>

Bye ==
    /\ MaySpeak /\ Fault
    /\ wire' = Append(wire, [kind |-> "bye"])
    /\ UNCHANGED <<watcherVars, owner, sent, serverVars, lost>>
-----------------------------------------------------------------------------
(* The owner of the SequenceNumberStream, which exists once watch returned.*)
Close ==
    /\ wpc \notin {"setup", "setupFailed"} /\ owner = "reading"
    /\ owner' = "closing"
    /\ UNCHANGED <<watcherVars, sent, serverVars, wire, lost, faults>>

(* Defect: close signals the stop and does not join the task.              *)
CloseWithoutJoin ==
    /\ owner = "closing"
    /\ owner' = "closed"
    /\ UNCHANGED <<watcherVars, sent, serverVars, wire, lost, faults>>

(* close returns when the watch task is joined, also if that panicked.     *)
CloseResolve ==
    /\ owner = "closing" /\ Ended
    /\ owner' = "closed"
    /\ UNCHANGED <<watcherVars, sent, serverVars, wire, lost, faults>>

Drop ==
    /\ wpc \notin {"setup", "setupFailed"} /\ owner \in {"reading", "closing"}
    /\ owner' = "gone"
    /\ UNCHANGED <<watcherVars, sent, serverVars, wire, lost, faults>>
-----------------------------------------------------------------------------
(* watch: log in and EXAMINE, then spawn the task with a fresh cell.       *)
SetupOk ==
    /\ wpc = "setup"
    /\ wpc' = "prepare" /\ sess' = "live"
    /\ UNCHANGED <<idle, res, delay, slept, owner, sent, serverVars, wire, lost,
                   faults>>

(* The session of a failed EXAMINE or a failed spawn is dropped.           *)
SetupFails ==
    /\ wpc = "setup" /\ Fault
    /\ wpc' = "setupFailed" /\ sess' \in {"none", "dropped"}
    /\ UNCHANGED <<idle, res, delay, slept, owner, sent, serverVars, wire, lost>>
-----------------------------------------------------------------------------
(* watch_session_cell_for_new_emails: prepare the idler, then idle.        *)
connVars == <<sess, delay, slept, owner, sent, serverVars>>

SendIdle ==
    /\ wpc = "prepare" /\ idle = "fresh"
    /\ idle' = "sent"
    /\ UNCHANGED <<wpc, res, connVars, wire, lost, faults>>

IdleAccepted ==
    /\ wpc = "prepare" /\ idle = "sent" /\ ~ByeOnWire
    /\ wpc' = "idle" /\ idle' = "prepared" /\ Drain
    /\ UNCHANGED <<res, connVars, faults>>

PreparedAlready ==
    /\ wpc = "prepare" /\ idle = "prepared"
    /\ wpc' = "idle"
    /\ UNCHANGED <<idle, res, connVars, wire, lost, faults>>

(* Leave the watch for the clean-up, with what the watch came to.          *)
Reclaim(result) == wpc' = "reclaim" /\ res' = result

(* Writing IDLE fails, the server refuses it or hangs up.                  *)
PrepareFails ==
    /\ wpc = "prepare" /\ idle # "prepared" /\ FaultOrBye
    /\ Reclaim("err")
    /\ UNCHANGED <<idle, connVars, wire, lost>>

(* The select prefers neither branch: a stop may win before IDLE was even  *)
(* written, or lose against an answer that is there.                       *)
PrepareStopped ==
    /\ wpc = "prepare" /\ Stopped
    /\ Reclaim("ok")
    /\ UNCHANGED <<idle, connVars, wire, lost, faults>>

Hear(kind) ==
    /\ wpc = "idle" /\ wire # <<>> /\ Head(wire).kind = kind
    /\ wire' = Tail(wire)

(* Defect: mail that is heard of once the stop was requested is ignored.   *)
HearExistsUnlessStopped ==
    /\ Hear("exists") /\ wpc' = "prepare"
    /\ LET new == [seq |-> Head(wire).seq, mail |-> Head(wire).mail]
       IN  sent' = IF Stopped THEN sent ELSE Append(sent, new)
    /\ UNCHANGED <<idle, res, sess, delay, slept, owner, serverVars, lost, faults>>

(* A send that fails is logged: the receiver is gone.                      *)
HearExists ==
    /\ Hear("exists") /\ wpc' = "prepare"
    /\ LET new == [seq |-> Head(wire).seq, mail |-> Head(wire).mail]
       IN  IF owner = "gone"
             THEN lost' = lost \union {new.mail} /\ UNCHANGED sent
             ELSE sent' = Append(sent, new) /\ UNCHANGED lost
    /\ UNCHANGED <<idle, res, sess, delay, slept, owner, serverVars, faults>>

(* parse_response: any response but EXISTS and BYE is waited past.         *)
HearOther ==
    /\ Hear("other")
    /\ UNCHANGED <<wpc, idle, res, connVars, lost, faults>>

(* Defect: one Delay for all outages.                                      *)
StartOutageSameDelay ==
    wpc' = "newSession" /\ slept' = 0 /\ UNCHANGED delay

(* get_session_with_retry begins, with a new Delay.                        *)
StartOutage == wpc' = "newSession" /\ delay' = 1 /\ slept' = 0

(* The session is given up without LOGOUT, and its cell with it.           *)
GiveUp == sess' = "dropped" /\ idle' = "fresh" /\ Drain

(* BYE, or the connection is closed (NeedReconnect): Disconnected.         *)
Disconnected ==
    /\ wpc = "idle"
    /\ Fault \/ (wire # <<>> /\ Head(wire).kind = "bye" /\ UNCHANGED faults)
    /\ StartOutage /\ GiveUp
    /\ UNCHANGED <<res, owner, sent, serverVars>>

IdleTimeout ==
    /\ wpc = "idle"
    /\ wpc' = "reinit"
    /\ UNCHANGED <<idle, res, connVars, wire, lost, faults>>

IdleError ==
    /\ wpc = "idle" /\ Fault
    /\ Reclaim("err")
    /\ UNCHANGED <<idle, connVars, wire, lost>>

IdleStopped ==
    /\ wpc = "idle" /\ Stopped
    /\ Reclaim("ok")
    /\ UNCHANGED <<idle, connVars, wire, lost, faults>>
-----------------------------------------------------------------------------
(* watch_session_for_new_emails_until_fail: end IDLE after a timeout, and  *)
(* reclaim the session after a stop or an error.  Neither looks at the     *)
(* stop token.                                                             *)
ReinitOk ==
    /\ wpc = "reinit"
    /\ wpc' = "prepare" /\ idle' = "fresh" /\ Drain
    /\ UNCHANGED <<res, connVars, faults>>

(* Defect: the cell of a session that could not be reclaimed is kept.      *)
DoneErrKeepsCell ==
    /\ wpc \in {"reinit", "reclaim"} /\ FaultOrBye
    /\ StartOutage /\ sess' = "dropped" /\ Drain
    /\ UNCHANGED <<idle, res, owner, sent, serverVars>>

DoneErr ==
    /\ wpc \in {"reinit", "reclaim"} /\ FaultOrBye
    /\ StartOutage /\ GiveUp
    /\ UNCHANGED <<res, owner, sent, serverVars>>

(* Defect: the watch loop does not look whether it was stopped.            *)
ReclaimOkNoPeek ==
    /\ wpc = "reclaim"
    /\ wpc' = IF res = "err" THEN "errLogout" ELSE "prepare"
    /\ idle' = "fresh" /\ Drain
    /\ UNCHANGED <<res, connVars, faults>>

ReclaimOk ==
    /\ wpc = "reclaim"
    /\ wpc' = CASE res = "err" -> "errLogout"
                [] res = "ok" /\ Stopped  -> "logout"
                [] res = "ok" /\ ~Stopped -> "prepare"
    /\ idle' = "fresh" /\ Drain
    /\ UNCHANGED <<res, connVars, faults>>

(* async-imap does not expect a DONE for an IDLE that was never written.   *)
DonePanics ==
    /\ wpc = "reclaim" /\ idle = "fresh"
    /\ wpc' = "panicked" /\ GiveUp
    /\ UNCHANGED <<res, delay, slept, owner, sent, serverVars, faults>>

(* best_effort_logout of a session whose watch failed.                     *)
ErrLogout ==
    /\ wpc = "errLogout"
    /\ StartOutage /\ sess' = "loggedOut"
    /\ UNCHANGED <<idle, res, owner, sent, serverVars, wire, lost, faults>>
-----------------------------------------------------------------------------
(* get_session_with_retry: log in, EXAMINE, back off.                      *)
LoginOk ==
    /\ wpc = "newSession"
    /\ wpc' = "examine" /\ sess' = "live"
    /\ UNCHANGED <<idle, res, delay, slept, owner, sent, serverVars, wire, lost,
                   faults>>

(* Defect: a login that fails is the end.                                  *)
LoginErrIsTheEnd ==
    /\ wpc = "newSession" /\ Fault
    /\ wpc' = "finished"
    /\ UNCHANGED <<idle, res, connVars, wire, lost>>

LoginErr ==
    /\ wpc = "newSession" /\ Fault
    /\ wpc' = "backoff"
    /\ UNCHANGED <<idle, res, connVars, wire, lost>>

(* Defect: the size that EXAMINE reports is taken for new mail.            *)
ExamineOkAnnounces ==
    /\ wpc = "examine"
    /\ wpc' = "prepare"
    /\ sent' = Append(sent, [seq |-> Exists.seq, mail |-> Exists.mail])
    /\ lost' = lost \union Untold
    /\ told' = Len(mailbox)
    /\ UNCHANGED <<idle, res, sess, delay, slept, owner, mailbox, arrived,
                   expunges, wire, faults>>

(* Defect: a good session does not end the retry loop.                     *)
ExamineOkRetries ==
    /\ wpc = "examine"
    /\ wpc' = "newSession" /\ sess' = "dropped"
    /\ UNCHANGED <<idle, res, delay, slept, owner, sent, serverVars, wire, lost,
                   faults>>

(* EXAMINE reports the size of the inbox; nobody looks at it.              *)
ExamineOk ==
    /\ wpc = "examine"
    /\ wpc' = "prepare"
    /\ lost' = lost \union Untold
    /\ told' = Len(mailbox)
    /\ UNCHANGED <<idle, res, sess, delay, slept, owner, sent, mailbox, arrived,
                   expunges, wire, faults>>

(* The new session is dropped without LOGOUT.                              *)
ExamineErr ==
    /\ wpc = "examine" /\ Fault
    /\ wpc' = "backoff" /\ sess' = "dropped"
    /\ UNCHANGED <<idle, res, delay, slept, owner, sent, serverVars, wire, lost>>

BackoffElapsed ==
    /\ wpc = "backoff"
    /\ wpc' = "newSession"
    /\ slept' = slept + delay /\ delay' = 2 * delay
    /\ UNCHANGED <<idle, res, sess, owner, sent, serverVars, wire, lost, faults>>

(* There is no session to log out then.                                    *)
RetryStopped ==
    /\ wpc \in {"newSession", "examine", "backoff"} /\ Stopped
    /\ wpc' = "finished"
    /\ sess' = IF wpc = "examine" THEN "dropped" ELSE sess
    /\ UNCHANGED <<idle, res, delay, slept, owner, sent, serverVars, wire, lost,
                   faults>>

(* Defect: the session is dropped at the end.                              *)
NoLogout ==
    /\ wpc = "logout"
    /\ wpc' = "finished" /\ sess' = "dropped"
    /\ UNCHANGED <<idle, res, delay, slept, owner, sent, serverVars, wire, lost,
                   faults>>

(* The end of watch_for_new_emails; a failing LOGOUT is logged.            *)
Logout ==
    /\ wpc = "logout"
    /\ wpc' = "finished" /\ sess' = "loggedOut"
    /\ UNCHANGED <<idle, res, delay, slept, owner, sent, serverVars, wire, lost,
                   faults>>
-----------------------------------------------------------------------------
StopStep == PrepareStopped \/ IdleStopped \/ RetryStopped

WatcherStep ==
    \/ SetupOk \/ SetupFails
    \/ SendIdle \/ IdleAccepted \/ PreparedAlready \/ PrepareFails
    \/ HearExists \/ HearOther \/ Disconnected \/ IdleTimeout \/ IdleError
    \/ ReinitOk \/ DoneErr \/ ReclaimOk \/ DonePanics \/ ErrLogout
    \/ LoginOk \/ LoginErr \/ ExamineOk \/ ExamineErr \/ BackoffElapsed
    \/ Logout \/ StopStep

Next ==
    \/ Arrive \/ Notify \/ Expunge \/ Bye
    \/ Close \/ CloseResolve \/ Drop
    \/ WatcherStep

SafeSpec == Init /\ [][Next]_vars

(* DONE and LOGOUT are awaited without a timeout and without a look at the *)
(* stop token, so that a server which never answers holds the task up.     *)
AwaitsServer == wpc \in {"reinit", "reclaim", "errLogout", "logout"}

(* The executor polls the watch task; every other command is answered, or  *)
(* the connection breaks; a wait for data ends after 29 minutes.  The      *)
(* select is random, so a stop cannot lose to other events for ever.       *)
Fairness ==
    /\ WF_vars(WatcherStep /\ ~AwaitsServer)
    /\ SF_vars(StopStep)
    /\ WF_vars(CloseResolve)

Spec == SafeSpec /\ Fairness
-----------------------------------------------------------------------------
(* Safety.                                                                 *)

(* The watcher only ends when its owner asked for it; short of that every  *)
(* failure, whatever the watcher was doing, leads back to a session, as    *)
(* long as the idler it cleans up had sent IDLE (inbox.rs:160-190,         *)
(* 206-251, 345-377).                                                      *)
EndsOnlyOnStop ==
    /\ wpc = "finished" => Stopped
    /\ wpc = "reclaim" /\ res = "ok" => Stopped

(* As long as nothing failed, the watcher that was stopped has logged its  *)
(* session out, wherever the stop met it, or died of a DONE too many; and  *)
(* it never leaves one open (inbox.rs:192-198, 232-250).                   *)
EndsLoggedOut ==
    /\ Ended => sess # "live"
    /\ wpc = "finished" /\ faults = 0 => sess = "loggedOut"

(* All new mail in the inbox is accounted for: not reported by the server  *)
(* yet, reported and unread, passed on to the owner, or among the mail the *)
(* server reported when nobody listened, or together with a later one      *)
(* (inbox.rs:274-292, 302-342).                                            *)
MailAccounted ==
    \A i \in 1 .. Len(mailbox) :
        mailbox[i] > OldMail =>
            \/ i > told
            \/ mailbox[i] \in MailIn(wire) \union lost
            \/ \E j \in 1 .. Len(sent) : sent[j].mail = mailbox[i]

(* Unless mail is deleted every sequence number passed on is that of new   *)
(* mail and none is passed on twice, whatever the number of sessions and   *)
(* of IDLE commands (inbox.rs:212-230, 254-294, 379-384).                  *)
AnnouncedOnce ==
    expunges = 0 =>
        \A i \in 1 .. Len(sent) :
            /\ sent[i].seq > OldMail
            /\ \A j \in 1 .. i - 1 : sent[j].seq < sent[i].seq

(* Every outage starts with the base delay, and the next wait is one       *)
(* second longer than all waits of the outage so far (reconnect.rs:30-38,  *)
(* inbox.rs:349-373).                                                      *)
BackoffMatchesOutage ==
    wpc \in {"newSession", "examine", "backoff"} => delay = slept + 1

(* What makes the invariants on the course of the watch inductive: where   *)
(* the task has a session, in which state of its idler it can be, and that *)
(* it is only on a path of failure when something failed.                  *)
Control ==
    /\ sess = "live" <=> wpc \in {"prepare", "idle", "reinit", "reclaim",
                                  "errLogout", "examine", "logout"}
    /\ wpc \in {"idle", "reinit"} => idle = "prepared"
    /\ wpc \notin {"prepare", "idle", "reinit", "reclaim"} => idle = "fresh"
    /\ wpc \in {"setup", "setupFailed"} => ~Stopped
    /\ wpc = "logout" => Stopped
    /\ faults = 0 =>
        /\ ~ByeOnWire
        /\ wpc \notin {"errLogout", "newSession", "examine", "backoff"}
        /\ wpc = "reclaim" => res = "ok"

IInv ==
    /\ TypeOK
    /\ Control
    /\ EndsOnlyOnStop
    /\ EndsLoggedOut
    /\ BackoffMatchesOutage
-----------------------------------------------------------------------------
(* Liveness.                                                               *)

(* A stop ends the watch task from wherever it is, unless the server never *)
(* answers the DONE or the LOGOUT on the way out (inbox.rs:91-92, 232-250).*)
StopLeadsToFinish == Stopped ~> Ended \/ []AwaitsServer

(* When failures cease the watcher idles again, unless it was stopped, its *)
(* task died or the server is silent (inbox.rs:178-188, 344-377).          *)
Recovers ==
    wpc \in {"newSession", "backoff"} ~>
        wpc = "idle" \/ Stopped \/ Ended \/ []AwaitsServer

(* The watcher's stream keeps what a CloseableStream promises, that close  *)
(* resolves included unless the server is silent for ever.  Its only       *)
(* worker keeps no other.                                                  *)
Stream == INSTANCE CloseableStream WITH
    Workers <- {"watcher"},
    Feeders <- {"watcher"},
    phase   <- CASE owner = "reading" -> "open"
                 [] owner = "closing" -> "closing"
                 [] owner = "closed"  -> "closed"
                 [] owner = "gone"    -> "dropped",
    fresh   <- {},
    active  <- {w \in {"watcher"} : ~Ended},
    broken  <- FALSE,
    items   <- Len(sent)

ImplementsStream ==
    Stream!SafeSpec /\ (<>[]AwaitsServer \/ Stream!Fairness)
-----------------------------------------------------------------------------
(* What the documentation says.                                            *)

(* A DONE is sent when IDLE has begun, and when the cell was only          *)
(* initialized nothing has to be done (idle/state.rs:101-103).             *)
DoneOnlyAfterIdle == wpc \in {"reinit", "reclaim"} => idle # "fresh"

(* Any new message that comes into the inbox is streamed (lib.rs:62): with *)
(* everything told and heard, every new mail has been passed on.           *)
EveryNewMailAnnounced ==
    wpc = "idle" /\ wire = <<>> /\ told = Len(mailbox) =>
        \A i \in 1 .. Len(mailbox) :
            mailbox[i] > OldMail =>
                \E j \in 1 .. Len(sent) : sent[j].mail = mailbox[i]

(* What is streamed is new mail (inbox.rs:58): a message that arrived      *)
(* while the inbox was watched and has not been passed on before.          *)
OnlyNewMailAnnounced ==
    \A i \in 1 .. Len(sent) :
        /\ sent[i].mail > OldMail
        /\ \A j \in 1 .. i - 1 : sent[j].mail # sent[i].mail
=============================================================================
