---------------------------- MODULE MessageStream ----------------------------
(***************************************************************************)
(* The message stream of src/src/email.rs: a task (the stream task) reads  *)
(* the sequence numbers the inbox watcher announces, spawns one fetch task *)
(* for each, keeps their handles in a registry, and on the way out closes  *)
(* the watcher's stream and joins every fetch task that is still there.    *)
(* Each fetch task logs in to the server, fetches its message with         *)
(* RawFetcher (src/src/email/message.rs), logs out, sends the message to   *)
(* the owner of the stream and removes itself from the registry.           *)
(*                                                                         *)
(* Fetch f is the task for the f-th sequence number the stream task takes: *)
(* the channel is FIFO, so two counters stand for it.  The watcher appears *)
(* by the interface of its stream only; InboxWatch is its own module.      *)
(*                                                                         *)
(* Every task may die, killed by its executor at an await or of a panic,   *)
(* and drops what it owns.                                                 *)
(***************************************************************************)
EXTENDS Naturals, Sequences

CONSTANTS
    MaxYields,          \* bound: how many sequence numbers the watcher yields
    Mortal              \* bound: the tasks that may die, 0 for the stream task

ASSUME MaxYieldsAssumption == MaxYields \in Nat

VARIABLES
    announced,  \* sequence numbers the watcher has put into its channel
    upstream,   \* "live", or "ended" once the watch task has finished
    taken,      \* sequence numbers the stream task has taken out of it
    loop,       \* where the stream task is
    registry,   \* the fetch tasks whose handles the registry holds
    joining,    \* the handles join_all took out of it and has not joined
    fpc,        \* where each fetch task is
    killed,     \* the fetch tasks that panicked or were killed
    sess,       \* the IMAP session of each fetch task
    body,       \* the fetches that got the body of their message
    sunk,       \* the messages sent to the owner's channel, in order
    read,       \* how many of them the owner has received
    owner       \* what the owner of the MessageStream is doing

streamVars == <<announced, upstream, taken, loop, joining>>
fetchVars  == <<fpc, killed, sess, body, sunk>>
vars == <<streamVars, fetchVars, registry, read, owner>>

Fetch == 1 .. MaxYields
StreamTask == 0

(* The program counter of the stream task names what it awaits next.  It   *)
(* may have died with the watcher's stream in its hands, or after that was *)
(* closed.                                                                 *)
Died == {"diedOpen", "diedClosed"}
Over == {"done"} \union Died
LoopStates == {"next", "register", "joinWatch", "lock", "joining"} \union Over

(* "token" to "unregister" are the states of a spawned, unfinished task:   *)
(* it awaits its registry token, works for RawFetcher from "login" to      *)
(* "logout", sends the message and takes itself out of the registry.       *)
Fetching    == {"login", "examine", "setupLogout", "fetch", "logout"}
FetchStates == Fetching \union
    {"idle", "unspawned", "token", "send", "unregister", "finished"}

TypeOK ==
    /\ announced \in 0 .. MaxYields
    /\ upstream \in {"live", "ended"}
    /\ taken \in 0 .. MaxYields
    /\ loop \in LoopStates
    /\ registry \in SUBSET Fetch
    /\ joining \in SUBSET Fetch
    /\ fpc \in [Fetch -> FetchStates]
    /\ killed \in SUBSET Fetch
    /\ sess \in [Fetch -> {"none", "open", "loggedOut", "dropped"}]
    /\ body \in SUBSET Fetch
    /\ sunk \in Seq(Fetch)
    /\ read \in Nat
    /\ owner \in {"reading", "closing", "closed", "gone"}

Init ==
    /\ announced = 0 /\ upstream = "live"
    /\ taken = 0 /\ loop = "next"
    /\ registry = {} /\ joining = {}
    /\ fpc = [f \in Fetch |-> "idle"]
    /\ killed = {}
    /\ sess = [f \in Fetch |-> "none"]
    /\ body = {}
    /\ sunk = <<>> /\ read = 0
    /\ owner = "reading"

(* The stop source is gone: every StopToken made from it has resolved.     *)
Stopped == owner # "reading"

(* Defect: a watcher's stream that is dropped does not stop the watcher.   *)
WatchStoppedByClose == loop \notin {"next", "register", "diedOpen"}

(* The stream task has begun to close the watcher's stream, or dropped it. *)
WatchStopped == loop \notin {"next", "register"}

(* The guard of the registry's mutex lives as long as the join of the      *)
(* handles; every other holder gives it up without awaiting anything.      *)
LockHeld == loop = "joining"

(* The receiving end of the output channel: close keeps it until it is     *)
(* done, since its pattern does not move the field.                        *)
ReceiverGone == owner \in {"closed", "gone"}

Sunk == {sunk[i] : i \in 1 .. Len(sunk)}

(* Spawned and not finished, past the wait for the token.                  *)
Live(f) == fpc[f] \in Fetching \union {"send", "unregister"}
-----------------------------------------------------------------------------
(* The watcher, as its stream shows it.  It may still announce mail after  *)
(* it was told to stop, and it may end on its own (killed or panicked).    *)
Yield ==
    /\ upstream = "live" /\ announced < MaxYields
    /\ announced' = announced + 1
    /\ UNCHANGED <<upstream, taken, loop, joining, fetchVars, registry, read,
                   owner>>

UpstreamEnd ==
    /\ upstream = "live"
    /\ upstream' = "ended"
    /\ UNCHANGED <<announced, taken, loop, joining, fetchVars, registry, read,
                   owner>>
-----------------------------------------------------------------------------
(* The owner: poll_next, close, drop.                                      *)
Receive ==
    /\ owner = "reading" /\ read < Len(sunk)
    /\ read' = read + 1
    /\ UNCHANGED <<streamVars, fetchVars, registry, owner>>

Close ==
    /\ owner = "reading"
    /\ owner' = "closing"
    /\ UNCHANGED <<streamVars, fetchVars, registry, read>>

(* close returns when the stream task has been joined, or cannot be since  *)
(* it died.                                                                *)
CloseResolve ==
    /\ owner = "closing" /\ loop \in Over
    /\ owner' = "closed"
    /\ UNCHANGED <<streamVars, fetchVars, registry, read>>

(* The owner drops the stream, or the future of close: the tasks run on,   *)
(* detached.                                                               *)
Drop ==
    /\ owner \in {"reading", "closing"}
    /\ owner' = "gone"
    /\ UNCHANGED <<streamVars, fetchVars, registry, read>>
-----------------------------------------------------------------------------
(* The stream task.                                                        *)

(* Defect: the loop does not look at the stop token.                       *)
LeaveLoopAtEndOnly ==
    /\ loop = "next"
    /\ taken = announced /\ upstream = "ended"
    /\ loop' = "joinWatch"
    /\ UNCHANGED <<announced, upstream, taken, joining, fetchVars, registry,
                   read, owner>>

(* Defect: the end of the watcher's stream is not taken for an end.        *)
LeaveLoopOnStopOnly ==
    /\ loop = "next" /\ Stopped
    /\ loop' = "joinWatch"
    /\ UNCHANGED <<announced, upstream, taken, joining, fetchVars, registry,
                   read, owner>>

(* The select of resolve_or_stop is random: with the stop requested and a  *)
(* sequence number at hand, NextSpawn and LeaveLoop are both possible.     *)
LeaveLoop ==
    /\ loop = "next"
    /\ Stopped \/ (taken = announced /\ upstream = "ended")
    /\ loop' = "joinWatch"
    /\ UNCHANGED <<announced, upstream, taken, joining, fetchVars, registry,
                   read, owner>>

Take ==
    /\ loop = "next" /\ taken < announced
    /\ taken' = taken + 1
    /\ UNCHANGED <<announced, upstream, joining, killed, sess, body, sunk,
                   registry, read, owner>>

(* Defect: the task does not wait for its token.                           *)
NextSpawnNoToken ==
    /\ Take
    /\ fpc' = [fpc EXCEPT ![taken'] = "login"]
    /\ loop' = "register"

(* The task runs at once, but waits for its token first.                   *)
NextSpawn ==
    /\ Take
    /\ fpc' = [fpc EXCEPT ![taken'] = "token"]
    /\ loop' = "register"

(* The sequence number is lost, but for a line in the log.                 *)
NextSpawnFails ==
    /\ Take
    /\ fpc' = [fpc EXCEPT ![taken'] = "unspawned"]
    /\ UNCHANGED loop

(* Defect: the token is never sent.                                        *)
RegisterKeepsToken ==
    /\ loop = "register" /\ ~LockHeld
    /\ registry' = registry \union {taken}
    /\ loop' = "next"
    /\ UNCHANGED <<announced, upstream, taken, joining, fetchVars, read, owner>>

(* Register the handle, then hand the token to the task, which goes on if  *)
(* it is what the task waits for.                                          *)
Register ==
    /\ loop = "register" /\ ~LockHeld
    /\ taken \notin killed
    /\ registry' = registry \union {taken}
    /\ fpc' = [fpc EXCEPT ![taken] = IF @ = "token" THEN "login" ELSE @]
    /\ loop' = "next"
    /\ UNCHANGED <<announced, upstream, taken, joining, killed, sess, body,
                   sunk, read, owner>>

(* The stream task is gone, and with it the watcher's stream, the registry *)
(* and the lock.  The fetch tasks run on.                                  *)
Die ==
    /\ loop' = IF loop \in {"lock", "joining"} THEN "diedClosed" ELSE "diedOpen"
    /\ registry' = {} /\ joining' = {}
    /\ UNCHANGED <<announced, upstream, taken, fetchVars, read, owner>>

(* The token of a task that died in the meantime cannot be sent.           *)
RegisterPanics == loop = "register" /\ taken \in killed /\ Die

StreamDies == StreamTask \in Mortal /\ loop \notin Over /\ Die

(* Defect: the watcher's stream is dropped, not closed.                    *)
DropWatch ==
    /\ loop = "joinWatch"
    /\ loop' = "lock"
    /\ UNCHANGED <<announced, upstream, taken, joining, fetchVars, registry,
                   read, owner>>

(* sequence_number_stream.close() returns once the watch task is over.     *)
JoinWatch ==
    /\ loop = "joinWatch" /\ upstream = "ended"
    /\ loop' = "lock"
    /\ UNCHANGED <<announced, upstream, taken, joining, fetchVars, registry,
                   read, owner>>

(* Lock the registry; join_all takes every handle out of it.               *)
LockForJoin ==
    /\ loop = "lock"
    /\ loop' = "joining"
    /\ joining' = registry
    /\ registry' = {}
    /\ UNCHANGED <<announced, upstream, taken, fetchVars, read, owner>>

JoinOne(f) ==
    /\ loop = "joining" /\ f \in joining
    /\ fpc[f] = "finished"
    /\ joining' = joining \ {f}
    /\ UNCHANGED <<announced, upstream, taken, loop, fetchVars, registry, read,
                   owner>>

(* Defect: join_all drops the handles instead of awaiting them.            *)
JoinNone ==
    /\ loop = "joining"
    /\ loop' = "done"
    /\ UNCHANGED <<announced, upstream, taken, joining, fetchVars, registry,
                   read, owner>>

(* Every handle is joined: the guard and the registry are dropped.         *)
JoinDone ==
    /\ loop = "joining" /\ joining = {}
    /\ loop' = "done"
    /\ UNCHANGED <<announced, upstream, taken, joining, fetchVars, registry,
                   read, owner>>
-----------------------------------------------------------------------------
(* The fetch tasks.                                                        *)
GoTo(f, state) == fpc' = [fpc EXCEPT ![f] = state]

(* What a step that only concerns the task and its session leaves alone.   *)
OthersUnchanged == UNCHANGED <<streamVars, killed, sunk, registry, read, owner>>

(* generate_fetchable_session: log in, EXAMINE, log out if that fails.     *)
LoginOk(f) ==
    /\ fpc[f] = "login" /\ GoTo(f, "examine")
    /\ sess' = [sess EXCEPT ![f] = "open"]
    /\ UNCHANGED body /\ OthersUnchanged

LoginErr(f) ==
    /\ fpc[f] = "login" /\ GoTo(f, "unregister")
    /\ UNCHANGED <<sess, body>> /\ OthersUnchanged

ExamineOk(f) ==
    /\ fpc[f] = "examine" /\ GoTo(f, "fetch")
    /\ UNCHANGED <<sess, body>> /\ OthersUnchanged

(* Defect: a failed EXAMINE returns with ?, as get_session does.           *)
ExamineErrNoLogout(f) ==
    /\ fpc[f] = "examine" /\ GoTo(f, "unregister")
    /\ UNCHANGED <<sess, body>> /\ OthersUnchanged

ExamineErr(f) ==
    /\ fpc[f] = "examine" /\ GoTo(f, "setupLogout")
    /\ UNCHANGED <<sess, body>> /\ OthersUnchanged

SetupLogout(f) ==
    /\ fpc[f] = "setupLogout" /\ GoTo(f, "unregister")
    /\ sess' = [sess EXCEPT ![f] = "loggedOut"]
    /\ UNCHANGED body /\ OthersUnchanged

(* A stop drops the setup future wherever it is, with its session in it.   *)
StopSetup(f) ==
    /\ Stopped /\ fpc[f] \in {"login", "examine", "setupLogout"}
    /\ GoTo(f, "unregister")
    /\ sess' = [sess EXCEPT ![f] = IF @ = "open" THEN "dropped" ELSE @]
    /\ UNCHANGED body /\ OthersUnchanged

(* get_message_from_session under the stop; either way the logout follows. *)
FetchOk(f) ==
    /\ fpc[f] = "fetch" /\ GoTo(f, "logout")
    /\ body' = body \union {f}
    /\ UNCHANGED sess /\ OthersUnchanged

(* No such message, no body, a server error, or the stop.                  *)
FetchErr(f) ==
    /\ fpc[f] = "fetch" /\ GoTo(f, "logout")
    /\ UNCHANGED <<sess, body>> /\ OthersUnchanged

(* Defect: a body that is there is given up when the stop comes after it.  *)
LogoutThenStop(f) ==
    /\ fpc[f] = "logout"
    /\ GoTo(f, IF f \in body /\ ~Stopped THEN "send" ELSE "unregister")
    /\ sess' = [sess EXCEPT ![f] = "loggedOut"]
    /\ UNCHANGED body /\ OthersUnchanged

(* The logout is awaited whatever the stop token says.                     *)
Logout(f) ==
    /\ fpc[f] = "logout"
    /\ GoTo(f, IF f \in body THEN "send" ELSE "unregister")
    /\ sess' = [sess EXCEPT ![f] = "loggedOut"]
    /\ UNCHANGED body /\ OthersUnchanged

(* fetch_and_sink_message: a send without a receiver is only logged.       *)
Send(f) ==
    /\ fpc[f] = "send" /\ GoTo(f, "unregister")
    /\ sunk' = IF ReceiverGone THEN sunk ELSE Append(sunk, f)
    /\ UNCHANGED <<streamVars, killed, sess, body, registry, read, owner>>

(* Defect: the handle of a finished task stays in the registry.            *)
UnregisterKeeps(f) ==
    /\ fpc[f] = "unregister" /\ ~LockHeld
    /\ GoTo(f, "finished")
    /\ UNCHANGED <<streamVars, killed, sess, body, sunk, registry, read, owner>>

(* Defect: the lock is not needed (what a join outside the lock would be). *)
UnregisterUnlocked(f) ==
    /\ fpc[f] = "unregister"
    /\ registry' = registry \ {f}
    /\ GoTo(f, "finished")
    /\ UNCHANGED <<streamVars, killed, sess, body, sunk, read, owner>>

(* Needs the lock.  If the stream task has died there is no registry, and  *)
(* nothing to remove.                                                      *)
Unregister(f) ==
    /\ fpc[f] = "unregister" /\ ~LockHeld
    /\ registry' = registry \ {f}
    /\ GoTo(f, "finished")
    /\ UNCHANGED <<streamVars, killed, sess, body, sunk, read, owner>>

(* The task goes with its session, and its join will fail.                 *)
DropTask(f) ==
    /\ GoTo(f, "finished")
    /\ killed' = killed \union {f}
    /\ sess' = [sess EXCEPT ![f] = IF @ = "open" THEN "dropped" ELSE @]
    /\ UNCHANGED <<streamVars, body, sunk, registry, read, owner>>

(* The stream task died before it sent the token.                          *)
TokenLost(f) == fpc[f] = "token" /\ loop \in Died /\ DropTask(f)

(* The task panics in the fetcher, or the executor kills it at one of its  *)
(* awaits; a send awaits nothing.                                          *)
Kill(f) ==
    /\ f \in Mortal
    /\ fpc[f] \in Fetching \union {"token", "unregister"}
    /\ DropTask(f)
-----------------------------------------------------------------------------
StreamTaskStep ==
    \/ LeaveLoop \/ NextSpawn \/ NextSpawnFails \/ Register \/ RegisterPanics
    \/ JoinWatch \/ LockForJoin \/ JoinDone
    \/ \E f \in Fetch : JoinOne(f)

FetchStep(f) ==
    \/ TokenLost(f)
    \/ LoginOk(f) \/ LoginErr(f) \/ ExamineOk(f) \/ ExamineErr(f)
    \/ SetupLogout(f) \/ StopSetup(f)
    \/ FetchOk(f) \/ FetchErr(f) \/ Logout(f)
    \/ Send(f) \/ Unregister(f)

OwnerStep == Receive \/ Close \/ CloseResolve \/ Drop

Next ==
    \/ Yield \/ UpstreamEnd
    \/ OwnerStep
    \/ StreamTaskStep \/ StreamDies
    \/ \E f \in Fetch : FetchStep(f) \/ Kill(f)

SafeSpec == Init /\ [][Next]_vars

(* The executor polls every task that can go on; the server answers every  *)
(* command or the connection breaks; the watcher ends once it is stopped   *)
(* (StopLeadsToFinish of InboxWatch).  Nobody has to close the stream.     *)
Fairness ==
    /\ WF_vars(StreamTaskStep)
    /\ \A f \in Fetch : WF_vars(FetchStep(f))
    /\ WF_vars(WatchStopped /\ UpstreamEnd)
    /\ WF_vars(CloseResolve)

Spec == SafeSpec /\ Fairness
-----------------------------------------------------------------------------
(* Safety.                                                                 *)

(* The registry is what the join at the end relies on: as long as nothing  *)
(* was taken out of it, it holds the handle of every live fetch task and,  *)
(* apart from the live ones, only those of tasks that died; and once the   *)
(* stream task joins, every task that still lives is among those it waits  *)
(* for (email.rs:256-285, the token hand-over between spawn and register). *)
RegistryTracksLive ==
    LET live == {f \in Fetch : Live(f)}
        unregistered == {f \in Fetch : loop = "register" /\ f = taken}
    IN  /\ loop \notin Over \union {"joining"} =>
               registry = (live \union killed) \ unregistered
        /\ loop = "joining" => live \subseteq joining
        /\ loop = "done" => live = {}

(* Nothing of the stream is left: no task, and no session.                 *)
AllOver ==
    /\ upstream = "ended" /\ loop \in Over
    /\ \A f \in Fetch : /\ fpc[f] \in {"idle", "unspawned", "finished"}
                        /\ sess[f] # "open"

(* When close has resolved, every task is over, no IMAP session of the     *)
(* stream is open and the watcher has finished, unless the stream task     *)
(* died: then close resolves although fetch tasks may run on (lib.rs:57-58,*)
(* email.rs:129-133, "as cleaned up as we're going to get them").          *)
ClosedMeansClean == owner = "closed" => AllOver \/ loop \in Died

(* A message that was fetched reaches the channel exactly once unless its  *)
(* task died or there is no receiver: its owner dropped it, or its close   *)
(* resolved early because the stream task died; and nothing else gets      *)
(* there: a stop between the fetch and the send does not lose it           *)
(* (email.rs:303-311, message.rs:58-75).                                   *)
FetchedIsSunk ==
    /\ \A i, j \in 1 .. Len(sunk) : sunk[i] = sunk[j] => i = j
    /\ \A f \in Sunk : f \in body /\ fpc[f] \in {"unregister", "finished"}
    /\ \A f \in body \ killed :
         fpc[f] \in {"unregister", "finished"} =>
             f \in Sunk \/ owner = "gone" \/ (owner = "closed" /\ loop \in Died)

(* A session is only dropped without a LOGOUT when the stream was stopped  *)
(* or the task died; on every other path, the failures included, the task  *)
(* logs out before it finishes.  A stop that comes after the message was   *)
(* fetched does not skip the logout (message.rs:58-75, 96-111).            *)
LogoutUnlessStopped ==
    \A f \in Fetch :
        /\ fpc[f] = "finished" => sess[f] # "open"
        /\ sess[f] = "dropped" => Stopped \/ f \in killed
        /\ f \in body /\ fpc[f] # "logout" =>
               sess[f] = "loggedOut" \/ f \in killed

(* The stream task holds the registry's lock while it joins the handles,   *)
(* and a task whose handle it waits for needs that lock to finish.         *)
LockCycle ==
    /\ loop = "joining"
    /\ \E f \in joining : fpc[f] = "unregister"

(* Nothing breaks the cycle but the death of the stream task, or of a task *)
(* that waits for the lock: no stop, no drop and no other death            *)
(* (email.rs:264-266, 285).                                                *)
OnlyDeathBreaksLockCycle ==
    [][LockCycle => \/ LockCycle'
                    \/ loop' \in Died
                    \/ \E f \in joining : fpc[f] = "unregister" /\ f \in killed']_vars

(* What makes the four invariants above inductive: where the stream task   *)
(* is determines which fetch tasks can be where.                           *)
Inductive ==
    /\ taken <= announced
    /\ \A f \in Fetch : fpc[f] = "idle" <=> f > taken
    /\ \A f \in Fetch : fpc[f] = "token" =>
                         f = taken /\ loop \in {"register", "diedOpen"}
    /\ loop = "register" =>
           taken > 0 /\ (fpc[taken] = "token" \/ taken \in killed)
    /\ loop \in {"lock", "joining", "done", "diedClosed"} => upstream = "ended"
    /\ loop = "done" => joining = {}
    /\ owner = "closed" => loop \in Over
    /\ killed \subseteq {f \in Fetch : fpc[f] = "finished"}
    /\ \A f \in Fetch : sess[f] = "open" <=>
                         fpc[f] \in Fetching \ {"login"}
    /\ \A f \in body : fpc[f] \in {"logout", "send", "unregister", "finished"}
    /\ \A f \in Fetch : fpc[f] = "send" => f \in body

IInv ==
    /\ TypeOK
    /\ Inductive
    /\ RegistryTracksLive
    /\ FetchedIsSunk
    /\ LogoutUnlessStopped

(* The promises of a CloseableStream.  Its workers: the watch task, the    *)
(* stream task, which keeps the others, and the fetch tasks.  Those but    *)
(* the first hold senders of the output channel.                           *)
WatchTask == MaxYields + 1

Started == {f \in Fetch : fpc[f] \notin {"idle", "unspawned"}}

Stream == INSTANCE CloseableStream WITH
    Workers <- 0 .. MaxYields + 1,
    Feeders <- 0 .. MaxYields,
    phase   <- CASE owner = "reading" -> "open"
                 [] owner = "closing" -> "closing"
                 [] owner = "closed"  -> "closed"
                 [] owner = "gone"    -> "dropped",
    fresh   <- Fetch \ Started,
    active  <- {f \in Started : fpc[f] # "finished"}
               \union {t \in {WatchTask} : upstream = "live"}
               \union {t \in {StreamTask} : loop \notin Over},
    broken  <- loop \in Died,
    items   <- Len(sunk)

(* MessageStream never resolves a close while one of its tasks runs, short *)
(* of the death of the stream task, no task starts but from a running one, *)
(* and nothing comes after the end (lib.rs:57-58, email.rs:121-134).       *)
ImplementsStream == Stream!SafeSpec
-----------------------------------------------------------------------------
(* Liveness.                                                               *)

(* A close resolves unless it is abandoned or the join stays in the lock   *)
(* cycle: nothing else can hold it up, neither a watcher that still        *)
(* announces mail nor a fetch in any of its states, nor any task's death   *)
(* (email.rs:121-134, 216-285).                                            *)
CloseResolvesOrLockCycle ==
    owner = "closing" ~> owner # "closing" \/ []LockCycle

(* What close promises is kept in the end even where it resolves too       *)
(* early, or is never called: once the owner has closed or dropped the     *)
(* stream every task winds up, also those that nobody keeps any more since *)
(* the stream task died, and the watcher with them (email.rs:121-134,      *)
(* 216-285; lib.rs:52-54).                                                 *)
StopWindsUp == Stopped ~> AllOver \/ []LockCycle

(* When the watcher ends on its own the reader learns of it, since every   *)
(* sender of the output channel goes away (email.rs:216-221, 110-117).     *)
EndReachesReader == upstream = "ended" ~> AllOver \/ []LockCycle

(* Every sequence number that is taken comes to an end: its task finishes, *)
(* stopped or not, or is part of the lock cycle.                           *)
TakenSettles ==
    \A f \in Fetch :
        taken >= f ~> fpc[f] \in {"unspawned", "finished"} \/ []LockCycle

(* What the comment on CloseableStream::close says (lib.rs:57-58): the     *)
(* future resolves when the resources have been cleaned up.                *)
CloseResolves == Stream!Promise
=============================================================================
