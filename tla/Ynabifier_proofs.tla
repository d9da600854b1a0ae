-------------------------- MODULE Ynabifier_proofs --------------------------
(***************************************************************************)
(* Proofs about Ynabifier, for every number of mails, deletions, failures  *)
(* and fetches: each part behaves as in its own module, and what the parts *)
(* have been proved to keep, taken together, is what the stream of         *)
(* messages promises.                                                      *)
(***************************************************************************)
EXTENDS Ynabifier, SequenceTheorems, TLAPS

(* The modules with the parts' proofs extend those that the composition is *)
(* made of, under the same substitutions.                                  *)
WatchP  == INSTANCE InboxWatch_proofs    WITH sess <- watchSess, owner <- watchOwner
StreamP == INSTANCE MessageStream_proofs WITH sess <- fetchSess, announced <- Len(sent)

LEMMA SameWatch ==
    /\ Watch!Init <=> WatchP!Init
    /\ [Watch!Next]_(Watch!vars) <=> [WatchP!Next]_(WatchP!vars)
    /\ Watch!TypeOK <=> WatchP!TypeOK
  BY DEF Watch!Init, WatchP!Init, Watch!Next, WatchP!Next, Watch!vars,
         WatchP!vars, Watch!watcherVars, WatchP!watcherVars,
         Watch!serverVars, WatchP!serverVars, Watch!connVars,
         WatchP!connVars, Watch!TypeOK, WatchP!TypeOK, Watch!WatcherTypeOK,
         WatchP!WatcherTypeOK, Watch!WatcherStates, WatchP!WatcherStates,
         Watch!MailTypeOK, WatchP!MailTypeOK, Watch!Response,
         WatchP!Response, Watch!WatcherStep, WatchP!WatcherStep,
         Watch!StopStep, WatchP!StopStep, Watch!Ended, WatchP!Ended,
         Watch!Stopped, WatchP!Stopped, Watch!Exists, WatchP!Exists,
         Watch!RemoveAt, WatchP!RemoveAt, Watch!MailIn, WatchP!MailIn,
         Watch!ByeOnWire, WatchP!ByeOnWire, Watch!Drain, WatchP!Drain,
         Watch!Fault, WatchP!Fault, Watch!FaultOrBye, WatchP!FaultOrBye,
         Watch!MaySpeak, WatchP!MaySpeak, Watch!Arrive, WatchP!Arrive,
         Watch!Untold, WatchP!Untold, Watch!Notify, WatchP!Notify,
         Watch!Expunge, WatchP!Expunge, Watch!Bye, WatchP!Bye, Watch!Close,
         WatchP!Close, Watch!CloseResolve, WatchP!CloseResolve, Watch!Drop,
         WatchP!Drop, Watch!SetupOk, WatchP!SetupOk, Watch!SetupFails,
         WatchP!SetupFails, Watch!SendIdle, WatchP!SendIdle,
         Watch!IdleAccepted, WatchP!IdleAccepted, Watch!PreparedAlready,
         WatchP!PreparedAlready, Watch!Reclaim, WatchP!Reclaim,
         Watch!PrepareFails, WatchP!PrepareFails, Watch!PrepareStopped,
         WatchP!PrepareStopped, Watch!Hear, WatchP!Hear, Watch!HearExists,
         WatchP!HearExists, Watch!HearOther, WatchP!HearOther,
         Watch!StartOutage, WatchP!StartOutage, Watch!GiveUp, WatchP!GiveUp,
         Watch!Disconnected, WatchP!Disconnected, Watch!IdleTimeout,
         WatchP!IdleTimeout, Watch!IdleError, WatchP!IdleError,
         Watch!IdleStopped, WatchP!IdleStopped, Watch!ReinitOk,
         WatchP!ReinitOk, Watch!DoneErr, WatchP!DoneErr, Watch!ReclaimOk,
         WatchP!ReclaimOk, Watch!DonePanics, WatchP!DonePanics,
         Watch!ErrLogout, WatchP!ErrLogout, Watch!LoginOk, WatchP!LoginOk,
         Watch!LoginErr, WatchP!LoginErr, Watch!ExamineOk, WatchP!ExamineOk,
         Watch!ExamineErr, WatchP!ExamineErr, Watch!BackoffElapsed,
         WatchP!BackoffElapsed, Watch!RetryStopped, WatchP!RetryStopped,
         Watch!Logout, WatchP!Logout

LEMMA SameStream ==
    /\ Stream!Init <=> StreamP!Init
    /\ [Stream!Next]_(Stream!vars) <=> [StreamP!Next]_(StreamP!vars)
    /\ Stream!TypeOK <=> StreamP!TypeOK
  BY DEF Stream!Init, StreamP!Init, Stream!Next, StreamP!Next, Stream!vars,
         StreamP!vars, Stream!streamVars, StreamP!streamVars,
         Stream!fetchVars, StreamP!fetchVars, Stream!TypeOK, StreamP!TypeOK,
         Stream!Fetch, StreamP!Fetch, Stream!LoopStates, StreamP!LoopStates,
         Stream!Over, StreamP!Over, Stream!Died, StreamP!Died,
         Stream!StreamTask, StreamP!StreamTask, Stream!Die, StreamP!Die,
         Stream!RegisterPanics, StreamP!RegisterPanics, Stream!StreamDies,
         StreamP!StreamDies, Stream!DropTask, StreamP!DropTask,
         Stream!TokenLost, StreamP!TokenLost,
         Stream!Fetching, StreamP!Fetching, Stream!FetchStates,
         StreamP!FetchStates, Stream!Stopped, StreamP!Stopped,
         Stream!WatchStopped, StreamP!WatchStopped, Stream!LockHeld,
         StreamP!LockHeld, Stream!ReceiverGone, StreamP!ReceiverGone,
         Stream!Sunk, StreamP!Sunk, Stream!Yield, StreamP!Yield,
         Stream!UpstreamEnd, StreamP!UpstreamEnd, Stream!Receive,
         StreamP!Receive, Stream!Close, StreamP!Close, Stream!CloseResolve,
         StreamP!CloseResolve, Stream!Drop, StreamP!Drop, Stream!LeaveLoop,
         StreamP!LeaveLoop, Stream!Take, StreamP!Take, Stream!NextSpawn,
         StreamP!NextSpawn, Stream!NextSpawnFails, StreamP!NextSpawnFails,
         Stream!Register, StreamP!Register, Stream!JoinWatch,
         StreamP!JoinWatch, Stream!LockForJoin, StreamP!LockForJoin,
         Stream!JoinOne, StreamP!JoinOne, Stream!JoinDone, StreamP!JoinDone,
         Stream!GoTo, StreamP!GoTo, Stream!OthersUnchanged,
         StreamP!OthersUnchanged, Stream!LoginOk, StreamP!LoginOk,
         Stream!LoginErr, StreamP!LoginErr, Stream!ExamineOk,
         StreamP!ExamineOk, Stream!ExamineErr, StreamP!ExamineErr,
         Stream!SetupLogout, StreamP!SetupLogout, Stream!StopSetup,
         StreamP!StopSetup, Stream!FetchOk, StreamP!FetchOk,
         Stream!FetchErr, StreamP!FetchErr, Stream!Logout, StreamP!Logout,
         Stream!Send, StreamP!Send, Stream!Unregister, StreamP!Unregister,
         Stream!Kill, StreamP!Kill, Stream!StreamTaskStep,
         StreamP!StreamTaskStep, Stream!FetchStep, StreamP!FetchStep,
         Stream!OwnerStep, StreamP!OwnerStep
-----------------------------------------------------------------------------
(* The parts of a step.                                                    *)
ServerAction == Watch!Arrive \/ Watch!Notify \/ Watch!Expunge \/ Watch!Bye

LEMMA Steps ==
    ASSUME [Next]_vars
    PROVE  \/ SpawnStream \/ SpawnFails
           \/ /\ UNCHANGED <<stage, named, streamVars>> /\ Len(sent') <= MaxYields
              /\ ServerAction \/ Watch!WatcherStep
           \/ /\ stage = "running" /\ UNCHANGED <<stage, watchVars>>
              /\ Stream!Next /\ UNCHANGED <<Len(sent), upstream>>
           \/ UNCHANGED vars
  BY DEF Next, ServerStep, WatchStep, WatchMoves, StreamMoves, TaskStep, OwnerStep,
         TaskDies, FetchStep, Examine, FetchOk, FetchOther, ServerAction, Fetch, Stream!Next,
         Stream!FetchStep, watchVars, upstream

(* The watch task is never set up twice.                                   *)
LEMMA SetUpOnce ==
    ASSUME Watch!TypeOK, ServerAction \/ Watch!WatcherStep,
           wpc \notin {"setup", "setupFailed"}
    PROVE  wpc' \notin {"setup", "setupFailed"}
  BY DEF ServerAction, Watch!WatcherStep, Watch!StopStep, Watch!TypeOK,
         Watch!WatcherTypeOK, Watch!Arrive, Watch!Notify, Watch!Expunge, Watch!Bye,
         Watch!watcherVars, Watch!SetupOk, Watch!SetupFails, Watch!SendIdle,
         Watch!IdleAccepted, Watch!PreparedAlready, Watch!Reclaim, Watch!PrepareFails,
         Watch!PrepareStopped, Watch!HearExists, Watch!HearOther, Watch!Hear,
         Watch!StartOutage, Watch!Disconnected, Watch!IdleTimeout, Watch!IdleError,
         Watch!IdleStopped, Watch!ReinitOk, Watch!DoneErr, Watch!ReclaimOk,
         Watch!DonePanics, Watch!ErrLogout, Watch!LoginOk, Watch!LoginErr,
         Watch!ExamineOk, Watch!ExamineErr, Watch!BackoffElapsed, Watch!RetryStopped,
         Watch!Logout

(* Only hearing of an EXISTS puts something into the channel.              *)
LEMMA OnlyHearSends ==
    ASSUME ServerAction \/ Watch!WatcherStep
    PROVE  Watch!HearExists \/ UNCHANGED sent
  BY DEF ServerAction, Watch!WatcherStep, Watch!StopStep, Watch!connVars, Watch!Arrive,
         Watch!Notify, Watch!Expunge, Watch!Bye, Watch!SetupOk, Watch!SetupFails,
         Watch!SendIdle, Watch!IdleAccepted, Watch!PreparedAlready, Watch!PrepareFails,
         Watch!PrepareStopped, Watch!HearOther, Watch!Disconnected, Watch!IdleTimeout,
         Watch!IdleError, Watch!IdleStopped, Watch!ReinitOk, Watch!DoneErr,
         Watch!ReclaimOk, Watch!DonePanics, Watch!ErrLogout, Watch!LoginOk,
         Watch!LoginErr, Watch!ExamineOk, Watch!ExamineErr, Watch!BackoffElapsed,
         Watch!RetryStopped, Watch!Logout

(* Only a deletion is counted as one.                                      *)
LEMMA ServerCounts ==
    ASSUME ServerAction \/ Watch!WatcherStep
    PROVE  UNCHANGED expunges \/ expunges' = expunges + 1
  BY DEF ServerAction, Watch!WatcherStep, Watch!StopStep, Watch!connVars, Watch!serverVars, Watch!Arrive,
         Watch!Notify, Watch!Expunge, Watch!Bye, Watch!SetupOk, Watch!SetupFails,
         Watch!SendIdle, Watch!IdleAccepted, Watch!PreparedAlready, Watch!PrepareFails,
         Watch!PrepareStopped, Watch!HearExists, Watch!HearOther, Watch!Disconnected, Watch!IdleTimeout,
         Watch!IdleError, Watch!IdleStopped, Watch!ReinitOk, Watch!DoneErr,
         Watch!ReclaimOk, Watch!DonePanics, Watch!ErrLogout, Watch!LoginOk,
         Watch!LoginErr, Watch!ExamineOk, Watch!ExamineErr, Watch!BackoffElapsed,
         Watch!RetryStopped, Watch!Logout

(* The watch task that is over does nothing any more.                      *)
LEMMA WatchEndsOnce ==
    ASSUME ServerAction \/ Watch!WatcherStep, wpc \in {"finished", "panicked"}
    PROVE  UNCHANGED wpc
  BY DEF ServerAction, Watch!WatcherStep, Watch!StopStep, Watch!Arrive, Watch!Notify,
         Watch!Expunge, Watch!Bye, Watch!watcherVars, Watch!SetupOk, Watch!SetupFails,
         Watch!SendIdle, Watch!IdleAccepted, Watch!PreparedAlready, Watch!PrepareFails,
         Watch!PrepareStopped, Watch!HearExists, Watch!HearOther, Watch!Hear,
         Watch!Disconnected, Watch!IdleTimeout, Watch!IdleError, Watch!IdleStopped,
         Watch!ReinitOk, Watch!DoneErr, Watch!ReclaimOk, Watch!DonePanics,
         Watch!ErrLogout, Watch!LoginOk, Watch!LoginErr, Watch!ExamineOk,
         Watch!ExamineErr, Watch!BackoffElapsed, Watch!RetryStopped, Watch!Logout

LEMMA StagesStep ==
    ASSUME Stages, Watch!TypeOK, stage \in {"setup", "running", "failed"}, [Next]_vars
    PROVE  Stages' /\ stage' \in {"setup", "running", "failed"}
  BY Steps, SetUpOnce DEF Stages, SpawnStream, SpawnFails, watchVars, streamVars, vars
-----------------------------------------------------------------------------
(* Every step is one of the watcher's module or stutters there.            *)
LEMMA WatchSimulates ==
    ASSUME Stages, Stream!TypeOK, stage \in {"setup", "running", "failed"}, [Next]_vars
    PROVE  [Watch!Next]_(Watch!vars)
<1>1. CASE SpawnStream
  BY <1>1 DEF SpawnStream, Stages, watchOwner, Watch!vars, Watch!watcherVars,
        Watch!serverVars, watchVars, streamVars
<1>2. CASE SpawnFails
  <2>1. Watch!Drop
    BY <1>2 DEF SpawnFails, Stages, watchOwner, Watch!Drop, Watch!watcherVars,
          Watch!serverVars, watchVars, streamVars
  <2>. QED  BY <2>1 DEF Watch!Next
<1>3. CASE ServerAction \/ Watch!WatcherStep
  BY <1>3 DEF ServerAction, Watch!Next
<1>4. CASE /\ stage = "running" /\ UNCHANGED <<stage, watchVars>>
           /\ Stream!Next /\ UNCHANGED upstream
  <2>. USE DEF watchOwner, Watch!watcherVars, Watch!serverVars, watchVars
  <2>1. CASE UNCHANGED loop
    BY <1>4, <2>1 DEF Watch!vars
  <2>2. CASE Stream!LeaveLoop
    <3>1. Watch!Close
      BY <1>4, <2>2 DEF Stream!LeaveLoop, Watch!Close, Stages
    <3>. QED  BY <3>1 DEF Watch!Next
  <2>3. CASE Stream!JoinWatch
    <3>1. Watch!CloseResolve
      BY <1>4, <2>3 DEF Stream!JoinWatch, Watch!CloseResolve, Watch!Ended, upstream
    <3>. QED  BY <3>1 DEF Watch!Next
  <2>4. CASE \/ Stream!NextSpawn \/ Stream!Register
             \/ Stream!LockForJoin \/ Stream!JoinDone
    BY <1>4, <2>4 DEF Stream!NextSpawn, Stream!Register, Stream!LockForJoin,
          Stream!JoinDone, Stream!Take, Watch!vars
  <2>5. CASE Stream!Die /\ loop \notin Stream!Over
    <3>1. loop \in {"next", "register", "joinWatch", "lock", "joining"}
      BY <2>5 DEF Stream!TypeOK, Stream!LoopStates
    <3>2. CASE loop \in {"lock", "joining"}
      <4>1. watchOwner = "closed" /\ watchOwner' = "closed"
        BY <1>4, <2>5, <3>2 DEF Stream!Die
      <4>. QED  BY <1>4, <4>1 DEF Watch!vars
    <3>3. CASE loop \in {"next", "register", "joinWatch"}
      <4>1. loop' = "diedOpen"
        BY <2>5, <3>3 DEF Stream!Die
      <4>2. watchOwner \in {"reading", "closing"} /\ watchOwner' = "gone"
        BY <1>4, <3>3, <4>1
      <4>3. Watch!Drop
        BY <1>4, <4>2 DEF Watch!Drop, Stages
      <4>. QED  BY <4>3 DEF Watch!Next
    <3>. QED  BY <3>1, <3>2, <3>3
  <2>6. CASE Stream!RegisterPanics \/ Stream!StreamDies
    BY <2>5, <2>6 DEF Stream!RegisterPanics, Stream!StreamDies, Stream!Over, Stream!Died
  <2>. QED
    BY <1>4, <2>1, <2>2, <2>3, <2>4, <2>6
       DEF Stream!Next, Stream!Yield, Stream!UpstreamEnd, Stream!OwnerStep,
           Stream!Receive, Stream!Close, Stream!CloseResolve, Stream!Drop,
           Stream!StreamTaskStep, Stream!NextSpawnFails, Stream!JoinOne, Stream!Take,
           Stream!FetchStep, Stream!LoginOk, Stream!LoginErr, Stream!ExamineOk,
           Stream!ExamineErr, Stream!SetupLogout, Stream!StopSetup, Stream!FetchOk,
           Stream!FetchErr, Stream!Logout, Stream!Send, Stream!Unregister,
           Stream!TokenLost, Stream!Kill, Stream!DropTask, Stream!OthersUnchanged,
           Stream!streamVars
<1>5. CASE UNCHANGED vars
  BY <1>5 DEF vars, watchOwner, Watch!vars, Watch!watcherVars, Watch!serverVars,
        watchVars, streamVars
<1>. QED  BY <1>1, <1>2, <1>3, <1>4, <1>5, Steps

(* Every step is one of the stream's module or stutters there.             *)
LEMMA StreamSimulates ==
    ASSUME Stages, Watch!TypeOK, stage \in {"setup", "running", "failed"}, [Next]_vars
    PROVE  [Stream!Next]_(Stream!vars)
<1>. USE DEF Stream!vars, Stream!streamVars, Stream!fetchVars, streamVars, watchVars
<1>1. CASE SpawnStream \/ SpawnFails
  <2>1. UNCHANGED <<sent, wpc, streamVars>> /\ stage = "setup"
    BY <1>1 DEF SpawnStream, SpawnFails
  <2>2. UNCHANGED upstream \/ (upstream = "live" /\ upstream' = "ended")
    BY <2>1 DEF upstream
  <2>3. UNCHANGED Stream!vars \/ Stream!UpstreamEnd
    BY <2>1, <2>2 DEF Stream!UpstreamEnd
  <2>. QED  BY <2>3 DEF Stream!Next
<1>2. CASE /\ UNCHANGED <<stage, named, streamVars>> /\ Len(sent') <= MaxYields
           /\ ServerAction \/ Watch!WatcherStep
  <2>1. CASE Watch!HearExists /\ sent' # sent
    <3>1. /\ Len(sent') = Len(sent) + 1 /\ Len(sent) \in Nat
          /\ wpc = "idle" /\ wpc' = "prepare"
      BY <2>1 DEF Watch!HearExists, Watch!Hear, Watch!TypeOK, Watch!MailTypeOK
    <3>2. upstream = "live" /\ upstream' = "live"
      BY <3>1 DEF upstream
    <3>3. Len(sent) < MaxYields
      BY <1>2, <3>1, ConstantsAssumption
    <3>4. Stream!Yield
      BY <1>2, <3>1, <3>2, <3>3 DEF Stream!Yield
    <3>. QED  BY <3>4 DEF Stream!Next
  <2>2. CASE UNCHANGED sent
    <3>1. UNCHANGED upstream \/ (upstream = "live" /\ upstream' = "ended")
      BY <1>2, WatchEndsOnce DEF upstream
    <3>2. UNCHANGED Stream!vars \/ Stream!UpstreamEnd
      BY <1>2, <2>2, <3>1 DEF Stream!UpstreamEnd
    <3>. QED  BY <3>2 DEF Stream!Next
  <2>. QED  BY <1>2, <2>1, <2>2, OnlyHearSends
<1>3. CASE Stream!Next
  BY <1>3
<1>4. CASE UNCHANGED vars
  <2>1. UNCHANGED <<sent, wpc, stage, streamVars>>
    BY <1>4 DEF vars
  <2>. QED  BY <2>1 DEF upstream
<1>. QED  BY <1>1, <1>2, <1>3, <1>4, Steps
-----------------------------------------------------------------------------
(* What the parts keep, in their own modules.                              *)
Parts ==
    /\ WatchP!IInv /\ WatchP!MailboxOrdered /\ WatchP!NumbersName /\ WatchP!Growing
    /\ StreamP!IInv

LEMMA PartsInit == Init => Parts
<1>. SUFFICES ASSUME Init PROVE Parts
  OBVIOUS
<1>. USE ConstantsAssumption
<1>1. WatchP!Init /\ StreamP!Init
  BY SameWatch, SameStream DEF Init
<1>2. WatchP!IInv /\ StreamP!IInv
  BY <1>1, WatchP!InitIInv, StreamP!InitIInv
<1>3. WatchP!MailboxOrdered /\ WatchP!NumbersName /\ WatchP!Growing
  BY <1>1 DEF WatchP!Init, WatchP!MailboxOrdered, WatchP!NumbersName, WatchP!Growing,
        WatchP!WireGrows, WatchP!SentGrows, WatchP!SentBelowWire
<1>. QED  BY <1>2, <1>3 DEF Parts

LEMMA PartsStep ==
    ASSUME Parts, Stages, stage \in {"setup", "running", "failed"}, [Next]_vars
    PROVE  Parts'
<1>. USE ConstantsAssumption
<1>0. Stream!TypeOK
  BY SameStream DEF Parts, StreamP!IInv
<1>1. WatchP!TypeOK /\ WatchP!MailTypeOK
  BY DEF Parts, WatchP!IInv, WatchP!TypeOK
<1>2. Watch!TypeOK
  BY <1>1, SameWatch
<1>3. [WatchP!Next]_(WatchP!vars)
  BY <1>0, WatchSimulates, SameWatch
<1>4. [StreamP!Next]_(StreamP!vars)
  BY <1>2, StreamSimulates, SameStream
<1>5. WatchP!IInv'
  BY <1>3, WatchP!StepIInv DEF Parts
<1>6. StreamP!IInv'
  BY <1>4, StreamP!StepIInv DEF Parts
<1>7. WatchP!MailboxOrdered'
  BY <1>1, <1>3, WatchP!MailboxOrderedStep DEF Parts
<1>8. WatchP!NumbersName'
  BY <1>1, <1>3, WatchP!NumbersNameStep DEF Parts
<1>9. WatchP!Growing'
  BY <1>1, <1>3, WatchP!GrowingStep DEF Parts
<1>. QED  BY <1>5, <1>6, <1>7, <1>8, <1>9 DEF Parts
-----------------------------------------------------------------------------
(* What the fetches' numbers name.                                         *)
Names == named \in [Fetch -> 0 .. MaxMail]

(* Nothing but FetchOk adds a body.                                        *)
LEMMA BodiesStep ==
    ASSUME [Next]_vars
    PROVE  \/ \E f \in Fetch : FetchOk(f)
           \/ (\E f \in Fetch : Examine(f)) /\ UNCHANGED body
           \/ UNCHANGED <<named, body>>
  BY DEF Next, SpawnStream, SpawnFails, ServerStep, WatchStep, WatchMoves, StreamMoves,
         TaskStep, OwnerStep, TaskDies, FetchStep, Examine, FetchOther, streamVars,
         watchVars, vars, Stream!streamVars, Stream!fetchVars, Stream!OwnerStep,
         Stream!Receive, Stream!Close, Stream!CloseResolve, Stream!Drop,
         Stream!StreamTaskStep, Stream!LeaveLoop, Stream!NextSpawn,
         Stream!NextSpawnFails, Stream!Take, Stream!Register, Stream!JoinWatch,
         Stream!LockForJoin, Stream!JoinOne, Stream!JoinDone, Stream!LoginOk,
         Stream!LoginErr, Stream!ExamineOk, Stream!ExamineErr, Stream!SetupLogout,
         Stream!StopSetup, Stream!FetchErr, Stream!Logout, Stream!Send,
         Stream!Unregister, Stream!Kill, Stream!TokenLost, Stream!DropTask,
         Stream!StreamDies, Stream!RegisterPanics, Stream!Die,
         Stream!OthersUnchanged

(* The channel only grows, and deletions are not undone.                   *)
LEMMA ChannelStep ==
    ASSUME WatchP!MailTypeOK, [Next]_vars
    PROVE  /\ Len(sent) <= Len(sent') /\ Len(sent) \in Nat /\ Len(sent') \in Nat
           /\ \A f \in 1 .. Len(sent) : sent'[f] = sent[f]
           /\ expunges \in Nat /\ expunges' \in Nat /\ expunges <= expunges'
<1>. USE ConstantsAssumption
<1>1. UNCHANGED sent \/ Watch!HearExists
  BY Steps, OnlyHearSends DEF SpawnStream, SpawnFails, watchVars, vars
<1>2. UNCHANGED expunges \/ expunges' = expunges + 1
  BY Steps, ServerCounts DEF SpawnStream, SpawnFails, watchVars, vars
<1>3. CASE UNCHANGED sent
  BY <1>2, <1>3 DEF WatchP!MailTypeOK
<1>4. CASE Watch!HearExists /\ sent' # sent
  <2>. DEFINE new == [seq |-> Head(wire).seq, mail |-> Head(wire).mail]
  <2>1. wire # <<>> /\ Head(wire).kind = "exists" /\ sent' = Append(sent, new)
    BY <1>4 DEF Watch!HearExists, Watch!Hear
  <2>2. Head(wire) \in WatchP!Response
    BY <2>1 DEF WatchP!MailTypeOK
  <2>3. new \in [seq : 0 .. MaxMail, mail : 0 .. MaxMail]
    BY <2>1, <2>2 DEF WatchP!Response
  <2>. HIDE DEF new
  <2>. QED  BY <1>2, <2>1, <2>3 DEF WatchP!MailTypeOK
<1>. QED  BY <1>1, <1>3, <1>4

LEMMA SentType ==
    ASSUME WatchP!MailTypeOK
    PROVE  \A f \in 1 .. Len(sent) : sent[f].seq \in Nat /\ sent[f].mail \in Nat
<1>1. \A f \in 1 .. Len(sent) : sent[f] \in [seq : 0 .. MaxMail, mail : 0 .. MaxMail]
  BY ElementOfSeq DEF WatchP!MailTypeOK
<1>. QED  BY <1>1

LEMMA NamingStep ==
    ASSUME Parts, Naming, Names, [Next]_vars
    PROVE  Naming' /\ Names'
<1>. USE ConstantsAssumption
<1>1. /\ WatchP!MailTypeOK /\ WatchP!NumbersName /\ WatchP!MailboxOrdered
      /\ Stream!TypeOK /\ StreamP!Inductive
  BY SameStream DEF Parts, WatchP!IInv, WatchP!TypeOK, StreamP!IInv
<1>2. /\ Len(sent) <= Len(sent') /\ Len(sent) \in Nat /\ Len(sent') \in Nat
      /\ \A f \in 1 .. Len(sent) : sent'[f] = sent[f]
      /\ expunges \in Nat /\ expunges' \in Nat /\ expunges <= expunges'
  BY <1>1, ChannelStep
<1>3. Fetch = 1 .. MaxYields /\ body \subseteq Fetch
  BY <1>1 DEF Fetch, Stream!Fetch, Stream!TypeOK
<1>4. /\ \A g \in 1 .. Len(sent) : sent[g].mail \in Nat
      /\ \A g \in Fetch : named[g] \in Nat
  BY <1>1, SentType DEF Names
<1>5. CASE UNCHANGED <<named, body>>
  <2>1. ASSUME NEW f \in Fetch, named'[f] # 0
        PROVE  /\ f <= Len(sent')
               /\ sent'[f].mail <= named'[f] /\ named'[f] <= sent'[f].mail + expunges'
    <3>1. /\ named'[f] = named[f] /\ f <= Len(sent)
          /\ sent[f].mail <= named[f] /\ named[f] <= sent[f].mail + expunges
      BY <1>5, <2>1 DEF Naming
    <3>2. sent'[f] = sent[f] /\ sent[f].mail \in Nat /\ named[f] \in Nat
      BY <1>2, <1>3, <1>4, <2>1, <3>1
    <3>. QED  BY <1>2, <1>3, <3>1, <3>2
  <2>2. Names'
    BY <1>5 DEF Names, Fetch, Stream!Fetch
  <2>. QED  BY <1>5, <2>1, <2>2 DEF Naming, Fetch, Stream!Fetch
<1>6. ASSUME NEW f \in Fetch, FetchOk(f) PROVE Naming' /\ Names'
  <2>1. named[f] # 0 /\ UNCHANGED named /\ body' = body \union {f}
    BY <1>6 DEF FetchOk, StreamMoves, Stream!FetchOk
  <2>2. \A g \in body' : named'[g] # 0
    BY <2>1 DEF Naming
  <2>3. \A g \in Fetch : named'[g] # 0 =>
            /\ g <= Len(sent')
            /\ sent'[g].mail <= named'[g] /\ named'[g] <= sent'[g].mail + expunges'
    BY <1>2, <1>3, <1>4, <2>1 DEF Naming
  <2>. QED  BY <2>1, <2>2, <2>3 DEF Naming, Names, Fetch, Stream!Fetch
<1>7. ASSUME NEW f \in Fetch, Examine(f), UNCHANGED body PROVE Naming' /\ Names'
  <2>1. /\ fpc[f] = "examine" /\ named' = [named EXCEPT ![f] = MailAt(sent[f].seq)]
        /\ UNCHANGED <<sent, mailbox, expunges>>
    BY <1>7 DEF Examine, StreamMoves, Stream!ExamineOk, watchVars
  <2>2. f \in 1 .. Len(sent) /\ f \notin body
    <3>1. f <= taken /\ taken <= Len(sent) /\ taken \in Nat
      BY <1>1, <1>3, <2>1 DEF StreamP!Inductive, StreamP!Fetch, Stream!TypeOK
    <3>2. f \notin body
      BY <1>1, <2>1 DEF StreamP!Inductive
    <3>. QED  BY <1>2, <1>3, <3>1, <3>2
  <2>3. WatchP!AtOrLater(sent[f])
    BY <1>1, <2>2 DEF WatchP!NumbersName
  <2>4. MailAt(sent[f].seq) \in 0 .. MaxMail
    <3>1. \A k \in 1 .. Len(mailbox) : mailbox[k] \in 1 .. MaxMail
      BY <1>1, ElementOfSeq DEF WatchP!MailTypeOK
    <3>. QED  BY <3>1 DEF MailAt
  <2>5. MailAt(sent[f].seq) # 0 =>
            /\ sent[f].mail <= MailAt(sent[f].seq)
            /\ MailAt(sent[f].seq) <= sent[f].mail + expunges
    <3>. DEFINE s == sent[f].seq
                m == sent[f].mail
    <3>1. s \in Nat /\ m \in Nat
      BY <1>1, <2>2, SentType
    <3>2. \A k \in 1 .. Len(mailbox) : mailbox[k] \in Nat
      BY <1>1, WatchP!MailNat
    <3>3. s <= m /\ (s \in 1 .. Len(mailbox) => m <= mailbox[s])
      BY <2>3 DEF WatchP!AtOrLater
    <3>4. s \in 1 .. Len(mailbox) => mailbox[s] <= s + expunges
      BY <1>1 DEF WatchP!MailboxOrdered
    <3>. HIDE DEF s, m
    <3>5. s \in 1 .. Len(mailbox) => m <= mailbox[s] /\ mailbox[s] <= m + expunges
      BY <1>2, <3>1, <3>2, <3>3, <3>4
    <3>. QED  BY <3>5 DEF MailAt, s, m
  <2>6. named' \in [Fetch -> 0 .. MaxMail] /\ named'[f] = MailAt(sent[f].seq)
    BY <2>1, <2>4 DEF Names
  <2>7. \A g \in Fetch : g # f => named'[g] = named[g]
    BY <2>1 DEF Names
  <2>8. \A g \in body' : named'[g] # 0
    BY <1>3, <1>7, <2>2, <2>7 DEF Naming
  <2>9. \A g \in Fetch : named'[g] # 0 =>
            /\ g <= Len(sent')
            /\ sent'[g].mail <= named'[g] /\ named'[g] <= sent'[g].mail + expunges'
    BY <2>1, <2>2, <2>5, <2>6, <2>7 DEF Naming
  <2>. QED  BY <2>6, <2>8, <2>9 DEF Naming, Names, Fetch, Stream!Fetch
<1>. QED  BY <1>5, <1>6, <1>7, BodiesStep
-----------------------------------------------------------------------------
(* The inductive invariant of the composition.                             *)
Whole == Parts /\ Stages /\ stage \in {"setup", "running", "failed"} /\ Names /\ Naming

LEMMA WholeInit == Init => Whole
<1>. SUFFICES ASSUME Init PROVE Whole
  OBVIOUS
<1>1. body = {} /\ stage = "setup" /\ loop = "next" /\ named = [f \in Fetch |-> 0]
  BY DEF Init, Stream!Init
<1>. QED  BY <1>1, PartsInit, ConstantsAssumption DEF Whole, Stages, Names, Naming

LEMMA WholeStep == Whole /\ [Next]_vars => Whole'
<1>. SUFFICES ASSUME Whole, [Next]_vars PROVE Whole'
  OBVIOUS
<1>1. Watch!TypeOK
  BY SameWatch DEF Whole, Parts, WatchP!IInv
<1>. QED  BY <1>1, PartsStep, StagesStep, NamingStep DEF Whole

LEMMA Invariance == Spec => []Whole
  BY WholeInit, WholeStep, PTL DEF Spec

(* The variables keep their types, and each part is where the stage of the *)
(* set-up says (lib.rs:79-88).                                             *)
THEOREM TypeCorrect == Spec => []IInv
<1>1. Whole => IInv
  BY SameWatch, SameStream
     DEF Whole, Parts, WatchP!IInv, StreamP!IInv, IInv, TypeOK, Names
<1>. QED  BY <1>1, Invariance, PTL

(* Watcher and message stream behave together as they do on their own, so  *)
(* all that is proved of them alone holds of them here.                    *)
THEOREM Implementation == Spec => ImplementsParts
<1>1. Init => Watch!Init /\ Stream!Init
  BY DEF Init
<1>2. Whole /\ [Next]_vars => [Watch!Next]_(Watch!vars) /\ [Stream!Next]_(Stream!vars)
  BY WatchSimulates, StreamSimulates, SameWatch, SameStream
     DEF Whole, Parts, WatchP!IInv, StreamP!IInv
<1>. QED
  BY <1>1, <1>2, Invariance, PTL
     DEF Spec, ImplementsParts, Watch!SafeSpec, Stream!SafeSpec

(* The stream that stream_new_messages returns keeps the contract, with    *)
(* the watch task itself among its workers: a close never resolves while   *)
(* any task of either part runs, short of the death of the stream task,    *)
(* and none starts and nothing is sent once the senders are over           *)
(* (lib.rs:52-60, 79-90; email.rs:129-133).                                *)
THEOREM Contract == Spec => Stream!ImplementsStream
<1>1. Stream!SafeSpec => StreamP!SafeSpec
  BY SameStream, PTL DEF Stream!SafeSpec, StreamP!SafeSpec
<1>2. StreamP!ImplementsStream => Stream!ImplementsStream
  <2>1. /\ StreamP!Stream!Init => Stream!Stream!Init
        /\ [StreamP!Stream!Next]_(StreamP!Stream!vars)
               => [Stream!Stream!Next]_(Stream!Stream!vars)
    BY DEF Stream!Stream!Init, StreamP!Stream!Init, Stream!Stream!Next,
           StreamP!Stream!Next, Stream!Stream!vars, StreamP!Stream!vars,
           Stream!Stream!Close, StreamP!Stream!Close, Stream!Stream!Drop,
           StreamP!Stream!Drop, Stream!Stream!Resolve, StreamP!Stream!Resolve,
           Stream!Stream!Feed, StreamP!Stream!Feed, Stream!Stream!Dry,
           StreamP!Stream!Dry, Stream!Stream!Break, StreamP!Stream!Break,
           Stream!Over, StreamP!Over, Stream!Died, StreamP!Died,
           Stream!Stream!Start, StreamP!Stream!Start, Stream!Stream!Finish,
           StreamP!Stream!Finish, Stream!Started, StreamP!Started, Stream!Fetch,
           StreamP!Fetch, Stream!WatchTask, StreamP!WatchTask, Stream!StreamTask,
           StreamP!StreamTask
  <2>. QED
    BY <2>1, PTL DEF Stream!ImplementsStream, StreamP!ImplementsStream,
         Stream!Stream!SafeSpec, StreamP!Stream!SafeSpec
<1>3. StreamP!SafeSpec => StreamP!ImplementsStream
  BY StreamP!Implementation, ConstantsAssumption
<1>. QED
  BY <1>1, <1>2, <1>3, Implementation, PTL DEF ImplementsParts

(* A close of the whole that has resolved leaves no task and no IMAP       *)
(* session behind, on the watcher's side or on that of the fetches, unless *)
(* it resolved because the stream task was dead; and then the watcher at   *)
(* least is over if its stream had been closed (email.rs:121-134, 283-285, *)
(* inbox.rs:131-146).                                                      *)
THEOREM CloseCleansUpBoth == Spec => []CloseLeavesNothing
<1>1. ASSUME Whole, owner = "closed" PROVE CloseLeavesNothing
  <2>1. /\ StreamP!IInv /\ StreamP!TypeOK /\ StreamP!Inductive
        /\ WatchP!EndsLoggedOut
    BY <1>1 DEF Whole, Parts, WatchP!IInv, StreamP!IInv
  <2>2. loop \in {"done", "diedOpen", "diedClosed"}
    BY <1>1, <2>1 DEF StreamP!Inductive, StreamP!Over, StreamP!Died
  <2>3. ASSUME loop # "diedOpen" PROVE Watch!Ended /\ watchSess # "live"
    <3>1. upstream = "ended"
      BY <2>1, <2>2, <2>3 DEF StreamP!Inductive
    <3>2. WatchP!Ended
      BY <3>1 DEF upstream, WatchP!Ended
    <3>. QED  BY <2>1, <3>2 DEF WatchP!EndsLoggedOut, WatchP!Ended, Watch!Ended
  <2>4. ASSUME loop \notin Stream!Died PROVE Stream!AllOver
    <3>1. StreamP!ClosedMeansClean
      BY <2>1, StreamP!IInvIsClean, ConstantsAssumption
    <3>2. StreamP!AllOver
      BY <1>1, <2>4, <3>1 DEF StreamP!ClosedMeansClean, StreamP!Died, Stream!Died
    <3>. QED
      BY <3>2 DEF StreamP!AllOver, Stream!AllOver, StreamP!Over, Stream!Over,
           StreamP!Died, Stream!Died, StreamP!Fetch, Stream!Fetch
  <2>. QED  BY <2>3, <2>4 DEF CloseLeavesNothing
<1>2. Whole => CloseLeavesNothing
  BY <1>1 DEF CloseLeavesNothing
<1>. QED  BY <1>2, Invariance, PTL

(* A fetch gets the mail its number was announced for or a later one, no   *)
(* further from it than mail has been deleted: the very mail as long as    *)
(* none is (message.rs:79-93).                                             *)
THEOREM FetchesTheRightMail == Spec => []FetchedIsAnnouncedOrLater
<1>1. Whole => FetchedIsAnnouncedOrLater
  BY DEF Whole, Parts, StreamP!IInv, StreamP!TypeOK, StreamP!Fetch, Naming, Fetch,
         Stream!Fetch, FetchedIsAnnouncedOrLater
<1>. QED  BY <1>1, Invariance, PTL

(* The promise of the stream: new mail, each mail once (lib.rs:62).        *)
THEOREM NewMailOnce == Spec => []DeliversNewMailOnce
<1>1. ASSUME Whole, expunges = 0, NEW i \in 1 .. Len(sunk)
      PROVE  /\ named[sunk[i]] > OldMail
             /\ \A j \in 1 .. i - 1 : named[sunk[j]] # named[sunk[i]]
  <2>1. /\ WatchP!MailTypeOK /\ WatchP!NumbersName /\ WatchP!Growing
        /\ StreamP!FetchedIsSunk /\ StreamP!TypeOK /\ Naming
    BY <1>1 DEF Whole, Parts, WatchP!IInv, WatchP!TypeOK, StreamP!IInv
  <2>2. ASSUME NEW k \in 1 .. Len(sunk)
        PROVE  /\ sunk[k] \in 1 .. Len(sent) /\ named[sunk[k]] = sent[sunk[k]].seq
    <3>1. sunk[k] \in body /\ sunk[k] \in Fetch
      BY <2>1 DEF StreamP!FetchedIsSunk, StreamP!Sunk, StreamP!TypeOK, StreamP!Fetch,
            Fetch, Stream!Fetch
    <3>2. /\ sunk[k] <= Len(sent)
          /\ sent[sunk[k]].mail <= named[sunk[k]]
          /\ named[sunk[k]] <= sent[sunk[k]].mail + expunges
      BY <2>1, <3>1 DEF Naming
    <3>3. sunk[k] \in 1 .. Len(sent)
      BY SMTT(30), <2>1, <3>1, <3>2, ConstantsAssumption DEF Fetch, Stream!Fetch, WatchP!MailTypeOK
    <3>4. /\ sent[sunk[k]].seq <= sent[sunk[k]].mail
          /\ sent[sunk[k]].mail <= sent[sunk[k]].seq + expunges
      BY <2>1, <3>3 DEF WatchP!NumbersName, WatchP!AtOrLater
    <3>5. /\ sent[sunk[k]].seq \in Nat /\ sent[sunk[k]].mail \in Nat
          /\ named[sunk[k]] \in Nat
      BY <1>1, <2>1, <3>1, <3>3, SentType DEF Whole, Names
    <3>. QED  BY <1>1, <3>2, <3>3, <3>4, <3>5
  <2>3. WatchP!SentGrows
    BY <1>1, <2>1 DEF WatchP!Growing
  <2>4. \A f \in 1 .. Len(sent) : sent[f].seq \in Nat
    BY <2>1, SentType
  <2>5. ASSUME NEW j \in 1 .. i - 1 PROVE named[sunk[j]] # named[sunk[i]]
    <3>1. j \in 1 .. Len(sunk) /\ j # i
      BY <2>1 DEF StreamP!TypeOK
    <3>2. sunk[j] # sunk[i]
      BY <2>1, <3>1 DEF StreamP!FetchedIsSunk
    <3>3. sunk[j] < sunk[i] \/ sunk[i] < sunk[j]
      BY <2>2, <3>1, <3>2
    <3>. QED  BY SMTT(30), <2>2, <2>3, <2>4, <3>1, <3>3 DEF WatchP!SentGrows
  <2>6. named[sunk[i]] > OldMail
    BY <2>2, <2>3, <2>4, ConstantsAssumption DEF WatchP!SentGrows
  <2>. QED  BY <2>5, <2>6
<1>2. Whole => DeliversNewMailOnce
  BY <1>1 DEF DeliversNewMailOnce
<1>. QED  BY <1>2, Invariance, PTL
=============================================================================
