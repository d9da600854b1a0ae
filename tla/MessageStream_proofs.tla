------------------------- MODULE MessageStream_proofs -------------------------
(***************************************************************************)
(* Proofs about MessageStream: its inductive invariant, the safety         *)
(* properties that follow from it, and the step simulation that shows it   *)
(* implements the safety part of CloseableStream, for every MaxYields and  *)
(* whatever tasks may die.                                                 *)
(***************************************************************************)
EXTENDS MessageStream, TLAPS

USE MaxYieldsAssumption

LEMMA InitIInv == Init => IInv
  BY DEF Init, IInv, TypeOK, Inductive, RegistryTracksLive, FetchedIsSunk,
         LogoutUnlessStopped, Fetch, FetchStates, LoopStates, Over, Died,
         Fetching, Live, Sunk

LEMMA SunkKept == ASSUME UNCHANGED sunk PROVE Sunk' = Sunk
  BY DEF Sunk

LEMMA SunkAppended ==
    ASSUME sunk \in Seq(Fetch), NEW f \in Fetch, sunk' = Append(sunk, f)
    PROVE  /\ sunk' \in Seq(Fetch)
           /\ Len(sunk') = Len(sunk) + 1
           /\ \A i \in 1 .. Len(sunk) : sunk'[i] = sunk[i]
           /\ sunk'[Len(sunk) + 1] = f
           /\ Sunk' = Sunk \union {f}
<1>1. /\ sunk' \in Seq(Fetch)
      /\ Len(sunk') = Len(sunk) + 1
      /\ \A i \in 1 .. Len(sunk) : sunk'[i] = sunk[i]
      /\ sunk'[Len(sunk) + 1] = f
  OBVIOUS
<1>2. 1 .. Len(sunk') = (1 .. Len(sunk)) \union {Len(sunk) + 1}
  BY <1>1
<1> QED
  BY <1>1, <1>2 DEF Sunk

(* The watcher and the owner of the stream.                                *)
LEMMA OwnerKeepsIInv ==
    ASSUME IInv,
           Yield \/ UpstreamEnd \/ OwnerStep
    PROVE  IInv'
<1> USE DEF TypeOK, Inductive, RegistryTracksLive, FetchedIsSunk,
            LogoutUnlessStopped, Live, Fetching, FetchStates, Fetch,
            LoopStates, Over, Died, Stopped, ReceiverGone, LockHeld
<1>1. CASE Yield
  BY <1>1, SunkKept DEF IInv, Yield, fetchVars
<1>2. CASE UpstreamEnd
  BY <1>2, SunkKept DEF IInv, UpstreamEnd, fetchVars
<1>3. CASE Receive
  BY <1>3, SunkKept DEF IInv, Receive, streamVars, fetchVars
<1>4. CASE Close
  BY <1>4, SunkKept DEF IInv, Close, streamVars, fetchVars
<1>5. CASE CloseResolve
  BY <1>5, SunkKept DEF IInv, CloseResolve, streamVars, fetchVars
<1>6. CASE Drop
  BY <1>6, SunkKept DEF IInv, Drop, streamVars, fetchVars
<1> QED
  BY <1>1, <1>2, <1>3, <1>4, <1>5, <1>6 DEF OwnerStep

(* The stream task.                                                        *)
LEMMA StreamTaskKeepsIInv ==
    ASSUME IInv,
           StreamTaskStep \/ StreamDies
    PROVE  IInv'
<1> USE DEF TypeOK, Inductive, RegistryTracksLive, FetchedIsSunk,
            LogoutUnlessStopped, Live, Fetching, FetchStates, Fetch,
            LoopStates, Over, Died, Stopped, ReceiverGone, LockHeld
<1>1. CASE LeaveLoop
  BY <1>1, SunkKept DEF IInv, LeaveLoop, fetchVars
<1>2. CASE NextSpawn
  BY <1>2, SunkKept DEF IInv, NextSpawn, Take
<1>3. CASE NextSpawnFails
  BY <1>3, SunkKept DEF IInv, NextSpawnFails, Take
<1>4. CASE Register
  <2>1. TypeOK'
    BY <1>4 DEF IInv, Register
  <2>2. Inductive'
    BY <1>4 DEF IInv, Register
  <2>3. RegistryTracksLive'
    BY <1>4 DEF IInv, Register
  <2>4. FetchedIsSunk'
    BY <1>4, SunkKept DEF IInv, Register
  <2>5. LogoutUnlessStopped'
    BY <1>4 DEF IInv, Register
  <2> QED
    BY <2>1, <2>2, <2>3, <2>4, <2>5 DEF IInv
<1>5. CASE JoinWatch
  BY <1>5, SunkKept DEF IInv, JoinWatch, fetchVars
<1>6. CASE LockForJoin
  BY <1>6, SunkKept DEF IInv, LockForJoin, fetchVars
<1>7. CASE JoinDone
  BY <1>7, SunkKept DEF IInv, JoinDone, fetchVars
<1>8. ASSUME NEW f \in Fetch, JoinOne(f) PROVE IInv'
  BY SMTT(30), <1>8, SunkKept DEF IInv, JoinOne, fetchVars
<1>9. CASE RegisterPanics \/ StreamDies
  <2>. SUFFICES ASSUME loop \notin Over, Die PROVE IInv'
    BY <1>9 DEF RegisterPanics, StreamDies
  <2>1. TypeOK'
    BY DEF IInv, Die, fetchVars
  <2>2. Inductive'
    BY DEF IInv, Die, fetchVars
  <2>3. RegistryTracksLive' /\ LogoutUnlessStopped'
    BY DEF IInv, Die, fetchVars
  <2>4. FetchedIsSunk'
    BY SunkKept DEF IInv, Die, fetchVars
  <2> QED
    BY <2>1, <2>2, <2>3, <2>4 DEF IInv
<1> QED
  BY <1>1, <1>2, <1>3, <1>4, <1>5, <1>6, <1>7, <1>8, <1>9 DEF StreamTaskStep

(* A fetch task, also one that dies.                                       *)
LEMMA FetchKeepsIInv ==
    ASSUME IInv, NEW f \in Fetch,
           FetchStep(f) \/ Kill(f)
    PROVE  IInv'
<1> USE DEF TypeOK, Inductive, RegistryTracksLive, FetchedIsSunk,
            LogoutUnlessStopped, Live, Fetching, FetchStates, Fetch,
            LoopStates, Over, Died, Stopped, ReceiverGone, LockHeld
<1>1. CASE LoginOk(f)
  <2>1. TypeOK' /\ Inductive' /\ RegistryTracksLive'
    BY <1>1 DEF IInv, LoginOk, GoTo, OthersUnchanged, streamVars
  <2>2. FetchedIsSunk' /\ LogoutUnlessStopped'
    BY SMTT(30), <1>1, SunkKept DEF IInv, LoginOk, GoTo, OthersUnchanged, streamVars
  <2> QED
    BY <2>1, <2>2 DEF IInv
<1>2. CASE LoginErr(f)
  BY <1>2, SunkKept DEF IInv, LoginErr, GoTo, OthersUnchanged, streamVars
<1>3. CASE ExamineOk(f)
  BY <1>3, SunkKept DEF IInv, ExamineOk, GoTo, OthersUnchanged, streamVars
<1>4. CASE ExamineErr(f)
  BY <1>4, SunkKept DEF IInv, ExamineErr, GoTo, OthersUnchanged, streamVars
<1>5. CASE SetupLogout(f)
  <2>1. TypeOK'
    BY <1>5 DEF IInv, SetupLogout, GoTo, OthersUnchanged, streamVars
  <2>2. Inductive'
    BY <1>5 DEF IInv, SetupLogout, GoTo, OthersUnchanged, streamVars
  <2>3. RegistryTracksLive'
    BY <1>5 DEF IInv, SetupLogout, GoTo, OthersUnchanged, streamVars
  <2>4. FetchedIsSunk'
    <3>1. f \notin body /\ fpc \in [Fetch -> FetchStates]
      BY <1>5 DEF IInv, SetupLogout
    <3>2. fpc' = [fpc EXCEPT ![f] = "unregister"] /\ UNCHANGED <<sunk, body, killed, owner, loop>>
      BY <1>5 DEF SetupLogout, GoTo, OthersUnchanged, streamVars
    <3>3. FetchedIsSunk
      BY DEF IInv
    <3>. QED  BY <3>1, <3>2, <3>3, SunkKept
  <2>5. LogoutUnlessStopped'
    BY <1>5 DEF IInv, SetupLogout, GoTo, OthersUnchanged, streamVars
  <2> QED
    BY <2>1, <2>2, <2>3, <2>4, <2>5 DEF IInv
<1>6. CASE StopSetup(f)
  <2>1. TypeOK'
    BY <1>6 DEF IInv, StopSetup, GoTo, OthersUnchanged, streamVars
  <2>2. Inductive'
    BY <1>6 DEF IInv, StopSetup, GoTo, OthersUnchanged, streamVars
  <2>3. RegistryTracksLive'
    BY <1>6 DEF IInv, StopSetup, GoTo, OthersUnchanged, streamVars
  <2>4. FetchedIsSunk'
    BY <1>6, SunkKept DEF IInv, StopSetup, GoTo, OthersUnchanged, streamVars
  <2>5. LogoutUnlessStopped'
    BY <1>6 DEF IInv, StopSetup, GoTo, OthersUnchanged, streamVars
  <2> QED
    BY <2>1, <2>2, <2>3, <2>4, <2>5 DEF IInv
<1>7. CASE FetchOk(f)
  BY <1>7, SunkKept DEF IInv, FetchOk, GoTo, OthersUnchanged, streamVars
<1>8. CASE FetchErr(f)
  BY <1>8, SunkKept DEF IInv, FetchErr, GoTo, OthersUnchanged, streamVars
<1>9. CASE Logout(f)
  BY <1>9, SunkKept DEF IInv, Logout, GoTo, OthersUnchanged, streamVars
<1>10. CASE Send(f)
  <2>1. CASE ReceiverGone
    BY SMTT(30), <1>10, <2>1, SunkKept DEF IInv, Send, GoTo, streamVars
  <2>2. CASE ~ReceiverGone
    <3>1. sunk \in Seq(Fetch) /\ sunk' = Append(sunk, f)
      BY <1>10, <2>2 DEF IInv, Send
    <3>2. f \notin Sunk
      BY <1>10 DEF IInv, Send
    <3>3. TypeOK'
      BY <1>10, <3>1, SunkAppended DEF IInv, Send, GoTo, streamVars
    <3>4. Inductive' /\ RegistryTracksLive' /\ LogoutUnlessStopped'
      BY <1>10 DEF IInv, Send, GoTo, streamVars
    <3>5. FetchedIsSunk'
      <4>1. \A i, j \in 1 .. Len(sunk') : sunk'[i] = sunk'[j] => i = j
        BY <3>1, <3>2, SunkAppended DEF IInv, Sunk
      <4>2. Sunk' = Sunk \union {f}
        BY <3>1, SunkAppended
      <4> QED
        BY <1>10, <4>1, <4>2 DEF IInv, Send, GoTo, streamVars
    <3> QED
      BY <3>3, <3>4, <3>5 DEF IInv
  <2> QED
    BY <2>1, <2>2
<1>11. CASE Unregister(f)
  <2>1. TypeOK'
    BY <1>11 DEF IInv, Unregister, GoTo, streamVars
  <2>2. Inductive'
    BY SMTT(30), <1>11 DEF IInv, Unregister, GoTo, streamVars
  <2>3. RegistryTracksLive'
    BY <1>11 DEF IInv, Unregister, GoTo, streamVars
  <2>4. FetchedIsSunk'
    BY <1>11, SunkKept DEF IInv, Unregister, GoTo, streamVars
  <2>5. LogoutUnlessStopped'
    BY <1>11 DEF IInv, Unregister, GoTo, streamVars
  <2> QED
    BY <2>1, <2>2, <2>3, <2>4, <2>5 DEF IInv
<1>12. CASE TokenLost(f) \/ Kill(f)
  <2>1. /\ fpc[f] \in Fetching \union {"token", "unregister"}
        /\ DropTask(f)
    BY <1>12 DEF TokenLost, Kill
  <2>2. TypeOK'
    BY <2>1 DEF IInv, DropTask, GoTo, streamVars
  <2>3. Inductive'
    BY <2>1 DEF IInv, DropTask, GoTo, streamVars
  <2>4. RegistryTracksLive'
    BY <2>1 DEF IInv, DropTask, GoTo, streamVars
  <2>5. FetchedIsSunk'
    BY <2>1, SunkKept DEF IInv, DropTask, GoTo, streamVars
  <2>6. LogoutUnlessStopped'
    BY <2>1 DEF IInv, DropTask, GoTo, streamVars
  <2> QED
    BY <2>2, <2>3, <2>4, <2>5, <2>6 DEF IInv
<1> QED
  BY <1>1, <1>2, <1>3, <1>4, <1>5, <1>6, <1>7, <1>8, <1>9, <1>10, <1>11, <1>12 DEF FetchStep

LEMMA StutterKeepsIInv == ASSUME IInv, UNCHANGED vars PROVE IInv'
  BY DEF vars, streamVars, fetchVars, IInv, TypeOK, Inductive,
         RegistryTracksLive, FetchedIsSunk, LogoutUnlessStopped, Sunk, Live,
         Stopped

LEMMA StepIInv == IInv /\ [Next]_vars => IInv'
  BY OwnerKeepsIInv, StreamTaskKeepsIInv, FetchKeepsIInv, StutterKeepsIInv
     DEF Next

(* The inductive invariant holds in every reachable state.                 *)
THEOREM Invariance == SafeSpec => []IInv
  BY InitIInv, StepIInv, PTL DEF SafeSpec

(* The variables keep their types.  This needs the inductive invariant:    *)
(* that a handle is registered for a task only after one was taken.        *)
THEOREM TypeCorrect == SafeSpec => []TypeOK
<1>1. IInv => TypeOK
  BY DEF IInv
<1> QED
  BY <1>1, Invariance, PTL

(* The registry holds the handles of exactly the tasks that live and of    *)
(* those that died, and the final join waits for every live one            *)
(* (email.rs:254-285).                                                     *)
THEOREM RegistryIsComplete == SafeSpec => []RegistryTracksLive
<1>1. IInv => RegistryTracksLive
  BY DEF IInv
<1> QED
  BY <1>1, Invariance, PTL

(* A message that was fetched is sent exactly once (email.rs:303-311).     *)
THEOREM NothingFetchedIsLost == SafeSpec => []FetchedIsSunk
<1>1. IInv => FetchedIsSunk
  BY DEF IInv
<1> QED
  BY <1>1, Invariance, PTL

(* A session is logged out unless the stop or a kill intervenes            *)
(* (message.rs:58-75, 96-111).                                             *)
THEOREM SessionsAreLoggedOut == SafeSpec => []LogoutUnlessStopped
<1>1. IInv => LogoutUnlessStopped
  BY DEF IInv
<1> QED
  BY <1>1, Invariance, PTL

(* A close that resolves with the stream task alive finds nothing left:    *)
(* that task has joined the watcher and every registered fetch task, and   *)
(* by the invariant a task that is not registered is not alive.            *)
LEMMA IInvIsClean == ASSUME IInv PROVE ClosedMeansClean
<1>. SUFFICES ASSUME owner = "closed", loop \notin Died PROVE AllOver
  BY DEF ClosedMeansClean
<1>1. loop = "done" /\ upstream = "ended"
  BY DEF IInv, Inductive, Over
<1>2. \A f \in Fetch : fpc[f] \in {"idle", "unspawned", "finished"}
  BY <1>1 DEF IInv, TypeOK, Inductive, RegistryTracksLive, Live, Over,
                    Died, Fetching, FetchStates
<1>3. \A f \in Fetch : sess[f] # "open"
  BY <1>2 DEF IInv, Inductive, Fetching
<1>. QED  BY <1>1, <1>2, <1>3 DEF AllOver, Over

(* When close has resolved nothing is left, or it resolved because the     *)
(* stream task was dead (lib.rs:57-58, email.rs:129-133).                  *)
THEOREM CloseCleansUp == SafeSpec => []ClosedMeansClean
  BY IInvIsClean, Invariance, PTL

(* Once the join waits for a task that waits for the lock, it waits for    *)
(* ever unless one of the two dies (email.rs:264-266, 285): the only other *)
(* steps that concern the two need the other to go first.                  *)
THEOREM Deadlock == SafeSpec => OnlyDeathBreaksLockCycle
<1> DEFINE Waits(f) ==
      loop = "joining" /\ f \in joining /\ fpc[f] = "unregister"
<1>1. ASSUME IInv, [Next]_vars, LockCycle
      PROVE  \/ LockCycle'
             \/ loop' \in Died
             \/ \E f \in joining : fpc[f] = "unregister" /\ f \in killed'
  <2>1. PICK f \in joining : loop = "joining" /\ fpc[f] = "unregister"
    BY <1>1 DEF LockCycle
  <2>2. f \in Fetch
    BY <1>1, <2>1 DEF IInv, TypeOK
  <2> SUFFICES Waits(f)' \/ loop' \in Died \/ f \in killed'
    BY <2>1 DEF LockCycle
  <2>3. CASE Yield \/ UpstreamEnd \/ OwnerStep
    BY <2>1, <2>3 DEF Yield, UpstreamEnd, OwnerStep, Receive, Close,
                      CloseResolve, Drop, streamVars, fetchVars
  <2>4. CASE StreamTaskStep \/ StreamDies
    BY <2>1, <2>4 DEF StreamTaskStep, LeaveLoop, NextSpawn, NextSpawnFails,
                      Take, Register, JoinWatch, LockForJoin, JoinOne, JoinDone,
                      RegisterPanics, StreamDies, Die, Died, fetchVars
  <2>5. ASSUME NEW g \in Fetch, FetchStep(g) PROVE Waits(f)'
    <3>1. g # f /\ UNCHANGED streamVars
      BY <2>1, <2>5 DEF FetchStep, LoginOk, LoginErr, ExamineOk, ExamineErr,
                        SetupLogout, StopSetup, FetchOk, FetchErr, Logout, Send,
                        Unregister, TokenLost, DropTask, Died, LockHeld,
                        OthersUnchanged
    <3>2. fpc'[f] = fpc[f]
      BY <1>1, <2>2, <2>5, <3>1
         DEF FetchStep, LoginOk, LoginErr, ExamineOk, ExamineErr, SetupLogout,
             StopSetup, FetchOk, FetchErr, Logout, Send, Unregister, TokenLost,
             DropTask, GoTo, IInv, TypeOK
    <3> QED
      BY <2>1, <3>1, <3>2 DEF streamVars
  <2>6. ASSUME NEW g \in Fetch, Kill(g) PROVE Waits(f)' \/ f \in killed'
    <3>1. /\ UNCHANGED streamVars
          /\ fpc' = [fpc EXCEPT ![g] = "finished"]
          /\ killed' = killed \union {g}
      BY <2>6 DEF Kill, DropTask, GoTo
    <3>2. CASE g = f
      BY <3>1, <3>2
    <3>3. CASE g # f
      BY <1>1, <2>1, <2>2, <3>1, <3>3 DEF IInv, TypeOK, streamVars
    <3> QED
      BY <3>2, <3>3
  <2>7. CASE UNCHANGED vars
    BY <2>1, <2>7 DEF vars, streamVars, fetchVars
  <2> QED
    BY <1>1, <2>3, <2>4, <2>5, <2>6, <2>7 DEF Next
<1> HIDE DEF Waits
<1>2. IInv /\ [Next]_vars =>
        [LockCycle => \/ LockCycle'
                      \/ loop' \in Died
                      \/ \E f \in joining : fpc[f] = "unregister" /\ f \in killed']_vars
  BY <1>1
<1> QED
  BY <1>2, Invariance, PTL DEF SafeSpec, OnlyDeathBreaksLockCycle

-----------------------------------------------------------------------------
(* The step simulation.                                                    *)
LEMMA InitSimulates == Init => Stream!Init
  BY DEF Init, Stream!Init, Started, Fetch, WatchTask, StreamTask, Over, Died

(* The steps of the owner.                                                 *)
LEMMA OwnerSimulates ==
    ASSUME IInv, Yield \/ UpstreamEnd \/ OwnerStep
    PROVE  [Stream!Next]_(Stream!vars)
<1> USE DEF Stream!vars, Stream!Next, Started, Fetch, WatchTask, StreamTask
<1>1. CASE Yield
  BY <1>1 DEF Yield, fetchVars
<1>2. CASE UpstreamEnd
  <2>1. Stream!Finish(WatchTask)
    BY <1>2 DEF UpstreamEnd, fetchVars, Stream!Finish
  <2> QED
    BY <2>1
<1>3. CASE Receive
  BY <1>3 DEF Receive, streamVars, fetchVars
<1>4. CASE Close
  BY <1>4 DEF Close, streamVars, fetchVars, Stream!Close
<1>5. CASE CloseResolve
  <2>1. CASE loop \in Died
    BY <1>5, <2>1 DEF CloseResolve, streamVars, fetchVars, Stream!Resolve
  <2>2. CASE loop = "done"
    <3>1. \A f \in Fetch : ~Live(f)
      BY <2>2 DEF IInv, RegistryTracksLive
    <3>2. \A f \in Fetch : fpc[f] \in FetchStates /\ fpc[f] # "token"
      BY <2>2 DEF IInv, TypeOK, Inductive
    <3>3. \A f \in Started : fpc[f] = "finished"
      BY <3>1, <3>2 DEF Live, FetchStates, Fetching
    <3>4. upstream = "ended"
      BY <2>2 DEF IInv, Inductive
    <3>. QED  BY <1>5, <2>2, <3>3, <3>4
              DEF CloseResolve, Over, streamVars, fetchVars, Stream!Resolve
  <2> QED
    BY <1>5, <2>1, <2>2 DEF CloseResolve, Over
<1>6. CASE Drop
  BY <1>6 DEF Drop, streamVars, fetchVars, Stream!Drop
<1> QED
  BY <1>1, <1>2, <1>3, <1>4, <1>5, <1>6 DEF OwnerStep

(* The steps of the stream task: a spawn starts the worker of a fetch, the *)
(* return of the stream task finishes its own, its death breaks the        *)
(* stream, the rest is internal.                                           *)
LEMMA StreamTaskSimulates ==
    ASSUME IInv, StreamTaskStep \/ StreamDies
    PROVE  [Stream!Next]_(Stream!vars)
<1> USE DEF Stream!vars, Stream!Next, Started, Fetch, WatchTask, StreamTask,
            Over, Died
<1>1. CASE LeaveLoop \/ JoinWatch \/ LockForJoin
  <2>1. loop \notin Over /\ loop' \notin Over
    BY <1>1 DEF LeaveLoop, JoinWatch, LockForJoin
  <2>2. UNCHANGED <<upstream, fetchVars, owner>>
    BY <1>1 DEF LeaveLoop, JoinWatch, LockForJoin
  <2>. QED  BY <2>1, <2>2 DEF fetchVars
<1>2. CASE NextSpawn
  <2>1. PICK f \in Fetch : f = taken' /\ fpc[f] = "idle"
    BY <1>2 DEF NextSpawn, Take, IInv, TypeOK, Inductive
  <2>2. Started' = Started \union {f}
    BY <1>2, <2>1 DEF NextSpawn, IInv, TypeOK
  <2>3. Stream!Start(f)
    BY SMTT(30), <1>2, <2>1, <2>2 DEF NextSpawn, Take, IInv, TypeOK, Stream!Start, Stream!Dry
  <2> QED
    BY <2>1, <2>3
<1>3. CASE NextSpawnFails
  <2>1. taken' \in Fetch /\ fpc[taken'] = "idle"
    BY <1>3 DEF NextSpawnFails, Take, IInv, TypeOK, Inductive
  <2> QED
    BY <1>3, <2>1 DEF NextSpawnFails, Take, IInv, TypeOK
<1>4. CASE Register
  <2>1. taken \in Fetch /\ fpc[taken] = "token"
    BY <1>4 DEF Register, IInv, TypeOK, Inductive
  <2> QED
    BY <1>4, <2>1 DEF Register, IInv, TypeOK
<1>5. ASSUME NEW f \in Fetch, JoinOne(f) PROVE UNCHANGED Stream!vars
  BY <1>5 DEF JoinOne, fetchVars
<1>6. CASE JoinDone
  <2>1. Stream!Finish(StreamTask)
    BY <1>6 DEF JoinDone, fetchVars, Stream!Finish
  <2> QED
    BY <2>1
<1>7. CASE RegisterPanics \/ StreamDies
  <2>1. loop \notin Over /\ Die
    BY <1>7 DEF RegisterPanics, StreamDies
  <2>2. Stream!Break(StreamTask)
    BY <2>1 DEF Die, fetchVars, Stream!Break
  <2> QED
    BY <2>2
<1> QED
  BY <1>1, <1>2, <1>3, <1>4, <1>5, <1>6, <1>7 DEF StreamTaskStep

(* The steps of a fetch task: it finishes when it has unregistered itself  *)
(* or is killed; what it does before is internal.                          *)
LEMMA FetchSimulates ==
    ASSUME IInv, NEW f \in Fetch, FetchStep(f) \/ Kill(f)
    PROVE  [Stream!Next]_(Stream!vars)
<1> USE DEF Stream!vars, Started, Fetch, WatchTask, StreamTask
<1>1. fpc \in [Fetch -> FetchStates]
  BY DEF IInv, TypeOK
<1>2. ASSUME NEW s \in Fetching \union {"send", "unregister"}, GoTo(f, s), Live(f)
      PROVE  UNCHANGED <<Started, {g \in Started : fpc[g] # "finished"}>>
  BY <1>1, <1>2 DEF GoTo, Live, Fetching, FetchStates
<1>3. ASSUME GoTo(f, "finished"), Live(f) \/ fpc[f] = "token",
             UNCHANGED <<upstream, loop, owner, sunk>>
      PROVE  Stream!Next
  <2>1. Stream!Finish(f)
    BY <1>1, <1>3 DEF GoTo, Live, Fetching, FetchStates, Stream!Finish
  <2> QED
    BY <2>1 DEF Stream!Next
<1>4. CASE LoginOk(f) \/ LoginErr(f) \/ ExamineOk(f) \/ ExamineErr(f)
  BY <1>2, <1>4 DEF LoginOk, LoginErr, ExamineOk, ExamineErr, Live, Fetching,
                    OthersUnchanged, streamVars
<1>5. CASE SetupLogout(f) \/ StopSetup(f) \/ FetchOk(f) \/ FetchErr(f)
  BY <1>2, <1>5 DEF SetupLogout, StopSetup, FetchOk, FetchErr, Live, Fetching,
                    OthersUnchanged, streamVars
<1>6. CASE Logout(f)
  BY <1>2, <1>6 DEF Logout, Live, Fetching, OthersUnchanged, streamVars
<1>7. CASE Send(f)
  <2>1. /\ UNCHANGED <<Started, {g \in Started : fpc[g] # "finished"}>>
        /\ UNCHANGED <<upstream, loop, owner>>
    BY <1>2, <1>7 DEF Send, Live, Fetching, streamVars
  <2>2. CASE UNCHANGED sunk
    BY <2>1, <2>2
  <2>3. CASE ~ReceiverGone /\ Len(sunk') = Len(sunk) + 1
    <3>1. f \in Started /\ fpc[f] # "finished"
      BY <1>7 DEF Send
    <3>2. Stream!Feed
      BY <2>1, <2>3, <3>1 DEF Stream!Feed, Stream!Dry, ReceiverGone, IInv, TypeOK
    <3>. QED  BY <3>2 DEF Stream!Next
  <2>4. ~ReceiverGone => Len(sunk') = Len(sunk) + 1
    BY <1>7 DEF Send, IInv, TypeOK
  <2>. QED  BY <1>7, <2>2, <2>3, <2>4 DEF Send
<1>8. CASE Unregister(f)
  BY <1>3, <1>8 DEF Unregister, Live, streamVars
<1>9. CASE TokenLost(f) \/ Kill(f)
  <2>1. /\ fpc[f] = "token" \/ Live(f)
        /\ DropTask(f)
    BY <1>9 DEF TokenLost, Kill, Live
  <2>. QED  BY <1>3, <2>1 DEF DropTask, streamVars
<1> QED
  BY <1>4, <1>5, <1>6, <1>7, <1>8, <1>9 DEF FetchStep

(* Every behaviour of the message stream is one of the abstract stream: a  *)
(* close never resolves with a task at work, short of the death of the     *)
(* stream task, and no task starts and nothing is sent once the senders    *)
(* are over (lib.rs:52-60, email.rs:119-135, 198-288).                     *)
THEOREM Implementation == SafeSpec => ImplementsStream
<1>1. UNCHANGED vars => UNCHANGED Stream!vars
  BY DEF vars, streamVars, fetchVars, Stream!vars, Started
<1>2. IInv /\ [Next]_vars => [Stream!Next]_(Stream!vars)
  BY <1>1, OwnerSimulates, StreamTaskSimulates, FetchSimulates DEF Next
<1> QED
  BY <1>2, InitSimulates, Invariance, PTL
     DEF SafeSpec, ImplementsStream, Stream!SafeSpec
=============================================================================
