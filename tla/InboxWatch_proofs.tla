-------------------------- MODULE InboxWatch_proofs --------------------------
(***************************************************************************)
(* Proofs about InboxWatch, for every number of mails, deletions and       *)
(* failures: its types, on what paths the watch task ends, what it does    *)
(* with its sessions, the backoff, the safety part of CloseableStream,     *)
(* that no mail goes unaccounted for, and that its numbers do not repeat.  *)
(***************************************************************************)
EXTENDS InboxWatch, SequenceTheorems, TLAPS

LEMMA InitIInv == Init => IInv
  BY ConstantsAssumption
     DEF Init, IInv, TypeOK, WatcherTypeOK, MailTypeOK, Control, EndsOnlyOnStop,
         EndsLoggedOut, BackoffMatchesOutage, WatcherStates, Ended, Stopped,
         ByeOnWire
-----------------------------------------------------------------------------
(* The types of the mail: mailbox, wire and what was passed on.            *)
LEMMA ResponseType ==
    /\ \A r \in Response : r.kind = "exists" =>
         /\ r.seq \in 0 .. MaxMail
         /\ r.mail \in 0 .. MaxMail
    /\ [kind |-> "bye"] \in Response
    /\ [kind |-> "other"] \in Response
  BY DEF Response

LEMMA MailInType ==
    ASSUME NEW s \in Seq(Response) PROVE MailIn(s) \subseteq 0 .. MaxMail
<1>1. ASSUME NEW i \in 1 .. Len(s), s[i].kind = "exists"
      PROVE  s[i].mail \in 0 .. MaxMail
  <2>1. s[i] \in Response
    OBVIOUS
  <2> QED
    BY <1>1, <2>1, ResponseType
<1> QED
  BY <1>1 DEF MailIn

(* What the server knows to say of a well-typed inbox.                     *)
LEMMA ExistsType ==
    ASSUME mailbox \in Seq(1 .. MaxMail), Len(mailbox) \in 0 .. MaxMail
    PROVE  Exists \in Response
<1>1. Exists.mail \in 0 .. MaxMail /\ Exists.seq \in 0 .. MaxMail
  <2>1. CASE mailbox = <<>>
    BY <2>1, ConstantsAssumption DEF Exists
  <2>2. CASE mailbox # <<>>
    <3>1. Len(mailbox) \in 1 .. Len(mailbox)
      BY <2>2
    <3> QED
      BY <2>2, <3>1, ConstantsAssumption DEF Exists
  <2> QED
    BY <2>1, <2>2
<1> QED
  BY <1>1 DEF Exists, Response

LEMMA RemoveAtType ==
    ASSUME NEW S, NEW s \in Seq(S), NEW p \in 1 .. Len(s)
    PROVE  /\ RemoveAt(s, p) \in Seq(S)
           /\ Len(RemoveAt(s, p)) = Len(s) - 1
<1> DEFINE front == SubSeq(s, 1, p - 1)
           back  == SubSeq(s, p + 1, Len(s))
<1>1. front \in Seq(S) /\ Len(front) = p - 1
  BY SubSeqProperties
<1>2. back \in Seq(S) /\ Len(back) = Len(s) - p
  BY SubSeqProperties
<1>0. RemoveAt(s, p) = front \o back
  BY DEF RemoveAt
<1> HIDE DEF front, back
<1>3. front \o back \in Seq(S) /\ Len(front \o back) = Len(front) + Len(back)
  BY <1>1, <1>2, ConcatProperties
<1> QED
  BY <1>0, <1>1, <1>2, <1>3

mailVars == <<sent, serverVars, wire, lost>>

LEMMA MailKept == ASSUME MailTypeOK, UNCHANGED mailVars PROVE MailTypeOK'
  BY DEF MailTypeOK, mailVars, serverVars

LEMMA DrainType ==
    ASSUME MailTypeOK, Drain, UNCHANGED <<sent, serverVars>>
    PROVE  MailTypeOK'
<1>1. MailIn(wire) \subseteq 0 .. MaxMail
  BY MailInType DEF MailTypeOK
<1>2. lost' \in SUBSET (0 .. MaxMail)
  BY <1>1 DEF Drain, MailTypeOK
<1>3. wire' \in Seq(Response)
  BY DEF Drain
<1> QED
  BY <1>2, <1>3 DEF MailTypeOK, serverVars

(* All that a step can do to the mail.                                     *)
LEMMA MailStep ==
    ASSUME [Next]_vars
    PROVE  \/ Arrive \/ Notify \/ Expunge \/ Bye \/ HearExists \/ HearOther \/ ExamineOk
           \/ Drain /\ UNCHANGED <<sent, serverVars>>
           \/ UNCHANGED mailVars
<1>1. CASE \/ Close \/ CloseResolve \/ Drop \/ SetupOk \/ SetupFails
           \/ SendIdle \/ PreparedAlready \/ PrepareFails \/ IdleTimeout
           \/ IdleError \/ ErrLogout \/ LoginOk \/ LoginErr \/ ExamineErr
           \/ BackoffElapsed \/ Logout \/ StopStep \/ UNCHANGED vars
  BY <1>1 DEF Close, CloseResolve, Drop, SetupOk, SetupFails, SendIdle,
        PreparedAlready, PrepareFails, PrepareStopped, IdleTimeout, IdleError,
        IdleStopped, ErrLogout, LoginOk, LoginErr, ExamineErr, BackoffElapsed,
        RetryStopped, Logout, StopStep, vars, connVars, mailVars
<1>2. CASE \/ IdleAccepted \/ Disconnected \/ ReinitOk \/ DoneErr
           \/ ReclaimOk \/ DonePanics
  BY <1>2 DEF IdleAccepted, Disconnected, ReinitOk, DoneErr, ReclaimOk,
                DonePanics, GiveUp, connVars
<1>. QED  BY <1>1, <1>2 DEF Next, WatcherStep

LEMMA MailTypeStep == ASSUME MailTypeOK, [Next]_vars PROVE MailTypeOK'
<1> USE ConstantsAssumption
<1>0. Exists \in Response /\ Untold \subseteq 0 .. MaxMail
  <2>1. Exists \in Response
    BY ExistsType DEF MailTypeOK
  <2>2. \A i \in told + 1 .. Len(mailbox) : mailbox[i] \in 1 .. MaxMail
    BY DEF MailTypeOK
  <2> QED
    BY <2>1, <2>2 DEF Untold
<1>1. CASE Arrive
  BY <1>1 DEF Arrive, MailTypeOK
<1>2. CASE Notify
  <2>1. wire' \in Seq(Response) /\ told' \in 0 .. Len(mailbox')
    BY <1>0, <1>2 DEF Notify, MailTypeOK
  <2>2. lost' \in SUBSET (0 .. MaxMail)
    BY <1>0, <1>2 DEF Notify, MailTypeOK
  <2> QED
    BY <1>2, <2>1, <2>2 DEF Notify, MailTypeOK
<1>3. CASE Expunge
  <2>1. PICK p \in 1 .. Len(mailbox) :
            /\ mailbox' = RemoveAt(mailbox, p)
            /\ told' = IF p <= told THEN told - 1 ELSE told
    BY <1>3 DEF Expunge
  <2>2. mailbox' \in Seq(1 .. MaxMail) /\ Len(mailbox') = Len(mailbox) - 1
    BY <2>1, RemoveAtType DEF MailTypeOK
  <2>3. told' \in 0 .. Len(mailbox')
    BY <2>1, <2>2 DEF MailTypeOK
  <2>4. Exists' \in Response
    <3>1. Len(mailbox') \in 0 .. MaxMail
      BY <2>2 DEF MailTypeOK
    <3>2. CASE mailbox' = <<>>
      BY <3>1, <3>2 DEF Exists, Response
    <3>3. CASE mailbox' # <<>>
      <4>1. mailbox'[Len(mailbox')] \in 0 .. MaxMail
        BY <2>2, <3>3
      <4> QED
        BY <3>1, <3>3, <4>1 DEF Exists, Response
    <3> QED
      BY <3>2, <3>3
  <2>5. wire' \in Seq(Response)
    <3>1. <<[kind |-> "other"], Exists'>> \in Seq(Response)
      BY <2>4, ResponseType
    <3>2. CASE UNCHANGED wire
      BY <3>2 DEF MailTypeOK
    <3>3. CASE wire' = Append(wire, [kind |-> "other"])
      BY <3>3, ResponseType DEF MailTypeOK
    <3>4. CASE wire' = wire \o <<[kind |-> "other"], Exists'>>
      BY <3>1, <3>4, ConcatProperties DEF MailTypeOK
    <3> QED
      BY <1>3, <3>2, <3>3, <3>4 DEF Expunge
  <2>6. expunges' \in 0 .. MaxExpunges
    BY <1>3 DEF Expunge, MailTypeOK
  <2>7. arrived' \in 0 .. MaxMail /\ Len(mailbox') <= arrived'
    BY <1>3, <2>2 DEF Expunge, MailTypeOK
  <2> QED
    BY <1>3, <2>2, <2>3, <2>5, <2>6, <2>7 DEF Expunge, MailTypeOK
<1>4. CASE Bye
  BY <1>4, ResponseType DEF Bye, serverVars, MailTypeOK
<1>5. CASE UNCHANGED mailVars
  BY <1>5, MailKept
<1>6. CASE Drain /\ UNCHANGED <<sent, serverVars>>
  BY <1>6, DrainType
<1>7. CASE HearOther
  BY <1>7 DEF HearOther, Hear, connVars, serverVars, MailTypeOK
<1>8. CASE HearExists
  <2>1. /\ Head(wire).seq \in 0 .. MaxMail
        /\ Head(wire).mail \in 0 .. MaxMail
    <3>1. Head(wire) \in Response /\ Head(wire).kind = "exists"
      BY <1>8 DEF HearExists, Hear, MailTypeOK
    <3> QED
      BY <3>1, ResponseType
  <2>2. wire' \in Seq(Response)
    BY <1>8 DEF HearExists, Hear, MailTypeOK
  <2>3. sent' \in Seq([seq : 0 .. MaxMail, mail : 0 .. MaxMail])
    <3> DEFINE new == [seq |-> Head(wire).seq, mail |-> Head(wire).mail]
    <3>1. new \in [seq : 0 .. MaxMail, mail : 0 .. MaxMail]
      BY <2>1
    <3>2. sent' \in {sent, Append(sent, new)}
      BY <1>8 DEF HearExists
    <3> HIDE DEF new
    <3>3. sent \in Seq([seq : 0 .. MaxMail, mail : 0 .. MaxMail])
      BY DEF MailTypeOK
    <3>4. Append(sent, new) \in Seq([seq : 0 .. MaxMail, mail : 0 .. MaxMail])
      BY <3>1, <3>3
    <3> QED
      BY <3>2, <3>3, <3>4
  <2>4. lost' \in SUBSET (0 .. MaxMail)
    BY <1>8, <2>1 DEF HearExists, MailTypeOK
  <2> QED
    BY <1>8, <2>2, <2>3, <2>4 DEF HearExists, serverVars, MailTypeOK
<1>9. CASE ExamineOk
  BY <1>0, <1>9 DEF ExamineOk, MailTypeOK
<1> QED
  BY <1>1, <1>2, <1>3, <1>4, <1>5, <1>6, <1>7, <1>8, <1>9, MailStep
-----------------------------------------------------------------------------
(* The course of the watch.                                                *)
LEMMA ControlStep ==
    ASSUME IInv, [Next]_vars
    PROVE  /\ WatcherTypeOK' /\ Control'
           /\ EndsOnlyOnStop' /\ EndsLoggedOut' /\ BackoffMatchesOutage'
<1> USE DEF IInv, TypeOK, WatcherTypeOK, Control, EndsOnlyOnStop, EndsLoggedOut,
            BackoffMatchesOutage, WatcherStates, Ended, Stopped, Fault,
            FaultOrBye
<1> wire \in Seq(Response)
  BY DEF MailTypeOK
<1> MaxFaults \in Nat
  BY ConstantsAssumption
<1>1. CASE Arrive
  BY <1>1 DEF Arrive, watcherVars, ByeOnWire
<1>2. CASE Notify
  BY <1>2 DEF Notify, watcherVars, ByeOnWire, Exists
<1>3. CASE Expunge
  <2>1. ~ByeOnWire => ~ByeOnWire'
    <3>1. Exists'.kind # "bye"
      BY DEF Exists
    <3>2. CASE UNCHANGED wire
      BY <3>2 DEF ByeOnWire
    <3>3. CASE wire' = Append(wire, [kind |-> "other"])
      BY <3>3 DEF ByeOnWire
    <3>4. CASE wire' = wire \o <<[kind |-> "other"], Exists'>>
      BY <3>1, <3>4 DEF ByeOnWire
    <3> QED
      BY <1>3, <3>2, <3>3, <3>4 DEF Expunge
  <2> QED
    BY <1>3, <2>1 DEF Expunge, watcherVars
<1>4. CASE Bye
  BY <1>4 DEF Bye, watcherVars, ByeOnWire
<1>5. CASE Close
  BY <1>5 DEF Close, watcherVars, ByeOnWire
<1>6. CASE CloseResolve
  BY <1>6 DEF CloseResolve, watcherVars, ByeOnWire
<1>7. CASE Drop
  BY <1>7 DEF Drop, watcherVars, ByeOnWire
<1>8. CASE SetupOk
  BY <1>8 DEF SetupOk, ByeOnWire
<1>9. CASE SetupFails
  BY <1>9 DEF SetupFails, ByeOnWire
<1>10. CASE SendIdle
  BY <1>10 DEF SendIdle, connVars, ByeOnWire
<1>11. CASE IdleAccepted
  BY <1>11 DEF IdleAccepted, connVars, Drain, ByeOnWire
<1>12. CASE PreparedAlready
  BY <1>12 DEF PreparedAlready, connVars, ByeOnWire
<1>13. CASE PrepareFails
  BY <1>13 DEF PrepareFails, Reclaim, connVars, ByeOnWire
<1>14. CASE PrepareStopped
  BY <1>14 DEF PrepareStopped, Reclaim, connVars, ByeOnWire
<1>15. CASE HearExists
  BY <1>15 DEF HearExists, Hear, ByeOnWire
<1>16. CASE HearOther
  BY <1>16 DEF HearOther, Hear, connVars, ByeOnWire
<1>17. CASE Disconnected
  BY <1>17 DEF Disconnected, StartOutage, GiveUp, Drain, ByeOnWire
<1>18. CASE IdleTimeout
  BY <1>18 DEF IdleTimeout, connVars, ByeOnWire
<1>19. CASE IdleError
  BY <1>19 DEF IdleError, Reclaim, connVars, ByeOnWire
<1>20. CASE IdleStopped
  BY <1>20 DEF IdleStopped, Reclaim, connVars, ByeOnWire
<1>21. CASE ReinitOk
  BY <1>21 DEF ReinitOk, connVars, Drain, ByeOnWire
<1>22. CASE DoneErr
  BY <1>22 DEF DoneErr, StartOutage, GiveUp, Drain, ByeOnWire
<1>23. CASE ReclaimOk
  BY <1>23 DEF ReclaimOk, connVars, Drain, ByeOnWire
<1>24. CASE DonePanics
  BY <1>24 DEF DonePanics, GiveUp, Drain, ByeOnWire
<1>25. CASE ErrLogout
  BY <1>25 DEF ErrLogout, StartOutage, ByeOnWire
<1>26. CASE LoginOk
  BY <1>26 DEF LoginOk, ByeOnWire
<1>27. CASE LoginErr
  BY <1>27 DEF LoginErr, connVars, ByeOnWire
<1>28. CASE ExamineOk
  BY <1>28 DEF ExamineOk, ByeOnWire
<1>29. CASE ExamineErr
  BY <1>29 DEF ExamineErr, ByeOnWire
<1>30. CASE BackoffElapsed
  BY <1>30 DEF BackoffElapsed, ByeOnWire
<1>31. CASE RetryStopped
  BY <1>31 DEF RetryStopped, ByeOnWire
<1>32. CASE Logout
  BY <1>32 DEF Logout, ByeOnWire
<1>33. CASE UNCHANGED vars
  BY <1>33 DEF vars, watcherVars, ByeOnWire
<1> QED
  BY <1>1, <1>2, <1>3, <1>4, <1>5, <1>6, <1>7, <1>8, <1>9, <1>10, <1>11, <1>12,
     <1>13, <1>14, <1>15, <1>16, <1>17, <1>18, <1>19, <1>20, <1>21, <1>22,
     <1>23, <1>24, <1>25, <1>26, <1>27, <1>28, <1>29, <1>30, <1>31, <1>32,
     <1>33
     DEF Next, WatcherStep, StopStep

LEMMA StepIInv == IInv /\ [Next]_vars => IInv'
<1> SUFFICES ASSUME IInv, [Next]_vars PROVE IInv'
  OBVIOUS
<1>1. MailTypeOK'
  BY MailTypeStep DEF IInv, TypeOK
<1> QED
  BY <1>1, ControlStep DEF IInv, TypeOK
-----------------------------------------------------------------------------
(* The inductive invariant holds in every reachable state.                 *)
THEOREM Invariance == SafeSpec => []IInv
  BY InitIInv, StepIInv, PTL DEF SafeSpec

(* The variables keep their types: the session, the cell and the wire are  *)
(* always in a state the code provides for.                                *)
THEOREM TypeCorrect == SafeSpec => []TypeOK
<1>1. IInv => TypeOK
  BY DEF IInv
<1> QED
  BY <1>1, Invariance, PTL

(* However many failures there are, the watch task does not give up before *)
(* it is told to stop (inbox.rs:160-190, 345-377).                         *)
THEOREM NeverGivesUp == SafeSpec => []EndsOnlyOnStop
<1>1. IInv => EndsOnlyOnStop
  BY DEF IInv
<1> QED
  BY <1>1, Invariance, PTL

(* No session stays open, and without failures it is logged out            *)
(* (inbox.rs:192-198, 232-250).                                            *)
THEOREM SessionsEnd == SafeSpec => []EndsLoggedOut
<1>1. IInv => EndsLoggedOut
  BY DEF IInv
<1> QED
  BY <1>1, Invariance, PTL

(* The backoff is that of the current outage (reconnect.rs:30-38).         *)
THEOREM Backoff == SafeSpec => []BackoffMatchesOutage
<1>1. IInv => BackoffMatchesOutage
  BY DEF IInv
<1> QED
  BY <1>1, Invariance, PTL
-----------------------------------------------------------------------------
(* What becomes of the mail.                                               *)
LEMMA RemoveAtElements ==
    ASSUME NEW S, NEW s \in Seq(S), NEW p \in 1 .. Len(s),
           NEW i \in 1 .. Len(RemoveAt(s, p))
    PROVE  RemoveAt(s, p)[i] = IF i < p THEN s[i] ELSE s[i + 1]
<1>. DEFINE front == SubSeq(s, 1, p - 1)
            back  == SubSeq(s, p + 1, Len(s))
<1>1. /\ front \in Seq(S) /\ Len(front) = p - 1
      /\ \A k \in 1 .. p - 1 : front[k] = s[k]
  BY SubSeqProperties
<1>2. /\ back \in Seq(S) /\ Len(back) = Len(s) - p
      /\ \A k \in 1 .. Len(s) - p : back[k] = s[p + k]
  BY SubSeqProperties
<1>0. RemoveAt(s, p) = front \o back
  BY DEF RemoveAt
<1>. HIDE DEF front, back
<1>3. Len(RemoveAt(s, p)) = Len(s) - 1
  BY RemoveAtType
<1>4. (front \o back)[i] = IF i <= Len(front) THEN front[i] ELSE back[i - Len(front)]
  BY <1>0, <1>1, <1>2, ConcatProperties
<1>5. CASE i < p
  BY <1>0, <1>1, <1>3, <1>4, <1>5
<1>6. CASE ~(i < p)
  <2>1. i - Len(front) \in 1 .. Len(s) - p /\ p + (i - Len(front)) = i + 1
    BY <1>1, <1>3, <1>6
  <2>2. back[i - Len(front)] = s[p + (i - Len(front))]
    BY <1>2, <2>1
  <2>3. ~(i <= Len(front))
    BY <1>1, <1>6
  <2>. QED  BY <1>0, <1>4, <1>6, <2>1, <2>2, <2>3
<1>. QED  BY <1>5, <1>6

(* Mail that responses stand for.                                          *)
LEMMA MailInAppend ==
    ASSUME NEW s \in Seq(Response), NEW r \in Response
    PROVE  /\ MailIn(s) \subseteq MailIn(Append(s, r))
           /\ r.kind = "exists" => r.mail \in MailIn(Append(s, r))
<1>1. /\ Append(s, r) \in Seq(Response) /\ Len(Append(s, r)) = Len(s) + 1
      /\ \A i \in 1 .. Len(s) : Append(s, r)[i] = s[i]
      /\ Append(s, r)[Len(s) + 1] = r
  OBVIOUS
<1>. DEFINE t == Append(s, r)
<1>. HIDE DEF t
<1>2. /\ Len(t) = Len(s) + 1
      /\ \A i \in 1 .. Len(s) : t[i] = s[i]
      /\ t[Len(s) + 1] = r
  BY <1>1 DEF t
<1>3. /\ MailIn(s) \subseteq MailIn(t)
      /\ r.kind = "exists" => r.mail \in MailIn(t)
  BY <1>2 DEF MailIn
<1>. QED  BY <1>3 DEF t

LEMMA MailInTail ==
    ASSUME NEW s \in Seq(Response), s # <<>>, NEW m \in MailIn(s), m \notin MailIn(Tail(s))
    PROVE  Head(s).kind = "exists" /\ m = Head(s).mail
<1>1. PICK i \in 1 .. Len(s) : s[i].kind = "exists" /\ m = s[i].mail
  BY DEF MailIn
<1>2. CASE i = 1
  BY <1>1, <1>2
<1>3. CASE i # 1
  <2>1. i - 1 \in 1 .. Len(Tail(s)) /\ Tail(s)[i - 1] = s[i]
    BY <1>3
  <2>2. m \in MailIn(Tail(s))
    BY <1>1, <2>1 DEF MailIn
  <2>. QED  BY <2>2
<1>. QED  BY <1>2, <1>3
-----------------------------------------------------------------------------
(* The mail that was passed on, is about to be, or never will.             *)
Accounted == MailIn(wire) \union lost \union {sent[j].mail : j \in 1 .. Len(sent)}

LEMMA AccountedMeans ==
    MailAccounted <=>
        \A i \in 1 .. Len(mailbox) :
            mailbox[i] > OldMail => i > told \/ mailbox[i] \in Accounted
  BY DEF MailAccounted, Accounted

(* No step forgets a mail that is accounted for.                           *)
LEMMA AccountedStep ==
    ASSUME MailTypeOK, [Next]_vars
    PROVE  Accounted \subseteq Accounted'
<1>. USE DEF Accounted
<1>1. CASE UNCHANGED mailVars \/ Arrive
  BY <1>1 DEF mailVars, Arrive, MailIn
<1>2. CASE Notify
  <2>1. Exists \in Response /\ UNCHANGED sent /\ lost \subseteq lost'
    BY <1>2, ExistsType, ConstantsAssumption DEF Notify, MailTypeOK
  <2>. QED  BY <1>2, <2>1, MailInAppend DEF Notify, MailTypeOK
<1>3. CASE Expunge
  <2>1. MailIn(wire) \subseteq MailIn(wire')
    <3>1. CASE UNCHANGED wire
      BY <3>1 DEF MailIn
    <3>2. CASE wire' = Append(wire, [kind |-> "other"])
      BY <3>2, MailInAppend, ResponseType DEF MailTypeOK
    <3>3. CASE wire' = wire \o <<[kind |-> "other"], Exists'>>
      <4>1. wire' \in Seq(Response)
        BY <1>3, MailTypeStep DEF MailTypeOK
      <4>2. \A k \in 1 .. Len(wire) : k \in 1 .. Len(wire') /\ wire'[k] = wire[k]
        BY <3>3 DEF MailTypeOK
      <4>. QED  BY <4>1, <4>2 DEF MailIn
    <3>. QED  BY <1>3, <3>1, <3>2, <3>3 DEF Expunge
  <2>. QED  BY <1>3, <2>1 DEF Expunge
<1>4. CASE Bye
  BY <1>4, MailInAppend, ResponseType DEF Bye, MailTypeOK
<1>5. CASE Drain /\ UNCHANGED <<sent, serverVars>>
  BY <1>5 DEF Drain
<1>6. CASE HearOther
  <2>1. MailIn(wire) \subseteq MailIn(wire')
    BY <1>6, MailInTail DEF HearOther, Hear, MailTypeOK
  <2>. QED  BY <1>6, <2>1 DEF HearOther, connVars
<1>7. CASE HearExists
  <2>1. \A m \in MailIn(wire) : m \in MailIn(wire') \/ m = Head(wire).mail
    BY <1>7, MailInTail DEF HearExists, Hear, MailTypeOK
  <2>. DEFINE new == [seq |-> Head(wire).seq, mail |-> Head(wire).mail]
  <2>2. CASE owner = "gone"
    BY <1>7, <2>1, <2>2 DEF HearExists
  <2>3. CASE owner # "gone"
    <3>1. sent' = Append(sent, new) /\ lost' = lost /\ new.mail = Head(wire).mail
      BY <1>7, <2>3 DEF HearExists
    <3>. HIDE DEF new
    <3>2. /\ Len(sent') = Len(sent) + 1 /\ sent'[Len(sent) + 1] = new
          /\ \A k \in 1 .. Len(sent) : sent'[k] = sent[k]
      BY <3>1 DEF MailTypeOK
    <3>3. /\ Head(wire).mail \in {sent'[k].mail : k \in 1 .. Len(sent')}
          /\ {sent[k].mail : k \in 1 .. Len(sent)}
                 \subseteq {sent'[k].mail : k \in 1 .. Len(sent')}
      BY <3>1, <3>2 DEF MailTypeOK
    <3>. QED  BY <2>1, <3>1, <3>3
  <2>. QED  BY <2>2, <2>3
<1>8. CASE ExamineOk
  BY <1>8 DEF ExamineOk
<1>. QED  BY <1>1, <1>2, <1>3, <1>4, <1>5, <1>6, <1>7, <1>8, MailStep

LEMMA MailAccountedStep ==
    ASSUME MailTypeOK, MailAccounted, [Next]_vars
    PROVE  MailAccounted'
<1>. DEFINE Fine(box, size, i) == box[i] > OldMail => i > size \/ box[i] \in Accounted'
<1>1. SUFFICES \A i \in 1 .. Len(mailbox') : Fine(mailbox', told', i)
  BY AccountedMeans DEF Accounted, MailAccounted
<1>2. \A i \in 1 .. Len(mailbox) : Fine(mailbox, told, i)
  BY AccountedMeans, AccountedStep
<1>3. CASE Arrive
  BY <1>2, <1>3 DEF Arrive, MailTypeOK
<1>4. CASE Notify \/ ExamineOk
  <2>1. told' = Len(mailbox) /\ UNCHANGED mailbox
    BY <1>4 DEF Notify, ExamineOk
  <2>2. Untold \subseteq Accounted'
    <3>1. CASE ExamineOk
      BY <3>1 DEF ExamineOk, Accounted
    <3>2. CASE Notify
      <4>1. Exists \in Response
        BY ExistsType, ConstantsAssumption DEF MailTypeOK
      <4>2. Exists.mail \in MailIn(wire')
        BY <3>2, <4>1, MailInAppend DEF Notify, MailTypeOK, Exists
      <4>. QED  BY <3>2, <4>2 DEF Notify, Accounted
    <3>. QED  BY <1>4, <3>1, <3>2
  <2>3. \A i \in 1 .. Len(mailbox) : i > told => mailbox[i] \in Accounted'
    BY <2>2 DEF Untold, MailTypeOK
  <2>. QED  BY <1>2, <2>1, <2>3
<1>5. CASE Expunge
  <2>1. PICK p \in 1 .. Len(mailbox) :
            /\ mailbox' = RemoveAt(mailbox, p)
            /\ told' = IF p <= told THEN told - 1 ELSE told
    BY <1>5 DEF Expunge
  <2>2. /\ Len(mailbox') = Len(mailbox) - 1
        /\ \A i \in 1 .. Len(mailbox') :
               mailbox'[i] = IF i < p THEN mailbox[i] ELSE mailbox[i + 1]
    BY <2>1, RemoveAtType, RemoveAtElements DEF MailTypeOK
  <2>3. ASSUME NEW i \in 1 .. Len(mailbox') PROVE Fine(mailbox', told', i)
    <3>. DEFINE old == IF i < p THEN i ELSE i + 1
    <3>1. old \in 1 .. Len(mailbox) /\ mailbox'[i] = mailbox[old]
      BY <2>2 DEF MailTypeOK
    <3>2. old > told => i > told'
      BY <2>1 DEF MailTypeOK
    <3>. HIDE DEF old
    <3>. QED  BY <1>2, <3>1, <3>2
  <2>. QED  BY <2>3
<1>6. CASE \/ Bye \/ HearExists \/ HearOther \/ UNCHANGED mailVars
           \/ Drain /\ UNCHANGED <<sent, serverVars>>
  <2>1. UNCHANGED <<mailbox, told>>
    BY <1>6 DEF Bye, HearExists, HearOther, connVars, mailVars, serverVars
  <2>. QED  BY <1>2, <2>1
<1>. QED  BY <1>3, <1>4, <1>5, <1>6, MailStep

(* Every new mail in the inbox is unreported, unread, passed on, or among  *)
(* what was reported when nobody listened (inbox.rs:274-292, 302-342).     *)
THEOREM NoMailForgotten == SafeSpec => []MailAccounted
<1>1. Init => MailAccounted
  BY ConstantsAssumption DEF Init, MailAccounted
<1>2. IInv /\ MailAccounted /\ [Next]_vars => MailAccounted'
  BY MailAccountedStep DEF IInv, TypeOK
<1>. QED  BY <1>1, <1>2, Invariance, PTL DEF SafeSpec
-----------------------------------------------------------------------------
(* Mail lies in the inbox in its order of arrival, also after deletions,   *)
(* and no further from its first place than mail has been deleted.         *)
MailboxOrdered ==
    /\ Len(mailbox) + expunges = arrived
    /\ \A i \in 1 .. Len(mailbox) : i <= mailbox[i] /\ mailbox[i] <= i + expunges
    /\ \A i, j \in 1 .. Len(mailbox) : j < i => mailbox[j] < mailbox[i]

LEMMA MailNat ==
    ASSUME MailTypeOK
    PROVE  \A i \in 1 .. Len(mailbox) : mailbox[i] \in Nat
  BY ConstantsAssumption DEF MailTypeOK

(* A deletion moves later mail one place down, and keeps its order.        *)
LEMMA ExpungeMoves ==
    ASSUME MailTypeOK, Expunge
    PROVE  \E at \in [1 .. Len(mailbox') -> 1 .. Len(mailbox)] :
               \A i \in 1 .. Len(mailbox') :
                   /\ mailbox'[i] = mailbox[at[i]] /\ at[i] \in i .. i + 1
                   /\ \A j \in 1 .. Len(mailbox') : j < i => at[j] < at[i]
<1>1. PICK p \in 1 .. Len(mailbox) : mailbox' = RemoveAt(mailbox, p)
  BY DEF Expunge
<1>2. /\ Len(mailbox') = Len(mailbox) - 1 /\ Len(mailbox) \in Nat
      /\ \A i \in 1 .. Len(mailbox') :
             mailbox'[i] = IF i < p THEN mailbox[i] ELSE mailbox[i + 1]
  BY SMTT(30), <1>1, RemoveAtType, RemoveAtElements DEF MailTypeOK
<1>. DEFINE at == [i \in 1 .. Len(mailbox') |-> IF i < p THEN i ELSE i + 1]
<1>3. at \in [1 .. Len(mailbox') -> 1 .. Len(mailbox)]
  BY <1>2
<1>4. ASSUME NEW i \in 1 .. Len(mailbox')
      PROVE  /\ mailbox'[i] = mailbox[at[i]] /\ at[i] \in i .. i + 1
             /\ \A j \in 1 .. Len(mailbox') : j < i => at[j] < at[i]
  <2>1. CASE i < p
    BY <1>2, <1>4, <2>1
  <2>2. CASE ~(i < p)
    BY <1>2, <1>4, <2>2
  <2>. QED  BY <2>1, <2>2
<1>. HIDE DEF at
<1>. QED  BY <1>3, <1>4

LEMMA MailboxOrderedStep ==
    ASSUME MailTypeOK, MailboxOrdered, [Next]_vars
    PROVE  MailboxOrdered'
<1>1. CASE Arrive
  <2>1. /\ Len(mailbox') = Len(mailbox) + 1 /\ mailbox'[Len(mailbox) + 1] = arrived + 1
        /\ \A i \in 1 .. Len(mailbox) : mailbox'[i] = mailbox[i]
        /\ arrived' = arrived + 1 /\ arrived \in Nat /\ UNCHANGED expunges
        /\ Len(mailbox) \in Nat /\ expunges \in Nat
    BY <1>1 DEF Arrive, MailTypeOK
  <2>2. \A i \in 1 .. Len(mailbox) : mailbox[i] \in Nat
    BY MailNat
  <2>3. \A i \in 1 .. Len(mailbox') : i = Len(mailbox) + 1 \/ i \in 1 .. Len(mailbox)
    BY <2>1
  <2>4. \A i \in 1 .. Len(mailbox') : i <= mailbox'[i] /\ mailbox'[i] <= i + expunges'
    BY <2>1, <2>2, <2>3 DEF MailboxOrdered
  <2>5. ASSUME NEW i \in 1 .. Len(mailbox'), NEW j \in 1 .. Len(mailbox'), j < i
        PROVE  mailbox'[j] < mailbox'[i]
    <3>1. j \in 1 .. Len(mailbox)
      BY <2>1, <2>5
    <3>2. mailbox'[j] = mailbox[j] /\ mailbox[j] \in Nat
      BY <2>1, <2>2, <3>1
    <3>3. CASE i = Len(mailbox) + 1
      <4>1. mailbox[j] <= j + expunges /\ Len(mailbox) + expunges = arrived
        BY <3>1 DEF MailboxOrdered
      <4>. QED  BY <2>1, <3>1, <3>2, <3>3, <4>1
    <3>4. CASE i \in 1 .. Len(mailbox)
      BY <2>1, <2>5, <3>1, <3>2, <3>4 DEF MailboxOrdered
    <3>. QED  BY <2>3, <3>3, <3>4
  <2>6. Len(mailbox') + expunges' = arrived'
    BY <2>1 DEF MailboxOrdered
  <2>. QED  BY <2>4, <2>5, <2>6 DEF MailboxOrdered
<1>2. CASE Expunge
  <2>1. PICK at \in [1 .. Len(mailbox') -> 1 .. Len(mailbox)] :
            \A i \in 1 .. Len(mailbox') :
                /\ mailbox'[i] = mailbox[at[i]] /\ at[i] \in i .. i + 1
                /\ \A j \in 1 .. Len(mailbox') : j < i => at[j] < at[i]
    BY <1>2, ExpungeMoves
  <2>2. expunges' = expunges + 1 /\ arrived' = arrived /\ expunges \in Nat
    BY <1>2 DEF Expunge, MailTypeOK
  <2>3. /\ \A i \in 1 .. Len(mailbox) : mailbox[i] \in Nat
        /\ Len(mailbox) \in Nat /\ arrived \in Nat
    BY MailNat DEF MailTypeOK
  <2>4. ASSUME NEW i \in 1 .. Len(mailbox')
        PROVE  i <= mailbox'[i] /\ mailbox'[i] <= i + expunges'
    <3>1. /\ at[i] \in 1 .. Len(mailbox) /\ at[i] \in i .. i + 1
          /\ mailbox'[i] = mailbox[at[i]]
      BY <2>1
    <3>. QED  BY <2>2, <2>3, <3>1 DEF MailboxOrdered
  <2>5. \A i, j \in 1 .. Len(mailbox') : j < i => mailbox'[j] < mailbox'[i]
    BY <2>1 DEF MailboxOrdered
  <2>6. Len(mailbox') = Len(mailbox) - 1
    BY <1>2, RemoveAtType DEF Expunge, MailTypeOK
  <2>7. Len(mailbox') + expunges' = arrived'
    <3>1. Len(mailbox) + expunges = arrived
      BY DEF MailboxOrdered
    <3>. QED  BY <2>2, <2>3, <2>6, <3>1
  <2>. QED  BY <2>4, <2>5, <2>7 DEF MailboxOrdered
<1>3. CASE \/ Notify \/ ExamineOk \/ Bye \/ HearExists \/ HearOther \/ UNCHANGED mailVars
           \/ Drain /\ UNCHANGED <<sent, serverVars>>
  <2>1. UNCHANGED <<mailbox, arrived, expunges>>
    BY <1>3 DEF Notify, ExamineOk, Bye, HearExists, HearOther, connVars, mailVars, serverVars
  <2>. QED  BY <2>1 DEF MailboxOrdered
<1>. QED  BY <1>1, <1>2, <1>3, MailStep

(* The position that a response or a sequence number speaks of holds its   *)
(* mail or a later one, or nothing any more; and the mail is no further    *)
(* from its number than mail has been deleted.                             *)
AtOrLater(r) ==
    /\ r.seq <= r.mail /\ r.mail <= r.seq + expunges /\ r.mail <= arrived
    /\ r.seq \in 1 .. Len(mailbox) => mailbox[r.seq] >= r.mail
    /\ expunges = 0 => r.seq \in 1 .. Len(mailbox)

LEMMA AtOrLaterKept ==
    ASSUME MailTypeOK, MailboxOrdered, [Next]_vars,
           NEW r, r.seq \in Nat, r.mail \in Nat, AtOrLater(r)
    PROVE  AtOrLater(r)'
<1>1. CASE Arrive
  <2>1. /\ Len(mailbox') = Len(mailbox) + 1 /\ mailbox'[Len(mailbox) + 1] = arrived + 1
        /\ \A i \in 1 .. Len(mailbox) : mailbox'[i] = mailbox[i]
        /\ arrived' = arrived + 1 /\ arrived \in Nat /\ UNCHANGED expunges
        /\ Len(mailbox) \in Nat /\ expunges \in Nat
    BY <1>1 DEF Arrive, MailTypeOK
  <2>. QED  BY <2>1 DEF AtOrLater
<1>2. CASE Expunge
  <2>1. PICK at \in [1 .. Len(mailbox') -> 1 .. Len(mailbox)] :
            \A i \in 1 .. Len(mailbox') :
                /\ mailbox'[i] = mailbox[at[i]] /\ at[i] \in i .. i + 1
                /\ \A j \in 1 .. Len(mailbox') : j < i => at[j] < at[i]
    BY <1>2, ExpungeMoves
  <2>2. expunges' = expunges + 1 /\ arrived' = arrived /\ expunges \in Nat
    BY <1>2 DEF Expunge, MailTypeOK
  <2>3. /\ \A i \in 1 .. Len(mailbox) : mailbox[i] \in Nat
        /\ Len(mailbox) \in Nat /\ arrived \in Nat
    BY MailNat DEF MailTypeOK
  <2>4. ASSUME r.seq \in 1 .. Len(mailbox') PROVE mailbox'[r.seq] >= r.mail
    <3>1. /\ at[r.seq] \in 1 .. Len(mailbox) /\ at[r.seq] >= r.seq
          /\ mailbox'[r.seq] = mailbox[at[r.seq]]
      BY <2>1, <2>4
    <3>2. r.seq \in 1 .. Len(mailbox)
      BY <2>3, <2>4, <3>1
    <3>3. mailbox[r.seq] >= r.mail /\ (at[r.seq] # r.seq => mailbox[r.seq] < mailbox[at[r.seq]])
      BY <2>3, <3>1, <3>2 DEF AtOrLater, MailboxOrdered
    <3>. QED  BY <2>3, <3>1, <3>2, <3>3
  <2>. QED  BY <2>2, <2>4 DEF AtOrLater
<1>3. CASE \/ Notify \/ ExamineOk \/ Bye \/ HearExists \/ HearOther \/ UNCHANGED mailVars
           \/ Drain /\ UNCHANGED <<sent, serverVars>>
  <2>1. UNCHANGED <<mailbox, arrived, expunges>>
    BY <1>3 DEF Notify, ExamineOk, Bye, HearExists, HearOther, connVars, mailVars, serverVars
  <2>. QED  BY <2>1 DEF AtOrLater
<1>. QED  BY <1>1, <1>2, <1>3, MailStep

(* What the server says of the inbox is true when it says it.              *)
LEMMA ExistsAtOrLater ==
    ASSUME MailTypeOK, MailboxOrdered, mailbox # <<>> \/ expunges # 0
    PROVE  AtOrLater(Exists)
<1>1. CASE mailbox = <<>>
  BY <1>1 DEF AtOrLater, Exists, MailTypeOK
<1>2. CASE mailbox # <<>>
  <2>1. /\ Exists.seq = Len(mailbox) /\ Exists.mail = mailbox[Len(mailbox)]
        /\ Len(mailbox) \in 1 .. Len(mailbox) /\ mailbox[Len(mailbox)] \in Nat
    BY <1>2, MailNat DEF Exists, MailTypeOK
  <2>. QED  BY <2>1 DEF AtOrLater, MailboxOrdered
<1>. QED  BY <1>1, <1>2

LEMMA ExistsAtOrLaterNext ==
    (MailTypeOK /\ MailboxOrdered /\ (mailbox # <<>> \/ expunges # 0)
        => AtOrLater(Exists))'
<1>1. MailTypeOK /\ MailboxOrdered /\ (mailbox # <<>> \/ expunges # 0)
        => AtOrLater(Exists)
  BY ExistsAtOrLater
<1>. QED  BY <1>1, PTL

(* What is on the wire and what was passed on speaks of such a position.   *)
NumbersName ==
    /\ \A i \in 1 .. Len(wire) : wire[i].kind = "exists" => AtOrLater(wire[i])
    /\ \A i \in 1 .. Len(sent) : AtOrLater(sent[i])

LEMMA NumberTypes ==
    ASSUME MailTypeOK
    PROVE  /\ \A i \in 1 .. Len(wire) : wire[i].kind = "exists" =>
                  wire[i].seq \in Nat /\ wire[i].mail \in Nat
           /\ \A i \in 1 .. Len(sent) : sent[i].seq \in Nat /\ sent[i].mail \in Nat
           /\ Len(wire) \in Nat /\ Len(sent) \in Nat
<1>1. \A n \in 0 .. MaxMail : n \in Nat
  BY ConstantsAssumption
<1>2. \A i \in 1 .. Len(wire) : wire[i] \in Response
  BY DEF MailTypeOK
<1>3. \A i \in 1 .. Len(sent) : sent[i] \in [seq : 0 .. MaxMail, mail : 0 .. MaxMail]
  BY ElementOfSeq DEF MailTypeOK
<1>4. Len(wire) \in Nat /\ Len(sent) \in Nat
  BY DEF MailTypeOK
<1>5. \A i \in 1 .. Len(wire) : wire[i].kind = "exists" =>
          wire[i].seq \in Nat /\ wire[i].mail \in Nat
  BY <1>1, <1>2, ResponseType
<1>6. \A i \in 1 .. Len(sent) : sent[i].seq \in Nat /\ sent[i].mail \in Nat
  BY <1>1, <1>3
<1>. QED  BY <1>4, <1>5, <1>6

LEMMA NumbersNameStep ==
    ASSUME MailTypeOK, MailboxOrdered, NumbersName, [Next]_vars
    PROVE  NumbersName'
<1>. USE ConstantsAssumption
<1>0. /\ \A i \in 1 .. Len(wire) : wire[i].kind = "exists" =>
              wire[i].seq \in Nat /\ wire[i].mail \in Nat
      /\ \A i \in 1 .. Len(sent) : sent[i].seq \in Nat /\ sent[i].mail \in Nat
      /\ Len(wire) \in Nat /\ Len(sent) \in Nat
  BY NumberTypes
<1>. DEFINE Still(seq, mail) ==
              /\ seq <= mail /\ mail <= seq + expunges' /\ mail <= arrived'
              /\ seq \in 1 .. Len(mailbox') => mailbox'[seq] >= mail
              /\ expunges' = 0 => seq \in 1 .. Len(mailbox')
<1>1. \A i \in 1 .. Len(wire) : wire[i].kind = "exists" => Still(wire[i].seq, wire[i].mail)
  BY <1>0, AtOrLaterKept DEF NumbersName, AtOrLater
<1>2. \A i \in 1 .. Len(sent) : Still(sent[i].seq, sent[i].mail)
  BY <1>0, AtOrLaterKept DEF NumbersName, AtOrLater
<1>3. /\ MailTypeOK' /\ MailboxOrdered'
  BY MailTypeStep, MailboxOrderedStep
<1>4. SUFFICES
        /\ \A i \in 1 .. Len(wire') :
               wire'[i].kind = "exists" => Still(wire'[i].seq, wire'[i].mail)
        /\ \A i \in 1 .. Len(sent') : Still(sent'[i].seq, sent'[i].mail)
  BY DEF NumbersName, AtOrLater
<1>. HIDE DEF Still
<1>5. CASE Notify
  <2>1. /\ Len(wire') = Len(wire) + 1 /\ wire'[Len(wire) + 1] = Exists
        /\ \A i \in 1 .. Len(wire) : wire'[i] = wire[i]
        /\ Exists' = Exists /\ mailbox' # <<>> /\ UNCHANGED sent
    BY <1>5 DEF Notify, MailTypeOK, Untold, Exists
  <2>2. Still(Exists.seq, Exists.mail)
    BY <1>3, <2>1, ExistsAtOrLaterNext DEF Still, AtOrLater
  <2>3. \A i \in 1 .. Len(wire') : i = Len(wire) + 1 \/ i \in 1 .. Len(wire)
    BY <1>0, <2>1
  <2>. QED  BY <1>1, <1>2, <2>1, <2>2, <2>3
<1>6. CASE Expunge
  <2>1. UNCHANGED sent /\ expunges' # 0
    BY <1>6 DEF Expunge, MailTypeOK
  <2>2. Still(Exists'.seq, Exists'.mail)
    BY <1>3, <2>1, ExistsAtOrLaterNext DEF Still, AtOrLater
  <2>3. \/ UNCHANGED wire
        \/ wire' = Append(wire, [kind |-> "other"])
        \/ wire' = wire \o <<[kind |-> "other"], Exists'>>
    BY <1>6 DEF Expunge
  <2>4. \A i \in 1 .. Len(wire') :
            \/ i \in 1 .. Len(wire) /\ wire'[i] = wire[i]
            \/ wire'[i] = [kind |-> "other"]
            \/ wire'[i] = Exists'
    BY SMTT(30), <2>3 DEF MailTypeOK
  <2>. QED  BY <1>1, <1>2, <2>1, <2>2, <2>4
<1>7. CASE HearExists \/ HearOther
  <2>1. wire # <<>> /\ wire' = Tail(wire)
    BY <1>7 DEF HearExists, HearOther, Hear
  <2>2. /\ 1 \in 1 .. Len(wire) /\ Head(wire) = wire[1]
        /\ \A i \in 1 .. Len(wire') : i + 1 \in 1 .. Len(wire) /\ wire'[i] = wire[i + 1]
    BY <2>1 DEF MailTypeOK
  <2>3. CASE UNCHANGED sent
    BY <1>1, <1>2, <2>2, <2>3
  <2>4. CASE HearExists /\ sent' # sent
    <3>1. /\ Head(wire).kind = "exists"
          /\ sent' = Append(sent, [seq |-> Head(wire).seq, mail |-> Head(wire).mail])
      BY <2>4 DEF HearExists, Hear
    <3>2. /\ Len(sent') = Len(sent) + 1
          /\ sent'[Len(sent) + 1].seq = wire[1].seq
          /\ sent'[Len(sent) + 1].mail = wire[1].mail
          /\ \A i \in 1 .. Len(sent) : sent'[i] = sent[i]
      BY <2>2, <3>1 DEF MailTypeOK
    <3>3. \A i \in 1 .. Len(sent') : i = Len(sent) + 1 \/ i \in 1 .. Len(sent)
      BY <1>0, <3>2
    <3>4. Still(wire[1].seq, wire[1].mail)
      BY <1>1, <2>2, <3>1
    <3>. QED  BY <1>1, <1>2, <2>2, <3>2, <3>3, <3>4
  <2>. QED  BY <1>7, <2>3, <2>4 DEF HearOther, connVars
<1>8. CASE Bye
  <2>1. /\ Len(wire') = Len(wire) + 1 /\ wire'[Len(wire) + 1].kind = "bye"
        /\ \A i \in 1 .. Len(wire) : wire'[i] = wire[i]
        /\ UNCHANGED sent
    BY <1>8 DEF Bye, MailTypeOK
  <2>2. \A i \in 1 .. Len(wire') : i = Len(wire) + 1 \/ i \in 1 .. Len(wire)
    BY <1>0, <2>1
  <2>. QED  BY <1>1, <1>2, <2>1, <2>2
<1>9. CASE \/ Arrive \/ ExamineOk \/ UNCHANGED mailVars
           \/ Drain /\ UNCHANGED <<sent, serverVars>>
  <2>1. UNCHANGED sent /\ (UNCHANGED wire \/ wire' = <<>>)
    BY <1>9 DEF Arrive, ExamineOk, mailVars, Drain
  <2>. QED  BY <1>1, <1>2, <2>1
<1>. QED  BY <1>5, <1>6, <1>7, <1>8, <1>9, MailStep

(* As long as no mail is deleted the sizes that are reported grow: what is *)
(* passed on is above the old mail, and below what is not yet read.        *)
WireGrows ==
    \A i \in 1 .. Len(wire) : wire[i].kind = "exists" =>
        /\ OldMail < wire[i].seq /\ wire[i].seq <= told
        /\ \A j \in 1 .. Len(wire) :
               j < i /\ wire[j].kind = "exists" => wire[j].seq < wire[i].seq

SentGrows ==
    \A i \in 1 .. Len(sent) :
        /\ OldMail < sent[i].seq /\ sent[i].seq <= told
        /\ \A j \in 1 .. Len(sent) : j < i => sent[j].seq < sent[i].seq

SentBelowWire ==
    \A i \in 1 .. Len(sent) : \A j \in 1 .. Len(wire) :
        wire[j].kind = "exists" => sent[i].seq < wire[j].seq

Growing == expunges = 0 => told >= OldMail /\ WireGrows /\ SentGrows /\ SentBelowWire

LEMMA GrowingStep ==
    ASSUME MailTypeOK, Growing, [Next]_vars
    PROVE  Growing'
<1>. USE ConstantsAssumption
<1>0. /\ told \in Nat /\ expunges \in Nat /\ Len(mailbox) \in Nat
      /\ Len(wire) \in Nat /\ Len(sent) \in Nat /\ told <= Len(mailbox)
      /\ \A i \in 1 .. Len(wire) : wire[i].kind = "exists" => wire[i].seq \in Nat
      /\ \A i \in 1 .. Len(sent) : sent[i].seq \in Nat
  <2>1. told \in Nat /\ expunges \in Nat /\ Len(mailbox) \in Nat /\ told <= Len(mailbox)
    BY DEF MailTypeOK
  <2>. QED  BY <2>1, NumberTypes
<1>. USE DEF Growing, WireGrows, SentGrows, SentBelowWire
<1>1. CASE Expunge
  BY <1>0, <1>1 DEF Expunge, Growing
<1>2. CASE Notify
  <2>1. /\ Len(wire') = Len(wire) + 1 /\ wire'[Len(wire) + 1] = Exists
        /\ \A i \in 1 .. Len(wire) : wire'[i] = wire[i]
        /\ told' = Len(mailbox) /\ UNCHANGED <<sent, expunges>>
    BY <1>2 DEF Notify, MailTypeOK
  <2>2. told < Exists.seq /\ Exists.seq = Len(mailbox)
    BY <1>0, <1>2 DEF Notify, Untold, Exists
  <2>. HIDE DEF Exists
  <2>3. \A i \in 1 .. Len(wire') : i = Len(wire) + 1 \/ i \in 1 .. Len(wire)
    BY <1>0, <2>1
  <2>4. expunges' = 0 => WireGrows'
    <3>. SUFFICES ASSUME expunges = 0, NEW i \in 1 .. Len(wire'), wire'[i].kind = "exists"
                  PROVE  /\ OldMail < wire'[i].seq /\ wire'[i].seq <= told'
                         /\ \A j \in 1 .. Len(wire') :
                                j < i /\ wire'[j].kind = "exists"
                                    => wire'[j].seq < wire'[i].seq
      BY <2>1
    <3>1. CASE i = Len(wire) + 1
      BY <1>0, <2>1, <2>2, <2>3, <3>1
    <3>2. CASE i \in 1 .. Len(wire)
      <4>1. \A j \in 1 .. Len(wire') : j < i => j \in 1 .. Len(wire)
        BY <2>3, <3>2
      <4>2. wire[i].kind = "exists" /\ wire'[i] = wire[i]
        BY <2>1, <3>2
      <4>3. OldMail < wire'[i].seq /\ wire'[i].seq <= told'
        BY <1>0, <2>1, <3>2, <4>2
      <4>4. ASSUME NEW j \in 1 .. Len(wire'), j < i, wire'[j].kind = "exists"
            PROVE  wire'[j].seq < wire'[i].seq
        BY <2>1, <3>2, <4>1, <4>2, <4>4
      <4>. QED  BY <4>3, <4>4
    <3>. QED  BY <2>3, <3>1, <3>2
  <2>5. expunges' = 0 => SentGrows'
    BY <1>0, <2>1
  <2>6. ASSUME expunges = 0, NEW i \in 1 .. Len(sent), NEW j \in 1 .. Len(wire'),
               wire'[j].kind = "exists"
        PROVE  sent[i].seq < wire'[j].seq
    <3>1. CASE j = Len(wire) + 1
      BY <1>0, <2>1, <2>2, <2>6, <3>1
    <3>2. CASE j \in 1 .. Len(wire)
      BY <1>0, <2>1, <2>6, <3>2
    <3>. QED  BY <2>3, <3>1, <3>2
  <2>. QED  BY <1>0, <2>1, <2>4, <2>5, <2>6
<1>3. CASE HearExists \/ HearOther
  <2>1. wire # <<>> /\ wire' = Tail(wire)
    BY <1>3 DEF HearExists, HearOther, Hear
  <2>2. /\ Len(wire') = Len(wire) - 1 /\ 1 \in 1 .. Len(wire) /\ Head(wire) = wire[1]
        /\ \A i \in 1 .. Len(wire') : i + 1 \in 1 .. Len(wire) /\ wire'[i] = wire[i + 1]
    BY <2>1 DEF MailTypeOK
  <2>3. ASSUME UNCHANGED <<told, expunges>>, expunges = 0 PROVE WireGrows'
    <3>. SUFFICES ASSUME NEW i \in 1 .. Len(wire'), wire'[i].kind = "exists"
                  PROVE  /\ OldMail < wire'[i].seq /\ wire'[i].seq <= told'
                         /\ \A j \in 1 .. Len(wire') :
                                j < i /\ wire'[j].kind = "exists"
                                    => wire'[j].seq < wire'[i].seq
      BY DEF WireGrows
    <3>1. WireGrows
      BY <2>3
    <3>. HIDE DEF Growing
    <3>2. i + 1 \in 1 .. Len(wire) /\ wire'[i] = wire[i + 1]
      BY <2>2
    <3>3. OldMail < wire'[i].seq /\ wire'[i].seq <= told'
      BY <2>3, <3>1, <3>2
    <3>4. ASSUME NEW j \in 1 .. Len(wire'), j < i, wire'[j].kind = "exists"
          PROVE  wire'[j].seq < wire'[i].seq
      <4>1. /\ j + 1 \in 1 .. Len(wire) /\ wire'[j] = wire[j + 1]
            /\ j + 1 < i + 1
        BY <2>2, <3>4
      <4>. QED  BY <3>1, <3>2, <3>4, <4>1
    <3>. QED  BY <3>3, <3>4
  <2>4. CASE UNCHANGED <<sent, told, expunges>>
    <3>1. expunges = 0 => WireGrows'
      BY <2>3, <2>4
    <3>2. SentGrows => SentGrows'
      BY <2>4
    <3>3. SentBelowWire => SentBelowWire'
      BY <2>2, <2>4
    <3>. HIDE DEF WireGrows, SentGrows, SentBelowWire
    <3>. QED  BY <2>4, <3>1, <3>2, <3>3
  <2>5. CASE HearExists /\ sent' # sent
    <3>1. /\ Head(wire).kind = "exists" /\ UNCHANGED <<told, expunges>>
          /\ sent' = Append(sent, [seq |-> Head(wire).seq, mail |-> Head(wire).mail])
      BY <2>5 DEF HearExists, Hear, serverVars
    <3>2. /\ Len(sent') = Len(sent) + 1 /\ sent'[Len(sent) + 1].seq = wire[1].seq
          /\ \A i \in 1 .. Len(sent) : sent'[i] = sent[i]
      BY <2>2, <3>1 DEF MailTypeOK
    <3>3. \A i \in 1 .. Len(sent') : i = Len(sent) + 1 \/ i \in 1 .. Len(sent)
      BY <1>0, <3>2
    <3>4. wire[1].kind = "exists"
      BY <2>2, <3>1
    <3>5. expunges' = 0 => SentGrows'
      BY <1>0, <2>2, <3>1, <3>2, <3>3, <3>4
    <3>6. ASSUME expunges = 0, NEW i \in 1 .. Len(sent'), NEW j \in 1 .. Len(wire'),
                 wire'[j].kind = "exists"
          PROVE  sent'[i].seq < wire'[j].seq
      <4>1. j + 1 \in 1 .. Len(wire) /\ wire'[j] = wire[j + 1] /\ 1 < j + 1
        BY <2>2
      <4>2. CASE i = Len(sent) + 1
        BY <2>2, <3>2, <3>4, <3>6, <4>1, <4>2
      <4>3. CASE i \in 1 .. Len(sent)
        BY <3>2, <3>6, <4>1, <4>3
      <4>. QED  BY <3>3, <4>2, <4>3
    <3>. QED  BY <2>3, <3>1, <3>5, <3>6
  <2>. QED  BY <1>3, <2>4, <2>5 DEF HearExists, HearOther, connVars, serverVars
<1>4. CASE Bye
  <2>1. /\ Len(wire') = Len(wire) + 1 /\ wire'[Len(wire) + 1].kind = "bye"
        /\ \A i \in 1 .. Len(wire) : wire'[i] = wire[i]
        /\ UNCHANGED <<sent, told, expunges>>
    BY <1>4 DEF Bye, MailTypeOK, serverVars
  <2>2. \A i \in 1 .. Len(wire') : i = Len(wire) + 1 \/ i \in 1 .. Len(wire)
    BY <1>0, <2>1
  <2>. QED  BY <1>0, <2>1, <2>2
<1>5. CASE Arrive \/ ExamineOk
  <2>1. /\ UNCHANGED <<sent, wire, expunges>>
        /\ told' = told \/ told' = Len(mailbox)
    BY <1>5 DEF Arrive, ExamineOk
  <2>. QED  BY <1>0, <2>1 DEF Growing
<1>6. CASE UNCHANGED mailVars
  BY <1>6 DEF mailVars, serverVars, Growing
<1>7. CASE Drain /\ UNCHANGED <<sent, serverVars>>
  BY <1>7 DEF Drain, serverVars, Growing
<1>. QED  BY <1>1, <1>2, <1>3, <1>4, <1>5, <1>6, <1>7, MailStep

(* Unless mail is deleted no number is passed on twice, nor one of old     *)
(* mail (inbox.rs:212-230, 254-294, 379-384).                              *)
THEOREM NumbersGrow == SafeSpec => []AnnouncedOnce
<1>1. Init => Growing
  BY ConstantsAssumption
     DEF Init, Growing, WireGrows, SentGrows, SentBelowWire
<1>2. IInv /\ Growing /\ [Next]_vars => Growing'
  BY GrowingStep DEF IInv, TypeOK
<1>3. Growing => AnnouncedOnce
  <2>1. \A i \in 1 .. Len(sent) : \A j \in 1 .. i - 1 : j \in 1 .. Len(sent) /\ j < i
    OBVIOUS
  <2>. QED  BY <2>1 DEF Growing, SentGrows, AnnouncedOnce
<1>. QED  BY <1>1, <1>2, <1>3, Invariance, PTL DEF SafeSpec
-----------------------------------------------------------------------------
(* The step simulation: the watch task is the stream's only worker.        *)
LEMMA InitSimulates == Init => Stream!Init
  BY DEF Init, Ended, Stream!Init

LEMMA WatcherSimulates ==
    ASSUME ~Ended, UNCHANGED <<owner, sent>>
    PROVE  [Stream!Next]_(Stream!vars)
<1>1. CASE Ended'
  <2>1. Stream!Finish("watcher")
    BY <1>1 DEF Stream!Finish
  <2> QED
    BY <2>1 DEF Stream!Next
<1>2. CASE ~Ended'
  BY <1>2 DEF Stream!vars
<1> QED
  BY <1>1, <1>2

(* What it hears of, it feeds to the stream.                               *)
LEMMA HearSimulates ==
    ASSUME TypeOK, HearExists
    PROVE  [Stream!Next]_(Stream!vars)
<1>1. /\ ~Ended /\ ~Ended' /\ UNCHANGED owner
      /\ owner = "gone" => UNCHANGED sent
  BY DEF HearExists, Hear, Ended
<1>2. owner # "gone" => Len(sent') = Len(sent) + 1
  BY DEF HearExists, Hear, TypeOK, MailTypeOK
<1>3. owner # "gone" => Stream!Feed
  BY <1>1, <1>2 DEF Stream!Feed, Stream!Dry, TypeOK, WatcherTypeOK
<1>. QED  BY <1>1, <1>3, WatcherSimulates DEF Stream!Next

(* Once over, the watch task does nothing; it never starts again.          *)
LEMMA WatcherStepsWhileAlive ==
    ASSUME WatcherStep
    PROVE  ~Ended /\ UNCHANGED owner /\ (HearExists \/ UNCHANGED sent)
<1> USE DEF Ended
<1>1. CASE SetupOk \/ SetupFails \/ SendIdle \/ IdleAccepted
  BY <1>1 DEF SetupOk, SetupFails, SendIdle, IdleAccepted, connVars
<1>2. CASE PreparedAlready \/ PrepareFails \/ HearExists \/ HearOther
  BY <1>2 DEF PreparedAlready, PrepareFails, HearExists, HearOther, Hear,
              connVars
<1>3. CASE Disconnected \/ IdleTimeout \/ IdleError
  BY <1>3 DEF Disconnected, IdleTimeout, IdleError, connVars
<1>4. CASE ReinitOk \/ DoneErr \/ ReclaimOk \/ DonePanics \/ ErrLogout
  BY <1>4 DEF ReinitOk, DoneErr, ReclaimOk, DonePanics, ErrLogout, connVars
<1>5. CASE LoginOk \/ LoginErr \/ ExamineOk \/ ExamineErr \/ BackoffElapsed
  BY <1>5 DEF LoginOk, LoginErr, ExamineOk, ExamineErr, BackoffElapsed, connVars
<1>6. CASE Logout \/ StopStep
  BY <1>6 DEF Logout, StopStep, PrepareStopped, IdleStopped, RetryStopped,
              connVars
<1> QED
  BY <1>1, <1>2, <1>3, <1>4, <1>5, <1>6 DEF WatcherStep

(* The watcher's stream never resolves a close while the watch task runs,  *)
(* and is fed by nobody else (lib.rs:52-60, inbox.rs:131-146, 274-292).    *)
THEOREM Implementation == SafeSpec => Stream!SafeSpec
<1>1. ASSUME IInv, [Next]_vars PROVE [Stream!Next]_(Stream!vars)
  <2>1. CASE Arrive \/ Notify \/ Expunge \/ Bye \/ UNCHANGED vars
    BY <2>1 DEF Arrive, Notify, Expunge, Bye, vars, watcherVars, Ended,
                Stream!vars
  <2>2. CASE Close
    BY <2>2 DEF Close, watcherVars, Ended, Stream!Next, Stream!Close
  <2>3. CASE CloseResolve
    BY <2>3 DEF CloseResolve, watcherVars, Ended, Stream!Next, Stream!Resolve
  <2>4. CASE Drop
    BY <2>4 DEF Drop, watcherVars, Ended, Stream!Next, Stream!Drop
  <2>5. CASE WatcherStep
    BY <1>1, <2>5, WatcherStepsWhileAlive, WatcherSimulates, HearSimulates
       DEF IInv
  <2> QED
    BY <1>1, <2>1, <2>2, <2>3, <2>4, <2>5 DEF Next
<1> QED
  BY <1>1, InitSimulates, Invariance, PTL DEF SafeSpec, Stream!SafeSpec
=============================================================================
