--------------------------- MODULE CloseableStream ---------------------------
(***************************************************************************)
(* What the trait CloseableStream of src/src/lib.rs promises: a stream is  *)
(* fed by background workers, its owner may close it or drop it, and the   *)
(* future returned by close resolves when the stream's resources have been *)
(* cleaned up.  A resource is a worker here: a spawned task together with  *)
(* the IMAP session it holds.                                              *)
(*                                                                         *)
(* One worker may be the keeper of the others: close waits for it, and it  *)
(* for them.  If it dies, a close has nothing to wait for and resolves,    *)
(* "as cleaned up as we're going to get" (src/src/email.rs).               *)
(*                                                                         *)
(* MessageStream and InboxWatch, the two implementations of the trait, are *)
(* shown to implement this specification.                                  *)
(***************************************************************************)
EXTENDS Naturals

CONSTANTS
    Workers,            \* the tasks that may ever work for the stream
    Feeders             \* those of them that may put items into it

VARIABLES
    phase,              \* what the owner did with the stream
    fresh,              \* the workers that have not been started
    active,             \* the workers that run
    broken,             \* whether the keeper died
    items               \* how many items they have put into the stream

vars == <<phase, fresh, active, broken, items>>

Phases == {"open", "closing", "closed", "dropped"}

TypeOK ==
    /\ phase \in Phases
    /\ fresh \in SUBSET Workers
    /\ active \in SUBSET Workers
    /\ broken \in BOOLEAN
    /\ items \in Nat

(* Nothing will be put into the stream any more.                           *)
Dry == active \cap Feeders = {}

(* Somebody has to feed the stream: some workers run from the beginning.   *)
Init ==
    /\ phase = "open"
    /\ active \in SUBSET Workers
    /\ fresh = Workers \ active
    /\ broken = FALSE
    /\ items = 0

(* Only a running feeder starts another worker, before or after the close. *)
Start(w) ==
    /\ ~Dry
    /\ w \in fresh
    /\ fresh' = fresh \ {w}
    /\ active' = active \union {w}
    /\ UNCHANGED <<phase, broken, items>>

(* Only a running feeder feeds the stream, and nothing gets into one that  *)
(* nobody has any more.                                                    *)
Feed ==
    /\ ~Dry /\ phase # "dropped"
    /\ items' = items + 1
    /\ UNCHANGED <<phase, fresh, active, broken>>

Finish(w) ==
    /\ w \in active
    /\ active' = active \ {w}
    /\ UNCHANGED <<phase, fresh, broken, items>>

(* The keeper dies; the workers it kept run on for now.                    *)
Break(w) ==
    /\ w \in active /\ ~broken
    /\ active' = active \ {w}
    /\ broken' = TRUE
    /\ UNCHANGED <<phase, fresh, items>>

Close ==
    /\ phase = "open"
    /\ phase' = "closing"
    /\ UNCHANGED <<fresh, active, broken, items>>

(* The owner may drop the stream, or the future returned by close.         *)
Drop ==
    /\ phase \in {"open", "closing"}
    /\ phase' = "dropped"
    /\ UNCHANGED <<fresh, active, broken, items>>

Resolve ==
    /\ phase = "closing"
    /\ active = {} \/ broken
    /\ phase' = "closed"
    /\ UNCHANGED <<fresh, active, broken, items>>

Next ==
    \/ Close
    \/ Drop
    \/ Resolve
    \/ Feed
    \/ \E w \in Workers : Start(w) \/ Finish(w) \/ Break(w)

(* A stream that is told to stop winds its workers up, kept or not.        *)
WindUp(w) == phase # "open" /\ Finish(w)

SafeSpec == Init /\ [][Next]_vars

Fairness ==
    /\ WF_vars(Resolve)
    /\ \A w \in Workers : WF_vars(WindUp(w))

Spec == SafeSpec /\ Fairness
-----------------------------------------------------------------------------
(* Once close has resolved nothing works for the stream, then or later,    *)
(* unless the keeper of its workers died (lib.rs:57-58; email.rs:129-133). *)
ClosedMeansIdle == phase = "closed" => active = {} \/ broken

(* What is dry stays so: the end of the stream is not followed by an item. *)
DryForGood == [][Dry => Dry' /\ items' = items]_vars

(* A close that is not abandoned resolves, whatever work was under way or  *)
(* was still being started when it was called.                             *)
Promise == (phase = "closing") ~> (phase # "closing")
=============================================================================
