------------------------ MODULE CloseableStream_proofs -----------------------
(* The safety half of the contract, for any set of workers. *)
EXTENDS CloseableStream, TLAPS

(* Once close has resolved nothing works for the stream, then or later,    *)
(* short of the death of its keeper: no worker is left that could start    *)
(* another one (lib.rs:57-58, email.rs:129-133).                           *)
THEOREM ClosedStaysIdle == SafeSpec => []ClosedMeansIdle
<1>1. Init => ClosedMeansIdle
  BY DEF Init, ClosedMeansIdle
<1>2. ClosedMeansIdle /\ [Next]_vars => ClosedMeansIdle'
  <2>. SUFFICES ASSUME ClosedMeansIdle, [Next]_vars PROVE ClosedMeansIdle'
    OBVIOUS
  <2>. USE DEF ClosedMeansIdle
  <2>1. CASE Close \/ Drop
    BY <2>1 DEF Close, Drop
  <2>2. CASE Resolve \/ Feed
    BY <2>2 DEF Resolve, Feed
  <2>3. ASSUME NEW w \in Workers, Start(w) PROVE ClosedMeansIdle'
    BY <2>3 DEF Start, Dry
  <2>4. ASSUME NEW w \in Workers, Finish(w) PROVE ClosedMeansIdle'
    BY <2>4 DEF Finish
  <2>5. ASSUME NEW w \in Workers, Break(w) PROVE ClosedMeansIdle'
    BY <2>5 DEF Break
  <2>6. CASE UNCHANGED vars
    BY <2>6 DEF vars
  <2>. QED  BY <2>1, <2>2, <2>3, <2>4, <2>5, <2>6 DEF Next
<1>. QED  BY <1>1, <1>2, PTL DEF SafeSpec

(* A stream that has run dry gets no item and no feeder any more, whatever *)
(* becomes of its other workers: its reader may take that for the end.     *)
THEOREM DryIsTheEnd == SafeSpec => DryForGood
<1>1. [Next]_vars => [Dry => Dry' /\ items' = items]_vars
  BY DEF Next, Close, Drop, Resolve, Feed, Start, Finish, Break, Dry, vars
<1>. QED  BY <1>1, PTL DEF SafeSpec, DryForGood
=============================================================================
