------------------------- MODULE SlidingWindowProofs -------------------------
(***************************************************************************)
(* Safety of the sliding-window sender for every number of chunks, window  *)
(* size and number of retries, and the step-by-step argument that a sender *)
(* is a ChunkTransfer.                                                     *)
(***************************************************************************)
EXTENDS SlidingWindow, FiniteSetTheorems, TLAPS

(* A chunk send_all has not come to is in no set and on no wire; only the  *)
(* one whose write raised is in the window already.                        *)
UnsentIsNowhere ==
    \A i \in Chunks : i >= sendIdx =>
        /\ phase # "raised" => i \notin unacked /\ i \notin late
        /\ data[i] = 0 /\ acks[i] = 0
        /\ i \notin acked /\ i \notin stored

(* _done is set by the last acknowledgement, by the loss of the connection *)
(* or because of the other reader.                                         *)
DoneHasReason ==
    done \/ phase = "returned" => acked = Chunks \/ link = "lost" \/ loop # "absent"

IInv == TypeOK /\ AckedIsStored /\ UnsentIsNowhere /\ DoneHasReason

(* The window is finite, as every set of chunks. *)
LEMMA ChunksFinite ==
    ASSUME NEW S \in SUBSET Chunks
    PROVE  IsFiniteSet(S) /\ Cardinality(S) \in Nat
<1>1. IsFiniteSet(Chunks)
  BY ParametersAssumption, FS_Interval DEF Chunks
<1> QED  BY <1>1, FS_Subset, FS_CardinalityType

(* Adding a chunk makes a window at most one larger; removing one makes it *)
(* no larger.                                                              *)
LEMMA WindowChange ==
    ASSUME NEW S \in SUBSET Chunks, NEW i \in Chunks
    PROVE  /\ Cardinality(S \cup {i}) <= Cardinality(S) + 1
           /\ Cardinality(S \ {i}) <= Cardinality(S)
<1>1. IsFiniteSet(S) /\ Cardinality(S) \in Nat
  BY ChunksFinite
<1>2. Cardinality(S \cup {i}) = IF i \in S THEN Cardinality(S) ELSE Cardinality(S) + 1
  BY <1>1, FS_AddElement
<1>3. Cardinality(S \ {i}) = IF i \in S THEN Cardinality(S) - 1 ELSE Cardinality(S)
  BY <1>1, FS_RemoveElement
<1> QED  BY <1>1, <1>2, <1>3

LEMMA InitIInv == Init => IInv
<1> SUFFICES ASSUME Init PROVE IInv
  OBVIOUS
<1>1. TypeOK
  <2>1. Cardinality({}) = 0
    BY FS_EmptySet
  <2>2. unacked \subseteq Chunks /\ Cardinality(unacked) <= WindowSize
    BY <2>1, ParametersAssumption DEF Init
  <2>3. retries \in [Chunks -> 0 .. MaxRetries] /\ sendIdx \in 0 .. Total
    BY ParametersAssumption DEF Init
  <2> QED  BY <2>2, <2>3 DEF Init, TypeOK
<1>2. AckedIsStored /\ UnsentIsNowhere /\ DoneHasReason
  BY DEF Init, AckedIsStored, UnsentIsNowhere, DoneHasReason
<1> QED  BY <1>1, <1>2 DEF IInv

(* Every step keeps the invariant. *)
LEMMA NextIInv == IInv /\ [Next]_vars => IInv'
<1> SUFFICES ASSUME IInv, [Next]_vars PROVE IInv'
  OBVIOUS
<1> USE ParametersAssumption
<1> DEFINE I == TypeOK /\ AckedIsStored /\ UnsentIsNowhere /\ DoneHasReason
<1>0. I
  BY DEF IInv
<1>s. SUFFICES I'
  BY DEF IInv
<1>1. CASE FillSend
  <2>1. sendIdx \in Chunks
    BY <1>0, <1>1 DEF FillSend, TypeOK, Chunks
  <2>2. Cardinality(unacked') <= WindowSize
    <3>1. /\ Cardinality(unacked') <= Cardinality(unacked) + 1
          /\ Cardinality(unacked) \in Nat /\ Cardinality(unacked') \in Nat
      BY <1>0, <1>1, <2>1, WindowChange, ChunksFinite DEF FillSend, TypeOK
    <3> QED  BY <3>1, <1>1 DEF FillSend, HasRoom
  <2>3. TypeOK'
    <3>1. data' \in [Chunks -> Nat] /\ unacked' \subseteq Chunks
      BY <1>0, <1>1, <2>1 DEF FillSend, Write, TypeOK
    <3>2. sendIdx' \in 0 .. Total
      BY <1>0, <1>1, <2>1 DEF FillSend, TypeOK, Chunks
    <3>3. phase' \in {"filling", "raised"}
      BY <1>1 DEF FillSend
    <3>4. late' \subseteq Chunks /\ listener' \in {"idle", "reading", "ended"}
      BY <1>0, <1>1 DEF FillSend, CancelTasks, TypeOK
    <3> QED  BY <1>0, <1>1, <2>2, <3>1, <3>2, <3>3, <3>4 DEF FillSend, TypeOK
  <2>4. AckedIsStored'
    BY <1>0, <1>1, <2>1 DEF FillSend, TypeOK, AckedIsStored, UnsentIsNowhere
  <2>5. UnsentIsNowhere'
    BY <1>0, <1>1, <2>1 DEF FillSend, CancelTasks, Write, TypeOK, UnsentIsNowhere, Chunks
  <2>6. DoneHasReason'
    BY <1>0, <1>1 DEF FillSend, DoneHasReason
  <2> QED  BY <2>3, <2>4, <2>5, <2>6
<1>2. CASE FillEnd
  BY <1>0, <1>2 DEF FillEnd, TypeOK, AckedIsStored, UnsentIsNowhere, DoneHasReason
<1>3. CASE Return
  BY <1>0, <1>3 DEF Return, ReturnWithoutWaiting, CancelTasks, TypeOK, AckedIsStored, UnsentIsNowhere,
     DoneHasReason
<1>4. CASE ListenerRead
  BY <1>0, <1>4 DEF ListenerRead, TypeOK, AckedIsStored, UnsentIsNowhere, DoneHasReason
<1>5. CASE ListenerLoses
  BY <1>0, <1>5 DEF ListenerLoses, TypeOK, AckedIsStored, UnsentIsNowhere, DoneHasReason
<1>6. CASE LoopRead
  BY <1>0, <1>6 DEF LoopRead, sender, TypeOK, AckedIsStored, UnsentIsNowhere, DoneHasReason
<1>7. CASE LoopWakes
  BY <1>0, <1>7 DEF LoopWakes, sender, TypeOK, AckedIsStored, UnsentIsNowhere, DoneHasReason
<1>8. ASSUME NEW overdue \in SUBSET unacked, Sweep(overdue)
      PROVE  I'
  BY <1>0, <1>8 DEF Sweep, TypeOK, AckedIsStored, UnsentIsNowhere, DoneHasReason
<1>9. ASSUME NEW i \in Chunks, HandleAck(i)
      PROVE  I'
  <2>1. i \in stored /\ i < sendIdx
    BY <1>0, <1>9 DEF HandleAck, AckedIsStored, UnsentIsNowhere, TypeOK, Chunks
  <2>2. Cardinality(unacked') <= WindowSize
    <3>1. /\ Cardinality(unacked') <= Cardinality(unacked)
          /\ Cardinality(unacked) \in Nat /\ Cardinality(unacked') \in Nat
      BY <1>0, <1>9, WindowChange, ChunksFinite DEF HandleAck, Acknowledge, TypeOK
    <3> QED  BY <3>1, <1>0 DEF TypeOK
  <2>3. TypeOK'
    <3>1. acks' \in [Chunks -> Nat]
      BY <1>0, <1>9 DEF HandleAck, TypeOK
    <3>2. unacked' \subseteq Chunks /\ acked' \subseteq Chunks
      BY <1>0, <1>9 DEF HandleAck, Acknowledge, TypeOK
    <3> QED  BY <1>0, <1>9, <2>2, <3>1, <3>2 DEF HandleAck, TypeOK
  <2>4. AckedIsStored'
    BY <1>0, <1>9, <2>1 DEF HandleAck, Acknowledge, TypeOK, AckedIsStored
  <2>5. UnsentIsNowhere'
    BY <1>0, <1>9, <2>1 DEF HandleAck, Acknowledge, TypeOK, UnsentIsNowhere
  <2>6. DoneHasReason'
    BY <1>0, <1>9 DEF HandleAck, Acknowledge, TypeOK, DoneHasReason, Running
  <2> QED  BY <2>3, <2>4, <2>5, <2>6
<1>10. ASSUME NEW i \in Chunks, Resend(i)
       PROVE  I'
  <2>1. CASE Exhausted(i)
    BY <1>0, <1>10, <2>1 DEF Resend, LeftAfter, TypeOK, AckedIsStored, UnsentIsNowhere,
       DoneHasReason
  <2>2. CASE ~Exhausted(i)
    <3>1. retries' \in [Chunks -> 0 .. MaxRetries] /\ data' \in [Chunks -> Nat]
      BY <1>0, <1>10, <2>2 DEF Resend, Exhausted, Write, TypeOK
    <3>2. TypeOK' /\ AckedIsStored' /\ DoneHasReason'
      BY <1>0, <1>10, <3>1 DEF Resend, LeftAfter, TypeOK, AckedIsStored, DoneHasReason
    <3>3. i < sendIdx
      BY <1>0, <1>10 DEF Resend, Running, TypeOK, UnsentIsNowhere, Chunks
    <3>4. UnsentIsNowhere'
      <4>1. \A j \in Chunks : j >= sendIdx => data'[j] = 0
        <5> SUFFICES ASSUME NEW j \in Chunks, j >= sendIdx PROVE data'[j] = 0
          OBVIOUS
        <5>1. j # i /\ data[j] = 0
          BY <1>0, <3>3 DEF TypeOK, UnsentIsNowhere, Chunks
        <5>2. data' = [data EXCEPT ![i] = data[i] + 1] \/ data' = data
          BY <1>10, <2>2 DEF Resend, Write
        <5> QED  BY <1>0, <5>1, <5>2 DEF TypeOK
      <4> QED
        BY <1>0, <1>10, <4>1 DEF Resend, LeftAfter, TypeOK, UnsentIsNowhere
    <3> QED  BY <3>2, <3>4
  <2> QED  BY <2>1, <2>2
<1>11. ASSUME NEW i \in Chunks, Receive(i)
       PROVE  I'
  <2>1. i < sendIdx
    BY <1>0, <1>11 DEF Receive, UnsentIsNowhere, TypeOK, Chunks
  <2>2. TypeOK'
    BY <1>0, <1>11 DEF Receive, SaveThenAck, sender, TypeOK
  <2>3. AckedIsStored'
    BY <1>0, <1>11 DEF Receive, SaveThenAck, sender, TypeOK, AckedIsStored
  <2>4. UnsentIsNowhere'
    BY <1>0, <1>11, <2>1 DEF Receive, SaveThenAck, sender, TypeOK, UnsentIsNowhere
  <2>5. DoneHasReason'
    BY <1>0, <1>11 DEF Receive, sender, DoneHasReason
  <2> QED  BY <2>2, <2>3, <2>4, <2>5
<1>12. CASE LinkLost
  BY <1>0, <1>12 DEF LinkLost, sender, TypeOK, AckedIsStored, UnsentIsNowhere, DoneHasReason
<1>13. CASE UNCHANGED vars
  BY <1>0, <1>13 DEF vars, sender, TypeOK, AckedIsStored, UnsentIsNowhere, DoneHasReason
<1> QED
  BY <1>1, <1>2, <1>3, <1>4, <1>5, <1>6, <1>7, <1>8, <1>9, <1>10, <1>11, <1>12, <1>13
  DEF Next

LEMMA Invariance == Spec => []IInv
  BY InitIInv, NextIInv, PTL DEF Spec

(* All variables keep their types, and the window is never exceeded. *)
THEOREM TypeCorrect == Spec => []TypeOK
<1>1. IInv => TypeOK
  BY DEF IInv
<1> QED  BY <1>1, Invariance, PTL

(* An acknowledged chunk is on the receiver's disk and out of the window.  *)
THEOREM AcknowledgedStored == Spec => []AckedIsStored
<1>1. IInv => AckedIsStored
  BY DEF IInv
<1> QED  BY <1>1, Invariance, PTL

(* Only a lost or shared connection lets send_all return with less than    *)
(* every chunk acknowledged.                                               *)
THEOREM CompleteUnlessBroken == Spec => []CompleteOrBroken
<1>1. IInv => CompleteOrBroken
  BY DEF IInv, DoneHasReason, CompleteOrBroken
<1> QED  BY <1>1, Invariance, PTL

-----------------------------------------------------------------------------
(* The refinement *)

LEMMA InitRefines == Init => Transfer!Init
  BY DEF Init, Transfer!Init, Running

(* Each step of the sender is a step of the transfer or changes nothing of *)
(* it: storing, confirming, and the two ways to report.                    *)
LEMMA NextRefines == IInv /\ [Next]_vars => [Transfer!Next]_(Transfer!vars)
<1> SUFFICES ASSUME IInv, [Next]_vars PROVE [Transfer!Next]_(Transfer!vars)
  OBVIOUS
<1> DEFINE report == IF Running THEN "pending"
                     ELSE IF phase = "returned" /\ acked = Chunks THEN "complete"
                     ELSE "incomplete"
<1>q. CASE UNCHANGED <<stored, acked, phase>>
  BY <1>q DEF Transfer!vars, Running
<1>1. CASE FillSend
  <2>1. CASE phase' = "raised"
    BY <1>1, <2>1 DEF FillSend, Running, Transfer!Next, Transfer!GiveUp
  <2>2. CASE phase' # "raised"
    BY <1>1, <2>2, <1>q DEF FillSend
  <2> QED  BY <2>1, <2>2
<1>2. CASE FillEnd
  BY <1>2 DEF FillEnd, Running, Transfer!vars
<1>3. CASE Return
  <2>1. CASE acked = Chunks
    BY <1>3, <2>1 DEF Return, ReturnWithoutWaiting, Running, Transfer!Next, Transfer!Complete
  <2>2. CASE acked # Chunks
    BY <1>3, <2>2 DEF Return, ReturnWithoutWaiting, Running, Transfer!Next, Transfer!GiveUp
  <2> QED  BY <2>1, <2>2
<1>4. CASE ListenerRead
  BY <1>4, <1>q DEF ListenerRead
<1>5. CASE ListenerLoses
  BY <1>5, <1>q DEF ListenerLoses
<1>6. CASE LoopRead
  BY <1>6, <1>q DEF LoopRead, sender
<1>7. CASE LoopWakes
  BY <1>7, <1>q DEF LoopWakes, sender
<1>8. ASSUME NEW overdue \in SUBSET unacked, Sweep(overdue)
      PROVE  [Transfer!Next]_(Transfer!vars)
  BY <1>8, <1>q DEF Sweep
<1>9. ASSUME NEW i \in Chunks, HandleAck(i)
      PROVE  [Transfer!Next]_(Transfer!vars)
  <2>1. i \in stored
    BY <1>9 DEF IInv, AckedIsStored, HandleAck
  <2>2. Transfer!Confirm(i)
    BY <1>9, <2>1 DEF HandleAck, Acknowledge, Running, Transfer!Confirm
  <2> QED  BY <2>2 DEF Transfer!Next
<1>10. ASSUME NEW i \in Chunks, Resend(i)
       PROVE  [Transfer!Next]_(Transfer!vars)
  BY <1>10, <1>q DEF Resend
<1>11. ASSUME NEW i \in Chunks, Receive(i)
       PROVE  [Transfer!Next]_(Transfer!vars)
  <2>1. CASE stored' = stored \cup {i}
    BY <1>11, <2>1 DEF Receive, sender, Running, Transfer!Next, Transfer!Store
  <2>2. CASE UNCHANGED stored
    BY <1>11, <2>2, <1>q DEF Receive, sender
  <2> QED  BY <1>11, <2>1, <2>2 DEF Receive, SaveThenAck
<1>12. CASE LinkLost
  BY <1>12, <1>q DEF LinkLost, sender
<1>13. CASE UNCHANGED vars
  BY <1>13, <1>q DEF vars, sender
<1> QED
  BY <1>1, <1>2, <1>3, <1>4, <1>5, <1>6, <1>7, <1>8, <1>9, <1>10, <1>11, <1>12, <1>13
  DEF Next

(* The sender implements the abstract transfer: what it confirms is stored *)
(* and "complete" means that everything is confirmed.                      *)
THEOREM Refinement == Spec => Implements
  BY InitRefines, NextRefines, Invariance, PTL DEF Spec, Implements, Transfer!Spec
=============================================================================
