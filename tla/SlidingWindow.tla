---------------------------- MODULE SlidingWindow ----------------------------
(***************************************************************************)
(* SlidingWindowSender of backend/strategies/sliding_window.py: send_all   *)
(* fills a window of chunks, _ack_listener reads the CHUNK_ACKs, and       *)
(* _sweep_loop writes the chunks again that were not acknowledged in time. *)
(* The connection is an entry of ConnectionManager: if the peer dialled    *)
(* it, its message loop reads from the same stream as the listener.        *)
(*                                                                         *)
(* Messages in transit are counted per chunk: no property depends on the   *)
(* order in which copies of different chunks are delivered.  Time is       *)
(* abstract: any unacknowledged chunk may be found late by a sweep.        *)
(***************************************************************************)
EXTENDS Naturals, FiniteSets

CONSTANTS
    Total,          \* how many chunks send_all is given (it returns at once if none)
    WindowSize,     \* MAX_WINDOW_SIZE
    MaxRetries,     \* MAX_RETRIES
    ReceiverAcks    \* does the receiver send CHUNK_ACK ("for every chunk")?

ASSUME ParametersAssumption ==
    /\ Total \in Nat \ {0} /\ WindowSize \in Nat /\ MaxRetries \in Nat
    /\ ReceiverAcks \in BOOLEAN

Chunks == 0 .. Total - 1

VARIABLES
    phase,      \* send_all: "filling", "waiting", "returned" or "raised"
    sendIdx,    \* _send_idx
    unacked,    \* the keys of _unacked
    retries,    \* retries[i]: UnackedChunk.retries
    acked,      \* _acked
    done,       \* _done is set
    late,       \* timed_out: what the sweep under way has left to write
    listener,   \* _ack_listener: "idle" (not waiting), "reading", "ended"
    loop,       \* the message loop: "absent", "busy", "reading", "ended"
    link,       \* the connection: "up" or "lost"
    data,       \* data[i]: copies of chunk i under way to the receiver
    acks,       \* acks[i]: CHUNK_ACKs of i under way to the sender
    stored      \* the chunks the receiver has on its disk

sender == <<phase, sendIdx, unacked, retries, acked, done, late>>
vars == <<sender, listener, loop, link, data, acks, stored>>

Running == phase \in {"filling", "waiting"}

TypeOK ==
    /\ phase \in {"filling", "waiting", "returned", "raised"}
    /\ sendIdx \in 0 .. Total
    /\ unacked \subseteq Chunks /\ Cardinality(unacked) <= WindowSize
    /\ retries \in [Chunks -> 0 .. MaxRetries]
    /\ acked \subseteq Chunks
    /\ done \in BOOLEAN
    /\ late \subseteq Chunks
    /\ listener \in {"idle", "reading", "ended"}
    /\ loop \in {"absent", "busy", "reading", "ended"}
    /\ link \in {"up", "lost"}
    /\ data \in [Chunks -> Nat]
    /\ acks \in [Chunks -> Nat]
    /\ stored \subseteq Chunks

Init ==
    /\ phase = "filling" /\ sendIdx = 0
    /\ unacked = {} /\ acked = {} /\ late = {}
    /\ retries = [i \in Chunks |-> 0]
    /\ done = FALSE
    /\ listener = "idle"
    /\ loop \in {"absent", "busy", "reading"}
    /\ link = "up"
    /\ data = [i \in Chunks |-> 0] /\ acks = [i \in Chunks |-> 0]
    /\ stored = {}

-----------------------------------------------------------------------------
(* send_all *)

NoLimit == TRUE

HasRoom == Cardinality(unacked) < WindowSize

(* PeerConnection.send: the copy is under way, unless the link is lost. *)
Write(i) == data' = IF link = "up" THEN [data EXCEPT ![i] = @ + 1] ELSE data

(* However send_all ends, its `finally` cancels sweep and listener. *)
CancelTasks == late' = {} /\ listener' = "ended"

(* _send_chunk.  On a lost link conn.send raises or swallows the message.  *)
FillSend ==
    /\ phase = "filling"
    /\ sendIdx < Total /\ HasRoom
    /\ unacked' = unacked \cup {sendIdx}
    /\ Write(sendIdx)
    /\ \/ /\ sendIdx' = sendIdx + 1
          /\ UNCHANGED <<phase, late, listener>>
       \/ /\ link = "lost"
          /\ phase' = "raised" /\ CancelTasks
          /\ UNCHANGED sendIdx
    /\ UNCHANGED <<retries, acked, done, loop, link, acks, stored>>

FillEnd ==
    /\ phase = "filling"
    /\ ~(sendIdx < Total /\ HasRoom)
    /\ phase' = "waiting"
    /\ UNCHANGED <<sendIdx, unacked, retries, acked, done, late, listener, loop, link,
                   data, acks, stored>>

ReturnWithoutWaiting ==
    /\ phase = "waiting"
    /\ phase' = "returned" /\ CancelTasks
    /\ UNCHANGED <<sendIdx, unacked, retries, acked, done, loop, link, data, acks, stored>>

(* The wait for _done is over. *)
Return == done /\ ReturnWithoutWaiting

-----------------------------------------------------------------------------
(* The two readers of the stream *)

(* The listener's receive: with the message loop waiting on the stream,    *)
(* readexactly raises, which receive turns into None.                      *)
ListenerRead ==
    /\ Running /\ listener = "idle"
    /\ IF loop = "reading"
       THEN listener' = "ended" /\ done' = TRUE
       ELSE listener' = "reading" /\ UNCHANGED done
    /\ UNCHANGED <<phase, sendIdx, unacked, retries, acked, late, loop, link, data, acks, stored>>

AcknowledgeInWindow(i) == acked' = acked \cup {i} /\ UNCHANGED unacked

(* _handle_ack.  The loop that should send the next chunk only breaks. *)
Acknowledge(i) == acked' = acked \cup {i} /\ unacked' = unacked \ {i}

HandleAck(i) ==
    /\ Running /\ listener = "reading"
    /\ acks[i] > 0
    /\ acks' = [acks EXCEPT ![i] = @ - 1]
    /\ Acknowledge(i)
    /\ IF acked' = Chunks
       THEN listener' = "ended" /\ done' = TRUE
       ELSE listener' = "idle" /\ UNCHANGED done
    /\ UNCHANGED <<phase, sendIdx, retries, late, loop, link, data, stored>>

(* receive returns None at the end of the stream. *)
ListenerLoses ==
    /\ Running /\ listener = "reading"
    /\ link = "lost" /\ \A i \in Chunks : acks[i] = 0
    /\ listener' = "ended" /\ done' = TRUE
    /\ UNCHANGED <<phase, sendIdx, unacked, retries, acked, late, loop, link, data, acks, stored>>

(* The message loop of an accepted connection comes back from a handler.   *)
(* It finds the listener waiting, ends and closes the connection; or it    *)
(* reads an acknowledgement itself, which _handle_message only logs; or it *)
(* waits.                                                                  *)
LoopRead ==
    /\ loop = "busy"
    /\ \/ /\ listener = "reading" /\ Running
          /\ loop' = "ended" /\ link' = "lost"
          /\ data' = [i \in Chunks |-> 0]
          /\ UNCHANGED acks
       \/ /\ ~(listener = "reading" /\ Running)
          /\ \E i \in Chunks : acks[i] > 0 /\ acks' = [acks EXCEPT ![i] = @ - 1]
          /\ UNCHANGED <<loop, link, data>>
       \/ /\ ~(listener = "reading" /\ Running)
          /\ loop' = "reading"
          /\ UNCHANGED <<acks, link, data>>
    /\ UNCHANGED <<sender, listener, stored>>

(* Another message of the peer wakes the loop. *)
LoopWakes ==
    /\ loop = "reading" /\ link = "up"
    /\ loop' = "busy"
    /\ UNCHANGED <<sender, listener, link, data, acks, stored>>

-----------------------------------------------------------------------------
(* _sweep_loop *)

Sweep(overdue) ==
    /\ Running /\ ~done /\ late = {}
    /\ overdue # {} /\ overdue \subseteq unacked
    /\ late' = overdue
    /\ UNCHANGED <<phase, sendIdx, unacked, retries, acked, done, listener, loop, link,
                   data, acks, stored>>

Exhausted(i) == retries[i] >= MaxRetries

LeftAfter(i) == late \ {i}

(* One round of the loop over timed_out, which does not look whether the   *)
(* chunk was acknowledged meanwhile.  Without retries left, it is skipped. *)
Resend(i) ==
    /\ Running
    /\ i \in late
    /\ late' = LeftAfter(i)
    /\ IF Exhausted(i) THEN UNCHANGED <<retries, data>>
       ELSE Write(i) /\ retries' = [retries EXCEPT ![i] = @ + 1]
    /\ UNCHANGED <<phase, sendIdx, unacked, acked, done, listener, loop, link, acks, stored>>

-----------------------------------------------------------------------------
(* The receiver and the link *)

AckThenSave(i) ==
    /\ acks' = [acks EXCEPT ![i] = @ + 1]
    /\ stored' \in {stored, stored \cup {i}}

SaveThenAck(i) ==
    \/ /\ stored' = stored \cup {i}
       /\ acks' = IF ReceiverAcks THEN [acks EXCEPT ![i] = @ + 1] ELSE acks
    \/ UNCHANGED <<stored, acks>>

(* Node._handle_message, STORE_CHUNK: the chunk is saved, or saving fails, *)
(* which is only logged.  The CHUNK_ACK is the documented protocol's; the  *)
(* handler itself sends none.                                              *)
Receive(i) ==
    /\ link = "up" /\ data[i] > 0
    /\ data' = [data EXCEPT ![i] = @ - 1]
    /\ SaveThenAck(i)
    /\ UNCHANGED <<sender, listener, loop, link>>

(* What is under way is lost; acknowledgements may have arrived already.   *)
LinkLost ==
    /\ link = "up"
    /\ link' = "lost"
    /\ data' = [i \in Chunks |-> 0]
    /\ acks' \in {acks, [i \in Chunks |-> 0]}
    /\ loop' = IF loop = "reading" THEN "ended" ELSE loop
    /\ UNCHANGED <<sender, listener, stored>>

-----------------------------------------------------------------------------
Next ==
    \/ FillSend \/ FillEnd \/ Return
    \/ ListenerRead \/ ListenerLoses \/ LoopRead \/ LoopWakes
    \/ \E overdue \in SUBSET unacked : Sweep(overdue)
    \/ \E i \in Chunks : HandleAck(i) \/ Resend(i) \/ Receive(i)
    \/ LinkLost

Spec == Init /\ [][Next]_vars

(* send_all and a sweep go on, and an unacknowledged chunk is overdue some *)
(* time.                                                                   *)
SweepFairness ==
    /\ WF_vars(FillSend \/ FillEnd \/ Return)
    /\ \A i \in Chunks :
         /\ WF_vars(Resend(i))
         /\ SF_vars(\E overdue \in SUBSET unacked : i \in overdue /\ Sweep(overdue))

(* So do the readers, and what is written on a link that stays up arrives. *)
(* The link need not be lost, nor saving succeed, nor the message loop be  *)
(* woken.                                                                  *)
Fairness ==
    /\ SweepFairness
    /\ WF_vars(ListenerRead \/ ListenerLoses)
    /\ WF_vars(LoopRead)
    /\ \A i \in Chunks : WF_vars(Receive(i)) /\ SF_vars(HandleAck(i))

SweepSpec == Spec /\ SweepFairness
FairSpec == Spec /\ Fairness
-----------------------------------------------------------------------------
(* Properties *)

(* A chunk that counts as acknowledged is on the receiver's disk, however  *)
(* often it was written, acknowledged or overtaken by a sweep; what counts *)
(* as unacknowledged is not acknowledged, so that a sweep that starts now  *)
(* writes nothing in vain; and an acknowledgement under way is true.       *)
AckedIsStored ==
    /\ acked \subseteq stored
    /\ acked \cap unacked = {}
    /\ \A i \in Chunks : acks[i] > 0 => i \in stored

(* send_all returns with less than every chunk acknowledged only when it   *)
(* lost the connection, or shared it with a message loop.                  *)
CompleteOrBroken ==
    phase = "returned" => acked = Chunks \/ link = "lost" \/ loop # "absent"


(* A sender is a chunk transfer: its report tells the truth. *)
Transfer == INSTANCE ChunkTransfer WITH
    confirmed <- acked,
    report <- IF Running THEN "pending"
              ELSE IF phase = "returned" /\ acked = Chunks THEN "complete"
              ELSE "incomplete"

Implements == Transfer!Spec

(* "Wait until all chunks are ACKed or we exhaust retries", "the window    *)
(* slides forward to send the next chunk": send_all comes to its end.      *)
SendAllReturns == <>~Running
=============================================================================
