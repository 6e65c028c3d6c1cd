---------------------------- MODULE ChunkTransfer ----------------------------
(***************************************************************************)
(* What sending the chunks of a file to one peer promises, whatever way    *)
(* they travel: a chunk is confirmed only when the peer has stored it, and *)
(* the transfer is reported complete only when every chunk is confirmed.   *)
(***************************************************************************)
CONSTANT Chunks

VARIABLES stored, confirmed, report

vars == <<stored, confirmed, report>>

Init ==
    /\ stored = {}
    /\ confirmed = {}
    /\ report = "pending"

Store(i) ==
    /\ stored' = stored \cup {i}
    /\ UNCHANGED <<confirmed, report>>

Confirm(i) ==
    /\ report = "pending"
    /\ i \in stored
    /\ confirmed' = confirmed \cup {i}
    /\ UNCHANGED <<stored, report>>

Complete ==
    /\ report = "pending"
    /\ confirmed = Chunks
    /\ report' = "complete"
    /\ UNCHANGED <<stored, confirmed>>

GiveUp ==
    /\ report = "pending"
    /\ report' = "incomplete"
    /\ UNCHANGED <<stored, confirmed>>

Next ==
    \/ \E i \in Chunks : Store(i) \/ Confirm(i)
    \/ Complete
    \/ GiveUp

Spec == Init /\ [][Next]_vars
=============================================================================
