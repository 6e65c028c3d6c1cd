-------------------------- MODULE ResumableDownload --------------------------
(***************************************************************************)
(* What the download manager promises of one file: it can be paused,       *)
(* resumed and recovered "without restarting from scratch" (the header of  *)
(* backend/api/download_manager.py).  Progress on the download that is     *)
(* shown is never taken back, except that a crash goes back to the record  *)
(* on disk; an unfinished download or record is continued and never        *)
(* replaced; and what is shown or recorded as finished misses nothing.     *)
(***************************************************************************)
CONSTANTS Chunks, None

VARIABLES
    left,       \* what the shown download still misses; None if there is none
    shown,      \* its status
    record      \* status and missing chunks on disk, or None

vars == <<left, shown, record>>

Fits(missing, status) == status \in {"finalizing", "completed"} => missing = {}

RecordFits == record' # None => Fits(record'.missing, record'.status)

Init == left = None /\ shown = None /\ record = None

(* A download not known in memory goes on from its record; from scratch    *)
(* only without one, or if the record misses nothing and yet did not end.  *)
Begin ==
    /\ left = None
    /\ record # None => record.status # "completed"
    /\ \/ record # None /\ left' = record.missing
       \/ record = None /\ left' = Chunks
       \/ record # None /\ record.missing = {} /\ left' = Chunks
    /\ shown' = "downloading"
    /\ RecordFits

(* Nothing is missing, but the merge failed or was stopped: from scratch *)
Again ==
    /\ left = {} /\ shown # "completed"
    /\ left' = Chunks
    /\ shown' = "downloading"
    /\ RecordFits

Go ==
    /\ left # None
    /\ left' = left \/ \E i \in left : left' = left \ {i}
    /\ shown' # None /\ Fits(left', shown')
    /\ RecordFits

Forget ==
    /\ left # None
    /\ left' = None /\ shown' = None
    /\ RecordFits

(* Records are written and removed by tasks of forgotten downloads, too. *)
Save ==
    /\ RecordFits
    /\ UNCHANGED <<left, shown>>

Crash ==
    /\ IF record = None THEN left' = None /\ shown' = None
       ELSE left' = record.missing /\ shown' = "paused"
    /\ UNCHANGED record

Next == Begin \/ Again \/ Go \/ Forget \/ Save \/ Crash

Spec == Init /\ [][Next]_vars
==============================================================================
