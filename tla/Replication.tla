----------------------------- MODULE Replication -----------------------------
(***************************************************************************)
(* Copies of chunks on other nodes, seen from the node Here that uploads:  *)
(*   replicate_chunks   backend/strategies/replication.py                  *)
(*   the heal cycle     backend/advanced/self_healing.py                   *)
(*   run_one_audit      backend/strategies/audit.py, /peer/audit           *)
(*   STORE_CHUNK        backend/node/node.py                               *)
(*   quota eviction     backend/advanced/garbage_collector.py, local_store *)
(*                                                                         *)
(* They share the routing table (backend/dht/routing.py), which lists for  *)
(* each chunk the nodes it was written to.  A link is what PeerLinks makes *)
(* of it: of a connection the peer dialled, the peer reads nothing.        *)
(* An action is what a coroutine or thread does between two awaits.        *)
(***************************************************************************)
EXTENDS Naturals, FiniteSets, ClosestPeers

CONSTANTS
    Peers,
    Here,
    Chunks,
    Dist,       \* Dist[c][p]: xor_distance of the hash of c and the id of p
    K,          \* the replication factor
    Quota,      \* max_storage_mb, in chunks
    OtherFiles, \* what database and output files take of it, in chunks
    MaxFaults,  \* how many faults happen (bound)
    Audited,    \* the peers an audit picks (bound)
    None

ASSUME DistAssumption ==
    /\ Dist \in [Chunks -> [Peers -> Nat]]
    /\ \A c \in Chunks : \A p, q \in Peers : Dist[c][p] = Dist[c][q] => p = q
ASSUME NamesAssumption ==
    IsFiniteSet(Peers) /\ Here \notin Peers /\ None \notin Chunks \cup Peers
ASSUME NumbersAssumption ==
    K \in Nat /\ Quota \in Nat /\ OtherFiles \in Nat /\ MaxFaults \in Nat

Nodes == Peers \cup {Here}

VARIABLES
    alive,      \* the peers the registry of Here takes for alive
    running,    \* the peers whose process runs
    link,       \* link[p]: the entry of p in the connections of Here
    wire,       \* <<p, c, b>>: a STORE_CHUNK of c that p will read, with
                \* the bytes b
    disk,       \* disk[n][c]: chunk file c of node n: "torn" if incomplete,
                \* "gone" if it was sent to n and is not there any more
    table,      \* table[c]: RoutingTable._table, {} for no entry
    job,        \* the replicate_chunks call under way
    heal,       \* the heal cycle under way
    audit,      \* the audit under way
    faults      \* how many faults have happened

vars == <<alive, running, link, wire, disk, table, job, heal, audit, faults>>
net == <<alive, running, link>>
tasks == <<job, heal, audit>>

Bytes == {"good", "torn"}

Job == [chunk: Chunks, todo: SUBSET Peers, sent: SUBSET Peers]
Heal == [peers: SUBSET Peers, left: SUBSET Chunks, holders: [Chunks -> SUBSET Nodes],
         chunk: Chunks, bytes: Bytes, todo: SUBSET Peers]
Audit == [peer: Peers, chunk: Chunks,
          own: Bytes]         \* what the expected proof was made of

TypeOK ==
    /\ alive \subseteq Peers /\ running \subseteq Peers
    /\ link \in [Peers -> {"none", "dialled", "accepted", "dead"}]
    /\ wire \subseteq Peers \X Chunks \X Bytes
    /\ disk \in [Nodes -> [Chunks -> {"none", "good", "torn", "gone"}]]
    /\ table \in [Chunks -> SUBSET Nodes]
    /\ \A c \in Chunks : table[c] # {} => Here \in table[c]
    /\ job \in Job \cup {None}
    /\ heal \in Heal \cup {None}
    /\ audit \in Audit \cup {None}
    /\ faults \in 0 .. MaxFaults

Init ==
    /\ alive = {} /\ running = Peers
    /\ link = [p \in Peers |-> "none"]
    /\ wire = {}
    /\ disk = [n \in Nodes |-> [c \in Chunks |-> "none"]]
    /\ table = [c \in Chunks |-> {}]
    /\ job = None /\ heal = None /\ audit = None
    /\ faults = 0

Held(n, c) == disk[n][c] \in Bytes
Files(n) == {c \in Chunks : Held(n, c)}

(* The copies ms, sent to or held by their nodes, come to nothing. *)
Lose(ms) ==
    [n \in Nodes |-> [c \in Chunks |->
        IF <<n, c>> \notin ms THEN disk[n][c] ELSE IF n = Here THEN "none" ELSE "gone"]]

-----------------------------------------------------------------------------
(* Peers and links, as far as they matter here *)

Fault == faults < MaxFaults /\ faults' = faults + 1

Appears(p) ==
    /\ p \in running \ alive
    /\ alive' = alive \cup {p}
    /\ UNCHANGED <<running, link, wire, disk, table, tasks, faults>>

Disappears(p) ==
    /\ p \in alive \ running
    /\ alive' = alive \ {p}
    /\ UNCHANGED <<running, link, wire, disk, table, tasks, faults>>

(* The connector of p dials Here; its entry replaces an older one. *)
PeerDials(p) ==
    /\ p \in running
    /\ link[p] \in {"none", "dead"}
    /\ link' = [link EXCEPT ![p] = "accepted"]
    /\ UNCHANGED <<alive, running, wire, disk, table, tasks, faults>>

(* The connector of Here dials a peer it has no entry for. *)
HereDials(p) ==
    /\ p \in alive \cap running
    /\ link[p] = "none"
    /\ link' = [link EXCEPT ![p] = "dialled"]
    /\ UNCHANGED <<alive, running, wire, disk, table, tasks, faults>>

ToPeer(p) == {m \in wire : m[1] = p}

(* The process of p ends, perhaps while it writes a chunk.  Here notices   *)
(* on a link that it reads, which is one it accepted.                      *)
PeerCrashes(p) ==
    /\ p \in running /\ Fault
    /\ running' = running \ {p}
    /\ link' = [link EXCEPT ![p] =
         CASE @ = "dialled" -> "dead" [] @ = "accepted" -> "none" [] OTHER -> @]
    /\ wire' = wire \ ToPeer(p)
    /\ LET after == Lose({<<p, m[2]>> : m \in {n \in ToPeer(p) : ~Held(p, n[2])}}) IN
       disk' = after \/ \E m \in ToPeer(p) : disk' = [after EXCEPT ![p][m[2]] = "torn"]
    /\ UNCHANGED <<alive, table, tasks>>

PeerRestarts(p) ==
    /\ p \notin running
    /\ running' = running \cup {p}
    /\ UNCHANGED <<alive, link, wire, disk, table, tasks, faults>>

(* What a failed save_chunk leaves of chunk c on node n: it truncates the  *)
(* file before it writes, or does not get to open it.                      *)
SaveFails(n, c) ==
    /\ Fault
    /\ disk' \in {[disk EXCEPT ![n][c] = "torn"],
                  IF Held(n, c) THEN disk ELSE Lose({<<n, c>>})}

(* Node._handle_message, STORE_CHUNK: saved, or an error that is logged. *)
Deliver(p, c, b) ==
    /\ p \in running /\ <<p, c, b>> \in wire
    /\ wire' = wire \ {<<p, c, b>>}
    /\ \/ disk' = [disk EXCEPT ![p][c] = b] /\ UNCHANGED faults
       \/ SaveFails(p, c)
    /\ UNCHANGED <<net, table, tasks>>

(* If p dialled at the same time, the entry of its link may replace ours.  *)
Crossed(entry) == IF entry = "none" THEN "accepted" ELSE entry

(* connections.get, or connect_to_peer; then conn.send.  The outcome is    *)
(* what the sender is told.  A connect may fail though the peer runs.      *)
(* What is written on a dead link is lost, with or without an error;       *)
(* what is written on an accepted one is not read.                         *)
Write(p, c, b, told) ==
    \/ /\ link[p] = "none"
       /\ told = FALSE
       /\ UNCHANGED <<link, wire, disk>>
    \/ /\ link[p] = "dialled" \/ (link[p] = "none" /\ p \in running)
       /\ told = TRUE
       /\ link' \in {[link EXCEPT ![p] = "dialled"], [link EXCEPT ![p] = Crossed(@)]}
       /\ wire' = wire \cup {<<p, c, b>>}
       /\ UNCHANGED disk
    \/ /\ link[p] \in {"accepted", "dead"}
       /\ told \/ link[p] = "dead"
       /\ disk' = IF Held(p, c) THEN disk ELSE Lose({<<p, c>>})
       /\ UNCHANGED <<link, wire>>

-----------------------------------------------------------------------------
(* replicate_chunks *)

(* Targets are sent to in the order of their distance. *)
Closest(c, S, k) == FindClosest(Dist[c], S, k)

(* _select_targets.  The XOR-closest are K peers or all there are, so that *)
(* no place is left for the best by score_peers.                           *)
Targets(c) == Closest(c, alive, K)

(* The chunk is saved and registered here; without peers that is all.  A   *)
(* save that fails ends the upload.                                        *)
(* (Bound: a chunk that is whole and in the table is not uploaded again.)  *)
StartChunk(c) ==
    /\ job = None
    /\ disk[Here][c] # "good" \/ table[c] = {}
    /\ \/ /\ disk' = [disk EXCEPT ![Here][c] = "good"]
          /\ job' = IF Targets(c) = {} THEN None
                    ELSE [chunk |-> c, todo |-> Targets(c), sent |-> {}]
          /\ UNCHANGED faults
       \/ SaveFails(Here, c) /\ UNCHANGED job
    /\ UNCHANGED <<net, wire, table, heal, audit>>

CountIfTold(set, p, told) == IF told THEN set \cup {p} ELSE set
CountAnyway(set, p, told) == set \cup {p}
Counted(set, p, told) == CountIfTold(set, p, told)

SendCopy(p) ==
    /\ job # None /\ p \in Closest(job.chunk, job.todo, 1)
    /\ \E told \in BOOLEAN :
         /\ Write(p, job.chunk, "good", told)
         /\ job' = [job EXCEPT !.todo = @ \ {p}, !.sent = Counted(@, p, told)]
    /\ UNCHANGED <<alive, running, table, heal, audit, faults>>

AssignChunk ==
    /\ job # None /\ job.todo = {}
    /\ table' = [table EXCEPT ![job.chunk] = {Here} \cup job.sent]
    /\ job' = None
    /\ UNCHANGED <<net, wire, disk, heal, audit, faults>>

-----------------------------------------------------------------------------
(* storage_monitor_loop *)

(* (A torn file counts as a whole one.) *)
Used(n) == Cardinality(Files(n)) + OtherFiles

(* Files go until 90% of the quota is reached, so that it rounds up. *)
Excess(n) == (10 * Used(n) - 9 * Quota + 9) \div 10

(* Above the quota, files go, oldest first, down to 90% of it or to the    *)
(* last chunk.  Which are the oldest depends on access times: any.         *)
Evictable(n) ==
    {old \in SUBSET Files(n) \ {{}} :
        /\ Used(n) > Quota
        /\ old = Files(n) \/ Cardinality(old) = Excess(n)
        /\ Cardinality(old) <= Excess(n)}

(* It runs in a thread: between any two statements of the coroutines.      *)
Evict(n) ==
    /\ n \in running \cup {Here}
    /\ \E old \in Evictable(n) : disk' = Lose({n} \X old)
    /\ UNCHANGED <<net, wire, table, tasks, faults>>

-----------------------------------------------------------------------------
(* _check_and_heal *)

AlivePeersHolding(c) == table[c] \cap alive
AliveHolders(c) == table[c] \cap (alive \cup {Here})

Lacking(c) == Cardinality(AliveHolders(c)) < K

UnderReplicated == {c \in Chunks : table[c] # {} /\ Lacking(c)}

Candidates(c, peers, holders) == peers \ holders[c]

Needed(c, holders) == K - Cardinality(holders[c])

(* On to the next chunk, or the end of the cycle.  Chunks that are not     *)
(* here, or that nobody is left to take, are skipped on the way; the table *)
(* is in no particular order.  The bytes that are here are read unchecked; *)
(* a chunk evicted between exists() and read_bytes() ends the whole cycle. *)
(* The peers of the cycle matter only as long as chunks are left.          *)
NextToHeal(left, peers, holders) ==
    LET healable == {c \in left : Held(Here, c) /\ Candidates(c, peers, holders) # {}} IN
    \/ /\ healable = {}
       /\ heal' = None
       /\ UNCHANGED disk
    \/ /\ \E c \in healable : \E skipped \in SUBSET (left \ healable) :
            LET rest == left \ (skipped \cup {c}) IN
            heal' = [left |-> rest, peers |-> IF rest = {} THEN {} ELSE peers,
                     holders |-> holders, chunk |-> c, bytes |-> disk[Here][c],
                     todo |-> Closest(c, Candidates(c, peers, holders), Needed(c, holders))]
       /\ UNCHANGED disk
    \/ \E old \in Evictable(Here) :
         /\ old \cap left # {}
         /\ disk' = Lose({Here} \X old)
         /\ heal' = None

(* The check of the whole table, in one step. *)
StartHeal ==
    /\ heal = None /\ UnderReplicated # {}
    /\ table' = [c \in Chunks |->
                   IF c \in UnderReplicated THEN AliveHolders(c) ELSE table[c]]
    /\ NextToHeal(UnderReplicated, alive, [c \in Chunks |-> AliveHolders(c)])
    /\ UNCHANGED <<net, wire, job, audit, faults>>

HealSend(p) ==
    /\ heal # None /\ p \in Closest(heal.chunk, heal.todo, 1)
    /\ \E told \in BOOLEAN :
         /\ Write(p, heal.chunk, heal.bytes, told)
         /\ heal' = [heal EXCEPT !.todo = @ \ {p},
                       !.holders[heal.chunk] = Counted(@, p, told)]
    /\ UNCHANGED <<alive, running, table, job, audit, faults>>

(* The list made at the start of the cycle, with what was added to it,     *)
(* whatever the table says by now.                                         *)
HealAssign ==
    /\ heal # None /\ heal.todo = {}
    /\ table' = [table EXCEPT ![heal.chunk] = heal.holders[heal.chunk]]
    /\ NextToHeal(heal.left, heal.peers, heal.holders)
    /\ UNCHANGED <<net, wire, job, audit, faults>>

-----------------------------------------------------------------------------
(* A download or preview here of a file kept as whole chunks fetches one   *)
(* that is missing from any peer that has a copy, and saves what it gets.  *)
Refetch(p, c) ==
    /\ ~Held(Here, c)
    /\ p \in alive \cap running /\ Held(p, c)
    /\ \/ disk' = [disk EXCEPT ![Here][c] = disk[p][c]] /\ UNCHANGED faults
       \/ SaveFails(Here, c)
    /\ UNCHANGED <<net, wire, table, tasks>>

-----------------------------------------------------------------------------
(* run_one_audit, and its responder *)

(* A peer that is alive, and a chunk that is here and that the table says  *)
(* is there.  The expected proof is made of the bytes here and of a nonce. *)
StartAudit(p, c) ==
    /\ audit = None
    /\ p \in alive \cap Audited /\ p \in table[c] /\ Held(Here, c)
    /\ audit' = [peer |-> p, chunk |-> c, own |-> disk[Here][c]]
    /\ UNCHANGED <<net, wire, disk, table, job, heal, faults>>

Answers == {"404", "500", "same", "differs"}

Result(answer) ==
    CASE answer \in {"404", "differs"} -> "fail"
      [] answer = "500" -> "error"
      [] answer = "same" -> "pass"

(* The proofs agree if the bytes do; two torn copies may be cut alike.     *)
Proof(own, there) ==
    IF own # there THEN {"differs"}
    ELSE IF own = "good" THEN {"same"} ELSE {"same", "differs"}

(* The peer has no such chunk, or proves what it has, or its read_bytes()  *)
(* raises, because the file was evicted since exists().  The verdict goes  *)
(* into the log; nothing here reads it, so that it is not kept.            *)
AnswerAudit(answer) ==
    /\ audit # None /\ audit.peer \in running
    /\ \/ /\ ~Held(audit.peer, audit.chunk) /\ answer = "404"
          /\ UNCHANGED disk
       \/ /\ Held(audit.peer, audit.chunk)
          /\ answer \in Proof(audit.own, disk[audit.peer][audit.chunk])
          /\ UNCHANGED disk
       \/ /\ answer = "500"
          /\ \E old \in Evictable(audit.peer) :
               /\ audit.chunk \in old
               /\ disk' = Lose({audit.peer} \X old)
    /\ audit' = None
    /\ UNCHANGED <<net, wire, table, job, heal, faults>>

(* A peer that cannot be reached leaves an "error" in the log. *)
AuditFails ==
    /\ audit # None /\ audit.peer \notin running
    /\ audit' = None
    /\ UNCHANGED <<net, wire, disk, table, job, heal, faults>>

-----------------------------------------------------------------------------
(* The process of Here ends and starts again: the table is gone.  (It is   *)
(* never saved; main.py starts with an empty one.)                         *)
HereRestarts ==
    /\ Fault
    /\ table' = [c \in Chunks |-> {}]
    /\ job' = None /\ heal' = None /\ audit' = None
    /\ link' = [p \in Peers |-> "none"]
    /\ UNCHANGED <<alive, running, wire, disk>>

UploadStep == AssignChunk \/ \E p \in Peers : SendCopy(p)
HealStep == StartHeal \/ HealAssign \/ \E p \in Peers : HealSend(p)
Receive(p) == \E c \in Chunks, b \in Bytes : Deliver(p, c, b)
Notice(p) == Appears(p) \/ Disappears(p)

(* What a peer does by itself as long as it runs, and what is seen of it.  *)
Routine(p) == Notice(p) \/ PeerDials(p) \/ Receive(p)

PeerStep(p) == Routine(p) \/ HereDials(p) \/ PeerCrashes(p) \/ PeerRestarts(p)

AuditStep ==
    \/ \E p \in Peers, c \in Chunks : StartAudit(p, c)
    \/ \E answer \in Answers : AnswerAudit(answer)
    \/ AuditFails

Next ==
    \/ \E p \in Peers : PeerStep(p)
    \/ \E c \in Chunks : StartChunk(c)
    \/ UploadStep \/ HealStep \/ AuditStep
    \/ \E n \in Nodes : Evict(n)
    \/ \E p \in Peers, c \in Chunks : Refetch(p, c)
    \/ HereRestarts

Spec == Init /\ [][Next]_vars

(* An upload goes on, the heal cycle is repeated and goes on, what is sent *)
(* on a link that is read arrives, peers that run announce themselves,     *)
(* those that do not are dropped, and peers dial whom they miss.  A        *)
(* crashed peer need not come back, nor an upload or an audit begin, nor   *)
(* need the connector of Here come before theirs.                          *)
Fairness ==
    /\ WF_vars(UploadStep) /\ WF_vars(HealStep)
    /\ \A p \in Peers : WF_vars(Routine(p))

FairSpec == Spec /\ Fairness
-----------------------------------------------------------------------------
(* Properties *)

(* A copy of c was written to p: it is on its disk or on the way, or it    *)
(* was there, or was lost in a crash or on a link that p does not read.    *)
WasSent(p, c) == disk[p][c] # "none" \/ \E b \in Bytes : <<p, c, b>> \in wire

(* A peer the table counts was written to.  No upload or heal cycle, in    *)
(* whatever order they write their lists, counts a copy nobody sent.       *)
CountedCopyWasSent ==
    \A c \in Chunks : \A p \in table[c] \ {Here} : WasSent(p, c)

(* "Not 'we asked about a chunk they were never supposed to have'"         *)
(* (strategies/audit.py:71-74): whatever heals, uploads, evictions and     *)
(* restarts happen between challenge and answer, a peer fails an audit     *)
(* only of a chunk it was sent, and with a whole copy only if the bytes    *)
(* here, to which it is compared, are not whole.  (That the peer deleted   *)
(* its copy, which the same comment concludes from a 404, does not follow: *)
(* the copy may be on the way or was written where it is not read.)        *)
AuditBlamesForCause ==
    [][\A answer \in Answers :
         AnswerAudit(answer) /\ Result(answer) = "fail" =>
           /\ WasSent(audit.peer, audit.chunk)
           /\ disk[audit.peer][audit.chunk] = "good" => audit.own = "torn"]_vars

(* Whenever a heal cycle comes to a chunk, the peers it chooses and the    *)
(* holders on its list make up the factor and no more, although the list   *)
(* was taken at the start and other chunks were sent since; only if no     *)
(* alive peer is left to choose they may be fewer.                         *)
HealPlansFactor ==
    [][heal' # None /\ (heal = None \/ heal'.left # heal.left) =>
         LET planned == heal'.holders[heal'.chunk] \cup heal'.todo
             known == IF heal = None THEN alive ELSE heal.peers
         IN  Cardinality(planned) = K \/ known \subseteq planned]_vars

GoodCopies(c) == {n \in alive \cup {Here} : disk[n][c] = "good"}

(* A peer that the table counts and that is alive has no whole copy: the   *)
(* save failed or was cut short, the copy was evicted, or was never read.  *)
(* Here does not learn of any of these; the heal cycle counts what was     *)
(* written (self_healing.py:111).                                          *)
LostUnnoticed(c) == \E p \in AlivePeersHolding(c) : disk[p][c] # "good"


=============================================================================
