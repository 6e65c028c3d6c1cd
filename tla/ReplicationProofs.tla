--------------------------- MODULE ReplicationProofs ---------------------------
(***************************************************************************)
(* What holds of the routing table and the audit log for any number of     *)
(* peers and chunks, any distances, factor, quota and number of faults.    *)
(***************************************************************************)
EXTENDS Replication, ClosestPeersProofs, FiniteSetTheorems, TLAPS

(* WasSent after a step, for a p and c taken from before it. *)
SentAfter(p, c) == disk'[p][c] # "none" \/ \E b \in Bytes : <<p, c, b>> \in wire'

(* The chunks a heal cycle still writes to the table have their original   *)
(* in the list it took, as every entry of the table has.                   *)
HealKnowsOriginal ==
    heal # None => \A c \in heal.left \cup {heal.chunk} : Here \in heal.holders[c]

(* The lists an upload and a heal cycle will write count no other copies.  *)
ListsAreSent ==
    /\ job # None => \A p \in job.sent : WasSent(p, job.chunk)
    /\ heal # None => \A c \in Chunks : \A p \in heal.holders[c] \ {Here} : WasSent(p, c)

(* An audit asks a peer for a chunk that was written to it. *)
AuditedWasSent == audit # None => WasSent(audit.peer, audit.chunk)

Types == TypeOK /\ HealKnowsOriginal

IInv == Types /\ ListsAreSent /\ CountedCopyWasSent /\ AuditedWasSent

-----------------------------------------------------------------------------
(* Operators *)

LEMMA ClosestAreOf ==
    ASSUME NEW c, NEW S, NEW k
    PROVE  Closest(c, S, k) \subseteq S
BY DEF Closest, FindClosest

(* Losing copies keeps the types, and what was sent remains so. *)
LEMMA LoseKeeps ==
    ASSUME NEW ms, disk \in [Nodes -> [Chunks -> {"none", "good", "torn", "gone"}]]
    PROVE  /\ Lose(ms) \in [Nodes -> [Chunks -> {"none", "good", "torn", "gone"}]]
           /\ \A p \in Peers, c \in Chunks :
                Lose(ms)[p][c] = IF <<p, c>> \in ms THEN "gone" ELSE disk[p][c]
BY NamesAssumption DEF Lose, Nodes

(* A save that fails keeps the types and takes back nothing that was sent; *)
(* on a peer it leaves its trace.                                          *)
LEMMA FailKeeps ==
    ASSUME TypeOK, NEW n \in Nodes, NEW d \in Chunks, SaveFails(n, d)
    PROVE  /\ disk' \in [Nodes -> [Chunks -> {"none", "good", "torn", "gone"}]]
           /\ faults' \in 0 .. MaxFaults
           /\ \A p \in Peers, c \in Chunks : disk[p][c] # "none" => disk'[p][c] # "none"
           /\ n \in Peers => disk'[n][d] # "none"
<1> DEFINE Statuses == [Nodes -> [Chunks -> {"none", "good", "torn", "gone"}]]
<1>0. disk \in Statuses /\ Peers \subseteq Nodes
  BY DEF TypeOK, Nodes
<1>f. faults' \in 0 .. MaxFaults
  BY NumbersAssumption DEF SaveFails, Fault, TypeOK
<1>1. CASE disk' = [disk EXCEPT ![n][d] = "torn"]
  BY <1>0, <1>f, <1>1
<1>2. CASE Held(n, d) /\ disk' = disk
  BY <1>0, <1>f, <1>2 DEF Held, Bytes
<1>3. CASE disk' = Lose({<<n, d>>})
  <2>1. /\ Lose({<<n, d>>}) \in Statuses
        /\ \A p \in Peers, c \in Chunks :
             Lose({<<n, d>>})[p][c] = IF <<p, c>> \in {<<n, d>>} THEN "gone" ELSE disk[p][c]
    BY <1>0, LoseKeeps, Zenon
  <2> QED  BY <1>f, <1>3, <2>1
<1> QED  BY <1>1, <1>2, <1>3 DEF SaveFails

(* A send changes links, wire and disk within their types and unsends no   *)
(* copy; one the sender is told of was sent.                               *)
LEMMA WriteSends ==
    ASSUME TypeOK, NEW q \in Peers, NEW d \in Chunks, NEW b \in Bytes, NEW told \in BOOLEAN,
           Write(q, d, b, told)
    PROVE  /\ link' \in [Peers -> {"none", "dialled", "accepted", "dead"}]
           /\ wire' \subseteq Peers \X Chunks \X Bytes
           /\ disk' \in [Nodes -> [Chunks -> {"none", "good", "torn", "gone"}]]
           /\ \A p \in Peers, c \in Chunks : WasSent(p, c) => SentAfter(p, c)
           /\ told => SentAfter(q, d)
<1>1. CASE told = FALSE /\ UNCHANGED <<link, wire, disk>>
  BY <1>1 DEF TypeOK, WasSent, SentAfter
<1>2. CASE /\ link' \in {[link EXCEPT ![q] = "dialled"], [link EXCEPT ![q] = Crossed(@)]}
           /\ wire' = wire \cup {<<q, d, b>>} /\ UNCHANGED disk
  <2>1. link' \in [Peers -> {"none", "dialled", "accepted", "dead"}]
    <3>1. link \in [Peers -> {"none", "dialled", "accepted", "dead"}]
      BY DEF TypeOK
    <3>2. CASE link' = [link EXCEPT ![q] = "dialled"]
      BY <3>1, <3>2
    <3>3. CASE link' = [link EXCEPT ![q] = Crossed(@)]
      BY <3>1, <3>3 DEF Crossed
    <3> QED  BY <1>2, <3>2, <3>3
  <2>2. /\ wire' \subseteq Peers \X Chunks \X Bytes
        /\ disk' \in [Nodes -> [Chunks -> {"none", "good", "torn", "gone"}]]
    BY <1>2 DEF TypeOK
  <2>3. SentAfter(q, d) /\ \A p \in Peers, c \in Chunks : WasSent(p, c) => SentAfter(p, c)
    BY <1>2 DEF WasSent, SentAfter
  <2> QED  BY <2>1, <2>2, <2>3
<1>3. CASE /\ disk' = IF Held(q, d) THEN disk ELSE Lose({<<q, d>>})
           /\ UNCHANGED <<link, wire>>
  <2>1. CASE Held(q, d)
    BY <1>3, <2>1 DEF TypeOK, WasSent, SentAfter, Held, Bytes
  <2>2. CASE ~Held(q, d)
    <3>1. disk' = Lose({<<q, d>>}) /\ UNCHANGED <<link, wire>>
      BY <1>3, <2>2
    <3>2. disk \in [Nodes -> [Chunks -> {"none", "good", "torn", "gone"}]]
      BY DEF TypeOK
    <3>3. /\ Lose({<<q, d>>}) \in [Nodes -> [Chunks -> {"none", "good", "torn", "gone"}]]
          /\ \A p \in Peers, c \in Chunks :
               Lose({<<q, d>>})[p][c] = IF <<p, c>> \in {<<q, d>>} THEN "gone" ELSE disk[p][c]
      BY <3>2, LoseKeeps, Zenon
    <3> QED  BY <3>1, <3>2, <3>3 DEF TypeOK, WasSent, SentAfter
  <2> QED  BY <2>1, <2>2
<1> QED  BY <1>1, <1>2, <1>3 DEF Write

(* The next chunk of a heal cycle comes from what is left, and the list    *)
(* taken at its start is passed on.                                        *)
LEMMA HealGoesOn ==
    ASSUME NEW left \in SUBSET Chunks, NEW peers \in SUBSET Peers,
           NEW holders \in [Chunks -> SUBSET Nodes], NextToHeal(left, peers, holders)
    PROVE  /\ heal' \in Heal \cup {None}
           /\ heal' # None => /\ heal'.left \cup {heal'.chunk} \subseteq left
                              /\ heal'.holders = holders
<1>1. CASE heal' = None
  BY <1>1
<1>2. ASSUME NEW c \in left, NEW rest \in SUBSET left, Held(Here, c),
             heal' = [left |-> rest, peers |-> IF rest = {} THEN {} ELSE peers,
                      holders |-> holders, chunk |-> c, bytes |-> disk[Here][c],
                      todo |-> Closest(c, Candidates(c, peers, holders), Needed(c, holders))]
      PROVE  /\ heal' \in Heal
             /\ heal'.left \cup {heal'.chunk} \subseteq left
             /\ heal'.holders = holders
  <2>1. Closest(c, Candidates(c, peers, holders), Needed(c, holders)) \subseteq Peers
    BY ClosestAreOf DEF Candidates
  <2>2. disk[Here][c] \in Bytes
    BY <1>2 DEF Held
  <2>3. (IF rest = {} THEN {} ELSE peers) \in SUBSET Peers
    OBVIOUS
  <2> QED  BY <1>2, <2>1, <2>2, <2>3 DEF Heal
<1>3. \/ heal' = None
      \/ \E c \in left, rest \in SUBSET left :
           /\ Held(Here, c)
           /\ heal' = [left |-> rest, peers |-> IF rest = {} THEN {} ELSE peers,
                       holders |-> holders, chunk |-> c, bytes |-> disk[Here][c],
                       todo |-> Closest(c, Candidates(c, peers, holders), Needed(c, holders))]
  BY DEF NextToHeal
<1> QED  BY <1>1, <1>2, <1>3

(* What reading the next chunk may do to the disk: nothing, or it meets an *)
(* eviction here.                                                          *)
LEMMA HealReads ==
    ASSUME TypeOK, NEW left, NEW peers, NEW holders, NextToHeal(left, peers, holders)
    PROVE  /\ disk' \in [Nodes -> [Chunks -> {"none", "good", "torn", "gone"}]]
           /\ \A p \in Peers, c \in Chunks : disk[p][c] # "none" => disk'[p][c] # "none"
<1>1. CASE UNCHANGED disk
  BY <1>1 DEF TypeOK
<1>2. ASSUME NEW old, disk' = Lose({Here} \X old)
      PROVE  /\ disk' \in [Nodes -> [Chunks -> {"none", "good", "torn", "gone"}]]
             /\ \A p \in Peers, c \in Chunks : disk[p][c] # "none" => disk'[p][c] # "none"
  <2>1. disk \in [Nodes -> [Chunks -> {"none", "good", "torn", "gone"}]]
    BY DEF TypeOK
  <2> DEFINE ms == {Here} \X old
  <2>2. disk' = Lose(ms)
    BY <1>2
  <2> HIDE DEF ms
  <2>3. /\ Lose(ms) \in [Nodes -> [Chunks -> {"none", "good", "torn", "gone"}]]
        /\ \A p \in Peers, c \in Chunks :
             Lose(ms)[p][c] = IF <<p, c>> \in ms THEN "gone" ELSE disk[p][c]
    BY <2>1, LoseKeeps, Zenon
  <2> QED  BY <2>2, <2>3
<1> QED  BY <1>1, <1>2 DEF NextToHeal

-----------------------------------------------------------------------------
(* No step takes back that a copy was written to a peer: a crash, a failed *)
(* save and an eviction leave their trace.                                 *)
LEMMA SentStays ==
    ASSUME TypeOK, [Next]_vars, NEW p \in Peers, NEW c \in Chunks, WasSent(p, c)
    PROVE  SentAfter(p, c)
<1> DEFINE Statuses == [Nodes -> [Chunks -> {"none", "good", "torn", "gone"}]]
<1>0. disk \in Statuses /\ p \in Nodes /\ p # Here
  BY NamesAssumption DEF TypeOK, Nodes
<1>l. ASSUME NEW ms, <<p, c>> \in ms \/ disk[p][c] # "none"
      PROVE  Lose(ms)[p][c] # "none"
  BY <1>0, <1>l DEF Lose
<1>d. ASSUME wire' = wire, disk[p][c] # "none" => disk'[p][c] # "none"
      PROVE  SentAfter(p, c)
  BY <1>d DEF WasSent, SentAfter
<1>1. CASE UNCHANGED <<wire, disk>>
  BY <1>1, <1>d
<1>2. ASSUME NEW q \in Peers, PeerCrashes(q)
      PROVE  SentAfter(p, c)
  <2> DEFINE lost == {<<q, m[2]>> : m \in {n \in ToPeer(q) : ~Held(q, n[2])}}
             after == Lose(lost)
  <2>0. after \in Statuses
    BY <1>0, LoseKeeps
  <2>1. disk' = after \/ \E m \in ToPeer(q) : disk' = [after EXCEPT ![q][m[2]] = "torn"]
    BY <1>2 DEF PeerCrashes
  <2>2. <<p, c>> \in lost \/ disk[p][c] # "none" => disk'[p][c] # "none"
    <3>1. <<p, c>> \in lost \/ disk[p][c] # "none" => after[p][c] # "none"
      BY <1>l
    <3> HIDE DEF after
    <3>2. after[p][c] # "none" => disk'[p][c] # "none"
      BY <1>0, <2>0, <2>1
    <3> QED  BY <3>1, <3>2
  <2>3. CASE disk[p][c] # "none"
    BY <2>2, <2>3 DEF SentAfter
  <2>4. CASE disk[p][c] = "none"
    <3>1. PICK b \in Bytes : <<p, c, b>> \in wire
      BY <2>4 DEF WasSent
    <3>2. CASE p # q
      BY <1>2, <3>1, <3>2 DEF PeerCrashes, ToPeer, SentAfter
    <3>3. CASE p = q
      <4>1. <<p, c, b>> \in ToPeer(q)
        BY <3>1, <3>3 DEF ToPeer
      <4>2. ~Held(q, c)
        BY <2>4, <3>3 DEF Held, Bytes
      <4>3. <<p, c>> \in lost
        BY <3>3, <4>1, <4>2
      <4> QED  BY <2>2, <4>3 DEF SentAfter
    <3> QED  BY <3>2, <3>3
  <2> QED  BY <2>3, <2>4
<1>3. ASSUME NEW q \in Peers, NEW d \in Chunks, NEW b \in Bytes, Deliver(q, d, b)
      PROVE  SentAfter(p, c)
  <2>1. disk[p][c] # "none" => disk'[p][c] # "none"
    <3>1. CASE disk' = [disk EXCEPT ![q][d] = b]
      BY <1>0, <3>1 DEF Bytes
    <3>2. CASE SaveFails(q, d)
      BY <3>2, FailKeeps DEF Nodes
    <3> QED  BY <1>3, <3>1, <3>2 DEF Deliver
  <2>2. p = q /\ c = d => disk'[p][c] # "none"
    <3>1. CASE disk' = [disk EXCEPT ![q][d] = b]
      BY <1>0, <3>1 DEF Bytes
    <3>2. CASE SaveFails(q, d)
      BY <3>2, FailKeeps DEF Nodes
    <3> QED  BY <1>3, <3>1, <3>2 DEF Deliver
  <2>3. wire' = wire \ {<<q, d, b>>}
    BY <1>3 DEF Deliver
  <2> QED  BY <2>1, <2>2, <2>3 DEF WasSent, SentAfter
<1>4. ASSUME NEW d \in Chunks, StartChunk(d)
      PROVE  SentAfter(p, c)
  <2>1. CASE disk' = [disk EXCEPT ![Here][d] = "good"]
    BY <1>0, <1>4, <1>d, <2>1 DEF StartChunk
  <2>2. CASE SaveFails(Here, d)
    BY <1>4, <1>d, <2>2, FailKeeps DEF StartChunk, Nodes
  <2> QED  BY <1>4, <2>1, <2>2 DEF StartChunk
<1>5. ASSUME NEW q \in Peers, SendCopy(q)
      PROVE  SentAfter(p, c)
  <2>1. job \in Job
    BY <1>5 DEF SendCopy, TypeOK
  <2>2. job.chunk \in Chunks
    BY <2>1 DEF Job
  <2> QED  BY <1>5, <2>2, WriteSends DEF SendCopy, Bytes
<1>6. ASSUME NEW q \in Peers, HealSend(q)
      PROVE  SentAfter(p, c)
  <2>1. heal \in Heal
    BY <1>6 DEF HealSend, TypeOK
  <2>2. heal.chunk \in Chunks /\ heal.bytes \in Bytes
    BY <2>1 DEF Heal
  <2> QED  BY <1>6, <2>2, WriteSends DEF HealSend
<1>7. ASSUME NEW n, NEW old, disk' = Lose({n} \X old), wire' = wire
      PROVE  SentAfter(p, c)
  BY <1>7, <1>d, <1>l
<1>8. CASE StartHeal \/ HealAssign
  BY <1>8, <1>d, HealReads DEF StartHeal, HealAssign
<1>9. ASSUME NEW q \in Peers, NEW d \in Chunks, Refetch(q, d)
      PROVE  SentAfter(p, c)
  <2>1. CASE disk' = [disk EXCEPT ![Here][d] = disk[q][d]]
    BY <1>0, <1>9, <1>d, <2>1 DEF Refetch
  <2>2. CASE SaveFails(Here, d)
    BY <1>9, <1>d, <2>2, FailKeeps DEF Refetch, Nodes
  <2> QED  BY <1>9, <2>1, <2>2 DEF Refetch
<1>10. CASE (\E n \in Nodes : Evict(n)) \/ \E answer \in Answers : AnswerAudit(answer)
  BY <1>1, <1>7, <1>10 DEF Evict, AnswerAudit
<1>11. ASSUME \/ \E q \in Peers : Notice(q) \/ PeerDials(q) \/ HereDials(q) \/ PeerRestarts(q)
              \/ AssignChunk \/ AuditFails \/ HereRestarts \/ UNCHANGED vars
              \/ \E q \in Peers, d \in Chunks : StartAudit(q, d)
       PROVE  UNCHANGED <<wire, disk>>
  BY <1>11 DEF Notice, Appears, Disappears, PeerDials, HereDials, PeerRestarts, AssignChunk,
     StartAudit, AuditFails, HereRestarts, vars
<1> QED
  BY <1>1, <1>2, <1>3, <1>4, <1>5, <1>6, <1>8, <1>9, <1>10, <1>11
  DEF Next, PeerStep, Routine, Receive, UploadStep, HealStep, AuditStep

-----------------------------------------------------------------------------
(* Types *)

LEMMA InitTypes == Init => Types
BY NumbersAssumption DEF Init, Types, TypeOK, HealKnowsOriginal, Nodes

LEMMA TypesStay ==
    ASSUME Types, [Next]_vars
    PROVE  Types'
<1> DEFINE Statuses == [Nodes -> [Chunks -> {"none", "good", "torn", "gone"}]]
<1> USE NumbersAssumption
<1>0. TypeOK /\ HealKnowsOriginal /\ disk \in Statuses
  BY DEF Types, TypeOK
<1>l. \A ms : Lose(ms) \in Statuses
  BY <1>0 DEF Lose
<1>f. Fault => faults' \in 0 .. MaxFaults
  BY <1>0 DEF Fault, TypeOK
<1>1. ASSUME NEW q \in Peers,
             Notice(q) \/ PeerDials(q) \/ HereDials(q) \/ PeerRestarts(q)
      PROVE  Types'
  BY <1>0, <1>1 DEF Notice, Appears, Disappears, PeerDials, HereDials, PeerRestarts, tasks, net, Types, TypeOK,
     HealKnowsOriginal
<1>2. ASSUME NEW q \in Peers, PeerCrashes(q)
      PROVE  Types'
  <2> DEFINE after == Lose({<<q, m[2]>> : m \in {n \in ToPeer(q) : ~Held(q, n[2])}})
  <2>1. after \in Statuses
    BY <1>l
  <2>2. disk' = after \/ \E m \in ToPeer(q) : disk' = [after EXCEPT ![q][m[2]] = "torn"]
    BY <1>2 DEF PeerCrashes
  <2>3. disk' \in Statuses
    BY <2>1, <2>2
  <2>4. /\ wire' \subseteq Peers \X Chunks \X Bytes /\ running' \subseteq Peers
        /\ UNCHANGED <<alive, table, job, heal, audit>> /\ faults' \in 0 .. MaxFaults
    BY <1>0, <1>2, <1>f DEF PeerCrashes, TypeOK, tasks
  <2>5. link' \in [Peers -> {"none", "dialled", "accepted", "dead"}]
    BY <1>0, <1>2 DEF PeerCrashes, TypeOK
  <2> QED  BY <1>0, <2>3, <2>4, <2>5 DEF Types, TypeOK, HealKnowsOriginal
<1>3. ASSUME NEW q \in Peers, NEW d \in Chunks, NEW b \in Bytes, Deliver(q, d, b)
      PROVE  Types'
  <2>1. disk' \in Statuses /\ faults' \in 0 .. MaxFaults
    <3>1. CASE disk' = [disk EXCEPT ![q][d] = b] /\ UNCHANGED faults
      BY <1>0, <3>1 DEF TypeOK, Bytes
    <3>2. CASE SaveFails(q, d)
      BY <1>0, <3>2, FailKeeps DEF Nodes
    <3> QED  BY <1>3, <3>1, <3>2 DEF Deliver
  <2> QED  BY <1>0, <1>3, <2>1 DEF Deliver, net, tasks, Types, TypeOK, HealKnowsOriginal
<1>4. ASSUME NEW d \in Chunks, StartChunk(d)
      PROVE  Types'
  <2>1. Targets(d) \subseteq Peers
    BY <1>0, ClosestAreOf DEF Targets, TypeOK
  <2>2. job' \in Job \cup {None}
    BY <1>0, <1>4, <2>1 DEF StartChunk, Job, TypeOK
  <2>3. disk' \in Statuses /\ faults' \in 0 .. MaxFaults
    <3>1. CASE disk' = [disk EXCEPT ![Here][d] = "good"] /\ UNCHANGED faults
      BY <1>0, <3>1 DEF TypeOK
    <3>2. CASE SaveFails(Here, d)
      BY <1>0, <3>2, FailKeeps DEF Nodes
    <3> QED  BY <1>4, <3>1, <3>2 DEF StartChunk
  <2> QED  BY <1>0, <1>4, <2>2, <2>3 DEF StartChunk, net, Types, TypeOK, HealKnowsOriginal
<1>5. ASSUME NEW q \in Peers, SendCopy(q)
      PROVE  Types'
  <2>1. job \in Job /\ job.chunk \in Chunks
    BY <1>0, <1>5 DEF SendCopy, TypeOK, Job
  <2>2. PICK told \in BOOLEAN :
          /\ Write(q, job.chunk, "good", told)
          /\ job' = [job EXCEPT !.todo = @ \ {q}, !.sent = Counted(@, q, told)]
    BY <1>5 DEF SendCopy
  <2>3. job' \in Job
    BY <2>1, <2>2 DEF Job, Counted, CountIfTold
  <2>4. /\ link' \in [Peers -> {"none", "dialled", "accepted", "dead"}]
        /\ wire' \subseteq Peers \X Chunks \X Bytes /\ disk' \in Statuses
    BY <1>0, <2>1, <2>2, WriteSends DEF Bytes
  <2> QED  BY <1>0, <1>5, <2>3, <2>4 DEF SendCopy, Types, TypeOK, HealKnowsOriginal
<1>6. ASSUME AssignChunk
      PROVE  Types'
  <2>1. job \in Job
    BY <1>0, <1>6 DEF AssignChunk, TypeOK
  <2> QED  BY <1>0, <1>6, <2>1 DEF AssignChunk, net, Job, Nodes, Types, TypeOK, HealKnowsOriginal
<1>7. CASE StartHeal
  <2> DEFINE lists == [c \in Chunks |-> AliveHolders(c)]
  <2>1. lists \in [Chunks -> SUBSET Nodes] /\ UnderReplicated \subseteq Chunks
    BY <1>0 DEF AliveHolders, TypeOK, UnderReplicated
  <2>2. \A c \in UnderReplicated : Here \in AliveHolders(c)
    BY <1>0 DEF AliveHolders, TypeOK, UnderReplicated
  <2>3. /\ heal' \in Heal \cup {None}
        /\ heal' # None => /\ heal'.left \cup {heal'.chunk} \subseteq UnderReplicated
                           /\ heal'.holders = lists
    BY <1>0, <1>7, <2>1, HealGoesOn DEF StartHeal, TypeOK
  <2>4. HealKnowsOriginal'
    BY <2>1, <2>2, <2>3 DEF HealKnowsOriginal
  <2>5. /\ table' \in [Chunks -> SUBSET Nodes]
        /\ \A c \in Chunks : table'[c] # {} => Here \in table'[c]
    BY <1>0, <1>7, <2>1, <2>2 DEF StartHeal, TypeOK
  <2>6. disk' \in Statuses
    BY <1>0, <1>7, HealReads DEF StartHeal
  <2> QED  BY <1>0, <1>7, <2>3, <2>4, <2>5, <2>6 DEF StartHeal, net, Types, TypeOK
<1>8. ASSUME NEW q \in Peers, HealSend(q)
      PROVE  Types'
  <2>1. heal \in Heal /\ heal.chunk \in Chunks /\ heal.bytes \in Bytes
    BY <1>0, <1>8 DEF HealSend, TypeOK, Heal
  <2>2. PICK told \in BOOLEAN :
          /\ Write(q, heal.chunk, heal.bytes, told)
          /\ heal' = [heal EXCEPT !.todo = @ \ {q},
                        !.holders[heal.chunk] = Counted(@, q, told)]
    BY <1>8 DEF HealSend
  <2>3. heal' \in Heal
    BY <2>1, <2>2 DEF Heal, Counted, CountIfTold, Nodes
  <2>4. HealKnowsOriginal'
    BY <1>0, <1>8, <2>1, <2>2 DEF HealSend, HealKnowsOriginal, Heal, Counted, CountIfTold
  <2>5. /\ link' \in [Peers -> {"none", "dialled", "accepted", "dead"}]
        /\ wire' \subseteq Peers \X Chunks \X Bytes /\ disk' \in Statuses
    BY <1>0, <2>1, <2>2, WriteSends
  <2> QED  BY <1>0, <1>8, <2>3, <2>4, <2>5 DEF HealSend, Types, TypeOK
<1>9. CASE HealAssign
  <2>1. heal \in Heal
    BY <1>0, <1>9 DEF HealAssign, TypeOK
  <2>2. /\ heal.left \in SUBSET Chunks /\ heal.peers \in SUBSET Peers
        /\ heal.holders \in [Chunks -> SUBSET Nodes] /\ heal.chunk \in Chunks
    BY <2>1 DEF Heal
  <2>3. /\ heal' \in Heal \cup {None}
        /\ heal' # None => /\ heal'.left \cup {heal'.chunk} \subseteq heal.left
                           /\ heal'.holders = heal.holders
    BY <1>9, <2>2, HealGoesOn DEF HealAssign
  <2>4. Here \in heal.holders[heal.chunk] /\ HealKnowsOriginal'
    BY <1>0, <1>9, <2>3 DEF HealAssign, HealKnowsOriginal
  <2>5. /\ table' \in [Chunks -> SUBSET Nodes]
        /\ \A c \in Chunks : table'[c] # {} => Here \in table'[c]
    BY <1>0, <1>9, <2>2, <2>4 DEF HealAssign, TypeOK
  <2>6. disk' \in Statuses
    BY <1>0, <1>9, HealReads DEF HealAssign
  <2> QED  BY <1>0, <1>9, <2>3, <2>4, <2>5, <2>6 DEF HealAssign, net, Types, TypeOK
<1>10. ASSUME NEW n \in Nodes, Evict(n)
       PROVE  Types'
  <2>1. disk' \in Statuses
    BY <1>10, <1>l DEF Evict
  <2> QED  BY <1>0, <1>10, <2>1 DEF Evict, net, tasks, Types, TypeOK, HealKnowsOriginal
<1>11. ASSUME NEW q \in Peers, NEW d \in Chunks, StartAudit(q, d)
       PROVE  Types'
  <2>1. audit' \in Audit
    BY <1>11 DEF StartAudit, Audit, Held
  <2> QED  BY <1>0, <1>11, <2>1 DEF StartAudit, net, Types, TypeOK, HealKnowsOriginal
<1>12. ASSUME NEW answer \in Answers, AnswerAudit(answer)
       PROVE  Types'
  <2>1. disk' \in Statuses
    BY <1>0, <1>l, <1>12 DEF AnswerAudit
  <2> QED  BY <1>0, <1>12, <2>1 DEF AnswerAudit, net, Types, TypeOK, HealKnowsOriginal
<1>13. CASE AuditFails
  BY <1>0, <1>13 DEF AuditFails, net, Types, TypeOK, HealKnowsOriginal
<1>14. ASSUME NEW q \in Peers, NEW d \in Chunks, Refetch(q, d)
       PROVE  Types'
  <2>1. disk' \in Statuses /\ faults' \in 0 .. MaxFaults
    <3>1. CASE disk' = [disk EXCEPT ![Here][d] = disk[q][d]] /\ UNCHANGED faults
      BY <1>0, <3>1 DEF TypeOK, Nodes
    <3>2. CASE SaveFails(Here, d)
      BY <1>0, <3>2, FailKeeps DEF Nodes
    <3> QED  BY <1>14, <3>1, <3>2 DEF Refetch
  <2> QED  BY <1>0, <1>14, <2>1 DEF Refetch, net, tasks, Types, TypeOK, HealKnowsOriginal
<1>15. CASE HereRestarts
  BY <1>0, <1>15, <1>f DEF HereRestarts, Types, TypeOK, HealKnowsOriginal
<1>16. CASE UNCHANGED vars
  BY <1>0, <1>16 DEF vars, Types, TypeOK, HealKnowsOriginal
<1> QED
  BY <1>1, <1>2, <1>3, <1>4, <1>5, <1>6, <1>7, <1>8, <1>9, <1>10, <1>11, <1>12, <1>13, <1>14,
     <1>15, <1>16
  DEF Next, PeerStep, Routine, Receive, UploadStep, HealStep, AuditStep

-----------------------------------------------------------------------------
(* Invariants *)

LEMMA InitIInv == Init => IInv
<1> SUFFICES ASSUME Init PROVE IInv
  OBVIOUS
<1>1. Types
  BY InitTypes
<1>2. ListsAreSent /\ CountedCopyWasSent /\ AuditedWasSent
  BY DEF Init, ListsAreSent, CountedCopyWasSent, AuditedWasSent
<1> QED  BY <1>1, <1>2 DEF IInv

(* What a list or the table counts was sent: it is counted after the write *)
(* of which the sender was told, or taken over from the other list.        *)
LEMMA CountsStay ==
    ASSUME Types, ListsAreSent, CountedCopyWasSent, [Next]_vars
    PROVE  ListsAreSent' /\ CountedCopyWasSent'
<1> DEFINE TableSent == \A c \in Chunks : \A p \in table[c] \ {Here} : WasSent(p, c)
<1>0. TypeOK
  BY DEF Types
<1>s. \A p \in Peers, c \in Chunks : WasSent(p, c) => SentAfter(p, c)
  BY <1>0, SentStays
<1>t. TableSent
  BY DEF CountedCopyWasSent, WasSent, SentAfter
<1>o. Nodes \ {Here} \subseteq Peers
  BY DEF Nodes
<1>j. job # None => /\ job \in Job /\ job.sent \subseteq Peers /\ job.chunk \in Chunks
                    /\ \A p \in job.sent : SentAfter(p, job.chunk)
  <2> SUFFICES ASSUME job # None
               PROVE  /\ job \in Job /\ job.sent \subseteq Peers /\ job.chunk \in Chunks
                      /\ \A p \in job.sent : SentAfter(p, job.chunk)
    OBVIOUS
  <2>1. job \in Job /\ job.sent \subseteq Peers /\ job.chunk \in Chunks
    BY <1>0 DEF TypeOK, Job
  <2> QED  BY <1>s, <2>1 DEF ListsAreSent
<1>h. heal # None => /\ heal \in Heal /\ heal.chunk \in Chunks
                     /\ \A c \in Chunks : \A p \in heal.holders[c] \ {Here} : SentAfter(p, c)
  <2> SUFFICES ASSUME heal # None
               PROVE  /\ heal \in Heal /\ heal.chunk \in Chunks
                      /\ \A c \in Chunks : \A p \in heal.holders[c] \ {Here} : SentAfter(p, c)
    OBVIOUS
  <2>1. heal \in Heal /\ heal.chunk \in Chunks /\ heal.holders \in [Chunks -> SUBSET Nodes]
    BY <1>0 DEF TypeOK, Heal
  <2> QED  BY <1>s, <1>o, <2>1 DEF ListsAreSent
<1>a. \A c \in Chunks : \A p \in table[c] \ {Here} : SentAfter(p, c)
  BY <1>0, <1>s, <1>t, <1>o DEF TypeOK
<1>1. ASSUME table' = table
      PROVE  CountedCopyWasSent'
  BY <1>1, <1>a DEF CountedCopyWasSent, WasSent, SentAfter
<1>2. ASSUME job' = None \/ job' = job, heal' = None \/ heal' = heal
      PROVE  ListsAreSent'
  BY <1>2, <1>j, <1>h DEF ListsAreSent, WasSent, SentAfter
<1>3. ASSUME NEW d \in Chunks, StartChunk(d)
      PROVE  ListsAreSent' /\ CountedCopyWasSent'
  <2>1. job' = None \/ job'.sent = {}
    BY <1>3 DEF StartChunk
  <2>2. heal' = heal /\ table' = table
    BY <1>3 DEF StartChunk
  <2> QED  BY <1>1, <1>h, <2>1, <2>2 DEF ListsAreSent, WasSent, SentAfter
<1>4. ASSUME NEW q \in Peers, SendCopy(q)
      PROVE  ListsAreSent' /\ CountedCopyWasSent'
  <2>1. job # None /\ heal' = heal /\ table' = table
    BY <1>4 DEF SendCopy
  <2>2. PICK told \in BOOLEAN :
          /\ Write(q, job.chunk, "good", told)
          /\ job' = [job EXCEPT !.todo = @ \ {q}, !.sent = Counted(@, q, told)]
    BY <1>4 DEF SendCopy
  <2>3. told => SentAfter(q, job.chunk)
    BY <1>0, <1>j, <2>1, <2>2, WriteSends DEF Bytes
  <2>4. /\ job'.chunk = job.chunk
        /\ job'.sent = IF told THEN job.sent \cup {q} ELSE job.sent
    BY <1>j, <2>1, <2>2 DEF Job, Counted, CountIfTold
  <2>5. \A p \in job'.sent : SentAfter(p, job.chunk)
    BY <1>j, <2>1, <2>3, <2>4
  <2> QED  BY <1>1, <1>h, <2>1, <2>4, <2>5 DEF ListsAreSent, WasSent, SentAfter
<1>5. ASSUME AssignChunk
      PROVE  ListsAreSent' /\ CountedCopyWasSent'
  <2>1. /\ job # None /\ job' = None /\ heal' = heal
        /\ table' = [table EXCEPT ![job.chunk] = {Here} \cup job.sent]
    BY <1>5 DEF AssignChunk
  <2>2. \A c \in Chunks : \A p \in table'[c] \ {Here} : SentAfter(p, c)
    BY <1>0, <1>a, <1>j, <2>1 DEF TypeOK
  <2> QED  BY <1>2, <2>1, <2>2 DEF CountedCopyWasSent, WasSent, SentAfter
<1>6. CASE StartHeal
  <2>1. /\ job' = job
        /\ table' = [c \in Chunks |-> IF c \in UnderReplicated THEN AliveHolders(c) ELSE table[c]]
    BY <1>6 DEF StartHeal
  <2>2. \A c \in Chunks : AliveHolders(c) \subseteq table[c]
    BY DEF AliveHolders
  <2>3. CountedCopyWasSent'
    BY <1>a, <2>1, <2>2 DEF CountedCopyWasSent, WasSent, SentAfter
  <2>h. /\ UnderReplicated \in SUBSET Chunks /\ alive \in SUBSET Peers
        /\ [c \in Chunks |-> AliveHolders(c)] \in [Chunks -> SUBSET Nodes]
    BY <1>0 DEF UnderReplicated, AliveHolders, TypeOK
  <2>4. heal' # None => heal'.holders = [c \in Chunks |-> AliveHolders(c)]
    BY <1>6, <2>h, HealGoesOn DEF StartHeal
  <2> QED  BY <1>j, <1>a, <2>1, <2>2, <2>3, <2>4 DEF ListsAreSent, WasSent, SentAfter
<1>7. ASSUME NEW q \in Peers, HealSend(q)
      PROVE  ListsAreSent' /\ CountedCopyWasSent'
  <2>1. heal # None /\ job' = job /\ table' = table
    BY <1>7 DEF HealSend
  <2>2. PICK told \in BOOLEAN :
          /\ Write(q, heal.chunk, heal.bytes, told)
          /\ heal' = [heal EXCEPT !.todo = @ \ {q},
                        !.holders[heal.chunk] = Counted(@, q, told)]
    BY <1>7 DEF HealSend
  <2>h. heal.chunk \in Chunks /\ heal.bytes \in Bytes
    BY <1>0, <2>1 DEF TypeOK, Heal
  <2>3. told => SentAfter(q, heal.chunk)
    BY <1>0, <2>h, <2>2, WriteSends
  <2>4. heal'.holders = [heal.holders EXCEPT ![heal.chunk] = Counted(@, q, told)]
    BY <1>h, <2>1, <2>2 DEF Heal
  <2>5. \A c \in Chunks : \A p \in heal'.holders[c] \ {Here} : SentAfter(p, c)
    BY <1>h, <2>1, <2>3, <2>4 DEF Heal, Counted, CountIfTold
  <2> QED  BY <1>1, <1>j, <2>1, <2>5 DEF ListsAreSent, WasSent, SentAfter
<1>8. CASE HealAssign
  <2>1. /\ heal # None /\ job' = job
        /\ table' = [table EXCEPT ![heal.chunk] = heal.holders[heal.chunk]]
    BY <1>8 DEF HealAssign
  <2>2. \A c \in Chunks : \A p \in table'[c] \ {Here} : SentAfter(p, c)
    BY <1>0, <1>a, <1>h, <2>1 DEF TypeOK
  <2>h. /\ heal.left \in SUBSET Chunks /\ heal.peers \in SUBSET Peers
        /\ heal.holders \in [Chunks -> SUBSET Nodes]
    BY <1>0, <2>1 DEF TypeOK, Heal
  <2>3. heal' # None => heal'.holders = heal.holders
    BY <1>8, <2>h, HealGoesOn DEF HealAssign
  <2> QED  BY <1>j, <1>h, <2>1, <2>2, <2>3 DEF ListsAreSent, CountedCopyWasSent, WasSent, SentAfter
<1>9. CASE HereRestarts
  BY <1>2, <1>9 DEF HereRestarts, CountedCopyWasSent
<1>10. CASE \/ \E q \in Peers : PeerStep(q)
            \/ \E n \in Nodes : Evict(n)
            \/ \E q \in Peers, d \in Chunks : Refetch(q, d)
            \/ AuditStep
            \/ UNCHANGED vars
  <2>1. UNCHANGED <<job, heal, table>>
    BY <1>10 DEF PeerStep, Routine, Notice, Appears, Disappears, PeerDials, HereDials, Receive,
       PeerCrashes, PeerRestarts, Deliver, Evict, Refetch, AuditStep, StartAudit, AnswerAudit,
       AuditFails, tasks, vars
  <2> QED  BY <1>1, <1>2, <2>1
<1> QED
  BY <1>3, <1>4, <1>5, <1>6, <1>7, <1>8, <1>9, <1>10 DEF Next, UploadStep, HealStep

(* An audit begins with an entry of the table, and what was sent stays so. *)
LEMMA AuditsStay ==
    ASSUME Types, CountedCopyWasSent, AuditedWasSent, [Next]_vars
    PROVE  AuditedWasSent'
<1>0. TypeOK
  BY DEF Types
<1>s. \A p \in Peers, c \in Chunks : WasSent(p, c) => SentAfter(p, c)
  BY <1>0, SentStays
<1>1. CASE audit' = audit
  <2> SUFFICES ASSUME audit # None PROVE SentAfter(audit.peer, audit.chunk)
    BY <1>1 DEF AuditedWasSent, WasSent, SentAfter
  <2>1. audit.peer \in Peers /\ audit.chunk \in Chunks
    BY <1>0 DEF TypeOK, Audit
  <2> QED  BY <1>s, <2>1 DEF AuditedWasSent
<1>2. CASE audit' = None
  BY <1>2 DEF AuditedWasSent
<1>3. ASSUME NEW q \in Peers, NEW d \in Chunks, StartAudit(q, d)
      PROVE  AuditedWasSent'
  <2>1. audit'.peer = q /\ audit'.chunk = d
    BY <1>3 DEF StartAudit
  <2>2. WasSent(q, d)
    BY <1>3, NamesAssumption DEF StartAudit, CountedCopyWasSent
  <2> QED  BY <1>s, <2>1, <2>2 DEF AuditedWasSent, WasSent, SentAfter
<1>4. CASE (\E answer \in Answers : AnswerAudit(answer)) \/ AuditFails \/ HereRestarts
  BY <1>2, <1>4 DEF AnswerAudit, AuditFails, HereRestarts
<1>5. CASE \/ \E q \in Peers : PeerStep(q)
           \/ \E d \in Chunks : StartChunk(d)
           \/ UploadStep \/ HealStep
           \/ \E n \in Nodes : Evict(n)
           \/ \E q \in Peers, d \in Chunks : Refetch(q, d)
           \/ UNCHANGED vars
  <2>1. audit' = audit
    BY <1>5 DEF PeerStep, Routine, Notice, Appears, Disappears, PeerDials, HereDials, Receive,
       PeerCrashes, PeerRestarts, Deliver, UploadStep, SendCopy, HealStep, HealSend, StartChunk,
       AssignChunk, StartHeal, HealAssign, Evict, Refetch, tasks, vars
  <2> QED  BY <1>1, <2>1
<1> QED  BY <1>3, <1>4, <1>5 DEF Next, AuditStep

LEMMA NextIInv == IInv /\ [Next]_vars => IInv'
BY TypesStay, CountsStay, AuditsStay DEF IInv

LEMMA Invariance == Spec => []IInv
BY InitIInv, NextIInv, PTL DEF Spec

(* Every state is well typed, and every entry of the table has the         *)
(* original in it.                                                         *)
THEOREM TypeCorrect == Spec => []TypeOK
<1>1. IInv => TypeOK
  BY DEF IInv, Types
<1> QED  BY <1>1, Invariance, PTL

(* The table counts no copy nobody sent, for any number of uploads, heal   *)
(* cycles and faults.                                                      *)
THEOREM CountedWasSent == Spec => []CountedCopyWasSent
<1>1. IInv => CountedCopyWasSent
  BY DEF IInv
<1> QED  BY <1>1, Invariance, PTL

(* A peer fails an audit only of a chunk that it was sent, and with a      *)
(* whole copy only if the bytes it is compared to are not whole, whatever  *)
(* comes between challenge and answer (strategies/audit.py:71-74).         *)
THEOREM BlameHasCause == Spec => AuditBlamesForCause
<1>1. ASSUME NEW answer \in Answers, TypeOK, AuditedWasSent,
             AnswerAudit(answer), Result(answer) = "fail"
      PROVE  /\ WasSent(audit.peer, audit.chunk)
             /\ disk[audit.peer][audit.chunk] = "good" => audit.own = "torn"
  <2>1. WasSent(audit.peer, audit.chunk)
    BY <1>1 DEF AnswerAudit, AuditedWasSent
  <2>2. answer \in {"404", "differs"}
    BY <1>1 DEF Result, Answers
  <2>3. audit \in Audit /\ audit.own \in Bytes
    BY <1>1 DEF AnswerAudit, TypeOK, Audit
  <2>4. ASSUME disk[audit.peer][audit.chunk] = "good"
        PROVE  audit.own = "torn"
    <3>1. Held(audit.peer, audit.chunk)
      BY <2>4 DEF Held, Bytes
    <3>2. answer \in Proof(audit.own, "good") /\ answer = "differs"
      <4>1. answer # "404" /\ answer # "500"
        BY <1>1, <2>2, <3>1 DEF AnswerAudit, Proof
      <4> QED  BY <1>1, <2>2, <2>4, <4>1 DEF AnswerAudit
    <3>3. audit.own # "good"
      BY <3>2 DEF Proof
    <3> QED  BY <2>3, <3>3 DEF Bytes
  <2> QED  BY <2>1, <2>4
<1>2. TypeOK /\ AuditedWasSent =>
        [\A answer \in Answers :
           AnswerAudit(answer) /\ Result(answer) = "fail" =>
             /\ WasSent(audit.peer, audit.chunk)
             /\ disk[audit.peer][audit.chunk] = "good" => audit.own = "torn"]_vars
  BY <1>1
<1>3. IInv => TypeOK /\ AuditedWasSent
  BY DEF IInv, Types
<1> QED  BY <1>2, <1>3, Invariance, PTL DEF AuditBlamesForCause

-----------------------------------------------------------------------------
(* How many peers are chosen *)

LEMMA PeersAreOrdered ==
    ASSUME NEW c \in Chunks, NEW S \in SUBSET Peers
    PROVE  Ordered(Dist[c], S)
<1>1. IsFiniteSet(S)
  BY NamesAssumption, FS_Subset
<1> QED  BY <1>1, DistAssumption DEF Ordered

(* A chunk is sent to K peers, or to all that are alive: the XOR-closest   *)
(* leave no place for those that score_peers prefers, which is why the     *)
(* model leaves the scores out (strategies/replication.py:173).            *)
THEOREM UploadMeetsFactor ==
    ASSUME TypeOK, NEW c \in Chunks
    PROVE  Cardinality(Targets(c)) = IF K <= Cardinality(alive) THEN K ELSE Cardinality(alive)
<1>1. Ordered(Dist[c], alive)
  BY PeersAreOrdered DEF TypeOK
<1> QED  BY <1>1, FindsEnough, NumbersAssumption DEF Targets, Closest

LEMMA PlanMeetsFactor ==
    ASSUME NEW c \in Chunks, NEW peers \in SUBSET Peers,
           NEW holders \in [Chunks -> SUBSET Nodes], Cardinality(holders[c]) < K
    PROVE  LET planned == holders[c] \cup Closest(c, Candidates(c, peers, holders),
                                                  Needed(c, holders))
           IN  Cardinality(planned) = K \/ peers \subseteq planned
<1> DEFINE held == holders[c]
           others == Candidates(c, peers, holders)
           needed == Needed(c, holders)
           added == Closest(c, others, needed)
<1>1. IsFiniteSet(Nodes)
  BY NamesAssumption, FS_Singleton, FS_Union DEF Nodes
<1>2. IsFiniteSet(held) /\ Cardinality(held) \in Nat
  BY <1>1, FS_Subset, FS_CardinalityType
<1>3. Ordered(Dist[c], others)
  BY PeersAreOrdered DEF Candidates
<1>4. needed \in Nat /\ needed = K - Cardinality(held)
  BY <1>2, NumbersAssumption DEF Needed
<1>5. /\ IsFiniteSet(added)
      /\ Cardinality(added) = IF needed <= Cardinality(others)
                              THEN needed ELSE Cardinality(others)
  BY <1>3, <1>4, FindsEnough DEF Closest
<1>6. added \subseteq others /\ held \cap added = {}
  BY ClosestAreOf DEF Candidates
<1>7. IsFiniteSet(others) /\ Cardinality(others) \in Nat
  BY <1>3, FS_CardinalityType DEF Ordered
<1>8. peers \subseteq held \cup others
  BY DEF Candidates
<1> HIDE DEF held, others, needed, added
<1>9. Cardinality(held \cup added) = Cardinality(held) + Cardinality(added)
  <2>1. Cardinality(held \cup added) =
          Cardinality(held) + Cardinality(added) - Cardinality(held \cap added)
    BY <1>2, <1>5, FS_Union
  <2>2. Cardinality(held \cap added) = 0
    BY <1>6, FS_EmptySet
  <2>3. Cardinality(added) \in Nat
    BY <1>5, FS_CardinalityType
  <2> QED  BY <1>2, <2>1, <2>2, <2>3
<1>10. CASE needed <= Cardinality(others)
  BY <1>2, <1>4, <1>5, <1>9, <1>10, NumbersAssumption DEF held, added, others, needed
<1>11. CASE ~(needed <= Cardinality(others))
  <2>1. added = others
    BY <1>5, <1>6, <1>7, <1>11, FS_Subset
  <2> QED  BY <1>8, <2>1 DEF held, added, others, needed
<1> QED  BY <1>10, <1>11

(* What is left of a heal cycle lacks copies by the cycle's own list, in   *)
(* which only the present chunk is written.                                *)
LeftLacks ==
    heal # None => /\ heal.chunk \notin heal.left
                   /\ \A c \in heal.left : Cardinality(heal.holders[c]) < K

PlanIsMet(known) ==
    LET planned == heal'.holders[heal'.chunk] \cup heal'.todo
    IN  Cardinality(planned) = K \/ known \subseteq planned

LEMMA NextToHealPlans ==
    ASSUME NEW left \in SUBSET Chunks, NEW peers \in SUBSET Peers,
           NEW holders \in [Chunks -> SUBSET Nodes], NextToHeal(left, peers, holders),
           \A c \in left : Cardinality(holders[c]) < K
    PROVE  heal' # None => PlanIsMet(peers) /\ LeftLacks'
<1>1. CASE heal' = None
  BY <1>1
<1>2. ASSUME NEW c \in left, NEW skipped \in SUBSET left, NEW rest, rest = left \ (skipped \cup {c}),
             heal' = [left |-> rest, peers |-> IF rest = {} THEN {} ELSE peers,
                      holders |-> holders, chunk |-> c, bytes |-> disk[Here][c],
                      todo |-> Closest(c, Candidates(c, peers, holders), Needed(c, holders))]
      PROVE  PlanIsMet(peers) /\ LeftLacks'
  <2>1. /\ heal'.holders = holders /\ heal'.chunk = c
        /\ heal'.left = left \ (skipped \cup {c})
        /\ heal'.todo = Closest(c, Candidates(c, peers, holders), Needed(c, holders))
    BY <1>2
  <2>2. PlanIsMet(peers)
    BY <2>1, PlanMeetsFactor DEF PlanIsMet
  <2> QED  BY <2>1, <2>2 DEF LeftLacks
<1> QED  BY <1>1, <1>2 DEF NextToHeal

LEMMA HealSteps ==
    ASSUME TypeOK, LeftLacks, [Next]_vars
    PROVE  /\ LeftLacks'
           /\ heal' # None /\ (heal = None \/ heal'.left # heal.left) =>
                PlanIsMet(IF heal = None THEN alive ELSE heal.peers)
<1>1. CASE StartHeal
  <2> DEFINE lists == [c \in Chunks |-> AliveHolders(c)]
  <2>1. lists \in [Chunks -> SUBSET Nodes] /\ UnderReplicated \in SUBSET Chunks
    BY DEF AliveHolders, TypeOK, UnderReplicated
  <2>2. \A c \in UnderReplicated : Cardinality(lists[c]) < K
    BY DEF UnderReplicated, Lacking
  <2>3. NextToHeal(UnderReplicated, alive, lists) /\ alive \in SUBSET Peers
    BY <1>1 DEF StartHeal, TypeOK
  <2> HIDE DEF lists
  <2>4. heal' # None => PlanIsMet(alive) /\ LeftLacks'
    BY <2>1, <2>2, <2>3, NextToHealPlans
  <2>5. heal = None
    BY <1>1 DEF StartHeal
  <2> QED  BY <2>4, <2>5 DEF LeftLacks
<1>2. CASE HealAssign
  <2>1. heal \in Heal
    BY <1>2 DEF HealAssign, TypeOK
  <2>2. /\ heal.left \in SUBSET Chunks /\ heal.peers \in SUBSET Peers
        /\ heal.holders \in [Chunks -> SUBSET Nodes]
        /\ NextToHeal(heal.left, heal.peers, heal.holders)
        /\ \A c \in heal.left : Cardinality(heal.holders[c]) < K
    BY <1>2, <2>1 DEF HealAssign, Heal, LeftLacks
  <2>3. heal' # None => PlanIsMet(heal.peers) /\ LeftLacks'
    BY <2>2, NextToHealPlans
  <2>4. heal # None
    BY <1>2 DEF HealAssign
  <2> QED  BY <2>3, <2>4 DEF LeftLacks
<1>3. ASSUME NEW q \in Peers, HealSend(q)
      PROVE  heal # None /\ heal'.left = heal.left /\ LeftLacks'
  <2>1. heal # None /\ heal \in Heal
    BY <1>3 DEF HealSend, TypeOK
  <2>2. PICK told \in BOOLEAN :
          heal' = [heal EXCEPT !.todo = @ \ {q}, !.holders[heal.chunk] = Counted(@, q, told)]
    BY <1>3 DEF HealSend
  <2>3. /\ heal'.left = heal.left /\ heal'.chunk = heal.chunk
        /\ \A c \in heal.left : heal'.holders[c] = heal.holders[c]
    BY <2>1, <2>2 DEF Heal, LeftLacks
  <2> QED  BY <2>1, <2>3 DEF LeftLacks
<1>4. CASE heal' = heal \/ heal' = None
  BY <1>4 DEF LeftLacks
<1>5. CASE \/ \E q \in Peers : PeerStep(q)
           \/ \E d \in Chunks : StartChunk(d)
           \/ UploadStep \/ AuditStep \/ HereRestarts
           \/ \E n \in Nodes : Evict(n)
           \/ \E q \in Peers, d \in Chunks : Refetch(q, d)
           \/ UNCHANGED vars
  <2>1. heal' = heal \/ heal' = None
    BY <1>5 DEF PeerStep, Routine, Notice, Appears, Disappears, PeerDials, HereDials, Receive,
       PeerCrashes, PeerRestarts, Deliver, UploadStep, SendCopy, StartChunk, AssignChunk,
       HereRestarts, Evict, Refetch, AuditStep, StartAudit, AnswerAudit, AuditFails, tasks, vars
  <2> QED  BY <1>4, <2>1
<1> QED  BY <1>1, <1>2, <1>3, <1>5 DEF Next, HealStep

(* A heal cycle chooses for each chunk as many peers as it lacks by the    *)
(* list of the cycle, no more, or all that there are                       *)
(* (advanced/self_healing.py:79 to 97).                                    *)
THEOREM HealMeetsFactor == Spec => HealPlansFactor
<1>1. Init => LeftLacks
  BY DEF Init, LeftLacks
<1>2. TypeOK /\ LeftLacks /\ [Next]_vars => LeftLacks'
  BY HealSteps
<1>3. Spec => []LeftLacks
  BY <1>1, <1>2, TypeCorrect, PTL DEF Spec
<1>4. TypeOK /\ LeftLacks /\ [Next]_vars =>
        [heal' # None /\ (heal = None \/ heal'.left # heal.left) =>
           LET planned == heal'.holders[heal'.chunk] \cup heal'.todo
               known == IF heal = None THEN alive ELSE heal.peers
           IN  Cardinality(planned) = K \/ known \subseteq planned]_vars
  BY HealSteps DEF PlanIsMet
<1> QED  BY <1>3, <1>4, TypeCorrect, PTL DEF Spec, HealPlansFactor
================================================================================
