------------------------------ MODULE Retrieval ------------------------------
(***************************************************************************)
(* How one file reaches the node Here from the node that uploads it:       *)
(*   upload_file, download_file, preview_file, the manifest, chunk and     *)
(*     relay endpoints and the onion fetch    backend/api/routes.py        *)
(*   chunking and merging       backend/file_engine/chunker.py, pipeline.py*)
(*   shards of a chunk          backend/strategies/erasure.py              *)
(*   placing shards on peers    backend/strategies/replication.py          *)
(*   relays of a fetch          backend/network/onion.py                   *)
(*   chunk files and manifests  backend/storage/local_store.py, db.py      *)
(*                                                                         *)
(* A chunk is stored as pieces: its n shards, any k of which give it back, *)
(* or itself when chunks are copied whole.  Whether a piece on a disk is   *)
(* what was uploaded is all that is kept of its bytes.  An action is what  *)
(* a handler does between two awaits; a request to a peer and its answer   *)
(* are one action, taken when the peer answers or fails to.  The response  *)
(* and its temporary file are not followed after the handler has returned. *)
(***************************************************************************)
EXTENDS Naturals, FiniteSets, ClosestPeers

CONSTANTS
    Peers,
    Here,
    Uploader,       \* the peer the file is uploaded to
    ChunkCount,
    N, K,           \* erasure_n and erasure_k
    Copies,         \* the replication factor of whole chunks
    Distance,       \* Distance[x][n]: the XOR distance of node n from the hash of piece x
    Hops,           \* DEFAULT_HOPS
    MaxFaults,      \* how many faults happen (bound)
    Pending,        \* how many sends are outstanding when a request starts (bound)
    Swarms,         \* whom the uploader may take for alive, and reach (bound)
    None

Nodes == Peers \cup {Here}

ASSUME NodesAssumption == IsFiniteSet(Peers) /\ Uploader \in Peers /\ Here \notin Peers
ASSUME NumbersAssumption ==
    /\ ChunkCount \in Nat \ {0} /\ N \in Nat \ {0} /\ K \in 1 .. N
    /\ Copies \in Nat /\ Hops \in Nat /\ MaxFaults \in Nat /\ Pending \in Nat

ASSUME SwarmsAssumption ==
    Swarms \subseteq [known: SUBSET (Nodes \ {Uploader}), reached: SUBSET Nodes]

Chunks == 1 .. ChunkCount
Pieces == Chunks \X (1 .. N)    \* <<chunk, shard index>>

ASSUME DistanceAssumption ==
    /\ Distance \in [Pieces -> [Nodes \ {Uploader} -> Nat]]
    /\ \A x \in Pieces : \A m, n \in Nodes \ {Uploader} :
         Distance[x][m] = Distance[x][n] => m = n

VARIABLES
    config,     \* how the file is stored: chosen before the upload
    running,    \* the peers whose process runs
    alive,      \* the peers the registry of Here takes for alive
    keyed,      \* the peers whose public_key it has
    disk,       \* disk[n][x]: chunk file x of node n; "gone" after an eviction
    manifests,  \* the nodes that have the manifest
    upload,     \* the upload_file call
    req,        \* the download or preview under way at Here
    told,       \* what the last of them answered, until the next begins
    paths,      \* _download_paths of the file: the holders that answered
    faults      \* how many faults have happened

vars == <<config, running, alive, keyed, disk, manifests, upload, req, told, paths, faults>>
net == <<config, running, alive, keyed>>
client == <<req, told, paths>>

Request == [kind: {"download", "preview"}, key: {"right", "wrong", "none"},
            stage: {"manifest", "chunk", "fetch", "merge"},
            peers: SUBSET Peers,    \* alive when the present fetch began, for
                                    \* circuits; {} if it asks directly
            ask: SUBSET Peers,      \* those it has not asked yet
            at: Chunks, got: SUBSET (1 .. N), todo: SUBSET (1 .. N),
            bad: BOOLEAN,           \* is a chunk loaded so far not the uploaded one?
            wrong: BOOLEAN,         \* have bytes that are not the file's gone out?
            path: SUBSET Peers]     \* the holders that have answered
UploadCall == [stage: {"save", "send", "over"},
               save: SUBSET Pieces,             \* not saved yet
               send: SUBSET (Pieces \X Nodes)]  \* not sent yet, with its target
Answer == [kind: {"download", "preview"}, key: {"right", "wrong", "none"},
           status: {"200", "400", "404", "500", "broken"}, wrong: BOOLEAN]

ASSUME NoneAssumption == None \notin Request \cup Answer

TypeOK ==
    /\ config \in [erasure: BOOLEAN, encrypted: BOOLEAN]
    /\ running \subseteq Peers /\ alive \subseteq Peers /\ keyed \subseteq Peers
    /\ disk \in [Nodes -> [Pieces -> {"none", "good", "bad", "gone"}]]
    /\ manifests \subseteq Nodes
    /\ upload \in UploadCall
    /\ req \in Request \cup {None}
    /\ told \in Answer \cup {None}
    /\ paths \subseteq Peers
    /\ faults \in 0 .. MaxFaults

Shares == IF config.erasure THEN 1 .. N ELSE {1}
NeedAll == IF config.erasure THEN N ELSE 1
Need == IF config.erasure THEN K ELSE 1
Held(n, x) == disk[n][x] \in {"good", "bad"}

(* chunk_file and encode_chunk: the pieces, and the order they are made in *)
AllPieces == Chunks \X Shares
Before(x, y) == x[1] < y[1] \/ (x[1] = y[1] /\ x[2] < y[2])

(* The upload is over with the last send. *)
Sending(ws) == [stage |-> IF ws = {} THEN "over" ELSE "send", save |-> {}, send |-> ws]

Init ==
    /\ config \in [erasure: BOOLEAN, encrypted: BOOLEAN]
    /\ running = Peers /\ alive = Peers /\ keyed \in SUBSET Peers
    /\ disk = [n \in Nodes |-> [x \in Pieces |-> "none"]]
    /\ manifests = {}
    /\ upload = [stage |-> "save", save |-> AllPieces, send |-> {}]
    /\ req = None /\ told = None /\ paths = {}
    /\ faults = 0

-----------------------------------------------------------------------------
(* Faults, and the registry that notices some of them *)

Fault == faults < MaxFaults /\ faults' = faults + 1

Crash(p) ==
    /\ p \in running /\ Fault
    /\ running' = running \ {p}
    /\ upload' = IF p = Uploader THEN Sending({}) ELSE upload
    /\ UNCHANGED <<config, alive, keyed, disk, manifests, client>>

Restart(p) ==
    /\ p \notin running
    /\ running' = running \cup {p}
    /\ UNCHANGED <<config, alive, keyed, disk, manifests, upload, client, faults>>

(* load_peers_from_db restores peers with the time they were seen, so that *)
(* some may be alive at once, but without their keys.                      *)
HereRestarts ==
    /\ Fault
    /\ req' = None /\ told' = None /\ paths' = {}
    /\ alive' \in SUBSET alive /\ keyed' = {}
    /\ UNCHANGED <<config, running, disk, manifests, upload>>

(* A HELLO brings the key of p, a TCP handshake does not; neither takes a  *)
(* key back.                                                               *)
Appears(p) ==
    /\ p \in running \ alive
    /\ alive' = alive \cup {p}
    /\ keyed' \in {keyed, keyed \cup {p}}
    /\ UNCHANGED <<config, running, disk, manifests, upload, client, faults>>

(* The first HELLO of a peer that a handshake or the database brought in.  *)
KeyArrives(p) ==
    /\ p \in (running \cap alive) \ keyed
    /\ keyed' = keyed \cup {p}
    /\ UNCHANGED <<config, running, alive, disk, manifests, upload, client, faults>>

Disappears(p) ==
    /\ p \in alive \ running
    /\ alive' = alive \ {p}
    /\ UNCHANGED <<config, running, keyed, disk, manifests, upload, client, faults>>

(* evict_oldest_chunks on node n *)
Evict(n, x) ==
    /\ Held(n, x) /\ Fault
    /\ disk' = [disk EXCEPT ![n][x] = "gone"]
    /\ UNCHANGED <<net, manifests, upload, client>>

(* A file that was cut short or has decayed *)
Damage(n, x) ==
    /\ disk[n][x] = "good" /\ Fault
    /\ disk' = [disk EXCEPT ![n][x] = "bad"]
    /\ UNCHANGED <<net, manifests, upload, client>>

-----------------------------------------------------------------------------
(* upload_file: every piece is saved, then the manifest, then pieces are   *)
(* sent one at a time.                                                     *)

SavePiece ==
    /\ upload.stage = "save"
    /\ \E x \in upload.save :
       /\ \A y \in upload.save : ~Before(y, x)
       /\ \/ /\ disk' = [disk EXCEPT ![Uploader][x] = "good"]
             /\ upload' = [upload EXCEPT !.save = @ \ {x}]
             /\ UNCHANGED faults
          \/ /\ Fault      \* the write fails part of the way
             /\ disk' = [disk EXCEPT ![Uploader][x] = "bad"]
             /\ upload' = Sending({})
    /\ UNCHANGED <<net, manifests, client>>

(* replicate_shards sends a shard to one peer, the shard index counting    *)
(* along the peers closest to that shard; replicate_chunks saves a chunk   *)
(* once more and sends it to the closest ones.                             *)
ShardTargets(s, distance, ps) == AtPlace((s - 1) % Cardinality(ps), distance, ps)

Targets(x, ps) ==
    IF config.erasure THEN ShardTargets(x[2], Distance[x], ps)
    ELSE {Uploader} \cup FindClosest(Distance[x], ps, Copies)

Placement(ps) ==
    IF ps = {} THEN {}
    ELSE {w \in AllPieces \X Nodes : w[2] \in Targets(w[1], ps)}

SentBefore(v, w) ==
    \/ Before(v[1], w[1])
    \/ /\ v[1] = w[1] /\ w[2] # Uploader
       /\ v[2] = Uploader \/ Distance[v[1]][v[2]] < Distance[w[1]][w[2]]

(* The manifest may come before the pieces. *)
SaveManifestFirst ==
    /\ upload.stage = "save" /\ Uploader \notin manifests
    /\ manifests' = manifests \cup {Uploader}
    /\ upload' = IF upload.save = {} THEN Sending({}) ELSE upload
    /\ UNCHANGED <<net, disk, client, faults>>

(* Pieces are placed on the peers the uploader takes for alive.  Those it  *)
(* does not reach get none: the connect fails, or it is they who dialled   *)
(* the link and read nothing from it.                                      *)
(* (Bound: neither changes during the upload.)                             *)
SaveManifest ==
    /\ upload.stage = "save" /\ upload.save = {}
    /\ manifests' = manifests \cup {Uploader}
    /\ \E swarm \in Swarms :
         upload' = Sending({w \in Placement(swarm.known) :
                              w[2] \in swarm.reached \cup {Uploader}})
    /\ UNCHANGED <<net, disk, client, faults>>

(* The send, and what the receiver's STORE_CHUNK handler does with it.     *)
(* The uploader's own write that fails ends the upload.                    *)
SendPiece ==
    /\ upload.stage = "send"
    /\ \E w \in upload.send :
       LET x == w[1]
           t == w[2]
           sent == Sending(upload.send \ {w}) IN
       /\ \A v \in upload.send : ~SentBefore(v, w)
       /\ \/ /\ t = Here \/ t \in running
             /\ disk' = [disk EXCEPT ![t][x] = "good"]
             /\ upload' = sent
             /\ UNCHANGED faults
          \/ /\ t # Here /\ t \notin running
             /\ upload' = sent
             /\ UNCHANGED <<disk, faults>>
          \/ /\ t = Here \/ t \in running
             /\ Fault      \* the write fails part of the way
             /\ disk' = [disk EXCEPT ![t][x] = "bad"]
             /\ upload' = IF t = Uploader THEN Sending({}) ELSE sent
    /\ UNCHANGED <<net, manifests, client>>

-----------------------------------------------------------------------------
(* download_file and preview_file: how a request goes on and ends *)

End(r, status) ==
    /\ req' = None
    /\ told' = [kind |-> r.kind, key |-> r.key, status |-> status, wrong |-> r.wrong]

(* A preview refuses an encrypted file before it loads a chunk, a download *)
(* afterwards.                                                             *)
WithManifest(r) ==
    IF r.kind = "preview" /\ config.encrypted /\ r.key = "none"
    THEN End(r, "400")
    ELSE /\ req' = [r EXCEPT !.stage = "chunk", !.peers = {}, !.ask = {}]
         /\ UNCHANGED told

NextChunkPastEnd(r) ==
    LET loaded == [r EXCEPT !.got = {}, !.todo = {}, !.peers = {}, !.ask = {}] IN
    IF r.at <= ChunkCount
    THEN req' = [loaded EXCEPT !.stage = "chunk", !.at = @ + 1] /\ UNCHANGED told
    ELSE IF r.kind = "preview" THEN End(r, "200")
    ELSE req' = [loaded EXCEPT !.stage = "merge"] /\ UNCHANGED told

NextChunk(r) ==
    LET loaded == [r EXCEPT !.got = {}, !.todo = {}, !.peers = {}, !.ask = {}] IN
    IF r.at < ChunkCount
    THEN req' = [loaded EXCEPT !.stage = "chunk", !.at = @ + 1] /\ UNCHANGED told
    ELSE IF r.kind = "preview" THEN End(r, "200")
    ELSE req' = [loaded EXCEPT !.stage = "merge"] /\ UNCHANGED told

(* A download keeps the chunk for the merge.  A preview decodes it and     *)
(* sends it: decryption tells a damaged chunk and a wrong key, inflation   *)
(* may take damaged data for something else.                               *)
ChunkLoaded(r, v) ==
    \/ /\ r.kind = "download"
       /\ NextChunk([r EXCEPT !.bad = @ \/ v = "bad"])
    \/ /\ r.kind = "preview"
       /\ v = "good" /\ (config.encrypted => r.key = "right")
       /\ NextChunk(r)
    \/ /\ r.kind = "preview" /\ config.encrypted
       /\ v = "bad" \/ r.key # "right"
       /\ End(r, "broken")
    \/ /\ r.kind = "preview" /\ ~config.encrypted
       /\ v = "bad"
       /\ NextChunk([r EXCEPT !.wrong = TRUE]) \/ End(r, "broken")

(* get_alive_peers, and who of them may be asked for a piece: those whose  *)
(* key is known; when it is of none, all of them, directly.                *)
Candidates == IF alive \cap keyed # {} THEN alive \cap keyed ELSE alive
CircuitPeers == IF alive \cap keyed # {} THEN alive ELSE {}

(* The start of a request, by the hash that /files lists once a node has   *)
(* the manifest.  A password for a plain file changes nothing, and a       *)
(* download without one is refused as with a wrong one.                    *)
Passwords(kind) ==
    IF ~config.encrypted THEN {"none"}
    ELSE IF kind = "preview" THEN {"right", "wrong", "none"} ELSE {"right", "wrong"}

Ask(kind, key) ==
    /\ req = None /\ key \in Passwords(kind)
    /\ manifests # {} /\ Cardinality(upload.send) <= Pending
    /\ req' = [kind |-> kind, key |-> key, stage |-> "manifest", peers |-> {}, ask |-> alive,
               at |-> 1, got |-> {}, todo |-> {}, bad |-> FALSE, wrong |-> FALSE, path |-> {}]
    /\ told' = None
    /\ UNCHANGED <<net, disk, manifests, upload, paths, faults>>

ManifestIsHere ==
    /\ req # None /\ req.stage = "manifest" /\ Here \in manifests
    /\ WithManifest(req)
    /\ UNCHANGED <<net, disk, manifests, upload, paths, faults>>

(* GET /manifest of one peer after another; the first answer is kept. *)
AskManifest(p) ==
    /\ req # None /\ req.stage = "manifest" /\ Here \notin manifests /\ p \in req.ask
    /\ IF p \in running \cap manifests
       THEN manifests' = manifests \cup {Here} /\ WithManifest(req)
       ELSE req' = [req EXCEPT !.ask = @ \ {p}] /\ UNCHANGED <<manifests, told>>
    /\ UNCHANGED <<net, disk, upload, paths, faults>>

NoManifest ==
    /\ req # None /\ req.stage = "manifest" /\ Here \notin manifests /\ req.ask = {}
    /\ End(req, "404")
    /\ UNCHANGED <<net, disk, manifests, upload, paths, faults>>

-----------------------------------------------------------------------------
(* One chunk: what the disk has of it, then what peers have *)

Piece(r, s) == <<r.at, s>>

(* verify_shard; a whole chunk is taken as it is. *)
TakesAny(v) == TRUE
Takes(v) == config.erasure => v = "good"

(* The first pass of fetch_and_decode_chunk, or load_chunk *)
LoadChunk ==
    /\ req # None /\ req.stage = "chunk"
    /\ LET have == {s \in Shares : Held(Here, Piece(req, s)) /\ Takes(disk[Here][Piece(req, s)])} IN
       IF Cardinality(have) >= Need
       THEN ChunkLoaded(req, IF \A s \in have : disk[Here][Piece(req, s)] = "good"
                             THEN "good" ELSE "bad")
       ELSE /\ req' = [req EXCEPT !.stage = "fetch", !.got = have,
                                  !.todo = Shares \ have,
                                  !.peers = CircuitPeers, !.ask = Candidates]
            /\ UNCHANGED told
    /\ UNCHANGED <<net, disk, manifests, upload, paths, faults>>

(* The eviction thread removes the file after load_chunk has found it. *)
LoadLosesFile ==
    /\ req # None /\ req.stage = "chunk" /\ Fault
    /\ \E s \in Shares : Held(Here, Piece(req, s))
                         /\ disk' = [disk EXCEPT ![Here][Piece(req, s)] = "gone"]
    /\ IF req.kind = "preview" THEN End(req, "broken") ELSE End(req, "500")
    /\ UNCHANGED <<net, manifests, upload, paths>>

Fetching == req # None /\ req.stage = "fetch" /\ Cardinality(req.got) < Need

(* The shard to ask for next: they are tried in the order of their index. *)
Wanted == {s \in req.todo : \A t \in req.todo : s <= t}

(* pick_circuit: as many random relays as there are of the peers whose key *)
(* is known by now, up to Hops; without keys the chunk endpoint is asked.  *)
Relays(p) ==
    LET eligible == (req.peers \cap keyed) \ {p} IN
    {R \in SUBSET eligible :
        /\ Cardinality(R) <= Hops
        /\ R = eligible \/ Cardinality(R) = Hops}

(* onion_relay at each hop and at the holder, or get_chunk: what comes     *)
(* back is the holder's file when every hop works and the holder has it.   *)
Answers(p, relays, s) == relays \cup {p} \subseteq running /\ Held(p, Piece(req, s))

SameShard(r, s) == [r EXCEPT !.peers = CircuitPeers, !.ask = Candidates]
(* The next shard is asked of the candidates there are by then. *)
NextShard(r, s) == [r EXCEPT !.todo = @ \ {s}, !.peers = CircuitPeers, !.ask = Candidates]

Fetch(p, relays, s) ==
    /\ Fetching /\ p \in req.ask /\ relays \in Relays(p) /\ s \in Wanted
    /\ Answers(p, relays, s)
    /\ LET x == Piece(req, s)
           v == disk[p][x]
           r == [req EXCEPT !.path = @ \cup {p}] IN
       \/ /\ ~Takes(v)
          /\ req' = NextShard(r, s)
          /\ UNCHANGED <<disk, told, faults>>
       \/ /\ Takes(v)
          /\ disk' = [disk EXCEPT ![Here][x] = v]
          /\ IF config.erasure
             THEN req' = [NextShard(r, s) EXCEPT !.got = @ \cup {s}] /\ UNCHANGED told
             ELSE ChunkLoaded(r, v)
          /\ UNCHANGED faults
       \/ /\ Takes(v) /\ Fault      \* the piece cannot be saved
          /\ disk' = [disk EXCEPT ![Here][x] = "bad"]
          /\ IF r.kind = "preview" THEN End(r, "broken") ELSE End(r, "500")
    /\ UNCHANGED <<net, manifests, upload, paths>>

Unanswered(p, relays, s) ==
    /\ Fetching /\ p \in req.ask /\ relays \in Relays(p) /\ s \in Wanted
    /\ ~Answers(p, relays, s)
    /\ UNCHANGED <<net, disk, manifests, upload, told, paths, faults>>

(* A candidate goes on the path when it is asked. *)
FetchFailsOnPath(p, relays, s) ==
    /\ Unanswered(p, relays, s)
    /\ req' = [req EXCEPT !.ask = @ \ {p}, !.path = @ \cup {p}]

(* A candidate that does not answer is asked again. *)
FetchRetries(p, relays, s) ==
    /\ Unanswered(p, relays, s)
    /\ req' = IF p \in running THEN [req EXCEPT !.ask = @ \ {p}] ELSE req

FetchFails(p, relays, s) ==
    /\ Unanswered(p, relays, s)
    /\ req' = [req EXCEPT !.ask = @ \ {p}]

NobodyHasIt ==
    /\ Fetching /\ req.ask = {}
    /\ \E s \in Wanted : req' = NextShard(req, s)
    /\ UNCHANGED <<net, disk, manifests, upload, told, paths, faults>>

(* The end of the second pass: enough shards to decode, or none left to ask for *)
Decode ==
    /\ req # None /\ req.stage = "fetch"
    /\ Cardinality(req.got) >= Need
    /\ ChunkLoaded(req, "good")
    /\ UNCHANGED <<net, disk, manifests, upload, paths, faults>>

Unrecoverable ==
    /\ req # None /\ req.stage = "fetch"
    /\ req.todo = {} /\ Cardinality(req.got) < Need
    /\ IF req.kind = "preview" THEN End(req, "broken") ELSE End(req, "404")
    /\ UNCHANGED <<net, disk, manifests, upload, paths, faults>>

-----------------------------------------------------------------------------
(* The path is recorded, then merge_chunks_to_disk decrypts, inflates and  *)
(* compares the hash of the whole.  A ValueError is answered with 400; an  *)
(* error of the inflation is not one.                                      *)

OutcomesUnhashed(r) ==
    IF config.encrypted /\ (r.key # "right" \/ r.bad) THEN {"400"}
    ELSE IF r.bad THEN {"200", "500"}
    ELSE {"200"}

Outcomes(r) ==
    IF config.encrypted /\ (r.key # "right" \/ r.bad) THEN {"400"}
    ELSE IF r.bad THEN {"400", "500"}
    ELSE {"200"}

Merge ==
    /\ req # None /\ req.stage = "merge"
    /\ paths' = req.path
    /\ \E status \in Outcomes(req) :
         End([req EXCEPT !.wrong = req.bad /\ status = "200"], status)
    /\ UNCHANGED <<net, disk, manifests, upload, faults>>

-----------------------------------------------------------------------------
Upload == SavePiece \/ SaveManifest \/ SendPiece

RequestStep ==
    \/ \E p \in Peers : AskManifest(p)
    \/ ManifestIsHere \/ NoManifest \/ LoadChunk
    \/ \E p \in Peers, relays \in SUBSET Peers, s \in 1 .. N :
         Fetch(p, relays, s) \/ FetchFails(p, relays, s)
    \/ NobodyHasIt \/ Decode \/ Unrecoverable \/ Merge

Registry == \E p \in Peers : Appears(p) \/ KeyArrives(p) \/ Disappears(p)

Next ==
    \/ Upload \/ RequestStep \/ Registry
    \/ \E kind \in {"download", "preview"}, key \in {"right", "wrong", "none"} : Ask(kind, key)
    \/ LoadLosesFile \/ HereRestarts
    \/ \E p \in Peers : Crash(p) \/ Restart(p)
    \/ \E n \in Nodes, x \in Pieces : Evict(n, x)
    \/ \E n \in Peers, x \in Pieces : Damage(n, x)

Spec == Init /\ [][Next]_vars

(* The event loop of Here runs, its calls have time-outs, and its registry *)
(* hears peers that run, one way or the other, and forgets those that do   *)
(* not.  A key need not arrive.                                            *)
FairSpec ==
    /\ Spec /\ WF_vars(RequestStep)
    /\ \A p \in Peers : WF_vars(Appears(p)) /\ WF_vars(Disappears(p))
-----------------------------------------------------------------------------
(* Properties *)

(* Bytes that are not the file's never go out as part of it, with one      *)
(* exception, the preview of a plain file stored as whole chunks, which    *)
(* neither a hash nor a decryption checks.                                 *)
ServedIsTheFile ==
    told # None /\ told.wrong =>
        told.kind = "preview" /\ ~config.erasure /\ ~config.encrypted

(* Whoever has the manifest, the node that took the upload had saved every *)
(* piece the manifest names, wherever the upload was cut short.            *)
ManifestNamesStoredPieces ==
    manifests # {} =>
        \A s \in Shares, i \in Chunks : disk[Uploader][<<i, s>>] # "none"

(* The holders on the path recorded for a download have had a piece of the *)
(* file, although candidates that have none are tried on the way.          *)
PathNamesHolders ==
    \A p \in paths : \E s \in Shares, i \in Chunks : disk[p][<<i, s>>] # "none"

(* A fetched shard is never stored damaged: of the steps that are no       *)
(* fault, none makes a piece of an erasure-coded file bad on any node.     *)
DamageDoesNotSpread ==
    [][faults' = faults /\ config.erasure =>
         \A n \in Nodes, x \in Pieces : disk'[n][x] = "bad" => disk[n][x] = "bad"]_vars

(* How far a request has come, and that q is a later point of it than r:   *)
(* it never goes back to a chunk or a shard, nor asks a peer twice for the *)
(* same one, so that only so many steps are ahead of it.                   *)
Reached(r) == CASE r.stage = "manifest" -> 0
                [] r.stage = "merge" -> ChunkCount + 1
                [] OTHER -> r.at

Later(r, q) ==
    \/ Reached(r) < Reached(q)
    \/ /\ Reached(r) = Reached(q) /\ r.stage = "chunk" /\ q.stage = "fetch"
    \/ /\ Reached(r) = Reached(q) /\ r.stage = q.stage
       /\ \/ q.todo \subseteq r.todo /\ q.todo # r.todo
          \/ q.todo = r.todo /\ q.ask \subseteq r.ask /\ q.ask # r.ask

(* Every step of a request brings it forward or ends it, although the      *)
(* peers to ask are listed anew for every shard, with those that came back *)
(* meanwhile; other steps leave it alone or end it.                        *)
RequestMovesOn ==
    [][req # None => \/ req' = None
                     \/ Later(req, req')
                     \/ req' = req /\ ~RequestStep]_vars

(* Every download and preview comes to an end, whatever peers do. *)
RequestEnds == req # None ~> req = None

(* What Here can get of the file: for shards, k of n of each chunk, each   *)
(* good here, or good on a peer it asks with none of those holding a bad   *)
(* one; for a whole chunk the same, and its own file must not be bad.  A   *)
(* peer without a key is not asked while any other alive peer has one.     *)
Obtainable(x) ==
    \/ disk[Here][x] = "good"
    \/ /\ config.erasure \/ disk[Here][x] # "bad"
       /\ \E p \in Candidates : disk[p][x] = "good"
       /\ \A p \in Candidates : disk[p][x] # "bad"

Recoverable ==
    /\ alive \subseteq running
    /\ manifests \cap (alive \cup {Here}) # {}
    /\ \A i \in Chunks : 
         Cardinality({s \in Shares : Obtainable(<<i, s>>)}) >= IF config.erasure THEN K ELSE 1

(* Once the file stays recoverable, requests with the right password no    *)
(* longer fail: n - k missing or damaged shards of a chunk are made up     *)
(* for, and dead relays and stale candidates are forgotten.                *)
Fails ==
    /\ req # None /\ req' = None /\ told' # None
    /\ told'.status # "200" /\ (config.encrypted => told'.key = "right")
RecoverableIsServed == <>[]Recoverable => <>[][~Fails]_vars
==============================================================================
