--------------------------- MODULE RetrievalProofs ---------------------------
(***************************************************************************)
(* What a download or a preview may hand out, for any number of peers,     *)
(* chunks, shards, relays and faults.                                      *)
(***************************************************************************)
EXTENDS Retrieval, ClosestPeersProofs, FiniteSetTheorems, TLAPS

(* The constants, as the proofs use them. *)
LEMMA ConstantFacts ==
    /\ Uploader \in Nodes /\ Here \in Nodes /\ Peers \subseteq Nodes /\ Here # Uploader
    /\ N \in Nat \ {0} /\ 1 \in 1 .. N /\ ChunkCount \in Nat \ {0} /\ 1 \in Chunks
    /\ MaxFaults \in Nat
BY NodesAssumption, NumbersAssumption DEF Nodes, Chunks

LEMMA SharesType == Shares \subseteq 1 .. N /\ AllPieces \subseteq Pieces
BY ConstantFacts DEF Shares, AllPieces, Pieces

-----------------------------------------------------------------------------
(* The operators a request's handlers are made of *)

(* The request is over or goes on as r does, with nothing wrong that r has *)
(* not: what NextChunk and WithManifest and the errors come down to.       *)
GoesOn(r) ==
    \/ /\ req' = None /\ told' \in Answer
       /\ told'.kind = r.kind /\ told'.wrong = r.wrong
    \/ /\ req' \in Request /\ UNCHANGED told
       /\ req'.kind = r.kind /\ req'.wrong = r.wrong /\ req'.path = r.path
       /\ req'.todo \subseteq r.todo

LEMMA EndGoesOn ==
    ASSUME NEW r \in Request, NEW status \in {"200", "400", "404", "500", "broken"},
           End(r, status)
    PROVE  GoesOn(r)
BY DEF End, GoesOn, Request, Answer

LEMMA NextChunkGoesOn ==
    ASSUME NEW r \in Request, NextChunk(r)
    PROVE  GoesOn(r)
<1>. DEFINE loaded == [r EXCEPT !.got = {}, !.todo = {}, !.peers = {}, !.ask = {}]
<1>1. CASE r.at < ChunkCount
  <2>1. r.at + 1 \in Chunks
    BY <1>1, ConstantFacts DEF Request, Chunks
  <2>. DEFINE new == [r EXCEPT !.got = {}, !.todo = {}, !.peers = {}, !.ask = {},
                               !.stage = "chunk", !.at = r.at + 1]
  <2>2. new \in Request /\ new.kind = r.kind /\ new.wrong = r.wrong /\ new.path = r.path
        /\ new.todo = {}
    BY <2>1 DEF Request
  <2>3. req' = new /\ UNCHANGED told
    BY <1>1 DEF NextChunk, Request
  <2>. QED  BY <2>2, <2>3 DEF GoesOn
<1>2. CASE ~(r.at < ChunkCount) /\ r.kind = "preview"
  BY <1>2, EndGoesOn DEF NextChunk
<1>3. CASE ~(r.at < ChunkCount) /\ r.kind # "preview"
  <2>. DEFINE new == [r EXCEPT !.got = {}, !.todo = {}, !.peers = {}, !.ask = {},
                               !.stage = "merge"]
  <2>1. new \in Request /\ new.kind = r.kind /\ new.wrong = r.wrong /\ new.path = r.path
        /\ new.todo = {}
    BY DEF Request
  <2>2. req' = new /\ UNCHANGED told
    BY <1>3 DEF NextChunk, Request
  <2>. QED  BY <2>1, <2>2 DEF GoesOn
<1>. QED  BY <1>1, <1>2, <1>3

(* Loading a chunk makes a request hand out wrong bytes only in the case   *)
(* that the property excepts.                                              *)
LEMMA ChunkLoadedGoesOn ==
    ASSUME NEW r \in Request, NEW v \in {"good", "bad"}, ChunkLoaded(r, v)
    PROVE  \E q \in Request :
             /\ GoesOn(q) /\ q.kind = r.kind /\ q.path = r.path /\ q.todo = r.todo
             /\ q.wrong => r.wrong \/ (r.kind = "preview" /\ ~config.encrypted /\ v = "bad")
<1>1. CASE r.kind = "download" /\ NextChunk([r EXCEPT !.bad = @ \/ v = "bad"])
  <2>. DEFINE q == [r EXCEPT !.bad = r.bad \/ v = "bad"]
  <2>1. q \in Request /\ q.kind = r.kind /\ q.path = r.path /\ q.wrong = r.wrong
        /\ q.todo = r.todo
    BY DEF Request
  <2>2. NextChunk(q)
    BY <1>1
  <2>. HIDE DEF q
  <2>. QED  BY <2>1, <2>2, NextChunkGoesOn
<1>2. CASE r.kind = "preview" /\ NextChunk(r)
  BY <1>2, NextChunkGoesOn
<1>3. CASE r.kind = "preview" /\ End(r, "broken")
  BY <1>3, EndGoesOn
<1>4. CASE /\ r.kind = "preview" /\ ~config.encrypted /\ v = "bad"
           /\ NextChunk([r EXCEPT !.wrong = TRUE])
  <2>. DEFINE q == [r EXCEPT !.wrong = TRUE]
  <2>1. q \in Request /\ q.kind = r.kind /\ q.path = r.path /\ q.todo = r.todo
    BY DEF Request
  <2>2. NextChunk(q)
    BY <1>4
  <2>. HIDE DEF q
  <2>. QED  BY <1>4, <2>1, <2>2, NextChunkGoesOn
<1>. QED  BY <1>1, <1>2, <1>3, <1>4 DEF ChunkLoaded

LEMMA WithManifestGoesOn ==
    ASSUME NEW r \in Request, WithManifest(r)
    PROVE  GoesOn(r)
<1>1. CASE r.kind = "preview" /\ config.encrypted /\ r.key = "none"
  BY <1>1, EndGoesOn DEF WithManifest
<1>2. CASE ~(r.kind = "preview" /\ config.encrypted /\ r.key = "none")
  <2>. DEFINE new == [r EXCEPT !.stage = "chunk", !.peers = {}, !.ask = {}]
  <2>1. new \in Request /\ new.kind = r.kind /\ new.wrong = r.wrong /\ new.path = r.path
        /\ new.todo = r.todo
    BY DEF Request
  <2>2. req' = new /\ UNCHANGED told
    BY <1>2 DEF WithManifest
  <2>. QED  BY <2>1, <2>2 DEF GoesOn
<1>. QED  BY <1>1, <1>2

LEMMA CandidatesType ==
    ASSUME TypeOK
    PROVE  Candidates \subseteq Peers /\ CircuitPeers \subseteq Peers
BY DEF Candidates, CircuitPeers, TypeOK

-----------------------------------------------------------------------------
(* The inductive invariant *)

Holder(p) == \E s \in Shares, i \in Chunks : disk[p][<<i, s>>] # "none"

(* A request asks for shards of this file, those on its path have had a    *)
(* piece, and it hands out wrong bytes only in the excepted case.          *)
RequestSound(r) ==
    /\ r.wrong => r.kind = "preview" /\ ~config.erasure /\ ~config.encrypted
    /\ r.todo \subseteq Shares
    /\ \A p \in r.path : Holder(p)

RequestIsSound == req # None => RequestSound(req)

(* A piece is either still to be saved or has been, until the manifest is. *)
UploadSaves ==
    upload.stage = "save" => \A x \in AllPieces \ upload.save : disk[Uploader][x] # "none"

Served == /\ RequestIsSound /\ ServedIsTheFile /\ PathNamesHolders
Named == UploadSaves /\ ManifestNamesStoredPieces
IInv == TypeOK /\ Served /\ Named

(* No step takes back that a node has had a piece, or changes the format.  *)
DiskGrows == \A n \in Nodes, x \in Pieces : disk[n][x] # "none" => disk'[n][x] # "none"
Grows == config' = config /\ DiskGrows

LEMMA HolderStays ==
    ASSUME Grows, NEW p \in Peers, Holder(p)
    PROVE  Holder(p)'
<1>1. PICK s \in Shares, i \in Chunks : disk[p][<<i, s>>] # "none"
  BY DEF Holder
<1>2. <<i, s>> \in Pieces /\ p \in Nodes
  BY SharesType, ConstantFacts DEF Pieces
<1>3. Shares' = Shares
  BY DEF Grows, Shares
<1>. QED  BY <1>1, <1>2, <1>3 DEF Holder, Grows, DiskGrows

(* One file of one disk is written. *)
LEMMA DiskWritten ==
    ASSUME TypeOK, NEW n \in Nodes, NEW x \in Pieces, NEW v \in {"good", "bad", "gone"},
           disk' = [disk EXCEPT ![n][x] = v]
    PROVE  disk' \in [Nodes -> [Pieces -> {"none", "good", "bad", "gone"}]] /\ DiskGrows
BY DEF TypeOK, DiskGrows

(* What is left to check of a step of a request that goes on as q does.    *)
LEMMA GoesOnSound ==
    ASSUME IInv, Grows, NEW q \in Request, RequestSound(q), GoesOn(q)
    PROVE  /\ req' \in Request \cup {None} /\ told' \in Answer \cup {None}
           /\ RequestIsSound' /\ ServedIsTheFile'
<1>1. CASE req' = None /\ told' \in Answer /\ told'.kind = q.kind /\ told'.wrong = q.wrong
  BY <1>1 DEF Grows, RequestSound, RequestIsSound, ServedIsTheFile
<1>2. CASE /\ req' \in Request /\ UNCHANGED told
           /\ req'.kind = q.kind /\ req'.wrong = q.wrong /\ req'.path = q.path
           /\ req'.todo \subseteq q.todo
  <2>1. \A p \in q.path : Holder(p)'
    BY HolderStays DEF RequestSound, Request
  <2>2. Shares' = Shares
    BY DEF Grows, Shares
  <2>3. RequestIsSound'
    BY <1>2, <2>1, <2>2 DEF Grows, RequestSound, RequestIsSound
  <2>4. ServedIsTheFile'
    BY <1>2 DEF IInv, Served, Grows, ServedIsTheFile
  <2>. QED  BY <1>2, <2>3, <2>4 DEF IInv, TypeOK
<1>. QED  BY <1>1, <1>2 DEF GoesOn

LEMMA ServedStays ==
    ASSUME IInv, Grows, UNCHANGED <<req, told, paths>>
    PROVE  Served'
<1>1. Shares' = Shares
  BY DEF Grows, Shares
<1>2. \A p \in paths : Holder(p)'
  BY HolderStays DEF IInv, Served, TypeOK, PathNamesHolders, Holder
<1>3. PathNamesHolders'
  BY <1>2 DEF PathNamesHolders, Holder
<1>4. ServedIsTheFile'
  BY DEF IInv, Served, ServedIsTheFile, Grows
<1>5. CASE req # None
  <2>1. \A p \in req.path : Holder(p)'
    BY <1>5, HolderStays DEF IInv, Served, TypeOK, RequestIsSound, RequestSound, Request
  <2>2. RequestIsSound'
    BY <1>1, <1>5, <2>1 DEF IInv, Served, RequestIsSound, RequestSound, Grows
  <2>. QED  BY <1>3, <1>4, <2>2 DEF Served
<1>6. CASE req = None
  BY <1>3, <1>4, <1>6 DEF Served, RequestIsSound
<1>. QED  BY <1>5, <1>6

(* Steps that neither save nor end the upload keep what is said of it.     *)
LEMMA NamedStays ==
    ASSUME IInv, Grows, upload' = upload \/ upload'.stage = "over",
           manifests' # {} => manifests # {}
    PROVE  Named'
<1>1. AllPieces' = AllPieces /\ Shares' = Shares
  BY DEF Grows, Shares, AllPieces
<1>2. \A x \in AllPieces : disk[Uploader][x] # "none" => disk'[Uploader][x] # "none"
  BY SharesType, ConstantFacts DEF Grows, DiskGrows
<1>3. UploadSaves'
  BY <1>1, <1>2 DEF IInv, Named, UploadSaves
<1>4. ManifestNamesStoredPieces'
  BY <1>1, <1>2 DEF IInv, Named, ManifestNamesStoredPieces, AllPieces
<1>. QED  BY <1>3, <1>4 DEF Named

-----------------------------------------------------------------------------
(* The steps *)

LEMMA SameDiskGrows == UNCHANGED <<config, disk>> => Grows
BY DEF Grows, DiskGrows

LEMMA Initially == Init => IInv
<1>. SUFFICES ASSUME Init PROVE IInv
  OBVIOUS
<1>1. upload \in UploadCall
  BY SharesType DEF Init, UploadCall
<1>2. TypeOK
  BY <1>1, ConstantFacts DEF Init, TypeOK
<1>3. Served /\ Named
  BY NoneAssumption
     DEF Init, Served, Named, RequestIsSound, ServedIsTheFile, PathNamesHolders,
         UploadSaves, ManifestNamesStoredPieces
<1>. QED  BY <1>2, <1>3 DEF IInv

LEMMA SendingType ==
    ASSUME NEW ws \in SUBSET (Pieces \X Nodes)
    PROVE  Sending(ws) \in UploadCall /\ Sending(ws).stage # "save" /\ Sending({}).stage = "over"
BY DEF Sending, UploadCall

LEMMA FaultType ==
    ASSUME TypeOK, Fault \/ UNCHANGED faults
    PROVE  faults' \in 0 .. MaxFaults
BY ConstantFacts DEF TypeOK, Fault

(* Crashes, restarts, the registry and what happens to files on disks *)
LEMMA EnvironmentStep ==
    ASSUME IInv, NEW p \in Peers, NEW n \in Nodes, NEW x \in Pieces,
           \/ Crash(p) \/ Restart(p) \/ Appears(p) \/ KeyArrives(p) \/ Disappears(p)
           \/ Evict(n, x) \/ Damage(n, x)
    PROVE  IInv'
<1>. TypeOK
  BY DEF IInv
<1>1. CASE Crash(p)
  <2>1. Grows /\ UNCHANGED <<req, told, paths, manifests>>
    BY <1>1, SameDiskGrows DEF Crash, client
  <2>2. upload' \in UploadCall /\ (upload' = upload \/ upload'.stage = "over")
    BY <1>1, SendingType DEF Crash, TypeOK
  <2>3. TypeOK'
    BY <1>1, <2>1, <2>2, FaultType DEF Crash, TypeOK, client
  <2>. QED  BY <2>1, <2>2, <2>3, ServedStays, NamedStays DEF IInv
<1>2. CASE Restart(p) \/ Appears(p) \/ KeyArrives(p) \/ Disappears(p)
  <2>1. Grows /\ UNCHANGED <<req, told, paths, manifests, upload>>
    BY <1>2, SameDiskGrows DEF Restart, Appears, KeyArrives, Disappears, client
  <2>2. TypeOK'
    BY <1>2, <2>1 DEF Restart, Appears, KeyArrives, Disappears, TypeOK, client
  <2>. QED  BY <2>1, <2>2, ServedStays, NamedStays DEF IInv
<1>3. CASE Evict(n, x) \/ Damage(n, x)
  <2>1. PICK v \in {"gone", "bad"} : disk' = [disk EXCEPT ![n][x] = v]
    BY <1>3 DEF Evict, Damage
  <2>2. disk' \in [Nodes -> [Pieces -> {"none", "good", "bad", "gone"}]] /\ DiskGrows
    BY <2>1, DiskWritten
  <2>3. UNCHANGED <<config, running, alive, keyed, req, told, paths, manifests, upload>>
        /\ Fault
    BY <1>3 DEF Evict, Damage, client, net
  <2>4. TypeOK' /\ Grows
    BY <2>2, <2>3, FaultType DEF TypeOK, Grows
  <2>. QED  BY <2>3, <2>4, ServedStays, NamedStays DEF IInv
<1>. QED  BY <1>1, <1>2, <1>3

LEMMA RestartStep == IInv /\ HereRestarts => IInv'
<1>. SUFFICES ASSUME IInv, HereRestarts PROVE IInv'
  OBVIOUS
<1>1. Grows /\ UNCHANGED <<manifests, upload>>
  BY SameDiskGrows DEF HereRestarts
<1>2. TypeOK'
  BY FaultType DEF HereRestarts, IInv, TypeOK
<1>3. Served'
  BY DEF HereRestarts, Served, RequestIsSound, ServedIsTheFile, PathNamesHolders
<1>. QED  BY <1>1, <1>2, <1>3, NamedStays DEF IInv

LEMMA SaveStep == IInv /\ SavePiece => IInv'
<1>. SUFFICES ASSUME IInv, SavePiece PROVE IInv'
  OBVIOUS
<1>. TypeOK
  BY DEF IInv
<1>1. PICK x \in upload.save :
        \/ /\ disk' = [disk EXCEPT ![Uploader][x] = "good"]
           /\ upload' = [upload EXCEPT !.save = @ \ {x}]
           /\ UNCHANGED faults
        \/ /\ Fault
           /\ disk' = [disk EXCEPT ![Uploader][x] = "bad"]
           /\ upload' = Sending({})
  BY DEF SavePiece
<1>2. UNCHANGED <<config, running, alive, keyed, manifests, req, told, paths>>
      /\ upload.stage = "save"
  BY DEF SavePiece, net, client
<1>3. x \in Pieces
  BY DEF TypeOK, UploadCall
<1>4. disk' \in [Nodes -> [Pieces -> {"none", "good", "bad", "gone"}]] /\ DiskGrows
      /\ disk'[Uploader][x] # "none"
  BY <1>1, <1>3, DiskWritten, ConstantFacts DEF TypeOK
<1>5. upload' \in UploadCall
  <2>1. upload \in UploadCall
    BY DEF TypeOK
  <2>2. [upload EXCEPT !.save = upload.save \ {x}] \in UploadCall
    BY <2>1 DEF UploadCall
  <2>3. Sending({}) \in UploadCall
    BY SendingType
  <2>. QED  BY <1>1, <2>2, <2>3
<1>6. TypeOK' /\ Grows
  BY <1>1, <1>2, <1>4, <1>5, FaultType DEF TypeOK, Grows
<1>7. Served'
  BY <1>2, <1>6, ServedStays
<1>8. CASE upload' = [upload EXCEPT !.save = @ \ {x}]
  <2>1. upload'.save = upload.save \ {x} /\ AllPieces' = AllPieces /\ Shares' = Shares
    BY <1>2, <1>8 DEF TypeOK, UploadCall, AllPieces, Shares
  <2>2. \A y \in AllPieces : disk[Uploader][y] # "none" => disk'[Uploader][y] # "none"
    BY <1>6, SharesType, ConstantFacts DEF Grows, DiskGrows
  <2>3. UploadSaves'
    BY <1>2, <1>4, <2>1, <2>2 DEF IInv, Named, UploadSaves
  <2>4. ManifestNamesStoredPieces'
    BY <1>2, <2>1, <2>2 DEF IInv, Named, ManifestNamesStoredPieces, AllPieces
  <2>. QED  BY <1>6, <1>7, <2>3, <2>4 DEF IInv, Named
<1>9. CASE upload' = Sending({})
  <2>1. upload'.stage = "over"
    BY <1>9, SendingType
  <2>. QED  BY <1>2, <1>6, <1>7, <2>1, NamedStays DEF IInv
<1>. QED  BY <1>1, <1>8, <1>9

LEMMA PlacementType ==
    ASSUME NEW ps
    PROVE  Placement(ps) \subseteq Pieces \X Nodes
BY SharesType DEF Placement

LEMMA ManifestStep == IInv /\ SaveManifest => IInv'
<1>. SUFFICES ASSUME IInv, SaveManifest PROVE IInv'
  OBVIOUS
<1>. TypeOK
  BY DEF IInv
<1>1. Grows /\ UNCHANGED <<req, told, paths, config, disk, faults, running, alive, keyed>>
  BY SameDiskGrows DEF SaveManifest, net, client
<1>2. PICK ws \in SUBSET (Pieces \X Nodes) : upload' = Sending(ws)
  <2>1. PICK swarm \in Swarms :
          upload' = Sending({w \in Placement(swarm.known) :
                               w[2] \in swarm.reached \cup {Uploader}})
    BY DEF SaveManifest
  <2>2. {w \in Placement(swarm.known) : w[2] \in swarm.reached \cup {Uploader}}
          \in SUBSET (Pieces \X Nodes)
    BY PlacementType
  <2>. QED  BY <2>1, <2>2
<1>3. upload' \in UploadCall /\ upload'.stage # "save"
  BY <1>2, SendingType
<1>4. manifests' = manifests \cup {Uploader} /\ manifests' \subseteq Nodes
  BY ConstantFacts DEF SaveManifest, TypeOK
<1>5. TypeOK'
  BY <1>1, <1>3, <1>4 DEF TypeOK
<1>6. UploadSaves'
  BY <1>3 DEF UploadSaves
<1>7. ManifestNamesStoredPieces'
  BY <1>1 DEF SaveManifest, IInv, Named, UploadSaves, ManifestNamesStoredPieces, AllPieces,
              Shares
<1>. QED  BY <1>1, <1>5, <1>6, <1>7, ServedStays DEF IInv, Named

LEMMA SendStep == IInv /\ SendPiece => IInv'
<1>. SUFFICES ASSUME IInv, SendPiece PROVE IInv'
  OBVIOUS
<1>. TypeOK
  BY DEF IInv
<1>1. PICK w \in upload.send :
        /\ \/ UNCHANGED disk
           \/ \E v \in {"good", "bad"} : disk' = [disk EXCEPT ![w[2]][w[1]] = v]
        /\ upload' = Sending(upload.send \ {w}) \/ upload' = Sending({})
        /\ Fault \/ UNCHANGED faults
  BY DEF SendPiece
<1>2. UNCHANGED <<config, running, alive, keyed, manifests, req, told, paths>>
      /\ upload.stage = "send"
  BY DEF SendPiece, net, client
<1>3. w[1] \in Pieces /\ w[2] \in Nodes
  BY DEF TypeOK, UploadCall
<1>4. disk' \in [Nodes -> [Pieces -> {"none", "good", "bad", "gone"}]] /\ DiskGrows
  <2>1. CASE UNCHANGED disk
    BY <2>1 DEF TypeOK, DiskGrows
  <2>2. CASE \E v \in {"good", "bad"} : disk' = [disk EXCEPT ![w[2]][w[1]] = v]
    BY <1>3, <2>2, DiskWritten
  <2>. QED  BY <1>1, <2>1, <2>2
<1>5. upload' \in UploadCall /\ upload'.stage # "save"
  <2>1. upload.send \ {w} \in SUBSET (Pieces \X Nodes)
    BY DEF TypeOK, UploadCall
  <2>. QED  BY <1>1, <2>1, SendingType
<1>6. TypeOK' /\ Grows
  BY <1>1, <1>2, <1>4, <1>5, FaultType DEF TypeOK, Grows
<1>7. UploadSaves'
  BY <1>5 DEF UploadSaves
<1>8. \A y \in AllPieces : disk[Uploader][y] # "none" => disk'[Uploader][y] # "none"
  BY <1>6, SharesType, ConstantFacts DEF Grows, DiskGrows
<1>9. ManifestNamesStoredPieces'
  BY <1>2, <1>8 DEF IInv, Named, ManifestNamesStoredPieces, AllPieces, Shares
<1>. QED  BY <1>2, <1>6, <1>7, <1>9, ServedStays DEF IInv, Named

(* A step of the request that leaves the uploads, the registry and the     *)
(* path record alone, and writes at most one file here.                    *)
RequestOnly ==
    /\ UNCHANGED <<config, running, alive, keyed, upload>>
    /\ \/ UNCHANGED disk
       \/ \E x \in Pieces, v \in {"good", "bad", "gone"} :
            disk' = [disk EXCEPT ![Here][x] = v]
    /\ \/ UNCHANGED manifests
       \/ manifests # {} /\ manifests' = manifests \cup {Here}
    /\ Fault \/ UNCHANGED faults

LEMMA RequestOnlyGrows ==
    ASSUME IInv, RequestOnly
    PROVE  Grows
<1>1. CASE UNCHANGED disk
  BY <1>1, SameDiskGrows DEF RequestOnly
<1>2. CASE \E x \in Pieces, v \in {"good", "bad", "gone"} : disk' = [disk EXCEPT ![Here][x] = v]
  BY <1>2, DiskWritten, ConstantFacts DEF RequestOnly, Grows, IInv
<1>. QED  BY <1>1, <1>2 DEF RequestOnly

LEMMA RequestOnlyStep ==
    ASSUME IInv, RequestOnly,
           req' \in Request \cup {None}, told' \in Answer \cup {None}, paths' \subseteq Peers,
           RequestIsSound', ServedIsTheFile', PathNamesHolders'
    PROVE  IInv'
<1>. TypeOK
  BY DEF IInv
<1>1. Grows
  BY RequestOnlyGrows
<1>2. disk' \in [Nodes -> [Pieces -> {"none", "good", "bad", "gone"}]]
  <2>1. CASE UNCHANGED disk
    BY <2>1 DEF TypeOK
  <2>2. CASE \E x \in Pieces, v \in {"good", "bad", "gone"} :
               disk' = [disk EXCEPT ![Here][x] = v]
    BY <2>2, DiskWritten, ConstantFacts
  <2>. QED  BY <2>1, <2>2 DEF RequestOnly
<1>3. manifests' \subseteq Nodes /\ (manifests' # {} => manifests # {})
  BY ConstantFacts DEF RequestOnly, TypeOK
<1>4. TypeOK'
  BY <1>2, <1>3, FaultType DEF RequestOnly, TypeOK
<1>5. Named'
  BY <1>1, <1>3, NamedStays DEF RequestOnly
<1>. QED  BY <1>4, <1>5 DEF IInv, Served

LEMMA PathsStay ==
    ASSUME IInv, Grows, UNCHANGED paths
    PROVE  PathNamesHolders' /\ paths' \subseteq Peers
<1>1. \A p \in paths : Holder(p)'
  BY HolderStays DEF IInv, Served, TypeOK, PathNamesHolders, Holder
<1>. QED  BY <1>1 DEF PathNamesHolders, Holder, IInv, TypeOK

(* Most steps of a request: it goes on as a sound request q does. *)
LEMMA GoesOnStep ==
    ASSUME IInv, RequestOnly, UNCHANGED paths,
           NEW q \in Request, RequestSound(q), GoesOn(q)
    PROVE  IInv'
BY RequestOnlyGrows, GoesOnSound, PathsStay, RequestOnlyStep

LEMMA LoadedStep ==
    ASSUME IInv, RequestOnly, UNCHANGED paths,
           NEW r \in Request, RequestSound(r), NEW v \in {"good", "bad"},
           config.erasure => v = "good", ChunkLoaded(r, v)
    PROVE  IInv'
<1>1. PICK q \in Request :
        /\ GoesOn(q) /\ q.kind = r.kind /\ q.path = r.path /\ q.todo = r.todo
        /\ q.wrong => r.wrong \/ (r.kind = "preview" /\ ~config.encrypted /\ v = "bad")
  BY ChunkLoadedGoesOn
<1>2. RequestSound(q)
  BY <1>1 DEF RequestSound
<1>. QED  BY <1>1, <1>2, GoesOnStep

LEMMA EndStep ==
    ASSUME IInv, RequestOnly, UNCHANGED paths, NEW r \in Request, RequestSound(r),
           NEW status \in {"200", "400", "404", "500", "broken"}, End(r, status)
    PROVE  IInv'
BY EndGoesOn, GoesOnStep

(* A request that stays is one that goes on as itself. *)
LEMMA StaysStep ==
    ASSUME IInv, RequestOnly, UNCHANGED <<paths, told>>,
           NEW q \in Request, RequestSound(q), req' = q
    PROVE  IInv'
BY GoesOnStep DEF GoesOn

LEMMA AskStep ==
    ASSUME IInv, NEW kind \in {"download", "preview"}, NEW key \in {"right", "wrong", "none"},
           Ask(kind, key)
    PROVE  IInv'
<1>. DEFINE q == [kind |-> kind, key |-> key, stage |-> "manifest", peers |-> {}, ask |-> alive,
                  at |-> 1, got |-> {}, todo |-> {}, bad |-> FALSE, wrong |-> FALSE,
                  path |-> {}]
<1>1. q \in Request /\ RequestSound(q)
  BY ConstantFacts DEF Request, RequestSound, IInv, TypeOK
<1>2. RequestOnly /\ UNCHANGED paths /\ req' = q /\ told' = None
  BY DEF Ask, RequestOnly, net
<1>. HIDE DEF q
<1>3. Grows
  BY <1>2, RequestOnlyGrows
<1>4. RequestIsSound'
  BY <1>1, <1>2 DEF RequestIsSound, RequestSound, RequestOnly, Ask, Shares, Holder
<1>5. ServedIsTheFile'
  BY <1>2 DEF ServedIsTheFile
<1>. QED  BY <1>1, <1>2, <1>3, <1>4, <1>5, PathsStay, RequestOnlyStep

LEMMA RequestFacts ==
    ASSUME IInv, req # None
    PROVE  /\ req \in Request /\ RequestSound(req)
           /\ \A s \in 1 .. N : Piece(req, s) \in Pieces
           /\ Shares \subseteq 1 .. N
BY SharesType DEF IInv, Served, TypeOK, RequestIsSound, Request, Piece, Pieces

LEMMA ManifestSteps ==
    ASSUME IInv, NEW p \in Peers, ManifestIsHere \/ AskManifest(p) \/ NoManifest
    PROVE  IInv'
<1>1. req \in Request /\ RequestSound(req)
  BY RequestFacts DEF ManifestIsHere, AskManifest, NoManifest
<1>2. RequestOnly /\ UNCHANGED paths
  BY DEF ManifestIsHere, AskManifest, NoManifest, RequestOnly, net
<1>3. CASE ManifestIsHere \/ (AskManifest(p) /\ p \in running \cap manifests)
  BY <1>1, <1>2, <1>3, WithManifestGoesOn, GoesOnStep DEF ManifestIsHere, AskManifest
<1>4. CASE AskManifest(p) /\ p \notin running \cap manifests
  <2>. DEFINE q == [req EXCEPT !.ask = @ \ {p}]
  <2>1. q \in Request /\ RequestSound(q)
    BY <1>1 DEF Request, RequestSound
  <2>2. req' = q /\ UNCHANGED told
    BY <1>4 DEF AskManifest
  <2>. HIDE DEF q
  <2>. QED  BY <1>2, <2>1, <2>2, StaysStep
<1>5. CASE NoManifest
  BY <1>1, <1>2, <1>5, EndStep DEF NoManifest
<1>. QED  BY <1>3, <1>4, <1>5

LEMMA LoadStep == IInv /\ LoadChunk => IInv'
<1>. SUFFICES ASSUME IInv, LoadChunk PROVE IInv'
  OBVIOUS
<1>. DEFINE have == {s \in Shares : Held(Here, Piece(req, s)) /\ Takes(disk[Here][Piece(req, s)])}
            v == IF \A s \in have : disk[Here][Piece(req, s)] = "good" THEN "good" ELSE "bad"
            q == [req EXCEPT !.stage = "fetch", !.got = have, !.todo = Shares \ have,
                             !.peers = CircuitPeers, !.ask = Candidates]
<1>1. req \in Request /\ RequestSound(req) /\ have \subseteq 1 .. N /\ Shares \subseteq 1 .. N
  BY RequestFacts DEF LoadChunk
<1>2. RequestOnly /\ UNCHANGED paths
  BY DEF LoadChunk, RequestOnly, net
<1>3. v \in {"good", "bad"} /\ (config.erasure => v = "good")
  BY DEF Takes
<1>4. q \in Request /\ RequestSound(q)
  BY <1>1, CandidatesType DEF Request, RequestSound, IInv
<1>5. \/ ChunkLoaded(req, v)
      \/ req' = q /\ UNCHANGED told
  BY DEF LoadChunk
<1>. HIDE DEF have, v, q
<1>. QED  BY <1>1, <1>2, <1>3, <1>4, <1>5, LoadedStep, StaysStep

LEMMA LosesFileStep == IInv /\ LoadLosesFile => IInv'
<1>. SUFFICES ASSUME IInv, LoadLosesFile PROVE IInv'
  OBVIOUS
<1>1. /\ req \in Request /\ RequestSound(req)
      /\ \A s \in Shares : Piece(req, s) \in Pieces
  BY RequestFacts DEF LoadLosesFile
<1>2. RequestOnly /\ UNCHANGED paths
  BY <1>1 DEF LoadLosesFile, RequestOnly, net
<1>. QED  BY <1>1, <1>2, EndStep DEF LoadLosesFile

(* A peer that answers a fetch has a piece, so that it may go on the path. *)
LEMMA AnswererHolds ==
    ASSUME IInv, req # None, NEW p \in Peers, NEW relays, NEW s \in Wanted,
           Answers(p, relays, s)
    PROVE  Holder(p) /\ s \in Shares /\ disk[p][Piece(req, s)] \in {"good", "bad"}
<1>1. req.at \in Chunks /\ s \in Shares
  BY RequestFacts DEF Wanted, Request, RequestSound
<1>. QED  BY <1>1 DEF Answers, Held, Holder, Piece

LEMMA FetchStep ==
    ASSUME IInv, NEW p \in Peers, NEW relays \in SUBSET Peers, NEW s \in 1 .. N,
           Fetch(p, relays, s)
    PROVE  IInv'
<1>. DEFINE x == Piece(req, s)
            v == disk[p][x]
            r == [req EXCEPT !.path = @ \cup {p}]
<1>1. /\ req \in Request /\ RequestSound(req) /\ x \in Pieces /\ s \in Wanted
      /\ Answers(p, relays, s)
  BY RequestFacts DEF Fetch, Fetching
<1>2. Holder(p) /\ s \in Shares /\ v \in {"good", "bad"}
  BY <1>1, NoneAssumption, AnswererHolds DEF Fetch, Fetching
<1>3. r \in Request /\ RequestSound(r)
  BY <1>1, <1>2 DEF Request, RequestSound
<1>4. RequestOnly /\ UNCHANGED paths
  BY <1>1, <1>2 DEF Fetch, RequestOnly, net
<1>. DEFINE q == NextShard(r, s)
            qq == [q EXCEPT !.got = @ \cup {s}]
<1>5. q \in Request /\ RequestSound(q) /\ qq \in Request /\ RequestSound(qq)
  BY <1>1, <1>2, <1>3, CandidatesType DEF Request, RequestSound, NextShard, IInv
<1>6. \/ req' = q /\ UNCHANGED told
      \/ req' = qq /\ UNCHANGED told
      \/ ~config.erasure /\ ChunkLoaded(r, v)
      \/ End(r, "broken") \/ End(r, "500")
  BY DEF Fetch
<1>. HIDE DEF x, v, r, q, qq
<1>7. CASE (req' = q \/ req' = qq) /\ UNCHANGED told
  BY <1>4, <1>5, <1>7, StaysStep
<1>8. CASE ~config.erasure /\ ChunkLoaded(r, v)
  BY <1>2, <1>3, <1>4, <1>8, LoadedStep
<1>9. CASE End(r, "broken") \/ End(r, "500")
  BY <1>3, <1>4, <1>9, EndStep
<1>. QED  BY <1>6, <1>7, <1>8, <1>9

LEMMA NoAnswerSteps ==
    ASSUME IInv, NEW p \in Peers, NEW relays, NEW s \in 1 .. N,
           FetchFails(p, relays, s) \/ NobodyHasIt
    PROVE  IInv'
<1>1. req \in Request /\ RequestSound(req)
  BY RequestFacts DEF FetchFails, Unanswered, NobodyHasIt, Fetching
<1>2. RequestOnly /\ UNCHANGED <<paths, told>>
  BY DEF FetchFails, Unanswered, NobodyHasIt, RequestOnly, net
<1>3. CASE FetchFails(p, relays, s)
  <2>. DEFINE q == [req EXCEPT !.ask = @ \ {p}]
  <2>1. q \in Request /\ RequestSound(q)
    BY <1>1 DEF Request, RequestSound
  <2>2. req' = q
    BY <1>3 DEF FetchFails
  <2>. HIDE DEF q
  <2>. QED  BY <1>2, <2>1, <2>2, StaysStep
<1>4. CASE NobodyHasIt
  <2>1. PICK t \in Wanted : req' = NextShard(req, t)
    BY <1>4 DEF NobodyHasIt
  <2>. DEFINE q == NextShard(req, t)
  <2>2. q \in Request /\ RequestSound(q)
    BY <1>1, CandidatesType DEF Request, RequestSound, NextShard, IInv
  <2>. HIDE DEF q
  <2>. QED  BY <1>2, <2>1, <2>2, StaysStep DEF q
<1>. QED  BY <1>3, <1>4

LEMMA DecodeSteps == IInv /\ (Decode \/ Unrecoverable) => IInv'
<1>. SUFFICES ASSUME IInv, Decode \/ Unrecoverable PROVE IInv'
  OBVIOUS
<1>1. req \in Request /\ RequestSound(req)
  BY RequestFacts DEF Decode, Unrecoverable
<1>2. RequestOnly /\ UNCHANGED paths
  BY DEF Decode, Unrecoverable, RequestOnly, net
<1>3. CASE Decode
  BY <1>1, <1>2, <1>3, LoadedStep DEF Decode
<1>4. CASE Unrecoverable
  BY <1>1, <1>2, <1>4, EndStep DEF Unrecoverable
<1>. QED  BY <1>3, <1>4

(* The hash of the whole keeps damaged chunks from being served. *)
LEMMA MergeStep == IInv /\ Merge => IInv'
<1>. SUFFICES ASSUME IInv, Merge PROVE IInv'
  OBVIOUS
<1>1. req \in Request /\ RequestSound(req)
  BY RequestFacts DEF Merge
<1>2. PICK status \in Outcomes(req) :
        End([req EXCEPT !.wrong = req.bad /\ status = "200"], status)
  BY DEF Merge
<1>. DEFINE q == [req EXCEPT !.wrong = req.bad /\ status = "200"]
<1>3. status \in {"200", "400", "500"} /\ ~(req.bad /\ status = "200")
  BY DEF Outcomes
<1>4. q \in Request /\ q.wrong = FALSE /\ q.todo = req.todo /\ q.path = req.path
  BY <1>1, <1>3 DEF Request
<1>5. RequestSound(q)
  BY <1>1, <1>4 DEF RequestSound
<1>. HIDE DEF q
<1>6. GoesOn(q)
  BY <1>2, <1>3, <1>4, EndGoesOn DEF q
<1>7. RequestOnly /\ paths' = req.path
  BY DEF Merge, RequestOnly, net
<1>8. Grows
  BY <1>7, RequestOnlyGrows
<1>9. \A p \in req.path : Holder(p)'
  BY <1>1, <1>8, HolderStays DEF Request, RequestSound
<1>10. PathNamesHolders' /\ paths' \subseteq Peers
  BY <1>1, <1>7, <1>9 DEF PathNamesHolders, Holder, Request
<1>. QED  BY <1>4, <1>5, <1>6, <1>7, <1>8, <1>10, GoesOnSound, RequestOnlyStep

LEMMA Inductive == IInv /\ [Next]_vars => IInv'
<1>. SUFFICES ASSUME IInv, [Next]_vars PROVE IInv'
  OBVIOUS
<1>1. CASE Upload
  BY <1>1, SaveStep, ManifestStep, SendStep DEF Upload
<1>2. CASE RequestStep
  BY <1>2, ManifestSteps, LoadStep, FetchStep, NoAnswerSteps, DecodeSteps, MergeStep,
     NodesAssumption, ConstantFacts DEF RequestStep
<1>3. CASE \E kind \in {"download", "preview"}, key \in {"right", "wrong", "none"} : Ask(kind, key)
  BY <1>3, AskStep
<1>4. ASSUME NEW p \in Peers, Crash(p) \/ Restart(p) \/ Appears(p) \/ KeyArrives(p) \/ Disappears(p)
      PROVE  IInv'
  <2>1. <<1, 1>> \in Pieces /\ Here \in Nodes
    BY ConstantFacts DEF Pieces
  <2>. QED  BY <1>4, <2>1, EnvironmentStep
<1>5. ASSUME NEW n \in Nodes, NEW x \in Pieces, Evict(n, x) \/ Damage(n, x)
      PROVE  IInv'
  BY <1>5, EnvironmentStep, NodesAssumption
<1>6. CASE LoadLosesFile \/ HereRestarts
  BY <1>6, LosesFileStep, RestartStep
<1>7. CASE UNCHANGED vars
  <2>1. Grows /\ UNCHANGED <<req, told, paths, upload, manifests>> /\ TypeOK'
    BY <1>7, SameDiskGrows DEF vars, IInv, TypeOK
  <2>. QED  BY <2>1, ServedStays, NamedStays DEF IInv
<1>. QED
  BY <1>1, <1>2, <1>3, <1>4, <1>5, <1>6, <1>7, ConstantFacts DEF Next, Registry

LEMMA Invariance == Spec => []IInv
<1>. QED  BY Initially, Inductive, PTL DEF Spec

-----------------------------------------------------------------------------
(* Every variable of an upload, a request and the disks has its type: a    *)
(* request never leaves the chunks of the manifest, its shards are shards. *)
THEOREM TypeCorrect == Spec => []TypeOK
<1>1. IInv => TypeOK
  BY DEF IInv
<1>. QED  BY <1>1, Invariance, PTL

(* Whatever is damaged, cut short or evicted while a file is fetched, what *)
(* a download or a preview hands out is the file, except for a preview of  *)
(* a plain file stored as whole chunks.                                    *)
THEOREM FileIsServed == Spec => []ServedIsTheFile
<1>1. IInv => ServedIsTheFile
  BY DEF IInv, Served
<1>. QED  BY <1>1, Invariance, PTL

(* A manifest goes into the database after every piece it names was saved, *)
(* and nobody has it earlier, however the upload or a node is cut short.   *)
THEOREM ManifestAfterPieces == Spec => []ManifestNamesStoredPieces
<1>1. IInv => ManifestNamesStoredPieces
  BY DEF IInv, Named
<1>. QED  BY <1>1, Invariance, PTL

(* The recorded download path names peers that have had a piece.           *)
THEOREM PathSound == Spec => []PathNamesHolders
<1>1. IInv => PathNamesHolders
  BY DEF IInv, Served
<1>. QED  BY <1>1, Invariance, PTL

-----------------------------------------------------------------------------
(* Steps without a fault write no damaged shard *)

OnlyGood ==
    \/ UNCHANGED disk
    \/ \E n \in Nodes, x \in Pieces : disk' = [disk EXCEPT ![n][x] = "good"]

LEMMA FaultsCount ==
    ASSUME TypeOK, Fault
    PROVE  faults' # faults
BY ConstantFacts DEF TypeOK, Fault

LEMMA OnlyGoodSpreadsNothing ==
    ASSUME TypeOK, OnlyGood, NEW n \in Nodes, NEW x \in Pieces, disk'[n][x] = "bad"
    PROVE  disk[n][x] = "bad"
BY DEF OnlyGood, TypeOK

LEMMA FaultFreeWrites ==
    ASSUME IInv, [Next]_vars, config.erasure, UNCHANGED faults
    PROVE  OnlyGood
<1>. TypeOK /\ ~Fault
  BY FaultsCount DEF IInv
<1>1. CASE Upload
  <2>1. CASE SavePiece
    <3>1. PICK x \in upload.save : disk' = [disk EXCEPT ![Uploader][x] = "good"]
      BY <2>1 DEF SavePiece
    <3>2. x \in Pieces
      BY DEF TypeOK, UploadCall
    <3>. QED  BY <3>1, <3>2, ConstantFacts DEF OnlyGood
  <2>2. CASE SendPiece
    <3>1. PICK w \in upload.send :
            UNCHANGED disk \/ disk' = [disk EXCEPT ![w[2]][w[1]] = "good"]
      BY <2>2 DEF SendPiece
    <3>2. w[1] \in Pieces /\ w[2] \in Nodes
      BY DEF TypeOK, UploadCall
    <3>. QED  BY <3>1, <3>2 DEF OnlyGood
  <2>. QED  BY <1>1, <2>1, <2>2 DEF Upload, SaveManifest, OnlyGood
<1>2. ASSUME NEW p \in Peers, NEW relays \in SUBSET Peers, NEW s \in 1 .. N, Fetch(p, relays, s)
      PROVE  OnlyGood
  <2>1. Piece(req, s) \in Pieces
    BY <1>2, RequestFacts DEF Fetch, Fetching
  <2>2. UNCHANGED disk \/ disk' = [disk EXCEPT ![Here][Piece(req, s)] = "good"]
    BY <1>2 DEF Fetch, Takes
  <2>. QED  BY <2>1, <2>2, ConstantFacts DEF OnlyGood
<1>3. CASE UNCHANGED disk
  BY <1>3 DEF OnlyGood
<1>4. CASE RequestStep
  BY <1>2, <1>3, <1>4
     DEF RequestStep, AskManifest, ManifestIsHere, NoManifest, LoadChunk, FetchFails,
         Unanswered, NobodyHasIt, Decode, Unrecoverable, Merge
<1>. QED
  BY <1>1, <1>3, <1>4
     DEF Next, Registry, Appears, KeyArrives, Disappears, Ask, LoadLosesFile, HereRestarts, Crash,
         Restart, Evict, Damage, vars

(* Of the steps that are no fault, none makes a shard bad on any node: a   *)
(* shard is verified before it is stored (strategies/erasure.py:252).      *)
THEOREM DamageContained == Spec => DamageDoesNotSpread
<1>1. IInv /\ [Next]_vars =>
        [faults' = faults /\ config.erasure =>
           \A n \in Nodes, x \in Pieces : disk'[n][x] = "bad" => disk[n][x] = "bad"]_vars
  BY FaultFreeWrites, OnlyGoodSpreadsNothing DEF IInv
<1>. QED  BY <1>1, Invariance, PTL DEF Spec, DamageDoesNotSpread

-----------------------------------------------------------------------------
(* A request moves on.  The operators that end a chunk lead past it. *)

MovesPast(r) == req' = None \/ Reached(r) < Reached(req')

LEMMA NextChunkMoves ==
    ASSUME NEW r \in Request, r.stage \in {"chunk", "fetch"}, NextChunk(r)
    PROVE  MovesPast(r)
<1>1. r.at \in Nat /\ r.at < ChunkCount + 1 /\ Reached(r) = r.at
  BY ConstantFacts DEF Request, Chunks, Reached
<1>2. CASE r.at < ChunkCount
  <2>1. req'.stage = "chunk" /\ req'.at = r.at + 1
    BY <1>2 DEF NextChunk, Request
  <2>. QED  BY <1>1, <2>1 DEF Reached, MovesPast
<1>3. CASE ~(r.at < ChunkCount)
  <2>1. req' = None \/ req'.stage = "merge"
    BY <1>3 DEF NextChunk, Request, End
  <2>. QED  BY <1>1, <2>1 DEF Reached, MovesPast
<1>. QED  BY <1>2, <1>3

LEMMA ChunkLoadedMoves ==
    ASSUME NEW r \in Request, r.stage \in {"chunk", "fetch"}, NEW v, ChunkLoaded(r, v)
    PROVE  MovesPast(r)
<1>. DEFINE q == [r EXCEPT !.bad = r.bad \/ v = "bad"]
            w == [r EXCEPT !.wrong = TRUE]
<1>1. q \in Request /\ q.stage = r.stage /\ q.at = r.at
  BY DEF Request
<1>2. w \in Request /\ w.stage = r.stage /\ w.at = r.at
  BY DEF Request
<1>3. Reached(q) = Reached(r) /\ Reached(w) = Reached(r)
  BY <1>1, <1>2 DEF Reached
<1>4. \/ NextChunk(q) \/ NextChunk(w) \/ NextChunk(r) \/ req' = None
  BY DEF ChunkLoaded, End
<1>. HIDE DEF q, w
<1>. QED  BY <1>1, <1>2, <1>3, <1>4, NextChunkMoves DEF MovesPast

LEMMA RequestStepMoves ==
    ASSUME TypeOK, RequestStep
    PROVE  req' = None \/ Later(req, req')
<1>1. req \in Request
  BY DEF RequestStep, TypeOK, AskManifest, ManifestIsHere, NoManifest, LoadChunk, Fetch,
         FetchFails, Unanswered, NobodyHasIt, Decode, Unrecoverable, Merge, Fetching
<1>2. MovesPast(req) => req' = None \/ Later(req, req')
  BY DEF MovesPast, Later
(* A peer that did not answer is not asked again. *)
<1>3. ASSUME NEW p \in req.ask, req.stage # "chunk", req' = [req EXCEPT !.ask = @ \ {p}]
      PROVE  Later(req, req')
  <2>1. /\ req'.stage = req.stage /\ req'.at = req.at /\ req'.todo = req.todo
        /\ req'.ask = req.ask \ {p}
    BY <1>1, <1>3 DEF Request
  <2>. QED  BY <1>3, <2>1 DEF Later, Reached
(* A shard that was asked for is not asked for again. *)
<1>4. ASSUME NEW s \in req.todo, req.stage = "fetch",
             req'.stage = "fetch", req'.at = req.at, req'.todo = req.todo \ {s}
      PROVE  Later(req, req')
  BY <1>4 DEF Later, Reached
<1>5. WithManifest(req) /\ req.stage = "manifest" => MovesPast(req)
  <2>1. SUFFICES ASSUME WithManifest(req), req.stage = "manifest", req' # None
                 PROVE  Reached(req) < Reached(req')
    BY DEF MovesPast
  <2>2. req'.stage = "chunk" /\ req'.at \in Chunks
    BY <1>1, <2>1 DEF WithManifest, End, Request
  <2>. QED  BY <2>1, <2>2 DEF Reached, Chunks
<1>6. ASSUME NEW p \in Peers, AskManifest(p)  PROVE req' = None \/ Later(req, req')
  BY <1>2, <1>3, <1>5, <1>6 DEF AskManifest
<1>7. CASE ManifestIsHere
  BY <1>2, <1>5, <1>7 DEF ManifestIsHere
<1>8. CASE NoManifest \/ Unrecoverable \/ Merge
  BY <1>8 DEF NoManifest, Unrecoverable, Merge, End
<1>9. CASE LoadChunk
  <2>1. req.stage = "chunk"
    BY <1>9 DEF LoadChunk
  <2>2. \/ \E v \in {"good", "bad"} : ChunkLoaded(req, v)
        \/ req'.stage = "fetch" /\ req'.at = req.at
    BY <1>1, <1>9 DEF LoadChunk, Request
  <2>. QED  BY <1>1, <1>2, <2>1, <2>2, ChunkLoadedMoves DEF Later, Reached
<1>10. ASSUME NEW p \in Peers, NEW relays \in SUBSET Peers, NEW s \in 1 .. N, Fetch(p, relays, s)
       PROVE  req' = None \/ Later(req, req')
  <2>. DEFINE r == [req EXCEPT !.path = @ \cup {p}]
  <2>1. req.stage = "fetch" /\ s \in req.todo
    BY <1>10 DEF Fetch, Fetching, Wanted
  <2>2. r \in Request /\ r.stage = req.stage /\ r.at = req.at /\ r.todo = req.todo
    BY <1>1 DEF Request
  <2>3. Reached(r) = Reached(req)
    BY <2>2 DEF Reached
  <2>4. CASE req' = NextShard(r, s) \/ req' = [NextShard(r, s) EXCEPT !.got = @ \cup {s}]
    <3>1. req'.stage = "fetch" /\ req'.at = req.at /\ req'.todo = req.todo \ {s}
      BY <2>1, <2>2, <2>4 DEF NextShard, Request
    <3>. QED  BY <1>4, <2>1, <3>1
  <2>5. CASE \E v : ChunkLoaded(r, v)
    <3>. HIDE DEF r
    <3>. QED  BY <1>2, <2>1, <2>2, <2>3, <2>5, ChunkLoadedMoves DEF MovesPast
  <2>. QED  BY <1>10, <2>4, <2>5 DEF Fetch, End
<1>11. ASSUME NEW p \in Peers, NEW relays \in SUBSET Peers, NEW s \in 1 .. N,
              FetchFails(p, relays, s)
       PROVE  Later(req, req')
  BY <1>3, <1>11 DEF FetchFails, Unanswered, Fetching
<1>12. CASE NobodyHasIt
  <2>1. PICK s \in req.todo : req' = NextShard(req, s)
    BY <1>12 DEF NobodyHasIt, Wanted
  <2>2. req.stage = "fetch"
    BY <1>12 DEF NobodyHasIt, Fetching
  <2>3. req'.stage = "fetch" /\ req'.at = req.at /\ req'.todo = req.todo \ {s}
    BY <1>1, <2>1, <2>2 DEF NextShard, Request
  <2>. QED  BY <1>4, <2>2, <2>3
<1>13. CASE Decode
  BY <1>1, <1>2, <1>13, ChunkLoadedMoves DEF Decode
<1>. QED
  BY <1>6, <1>7, <1>8, <1>9, <1>10, <1>11, <1>12, <1>13 DEF RequestStep

(* A request comes to a later point of a finite order with every step it   *)
(* takes, and no other step takes it back: this is why downloads and       *)
(* previews end, as far as it does not depend on the scheduler.            *)
THEOREM RequestForward == Spec => RequestMovesOn
<1>1. ASSUME TypeOK, [Next]_vars
      PROVE  [req # None => \/ req' = None \/ Later(req, req')
                            \/ req' = req /\ ~RequestStep]_vars
  <2>1. CASE RequestStep
    BY <2>1, <1>1, RequestStepMoves
  <2>2. CASE ~RequestStep /\ ~UNCHANGED vars /\ req # None
    <3>1. req' = None \/ req' = req
      BY <1>1, <2>2
         DEF Next, Upload, SavePiece, SaveManifest, SendPiece, Registry, Appears, KeyArrives,
             Disappears, Ask, LoadLosesFile, End, HereRestarts, Crash, Restart, Evict, Damage,
             client
    <3>. QED  BY <2>2, <3>1
  <2>. QED  BY <1>1, <2>1, <2>2
<1>. QED  BY <1>1, TypeCorrect, PTL DEF Spec, RequestMovesOn

-----------------------------------------------------------------------------
(* Placing pieces (replicate_shards, replicate_chunks) *)

LEMMA PeersAreOrdered ==
    ASSUME NEW x \in Pieces, NEW ps \in SUBSET (Nodes \ {Uploader})
    PROVE  Ordered(Distance[x], ps)
<1>1. IsFiniteSet(Nodes)
  BY NodesAssumption, FS_Singleton, FS_Union DEF Nodes
<1>2. IsFiniteSet(ps)
  BY <1>1, FS_Subset
<1>. QED  BY <1>2, DistanceAssumption DEF Ordered

(* Each shard goes to exactly one peer, whichever peers are alive and even *)
(* if they are fewer than the shards (strategies/replication.py:116).      *)
THEOREM ShardHasOneTarget ==
    ASSUME NEW x \in Pieces, NEW ps \in SUBSET (Nodes \ {Uploader}), ps # {}, config.erasure
    PROVE  \E n \in ps : Targets(x, ps) = {n}
<1>1. Ordered(Distance[x], ps)
  BY PeersAreOrdered
<1>2. Cardinality(ps) \in Nat \ {0}
  BY <1>1, FS_CardinalityType, FS_EmptySet DEF Ordered
<1>3. x[2] - 1 \in Nat
  BY ConstantFacts DEF Pieces
<1>. DEFINE place == (x[2] - 1) % Cardinality(ps)
<1>4. place \in 0 .. Cardinality(ps) - 1
  BY <1>2, <1>3
<1>5. Targets(x, ps) = AtPlace(place, Distance[x], ps)
  BY DEF Targets, ShardTargets
<1>. HIDE DEF place
<1>. QED  BY <1>1, <1>4, <1>5, OneAtEachPlace

(* A whole chunk goes to as many peers as the replication factor says, or  *)
(* to all, besides the uploader (strategies/replication.py:59).            *)
THEOREM ChunkHasItsCopies ==
    ASSUME NEW x \in Pieces, NEW ps \in SUBSET (Nodes \ {Uploader}), ~config.erasure
    PROVE  Cardinality(Targets(x, ps) \ {Uploader}) =
             IF Copies <= Cardinality(ps) THEN Copies ELSE Cardinality(ps)
<1>1. Ordered(Distance[x], ps)
  BY PeersAreOrdered
<1>2. Targets(x, ps) \ {Uploader} = FindClosest(Distance[x], ps, Copies)
  BY DEF Targets, FindClosest
<1>. QED  BY <1>1, <1>2, FindsEnough, NumbersAssumption

(* Along one order of enough peers no two shards of a chunk meet.          *)
(* replicate_shards says so of itself, but takes an order for each shard   *)
(* (strategies/replication.py:110): see OwnOrdersCollide.                  *)
LEMMA OneOrderKeepsShardsApart ==
    ASSUME NEW ps, IsFiniteSet(ps), NEW distance, NEW n \in Nat, Cardinality(ps) >= n,
           NEW s \in 1 .. n, NEW t \in 1 .. n, s # t
    PROVE  ShardTargets(s, distance, ps) \cap ShardTargets(t, distance, ps) = {}
<1>1. Cardinality(ps) \in Nat
  BY FS_CardinalityType
<1>2. (s - 1) % Cardinality(ps) = s - 1 /\ (t - 1) % Cardinality(ps) = t - 1
  BY <1>1
<1>3. (s - 1) % Cardinality(ps) # (t - 1) % Cardinality(ps)
  BY <1>2
<1>. QED  BY <1>3 DEF ShardTargets, AtPlace
=============================================================================
