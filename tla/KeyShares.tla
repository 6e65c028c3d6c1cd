------------------------------ MODULE KeyShares ------------------------------
(***************************************************************************)
(* Threshold-encrypted files (backend/strategies/threshold.py and the      *)
(* "Phase 25C" endpoints of backend/api/routes.py): an uploader splits a   *)
(* fresh AES key, posts one share to each holder and then publishes the    *)
(* manifest; the recipient asks the holders of the manifest it has and     *)
(* combines what they release.                                             *)
(*                                                                         *)
(* One file: manifests and key_shares rows are keyed by the hash of the    *)
(* plain text, so every upload of that file, by whatever node, meets the   *)
(* same rows.  An upload is named by its key, which is drawn at random for *)
(* it.  Consent and visibility are left open: they only make a call fail.  *)
(***************************************************************************)
EXTENDS Naturals, Sequences

CONSTANTS
    Uploaders, Holders, Recipients,     \* node identities, which may overlap
    Keys,           \* fresh AES keys: one per upload of the file (bound)
    HolderLists,    \* the lists of holders an upload may use (bound)
    MaxShares,      \* the greatest number of shares, 254 in the code
    None

Indices == 1 .. MaxShares
Failures == {"short", "error", "garbage"}

ASSUME HolderListsAssumption ==
    /\ MaxShares \in Nat
    /\ HolderLists \subseteq Seq(Holders)
    /\ \A hs \in HolderLists : Len(hs) \in Indices

(* What an upload has decided on, and the share whose answer it awaits. *)
Upload == [uploader: Uploaders, recipient: Recipients, holders: HolderLists,
           need: Indices, next: Indices,
           status: {"sending", "failed", "saved"}]

Share == [index: Indices, key: Keys]

(* A download that collects shares for the manifest of upload `manifest`.  *)
(* Its result is the key it has combined, or why it has none.              *)
Collection == [manifest: Keys, next: Nat, got: Seq(Share),
               result: Keys \cup Failures \cup {None}]

ASSUME NoneAssumption ==
    /\ None \notin Keys \cup Failures
    /\ Keys \cap Failures = {}
    /\ None \notin Upload /\ None \notin Collection

VARIABLES
    upload,     \* upload[k]: the upload whose key is k
    wire,       \* <<k, i>>: share i of k is on its way to its holder
    row,        \* row[h][i]: the key whose share i is in h's key_shares row
    manifest,   \* manifest[n]: the upload whose manifest n has in its database
    collect,    \* collect[r]: r's download, or None
    stored      \* <<k, i>>: its holder has stored share i of k (also the answer)

vars == <<upload, wire, row, manifest, collect, stored>>

Nodes == Uploaders \cup Recipients

TypeOK ==
    /\ upload \in [Keys -> Upload \cup {None}]
    /\ wire \in SUBSET (Keys \X Indices)
    /\ row \in [Holders -> [Indices -> Keys \cup {None}]]
    /\ manifest \in [Nodes -> Keys \cup {None}]
    /\ collect \in [Recipients -> Collection \cup {None}]
    /\ stored \in SUBSET (Keys \X Indices)

Init ==
    /\ upload = [k \in Keys |-> None]
    /\ wire = {}
    /\ row = [h \in Holders |-> [i \in Indices |-> None]]
    /\ manifest = [n \in Nodes |-> None]
    /\ collect = [r \in Recipients |-> None]
    /\ stored = {}

-----------------------------------------------------------------------------
(* The uploader *)

(* Check the request, draw and split the key, post the first share. *)
BeginUpload(k, u, r, hs, m) ==
    /\ upload[k] = None
    /\ r # u
    /\ \A i \in DOMAIN hs : hs[i] # u
    /\ m <= Len(hs)
    /\ upload' = [upload EXCEPT ![k] =
          [uploader |-> u, recipient |-> r, holders |-> hs,
           need |-> m, next |-> 1, status |-> "sending"]]
    /\ wire' = wire \cup {<<k, 1>>}
    /\ UNCHANGED <<row, manifest, collect, stored>>

(* Post the next share, or save the manifest after the last. *)
PostNext(k) ==
    LET up == upload[k] IN
    /\ up.next < Len(up.holders)
    /\ upload' = [upload EXCEPT ![k].next = up.next + 1]
    /\ wire' = wire \cup {<<k, up.next + 1>>}
    /\ UNCHANGED manifest

SaveManifestMovingOn(k) ==
    LET up == upload[k] IN
    /\ up.next = Len(up.holders)
    /\ upload' = [upload EXCEPT ![k].status = "saved", ![k].next = up.next + 1]
    /\ manifest' = [manifest EXCEPT ![up.uploader] = k]
    /\ UNCHANGED wire
SaveManifest(k) ==
    LET up == upload[k] IN
    /\ up.next = Len(up.holders)
    /\ upload' = [upload EXCEPT ![k].status = "saved"]
    /\ manifest' = [manifest EXCEPT ![up.uploader] = k]
    /\ UNCHANGED wire

Sending(k) == upload[k] # None /\ upload[k].status = "sending"

ShareAnsweredUnchecked(k) ==
    /\ Sending(k)
    /\ PostNext(k) \/ SaveManifest(k)
    /\ UNCHANGED <<row, collect, stored>>

(* The holder has answered that the share is stored. *)
ShareAnswered(k) ==
    /\ Sending(k)
    /\ <<k, upload[k].next>> \in stored
    /\ PostNext(k) \/ SaveManifest(k)
    /\ UNCHANGED <<row, collect, stored>>

(* The call is refused, times out or loses its answer, or the uploader     *)
(* crashes: what the holders have, and what is on its way, stays.          *)
UploadFails(k) ==
    /\ Sending(k)
    /\ upload' = [upload EXCEPT ![k].status = "failed"]
    /\ UNCHANGED <<wire, row, manifest, collect, stored>>

-----------------------------------------------------------------------------
(* The holders *)

(* INSERT OR REPLACE under the primary key (file_hash, share_index). *)
PeerStore(k, i) ==
    /\ <<k, i>> \in wire
    /\ wire' = wire \ {<<k, i>>}
    /\ row' = [row EXCEPT ![upload[k].holders[i]][i] = k]
    /\ stored' = stored \cup {<<k, i>>}
    /\ UNCHANGED <<upload, manifest, collect>>

(* No accepted chat with the sender, the holder is down, the call is lost. *)
PeerRefuses(k, i) ==
    /\ <<k, i>> \in wire
    /\ wire' = wire \ {<<k, i>>}
    /\ UNCHANGED <<upload, row, manifest, collect, stored>>

AnyRequester(k, r) == TRUE
(* The requester is in allowed_requesters, which the uploader has set. *)
Allowed(k, r) == upload[k].recipient = r

(* The select names the file only, so it may find any row of the holder. *)
Releasable(h, r) ==
    {[index |-> i, key |-> row[h][i]] : i \in {j \in Indices :
        row[h][j] # None /\ Allowed(row[h][j], r)}}

-----------------------------------------------------------------------------
(* The recipient *)

(* Cache the manifest of the first peer that has one.  It stays cached. *)
FetchManifest(r, n) ==
    /\ manifest[r] = None
    /\ manifest[n] # None
    /\ manifest' = [manifest EXCEPT ![r] = manifest[n]]
    /\ UNCHANGED <<upload, wire, row, collect, stored>>

Asking(r) == collect[r] # None /\ collect[r].result = None

BeginCollect(r) ==
    /\ ~Asking(r)
    /\ manifest[r] # None
    /\ upload[manifest[r]].recipient = r
    /\ collect' = [collect EXCEPT ![r] =
          [manifest |-> manifest[r], next |-> 1, got |-> <<>>, result |-> None]]
    /\ UNCHANGED <<upload, wire, row, manifest, stored>>

(* Shamir.combine refuses an index it is given twice; enough shares of one *)
(* key give that key, any other mixture gives unrelated bytes.             *)
Repeated(got) ==
    \E p, q \in DOMAIN got : p # q /\ got[p].index = got[q].index

Reconstructs(got, k) ==
    /\ upload[k] # None
    /\ Len(got) >= upload[k].need
    /\ \A p \in DOMAIN got : got[p].key = k

Combine(got) ==
    IF Repeated(got) THEN "error"
    ELSE IF \E k \in Keys : Reconstructs(got, k)
         THEN CHOOSE k \in Keys : Reconstructs(got, k)
         ELSE "garbage"

EnoughOneShort(got, k) == Len(got) + 1 >= upload[k].need
Enough(got, k) == Len(got) >= upload[k].need

(* The loop over the holders goes on, breaks with enough answers, or ends. *)
Outcome(k, got, next) ==
    IF Enough(got, k) THEN Combine(got)
    ELSE IF next > Len(upload[k].holders) THEN "short"
    ELSE None

Advance(r, got) ==
    LET c == collect[r] IN
    collect' = [collect EXCEPT ![r] =
        [manifest |-> c.manifest, next |-> c.next + 1, got |-> got,
         result |-> Outcome(c.manifest, got, c.next + 1)]]

Asked(r) == upload[collect[r].manifest].holders[collect[r].next]

(* The next holder is another node, up, and releases one of its shares. *)
ShareReleased(r) ==
    /\ Asking(r)
    /\ Asked(r) # r
    /\ \E share \in Releasable(Asked(r), r) :
          Advance(r, Append(collect[r].got, share))
    /\ UNCHANGED <<upload, wire, row, manifest, stored>>

(* It is this node itself, is down, has no row or refuses the one found,   *)
(* or the call fails.                                                      *)
HolderMissed(r) ==
    /\ Asking(r)
    /\ Advance(r, collect[r].got)
    /\ UNCHANGED <<upload, wire, row, manifest, stored>>

RecipientCrashes(r) ==
    /\ Asking(r)
    /\ collect' = [collect EXCEPT ![r] = None]
    /\ UNCHANGED <<upload, wire, row, manifest, stored>>

-----------------------------------------------------------------------------
Uploading ==
    \/ \E k \in Keys, u \in Uploaders, r \in Recipients,
          hs \in HolderLists, m \in Indices : BeginUpload(k, u, r, hs, m)
    \/ \E k \in Keys : ShareAnswered(k) \/ UploadFails(k)

Holding == \E k \in Keys, i \in Indices : PeerStore(k, i) \/ PeerRefuses(k, i)

Collecting ==
    \/ \E r \in Recipients, n \in Nodes : FetchManifest(r, n)
    \/ \E r \in Recipients : \/ BeginCollect(r)
                             \/ ShareReleased(r)
                             \/ HolderMissed(r)
                             \/ RecipientCrashes(r)

Next == Uploading \/ Holding \/ Collecting

Spec == Init /\ [][Next]_vars

-----------------------------------------------------------------------------
(* Properties *)

(* Whoever has a manifest can count on it: each of its holders has a share *)
(* under the index the manifest gives it (perhaps of a later upload), also *)
(* when uploads of the file overlap, fail half way or arrive late.         *)
PublishedSharesAreHeld ==
    \A n \in Nodes : manifest[n] # None =>
        LET hs == upload[manifest[n]].holders IN
        \A i \in DOMAIN hs : row[hs[i]][i] # None

(* README 10: no key without a quorum.  A key that a node combines was     *)
(* split for that node, and as many of its shares as the split needs, all  *)
(* different, were stored by holders of the manifest the node has, also    *)
(* when other uploads of the file replace the rows it collects from.       *)
DecryptsByQuorum ==
    \A r \in Recipients : collect[r] # None =>
        LET k == collect[r].result  got == collect[r].got IN
        k \in Keys =>
            /\ upload[k].recipient = r
            /\ Len(got) >= upload[k].need
            /\ ~Repeated(got)
            /\ \A p \in DOMAIN got :
                  /\ <<k, got[p].index>> \in stored
                  /\ \E j \in DOMAIN upload[collect[r].manifest].holders :
                        upload[collect[r].manifest].holders[j]
                          = upload[k].holders[got[p].index]

(* A download whose shares combine to anything else than the key of its    *)
(* manifest has met a share of another upload of the file, made for the    *)
(* same recipient and stored by one of the manifest's holders.             *)
Met(r, k, i) ==
    LET hs == upload[collect[r].manifest].holders IN
    /\ <<k, i>> \in stored
    /\ k # collect[r].manifest
    /\ upload[k].recipient = r
    /\ \E j \in DOMAIN hs : hs[j] = upload[k].holders[i]

WrongKeyNeedsAnotherUpload ==
    \A r \in Recipients : collect[r] # None =>
        \/ collect[r].result \in {None, "short", "error", collect[r].manifest}
        \/ \E k \in Keys, i \in Indices : Met(r, k, i)

(* threshold.py: "any M shares can reconstruct it".  M holders of the      *)
(* manifest have released a share each, so the key is that of the manifest *)
(* (not so once the file has been uploaded again, even in vain).           *)
AnySharesReconstruct ==
    \A r \in Recipients : collect[r] # None =>
        collect[r].result \in {None, "short", collect[r].manifest}
==============================================================================
