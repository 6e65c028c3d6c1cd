--------------------------- MODULE KeySharesProofs ---------------------------
(***************************************************************************)
(* Proofs about KeyShares for any number of uploads, holders, recipients   *)
(* and shares.                                                             *)
(***************************************************************************)
EXTENDS KeyShares, TLAPS

USE NoneAssumption, HolderListsAssumption

-----------------------------------------------------------------------------
(* The inductive invariant *)

Length(k) == Len(upload[k].holders)

(* An upload has stored every share before the one it waits for. *)
UploadSound ==
    \A k \in Keys : upload[k] # None =>
        /\ upload[k].next <= Length(k)
        /\ \A i \in Indices : i < upload[k].next => <<k, i>> \in stored
        /\ upload[k].status = "saved" =>
              \A i \in Indices : i <= Length(k) => <<k, i>> \in stored

(* A share sent or stored is one of its upload. *)
ShareSound ==
    \A k \in Keys, i \in Indices : <<k, i>> \in wire \cup stored =>
        upload[k] # None /\ i <= Length(k)

(* A row holds a share that its upload has sent to this holder. *)
RowSound ==
    \A h \in Holders, i \in Indices : row[h][i] # None =>
        <<row[h][i], i>> \in stored /\ upload[row[h][i]].holders[i] = h

(* A stored share may be replaced but never removed. *)
StoredHeld ==
    \A k \in Keys, i \in Indices : <<k, i>> \in stored =>
        row[upload[k].holders[i]][i] # None

(* Only a saved upload has a manifest. *)
ManifestSound ==
    \A n \in Nodes : manifest[n] # None =>
        upload[manifest[n]] # None /\ upload[manifest[n]].status = "saved"

(* A share that r has got comes from a row made for r at a holder asked. *)
GotSound(r) ==
    \A p \in 1 .. Len(collect[r].got) :
        LET g == collect[r].got[p] IN
        /\ <<g.key, g.index>> \in stored
        /\ upload[g.key].recipient = r
        /\ \E j \in 1 .. Length(collect[r].manifest) :
              upload[collect[r].manifest].holders[j]
                = upload[g.key].holders[g.index]

CollectSound ==
    \A r \in Recipients : collect[r] # None =>
        /\ upload[collect[r].manifest] # None
        /\ collect[r].result = None =>
              /\ collect[r].next \in 1 .. Length(collect[r].manifest)
              /\ ~Enough(collect[r].got, collect[r].manifest)
        /\ collect[r].result \in Keys => upload[collect[r].result] # None
        /\ GotSound(r)

Sound == UploadSound /\ ShareSound /\ RowSound /\ StoredHeld /\ ManifestSound

IInv == TypeOK /\ Sound /\ CollectSound /\ DecryptsByQuorum
        /\ WrongKeyNeedsAnotherUpload

-----------------------------------------------------------------------------
(* Lists of holders and uploads *)

(* The members of an upload's list are holders, at most MaxShares of them. *)
LEMMA HoldersOf ==
  ASSUME TypeOK, NEW k \in Keys, upload[k] # None
  PROVE  /\ upload[k] \in Upload
         /\ Length(k) \in Indices
         /\ DOMAIN upload[k].holders = 1 .. Length(k)
         /\ \A i \in 1 .. Length(k) : i \in Indices /\ upload[k].holders[i] \in Holders
<1>1. upload[k] \in Upload
  BY DEF TypeOK
<1>2. upload[k].holders \in HolderLists
  BY <1>1 DEF Upload
<1>3. upload[k].holders \in Seq(Holders) /\ Length(k) \in Indices
  BY <1>2 DEF Length
<1> QED
  BY <1>1, <1>3 DEF Indices, Length

(* What no step takes back: the plan of an upload, and what is stored. *)
Grows ==
    /\ \A k \in Keys : upload[k] # None =>
          /\ upload'[k] # None
          /\ upload'[k].recipient = upload[k].recipient
          /\ upload'[k].holders = upload[k].holders
          /\ upload'[k].need = upload[k].need
    /\ stored \subseteq stored'

(* A step that leaves the downloads alone keeps what holds of them. *)
LEMMA CollectStable ==
  ASSUME IInv, Grows, collect' = collect
  PROVE  CollectSound' /\ DecryptsByQuorum' /\ WrongKeyNeedsAnotherUpload'
<1>1. ASSUME NEW k \in Keys, upload[k] # None
      PROVE  Length(k)' = Length(k)
  BY <1>1 DEF Grows, Length
<1>2. ASSUME NEW r \in Recipients, collect[r] # None
      PROVE  /\ collect[r] \in Collection
             /\ collect[r].manifest \in Keys
             /\ collect[r].got \in Seq(Share)
             /\ upload[collect[r].manifest] # None
             /\ upload'[collect[r].manifest] # None
             /\ upload'[collect[r].manifest].holders
                  = upload[collect[r].manifest].holders
             /\ upload'[collect[r].manifest].need
                  = upload[collect[r].manifest].need
  BY <1>2 DEF IInv, TypeOK, CollectSound, Grows, Collection
<1>3. ASSUME NEW k \in Keys, NEW i \in Indices, <<k, i>> \in stored
      PROVE  /\ upload[k] # None
             /\ upload'[k].recipient = upload[k].recipient
             /\ upload'[k].holders = upload[k].holders
             /\ upload'[k].need = upload[k].need
             /\ <<k, i>> \in stored'
  BY <1>3 DEF IInv, Sound, ShareSound, Grows
<1>4. ASSUME NEW r \in Recipients, collect[r] # None, GotSound(r)
      PROVE  GotSound(r)'
  <2> SUFFICES ASSUME NEW p \in 1 .. Len(collect[r].got)
               PROVE  LET g == collect[r].got[p] IN
                      /\ <<g.key, g.index>> \in stored'
                      /\ upload'[g.key].recipient = r
                      /\ \E j \in 1 .. Length(collect[r].manifest)' :
                            upload'[collect[r].manifest].holders[j]
                              = upload'[g.key].holders[g.index]
    BY DEF GotSound, Length
  <2> DEFINE g == collect[r].got[p]
  <2>1. g \in Share
    BY <1>4, <1>2
  <2>2. g.key \in Keys /\ g.index \in Indices
    BY <2>1 DEF Share
  <2>3. /\ <<g.key, g.index>> \in stored
        /\ upload[g.key].recipient = r
        /\ \E j \in 1 .. Length(collect[r].manifest) :
              upload[collect[r].manifest].holders[j]
                = upload[g.key].holders[g.index]
    BY <1>4 DEF GotSound
  <2>4. upload'[collect[r].manifest].holders = upload[collect[r].manifest].holders
    BY <1>4, <1>2
  <2> HIDE DEF g
  <2> QED
    BY <2>2, <2>3, <2>4, <1>3 DEF Length, g
<1>5. CollectSound'
  <2> SUFFICES ASSUME NEW r \in Recipients, collect[r] # None
               PROVE  /\ upload'[collect[r].manifest] # None
                      /\ collect[r].result = None =>
                            /\ collect[r].next \in 1 .. Length(collect[r].manifest)'
                            /\ ~Enough(collect[r].got, collect[r].manifest)'
                      /\ collect[r].result \in Keys =>
                            upload'[collect[r].result] # None
                      /\ GotSound(r)'
    BY DEF CollectSound
  <2>1. /\ collect[r].result = None =>
              /\ collect[r].next \in 1 .. Length(collect[r].manifest)
              /\ ~Enough(collect[r].got, collect[r].manifest)
        /\ collect[r].result \in Keys => upload[collect[r].result] # None
        /\ GotSound(r)
    BY DEF IInv, CollectSound
  <2>2. Enough(collect[r].got, collect[r].manifest)'
          <=> Enough(collect[r].got, collect[r].manifest)
    BY <1>2 DEF Enough
  <2>3. Length(collect[r].manifest)' = Length(collect[r].manifest)
    BY <1>1, <1>2
  <2>4. collect[r].result \in Keys => upload'[collect[r].result] # None
    BY <2>1 DEF Grows
  <2> QED
    BY <1>2, <1>4, <2>1, <2>2, <2>3, <2>4
<1>6. DecryptsByQuorum'
  <2> SUFFICES ASSUME NEW r \in Recipients, collect[r] # None,
                      collect[r].result \in Keys
               PROVE  LET k == collect[r].result  got == collect[r].got IN
                      /\ upload'[k].recipient = r
                      /\ Len(got) >= upload'[k].need
                      /\ ~Repeated(got)
                      /\ \A p \in DOMAIN got :
                            /\ <<k, got[p].index>> \in stored'
                            /\ \E j \in DOMAIN upload'[collect[r].manifest].holders :
                                  upload'[collect[r].manifest].holders[j]
                                    = upload'[k].holders[got[p].index]
    BY DEF DecryptsByQuorum, Repeated
  <2> DEFINE k == collect[r].result  got == collect[r].got
  <2>1. /\ upload[k].recipient = r
        /\ Len(got) >= upload[k].need
        /\ ~Repeated(got)
        /\ \A p \in DOMAIN got :
              /\ <<k, got[p].index>> \in stored
              /\ \E j \in DOMAIN upload[collect[r].manifest].holders :
                    upload[collect[r].manifest].holders[j]
                      = upload[k].holders[got[p].index]
    BY DEF IInv, DecryptsByQuorum
  <2>2. upload[k] # None
    BY DEF IInv, CollectSound
  <2>3. upload'[collect[r].manifest].holders = upload[collect[r].manifest].holders
    BY <1>2
  <2>4. /\ upload'[k].recipient = upload[k].recipient
        /\ upload'[k].holders = upload[k].holders
        /\ upload'[k].need = upload[k].need
        /\ stored \subseteq stored'
    BY <2>2 DEF Grows
  <2> HIDE DEF k, got
  <2> QED
    BY <2>1, <2>3, <2>4 DEF k, got
<1>7. WrongKeyNeedsAnotherUpload'
  <2>1. ASSUME NEW r \in Recipients, collect[r] # None,
               NEW k \in Keys, NEW i \in Indices, Met(r, k, i)
        PROVE  Met(r, k, i)'
    BY <2>1, <1>2, <1>3 DEF Met
  <2> QED
    BY <2>1 DEF IInv, WrongKeyNeedsAnotherUpload
<1> QED
  BY <1>5, <1>6, <1>7

-----------------------------------------------------------------------------
(* The steps of uploaders and holders *)

(* A new upload has sent its first share and stored none. *)
LEMMA BeginUploadStep ==
  ASSUME IInv, NEW k \in Keys, NEW u \in Uploaders, NEW r \in Recipients,
         NEW hs \in HolderLists, NEW m \in Indices, BeginUpload(k, u, r, hs, m)
  PROVE  TypeOK' /\ Sound' /\ Grows /\ collect' = collect
<1> DEFINE new == [uploader |-> u, recipient |-> r, holders |-> hs,
                   need |-> m, next |-> 1, status |-> "sending"]
<1>1. /\ upload[k] = None
      /\ upload' = [upload EXCEPT ![k] = new]
      /\ wire' = wire \cup {<<k, 1>>}
      /\ UNCHANGED <<row, manifest, collect, stored>>
  BY DEF BeginUpload
<1>2. Len(hs) \in Indices /\ 1 \in Indices /\ 1 <= Len(hs)
  BY DEF Indices
<1>3. new \in Upload /\ new # None
  BY <1>2 DEF Upload
<1>4. TypeOK'
  BY <1>1, <1>2, <1>3 DEF IInv, TypeOK
<1>5. /\ upload'[k] = new
      /\ \A j \in Keys : j # k => upload'[j] = upload[j]
      /\ \A j \in Keys : j # k => Length(j)' = Length(j)
      /\ Length(k)' = Len(hs)
  BY <1>1 DEF IInv, TypeOK, Length
<1>6. \A i \in Indices : <<k, i>> \notin wire \cup stored
  BY <1>1 DEF IInv, Sound, ShareSound
<1>7. Grows
  BY <1>1, <1>5 DEF Grows
<1>8. Sound'
  <2>1. UploadSound'
    BY <1>1, <1>2, <1>5 DEF IInv, Sound, UploadSound, Indices
  <2>2. ShareSound'
    BY <1>1, <1>2, <1>3, <1>5 DEF IInv, Sound, ShareSound
  <2>3. RowSound'
    BY <1>1, <1>5, <1>6 DEF IInv, TypeOK, Sound, RowSound
  <2>4. StoredHeld'
    BY <1>1, <1>5, <1>6 DEF IInv, Sound, StoredHeld
  <2>5. ManifestSound'
    BY <1>1, <1>5 DEF IInv, TypeOK, Sound, ManifestSound
  <2> QED
    BY <2>1, <2>2, <2>3, <2>4, <2>5 DEF Sound
<1> QED
  BY <1>1, <1>4, <1>7, <1>8

(* Waiting for the next share or for nothing, and giving up, change only   *)
(* how far the upload is.                                                  *)
LEMMA ProgressStep ==
  ASSUME IInv, NEW k \in Keys, Sending(k),
         NEW new \in Upload, upload' = [upload EXCEPT ![k] = new],
         new.holders = upload[k].holders, new.need = upload[k].need,
         new.recipient = upload[k].recipient,
         new.next <= Length(k),
         \A i \in Indices : i < new.next => <<k, i>> \in stored,
         new.status = "saved" =>
            \A i \in Indices : i <= Length(k) => <<k, i>> \in stored,
         wire' \subseteq wire \cup {<<k, new.next>>},
         \/ manifest' = manifest
         \/ /\ new.status = "saved"
            /\ manifest' = [manifest EXCEPT ![upload[k].uploader] = k],
         UNCHANGED <<row, collect, stored>>
  PROVE  TypeOK' /\ Sound' /\ Grows /\ collect' = collect
<1>1. upload[k] \in Upload /\ upload[k] # None /\ upload[k].status # "saved"
  BY HoldersOf DEF IInv, Sending
<1>2. new # None
  OBVIOUS
<1>3. /\ upload'[k] = new
      /\ \A j \in Keys : j # k => upload'[j] = upload[j]
      /\ \A j \in Keys : upload'[j].holders = upload[j].holders
      /\ \A j \in Keys : Length(j)' = Length(j)
      /\ \A j \in Keys : upload[j] # None => upload'[j] # None
  BY <1>1 DEF IInv, TypeOK, Length
<1>4. TypeOK'
  <2>1. upload[k].uploader \in Nodes
    BY <1>1 DEF Upload, Nodes
  <2>2. wire' \in SUBSET (Keys \X Indices)
    BY DEF IInv, TypeOK, Upload
  <2> QED
    BY <2>1, <2>2 DEF IInv, TypeOK
<1>5. Grows
  BY <1>2, <1>3 DEF Grows
<1>6. UploadSound'
  BY <1>3 DEF IInv, Sound, UploadSound
<1>7. ShareSound'
  <2> SUFFICES ASSUME NEW j \in Keys, NEW i \in Indices,
                      <<j, i>> \in wire' \cup stored
               PROVE  upload'[j] # None /\ i <= Length(j)
    BY <1>3 DEF ShareSound
  <2>1. CASE <<j, i>> \in wire \cup stored
    BY <1>3, <2>1 DEF IInv, Sound, ShareSound
  <2>2. CASE j = k /\ i = new.next
    BY <1>3, <2>2
  <2> QED
    BY <2>1, <2>2
<1>8. RowSound'
  BY <1>2, <1>3 DEF IInv, TypeOK, Sound, RowSound
<1>9. StoredHeld'
  BY <1>3 DEF IInv, Sound, StoredHeld
<1>10. ManifestSound'
  <2>1. \A n \in Nodes : manifest'[n] # None =>
           manifest'[n] = manifest[n] \/ (new.status = "saved" /\ manifest'[n] = k)
    BY DEF IInv, TypeOK
  <2>2. \A n \in Nodes : manifest[n] # None =>
           manifest[n] \in Keys /\ manifest[n] # k
    BY <1>1 DEF IInv, TypeOK, Sound, ManifestSound
  <2> QED
    BY <1>2, <1>3, <2>1, <2>2 DEF IInv, Sound, ManifestSound
<1> QED
  BY <1>4, <1>5, <1>6, <1>7, <1>8, <1>9, <1>10 DEF Sound

(* The upload goes on only after the share it waits for is stored. *)
LEMMA ShareAnsweredStep ==
  ASSUME IInv, NEW k \in Keys, ShareAnswered(k)
  PROVE  TypeOK' /\ Sound' /\ Grows /\ collect' = collect
<1>1. /\ Sending(k) /\ upload[k] # None
      /\ <<k, upload[k].next>> \in stored
      /\ UNCHANGED <<row, collect, stored>>
  BY DEF ShareAnswered, Sending
<1>2. /\ upload[k] \in Upload
      /\ upload[k].next \in Indices
      /\ Length(k) \in Indices
  BY <1>1, HoldersOf DEF IInv, Upload
<1>3. \A i \in Indices : i <= upload[k].next => <<k, i>> \in stored
  BY <1>1, <1>2 DEF IInv, Sound, UploadSound, Indices
<1>4. CASE PostNext(k)
  <2> DEFINE new == [upload[k] EXCEPT !.next = upload[k].next + 1]
  <2>1. /\ upload[k].next < Length(k)
        /\ upload' = [upload EXCEPT ![k] = new]
        /\ wire' = wire \cup {<<k, upload[k].next + 1>>}
        /\ manifest' = manifest
    BY <1>4 DEF PostNext, Length
  <2>2. upload[k].next + 1 \in Indices /\ upload[k].next + 1 <= Length(k)
    BY <1>2, <2>1 DEF Indices
  <2>3. /\ new \in Upload /\ new.next = upload[k].next + 1
        /\ new.holders = upload[k].holders /\ new.need = upload[k].need
        /\ new.recipient = upload[k].recipient /\ new.status # "saved"
    BY <1>1, <1>2, <2>2 DEF Upload, Sending
  <2>4. \A i \in Indices : i < new.next => <<k, i>> \in stored
    BY <1>2, <1>3, <2>3 DEF Indices
  <2> HIDE DEF new
  <2> QED
    BY <1>1, <2>1, <2>2, <2>3, <2>4, ProgressStep
<1>5. CASE SaveManifest(k)
  <2> DEFINE new == [upload[k] EXCEPT !.status = "saved"]
  <2>1. /\ upload[k].next = Length(k)
        /\ upload' = [upload EXCEPT ![k] = new]
        /\ wire' = wire
        /\ manifest' = [manifest EXCEPT ![upload[k].uploader] = k]
    BY <1>5 DEF SaveManifest, Length
  <2>2. /\ new \in Upload /\ new.next = upload[k].next
        /\ new.holders = upload[k].holders /\ new.need = upload[k].need
        /\ new.recipient = upload[k].recipient /\ new.status = "saved"
    BY <1>2 DEF Upload
  <2>3. \A i \in Indices : i < new.next => <<k, i>> \in stored
    BY <1>2, <1>3, <2>2 DEF Indices
  <2>4. new.next <= Length(k)
    BY <1>2, <2>1, <2>2 DEF Indices
  <2> HIDE DEF new
  <2> QED
    BY <1>1, <1>3, <2>1, <2>2, <2>3, <2>4, ProgressStep
<1> QED
  BY <1>4, <1>5 DEF ShareAnswered

(* What was sent and stored stays so when the upload gives up. *)
LEMMA UploadFailsStep ==
  ASSUME IInv, NEW k \in Keys, UploadFails(k)
  PROVE  TypeOK' /\ Sound' /\ Grows /\ collect' = collect
<1> DEFINE new == [upload[k] EXCEPT !.status = "failed"]
<1>1. /\ Sending(k) /\ upload[k] # None
      /\ upload' = [upload EXCEPT ![k] = new]
      /\ UNCHANGED <<wire, row, manifest, collect, stored>>
  BY DEF UploadFails, Sending
<1>2. upload[k] \in Upload
  BY <1>1, HoldersOf DEF IInv
<1>3. /\ new \in Upload /\ new.next = upload[k].next
      /\ new.holders = upload[k].holders /\ new.need = upload[k].need
      /\ new.recipient = upload[k].recipient /\ new.status # "saved"
  BY <1>2 DEF Upload
<1>4. /\ upload[k].next <= Length(k)
      /\ \A i \in Indices : i < upload[k].next => <<k, i>> \in stored
  BY <1>1 DEF IInv, Sound, UploadSound
<1> HIDE DEF new
<1> QED
  BY <1>1, <1>3, <1>4, ProgressStep

(* A holder replaces one row by the share it was sent. *)
LEMMA PeerStoreStep ==
  ASSUME IInv, NEW k \in Keys, NEW i \in Indices, PeerStore(k, i)
  PROVE  TypeOK' /\ Sound' /\ Grows /\ collect' = collect
<1> DEFINE h == upload[k].holders[i]
<1>1. /\ <<k, i>> \in wire
      /\ wire' = wire \ {<<k, i>>}
      /\ row' = [row EXCEPT ![h][i] = k]
      /\ stored' = stored \cup {<<k, i>>}
      /\ UNCHANGED <<upload, manifest, collect>>
  BY DEF PeerStore
<1>2. upload[k] # None /\ i <= Length(k)
  BY <1>1 DEF IInv, Sound, ShareSound
<1>3. h \in Holders
  BY <1>2, HoldersOf DEF IInv, Indices
<1>4. /\ row'[h][i] = k
      /\ \A g \in Holders, j \in Indices :
            g # h \/ j # i => row'[g][j] = row[g][j]
  BY <1>1, <1>3 DEF IInv, TypeOK
<1>5. TypeOK'
  BY <1>1, <1>3 DEF IInv, TypeOK
<1>6. \A j \in Keys : Length(j)' = Length(j)
  BY <1>1 DEF Length
<1>7. Grows
  BY <1>1 DEF Grows
<1>8. UploadSound'
  BY <1>1, <1>6 DEF IInv, Sound, UploadSound
<1>9. ShareSound'
  BY <1>1, <1>2, <1>6 DEF IInv, Sound, ShareSound
<1>10. RowSound'
  BY <1>1, <1>3, <1>4 DEF IInv, Sound, RowSound
<1>11. StoredHeld'
  <2> SUFFICES ASSUME NEW l \in Keys, NEW j \in Indices, <<l, j>> \in stored'
               PROVE  row'[upload[l].holders[j]][j] # None
    BY <1>1 DEF StoredHeld
  <2>1. upload[l] # None /\ j <= Length(l)
    BY <1>1, <1>2 DEF IInv, Sound, ShareSound
  <2>2. upload[l].holders[j] \in Holders
    BY <2>1, HoldersOf DEF IInv, Indices
  <2>3. CASE upload[l].holders[j] = h /\ j = i
    BY <1>4, <2>3
  <2>4. CASE ~(upload[l].holders[j] = h /\ j = i)
    <3>1. <<l, j>> \in stored
      BY <1>1, <2>4
    <3>2. row[upload[l].holders[j]][j] # None
      BY <3>1 DEF IInv, Sound, StoredHeld
    <3> QED
      BY <1>4, <2>2, <2>4, <3>2
  <2> QED
    BY <2>3, <2>4
<1>12. ManifestSound'
  BY <1>1 DEF IInv, Sound, ManifestSound
<1> QED
  BY <1>1, <1>5, <1>7, <1>8, <1>9, <1>10, <1>11, <1>12 DEF Sound

(* A share refused or lost changes nothing else. *)
LEMMA PeerRefusesStep ==
  ASSUME IInv, NEW k \in Keys, NEW i \in Indices, PeerRefuses(k, i)
  PROVE  TypeOK' /\ Sound' /\ Grows /\ collect' = collect
BY DEF PeerRefuses, IInv, TypeOK, Sound, UploadSound, ShareSound, RowSound,
       StoredHeld, ManifestSound, Grows, Length

(* A cached manifest is one that a saved upload has published. *)
LEMMA FetchManifestStep ==
  ASSUME IInv, NEW r \in Recipients, NEW n \in Nodes, FetchManifest(r, n)
  PROVE  TypeOK' /\ Sound' /\ Grows /\ collect' = collect
BY DEF FetchManifest, IInv, TypeOK, Sound, UploadSound, ShareSound, RowSound,
       StoredHeld, ManifestSound, Grows, Length, Nodes

-----------------------------------------------------------------------------
(* The steps of recipients *)

(* What holds of every share a download has got, in terms of the list. *)
GotFor(r, m, got) ==
    \A p \in 1 .. Len(got) :
        /\ got[p].key \in Keys /\ got[p].index \in Indices
        /\ <<got[p].key, got[p].index>> \in stored
        /\ upload[got[p].key].recipient = r
        /\ \E j \in 1 .. Length(m) :
              upload[m].holders[j] = upload[got[p].key].holders[got[p].index]

(* Combining enough shares gives the key of the manifest, no key at all, or *)
(* the sign of another upload; and a key only with a quorum of its shares.  *)
LEMMA CombineSound ==
  ASSUME IInv, NEW r \in Recipients, NEW m \in Keys, upload[m] # None,
         NEW got \in Seq(Share), GotFor(r, m, got), Enough(got, m)
  PROVE  LET res == Combine(got) IN
         /\ res \in Keys \cup Failures
         /\ res \in Keys =>
               /\ upload[res] # None
               /\ upload[res].recipient = r
               /\ Len(got) >= upload[res].need
               /\ ~Repeated(got)
               /\ \A p \in 1 .. Len(got) : got[p].key = res
         /\ \/ res \in {"error", m}
            \/ \E p \in 1 .. Len(got) : got[p].key # m
<1>1. DOMAIN got = 1 .. Len(got) /\ Len(got) \in Nat
  OBVIOUS
<1>2. \A k \in Keys : upload[k] # None => upload[k].need \in Nat \ {0}
  BY DEF IInv, TypeOK, Upload, Indices
<1>3. CASE Repeated(got)
  BY <1>3 DEF Combine, Failures
<1>4. ASSUME ~Repeated(got), NEW k \in Keys, Reconstructs(got, k)
      PROVE  LET res == Combine(got) IN
             /\ res \in Keys /\ upload[res] # None
             /\ upload[res].recipient = r
             /\ Len(got) >= upload[res].need
             /\ \A p \in 1 .. Len(got) : got[p].key = res
             /\ \/ res = m
                \/ \E p \in 1 .. Len(got) : got[p].key # m
  <2> DEFINE res == CHOOSE l \in Keys : Reconstructs(got, l)
  <2>1. Combine(got) = res
    BY <1>4 DEF Combine
  <2>2. res \in Keys /\ Reconstructs(got, res)
    BY <1>4
  <2> HIDE DEF res
  <2>3. /\ upload[res] # None
        /\ Len(got) >= upload[res].need
        /\ \A p \in 1 .. Len(got) : got[p].key = res
    BY <2>2, <1>1 DEF Reconstructs
  <2>4. 1 \in 1 .. Len(got)
    BY <1>1, <1>2, <2>2, <2>3
  <2>5. got[1].key = res
    BY <2>3, <2>4
  <2>6. upload[res].recipient = r
    BY <2>4, <2>5 DEF GotFor
  <2> QED
    BY <2>1, <2>2, <2>3, <2>4, <2>5, <2>6
<1>5. CASE ~Repeated(got) /\ ~\E k \in Keys : Reconstructs(got, k)
  <2>1. Combine(got) = "garbage"
    BY <1>5 DEF Combine
  <2>2. ~Reconstructs(got, m)
    BY <1>5
  <2>3. \E p \in 1 .. Len(got) : got[p].key # m
    BY <1>1, <2>2 DEF Reconstructs, Enough
  <2> QED
    BY <2>1, <2>3 DEF Failures
<1>6. CASE ~Repeated(got) /\ \E k \in Keys : Reconstructs(got, k)
  BY <1>4, <1>6
<1> QED
  BY <1>3, <1>5, <1>6

(* What the invariant says of a download c of r. *)
DownloadSound(r, c) ==
    /\ upload[c.manifest] # None
    /\ c.result = None =>
          c.next \in 1 .. Length(c.manifest) /\ ~Enough(c.got, c.manifest)
    /\ c.result \in Keys =>
          /\ upload[c.result] # None
          /\ upload[c.result].recipient = r
          /\ Len(c.got) >= upload[c.result].need
          /\ ~Repeated(c.got)
          /\ \A p \in 1 .. Len(c.got) : c.got[p].key = c.result
    /\ GotFor(r, c.manifest, c.got)
    /\ \/ c.result \in {None, "short", "error", c.manifest}
       \/ \E p \in 1 .. Len(c.got) : c.got[p].key # c.manifest

(* A step that puts r's download in such a state keeps the invariant. *)
LEMMA OneDownloadStep ==
  ASSUME IInv, NEW r \in Recipients, NEW new \in Collection \cup {None},
         collect' = [collect EXCEPT ![r] = new],
         new # None => DownloadSound(r, new),
         UNCHANGED <<upload, wire, row, manifest, stored>>
  PROVE  IInv'
<1> DEFINE m == new.manifest  got == new.got  res == new.result
<1>1. ASSUME new # None
      PROVE  /\ m \in Keys /\ upload[m] # None /\ got \in Seq(Share)
             /\ Length(m) \in Nat /\ DOMAIN upload[m].holders = 1 .. Length(m)
             /\ DOMAIN got = 1 .. Len(got)
  <2>1. new \in Collection
    BY <1>1
  <2>2. m \in Keys /\ upload[m] # None /\ got \in Seq(Share)
    BY <2>1, <1>1 DEF Collection, DownloadSound
  <2> QED
    BY <2>2, HoldersOf DEF IInv, Indices
<1>2. /\ collect'[r] = new
      /\ \A s \in Recipients : s # r => collect'[s] = collect[s]
  BY DEF IInv, TypeOK
<1>3. /\ TypeOK'
      /\ \A k \in Keys : Length(k)' = Length(k)
  BY DEF IInv, TypeOK, Length
<1>4. Sound'
  BY <1>3 DEF IInv, Sound, UploadSound, ShareSound, RowSound, StoredHeld,
              ManifestSound
<1>5. CollectSound'
  <2>1. ASSUME NEW s \in Recipients,
               GotFor(s, collect'[s].manifest, collect'[s].got)
        PROVE  GotSound(s)'
    <3> SUFFICES ASSUME NEW p \in 1 .. Len(collect'[s].got)
                 PROVE  LET g == collect'[s].got[p] IN
                        /\ <<g.key, g.index>> \in stored
                        /\ upload[g.key].recipient = s
                        /\ \E j \in 1 .. Len(upload[collect'[s].manifest].holders) :
                              upload[collect'[s].manifest].holders[j]
                                = upload[g.key].holders[g.index]
      BY DEF GotSound, Length
    <3> QED
      BY <2>1 DEF GotFor, Length
  <2>2. ASSUME new # None PROVE GotSound(r)'
    BY <2>1, <2>2, <1>2 DEF DownloadSound
  <2>3. ASSUME NEW s \in Recipients, s # r, collect[s] # None, GotSound(s)
        PROVE  GotSound(s)'
    <3>1. collect[s].got \in Seq(Share)
      BY <2>3 DEF IInv, TypeOK, Collection
    <3>2. \A p \in 1 .. Len(collect[s].got) :
             collect[s].got[p].key \in Keys /\ collect[s].got[p].index \in Indices
      <4>1. \A p \in 1 .. Len(collect[s].got) : collect[s].got[p] \in Share
        BY <3>1
      <4> QED
        BY <4>1 DEF Share
    <3>3. GotFor(s, collect[s].manifest, collect[s].got)
      BY <2>3, <3>2 DEF GotFor, GotSound
    <3> QED
      BY <2>1, <2>3, <3>3, <1>2
  <2> SUFFICES ASSUME NEW s \in Recipients, collect'[s] # None
               PROVE  /\ upload[collect'[s].manifest] # None
                      /\ collect'[s].result = None =>
                            /\ collect'[s].next \in 1 .. Length(collect[s].manifest)'
                            /\ ~Enough(collect[s].got, collect[s].manifest)'
                      /\ collect'[s].result \in Keys =>
                            upload[collect'[s].result] # None
                      /\ GotSound(s)'
    BY DEF CollectSound
  <2>4. CASE s = r
    <3>1. new # None /\ collect'[s] = new
      BY <2>4, <1>2
    <3> QED
      BY <2>2, <2>4, <3>1 DEF Length, Enough, DownloadSound
  <2>5. CASE s # r
    BY <2>3, <2>5, <1>2 DEF IInv, CollectSound, Length, Enough
  <2> QED
    BY <2>4, <2>5
<1>6. DecryptsByQuorum'
  <2> SUFFICES ASSUME NEW s \in Recipients, collect'[s] # None,
                      collect'[s].result \in Keys
               PROVE  LET k == collect'[s].result  gs == collect'[s].got IN
                      /\ upload[k].recipient = s
                      /\ Len(gs) >= upload[k].need
                      /\ ~Repeated(gs)
                      /\ \A p \in DOMAIN gs :
                            /\ <<k, gs[p].index>> \in stored
                            /\ \E j \in DOMAIN upload[collect'[s].manifest].holders :
                                  upload[collect'[s].manifest].holders[j]
                                    = upload[k].holders[gs[p].index]
    BY DEF DecryptsByQuorum, Repeated
  <2>1. CASE s = r
    <3>1. collect'[s] = new /\ res \in Keys /\ new # None
      BY <2>1, <1>2
    <3>2. \A p \in 1 .. Len(got) :
             /\ <<res, got[p].index>> \in stored
             /\ \E j \in 1 .. Length(m) :
                   upload[m].holders[j] = upload[res].holders[got[p].index]
      BY <3>1 DEF GotFor, DownloadSound
    <3>3. /\ upload[res].recipient = s
          /\ Len(got) >= upload[res].need
          /\ ~Repeated(got)
      BY <2>1, <3>1 DEF DownloadSound
    <3>4. /\ DOMAIN got = 1 .. Len(got)
          /\ DOMAIN upload[m].holders = 1 .. Length(m)
      BY <3>1, <1>1
    <3>5. /\ collect'[s].result = res /\ collect'[s].got = got
          /\ collect'[s].manifest = m
      BY <3>1
    <3> HIDE DEF m, got, res
    <3>6. /\ upload[res].recipient = s
          /\ Len(got) >= upload[res].need
          /\ ~Repeated(got)
          /\ \A p \in DOMAIN got :
                /\ <<res, got[p].index>> \in stored
                /\ \E j \in DOMAIN upload[m].holders :
                      upload[m].holders[j] = upload[res].holders[got[p].index]
      BY <3>2, <3>3, <3>4
    <3> QED
      <4>1. upload[collect'[s].result].recipient = s
        BY <3>5, <3>6
      <4>2. Len(collect'[s].got) >= upload[collect'[s].result].need
        BY <3>5, <3>6
      <4>3. ~Repeated(collect'[s].got)
        BY <3>5, <3>6
      <4>4. ASSUME NEW p \in DOMAIN collect'[s].got
            PROVE  /\ <<collect'[s].result, collect'[s].got[p].index>> \in stored
                   /\ \E j \in DOMAIN upload[collect'[s].manifest].holders :
                         upload[collect'[s].manifest].holders[j]
                           = upload[collect'[s].result].holders[collect'[s].got[p].index]
        <5>1. /\ p \in DOMAIN got
              /\ collect'[s].got[p].index = got[p].index
          BY <4>4, <3>5
        <5>2. /\ <<res, got[p].index>> \in stored
              /\ \E j \in DOMAIN upload[m].holders :
                    upload[m].holders[j] = upload[res].holders[got[p].index]
          BY <5>1, <3>6
        <5>3. PICK j \in DOMAIN upload[m].holders :
                    upload[m].holders[j] = upload[res].holders[got[p].index]
          BY <5>2
        <5>4. /\ j \in DOMAIN upload[collect'[s].manifest].holders
              /\ upload[collect'[s].manifest].holders[j]
                   = upload[collect'[s].result].holders[collect'[s].got[p].index]
          BY <5>1, <5>3, <3>5
        <5>5. <<collect'[s].result, collect'[s].got[p].index>> \in stored
          BY <5>1, <5>2, <3>5
        <5> QED
          BY <5>4, <5>5
      <4> QED
        BY <4>1, <4>2, <4>3, <4>4
  <2>2. CASE s # r
    <3>1. collect'[s] = collect[s]
      BY <2>2, <1>2
    <3> DEFINE k == collect[s].result  gs == collect[s].got
               hs == upload[collect[s].manifest].holders
    <3>2. /\ upload[k].recipient = s
          /\ Len(gs) >= upload[k].need
          /\ ~Repeated(gs)
          /\ \A p \in DOMAIN gs :
                /\ <<k, gs[p].index>> \in stored
                /\ \E j \in DOMAIN hs : hs[j] = upload[k].holders[gs[p].index]
      BY <3>1 DEF IInv, DecryptsByQuorum
    <3> QED
      BY <3>1, <3>2
  <2> QED
    BY <2>1, <2>2
<1>7. WrongKeyNeedsAnotherUpload'
  <2>1. ASSUME new # None, NEW p \in 1 .. Len(got), got[p].key # m
        PROVE  /\ got[p].key \in Keys /\ got[p].index \in Indices
               /\ Met(r, got[p].key, got[p].index)'
    <3> DEFINE g == got[p]
    <3>1. /\ g.key \in Keys /\ g.index \in Indices
          /\ <<g.key, g.index>> \in stored
          /\ upload[g.key].recipient = r
          /\ \E j \in 1 .. Length(m) :
                upload[m].holders[j] = upload[g.key].holders[g.index]
      BY <2>1 DEF GotFor, DownloadSound
    <3>2. DOMAIN upload[m].holders = 1 .. Length(m)
      BY <2>1, <1>1
    <3>3. collect'[r].manifest = m
      BY <1>2
    <3>4. g.key # m
      BY <2>1
    <3> HIDE DEF g, m
    <3>5. Met(r, g.key, g.index)'
      BY <3>1, <3>2, <3>3, <3>4 DEF Met
    <3> QED
      BY <3>1, <3>5 DEF g
  <2>2. ASSUME NEW s \in Recipients, s # r,
               NEW k \in Keys, NEW i \in Indices, Met(s, k, i)
        PROVE  Met(s, k, i)'
    BY <2>2, <1>2 DEF Met
  <2> SUFFICES ASSUME NEW s \in Recipients, collect'[s] # None
               PROVE  \/ collect'[s].result
                            \in {None, "short", "error", collect'[s].manifest}
                      \/ \E k \in Keys, i \in Indices : Met(s, k, i)'
    BY DEF WrongKeyNeedsAnotherUpload
  <2>4. CASE s = r
    <3>1. collect'[s] = new /\ new # None
      BY <2>4, <1>2
    <3> QED
      BY <2>1, <2>4, <3>1 DEF DownloadSound
  <2>5. CASE s # r
    BY <2>2, <2>5, <1>2 DEF IInv, WrongKeyNeedsAnotherUpload
  <2> QED
    BY <2>4, <2>5
<1> QED
  BY <1>3, <1>4, <1>5, <1>6, <1>7 DEF IInv

(* A download goes on with what it has got and perhaps one share more. *)
LEMMA AdvanceStep ==
  ASSUME IInv, NEW r \in Recipients, Asking(r), NEW got \in Seq(Share),
         GotFor(r, collect[r].manifest, got), Advance(r, got),
         UNCHANGED <<upload, wire, row, manifest, stored>>
  PROVE  IInv'
<1> DEFINE m == collect[r].manifest
           res == Outcome(m, got, collect[r].next + 1)
           new == [manifest |-> m, next |-> collect[r].next + 1,
                   got |-> got, result |-> res]
<1>1. /\ collect[r] # None /\ collect[r] \in Collection
      /\ m \in Keys /\ collect[r].next \in Nat /\ upload[m] # None
      /\ collect[r].next \in 1 .. Length(m)
  BY DEF Asking, IInv, TypeOK, Collection, CollectSound
<1>2. Length(m) \in Nat /\ DOMAIN upload[m].holders = 1 .. Length(m)
  BY <1>1, HoldersOf DEF IInv, Indices
<1>3. DOMAIN got = 1 .. Len(got) /\ Len(got) \in Nat
  OBVIOUS
<1>4. collect' = [collect EXCEPT ![r] = new]
  BY DEF Advance
<1>5. /\ res \in Keys \cup Failures \cup {None}
      /\ res = None => collect[r].next + 1 \in 1 .. Length(m) /\ ~Enough(got, m)
      /\ res \in Keys =>
            /\ upload[res] # None
            /\ upload[res].recipient = r
            /\ Len(got) >= upload[res].need
            /\ ~Repeated(got)
            /\ \A p \in 1 .. Len(got) : got[p].key = res
      /\ \/ res \in {None, "short", "error", m}
         \/ \E p \in 1 .. Len(got) : got[p].key # m
  <2>1. CASE Enough(got, m)
    <3>1. res = Combine(got)
      BY <2>1 DEF Outcome
    <3> HIDE DEF res
    <3> QED
      BY <1>1, <2>1, <3>1, CombineSound
  <2>2. CASE ~Enough(got, m) /\ collect[r].next + 1 > Length(m)
    <3>1. res = "short"
      BY <2>2 DEF Outcome, Length
    <3> HIDE DEF res
    <3> QED
      BY <3>1 DEF Failures
  <2>3. CASE ~Enough(got, m) /\ ~(collect[r].next + 1 > Length(m))
    <3>1. res = None
      BY <2>3 DEF Outcome, Length
    <3> HIDE DEF res
    <3> QED
      BY <1>1, <1>2, <2>3, <3>1
  <2> QED
    BY <2>1, <2>2, <2>3
<1> HIDE DEF res
<1>6. /\ new \in Collection
      /\ new.manifest = m /\ new.next = collect[r].next + 1
      /\ new.got = got /\ new.result = res
  BY <1>1, <1>5 DEF Collection
<1> HIDE DEF new
<1> QED
  BY <1>1, <1>4, <1>5, <1>6, OneDownloadStep DEF DownloadSound

(* A released share was stored for this recipient by the holder asked. *)
LEMMA ShareReleasedStep ==
  ASSUME IInv, NEW r \in Recipients, ShareReleased(r)
  PROVE  IInv'
<1> DEFINE m == collect[r].manifest  next == collect[r].next
           h == upload[m].holders[next]
<1>1. PICK share \in Releasable(Asked(r), r) :
         Advance(r, Append(collect[r].got, share))
  BY DEF ShareReleased
<1>2. /\ collect[r] # None /\ m \in Keys /\ collect[r].got \in Seq(Share)
      /\ upload[m] # None /\ next \in 1 .. Length(m) /\ GotSound(r)
  BY DEF ShareReleased, Asking, IInv, TypeOK, Collection, CollectSound
<1>3. h \in Holders
  BY <1>2, HoldersOf DEF IInv
<1>0. \E j \in 1 .. Length(m) : upload[m].holders[j] = h
  BY <1>2
<1>4. PICK i \in Indices : /\ share = [index |-> i, key |-> row[h][i]]
                           /\ row[h][i] # None
                           /\ upload[row[h][i]].recipient = r
  BY <1>1 DEF Releasable, Allowed, Asked
<1> HIDE DEF m, next, h
<1>5. /\ share \in Share
      /\ <<share.key, share.index>> \in stored
      /\ upload[share.key].recipient = r
      /\ upload[share.key].holders[share.index] = h
  <2>1. /\ row[h][i] \in Keys
        /\ <<row[h][i], i>> \in stored /\ upload[row[h][i]].holders[i] = h
    BY <1>3, <1>4 DEF IInv, TypeOK, Sound, RowSound
  <2> QED
    BY <1>4, <2>1 DEF Share
<1>6. GotFor(r, m, Append(collect[r].got, share))
  <2> DEFINE old == collect[r].got  got == Append(collect[r].got, share)
  <2>1. /\ Len(got) = Len(old) + 1 /\ got[Len(old) + 1] = share
        /\ \A p \in 1 .. Len(old) : got[p] = old[p] /\ old[p] \in Share
        /\ 1 .. Len(got) = 1 .. Len(old) \cup {Len(old) + 1}
    BY <1>2, <1>5
  <2>2. GotFor(r, m, old)
    BY <1>2, <2>1 DEF GotFor, GotSound, Share, m
  <2> HIDE DEF got, old
  <2>3. ASSUME NEW p \in 1 .. Len(got)
        PROVE  /\ got[p].key \in Keys /\ got[p].index \in Indices
               /\ <<got[p].key, got[p].index>> \in stored
               /\ upload[got[p].key].recipient = r
               /\ \E j \in 1 .. Length(m) :
                     upload[m].holders[j] = upload[got[p].key].holders[got[p].index]
    <3>1. CASE p \in 1 .. Len(old)
      BY <2>1, <2>2, <3>1 DEF GotFor
    <3>2. CASE got[p] = share
      BY <1>0, <1>5, <3>2 DEF Share
    <3> QED
      BY <2>1, <3>1, <3>2
  <2> QED
    BY <2>3 DEF GotFor, got, old
<1>7. Append(collect[r].got, share) \in Seq(Share)
  BY <1>2, <1>5
<1> QED
  BY <1>1, <1>6, <1>7, AdvanceStep DEF ShareReleased, m

(* Passing over a holder adds nothing to what the download has got. *)
LEMMA HolderMissedStep ==
  ASSUME IInv, NEW r \in Recipients, HolderMissed(r)
  PROVE  IInv'
<1>1. /\ collect[r].got \in Seq(Share) /\ GotSound(r)
  BY DEF HolderMissed, Asking, IInv, TypeOK, Collection, CollectSound
<1>2. \A p \in 1 .. Len(collect[r].got) : collect[r].got[p] \in Share
  BY <1>1
<1>3. GotFor(r, collect[r].manifest, collect[r].got)
  BY <1>1, <1>2 DEF GotFor, GotSound, Share
<1> QED
  BY <1>1, <1>3, AdvanceStep DEF HolderMissed

(* A download starts at the first holder with nothing. *)
LEMMA BeginCollectStep ==
  ASSUME IInv, NEW r \in Recipients, BeginCollect(r)
  PROVE  IInv'
<1> DEFINE m == manifest[r]
           new == [manifest |-> m, next |-> 1, got |-> <<>>, result |-> None]
<1>1. /\ m # None /\ collect' = [collect EXCEPT ![r] = new]
      /\ UNCHANGED <<upload, wire, row, manifest, stored>>
  BY DEF BeginCollect
<1>2. m \in Keys /\ upload[m] # None
  BY <1>1 DEF IInv, TypeOK, Sound, ManifestSound, Nodes
<1>3. Length(m) \in Indices /\ upload[m].need \in Indices
  BY <1>2, HoldersOf DEF IInv, Upload
<1>4. 1 \in 1 .. Length(m) /\ ~Enough(<<>>, m)
  BY <1>3 DEF Indices, Enough
<1>5. /\ new \in Collection
      /\ new.manifest = m /\ new.next = 1 /\ new.got = <<>> /\ new.result = None
  BY <1>2 DEF Collection
<1>6. GotFor(r, m, <<>>)
  BY DEF GotFor
<1> HIDE DEF m, new
<1>7. DownloadSound(r, new)
  BY <1>2, <1>4, <1>5, <1>6 DEF DownloadSound
<1> QED
  BY <1>1, <1>5, <1>7, OneDownloadStep

(* A crash forgets the download and nothing else. *)
LEMMA RecipientCrashesStep ==
  ASSUME IInv, NEW r \in Recipients, RecipientCrashes(r)
  PROVE  IInv'
BY OneDownloadStep DEF RecipientCrashes

-----------------------------------------------------------------------------
(* The theorems *)

(* Every reachable state satisfies the inductive invariant. *)
LEMMA Invariance == Spec => []IInv
<1>1. Init => IInv
  BY DEF Init, IInv, TypeOK, Sound, UploadSound, ShareSound, RowSound,
         StoredHeld, ManifestSound, CollectSound, DecryptsByQuorum,
         WrongKeyNeedsAnotherUpload
<1>2. IInv /\ [Next]_vars => IInv'
  <2> SUFFICES ASSUME IInv, [Next]_vars PROVE IInv'
    OBVIOUS
  <2>1. ASSUME TypeOK' /\ Sound' /\ Grows /\ collect' = collect PROVE IInv'
    BY <2>1, CollectStable DEF IInv
  <2>2. ASSUME NEW k \in Keys, NEW u \in Uploaders, NEW r \in Recipients,
               NEW hs \in HolderLists, NEW m \in Indices,
               BeginUpload(k, u, r, hs, m)
        PROVE  IInv'
    BY <2>1, <2>2, BeginUploadStep
  <2>3. ASSUME NEW k \in Keys, ShareAnswered(k) PROVE IInv'
    BY <2>1, <2>3, ShareAnsweredStep
  <2>4. ASSUME NEW k \in Keys, UploadFails(k) PROVE IInv'
    BY <2>1, <2>4, UploadFailsStep
  <2>5. ASSUME NEW k \in Keys, NEW i \in Indices, PeerStore(k, i) PROVE IInv'
    BY <2>1, <2>5, PeerStoreStep
  <2>6. ASSUME NEW k \in Keys, NEW i \in Indices, PeerRefuses(k, i) PROVE IInv'
    BY <2>1, <2>6, PeerRefusesStep
  <2>7. ASSUME NEW r \in Recipients, NEW n \in Nodes, FetchManifest(r, n)
        PROVE  IInv'
    BY <2>1, <2>7, FetchManifestStep
  <2>8. ASSUME NEW r \in Recipients, BeginCollect(r) PROVE IInv'
    BY <2>8, BeginCollectStep
  <2>9. ASSUME NEW r \in Recipients, ShareReleased(r) PROVE IInv'
    BY <2>9, ShareReleasedStep
  <2>10. ASSUME NEW r \in Recipients, HolderMissed(r) PROVE IInv'
    BY <2>10, HolderMissedStep
  <2>11. ASSUME NEW r \in Recipients, RecipientCrashes(r) PROVE IInv'
    BY <2>11, RecipientCrashesStep
  <2>12. CASE UNCHANGED vars
    <3>1. Sound'
      BY <2>12 DEF vars, IInv, Sound, UploadSound, ShareSound, RowSound,
                   StoredHeld, ManifestSound, Length
    <3> QED
      BY <2>1, <2>12, <3>1 DEF vars, IInv, TypeOK, Grows
  <2> QED
    BY <2>2, <2>3, <2>4, <2>5, <2>6, <2>7, <2>8, <2>9, <2>10, <2>11, <2>12
       DEF Next, Uploading, Holding, Collecting
<1> QED
  BY <1>1, <1>2, PTL DEF Spec

(* The types of uploads, rows, manifests and downloads. *)
THEOREM TypeCorrect == Spec => []TypeOK
<1>1. IInv => TypeOK
  BY DEF IInv
<1> QED
  BY <1>1, Invariance, PTL

(* Each holder of a published manifest holds a share under its index. *)
THEOREM PublishedHeld == Spec => []PublishedSharesAreHeld
<1>1. IInv => PublishedSharesAreHeld
  <2> SUFFICES ASSUME IInv, NEW n \in Nodes, manifest[n] # None,
                      NEW i \in DOMAIN upload[manifest[n]].holders
               PROVE  row[upload[manifest[n]].holders[i]][i] # None
    BY DEF PublishedSharesAreHeld
  <2>1. /\ manifest[n] \in Keys /\ upload[manifest[n]] # None
        /\ upload[manifest[n]].status = "saved"
    BY DEF IInv, TypeOK, Sound, ManifestSound
  <2>2. i \in Indices /\ i <= Length(manifest[n])
    BY <2>1, HoldersOf DEF IInv, Indices
  <2>3. <<manifest[n], i>> \in stored
    BY <2>1, <2>2 DEF IInv, Sound, UploadSound
  <2> QED
    BY <2>1, <2>2, <2>3 DEF IInv, Sound, StoredHeld
<1> QED
  BY <1>1, Invariance, PTL

(* A key is combined only from a quorum of its own shares. *)
THEOREM QuorumNeeded == Spec => []DecryptsByQuorum
<1>1. IInv => DecryptsByQuorum
  BY DEF IInv
<1> QED
  BY <1>1, Invariance, PTL

(* One upload of a file alone can never lead to a wrong key. *)
THEOREM OneUploadDecrypts == Spec => []WrongKeyNeedsAnotherUpload
<1>1. IInv => WrongKeyNeedsAnotherUpload
  BY DEF IInv
<1> QED
  BY <1>1, Invariance, PTL
==============================================================================
