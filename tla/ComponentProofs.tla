--------------------------- MODULE ComponentProofs ---------------------------
(***************************************************************************)
(* What the components of the machine promise, proved for any values of    *)
(* their constants: images, turns, updates, new sessions and leases.       *)
(* Each is an instance of its module over the variables of the same names; *)
(* a theorem is about one of them.                                         *)
(***************************************************************************)
EXTENDS Integers, Sequences, FiniteSets, FiniteSetTheorems, TLAPS

CONSTANTS
  Uploads, Cancellable, Contents, Messages, Source, Fork, MaxRecords, MaxExpiries, MaxCuts,
  MaxClock, Busy, MaxPrompts, MaxStops, MaxRestarts, MaxFailures,
  Versions, Fates, MAX_ATTEMPTS, MaxFaults, Commands,
  Requests, Interactive, MaxDeaths,
  Children, Parent, Addressed, Renewals, Closes, Capacity, LeaseTime, LifeTime, MaxTime, Policies, Grant,
  None

VARIABLES
  index, tomb, pins, files, fin, ledger, told, cuts, expiries,
  clock, agent, life, hook, prev, disk, look, view, seen, used,
  target, bak, digest, staged, release, attempts, proven, daemon, upd, lock, fate, tries, faults,
  commands,
  receipt, pend, ready, tmux, call, boot, reader, removed,
  now, row, child, run, stop, input

Store == INSTANCE Attachments
Watch == INSTANCE TurnWatch
Release == INSTANCE ReleaseGuard
Create == INSTANCE SessionCreate WITH MaxFaults <- MaxDeaths
Lease == INSTANCE DelegationLease

\* An instance counts as everyone counts.
LEMMA CreateCounts == \A S : Create!Cardinality(S) = Cardinality(S)
BY DEF Create!Cardinality, Cardinality
LEMMA LeaseCounts ==
  \A S : Lease!Cardinality(S) = Cardinality(S) /\ (Lease!IsFiniteSet(S) <=> IsFiniteSet(S))
BY DEF Lease!Cardinality, Cardinality, Lease!IsFiniteSet, IsFiniteSet

-----------------------------------------------------------------------------
(* Attachments: rows, bytes and tombstones after a reap *)

StoreInv == Store!TypeOK /\ Store!UploadsInv

\* What a transaction finds after its reap: a record that is left is the one that was there,
\* with its file, and nothing pinned is gone.
LEMMA Reaped ==
  ASSUME Store!ConstantsOK, StoreInv
  PROVE  /\ Store!Rows \in [Uploads -> {None} \cup Store!Records]
         /\ Store!Bytes \in [Uploads -> {None} \cup Store!Images]
         /\ Store!Tombs \in [Uploads -> {"none", "kept", "due"}]
         /\ \A u \in Uploads :
              /\ Store!Rows[u] # None => Store!Rows[u] = index[u] /\ Store!Bytes[u] = files[u]
              /\ Store!Pinned(u) => /\ index[u] # None /\ index[u].phase = "retained"
                                    /\ Store!Rows[u] = index[u] /\ Store!Bytes[u] = files[u]
              /\ Store!Tombs[u] # "none" => tomb[u] # "none" /\ Store!Rows[u] = None
                                            /\ ~Store!Pinned(u)
<1>1. \A u \in Uploads : Store!Pinned(u) => index[u] # None /\ index[u].phase = "retained"
  BY DEF StoreInv, Store!UploadsInv, Store!PinsSound, Store!Pinned
<1> QED
  BY <1>1 DEF StoreInv, Store!TypeOK, Store!UploadsInv, Store!CancelledIsGone, Store!Rows, Store!Bytes,
    Store!Tombs, Store!Expired

\* Of a record that is left the bytes told are in its file.
LEMMA LeftIsTold ==
  ASSUME Store!ConstantsOK, StoreInv, NEW v \in Uploads, Store!Rows[v] # None
  PROVE  /\ Store!Rows[v].received = Len(told[v])
         /\ Store!Bytes[v] # None =>
              /\ Len(Store!Bytes[v]) >= Len(told[v])
              /\ SubSeq(Store!Bytes[v], 1, Len(told[v])) = told[v]
<1>1. Store!Rows[v] = index[v] /\ Store!Bytes[v] = files[v] BY Reaped
<1>2. Store!FilesSound BY DEF StoreInv, Store!UploadsInv
<1>3. index[v] # None BY <1>1
<1> QED BY <1>1, <1>2, <1>3 DEF Store!FilesSound

\* A pin names an upload, and its record is the pinned one.
LEMMA PinNames ==
  ASSUME StoreInv, NEW p \in pins
  PROVE  /\ p.ref \in Store!Refs /\ p.ref.id \in Uploads /\ p.ref.digest \in Contents
         /\ p.message \in Messages /\ p.target \in {Source, Fork}
         /\ Store!Pinned(p.ref.id)
BY DEF StoreInv, Store!TypeOK, Store!Pins, Store!Refs, Store!Ref, Store!Pinned

\* What is left of a file, and what is appended to it.
LEMMA Tails ==
  ASSUME NEW S, NEW s \in Seq(S), NEW t \in Seq(S), NEW c \in S,
         Len(s) >= Len(t), SubSeq(s, 1, Len(t)) = t
  PROVE  /\ t \o <<c>> = Append(t, c) /\ t \o <<c>> \in Seq(S)
         /\ Len(t \o <<c>>) = Len(t) + 1
         /\ SubSeq(t \o <<c>>, 1, Len(t)) = t
         /\ SubSeq(t \o <<c>>, 1, Len(t) + 1) = t \o <<c>>
OBVIOUS

\* Images are sequences, and short ones are images.
LEMMA ImagesAreSequences ==
  ASSUME NEW s
  PROVE  s \in Store!Images <=> s \in Seq(Contents) /\ Len(s) <= 2
<1>1. ASSUME s \in Store!Images PROVE s \in Seq(Contents) /\ Len(s) <= 2
  <2>1. PICK n \in 0..2 : s \in [1..n -> Contents] BY <1>1 DEF Store!Images, Store!Size
  <2>2. s \in Seq(Contents) BY <2>1
  <2>3. Len(s) = n BY <2>1
  <2> QED BY <2>1, <2>2, <2>3
<1>2. ASSUME s \in Seq(Contents), Len(s) <= 2 PROVE s \in Store!Images
  <2>1. Len(s) \in Nat /\ s \in [1..Len(s) -> Contents] BY <1>2
  <2>2. Len(s) \in 0..2 BY <1>2, <2>1
  <2> QED BY <2>1, <2>2 DEF Store!Images, Store!Size
<1> QED BY <1>1, <1>2

LEMMA WholeIsImage ==
  ASSUME NEW c \in Contents
  PROVE  Store!Whole(c) \in Store!Images
<1>1. Store!Whole(c) \in [1..2 -> Contents] BY DEF Store!Whole, Store!Size
<1>2. 2 \in 0..Store!Size BY DEF Store!Size
<1> QED BY <1>1, <1>2 DEF Store!Images

-----------------------------------------------------------------------------
(* Attachments: types *)

\* The edits of a record leave a record.
LEMMA RecordEdits ==
  ASSUME NEW r \in Store!Records, NEW u \in Uploads
  PROVE  /\ [r EXCEPT !.due = TRUE] \in Store!Records
         /\ [r EXCEPT !.phase = "retained"] \in Store!Records
         /\ [r EXCEPT !.phase = "verified", !.ref = Store!Ref(u, r.digest), !.due = FALSE]
              \in Store!Records
<1>1. Store!Ref(u, r.digest) \in Store!Refs BY DEF Store!Records, Store!Refs
<1>2. \A ref \in Store!Refs :
        [r EXCEPT !.phase = "verified", !.ref = ref, !.due = FALSE] \in Store!Records
  BY DEF Store!Records
<1>3. [r EXCEPT !.phase = "verified", !.ref = Store!Ref(u, r.digest), !.due = FALSE]
        \in Store!Records
  BY <1>1, <1>2
<1>4. [r EXCEPT !.due = TRUE] \in Store!Records /\ [r EXCEPT !.phase = "retained"] \in Store!Records
  BY DEF Store!Records
<1> QED BY <1>3, <1>4


LEMMA StoreTypes ==
  ASSUME Store!ConstantsOK, StoreInv, Store!Next
  PROVE  Store!TypeOK'
<1> USE Reaped
<1>1. ASSUME Store!readAttachmentChunk PROVE Store!TypeOK'
  BY <1>1 DEF Store!readAttachmentChunk, Store!Commit, StoreInv, Store!TypeOK
<1>2. ASSUME Store!ReapCut PROVE Store!TypeOK'
  BY <1>2 DEF Store!ReapCut, Store!Cut, StoreInv, Store!TypeOK
<1>3. ASSUME NEW u \in Uploads, Store!Expire(u) PROVE Store!TypeOK'
  <2>1. \A v \in Uploads : index[v] # None => [index[v] EXCEPT !.due = TRUE] \in Store!Records
    BY RecordEdits DEF StoreInv, Store!TypeOK
  <2> QED BY <1>3, <2>1 DEF Store!Expire, StoreInv, Store!TypeOK
<1>4. ASSUME NEW u \in Uploads, NEW c \in Contents, Store!beginUpload(u, c) PROVE Store!TypeOK'
  <2>1. Store!Uploading(c) \in Store!Records BY DEF Store!Uploading, Store!Records, Store!Size
  <2>2. <<>> \in [1..0 -> Contents] /\ 0 \in 0..2 OBVIOUS
  <2>3. <<>> \in Store!Images BY <2>2 DEF Store!Images, Store!Size
  <2> QED BY <1>4, <2>1, <2>3 DEF Store!beginUpload, Store!Commit, Store!EnsureUploadFile, StoreInv, Store!TypeOK
<1>5. ASSUME NEW u \in Uploads, NEW c \in Contents, Store!appendUpload(u, c) PROVE Store!TypeOK'
  <2> DEFINE old == Store!EnsureUploadFile(u)
             new == SubSeq(old, 1, Store!Rows[u].received) \o <<c>>
  <2>1. /\ Store!Rows[u] \in Store!Records /\ Store!Rows[u].received \in 0..1
        /\ old \in Seq(Contents) /\ Len(old) >= Store!Rows[u].received
    BY <1>5, ImagesAreSequences DEF Store!appendUpload, Store!EnsureUploadFile, Store!Records, Store!Size
  <2>2. new \in Seq(Contents) /\ Len(new) <= 2
    <3> HIDE DEF old
    <3> QED BY <2>1
  <2>3. new \in Store!Images BY <2>2, ImagesAreSequences
  <2>4. [Store!Rows[u] EXCEPT !.received = @ + 1] \in Store!Records
    BY <2>1 DEF Store!Records, Store!Size
  <2> HIDE DEF old
  <2>5. /\ index' = [Store!Rows EXCEPT ![u].received = @ + 1] \/ index' = Store!Rows
        /\ files' = [Store!Bytes EXCEPT ![u] = new] /\ tomb' = Store!Tombs
        /\ pins' = pins /\ fin' = fin /\ ledger' = ledger
    BY <1>5 DEF Store!appendUpload, Store!Commit, old
  <2> HIDE DEF new
  <2>6. index' \in [Uploads -> {None} \cup Store!Records] BY <2>4, <2>5
  <2>7. files' \in [Uploads -> {None} \cup Store!Images] BY <2>3, <2>5
  <2> QED BY <2>5, <2>6, <2>7 DEF StoreInv, Store!TypeOK
<1>6. ASSUME NEW u \in Uploads, Store!FinalizeRead(u) PROVE Store!TypeOK'
  <2>1. Store!Bytes[u] \in Store!Images
    BY <1>6, WholeIsImage DEF Store!FinalizeRead, Store!Records
  <2> QED BY <1>6, <2>1 DEF Store!FinalizeRead, Store!Commit, StoreInv, Store!TypeOK
<1>7. ASSUME Store!FinalizeCommit PROVE Store!TypeOK'
  <2> DEFINE u == fin.id
  <2>1. u \in Uploads BY <1>7 DEF Store!FinalizeCommit, StoreInv, Store!TypeOK
  <2>2. Store!Rows[u] # None =>
          [Store!Rows[u] EXCEPT !.phase = "verified", !.ref = Store!Ref(u, Store!Rows[u].digest),
             !.due = FALSE] \in Store!Records
    BY <2>1, RecordEdits
  <2>3. /\ tomb' = Store!Tombs /\ files' = Store!Bytes /\ pins' = pins /\ fin' = None /\ ledger' = ledger
        /\ \/ index' = Store!Rows
           \/ /\ Store!Rows[u] # None
              /\ index' = [Store!Rows EXCEPT ![u] = [Store!Rows[u] EXCEPT !.phase = "verified",
                   !.ref = Store!Ref(u, Store!Rows[u].digest), !.due = FALSE]]
    BY <1>7, <2>1 DEF Store!FinalizeCommit, Store!Commit
  <2>4. index' \in [Uploads -> {None} \cup Store!Records] BY <2>1, <2>2, <2>3
  <2> QED BY <2>3, <2>4 DEF StoreInv, Store!TypeOK
<1>8. ASSUME Store!FinalizeFails PROVE Store!TypeOK'
  BY <1>8 DEF Store!FinalizeFails, StoreInv, Store!TypeOK
<1>9. ASSUME NEW u \in Uploads, Store!cancelUpload(u) PROVE Store!TypeOK'
  BY <1>9 DEF Store!cancelUpload, Store!Commit, StoreInv, Store!TypeOK
<1>10. ASSUME NEW m \in Messages, NEW t \in {Source, Fork}, NEW r \in Store!Refs,
              Store!PinMessage(m, t, r)
       PROVE Store!TypeOK'
  <2>1. r.id \in Uploads /\ [message |-> m, target |-> t, ref |-> r] \in Store!Pins
    BY DEF Store!Refs, Store!Ref, Store!Pins
  <2>2. Store!Rows[r.id] # None => [Store!Rows[r.id] EXCEPT !.phase = "retained"] \in Store!Records
    BY <2>1, RecordEdits
  <2>3. /\ tomb' = Store!Tombs /\ files' = Store!Bytes /\ fin' = fin /\ ledger' \subseteq Messages
        /\ pins' \subseteq Store!Pins
        /\ \/ index' = Store!Rows
           \/ /\ Store!Rows[r.id] # None
              /\ index' = [Store!Rows EXCEPT ![r.id] = [Store!Rows[r.id] EXCEPT !.phase = "retained"]]
    BY <1>10, <2>1 DEF Store!PinMessage, Store!Pinnable, Store!Readable, Store!Commit, StoreInv, Store!TypeOK
  <2>4. index' \in [Uploads -> {None} \cup Store!Records] BY <2>1, <2>2, <2>3
  <2> QED BY <2>3, <2>4 DEF StoreInv, Store!TypeOK
<1>11. ASSUME Store!inheritAttachmentPins PROVE Store!TypeOK'
  <2>1. \A p \in pins : [p EXCEPT !.target = Fork] \in Store!Pins
    BY DEF StoreInv, Store!TypeOK, Store!Pins
  <2> QED BY <1>11, <2>1 DEF Store!inheritAttachmentPins, Store!Commit, StoreInv, Store!TypeOK
<1> QED BY <1>1, <1>2, <1>3, <1>4, <1>5, <1>6, <1>7, <1>8, <1>9, <1>10, <1>11
  DEF Store!Next, Store!Client, Store!Pin

-----------------------------------------------------------------------------
(* Attachments: what a step may do to a record and its file *)

\* A step that tells nothing, pins nothing and accepts nothing keeps the invariant if what it
\* leaves of an unpinned upload was there, or is a file made again for a record that has
\* received nothing, and it leaves what is pinned alone.
LEMMA Quiet ==
  ASSUME Store!ConstantsOK, StoreInv, pins' = pins, ledger' = ledger, told' = told,
         \A u \in Uploads :
           /\ index'[u] # None =>
                /\ index[u] # None /\ index'[u].received = index[u].received
                /\ \/ files'[u] \in {files[u], None}
                   \/ files'[u] = <<>> /\ index[u].received = 0
           /\ Store!Pinned(u) => /\ index'[u] # None /\ index'[u].phase = index[u].phase
                                 /\ index'[u].ref = index[u].ref /\ files'[u] = files[u]
           /\ tomb'[u] # "none" => index'[u] = None /\ ~Store!Pinned(u)
  PROVE  Store!UploadsInv'
<1>1. Store!PinsSound'
  BY PinNames DEF StoreInv, Store!UploadsInv, Store!PinsSound
<1>2. Store!LedgerSound' BY DEF StoreInv, Store!UploadsInv, Store!LedgerSound
<1>3. Store!FilesSound'
  <2> SUFFICES ASSUME NEW u \in Uploads
      PROVE /\ index'[u] # None => index'[u].received = Len(told'[u])
            /\ index'[u] # None /\ files'[u] # None =>
                 Len(files'[u]) >= Len(told'[u]) /\ SubSeq(files'[u], 1, Len(told'[u])) = told'[u]
    BY DEF Store!FilesSound, StoreInv, Store!UploadsInv
  <2>1. /\ told[u] \in Seq(Contents)
        /\ index[u] # None => index[u].received = Len(told[u])
        /\ index[u] # None /\ files[u] # None =>
             Len(files[u]) >= Len(told[u]) /\ SubSeq(files[u], 1, Len(told[u])) = told[u]
    BY DEF StoreInv, Store!UploadsInv, Store!FilesSound
  <2>2. CASE files'[u] = <<>> /\ index[u].received = 0 /\ index[u] # None
    <3>1. Len(told[u]) = 0 /\ told[u] = <<>> BY <2>1, <2>2
    <3>2. Len(<<>>) = 0 /\ SubSeq(<<>>, 1, 0) = <<>> OBVIOUS
    <3> QED BY <2>1, <2>2, <3>1, <3>2
  <2> QED BY <2>1, <2>2
<1>4. Store!CancelledIsGone' BY DEF Store!CancelledIsGone, Store!Pinned
<1> QED BY <1>1, <1>2, <1>3, <1>4 DEF Store!UploadsInv

-----------------------------------------------------------------------------
(* Attachments: each transaction keeps the invariant *)

LEMMA ReadKeeps ==
  ASSUME Store!ConstantsOK, StoreInv, Store!readAttachmentChunk
  PROVE  Store!UploadsInv'
BY Reaped, Quiet DEF Store!readAttachmentChunk, Store!Commit

LEMMA ReapCutKeeps ==
  ASSUME Store!ConstantsOK, StoreInv, Store!ReapCut
  PROVE  Store!UploadsInv'
BY Quiet DEF Store!ReapCut, Store!Expired, StoreInv, Store!TypeOK, Store!UploadsInv, Store!CancelledIsGone,
  Store!PinsSound, Store!Pinned

LEMMA ExpireKeeps ==
  ASSUME Store!ConstantsOK, StoreInv, NEW u \in Uploads, Store!Expire(u)
  PROVE  Store!UploadsInv'
<1>1. \A v \in Uploads : index[v] # None => index[v] \in Store!Records
  BY DEF StoreInv, Store!TypeOK
<1>2. \A v \in Uploads :
        /\ files'[v] = files[v] /\ (index'[v] = None <=> index[v] = None)
        /\ index[v] # None => /\ index'[v].received = index[v].received
                              /\ index'[v].phase = index[v].phase /\ index'[v].ref = index[v].ref
        /\ tomb'[v] # "none" => tomb[v] # "none"
  <2>1. CASE index[u] # None /\ index' = [index EXCEPT ![u].due = TRUE] /\ tomb' = tomb
    <3>1. [index[u] EXCEPT !.due = TRUE] # None BY <1>1, <2>1, RecordEdits DEF Store!ConstantsOK
    <3> QED BY <1>1, <2>1, <3>1 DEF Store!Expire, Store!Records, StoreInv, Store!TypeOK
  <2> QED BY <2>1 DEF Store!Expire, StoreInv, Store!TypeOK
<1>3. \A v \in Uploads : Store!Pinned(v) => index[v] # None
  BY DEF StoreInv, Store!UploadsInv, Store!PinsSound, Store!Pinned
<1>4. \A v \in Uploads : tomb[v] # "none" => index[v] = None /\ ~Store!Pinned(v)
  BY DEF StoreInv, Store!UploadsInv, Store!CancelledIsGone
<1> QED BY <1>2, <1>3, <1>4, Quiet DEF Store!Expire

LEMMA BeginKeeps ==
  ASSUME Store!ConstantsOK, StoreInv, NEW u \in Uploads, NEW c \in Contents, Store!beginUpload(u, c)
  PROVE  Store!UploadsInv'
<1> USE Reaped
<1>1. CASE Store!Rows[u] # None
  <2>1. /\ index' = Store!Rows /\ tomb' = Store!Tombs /\ pins' = pins /\ ledger' = ledger /\ told' = told
        /\ files' = [Store!Bytes EXCEPT ![u] = Store!EnsureUploadFile(u)]
    BY <1>1 DEF Store!beginUpload, Store!Commit
  <2>2. \/ Store!EnsureUploadFile(u) = Store!Bytes[u] /\ Store!Bytes[u] # None
        \/ Store!EnsureUploadFile(u) = <<>> /\ Store!Bytes[u] = None /\ index[u].received = 0
           /\ index[u].phase = "uploading"
    BY <1>1 DEF Store!beginUpload, Store!EnsureUploadFile
  <2> QED BY <1>1, <2>1, <2>2, Quiet
<1>2. CASE Store!Rows[u] = None
  <2>1. /\ Store!Tombs[u] = "none" /\ pins' = pins /\ ledger' = ledger
        /\ told' = [told EXCEPT ![u] = <<>>]
        /\ index' = [Store!Rows EXCEPT ![u] = Store!Uploading(c)] /\ tomb' = Store!Tombs
        /\ files' = Store!Bytes \/ files' = [Store!Bytes EXCEPT ![u] = <<>>]
    BY <1>2 DEF Store!beginUpload, Store!Commit
  <2>2. ~Store!Pinned(u) BY <1>2
  <2>3. Store!PinsSound'
    <3>1. \A p \in pins : p.ref.id # u BY <2>2 DEF Store!Pinned
    <3> QED BY <2>1, <3>1, PinNames DEF StoreInv, Store!UploadsInv, Store!PinsSound
  <2>4. Store!LedgerSound' BY <2>1 DEF StoreInv, Store!UploadsInv, Store!LedgerSound
  <2>5. Store!FilesSound'
    <3>1. told \in [Uploads -> Seq(Contents)] /\ <<>> \in Seq(Contents) /\ Len(<<>>) = 0
      BY DEF StoreInv, Store!UploadsInv, Store!FilesSound
    <3>2. told' \in [Uploads -> Seq(Contents)] BY <2>1, <3>1
    <3>3. ASSUME NEW v \in Uploads, index'[v] # None
          PROVE  /\ index'[v].received = Len(told'[v])
                 /\ files'[v] # None =>
                      Len(files'[v]) >= Len(told'[v]) /\ SubSeq(files'[v], 1, Len(told'[v])) = told'[v]
      <4>1. CASE v # u
        <5>1. index'[v] = Store!Rows[v] /\ files'[v] = Store!Bytes[v] /\ told'[v] = told[v]
          BY <2>1, <3>1, <4>1
        <5>2. Store!Rows[v] # None BY <3>3, <5>1
        <5> QED BY <5>1, <5>2, LeftIsTold
      <4>2. CASE v = u
        <5>1. index'[v].received = 0 /\ told'[v] = <<>> BY <2>1, <3>1, <4>2 DEF Store!Uploading
        <5>2. \A s \in Seq(Contents) : Len(s) >= 0 /\ SubSeq(s, 1, 0) = <<>> OBVIOUS
        <5>3. files'[v] = None \/ files'[v] \in Seq(Contents)
          BY <2>1, <3>1, <4>2, ImagesAreSequences
        <5> QED BY <3>1, <5>1, <5>2, <5>3
      <4> QED BY <4>1, <4>2
    <3> QED BY <3>2, <3>3 DEF Store!FilesSound
  <2>6. Store!CancelledIsGone' BY <2>1 DEF Store!CancelledIsGone, Store!Pinned
  <2> QED BY <2>3, <2>4, <2>5, <2>6 DEF Store!UploadsInv
<1> QED BY <1>1, <1>2

LEMMA AppendKeeps ==
  ASSUME Store!ConstantsOK, StoreInv, NEW u \in Uploads, NEW c \in Contents, Store!appendUpload(u, c)
  PROVE  Store!UploadsInv'
<1> USE Reaped
<1> DEFINE old == Store!EnsureUploadFile(u)
           had == told[u]
           new == had \o <<c>>
<1>1. /\ Store!Rows[u] = index[u] /\ index[u] # None /\ index[u].phase = "uploading"
      /\ index[u] \in Store!Records
  BY DEF Store!appendUpload
<1>2. ~Store!Pinned(u) BY <1>1
<1>3. had \in Seq(Contents) /\ index[u].received = Len(had) /\ told \in [Uploads -> Seq(Contents)]
  BY <1>1 DEF StoreInv, Store!UploadsInv, Store!FilesSound
<1>4. old \in Seq(Contents) /\ Len(old) >= Len(had) /\ SubSeq(old, 1, Len(had)) = had
  <2>1. CASE Store!Bytes[u] # None
    <3>1. old = files[u] /\ files[u] # None /\ files[u] \in Store!Images
      BY <1>1, <2>1 DEF Store!EnsureUploadFile
    <3> QED BY <1>1, <3>1, ImagesAreSequences DEF StoreInv, Store!UploadsInv, Store!FilesSound
  <2>2. CASE Store!Bytes[u] = None
    <3>1. old = <<>> /\ Len(had) = 0 BY <1>1, <1>3, <2>2 DEF Store!appendUpload, Store!EnsureUploadFile
    <3>2. had = <<>> BY <1>3, <3>1
    <3>3. <<>> \in Seq(Contents) /\ Len(<<>>) = 0 /\ SubSeq(<<>>, 1, 0) = <<>> OBVIOUS
    <3> QED BY <3>1, <3>2, <3>3
  <2> QED BY <2>1, <2>2
<1>5. SubSeq(old, 1, Store!Rows[u].received) \o <<c>> = new BY <1>1, <1>3, <1>4
<1>6. /\ tomb' = Store!Tombs /\ files' = [Store!Bytes EXCEPT ![u] = new]
      /\ pins' = pins /\ ledger' = ledger
      /\ \/ index' = [Store!Rows EXCEPT ![u].received = @ + 1] /\ told' = [told EXCEPT ![u] = Append(@, c)]
         \/ index' = Store!Rows /\ told' = told
  BY <1>5 DEF Store!appendUpload, Store!Commit
<1>7. /\ new = Append(had, c) /\ new \in Seq(Contents) /\ Len(new) = Len(had) + 1
      /\ SubSeq(new, 1, Len(had)) = had /\ SubSeq(new, 1, Len(had) + 1) = new
  BY <1>3
<1> HIDE DEF old, new, had
<1>8. Store!PinsSound'
  <2>1. \A p \in pins : p.ref.id # u BY <1>2 DEF Store!Pinned
  <2> QED BY <1>6, <2>1, PinNames DEF StoreInv, Store!UploadsInv, Store!PinsSound
<1>9. Store!LedgerSound' BY <1>6 DEF StoreInv, Store!UploadsInv, Store!LedgerSound
<1>10. Store!FilesSound'
  <2>1. told' \in [Uploads -> Seq(Contents)] BY <1>3, <1>6, <1>7 DEF had
  <2>2. \A v \in Uploads \ {u} : index'[v] = Store!Rows[v] /\ files'[v] = Store!Bytes[v] /\ told'[v] = told[v]
    BY <1>3, <1>6
  <2>3. files'[u] = new BY <1>6
  <2>4. \/ index'[u].received = Len(had) + 1 /\ told'[u] = new
        \/ index'[u].received = Len(had) /\ told'[u] = had
    <3>1. [index[u] EXCEPT !.received = @ + 1].received = index[u].received + 1
      BY <1>1 DEF Store!Records
    <3>2. Store!Rows[u] = index[u] /\ index[u].received = Len(had) /\ told[u] = had BY <1>1, <1>3 DEF had
    <3>3. u \in DOMAIN Store!Rows /\ u \in DOMAIN told BY <1>1, <1>3
    <3>4. CASE /\ index' = [Store!Rows EXCEPT ![u].received = @ + 1] /\ told' = [told EXCEPT ![u] = Append(@, c)]
      <4>1. index'[u] = [index[u] EXCEPT !.received = @ + 1] BY <3>2, <3>3, <3>4
      <4>2. told'[u] = Append(had, c) BY <3>2, <3>3, <3>4
      <4> QED BY <1>7, <3>1, <3>2, <4>1, <4>2
    <3>5. CASE index' = Store!Rows /\ told' = told BY <3>2, <3>5
    <3> QED BY <1>6, <3>4, <3>5
  <2>5. Len(had) \in Nat BY <1>3
  <2>6. ASSUME NEW v \in Uploads, index'[v] # None
        PROVE  /\ index'[v].received = Len(told'[v])
               /\ files'[v] # None =>
                    Len(files'[v]) >= Len(told'[v]) /\ SubSeq(files'[v], 1, Len(told'[v])) = told'[v]
    <3>1. CASE v # u
      <4>1. index'[v] = Store!Rows[v] /\ files'[v] = Store!Bytes[v] /\ told'[v] = told[v] BY <2>2, <3>1
      <4>2. Store!Rows[v] # None BY <2>6, <4>1
      <4> QED BY <4>1, <4>2, LeftIsTold
    <3>2. CASE v = u BY <1>7, <2>3, <2>4, <2>5, <3>2
    <3> QED BY <3>1, <3>2
  <2> QED BY <2>1, <2>6 DEF Store!FilesSound
<1>11. Store!CancelledIsGone'
  <2>1. \A v \in Uploads : tomb'[v] # "none" => v # u BY <1>1, <1>6
  <2> QED BY <1>6, <2>1 DEF Store!CancelledIsGone, Store!Pinned
<1> QED BY <1>8, <1>9, <1>10, <1>11 DEF Store!UploadsInv

LEMMA FinalizeKeeps ==
  ASSUME Store!ConstantsOK, StoreInv, Store!FinalizeCommit
  PROVE  Store!UploadsInv'
<1> DEFINE u == fin.id
<1>1. u \in Uploads BY DEF Store!FinalizeCommit, StoreInv, Store!TypeOK
<1>2. CASE /\ index' = Store!Rows /\ tomb' = Store!Tombs /\ files' = Store!Bytes
           /\ pins' = pins /\ ledger' = ledger /\ told' = told
  BY <1>2, Reaped, Quiet
<1>3. CASE /\ Store!Rows[u] # None /\ Store!Rows[u].phase = "uploading"
           /\ index' = [Store!Rows EXCEPT ![u] = [Store!Rows[u] EXCEPT !.phase = "verified",
                !.ref = Store!Ref(u, Store!Rows[u].digest), !.due = FALSE]]
           /\ tomb' = Store!Tombs /\ files' = Store!Bytes
           /\ pins' = pins /\ ledger' = ledger /\ told' = told
  <2>1. index[u] \in Store!Records /\ Store!Rows[u] = index[u] BY <1>1, <1>3, Reaped
  <2>2. ~Store!Pinned(u) BY <1>1, <1>3, Reaped
  <2>3. index'[u].received = index[u].received BY <1>1, <1>3, <2>1, Reaped DEF Store!Records
  <2>4. \A v \in Uploads \ {u} : index'[v] = Store!Rows[v] BY <1>1, <1>3, Reaped
  <2>5. \A v \in Uploads : tomb'[v] # "none" => v # u BY <1>1, <1>3, Reaped
  <2> HIDE DEF u
  <2>6. \A v \in Uploads :
           /\ index'[v] # None =>
                /\ index[v] # None /\ index'[v].received = index[v].received
                /\ files'[v] \in {files[v], None}
           /\ Store!Pinned(v) => /\ index'[v] # None /\ index'[v].phase = index[v].phase
                                 /\ index'[v].ref = index[v].ref /\ files'[v] = files[v]
           /\ tomb'[v] # "none" => index'[v] = None /\ ~Store!Pinned(v)
    BY <1>3, <2>1, <2>2, <2>3, <2>4, <2>5, Reaped
  <2> QED BY <1>3, <2>6, Quiet
<1> QED BY <1>1, <1>2, <1>3, Reaped DEF Store!FinalizeCommit, Store!Commit

LEMMA CancelKeeps ==
  ASSUME Store!ConstantsOK, StoreInv, NEW u \in Uploads, Store!cancelUpload(u)
  PROVE  Store!UploadsInv'
BY Reaped, Quiet DEF Store!cancelUpload, Store!Commit

\* A new pin names a record that can be read and bytes that are there; a repeated one adds
\* nothing.
LEMMA PinKeeps ==
  ASSUME Store!ConstantsOK, StoreInv, NEW m \in Messages, NEW t \in {Source, Fork},
         NEW r \in Store!Refs, Store!PinMessage(m, t, r)
  PROVE  Store!UploadsInv'
<1> DEFINE u == r.id
           new == [message |-> m, target |-> t, ref |-> r]
<1>1. u \in Uploads BY DEF Store!Refs, Store!Ref
<1>2. /\ tomb' = Store!Tombs /\ files' = Store!Bytes /\ told' = told
      /\ ledger' \in {ledger, ledger \cup {m}}
      /\ \/ /\ Store!Rows[u] # None /\ Store!Rows[u].ref = r /\ Store!Bytes[u] = Store!Whole(r.digest)
            /\ index' = [Store!Rows EXCEPT ![u] = [Store!Rows[u] EXCEPT !.phase = "retained"]]
            /\ pins' = pins \cup {new}
         \/ /\ index' = Store!Rows /\ pins' = pins
            /\ \E p \in pins : p.message = m
  BY DEF Store!PinMessage, Store!Pinnable, Store!Readable, Store!Commit, Store!PinsOf
<1>3. Store!LedgerSound'
  <2>1. pins \subseteq pins' BY <1>2
  <2>2. \E p \in pins' : p.message = m
    <3>1. new.message = m OBVIOUS
    <3> HIDE DEF new
    <3> QED BY <1>2, <3>1
  <2>3. \A n \in ledger : \E p \in pins : p.message = n
    BY DEF StoreInv, Store!UploadsInv, Store!LedgerSound
  <2>4. \A n \in ledger' : n \in ledger \/ n = m BY <1>2
  <2> QED BY <2>1, <2>2, <2>3, <2>4 DEF Store!LedgerSound
<1>4. CASE index' = Store!Rows /\ pins' = pins
  <2>1. Store!PinsSound' /\ Store!FilesSound' /\ Store!CancelledIsGone'
    <3>1. Store!PinsSound'
      BY <1>2, <1>4, Reaped, PinNames DEF StoreInv, Store!UploadsInv, Store!PinsSound
    <3>2. Store!FilesSound'
      BY <1>2, <1>4, Reaped DEF StoreInv, Store!UploadsInv, Store!FilesSound
    <3>3. Store!CancelledIsGone'
      BY <1>2, <1>4, Reaped DEF Store!CancelledIsGone, Store!Pinned
    <3> QED BY <3>1, <3>2, <3>3
  <2> QED BY <1>3, <2>1 DEF Store!UploadsInv
<1>5. CASE /\ Store!Rows[u] # None /\ Store!Rows[u].ref = r /\ Store!Bytes[u] = Store!Whole(r.digest)
           /\ index' = [Store!Rows EXCEPT ![u] = [Store!Rows[u] EXCEPT !.phase = "retained"]]
           /\ pins' = pins \cup {new}
  <2>1. Store!Rows[u] = index[u] /\ index[u] \in Store!Records BY <1>1, <1>5, Reaped
  <2>2. /\ index'[u] # None /\ index'[u].phase = "retained" /\ index'[u].ref = r
        /\ index'[u].received = index[u].received
        /\ \A v \in Uploads \ {u} : index'[v] = Store!Rows[v]
    <3>1. [index[u] EXCEPT !.phase = "retained"] # None BY <1>1, <2>1, RecordEdits DEF Store!ConstantsOK
    <3> QED BY <1>1, <1>5, <2>1, <3>1, Reaped DEF Store!Records
  <2> HIDE DEF u
  <2>3. Store!PinsSound'
    <3>1. ASSUME NEW p \in pins
          PROVE  /\ index'[p.ref.id] # None /\ index'[p.ref.id].phase = "retained"
                 /\ index'[p.ref.id].ref = p.ref /\ files'[p.ref.id] = Store!Whole(p.ref.digest)
      BY <1>2, <1>5, <2>1, <2>2, Reaped, PinNames DEF StoreInv, Store!UploadsInv, Store!PinsSound
    <3> QED BY <1>2, <1>5, <2>2, <3>1 DEF Store!PinsSound, u
  <2>4. Store!FilesSound'
    <3>1. ASSUME NEW v \in Uploads, index'[v] # None
          PROVE  index[v] # None /\ index'[v].received = index[v].received /\ files'[v] = files[v]
      BY <1>2, <1>5, <2>1, <2>2, <3>1, Reaped DEF u
    <3> QED BY <1>2, <3>1 DEF StoreInv, Store!UploadsInv, Store!FilesSound
  <2>5. Store!CancelledIsGone'
    <3>1. ASSUME NEW v \in Uploads, tomb'[v] # "none" PROVE index'[v] = None /\ ~Store!Pinned(v)
      BY <1>2, <1>5, <2>2, <3>1, Reaped
    <3>2. \A v \in Uploads : v # u => (Store!Pinned(v)' <=> Store!Pinned(v))
      BY <1>5 DEF Store!Pinned, u
    <3> QED BY <2>2, <3>1, <3>2 DEF Store!CancelledIsGone
  <2> QED BY <1>3, <2>3, <2>4, <2>5 DEF Store!UploadsInv
<1> QED BY <1>2, <1>4, <1>5

\* A fork is given the references its source has pinned.
LEMMA InheritKeeps ==
  ASSUME Store!ConstantsOK, StoreInv, Store!inheritAttachmentPins
  PROVE  Store!UploadsInv'
<1>1. /\ index' = Store!Rows /\ tomb' = Store!Tombs /\ files' = Store!Bytes /\ told' = told
      /\ ledger' = ledger /\ pins \subseteq pins'
      /\ \A q \in pins' : \E p \in pins : q.ref = p.ref
  <2>1. \A p \in pins : [p EXCEPT !.target = Fork].ref = p.ref
    BY DEF StoreInv, Store!TypeOK, Store!Pins
  <2>2. \A q \in pins' : q \in pins \/ \E p \in pins : q = [p EXCEPT !.target = Fork]
    BY DEF Store!inheritAttachmentPins
  <2>3. pins \subseteq pins' BY DEF Store!inheritAttachmentPins
  <2>4. \A q \in pins' : \E p \in pins : q.ref = p.ref BY <2>1, <2>2
  <2> QED BY <2>3, <2>4 DEF Store!inheritAttachmentPins, Store!Commit
<1>2. Store!PinsSound'
  BY <1>1, Reaped, PinNames DEF StoreInv, Store!UploadsInv, Store!PinsSound
<1>3. Store!LedgerSound' BY <1>1 DEF StoreInv, Store!UploadsInv, Store!LedgerSound
<1>4. Store!FilesSound' BY <1>1, Reaped DEF StoreInv, Store!UploadsInv, Store!FilesSound
<1>5. Store!CancelledIsGone' BY <1>1, Reaped DEF Store!CancelledIsGone, Store!Pinned
<1> QED BY <1>2, <1>3, <1>4, <1>5 DEF Store!UploadsInv

LEMMA StoreStep ==
  ASSUME Store!ConstantsOK, StoreInv, [Store!Next]_(Store!vars)
  PROVE  StoreInv'
<1>1. CASE Store!Next
  <2>1. Store!TypeOK' BY <1>1, StoreTypes
  <2>2. ASSUME NEW u \in Uploads, Store!FinalizeRead(u) PROVE Store!UploadsInv'
    BY <2>2, Reaped, Quiet DEF Store!FinalizeRead, Store!Commit
  <2>3. ASSUME Store!FinalizeFails PROVE Store!UploadsInv'
    <3>1. \A u \in Uploads : tomb[u] # "none" => index[u] = None /\ ~Store!Pinned(u)
      BY DEF StoreInv, Store!UploadsInv, Store!CancelledIsGone
    <3> QED BY <2>3, <3>1, Reaped, Quiet DEF Store!FinalizeFails
  <2>4. Store!UploadsInv'
    BY <1>1, <2>2, <2>3, ReadKeeps, ReapCutKeeps, ExpireKeeps, BeginKeeps, AppendKeeps, FinalizeKeeps,
      CancelKeeps, PinKeeps, InheritKeeps DEF Store!Next, Store!Client, Store!Pin
  <2> QED BY <2>1, <2>4 DEF StoreInv
<1>2. CASE UNCHANGED Store!vars
  BY <1>2 DEF Store!vars, StoreInv, Store!TypeOK, Store!UploadsInv, Store!PinsSound, Store!LedgerSound,
    Store!FilesSound, Store!CancelledIsGone, Store!Pinned
<1> QED BY <1>1, <1>2

LEMMA StoreInit == ASSUME Store!ConstantsOK, Store!Init PROVE StoreInv
<1>1. <<>> \in Seq(Contents) /\ Len(<<>>) = 0 OBVIOUS
<1> QED
  BY <1>1 DEF Store!Init, StoreInv, Store!TypeOK, Store!UploadsInv, Store!PinsSound, Store!LedgerSound,
    Store!FilesSound, Store!CancelledIsGone, Store!Pinned

\* The rows, files, pins, tombstones and the ledger of the store agree for ever, whatever
\* transaction is cut between its writes (attachments/store.ts, pins.ts, finalize.ts).
THEOREM UploadsInductive == ASSUME Store!ConstantsOK PROVE Store!Spec => [](Store!TypeOK /\ Store!UploadsInv)
<1>1. Store!Init => StoreInv BY StoreInit
<1>2. StoreInv /\ [Store!Next]_(Store!vars) => StoreInv' BY StoreStep
<1> QED BY <1>1, <1>2, PTL DEF Store!Spec, StoreInv

\* Rows, pins, files and the ledger that agree keep every promise.
LEMMA PinsAreHeld ==
  ASSUME Store!ConstantsOK, StoreInv
  PROVE  Store!PinsHold
<1>1. Store!AcceptedResolves
  BY PinNames DEF Store!AcceptedResolves, Store!PinsOf, StoreInv, Store!UploadsInv,
    Store!PinsSound, Store!LedgerSound
<1>2. Store!PinsKeepBytes BY DEF Store!PinsKeepBytes, StoreInv, Store!UploadsInv, Store!PinsSound
<1>3. Store!AcknowledgedKept
  BY DEF Store!AcknowledgedKept, StoreInv, Store!UploadsInv, Store!FilesSound
<1> QED BY <1>1, <1>2, <1>3 DEF Store!PinsHold, StoreInv, Store!UploadsInv

\* An accepted image can be handed over, a pin keeps its bytes, what was acknowledged is in the
\* file, and what was cancelled is gone.
THEOREM PinsAlwaysHold ==
  ASSUME Store!ConstantsOK
  PROVE  Store!Spec => []Store!PinsHold
<1>1. ASSUME StoreInv PROVE Store!PinsHold BY <1>1, PinsAreHeld
<1>2. Store!Init => StoreInv BY StoreInit
<1>3. StoreInv /\ [Store!Next]_(Store!vars) => StoreInv' BY StoreStep
<1> QED BY <1>1, <1>2, <1>3, PTL DEF Store!Spec

-----------------------------------------------------------------------------
(* Turn watch *)

KeptWatch == Watch!TypeOK /\ Watch!WatchInv

LEMMA WatchInit == ASSUME Watch!ConstantsOK, Watch!Init PROVE KeptWatch
BY DEF Watch!ConstantsOK, Watch!Init, KeptWatch, Watch!TypeOK, Watch!WatchInv, Watch!HookSound,
  Watch!LookSound, Watch!Unseen, Watch!Times, Watch!Marks, Watch!Hooks, Watch!Looks

\* The latest of some instants is one of them, and none is later.
LEMMA LatestIs ==
  ASSUME NEW a \in Nat, NEW b \in Nat, NEW c \in Nat, NEW S \in SUBSET {a, b, c}, S # {}
  PROVE  Watch!Latest(S) \in S /\ \A t \in S : t <= Watch!Latest(S)
<1>1. \E t \in S : \A u \in S : u <= t
  <2>1. \A u \in S : u = a \/ u = b \/ u = c OBVIOUS
  <2>2. PICK u \in S : TRUE OBVIOUS
  <2>3. CASE a \in S /\ (b \in S => b <= a) /\ (c \in S => c <= a) BY <2>1, <2>3
  <2>4. CASE b \in S /\ (a \in S => a <= b) /\ (c \in S => c <= b) BY <2>1, <2>4
  <2>5. CASE c \in S /\ (a \in S => a <= c) /\ (b \in S => b <= c) BY <2>1, <2>5
  <2> QED BY <2>1, <2>2, <2>3, <2>4, <2>5
<1> QED BY <1>1 DEF Watch!Latest

\* A turn that settles while its pane is still has been quiet for a while since the pane last
\* worked, unless it began later.
LEMMA SettledAfterWindow ==
  ASSUME Watch!ConstantsOK, Watch!TypeOK, NEW claimed \in Watch!Times, NEW pane \in Watch!Times,
         pane >= claimed, Watch!Settled(claimed, pane)
  PROVE  clock - pane >= Watch!Settle
<1> DEFINE signs == {t \in {claimed, agent.moved, pane} \ {None} : claimed = None \/ t >= claimed}
<1>1. claimed # None /\ pane # None /\ claimed \in Nat /\ pane \in Nat /\ clock \in Nat
  BY DEF Watch!ConstantsOK, Watch!TypeOK, Watch!Times
<1>2. pane \in signs BY <1>1
<1>3. PICK m \in Nat : signs \in SUBSET {claimed, m, pane}
  <2>1. CASE agent.moved = None
    <3>1. signs \in SUBSET {claimed, claimed, pane} BY <2>1
    <3> QED BY <1>1, <3>1
  <2>2. CASE agent.moved # None
    <3>1. agent.moved \in Nat BY <2>2 DEF Watch!ConstantsOK, Watch!TypeOK, Watch!Times, Watch!Marks
    <3> QED BY <3>1
  <2> QED BY <2>1, <2>2
<1>4. Watch!lastSignOfLife(claimed, agent.moved, pane) = Watch!Latest(signs)
  BY <1>2 DEF Watch!lastSignOfLife
<1>5. Watch!Latest(signs) \in signs /\ pane <= Watch!Latest(signs)
  <2> HIDE DEF signs
  <2> QED BY <1>1, <1>2, <1>3, LatestIs
<1>6. Watch!Latest(signs) \in Nat
  <2> HIDE DEF signs
  <2> QED BY <1>1, <1>3, <1>5
<1>7. Watch!Latest(signs) # None
  <2>1. None \notin signs OBVIOUS
  <2> HIDE DEF signs
  <2> QED BY <1>5, <2>1
<1>8. clock - Watch!Latest(signs) >= 1
  <2> HIDE DEF signs
  <2> QED BY <1>1, <1>4, <1>6, <1>7 DEF Watch!Settled, Watch!Settle, Watch!Interrupted
<1> HIDE DEF signs
<1> QED BY <1>1, <1>5, <1>6, <1>8 DEF Watch!Settle

LEMMA WatchTypes ==
  ASSUME Watch!ConstantsOK, KeptWatch, Watch!Next
  PROVE  Watch!TypeOK'
<1> USE DEF Watch!ConstantsOK, KeptWatch, Watch!TypeOK, Watch!Times, Watch!Marks
<1>1. ASSUME NEW e \in {"UserPromptSubmit", "Stop", "SessionStart"}, Watch!Fire(e)
      PROVE  hook' \in {None} \cup Watch!Hooks
  BY <1>1 DEF Watch!Fire, Watch!Hooks
<1>2. ASSUME Watch!Prompt PROVE Watch!TypeOK'
  <2>1. hook' \in {None} \cup Watch!Hooks BY <1>1, <1>2 DEF Watch!Prompt
  <2> QED BY <1>2, <2>1 DEF Watch!Prompt
<1>3. ASSUME Watch!Work PROVE Watch!TypeOK'
  <2>1. PICK p \in {"working", "still", "menu"}, t \in BOOLEAN :
          agent' = [agent EXCEPT !.pane = p, !.text = t, !.moved = clock]
    BY <1>3 DEF Watch!Work
  <2>2. agent' \in [up : BOOLEAN, turn : {"none", "running"}, pane : {"working", "still", "menu"},
                    moved : {None} \cup 0..MaxClock, text : BOOLEAN]
    BY <2>1
  <2> QED BY <1>3, <2>2 DEF Watch!Work
<1>4. ASSUME Watch!End PROVE Watch!TypeOK'
  <2>1. hook' \in {None} \cup Watch!Hooks BY <1>1, <1>4 DEF Watch!End
  <2>2. agent' \in [up : BOOLEAN, turn : {"none", "running"}, pane : {"working", "still", "menu"},
                    moved : {None} \cup 0..MaxClock, text : BOOLEAN]
    <3>1. [agent EXCEPT !.turn = "none", !.pane = "still", !.text = TRUE, !.moved = clock]
            \in [up : BOOLEAN, turn : {"none", "running"}, pane : {"working", "still", "menu"},
                moved : {None} \cup 0..MaxClock, text : BOOLEAN]
      OBVIOUS
    <3>2. [agent EXCEPT !.turn = "none", !.pane = "still"]
            \in [up : BOOLEAN, turn : {"none", "running"}, pane : {"working", "still", "menu"},
                moved : {None} \cup 0..MaxClock, text : BOOLEAN]
      OBVIOUS
    <3> QED BY <1>4, <3>1, <3>2 DEF Watch!End
  <2> QED BY <1>4, <2>1, <2>2 DEF Watch!End
<1>5. ASSUME Watch!Stopped PROVE Watch!TypeOK' BY <1>5 DEF Watch!Stopped
<1>6. ASSUME Watch!Started PROVE Watch!TypeOK'
  <2>1. hook' \in {None} \cup Watch!Hooks BY <1>1, <1>6 DEF Watch!Started
  <2> QED BY <1>6, <2>1 DEF Watch!Started
<1>7. ASSUME Watch!HookRead PROVE Watch!TypeOK'
  <2>1. hook' \in Watch!Hooks BY <1>7 DEF Watch!HookRead, Watch!Hooks
  <2> QED BY <1>7, <2>1 DEF Watch!HookRead
<1>8. ASSUME Watch!HookWrite PROVE Watch!TypeOK'
  <2>1. Watch!lifecycleToWrite(hook) \in Watch!Stamps
    BY <1>8 DEF Watch!HookWrite, Watch!lifecycleToWrite, Watch!Hooks, Watch!Stamps
  <2> QED BY <1>8, <2>1 DEF Watch!HookWrite, Watch!Hooks
<1>9. ASSUME Watch!HookSay PROVE Watch!TypeOK'
  <2>1. Watch!eventForLifecycle(hook, view) \in [turn : {"idle", "working"}, menu : BOOLEAN]
    BY DEF Watch!eventForLifecycle
  <2> QED BY <1>9, <2>1 DEF Watch!HookSay
<1>10. ASSUME Watch!Look PROVE Watch!TypeOK'
  <2>1. Watch!Remembered \in {None} \cup 0..MaxClock BY DEF Watch!Remembered
  <2>2. look' \in Watch!Looks
    BY <1>10, <2>1 DEF Watch!Look, Watch!Looks, Watch!Stamps, Watch!Settled
  <2> QED BY <1>10, <2>2 DEF Watch!Look
<1>11. ASSUME Watch!CloseRead PROVE Watch!TypeOK'
  <2>1. look' \in Watch!Looks
    <3>1. [look EXCEPT !.step = "say"] \in Watch!Looks BY <1>11 DEF Watch!CloseRead, Watch!Looks
    <3>2. life # None => [look EXCEPT !.step = "write", !.found = life] \in Watch!Looks
      BY <1>11 DEF Watch!CloseRead, Watch!Looks
    <3> QED BY <1>11, <3>1, <3>2 DEF Watch!CloseRead
  <2> QED BY <1>11, <2>1 DEF Watch!CloseRead
<1>12. ASSUME Watch!CloseWrite PROVE Watch!TypeOK'
  BY <1>12 DEF Watch!CloseWrite, Watch!Looks, Watch!Stamps
<1>13. ASSUME Watch!Publish PROVE Watch!TypeOK'
  <2>1. Watch!transitions(view) \in [turn : {"idle", "working"}, menu : BOOLEAN]
    BY DEF Watch!transitions
  <2> QED BY <1>13, <2>1 DEF Watch!Publish, Watch!Looks
<1>14. ASSUME Watch!Tick PROVE Watch!TypeOK' BY <1>14 DEF Watch!Tick
<1>15. ASSUME Watch!Restarted PROVE Watch!TypeOK' BY <1>15 DEF Watch!Restarted, Watch!Unseen
<1> QED BY <1>2, <1>3, <1>4, <1>5, <1>6, <1>7, <1>8, <1>9, <1>10, <1>11, <1>12, <1>13, <1>14, <1>15
  DEF Watch!Next, Watch!Session, Watch!Hook, Watch!Observe

LEMMA WatchStep ==
  ASSUME Watch!ConstantsOK, KeptWatch, Watch!Next
  PROVE  Watch!WatchInv'
<1> USE DEF KeptWatch, Watch!WatchInv, Watch!HookSound, Watch!LookSound
<1>1. None \notin Watch!Times /\ None \notin Watch!Stamps /\ None \notin Watch!Looks /\ None \notin Watch!Hooks
  BY DEF Watch!ConstantsOK
<1>2. ASSUME Watch!Session PROVE Watch!WatchInv'
  <2>1. UNCHANGED <<look, seen, disk, prev>>
    BY <1>2 DEF Watch!Session, Watch!Prompt, Watch!Work, Watch!End, Watch!Stopped, Watch!Started
  <2>2. \/ hook' = hook /\ life' \in {life, None}
        \/ hook' = None
        \/ \E e \in {"UserPromptSubmit", "Stop", "SessionStart"} : Watch!Fire(e)
    BY <1>2 DEF Watch!Session, Watch!Prompt, Watch!Work, Watch!End, Watch!Stopped, Watch!Started
  <2>3. hook' # None /\ hook'.step = "write" => hook' = hook /\ life' \in {life, None}
    BY <2>2 DEF Watch!Fire
  <2> QED BY <2>1, <2>3
<1>3. ASSUME Watch!HookRead \/ Watch!HookSay PROVE Watch!WatchInv'
  BY <1>1, <1>3 DEF Watch!HookRead, Watch!HookSay, Watch!TypeOK, Watch!Hooks
<1>4. ASSUME Watch!HookWrite PROVE Watch!WatchInv'
  BY <1>1, <1>4 DEF Watch!HookWrite, Watch!TypeOK, Watch!Hooks
<1>5. ASSUME Watch!Look PROVE Watch!WatchInv'
  <2> DEFINE pane == IF agent.pane = "working" THEN clock ELSE Watch!Remembered
             claimed == IF life # None /\ life.state = "working" THEN life.ts ELSE None
  <2>1. UNCHANGED <<hook, life, seen, disk, prev>> BY <1>5 DEF Watch!Look
  <2>2. CASE ~agent.up BY <1>5, <2>1, <2>2 DEF Watch!Look
  <2>3. CASE agent.up
    <3>1. look' = [running |-> TRUE, menu |-> agent.pane = "menu", pane |-> pane,
                   started |-> claimed, over |-> claimed # None /\ Watch!Settled(claimed, pane),
                   step |-> "close", found |-> None, at |-> clock]
      BY <1>5, <2>3 DEF Watch!Look
    <3>2. ASSUME look'.over, seen # None
          PROVE  look'.started > seen \/ look'.at - seen >= Watch!Settle
      <4>1. claimed # None /\ Watch!Settled(claimed, pane) BY <3>1, <3>2
      <4>2. claimed \in Watch!Times BY <4>1 DEF Watch!TypeOK, Watch!Stamps
      <4>3. seen = disk /\ seen \in Watch!Times BY <3>2 DEF Watch!TypeOK, Watch!Marks
      <4>4. pane = seen BY <3>2, <4>1, <4>3 DEF Watch!Settled, Watch!Remembered
      <4>5. CASE seen >= claimed
        BY <3>1, <4>1, <4>2, <4>3, <4>4, <4>5, SettledAfterWindow
      <4>6. CASE claimed > seen BY <3>1, <4>6
      <4> QED BY <4>2, <4>3, <4>5, <4>6 DEF Watch!ConstantsOK, Watch!Times
    <3>3. look'.pane = None => seen = None BY <1>1, <3>1 DEF Watch!Remembered, Watch!TypeOK
    <3> QED BY <2>1, <3>2, <3>3
  <2> QED BY <2>2, <2>3
<1>6. ASSUME Watch!CloseRead PROVE Watch!WatchInv'
  BY <1>1, <1>6 DEF Watch!CloseRead, Watch!TypeOK, Watch!Looks
<1>7. ASSUME Watch!CloseWrite PROVE Watch!WatchInv'
  BY <1>1, <1>7 DEF Watch!CloseWrite, Watch!TypeOK, Watch!Looks
<1>8. ASSUME Watch!Publish PROVE Watch!WatchInv' BY <1>1, <1>8 DEF Watch!Publish
<1>9. ASSUME Watch!Tick \/ Watch!Restarted PROVE Watch!WatchInv'
  BY <1>1, <1>9 DEF Watch!Tick, Watch!Restarted, Watch!Unseen
<1> QED BY <1>2, <1>3, <1>4, <1>5, <1>6, <1>7, <1>8, <1>9 DEF Watch!Next, Watch!Hook, Watch!Observe

\* A step of a hook, of a look, of the session or of the clock keeps the invariant.
LEMMA WatchKept ==
  ASSUME Watch!ConstantsOK, KeptWatch, [Watch!Next]_(Watch!vars)
  PROVE  KeptWatch'
<1>1. CASE Watch!Next BY <1>1, WatchTypes, WatchStep DEF KeptWatch
<1>2. CASE UNCHANGED Watch!vars
  BY <1>2 DEF Watch!vars, KeptWatch, Watch!TypeOK, Watch!WatchInv, Watch!HookSound, Watch!LookSound
<1> QED BY <1>1, <1>2

\* The stamp and the hook, and the memory of the supervisor and the disk, agree
\* (commands/hookStatus.ts, events/observe.ts, events/paneActivity.ts).
THEOREM WatchInductive ==
  ASSUME Watch!ConstantsOK PROVE Watch!Spec => [](Watch!TypeOK /\ Watch!WatchInv)
<1>1. Watch!Init => KeptWatch BY WatchInit
<1>2. KeptWatch /\ [Watch!Next]_(Watch!vars) => KeptWatch' BY WatchKept
<1> QED BY <1>1, <1>2, PTL DEF Watch!Spec, KeptWatch

\* Only a look that found the window over closes a turn that was seen working.
LEMMA WindowPasses ==
  ASSUME KeptWatch, Watch!Next
  PROVE  Watch!ClosesAfterWindow
<1> SUFFICES ASSUME Watch!Closing, seen # None
    PROVE look.started > seen \/ look.at - seen >= Watch!Settle
  BY DEF Watch!ClosesAfterWindow
<1>1. Watch!CloseRead
  <2>1. look # None /\ look' # None /\ look.step = "close" /\ look'.step = "write" BY DEF Watch!Closing
  <2>2. look' # look BY <2>1
  <2>3. ~(Watch!Session \/ Watch!Hook \/ Watch!Tick)
    BY <2>2 DEF Watch!Session, Watch!Prompt, Watch!Work, Watch!End, Watch!Stopped, Watch!Started,
      Watch!Hook, Watch!HookRead, Watch!HookWrite, Watch!HookSay, Watch!Tick
  <2> QED BY <2>1, <2>3 DEF Watch!Next, Watch!Observe, Watch!Look, Watch!CloseWrite, Watch!Publish,
    Watch!Restarted
<1>2. look' = [look EXCEPT !.step = "write", !.found = life] \/ look' = [look EXCEPT !.step = "say"]
  BY <1>1 DEF Watch!CloseRead
<1>3. look # None /\ look \in Watch!Looks BY DEF Watch!Closing, KeptWatch, Watch!TypeOK
<1>4. look.over
  <2>1. [look EXCEPT !.step = "say"].step = "say" BY <1>3 DEF Watch!Looks
  <2> QED BY <1>1, <1>2, <2>1 DEF Watch!Closing, Watch!CloseRead, Watch!Closes
<1> QED BY <1>3, <1>4 DEF KeptWatch, Watch!WatchInv, Watch!LookSound

\* What is written of a working turn never moves its start forward.
LEMMA StartStays ==
  ASSUME KeptWatch, Watch!Next
  PROVE  Watch!KeepsStart
<1> SUFFICES ASSUME life # None, life' # None, life.state = "working", life'.state = "working"
    PROVE life'.ts <= life.ts
  BY DEF Watch!KeepsStart
<1>1. life.ts \in Nat BY DEF KeptWatch, Watch!TypeOK, Watch!Stamps, Watch!Times
<1>2. CASE life' = life BY <1>1, <1>2
<1>3. CASE Watch!HookWrite
  <2>1. hook # None /\ hook.prev = life /\ life' = Watch!lifecycleToWrite(hook)
    BY <1>3 DEF Watch!HookWrite, KeptWatch, Watch!WatchInv, Watch!HookSound
  <2> QED BY <1>1, <2>1 DEF Watch!lifecycleToWrite
<1>4. CASE Watch!CloseWrite BY <1>2, <1>4 DEF Watch!CloseWrite
<1>5. CASE Watch!Session
  BY <1>2, <1>5 DEF Watch!Session, Watch!Prompt, Watch!Work, Watch!End, Watch!Stopped, Watch!Started
<1>6. CASE Watch!HookRead \/ Watch!HookSay \/ Watch!Look \/ Watch!CloseRead \/ Watch!Publish
           \/ Watch!Tick \/ Watch!Restarted
  BY <1>2, <1>6 DEF Watch!HookRead, Watch!HookSay, Watch!Look, Watch!CloseRead, Watch!Publish,
    Watch!Tick, Watch!Restarted
<1> QED BY <1>3, <1>4, <1>5, <1>6 DEF Watch!Next, Watch!Hook, Watch!Observe

\* A turn seen working has its whole window before it is closed, across restarts of the
\* supervisor, and a prompt that joins a turn does not move its start.
THEOREM TurnsAlwaysKept == ASSUME Watch!ConstantsOK PROVE Watch!Spec => [][Watch!TurnsKept]_(Watch!vars)
<1>1. ASSUME KeptWatch, Watch!Next PROVE Watch!ClosesAfterWindow BY <1>1, WindowPasses
<1>2. ASSUME KeptWatch, Watch!Next PROVE Watch!KeepsStart BY <1>2, StartStays
<1> QED BY <1>1, <1>2, WatchInductive, PTL DEF Watch!Spec, Watch!TurnsKept, KeptWatch

-----------------------------------------------------------------------------
(* Release update and boot guard *)

SoundRelease == Release!TypeOK /\ Release!ReleaseInv

LEMMA ReleaseInit == ASSUME Release!ConstantsOK, Release!Init PROVE SoundRelease
BY DEF Release!ConstantsOK, Release!Init, SoundRelease, Release!TypeOK, Release!ReleaseInv,
  Release!UpdatesSound, Release!GuardFindsBundle, Release!File, Release!Updaters, Release!Down,
  Release!Idle, Release!Daemons, Release!Steps

\* A step of an update has its type.
LEMMA UpdateStepTypes ==
  ASSUME Release!TypeOK, NEW u \in Release!Updaters,
         NEW s \in {"locked", "compared", "backed", "recorded", "swapped", "done"}
  PROVE  /\ [upd EXCEPT ![u] = Release!Idle] \in [Release!Updaters -> Release!Steps]
         /\ [upd EXCEPT ![u].step = s] \in [Release!Updaters -> Release!Steps]
         /\ [upd EXCEPT ![u].keep = target, ![u].step = s] \in [Release!Updaters -> Release!Steps]
<1>1. Release!Idle \in Release!Steps BY DEF Release!Idle, Release!Steps, Release!File
<1>2. upd[u] \in Release!Steps /\ target \in Release!File BY DEF Release!TypeOK
<1>3. /\ [upd[u] EXCEPT !.step = s] \in Release!Steps
      /\ [upd[u] EXCEPT !.keep = target, !.step = s] \in Release!Steps
  BY <1>2 DEF Release!Steps
<1> QED BY <1>1, <1>3 DEF Release!TypeOK

\* The steps of the process that replaces the bundle.
LEMMA UpdateTypes ==
  ASSUME Release!ConstantsOK, SoundRelease, NEW u \in Release!Updaters, Release!Update(u)
  PROVE  Release!TypeOK'
<1>1. upd' \in [Release!Updaters -> Release!Steps]
  <2>1. \/ upd' = [upd EXCEPT ![u] = Release!Idle]
        \/ \E s \in {"locked", "compared", "backed", "recorded", "swapped", "done"} :
             upd' = [upd EXCEPT ![u].step = s] \/ upd' = [upd EXCEPT ![u].keep = target, ![u].step = s]
    BY DEF Release!Update, Release!Acquire, Release!AlreadyThere, Release!Compare, Release!Backup,
    Release!RecordStaged, Release!Swap, Release!RecordRelease, Release!restoreBackup, Release!Step,
    Release!Leave
  <2>2. CASE upd' = [upd EXCEPT ![u] = Release!Idle] BY <2>2, UpdateStepTypes DEF SoundRelease
  <2>3. ASSUME NEW s \in {"locked", "compared", "backed", "recorded", "swapped", "done"},
               upd' = [upd EXCEPT ![u].step = s] \/ upd' = [upd EXCEPT ![u].keep = target, ![u].step = s]
        PROVE  upd' \in [Release!Updaters -> Release!Steps]
    <3>1. Release!TypeOK BY DEF SoundRelease
    <3>2. /\ [upd EXCEPT ![u].step = s] \in [Release!Updaters -> Release!Steps]
          /\ [upd EXCEPT ![u].keep = target, ![u].step = s] \in [Release!Updaters -> Release!Steps]
      BY <3>1, UpdateStepTypes
    <3> QED BY <2>3, <3>2
  <2> QED BY <2>1, <2>2, <2>3
<1>2. upd[u] \in Release!Steps BY DEF SoundRelease, Release!TypeOK
<1>3. /\ target' \in Release!File /\ bak' \in Release!File /\ digest' \in Release!File
      /\ staged' \in Release!File /\ lock' \in Release!Updaters \cup {None}
  BY <1>2 DEF Release!Update, Release!Acquire, Release!AlreadyThere, Release!Compare, Release!Backup,
    Release!RecordStaged, Release!Swap, Release!RecordRelease, Release!restoreBackup, Release!Put,
    Release!Leave, Release!disk, Release!guard, SoundRelease, Release!TypeOK, Release!Steps, Release!File
<1>4. tries' \in {tries, 0, None}
  BY DEF Release!Update, Release!Acquire, Release!AlreadyThere, Release!Compare, Release!Backup,
    Release!RecordStaged, Release!Swap, Release!RecordRelease, Release!restoreBackup, Release!Put,
    Release!guard
<1>5. UNCHANGED <<release, attempts, proven, daemon, fate, faults, commands>>
  BY DEF Release!Update, Release!Acquire, Release!AlreadyThere, Release!Compare, Release!Backup,
    Release!RecordStaged, Release!Swap, Release!RecordRelease, Release!restoreBackup, Release!disk,
    Release!guard
<1>6. tries' \in 0..MAX_ATTEMPTS \cup {None} BY <1>4 DEF Release!ConstantsOK, SoundRelease, Release!TypeOK
<1> QED BY <1>1, <1>3, <1>5, <1>6 DEF SoundRelease, Release!TypeOK

\* The files of the machine after any step.
LEMMA ReleaseFiles ==
  ASSUME Release!ConstantsOK, SoundRelease, Release!Next
  PROVE  /\ target' \in Release!File /\ bak' \in Release!File /\ digest' \in Release!File
         /\ staged' \in Release!File /\ release' \in Versions /\ proven' \in Release!File
         /\ fate' \in [Versions -> Fates] /\ lock' \in Release!Updaters \cup {None}
<1> USE DEF SoundRelease, Release!TypeOK, Release!disk, Release!guard
<1>1. CASE Release!Launch \/ Release!bootGuardStart \/ Release!proveBootBundle
  BY <1>1 DEF Release!Launch, Release!bootGuardStart, Release!proveBootBundle, Release!Put, Release!Daemons
<1>2. CASE Release!Crash \/ Release!RestartSelf \/ Release!restartBoot \/ Release!CommandDies
  BY <1>2 DEF Release!Crash, Release!RestartSelf, Release!restartBoot, Release!CommandDies, Release!DaemonEnds
<1>3. ASSUME NEW v \in Versions, Release!Publish(v) \/ Release!Stage(v)
      PROVE  release' \in Versions /\ staged' \in Release!File
             /\ UNCHANGED <<target, bak, digest, proven, fate, lock>>
  BY <1>3 DEF Release!Publish, Release!Stage, Release!File
<1>4. CASE Release!autoUpdateOnce BY <1>4 DEF Release!autoUpdateOnce
<1>5. ASSUME NEW back \in BOOLEAN, NEW force \in BOOLEAN, Release!cmdUpdate(back, force)
      PROVE  UNCHANGED <<target, bak, digest, staged, release, proven, fate, lock>>
  BY <1>5 DEF Release!cmdUpdate
<1>6. ASSUME NEW u \in Release!Updaters, Release!Fail(u)
      PROVE  UNCHANGED <<target, bak, digest, staged, release, proven, fate>> /\ lock' = None
  BY <1>6 DEF Release!Fail, Release!Leave
<1>7. CASE Release!Wipe BY <1>7 DEF Release!Wipe, Release!Put, Release!File
<1>8. ASSUME NEW u \in Release!Updaters, Release!Update(u) PROVE Release!TypeOK'
  BY <1>8, UpdateTypes
<1> QED BY <1>1, <1>2, <1>3, <1>4, <1>5, <1>6, <1>7, <1>8 DEF Release!Next

\* Its counters.
LEMMA ReleaseCounters ==
  ASSUME Release!ConstantsOK, SoundRelease, Release!Next
  PROVE  /\ attempts' \in 0..(MAX_ATTEMPTS - 1) /\ tries' \in 0..MAX_ATTEMPTS \cup {None}
         /\ faults' \in 0..MaxFaults /\ commands' \in 0..Commands
<1>1. /\ attempts \in 0..(MAX_ATTEMPTS - 1) /\ tries \in 0..MAX_ATTEMPTS \cup {None} /\ MAX_ATTEMPTS \in Nat \ {0}
      /\ faults \in 0..MaxFaults /\ commands \in 0..Commands /\ MaxFaults \in Nat /\ Commands \in Nat
  BY DEF Release!ConstantsOK, SoundRelease, Release!TypeOK
<1>2. ASSUME NEW u \in Release!Updaters, Release!Update(u) PROVE Release!TypeOK'
  BY <1>2, UpdateTypes
<1>3. \/ attempts' = attempts \/ attempts' = 0
      \/ attempts + 1 < MAX_ATTEMPTS /\ attempts' = attempts + 1
      \/ \E u \in Release!Updaters : Release!Update(u)
  BY DEF Release!Next, Release!Launch, Release!bootGuardStart, Release!proveBootBundle, Release!Crash,
    Release!Publish, Release!Stage, Release!autoUpdateOnce, Release!cmdUpdate, Release!Fail,
    Release!restartBoot, Release!RestartSelf, Release!CommandDies, Release!Wipe, Release!guard
<1>4. \/ tries' \in {tries, 0, None}
      \/ tries # None /\ tries < MAX_ATTEMPTS /\ tries' = tries + 1
      \/ \E u \in Release!Updaters : Release!Update(u)
  BY DEF Release!Next, Release!Launch, Release!bootGuardStart, Release!proveBootBundle, Release!Crash,
    Release!Publish, Release!Stage, Release!autoUpdateOnce, Release!cmdUpdate, Release!Fail,
    Release!restartBoot, Release!RestartSelf, Release!CommandDies, Release!Wipe, Release!guard,
    Release!Counted, Release!Put
<1>5. \/ faults' = faults
      \/ faults < MaxFaults /\ faults' = faults + 1
      \/ \E u \in Release!Updaters : Release!Update(u)
  BY DEF Release!Next, Release!Launch, Release!bootGuardStart, Release!proveBootBundle, Release!Crash,
    Release!Publish, Release!Stage, Release!autoUpdateOnce, Release!cmdUpdate, Release!Fail,
    Release!restartBoot, Release!RestartSelf, Release!CommandDies, Release!Wipe
<1>6. \/ commands' = commands
      \/ commands < Commands /\ commands' = commands + 1
      \/ \E u \in Release!Updaters : Release!Update(u)
  BY DEF Release!Next, Release!Launch, Release!bootGuardStart, Release!proveBootBundle, Release!Crash,
    Release!Publish, Release!Stage, Release!autoUpdateOnce, Release!cmdUpdate, Release!Fail,
    Release!restartBoot, Release!RestartSelf, Release!CommandDies, Release!Wipe
<1>7. CASE \E u \in Release!Updaters : Release!Update(u) BY <1>2, <1>7 DEF Release!TypeOK
<1>8. CASE ~\E u \in Release!Updaters : Release!Update(u)
  <2>1. attempts' \in 0..(MAX_ATTEMPTS - 1) BY <1>1, <1>3, <1>8
  <2>2. tries' \in 0..MAX_ATTEMPTS \cup {None} BY <1>1, <1>4, <1>8
  <2>3. faults' \in 0..MaxFaults BY <1>1, <1>5, <1>8
  <2>4. commands' \in 0..Commands BY <1>1, <1>6, <1>8
  <2> QED BY <2>1, <2>2, <2>3, <2>4
<1> QED BY <1>7, <1>8

\* What an update is asked to install.
LEMMA AskedFor ==
  ASSUME Release!ConstantsOK, SoundRelease, NEW back \in BOOLEAN, NEW force \in BOOLEAN,
         Release!cmdUpdate(back, force)
  PROVE  \E kind \in {"release", "staged", "back"}, to \in Release!File :
           /\ kind = "back" => bak # None
           /\ kind # "back" => to # None
           /\ upd' = [upd EXCEPT !["cli"] = [Release!Idle EXCEPT
                        !.step = "waiting", !.kind = kind, !.to = to, !.code = target]]
<1> DEFINE d == IF ~back THEN Release!decideUpdate(force)
                ELSE [kind |-> IF bak = None THEN "print" ELSE "back", to |-> bak]
<1>1. /\ d.kind # "print"
      /\ upd' = [upd EXCEPT !["cli"] = [Release!Idle EXCEPT
                   !.step = "waiting", !.kind = d.kind, !.to = d.to, !.code = target]]
  BY DEF Release!cmdUpdate
<1>2. release \in Release!File /\ bak \in Release!File /\ staged \in Release!File /\ release # None
  BY DEF SoundRelease, Release!TypeOK, Release!File, Release!ConstantsOK
<1>3. /\ d.kind \in {"release", "staged", "back"} /\ d.to \in Release!File
      /\ d.kind = "back" => bak # None
      /\ d.kind # "back" => d.to # None
  BY <1>1, <1>2 DEF Release!decideUpdate
<1> HIDE DEF d
<1> QED BY <1>1, <1>3

\* The process that updates, and the daemon.
LEMMA ReleaseProcesses ==
  ASSUME Release!ConstantsOK, SoundRelease, Release!Next
  PROVE  /\ upd' \in [Release!Updaters -> Release!Steps] /\ daemon' \in Release!Daemons
         /\ daemon'.at = "down" => daemon' = Release!Down
<1>1. /\ upd \in [Release!Updaters -> Release!Steps] /\ daemon \in Release!Daemons
      /\ daemon.at = "down" => daemon = Release!Down
      /\ target \in Release!File /\ release \in Release!File /\ "cli" \in Release!Updaters
      /\ "daemon" \in Release!Updaters
  BY DEF SoundRelease, Release!TypeOK, Release!File, Release!Updaters
<1>2. Release!Down \in Release!Daemons /\ Release!Idle \in Release!Steps
  BY DEF Release!Down, Release!Daemons, Release!Idle, Release!Steps, Release!File
<1>3. CASE Release!Launch BY <1>1, <1>3 DEF Release!Launch, Release!Daemons, Release!File, Release!Down
<1>4. CASE Release!bootGuardStart
  <2>1. daemon' = [daemon EXCEPT !.at = "started", !.read = target] \/ daemon' = Release!Down
    BY <1>4 DEF Release!bootGuardStart, Release!Start
  <2>2. [daemon EXCEPT !.at = "started", !.read = target] \in Release!Daemons
    BY <1>1 DEF Release!Daemons
  <2>3. [daemon EXCEPT !.at = "started", !.read = target].at = "started"
    BY <1>1 DEF Release!Daemons
  <2> QED BY <1>1, <1>2, <1>4, <2>1, <2>2, <2>3 DEF Release!bootGuardStart
<1>5. CASE Release!proveBootBundle
  <2>1. [daemon EXCEPT !.at = "running"] \in Release!Daemons /\ [daemon EXCEPT !.at = "running"].at = "running"
    BY <1>1 DEF Release!Daemons
  <2> QED BY <1>1, <1>5, <2>1 DEF Release!proveBootBundle
<1>6. CASE Release!Crash \/ Release!RestartSelf BY <1>1, <1>2, <1>6 DEF Release!Crash, Release!RestartSelf, Release!DaemonEnds
<1>7. CASE Release!restartBoot BY <1>1, <1>2, <1>7 DEF Release!restartBoot
<1>8. CASE Release!CommandDies BY <1>1, <1>2, <1>8 DEF Release!CommandDies
<1>9. CASE Release!Wipe BY <1>1, <1>9 DEF Release!Wipe
<1>10. CASE \E v \in Versions : Release!Publish(v) \/ Release!Stage(v)
  BY <1>1, <1>10 DEF Release!Publish, Release!Stage
<1>11. CASE Release!autoUpdateOnce
  <2>1. [Release!Idle EXCEPT !.step = "waiting", !.to = release, !.code = daemon.code] \in Release!Steps
    BY <1>1 DEF Release!Idle, Release!Steps, Release!File, Release!Daemons
  <2> QED BY <1>1, <1>11, <2>1 DEF Release!autoUpdateOnce
<1>12. ASSUME NEW back \in BOOLEAN, NEW force \in BOOLEAN, Release!cmdUpdate(back, force)
       PROVE  upd' \in [Release!Updaters -> Release!Steps] /\ daemon' = daemon
  <2>1. PICK kind \in {"release", "staged", "back"}, to \in Release!File :
          upd' = [upd EXCEPT !["cli"] = [Release!Idle EXCEPT
                   !.step = "waiting", !.kind = kind, !.to = to, !.code = target]]
    BY <1>12, AskedFor
  <2>2. [Release!Idle EXCEPT !.step = "waiting", !.kind = kind, !.to = to, !.code = target] \in Release!Steps
    BY <1>1 DEF Release!Idle, Release!Steps, Release!File
  <2> QED BY <1>1, <1>12, <2>1, <2>2 DEF Release!cmdUpdate
<1>13. ASSUME NEW u \in Release!Updaters, Release!Fail(u)
       PROVE  upd' \in [Release!Updaters -> Release!Steps] /\ daemon' = daemon
  BY <1>1, <1>2, <1>13 DEF Release!Fail, Release!Leave
<1>14. ASSUME NEW u \in Release!Updaters, Release!Update(u) PROVE Release!TypeOK'
  BY <1>14, UpdateTypes
<1> QED
  BY <1>1, <1>3, <1>4, <1>5, <1>6, <1>7, <1>8, <1>9, <1>10, <1>11, <1>12, <1>13, <1>14
  DEF Release!Next, Release!TypeOK

LEMMA ReleaseTypes ==
  ASSUME Release!ConstantsOK, SoundRelease, Release!Next
  PROVE  Release!TypeOK'
BY ReleaseFiles, ReleaseCounters, ReleaseProcesses DEF Release!TypeOK

\* A process that replaces the bundle is the only one that does.
LEMMA UpdateSound ==
  ASSUME Release!ConstantsOK, SoundRelease, NEW u \in Release!Updaters, Release!Update(u)
  PROVE  Release!UpdatesSound'
<1>1. /\ upd \in [Release!Updaters -> Release!Steps] /\ None \notin Release!Updaters
      /\ Release!UpdatesSound
  BY DEF Release!ConstantsOK, SoundRelease, Release!TypeOK, Release!ReleaseInv
<1>2. \A v \in Release!Updaters : v # u => upd'[v] = upd[v]
  BY <1>1 DEF Release!Update, Release!Acquire, Release!AlreadyThere, Release!Compare, Release!Backup,
    Release!RecordStaged, Release!Swap, Release!RecordRelease, Release!restoreBackup, Release!Step,
    Release!Leave
<1>3. ASSUME NEW v \in Release!Updaters, v # u
      PROVE  upd[v].step \notin {"locked", "compared", "backed", "recorded", "swapped"}
  BY <1>1, <1>3 DEF Release!Update, Release!Acquire, Release!AlreadyThere, Release!Compare, Release!Backup,
    Release!RecordStaged, Release!Swap, Release!RecordRelease, Release!restoreBackup,
    Release!UpdatesSound
<1>4. bak # None => bak' # None
  BY DEF Release!Update, Release!Acquire, Release!AlreadyThere, Release!Compare, Release!Backup,
    Release!RecordStaged, Release!Swap, Release!RecordRelease, Release!restoreBackup, Release!disk
<1>5. /\ upd'[u].step \in {"locked", "compared", "backed", "recorded", "swapped"} => lock' = u
      /\ upd'[u].step # "idle" => IF upd'[u].kind = "back" THEN bak' # None ELSE upd'[u].to # None
      /\ upd'[u].step \in {"compared", "backed", "recorded"} =>
           upd'[u].kind # "back" /\ upd'[u].keep # upd'[u].to
      /\ upd'[u].step \in {"backed", "recorded"} => target' \in {None, bak'}
  <2> USE DEF Release!Steps, Release!UpdatesSound, Release!Step, Release!Leave, Release!Idle, Release!disk
  <2>1. CASE Release!Acquire(u) BY <1>1, <2>1 DEF Release!Acquire
  <2>2. CASE Release!AlreadyThere(u) BY <1>1, <2>2 DEF Release!AlreadyThere
  <2>3. CASE Release!Backup(u) BY <1>1, <2>3 DEF Release!Backup
  <2>8. CASE Release!Compare(u) BY <1>1, <2>8 DEF Release!Compare
  <2>4. CASE Release!RecordStaged(u) BY <1>1, <2>4 DEF Release!RecordStaged
  <2>5. CASE Release!Swap(u) BY <1>1, <2>5 DEF Release!Swap
  <2>6. CASE Release!RecordRelease(u) BY <1>1, <2>6 DEF Release!RecordRelease
  <2>7. CASE Release!restoreBackup(u) BY <1>1, <2>7 DEF Release!restoreBackup
  <2> QED BY <2>1, <2>2, <2>3, <2>4, <2>5, <2>6, <2>7, <2>8 DEF Release!Update
<1> QED BY <1>1, <1>2, <1>3, <1>4, <1>5 DEF Release!UpdatesSound

LEMMA UpdatesStaySound ==
  ASSUME Release!ConstantsOK, SoundRelease, Release!Next
  PROVE  Release!UpdatesSound'
<1>1. /\ upd \in [Release!Updaters -> Release!Steps] /\ None \notin Release!Updaters
      /\ Release!UpdatesSound /\ release # None /\ daemon \in Release!Daemons
      /\ Release!GuardFindsBundle /\ "cli" \in Release!Updaters /\ "daemon" \in Release!Updaters
  BY DEF Release!ConstantsOK, SoundRelease, Release!TypeOK, Release!ReleaseInv, Release!Updaters
<1>2. Release!Idle.step = "idle" BY DEF Release!Idle
<1>3. CASE UNCHANGED <<target, bak, upd, lock>> BY <1>1, <1>3 DEF Release!UpdatesSound
<1>4. CASE Release!bootGuardStart
  <2>1. /\ upd' = upd /\ lock' = lock /\ bak' = bak
        /\ \/ target' = target
           \/ target' = bak /\ target # None
    BY <1>1, <1>4 DEF Release!bootGuardStart, Release!Put, Release!GuardFindsBundle
  <2> QED BY <1>1, <2>1 DEF Release!UpdatesSound
<1>5. CASE Release!Crash \/ Release!RestartSelf
  <2>1. /\ upd' = [upd EXCEPT !["daemon"] = Release!Idle] /\ target' = target /\ bak' = bak
        /\ lock' = IF lock = "daemon" THEN None ELSE lock
    BY <1>5 DEF Release!Crash, Release!RestartSelf, Release!DaemonEnds, Release!disk
  <2> QED BY <1>1, <1>2, <2>1 DEF Release!UpdatesSound
<1>6. CASE Release!CommandDies
  <2>1. /\ upd' = [upd EXCEPT !["cli"] = Release!Idle] /\ target' = target /\ bak' = bak
        /\ lock' = IF lock = "cli" THEN None ELSE lock
    BY <1>6 DEF Release!CommandDies, Release!disk
  <2> QED BY <1>1, <1>2, <2>1 DEF Release!UpdatesSound
<1>7. CASE Release!restartBoot
  BY <1>2, <1>7 DEF Release!restartBoot, Release!UpdatesSound
<1>8. CASE Release!Wipe
  BY <1>2, <1>8 DEF Release!Wipe, Release!UpdatesSound
<1>9. CASE Release!autoUpdateOnce
  <2>1. /\ upd' = [upd EXCEPT !["daemon"] = [Release!Idle EXCEPT
             !.step = "waiting", !.to = release, !.code = daemon.code]]
        /\ target' = target /\ bak' = bak /\ lock' = lock
    BY <1>9 DEF Release!autoUpdateOnce, Release!disk
  <2>2. /\ upd'["daemon"].step = "waiting" /\ upd'["daemon"].to = release
        /\ upd'["daemon"].kind = "release"
    BY <1>1, <2>1 DEF Release!Idle
  <2> QED BY <1>1, <2>1, <2>2 DEF Release!UpdatesSound
<1>10. ASSUME NEW back \in BOOLEAN, NEW force \in BOOLEAN, Release!cmdUpdate(back, force)
       PROVE  Release!UpdatesSound'
  <2>1. PICK kind \in {"release", "staged", "back"}, to \in Release!File :
          /\ kind = "back" => bak # None
          /\ kind # "back" => to # None
          /\ upd' = [upd EXCEPT !["cli"] = [Release!Idle EXCEPT
                   !.step = "waiting", !.kind = kind, !.to = to, !.code = target]]
    BY <1>10, AskedFor
  <2>2. upd'["cli"].step = "waiting" /\ upd'["cli"].to = to /\ upd'["cli"].kind = kind
    BY <1>1, <2>1 DEF Release!Idle
  <2>3. target' = target /\ bak' = bak /\ lock' = lock
    BY <1>10 DEF Release!cmdUpdate, Release!disk
  <2> QED BY <1>1, <2>1, <2>2, <2>3 DEF Release!UpdatesSound
<1>11. ASSUME NEW u \in Release!Updaters, Release!Fail(u) PROVE Release!UpdatesSound'
  <2>1. /\ upd' = [upd EXCEPT ![u] = Release!Idle] /\ target' = target /\ bak' = bak
        /\ lock = u
    BY <1>1, <1>11 DEF Release!Fail, Release!Leave, Release!disk, Release!UpdatesSound
  <2> QED BY <1>1, <1>2, <2>1 DEF Release!UpdatesSound
<1>12. CASE Release!Launch \/ Release!proveBootBundle BY <1>3, <1>12 DEF Release!Launch, Release!proveBootBundle, Release!disk
<1>13. ASSUME NEW v \in Versions, Release!Publish(v) \/ Release!Stage(v) PROVE Release!UpdatesSound'
  BY <1>3, <1>13 DEF Release!Publish, Release!Stage
<1> QED BY <1>4, <1>5, <1>6, <1>7, <1>8, <1>9, <1>10, <1>11, <1>12, <1>13, UpdateSound DEF Release!Next

\* The guard of a daemon that starts finds a bundle.
LEMMA GuardStaysSound ==
  ASSUME Release!ConstantsOK, SoundRelease, Release!Next
  PROVE  Release!GuardFindsBundle'
<1>1. Release!GuardFindsBundle /\ Release!UpdatesSound /\ upd \in [Release!Updaters -> Release!Steps]
  BY DEF SoundRelease, Release!ReleaseInv, Release!TypeOK
<1>2. ASSUME NEW u \in Release!Updaters, Release!Update(u)
      PROVE  daemon' = daemon /\ (target # None => target' # None)
  BY <1>1, <1>2 DEF Release!Update, Release!Acquire, Release!AlreadyThere, Release!Compare, Release!Backup,
    Release!RecordStaged, Release!Swap, Release!RecordRelease, Release!restoreBackup, Release!Put,
    Release!disk, Release!UpdatesSound
<1>3. \/ daemon'.at # "loaded"
      \/ target' # None
      \/ daemon' = daemon /\ target' = target
      \/ \E u \in Release!Updaters : Release!Update(u)
  <2>1. CASE Release!bootGuardStart
    <3>1. daemon' = [daemon EXCEPT !.at = "started", !.read = target] \/ daemon' = Release!Down
      BY <2>1 DEF Release!bootGuardStart, Release!Start
    <3>2. [daemon EXCEPT !.at = "started", !.read = target].at = "started" /\ Release!Down.at = "down"
      BY DEF Release!Down, SoundRelease, Release!TypeOK, Release!Daemons
    <3> QED BY <3>1, <3>2
  <2>2. CASE Release!proveBootBundle
    BY <2>2 DEF Release!proveBootBundle, SoundRelease, Release!TypeOK, Release!Daemons
  <2>3. CASE Release!Launch \/ Release!Wipe BY <2>3 DEF Release!Launch, Release!Wipe, Release!disk
  <2>4. CASE Release!Crash \/ Release!restartBoot \/ Release!RestartSelf
    BY <2>4 DEF Release!Crash, Release!restartBoot, Release!RestartSelf, Release!DaemonEnds, Release!Down
  <2>5. CASE Release!autoUpdateOnce \/ Release!CommandDies
    BY <2>5 DEF Release!autoUpdateOnce, Release!CommandDies, Release!disk
  <2>6. ASSUME NEW v \in Versions, Release!Publish(v) \/ Release!Stage(v)
        PROVE  daemon' = daemon /\ target' = target
    BY <2>6 DEF Release!Publish, Release!Stage
  <2>7. ASSUME NEW back \in BOOLEAN, NEW force \in BOOLEAN, Release!cmdUpdate(back, force)
        PROVE  daemon' = daemon /\ target' = target
    BY <2>7 DEF Release!cmdUpdate, Release!disk
  <2>8. ASSUME NEW u \in Release!Updaters, Release!Fail(u) PROVE daemon' = daemon /\ target' = target
    BY <2>8 DEF Release!Fail, Release!disk
  <2> QED BY <2>1, <2>2, <2>3, <2>4, <2>5, <2>6, <2>7, <2>8 DEF Release!Next
<1> QED BY <1>1, <1>2, <1>3 DEF Release!GuardFindsBundle

\* A step of an update, of the guard or of a crash keeps the invariant.
LEMMA ReleaseKept ==
  ASSUME Release!ConstantsOK, SoundRelease, [Release!Next]_(Release!vars)
  PROVE  SoundRelease'
<1>1. CASE Release!Next
  BY <1>1, ReleaseTypes, UpdatesStaySound, GuardStaysSound DEF SoundRelease, Release!ReleaseInv
<1>2. CASE UNCHANGED Release!vars
  BY <1>2 DEF Release!vars, Release!disk, Release!guard, SoundRelease, Release!TypeOK, Release!ReleaseInv,
    Release!UpdatesSound, Release!GuardFindsBundle
<1> QED BY <1>1, <1>2

\* One process at a time replaces the bundle, and the backup it makes is of the bundle it replaces
\* (release/update.ts, util/bootGuard.ts).
THEOREM ReleaseInductive ==
  ASSUME Release!ConstantsOK
  PROVE  Release!Init /\ [][Release!Next]_(Release!vars) => [](Release!TypeOK /\ Release!ReleaseInv)
<1>1. Release!Init => SoundRelease BY ReleaseInit
<1>2. SoundRelease /\ [Release!Next]_(Release!vars) => SoundRelease' BY ReleaseKept
<1> QED BY <1>1, <1>2, PTL DEF SoundRelease

\* Who swaps the bundle has its predecessor in the backup.
LEMMA PredecessorKept ==
  ASSUME Release!ConstantsOK, SoundRelease, Release!Next
  PROVE  Release!KeepsPredecessor
<1> SUFFICES ASSUME NEW u \in Release!Updaters, upd[u].step = "recorded",
                    upd'[u].step \in {"swapped", "done"}, target # None
    PROVE bak' = target /\ (upd[u].keep = target => bak' # target')
  BY DEF Release!KeepsPredecessor
<1>1. upd \in [Release!Updaters -> Release!Steps] /\ Release!UpdatesSound /\ None \notin Release!Updaters
  BY DEF Release!ConstantsOK, SoundRelease, Release!TypeOK, Release!ReleaseInv
<1>2. Release!Swap(u)
  <2>1. Release!Idle.step = "idle" BY DEF Release!Idle
  <2>2. upd'[u] # upd[u] OBVIOUS
  <2>3. ASSUME NEW v \in Release!Updaters, Release!Update(v) PROVE v = u
    BY <1>1, <2>2, <2>3 DEF Release!Update, Release!Acquire, Release!AlreadyThere, Release!Compare, Release!Backup,
      Release!RecordStaged, Release!Swap, Release!RecordRelease, Release!restoreBackup, Release!Step,
      Release!Leave
  <2>4. \E v \in Release!Updaters : Release!Update(v)
    <3>1. upd'[u] # Release!Idle BY <2>1
    <3>2. ~(Release!Launch \/ Release!bootGuardStart \/ Release!proveBootBundle \/ Release!Wipe)
      BY <2>2 DEF Release!Launch, Release!bootGuardStart, Release!proveBootBundle, Release!Wipe
    <3>3. ~(Release!Crash \/ Release!RestartSelf \/ Release!restartBoot \/ Release!CommandDies)
      BY <1>1, <2>2, <3>1 DEF Release!Crash, Release!RestartSelf, Release!restartBoot, Release!CommandDies,
        Release!DaemonEnds
    <3>4. ~\E v \in Versions : Release!Publish(v) \/ Release!Stage(v)
      BY <2>2 DEF Release!Publish, Release!Stage
    <3>5. ~Release!autoUpdateOnce
      BY <1>1, <2>1, <2>2 DEF Release!autoUpdateOnce
    <3>6. ~\E back, force \in BOOLEAN : Release!cmdUpdate(back, force)
      BY <1>1, <2>1, <2>2 DEF Release!cmdUpdate
    <3>7. ~\E v \in Release!Updaters : Release!Fail(v)
      BY <1>1, <2>2, <3>1 DEF Release!Fail, Release!Leave
    <3> QED BY <3>2, <3>3, <3>4, <3>5, <3>6, <3>7 DEF Release!Next
  <2> QED BY <1>1, <2>3, <2>4 DEF Release!Update, Release!Acquire, Release!AlreadyThere, Release!Compare, Release!Backup,
    Release!RecordStaged, Release!RecordRelease, Release!restoreBackup
<1> QED BY <1>1, <1>2 DEF Release!Swap, Release!Put, Release!UpdatesSound

\* The moment an update replaces a bundle, the backup holds that bundle, with two updaters, the
\* boot guard and a dying process in between ("a claimed rollback must contain the actual
\* predecessor").
THEOREM PredecessorAlwaysKept ==
  ASSUME Release!ConstantsOK
  PROVE  Release!Spec => [][Release!KeepsPredecessor]_(Release!vars)
<1>1. ASSUME SoundRelease, Release!Next PROVE Release!KeepsPredecessor BY <1>1, PredecessorKept
<1> QED BY <1>1, ReleaseInductive, PTL DEF Release!Spec, SoundRelease

-----------------------------------------------------------------------------
(* Session creation *)

-----------------------------------------------------------------------------
(* Types *)

\* The two files as a recovery leaves them have their types.
LEMMA RecoveredTypes ==
  ASSUME Create!TypeOK
  PROVE  /\ Create!RecoveredPend \in [Requests -> {"none", "pending", "blocked", "promoted"}]
         /\ Create!RecoveredReady \subseteq Requests
BY DEF Create!TypeOK, Create!RecoveredPend, Create!RecoveredReady, Create!Promoted

\* A call of a request keeps the types.
LEMMA CreateCallTypes ==
  ASSUME Create!TypeOK, NEW r \in Requests, Create!Call(r)
  PROVE  Create!TypeOK'
<1>1. CASE Create!Receive(r) BY <1>1 DEF Create!Receive, Create!Answer, Create!Go, Create!TypeOK
<1>2. CASE Create!LookPending(r) BY <1>2 DEF Create!LookPending, Create!Go, Create!TypeOK
<1>3. CASE Create!reservePendingSession(r)
  BY <1>3, RecoveredTypes DEF Create!reservePendingSession, Create!Go, Create!TypeOK
<1>4. CASE Create!createClaude(r) BY <1>4, RecoveredTypes DEF Create!createClaude, Create!Go,
  Create!TypeOK
<1>5. CASE Create!StartClaude(r) BY <1>5 DEF Create!StartClaude, Create!Go, Create!TypeOK
<1>6. CASE Create!startBootstrapSession(r) BY <1>6 DEF Create!startBootstrapSession, Create!Go,
  Create!Boot, Create!TypeOK
<1>7. CASE Create!Poll(r) BY <1>7 DEF Create!Poll, Create!Go, Create!TypeOK
<1>8. CASE Create!killSessionIfGeneration(r) BY <1>8 DEF Create!killSessionIfGeneration,
  Create!Go, Create!Boot, Create!TypeOK
<1>9. CASE Create!RollbackPending(r)
  BY <1>9, RecoveredTypes DEF Create!RollbackPending, Create!removePendingSession, Create!Go,
    Create!TypeOK
<1>10. CASE Create!RollbackReady(r)
  <2>1. reader' = [reader EXCEPT !.must = reader.must \ {r}] BY <1>10 DEF Create!RollbackReady,
    Create!removeSession
  <2>2. reader' \in [at: {"idle", "half", "done"}, seen: SUBSET Requests, must: SUBSET Requests]
    BY <2>1 DEF Create!TypeOK
  <2> QED BY <1>10, <2>2, RecoveredTypes DEF Create!RollbackReady, Create!removeSession,
    Create!Go, Create!TypeOK
<1>11. CASE Create!Caught(r) BY <1>11 DEF Create!Caught, Create!Go, Create!Answer, Create!TypeOK
<1>12. CASE Create!Waiting(r) BY <1>12 DEF Create!Waiting, Create!Go, Create!TypeOK
<1>13. CASE Create!Complete(r) BY <1>13 DEF Create!Complete, Create!Go, Create!Answer,
  Create!TypeOK
<1> QED
  BY <1>1, <1>2, <1>3, <1>4, <1>5, <1>6, <1>7, <1>8, <1>9, <1>10, <1>11, <1>12, <1>13
    DEF Create!Call

\* A bootstrap keeps the types.
LEMMA CreateBootTypes ==
  ASSUME Create!TypeOK, NEW r \in Requests, Create!Bootstrap(r)
  PROVE  Create!TypeOK'
<1>1. CASE Create!cmdBootstrap(r) BY <1>1 DEF Create!cmdBootstrap, Create!Boot, Create!TypeOK
<1>2. CASE Create!BootBlocks(r) BY <1>2, RecoveredTypes DEF Create!BootBlocks, Create!Boot,
  Create!TypeOK
<1>3. CASE Create!BootUnregisters(r)
  <2>1. reader' = [reader EXCEPT !.must = reader.must \ {r}] BY <1>3 DEF Create!BootUnregisters,
    Create!removeSession
  <2>2. reader' \in [at: {"idle", "half", "done"}, seen: SUBSET Requests, must: SUBSET Requests]
    BY <2>1 DEF Create!TypeOK
  <2> QED BY <1>3, <2>2, RecoveredTypes DEF Create!BootUnregisters, Create!removeSession,
    Create!Boot, Create!TypeOK
<1>4. CASE Create!BootReleases(r)
  BY <1>4, RecoveredTypes DEF Create!BootReleases, Create!removePendingSession, Create!Boot,
    Create!TypeOK
<1>5. CASE Create!PromoteJournal(r) BY <1>5, RecoveredTypes DEF Create!PromoteJournal,
  Create!Boot, Create!TypeOK
<1>6. CASE Create!PromoteReady(r) BY <1>6 DEF Create!PromoteReady, Create!Boot, Create!TypeOK
<1>7. CASE Create!PromoteCleanup(r) BY <1>7 DEF Create!PromoteCleanup, Create!Boot, Create!TypeOK
<1>8. CASE Create!SuperviseGone(r) BY <1>8 DEF Create!SuperviseGone, Create!Boot, Create!TypeOK
<1> QED BY <1>1, <1>2, <1>3, <1>4, <1>5, <1>6, <1>7, <1>8 DEF Create!Bootstrap

\* Deaths, a person, a reader and the daemon keep the types.
LEMMA CreateOtherTypes ==
  ASSUME Create!ConstantsOK, Create!TypeOK,
         \/ \E r \in Requests : Create!CallDies(r) \/ Create!BootDies(r) \/ Create!Remove(r)
         \/ Create!loadRegistrySessions \/ Create!Heal \/ Create!RunGone
  PROVE  Create!TypeOK'
<1>1. ASSUME NEW r \in Requests, Create!CallDies(r) PROVE Create!TypeOK'
  BY <1>1 DEF Create!CallDies, Create!Go, Create!TypeOK, Create!ConstantsOK
<1>2. ASSUME NEW r \in Requests, Create!BootDies(r) PROVE Create!TypeOK'
  BY <1>2 DEF Create!BootDies, Create!Boot, Create!TypeOK, Create!ConstantsOK
<1>3. ASSUME NEW r \in Requests, Create!Remove(r) PROVE Create!TypeOK'
  <2>1. reader' = [reader EXCEPT !.must = reader.must \ {r}] BY <1>3 DEF Create!Remove,
    Create!removeSession
  <2>2. reader' \in [at: {"idle", "half", "done"}, seen: SUBSET Requests, must: SUBSET Requests]
    BY <2>1 DEF Create!TypeOK
  <2> QED BY <1>3, <2>2, RecoveredTypes DEF Create!Remove, Create!removeSession, Create!TypeOK
<1>4. CASE Create!loadRegistrySessions
  BY <1>4 DEF Create!loadRegistrySessions, Create!Promoted, Create!Visible, Create!TypeOK
<1>5. CASE Create!Heal BY <1>5 DEF Create!Heal, Create!TypeOK
<1>6. CASE Create!RunGone BY <1>6 DEF Create!RunGone, Create!TypeOK
<1> QED BY <1>1, <1>2, <1>3, <1>4, <1>5, <1>6

\* Every step keeps the types.
LEMMA CreateTypeKept ==
  ASSUME Create!ConstantsOK, Create!TypeOK, [Create!Next]_(Create!vars)
  PROVE  Create!TypeOK'
<1>1. CASE UNCHANGED Create!vars BY <1>1 DEF Create!vars, Create!TypeOK
<1>2. CASE Create!Next BY <1>2, CreateCallTypes, CreateBootTypes, CreateOtherTypes DEF Create!Next
<1> QED BY <1>1, <1>2

\* The two files, the lock, the calls, the bootstraps and the reader keep their types
\* (control/lifecycle.ts, session/create.ts, session/promotion.ts, commands/bootstrap.ts).
THEOREM CreateTypes == ASSUME Create!ConstantsOK PROVE Create!Spec => []Create!TypeOK
<1>1. Create!Init => Create!TypeOK BY DEF Create!Init, Create!TypeOK, Create!ConstantsOK
<1>2. Create!TypeOK /\ [Create!Next]_(Create!vars) => Create!TypeOK' BY CreateTypeKept
<1> QED BY <1>1, <1>2, PTL DEF Create!Spec

-----------------------------------------------------------------------------
(* The steps, by what they write *)

\* Steps that leave the two files alone: what a call reads and answers, ...
CreateLooks(r) ==
  Create!Receive(r) \/ Create!LookPending(r) \/ Create!Poll(r)
  \/ Create!Caught(r) \/ Create!Waiting(r) \/ Create!Complete(r) \/ Create!CallDies(r)
\* ... and what starts and ends in tmux.
CreateRuns(r) ==
  \/ Create!StartClaude(r) \/ Create!startBootstrapSession(r) \/ Create!killSessionIfGeneration(r)
  \/ Create!cmdBootstrap(r) \/ Create!SuperviseGone(r) \/ Create!BootDies(r)

\* Steps that write the files under their lock: of a call, ...
CreateReserves(r) ==
  Create!reservePendingSession(r) \/ Create!createClaude(r) \/ Create!RollbackPending(r) \/ Create!RollbackReady(r)
\* ... of a bootstrap that fails, and of a person, ...
CreateReleases(r) == Create!BootBlocks(r) \/ Create!BootUnregisters(r) \/ Create!BootReleases(r) \/ Create!Remove(r)
\* ... and the three writes of a promotion.
CreatePromotes(r) == Create!PromoteJournal(r) \/ Create!PromoteReady(r) \/ Create!PromoteCleanup(r)

\* Every step is one of these.
LEMMA CreateStepIs ==
  ASSUME Create!Next
  PROVE  \/ \E r \in Requests : CreateLooks(r) \/ CreateRuns(r) \/ CreateReserves(r) \/ CreateReleases(r) \/ CreatePromotes(r)
         \/ Create!loadRegistrySessions \/ Create!Heal \/ Create!RunGone
BY DEF Create!Next, Create!Call, Create!Bootstrap, CreateLooks, CreateRuns, CreateReserves,
  CreateReleases, CreatePromotes

\* Who leaves what alone.
LEMMA LooksLeave ==
  ASSUME NEW r \in Requests, CreateLooks(r)
  PROVE  UNCHANGED <<pend, ready, lock, tmux, boot, reader, removed>>
BY DEF CreateLooks, Create!Receive, Create!LookPending, Create!Poll, Create!Caught,
  Create!Waiting, Create!Complete, Create!CallDies

LEMMA RunsLeave ==
  ASSUME NEW r \in Requests, CreateRuns(r)
  PROVE  UNCHANGED <<receipt, pend, ready, reader, removed>>
BY DEF CreateRuns, Create!StartClaude, Create!startBootstrapSession,
  Create!killSessionIfGeneration, Create!cmdBootstrap,
   Create!SuperviseGone, Create!BootDies

LEMMA RestLeaves ==
  ASSUME Create!loadRegistrySessions \/ Create!Heal \/ Create!RunGone
  PROVE  UNCHANGED <<receipt, pend, ready, lock, call, boot, removed>>
BY DEF Create!loadRegistrySessions, Create!Heal, Create!RunGone

-----------------------------------------------------------------------------
(* The files *)

\* While nobody is in the middle of a promotion, a recovery keeps every session.
LEMMA RecoveredIs ==
  ASSUME Create!TypeOK
  PROVE  /\ \A q \in Requests : q \in Create!RecoveredReady <=> q \in Create!Visible
         /\ \A q \in Requests : Create!RecoveredPend[q] = IF pend[q] = "promoted" THEN "none" ELSE pend[q]
BY DEF Create!TypeOK, Create!RecoveredReady, Create!RecoveredPend, Create!Visible, Create!Promoted

\* A name that is not taken is held by no request.
LEMMA FreeIs ==
  ASSUME Create!TypeOK, ~Create!NameTaken
  PROVE  \A q \in Requests : pend[q] = "none" /\ q \notin ready
BY DEF Create!TypeOK, Create!NameTaken, Create!Visible, Create!Promoted, Create!Pending

\* The name goes to a request only while none holds it, under the lock.
LEMMA HeldKept ==
  ASSUME Create!TypeOK, Create!OneHeld, Create!BootHolds, Create!Next
  PROVE  Create!OneHeld'
<1>1. CASE UNCHANGED <<pend, ready>> BY <1>1 DEF Create!OneHeld, Create!Holds
<1>2. ASSUME NEW r \in Requests, CreateReserves(r) PROVE Create!OneHeld'
  <2>1. CASE Create!NameTaken \/ Create!RollbackPending(r) \/ Create!RollbackReady(r)
    BY <1>2, <2>1, RecoveredTypes, RecoveredIs DEF CreateReserves, Create!reservePendingSession,
      Create!createClaude,
       Create!RollbackPending, Create!RollbackReady, Create!removePendingSession,
       Create!removeSession, Create!OneHeld, Create!Holds,
       Create!TypeOK, Create!Visible, Create!Promoted
  <2>2. CASE ~Create!NameTaken /\ (Create!reservePendingSession(r) \/ Create!createClaude(r))
    BY <2>2, FreeIs, RecoveredTypes, RecoveredIs DEF Create!reservePendingSession,
      Create!createClaude, Create!OneHeld, Create!Holds,
       Create!TypeOK, Create!Visible, Create!Promoted
  <2> QED BY <1>2, <2>1, <2>2 DEF CreateReserves
<1>3. ASSUME NEW r \in Requests, CreateReleases(r) PROVE Create!OneHeld'
  BY <1>3, RecoveredTypes, RecoveredIs DEF CreateReleases, Create!BootBlocks,
    Create!BootUnregisters, Create!BootReleases, Create!Remove,
     Create!removeSession, Create!removePendingSession, Create!OneHeld, Create!Holds,
     Create!TypeOK, Create!Visible, Create!Promoted
<1>4. ASSUME NEW r \in Requests, CreatePromotes(r) PROVE Create!OneHeld'
  BY <1>4, RecoveredTypes, RecoveredIs DEF CreatePromotes, Create!PromoteJournal,
    Create!PromoteReady, Create!PromoteCleanup, Create!OneHeld,
     Create!BootHolds, Create!Holds, Create!TypeOK, Create!Visible, Create!Promoted
<1> QED BY <1>1, <1>2, <1>3, <1>4, CreateStepIs, LooksLeave, RunsLeave, RestLeaves

\* A bootstrap keeps the tmux session of its request and the row it works on: what takes either
\* from it ends it.
LEMMA BootKept ==
  ASSUME Create!ConstantsOK, Create!TypeOK, Create!OneHeld, Create!BootHolds, Create!CallSound,
         Create!Next
  PROVE  Create!BootHolds'
<1>1. CASE UNCHANGED <<pend, ready, lock, tmux, boot>> BY <1>1 DEF Create!BootHolds
<1>2. ASSUME NEW r \in Requests, CreateRuns(r) PROVE Create!BootHolds'
  BY <1>2, RunsLeave DEF CreateRuns, Create!StartClaude, Create!startBootstrapSession,
    Create!killSessionIfGeneration,
     Create!cmdBootstrap, Create!SuperviseGone, Create!BootDies, Create!Boot, Create!BootHolds,
     Create!CallSound, Create!TypeOK, Create!ConstantsOK
<1>3. ASSUME NEW r \in Requests, CreateReserves(r) PROVE Create!BootHolds'
  <2>1. lock = None /\ UNCHANGED <<lock, tmux, boot>>
    BY <1>3 DEF CreateReserves, Create!reservePendingSession, Create!createClaude,
      Create!RollbackPending, Create!RollbackReady
  <2>2. \A q \in Requests : boot[q] \notin {"promoted", "written"}
    BY <2>1 DEF Create!BootHolds, Create!ConstantsOK
  <2>3. CASE Create!reservePendingSession(r) \/ Create!createClaude(r)
    <3>1. CASE Create!NameTaken
      BY <2>1, <2>2, <2>3, <3>1, RecoveredTypes, RecoveredIs DEF Create!reservePendingSession,
        Create!createClaude, Create!BootHolds,
         Create!Visible
    <3>2. CASE ~Create!NameTaken
      <4>1. \A q \in Requests : boot[q] = "none"
        BY <3>2, FreeIs DEF Create!BootHolds, Create!TypeOK
      <4> QED BY <2>1, <4>1 DEF Create!BootHolds
    <3> QED BY <3>1, <3>2
  <2>4. CASE Create!RollbackPending(r) \/ Create!RollbackReady(r)
    <3>1. boot[r] = "none" BY <2>4 DEF Create!RollbackPending, Create!RollbackReady,
      Create!CallSound
    <3> QED
      BY <2>1, <2>2, <2>4, <3>1, RecoveredTypes, RecoveredIs DEF Create!RollbackPending,
        Create!RollbackReady,
         Create!removePendingSession, Create!removeSession, Create!BootHolds, Create!Visible
  <2> QED BY <1>3, <2>3, <2>4 DEF CreateReserves
<1>4. ASSUME NEW r \in Requests, CreateReleases(r) PROVE Create!BootHolds'
  BY <1>4, RecoveredTypes, RecoveredIs DEF CreateReleases, Create!BootBlocks,
    Create!BootUnregisters, Create!BootReleases, Create!Remove, Create!Boot,
     Create!removeSession, Create!removePendingSession, Create!OneHeld, Create!Holds,
     Create!BootHolds, Create!TypeOK, Create!ConstantsOK, Create!Visible
<1>5. ASSUME NEW r \in Requests, CreatePromotes(r) PROVE Create!BootHolds'
  BY <1>5, RecoveredTypes, RecoveredIs DEF CreatePromotes, Create!PromoteJournal,
    Create!PromoteReady, Create!PromoteCleanup, Create!Boot, Create!OneHeld,
     Create!Holds, Create!BootHolds, Create!TypeOK, Create!ConstantsOK, Create!Visible,
     Create!Promoted
<1>6. CASE Create!Heal \/ Create!RunGone
  BY <1>6, RestLeaves DEF Create!Heal, Create!RunGone, Create!BootHolds, Create!ConstantsOK
<1> QED
  BY <1>1, <1>2, <1>3, <1>4, <1>5, <1>6, CreateStepIs, LooksLeave DEF Create!loadRegistrySessions

-----------------------------------------------------------------------------
(* The calls *)

\* A session that a call was told of stays until somebody removes it; a row is reserved only by
\* its own call.
LEMMA CallKept ==
  ASSUME Create!ConstantsOK, Create!TypeOK, Create!OneHeld, Create!BootHolds, Create!CallSound,
         Create!ReceiptSound, Create!Next
  PROVE  Create!CallSound'
<1>1. ASSUME NEW r \in Requests, CreateLooks(r) PROVE Create!CallSound'
  <2>1. Create!Visible' = Create!Visible /\ Create!Pending' = Create!Pending
    BY <1>1, LooksLeave DEF Create!Visible, Create!Promoted, Create!Pending
  <2> QED
    BY <1>1, <2>1, LooksLeave DEF CreateLooks, Create!Receive, Create!LookPending, Create!Poll,
      Create!Caught, Create!Waiting, Create!Complete,
       Create!CallDies, Create!Go, Create!NameTaken, Create!CallSound, Create!ReceiptSound,
       Create!TypeOK
<1>2. ASSUME NEW r \in Requests, CreateRuns(r) PROVE Create!CallSound'
  <2>1. Create!Visible' = Create!Visible /\ Create!Pending' = Create!Pending
    BY <1>2, RunsLeave DEF Create!Visible, Create!Promoted, Create!Pending
  <2> QED
    BY <1>2, <2>1, RunsLeave DEF CreateRuns, Create!StartClaude, Create!startBootstrapSession,
       Create!killSessionIfGeneration, Create!cmdBootstrap, Create!SuperviseGone,
       Create!BootDies, Create!Go, Create!Boot, Create!BootHolds,
       Create!CallSound, Create!TypeOK
<1>3. ASSUME NEW r \in Requests, CreateReserves(r) PROVE Create!CallSound'
  <2>1. UNCHANGED <<receipt, boot, removed>>
    BY <1>3 DEF CreateReserves, Create!reservePendingSession, Create!createClaude,
      Create!RollbackPending, Create!RollbackReady
  <2>2. CASE ~Create!NameTaken
    <3>1. \A q \in Requests : boot[q] = "none" BY <2>2, FreeIs DEF Create!BootHolds, Create!TypeOK
    <3> QED
      BY <1>3, <2>1, <2>2, <3>1, FreeIs, RecoveredTypes, RecoveredIs DEF CreateReserves,
        Create!reservePendingSession,
         Create!createClaude, Create!RollbackPending, Create!RollbackReady, Create!removeSession,
         Create!removePendingSession, Create!Go,
         Create!CallSound, Create!TypeOK, Create!Visible, Create!Promoted, Create!Pending
  <2>3. CASE Create!NameTaken
    BY <1>3, <2>1, <2>3, RecoveredTypes, RecoveredIs DEF CreateReserves,
      Create!reservePendingSession, Create!createClaude,
       Create!RollbackPending, Create!RollbackReady, Create!removeSession,
       Create!removePendingSession, Create!Go, Create!CallSound, Create!TypeOK,
       Create!Visible, Create!Promoted, Create!Pending
  <2> QED BY <2>2, <2>3
<1>4. ASSUME NEW r \in Requests, CreateReleases(r) PROVE Create!CallSound'
  BY <1>4, RecoveredTypes, RecoveredIs DEF CreateReleases, Create!BootBlocks,
    Create!BootUnregisters, Create!BootReleases, Create!Remove, Create!Boot,
     Create!removeSession, Create!removePendingSession, Create!OneHeld, Create!Holds,
     Create!BootHolds, Create!CallSound, Create!TypeOK, Create!Visible,
     Create!Promoted, Create!Pending
<1>5. ASSUME NEW r \in Requests, CreatePromotes(r) PROVE Create!CallSound'
  BY <1>5, RecoveredTypes, RecoveredIs DEF CreatePromotes, Create!PromoteJournal,
    Create!PromoteReady, Create!PromoteCleanup, Create!Boot, Create!OneHeld,
     Create!Holds, Create!BootHolds, Create!CallSound, Create!TypeOK, Create!Visible,
     Create!Promoted, Create!Pending
<1>6. CASE Create!loadRegistrySessions \/ Create!Heal \/ Create!RunGone
  BY <1>6, RestLeaves DEF Create!CallSound, Create!Visible, Create!Promoted, Create!Pending
<1> QED BY <1>1, <1>2, <1>3, <1>4, <1>5, <1>6, CreateStepIs

\* A receipt is settled by the last step of a call, which looks at the registry again.
LEMMA ReceiptKept ==
  ASSUME Create!ConstantsOK, Create!TypeOK, Create!OneHeld, Create!BootHolds, Create!CallSound,
         Create!ReceiptSound, Create!Next
  PROVE  Create!ReceiptSound'
<1>1. ASSUME NEW r \in Requests, CreateLooks(r) PROVE Create!ReceiptSound'
  <2>1. Create!Visible' = Create!Visible /\ UNCHANGED <<pend, ready, removed>>
    BY <1>1, LooksLeave DEF Create!Visible, Create!Promoted
  <2>2. CASE Create!Caught(r)
    <3>1. r \notin Create!Pending BY <2>2 DEF Create!Caught, Create!CallSound
    <3>2. r \notin Create!Visible => ~Create!Holds(r) BY <3>1 DEF Create!Visible,
      Create!Promoted, Create!Pending, Create!Holds, Create!TypeOK
    <3> QED BY <2>1, <2>2, <3>2 DEF Create!Caught, Create!Go, Create!ReceiptSound, Create!Holds,
      Create!TypeOK
  <2>3. CASE ~Create!Caught(r)
    BY <1>1, <2>1, <2>3 DEF CreateLooks, Create!Receive, Create!LookPending, Create!Poll,
      Create!Waiting, Create!Complete, Create!CallDies, Create!Go,
       Create!CallSound, Create!ReceiptSound, Create!Holds, Create!TypeOK
  <2> QED BY <2>2, <2>3
<1>2. ASSUME NEW r \in Requests, CreateRuns(r) PROVE Create!ReceiptSound'
  BY <1>2, RunsLeave DEF CreateRuns, Create!StartClaude, Create!startBootstrapSession,
    Create!killSessionIfGeneration,
     Create!cmdBootstrap, Create!SuperviseGone, Create!BootDies, Create!Go, Create!CallSound,
     Create!ReceiptSound, Create!Holds, Create!Visible, Create!Promoted,
     Create!TypeOK
<1>3. ASSUME NEW r \in Requests, CreateReserves(r) PROVE Create!ReceiptSound'
  <2>1. receipt' = receipt /\ removed' = removed /\ receipt[r] = "pending"
    BY <1>3 DEF CreateReserves, Create!reservePendingSession, Create!createClaude,
      Create!RollbackPending, Create!RollbackReady,
       Create!CallSound
  <2> QED
    BY <1>3, <2>1, RecoveredTypes, RecoveredIs DEF CreateReserves, Create!reservePendingSession,
      Create!createClaude, Create!RollbackPending,
       Create!RollbackReady, Create!removeSession, Create!removePendingSession, Create!Go,
       Create!ReceiptSound, Create!Holds, Create!TypeOK, Create!Visible,
       Create!Promoted
<1>4. ASSUME NEW r \in Requests, CreateReleases(r) PROVE Create!ReceiptSound'
  BY <1>4, RecoveredTypes, RecoveredIs DEF CreateReleases, Create!BootBlocks,
    Create!BootUnregisters, Create!BootReleases, Create!Remove,
     Create!removeSession, Create!removePendingSession, Create!OneHeld, Create!Holds,
     Create!BootHolds, Create!ReceiptSound, Create!TypeOK, Create!Visible,
     Create!Promoted
<1>5. ASSUME NEW r \in Requests, CreatePromotes(r) PROVE Create!ReceiptSound'
  BY <1>5, RecoveredTypes, RecoveredIs DEF CreatePromotes, Create!PromoteJournal,
    Create!PromoteReady, Create!PromoteCleanup, Create!OneHeld, Create!Holds,
     Create!BootHolds, Create!ReceiptSound, Create!TypeOK, Create!Visible, Create!Promoted
<1>6. CASE Create!loadRegistrySessions \/ Create!Heal \/ Create!RunGone
  BY <1>6, RestLeaves DEF Create!ReceiptSound, Create!Holds, Create!Visible, Create!Promoted
<1> QED BY <1>1, <1>2, <1>3, <1>4, <1>5, <1>6, CreateStepIs

\* A session leaves the registry only by being removed, and is then owed to nobody.
LEMMA ReaderKept ==
  ASSUME Create!TypeOK, Create!ReaderSound, Create!Next
  PROVE  Create!ReaderSound'
<1>1. CASE Create!loadRegistrySessions
  BY <1>1 DEF Create!loadRegistrySessions, Create!ReaderSound, Create!Visible
<1>2. CASE reader' = reader /\ ready \subseteq ready' BY <1>2 DEF Create!ReaderSound
<1>3. ASSUME NEW r \in Requests, Create!removeSession(r) PROVE Create!ReaderSound'
  <2>1. ready \ {r} \subseteq ready' BY <1>3 DEF Create!removeSession, Create!RecoveredReady
  <2>2. /\ reader'.at = reader.at /\ reader'.seen = reader.seen
        /\ reader'.must = reader.must \ {r}
    BY <1>3 DEF Create!removeSession, Create!TypeOK
  <2> QED BY <2>1, <2>2 DEF Create!ReaderSound
<1>4. ASSUME NEW r \in Requests, CreateReserves(r) \/ CreateReleases(r)
      PROVE  (reader' = reader /\ ready \subseteq ready') \/ Create!removeSession(r)
  BY <1>4 DEF CreateReserves, CreateReleases, Create!reservePendingSession, Create!createClaude,
    Create!RollbackPending,
     Create!RollbackReady, Create!BootBlocks, Create!BootUnregisters, Create!BootReleases,
     Create!Remove, Create!removePendingSession,
     Create!RecoveredReady
<1>5. ASSUME NEW r \in Requests, CreatePromotes(r) PROVE reader' = reader /\ ready \subseteq ready'
  BY <1>5 DEF CreatePromotes, Create!PromoteJournal, Create!PromoteReady, Create!PromoteCleanup,
    Create!RecoveredReady
<1>6. CASE Create!Heal \/ Create!RunGone BY <1>6, <1>2 DEF Create!Heal, Create!RunGone
<1> QED BY <1>1, <1>2, <1>3, <1>4, <1>5, <1>6, CreateStepIs, LooksLeave, RunsLeave

-----------------------------------------------------------------------------
(* Theorems *)

\* At first nobody has the name.
LEMMA CreateInit == ASSUME Create!ConstantsOK, Create!Init PROVE Create!TypeOK /\ Create!CreateInv
BY DEF Create!Init, Create!TypeOK, Create!ConstantsOK, Create!CreateInv, Create!OneHeld,
  Create!BootHolds, Create!CallSound, Create!ReceiptSound, Create!ReaderSound, Create!Holds

\* Every step keeps the invariant.
LEMMA CreateKept ==
  ASSUME Create!ConstantsOK, Create!TypeOK, Create!CreateInv, [Create!Next]_(Create!vars)
  PROVE  Create!CreateInv'
<1>1. CASE UNCHANGED Create!vars
  BY <1>1 DEF Create!vars, Create!CreateInv, Create!OneHeld, Create!BootHolds, Create!CallSound,
    Create!ReceiptSound, Create!ReaderSound, Create!Holds,
     Create!Visible, Create!Promoted, Create!Pending
<1>2. CASE Create!Next
  BY <1>2, HeldKept, BootKept, CallKept, ReceiptKept, ReaderKept DEF Create!CreateInv
<1> QED BY <1>1, <1>2

\* The journal, the registry, tmux, the lock, the calls and their receipts agree on who has the
\* name (session/create.ts, session/promotion.ts, commands/bootstrap.ts).
THEOREM CreateInductive == ASSUME Create!ConstantsOK PROVE Create!Spec => []Create!CreateInv
<1>1. Create!Init => Create!TypeOK /\ Create!CreateInv BY CreateInit
<1>2. Create!TypeOK /\ Create!CreateInv /\ [Create!Next]_(Create!vars) => Create!TypeOK' /\ Create!CreateInv'
  BY CreateTypeKept, CreateKept
<1> QED BY <1>1, <1>2, PTL DEF Create!Spec

\* The holders of the name are one.
LEMMA OneHolds ==
  ASSUME Create!TypeOK, Create!CreateInv
  PROVE  Create!OneHolder
<1> USE DEF Create!CreateInv
<1> DEFINE H == {r \in Requests : pend[r] # "none"} \cup ready
<1>1. \A r, q \in H : r = q BY DEF Create!OneHeld, Create!Holds, Create!TypeOK
<1>2. CASE H = {} BY <1>2, FS_EmptySet, CreateCounts DEF Create!OneHolder
<1>3. CASE H # {}
  <2>1. \E r \in H : H = {r}
    <3> HIDE DEF H
    <3>1. PICK r \in H : TRUE BY <1>3
    <3> QED BY <1>1, <3>1
  <2>2. Cardinality(H) = 1 BY <2>1, FS_Singleton
  <2> QED BY <2>2, CreateCounts DEF Create!OneHolder
<1> QED BY <1>2, <1>3

\* One generation at most holds the name, in the journal or in the registry, wherever a process
\* dies between the writes of a promotion (promotePendingSession, reservePendingSession).
THEOREM AlwaysOneHolder == ASSUME Create!ConstantsOK PROVE Create!Spec => []Create!OneHolder
<1>1. Create!TypeOK /\ Create!CreateInv => Create!OneHolder BY OneHolds
<1> QED BY <1>1, CreateTypes, CreateInductive, PTL

\* What is told of a creation follows from where its rows are.
LEMMA CreatesAreTrue ==
  ASSUME Create!CreateInv
  PROVE  Create!CreatesTrue
BY DEF Create!CreatesTrue, Create!CreateInv, Create!ReceiptSound, Create!ReaderSound,
  Create!Holds, Create!Visible, Create!Promoted, Create!FailedIsAbsent,
   Create!CreatedIsThere, Create!ReaderMissesNone

\* A creation that was told failed leaves no session, then or later; one whose receipt says
\* complete has its session until somebody removes it; and a reader without the lock misses none
\* (createControlSession, loadRegistrySessions).
THEOREM CreatesAlwaysTrue == ASSUME Create!ConstantsOK PROVE Create!Spec => []Create!CreatesTrue
<1>1. Create!CreateInv => Create!CreatesTrue BY CreatesAreTrue
<1> QED BY <1>1, CreateInductive, PTL

-----------------------------------------------------------------------------
(* Delegation and its lease *)

-----------------------------------------------------------------------------
(* The journal of the authority *)

\* The lesser of two times is a time that neither of them is before.
LEMMA LesserIs ==
  ASSUME NEW a \in Int, NEW b \in Int
  PROVE  /\ Lease!Lesser(a, b) \in {a, b} /\ Lease!Lesser(a, b) <= a /\ Lease!Lesser(a, b) <= b
BY DEF Lease!Lesser

Leases == [open : BOOLEAN, closed : BOOLEAN, expires : Lease!Times, deadline : Lease!Times, ops : Lease!Journals]

\* An update is journalled with what it was told, and the updates before it keep theirs.
LEMMA KeptIs ==
  ASSUME Lease!TypeOK, NEW u \in Lease!Updates, NEW r \in Leases, row' = Lease!Kept(u, r)
  PROVE  /\ row' \in Leases /\ row'.open = r.open /\ row'.closed = r.closed
         /\ row'.expires = r.expires /\ row'.deadline = r.deadline /\ Lease!Known' = Lease!Known \cup {u}
         /\ row'.ops[u] = Lease!Result(r) /\ Lease!Result(r) \in Lease!Results
         /\ \A k \in Lease!Known \ {u} : row'.ops[k] = row.ops[k]
<1> DEFINE ops == [k \in Lease!Known \cup {u} |-> IF k = u THEN Lease!Result(r) ELSE row.ops[k]]
<1>1. row.ops \in Lease!Journals BY DEF Lease!TypeOK
<1>2. PICK S \in SUBSET Lease!Updates : row.ops \in [S -> Lease!Results] BY <1>1
  DEF Lease!Journals
<1>3. Lease!Known = S /\ \A k \in Lease!Known : row.ops[k] \in Lease!Results BY <1>2
  DEF Lease!Known
<1>5. Lease!Result(r) \in Lease!Results BY DEF Leases, Lease!Result, Lease!Results
<1>6. ops \in [Lease!Known \cup {u} -> Lease!Results] /\ Lease!Known \cup {u} \in SUBSET Lease!Updates
  BY <1>2, <1>3, <1>5
<1>7. ops \in Lease!Journals BY <1>6 DEF Lease!Journals
<1>8. row' = [r EXCEPT !.ops = ops] BY DEF Lease!Kept
<1>9. row'.ops = ops BY <1>8 DEF Leases
<1>10. /\ row' \in Leases /\ row'.open = r.open /\ row'.closed = r.closed
       /\ row'.expires = r.expires /\ row'.deadline = r.deadline
  <2> HIDE DEF ops
  <2> QED BY <1>7, <1>8 DEF Leases
<1>11. Lease!Known' = Lease!Known \cup {u} BY <1>9 DEF Lease!Known
<1> QED BY <1>5, <1>9, <1>10, <1>11

\* An expiry that a renewal sets is a time, and not past the deadline.
LEMMA RenewedIs ==
  ASSUME Lease!ConstantsOK, Lease!TypeOK
  PROVE  /\ Lease!Renewed.expires \in Lease!Times /\ Lease!Renewed.expires <= row.deadline
         /\ Lease!Renewed \in Leases /\ Lease!Renewed.open = row.open /\ Lease!Renewed.closed = row.closed
         /\ Lease!Renewed.deadline = row.deadline /\ Lease!Renewed.ops = row.ops
<1> DEFINE e == Lease!Lesser(now + LeaseTime, row.deadline)
<1>1. now + LeaseTime \in Nat /\ row.deadline \in Lease!Times /\ MaxTime + LifeTime \in Nat
  BY DEF Lease!ConstantsOK, Lease!TypeOK
<1>2. e \in {now + LeaseTime, row.deadline} /\ e <= row.deadline
  BY <1>1, LesserIs DEF Lease!Times
<1>3. e \in Lease!Times BY <1>1, <1>2 DEF Lease!Times
<1>4. Lease!Renewed.expires = e BY DEF Lease!Renewed, Lease!TypeOK
<1>5. /\ Lease!Renewed \in Leases /\ Lease!Renewed.open = row.open /\ Lease!Renewed.closed = row.closed
      /\ Lease!Renewed.deadline = row.deadline /\ Lease!Renewed.ops = row.ops
  <2>1. row \in Leases /\ Lease!Renewed = [row EXCEPT !.expires = e] BY DEF Lease!Renewed,
    Lease!TypeOK, Leases
  <2> HIDE DEF e
  <2> QED BY <1>3, <2>1 DEF Leases
<1> QED BY <1>2, <1>3, <1>4, <1>5

\* What a renewal and a close have in common: one more update in the journal, told to its
\* caller as it is kept; only a close may take the last place.
LEMMA UpdateIs ==
  ASSUME Lease!ConstantsOK, Lease!TypeOK, NEW u \in Lease!Updates,
         Lease!renew(u) \/ Lease!close(u)
  PROVE  /\ row' \in Leases
         /\ row'.open = row.open /\ row'.deadline = row.deadline /\ (row.closed => row'.closed)
         /\ row'.expires = row.expires \/ row'.expires <= row.deadline
         /\ u \notin Lease!Known /\ Lease!Known' = Lease!Known \cup {u}
         /\ \A k \in Lease!Known : row'.ops[k] = row.ops[k]
         /\ told' = [told EXCEPT ![u] = @ \cup {row'.ops[u]}] /\ row'.ops[u] \in Lease!Results
         /\ call[u] # 0 /\ UNCHANGED <<now, call, child, run, stop, input>>
         /\ row'.closed \/ (Cardinality(Lease!Known) < Capacity /\ Lease!active)
<1>1. CASE Lease!renew(u)
  <2>1. /\ u \notin Lease!Known /\ call[u] # 0 /\ Lease!active /\ Cardinality(Lease!Known) < Capacity
        /\ row' = Lease!Kept(u, Lease!Renewed) /\ Lease!Answer(u, Lease!Result(Lease!Renewed))
        /\ UNCHANGED <<now, call, child, run, stop, input>>
    BY <1>1, LeaseCounts DEF Lease!renew
  <2>2. /\ Lease!Renewed \in Leases /\ Lease!Renewed.open = row.open /\ Lease!Renewed.closed = row.closed
        /\ Lease!Renewed.deadline = row.deadline /\ Lease!Renewed.expires <= row.deadline
    BY RenewedIs
  <2>3. /\ row' \in Leases /\ row'.open = Lease!Renewed.open /\ row'.closed = Lease!Renewed.closed
        /\ row'.expires = Lease!Renewed.expires /\ row'.deadline = Lease!Renewed.deadline
        /\ Lease!Known' = Lease!Known \cup {u}
         /\ row'.ops[u] = Lease!Result(Lease!Renewed) /\ Lease!Result(Lease!Renewed) \in Lease!Results
        /\ \A k \in Lease!Known \ {u} : row'.ops[k] = row.ops[k]
    BY <2>1, <2>2, KeptIs
  <2>4. told' = [told EXCEPT ![u] = @ \cup {row'.ops[u]}] BY <2>1, <2>3 DEF Lease!Answer
  <2> QED BY <2>1, <2>2, <2>3, <2>4
<1>2. CASE Lease!close(u)
  <2> DEFINE r == [row EXCEPT !.closed = TRUE]
  <2>1. /\ u \notin Lease!Known /\ call[u] # 0 /\ row' = Lease!Kept(u, r) /\ Lease!Answer(u, Lease!Result(r))
        /\ UNCHANGED <<now, call, child, run, stop, input>>
    BY <1>2 DEF Lease!close
  <2>2. row \in Leases BY DEF Lease!TypeOK, Leases
  <2>3. /\ r \in Leases /\ r.open = row.open /\ r.closed /\ r.expires = row.expires
        /\ r.deadline = row.deadline
    BY <2>2 DEF Leases
  <2> HIDE DEF r
  <2>4. /\ row' \in Leases /\ row'.open = r.open /\ row'.closed = r.closed
        /\ row'.expires = r.expires /\ row'.deadline = r.deadline
        /\ Lease!Known' = Lease!Known \cup {u} /\ row'.ops[u] = Lease!Result(r) /\ Lease!Result(r) \in Lease!Results
        /\ \A k \in Lease!Known \ {u} : row'.ops[k] = row.ops[k]
    BY <2>1, <2>3, KeptIs
  <2>5. told' = [told EXCEPT ![u] = @ \cup {row'.ops[u]}] BY <2>1, <2>4 DEF Lease!Answer
  <2> QED BY <2>1, <2>3, <2>4, <2>5
<1> QED BY <1>1, <1>2

\* What is opened is a lease that has not been renewed.
LEMMA OpenIs ==
  ASSUME Lease!ConstantsOK, Lease!TypeOK, Lease!openApplicationAuthority
  PROVE  /\ row' \in Leases
         /\ ~row.open /\ row'.open /\ ~row'.closed /\ row'.expires <= row'.deadline /\ Lease!Known' = {}
         /\ UNCHANGED <<now, call, told, child, run, stop, input>>
<1> DEFINE e == now + Lease!Lesser(LeaseTime, LifeTime)
           d == now + LifeTime
<1>1. now \in 0..MaxTime /\ MaxTime \in Nat /\ LifeTime \in Nat /\ LeaseTime \in Nat
  BY DEF Lease!ConstantsOK, Lease!TypeOK
<1>2. Lease!Lesser(LeaseTime, LifeTime) \in Nat /\ Lease!Lesser(LeaseTime, LifeTime) <= LifeTime
  BY <1>1, LesserIs
<1>3. e \in Lease!Times /\ d \in Lease!Times /\ e <= d BY <1>1, <1>2 DEF Lease!Times
<1>4. /\ row' = [Lease!NoRow EXCEPT !.open = TRUE, !.expires = e, !.deadline = d] /\ ~row.open
      /\ UNCHANGED <<now, call, told, child, run, stop, input>>
  BY DEF Lease!openApplicationAuthority
<1>5. [u \in {} |-> 0] \in [{} -> Lease!Results] OBVIOUS
<1>6. [u \in {} |-> 0] \in Lease!Journals BY <1>5 DEF Lease!Journals
<1>7. row'.ops = [u \in {} |-> 0] BY <1>4 DEF Lease!NoRow
<1>8. Lease!Known' = {} BY <1>7 DEF Lease!Known
<1> QED BY <1>3, <1>4, <1>6, <1>8 DEF Lease!NoRow, Leases

-----------------------------------------------------------------------------
(* The children *)

\* An accepted child asks no more than the one it comes from has, and a time that is not over.
LEMMA ChildIs ==
  ASSUME Lease!ConstantsOK, Lease!TypeOK, NEW c \in Children, Lease!resolveDelegation(c)
  PROVE  /\ ~child[c].created /\ Lease!active /\ (Parent[c] # None => child[Parent[c]].created)
         /\ \E p \in Policies, t \in Lease!Times :
              /\ child' = [child EXCEPT ![c] = [created |-> TRUE, policy |-> p, deadline |-> t]]
              /\ Lease!Narrows(p, Lease!InheritedPolicy(c)) /\ t <= Lease!InheritedDeadline(c)
         /\ UNCHANGED <<now, row, call, told, run, stop, input>>
<1>1. PICK p \in Policies, t \in now + 1 .. MaxTime :
        /\ Lease!Narrows(p, Lease!InheritedPolicy(c)) /\ Lease!InheritedDeadline(c) > now
        /\ child' = [child EXCEPT ![c] = [created |-> TRUE, policy |-> p,
                                          deadline |-> Lease!Lesser(t, Lease!InheritedDeadline(c))]]
  BY DEF Lease!resolveDelegation
<1>2. Lease!InheritedDeadline(c) \in Lease!Times BY DEF Lease!InheritedDeadline,
  Lease!ConstantsOK, Lease!TypeOK
<1>3. now \in Nat /\ MaxTime \in Nat /\ LifeTime \in Nat /\ t \in Nat /\ t <= MaxTime
  BY DEF Lease!ConstantsOK, Lease!TypeOK
<1>4. t \in Lease!Times /\ t \in Int /\ Lease!InheritedDeadline(c) \in Int BY <1>2, <1>3
  DEF Lease!Times
<1>5. /\ Lease!Lesser(t, Lease!InheritedDeadline(c)) \in Lease!Times
      /\ Lease!Lesser(t, Lease!InheritedDeadline(c)) <= Lease!InheritedDeadline(c)
  BY <1>2, <1>4, LesserIs
<1> QED BY <1>1, <1>5 DEF Lease!resolveDelegation

\* To narrow what was narrowed is to narrow.
LEMMA NarrowsOn ==
  ASSUME NEW p, NEW q, NEW r, p.access \in Int, q.access \in Int, r.access \in Int,
         Lease!Narrows(p, q), Lease!Narrows(q, r)
  PROVE  Lease!Narrows(p, r)
BY DEF Lease!Narrows
\* What the processes of the children do leaves the lease and their delegations alone.
ChildWorks(c) ==
  Lease!cancelDelegation(c) \/ Lease!Launch(c) \/ Lease!Round(c)
  \/ Lease!OwnerDies(c) \/ Lease!acceptControlMessage(c) \/ Lease!Accept(c)
  \/ Lease!AcceptFails(c) \/ Lease!pickup(c)
LEMMA WorksIs ==
  ASSUME Lease!TypeOK, NEW c \in Children, ChildWorks(c)
  PROVE  /\ UNCHANGED <<now, row, call, told, child>>
         /\ run' \in [Children -> {"off", "starting", "live"}]
         /\ stop' \subseteq Children /\ stop \subseteq stop'
         /\ input' \in [Children -> {"none", "admitting", "accepted", "taking", "begun"}]
BY DEF ChildWorks, Lease!cancelDelegation, Lease!Launch, Lease!Round, Lease!Opened,
  Lease!Begin, Lease!OwnerEnds, Lease!OwnerDies, Lease!acceptControlMessage, Lease!Accept,
  Lease!AcceptFails, Lease!pickup, Lease!TypeOK

\* Every step of the authority and of the children is one of these.
LEMMA LeaseStepIs ==
  ASSUME Lease!Next
  PROVE  \/ Lease!openApplicationAuthority \/ Lease!Tick
         \/ \E u \in Lease!Updates : Lease!Send(u) \/ Lease!Replay(u) \/ Lease!renew(u) \/ Lease!close(u)
         \/ \E c \in Children : Lease!resolveDelegation(c) \/ ChildWorks(c)
BY DEF Lease!Next, Lease!Updates, ChildWorks

-----------------------------------------------------------------------------
(* Types *)

\* The authority's file, its journal and the children's delegations keep their shape.
LEMMA LeaseTypeKept ==
  ASSUME Lease!ConstantsOK, Lease!TypeOK, [Lease!Next]_(Lease!vars)
  PROVE  Lease!TypeOK'
<1>1. CASE Lease!openApplicationAuthority BY <1>1, OpenIs DEF Lease!TypeOK, Leases
<1>2. CASE Lease!Tick
  <2>1. now' \in 0..MaxTime BY <1>2 DEF Lease!Tick, Lease!TypeOK, Lease!ConstantsOK
  <2> QED BY <1>2, <2>1 DEF Lease!Tick, Lease!TypeOK
<1>3. ASSUME NEW u \in Lease!Updates, Lease!Send(u) PROVE Lease!TypeOK' BY <1>3 DEF Lease!Send,
  Lease!TypeOK
<1>4. ASSUME NEW u \in Lease!Updates, Lease!Replay(u) PROVE Lease!TypeOK'
  <2>1. PICK S \in SUBSET Lease!Updates : row.ops \in [S -> Lease!Results] BY DEF Lease!TypeOK,
    Lease!Journals
  <2>2. row.ops[u] \in Lease!Results BY <1>4, <2>1 DEF Lease!Replay, Lease!Known
  <2>3. told' \in [Lease!Updates -> SUBSET Lease!Results] BY <1>4, <2>2 DEF Lease!Replay,
    Lease!Answer, Lease!TypeOK
  <2> QED BY <1>4, <2>3 DEF Lease!Replay, Lease!TypeOK
<1>5. ASSUME NEW u \in Lease!Updates, Lease!renew(u) \/ Lease!close(u) PROVE Lease!TypeOK'
  <2>1. told' \in [Lease!Updates -> SUBSET Lease!Results] BY <1>5, UpdateIs DEF Lease!TypeOK
  <2> QED BY <1>5, <2>1, UpdateIs DEF Lease!TypeOK, Leases
<1>6. ASSUME NEW c \in Children, Lease!resolveDelegation(c) PROVE Lease!TypeOK'
  <2>1. PICK p \in Policies, t \in Lease!Times :
          child' = [child EXCEPT ![c] = [created |-> TRUE, policy |-> p, deadline |-> t]]
    BY <1>6, ChildIs
  <2>2. UNCHANGED <<now, row, call, told, run, stop, input>> BY <1>6, ChildIs
  <2> QED BY <2>1, <2>2 DEF Lease!TypeOK
<1>7. ASSUME NEW c \in Children, ChildWorks(c) PROVE Lease!TypeOK' BY <1>7, WorksIs
  DEF Lease!TypeOK
<1>8. CASE UNCHANGED Lease!vars BY <1>8 DEF Lease!vars, Lease!TypeOK
<1> QED BY <1>1, <1>2, <1>3, <1>4, <1>5, <1>6, <1>7, <1>8, LeaseStepIs

\* Init has these shapes: no lease, no child, nothing running.
LEMMA LeaseTypeInit == ASSUME Lease!ConstantsOK, Lease!Init PROVE Lease!TypeOK
<1>1. [u \in {} |-> 0] \in [{} -> Lease!Results] OBVIOUS
<1>2. [u \in {} |-> 0] \in Lease!Journals BY <1>1 DEF Lease!Journals
<1>3. 0 \in Lease!Times /\ 0 \in 0..MaxTime BY DEF Lease!ConstantsOK, Lease!Times
<1> QED BY <1>2, <1>3 DEF Lease!Init, Lease!TypeOK, Lease!NoRow, Lease!NoChild

\* Every file, journal and process of the delegation tree has its shape, whatever is sent twice.
THEOREM LeaseTypes == ASSUME Lease!ConstantsOK PROVE Lease!Spec => []Lease!TypeOK
<1>1. Lease!Init => Lease!TypeOK BY LeaseTypeInit
<1>2. Lease!TypeOK /\ [Lease!Next]_(Lease!vars) => Lease!TypeOK' BY LeaseTypeKept
<1> QED BY <1>1, <1>2, PTL DEF Lease!Spec

-----------------------------------------------------------------------------
(* The lease *)

\* Nothing is asked of an authority before it is opened, and it is opened once.
LEMMA UnopenedKept ==
  ASSUME Lease!ConstantsOK, Lease!TypeOK, Lease!Unopened, [Lease!Next]_(Lease!vars)
  PROVE  Lease!Unopened' /\ (row.open => row'.open /\ row'.deadline = row.deadline)
<1> DEFINE Goal == Lease!Unopened' /\ (row.open => row'.open /\ row'.deadline = row.deadline)
<1>1. CASE Lease!openApplicationAuthority BY <1>1, OpenIs DEF Lease!Unopened
<1>2. CASE Lease!Tick BY <1>2 DEF Lease!Tick, Lease!Unopened
<1>3. ASSUME NEW u \in Lease!Updates, Lease!Send(u) \/ Lease!Replay(u) PROVE Goal
  BY <1>3 DEF Lease!Send, Lease!Replay, Lease!Unopened, Lease!NoRow, Lease!Known
<1>4. ASSUME NEW u \in Lease!Updates, Lease!renew(u) \/ Lease!close(u) PROVE Goal
  BY <1>4, UpdateIs DEF Lease!Unopened
<1>5. ASSUME NEW c \in Children, Lease!resolveDelegation(c) PROVE Goal
  BY <1>5, ChildIs DEF Lease!Unopened, Lease!active
<1>6. ASSUME NEW c \in Children, ChildWorks(c) PROVE Goal BY <1>6, WorksIs DEF Lease!Unopened
<1>7. CASE UNCHANGED Lease!vars BY <1>7 DEF Lease!vars, Lease!Unopened
<1> QED BY <1>1, <1>2, <1>3, <1>4, <1>5, <1>6, <1>7, LeaseStepIs

\* The journal goes on saying what it said, and what it says is what is told.
LEMMA ToldKeptKept ==
  ASSUME Lease!ConstantsOK, Lease!TypeOK, Lease!Unopened, Lease!ToldKept,
         [Lease!Next]_(Lease!vars)
  PROVE  Lease!ToldKept'
<1>1. CASE Lease!openApplicationAuthority
  <2>1. Lease!Known = {} BY <1>1, OpenIs DEF Lease!Unopened, Lease!NoRow, Lease!Known
  <2> QED BY <1>1, <2>1, OpenIs DEF Lease!ToldKept
<1>2. CASE Lease!Tick BY <1>2 DEF Lease!Tick, Lease!ToldKept, Lease!Known
<1>3. ASSUME NEW u \in Lease!Updates, Lease!Send(u) PROVE Lease!ToldKept' BY <1>3 DEF Lease!Send,
  Lease!ToldKept, Lease!Known
<1>4. ASSUME NEW u \in Lease!Updates, Lease!Replay(u) PROVE Lease!ToldKept'
  BY <1>4 DEF Lease!Replay, Lease!Answer, Lease!ToldKept, Lease!Known, Lease!TypeOK
<1>5. ASSUME NEW u \in Lease!Updates, Lease!renew(u) \/ Lease!close(u) PROVE Lease!ToldKept'
  <2>1. /\ u \notin Lease!Known /\ Lease!Known' = Lease!Known \cup {u} /\ \A k \in Lease!Known : row'.ops[k] = row.ops[k]
        /\ told' = [told EXCEPT ![u] = @ \cup {row'.ops[u]}]
    BY <1>5, UpdateIs
  <2>2. told[u] = {} BY <2>1 DEF Lease!ToldKept
  <2>3. told'[u] = {row'.ops[u]} BY <2>1, <2>2 DEF Lease!TypeOK
  <2>4. \A k \in Lease!Updates \ {u} : told'[k] = told[k] BY <2>1 DEF Lease!TypeOK
  <2>5. \A k \in Lease!Updates \ {u} : told'[k] # {} => k \in Lease!Known' /\ told'[k] = {row'.ops[k]}
    BY <2>1, <2>4 DEF Lease!ToldKept
  <2> QED BY <2>1, <2>3, <2>5 DEF Lease!ToldKept
<1>6. ASSUME NEW c \in Children, Lease!resolveDelegation(c) PROVE Lease!ToldKept'
  BY <1>6, ChildIs DEF Lease!ToldKept, Lease!Known
<1>7. ASSUME NEW c \in Children, ChildWorks(c) PROVE Lease!ToldKept' BY <1>7, WorksIs
  DEF Lease!ToldKept, Lease!Known
<1>8. CASE UNCHANGED Lease!vars BY <1>8 DEF Lease!vars, Lease!ToldKept, Lease!Known
<1> QED BY <1>1, <1>2, <1>3, <1>4, <1>5, <1>6, <1>7, <1>8, LeaseStepIs
\* The journal is finite.
LEMMA KnownFinite ==
  ASSUME Lease!ConstantsOK, Lease!TypeOK
  PROVE  IsFiniteSet(Lease!Known) /\ Cardinality(Lease!Known) \in Nat
<1>1. Lease!Known \subseteq Lease!Updates BY DEF Lease!TypeOK, Lease!Journals, Lease!Known
<1> QED BY <1>1, FS_Subset, FS_CardinalityType, LeaseCounts DEF Lease!ConstantsOK

\* Renewals stop one place short of a full journal and never pass the deadline.
LEMMA LeaseKeptKept ==
  ASSUME Lease!ConstantsOK, Lease!TypeOK, Lease!TypeOK', Lease!ToldKept', Lease!LeaseKept,
         [Lease!Next]_(Lease!vars)
  PROVE  Lease!LeaseKept'
<1>1. \A u \in Lease!Updates : Cardinality(told'[u]) <= 1
  <2> SUFFICES ASSUME NEW u \in Lease!Updates PROVE Cardinality(told'[u]) <= 1 OBVIOUS
  <2>1. CASE told'[u] = {}
    <3>1. Cardinality(told'[u]) = 0 BY <2>1, FS_EmptySet
    <3> QED BY <3>1
  <2>2. CASE told'[u] = {row'.ops[u]}
    <3>1. Cardinality(told'[u]) = 1 BY <2>2, FS_Singleton
    <3> QED BY <3>1
  <2> QED BY <2>1, <2>2 DEF Lease!ToldKept
<1>2. row'.expires <= row'.deadline /\ (Cardinality(Lease!Known') = Capacity + 1 => row'.closed)
  <2> DEFINE Goal ==
        row'.expires <= row'.deadline /\ (Cardinality(Lease!Known') = Capacity + 1 => row'.closed)
  <2> SUFFICES Goal OBVIOUS
  <2>1. CASE Lease!openApplicationAuthority
    <3>1. Lease!Known' = {} /\ row'.expires <= row'.deadline BY <2>1, OpenIs
    <3>2. Cardinality(Lease!Known') = 0 BY <3>1, FS_EmptySet
    <3> QED BY <3>1, <3>2 DEF Lease!ConstantsOK
  <2>2. ASSUME UNCHANGED row PROVE Goal
    BY <2>2, LeaseCounts DEF Lease!LeaseKept, Lease!Known
  <2>3. ASSUME NEW u \in Lease!Updates, Lease!renew(u) \/ Lease!close(u) PROVE Goal
    <3>1. /\ row'.deadline = row.deadline
          /\ row'.expires = row.expires \/ row'.expires <= row.deadline
          /\ u \notin Lease!Known /\ Lease!Known' = Lease!Known \cup {u}
          /\ row'.closed \/ Cardinality(Lease!Known) < Capacity
      BY <2>3, UpdateIs
    <3>2. Cardinality(Lease!Known') = Cardinality(Lease!Known) + 1
      BY <3>1, KnownFinite, FS_AddElement
    <3>3. Cardinality(Lease!Known') = Capacity + 1 => row'.closed
      BY <3>1, <3>2, KnownFinite DEF Lease!ConstantsOK
    <3> QED BY <3>1, <3>3 DEF Lease!LeaseKept
  <2>4. ASSUME NEW c \in Children, Lease!resolveDelegation(c) PROVE UNCHANGED row BY <2>4, ChildIs
  <2>5. ASSUME NEW c \in Children, ChildWorks(c) PROVE UNCHANGED row BY <2>5, WorksIs
  <2>6. Lease!Tick \/ (\E u \in Lease!Updates : Lease!Send(u) \/ Lease!Replay(u)) \/ UNCHANGED Lease!vars => UNCHANGED row
    BY DEF Lease!Tick, Lease!Send, Lease!Replay, Lease!vars
  <2> HIDE DEF Goal
  <2> QED BY <2>1, <2>2, <2>3, <2>4, <2>5, <2>6, LeaseStepIs
<1> QED BY <1>1, <1>2, LeaseCounts DEF Lease!LeaseKept

-----------------------------------------------------------------------------
(* The children under the lease *)

\* Only its acceptance makes a child; the lease it lives under keeps its deadline.
LEMMA ChildrenStay ==
  ASSUME Lease!ConstantsOK, Lease!TypeOK, [Lease!Next]_(Lease!vars),
         \A c \in Children : ~Lease!resolveDelegation(c)
  PROVE  child' = child
<1>1. \A u \in Lease!Updates : Lease!renew(u) \/ Lease!close(u) => child' = child BY UpdateIs
<1>2. \A c \in Children : ChildWorks(c) => child' = child BY WorksIs
<1>3. Lease!openApplicationAuthority => child' = child BY OpenIs
<1>4. Lease!Tick \/ (\E u \in Lease!Updates : Lease!Send(u) \/ Lease!Replay(u)) \/ UNCHANGED Lease!vars => child' = child
  BY DEF Lease!Tick, Lease!Send, Lease!Replay, Lease!vars
<1> QED BY <1>1, <1>2, <1>3, <1>4, LeaseStepIs

\* A child is accepted after the one it comes from, once, and with no more than that one has.
LEMMA ChildrenKept ==
  ASSUME Lease!ConstantsOK, Lease!TypeOK, Lease!TypeOK', Lease!Unopened, Lease!ParentsFirst,
         Lease!ChildrenNarrow, [Lease!Next]_(Lease!vars)
  PROVE  Lease!ParentsFirst' /\ Lease!ChildrenNarrow'
<1>1. CASE \A c \in Children : ~Lease!resolveDelegation(c)
  <2>1. child' = child BY <1>1, ChildrenStay
  <2>2. \A c \in Children : child[c].created => row'.deadline = row.deadline
    BY UnopenedKept DEF Lease!Unopened
  <2> QED BY <2>1, <2>2 DEF Lease!ParentsFirst, Lease!ChildrenNarrow
<1>2. ASSUME NEW c \in Children, Lease!resolveDelegation(c) PROVE Lease!ParentsFirst' /\ Lease!ChildrenNarrow'
  <2>1. PICK p \in Policies, t \in Lease!Times :
          /\ child' = [child EXCEPT ![c] = [created |-> TRUE, policy |-> p, deadline |-> t]]
          /\ Lease!Narrows(p, Lease!InheritedPolicy(c)) /\ t <= Lease!InheritedDeadline(c)
    BY <1>2, ChildIs
  <2>2. ~child[c].created /\ row' = row /\ (Parent[c] # None => child[Parent[c]].created)
    BY <1>2, ChildIs
  <2>3. \A k \in Children \ {c} : child'[k] = child[k] BY <2>1 DEF Lease!TypeOK
  <2>4. child'[c] = [created |-> TRUE, policy |-> p, deadline |-> t] BY <2>1 DEF Lease!TypeOK
  <2>5. \A k \in Children : Parent[k] # None => Parent[k] \in Children BY DEF Lease!ConstantsOK
  <2>6. Lease!ParentsFirst'
    <3> SUFFICES ASSUME NEW k \in Children, child'[k].created, Parent[k] # None
                 PROVE  child'[Parent[k]].created
      BY DEF Lease!ParentsFirst
    <3>1. child[Parent[k]].created BY <2>2, <2>3 DEF Lease!ParentsFirst
    <3> QED BY <2>3, <2>4, <2>5, <3>1
  <2>7. /\ p.access \in Int /\ Grant.access \in Int
        /\ \A k \in Children : child[k].policy.access \in Int
    BY DEF Lease!ConstantsOK, Lease!TypeOK
  <2>8. \A k \in Children : child[k].deadline \in Int /\ row.deadline \in Int /\ t \in Int
    BY DEF Lease!ConstantsOK, Lease!TypeOK, Lease!Times
  <2>9. /\ Lease!Narrows(p, Grant) /\ t <= row.deadline
        /\ Parent[c] # None =>
             Lease!Narrows(p, child[Parent[c]].policy) /\ t <= child[Parent[c]].deadline
    <3>1. CASE Parent[c] = None BY <2>1, <3>1 DEF Lease!InheritedPolicy, Lease!InheritedDeadline
    <3>2. CASE Parent[c] # None
      <4>1. Lease!Narrows(p, child[Parent[c]].policy) /\ t <= child[Parent[c]].deadline
        BY <2>1, <3>2 DEF Lease!InheritedPolicy, Lease!InheritedDeadline
      <4>2. /\ Lease!Narrows(child[Parent[c]].policy, Grant)
            /\ child[Parent[c]].deadline <= row.deadline
        BY <2>2, <2>5, <3>2 DEF Lease!ChildrenNarrow
      <4>3. Lease!Narrows(p, Grant) BY <2>5, <2>7, <3>2, <4>1, <4>2, NarrowsOn
      <4>4. t <= row.deadline BY <2>5, <2>8, <3>2, <4>1, <4>2
      <4> QED BY <3>2, <4>1, <4>3, <4>4
    <3> QED BY <3>1, <3>2
  <2>10. Lease!ChildrenNarrow'
    <3> SUFFICES ASSUME NEW k \in Children, child'[k].created
                 PROVE  /\ Lease!Narrows(child'[k].policy, Grant) /\ child'[k].deadline <= row'.deadline
                        /\ Parent[k] # None =>
                             /\ Lease!Narrows(child'[k].policy, child'[Parent[k]].policy)
                             /\ child'[k].deadline <= child'[Parent[k]].deadline
      BY DEF Lease!ChildrenNarrow, Lease!Narrows
    <3>1. CASE k = c
      <4>1. Parent[k] # None => Parent[k] \in Children \ {c} BY <2>2, <2>5, <3>1
      <4> QED BY <2>2, <2>3, <2>4, <2>9, <3>1, <4>1
    <3>2. CASE k # c
      <4>1. child[k].created BY <2>3, <3>2
      <4>2. Parent[k] # None => Parent[k] \in Children \ {c}
        BY <2>2, <2>5, <4>1 DEF Lease!ParentsFirst
      <4> QED BY <2>2, <2>3, <3>2, <4>1, <4>2 DEF Lease!ChildrenNarrow
    <3> QED BY <3>1, <3>2
  <2> QED BY <2>6, <2>10
<1> QED BY <1>1, <1>2
\* At first there is no lease, no answer and no child.
LEMMA LeaseInit == ASSUME Lease!ConstantsOK, Lease!Init PROVE Lease!LeaseInv
<1>1. Lease!Known = {} BY DEF Lease!Init, Lease!NoRow, Lease!Known
<1>2. Cardinality(Lease!Known) = 0 /\ Cardinality({}) = 0 BY <1>1, FS_EmptySet
<1>3. Lease!LeaseKept BY <1>2, LeaseCounts DEF Lease!Init, Lease!NoRow, Lease!LeaseKept, Lease!ConstantsOK
<1>4. \A u \in Lease!Updates : told[u] = {} BY DEF Lease!Init
<1>5. \A c \in Children : ~child[c].created BY DEF Lease!Init, Lease!NoChild
<1>6. Lease!Unopened /\ Lease!ToldKept /\ Lease!ParentsFirst /\ Lease!ChildrenNarrow
  BY <1>4, <1>5 DEF Lease!Init, Lease!NoRow, Lease!Unopened, Lease!ToldKept, Lease!ParentsFirst,
    Lease!ChildrenNarrow
<1> QED BY <1>3, <1>6 DEF Lease!LeaseInv, Lease!LeaseSafe

\* A step of an update, of a child or of the clock keeps the invariant.
LEMMA LeaseInvKept ==
  ASSUME Lease!ConstantsOK, Lease!TypeOK, Lease!TypeOK', Lease!LeaseInv, [Lease!Next]_(Lease!vars)
  PROVE  Lease!LeaseInv'
BY UnopenedKept, ToldKeptKept, LeaseKeptKept, ChildrenKept DEF Lease!LeaseInv, Lease!LeaseSafe

\* The journal of an authority says what was told, is opened once, and its children were
\* accepted from their parents down.
THEOREM LeaseInductive == ASSUME Lease!ConstantsOK PROVE Lease!Spec => []Lease!LeaseInv
<1>1. Lease!Init => Lease!LeaseInv BY LeaseInit
<1>2. Lease!TypeOK /\ Lease!TypeOK' /\ Lease!LeaseInv /\ [Lease!Next]_(Lease!vars) => Lease!LeaseInv'
  BY LeaseInvKept
<1> QED BY <1>1, <1>2, LeaseTypes, PTL DEF Lease!Spec

\* No renewal passes the hard deadline or takes the place kept for a close, an update that
\* arrives any number of times is told one answer (authority.ts: updateApplicationAuthority),
\* and access, workspace and deadline only narrow from the grant down any chain of children
\* (resolveDelegation).
THEOREM LeaseAlwaysSafe == ASSUME Lease!ConstantsOK PROVE Lease!Spec => []Lease!LeaseSafe
<1>1. Lease!LeaseInv => Lease!LeaseSafe BY DEF Lease!LeaseInv
<1> QED BY <1>1, LeaseInductive, PTL

-----------------------------------------------------------------------------
(* What has ended *)

\* A lease that is not active is never active again.
LEMMA EndedLease ==
  ASSUME Lease!ConstantsOK, Lease!TypeOK, Lease!TypeOK', [Lease!Next]_(Lease!vars), row.open,
         ~Lease!active
  PROVE  ~Lease!active'
<1>1. now \in Int /\ row.expires \in Int /\ row.deadline \in Int BY DEF Lease!TypeOK,
  Lease!ConstantsOK, Lease!Times
<1>2. CASE Lease!Tick BY <1>1, <1>2 DEF Lease!Tick, Lease!active
<1>3. ASSUME NEW u \in Lease!Updates, Lease!Send(u) \/ Lease!Replay(u) PROVE ~Lease!active'
  BY <1>3 DEF Lease!Send, Lease!Replay, Lease!active
<1>4. ASSUME NEW u \in Lease!Updates, Lease!renew(u) PROVE FALSE BY <1>4 DEF Lease!renew
<1>5. ASSUME NEW u \in Lease!Updates, Lease!close(u) PROVE ~Lease!active'
  <2>1. row'.closed BY <1>5, UpdateIs
  <2> QED BY <2>1 DEF Lease!active
<1>6. ASSUME NEW c \in Children, Lease!resolveDelegation(c) \/ ChildWorks(c) PROVE ~Lease!active'
  <2>1. now' = now /\ row' = row BY <1>6, ChildIs, WorksIs
  <2> QED BY <2>1 DEF Lease!active
<1>7. CASE UNCHANGED Lease!vars BY <1>7 DEF Lease!vars, Lease!active
<1>8. ~Lease!openApplicationAuthority BY DEF Lease!openApplicationAuthority
<1> QED BY <1>2, <1>3, <1>4, <1>5, <1>6, <1>7, <1>8, LeaseStepIs

\* Time and the stops that are written only grow.
LEMMA EndsGrow ==
  ASSUME Lease!ConstantsOK, Lease!TypeOK, [Lease!Next]_(Lease!vars)
  PROVE  now <= now' /\ stop \subseteq stop'
<1>1. now \in Int BY DEF Lease!TypeOK, Lease!ConstantsOK
<1>2. \A u \in Lease!Updates : Lease!renew(u) \/ Lease!close(u) => now' = now /\ stop' = stop
  BY UpdateIs
<1>3. \A c \in Children : ChildWorks(c) => now' = now /\ stop \subseteq stop' BY WorksIs
<1>4. \A c \in Children : Lease!resolveDelegation(c) => now' = now /\ stop' = stop BY ChildIs
<1>5. Lease!openApplicationAuthority => now' = now /\ stop' = stop BY OpenIs
<1>6. (\E u \in Lease!Updates : Lease!Send(u) \/ Lease!Replay(u)) \/ UNCHANGED Lease!vars => now' = now /\ stop' = stop
  BY DEF Lease!Send, Lease!Replay, Lease!vars
<1>7. Lease!Tick => now' = now + 1 /\ stop' = stop BY DEF Lease!Tick
<1> QED BY <1>1, <1>2, <1>3, <1>4, <1>5, <1>6, <1>7, LeaseStepIs

\* A child that has ended stays so: its delegation is never written again.
LEMMA EndedChild ==
  ASSUME Lease!ConstantsOK, Lease!TypeOK, Lease!TypeOK', Lease!Unopened,
         [Lease!Next]_(Lease!vars), NEW c \in Children,
         child[c].created, Lease!Stopped(c)
  PROVE  Lease!Stopped(c)'
<1>1. row.open BY DEF Lease!Unopened
<1>2. child'[c] = child[c]
  <2>1. CASE \A k \in Children : ~Lease!resolveDelegation(k) BY <2>1, ChildrenStay
  <2>2. ASSUME NEW k \in Children, Lease!resolveDelegation(k) PROVE child'[c] = child[c]
    BY <2>2, ChildIs DEF Lease!TypeOK
  <2> QED BY <2>1, <2>2
<1>3. now <= now' /\ stop \subseteq stop' BY EndsGrow
<1>4. now \in Int /\ now' \in Int /\ child[c].deadline \in Int
  BY DEF Lease!TypeOK, Lease!ConstantsOK, Lease!Times
<1> QED BY <1>1, <1>2, <1>3, <1>4, EndedLease DEF Lease!Stopped

\* In a child that has ended nothing is launched, and an input moves only if it had asked
\* before the end.
LEMMA NothingBegins ==
  ASSUME Lease!ConstantsOK, Lease!TypeOK, [Lease!Next]_(Lease!vars), NEW c \in Children,
         Lease!Stopped(c)
  PROVE  /\ input'[c] # input[c] => input[c] \in Lease!Passing /\ input'[c] \notin Lease!Passing
         /\ run'[c] = "starting" => run[c] = "starting"
<1> DEFINE Goal ==
      /\ input'[c] # input[c] => input[c] \in Lease!Passing /\ input'[c] \notin Lease!Passing
      /\ run'[c] = "starting" => run[c] = "starting"
<1> SUFFICES Goal OBVIOUS
<1>1. ASSUME NEW k \in Children, ChildWorks(k) PROVE Goal
  BY <1>1 DEF ChildWorks, Lease!cancelDelegation, Lease!Launch, Lease!Round, Lease!Opened,
    Lease!Begin, Lease!OwnerEnds, Lease!OwnerDies, Lease!acceptControlMessage, Lease!Accept,
    Lease!AcceptFails, Lease!pickup, Lease!Passing, Lease!TypeOK
<1>2. ASSUME UNCHANGED <<run, input>> PROVE Goal BY <1>2
<1>3. \A u \in Lease!Updates : Lease!renew(u) \/ Lease!close(u) => UNCHANGED <<run, input>>
  BY UpdateIs
<1>4. \A k \in Children : Lease!resolveDelegation(k) => UNCHANGED <<run, input>> BY ChildIs
<1>5. Lease!openApplicationAuthority => UNCHANGED <<run, input>> BY OpenIs
<1>6. Lease!Tick \/ (\E u \in Lease!Updates : Lease!Send(u) \/ Lease!Replay(u)) \/ UNCHANGED Lease!vars
        => UNCHANGED <<run, input>>
  BY DEF Lease!Tick, Lease!Send, Lease!Replay, Lease!vars
<1> HIDE DEF Goal
<1> QED BY <1>1, <1>2, <1>3, <1>4, <1>5, <1>6, LeaseStepIs

\* What has ended stays ended through any step.
LEMMA EndedKept ==
  ASSUME Lease!ConstantsOK, Lease!TypeOK, Lease!TypeOK', Lease!LeaseInv, [Lease!Next]_(Lease!vars)
  PROVE  Lease!EndedStays
BY EndedLease, EndedChild, NothingBegins DEF Lease!EndedStays, Lease!LeaseInv

\* No renewal, launch or input brings back a lease or a child that has ended, through
\* updates sent twice or late and owners that die (delegationStopped, as every step asks it).
THEOREM EndedAlwaysStays == ASSUME Lease!ConstantsOK PROVE Lease!Spec => [][Lease!EndedStays]_(Lease!vars)
<1>1. Lease!TypeOK /\ Lease!TypeOK' /\ Lease!LeaseInv /\ [Lease!Next]_(Lease!vars) => Lease!EndedStays
  BY EndedKept
<1> QED BY <1>1, LeaseTypes, LeaseInductive, PTL DEF Lease!Spec
=============================================================================
