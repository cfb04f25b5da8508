----------------------------- MODULE Attachments -----------------------------
(***************************************************************************)
(* The attachment store: uploads in chunks, verification, pins of accepted *)
(* messages and of forks, expiry and cancellation (src/src/attachments).   *)
(*                                                                         *)
(* Every operation is one transaction under the store's lock: it loads the *)
(* index, reaps what expired, runs, and persists the index.  Files and     *)
(* index are written one after the other, so a process that dies inside a  *)
(* transaction leaves a prefix of its writes: every operation that writes  *)
(* twice has the disjunct in which it was cut between the two.             *)
(***************************************************************************)
EXTENDS Naturals, Sequences, FiniteSets

CONSTANTS
  Uploads,     \* ids the clients upload under
  Cancellable, \* those whose client may cancel
  Contents,    \* images, and the digests that name them
  Messages,    \* messages that carry one image each
  Source, Fork, \* a registration and the fork made of it
  MaxRecords,  \* ATTACHMENT_LIMITS.records
  MaxExpiries, MaxCuts, \* bounds: expiries, processes that die
  None

VARIABLES
  index,   \* index.json: a record or None per upload id
  tomb,    \* index.json: cancelled ids, "none", "kept" or "due"
  pins,    \* index.json: accepted references per message and target
  files,   \* the bytes on disk, a sequence of chunks, or None
  fin,     \* the finalization that holds the decoder lock
  ledger,  \* messages accepted with their image
  told,    \* ghost: the chunks each client was told are received
  cuts, expiries

vars == <<index, tomb, pins, files, fin, ledger, told, cuts, expiries>>

Size == 2                        \* chunks of an image
Whole(c) == [k \in 1..Size |-> c]
Ref(u, c) == [id |-> u, digest |-> c]
Refs == {Ref(u, c) : u \in Uploads, c \in Contents}
Pins == [message : Messages, target : {Source, Fork}, ref : Refs]

Pinned(u) == \E p \in pins : p.ref.id = u
Uploading(c) == [digest |-> c, received |-> 0, phase |-> "uploading", ref |-> None, due |-> FALSE]

Init ==
  /\ index = [u \in Uploads |-> None] /\ files = [u \in Uploads |-> None]
  /\ tomb = [u \in Uploads |-> "none"] /\ told = [u \in Uploads |-> <<>>]
  /\ pins = {} /\ fin = None /\ ledger = {} /\ cuts = 0 /\ expiries = 0

-----------------------------------------------------------------------------
(* reapExpired: what every transaction starts with *)

\* Mutant: expiry looks at the phase only, and a record pinned twice keeps its old one.
ExpiredUnpinned == {u \in Uploads : index[u] # None /\ index[u].due}

Expired == {u \in Uploads : /\ index[u] # None /\ index[u].due
                            /\ index[u].phase # "retained" /\ ~Pinned(u)}

Rows == [u \in Uploads |-> IF u \in Expired THEN None ELSE index[u]]
Bytes == [u \in Uploads |-> IF u \in Expired THEN None ELSE files[u]]
Tombs == [u \in Uploads |-> IF tomb[u] = "due" THEN "none" ELSE tomb[u]]

\* A transaction that reaps and leaves these rows, tombstones and files.
Commit(rows, tombs, bytes) == index' = rows /\ tomb' = tombs /\ files' = bytes

Cut == cuts < MaxCuts /\ cuts' = cuts + 1

\* A read, a repeat of what was done, a refusal: the transaction reaps and nothing else.
readAttachmentChunk ==
  /\ Commit(Rows, Tombs, Bytes)
  /\ UNCHANGED <<pins, fin, ledger, told, cuts, expiries>>

\* The process dies while it reaps: some files are gone, the index is the old one.
ReapCut ==
  /\ Cut
  /\ \E gone \in SUBSET Expired \ {{}} :
       files' = [u \in Uploads |-> IF u \in gone THEN None ELSE files[u]]
  /\ UNCHANGED <<index, tomb, pins, fin, ledger, told, expiries>>

-----------------------------------------------------------------------------
(* Uploading *)

\* Mutant: a missing file is created again whatever was received.
EnsureUploadFileAlways(u) == IF Bytes[u] = None THEN <<>> ELSE Bytes[u]

\* Mutant: a record is taken for its file.
EnsureUploadFileNever(u) == Bytes[u]

\* ensureUploadFile: the file of a record, None when it must refuse.
EnsureUploadFile(u) ==
  IF Bytes[u] # None THEN Bytes[u]
  ELSE IF Rows[u].received = 0 /\ Rows[u].phase = "uploading" THEN <<>>
  ELSE None

\* beginUpload: the record is reserved first, its file made after; a repeat makes it up.
beginUpload(u, c) ==
  /\ Tombs[u] = "none"
  /\ \/ /\ Rows[u] = None
        /\ Cardinality({v \in Uploads : Rows[v] # None}) < MaxRecords
        /\ told' = [told EXCEPT ![u] = <<>>]
        /\ \/ /\ Commit([Rows EXCEPT ![u] = Uploading(c)], Tombs, [Bytes EXCEPT ![u] = <<>>])
              /\ UNCHANGED cuts
           \/ /\ Cut
              /\ Commit([Rows EXCEPT ![u] = Uploading(c)], Tombs, Bytes)
     \/ /\ Rows[u] # None /\ Rows[u].digest = c
        /\ EnsureUploadFile(u) # None
        /\ Commit(Rows, Tombs, [Bytes EXCEPT ![u] = EnsureUploadFile(u)])
        /\ UNCHANGED <<told, cuts>>
  /\ UNCHANGED <<pins, fin, ledger, expiries>>

\* Mutant: the bytes announced are not counted.
appendUploadPast(u, chunk) ==
  /\ Rows[u] # None /\ Rows[u].phase = "uploading" /\ EnsureUploadFile(u) # None
  /\ Commit([Rows EXCEPT ![u].received = @ + 1], Tombs,
            [Bytes EXCEPT ![u] = SubSeq(EnsureUploadFile(u), 1, Rows[u].received) \o <<chunk>>])
  /\ told' = [told EXCEPT ![u] = Append(@, chunk)]
  /\ UNCHANGED <<pins, fin, ledger, cuts, expiries>>

\* appendUpload at the received offset: an unacknowledged tail is cut off, the bytes
\* are on disk before the index says so.
appendUpload(u, chunk) ==
  LET bytes == SubSeq(EnsureUploadFile(u), 1, Rows[u].received) \o <<chunk>>
  IN /\ Rows[u] # None /\ Rows[u].phase = "uploading" /\ Rows[u].received < Size
     /\ EnsureUploadFile(u) # None
     /\ Len(EnsureUploadFile(u)) >= Rows[u].received
     /\ \/ /\ Commit([Rows EXCEPT ![u].received = @ + 1], Tombs, [Bytes EXCEPT ![u] = bytes])
           /\ told' = [told EXCEPT ![u] = Append(@, chunk)]
           /\ UNCHANGED cuts
        \/ /\ Cut
           /\ Commit(Rows, Tombs, [Bytes EXCEPT ![u] = bytes])
           /\ UNCHANGED told
     /\ UNCHANGED <<pins, fin, ledger, expiries>>

\* finalize-read: under the decoder lock the whole and exact bytes are taken to be decoded.
FinalizeRead(u) ==
  /\ fin = None
  /\ Rows[u] # None /\ Rows[u].phase = "uploading" /\ Rows[u].received = Size
  /\ Bytes[u] = Whole(Rows[u].digest)
  /\ fin' = [id |-> u, bytes |-> Bytes[u]]
  /\ Commit(Rows, Tombs, Bytes)
  /\ UNCHANGED <<pins, ledger, told, cuts, expiries>>

\* finalize-commit: the record is still the one whose bytes were decoded, or it refuses.
FinalizeCommit ==
  LET u == fin.id IN
  /\ fin # None /\ fin' = None
  /\ IF /\ Rows[u] # None /\ Rows[u].phase = "uploading" /\ Rows[u].received = Size
        /\ Bytes[u] = fin.bytes
     THEN Commit([Rows EXCEPT ![u].phase = "verified", ![u].ref = Ref(u, Rows[u].digest),
                    ![u].due = FALSE], Tombs, Bytes)
     ELSE Commit(Rows, Tombs, Bytes)
  /\ UNCHANGED <<pins, ledger, told, cuts, expiries>>

\* The decoder fails, or the process that waits for it dies.
FinalizeFails ==
  /\ fin # None /\ fin' = None /\ Cut
  /\ UNCHANGED <<index, tomb, pins, files, ledger, told, expiries>>

\* Mutant: the bytes of a pinned record are cancelled too.
cancelUploadAny(u) ==
  /\ Tombs[u] = "none" /\ Rows[u] # None
  /\ \/ /\ Commit([Rows EXCEPT ![u] = None], [Tombs EXCEPT ![u] = "kept"], [Bytes EXCEPT ![u] = None])
        /\ UNCHANGED cuts
     \/ Cut /\ Commit(Rows, Tombs, [Bytes EXCEPT ![u] = None])
  /\ UNCHANGED <<pins, fin, ledger, told, expiries>>

\* cancelAttachmentUpload: the file goes first, then the index with its tombstone.
cancelUpload(u) ==
  /\ Tombs[u] = "none" /\ Rows[u] # None
  /\ Rows[u].phase # "retained" /\ ~Pinned(u)
  /\ \/ /\ Commit([Rows EXCEPT ![u] = None], [Tombs EXCEPT ![u] = "kept"], [Bytes EXCEPT ![u] = None])
        /\ UNCHANGED cuts
     \/ Cut /\ Commit(Rows, Tombs, [Bytes EXCEPT ![u] = None])
  /\ UNCHANGED <<pins, fin, ledger, told, expiries>>

-----------------------------------------------------------------------------
(* Pins *)

\* readableAttachment: the record is this target's own, or one of its pins names it.
Readable(t, r) ==
  /\ Rows[r.id] # None /\ Rows[r.id].ref = r
  /\ t = Source \/ \E p \in pins : p.target = t /\ p.ref = r

PinsOf(m, t) == {p \in pins : p.message = m /\ p.target = t}

\* Mutant: the reference of the record is believed, its bytes are not read.
PinnableUnread(t, r) == Readable(t, r)

\* withPinnedAttachments checks a new reference against the bytes on disk.
Pinnable(t, r) == Readable(t, r) /\ Bytes[r.id] = Whole(r.digest)

\* Mutant: the message is accepted before the pin is on disk.
PinMessageLate(m, t, r) ==
  /\ m \notin ledger /\ Pinnable(t, r) /\ PinsOf(m, t) = {}
  /\ ledger' = ledger \cup {m}
  /\ \/ /\ Commit([Rows EXCEPT ![r.id].phase = "retained"], Tombs, Bytes)
        /\ pins' = pins \cup {[message |-> m, target |-> t, ref |-> r]}
        /\ UNCHANGED cuts
     \/ Cut /\ Commit(Rows, Tombs, Bytes) /\ UNCHANGED pins
  /\ UNCHANGED <<fin, told, expiries>>

\* acceptControlMessage with an image: the pin is on disk, then the ledger has the message.
PinMessage(m, t, r) ==
  /\ m \notin ledger
  /\ \/ /\ PinsOf(m, t) = {} /\ Pinnable(t, r)
        /\ Commit([Rows EXCEPT ![r.id].phase = "retained"], Tombs, Bytes)
        /\ pins' = pins \cup {[message |-> m, target |-> t, ref |-> r]}
     \/ /\ PinsOf(m, t) # {} /\ \A p \in PinsOf(m, t) : p.ref = r
        /\ Commit(Rows, Tombs, Bytes) /\ UNCHANGED pins
  /\ \/ ledger' = ledger \cup {m} /\ UNCHANGED cuts
     \/ Cut /\ UNCHANGED ledger
  /\ UNCHANGED <<fin, told, expiries>>

\* inheritAttachmentPins: the fork gets a pin for each of its source's.
inheritAttachmentPins ==
  LET own == {p \in pins : p.target = Source}
      new == {p \in own : PinsOf(p.message, Fork) = {}}
  IN /\ \A p \in own \ new : \A q \in PinsOf(p.message, Fork) : q.ref = p.ref
     /\ \A p \in new : Readable(Source, p.ref) /\ Rows[p.ref.id].phase = "retained"
     /\ pins' = pins \cup {[p EXCEPT !.target = Fork] : p \in new}
     /\ Commit(Rows, Tombs, Bytes)
     /\ UNCHANGED <<fin, ledger, told, cuts, expiries>>

-----------------------------------------------------------------------------
(* Time: uploadTtlMs, unretainedTtlMs and the life of a tombstone *)

Expire(u) ==
  /\ expiries < MaxExpiries /\ expiries' = expiries + 1
  /\ \/ index[u] # None /\ ~index[u].due /\ index' = [index EXCEPT ![u].due = TRUE] /\ UNCHANGED tomb
     \/ tomb[u] = "kept" /\ tomb' = [tomb EXCEPT ![u] = "due"] /\ UNCHANGED index
  /\ UNCHANGED <<pins, files, fin, ledger, told, cuts>>

Client(u) ==
  \/ \E c \in Contents : beginUpload(u, c) \/ appendUpload(u, c)
  \/ FinalizeRead(u)
  \/ u \in Cancellable /\ cancelUpload(u)

Pin == \E m \in Messages, t \in {Source, Fork}, r \in Refs : PinMessage(m, t, r)

Next ==
  \/ readAttachmentChunk \/ ReapCut
  \/ \E u \in Uploads : Client(u) \/ Expire(u)
  \/ FinalizeCommit \/ FinalizeFails
  \/ Pin \/ inheritAttachmentPins

Spec == Init /\ [][Next]_vars

-----------------------------------------------------------------------------
Records == [digest : Contents, received : 0..Size, due : BOOLEAN, ref : {None} \cup Refs,
            phase : {"uploading", "verified", "retained"}]
Images == UNION {[1..n -> Contents] : n \in 0..Size}

TypeOK ==
  /\ index \in [Uploads -> {None} \cup Records] /\ files \in [Uploads -> {None} \cup Images]
  /\ tomb \in [Uploads -> {"none", "kept", "due"}]
  /\ pins \subseteq Pins /\ ledger \subseteq Messages
  /\ fin = None \/ fin \in [id : Uploads, bytes : Images]

\* The image of every accepted message can be handed to the runtime: its pin is on
\* disk, the record is retained, and the bytes are the ones the reference names.
\* (control/message.ts accepts inside withPinnedAttachments; pins.ts resolves.)
AcceptedResolves ==
  \A m \in ledger : \E t \in {Source, Fork} : \E p \in PinsOf(m, t) :
    /\ index[p.ref.id] # None /\ index[p.ref.id].phase = "retained"
    /\ files[p.ref.id] = Whole(p.ref.digest)

\* Every pin, the fork's included, keeps what it names: no expiry, cancellation or
\* crash takes the bytes from under it ("Accepted pins are never time-expired").
PinsKeepBytes ==
  \A p \in pins : files[p.ref.id] = Whole(p.ref.digest) /\ index[p.ref.id] # None

\* The bytes of a live upload begin with what its client was told is received,
\* whatever transaction was cut in between.
AcknowledgedKept ==
  \A u \in Uploads : index[u] # None /\ files[u] # None =>
    /\ Len(files[u]) >= Len(told[u])
    /\ SubSeq(files[u], 1, Len(told[u])) = told[u]
    /\ index[u].received = Len(told[u])

\* A cancelled upload does not come back under its id while its tombstone is kept,
\* and nothing of it is left to accept.
CancelledIsGone == \A u \in Uploads : tomb[u] # "none" => index[u] = None /\ ~Pinned(u)

PinsHold == AcceptedResolves /\ PinsKeepBytes /\ AcknowledgedKept /\ CancelledIsGone

-----------------------------------------------------------------------------
(* The properties made inductive *)

\* What the proofs ask of the constants: None is no record and no file, and the two
\* registrations are two.
ConstantsOK ==
  /\ None \notin Records /\ None \notin Images /\ None \notin Refs
  /\ Source # Fork

\* A pin holds the one reference of a retained record, and the bytes it names.
PinsSound ==
  \A p \in pins : LET u == p.ref.id IN
    /\ index[u] # None /\ index[u].phase = "retained" /\ index[u].ref = p.ref
    /\ files[u] = Whole(p.ref.digest)

\* An accepted message has its pin.
LedgerSound == \A m \in ledger : \E p \in pins : p.message = m

\* A record counts what its client was told, and the file begins with it.
FilesSound ==
  /\ told \in [Uploads -> Seq(Contents)]
  /\ \A u \in Uploads :
    /\ index[u] # None => index[u].received = Len(told[u])
    /\ index[u] # None /\ files[u] # None =>
         Len(files[u]) >= Len(told[u]) /\ SubSeq(files[u], 1, Len(told[u])) = told[u]

UploadsInv == PinsSound /\ LedgerSound /\ FilesSound /\ CancelledIsGone

-----------------------------------------------------------------------------
(* The client that keeps at it: begin, the chunks of its image, finalize, send *)

Wanted == CHOOSE c \in Contents : TRUE

Retry(u) ==
  \/ beginUpload(u, Wanted) \/ appendUpload(u, Wanted) \/ FinalizeRead(u)
  \/ \E m \in Messages : PinMessage(m, Source, Ref(u, Wanted))

Fairness == /\ \A u \in Uploads : SF_vars(Retry(u) /\ <<index, files, fin, ledger>>' # <<index, files, fin, ledger>>)
            /\ WF_vars(FinalizeCommit)

LiveSpec == Spec /\ Fairness

\* A message whose client keeps trying and never cancels is accepted with its image:
\* no cut transaction and no expiry leaves a record that refuses its own repeat.
Arrived == ledger = Messages
UploadsArrive == Cancellable = {} => <>Arrived
=============================================================================
