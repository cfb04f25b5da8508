------------------------------ MODULE EventFeed ------------------------------
(***************************************************************************)
(* The event feed of a machine: two writers without a lock append to one   *)
(* file and rotate it by size, a reader reads its generations and follows  *)
(* it (events/feed.ts, util/jsonl.ts, util/readLines.ts); one of the       *)
(* writers is the daemon that publishes the inventory as changes           *)
(* (events/inventory.ts), and the reader keeps a mirror of it.             *)
(***************************************************************************)
EXTENDS Naturals, Sequences, FiniteSets

CONSTANTS
  Names,     \* sessions of the inventory
  States,    \* what a row can say
  MaxBytes,  \* events a generation holds before it is rotated
  MaxEvents, MaxPasses, MaxDaemons, MaxLost, \* bounds
  None

Keep == 2
Files == 0..Keep            \* events.jsonl, events.jsonl.1, events.jsonl.2
Writers == {"hook", "daemon"}
Rows == [Names -> States \cup {None}]
NoRows == [n \in Names |-> None]

VARIABLES
  file,    \* the generations: a sequence of events, or None
  writer,  \* per writer: the event it appends and where it is
  count,   \* events appended, which numbers them
  pub,     \* the InventoryPublisher
  snap,    \* inventory.json, or None
  past,    \* ghost: per daemon, the rows after each change
  reader,  \* a follower with its mirror
  lost, passes

vars == <<file, writer, count, pub, snap, past, reader, lost, passes>>

Idle == [at |-> "idle", event |-> None]
Publisher(g) == [gen |-> g, seq |-> 0, rows |-> NoRows, pass |-> NoRows,
                 todo |-> {}, quiet |-> FALSE, written |-> FALSE, at |-> "idle"]

Init ==
  /\ file = [k \in Files |-> None] /\ writer = [w \in Writers |-> Idle] /\ count = 0
  /\ pub = Publisher(1) /\ snap = None /\ past = [g \in 1..MaxDaemons |-> <<>>]
  /\ reader = [at |-> "list", files |-> {}, offset |-> 0, got |-> <<>>, mirror |-> None]
  /\ lost = 0 /\ passes = 0

Size(k) == IF file[k] = None THEN 0 ELSE Len(file[k])
To(w, at) == writer' = [writer EXCEPT ![w].at = at]
Offer(w, e) == writer' = [writer EXCEPT ![w] = [at |-> "stat", event |-> e]]
feedVars == <<file, writer, count, lost>>

-----------------------------------------------------------------------------
(* appendRecord: rotateBySize, one rename at a time, then one atomic append *)

\* rotateBySize: only a file that reached its size is shifted.
Stat(w) ==
  /\ writer[w].at = "stat"
  /\ To(w, IF Size(0) >= MaxBytes THEN "rm" ELSE "append")
  /\ UNCHANGED <<file, count, pub, snap, past, reader, lost, passes>>

\* The oldest generation goes, each one moves up, the file becomes the first; a
\* rename of what is not there fails and is swallowed.
Shift(w) ==
  /\ \/ /\ writer[w].at = "rm" /\ To(w, "shift")
        /\ file' = [file EXCEPT ![Keep] = None]
     \/ /\ writer[w].at = "shift" /\ To(w, "top")
        /\ file' = IF file[1] = None THEN file ELSE [file EXCEPT ![Keep] = file[1], ![1] = None]
     \/ /\ writer[w].at = "top" /\ To(w, "append")
        /\ file' = IF file[0] = None THEN file ELSE [file EXCEPT ![1] = file[0], ![0] = None]
  /\ UNCHANGED <<count, pub, snap, past, reader, lost, passes>>

\* appendJsonl; an append that fails loses its event and nobody is told.
Write(w) ==
  /\ writer[w].at = "append" /\ writer' = [writer EXCEPT ![w] = Idle]
  /\ \/ /\ count < MaxEvents /\ count' = count + 1
        /\ file' = [file EXCEPT ![0] =
             Append(IF @ = None THEN <<>> ELSE @, [writer[w].event EXCEPT !.n = count + 1])]
        /\ UNCHANGED lost
     \/ lost < MaxLost /\ lost' = lost + 1 /\ UNCHANGED <<file, count>>
  /\ UNCHANGED <<pub, snap, past, reader, passes>>

\* A hook has something to say.
HookEvent ==
  /\ writer["hook"].at = "idle" /\ count < MaxEvents
  /\ Offer("hook", [n |-> 0, gen |-> 0, seq |-> 0, name |-> None, row |-> None])
  /\ UNCHANGED <<file, count, pub, snap, past, reader, lost, passes>>

-----------------------------------------------------------------------------
(* InventoryPublisher.publish, once per observation pass *)

\* begin and sample: the rows as they are now.
Pass ==
  /\ pub.at = "idle" /\ passes < MaxPasses /\ passes' = passes + 1
  /\ \E rows \in Rows :
       pub' = [pub EXCEPT !.pass = rows, !.todo = {n \in Names : rows[n] # pub.rows[n]},
                 !.quiet = rows = pub.rows, !.at = "events"]
  /\ UNCHANGED <<feedVars, snap, past, reader>>

\* One change: the sequence advances, whether or not its event gets into the feed.
Change(n) ==
  /\ pub.at = "events" /\ n \in pub.todo /\ writer["daemon"].at = "idle"
  /\ pub' = [pub EXCEPT !.seq = @ + 1, !.rows[n] = pub.pass[n], !.todo = @ \ {n}]
  /\ \/ Offer("daemon", [n |-> 0, gen |-> pub.gen, seq |-> pub.seq + 1, name |-> n, row |-> pub.pass[n]])
     \/ UNCHANGED writer
  /\ past' = [past EXCEPT ![pub.gen] = Append(@, [pub.rows EXCEPT ![n] = pub.pass[n]])]
  /\ UNCHANGED <<file, count, lost, snap, reader, passes>>

\* snapshot()
Snapshot == [gen |-> pub.gen, seq |-> pub.seq, rows |-> pub.rows]

\* The end of publish: the snapshot is written whole, unless nothing changed; a write
\* that fails ends the pass and is not made up for.
WriteSnapshot ==
  /\ pub.at = "events" /\ pub.todo = {} /\ writer["daemon"].at = "idle"
  /\ IF pub.quiet /\ pub.written
     THEN pub' = [pub EXCEPT !.at = "idle"] /\ UNCHANGED <<snap, lost>>
     ELSE \/ /\ pub' = [pub EXCEPT !.at = "idle", !.written = TRUE]
             /\ snap' = Snapshot /\ UNCHANGED lost
          \/ /\ lost < MaxLost /\ lost' = lost + 1
             /\ pub' = [pub EXCEPT !.at = "idle"] /\ UNCHANGED snap
  /\ UNCHANGED <<file, writer, count, past, reader, passes>>

\* A daemon stops, with or without its stop(), and another takes its place.
NextDaemon ==
  /\ pub.gen < MaxDaemons
  /\ pub' = Publisher(pub.gen + 1)
  /\ snap' \in {snap, IF snap # None /\ snap.gen = pub.gen THEN None ELSE snap}
  /\ writer' = [writer EXCEPT !["daemon"] = Idle]
  /\ UNCHANGED <<file, count, lost, past, reader, passes>>

-----------------------------------------------------------------------------
(* The reader: readEvents, then followEvents; and the mirror its comment asks for *)

\* Mutant: whatever is of this generation and later is applied.
appliedLater(m, e) ==
  IF m # None /\ e.gen # 0 /\ m.gen = e.gen /\ e.seq > m.seq
  THEN [m EXCEPT !.seq = e.seq, !.rows[e.name] = e.row] ELSE m

\* "applies an event only when it is exactly the next one, drops the ones it already
\* holds, and takes a snapshot again on anything else"
applied(m, e) ==
  IF m = None \/ e.gen = 0 THEN m
  ELSE IF m.gen # e.gen \/ e.seq > m.seq + 1 THEN None
  ELSE IF e.seq <= m.seq THEN m
  ELSE [m EXCEPT !.seq = e.seq, !.rows[e.name] = e.row]

Mirrored(m, es) ==
  LET f[k \in 0..Len(es)] == IF k = 0 THEN m ELSE applied(f[k - 1], es[k]) IN f[Len(es)]

Numbers(es) == [k \in 1..Len(es) |-> es[k].n]
Deliver(es) == [reader EXCEPT !.got = @ \o Numbers(es), !.mirror = Mirrored(@, es)]

\* feedFiles: which generations exist.
List ==
  /\ reader.at = "list"
  /\ reader' = [reader EXCEPT !.at = "read", !.files = {k \in Files : file[k] # None}]
  /\ UNCHANGED <<feedVars, pub, snap, past, passes>>

\* The backlog, oldest generation first; one that moved away is passed over.
ReadOldest ==
  /\ reader.at = "read" /\ reader.files # {}
  /\ LET k == CHOOSE k \in reader.files : \A j \in reader.files : j <= k
     IN reader' = [Deliver(IF file[k] = None THEN <<>> ELSE file[k]) EXCEPT !.files = @ \ {k}]
  /\ UNCHANGED <<feedVars, pub, snap, past, passes>>

\* Mutant: the follower starts at the beginning of the file.
StartAtTop ==
  /\ reader.at = "read" /\ reader.files = {}
  /\ reader' = [reader EXCEPT !.at = "follow", !.offset = 0]
  /\ UNCHANGED <<feedVars, pub, snap, past, passes>>

\* followEvents starts at the size the file has once the backlog is read.
Start ==
  /\ reader.at = "read" /\ reader.files = {}
  /\ reader' = [reader EXCEPT !.at = "follow", !.offset = Size(0)]
  /\ UNCHANGED <<feedVars, pub, snap, past, passes>>

\* drain: a file that is gone or has shrunk is another generation.
Drain ==
  /\ reader.at = "follow"
  /\ LET from == IF Size(0) < reader.offset THEN 0 ELSE reader.offset
     IN reader' = [Deliver(IF file[0] = None THEN <<>> ELSE SubSeq(file[0], from + 1, Size(0)))
                     EXCEPT !.offset = Size(0)]
  /\ UNCHANGED <<feedVars, pub, snap, past, passes>>

\* readInventory: the snapshot of a daemon that is alive.
ReadInventory ==
  /\ reader.mirror = None /\ snap # None /\ snap.gen = pub.gen
  /\ reader' = [reader EXCEPT !.mirror = snap]
  /\ UNCHANGED <<feedVars, pub, snap, past, passes>>

Next ==
  \/ \E w \in Writers : Stat(w) \/ Shift(w) \/ Write(w)
  \/ HookEvent \/ Pass \/ (\E n \in Names : Change(n)) \/ WriteSnapshot \/ NextDaemon
  \/ List \/ ReadOldest \/ Start \/ Drain \/ ReadInventory

Spec == Init /\ [][Next]_vars

-----------------------------------------------------------------------------
Events == [n : 0..MaxEvents, gen : 0..MaxDaemons, seq : Nat, name : Names \cup {None},
           row : States \cup {None}]
Snapshots == [gen : 1..MaxDaemons, seq : Nat, rows : Rows]
Appends == [at : {"idle", "stat", "rm", "shift", "top", "append"}, event : {None} \cup Events]
Publishers == [gen : 1..MaxDaemons, seq : Nat, rows : Rows, pass : Rows, todo : SUBSET Names,
               quiet : BOOLEAN, written : BOOLEAN, at : {"idle", "events"}]
Readers == [at : {"list", "read", "follow"}, files : SUBSET Files, offset : 0..MaxEvents,
            got : Seq(1..MaxEvents), mirror : {None} \cup Snapshots]

TypeOK ==
  /\ file \in [Files -> {None} \cup Seq(Events)]
  /\ writer \in [Writers -> Appends] /\ count \in 0..MaxEvents
  /\ pub \in Publishers /\ past \in [1..MaxDaemons -> Seq(Rows)]
  /\ snap \in {None} \cup Snapshots /\ reader \in Readers

\* What a follower is given is in the order it was written and nothing comes twice,
\* however the writers rotate the files under it ("so a read spans a rotation without
\* reordering history").
FollowedInOrder == \A j, k \in 1..Len(reader.got) : j < k => reader.got[j] < reader.got[k]

\* A mirror is never wrong about what it claims: whatever was lost, rotated away, or
\* read too late, the rows it holds for a sequence of a daemon are the rows that daemon
\* had at that sequence.
MirrorTrue ==
  LET m == reader.mirror IN m # None /\ m.seq > 0 => m.rows = past[m.gen][m.seq]

-----------------------------------------------------------------------------
(* What makes them inductive *)

ConstantsOK == MaxEvents \in Nat /\ MaxDaemons \in Nat \ {0} /\ None \notin Seq(Events)

\* What is in a generation, and the rows of a daemon after so many changes.
Held(k) == IF file[k] = None THEN <<>> ELSE file[k]
RowsAt(g, s) == IF s = 0 THEN NoRows ELSE past[g][s]

\* A generation is older than those it was shifted over, and numbered as it was written.
FilesSound ==
  /\ \A k \in Files : Len(Held(k)) <= count
  /\ \A k \in Files : \A a \in 1..Len(Held(k)) : Held(k)[a].n \in 1..count
  /\ \A j, k \in Files : \A a \in 1..Len(Held(j)), b \in 1..Len(Held(k)) :
       j > k \/ (j = k /\ a < b) => Held(j)[a].n < Held(k)[b].n

\* What the reader has still to come to is newer than all it was given: in a backlog the
\* generations that are left and those before them, in the file it follows what is past its
\* offset, or everything if it is another file.
Newer(n) == \A j \in 1..Len(reader.got) : reader.got[j] < n
ReaderSound ==
  /\ \A j \in 1..Len(reader.got) : reader.got[j] <= count
  /\ reader.at = "list" => reader.got = <<>>
  /\ reader.at = "read" =>
       \A k \in reader.files, j \in Files : j <= k => \A a \in 1..Len(Held(j)) : Newer(Held(j)[a].n)
  /\ reader.at = "follow" =>
       \/ \A a \in 1..Size(0) : Newer(Held(0)[a].n)
       \/ /\ reader.offset <= Size(0)
          /\ \A a \in (reader.offset + 1)..Size(0) : Newer(Held(0)[a].n)

\* An event says what its change did to the rows before it.
EventTrue(e) ==
  e.gen # 0 =>
    /\ e.seq \in 1..Len(past[e.gen]) /\ e.name \in Names
    /\ past[e.gen][e.seq] = [RowsAt(e.gen, e.seq - 1) EXCEPT ![e.name] = e.row]
EventsSound ==
  /\ \A k \in Files : \A a \in 1..Len(Held(k)) : EventTrue(Held(k)[a])
  /\ \A w \in Writers : writer[w].at # "idle" => writer[w].event \in Events /\ EventTrue(writer[w].event)

\* The publisher holds what it published last, and so do the snapshot and the mirror.
RowsSound(m) == m.seq <= Len(past[m.gen]) /\ m.rows = RowsAt(m.gen, m.seq)
PublisherSound ==
  /\ pub.seq = Len(past[pub.gen]) /\ RowsSound(pub)
  /\ \A g \in 1..MaxDaemons : g > pub.gen => past[g] = <<>>
MirrorsSound ==
  /\ snap # None => RowsSound(snap)
  /\ reader.mirror # None => RowsSound(reader.mirror)

EventsInv == FilesSound /\ FollowedInOrder /\ ReaderSound /\ EventsSound /\ PublisherSound /\ MirrorsSound
=============================================================================
