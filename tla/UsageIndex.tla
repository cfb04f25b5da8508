------------------------------ MODULE UsageIndex ------------------------------
(***************************************************************************)
(* What a session used: the index of one transcript, advanced in slices by *)
(* whoever reads it (agent/transcript/transcriptIndex.ts), the facts and   *)
(* the cached totals in the same SQLite file (usage/store.ts,              *)
(* usage/aggregate.ts), the answer to a query (usage/file.ts) and the      *)
(* daemon's background pass (usage/observation.ts, usage/preparation.ts).  *)
(* The daemon's calls are synchronous, so it has one at a time; the other  *)
(* process is a command line that reads the transcript.                    *)
(***************************************************************************)
EXTENDS Integers, Sequences, FiniteSets

CONSTANTS
  Runtimes,    \* of {"claude", "codex"}: a count of each message, or a running total
  Lines,       \* usage records: [id, n (tokens), time (1 or 2)]
  Slice,       \* units of a daemon's slice; a record is two units
  HeadUnits,   \* units the digest of the beginning covers, a slice or less
  Page,        \* contributions a query cache takes at once
  CacheCap,    \* query caches of a ledger
  Early,       \* what a transcript can hold when it gets its name
  MaxLines, MaxChanges, MaxEvents, \* bounds
  None

Procs == {"daemon", "cli"}
Queries == {"all", "past"}   \* no bounds; until = 2
Gens == 1..2

VARIABLES
  runtime, \* of the session
  file,    \* the transcript: gen is what its beginning says, at its mtime, tail half a record
  db,      \* the SQLite file: index, facts in seq order, cache and fence of each query
  call,    \* what each process is at
  queue,   \* queries the daemon was asked to complete
  prepared,\* UsagePreparation: its stamps are those of now (fresh is a ghost), or None
  events   \* reads by clients, restarts and prunings so far

vars == <<runtime, file, db, call, queue, prepared, events>>

Disturbed == events < MaxEvents /\ events' = events + 1

Least(a, b) == IF a < b THEN a ELSE b
Size(f) == 2 * Len(f.lines) + (IF f.tail THEN 1 ELSE 0)
Stamp(f) == [gen |-> f.gen, ino |-> f.ino, at |-> f.at, size |-> Size(f)]
Empty == [index |-> None, facts |-> <<>>, cache |-> [q \in Queries |-> None],
          fence |-> [q \in Queries |-> None]]
Idle == [at |-> "idle", job |-> None, q |-> None, src |-> None, fd |-> None,
         index |-> None, self |-> None, fresh |-> TRUE]

Init ==
  /\ runtime \in Runtimes
  /\ \E lines \in Early :
       file = [gen |-> 1, ino |-> 1, at |-> 0, lines |-> lines, tail |-> FALSE, old |-> <<>>]
  /\ db = Empty /\ call = [p \in Procs |-> Idle] /\ queue = {} /\ prepared = None
  /\ events = 0

-----------------------------------------------------------------------------
(* The transcript, written by the agent                                     *)

\* A call is not fresh once the file changed while another process had looked at it and
\* not yet got the lock (ghost).
Waiting(p) == \E o \in Procs \ {p} : call[o].fd # None
Changed(f, replaced) ==
  /\ file.at < MaxChanges /\ file' = [f EXCEPT !.at = @ + 1]
  /\ call' = [p \in Procs |-> [call[p] EXCEPT !.fresh =
                IF call[p].at = "idle" THEN @ ELSE @ /\ ~replaced /\ ~Waiting(p)]]
  /\ prepared' = None /\ UNCHANGED <<runtime, db, queue, events>>

\* A record, or the rest of one.
Record(l) ==
  /\ Len(file.lines) < MaxLines
  /\ Changed([file EXCEPT !.lines = Append(@, l), !.tail = FALSE], FALSE)

\* Half a record.
Begin ==
  /\ Len(file.lines) < MaxLines /\ ~file.tail
  /\ Changed([file EXCEPT !.tail = TRUE], FALSE)

\* Another conversation takes the name, in a file of its own or in the same one.
Replace(ino, lines) ==
  /\ file.gen + 1 \in Gens
  /\ Changed([file EXCEPT !.gen = @ + 1, !.ino = ino, !.lines = lines, !.tail = FALSE,
                !.old = IF ino = file.ino THEN <<>> ELSE file.lines], TRUE)

-----------------------------------------------------------------------------
(* UsageStore.put and the caches of aggregate.ts                            *)

\* parseUsageRecord: a Claude message has its own identity and replaces what was said
\* of it; a Codex total is the same event only when everything is the same.
Id(l) == IF runtime = "claude" THEN l.id ELSE l

\* Mutant: a running total is taken for a count.
contributionRaw(facts, k) == [n |-> facts[k].n, time |-> facts[k].time, amb |-> FALSE]

\* usageContribution: a running total contributes what it grew by; the first one and
\* one that went down have no time.
usageContribution(facts, k) ==
  IF runtime = "claude" THEN [n |-> facts[k].n, time |-> facts[k].time, amb |-> FALSE]
  ELSE IF k = 1 THEN [n |-> facts[k].n, time |-> 0, amb |-> FALSE]
  ELSE IF facts[k].n < facts[k - 1].n THEN [n |-> 0, time |-> 0, amb |-> TRUE]
  ELSE [n |-> facts[k].n - facts[k - 1].n, time |-> facts[k].time, amb |-> FALSE]

\* apply: an unknown time is in no window.
InWindow(q, c) == q = "all" \/ c.time = 1
apply(cache, q, c, sign) ==
  [cache EXCEPT !.amb = @ + (IF c.amb THEN sign ELSE 0),
                !.sum = @ + (IF InWindow(q, c) THEN sign * c.n ELSE 0)]

\* Mutant: every cache takes every fact.
updateAll(cache, q, old, new, seq) ==
  IF cache = None THEN cache
  ELSE apply(IF old = None THEN cache ELSE apply(cache, q, old, -1), q, new, 1)

\* updateUsageCaches: a cache that is being built will come to later facts itself.
updateUsageCaches(cache, q, old, new, seq) ==
  IF cache = None THEN cache
  ELSE IF ~cache.complete /\ seq > cache.through THEN cache
  ELSE apply(IF old = None THEN cache ELSE apply(cache, q, old, -1), q, new, 1)

\* put: insert, or replace in place; an equal fact changes nothing.
put(d, l) ==
  LET known == {k \in 1..Len(d.facts) : Id(d.facts[k]) = Id(l)}
      seq == IF known = {} THEN Len(d.facts) + 1 ELSE CHOOSE k \in known : TRUE
      facts == IF known = {} THEN Append(d.facts, l) ELSE [d.facts EXCEPT ![seq] = l]
      old == IF known = {} THEN None ELSE usageContribution(d.facts, seq)
      new == usageContribution(facts, seq)
  IN IF facts = d.facts THEN d
     ELSE [d EXCEPT !.facts = facts,
             !.cache = [q \in Queries |-> updateUsageCaches(@[q], q, old, new, seq)]]

PutAll(d, ls) ==
  LET f[k \in 0..Len(ls)] == IF k = 0 THEN d ELSE put(f[k - 1], ls[k]) IN f[Len(ls)]

-----------------------------------------------------------------------------
(* indexTranscript                                                          *)

headDigest(fd) == <<fd.gen, Least(fd.size, HeadUnits)>>

\* Mutant: the beginning of the file is not looked at.
loadAny(fd) ==
  /\ db.index # None /\ db.index.off <= fd.size /\ db.index.ino = fd.ino

\* loadStored: "a file that shrank, or whose beginning changed, is not the file this
\* index describes".
loadStored(fd) ==
  /\ db.index # None /\ db.index.head = headDigest(fd)
  /\ db.index.off <= fd.size /\ db.index.ino = fd.ino
  /\ ~(db.index.seen = fd.size /\ db.index.at # fd.at)

\* What a descriptor reads now: a file that was replaced by another is still there for
\* whoever has it open, one that was written over is not.
Bytes(fd) ==
  IF fd.ino = file.ino THEN file.lines ELSE file.old
Readable(fd) == IF fd.ino = file.ino THEN Size(file) ELSE fd.size

\* scanForward from what the index has, up to a slice, never past the size that was seen.
Advanced(fd, slice) ==
  LET base == IF loadStored(fd) THEN db ELSE Empty
      off == IF loadStored(fd) THEN db.index.off ELSE 0
      to == Least(Least(fd.size, off + slice), Readable(fd))
      end == IF to < off THEN off ELSE to
      index == [ino |-> fd.ino, head |-> headDigest(fd), at |-> fd.at, seen |-> fd.size, off |-> end]
  IN IF loadStored(fd) /\ end = off THEN db
     ELSE [PutAll(base, SubSeq(Bytes(fd), (off \div 2) + 1, end \div 2)) EXCEPT !.index = index]

-----------------------------------------------------------------------------
(* The steps of a call                                                      *)

Done(p) == call' = [call EXCEPT ![p] = Idle]
\* Every write of the database changes its stamp.
Store(d) == db' = d /\ prepared' = IF d = db THEN prepared ELSE None
\* SQLITE_BUSY: another process has the lock for longer than a second.
Busy(p) ==
  /\ UNCHANGED events
  /\ \E o \in Procs \ {p} : call[o].at \in {"index", "sum", "end"}

\* No one waits for the lock with an earlier look at the file (ghost).
Fresh == \A p \in Procs : call[p].fd # None => call[p].fd.at = file.at
Called(job, q, at) ==
  /\ call["daemon"].at = "idle"
  /\ call' = [call EXCEPT !["daemon"] = [Idle EXCEPT !.at = at, !.job = job, !.q = q,
                                           !.src = Stamp(file), !.fresh = Fresh]]
  /\ UNCHANGED <<runtime, file, db, queue, prepared>>

\* usage.read of a client: a query that does not advance the index.
UsageRead(q) == Disturbed /\ Called("read", q, "read")

\* A tick of the observation for a query that was asked for.
Requested(q) == q \in queue /\ Called("asked", q, "open") /\ UNCHANGED events

\* A tick of the observation for the inventory: needed unless both stamps are what they
\* were.
Visit == prepared = None /\ Called("visit", "all", "open") /\ UNCHANGED events

\* readTranscriptFile in another process: indexTranscript opens the file and takes its
\* size and beginning.
TranscriptRead ==
  /\ call["cli"].at = "idle" /\ Disturbed
  /\ call' = [call EXCEPT !["cli"].at = "index", !["cli"].fd = Stamp(file)]
  /\ UNCHANGED <<runtime, file, db, queue, prepared>>

\* The same in the daemon, after it took the stamp of the file.
Open ==
  /\ call["daemon"].at = "open"
  /\ call' = [call EXCEPT !["daemon"].at = "index", !["daemon"].fd = Stamp(file)]
  /\ UNCHANGED <<runtime, file, db, queue, prepared, events>>

\* A call that fails is told failed: the query leaves the queue and the visit is not
\* remembered.
Fails(p) ==
  /\ Done(p)
  /\ queue' = IF p = "daemon" THEN queue \ {call[p].q} ELSE queue
  /\ prepared' = IF call[p].job = "visit" THEN None ELSE prepared
  /\ UNCHANGED <<runtime, file, db>>

AfterIndex(p) == IF p = "daemon" THEN "read" ELSE "idle"

\* advanceOrCommitted: the slice, in one transaction.
Index(p) ==
  /\ call[p].at = "index"
  /\ Store(Advanced(call[p].fd, IF p = "daemon" THEN Slice ELSE call[p].fd.size))
  /\ call' = [call EXCEPT ![p].at = AfterIndex(p), ![p].fd = None]
  /\ UNCHANGED <<runtime, file, queue, events>>

\* The lock is taken: what was committed will do, if it is of this file.
IndexBusy(p) ==
  /\ call[p].at = "index" /\ Busy(p)
  /\ IF loadStored(call[p].fd)
     THEN /\ call' = [call EXCEPT ![p].at = AfterIndex(p), ![p].fd = None]
          /\ UNCHANGED <<runtime, file, db, queue, prepared>>
     ELSE Fails(p)

\* readUsageFile reads the index; without one the answer is "building".
ReadIndex ==
  /\ call["daemon"].at = "read"
  /\ IF db.index = None
     THEN /\ Done("daemon")
          /\ queue' = IF call["daemon"].job = "read" THEN queue \cup {call["daemon"].q} ELSE queue
          /\ prepared' = IF call["daemon"].job = "visit" THEN None ELSE prepared
     ELSE /\ call' = [call EXCEPT !["daemon"].at = "sum", !["daemon"].index = db.index]
          /\ UNCHANGED <<queue, prepared>>
  /\ UNCHANGED <<runtime, file, db, events>>

NewCache == [sum |-> 0, amb |-> 0, through |-> 0, complete |-> FALSE]

\* A total and the contributions that follow, one by one.
Added(cache, q, facts, from, to) ==
  LET f[k \in from..to] ==
        IF k = from THEN cache ELSE apply(f[k - 1], q, usageContribution(facts, k), 1)
  IN f[to]

\* Mutant: the page is not looked beyond, so a full one is taken for the last.
ExtendedEarly(d, q, cache) ==
  LET last == Least(Len(d.facts), cache.through + Page)
  IN IF cache.complete THEN cache
     ELSE [Added(cache, q, d.facts, cache.through, last) EXCEPT !.through = last, !.complete = TRUE]

\* Another page of contributions; one more is fetched to see whether it is the last.
Extended(d, q, cache) ==
  LET last == Least(Len(d.facts), cache.through + Page)
  IN IF cache.complete THEN cache
     ELSE [Added(cache, q, d.facts, cache.through, last) EXCEPT
             !.through = last, !.complete = (last = Len(d.facts))]

Total(cache) == [sum |-> cache.sum, amb |-> cache.amb > 0, building |-> ~cache.complete]
Full == Cardinality({q \in Queries : db.cache[q] # None}) >= CacheCap
\* Mutant: a cache that is being built can lose its place.
VictimsAny(q) == IF db.cache[q] # None \/ ~Full THEN {None}
                 ELSE {v \in Queries : db.cache[v] # None}

\* A new cache takes a place, or that of one that is complete.
Victims(q) == IF db.cache[q] # None \/ ~Full THEN {None}
              ELSE {v \in Queries : db.cache[v] # None /\ db.cache[v].complete}
Dropped(v) == IF v = None THEN db ELSE [db EXCEPT !.cache[v] = None, !.fence[v] = None]

\* aggregateUsage in one transaction: a new cache may need the place of a complete one.
Summed(q, v) ==
  LET d == Dropped(v)
  IN [d EXCEPT !.cache[q] = Extended(d, q, IF @ = None THEN NewCache ELSE @)]
Sum ==
  LET q == call["daemon"].q
  IN /\ call["daemon"].at = "sum"
     /\ IF Victims(q) = {} THEN Fails("daemon")
        ELSE \E v \in Victims(q) :
          /\ Store(Summed(q, v))
          /\ call' = [call EXCEPT !["daemon"].at = "end",
                        !["daemon"].self = Total(Summed(q, v).cache[q])]
          /\ UNCHANGED <<runtime, file, queue>>
     /\ UNCHANGED events

\* indexedUsage in another process, for the statistics of a transcript.
IndexedUsage ==
  /\ db.index # None /\ Disturbed
  /\ \E v \in Victims("all") : Store(Summed("all", v)) /\ db' # db
  /\ UNCHANGED <<runtime, file, call, queue>>

\* Without the lock: what is committed.
SumBusy ==
  /\ call["daemon"].at = "sum" /\ Busy("daemon")
  /\ LET c == db.cache[call["daemon"].q]
     IN call' = [call EXCEPT !["daemon"].at = "end",
                   !["daemon"].self = Total(IF c = None THEN NewCache ELSE c)]
  /\ UNCHANGED <<runtime, file, db, queue, prepared>>

-----------------------------------------------------------------------------
(* The answer of readUsageFile                                              *)

\* A past window is fixed at the size of its first answer.
NewFence(c) ==
  /\ c.q = "past"
  /\ LET fence == db.fence[c.q]
     IN IF fence = None THEN TRUE ELSE fence.ino # c.src.ino \/ fence.bytes > c.src.size
FenceOf(c, wrote) ==
  IF ~NewFence(c) THEN db.fence[c.q]
  ELSE IF wrote THEN [ino |-> c.src.ino, bytes |-> c.src.size] ELSE None

caughtUp(c) ==
  /\ c.index.off = c.src.size /\ c.index.off % 2 = 0
  /\ c.index.ino = c.src.ino /\ c.index.at = c.src.at

\* Mutant: a window is ready whatever was read of it.
snapshotAny(c, fence) == c.q = "past" /\ fence # None /\ c.index.ino = c.src.ino

snapshotReady(c, fence) ==
  /\ c.q = "past" /\ fence # None
  /\ c.index.ino = c.src.ino /\ 2 * (c.index.off \div 2) >= fence.bytes
  /\ c.index.seen # c.src.size \/ c.index.at = c.src.at

Ready(c, fence) == caughtUp(c) \/ snapshotReady(c, fence)
State(c, fence) == IF Ready(c, fence) /\ ~c.self.building THEN "ready" ELSE "building"

\* Everything is read and the last record is not finished.
caughtUpPartial(c, fence) ==
  ~c.self.building /\ ~c.self.amb /\ ~Ready(c, fence) /\ c.index.off = c.src.size

\* Mutant: what was read during the visit is taken for what was there before it.
prepareAny(c, fence) ==
  IF State(c, fence) = "ready" \/ caughtUpPartial(c, fence)
  THEN [fresh |-> c.fresh] ELSE None

\* complete: remembered if it is all there and the source did not change meanwhile.
complete(c, fence) ==
  IF /\ State(c, fence) = "ready" \/ caughtUpPartial(c, fence)
     /\ c.src.at = file.at
  THEN [fresh |-> c.fresh] ELSE None

\* The fence is written, or the lock is taken; then the queue and the visit are settled.
Answer(wrote) ==
  LET c == call["daemon"]
      fence == FenceOf(c, wrote)
  IN /\ c.at = "end"
     /\ IF wrote THEN UNCHANGED events ELSE NewFence(c) /\ Busy("daemon")
     /\ db' = [db EXCEPT !.fence[c.q] = IF NewFence(c) /\ ~wrote THEN @ ELSE fence]
     /\ prepared' = IF c.job = "visit" THEN complete(c, fence)
                    ELSE IF db' = db THEN prepared ELSE None
     /\ queue' = IF State(c, fence) # "building" THEN queue \ {c.q}
                 ELSE IF c.job = "read" THEN queue \cup {c.q} ELSE queue
     /\ Done("daemon") /\ UNCHANGED <<runtime, file>>

\* The daemon stops anywhere; what was committed stays.
Restart ==
  /\ Disturbed
  /\ Done("daemon") /\ queue' = {} /\ prepared' = None
  /\ UNCHANGED <<runtime, file, db>>

\* pruneTranscriptIndexes, at the start of a daemon: an index nobody used for long.
Prune ==
  /\ \A p \in Procs : call[p].at = "idle"
  /\ db # Empty /\ Disturbed
  /\ Store(Empty) /\ UNCHANGED <<runtime, file, call, queue>>

Next ==
  \/ (\E l \in Lines : Record(l)) \/ Begin \/ (\E ino \in 1..2, lines \in Early : Replace(ino, lines))
  \/ (\E q \in Queries : UsageRead(q) \/ Requested(q)) \/ Visit \/ TranscriptRead
  \/ Open \/ (\E p \in Procs : Index(p) \/ IndexBusy(p)) \/ Sum \/ IndexedUsage
  \/ ReadIndex \/ SumBusy \/ (\E wrote \in BOOLEAN : Answer(wrote))
  \/ Restart \/ Prune

Spec == Init /\ [][Next]_vars

-----------------------------------------------------------------------------
\* The shapes.
Records == Lines \cup UNION {{ls[k] : k \in DOMAIN ls} : ls \in Early}
Caches == [sum : Nat, amb : Nat, through : Nat, complete : BOOLEAN]
Stamps == [gen : Gens, ino : 1..2, at : Nat, size : Nat]
Indexes == [ino : 1..2, head : Gens \X Nat, at : Nat, seen : Nat, off : Nat]
Fences == [ino : 1..2, bytes : Nat]
Totals == [sum : Nat, amb : BOOLEAN, building : BOOLEAN]
Files == [gen : Gens, ino : 1..2, at : Nat, lines : Seq(Records), tail : BOOLEAN,
          old : Seq(Records)]
Ledgers == [index : {None} \cup Indexes, facts : Seq(Records),
            cache : [Queries -> {None} \cup Caches], fence : [Queries -> {None} \cup Fences]]
Calls == [at : {"idle", "open", "index", "read", "sum", "end"},
          job : {None, "read", "asked", "visit"}, q : {None} \cup Queries,
          src : {None} \cup Stamps, fd : {None} \cup Stamps, index : {None} \cup Indexes,
          self : {None} \cup Totals, fresh : BOOLEAN]
ConstantsOK ==
  /\ Runtimes \subseteq {"claude", "codex"} /\ Early \subseteq Seq(Records)
  /\ \A l \in Records : l.n \in Nat /\ l.time \in Nat
  /\ MaxLines \in Nat /\ MaxChanges \in Nat /\ MaxEvents \in Nat
  /\ Slice \in Nat /\ HeadUnits \in Nat /\ Page \in Nat
  /\ \A ls \in Early : Len(ls) <= MaxLines
  /\ None \notin Caches /\ None \notin Stamps /\ None \notin Indexes /\ None \notin Fences
  /\ None \notin Totals /\ None \notin Queries /\ None \notin {"read", "asked", "visit"}
  /\ None \notin [n : Nat, time : Nat, amb : BOOLEAN] /\ None \notin [fresh : BOOLEAN]

\* What each step of a call has in hand.
HandsOK(c) ==
  /\ c.at # "idle" => c.q \in Queries /\ c.src # None /\ c.job # None
  /\ (c.fd # None) <=> (c.at = "index")
  /\ c.at \in {"sum", "end"} => c.index # None
  /\ c.at = "end" => c.self # None
  /\ c.job = "visit" => c.q = "all"
TypeOK ==
  /\ runtime \in Runtimes /\ file \in Files /\ Size(file) <= 2 * MaxLines
  /\ db \in Ledgers /\ call \in [Procs -> Calls]
  /\ HandsOK(call["daemon"])
  /\ call["cli"].at \in {"idle", "index"} /\ (call["cli"].fd # None <=> call["cli"].at = "index")
  /\ queue \subseteq Queries /\ prepared \in {None} \cup [fresh : BOOLEAN]
  /\ file.at <= MaxChanges /\ events <= MaxEvents /\ events \in Nat

SumOf(w, n) == LET s[k \in 0..n] == IF k = 0 THEN 0 ELSE s[k - 1] + w[k] IN s[n]

\* What a session used by its lines, with nothing of an index: of a Claude message what
\* was said of it last, of a Codex conversation how far its total went.
Expected(ls, q) ==
  LET last == {k \in 1..Len(ls) : \A j \in (k + 1)..Len(ls) : Id(ls[j]) # Id(ls[k])}
      first == {k \in 1..Len(ls) : \A j \in 1..(k - 1) : Id(ls[j]) # Id(ls[k])}
      \* the running total before a line
      before(k) == LET b == {j \in first : j < k} IN
                   IF b = {} THEN 0 ELSE ls[CHOOSE j \in b : \A i \in b : i <= j].n
      counted == IF runtime = "claude" THEN {k \in last : q = "all" \/ ls[k].time = 1}
                 ELSE {k \in first : q = "all" \/ (k # 1 /\ ls[k].time = 1)}
  IN SumOf([k \in 1..Len(ls) |-> IF k \notin counted THEN 0
                                 ELSE IF runtime = "claude" THEN ls[k].n ELSE ls[k].n - before(k)],
           Len(ls))

\* A total that is kept up by additions and corrections is the one a pass over the
\* ledger would give, though it is built in pages while records arrive and are corrected.
SumsTrue ==
  \A q \in Queries : LET c == db.cache[q] IN c # None =>
    [c EXCEPT !.through = 0] =
      Added([NewCache EXCEPT !.complete = c.complete], q, db.facts, 0,
            IF c.complete THEN Len(db.facts) ELSE c.through)

\* An answer that calls itself ready leaves nothing of the file out that was there when
\* it was asked, of a past window nothing of what the window was fixed at, and counts
\* nothing twice; unless the transcript was replaced meanwhile, or, for a past window, was
\* written over and not been indexed since.
ReadyIsTrue ==
  LET c == call["daemon"]
  IN c.at = "end" /\ c.fresh => \A wrote \in BOOLEAN :
       LET fence == FenceOf(c, wrote)
           need == IF c.q = "all" THEN c.src.size ELSE IF fence = None THEN c.src.size ELSE fence.bytes
       IN /\ State(c, fence) = "ready" /\ ~c.self.amb
          /\ c.q = "all" \/ c.index.head[1] = c.src.gen
          => \E k \in ((need + 1) \div 2)..Len(file.lines) :
               c.self.sum = Expected(SubSeq(file.lines, 1, k), c.q)

\* A source the daemon passes over has nothing left to read ("skip only successfully
\* prepared, unchanged sources").
PassedOverIsRead ==
  prepared = [fresh |-> TRUE] =>
    /\ db.index # None /\ db.index.ino = file.ino /\ db.index.off = Size(file)
    /\ db.cache["all"] # None /\ db.cache["all"].complete

UsageSafe == SumsTrue /\ ReadyIsTrue /\ PassedOverIsRead

\* A look at the file: it only grew since, or was replaced.
StampSound(f, s) ==
  /\ s.gen <= f.gen /\ s.at <= f.at /\ (s.at = f.at => s = Stamp(f))
  /\ s.gen = f.gen => /\ s.ino = f.ino /\ s.size <= Size(f)
                      /\ s.size = Size(f) => s.at = f.at
  /\ s.ino # f.ino => s.size \div 2 <= Len(f.old)
StampOf(i) == [gen |-> i.head[1], ino |-> i.ino, at |-> i.at, size |-> i.seen]
IndexSound(f, i) ==
  /\ StampSound(f, StampOf(i)) /\ i.head = headDigest(StampOf(i)) /\ i.off <= i.seen

\* The facts of an index of this file are those of the lines it read, and a page of a
\* total is of facts that are there.
OfFile(f, i) == i # None /\ i.head[1] = f.gen
FactsSound ==
  /\ IF db.index = None THEN db.facts = <<>>
     ELSE IndexSound(file, db.index) /\ Len(db.facts) <= db.index.off \div 2
  /\ OfFile(file, db.index) =>
       db.facts = PutAll(Empty, SubSeq(file.lines, 1, db.index.off \div 2)).facts
  /\ \A q \in Queries : db.cache[q] # None => db.cache[q].through <= Len(db.facts)

\* Looks at one time are one look; nothing is committed from an earlier one while a
\* call is fresh, so the index only gains on the one the call read.
CallSound ==
  LET c == call["daemon"]
      SameLook(s) == s.at = c.src.at => s = c.src
  IN /\ \A p \in Procs : call[p].fd # None => StampSound(file, call[p].fd)
     /\ c.at # "idle" => /\ StampSound(file, c.src)
                         /\ \A p \in Procs : call[p].fd # None => SameLook(call[p].fd)
                         /\ db.index # None => SameLook(StampOf(db.index))
     /\ c.at \in {"sum", "end"} =>
          /\ IndexSound(file, c.index) /\ SameLook(StampOf(c.index)) /\ db.index # None
     /\ c.at # "idle" /\ c.fresh =>
          /\ c.src.gen = file.gen
          /\ \A p \in Procs : call[p].fd # None => call[p].fd.gen = file.gen
          /\ call["cli"].fd # None => call["cli"].fd.at = file.at
          /\ c.at \in {"sum", "end"} /\ OfFile(file, c.index) =>
               OfFile(file, db.index) /\ db.index.off >= c.index.off
          /\ c.at \in {"read", "sum", "end"} /\ c.job # "read" => OfFile(file, db.index)
          /\ c.at \in {"sum", "end"} /\ c.job # "read" => OfFile(file, c.index)

\* What a call was told of the totals holds of the lines that were there.
SelfSound ==
  LET c == call["daemon"]
  IN c.at = "end" /\ c.fresh /\ ~c.self.building =>
       /\ OfFile(file, c.index) /\ ~c.self.amb =>
            \E k \in (c.index.off \div 2)..Len(file.lines) :
              c.self.sum = Expected(SubSeq(file.lines, 1, k), c.q)
       /\ c.job = "visit" /\ c.index.off = Size(file) =>
            db.cache["all"] # None /\ db.cache["all"].complete

UsageInv == FactsSound /\ CallSound /\ SelfSound

\* A query that was told "building" and is not completed; a record that is never finished
\* keeps it so.
Waits(q) == q \in queue /\ ~file.tail
=============================================================================
