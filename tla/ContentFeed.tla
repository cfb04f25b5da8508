---------------------------- MODULE ContentFeed ----------------------------
(***************************************************************************)
(* The live content of a native session: the bounded buffer its owner      *)
(* fills (content/buffer.ts), the coalescing writer that publishes it      *)
(* (content/store.ts, content/producer.ts), and the cursor a reader        *)
(* follows it with (content/read.ts).                                      *)
(*                                                                         *)
(* A text is the number of units of it; a record carries one unit.  What   *)
(* a unit really is, is kept beside what the record says of it, as the     *)
(* ghost field "real": its position in the text the provider produced.     *)
(***************************************************************************)
EXTENDS Naturals, Sequences, FiniteSets

CONSTANTS
  Texts,          \* items that stream text
  Requests,       \* items with a lifecycle only, protected from eviction
  MaxRecords,     \* CONTENT_MAX_RECORDS
  MaxItems,       \* CONTENT_MAX_ITEMS
  MaxPositions,   \* the 256 of rememberPosition
  ItemUnits,      \* CONTENT_ITEM_BYTES
  MaxUnits,       \* bound: units of a text
  MaxGenerations, MaxResets, \* bounds
  None

Items == Texts \cup Requests

VARIABLES
  native,   \* per item: the units produced, and whether it is open
  buf,      \* the ContentBuffer of the owner
  next,     \* the writer has an offered snapshot
  writing,  \* the snapshot being written, or None
  file,     \* content.json
  live,     \* the generation whose status lease is live, 0 for none
  reader,   \* the reader's cursor and its items
  resets

vars == <<native, buf, next, writing, file, live, reader, resets>>

Least(a, b) == IF a < b THEN a ELSE b
LastOf(s, n) == SubSeq(s, IF Len(s) > n THEN Len(s) - n + 1 ELSE 1, Len(s))
Has(s, i) == \E k \in 1..Len(s) : s[k].item = i
At(s, i) == CHOOSE k \in 1..Len(s) : s[k].item = i
RemovedAt(s, k) == SubSeq(s, 1, k - 1) \o SubSeq(s, k + 1, Len(s))
\* A Map has one row of an item.
Without(s, i) == IF Has(s, i) THEN RemovedAt(s, At(s, i)) ELSE s
Row(s, i) == s[At(s, i)]
Fresh == [i \in Items |-> [units |-> 0, open |-> FALSE, done |-> FALSE]]
Empty(g) == [gen |-> g, seq |-> 0, dropped |-> 0, boundary |-> 0,
             records |-> <<>>, states |-> <<>>, positions |-> <<>>]

\* snapshot(): the positions stay with the owner.
Snapshot(b) == [gen |-> b.gen, seq |-> b.seq, dropped |-> b.dropped, boundary |-> b.boundary,
                records |-> b.records, baseline |-> b.states]

Init ==
  /\ native = Fresh /\ buf = Empty(1) /\ next = FALSE /\ writing = None
  /\ file = Snapshot(Empty(1)) /\ live = 1 /\ resets = 0
  /\ reader = [cur |-> None, seen |-> {}, broken |-> FALSE]

-----------------------------------------------------------------------------
(* The buffer *)

\* Mutant: what is dropped is not remembered.
PushedSilently(b, rs) ==
  LET all == b.records \o [k \in 1..Len(rs) |-> [rs[k] EXCEPT !.seq = b.seq + k]]
  IN [b EXCEPT !.seq = b.seq + Len(rs), !.records = LastOf(all, MaxRecords)]

\* push, once per record: the oldest records go, and are remembered as dropped.
Pushed(b, rs) ==
  LET all == b.records \o [k \in 1..Len(rs) |-> [rs[k] EXCEPT !.seq = b.seq + k]]
      kept == LastOf(all, MaxRecords)
  IN [b EXCEPT !.seq = b.seq + Len(rs), !.records = kept,
        !.dropped = IF Len(kept) < Len(all) THEN all[Len(all) - Len(kept)].seq ELSE b.dropped]

\* Mutant: the oldest item goes, whatever it is.
BoundedOldest(ss) == LastOf(ss, MaxItems)

\* boundStates: requests are evicted last.
Bounded(ss) ==
  IF Len(ss) <= MaxItems THEN ss
  ELSE LET text == {k \in 1..Len(ss) : ss[k].item \in Texts}
           out == IF text = {} THEN 1 ELSE CHOOSE k \in text : \A j \in text : k <= j
       IN RemovedAt(ss, out)

rememberPosition(b, r) == LastOf(Append(Without(b.positions, r.item), r), MaxPositions)

\* What the buffer knows of an item, its retained text before its position.
Prior(b, i) ==
  IF Has(b.states, i) THEN Row(b.states, i)
  ELSE IF Has(b.positions, i)
       THEN LET p == Row(b.positions, i) IN [p EXCEPT !.from = p.total]
  ELSE None

\* text(): n units that really begin at "real", appended or replacing.
Text(b, i, op, n, real, complete) ==
  LET prior == Prior(b, i)
      revision == IF prior = None THEN 1 ELSE IF op = "replace" THEN prior.rev + 1 ELSE prior.rev
      offset == IF prior = None \/ op = "replace" THEN 0 ELSE prior.total
      known == op = "replace" \/ offset = 0 \/ prior.known
      total == offset + n
      record(k) == [seq |-> 0, item |-> i, op |-> IF k = 1 THEN op ELSE "append", rev |-> revision,
        offset |-> offset + k - 1, units |-> IF n = 0 THEN 0 ELSE 1, real |-> real + k - 1,
        known |-> known, complete |-> complete /\ k = (IF n = 0 THEN 1 ELSE n)]
      start == IF op = "append" /\ prior # None THEN prior.from ELSE offset
      from == IF total - start > ItemUnits THEN total - ItemUnits ELSE start
      state == [item |-> i, rev |-> revision, from |-> from, total |-> total,
                real |-> real + n, known |-> known /\ from = 0,
                complete |-> complete /\ known /\ from = 0, status |-> "text"]
      pushed == Pushed(b, [k \in 1..(IF n = 0 THEN 1 ELSE n) |-> record(k)])
  IN [pushed EXCEPT
        !.states = Bounded(Append(Without(b.states, i), state)),
        !.positions = rememberPosition(b, [state EXCEPT !.complete = complete, !.known = known])]

\* A finished item takes nothing more, and an identical replacement is no event.
Refused(b, i, op, n, complete) ==
  LET prior == Prior(b, i) IN
  \/ /\ ~complete /\ prior # None
     /\ prior.complete \/ (Has(b.positions, i) /\ Row(b.positions, i).complete)
  \/ op = "replace" /\ Has(b.states, i) /\ prior.complete = complete /\ prior.from = 0 /\ prior.total = n

lifecycle(b, i, status) ==
  LET prev == IF Has(b.states, i) THEN Row(b.states, i).rev ELSE 0
      row == [item |-> i, rev |-> prev + 1, from |-> 0, total |-> 0, real |-> 0, known |-> TRUE,
              complete |-> status = "resolved", status |-> status]
      record == [seq |-> 0, item |-> i, op |-> status, rev |-> prev + 1, offset |-> 0, units |-> 0,
                 real |-> 0, known |-> TRUE, complete |-> status = "resolved"]
  IN [Pushed(b, <<record>>) EXCEPT !.states = Bounded(Append(Without(b.states, i), row))]

\* Mutant: the reset is no event.
ResetQuiet(b) == [Empty(b.gen) EXCEPT !.seq = b.seq, !.boundary = b.seq, !.dropped = b.seq]

\* The reset takes a sequence number of its own.
Reset(b) == [Empty(b.gen) EXCEPT !.seq = b.seq + 1, !.boundary = b.seq + 1, !.dropped = b.seq + 1]

-----------------------------------------------------------------------------
(* The owner: what the provider says, and publish() *)

Published(b) == buf' = b /\ next' = (next \/ b # buf)

\* A delta of a text.
Delta(i, n) ==
  /\ live = buf.gen /\ ~native[i].done /\ native[i].units + n <= MaxUnits
  /\ native' = [native EXCEPT ![i].units = @ + n, ![i].open = TRUE]
  /\ Published(IF Refused(buf, i, "append", n, FALSE) THEN buf
               ELSE Text(buf, i, "append", n, native[i].units, FALSE))
  /\ UNCHANGED <<writing, file, live, reader, resets>>

\* The completed item carries its whole text; a late "started" carries none.
Complete(i) ==
  /\ live = buf.gen /\ native[i].open
  /\ native' = [native EXCEPT ![i].open = FALSE, ![i].done = TRUE]
  /\ Published(Text(buf, i, "replace", native[i].units, 0, TRUE))
  /\ UNCHANGED <<writing, file, live, reader, resets>>

LateStart(i) ==
  /\ live = buf.gen /\ native[i].done
  /\ Published(IF Refused(buf, i, "replace", 0, FALSE) THEN buf
               ELSE Text(buf, i, "replace", 0, 0, FALSE))
  /\ UNCHANGED <<native, writing, file, live, reader, resets>>

Ask(i) ==
  /\ live = buf.gen /\ ~native[i].open /\ ~native[i].done
  /\ native' = [native EXCEPT ![i].open = TRUE] /\ Published(lifecycle(buf, i, "requested"))
  /\ UNCHANGED <<writing, file, live, reader, resets>>

Resolve(i) ==
  /\ live = buf.gen /\ native[i].open
  /\ native' = [native EXCEPT ![i].open = FALSE, ![i].done = TRUE]
  /\ Published(lifecycle(buf, i, "resolved"))
  /\ UNCHANGED <<writing, file, live, reader, resets>>

\* publishContextBoundary: between turns, when no item is open.
resetContext ==
  /\ live = buf.gen /\ \A i \in Items : ~native[i].open
  /\ resets < MaxResets /\ resets' = resets + 1
  /\ Published(Reset(buf)) /\ native' = Fresh
  /\ UNCHANGED <<writing, file, live, reader>>

\* ContentWriter: the snapshot is taken when the write begins.
flush ==
  /\ next /\ writing = None /\ live = buf.gen
  /\ next' = FALSE /\ writing' = Snapshot(buf)
  /\ UNCHANGED <<native, buf, file, live, reader, resets>>

\* Mutant: what was offered during a write is forgotten with it.
WrittenForgets ==
  /\ writing # None /\ file' = writing /\ writing' = None /\ next' = FALSE
  /\ UNCHANGED <<native, buf, live, reader, resets>>

Written ==
  /\ writing # None /\ file' = writing /\ writing' = None
  /\ UNCHANGED <<native, buf, next, live, reader, resets>>

\* The owner dies with what it has not written; its lease runs out.
OwnerDies ==
  /\ live = buf.gen /\ buf.gen < MaxGenerations
  /\ live' = 0 /\ next' = FALSE /\ writing' = None
  /\ UNCHANGED <<native, buf, file, reader, resets>>

\* The next owner commits its first content before its status goes live.
OwnerOpens ==
  /\ live = 0 /\ live' = buf.gen + 1
  /\ buf' = Empty(buf.gen + 1) /\ file' = Snapshot(Empty(buf.gen + 1)) /\ native' = Fresh
  /\ UNCHANGED <<next, writing, reader, resets>>

-----------------------------------------------------------------------------
(* The reader *)

\* Mutant: a cursor that fell out of the retained records is served what is left.
contentResetLax(f, cur) ==
  IF cur = None THEN "initial" ELSE IF cur.gen # f.gen THEN "generation"
  ELSE IF cur.seq < f.boundary THEN "context" ELSE "none"

contentReset(f, cur) ==
  IF cur = None THEN "initial"
  ELSE IF cur.gen # f.gen THEN "generation"
  ELSE IF cur.seq < f.boundary THEN "context"
  ELSE IF cur.seq < f.dropped \/ cur.seq > f.seq THEN "gap" ELSE "none"

\* How a consumer applies one record (scripts/native-content-acceptance.ts).
Apply(r, rec) ==
  LET held == {x \in r.seen : x.item = rec.item}
      new == [item |-> rec.item, rev |-> rec.rev, from |-> rec.offset, total |-> rec.offset + rec.units,
              real |-> rec.real + rec.units, complete |-> rec.complete /\ rec.known,
              status |-> IF rec.item \in Texts THEN "text" ELSE rec.op]
  IN IF held = {} \/ rec.op # "append" THEN [r EXCEPT !.seen = (@ \ held) \cup {new}]
     ELSE LET x == CHOOSE x \in held : TRUE
          IN [r EXCEPT
               !.seen = (@ \ held) \cup {[x EXCEPT !.total = @ + rec.units,
                           !.real = rec.real + rec.units, !.complete = rec.complete]},
               !.broken = @ \/ x.rev # rec.rev \/ x.total # rec.offset]

\* The records a consumer with a cursor is given: those after it.
Applied(r, rs, after) ==
  LET f[k \in 0..Len(rs)] ==
        IF k = 0 THEN r
        ELSE IF rs[k].seq > after THEN Apply(f[k - 1], rs[k]) ELSE f[k - 1]
  IN f[Len(rs)]

Baseline(f) ==
  {[item |-> s.item, rev |-> s.rev, from |-> s.from, total |-> s.total, real |-> s.real,
    complete |-> s.complete, status |-> s.status] : s \in {f.baseline[k] : k \in 1..Len(f.baseline)}}

\* A frame whose owner is not live carries nothing and leaves the cursor.
Read ==
  /\ live = file.gen
  /\ LET moved == [reader EXCEPT !.cur = [gen |-> file.gen, seq |-> file.seq]]
     IN reader' = IF contentReset(file, reader.cur) = "none"
                  THEN Applied(moved, file.records, reader.cur.seq)
                  ELSE [moved EXCEPT !.seen = Baseline(file)]
  /\ UNCHANGED <<native, buf, next, writing, file, live, resets>>

-----------------------------------------------------------------------------
Next ==
  \/ \E i \in Texts : (\E n \in 1..2 : Delta(i, n)) \/ Complete(i) \/ LateStart(i)
  \/ \E i \in Requests : Ask(i) \/ Resolve(i)
  \/ resetContext \/ flush \/ Written \/ OwnerDies \/ OwnerOpens \/ Read

Fairness == WF_vars(flush) /\ WF_vars(Written) /\ WF_vars(Read) /\ WF_vars(OwnerOpens)
Spec == Init /\ [][Next]_vars /\ Fairness

-----------------------------------------------------------------------------
(* Properties *)

RecordsOf(items, ops) ==
  [seq : Nat, item : items, op : ops, rev : Nat, offset : Nat, units : 0..1, real : Nat,
   known : BOOLEAN, complete : BOOLEAN]
TextRecords == RecordsOf(Texts, {"append", "replace"})
Records == TextRecords \cup RecordsOf(Requests, {"requested", "resolved"})
RowsOf(items, statuses) ==
  [item : items, rev : Nat, from : Nat, total : Nat, real : Nat, known : BOOLEAN,
   complete : BOOLEAN, status : statuses]
TextRows == RowsOf(Texts, {"text"})
Rows == TextRows \cup RowsOf(Requests, {"requested", "resolved"})
Buffers == [gen : 1..MaxGenerations, seq : Nat, dropped : Nat, boundary : Nat,
            records : Seq(Records), states : Seq(Rows), positions : Seq(TextRows)]
Snapshots == [gen : 1..MaxGenerations, seq : Nat, dropped : Nat, boundary : Nat,
              records : Seq(Records), baseline : Seq(Rows)]
Cursors == [gen : 1..MaxGenerations, seq : Nat]
Held == [item : Items, rev : Nat, from : Nat, total : Nat, real : Nat, complete : BOOLEAN,
         status : {"text", "requested", "resolved"}]
ConstantsOK ==
  /\ IsFiniteSet(Texts) /\ IsFiniteSet(Requests) /\ Texts \cap Requests = {}
  /\ MaxRecords \in Nat /\ MaxItems \in Nat /\ MaxPositions \in Nat
  /\ ItemUnits \in Nat /\ MaxUnits \in Nat /\ MaxGenerations \in Nat \ {0} /\ MaxResets \in Nat
  /\ None \notin Rows /\ None \notin Records /\ None \notin Snapshots /\ None \notin Cursors

\* An item has one row, and the records are numbered after what was dropped.
OneRow(s) == \A j, k \in 1..Len(s) : s[j].item = s[k].item => j = k
Numbered(b) ==
  /\ b.dropped + Len(b.records) = b.seq
  /\ \A k \in 1..Len(b.records) : b.records[k].seq = b.dropped + k
\* The bounds the buffer keeps.
BufferOK(b) ==
  /\ b \in Buffers /\ Numbered(b) /\ b.boundary <= b.dropped
  /\ Len(b.records) <= MaxRecords
  /\ Len(b.states) <= MaxItems /\ OneRow(b.states)
  /\ Len(b.positions) <= MaxPositions /\ OneRow(b.positions)
TypeOK ==
  /\ native \in [Items -> [units : 0..MaxUnits, open : BOOLEAN, done : BOOLEAN]]
  /\ BufferOK(buf) /\ next \in BOOLEAN
  /\ writing \in {None} \cup Snapshots /\ file \in Snapshots
  /\ live \in {0, buf.gen} /\ (live = 0 => buf.gen < MaxGenerations) /\ resets \in 0..MaxResets
  /\ reader \in [cur : {None} \cup Cursors, seen : SUBSET Held, broken : BOOLEAN]

\* content/buffer.ts and content/read.ts: a reader that is told of no reset is
\* never served a record that does not continue what it holds, however the
\* buffer dropped, the writer coalesced and the owner restarted in between.
AppendsContinue == ~reader.broken

\* What a reader holds of the owner's text is that text: its position is where the
\* provider produced it, and an item it believes complete is whole.
ReaderTrue ==
  reader.cur # None /\ reader.cur.gen = buf.gen /\ reader.cur.seq >= buf.boundary =>
    \A x \in reader.seen : x.item \in Texts =>
      /\ x.real = x.total /\ x.total <= native[x.item].units
      /\ x.complete => native[x.item].done /\ x.total = native[x.item].units

\* docs/architecture/native-content-and-turn-controls.md ("Request/terminal baseline
\* entries receive retention preference during text floods"): an open request is in
\* the baseline whatever is streamed beside it.
RequestsSurvive ==
  Cardinality(Requests) <= MaxItems =>
    \A i \in Requests : native[i].open /\ live = buf.gen =>
      \E k \in 1..Len(buf.states) : buf.states[k].item = i /\ buf.states[k].status = "requested"

\* content/store.ts, offer and flush: once the provider falls silent the reader has
\* everything the buffer has, though writes are coalesced and may overlap offers.
CaughtUp == live = buf.gen => reader.cur = [gen |-> buf.gen, seq |-> buf.seq]
ReaderCatchesUp == <>[]CaughtUp
=============================================================================
