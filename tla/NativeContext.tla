--------------------------- MODULE NativeContext ---------------------------
(***************************************************************************)
(* Reading and compacting the conversation of a native session             *)
(* (src/src/context).  Callers write a request into a journal and a        *)
(* mailbox; one task of the owner, the pump, serves both over the          *)
(* connection it has; only a marker in the conversation itself says that   *)
(* a compaction happened, and automatic ones leave markers too.  Input     *)
(* and compaction keep out of each other's way through two checks under    *)
(* the admission lock.                                                     *)
(*                                                                         *)
(* A marker is the number of compactions so far.                           *)
(***************************************************************************)
EXTENDS Naturals

CONSTANTS
  Runtimes,    \* "claude", whose generation is its registration's, or "codex"
  Ops,         \* operation ids of compact
  Reads,       \* history requests
  Letters,     \* inputs of the session
  MaxGens, MaxMarks, \* bounds: connections of the owner, compactions
  None

Pending == {"queued", "dispatching", "running", "uncertain"}
Dispatched == Pending \ {"queued"}

VARIABLES
  runtime,
  ops,       \* context.json: per operation its state, generation and markerBefore
  rev, last, \* context.json: revision, lastCompletion
  box,       \* history-read.json
  boundary,  \* context resets the readers of the content were given
  letter,    \* per letter: where it is
  lock,      \* the locks held over more than one step, "admission" and "context"
  gen, live, \* connections of the owner so far, and whether it has one
  shown,     \* its published status says idle
  pump,      \* the pump's step, what it holds, and the completions it has applied
  seen,      \* completion events the owner has received
  turn,      \* the conversation: an input whose turn runs, or None
  asked,     \* compactions the runtime took and has not run
  marks,     \* compactions in the conversation
  call,      \* per history request
  ran        \* ghost: calls of api.compact per operation

journal == <<ops, rev, last>>
input == <<letter, turn>>
runs == <<asked, marks, ran>>
owner == <<gen, live, shown>>
vars == <<runtime, journal, box, boundary, input, lock, owner, pump, seen, runs, call>>

Rest == [at |-> "idle", op |-> None, obs |-> None, box |-> None, applied |-> 0]
NoOp == [state |-> "none", gen |-> 0, before |-> 0]

Init ==
  /\ runtime \in Runtimes
  /\ ops = [o \in Ops |-> NoOp] /\ rev = 0 /\ last = [gen |-> 0, id |-> 0]
  /\ box = None /\ boundary = 0
  /\ letter = [l \in Letters |-> "none"] /\ turn = None
  /\ lock = {} /\ gen = 1 /\ live = TRUE /\ shown = TRUE /\ pump = Rest /\ seen = 0
  /\ asked = 0 /\ marks = 0 /\ ran = [o \in Ops |-> 0]
  /\ call = [r \in Reads |-> [at |-> "none", cursor |-> None, page |-> None]]

contextMutationPending == \E o \in Ops : ops[o].state \in Pending
Admission == "admission" \notin lock
Idle == turn = None /\ asked = 0
SetState(o, s) == ops' = [ops EXCEPT ![o].state = s]
Pump(s) == pump' = [pump EXCEPT !.at = s]
\* The generation a pass of the pump works under.
Generation == IF runtime = "claude" THEN 1 ELSE gen

-----------------------------------------------------------------------------
(* Callers *)

\* Mutant: the slot is not looked at.
NothingUnread == \A l \in Letters : letter[l] # "ledger"
\* Nothing accepted and not begun, as the ledger, the cursors and the slot say: a
\* letter that was armed and did not reach the slot is in neither.
NothingAccepted == \A l \in Letters : letter[l] \notin {"ledger", "slot"}

compactNativeContext(o) ==
  /\ lock = {} /\ ops[o].state = "none" /\ ~contextMutationPending
  /\ live /\ shown /\ NothingAccepted
  /\ ops' = [ops EXCEPT ![o] = [state |-> "queued", gen |-> Generation, before |-> 0]]
  /\ UNCHANGED <<runtime, rev, last, box, boundary, input, lock, owner, pump, seen, runs, call>>

Answered == {call[r].page : r \in {q \in Reads : call[q].at = "page"}}

\* One reader at a time (history-reader.lock), with a cursor of an earlier page.
readNativeHistory(r) ==
  /\ call[r].at = "none" /\ live /\ \A q \in Reads : call[q].at # "waiting"
  /\ \E c \in {None} \cup Answered :
       /\ call' = [call EXCEPT ![r] = [at |-> "waiting", cursor |-> c, page |-> None]]
       /\ box' = [id |-> r, gen |-> Generation, cursor |-> c, state |-> "queued", page |-> None]
  /\ UNCHANGED <<runtime, journal, boundary, input, lock, owner, pump, seen, runs>>

\* Mutant: any finished request is an answer.
AwaitAnyPage(r) ==
  /\ call[r].at = "waiting"
  /\ IF box.state = "complete"
     THEN call' = [call EXCEPT ![r].at = "page", ![r].page = box.page]
     ELSE call' = [call EXCEPT ![r].at = "refused"]
  /\ UNCHANGED <<runtime, journal, box, boundary, input, lock, owner, pump, seen, runs>>
\* What it finds in the mailbox, or the deadline.
AwaitPage(r) ==
  /\ call[r].at = "waiting"
  /\ IF box.id = r /\ box.state = "complete"
     THEN call' = [call EXCEPT ![r].at = "page", ![r].page = box.page]
     ELSE call' = [call EXCEPT ![r].at = "refused"]
  /\ UNCHANGED <<runtime, journal, box, boundary, input, lock, owner, pump, seen, runs>>

-----------------------------------------------------------------------------
(* Input *)

\* `ccmux msg` appends to the ledger whatever the session does.
Append(l) ==
  /\ letter[l] = "none" /\ letter' = [letter EXCEPT ![l] = "ledger"]
  /\ UNCHANGED <<runtime, journal, box, boundary, turn, lock, owner, pump, seen, runs, call>>

SlotFree == \A l \in Letters : letter[l] \notin {"armed", "slot"}

\* The daemon arms the cursors and fills the slot; it may die in between.
deliverNativeRuntime(l) ==
  /\ Admission /\ live /\ shown /\ ~contextMutationPending
  /\ letter[l] = "ledger" /\ SlotFree
  /\ \E to \in {"armed", "slot"} : letter' = [letter EXCEPT ![l] = to]
  /\ UNCHANGED <<runtime, journal, box, boundary, turn, lock, owner, pump, seen, runs, call>>

\* Mutant: the repair does not look at the journal.
RepairUnchecked(l) ==
  /\ Admission /\ live /\ shown
  /\ letter[l] = "armed" /\ letter' = [letter EXCEPT ![l] = "slot"]
  /\ UNCHANGED <<runtime, journal, box, boundary, turn, lock, owner, pump, seen, runs, call>>
Repair(l) ==
  /\ Admission /\ live /\ shown /\ ~contextMutationPending
  /\ letter[l] = "armed" /\ letter' = [letter EXCEPT ![l] = "slot"]
  /\ UNCHANGED <<runtime, journal, box, boundary, turn, lock, owner, pump, seen, runs, call>>

\* The owner starts the turn of its slot, and publishes it later.  Claude's pickup
\* looks at its projection only.
pickup(l) ==
  /\ Admission /\ live /\ letter[l] = "slot" /\ Idle
  /\ runtime = "claude" \/ ~contextMutationPending
  /\ letter' = [letter EXCEPT ![l] = "begun"] /\ turn' = l
  /\ UNCHANGED <<runtime, journal, box, boundary, lock, owner, pump, seen, runs, call>>

Publish ==
  /\ live /\ shown' = Idle /\ shown' # shown
  /\ UNCHANGED <<runtime, journal, box, boundary, input, lock, gen, live, pump, seen, runs, call>>

-----------------------------------------------------------------------------
(* The pump: one task, a pass at a time *)

Start ==
  /\ live /\ pump.at = "idle"
  /\ \/ /\ runtime = "codex" /\ seen # pump.applied /\ lock = {}
        /\ pump' = [pump EXCEPT !.at = "observe", !.applied = seen,
                                !.obs = [gen |-> gen, id |-> marks, then |-> "history"]]
        /\ lock' = {"context"}
     \/ (runtime = "claude" \/ seen = pump.applied) /\ Pump("history") /\ UNCHANGED lock
  /\ UNCHANGED <<runtime, journal, box, boundary, input, owner, seen, runs, call>>

\* observeContextCompletion, in two writes: the reset is published first.
Matching == {o \in Ops : ops[o].gen = pump.obs.gen /\ ops[o].state \in Dispatched}

\* Mutant: a marker that was there before the request counts.
RepeatedLast ==
  \/ last = [gen |-> pump.obs.gen, id |-> pump.obs.id]
  \/ Matching = {} /\ pump.obs.gen # Generation
Repeated ==
  \/ last = [gen |-> pump.obs.gen, id |-> pump.obs.id]
  \/ \E o \in Matching : ops[o].before = pump.obs.id
  \/ Matching = {} /\ pump.obs.gen # Generation

\* Mutant: the readers of the content are not told.
publishNothing ==
  /\ pump.at = "observe"
  /\ IF Repeated
     THEN pump' = [pump EXCEPT !.at = pump.obs.then, !.obs = None] /\ lock' = {}
     ELSE Pump("record") /\ UNCHANGED lock
  /\ UNCHANGED <<runtime, journal, boundary, box, input, owner, seen, runs, call>>
publishBoundary ==
  /\ pump.at = "observe"
  /\ IF Repeated
     THEN pump' = [pump EXCEPT !.at = pump.obs.then, !.obs = None] /\ lock' = {}
          /\ UNCHANGED boundary
     ELSE Pump("record") /\ boundary' = boundary + 1 /\ UNCHANGED lock
  /\ UNCHANGED <<runtime, journal, box, input, owner, seen, runs, call>>
observeContextCompletion ==
  /\ pump.at = "record"
  /\ rev' = rev + 1 /\ last' = [gen |-> pump.obs.gen, id |-> pump.obs.id]
  /\ ops' = [o \in Ops |-> IF o \in Matching THEN [ops[o] EXCEPT !.state = "completed"] ELSE ops[o]]
  /\ pump' = [pump EXCEPT !.at = pump.obs.then, !.obs = None] /\ lock' = {}
  /\ UNCHANGED <<runtime, box, boundary, input, owner, seen, runs, call>>

\* A page names the revision and the generation its cursor is good for.
Current(r) == [of |-> r, rev |-> rev, gen |-> Generation]
SameContext(c) == c = None \/ (c.rev = rev /\ c.gen = Generation)

\* Mutant: a cursor of another revision is served.
historyAnyCursor ==
  /\ pump.at = "history"
  /\ IF box = None \/ box.state # "queued"
     THEN Pump("commands") /\ UNCHANGED box
     ELSE IF box.gen # Generation
     THEN Pump("commands") /\ box' = [box EXCEPT !.state = "failed"]
     ELSE /\ pump' = [pump EXCEPT !.at = "page", !.box = [box EXCEPT !.state = "complete", !.page = Current(box.id)]]
          /\ UNCHANGED box
  /\ UNCHANGED <<runtime, journal, boundary, input, lock, owner, seen, runs, call>>
history ==
  /\ pump.at = "history"
  /\ IF box = None \/ box.state # "queued"
     THEN Pump("commands") /\ UNCHANGED box
     ELSE IF box.gen # Generation
     THEN Pump("commands") /\ box' = [box EXCEPT !.state = "failed"]
     ELSE \E ok \in BOOLEAN :
            pump' = [pump EXCEPT !.at = "page", !.box = [box EXCEPT
              !.state = IF ok /\ SameContext(box.cursor)
                        THEN "complete" ELSE "failed",
              !.page = Current(box.id)]]
          /\ UNCHANGED box
  /\ UNCHANGED <<runtime, journal, boundary, input, lock, owner, seen, runs, call>>
\* The mailbox is looked at again, and written after that: a reader that gave up and
\* its successor may come in between.
Page ==
  /\ pump.at = "page" /\ Pump(IF box.id = pump.box.id THEN "answer" ELSE "commands")
  /\ UNCHANGED <<runtime, journal, box, boundary, input, lock, owner, seen, runs, call>>
writeHistoryMailbox ==
  /\ pump.at = "answer" /\ box' = pump.box /\ pump' = [pump EXCEPT !.at = "commands", !.box = None]
  /\ UNCHANGED <<runtime, journal, boundary, input, lock, owner, seen, runs, call>>

\* The unsettled operation, read without the lock.
applyContextCommands ==
  /\ pump.at = "commands"
  /\ IF contextMutationPending
     THEN pump' = [pump EXCEPT !.at = "admit", !.op = CHOOSE o \in Ops : ops[o].state \in Pending]
     ELSE Pump("idle")
  /\ UNCHANGED <<runtime, journal, box, boundary, input, lock, owner, seen, runs, call>>

\* One that was dispatched: is there a marker now?  If there is none, or it cannot be
\* read, an operation of another connection is uncertain.
reconcile ==
  /\ pump.at = "admit" /\ lock = {} /\ ops[pump.op].state \in Dispatched
  /\ \/ /\ marks # 0 /\ marks # ops[pump.op].before
        /\ pump' = [pump EXCEPT !.at = "observe",
                      !.obs = [gen |-> ops[pump.op].gen, id |-> marks, then |-> "idle"]]
        /\ lock' = {"admission", "context"} /\ UNCHANGED ops
     \/ /\ IF ops[pump.op].gen # Generation THEN SetState(pump.op, "uncertain") ELSE UNCHANGED ops
        /\ Pump("idle") /\ UNCHANGED lock
  /\ UNCHANGED <<runtime, rev, last, box, boundary, input, owner, seen, runs, call>>

\* One that is queued: rejected if the session is busy by now, or dispatched.
reject ==
  /\ pump.at = "admit" /\ lock = {} /\ ops[pump.op].state = "queued"
  /\ ops[pump.op].gen # Generation \/ ~shown
  /\ SetState(pump.op, "rejected") /\ Pump("idle")
  /\ UNCHANGED <<runtime, rev, last, box, boundary, input, lock, owner, seen, runs, call>>

\* Mutant: the intent is not written before the call.
dispatchUnwritten ==
  /\ pump.at = "admit" /\ lock = {} /\ ops[pump.op].state = "queued"
  /\ ops[pump.op].gen = Generation /\ shown
  /\ Pump("compact") /\ lock' = {"admission"}
  /\ UNCHANGED <<runtime, journal, box, boundary, input, owner, seen, runs, call>>
dispatch ==
  /\ pump.at = "admit" /\ lock = {} /\ ops[pump.op].state = "queued"
  /\ ops[pump.op].gen = Generation /\ shown
  /\ ops' = [ops EXCEPT ![pump.op].state = "dispatching", ![pump.op].before = marks]
  /\ Pump("compact") /\ lock' = {"admission"}
  /\ UNCHANGED <<runtime, rev, last, box, boundary, input, owner, seen, runs, call>>

\* Claude queues the command and publishes; another runtime answers, or its answer is
\* lost with or without the compaction under way.
compact ==
  /\ pump.at = "compact"
  /\ ran' = [ran EXCEPT ![pump.op] = @ + 1]
  /\ \E taken, ack \in BOOLEAN :
       /\ ack => taken
       /\ runtime = "claude" => ack
       /\ asked' = IF taken THEN asked + 1 ELSE asked
       /\ Pump(IF ack THEN "acked" ELSE "lost")
  /\ shown' = IF runtime = "claude" THEN FALSE ELSE shown
  /\ UNCHANGED <<runtime, journal, box, boundary, input, lock, gen, live, seen, marks, call>>
settle ==
  /\ pump.at \in {"acked", "lost"}
  /\ ops' = [ops EXCEPT ![pump.op].state = IF pump.at = "acked" THEN "running" ELSE "uncertain"]
  /\ Pump("idle") /\ lock' = {}
  /\ UNCHANGED <<runtime, rev, last, box, boundary, input, owner, seen, runs, call>>

-----------------------------------------------------------------------------
(* The runtime, and the owner that loses it *)

Mark ==
  /\ marks < MaxMarks /\ marks' = marks + 1
  /\ seen' = IF live /\ runtime = "codex" THEN seen + 1 ELSE seen
\* A compaction that was asked for runs, or fails and leaves no marker.
Compacted ==
  /\ asked > 0 /\ turn = None /\ asked' = asked - 1
  /\ Mark \/ UNCHANGED <<marks, seen>>
  /\ UNCHANGED <<runtime, journal, box, boundary, input, lock, owner, pump, ran, call>>
\* A long turn is compacted without being asked.
Automatic ==
  /\ turn # None /\ Mark
  /\ UNCHANGED <<runtime, journal, box, boundary, input, lock, owner, pump, asked, ran, call>>
TurnEnds ==
  /\ turn # None /\ turn' = None /\ letter' = [letter EXCEPT ![turn] = "over"]
  /\ UNCHANGED <<runtime, journal, box, boundary, lock, owner, pump, seen, runs, call>>

\* The connection is lost, with the runtime or without it.
OwnerDies ==
  /\ live /\ gen < MaxGens /\ live' = FALSE
  /\ pump' = Rest /\ lock' = {} /\ seen' = 0
  /\ \/ asked' = 0 /\ turn' = None
        /\ letter' = [l \in Letters |-> IF turn = l THEN "over" ELSE letter[l]]
     \/ runtime = "codex" /\ UNCHANGED <<asked, input>>
  /\ UNCHANGED <<runtime, journal, box, boundary, gen, shown, marks, ran, call>>
OwnerOpens ==
  /\ ~live /\ live' = TRUE /\ gen' = gen + 1 /\ shown' = Idle
  /\ UNCHANGED <<runtime, journal, box, boundary, input, lock, pump, seen, runs, call>>

Next ==
  \/ \E o \in Ops : compactNativeContext(o)
  \/ \E r \in Reads : readNativeHistory(r) \/ AwaitPage(r)
  \/ \E l \in Letters : Append(l) \/ deliverNativeRuntime(l) \/ Repair(l) \/ pickup(l)
  \/ Publish \/ Start \/ publishBoundary \/ observeContextCompletion
  \/ history \/ Page \/ writeHistoryMailbox
  \/ applyContextCommands \/ reconcile \/ reject \/ dispatch \/ compact \/ settle
  \/ Compacted \/ Automatic \/ TurnEnds \/ OwnerDies \/ OwnerOpens

Spec == Init /\ [][Next]_vars

-----------------------------------------------------------------------------
(* Properties *)

Pages == [of : Reads, rev : Nat, gen : 1..MaxGens]
Boxes == [id : Reads, gen : 1..MaxGens, cursor : {None} \cup Pages,
          state : {"queued", "complete", "failed"}, page : {None} \cup Pages]
Completions == [gen : 0..MaxGens, id : 0..MaxMarks, then : {"history", "idle"}]
Places == {"idle", "observe", "record", "history", "page", "answer", "commands", "admit",
           "compact", "acked", "lost"}
Entries == [state : Pending \cup {"none", "completed", "rejected"}, gen : 0..MaxGens,
            before : 0..MaxMarks]
Pumps == [at : Places, op : Ops \cup {None}, obs : {None} \cup Completions,
          box : {None} \cup Boxes, applied : Nat]
Calls == [at : {"none", "waiting", "refused", "page"}, cursor : {None} \cup Pages,
          page : {None} \cup Pages]
TypeOK ==
  /\ runtime \in {"claude", "codex"}
  /\ ops \in [Ops -> Entries] /\ pump \in Pumps /\ call \in [Reads -> Calls]
  /\ rev \in Nat /\ boundary \in Nat /\ last \in [gen : 0..MaxGens, id : 0..MaxMarks]
  /\ box \in {None} \cup Boxes
  /\ letter \in [Letters -> {"none", "ledger", "armed", "slot", "begun", "over"}]
  /\ turn \in Letters \cup {None}
  /\ lock \subseteq {"admission", "context"} /\ gen \in 1..MaxGens /\ live \in BOOLEAN /\ shown \in BOOLEAN
  /\ ~live => gen < MaxGens
  /\ seen \in Nat /\ asked \in Nat /\ marks \in 0..MaxMarks /\ ran \in [Ops -> Nat]

\* A compaction is asked for once, whatever is lost or dies: an operation that may have
\* been dispatched is never dispatched again (pump.ts; "no automatic resubmission").
CompactedOnce ==
  /\ \A o \in Ops : ran[o] <= 1 /\ (ops[o].state \in {"none", "queued", "rejected"} => ran[o] = 0)
  /\ \A o, p \in Ops : ops[o].state \in Pending /\ ops[p].state \in Pending => o = p

\* "Native completion markers, not ACK or idle, complete it": what is called completed
\* left a marker that was not there when it was dispatched.
CompletedIsTrue == \A o \in Ops : ops[o].state = "completed" => marks > ops[o].before

\* "Context reset must be published before a completed receipt becomes visible", across
\* deaths between the two.
ResetComesFirst == rev <= boundary

\* While a compaction is unresolved nothing is put into the slot, and none is accepted
\* while something waits there (service.ts, nativeRuntime.ts, the pickups).
InputWaits == (\E l \in Letters : letter[l] = "slot") => ~contextMutationPending

\* A reader is given its own page, and one that goes on from a cursor stays in the
\* revision and the connection of that cursor.
PagesBelong ==
  \A r \in Reads : call[r].at = "page" =>
    LET p == call[r].page IN LET c == call[r].cursor IN
      p \in Pages /\ p.of = r /\ (c # None => p.rev = c.rev /\ p.gen = c.gen)

ContextSafe == CompactedOnce /\ CompletedIsTrue /\ ResetComesFirst /\ InputWaits /\ PagesBelong

-----------------------------------------------------------------------------
(* The properties made inductive *)

\* What the proofs ask of the constants: None is no operation, input, page or request.
ConstantsOK ==
  /\ Runtimes \subseteq {"claude", "codex"} /\ MaxGens \in Nat \ {0} /\ MaxMarks \in Nat
  /\ None \notin Ops \cup Letters \cup Pages \cup Boxes \cup Completions

\* The pump's step says which locks it holds and what the journal says of the operation in
\* its hand: one that is about to be asked for was not.
PumpSound ==
  /\ pump.at \in {"admit", "compact", "acked", "lost"} => pump.op \in Ops
  /\ pump.at \in {"compact", "acked", "lost"} =>
       "admission" \in lock /\ ops[pump.op].state = "dispatching"
  /\ pump.at = "compact" => ran[pump.op] = 0
  /\ pump.at \in {"observe", "record"} => "context" \in lock /\ pump.obs # None

\* A marker in the pump's hand is in the conversation, and newer than what it completes;
\* its reset is published before it is recorded.
MarkerSound ==
  /\ \A o \in Ops : ops[o].before <= marks
  /\ pump.at \in {"observe", "record"} =>
       pump.obs.id <= marks /\ \A o \in Matching : ops[o].before <= pump.obs.id
  /\ pump.at = "record" => rev < boundary /\ \A o \in Matching : ops[o].before # pump.obs.id

\* A request in the mailbox, or in the pump's hand, is its reader's, and if it is complete
\* its page is.
RequestSound(b) ==
  /\ call[b.id].at # "none" /\ call[b.id].cursor = b.cursor
  /\ b.state = "complete" =>
       /\ b.page # None /\ b.page.of = b.id
       /\ b.cursor # None => b.page.rev = b.cursor.rev /\ b.page.gen = b.cursor.gen

ReadersSound ==
  /\ box # None => RequestSound(box)
  /\ pump.at \in {"page", "answer"} => pump.box # None /\ RequestSound(pump.box)
  /\ \A r \in Reads : call[r].at = "waiting" => box # None

ContextInv == PumpSound /\ MarkerSound /\ ReadersSound /\ ContextSafe
=============================================================================
