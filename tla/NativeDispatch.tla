--------------------------- MODULE NativeDispatch ---------------------------
(***************************************************************************)
(* How a letter becomes a turn of a session whose runtime ccmux owns.      *)
(* Four parties meet in three files of the session: the daemon             *)
(* (chat/nativeRuntime.ts) moves its cursors and then fills the input      *)
(* slot; the owner of the runtime takes the slot and starts a turn; a      *)
(* caller of the control plane puts a command into the same slot; and the  *)
(* owner publishes a status that the other two decide on.  Everyone holds  *)
(* the session's admission lock while it reads and writes the slot.        *)
(*                                                                         *)
(* The four kinds of owner differ in what they know of a dispatch that was *)
(* cut short: a Claude owner asks the transcript, a Codex or OpenCode one  *)
(* asks the provider and never sends twice, a Custom one sends again under *)
(* the same idempotency key.                                               *)
(***************************************************************************)
EXTENDS Naturals, Sequences, FiniteSets

CONSTANTS
  Agents,         \* kinds of runtime: "claude", "codex", "opencode", "custom"
  MaxLetters,     \* bound: rows of the ledger addressed to the session
  Commands,       \* operation ids of control commands
  None,           \* no turn, no slot, no pickup
  MaxCalls,       \* bound: calls per command, retries included
  MaxCrashes,     \* bound: deaths of the daemon and of the owner
  MaxInterrupts   \* bound: turns a person stops

Letters == 1..MaxLetters
Inputs == Letters \cup Commands

\* The id of a command is no id of a letter.
ASSUME DispatchAssumption ==
  /\ Agents \subseteq {"claude", "codex", "opencode", "custom"}
  /\ MaxLetters \in Nat /\ MaxCalls \in Nat /\ MaxCrashes \in Nat /\ MaxInterrupts \in Nat
  /\ None \notin Inputs /\ Commands \cap Letters = {}

VARIABLES
  agent,       \* the kind of this session
  \* files
  written,     \* letters in the ledger
  delivered,   \* the delivered cursor
  pickup,      \* the pickup record of the cursors file
  op,          \* per letter: its message operation
  slot,        \* input.json
  snap,        \* status.json
  lock,        \* who holds admission.lock
  \* processes
  daemonAt,    \* where the daemon is between two writes
  picked,      \* the letter in its hands
  owner,       \* the owner process: its step, and its projection of the turn
  calls,       \* calls made per command
  \* the runtime
  sent,        \* inputs handed to it that it has not begun
  running,     \* the input whose turn runs
  said,        \* inputs in the conversation, in order
  ended,       \* inputs whose turn is over
  results,     \* turn ends the owner has not read
  \* bounds
  crashes, interrupts

fileVars    == <<written, delivered, pickup, op, slot, snap>>
daemonVars  == <<daemonAt, picked>>
runtimeVars == <<sent, running, said, ended, results>>
faultVars   == <<crashes, interrupts>>
vars == <<agent, fileVars, lock, daemonVars, owner, calls, runtimeVars, faultVars>>

NoSlot == [id |-> None, phase |-> "none", terminal |-> FALSE]
NoPickup == [id |-> None, phase |-> "none"]
NoTurn == [id |-> None, status |-> "none"]
Off == [at |-> "off", turn |-> NoTurn, dispatched |-> None, held |-> FALSE]
\* Nothing a reader may act on: no file, an expired lease or a dead producer.
Unavailable == [live |-> FALSE, turn |-> NoTurn]

Queued(i) == [id |-> i, phase |-> "queued", terminal |-> FALSE]
InPhase(p) == [slot EXCEPT !.phase = p]
InConversation(i) == \E n \in 1..Len(said) : said[n] = i
\* What the owner finds when it asks for input i: Custom's harness has stored
\* a run before it begins, the others know what is in the conversation.
Known(i) ==
  \/ InConversation(i)
  \/ agent = "custom" /\ \E n \in 1..Len(sent) : sent[n] = i
Connected == owner.at \notin {"off", "reconnecting"}

Init ==
  /\ agent \in Agents
  /\ written = 0 /\ delivered = 0 /\ pickup = NoPickup
  /\ op = [l \in Letters |-> "queued"]
  /\ slot = NoSlot /\ snap = Unavailable /\ lock = "free"
  /\ daemonAt = "idle" /\ picked = None /\ owner = Off
  /\ calls = [k \in Commands |-> 0]
  /\ sent = <<>> /\ running = None /\ said = <<>> /\ ended = {} /\ results = <<>>
  /\ crashes = 0 /\ interrupts = 0

Send ==
  /\ written < MaxLetters /\ written' = written + 1
  /\ UNCHANGED <<agent, delivered, pickup, op, slot, snap, lock, daemonVars, owner, calls,
                 runtimeVars, faultVars>>

-----------------------------------------------------------------------------
(* The daemon *)

\* Between turns, as the published status says.
Idle == snap.live /\ snap.turn.status # "inProgress"

\* The turn of the input in the slot is over, as far as the daemon can see.
Terminal ==
  IF agent = "custom" THEN slot.terminal
  ELSE snap.turn.id = slot.id /\ snap.turn.status # "inProgress"

\* Mutant: only an empty slot counts.
PreviousNone == slot = NoSlot

PreviousComplete == slot = NoSlot \/ (slot.phase = "accepted" /\ Terminal)

\* The cursors were saved and the slot was not: a crash came between.
Repair ==
  /\ lock = "free" /\ daemonAt = "idle" /\ Idle
  /\ pickup.phase = "intent" /\ slot.id # pickup.id /\ PreviousComplete
  /\ slot' = Queued(pickup.id)
  /\ UNCHANGED <<agent, written, delivered, pickup, op, snap, lock, daemonVars, owner, calls,
                 runtimeVars, faultVars>>

\* advanceMessageOperation: a finished operation never moves again.
Advance(l, phase) == op' = [op EXCEPT ![l] = IF @ = "ended" THEN @ ELSE phase]

\* The owner took the letter; the operation is recorded before the cursors.
NoteAccepted ==
  /\ lock = "free" /\ daemonAt = "idle" /\ snap.live
  /\ pickup.id # None /\ slot.id = pickup.id /\ slot.phase = "accepted"
  /\ daemonAt' = (IF Terminal /\ Idle THEN "ended" ELSE "noted")
  /\ Advance(pickup.id, IF Terminal /\ Idle THEN "ended" ELSE "admitted")
  /\ lock' = "daemon"
  /\ UNCHANGED <<agent, written, delivered, pickup, slot, snap, picked, owner, calls,
                 runtimeVars, faultVars>>

SaveAccepted ==
  /\ daemonAt \in {"noted", "ended"}
  /\ pickup' = IF daemonAt = "ended" THEN NoPickup ELSE [pickup EXCEPT !.phase = "accepted"]
  /\ daemonAt' = "idle" /\ lock' = "free"
  /\ UNCHANGED <<agent, written, delivered, op, slot, snap, picked, owner, calls, runtimeVars,
                 faultVars>>

\* Mutant: the ledger may have no further letter.
ChooseUnwritten ==
  /\ lock = "free" /\ daemonAt = "idle" /\ Idle
  /\ pickup = NoPickup /\ delivered < MaxLetters
  /\ picked' = delivered + 1 /\ daemonAt' = "chosen" /\ lock' = "daemon"
  /\ Advance(delivered + 1, "uncertain")
  /\ UNCHANGED <<agent, written, delivered, pickup, slot, snap, owner, calls, runtimeVars,
                 faultVars>>

\* The next letter is due and nothing is unresolved.
Choose ==
  /\ lock = "free" /\ daemonAt = "idle" /\ Idle
  /\ pickup = NoPickup /\ delivered < written
  /\ picked' = delivered + 1 /\ daemonAt' = "chosen" /\ lock' = "daemon"
  /\ Advance(delivered + 1, "uncertain")
  /\ UNCHANGED <<agent, written, delivered, pickup, slot, snap, owner, calls, runtimeVars,
                 faultVars>>

\* Mutant: the slot is filled before the cursors know the letter.
ArmNothing ==
  /\ daemonAt = "chosen" /\ daemonAt' = "armed"
  /\ UNCHANGED <<agent, written, delivered, pickup, op, slot, snap, lock, picked, owner, calls,
                 runtimeVars, faultVars>>

\* Cursor and pickup move in one write of the cursors file.
armPickup ==
  /\ daemonAt = "chosen" /\ daemonAt' = "armed"
  /\ pickup' = [id |-> picked, phase |-> "intent"] /\ delivered' = picked
  /\ UNCHANGED <<agent, written, op, slot, snap, lock, picked, owner, calls, runtimeVars,
                 faultVars>>

Fill ==
  /\ daemonAt = "armed" /\ daemonAt' = "idle" /\ picked' = None /\ lock' = "free"
  /\ slot' = Queued(picked)
  /\ UNCHANGED <<agent, written, delivered, pickup, op, snap, owner, calls, runtimeVars,
                 faultVars>>

DaemonDies ==
  /\ crashes < MaxCrashes /\ crashes' = crashes + 1 /\ daemonAt # "idle"
  /\ daemonAt' = "idle" /\ picked' = None /\ lock' = "free"
  /\ UNCHANGED <<agent, fileVars, owner, calls, runtimeVars, interrupts>>

-----------------------------------------------------------------------------
(* A caller of the control plane *)

\* Mutant: the command does not ask whether the session is between turns.
runControlCommandBusy(k) ==
  /\ agent = "claude" /\ lock = "free" /\ calls[k] < MaxCalls /\ snap.live
  /\ calls' = [calls EXCEPT ![k] = @ + 1]
  /\ slot' = IF slot.id = k THEN slot ELSE Queued(k)
  /\ UNCHANGED <<agent, written, delivered, pickup, op, snap, lock, daemonVars, owner,
                 runtimeVars, faultVars>>

\* requireNativeIdle asks the published status and the daemon's own queue.
runControlCommand(k) ==
  /\ agent = "claude" /\ lock = "free" /\ calls[k] < MaxCalls
  /\ slot.id = k \/ (Idle /\ pickup = NoPickup /\ delivered = written)
  /\ calls' = [calls EXCEPT ![k] = @ + 1]
  /\ slot' = IF slot.id = k THEN slot ELSE Queued(k)
  /\ UNCHANGED <<agent, written, delivered, pickup, op, snap, lock, daemonVars, owner,
                 runtimeVars, faultVars>>

-----------------------------------------------------------------------------
(* The owner *)

Last == said[Len(said)]

\* What an owner that opens learns of the turn before it: a Claude owner
\* nothing, the others what the provider recorded last.
Recalled ==
  IF agent = "claude" \/ said = <<>> THEN NoTurn
  ELSE [id |-> Last, status |-> IF running = Last THEN "inProgress" ELSE "ended"]

\* One owner at a time (owner.lock).  A Custom owner holds back when its store
\* has a run that was cut in the middle.
OwnerOpens ==
  /\ ~Connected /\ results' = <<>>
  /\ owner' = [at |-> "idle", turn |-> Recalled, dispatched |-> None,
               held |-> agent = "custom" /\ said # <<>> /\ Last \notin ended]
  /\ UNCHANGED <<agent, fileVars, lock, daemonVars, calls, sent, running, said, ended, faultVars>>

\* A Custom owner that found a run it cannot resume reports itself unavailable.
Publish ==
  /\ Connected
  /\ snap' = [live |-> ~owner.held, turn |-> owner.turn]
  /\ UNCHANGED <<agent, written, delivered, pickup, op, slot, lock, daemonVars, owner, calls,
                 runtimeVars, faultVars>>

\* Mutant: a dispatch that cannot be proved is queued again.
SettledDispatchAgain ==
  IF Known(slot.id) THEN InPhase("accepted")
  ELSE IF agent = "custom" THEN slot ELSE InPhase("queued")

\* What an owner makes of a dispatch that was cut short.  Custom sends it
\* again from where it is.
SettledDispatch ==
  IF Known(slot.id) THEN InPhase("accepted")
  ELSE IF agent = "claude" THEN InPhase("queued")
  ELSE IF agent = "custom" THEN slot
  ELSE InPhase("uncertain")

\* Only Claude's owner compares with what it dispatched itself.
Reconcile ==
  /\ owner.at = "idle" /\ lock = "free" /\ ~owner.held
  /\ slot.phase \in {"dispatching", "uncertain"} /\ SettledDispatch # slot
  /\ agent = "claude" => slot.id # owner.dispatched
  /\ slot' = SettledDispatch
  /\ owner' = IF Known(slot.id) THEN [owner EXCEPT !.dispatched = slot.id] ELSE owner
  /\ UNCHANGED <<agent, written, delivered, pickup, op, snap, lock, daemonVars, calls,
                 runtimeVars, faultVars>>

\* The input in the slot is to be handed over: Custom repeats one that its
\* store does not know.
ToDispatch ==
  \/ slot.phase = "queued" /\ (agent = "claude" => slot.id # owner.dispatched)
  \/ agent = "custom" /\ slot.phase \in {"dispatching", "uncertain"} /\ ~Known(slot.id)

\* Mutant: a second turn is started while the first runs.
TurnPickupBusy ==
  /\ owner.at = "idle" /\ lock = "free" /\ ~owner.held /\ ToDispatch
  /\ slot' = InPhase("dispatching") /\ lock' = "owner"
  /\ owner' = [owner EXCEPT !.at = "dispatching", !.dispatched = slot.id,
                            !.turn = [id |-> slot.id, status |-> "inProgress"]]
  /\ UNCHANGED <<agent, written, delivered, pickup, op, snap, daemonVars, calls, runtimeVars,
                 faultVars>>

\* `dispatching` is on disk before the runtime hears of the input.  Codex also
\* asks its provider whether the thread is idle, and hears of the turn from it.
TurnPickup ==
  /\ owner.at = "idle" /\ lock = "free" /\ ~owner.held /\ ToDispatch
  /\ owner.turn.status # "inProgress"
  /\ agent = "codex" => running = None
  /\ slot' = InPhase("dispatching") /\ lock' = "owner"
  /\ owner' = [owner EXCEPT !.at = "dispatching", !.dispatched = slot.id,
                            !.turn = IF agent = "codex" THEN @
                                     ELSE [id |-> slot.id, status |-> "inProgress"]]
  /\ UNCHANGED <<agent, written, delivered, pickup, op, snap, daemonVars, calls, runtimeVars,
                 faultVars>>

\* The turn goes to the runtime; Custom's harness drops a key it has.
Push ==
  /\ owner.at = "dispatching"
  /\ sent' = IF agent = "custom" /\ Known(slot.id) THEN sent ELSE Append(sent, slot.id)
  /\ owner' = [owner EXCEPT !.at = "pushed"]
  /\ UNCHANGED <<agent, fileVars, lock, daemonVars, calls, running, said, ended, results,
                 faultVars>>

\* A provider that is asked answers when it has begun the turn; Claude's queue
\* takes the input at once.
Confirm ==
  /\ owner.at = "pushed"
  /\ agent # "claude" => Known(slot.id)
  /\ slot' = InPhase("accepted") /\ lock' = "free"
  /\ owner' = [owner EXCEPT !.at = "idle"]
  /\ UNCHANGED <<agent, written, delivered, pickup, op, snap, daemonVars, calls, runtimeVars,
                 faultVars>>

\* The connection to a provider process fails; the provider goes on, and a
\* request in flight may or may not have arrived.
Disconnect ==
  /\ agent \in {"codex", "opencode"} /\ Connected
  /\ crashes < MaxCrashes /\ crashes' = crashes + 1
  /\ sent' \in IF owner.at = "pushed" THEN {sent, <<>>} ELSE {sent}
  /\ owner' = [Off EXCEPT !.at = "reconnecting"] /\ snap' = Unavailable
  /\ lock' = IF lock = "owner" THEN "free" ELSE lock
  /\ UNCHANGED <<agent, written, delivered, pickup, op, slot, daemonVars, calls, running, said,
                 ended, results, interrupts>>

\* Claude's result message names no turn: it ends the current one.
IsMine(i) == agent = "claude" \/ i = owner.turn.id

\* advanceTurn: a terminal message never overwrites a status already reached.
ReadResult ==
  /\ Connected /\ results # <<>>
  /\ results' = Tail(results)
  /\ owner' = IF IsMine(Head(results)) /\ owner.turn.status = "inProgress"
              THEN [owner EXCEPT !.turn.status = "ended"] ELSE owner
  /\ UNCHANGED <<agent, fileVars, lock, daemonVars, calls, sent, running, said, ended,
                 faultVars>>

\* Custom's reconciliation: the run in the slot is over.
RecordTerminal ==
  /\ agent = "custom" /\ owner.at = "idle" /\ ~owner.held /\ lock = "free"
  /\ slot.phase = "accepted" /\ ~slot.terminal /\ slot.id \in ended
  /\ slot' = [slot EXCEPT !.terminal = TRUE]
  /\ owner' = [owner EXCEPT !.turn = [id |-> slot.id, status |-> "ended"]]
  /\ IF slot.id \in Letters THEN Advance(slot.id, "ended") ELSE op' = op
  /\ UNCHANGED <<agent, written, delivered, pickup, snap, lock, daemonVars, calls,
                 runtimeVars, faultVars>>

\* The runtime acknowledges the stop; the turn's own result is still to come.
applyInterrupt ==
  /\ owner.at = "idle" /\ owner.turn.status = "inProgress"
  /\ interrupts < MaxInterrupts /\ interrupts' = interrupts + 1
  /\ IF running = None THEN UNCHANGED <<running, ended, results>>
     ELSE running' = None /\ ended' = ended \cup {running} /\ results' = Append(results, running)
  /\ owner' = IF agent = "claude" THEN [owner EXCEPT !.turn.status = "ended"] ELSE owner
  /\ UNCHANGED <<agent, fileVars, lock, daemonVars, calls, sent, said, crashes>>

\* The owner and its runtime die together.  What was handed over and not begun
\* is in the conversation by then or lost; Custom's store resumes it.
OwnerDies ==
  /\ owner.at # "off" /\ crashes < MaxCrashes /\ crashes' = crashes + 1
  /\ said' \in {said} \cup (IF sent = <<>> \/ agent = "custom" THEN {}
                            ELSE {Append(said, Head(sent))})
  /\ sent' = (IF agent = "custom" THEN sent ELSE <<>>)
  /\ running' = None /\ results' = <<>>
  /\ ended' = IF agent = "custom" THEN ended
              ELSE ended \cup {said'[n] : n \in 1..Len(said')}
  /\ owner' = Off /\ snap' = Unavailable
  /\ lock' = IF lock = "owner" THEN "free" ELSE lock
  /\ UNCHANGED <<agent, written, delivered, pickup, op, slot, daemonVars, calls, interrupts>>

-----------------------------------------------------------------------------
(* The runtime, external: one turn at a time, in the order it was told *)

BeginTurn ==
  /\ owner.at # "off" /\ running = None /\ sent # <<>>
  /\ running' = Head(sent) /\ sent' = Tail(sent) /\ said' = Append(said, Head(sent))
  /\ owner' = IF agent \in {"codex", "opencode"} /\ Connected
              THEN [owner EXCEPT !.turn = [id |-> Head(sent), status |-> "inProgress"]]
              ELSE owner
  /\ UNCHANGED <<agent, fileVars, lock, daemonVars, calls, ended, results, faultVars>>

EndTurn ==
  /\ owner.at # "off" /\ running # None /\ running' = None
  /\ ended' = ended \cup {running} /\ results' = Append(results, running)
  /\ UNCHANGED <<agent, fileVars, lock, daemonVars, owner, calls, sent, said, faultVars>>

-----------------------------------------------------------------------------
Daemon == Repair \/ NoteAccepted \/ SaveAccepted \/ Choose \/ armPickup \/ Fill
Owner == Reconcile \/ TurnPickup \/ Push \/ Confirm \/ ReadResult \/ RecordTerminal
Runtime == BeginTurn \/ EndTurn

Next ==
  \/ Send \/ Daemon \/ DaemonDies
  \/ \E k \in Commands : runControlCommand(k)
  \/ OwnerOpens \/ Publish \/ Owner \/ Disconnect \/ applyInterrupt \/ OwnerDies
  \/ Runtime

\* The daemon's pass, the owner's tick and the lease renewal are periodic; the
\* supervisor restarts an owner; a turn ends.
Fairness ==
  /\ WF_vars(Daemon) /\ WF_vars(OwnerOpens) /\ WF_vars(Publish) /\ SF_vars(Owner)
  /\ WF_vars(Runtime)

Spec == Init /\ [][Next]_vars /\ Fairness

-----------------------------------------------------------------------------
(* Properties *)

TurnsOf == [id: Inputs \cup {None}, status: {"none", "inProgress", "ended"}]

FileType ==
  /\ agent \in Agents /\ written \in 0..MaxLetters /\ delivered \in 0..written
  /\ pickup \in [id: Letters \cup {None}, phase: {"none", "intent", "accepted"}]
  /\ op \in [Letters -> {"queued", "uncertain", "admitted", "ended"}]
  /\ slot \in [id: Inputs \cup {None}, terminal: BOOLEAN,
               phase: {"none", "queued", "dispatching", "accepted", "uncertain"}]
  /\ snap \in [live: BOOLEAN, turn: TurnsOf]

ProcessType ==
  /\ lock \in {"free", "daemon", "owner"} /\ picked \in Letters \cup {None}
  /\ daemonAt \in {"idle", "chosen", "armed", "noted", "ended"}
  /\ owner \in [at: {"off", "reconnecting", "idle", "dispatching", "pushed"},
                turn: TurnsOf, dispatched: Inputs \cup {None}, held: BOOLEAN]
  /\ calls \in [Commands -> 0..MaxCalls]
  /\ crashes \in 0..MaxCrashes /\ interrupts \in 0..MaxInterrupts

RuntimeType ==
  /\ said \in Seq(Inputs) /\ sent \in Seq(Inputs) /\ results \in Seq(Inputs)
  /\ ended \subseteq Inputs /\ running \in Inputs \cup {None}

TypeOK == FileType /\ ProcessType /\ RuntimeType

\* The daemon, the owner and the commands together keep the promise of
\* LetterTurns: in order, one turn per letter, settled only after it was begun
\* (pickup.ts and owned/input.ts on dispatches cut short).
EndedOps == {l \in Letters : op[l] = "ended"}
Turns == INSTANCE LetterTurns WITH
  committed <- delivered, begun <- said, settled <- EndedOps, stopped <- interrupts > 0
LettersTakeTurns == Turns!Spec

\* A letter has one turn in the conversation whatever died on the way, though
\* the dispatch is repeated (nativeInputDelivered, findOwnedCodexReceipt).
OneTurnPerLetter ==
  \A m, n \in 1..Len(said) : said[m] = said[n] /\ said[m] \in Letters => m = n

\* What the message operation calls over is over in the runtime: the daemon
\* decides it from a published status that lags, on terminal messages that do
\* not name their turn.
SettledIsOver ==
  interrupts = 0 => \A l \in Letters : op[l] = "ended" => l \in ended

NativeSafe == TypeOK /\ OneTurnPerLetter /\ SettledIsOver

\* A letter leaves the slot only when its operation is over: neither a repair,
\* nor the next letter, nor a command replaces the one receipt it has.
SlotKeepsLetter ==
  [][slot.id \in Letters /\ slot'.id # slot.id => op[slot.id] = "ended"]_vars

\* "Cursor intent is durable before the mailbox" (nativeRuntime.ts).
CursorsKnowSlot == slot.id \in Letters => slot.id <= delivered

\* Who holds the lock, and what the daemon has in hand: the operations of the letters
\* before the cursor are over, but for the one in the pickup record.
DaemonSound ==
  /\ lock = "daemon" <=> daemonAt # "idle"
  /\ lock = "owner" <=> owner.at \in {"dispatching", "pushed"}
  /\ pickup.id = None <=> pickup = NoPickup
  /\ pickup.id # None => pickup.id = delivered
  /\ \A l \in Letters : op[l] = "ended" => l <= delivered
  /\ \A l \in Letters : l <= delivered => op[l] = "ended" \/ l = pickup.id
  /\ daemonAt \in {"idle", "noted", "ended"} => picked = None
  /\ daemonAt = "chosen" => pickup = NoPickup /\ picked = delivered + 1 /\ delivered < written
  /\ daemonAt = "armed" => pickup = [id |-> picked, phase |-> "intent"] /\ slot.id # picked
  /\ daemonAt \in {"noted", "ended"} =>
       pickup.id # None /\ slot.id = pickup.id /\ slot.phase = "accepted"
  /\ daemonAt = "ended" => op[pickup.id] = "ended"

\* A letter in the slot is the pickup's, or its owner took it; the pickup has left the slot
\* only while it is an intent.
SlotSound ==
  /\ CursorsKnowSlot
  /\ slot.id = None => slot = NoSlot
  /\ slot.id \in Letters => slot.phase = "accepted" \/ slot.id = pickup.id
  /\ pickup.phase = "accepted" => slot.id = pickup.id

InQueue(i) == \E n \in 1..Len(sent) : sent[n] = i

\* The letters of the conversation and of the queue behind it are in order.
Ordered ==
  /\ \A m, n \in 1..Len(said) :
       m < n /\ said[m] \in Letters /\ said[n] \in Letters => said[m] < said[n]
  /\ \A m, n \in 1..Len(sent) :
       m < n /\ sent[m] \in Letters /\ sent[n] \in Letters => sent[m] < sent[n]
  /\ \A m \in 1..Len(said), n \in 1..Len(sent) :
       said[m] \in Letters /\ sent[n] \in Letters => said[m] < sent[n]

\* A letter the runtime has is the cursor's or before it, and will not be handed over again.
HandedOver(l) ==
  /\ l <= delivered
  /\ l = pickup.id => l = slot.id
  /\ l = slot.id => slot.phase # "queued"
  /\ agent = "claude" /\ InQueue(l) /\ l = slot.id => owner.dispatched = l
  /\ agent # "custom" /\ owner.at = "dispatching" => l # slot.id

OwnerSound ==
  /\ owner.at \in {"dispatching", "pushed"} =>
       slot.phase = "dispatching" /\ owner.dispatched = slot.id
  /\ owner.at = "off" => owner = Off /\ (agent # "custom" => sent = <<>>)
  /\ owner.at = "reconnecting" => agent \in {"codex", "opencode"}

FlowSound ==
  /\ Ordered /\ OwnerSound
  /\ \A l \in Letters : InConversation(l) \/ InQueue(l) => HandedOver(l)

\* What the runtime ran was said, and what the results and the slot call over is over.
RuntimeSound ==
  /\ \A i \in ended : InConversation(i)
  /\ running # None => InConversation(running)
  /\ \A n \in 1..Len(results) : results[n] \in ended
  /\ agent # "custom" => \A n \in 1..Len(said) : said[n] \in ended \cup {running}
  /\ slot.terminal => slot.id \in ended

\* A turn that a projection calls over is over, unless somebody stopped one.
TurnTrue(t) ==
  /\ t.status = "none" => t.id = None
  /\ agent # "custom" /\ interrupts = 0 /\ t.status = "ended" => t.id \in ended

\* A result of Claude names no turn, but while nobody stops one a single input is on its
\* way: to the runtime, in it, or back.
OnItsWay(i) ==
  \/ sent = <<i>> /\ running = None /\ results = <<>>
  \/ sent = <<>> /\ running = i /\ results = <<>>
  \/ sent = <<>> /\ running = None /\ results = <<i>>
NothingOnItsWay == sent = <<>> /\ running = None /\ results = <<>>
OneOnItsWay ==
  agent = "claude" /\ interrupts = 0 =>
    /\ IF owner.turn.status = "inProgress" /\ owner.at # "dispatching"
       THEN OnItsWay(owner.turn.id) ELSE NothingOnItsWay
    /\ owner.at = "dispatching" => owner.turn = [id |-> slot.id, status |-> "inProgress"]

TruthSound == RuntimeSound /\ TurnTrue(owner.turn) /\ TurnTrue(snap.turn) /\ OneOnItsWay

\* NativeSafe and CursorsKnowSlot made inductive.
NativeInv == TypeOK /\ SettledIsOver /\ DaemonSound /\ SlotSound /\ FlowSound /\ TruthSound

\* Every letter is settled in the end, except where the code waits for a
\* person: an admission no record proves, a Custom run cut in the middle, and a
\* Claude owner that restarted and no longer knows the turn of its pickup.
LettersSettle ==
  \A l \in Letters : l <= written ~>
    \/ op[l] = "ended" \/ interrupts > 0 \/ slot.phase = "uncertain" \/ owner.held
    \/ agent = "claude" /\ crashes > 0
=============================================================================
