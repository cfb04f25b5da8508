# ccmux: a verification project

ccmux runs coding agents (Claude Code, Codex, OpenCode and custom ones) in tmux
panes or native runtimes on one machine, lets them write to each other, and keeps
a daemon that delivers their mail, heals their sessions and serves a control
socket. This directory holds TLA+ modules that model the parts of ccmux whose
behaviour is hard to test, TLC configurations that check them on small instances
and proofs that TLAPS checks for every value of the constants.

## 1. Inventory

Paths are relative to `src/src/`. "Hard" names what a test would hardly reach.

| component | state | operations | hard | correct when |
|---|---|---|---|---|
| Chat delivery (`chat/deliver.ts`, `deliverApp.ts`, `settlement.ts`, `cursors.ts`, `turnProgress.ts`) | cursors file (delivered, read, pickup barrier per recipient); a copy for the length of a pass | one pass every three seconds over panes and App threads | crash between paste, barrier and save; stale acked set; other writers of the file | no letter skipped or taken twice, order kept, every letter settles |
| Chat files (`ledger.ts`, `ackLog.ts`, `store.ts`) | append-only ledger and ack log | append, append once, scans | records of a newer generation; several appenders | a cursor means what it says |
| Undeliverable sweep (`undeliverable.ts`) | stamp of the last pass | close letters to sessions that are gone | reads two files at two instants | closes only what is gone |
| Stop hook, `msg cancel`, `inbox`, `rm` (`commands/`) | none of their own; append acks, write read cursors | each runs in a process of its own | interleaves with the pass | an ack is true |
| Native dispatch (`chat/nativeRuntime.ts`, `runtime/input.ts`, `control/command.ts`, the owners' input) | cursors, one input slot per session, a message operation per letter, the published status | commit, fill the slot, take it up, settle | owner or daemon dies between two files; a command takes the slot; a lagging status | one turn per letter, settled only when over |
| Native requests (`runtime/mailbox.ts`, `response.ts`, `interrupt.ts`, `agent/claude/native/`) | mailboxes, their receipts, the pending approvals | answer, change mode, rewind, stop a turn | the owner dies between doing and recording; the turn is another when the request arrives | what a caller is told is so; asked twice is once |
| Sleep and wake (`session/sleep/`, `delegation/cancel.ts`) | sleep record, wake journal, stop record | sleep, wake, message, cancel, heal, supervise | callers die anywhere; proofs age; retries arrive late | what sleeps does not run and owes nothing `message.send` accepted |
| Creation (`control/lifecycle.ts`, `session/create.ts`, `pending.ts`, `promotion.ts`, `commands/bootstrap.ts`) | receipt, pending journal, registry file, tmux | create, bootstrap, promote, roll back, read | death between the three writes; retries beside the first attempt | one generation holds a name; a receipt is true |
| Release (`release/update.ts`, `util/bootGuard.ts`) | bundle, backup, digest, attempt counter | update, roll back, guard, revert | death between backup and swap; two updaters | the backup is the predecessor; the machine comes back |
| Content (`content/`) | bounded buffer, coalesced file, reader's cursor | delta, complete, evict, publish, read | readers behind, restarts, resets | what continues a text continues it |
| Attachments (`attachments/`) | index, bytes, pins, tombstones | upload, verify, pin, fork, cancel, expire | cut transactions, decoding outside the lock | accepted images are there |
| Turn watch (`commands/hookStatus.ts`, `events/observe.ts`, `chat/turnState.ts`) | lifecycle stamp, memory of the supervisor | stamp, observe, close, announce | a hook and the supervisor write one file; restarts | a live turn is not closed, a dead one is |
| Event feed (`events/feed.ts`, `inventory.ts`, `util/jsonl.ts`) | rotated file, inventory snapshot | append, rotate, follow, mirror | two writers without a lock; a reader across a rotation | in order, and a mirror is never wrong |
| Mail between machines (`fleet/outbox.ts`, `flush.ts`, `transport.ts`, `remoteAdapter.ts`, `commands/msg.ts`, `commands/receiveChat.ts`) | outbox and its ack log on the sender; receive lock and ledger on the recipient | send by one hop, record, retry for an hour, receive and admit once | a hop that times out while its receiver runs on; a second path; a killed command; one ack for two meanings | kept once, settled only when kept or given up, a queued letter arrives |
| Native context (`context/`) | history mailbox, compaction journal | read a page, compact, see the marker | an uncertain compaction; a marker of another one | compacted once, pages of one revision |
| Steering (`steering/`) | journal of steered turns, input gate | submit, reconcile | lost answer; a death with the gate closed | submitted once |
| Usage (`usage/`, `agent/transcript/transcriptIndex.ts`) | one SQLite file per transcript: index, facts, totals of queries; the daemon's queue and memory of visits | advance by a slice, reset, total, answer, visit, prune | two processes at one index; pages, corrections and windows; a transcript that grows, is cut in a record or replaced | a ready answer is whole and counts nothing twice |
| Fleet reads (`fleet/peerDelta.ts`, `peerRead.ts`, `forward.ts`) | what a peer holds of an answer | pack, unpack, forward | stale digests | a delta rebuilds the whole answer |
| Telegram mirror (`chat/telegram.ts`) | mirror cursor | bounded pass, post, advance | failing post | nothing mirrored out of order |
| Daemon (`daemon/`) | one job per schedule | delivery, healing, usage, observation, update | overlap, errors of one job | a job never overlaps itself |
| Providers (`agent/`) | transcripts, connections, hooks | launch, inspect, interrupt | text of other programs | readiness is never claimed wrongly |
| External observers, inventory views, monitoring, quota, tui, boot, config, util | derived views and glue | read, render | none shared, except the locks of `util` | views follow their sources |

How they meet: the command line, the hooks, the daemon and the owners of native
runtimes are separate processes that share files under the state directory. The
daemon runs its jobs on timers, a job never overlapping itself (`overlap: skip`).
Chat reaches an agent through tmux (paste and Enter), through the Codex App Server
(`turn/start`) or through the input slot of a native session, and the daemon learns
the outcome from transcripts, client ids or a published status, never from the act
of sending. Clients of the control socket repeat their requests under one operation
id, and every operation that writes keeps a receipt of it.

## 2. What is modelled

One module per component. An action is what the code does between two points where
another process can be seen, or where the process may die with its work half done:
each read or append of a shared file, each paste, each call to a provider.

### Chat

`ChatWorld` holds the shared files, the letters, the agents and every process that
is not the daemon; `ChatDelivery` extends it with the delivery schedule of the
daemon. `MCChatDelivery` instantiates them.

State. `ledger`, `acks`, `reg`, and `file`/`disk` are the ledger, the ack log, the
session registry and the cursors file (readable, damaged or absent, and its
content). A letter is its 1-based ledger position; a cursor `c` has consumed the
letters `1..c`, which is the 0-based `idx + 1` of the code. `pane`, `tail`,
`submitted`, `typed`, `held`, `taken` are the recipient's side: what its pane
shows, how its transcript ends, the pane option `@ccmux-chat-submitted`, how often
each letter was submitted, how many copies wait in the composer and how often it
entered the conversation. `mem`, `mLen`, `waiting`, `todo`, `pick`, `batch`,
`sent`, `changed` are the local variables of `deliverPending`.

Steps. A pass reads the ledger, the acks and the cursors in `PassBegin` and
works on those copies; `VisitChosen` passes every gate for one letter and re-reads
the ack of that letter only; `SubmitPane`, `ArmPane`, `SubmitArmed`, `RecordAck`
and `AppArm`, `AppStart`, `AppRecord` are what follows, a step per effect;
`finishPickup` and `FinishSave` are the two halves of a proved pickup; `PassEnd`
saves. `RunThrows` is `CursorsUnreadableError`; `Crash` kills the daemon at any
step and loses its memory. The sweep reads its targets in `SweepBegin`, the ledger
and the cursors in `settleUndeliverable`, and its stamp in `SweepEnd`, as the code does.

Abstractions. Message text, authors, sizes and times are left out. Time enters as
choices: a not-before instant passes when it passes, the rate limit may hold a
recipient that has more letters than its limit, the 15-second hold of a retry may
still be on. `coalesce` is the set of batches the code may build: bounded, and with
the oldest letter in it. Agents, humans and tmux are external and may do anything
their interface allows: take up a submitted copy, run turns of their own, be
interrupted, show a menu, die.

### Mail between machines

`FleetMail` models one sending machine, the machines it writes to and what lies
between them; `MCFleetMail` instantiates it; `MailRelay` is the abstract
specification: a letter is kept at one position for good, and is settled only when
it is kept or was abandoned.

State. `outbox` and `acked` are `outbox.jsonl` and `outbox-ack.jsonl`; `cli[l]` and
`told[l]` are the `ccmux msg` command of a letter and what it told its caller;
`flushing`, `todo` and `conf` are the locals of `flushOutbox` and the configuration
its pass was given; `calls[c]` is the hop a caller (a command, or the daemon) waits
for, with the path it is on, whether ssh is left as a second path, and how often it
ran its command. `recv` are the `_chat-receive-v2` processes, `lock` and `ledger`
the receive lock and the chat ledger of each machine. `open`, `up` and `routes` are
the world: recipients that exist and take chat, reachable machines, the route maps
in `machine.json`. `abandoned` is a history variable.

Steps. `Send` starts a hop (`runPeer` picks the adapter or ssh); `Dispatch` starts
a receiver; `NotSent`, `Refused`, `Cut` and `Answer` are the ways a hop ends, each
with what its caller does with the outcome (`Finish`): a command appends its row
and reports, the flush acks or leaves the letter. `FlushBegin` reads outbox and
acks once, `FlushVisit` handles the next row, a hop at a time. The receiver goes
through validation, lock, look-up and append, a step each, and goes on when nobody
waits for it any more; it may be killed at every step. `CliDies` and `DaemonDies`
kill the sender's processes. Ledger rows of other senders, the conflict of two
letters with one id (ids are unique), failed appends to the outbox and the local
form of `msg` are left out. Commands refused before they send anything are steps
that change nothing.

### A native session and its input

`NativeDispatch` follows a letter to a session whose runtime ccmux owns. `slot` is
`input.json`, `op` the message operation of each letter, `snap` the published status,
`pickup` and `delivered` the cursors file; `owner` is the owner process with its
projection of the turn, and `sent`, `running`, `said`, `ended`, `results` the runtime
it drives. The daemon's step (`chat/nativeRuntime.ts`) is cut at each of its writes:
`NoteAccepted`, `Repair`, the choice of a letter, the arming of the cursors, the slot.
A command of the control plane (`runControlCommand`) takes the same slot. The four
kinds of owner share one module and differ in what they know of a dispatch that was
cut short. `LetterTurns` is the abstract specification: letters are committed one
after the other, begun in order and at most once with commands in between (`begun`), and
settled only after they were begun. Abstracted: the provider child dies with its owner;
the picker of the daemon is "the next letter"; a stopped turn leaves the prompts not begun
in the queue.

`RuntimeRequests` is the other side of a Claude owner: approvals and their answers
(`cmd`, `rcpt`), the requests of the mailboxes (`box`), interrupts (`intr`) and the
queue of its provider. A caller checks a published projection and writes later, so
what it found may be over when its request is applied (`Recheck`).

`Steering` puts text into the running turn of an owned Codex session. `journal` is
`steering.json`, `job` the one process that steers (it holds the admission lock to the
end), `gate` the pane, `items` the text the thread holds. The intent is written before
`turn/steer`; the answer may be lost, the process may die, and `reconcileSteering` looks
among the last turns only (`Window`). What refuses a submission beside the turn (images,
a person typing, a pane that shows something) is one choice.

`NativeContext` is the compaction of a conversation and the pages read from it: `ops`,
`rev` and `last` are `context.json`, `box` the history mailbox, `pump` the single task of
the owner, `marks` the compactions in the conversation, asked for or automatic. `lock`
has the two locks the pump holds over more than one step. The generation of a Claude
operation is that of its registration, so an owner that restarts goes on with it; of a
Codex one it is the connection's, so a lost connection makes it uncertain. Not modelled:
the text of the pages, and the idle check callers of `control/context.ts` make first.

### Sessions

`SessionSleep` is a delegated native session that a parent puts to sleep: `sleep`,
`journal`, `stop`, `owned` and `snap` are the files, `at[c]` the step of each caller
with the sleep record it holds, `heal` the daemon. Nobody signals a process: the owner
leaves when it reads the record, and callers wait outside the lock for the processes
their proof names. `revision[s]` is the proof of idleness a sleep was asked with. A
caller may be cut at any step (`Abort`), and a message of `message.send` (`Letters`)
wakes what sleeps. The other way in is `appendMessage`: `ccmux msg` and a letter from
another machine (`Posts`) are appended to the same ledger without the admission lock and
without a look at the sleep record. A proof of idleness counts them as owed input, but
one that is appended later waits in the ledger of a sleeping session and wakes nobody.

`DelegationLease` is the authority an application lends to its sessions: `row` the file with
its results, `call` and `told` the updates of the backend, which may be repeated or late,
`child` the accepted delegations, a chain of two, and `run`, `input` what they do. `Stopped`
is asked at every launch, input, turn and round. Between the check and what it allows the
code awaits (the choice of a model before an append, the content before a turn) and neither
the clock nor a close takes the lock it holds, so these are two steps:
`acceptControlMessage` and `Accept` (or `AcceptFails`), `pickup` and `Begin`. Left out: a
grant or binding that leaves the configuration (it ends the lease like a close), and clocks
that step back. A child of a cancelled parent may still be resolved, as in the code.

`SessionCreate` is a creation under one name: the receipt, the pending journal, the
registry file, the lock and the tmux session, the call, its bootstrap process and a
reader of the two files. Each of the three writes of a promotion is a step.

`TurnWatch` has the stamp of a session (`life`), the hook that writes it, the
observation pass of the supervisor with its memory (`prev`, `disk`) and what a reader
of the feed believes (`view`). Its clock has as many ticks as the windows need: one
for `SETTLE_MS`, two for `INTERRUPTED_MS`. The events of menus are one flag; native
sessions, which have no stamp, are left out; a hook lives shorter than a tick, and a
closed stamp has the time of the pass that closed it.

### Content, attachments, events, releases

`ContentFeed` is the buffer of an owner (records, states, positions, the eviction in
`trim`), the writer that coalesces snapshots, and a reader with its cursor. A record
carries one unit of text and, as a ghost, where the provider produced that unit.

`Attachments` takes every operation of the store as one transaction under its lock,
with a disjunct for the process that dies between its writes. Decoding happens
outside the lock (`FinalizeRead`, `FinalizeCommit`).

`EventFeed` is the rotated file with two writers that share no lock, a follower that
reads it by offset, and the inventory publisher with its snapshot and a mirror.

`ReleaseGuard` is the bundle of a machine, its backup and digest, the two updaters and
the boot guard. A bundle is a number, with a `fate` on this machine: its passes complete
(`works`), they throw and the daemon lives on (`throws`), or it ends in the end (`dies`),
whatever its passes did before. An update compares what is installed
(`Compare`), downloads and verifies, copies the backup (`Backup`), records its digest and
renames (`Swap`), a step each, and the guard of a daemon that starts may restore the
backup between any two. The check for updates runs after a pass that threw too, with the
counter of starts uncleared (`autoUpdateOnce`); `tries` is a ghost that counts the starts of
the bundle on disk, or is `None` if that bundle was installed by such a daemon.

### Usage

`UsageIndex` is one transcript and its SQLite file. `file` is the transcript, which its
agent appends to (a record may be half written), or another conversation takes over;
`db` has the index, the facts in order of their `seq`, and the totals (`cache`) and fixed
boundary (`fence`) of each query; `call` is the call of the daemon and of a command
line, with the looks it has taken; `queue` the requested queries, `prepared` the memory
of the background pass. `Index`, `Sum` and `Answer` are a transaction each, and another
process may come between any two, or hold the lock over one (`IndexBusy`, `SumBusy`).
A Claude fact replaces what was said of its message, a Codex fact is a running total of
which the growth counts. `fresh` is a ghost (see the divergences).

### Several components in one configuration

`MCNative`, `MCAlways` and `MCEventually` check components that share no state. Each
run picks one of them in its initial state (`part`) and stays in it; the variables of
all but the first component are a pool `p1`, `p2`, ... that the chosen component's
module is instantiated over, so the state space is the sum of theirs and not the
product. A property of such a run is a conjunction of `part = ... => P` over the
components, and `In...` says that a step of one leaves the rest of the pool alone.

## 3. The runs

| run | instance | checks |
|---|---|---|
| Claude | one Claude session, 2 letters (immediate, deferred), `inbox`, a cancel, a crash | `TypeOK`, `NoSilentSkip`, `RepeatsAreFaults`, `InOrder`, `DeliveredIsTrue`, `DeliveryInv`, `CursorsForward` |
| ClaudeLive | the same mail, a crash, a death of the agent or hook, fairness | `EveryLetterSettles` |
| Codex | one Codex pane, 2 letters (immediate, deferred, of a newer generation), a death, a crash, an upgrade | `DeliveryInv` (it implies `TakenOnce`), `BarrierFirst`, `EveryLetterSettles` |
| App | one App thread, 2 letters (immediate, timed), a lost answer, a crash, a lost or damaged cursors file | `PickupSafe`, `DeliveryInv`, `BarrierFirst`, `EveryLetterSettles` |
| Fleet | two machines, a letter to each, one of them to an App thread; two receivers; adapter and ssh, one path each, or a machine in no map; one fault, one death, one change | `TypeOK`, `KeptOnce`, `RunsOnce`, `SettledIsTrue`, `IsRelay`, `QueuedArrives` |
| Native | each kind of owner, 3 letters, a command called twice, 2 crashes, an interrupt; or an approval with 2 turns and a death; or two steered texts over 3 turns and 2 deaths; or a compaction over 2 connections and 2 markers | `NativeSafe`, `CursorsKnowSlot`, `LettersTakeTurns`, `SlotKeepsLetter`, `LettersSettle`, `AnswersTrue` |
| Always | eleven components, each on its own instance | `TypesOK`, `SleepSafe`, `SleepAnswers`, `OperationsOnce`, `CreatesTrue`, `RestoresTrue`, `FeedsTrue`, `PinsHold`, `TurnsKept` |
| Eventually | eight components under fairness | `SleepEnds`, `RequestsEnd`, `MachineComesBack`, `ReadersSettle` |
| SweepRace, CloseRetried, NewTurnClosed, CreateStuck | minimal instances | one claim each, which the code does not keep |

What the properties say:

* `NoSilentSkip`: the cursors file never leaves an undelivered immediate letter
  behind its cursor, unless that letter is the standing barrier.
* `RepeatsAreFaults`: a Claude pane gets a letter again only after a crash or loss.
* `InOrder`: immediate mail arrives in ledger order.
* `DeliveredIsTrue`: a `delivered` ack is true, except for a Stop hook that dies.
* `PickupSafe`: these, and `TakenOnce`: with its cursors intact, a recipient whose
  pickup is proved takes a letter up once.
* `DeliveryInv`: the whole inductive invariant behind these (section 4).
* `BarrierFirst`: no Codex submission without its durable barrier.
* `CursorsForward`: two writers of one file never move a cursor back.
* `EveryLetterSettles`: every letter to a session that exists settles.
* `KeptOnce`: a letter is in its recipient's ledger once, though receivers of one
  letter overlap (a hop that timed out leaves its receiver running).
* `RunsOnce`: one hop runs its command once; ssh is a second path only for a call the
  adapter did not dispatch.
* `SettledIsTrue`: what the sender's files call accepted is in the ledger, or was
  given up by a flush.
* `IsRelay`: all of `FleetMail` refines `MailRelay`.
* `QueuedArrives`: a letter whose sender was told it is queued arrives while its hour
  lasts, unless it is abandoned; for managed recipients.
* `LettersTakeTurns`: `NativeDispatch` refines `LetterTurns`, though the dispatch is
  repeated after a death and commands share the slot.
* `NativeSafe`: a letter has one turn in the conversation, and what its operation
  calls over is over in the runtime, unless a person stopped a turn.
* `SlotKeepsLetter`: no repair, command or later letter replaces the slot of a letter
  whose operation is not over. `CursorsKnowSlot`: the cursors know it first.
* `LettersSettle`: every letter settles, except where the code waits for a person.
* `AnswersTrue`: an approval is answered once, and what the answer is told is so; a
  steered text enters at most once, and only the turn it named, "submitted" is true and
  stays, and the pane hears again unless a process died (`SteeringSafe`); a compaction
  is asked for once, is complete only by a marker that was not there, resets readers
  before it says so, and keeps out of the way of input (`ContextSafe`).
  It also has the inductive invariants of the dispatch, the requests, the steering and the
  compaction.
* `TypesOK`: the types of the eleven components and the invariants behind the proofs.
* `SleepSafe`: a session that is to sleep owes nothing that `message.send` accepted and
  has no turn in hand (an appended letter may wait), and while the record says
  `sleeping` nothing executes. `SleepAnswers`: a wake moves the sleep its record
  names, and nothing executes when a caller is told that the session sleeps.
* `OperationsOnce`: one generation holds a session name, whatever dies between the
  writes; a request of a mailbox runs once while its receipt is there; an update of a
  lease is told one result, keeps a place for a close, passes no deadline, and children
  only narrow what they inherit.
* `CreatesTrue`: a creation told failed is absent, one told complete is there, and a
  reader of the two files misses no session.
* `RestoresTrue`: a bundle that is replaced is in the backup, and is not the one that
  replaces it unless the guard put another back during the download; a turn begins in the
  mode of the completed request, whatever restarted in between; nothing brings back a
  lease or a child that ended, nothing is launched in it, and its input moves only if it
  had asked before the end: what is accepted after the end is never begun.
* `FeedsTrue`: a reader of content or events holds what was written, in order; an open
  request survives a flood of text; a mirror is never wrong about its sequence; a page
  of history is its reader's own and of the revision its cursor names; totals kept up by
  additions and corrections are those of a pass over the ledger (`SumsTrue`), an answer
  that calls itself ready leaves out nothing it is about and counts nothing twice
  (`ReadyIsTrue`), and a source the daemon passes over is read (`PassedOverIsRead`).
* `PinsHold`: accepted images can be handed over, pins keep their bytes, acknowledged
  chunks are there, what was cancelled is gone.
* `TurnsKept`: a turn seen working has its whole window before it is closed, and a
  prompt that joins it does not move its start.
* `SleepEnds`: a stop, the end of a lease and a cancel end every process for good, and
  no message of `message.send` waits for ever; of appended letters it says nothing. With
  a cancel in between, `SleepInv` holds too.
* `RequestsEnd`: a failed creation leaves nothing running in the end, and a message
  whose client keeps trying is accepted with its image.
* `MachineComesBack`: a machine left to itself comes back again and again to a bundle
  that completes its passes (`Running`) or lives on though they throw (`Up`), unless the
  file is gone or nothing on disk or in the backup survives (`Lost`); and a bundle is not
  reverted before the last of its own starts, unless it was installed by a daemon without
  a completed pass and carries the starts of that one.
* `ReadersSettle`: a reader of the content feed catches up, and a reader of the event
  feed does not believe for ever in a turn that is over; a query that was told
  "building" is completed, unless the transcript ends in half a record (`UsageIndex`).

Bounds. Two letters give each race of the chat its parties: one in flight and one behind it,
or one of each track; `NativeDispatch` has three, since the slot, the pickup and the ledger
can each hold another. One crash, death or loss can strike at every step, and the second of
the same kind meets the state the first one can leave; where that matters (`Native`,
`SessionCreate`) there are two. `MAX_BATCH` and the rate limit bind. In `Fleet` two
receivers are the one a broken hop left behind and the one of the retry; a single fault
covers a cut, a kill of a receiver, a lock not obtained, a machine going down or a refusal,
at any step; a change closes a recipient or edits the route maps between a send and its
retry. In `SessionSleep` two sleeps, a wake, a message and an appended letter meet over two
processes (`Always`), and a sleep, a message and a cancel over three (`Eventually`): a
retried sleep can arrive after the wake of the one it repeats. The theorem has all of them
at once. `ContentFeed` has a buffer of two records and one item for more text than that, so
eviction, gaps and position loss all happen (its owner restarts in `Eventually` and in the
theorem only); `EventFeed` has two instances: two writers, two sessions and two daemons in
one file, and one session whose every event rotates the file, with three generations and a
write that fails; `ReleaseGuard` three versions and the attempts of the code, with every
fate in `Eventually` (in `Always` only works or dies, since a bundle that dies may do all
that one whose passes throw does); `TurnWatch` a clock that passes both windows once, and
one stop, restart or failed write at any step; `Attachments` two uploads of one image, so a
pin can name either, and two expiries; `Steering` a journal that fills up and a window
shorter than the thread; `DelegationLease` two renewals for one place, two policies, input
to one child (`Addressed`), and a clock that passes the lease and the deadline;
`NativeContext` input, two connections and a marker from before the operation (`Native`),
two readers of pages (`Always`). The two sleeps of `Always` are symmetric. Data that is not
compared (texts, digests, times) is one value.

`UsageIndex` has three records of which one can be corrected, a slice
of a record and a half, pages of one contribution, a transcript that is replaced once, in
its own file or in another, and places for two queries or one. In `Always` three changes of
the transcript meet one disturbance (a read of a client, a step of the second process, a
prune or a restart of the daemon); two of them together are left to `UsageAlwaysTrue`,
which has no bound on either. A record is two units of size, every change has a time of its
own, and two conversations begin differently.

Fairness. Chat: the daemon's schedule runs every three seconds, so a step it
can take is taken; a retry allowed again and again is made (strong fairness of
`PickupRetry`, since its 15-second hold is counted from a fixed instant); the
supervisor restarts panes, turns end, menus are left, hooks finish, agents take up
what is in their composer, time passes and an operator repairs a damaged file.
`EveryLetterSettles` assumes nobody but chat drives the recipients from some point
on, since a pane a human keeps busy holds its mail by design, and that a Codex
agent does not die: the barrier of a turn that dies with its agent is never
answered, and no code path ends it. Fleet: the flush runs with every delivery pass,
a hop has a deadline and so ends, a receiver that is not killed goes on, machines come
back and closed recipients are opened again. Nothing is assumed of commands, which may
never be run, and the hour may end at any moment (`Age`), which `QueuedArrives` excuses.

Native: the daemon's pass, the tick of the owner and its lease renewal are periodic, the
supervisor restarts an owner, a turn ends. The owner's steps need strong fairness: it skips
a tick while another holds the lock, and the lock is free again and again. `SessionSleep`:
heal, turns and the owner's loop as above; a client repeats a message until it is answered,
and a budget is long enough now and then (strong fairness of the steps of one message).
`SessionCreate`: the processes of a creation go on, and a tmux session whose program ended
goes. `ReleaseGuard`: the boot unit relaunches, the schedule of the daemon goes on, and a
bundle that dies by itself does so in the end (one whose passes throw lives on:
`daemon/application.ts:304` catches the error). `ContentFeed`, `Attachments`, `TurnWatch`,
`DelegationLease`: writers, owners, readers, hooks, passes and clocks go on, and the client
of an upload keeps trying. `UsageIndex`: the tick of the daemon goes on and takes the
requested queries in turn (`usage/observation.ts:32`), so each of them is tried again and
again (strong fairness).

Divergences with a run:

* SweepRace: the sweep's targets are older than the ledger it reads.
* CloseRetried: the pass remembers a turn as closed though the write of the closed
  stamp failed, so it is never tried again (`events/observe.ts:334`, against 360).
* NewTurnClosed: the stamp that is closed is whatever stands there, not the one that
  was observed (`events/observe.ts:357`, against 351).
* CreateStuck: a call that dies between the reservation and its bootstrap leaves a
  pending row nobody owns; every retry answers "retry the same request".

Divergences the models have and no run is spent on:

* After the cursors file is lost, `armedCursors` covers managed recipients only
  (`chat/cursors.ts:42`): the mail of an App thread is submitted again.
* The settled check is made for the picked letter, not for its passengers
  (`chat/deliver.ts:270`), so a deferred letter can travel into a working pane
  (`chat/messageSchema.ts:44` says it waits); passengers are not re-read either.
* The Stop hook acks before it emits; the sweep's stamp is newer than what it swept; an
  old build moves its cursor over records of a newer generation (`Excused`).
* `msg` writes its outbox row after the hop (`commands/msg.ts:304`), so a command killed
  during a hop that fails leaves nothing to retry; a letter to an App thread is told
  queued and every flush skips it (`fleet/flush.ts:119`); the ack of a letter that
  was given up reads as acceptance in `msg sent` (`flush.ts:126`). Rows that are skipped
  or fail keep their places of a flush, so with more than `MAX_PER_TICK` of them the
  letters behind wait out their hour (the reason `Fleet` has as many places as letters).
  A letter its sender was told is refused stays a candidate and may arrive later.
* A command repeated after another input took the slot is dispatched again
  (`control/command.ts:59`): the slot is the only receipt it has.
* `delegation.cancel` answers from the process evidence it finds, so a first attempt
  without any can answer before the process is gone (`delegation/cancel.ts:117-145`;
  `docs/architecture/delegation-and-sleep.md:45` promises release evidence).
* `boot-attempts` counts starts of the machine, not of a bundle (`util/bootGuard.ts:56`):
  starts of one bundle are held against one installed by hand after it, and against one
  the daemon installs by itself after a pass that threw, since the check for updates runs
  nevertheless and the counter was not cleared (`daemon/application.ts:298-310`). Such an
  update also takes a dying bundle for the predecessor. A bundle whose passes throw
  without ending the daemon is never reverted.
* "Reinstalling what is already installed would overwrite the backup with the live bundle
  and lose the actual predecessor" (`release/update.ts:300`): the comparison precedes a
  download of up to 120 seconds, and the guard takes no lock (`util/bootGuard.ts:82`). If
  it puts the same bundle back meanwhile, backup and bundle are one. For a staged build
  the recorded digest is of what was compared, so a rollback may refuse.
* "Close, expiry ... stop new input" (`docs/architecture/delegation-and-sleep.md:79`): an
  input that asked before the end (`control/message.ts:170`) is appended after it (216);
  a turn whose content is being read (`agent/claude/native/pickup.ts:158`) is begun after it.
* A letter of `ccmux msg` (`commands/msg.ts:96`, `commands/receiveChat.ts:99`) to a sleeping
  session stays in its ledger until something else wakes it.
* A steering journal is never pruned (`steering/service.ts:85`): after 256 operations a
  session refuses every further one; a death between the two calls of the gate leaves
  the pane deaf.
* A compaction whose Claude owner died before its marker stays unresolved and holds the
  session's mail until some marker appears (`context/pump.ts:146`).
* A history request that arrives while the pump is still on an abandoned one wakes
  nobody (`context/pump.ts:26` starts no second pass, and the wake is consumed), so it may
  wait out its deadline.
* The size and the beginning of a transcript are taken before the write lock
  (`agent/transcript/transcriptIndex.ts:269`, against 278): a process that waited with an
  older look finds the index past its size, takes the file for another one and starts the
  index again, though the file only grew. A "ready" answer may be short across such a
  reset (what `fresh` excuses in `ReadyIsTrue`).
* A transcript written over in place with another size is answered "ready" for a past
  window from the old index until its next slice (`usage/file.ts:149`), where
  `docs/architecture/usage.md:152` says that replacing the file invalidates the boundary.
* With more queries asked for than there are places, a completed total may lose its place
  before it is answered (`usage/aggregate.ts:142`), so one asked for ever may starve; the
  runs bound the reads of clients.
* A follower that is between two looks when the file rotates goes on with the new file
  (`util/readLines.ts:179`); the inventory snapshot is how a consumer recovers.

## 4. Proofs

Eight modules hold theorems, for every value of the constants. In each the argument is
one inductive invariant, a conjunction of named parts that stands in the component's
module: a lemma per action shows that `TypeOK` is kept, a lemma per action (or per part)
that the rest is, and the theorems of the table follow from it. TLC checks the same
invariants in the runs, so what is proved is known to hold of states that occur.

| module | invariant | theorems on it |
|---|---|---|
| `ChatDeliveryProofs` | `TypeOK`, `DeliveryInv` | `TypeCorrect`, `SkipInductive`, `NeverSkipped`, `OrderInductive`, `InOrderAlways`, `DeliveredAlwaysTrue`, `AheadInductive`, `AlwaysForward`, `AlwaysBarred`, `OnceInductive`, `PickupAlwaysSafe`, `RepeatsInductive`, `RepeatsAlwaysFaults`, `DeliveryInductive` |
| `FleetMailProofs` | `FleetInv` | `TypesAndHops`, `RunOnce`, `FleetInvariant`, `KeptOnceAlways`, `SettledAlways`, `ImplementsRelay` |
| `NativeDispatchProofs` | `NativeInv` | `NativeInductive`, `NativeIsSafe`, `CursorsAlwaysKnow`, `SlotKeeps`, `ImplementsTurns`; `AnswersAlwaysTrue` of the four sides of `MCNative` |
| `OwnerProofs` | `RequestsInv`, `SteeringInv`, `ContextInv` of the owner of a native session | `AsksTypes`, `RequestsInductive`, `AnswersAlwaysTold`, `AskedTwiceAlwaysOnce`, `TurnsAlwaysInMode`; `SteeringInductive`, `SteeringAlwaysSafe`; `ContextInductive`, `ContextAlwaysSafe` |
| `ComponentProofs` | `CreateInv`, `LeaseInv`, `UploadsInv`, `WatchInv`, `ReleaseInv` | `CreateTypes`, `CreateInductive`, `AlwaysOneHolder`, `CreatesAlwaysTrue`; `LeaseTypes`, `LeaseAlwaysSafe`, `EndedAlwaysStays`; `UploadsInductive`, `PinsAlwaysHold`; `WatchInductive`, `TurnsAlwaysKept`; `ReleaseInductive`, `PredecessorAlwaysKept` |
| `FeedProofs` | `EventsInv` of `EventFeed`; one history of `ContentFeed` | `EventsInductive`, `FeedInOrder`, `MirrorAlwaysTrue`; `ContentInductive`, `RequestsAlwaysSurvive`, `ReaderAlwaysTrue` |
| `UsageProofs` | `UsageInductive`, from which `UsageInv` follows | `UsageInvariant`, `UsageAlwaysTrue` |
| `MCAlwaysProofs` | `SleepInv`; `PartInv`: the invariant of the component a run is in | `SleepInductive`, `SleepIsSafe`, `SleepAnswersTrue`; `PartsInductive`, `OperationsAlwaysOnce`, `CreatesAreAlwaysTrue`, `PinsAreAlwaysHeld`, `RestoresAlwaysTrue`, `TurnsAreAlwaysKept`, `TypesAlwaysOK`, `FeedsAlwaysTrue` |

Chat. `TypeOK` holds more than types: cursors and pickups lie in the ledger, and a letter
is in hand exactly between its choice and its record.

* `SkipInv`, for `NoSilentSkip`. The property speaks of the file; a step that saves makes
  the file what the daemon holds, so it must hold of that copy too while a pass is on. The
  rest makes that inductive: the barrier of an immediate letter is behind its cursor (so
  finishing it moves no cursor), the cursor of a picked immediate letter is one short of
  it and no barrier stands (so arming hides that letter only), the letters scanned at the
  start are conditional, and every copy taken or waiting was submitted (so an App client
  id proves a submission). What was received or excused stays so (`Grow`, `Keeps`); sound
  cursors carry over any such step (`Carry`); the catch-up of `nextDelivery` (`CatchUp`),
  arming (`ArmSound`) and dropping a received barrier (`DropBarrier`) keep them sound.
* `OwnInv` and `SubmittedInOrder`, for `InOrder` and `DeliveredIsTrue`: barriers, the
  letter in hand and the batch of a Stop hook are their recipient's, and before a
  submitted immediate letter every earlier one was received or excused. That the next
  one is chosen only then is what `NoSilentSkip` of the copy in force says.
* `AheadSound`, for `CursorsForward`: `inbox` and the sweep write the file during a pass,
  and only what that pass's copy is ahead of; `BarrierFirst` needs beside it that the
  barrier of the copy is the barrier of the file once it was saved (`HandSound`).
* `OnceSound`, for `TakenOnce`: one letter has one copy (`OneCopy`), a copy is watched by
  a barrier, a cursor or its ack (`CopiesWatched`), a composer holds only what a barrier
  stands for (`ComposersBarred`), and the letter in hand is fresh (`HandFresh`).
* `RepeatsSound`, for `RepeatsAreFaults`: a paste the cursors in force do not cover is
  paid for by an earlier fault; a pass whose save will fail has spent one already (`Spent`).

Fleet. `FleetInv` has three parts. `Hops`: a hop that is open ran its command once, and a
receiver somebody waits for belongs to that caller's open hop and to its letter; this
gives `RunsOnce`, and makes an answer an answer about the right letter. `Locked`: between
look-up and append a receiver holds the lock of its machine and the letter is absent, and
a positive verdict is about a stored letter; this gives `KeptOnce`. `Files`: a letter has
one row, written when its command ended, and a row still to visit is failed and not
acked; this makes every recorded outcome a step of the relay from the right verdict.
`RelayStep` maps every action: an append to `Keep`, a first row to `Queue` or `Settle`, an
ack to `Settle` or `Abandon`, and everything else to a stutter.

Native dispatch. `DaemonSound`: who holds the lock and what is in hand; the operations
before the cursor are over but for the pickup's. `SlotSound`: the slot is the pickup's, or
its owner took it. `FlowSound`: what is in the conversation or the queue was handed over,
in order, and a dispatch under way is of the slot. `TruthSound`: a published or projected
turn that is called over is over, and one that is not is on its way. The last is why the
owner's restart needs care: its projection is rebuilt from the conversation, and a status
published before the death is still on disk. `ImplementsTurns` maps a commit, a turn that
begins and a settlement of the letter at the cursor to the actions of `LetterTurns`
(`begun` there is the order in which letters and commands had their turn), and every other
step to a stutter.

Sessions. `SleepInv` adds to `SleepSafe` that the process a record names was started,
and, while a sleep is only requested, is the last one (`RecordSound`); that a call waits
for the process of its record, which stays gone once seen gone, and a wake holds the sleep
of its journal (`CallsSound`). A letter that is appended beside the lock changes none of
this (`PostSound`): it is not of `message.send`, and nobody takes it up while the record
blocks. `CreateInv` says where each call may rely on its
reservation, which receipts are final, and what a reader between its two reads has seen or
will see; the order of the two reads is what makes `ReaderSound` inductive. `LeaseInv` adds
to `LeaseSafe` that an answer told is the journal's and that parents are created first.
`RequestsInv` follows an answer through five places (caller, file, hand, provider,
receipt): it is given once because its receipt is written before, and told `submitted`
only after; a mode completed in the mailbox is the mode a restarted owner restores before
a turn (`ModeHeld`).

Smaller components. An accepted message has a pin, a pin has the one retained record of
its reference, and that record has its bytes; a reap takes none of them (`Reaped`). The
process that steers goes on to submit only what the journal does not know, and the intent
is in the journal before the text can be in the thread. What the supervisor remembers of a
pane is what its file says, so a restart loses nothing a window is counted from. A revert
of the boot guard, which takes no lock, may come between the comparison of an update and
its backup, and the backup is then of what the guard put there; from the backup to the
rename the backup is the bundle on disk, so a revert there changes nothing, and
`PredecessorAlwaysKept` holds.
A compaction is asked for by a pump that holds the admission lock and a "dispatching"
operation nobody asked for yet (`PumpSound`); the marker in its hand is in the conversation
and newer than the operation it completes (`MarkerSound`); a request keeps the cursor of its
reader through the mailbox, the pump's hand and a late answer that overwrites a newer
request (`ReadersSound`).

Event feed. `FilesSound`: the generations of the file hold the events in the order they
were written, each at the place its number gives, and a rotation shifts them without a
change of that. `ReaderSound`: what a follower still has to read is newer than what it
read. `EventsSound`: an event says what its change did, or was lost and is counted as
lost. `RowsSound` and `PublisherSound`: rows of the inventory only grow in revision, and
what the publisher compares with is what it published last. `MirrorsSound` is the mirror
against all events that the reader has read; it is a fold over them, and `MirrorAlwaysTrue`
goes by induction over their number (`WFMin`, the least counterexample).

Content feed. The files of a feed forget: records fall off the front, rows are evicted,
snapshots are overwritten. The proof therefore speaks of a history nobody stores: there
is a sequence `h` of every record the owner ever published (`ContentOK`), and the records
of the buffer, of the snapshot being written, of the file and whatever the reader applied
are all parts of it (`Linked`, `Copied`, `ReaderOK`), as each row of a baseline is what
`h` says of its item up to that point (`Shown`); the text of the history is the text of the provider
(`TextTrue`). `h` is quantified in the invariant, so no action has to keep it and TLC
does not check it; what TLC checks is what follows, `ReaderTrue`, `AppendsContinue` and
`RequestsSurvive`. The last holds for all bounds, since eviction passes over an open
request while a text is left. The other two ask `Cardinality(Texts) <= MaxPositions`: the
buffer remembers the positions of 256 items (`rememberPosition`, `content/buffer.ts:227`),
and a text that is continued after 256 others were begins again at offset 0 of revision 1,
which a reader that kept the earlier part takes for something else. TLC finds that with
two texts and one position, so the hypothesis cannot be dropped; a text would have to
stay open without a delta for as long as 256 other items take.

Usage. An index is known by the look it was made from: two looks at one time are one, and
a call learns whether its look is an old one, so a fresh one has an index of this very
file. The facts of the index are those of the lines it read, put one by one (`FactsAre`,
`FactsConcat` for slices); the totals are sums of what the facts weigh, and a page, an
appended fact and a corrected one each change a sum by their contribution (`AddedIs`,
`UpdateAppend`, `UpdateReplace`). What is expected of the lines is defined with nothing
of an index, and `FactsWeigh` shows that the facts weigh just that, for a count of each
message and for a running total. All of it is a recursion over lines or facts, with
`SetInduction` for the step, proved from the naturals.

Several components in one configuration. `PartsInductive` glues the components of
`MCAlways`: a step of the chosen one is a step of its specification over its share of the
pool, which keeps its invariant, and no other part has anything to keep. The properties
of the run follow part by part, so that the formula the run checks is the one proved.
`AnswersAlwaysTrue` does the same for the four sides of an owner in `MCNative`.

Assumptions. The three of `ChatWorld` (the kinds of recipients are disjoint, letters are
letters, bounds are naturals), the three of `FleetMail` (every letter has a machine, the
daemon is not a letter, route maps are route maps), `DispatchAssumption` and
`SleepAssumption` (ids of different kinds differ, bounds are naturals) are `ASSUME`s. The
other modules state theirs as `ConstantsOK`, a hypothesis of each theorem, which TLC
evaluates for the instances of `MCAlways` and `MCNative` (`UsageIndex` among them): `None`
is no value of what it stands for, kinds of ids are disjoint, bounds are naturals. None of
them bounds a set, but for the texts of `ReaderAlwaysTrue` (above).

Model-checked only. Of the safety properties, `ReleaseGuard` when a bundle is reverted.
Induction over the naturals is within reach (both feeds and usage have it), but only by a
least counterexample written out, as the induction theorems of the library take an
operator. Liveness under fairness is out of
reach: `EveryLetterSettles`, `QueuedArrives`, `LettersSettle` and the properties of
`Eventually`.

## 5. Not modelled

* Rendering and wording: the terminal UI, the command-line reports, the notes of the
  supervisor, the summaries of `monitoring`. They read what other
  components hold and write nothing the program decides on.
* Text of other programs: pane classifiers, transcript readers and pickers of the
  providers. What they find is a choice of the environment in every model; whether a
  regular expression recognises a screen is a question for tests over recorded screens.
* The protocol schemas (`control/schema`) and the configuration parsers: pure checks
  of shapes, without state.
* The protocol of the Codex App Server beyond the calls chat and owners make, and the
  external observers, which read sessions other programs own.
* Platform glue: unit files, service managers, process invocation.
* The acceptance and probe scripts of `scripts/`, which drive real providers.
* Planned and not yet written: the fill of `chat/coalesce.ts` against its bounds, the
  pure part of `chat/turnState.ts`, the Telegram mirror and `fleet/peerDelta.ts`.
