----------------------------- MODULE ChatWorld ------------------------------
(***************************************************************************)
(* What the chat delivery daemon of one machine works in: the files it     *)
(* shares with other processes, and those processes.  ChatDelivery adds    *)
(* the daemon itself.                                                      *)
(*                                                                         *)
(* Letters are appended to a shared ledger; the daemon's delivery schedule *)
(* (daemon/application.ts) sweeps letters whose recipient is gone and then *)
(* makes one delivery pass over the recipients.  Beside it run processes   *)
(* the daemon does not control: senders, `ccmux msg cancel`, `ccmux inbox`,*)
(* the Stop hook of every Claude session, and the agents themselves.       *)
(* They meet in four files: the ledger, the ack log, the session registry  *)
(* and the cursors file.                                                   *)
(*                                                                         *)
(* A letter settles on one of two tracks (chat/settlement.ts):             *)
(*   immediate    in ledger order, by the recipient's delivered cursor;    *)
(*   conditional  (deferred or not-before) by its id in the ack log.       *)
(* A letter is identified by its 1-based ledger position, so a cursor c    *)
(* has consumed the letters 1..c.                                          *)
(***************************************************************************)
EXTENDS Naturals, Sequences, FiniteSets

CONSTANTS
  HookPane,        \* Claude sessions: a tmux pane and a Stop hook
  TranscriptPane,  \* Codex panes: pickup is proved by the transcript
  App,             \* Codex App threads: pickup is proved by the client id
  Mail,            \* the letters senders may write
  FirstBuild,      \* "new" when the daemon starts as a build that reads them all
  MaxLedger,       \* bound: letters in the ledger
  MaxBatch,        \* MAX_BATCH of chat/coalesce.ts
  MaxPerPass,      \* MAX_PER_PASS of chat/deliver.ts
  Inboxes,         \* sessions that run `ccmux inbox` on themselves
  MaxCancels,      \* bound: letters a sender withdraws
  RateMax,         \* RATE_MAX_INBOUND of chat/rateGuard.ts
  MaxCrashes,      \* bound: daemon crashes and restarts
  MaxDeaths,       \* bound: agent processes and hooks dying
  MaxLosses        \* bound: times the cursors file is damaged or deleted

Managed == HookPane \cup TranscriptPane
Recipient == Managed \cup App
Ids == 1..MaxLedger
Letter == [to: Recipient, defer: BOOLEAN, timed: BOOLEAN, newer: BOOLEAN]
\* Cursors into the first n letters; a pickup of 0 is no pickup.
Cursors(n) == [delivered: [Recipient -> 0..n], read: [Recipient -> 0..n],
               pickup: [Recipient -> 0..n]]

ASSUME KindsDisjoint ==
  /\ HookPane \cap TranscriptPane = {} /\ Inboxes \subseteq Managed
  /\ Managed \cap App = {}
ASSUME MailAssumption == Mail \subseteq Letter /\ FirstBuild \in {"old", "new"}
ASSUME BoundsAssumption ==
  /\ MaxLedger \in Nat \ {0} /\ MaxBatch \in Nat \ {0} /\ MaxPerPass \in Nat \ {0}
  /\ RateMax \in Nat /\ MaxCancels \in Nat /\ MaxCrashes \in Nat /\ MaxDeaths \in Nat /\ MaxLosses \in Nat

VARIABLES
  \* files every process shares
  ledger,     \* the append-only ledger
  acks,       \* the ack log, as the outcome a reader derives for each id
  reg,        \* the session registry
  file,       \* the cursors file: readable, damaged or absent
  disk,       \* its content while it is not absent
  \* recipients
  due,        \* timed letters whose not-before instant has passed
  pane,       \* what the pane (or App thread) shows
  tail,       \* whether a Codex transcript ends in an answer or inside a turn
  submitted,  \* the pane option @ccmux-chat-submitted
  typed,      \* per letter: times it was submitted to its recipient
  held,       \* per letter: submitted copies the agent has not taken up yet
  taken,      \* per letter: times it appears in the conversation
  hookPc, hookBatch,  \* the Stop hook process of each Claude session
  cancelling, \* letters a cancel has read as pending and is about to tombstone
  cancels,    \* how many there were
  \* the daemon
  pc, mem, mLen, waiting, todo, pick, batch, sent, changed,
  live, seen, \* settleUndeliverable: targets read, stamp of the last pass
  build,      \* whether this build reads records of the newer generation
  \* history and bounds
  skipped,    \* letters stepped over by armed cursors
  closed,     \* immediate letters the undeliverable sweep closed
  crashes, deaths, losses

fileVars   == <<ledger, acks, reg, file, disk>>
copyVars   == <<typed, held, taken>>
agentVars  == <<due, pane, tail, submitted, copyVars>>
hookVars   == <<hookPc, hookBatch>>
cancelVars == <<cancelling, cancels>>
passVars   == <<mem, mLen, waiting, todo, pick, batch, sent, changed>>
sweepVars  == <<live, seen>>
faultVars  == <<crashes, deaths, losses>>
histVars   == <<skipped, closed>>
cliVars    == <<hookVars, cancelVars>>
daemonVars == <<pc, passVars, sweepVars, build>>
logVars    == <<histVars, faultVars>>
vars == <<fileVars, agentVars, cliVars, daemonVars, logVars>>

-----------------------------------------------------------------------------
(* Letters *)

Readable(i) == ledger[i].newer => build = "new"

isConditional(i) == ledger[i].defer \/ ledger[i].timed

isDue(i) == ledger[i].timed => i \in due

\* A session pane accepts a paste: Claude queues what is pasted mid-turn,
\* the Codex classifier admits only the complete idle composer.
Deliverable(r) ==
  pane[r] \in (IF r \in HookPane THEN {"idle", "working"} ELSE {"idle"})

\* readTurnState(...).settled: between turns.
Settled(r) == pane[r] = "idle"

\* chatTurnProgress of pickup p is `answered` or `interrupted`.
Answered(r, p) == taken[p] > 0 /\ tail[r] = "done"

\* Immediate letters of r among the first n, from cursor c on.
ImmediateFrom(r, c, n) ==
  {i \in (c + 1)..n : Readable(i) /\ ledger[i].to = r /\ ~isConditional(i)}

\* Mutant: the scan stops one record short.
WaitingShort(n) ==
  {i \in 1..(n - 1) : Readable(i) /\ isConditional(i) /\ isDue(i) /\ acks[i] = "none"}

\* Conditional letters of the first n that are due and not in the ack log.
Waiting(n) ==
  {i \in 1..n : Readable(i) /\ isConditional(i) /\ isDue(i) /\ acks[i] = "none"}

Least(i, S) == i \in S /\ \A j \in S : i <= j

\* Mutant: the cursor is moved past the letter when it is picked.
nextDeliveryPast(r, i, c) ==
  LET now == ImmediateFrom(r, mem.delivered[r], mLen)
      later == {j \in waiting : ledger[j].to = r}
  IN \/ Least(i, now) /\ c = i
     \/ now = {} /\ c = mLen /\ (Least(i, later) \/ (later = {} /\ i = 0))

\* Mutant: the newest immediate letter is picked first.
nextDeliveryNewest(r, i, c) ==
  LET now == ImmediateFrom(r, mem.delivered[r], mLen)
      later == {j \in waiting : ledger[j].to = r}
  IN \/ i \in now /\ (\A j \in now : j <= i) /\ c = mem.delivered[r]
     \/ now = {} /\ c = mLen /\ (Least(i, later) \/ (later = {} /\ i = 0))

\* i is what nextDelivery picks for r (0: nothing), c the cursor it leaves.
nextDelivery(r, i, c) ==
  LET now == ImmediateFrom(r, mem.delivered[r], mLen)
      later == {j \in waiting : ledger[j].to = r}
  IN \/ Least(i, now) /\ c = i - 1
     \/ now = {} /\ c = mLen /\ (Least(i, later) \/ (later = {} /\ i = 0))

\* The batch coalesce may return: the oldest waiting letter and any others up
\* to the bounds (which ones depends on authors and sizes, see ChatCoalesce).
coalesce(B, W) ==
  /\ B \subseteq W
  /\ Cardinality(B) <= MaxBatch
  /\ W # {} => \E i \in B : Least(i, W)

\* More letters than the limit; whether they fall within one minute is open.
RateMayHold(r) ==
  Cardinality({i \in 1..mLen : Readable(i) /\ ledger[i].to = r}) > RateMax

letterPending(i, cur) ==
  IF isConditional(i) THEN acks[i] = "none" ELSE cur.delivered[ledger[i].to] < i

-----------------------------------------------------------------------------
(* The cursors file *)

NoCursors == [delivered |-> [r \in Recipient |-> 0],
              read |-> [r \in Recipient |-> 0],
              pickup |-> [r \in Recipient |-> 0]]

Larger(a, b) == IF a >= b THEN a ELSE b

furthest(a, b) == [r \in Recipient |-> Larger(a[r], b[r])]

\* Cursors for a ledger that has none: the present, for managed recipients.
armedCursors ==
  LET at == [r \in Recipient |->
               IF r \in Managed /\ \E i \in 1..Len(ledger) : Readable(i) /\ ledger[i].to = r
               THEN Len(ledger) ELSE 0]
  IN [delivered |-> at, read |-> at, pickup |-> NoCursors.pickup]

\* What commitCursors finds in the file before it applies a change.
Fresh == IF file = "missing" THEN armedCursors ELSE disk

\* Mutant: the daemon writes its whole copy back.
saveCursorsWhole(c) ==
  /\ file # "bad"
  /\ file' = "ok"
  /\ disk' = c

\* The write that saveCursors(c) makes; it throws on an unreadable file.
saveCursors(c) ==
  /\ file # "bad"
  /\ file' = "ok"
  /\ disk' = [c EXCEPT !.read = furthest(Fresh.read, c.read)]

armPickup(c, r, i) ==
  IF isConditional(i)
  THEN [c EXCEPT !.pickup[r] = i]
  ELSE [c EXCEPT !.pickup[r] = i,
                 !.delivered[r] = i,
                 !.read[r] = Larger(@, i)]

-----------------------------------------------------------------------------
(* Senders, sessions and agents *)

Init ==
  /\ ledger = <<>> /\ acks = [i \in Ids |-> "none"]
  /\ reg \in [Managed -> {"new", "live"}]
  /\ file = "ok" /\ disk = NoCursors
  /\ due = {} /\ pane = [r \in Recipient |-> "off"]
  /\ tail = [r \in TranscriptPane |-> "done"]
  /\ submitted = [r \in TranscriptPane |-> 0]
  /\ typed = [i \in Ids |-> 0] /\ held = typed /\ taken = typed
  /\ hookPc = [r \in HookPane |-> "none"] /\ hookBatch = [r \in HookPane |-> {}]
  /\ cancelling = {} /\ cancels = 0
  /\ pc = "idle" /\ mem = NoCursors /\ mLen = 0 /\ waiting = {} /\ todo = {}
  /\ pick = 0 /\ batch = {} /\ sent = 0 /\ changed = FALSE
  /\ live = {} /\ seen = <<>>
  /\ build = FirstBuild
  /\ skipped = {} /\ closed = {}
  /\ crashes = 0 /\ deaths = 0 /\ losses = 0

\* A sender resolved the recipient in the registry and appends its letter.
appendMessage(letter) ==
  /\ Len(ledger) < MaxLedger
  /\ letter.to \in Managed => reg[letter.to] = "live"
  /\ ledger' = Append(ledger, letter)
  /\ UNCHANGED <<acks, reg, file, disk, agentVars, cliVars, daemonVars, logVars>>

BecomeDue(i) ==
  /\ i <= Len(ledger) /\ ledger[i].timed /\ i \notin due
  /\ due' = due \cup {i}
  /\ UNCHANGED <<fileVars, pane, tail, submitted, copyVars, cliVars, daemonVars, logVars>>

\* The registry holds exact peer keys: a removed key never comes back.
appendSession(r) ==
  /\ reg[r] = "new"
  /\ reg' = [reg EXCEPT ![r] = "live"]
  /\ UNCHANGED <<ledger, acks, file, disk, agentVars, cliVars, daemonVars, logVars>>

\* `ccmux rm` drops the registry row first and kills the pane after it.
removeSession(r) ==
  /\ reg[r] = "live"
  /\ reg' = [reg EXCEPT ![r] = "gone"]
  /\ UNCHANGED <<ledger, acks, file, disk, agentVars, cliVars, daemonVars, logVars>>

\* A pane ends; whatever its agent had not taken up is gone with it.
Kill(r) ==
  /\ held' = [i \in Ids |-> IF i <= Len(ledger) /\ ledger[i].to = r THEN 0 ELSE held[i]]
  /\ submitted' = [q \in TranscriptPane |-> IF q = r THEN 0 ELSE submitted[q]]
  /\ hookPc' = [q \in HookPane |-> IF q = r THEN "none" ELSE hookPc[q]]
  /\ hookBatch' = [q \in HookPane |-> IF q = r THEN {} ELSE hookBatch[q]]
  /\ pane' = [pane EXCEPT ![r] = "off"]

killSession(r) ==
  /\ reg[r] = "gone" /\ pane[r] # "off"
  /\ Kill(r)
  /\ UNCHANGED <<fileVars, due, tail, typed, taken, cancelVars, daemonVars, logVars>>

StartPane(r) ==
  /\ pane[r] = "off" /\ (r \in Managed => reg[r] = "live")
  /\ pane' = [pane EXCEPT ![r] = "idle"]
  /\ UNCHANGED <<fileVars, due, tail, submitted, copyVars, cliVars, daemonVars, logVars>>

\* The agent process (or the App Server) dies under its recipient.
Die(r) ==
  /\ pane[r] # "off" /\ deaths < MaxDeaths /\ deaths' = deaths + 1
  /\ Kill(r)
  /\ UNCHANGED <<fileVars, due, tail, typed, taken, cancelVars, daemonVars, histVars,
                 crashes, losses>>

\* How the transcript of a Codex pane ends.
SetTail(r, how) == tail' = [q \in TranscriptPane |-> IF q = r THEN how ELSE tail[q]]

\* The recipient starts a turn that chat did not cause.
Work(r) ==
  /\ pane[r] = "idle" /\ (r \in HookPane => hookPc[r] = "none")
  /\ pane' = [pane EXCEPT ![r] = "working"]
  /\ SetTail(r, "running")
  /\ UNCHANGED <<fileVars, due, submitted, copyVars, cliVars, daemonVars, logVars>>

\* A voluntary end of turn; Claude then runs the Stop hook.
FinishTurn(r) ==
  /\ pane[r] = "working" /\ (r \in HookPane => hookPc[r] = "none")
  /\ r \in App => \A i \in 1..Len(ledger) : ledger[i].to = r => held[i] = 0
  /\ pane' = [pane EXCEPT ![r] = "idle"]
  /\ SetTail(r, "done")
  /\ hookPc' = [q \in HookPane |-> IF q = r THEN "start" ELSE hookPc[q]]
  /\ UNCHANGED <<fileVars, due, submitted, copyVars, hookBatch, cancelVars, daemonVars,
                 logVars>>

\* An interrupted turn: the conversation rests and no Stop hook fires.
Interrupt(r) ==
  /\ r \in Managed /\ pane[r] = "working" /\ (r \in HookPane => hookPc[r] = "none")
  /\ pane' = [pane EXCEPT ![r] = "idle"]
  /\ SetTail(r, "done")
  /\ UNCHANGED <<fileVars, due, submitted, copyVars, cliVars, daemonVars, logVars>>

\* A menu, a half-typed line, a pane not drawn yet; an App thread on approval.
Block(r) ==
  /\ pane[r] = "idle" /\ pane' = [pane EXCEPT ![r] = "blocked"]
  /\ UNCHANGED <<fileVars, due, tail, submitted, copyVars, cliVars, daemonVars, logVars>>

Unblock(r) ==
  /\ pane[r] = "blocked" /\ pane' = [pane EXCEPT ![r] = "idle"]
  /\ UNCHANGED <<fileVars, due, tail, submitted, copyVars, cliVars, daemonVars, logVars>>

\* The agent takes a submitted letter up as a turn of its conversation.
Take(i) ==
  /\ i <= Len(ledger) /\ held[i] > 0
  /\ LET r == ledger[i].to IN
       /\ pane[r] \in {"idle", "working"}
       /\ pane' = [pane EXCEPT ![r] = "working"]
       /\ SetTail(r, "running")
  /\ held' = [held EXCEPT ![i] = @ - 1]
  /\ taken' = [taken EXCEPT ![i] = @ + 1]
  /\ UNCHANGED <<fileVars, due, submitted, typed, cliVars, daemonVars, logVars>>

-----------------------------------------------------------------------------
(* The Stop hook and the command line *)

HookRead(r, B) ==
  /\ hookPc[r] = "start"
  /\ coalesce(B, {i \in Waiting(Len(ledger)) : ledger[i].to = r /\ reg[r] = "live"})
  /\ hookPc' = [hookPc EXCEPT ![r] = IF B = {} THEN "none" ELSE "read"]
  /\ hookBatch' = [hookBatch EXCEPT ![r] = B]
  /\ UNCHANGED <<fileVars, agentVars, cancelVars, daemonVars, logVars>>

\* The acks are appended before the block is emitted.
HookAck(r) ==
  /\ hookPc[r] = "read"
  /\ acks' = [i \in Ids |-> IF i \in hookBatch[r] THEN "delivered" ELSE acks[i]]
  /\ hookPc' = [hookPc EXCEPT ![r] = "acked"]
  /\ UNCHANGED <<ledger, reg, file, disk, agentVars, hookBatch, cancelVars, daemonVars,
                 logVars>>

HookEmit(r) ==
  /\ hookPc[r] = "acked"
  /\ typed' = [i \in Ids |-> IF i \in hookBatch[r] THEN typed[i] + 1 ELSE typed[i]]
  /\ pane' = [pane EXCEPT ![r] = "working"]
  /\ SetTail(r, "running")
  /\ hookPc' = [hookPc EXCEPT ![r] = "none"]
  /\ hookBatch' = [hookBatch EXCEPT ![r] = {}]
  /\ UNCHANGED <<fileVars, due, submitted, held, taken, cancelVars, daemonVars, logVars>>

\* Any error ends the hook with no output; so does a kill.
HookFail(r) ==
  /\ hookPc[r] # "none" /\ deaths < MaxDeaths /\ deaths' = deaths + 1
  /\ hookPc' = [hookPc EXCEPT ![r] = "none"]
  /\ hookBatch' = [hookBatch EXCEPT ![r] = {}]
  /\ UNCHANGED <<fileVars, agentVars, cancelVars, daemonVars, histVars, crashes, losses>>

\* `msg cancel` (or a re-armed timer) reads the pending set, then tombstones.
CancelRead(i) ==
  /\ i \in 1..Len(ledger) \ cancelling /\ cancels < MaxCancels
  /\ Readable(i) /\ isConditional(i) /\ acks[i] = "none"
  /\ cancelling' = cancelling \cup {i} /\ cancels' = cancels + 1
  /\ UNCHANGED <<fileVars, agentVars, hookVars, daemonVars, logVars>>

CancelAppend(i) ==
  /\ i \in cancelling
  /\ acks' = [acks EXCEPT ![i] = "cancelled"]
  /\ cancelling' = cancelling \ {i}
  /\ UNCHANGED <<cancels, ledger, reg, file, disk, agentVars, hookVars, daemonVars, logVars>>

\* `ccmux inbox` of the session itself; n is the ledger length it listed.
markRead(r, n) ==
  /\ file = "ok" /\ reg[r] = "live"
  /\ disk' = [disk EXCEPT !.read[r] = Larger(@, n)]
  /\ UNCHANGED <<ledger, acks, reg, file, agentVars, cliVars, daemonVars, logVars>>

\* Whoever loads absent cursors first arms them at the present.
loadCursorsMissing ==
  /\ file = "missing"
  /\ file' = "ok" /\ disk' = armedCursors
  /\ skipped' = skipped \cup
       {i \in 1..Len(ledger) : i <= armedCursors.delivered[ledger[i].to] /\ ~isConditional(i)}
  /\ UNCHANGED <<ledger, acks, reg, agentVars, cliVars, daemonVars, closed, faultVars>>

LoseCursors(how) ==
  /\ file = "ok" /\ losses < MaxLosses /\ losses' = losses + 1
  /\ file' = how
  /\ UNCHANGED <<ledger, acks, reg, disk, agentVars, cliVars, daemonVars, histVars, crashes,
                 deaths>>

\* The operator repairs the damaged file, or moves it aside.
RepairCursors(how) ==
  /\ file = "bad" /\ file' = how
  /\ UNCHANGED <<ledger, acks, reg, disk, agentVars, cliVars, daemonVars, logVars>>

=============================================================================
