---------------------------- MODULE SessionSleep ----------------------------
(***************************************************************************)
(* A delegated session with a native runtime: put to sleep by a parent,    *)
(* woken by an operation or by new input, healed by the daemon, cancelled  *)
(* for good (session/sleep/, session/heal.ts, commands/run.ts,             *)
(* delegation/cancel.ts and the sleeping part of control/message.ts).      *)
(*                                                                         *)
(* Nobody signals a process: the sleep record and the stop record are      *)
(* files, and the owner of the runtime leaves when it reads them.  The     *)
(* callers wait for processes they named in a proof, outside the admission *)
(* lock that every change of the record is made under.  `ccmux msg` and a  *)
(* letter from another machine take no lock and do not look at the record: *)
(* they are appended to the ledger of a session in whatever state it is.   *)
(***************************************************************************)
EXTENDS Naturals, FiniteSets

CONSTANTS
  SleepOps,    \* operation ids of session.sleep
  WakeOps,     \* operation ids of session.wake
  Letters,     \* ids of messages sent through the control plane
  Posts,       \* ids of letters appended by `ccmux msg` or for another machine
  Cancels,     \* operation ids of delegation.cancel
  None,
  MaxStarts,   \* bound: processes of the session
  MaxAborts    \* bound: calls cut short by their budget, their caller or a crash

Wakers == WakeOps \cup Letters
Callers == SleepOps \cup Wakers \cup Cancels
Processes == 1..MaxStarts
Mail == Letters \cup Posts

\* A caller is one call: of a kind, and under an id of that kind.
ASSUME SleepAssumption ==
  /\ MaxStarts \in Nat \ {0} /\ MaxAborts \in Nat
  /\ None \notin Callers /\ Posts \cap Callers = {}
  /\ SleepOps \cap Wakers = {} /\ WakeOps \cap Letters = {}
  /\ Cancels \cap (SleepOps \cup Wakers) = {}

VARIABLES
  sleep,      \* sleep.json: operation, phase, the process in the proof
  journal,    \* wake-operations.json: sleep operation and result of each wake
  stop,       \* the stop record of the delegation, and the processes it names
  lock,       \* admission.lock
  session,    \* the tmux session: absent, or how far its process has come
  started,    \* processes so far; the last one is the session's
  owned,      \* owned-process.json
  snap,       \* the process in the published status
  heal,       \* the daemon's heal pass
  letter,     \* per message: where it is
  at,         \* per caller: its step, and the sleep record it read
  revision,   \* per sleep operation: the facts of the idle proof it names
  told,       \* per caller: its answer
  aborts

fileVars == <<sleep, journal, stop, owned, snap>>
procVars == <<session, started, heal>>
callVars == <<at, revision, told, aborts>>
vars == <<fileVars, procVars, callVars, lock, letter>>

Awake == [op |-> None, phase |-> "awake", held |-> 0]
Alive == session \in {"starting", "opening", "resident"}
Executing == session \in {"opening", "resident"}
Running(p) == Alive /\ p = started
Idle == [step |-> "idle", row |-> Awake]
Step(c, s) == at' = [at EXCEPT ![c].step = s]
Holding(c, s, r) == at' = [at EXCEPT ![c] = [step |-> s, row |-> r]]
Rest(c) == at' = [at EXCEPT ![c] = Idle]
Answer(c, a) == told' = [told EXCEPT ![c] = a]
Refuse(c) == Rest(c) /\ Answer(c, "refused")

Init ==
  /\ sleep = Awake /\ journal = [w \in WakeOps |-> [op |-> None, done |-> FALSE]]
  /\ stop = [on |-> FALSE, held |-> {}] /\ lock = None
  /\ session = "resident" /\ started = 1 /\ owned = 1 /\ snap = 1 /\ heal = "idle"
  /\ letter = [l \in Mail |-> "none"]
  /\ at = [c \in Callers |-> Idle]
  /\ revision = [s \in SleepOps |-> None]
  /\ told = [c \in Callers |-> "none"] /\ aborts = 0

-----------------------------------------------------------------------------
(* session.sleep *)

\* The measured owner is alive, between turns, with nothing accepted and unread.
idleProof ==
  /\ session = "resident" /\ owned = started /\ snap = started /\ ~stop.on
  /\ \A l \in Mail : letter[l] \in {"none", "over"}

\* What the hash of a proof tells apart: the process, and what it was sent.
Facts == <<started, letter>>

\* session.idle: the caller reads a proof and will name it.
readIdle(s) ==
  /\ revision[s] = None /\ idleProof /\ revision' = [revision EXCEPT ![s] = Facts]
  /\ UNCHANGED <<fileVars, procVars, lock, letter, at, told, aborts>>

\* One transaction under the lock: a retry goes on, a rival is refused, and so
\* is a proof that is no longer the one the caller read.
sleepSession(s) ==
  /\ at[s].step = "idle" /\ told[s] = "none" /\ revision[s] # None /\ lock = None
  /\ IF sleep.op = s
     THEN IF sleep.phase \in {"waking", "awake"} THEN Refuse(s) /\ UNCHANGED sleep
          ELSE Holding(s, "waiting", sleep) /\ UNCHANGED <<sleep, told>>
     ELSE /\ sleep.phase = "awake" /\ idleProof /\ revision[s] = Facts
          /\ sleep' = [op |-> s, phase |-> "requested", held |-> started]
          /\ Holding(s, "waiting", sleep') /\ UNCHANGED told
  /\ UNCHANGED <<revision, journal, stop, owned, snap, procVars, lock, letter, aborts>>

\* Mutant: the caller goes on without the release.
awaitReleaseNot(c) ==
  /\ at[c].step = "waiting" /\ Step(c, "released")
  /\ UNCHANGED <<revision, fileVars, procVars, lock, letter, told, aborts>>

\* processesReleased: the process of the proof is gone.
awaitRelease(c) ==
  /\ at[c].step = "waiting" /\ c \notin Cancels /\ ~Running(at[c].row.held)
  /\ Step(c, "released")
  /\ UNCHANGED <<revision, fileVars, procVars, lock, letter, told, aborts>>

sleepSettle(s) ==
  /\ at[s].step = "released" /\ lock = None
  /\ IF sleep.op = s /\ sleep.phase \in {"requested", "sleeping"}
     THEN /\ sleep' = [sleep EXCEPT !.phase = "sleeping"]
          /\ Rest(s) /\ Answer(s, "sleeping")
     ELSE Refuse(s) /\ UNCHANGED sleep
  /\ UNCHANGED <<revision, journal, stop, owned, snap, procVars, lock, letter, aborts>>

-----------------------------------------------------------------------------
(* session.wake, and the wake a new message asks for *)

\* The wake is durable before anything starts, tied to the sleep it found.
wakeSession(w) ==
  /\ at[w].step = "idle" /\ told[w] = "none" /\ lock = None /\ sleep.op # None
  /\ IF journal[w].done THEN Answer(w, "awake") /\ UNCHANGED <<journal, at>>
     ELSE IF journal[w].op \notin {None, sleep.op} THEN Refuse(w) /\ UNCHANGED journal
     ELSE /\ journal' = [journal EXCEPT ![w].op = sleep.op]
          /\ Step(w, "admitted") /\ UNCHANGED told
  /\ UNCHANGED <<revision, sleep, stop, owned, snap, procVars, lock, letter, aborts>>

\* Mutant: a message does not look at the sleep record.
acceptControlMessageAsleep(l) ==
  /\ at[l].step = "idle" /\ letter[l] = "none" /\ lock = None
  /\ letter' = [letter EXCEPT ![l] = "accepted"] /\ Answer(l, "accepted")
  /\ UNCHANGED <<revision, fileVars, procVars, lock, at, aborts>>

\* A retry of what was accepted wakes nobody; SESSION_SLEEPING leads to a wake.
acceptControlMessage(l) ==
  /\ at[l].step = "idle" /\ told[l] = "none" /\ lock = None
  /\ IF letter[l] # "none" THEN Answer(l, "accepted") /\ UNCHANGED <<letter, at>>
     ELSE IF sleep.phase # "awake" THEN Step(l, "admitted") /\ UNCHANGED <<letter, told>>
     ELSE IF stop.on THEN Refuse(l) /\ UNCHANGED letter
     ELSE /\ letter' = [letter EXCEPT ![l] = "accepted"]
          /\ Answer(l, "accepted") /\ UNCHANGED at
  /\ UNCHANGED <<revision, fileVars, procVars, lock, aborts>>

\* sendLetter, cmdChatReceiveV2: neither asks whether anybody sleeps, and nobody is woken.
appendMessage(l) ==
  /\ letter[l] = "none" /\ letter' = [letter EXCEPT ![l] = "accepted"]
  /\ UNCHANGED <<fileVars, procVars, callVars, lock>>

\* The sleep operation a wake is for; a message takes whichever it finds.
Expected(w) == IF w \in WakeOps THEN {journal[w].op} ELSE SleepOps \cup {None}

\* Outside the lock, because the resumed owner takes it too.
wakeRead(w) ==
  /\ at[w].step = "admitted"
  /\ IF stop.on \/ sleep.op \notin Expected(w) THEN Refuse(w)
     ELSE /\ Holding(w, IF sleep.phase = "awake" THEN "acked" ELSE "waiting", sleep)
          /\ UNCHANGED told
  /\ UNCHANGED <<revision, fileVars, procVars, lock, letter, aborts>>

\* Mutant: the record is not read again under the lock.
wakeWriteBlind(w) ==
  /\ at[w].step = "released" /\ lock = None
  /\ sleep' = [sleep EXCEPT !.phase = "waking"] /\ lock' = w /\ Step(w, "starting")
  /\ UNCHANGED <<revision, journal, stop, owned, snap, procVars, letter, told, aborts>>

\* `waking` is on disk before the executor starts, and the lock is kept.
wakeWrite(w) ==
  /\ at[w].step = "released" /\ lock = None
  /\ IF stop.on \/ sleep.op # at[w].row.op THEN Refuse(w) /\ UNCHANGED <<sleep, lock>>
     ELSE IF sleep.phase = "awake" THEN Step(w, "polling") /\ UNCHANGED <<sleep, lock, told>>
     ELSE /\ sleep' = [sleep EXCEPT !.phase = "waking"] /\ lock' = w
          /\ Step(w, "starting") /\ UNCHANGED told
  /\ UNCHANGED <<revision, journal, stop, owned, snap, procVars, letter, aborts>>

\* startSession is idempotent: a tmux session that still exists is left alone.
startSession ==
  IF session = "none" /\ started < MaxStarts
  THEN session' = "starting" /\ started' = started + 1
  ELSE UNCHANGED <<session, started>>

wakeStart(w) ==
  /\ at[w].step = "starting" /\ startSession /\ lock' = None /\ Step(w, "polling")
  /\ UNCHANGED <<revision, fileVars, heal, letter, told, aborts>>

\* A live status of another process than the proof's.
wakeAck(w) ==
  /\ at[w].step = "polling" /\ lock = None
  /\ session = "resident" /\ snap = started /\ snap # at[w].row.held
  /\ IF sleep.op # at[w].row.op THEN Refuse(w) /\ UNCHANGED sleep
     ELSE /\ sleep' = IF sleep.phase = "waking" THEN [sleep EXCEPT !.phase = "awake"] ELSE sleep
          /\ Step(w, "acked") /\ UNCHANGED told
  /\ UNCHANGED <<revision, journal, stop, owned, snap, procVars, lock, letter, aborts>>

\* The result of a wake operation is recorded; a message tries again.
wakeDone(w) ==
  /\ at[w].step = "acked"
  /\ IF w \in Letters THEN Rest(w) /\ UNCHANGED <<journal, told>>
     ELSE /\ lock = None
          /\ IF sleep.op # journal[w].op THEN Refuse(w) /\ UNCHANGED journal
             ELSE /\ journal' = [journal EXCEPT ![w].done = TRUE]
                  /\ Rest(w) /\ Answer(w, "awake")
  /\ UNCHANGED <<revision, sleep, stop, owned, snap, procVars, lock, letter, aborts>>

\* withinWakeBudget: WAKE_PENDING, and the same operation may be repeated.
BudgetEnds(w) ==
  /\ at[w].step \in {"waiting", "polling"} /\ Rest(w)
  /\ UNCHANGED <<revision, fileVars, procVars, lock, letter, told, aborts>>

\* A call or its process ends anywhere; what it wrote stays.
Abort(c) ==
  /\ at[c].step # "idle" /\ aborts < MaxAborts /\ aborts' = aborts + 1
  /\ Rest(c) /\ lock' = IF lock = c THEN None ELSE lock
  /\ UNCHANGED <<revision, fileVars, procVars, letter, told>>

-----------------------------------------------------------------------------
(* delegation.cancel *)

\* Mutant: a sleep record is taken to be there.
EvidenceAsleep == {sleep.held}

\* What the record knows of the session's processes, and what is alive of the
\* registered owner now.
Evidence ==
  (IF stop.held # {} THEN stop.held ELSE IF sleep.op # None THEN {sleep.held} ELSE {owned})
    \cup (IF Running(owned) THEN {owned} ELSE {})

\* The stop is durable before the wait.
cancelDelegation(c) ==
  /\ at[c].step = "idle" /\ told[c] = "none" /\ lock = None
  /\ stop' = [on |-> TRUE, held |-> Evidence] /\ Step(c, "waiting")
  /\ UNCHANGED <<revision, sleep, journal, owned, snap, procVars, lock, letter, told, aborts>>

cancelReleased(c) ==
  /\ at[c].step = "waiting" /\ c \in Cancels /\ \A p \in stop.held : ~Running(p)
  /\ Rest(c) /\ Answer(c, "stopped")
  /\ UNCHANGED <<revision, fileVars, procVars, lock, letter, aborts>>

-----------------------------------------------------------------------------
(* The supervisor and the owner *)

\* Mutant: every phase but `sleeping` lets the session start.
sleepBlocksStartLate == sleep.phase = "sleeping"

sleepBlocksStart == sleep.phase \in {"requested", "sleeping"}

\* superviseReady reads the record before the driver runs.
Supervise ==
  /\ session = "starting"
  /\ session' = IF stop.on \/ sleepBlocksStart THEN "closing" ELSE "opening"
  /\ UNCHANGED <<fileVars, started, heal, callVars, lock, letter>>

\* The owner registers its processes and publishes; it needs the lock.
OwnerOpens ==
  /\ session = "opening" /\ lock = None
  /\ session' = "resident" /\ owned' = started /\ snap' = started
  /\ UNCHANGED <<sleep, journal, stop, started, heal, callVars, lock, letter>>

Interrupted == [l \in Mail |-> IF letter[l] = "begun" THEN "over" ELSE letter[l]]

\* Mutant: a sleep request is not read.
ownerShouldSleepNever ==
  /\ session = "resident" /\ stop.on
  /\ session' = "closing" /\ snap' = 0 /\ letter' = Interrupted
  /\ UNCHANGED <<sleep, journal, stop, owned, started, heal, callVars, lock>>

\* Mutant: a stop is not read.
ownerShouldSleepOnly ==
  /\ session = "resident" /\ sleep.phase = "requested" /\ sleep.held = started
  /\ session' = "closing" /\ snap' = 0 /\ letter' = Interrupted
  /\ UNCHANGED <<sleep, journal, stop, owned, started, heal, callVars, lock>>

\* ownerShouldSleep, delegationStopped: read at the top of the owner's loop.
ownerShouldSleep ==
  /\ session = "resident"
  /\ stop.on \/ (sleep.phase = "requested" /\ sleep.held = started)
  /\ session' = "closing" /\ snap' = 0 /\ letter' = Interrupted
  /\ UNCHANGED <<sleep, journal, stop, owned, started, heal, callVars, lock>>

\* The provider ends by itself: the supervisor goes round again.
ManagedRuntimeExit ==
  /\ session = "resident" /\ aborts < MaxAborts /\ aborts' = aborts + 1
  /\ session' = "starting" /\ snap' = 0 /\ letter' = Interrupted
  /\ UNCHANGED <<revision, sleep, journal, stop, owned, started, heal, at, told, lock>>

\* The supervisor is killed with everything below it.
Killed ==
  /\ Alive /\ aborts < MaxAborts /\ aborts' = aborts + 1
  /\ session' = "closing" /\ snap' = 0 /\ letter' = Interrupted
  /\ UNCHANGED <<revision, sleep, journal, stop, owned, started, heal, at, told, lock>>

\* tmux drops a session when its process has ended.
TmuxDrops ==
  /\ session = "closing" /\ session' = "none"
  /\ UNCHANGED <<fileVars, started, heal, callVars, lock, letter>>

\* The pickup asks again under the lock.
Dispatch(l) ==
  /\ session = "resident" /\ lock = None /\ letter[l] = "accepted"
  /\ ~stop.on /\ ~sleepBlocksStart /\ \A k \in Mail : letter[k] # "begun"
  /\ letter' = [letter EXCEPT ![l] = "begun"]
  /\ UNCHANGED <<fileVars, procVars, callVars, lock>>

TurnEnds(l) ==
  /\ session = "resident" /\ letter[l] = "begun"
  /\ letter' = [letter EXCEPT ![l] = "over"]
  /\ UNCHANGED <<fileVars, procVars, callVars, lock>>

-----------------------------------------------------------------------------
(* The daemon's heal pass decides, and starts later *)

startHealed ==
  /\ heal = "idle" /\ session = "none" /\ ~stop.on /\ ~sleepBlocksStart
  /\ heal' = "starting"
  /\ UNCHANGED <<fileVars, session, started, callVars, lock, letter>>

HealStart ==
  /\ heal = "starting" /\ heal' = "idle" /\ startSession
  /\ UNCHANGED <<fileVars, callVars, lock, letter>>

-----------------------------------------------------------------------------
Sleeping(s) == readIdle(s) \/ sleepSession(s) \/ sleepSettle(s)
Waking(w) == wakeRead(w) \/ wakeWrite(w) \/ wakeStart(w) \/ wakeAck(w) \/ wakeDone(w)
Owner == Supervise \/ OwnerOpens \/ ownerShouldSleep \/ TmuxDrops
Heal == startHealed \/ HealStart
Turns == \E l \in Mail : Dispatch(l) \/ TurnEnds(l)

Next ==
  \/ \E s \in SleepOps : Sleeping(s)
  \/ \E w \in WakeOps : wakeSession(w)
  \/ \E l \in Letters : acceptControlMessage(l)
  \/ \E l \in Posts : appendMessage(l)
  \/ \E w \in Wakers : Waking(w) \/ BudgetEnds(w)
  \/ \E c \in Cancels : cancelDelegation(c) \/ cancelReleased(c)
  \/ \E c \in Callers : awaitRelease(c) \/ Abort(c)
  \/ Owner \/ Heal \/ Turns \/ ManagedRuntimeExit \/ Killed

\* The daemon's passes and the owner's loop are periodic; a client repeats a
\* message until it is answered, with a budget that is enough now and then.
Fairness ==
  /\ SF_vars(Owner) /\ WF_vars(Heal) /\ WF_vars(Turns)
  /\ \A l \in Letters :
       /\ SF_vars(acceptControlMessage(l)) /\ SF_vars(awaitRelease(l))
       /\ SF_vars(wakeRead(l)) /\ SF_vars(wakeWrite(l)) /\ SF_vars(wakeStart(l))
       /\ SF_vars(wakeAck(l)) /\ SF_vars(wakeDone(l))
  /\ \A w \in Wakers : WF_vars(wakeStart(w)) /\ WF_vars(BudgetEnds(w))

Spec == Init /\ [][Next]_vars /\ Fairness

-----------------------------------------------------------------------------
(* Properties *)

Records == [op: SleepOps \cup {None}, phase: {"requested", "sleeping", "waking", "awake"},
            held: 0..MaxStarts]

Steps == {"idle", "waiting", "released", "admitted", "starting", "polling", "acked"}
Call == [row: Records, step: Steps]
Answers == {"none", "refused", "sleeping", "awake", "accepted", "stopped"}
Places == {"none", "accepted", "begun", "over"}

FileType ==
  /\ sleep \in Records
  /\ journal \in [WakeOps -> [op: SleepOps \cup {None}, done: BOOLEAN]]
  /\ stop \in [on: BOOLEAN, held: SUBSET Processes]
  /\ owned \in Processes /\ snap \in 0..MaxStarts

ProcessType ==
  /\ session \in {"none", "starting", "opening", "resident", "closing"}
  /\ started \in Processes /\ heal \in {"idle", "starting"}
  /\ lock \in Wakers \cup {None} /\ letter \in [Mail -> Places]

CallType ==
  /\ revision \in [SleepOps -> {None} \cup (Processes \X [Mail -> Places])]
  /\ at \in [Callers -> Call] /\ told \in [Callers -> Answers]
  /\ aborts \in 0..MaxAborts

TypeOK == FileType /\ ProcessType /\ CallType

\* A session that is to sleep owes nothing that message.send accepted, since the proof and the
\* admission of a message meet under one lock (delegation-and-sleep.md); and it has no letter in
\* hand, though one that was only appended may wait in its ledger.
AsleepOwesNothing ==
  sleepBlocksStart =>
    /\ \A l \in Letters : letter[l] \in {"none", "over"}
    /\ \A l \in Posts : letter[l] # "begun"

\* While the record says `sleeping` nothing executes, whatever the supervisor,
\* heal and a late start were doing ("Heal and supervisor do not start a
\* sleeping session").
AsleepStaysDown == sleep.phase = "sleeping" => ~Executing

SleepSafe == AsleepOwesNothing /\ AsleepStaysDown

\* "A pending wake does not wake the next sleep": the operation a wake moves is
\* the one its durable record names.
WakeNamesItsSleep ==
  [][\A w \in WakeOps : at[w].step = "released" /\ at'[w].step = "starting"
       => sleep.op = journal[w].op]_vars

\* Nothing executes when a caller is told that the session sleeps.
SleepReceiptTrue ==
  [][\A s \in SleepOps : told[s] # "sleeping" /\ told'[s] = "sleeping" => ~Executing]_vars

SleepAnswers == WakeNamesItsSleep /\ SleepReceiptTrue

\* The process a record names was started; while a sleep is only requested, what still
\* executes is that process, since nobody else gets past the supervisor.
RecordSound ==
  /\ sleep.held <= started /\ (sleep.op # None => sleep.held # 0)
  /\ sleep.phase = "requested" /\ Executing => started = sleep.held

\* What a call has in hand between its steps: a sleep the process of its record, which is
\* gone for good once the call saw it go; a wake the sleep its journal names.
CallsSound ==
  /\ \A c \in Callers : at[c].row.held <= started
  /\ \A s \in SleepOps :
       /\ at[s].step \in {"waiting", "released"} /\ sleep.op = s => at[s].row.held = sleep.held
       /\ at[s].step = "released" => ~Running(at[s].row.held)
  /\ \A w \in WakeOps :
       at[w].step \in {"waiting", "released"} => at[w].row.op = journal[w].op

\* SleepSafe made inductive.
SleepInv == TypeOK /\ SleepSafe /\ RecordSound /\ CallsSound

\* A stop holds for ever once the owner has read it, whoever wakes or heals.
Stopped == stop.on
StopReleases == Stopped ~> [](~Executing)

\* A message to a sleeping session is accepted in the end, or the delegation is
\* over; the processes of the model may run out first.
Unanswered(l) == told[l] = "none"
Answered(l) == told[l] # "none" \/ started = MaxStarts
MessagesAccepted == \A l \in Letters : Unanswered(l) ~> Answered(l)
=============================================================================
