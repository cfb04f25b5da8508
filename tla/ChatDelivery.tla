---------------------------- MODULE ChatDelivery ----------------------------
(***************************************************************************)
(* The delivery schedule of the daemon (daemon/application.ts): one run    *)
(* first closes the letters whose recipient is gone (chat/undeliverable.ts)*)
(* and then makes a delivery pass (chat/deliver.ts, chat/deliverApp.ts).   *)
(* A run that is still on is never overlapped by the next.                 *)
(***************************************************************************)
EXTENDS ChatWorld

-----------------------------------------------------------------------------
(* The daemon: closing letters whose recipient is gone *)

\* The mtime and size of the ledger and the registry, both of which only grow.
Stamp == <<Len(ledger), reg>>

\* Mutant: the letter in hand survives the run.
ResetPassKeepsPick ==
  /\ mem' = NoCursors /\ mLen' = 0 /\ waiting' = {} /\ todo' = {}
  /\ pick' = pick /\ batch' = {} /\ sent' = 0 /\ changed' = FALSE

\* What a run of the schedule held in memory is gone when it ends.
ResetPass ==
  /\ mem' = NoCursors /\ mLen' = 0 /\ waiting' = {} /\ todo' = {}
  /\ pick' = 0 /\ batch' = {} /\ sent' = 0 /\ changed' = FALSE

SweepSkip ==
  /\ pc = "idle" /\ seen = Stamp /\ pc' = "swept"
  /\ UNCHANGED <<fileVars, agentVars, cliVars, passVars, sweepVars, build, logVars>>

\* deliverableTargets is read before the ledger it is compared with.
SweepBegin ==
  /\ pc = "idle" /\ seen # Stamp /\ pc' = "sweep"
  /\ live' = {r \in Managed : reg[r] = "live"}
  /\ UNCHANGED <<fileVars, agentVars, cliVars, passVars, seen, build, logVars>>

\* The letters the sweep judges undeliverable.
Stranded ==
  {i \in 1..Len(ledger) : /\ Readable(i) /\ ledger[i].to \in Managed \ live
                          /\ letterPending(i, disk)}

settleUndeliverable ==
  /\ pc = "sweep" /\ file = "ok" /\ pc' = "sweepEnd"
  /\ acks' = [i \in Ids |-> IF i \in Stranded /\ isConditional(i)
                            THEN "undeliverable" ELSE acks[i]]
  /\ LET ended == {i \in Stranded : ~isConditional(i)} IN
       /\ \E last \in [Recipient -> 0..MaxLedger] :
            /\ \A r \in Recipient :
                 LET mine == {i \in ended : ledger[i].to = r} IN
                 /\ mine = {} => last[r] = disk.delivered[r]
                 /\ mine # {} => last[r] \in mine /\ \A i \in mine : i <= last[r]
            /\ disk' = [disk EXCEPT !.delivered = last]
       /\ closed' = closed \cup ended
  /\ UNCHANGED <<ledger, reg, file, agentVars, cliVars, passVars, sweepVars, build, skipped,
                 faultVars>>

\* The stamp of the completed pass is taken after it.
SweepEnd ==
  /\ pc = "sweepEnd" /\ pc' = "swept"
  /\ seen' = Stamp /\ live' = {}
  /\ UNCHANGED <<fileVars, agentVars, cliVars, passVars, build, logVars>>

-----------------------------------------------------------------------------
(* The daemon: one delivery pass *)

PassBegin ==
  /\ pc = "swept" /\ file = "ok" /\ pc' = "pass"
  /\ mem' = disk /\ mLen' = Len(ledger) /\ waiting' = Waiting(Len(ledger))
  /\ todo' = {r \in Managed : reg[r] = "live" /\ pane[r] # "off"} \cup
             {r \in App : \E i \in 1..Len(ledger) : Readable(i) /\ ledger[i].to = r}
  /\ UNCHANGED <<fileVars, agentVars, cliVars, pick, batch, sent, changed, sweepVars, build,
                 logVars>>

\* Recipient r may be visited: App threads come after every managed session.
Visiting(r) ==
  /\ pc = "pass" /\ r \in todo /\ sent < MaxPerPass
  /\ r \in App => todo \cap Managed = {}

\* No barrier stands between r and its next letter.
Free(r) == r \in HookPane \/ mem.pickup[r] = 0

\* The pass is over with r; its cursor has caught up to c.
Leave(r, c) ==
  /\ todo' = todo \ {r}
  /\ mem' = [mem EXCEPT !.delivered[r] = c]
  /\ changed' = (changed \/ mem.delivered[r] # c)

\* Why letter i waits although it is next.
Held(r, i) ==
  \/ RateMayHold(r)
  \/ isConditional(i) /\ acks[i] # "none"
  \/ r \in Managed /\ ~Deliverable(r)
  \/ r \in Managed /\ ledger[i].defer /\ ~Settled(r)

VisitHeld(r, i, c) ==
  /\ Visiting(r) /\ Free(r) /\ nextDelivery(r, i, c)
  /\ i # 0 => Held(r, i)
  /\ Leave(r, c)
  /\ UNCHANGED <<fileVars, agentVars, cliVars, pc, mLen, waiting, pick, batch, sent,
                 sweepVars, build, logVars>>

\* The gates are open: the letter and what travels with it are chosen.  The
\* ack is re-read for the picked id only.
VisitChosen(r, i, c, B) ==
  /\ Visiting(r) /\ r \in Managed /\ Free(r)
  /\ nextDelivery(r, i, c) /\ i # 0
  /\ Deliverable(r) /\ (ledger[i].defer => Settled(r))
  /\ isConditional(i) => acks[i] = "none"
  /\ IF isConditional(i) /\ r \in HookPane
     THEN coalesce(B, {j \in waiting : ledger[j].to = r})
     ELSE B = {i}
  /\ Leave(r, c)
  /\ pc' = "submit" /\ pick' = i /\ batch' = B
  /\ UNCHANGED <<fileVars, agentVars, cliVars, mLen, waiting, sent, sweepVars, build,
                 logVars>>

\* Mutant: a paste that did not happen is acknowledged all the same.
SubmitHeldAcked ==
  /\ pc = "submit" /\ ~Deliverable(ledger[pick].to)
  /\ acks' = [acks EXCEPT ![pick] = "delivered"]
  /\ pc' = "pass" /\ pick' = 0 /\ batch' = {}
  /\ UNCHANGED <<ledger, reg, file, disk, agentVars, cliVars, mem, mLen, waiting, todo,
                 sent, changed, sweepVars, build, logVars>>

\* deliverToPane found the pane unfit after all, or gone.
SubmitHeld ==
  /\ pc = "submit" /\ ~Deliverable(ledger[pick].to)
  /\ pc' = "pass" /\ pick' = 0 /\ batch' = {}
  /\ UNCHANGED <<fileVars, agentVars, cliVars, mem, mLen, waiting, todo, sent, changed,
                 sweepVars, build, logVars>>

Type(S) == typed' = [i \in Ids |-> IF i \in S THEN typed[i] + 1 ELSE typed[i]]

\* The paste and Enter reach a Claude pane.  An immediate letter moves the
\* cursors held in memory; a conditional batch has its acks still to write.
SubmitPane ==
  LET r == ledger[pick].to IN
  /\ pc = "submit" /\ r \in HookPane /\ Deliverable(r)
  /\ Type(batch)
  /\ pane' = [pane EXCEPT ![r] = "working"]
  /\ SetTail(r, "running")
  /\ IF isConditional(pick)
     THEN pc' = "record" /\ UNCHANGED <<mem, pick, batch>>
     ELSE /\ mem' = [mem EXCEPT !.delivered[r] = pick, !.read[r] = Larger(@, pick)]
          /\ pc' = "pass" /\ pick' = 0 /\ batch' = {}
  /\ sent' = sent + 1 /\ changed' = TRUE
  /\ UNCHANGED <<fileVars, due, submitted, held, taken, cliVars, mLen, waiting, todo,
                 sweepVars, build, logVars>>

\* One appendAck per letter of the batch.
RecordAck(i) ==
  /\ pc = "record" /\ i \in batch
  /\ acks' = [acks EXCEPT ![i] = "delivered"]
  /\ batch' = batch \ {i}
  /\ IF batch' = {} THEN pc' = "pass" /\ pick' = 0 ELSE UNCHANGED <<pc, pick>>
  /\ UNCHANGED <<ledger, reg, file, disk, agentVars, cliVars, mem, mLen, waiting, todo,
                 sent, changed, sweepVars, build, logVars>>

\* Mutant: the barrier is armed in memory and not saved.
ArmPaneUnsaved ==
  LET r == ledger[pick].to IN
  /\ pc = "submit" /\ r \in TranscriptPane /\ Deliverable(r)
  /\ mem' = armPickup(mem, r, pick)
  /\ pc' = "armed"
  /\ UNCHANGED <<fileVars, agentVars, cliVars, mLen, waiting, todo, pick, batch, sent,
                 changed, sweepVars, build, logVars>>

\* beforeSubmit of a transcript pane: the barrier is durable before Enter.
ArmPane ==
  LET r == ledger[pick].to IN
  /\ pc = "submit" /\ r \in TranscriptPane /\ Deliverable(r)
  /\ mem' = armPickup(mem, r, pick)
  /\ saveCursors(mem')
  /\ pc' = "armed"
  /\ UNCHANGED <<ledger, acks, reg, agentVars, cliVars, mLen, waiting, todo, pick, batch,
                 sent, changed, sweepVars, build, logVars>>

\* The paste command queue; it fails when the pane is gone, and the barrier
\* then stands for a later pass to retry.
SubmitArmed ==
  LET r == ledger[pick].to IN
  /\ pc \in {"armed", "retry"}
  /\ IF pane[r] = "off"
     THEN UNCHANGED <<typed, held, submitted, sent, changed>>
     ELSE /\ Type({pick}) /\ held' = [held EXCEPT ![pick] = @ + 1]
          /\ submitted' = [submitted EXCEPT ![r] = pick]
          /\ sent' = sent + 1 /\ changed' = (changed \/ pc = "armed")
  /\ pc' = "pass" /\ pick' = 0 /\ batch' = {}
  /\ UNCHANGED <<fileVars, due, pane, tail, taken, cliVars, mem, mLen, waiting, todo,
                 sweepVars, build, logVars>>

\* A barrier stands: not taken up yet, its turn running or not settled, or it
\* was armed less than 15 seconds ago.
PickupHeld(r) ==
  /\ Visiting(r) /\ r \in TranscriptPane /\ mem.pickup[r] # 0
  /\ ~(Answered(r, mem.pickup[r]) /\ Settled(r))
  /\ todo' = todo \ {r}
  /\ UNCHANGED <<fileVars, agentVars, cliVars, pc, mem, mLen, waiting, pick, batch, sent,
                 changed, sweepVars, build, logVars>>

\* Mutant: the retry does not ask what this pane last submitted.
PickupRetryBlind(r) ==
  LET p == mem.pickup[r] IN
  /\ Visiting(r) /\ r \in TranscriptPane /\ p # 0
  /\ taken[p] = 0 /\ p <= mLen /\ Deliverable(r)
  /\ todo' = todo \ {r} /\ pc' = "retry" /\ pick' = p /\ batch' = {p}
  /\ UNCHANGED <<fileVars, agentVars, cliVars, mem, mLen, waiting, sent, changed, sweepVars,
                 build, logVars>>

\* Mutant: only a letter whose Enter was seen is retried.
PickupRetrySeen(r) ==
  LET p == mem.pickup[r] IN
  /\ Visiting(r) /\ r \in TranscriptPane /\ p # 0
  /\ taken[p] = 0 /\ submitted[r] = p /\ p <= mLen /\ Deliverable(r)
  /\ todo' = todo \ {r} /\ pc' = "retry" /\ pick' = p /\ batch' = {p}
  /\ UNCHANGED <<fileVars, agentVars, cliVars, mem, mLen, waiting, sent, changed, sweepVars,
                 build, logVars>>

\* The transcript has no trace of it and this pane never had its Enter.
PickupRetry(r) ==
  LET p == mem.pickup[r] IN
  /\ Visiting(r) /\ r \in TranscriptPane /\ p # 0
  /\ taken[p] = 0 /\ submitted[r] # p /\ p <= mLen /\ Deliverable(r)
  /\ todo' = todo \ {r} /\ pc' = "retry" /\ pick' = p /\ batch' = {p}
  /\ UNCHANGED <<fileVars, agentVars, cliVars, mem, mLen, waiting, sent, changed, sweepVars,
                 build, logVars>>

\* finishPickup, first half: a conditional letter is acknowledged.  A managed
\* session is then offered its next letter in the same visit.
finishPickup(r, p) ==
  /\ acks' = IF isConditional(p) THEN [acks EXCEPT ![p] = "delivered"] ELSE acks
  /\ mem' = IF isConditional(p) THEN [mem EXCEPT !.pickup[r] = 0]
            ELSE [mem EXCEPT !.pickup[r] = 0,
                             !.delivered[r] = Larger(@, p), !.read[r] = Larger(@, p)]
  /\ pc' = "finish" /\ pick' = p
  /\ UNCHANGED <<ledger, reg, file, disk, cliVars, mLen, waiting, todo, batch, sent,
                 changed, sweepVars, build, logVars>>

\* Mutant: a pickup ends when the pane rests, whatever the transcript shows.
PickupRested(r) ==
  /\ Visiting(r) /\ r \in TranscriptPane /\ mem.pickup[r] # 0 /\ Settled(r)
  /\ finishPickup(r, mem.pickup[r])
  /\ UNCHANGED agentVars

PickupAnswered(r) ==
  /\ Visiting(r) /\ r \in TranscriptPane /\ mem.pickup[r] # 0
  /\ Answered(r, mem.pickup[r]) /\ Settled(r)
  /\ finishPickup(r, mem.pickup[r])
  /\ UNCHANGED agentVars

\* finishPickup, second half: the cursors without the barrier are saved.  A
\* failed save ends the pass for a pane and only this visit for an App thread.
FinishSave ==
  LET r == ledger[pick].to IN
  /\ pc = "finish" /\ pc' = "pass" /\ pick' = 0
  /\ \/ saveCursors(mem) /\ changed' = (r \in App /\ changed)
        /\ sent' = IF r \in App THEN sent + 1 ELSE sent
     \/ file = "bad" /\ r \in App /\ UNCHANGED <<file, disk, changed, sent>>
  /\ todo' = IF r \in App THEN todo \ {r} ELSE todo
  /\ UNCHANGED <<ledger, acks, reg, agentVars, cliVars, mem, mLen, waiting, batch,
                 sweepVars, build, logVars>>

-----------------------------------------------------------------------------
(* The daemon: Codex App threads *)

\* turn/start is accepted by an idle thread.
StartTurn(r, i) ==
  /\ pane[r] = "idle"
  /\ pane' = [pane EXCEPT ![r] = "working"]
  /\ Type({i}) /\ held' = [held EXCEPT ![i] = @ + 1]
  /\ UNCHANGED <<due, tail, submitted, taken>>

\* The thread is not idle or unreachable, or the connection dropped after the
\* turn was accepted (counted with the agents' faults).
StartRefused(r, i) ==
  \/ pane[r] # "idle" /\ UNCHANGED <<agentVars, deaths>>
  \/ deaths < MaxDeaths /\ deaths' = deaths + 1 /\ StartTurn(r, i)

\* Mutant: the turn is started again without looking for its client id.
AppResumeBlind(r) ==
  LET p == mem.pickup[r] IN
  /\ Visiting(r) /\ r \in App /\ p # 0 /\ p <= mLen
  /\ StartTurn(r, p)
  /\ finishPickup(r, p)

\* Mutant: only a proved turn is finished, an unproved one is never started.
AppResumeProved(r) ==
  LET p == mem.pickup[r] IN
  /\ Visiting(r) /\ r \in App /\ p # 0 /\ p <= mLen
  /\ taken[p] > 0 /\ UNCHANGED agentVars
  /\ finishPickup(r, p)

\* Mutant: an unproved barrier is finished without starting its turn.
AppResumeTrusting(r) ==
  LET p == mem.pickup[r] IN
  /\ Visiting(r) /\ r \in App /\ p # 0 /\ p <= mLen
  /\ UNCHANGED agentVars
  /\ finishPickup(r, p)

\* A barrier left by an earlier pass, whose proof is looked up first: the
\* client id is on record, or the thread is idle and starts the turn now.
AppResume(r) ==
  LET p == mem.pickup[r] IN
  /\ Visiting(r) /\ r \in App /\ p # 0 /\ p <= mLen
  /\ IF taken[p] > 0 THEN UNCHANGED agentVars ELSE StartTurn(r, p)
  /\ finishPickup(r, p)

\* The thread refuses, or cannot be reached: the barrier is retained.
AppResumeHeld(r) ==
  LET p == mem.pickup[r] IN
  /\ Visiting(r) /\ r \in App /\ p # 0 /\ p <= mLen /\ taken[p] = 0
  /\ StartRefused(r, p)
  /\ todo' = todo \ {r}
  /\ UNCHANGED <<fileVars, cliVars, pc, mem, mLen, waiting, pick, batch, sent, changed,
                 sweepVars, build, histVars, crashes, losses>>

\* Mutant: the turn is started on a barrier kept in memory only.
AppArmUnsaved(r, i, c) ==
  /\ Visiting(r) /\ r \in App /\ Free(r) /\ nextDelivery(r, i, c) /\ i # 0
  /\ isConditional(i) => acks[i] = "none"
  /\ mem' = armPickup([mem EXCEPT !.delivered[r] = c], r, i)
  /\ pc' = "app" /\ pick' = i
  /\ UNCHANGED <<fileVars, agentVars, cliVars, mLen, waiting, todo, batch, sent, changed,
                 sweepVars, build, logVars>>

\* The barrier of a first delivery is durable before the turn is started; a
\* failed save leaves it in memory only and the visit ends.
AppArm(r, i, c) ==
  LET armed == armPickup([mem EXCEPT !.delivered[r] = c], r, i) IN
  /\ Visiting(r) /\ r \in App /\ Free(r) /\ nextDelivery(r, i, c) /\ i # 0
  /\ isConditional(i) => acks[i] = "none"
  /\ mem' = armed /\ changed' = (changed \/ mem.delivered[r] # c)
  /\ \/ saveCursors(armed) /\ pc' = "app" /\ pick' = i /\ UNCHANGED todo
     \/ file = "bad" /\ todo' = todo \ {r} /\ UNCHANGED <<file, disk, pc, pick>>
  /\ UNCHANGED <<ledger, acks, reg, agentVars, cliVars, mLen, waiting, batch, sent,
                 sweepVars, build, logVars>>

\* First submission: nothing is looked up.
AppStart ==
  /\ pc = "app" /\ StartTurn(ledger[pick].to, pick)
  /\ pc' = "appRecord"
  /\ UNCHANGED <<fileVars, cliVars, passVars, sweepVars, build, logVars>>

\* No answer says the turn was accepted: the barrier stands.
AppStartHeld ==
  LET r == ledger[pick].to IN
  /\ pc = "app" /\ pc' = "pass" /\ pick' = 0 /\ todo' = todo \ {r}
  /\ StartRefused(r, pick)
  /\ UNCHANGED <<fileVars, cliVars, mem, mLen, waiting, batch, sent, changed, sweepVars,
                 build, histVars, crashes, losses>>

\* The barrier is dropped in memory and saved with the pass.
AppRecord ==
  LET r == ledger[pick].to IN
  /\ pc = "appRecord" /\ pc' = "pass" /\ pick' = 0 /\ todo' = todo \ {r}
  /\ acks' = IF isConditional(pick) THEN [acks EXCEPT ![pick] = "delivered"] ELSE acks
  /\ mem' = [mem EXCEPT !.pickup[r] = 0]
  /\ sent' = sent + 1 /\ changed' = TRUE
  /\ UNCHANGED <<ledger, reg, file, disk, agentVars, cliVars, mLen, waiting, batch,
                 sweepVars, build, logVars>>

-----------------------------------------------------------------------------
(* The daemon: the end of a run *)

PassOver == pc = "pass" /\ (todo = {} \/ sent >= MaxPerPass)

\* Mutant: the pass ends without saving what it moved.
PassEndUnsaved ==
  /\ PassOver /\ pc' = "idle" /\ ResetPass
  /\ UNCHANGED <<fileVars, agentVars, cliVars, sweepVars, build, logVars>>

PassEnd ==
  /\ PassOver /\ pc' = "idle" /\ ResetPass
  /\ IF changed THEN saveCursors(mem) ELSE UNCHANGED <<file, disk>>
  /\ UNCHANGED <<ledger, acks, reg, agentVars, cliVars, sweepVars, build, logVars>>

\* CursorsUnreadableError leaves the run; the next one starts over.
RunThrows ==
  /\ file = "bad"
  /\ \/ pc \in {"sweep", "swept"}
     \/ pc = "submit" /\ ledger[pick].to \in TranscriptPane /\ Deliverable(ledger[pick].to)
     \/ pc = "finish" /\ ledger[pick].to \in TranscriptPane
     \/ PassOver /\ changed
  /\ pc' = "idle" /\ ResetPass /\ live' = {}
  /\ UNCHANGED <<fileVars, agentVars, cliVars, seen, build, logVars>>

\* The daemon dies and is restarted, possibly as a build that reads more.
Crash(next) ==
  /\ crashes < MaxCrashes /\ crashes' = crashes + 1
  /\ build' = next /\ (build = "new" => next = "new")
  /\ pc' = "idle" /\ ResetPass /\ live' = {} /\ seen' = <<>>
  /\ UNCHANGED <<fileVars, agentVars, cliVars, histVars, deaths, losses>>

-----------------------------------------------------------------------------
Sweep == SweepSkip \/ SweepBegin \/ settleUndeliverable \/ SweepEnd

Visit(r) ==
  \/ \E i, c \in 0..MaxLedger :
       \/ VisitHeld(r, i, c)
       \/ \E B \in SUBSET Ids : VisitChosen(r, i, c, B)
       \/ AppArm(r, i, c)
  \/ PickupHeld(r) \/ PickupRetry(r) \/ PickupAnswered(r)
  \/ AppResume(r) \/ AppResumeHeld(r)

Submit ==
  \/ SubmitHeld \/ SubmitPane \/ ArmPane \/ SubmitArmed \/ FinishSave
  \/ AppStart \/ AppStartHeld \/ AppRecord
  \/ \E i \in Ids : RecordAck(i)

Daemon ==
  \/ Sweep \/ PassBegin \/ Submit \/ PassEnd \/ RunThrows
  \/ \E r \in Recipient : Visit(r)

Agent(r) ==
  \/ StartPane(r) \/ Die(r) \/ Work(r) \/ FinishTurn(r) \/ Interrupt(r)
  \/ Block(r) \/ Unblock(r)

Hook(r) ==
  \/ \E B \in SUBSET Ids : HookRead(r, B)
  \/ HookAck(r) \/ HookEmit(r) \/ HookFail(r)

Others ==
  \/ \E letter \in Mail : appendMessage(letter)
  \/ \E i \in Ids : BecomeDue(i) \/ Take(i) \/ CancelRead(i) \/ CancelAppend(i)
  \/ \E r \in Managed : appendSession(r) \/ removeSession(r) \/ killSession(r)
  \/ \E r \in Inboxes, n \in 1..Len(ledger) : markRead(r, n)
  \/ \E r \in Recipient : Agent(r)
  \/ \E r \in HookPane : Hook(r)
  \/ loadCursorsMissing
  \/ \E how \in {"bad", "missing"} : LoseCursors(how)
  \/ \E how \in {"ok", "missing"} : RepairCursors(how)
  \/ \E next \in {"old", "new"} : Crash(next)

Next == Daemon \/ Others

Spec == Init /\ [][Next]_vars

\* The schedule runs every three seconds, the 15-second hold of a retry ends,
\* the supervisor restarts panes, turns end, hooks run to their end, the
\* operator repairs a damaged file and time passes.
Fairness ==
  /\ WF_vars(Daemon)
  /\ \A r \in Recipient :
       /\ SF_vars(PickupRetry(r)) /\ WF_vars(StartPane(r))
       /\ WF_vars(FinishTurn(r)) /\ WF_vars(Unblock(r))
  /\ \A r \in HookPane : WF_vars((\E B \in SUBSET Ids : HookRead(r, B)) \/ HookAck(r) \/ HookEmit(r))
  /\ \A i \in Ids : WF_vars(Take(i)) /\ WF_vars(BecomeDue(i))
  /\ WF_vars(loadCursorsMissing) /\ WF_vars(RepairCursors("ok"))

LiveSpec == Spec /\ Fairness

-----------------------------------------------------------------------------
(* Properties *)

Outcome == {"none", "delivered", "cancelled", "undeliverable"}

FilesOK ==
  /\ ledger \in Seq(Mail) /\ Len(ledger) <= MaxLedger
  /\ acks \in [Ids -> Outcome]
  /\ reg \in [Managed -> {"new", "live", "gone"}]
  /\ file \in {"ok", "bad", "missing"}

AgentsOK ==
  /\ due \subseteq Ids
  /\ pane \in [Recipient -> {"off", "idle", "working", "blocked"}]
  /\ tail \in [TranscriptPane -> {"done", "running"}]
  /\ submitted \in [TranscriptPane -> 0..MaxLedger]
  /\ typed \in [Ids -> Nat] /\ held \in [Ids -> Nat] /\ taken \in [Ids -> Nat]

CliOK ==
  /\ hookPc \in [HookPane -> {"none", "start", "read", "acked"}]
  /\ hookBatch \in [HookPane -> SUBSET (1..Len(ledger))]
  /\ cancelling \subseteq 1..Len(ledger) /\ cancels \in Nat

\* A letter is in hand exactly between its choice and its record.
InHand == {"submit", "record", "armed", "retry", "finish", "app", "appRecord"}
Passing == InHand \cup {"pass"}

RunOK ==
  /\ pc \in InHand \cup {"idle", "sweep", "sweepEnd", "swept", "pass"}
  /\ pick \in 0..Len(ledger) /\ (pick # 0 <=> pc \in InHand)
  /\ batch \subseteq 1..Len(ledger)
  /\ mLen \in 0..Len(ledger) /\ waiting \subseteq 1..mLen /\ todo \subseteq Recipient
  /\ sent \in Nat
  /\ live \subseteq Managed /\ build \in {"old", "new"}

CountsOK ==
  /\ skipped \subseteq Ids /\ closed \subseteq Ids
  /\ crashes \in Nat /\ deaths \in Nat /\ losses \in Nat

\* Every variable has its type, every cursor and pickup lies in the ledger, and
\* a letter is in hand exactly while the run is about it (local variables of
\* deliverPending and deliverAppPending).
TypeOK ==
  /\ FilesOK /\ AgentsOK /\ CliOK /\ RunOK /\ CountsOK
  /\ disk \in Cursors(Len(ledger)) /\ mem \in Cursors(Len(ledger)) /\ changed \in BOOLEAN

\* A letter reached its recipient: its transcript shows it, or it was pasted
\* into the Claude pane or accepted by the App Server.
Received(i) ==
  IF ledger[i].to \in TranscriptPane THEN taken[i] > 0 ELSE typed[i] > 0

Excused(i) == i \in skipped \cup closed \/ ledger[i].newer

\* Cursors c hide no letter: an immediate letter behind the delivered cursor
\* was received, or is the barrier the daemon still watches, or was stepped
\* over knowingly (armed cursors, the undeliverable sweep).
HidesNothing(c) ==
  \A i \in 1..Len(ledger) :
    ~isConditional(i) /\ i <= c.delivered[ledger[i].to] /\ ~Excused(i)
      => Received(i) \/ c.pickup[ledger[i].to] = i

\* No silent skip: whatever crashes, dies or is damaged, the cursors file
\* never leaves an undelivered immediate letter behind its cursor
\* (messageSchema.ts: "an immediate cursor cannot hide a submitted turn
\* without leaving the exact transcript barrier behind").
NoSilentSkip == file # "missing" => HidesNothing(disk)

\* A barrier stands only for a Codex recipient, and an immediate letter is
\* behind its cursor from the moment its barrier is armed.
BarrierSound(c) ==
  \A r \in Recipient :
    c.pickup[r] # 0 =>
      r \notin HookPane /\ (isConditional(c.pickup[r]) \/ c.pickup[r] <= c.delivered[r])

\* What deliverPending knows of the letter in its hand.
HandSound ==
  LET r == ledger[pick].to IN
  /\ pc = "submit" =>
       mem.pickup[r] = 0 /\ (~isConditional(pick) => mem.delivered[r] = pick - 1 /\ batch = {pick})
  /\ pc \in {"app", "appRecord"} => r \in App /\ mem.pickup[r] = pick
  /\ pc = "appRecord" => typed[pick] > 0

\* Every copy in a composer or a conversation was submitted.
CopiesSound == \A i \in Ids : held[i] + taken[i] <= typed[i]

\* The letters scanned at the start of a pass are on the conditional track.
WaitingSound == \A i \in waiting : isConditional(i)

\* NoSilentSkip made inductive: the daemon's copy hides nothing either while
\* a pass is on, since that copy is what it saves, and no step between the
\* choice of a letter and its record breaks what the save relies on.
SkipInv ==
  /\ file # "missing" => HidesNothing(disk) /\ BarrierSound(disk)
  /\ pc \in Passing => HidesNothing(mem) /\ BarrierSound(mem)
  /\ HandSound /\ CopiesSound /\ WaitingSound

\* With its cursors intact, a letter enters a Codex conversation at most once,
\* through daemon crashes, agent deaths and lost App Server answers.
TakenOnce ==
  losses = 0 => \A i \in 1..Len(ledger) : ledger[i].to \notin HookPane => taken[i] <= 1

\* An immediate letter is pasted into a Claude pane again only after a daemon
\* crash or a damaged cursors file lost the pass that pasted it.
RepeatsAreFaults ==
  \A i \in 1..Len(ledger) :
    ledger[i].to \in HookPane /\ ~isConditional(i) => typed[i] <= 1 + crashes + losses

\* Immediate mail reaches its recipient in ledger order.
InOrder ==
  \A j \in 1..Len(ledger) : \A i \in 1..j :
    /\ ledger[i].to = ledger[j].to /\ ~isConditional(i) /\ ~isConditional(j)
    /\ Received(j)
    => Received(i) \/ Excused(i)

\* A `delivered` row of the ack log is true: the letter was received, unless a
\* Stop hook wrote the row and is about to emit, or died before it could.
DeliveredIsTrue ==
  \A i \in 1..Len(ledger) :
    acks[i] = "delivered" =>
      \/ Received(i)
      \/ ledger[i].to \in HookPane /\ (deaths > 0 \/ reg[ledger[i].to] = "gone")
      \/ \E r \in HookPane : hookPc[r] = "acked" /\ i \in hookBatch[r]

\* What a recipient that pulls its letters itself is promised: nothing is skipped,
\* nothing is taken twice or out of order, and what is reported delivered was taken.
PickupSafe == TypeOK /\ NoSilentSkip /\ TakenOnce /\ InOrder /\ DeliveredIsTrue

\* No submission without its durable barrier: at the step that submits a
\* letter to a Codex recipient, the cursors file names that letter.
BarrierFirst ==
  [][\A i \in 1..Len(ledger) :
       ledger[i].to \notin HookPane /\ typed'[i] # typed[i] /\ losses = 0
         => disk.pickup[ledger[i].to] = i]_vars

\* Two writers, one file: no write moves a read or delivered cursor back
\* (`inbox` against the daemon's whole-pass copy).
CursorsForward ==
  [][losses' = 0 => \A r \in Recipient :
       disk.read[r] <= disk'.read[r] /\ disk.delivered[r] <= disk'.delivered[r]]_vars

-----------------------------------------------------------------------------
(* The safety properties made inductive *)

\* A barrier belongs to its recipient.
PickupsOwned ==
  \A c \in {disk, mem}, q \in Recipient : c.pickup[q] # 0 => ledger[c.pickup[q]].to = q

\* So does the letter in hand, with the batch that travels with it.
HandOwned ==
  LET r == ledger[pick].to IN
  /\ pc = "submit" => r \in Managed /\ pick <= mLen /\ (isConditional(pick) \/ Readable(pick))
  /\ pc \in {"armed", "retry"} => r \in TranscriptPane /\ mem.pickup[r] = pick
  /\ pc \in {"submit", "record"} /\ isConditional(pick) =>
       \A i \in batch : ledger[i].to = r /\ isConditional(i)
  /\ pc = "record" => r \in HookPane /\ isConditional(pick) /\ \A i \in batch : typed[i] > 0

HooksOwned ==
  \A q \in HookPane : \A i \in hookBatch[q] : ledger[i].to = q /\ isConditional(i)

\* The files know nothing of letters that are not written.
Unwritten == \A i \in Ids : i > Len(ledger) => typed[i] = 0 /\ acks[i] = "none"

OwnInv == PickupsOwned /\ HandOwned /\ HooksOwned /\ Unwritten

\* Of the immediate letters of a recipient, those before a submitted one were received.
SubmittedInOrder ==
  \A j \in 1..Len(ledger) : \A i \in 1..(j - 1) :
    /\ ledger[i].to = ledger[j].to /\ ~isConditional(i) /\ ~isConditional(j)
    /\ typed[j] > 0
    => Received(i) \/ Excused(i)

\* A pass scans no further than it began, and while nothing damages the cursors file, the
\* copy of the pass is ahead of it and keeps no barrier of its own.
AheadSound ==
  /\ pc \in Passing => \A r \in Recipient : mem.delivered[r] <= mLen
  /\ losses = 0 =>
       /\ file = "ok"
       /\ pc \in Passing => \A r \in Recipient :
            /\ disk.delivered[r] <= mem.delivered[r]
            /\ mem.pickup[r] # 0 => disk.pickup[r] = mem.pickup[r]

\* Cursors c will not let the daemon choose the submitted letter i again.
Watched(c, i) ==
  \/ c.pickup[ledger[i].to] = i
  \/ IF isConditional(i) THEN acks[i] # "none" ELSE i <= c.delivered[ledger[i].to]

\* The letters to Codex recipients.
Barred == {i \in 1..Len(ledger) : ledger[i].to \notin HookPane}

OneCopy == \A i \in Barred : held[i] + taken[i] <= 1

CopiesWatched ==
  \A i \in Barred : typed[i] > 0 => Watched(disk, i) /\ (pc \in Passing => Watched(mem, i))

\* A copy in a composer is the one its barrier and its pane option name.
ComposersBarred ==
  \A i \in Barred : LET r == ledger[i].to IN r \in TranscriptPane /\ held[i] > 0 =>
    disk.pickup[r] = i /\ submitted[r] = i /\ (pc \in Passing => mem.pickup[r] = i)

\* An App thread with a copy to take up is at work.
ThreadsAtWork ==
  \A i \in Barred : ledger[i].to \in App /\ pane[ledger[i].to] # "working" => held[i] = 0

\* What is about to be submitted is not in the conversation.
HandFresh ==
  \A i \in Barred : pick = i =>
    /\ pc \in {"submit", "armed", "app"} => typed[i] = 0
    /\ pc = "retry" => held[i] + taken[i] = 0

\* A letter to a Codex recipient has at most one copy.
OnceSound ==
  losses = 0 => OneCopy /\ CopiesWatched /\ ComposersBarred /\ ThreadsAtWork /\ HandFresh

\* The faults so far; one of them is spent on the running pass when its save will fail.
Faults == crashes + losses
Spent == IF pc \in Passing /\ file = "bad" THEN 1 ELSE 0

\* A letter that the cursors in force do not cover was lost with an earlier paste.
RepeatsSound ==
  \A i \in 1..Len(ledger) :
    LET r == ledger[i].to IN r \in HookPane /\ ~isConditional(i) =>
      /\ typed[i] > 0 => Readable(i)
      /\ typed[i] + Spent <= 1 + Faults
      /\ pc \in Passing /\ mem.delivered[r] < i => typed[i] + Spent <= Faults
      /\ file # "missing" /\ disk.delivered[r] < i /\ (pc \in Passing => ~changed) =>
           typed[i] <= Faults

\* Everything the daemon keeps while it delivers.
DeliveryInv ==
  /\ SkipInv /\ OwnInv /\ SubmittedInOrder /\ DeliveredIsTrue
  /\ AheadSound /\ OnceSound /\ RepeatsSound

-----------------------------------------------------------------------------
(* Liveness *)

\* Letter i no longer waits.
Done(i) ==
  \/ IF isConditional(i) THEN acks[i] # "none" ELSE Received(i) \/ Excused(i)
  \/ ledger[i].to \in Managed /\ reg[ledger[i].to] = "gone"

\* Nobody but chat drives the recipients any more.
Quiet == <>[][~\E r \in Recipient : Work(r) \/ Block(r)]_vars

\* Nothing waits for ever: a letter to a session that still exists is received
\* or settled once people leave the recipients alone, whatever crashed before.
\* A Codex agent must not die: the barrier of a turn that died with its agent
\* is never answered, and the code has no other way to end it.
EveryLetterSettles ==
  Quiet /\ (TranscriptPane = {} \/ [](deaths = 0))
    => \A i \in Ids : (i <= Len(ledger)) ~> (i <= Len(ledger) /\ Done(i))

=============================================================================
