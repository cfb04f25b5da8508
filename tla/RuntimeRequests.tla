--------------------------- MODULE RuntimeRequests ---------------------------
(***************************************************************************)
(* What a caller may ask a live Claude session to do besides a turn: stop  *)
(* its turn (runtime/interrupt.ts), change its permission mode or run one  *)
(* of the other operations of a mailbox (runtime/mailbox.ts), and answer   *)
(* an approval (runtime/response.ts, control/nativeFeed.ts).  Callers and  *)
(* the owner of the session (agent/claude/native) meet in files only.      *)
(***************************************************************************)
EXTENDS Naturals, Sequences

CONSTANTS
  Answers,     \* operations that answer an approval
  BoxOps,      \* operations of the mailboxes
  Kind,        \* BoxOps -> the mailbox: "mode", "rewind" or "mcp"
  MaxTurns,    \* bound: turns
  MaxDeaths,   \* bound: deaths of the owner
  None

Kinds == {"mode", "rewind", "mcp"}
Modes == {"default", "plan"}
Turns == 1..MaxTurns

\* What receipt.json and the slot of a mailbox may hold.
Outcomes == {"uncertain", "submitted", "rejected"}
Receipts == [op : Answers, outcome : Outcomes]
Slots == [op : BoxOps, mode : Modes, phase : {"queued", "complete", "failed"}]

\* An answer is no request of a mailbox, every request has its mailbox, and None is neither an
\* operation nor what a file holds.
ConstantsOK ==
  /\ Answers \cap BoxOps = {} /\ Kind \in [BoxOps -> Kinds]
  /\ None \notin Answers \cup BoxOps /\ None \notin Receipts /\ None \notin Slots
  /\ MaxTurns \in Nat /\ MaxDeaths \in Nat

VARIABLES
  \* files
  cmd,     \* command.json: the answer waiting, or None
  rcpt,    \* receipt.json: [op, outcome]
  intr,    \* interrupt.json: [turn, phase]
  box,     \* per mailbox: [op, mode, phase]
  \* the owner of the session
  at,      \* where its tick is, or "down"
  held,    \* the request it works on
  proj,    \* its projection: turn, requests, mode.  Every change of it is published at
           \* once; what lags is a caller, between its check and its write
  \* the provider, its child
  run,     \* [turn, waits, mode, queue]; turn 0 is no turn
  out,     \* terminal messages the owner has not read
  \* callers
  call,    \* per operation
  asking,  \* interrupts that passed their check and are not written yet
  \* for the properties
  paid,    \* per answer: the approval it is for (by its turn)
  given,   \* per answer: how often the provider was given it
  ran,     \* per mailbox: the operation of its slot and how often it ran
  deaths

files == <<cmd, rcpt, intr, box>>
owner == <<at, held, proj>>
provider == <<run, out>>
callers == <<call, asking, paid>>
ghosts == <<given, ran, deaths>>
vars == <<files, owner, provider, callers, ghosts>>

NoTurn == [up |-> FALSE, turn |-> 0, status |-> "none", outstanding |-> 0,
           asked |-> {}, mode |-> "default"]
Quiet == [turn |-> 0, waits |-> FALSE, mode |-> "default", queue |-> <<>>]

Init ==
  /\ cmd = None /\ rcpt = None /\ intr = None /\ box = [k \in Kinds |-> None]
  /\ at = "down" /\ held = None /\ proj = NoTurn /\ run = Quiet /\ out = <<>>
  /\ call = [o \in Answers \cup BoxOps |-> "none"] /\ asking = {}
  /\ paid = [a \in Answers |-> 0] /\ given = [a \in Answers |-> 0]
  /\ ran = [k \in Kinds |-> [op |-> None, n |-> 0]] /\ deaths = 0

-----------------------------------------------------------------------------
(* Callers *)

Say(o, s) == call' = [call EXCEPT ![o] = s]
KnownOutcome(a) == rcpt # None /\ rcpt.op = a

\* respondControlNative: a receipt first, then the published request, then the
\* slot, which one answer holds.  An answer that came to nothing may be repeated.
Respond(a) ==
  /\ call[a] \in {"none", "uncertain", "busy", "stale"}
  /\ IF KnownOutcome(a) THEN Say(a, rcpt.outcome) /\ UNCHANGED paid
     ELSE \E t \in IF paid[a] = 0 THEN Turns ELSE {paid[a]} :
            /\ paid' = [paid EXCEPT ![a] = t]
            /\ Say(a, CASE ~proj.up \/ t \notin proj.asked -> "stale"
                        [] cmd # None /\ cmd # a -> "busy"
                        [] cmd = a -> "waiting"
                        [] OTHER -> "writing")
  /\ UNCHANGED <<files, owner, provider, asking, ghosts>>

writeNativeCommand(a) ==
  /\ call[a] = "writing" /\ cmd' = a /\ Say(a, "waiting")
  /\ UNCHANGED <<rcpt, intr, box, owner, provider, asking, paid, ghosts>>

AwaitReceipt(a) ==
  /\ call[a] = "waiting" /\ Say(a, IF KnownOutcome(a) THEN rcpt.outcome ELSE "uncertain")
  /\ UNCHANGED <<files, owner, provider, asking, paid, ghosts>>

isCancellable(p, t) == p.up /\ p.turn = t /\ p.status = "inProgress"

\* requestRuntimeInterrupt; its operation is the turn, so a receipt for the turn
\* is never written twice.
requestRuntimeInterrupt(t) ==
  \/ /\ t \notin asking /\ isCancellable(proj, t) /\ asking' = asking \cup {t} /\ UNCHANGED intr
     /\ UNCHANGED <<cmd, rcpt, box, owner, provider, call, paid, ghosts>>
  \/ /\ t \in asking /\ asking' = asking \ {t}
     /\ intr' = IF intr # None /\ intr.turn = t THEN intr ELSE [turn |-> t, phase |-> "queued"]
     /\ UNCHANGED <<cmd, rcpt, box, owner, provider, call, paid, ghosts>>

Mine(o) == box[Kind[o]] # None /\ box[Kind[o]].op = o

\* Mailbox.settle
Settled(o) ==
  LET b == box[Kind[o]] IN
  IF b.phase = "failed" THEN "refused"
  ELSE IF b.phase = "complete" /\ (Kind[o] = "mode" => proj.mode = b.mode) THEN "done"
  ELSE "waiting"

\* Mutant: a repeated operation is written again.
RequestAgain(o) ==
  /\ call[o] \in {"none", "unavailable", "done"}
  /\ IF ~proj.up THEN Say(o, "unavailable") ELSE Say(o, "writing")
  /\ UNCHANGED <<files, owner, provider, asking, paid, ghosts>>

\* Mailbox.request; a caller that got no answer, or lost it, asks again.
Request(o) ==
  /\ call[o] \in {"none", "unavailable", "done"}
  /\ Say(o, IF ~proj.up THEN "unavailable" ELSE IF Mine(o) THEN Settled(o) ELSE "writing")
  /\ UNCHANGED <<files, owner, provider, asking, paid, ghosts>>

WriteRequest(o) ==
  /\ call[o] = "writing" /\ Say(o, "waiting")
  /\ \E v \in IF Kind[o] = "mode" THEN Modes ELSE {"default"} :
       box' = [box EXCEPT ![Kind[o]] = [op |-> o, mode |-> v, phase |-> "queued"]]
  /\ ran' = [ran EXCEPT ![Kind[o]] = IF @.op = o THEN @ ELSE [op |-> o, n |-> 0]]
  /\ UNCHANGED <<cmd, rcpt, intr, owner, provider, asking, paid, given, deaths>>

AwaitRequest(o) ==
  /\ call[o] = "waiting"
  /\ Say(o, IF ~Mine(o) THEN "mismatch"
            ELSE IF Settled(o) = "waiting" THEN "unavailable" ELSE Settled(o))
  /\ UNCHANGED <<files, owner, provider, asking, paid, ghosts>>

-----------------------------------------------------------------------------
(* The owner's tick: the mailboxes in their order, then the next turn *)

open ==
  /\ at = "down" /\ at' = "restoring" /\ held' = None /\ run' = Quiet /\ out' = <<>>
  /\ proj' = [proj EXCEPT !.up = TRUE]
  /\ UNCHANGED <<files, callers, ghosts>>

shouldRestoreMode == box["mode"] # None /\ box["mode"].phase = "complete"

\* Mutant: the provider comes up in its own mode.
restoreModeNot ==
  /\ at = "restoring" /\ at' = "idle"
  /\ UNCHANGED <<cmd, rcpt, intr, box, held, proj, provider, callers, ghosts>>

restoreMode ==
  /\ at = "restoring" /\ at' = "idle"
  /\ LET v == IF shouldRestoreMode THEN box["mode"].mode ELSE "default" IN
       /\ proj' = [proj EXCEPT !.mode = v] /\ run' = [run EXCEPT !.mode = v]
  /\ UNCHANGED <<cmd, rcpt, intr, box, held, out, callers, ghosts>>

\* The provider says that its turn is over and takes the next prompt it has.
EndTurn ==
  /\ out' = Append(out, run.turn)
  /\ run' = IF run.queue = <<>> THEN [run EXCEPT !.turn = 0, !.waits = FALSE]
            ELSE [run EXCEPT !.turn = Head(run.queue), !.waits = FALSE, !.queue = Tail(@)]

Goto(s) == at' = s /\ held' = None

\* applyInterrupt: checked, written uncertain, checked again after the write.
applyInterrupt ==
  /\ at = "idle"
  /\ IF intr = None \/ intr.phase \notin {"queued", "uncertain"}
     THEN Goto("mode") /\ UNCHANGED intr
     ELSE IF ~isCancellable(proj, intr.turn)
     THEN Goto("mode") /\ intr' = [intr EXCEPT !.phase = "rejected"]
     ELSE at' = "recheck" /\ held' = intr.turn /\ intr' = [intr EXCEPT !.phase = "uncertain"]
  /\ UNCHANGED <<cmd, rcpt, box, proj, provider, callers, ghosts>>

WriteIntr(s) == intr' = [turn |-> held, phase |-> s]

\* settleAll('cancel') answers what the provider waits for.
Recheck ==
  /\ at = "recheck"
  /\ IF ~isCancellable(proj, held) THEN Goto("mode") /\ WriteIntr("rejected") /\ UNCHANGED <<proj, run>>
     ELSE /\ at' = "stopping" /\ held' = held /\ UNCHANGED intr
          /\ proj' = [proj EXCEPT !.asked = {}] /\ run' = [run EXCEPT !.waits = FALSE]
  /\ UNCHANGED <<cmd, rcpt, box, out, callers, ghosts>>

\* query.interrupt(): the provider stops what it runs, and says so later.
StopTurn ==
  /\ at = "stopping"
  /\ \/ /\ at' = "stopped" /\ held' = held /\ UNCHANGED intr
        /\ IF run.turn = 0 THEN UNCHANGED provider ELSE EndTurn
     \/ Goto("mode") /\ WriteIntr("rejected") /\ UNCHANGED provider
  /\ UNCHANGED <<cmd, rcpt, box, proj, callers, ghosts>>

Interrupted ==
  /\ at = "stopped" /\ Goto("mode") /\ WriteIntr("accepted")
  /\ proj' = [proj EXCEPT !.status = "interrupted", !.outstanding = 0]
  /\ UNCHANGED <<cmd, rcpt, box, provider, callers, ghosts>>

\* applyMode, applyRewind, applyMcpRequest: one slot each; the first two only
\* between turns.  The request is read once and its receipt written over the slot.
Order == <<"mode", "rewind", "mcp", "answer">>
After(k) == Order[1 + CHOOSE i \in 1..3 : Order[i] = k]
Applicable(k) ==
  /\ box[k] # None /\ box[k].phase = "queued"
  /\ k # "mcp" => proj.status # "inProgress"

Skip(k) ==
  /\ at = k /\ ~Applicable(k) /\ Goto(After(k))
  /\ UNCHANGED <<files, proj, provider, callers, ghosts>>

Apply(k) ==
  /\ at = k /\ Applicable(k)
  /\ ran' = [ran EXCEPT ![k].n = IF ran[k].op = box[k].op THEN @ + 1 ELSE @]
  /\ \/ /\ at' = "applied" /\ held' = <<k, box[k]>> /\ UNCHANGED box
        /\ run' = [run EXCEPT !.mode = IF k = "mode" THEN box[k].mode ELSE @]
     \/ Goto(After(k)) /\ box' = [box EXCEPT ![k].phase = "failed"] /\ UNCHANGED run
  /\ UNCHANGED <<cmd, rcpt, intr, proj, out, callers, given, deaths>>

Applied ==
  /\ at = "applied"
  /\ LET k == held[1] IN
       /\ box' = [box EXCEPT ![k] = [held[2] EXCEPT !.phase = "complete"]]
       /\ proj' = [proj EXCEPT !.mode = IF k = "mode" THEN held[2].mode ELSE @]
       /\ Goto(After(k))
  /\ UNCHANGED <<cmd, rcpt, intr, provider, callers, given, ran, deaths>>

\* answerNativeCommand: a receipt for it settles it, a refusal is a receipt, and
\* "uncertain" is written before the provider is told.
\* Mutant: nothing is written before the provider is told.
answerUnannounced ==
  /\ at = "answer"
  /\ IF cmd = None THEN Goto("pickup") /\ UNCHANGED <<cmd, rcpt>>
     ELSE IF KnownOutcome(cmd) THEN Goto("pickup") /\ cmd' = None /\ UNCHANGED rcpt
     ELSE IF paid[cmd] \notin proj.asked
     THEN Goto("clear") /\ rcpt' = [op |-> cmd, outcome |-> "rejected"] /\ UNCHANGED cmd
     ELSE at' = "submit" /\ held' = cmd /\ UNCHANGED <<cmd, rcpt>>
  /\ UNCHANGED <<intr, box, proj, provider, callers, ghosts>>

answerNativeCommand ==
  /\ at = "answer"
  /\ IF cmd = None THEN Goto("pickup") /\ UNCHANGED <<cmd, rcpt>>
     ELSE IF KnownOutcome(cmd) THEN Goto("pickup") /\ cmd' = None /\ UNCHANGED rcpt
     ELSE IF paid[cmd] \notin proj.asked
     THEN Goto("clear") /\ rcpt' = [op |-> cmd, outcome |-> "rejected"] /\ UNCHANGED cmd
     ELSE at' = "submit" /\ held' = cmd /\ rcpt' = [op |-> cmd, outcome |-> "uncertain"]
          /\ UNCHANGED cmd
  /\ UNCHANGED <<intr, box, proj, provider, callers, ghosts>>

\* Mutant: the count of open requests has no floor.
SubmitUnfloored ==
  /\ at = "submit" /\ paid[held] \in proj.asked /\ at' = "submitted" /\ held' = held
  /\ proj' = [proj EXCEPT !.asked = @ \ {paid[held]}, !.outstanding = @ - 1]
  /\ run' = [run EXCEPT !.waits = FALSE] /\ given' = [given EXCEPT ![held] = @ + 1]
  /\ UNCHANGED <<cmd, rcpt, intr, box, out, callers, ran, deaths>>

\* applyResponse.submit
Submit ==
  /\ at = "submit" /\ paid[held] \in proj.asked /\ at' = "submitted" /\ held' = held
  /\ proj' = [proj EXCEPT !.asked = @ \ {paid[held]},
                          !.outstanding = IF @ = 0 THEN 0 ELSE @ - 1]
  /\ run' = [run EXCEPT !.waits = FALSE]
  /\ given' = [given EXCEPT ![held] = @ + 1]
  /\ UNCHANGED <<cmd, rcpt, intr, box, out, callers, ran, deaths>>

Submitted ==
  /\ at = "submitted" /\ Goto("clear") /\ rcpt' = [op |-> held, outcome |-> "submitted"]
  /\ UNCHANGED <<cmd, intr, box, proj, provider, callers, ghosts>>

clearNativeCommand ==
  /\ at = "clear" /\ Goto("pickup") /\ cmd' = None
  /\ UNCHANGED <<rcpt, intr, box, proj, provider, callers, ghosts>>

\* TurnPickup.run: one turn at a time.  Whether there is one is not modelled here.
pickup ==
  /\ at = "pickup" /\ Goto("idle")
  /\ \/ /\ proj.status # "inProgress" /\ proj.turn < MaxTurns
        /\ proj' = [proj EXCEPT !.turn = @ + 1, !.status = "inProgress"]
        /\ run' = IF run.turn = 0 THEN [run EXCEPT !.turn = proj.turn + 1]
                  ELSE [run EXCEPT !.queue = Append(@, proj.turn + 1)]
     \/ UNCHANGED <<proj, run>>
  /\ UNCHANGED <<files, out, callers, ghosts>>

\* drain: a terminal message closes the turn that runs, whichever it is about.
drain ==
  /\ at # "down" /\ out # <<>> /\ out' = Tail(out)
  /\ proj' = [proj EXCEPT !.status = IF @ = "inProgress" THEN "completed" ELSE @]
  /\ UNCHANGED <<files, at, held, run, callers, ghosts>>

\* The process ends, by a crash, by a stream that ended or by an answer whose
\* request went away; its child goes with it.
OwnerDies ==
  /\ at # "down" /\ deaths < MaxDeaths /\ deaths' = deaths + 1
  /\ Goto("down") /\ run' = Quiet /\ out' = <<>> /\ proj' = [NoTurn EXCEPT !.turn = proj.turn]
  /\ ran' = [k \in Kinds |-> [ran[k] EXCEPT !.n = 0]]
  /\ UNCHANGED <<cmd, rcpt, intr, box, callers, given>>

-----------------------------------------------------------------------------
(* The provider *)

\* canUseTool: ClaudeNativeOwner.decide.  A turn asks once, under its own number.
decide ==
  /\ at # "down" /\ run.turn # 0 /\ ~run.waits /\ \A a \in Answers : given[a] = 0 \/ paid[a] # run.turn
  /\ run.turn \notin proj.asked /\ run' = [run EXCEPT !.waits = TRUE]
  /\ proj' = [proj EXCEPT !.asked = @ \cup {run.turn}, !.outstanding = @ + 1]
  /\ UNCHANGED <<files, at, held, out, callers, ghosts>>

FinishTurn ==
  /\ run.turn # 0 /\ ~run.waits /\ EndTurn
  /\ UNCHANGED <<files, owner, callers, ghosts>>

Next ==
  \/ \E a \in Answers : Respond(a) \/ writeNativeCommand(a) \/ AwaitReceipt(a)
  \/ \E t \in Turns : requestRuntimeInterrupt(t)
  \/ \E o \in BoxOps : Request(o) \/ WriteRequest(o) \/ AwaitRequest(o)
  \/ open \/ restoreMode \/ applyInterrupt \/ Recheck \/ StopTurn \/ Interrupted
  \/ \E k \in Kinds : Skip(k) \/ Apply(k)
  \/ Applied \/ answerNativeCommand \/ Submit \/ Submitted \/ clearNativeCommand
  \/ pickup \/ drain \/ OwnerDies
  \/ decide \/ FinishTurn

Spec == Init /\ [][Next]_vars

-----------------------------------------------------------------------------
(* Properties *)

Told == Outcomes \cup {"none", "busy", "stale", "writing", "waiting", "unavailable", "mismatch",
                      "refused", "done"}
Places == Kinds \cup {"down", "restoring", "idle", "recheck", "stopping", "stopped", "applied",
                     "answer", "submit", "submitted", "clear", "pickup"}

Runs == [turn : 0..MaxTurns, waits : BOOLEAN, mode : Modes, queue : Seq(Turns)]
Projections ==
  [up : BOOLEAN, turn : 0..MaxTurns, outstanding : Nat, asked : SUBSET Turns, mode : Modes,
   status : {"none", "inProgress", "completed", "interrupted"}]
Counts == [op : BoxOps \cup {None}, n : Nat]

\* What the owner has in hand at each place of its tick.
HeldOK ==
  /\ at \in {"recheck", "stopping", "stopped"} => held \in Turns
  /\ at = "applied" => held \in Kinds \X Slots
  /\ at \in {"submit", "submitted"} => held \in Answers

TypeOK ==
  /\ cmd \in Answers \cup {None}
  /\ rcpt = None \/ rcpt \in Receipts
  /\ intr = None \/ intr \in [turn: Turns, phase: {"queued", "uncertain", "accepted", "rejected"}]
  /\ box \in [Kinds -> Slots \cup {None}]
  /\ at \in Places /\ HeldOK
  /\ proj \in Projections /\ run \in Runs
  /\ out \in Seq(Turns) /\ call \in [Answers \cup BoxOps -> Told] /\ asking \subseteq Turns
  /\ paid \in [Answers -> 0..MaxTurns] /\ given \in [Answers -> Nat]
  /\ ran \in [Kinds -> Counts] /\ deaths \in 0..MaxDeaths

\* What an answer is told is so: `submitted` was given to the provider, once, and
\* `rejected` was not, across a death between the provider and the receipt
\* (answerNativeCommand).
AnswerTold ==
  \A a \in Answers : /\ given[a] <= 1
                     /\ call[a] = "submitted" => given[a] = 1
                     /\ call[a] = "rejected" => given[a] = 0

\* The same operation asked twice is one operation while its receipt is there and
\* its owner lives (Mailbox.request).
AskedTwiceIsOnce == \A k \in Kinds : ran[k].n <= 1

\* A turn begins in the mode of the completed request in the slot, whatever died
\* since (restoreMode).
BeginsInMode == run'.turn \notin {0, run.turn} /\ shouldRestoreMode => run.mode = box["mode"].mode
ModeRestored == [][BeginsInMode]_vars

-----------------------------------------------------------------------------
(* The properties made inductive *)

Answering(a) == at \in {"submit", "submitted"} /\ held = a
Queued(k, o) == box[k] # None /\ box[k].op = o /\ box[k].phase = "queued"

\* The owner has said that it does not know, before it gives an answer away.
Announced ==
  \A a \in Answers : Answering(a) =>
    /\ rcpt = [op |-> a, outcome |-> "uncertain"]
    /\ at = "submitted" => given[a] = 1

\* A receipt is true.
ReceiptTrue ==
  rcpt # None => /\ rcpt.outcome = "submitted" => given[rcpt.op] = 1
                 /\ rcpt.outcome = "rejected" => given[rcpt.op] = 0

\* An approval that was answered is not asked for again.
GivenOnce ==
  \A a \in Answers : given[a] <= 1 /\ (given[a] > 0 => paid[a] # 0 /\ paid[a] \notin proj.asked)

\* An answer about to be written was not given; one in the slot that was given is known.
WritesFresh ==
  \A a \in Answers : /\ call[a] = "writing" => cmd # a /\ ~Answering(a) /\ given[a] = 0
                     /\ cmd = a /\ given[a] > 0 => KnownOutcome(a)

\* What a caller was told of its answer stays so.
ToldTrue ==
  \A a \in Answers :
    /\ call[a] = "submitted" => given[a] = 1
    /\ call[a] = "rejected" => given[a] = 0 /\ ~Answering(a) /\ (cmd = a => KnownOutcome(a))

\* A request that waits in its mailbox has not run, unless the owner is about to say so; one
\* that has run is in its mailbox.
RanOnce ==
  \A k \in Kinds :
    /\ ran[k].n <= 1
    /\ ran[k].n > 0 => /\ box[k] # None /\ box[k].op = ran[k].op
                       /\ at = "applied" /\ held[1] = k => held[2].op = ran[k].op
    /\ box[k] # None /\ box[k].phase = "queued" =>
         ran[k].op = box[k].op /\ (ran[k].n = 0 \/ (at = "applied" /\ held[1] = k))

\* A request about to be written has not run and does not wait there already.
WritesOnce ==
  \A o \in BoxOps : call[o] = "writing" =>
    ~Queued(Kind[o], o) /\ (ran[Kind[o]].op = o => ran[Kind[o]].n = 0)

\* A provider that is up is in the mode of the completed request.
ModeHeld ==
  /\ at \in {"down", "restoring"} => run.turn = 0
  /\ at \notin {"down", "restoring"} /\ shouldRestoreMode => run.mode = box["mode"].mode
  /\ at = "applied" /\ held[1] = "mode" => run.mode = held[2].mode

RequestsInv ==
  /\ Announced /\ ReceiptTrue /\ GivenOnce /\ WritesFresh /\ ToldTrue
  /\ RanOnce /\ WritesOnce /\ ModeHeld
=============================================================================
