------------------------------ MODULE Steering ------------------------------
(***************************************************************************)
(* Text put into the running turn of an owned Codex session                *)
(* (src/src/steering).  A caller names its operation and the turn it       *)
(* means; the intent is in the journal before the runtime is asked, the    *)
(* runtime takes the text only into that turn, and an answer that is lost  *)
(* leaves the operation uncertain until the thread itself shows the text.  *)
(* One process at a time steers: it holds the admission and the registry   *)
(* lock to the end, or dies with them.                                     *)
(***************************************************************************)
EXTENDS Naturals, FiniteSets

CONSTANTS
  Steers,                 \* operation ids of turn.steer
  MaxTurns, MaxKills,     \* bounds: turns of the session, deaths of a steering process
  Capacity,               \* STEERING_LIMITS.operations
  Window,                 \* turns findOwnedCodexReceipt reads, the newest first
  None

VARIABLES
  journal,      \* steering.json: per operation its phase and the turn it names
  want,         \* the turn a caller means with its operation, 0 before it asks
  job,          \* the process that steers: its step, its operation and how it ends
  gate,         \* whether the pane takes keys
  turn, busy,   \* turns of the thread so far, and whether the last one runs
  shown,        \* the turn the published status says is running, or 0
  items,        \* operations whose text the runtime has put into a turn
  pins,         \* operations whose images are pinned
  told,         \* what the callers of an operation were told
  times, kills  \* ghosts: how often the runtime took an operation; deaths

vars == <<journal, want, job, gate, turn, busy, shown, items, pins, told, times, kills>>
thread == <<turn, busy, shown>>

NoOp == [phase |-> "none", turn |-> 0]
Idle == [at |-> "idle", op |-> None, reply |-> None]

Init ==
  /\ journal = [o \in Steers |-> NoOp] /\ want = [o \in Steers |-> 0] /\ job = Idle
  /\ gate = TRUE /\ turn = 1 /\ busy = TRUE /\ shown = 1
  /\ items = [o \in Steers |-> 0] /\ pins = {} /\ told = [o \in Steers |-> {}]
  /\ times = [o \in Steers |-> 0] /\ kills = 0

Step(s) == job' = [job EXCEPT !.at = s]
Journaled == {o \in Steers : journal[o].phase # "none"}

\* The published status: this turn, in progress.
requireSteeringTurn(o) == shown # 0 /\ shown = want[o]

-----------------------------------------------------------------------------
(* Callers *)

\* The first call of an operation fixes what it means: a later one that means another
\* turn has another fingerprint and is refused.  Images and a person at the keyboard
\* refuse as well.
steerNativeTurn(o) ==
  /\ job = Idle
  /\ \E t \in 1..turn : (want[o] # 0 => t = want[o]) /\ want' = [want EXCEPT ![o] = t]
  /\ job' = [Idle EXCEPT !.op = o, !.at = "prior"]
  /\ UNCHANGED <<journal, gate, thread, items, pins, told, times, kills>>

readNativeSteering(o) ==
  /\ job = Idle /\ o \in Journaled
  /\ job' = [Idle EXCEPT !.op = o, !.at = IF journal[o].phase = "submitted" THEN "answer" ELSE "reconcile"]
  /\ UNCHANGED <<journal, want, gate, thread, items, pins, told, times, kills>>

\* Mutant: an uncertain operation is submitted once more.
priorSubmitted ==
  /\ job.at = "prior"
  /\ IF journal[job.op].phase = "submitted"
     THEN Step("answer")
     ELSE \/ Cardinality(Journaled) < Capacity /\ requireSteeringTurn(job.op) /\ Step("gate")
          \/ job' = Idle
  /\ UNCHANGED <<journal, want, gate, thread, items, pins, told, times, kills>>
\* An operation the journal knows is never submitted again.
priorSteering ==
  /\ job.at = "prior"
  /\ IF job.op \in Journaled
     THEN Step(IF journal[job.op].phase = "submitted" THEN "answer" ELSE "reconcile")
     ELSE \/ Cardinality(Journaled) < Capacity /\ requireSteeringTurn(job.op) /\ Step("gate")
          \/ job' = Idle
  /\ UNCHANGED <<journal, want, gate, thread, items, pins, told, times, kills>>

\* submit: keys off, the pane and the thread looked at, images pinned.
closeGate ==
  /\ job.at = "gate"
  /\ \/ gate' = FALSE /\ Step(IF busy THEN "pin" ELSE "open")
     \/ job' = Idle /\ UNCHANGED gate
  /\ UNCHANGED <<journal, want, thread, items, pins, told, times, kills>>
pin ==
  /\ job.at = "pin" /\ pins' = pins \cup {job.op}
  /\ Step("open") \/ (requireSteeringTurn(job.op) /\ Step("intend"))
  /\ UNCHANGED <<journal, want, gate, thread, items, told, times, kills>>

\* Mutant: no intent before the call.
intendNothing ==
  /\ job.at = "intend" /\ Step("request")
  /\ UNCHANGED <<journal, want, gate, thread, items, pins, told, times, kills>>
intend ==
  /\ job.at = "intend" /\ Step("request")
  /\ journal' = [journal EXCEPT ![job.op] = [phase |-> "intent", turn |-> want[job.op]]]
  /\ UNCHANGED <<want, gate, thread, items, pins, told, times, kills>>

\* turn/steer: the runtime compares the turn; its answer may be lost either way.
request ==
  /\ job.at = "request"
  /\ LET taken == busy /\ turn = want[job.op] IN
       /\ items' = IF taken THEN [items EXCEPT ![job.op] = turn] ELSE items
       /\ times' = IF taken THEN [times EXCEPT ![job.op] = @ + 1] ELSE times
       /\ \E ack \in BOOLEAN :
            /\ ack => taken
            /\ job' = [job EXCEPT !.at = "settle", !.reply = IF ack THEN "submitted" ELSE "uncertain"]
  /\ UNCHANGED <<journal, want, gate, thread, pins, told, kills>>
\* The second write; the answer of a call without one is uncertain.
settle ==
  /\ job.at = "settle"
  /\ journal' = [journal EXCEPT ![job.op] = [phase |-> job.reply, turn |-> want[job.op]]]
  /\ told' = [told EXCEPT ![job.op] = @ \cup {job.reply}]
  /\ Step("open")
  /\ UNCHANGED <<want, gate, thread, items, pins, times, kills>>
openGate ==
  /\ job.at = "open" /\ gate' = TRUE /\ job' = Idle
  /\ UNCHANGED <<journal, want, thread, items, pins, told, times, kills>>

\* Mutant: a thread that does not show the text is taken as a refusal of it.
reconcileAbsent ==
  /\ job.at = "reconcile"
  /\ LET o == job.op IN
       journal' = IF items[o] # 0 /\ items[o] + Window > turn
                  THEN [journal EXCEPT ![o].phase = "submitted"] ELSE [journal EXCEPT ![o] = NoOp]
  /\ Step("answer")
  /\ UNCHANGED <<want, gate, thread, items, pins, told, times, kills>>
\* Only a turn that holds the text, among the last ones, and the one that was meant.
reconcileSteering ==
  /\ job.at = "reconcile"
  /\ LET o == job.op IN LET near == items[o] # 0 /\ items[o] + Window > turn IN
     \E accepted \in BOOLEAN : \* the thread may be out of reach
       /\ accepted => near /\ items[o] = journal[o].turn
       /\ journal' = [journal EXCEPT ![o].phase = IF accepted THEN "submitted" ELSE "uncertain"]
  /\ Step("answer")
  /\ UNCHANGED <<want, gate, thread, items, pins, told, times, kills>>
answer ==
  /\ job.at = "answer" /\ job' = Idle
  /\ told' = [told EXCEPT ![job.op] = @ \cup {journal[job.op].phase}]
  /\ UNCHANGED <<journal, want, gate, thread, items, pins, times, kills>>

\* A process that steers dies; its locks go, the gate stays as it is.
Die ==
  /\ job # Idle /\ kills < MaxKills /\ kills' = kills + 1 /\ job' = Idle
  /\ UNCHANGED <<journal, want, gate, thread, items, pins, told, times>>

-----------------------------------------------------------------------------
(* The runtime and the status its owner publishes *)

TurnEnds == busy /\ busy' = FALSE /\ UNCHANGED <<turn, shown>>
TurnBegins == ~busy /\ turn < MaxTurns /\ turn' = turn + 1 /\ busy' = TRUE /\ UNCHANGED shown
Publish == shown' = (IF busy THEN turn ELSE 0) /\ shown' # shown /\ UNCHANGED <<turn, busy>>

Next ==
  \/ \E o \in Steers : steerNativeTurn(o) \/ readNativeSteering(o)
  \/ priorSteering \/ closeGate \/ pin \/ intend \/ request \/ settle \/ openGate
  \/ reconcileSteering \/ answer \/ Die
  \/ /\ TurnEnds \/ TurnBegins \/ Publish
     /\ UNCHANGED <<journal, want, job, gate, items, pins, told, times, kills>>

Spec == Init /\ [][Next]_vars

-----------------------------------------------------------------------------
(* Properties *)

Phases == {"none", "intent", "submitted", "uncertain"}
TypeOK ==
  /\ journal \in [Steers -> [phase : Phases, turn : 0..MaxTurns]] /\ want \in [Steers -> 0..MaxTurns]
  /\ gate \in BOOLEAN /\ turn \in 1..MaxTurns /\ busy \in BOOLEAN /\ shown \in 0..MaxTurns
  /\ items \in [Steers -> 0..MaxTurns] /\ pins \subseteq Steers /\ kills \in 0..MaxKills
  /\ told \in [Steers -> SUBSET {"intent", "submitted", "uncertain"}]
  /\ job \in [at : {"idle", "prior", "gate", "pin", "intend", "request", "settle", "open",
                   "reconcile", "answer"},
             op : Steers \cup {None}, reply : {None, "submitted", "uncertain"}]
  /\ times \in [Steers -> Nat]

\* "A bounded negative lookup is not permission to replay": the text of an operation is
\* in the thread at most once, in the turn it named, whatever died or was lost
\* (steering/service.ts, receipt.ts).
SteeredOnce ==
  \A o \in Steers : times[o] <= 1 /\ items[o] \in {0, want[o]} /\ (items[o] # 0 => o \in pins)

\* A caller that is told "submitted" has its text in the turn it named, and no later
\* call takes that back; nobody is told of an intent.
SteerTold ==
  \A o \in Steers :
    /\ "submitted" \in told[o] => items[o] = want[o] /\ journal[o].phase = "submitted"
    /\ told[o] \subseteq {"submitted", "uncertain"}

\* The pane takes no keys only while a process submits, unless one died doing so: no
\* refusal, lost answer or retry leaves it deaf.
GateOpens == gate \/ kills > 0 \/ job.at \in {"pin", "intend", "request", "settle", "open"}

SteeringSafe == SteeredOnce /\ SteerTold /\ GateOpens

-----------------------------------------------------------------------------
(* The properties made inductive *)

\* What the proofs ask of the constants: the thread has room for its first turn.
ConstantsOK == MaxTurns \in Nat \ {0} /\ MaxKills \in Nat

\* The process at work has an operation that means a turn; it goes on to submit only what the
\* journal does not know, asks the runtime only after the intent, and answers from the journal.
JobSound ==
  LET o == job.op IN job.at # "idle" =>
    /\ o \in Steers /\ want[o] # 0
    /\ job.at \in {"gate", "pin", "intend"} => o \notin Journaled
    /\ job.at \in {"intend", "request"} => o \in pins
    /\ job.at \in {"request", "settle"} => journal[o].phase = "intent"
    /\ job.at = "request" => times[o] = 0
    /\ job.at = "settle" => job.reply \in {"submitted", "uncertain"}
    /\ job.at = "settle" /\ job.reply = "submitted" => items[o] = want[o]
    /\ job.at = "reconcile" => journal[o].phase \in {"intent", "uncertain"}
    /\ job.at = "answer" => journal[o].phase \in {"submitted", "uncertain"}

\* The journal names the turn of the operation, knows every text that was put in, and says
\* "submitted" only of one that is there.
JournalSound ==
  \A o \in Steers :
    /\ IF o \in Journaled THEN journal[o].turn = want[o] /\ want[o] # 0 ELSE times[o] = 0
    /\ times[o] = 0 => items[o] = 0
    /\ journal[o].phase = "submitted" => items[o] = want[o]

SteeringInv == JobSound /\ JournalSound /\ SteeringSafe
=============================================================================
