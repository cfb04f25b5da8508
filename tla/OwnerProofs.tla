------------------------------ MODULE OwnerProofs ------------------------------
(***************************************************************************)
(* What the owner of a native session promises, proved for any values of   *)
(* the constants: the requests it answers, the text it is given into a     *)
(* running turn, and the compaction of its conversation.  Each is an       *)
(* instance of its module over the variables of the same names; a theorem  *)
(* is about one of them.                                                   *)
(***************************************************************************)
EXTENDS Integers, Sequences, FiniteSets, FiniteSetTheorems, TLAPS

CONSTANTS
  Answers, BoxOps, Kind, MaxTurns, MaxDeaths,
  Steers, MaxSteered, MaxKills, Capacity, Window,
  Runtimes, Ops, Reads, Letters, MaxGens, MaxMarks,
  None

VARIABLES
  cmd, rcpt, intr, box, at, held, proj, run, out, call, asking, paid, given, ran, deaths,
  journal, want, job, gate, turn, busy, shown, items, pins, told, times, kills,
  runtime, ops, rev, last, boundary, letter, lock, gen, live, pump, seen, asked, marks

Asks == INSTANCE RuntimeRequests
Steer == INSTANCE Steering WITH MaxTurns <- MaxSteered
Context == INSTANCE NativeContext

-----------------------------------------------------------------------------
(* Requests of an owner *)

-----------------------------------------------------------------------------
(* Types *)

\* The callers of answers.
AsksAnswer(a) == Asks!Respond(a) \/ Asks!writeNativeCommand(a) \/ Asks!AwaitReceipt(a)

\* A caller of an answer only writes the slot, its call and the approval it is for.
LEMMA AnswerTypes ==
  ASSUME Asks!ConstantsOK, Asks!TypeOK, NEW a \in Answers, AsksAnswer(a)
  PROVE  Asks!TypeOK'
<1>1. CASE Asks!Respond(a)
  <2>1. call' \in [Answers \cup BoxOps -> Asks!Told]
    <3>1. PICK s \in Asks!Told : Asks!Say(a, s)
      <4>1. CASE Asks!KnownOutcome(a)
        BY <1>1, <4>1 DEF Asks!Respond, Asks!KnownOutcome, Asks!TypeOK, Asks!Receipts, Asks!Told
      <4>2. CASE ~Asks!KnownOutcome(a)
        <5>1. PICK t : Asks!Say(a, CASE ~proj.up \/ t \notin proj.asked -> "stale"
                                [] cmd # None /\ cmd # a -> "busy"
                                [] cmd = a -> "waiting"
                                [] OTHER -> "writing")
          BY <1>1, <4>2 DEF Asks!Respond
        <5>2. Asks!Say(a, "stale") \/ Asks!Say(a, "busy") \/ Asks!Say(a, "waiting") \/ Asks!Say(a, "writing")
          BY <5>1
        <5> QED BY <5>2 DEF Asks!Told
      <4> QED BY <4>1, <4>2
    <3> QED BY <3>1 DEF Asks!Say, Asks!TypeOK
  <2>2. paid' \in [Answers -> 0..MaxTurns]
    <3>1. UNCHANGED paid
          \/ \E t \in IF paid[a] = 0 THEN Asks!Turns ELSE {paid[a]} : paid' = [paid EXCEPT ![a] = t]
      BY <1>1 DEF Asks!Respond
    <3>2. (IF paid[a] = 0 THEN Asks!Turns ELSE {paid[a]}) \subseteq 0..MaxTurns
      BY DEF Asks!TypeOK, Asks!Turns, Asks!ConstantsOK
    <3> QED BY <3>1, <3>2 DEF Asks!TypeOK
  <2> QED BY <1>1, <2>1, <2>2 DEF Asks!Respond, Asks!TypeOK, Asks!HeldOK, Asks!files, Asks!owner,
    Asks!provider, Asks!ghosts
<1>2. CASE Asks!writeNativeCommand(a)
  BY <1>2 DEF Asks!writeNativeCommand, Asks!Say, Asks!TypeOK, Asks!HeldOK, Asks!Told, Asks!owner,
    Asks!provider, Asks!ghosts
<1>3. CASE Asks!AwaitReceipt(a)
  <2>1. call' \in [Answers \cup BoxOps -> Asks!Told]
    BY <1>3 DEF Asks!AwaitReceipt, Asks!Say, Asks!TypeOK, Asks!Told, Asks!Receipts,
      Asks!Outcomes, Asks!KnownOutcome
  <2> QED BY <1>3, <2>1 DEF Asks!AwaitReceipt, Asks!TypeOK, Asks!HeldOK, Asks!files, Asks!owner,
    Asks!provider, Asks!ghosts
<1> QED BY <1>1, <1>2, <1>3 DEF AsksAnswer

\* Who asks for an interrupt writes its file only.
LEMMA InterruptTypes ==
  ASSUME Asks!TypeOK, NEW t \in Asks!Turns, Asks!requestRuntimeInterrupt(t)
  PROVE  Asks!TypeOK'
BY DEF Asks!requestRuntimeInterrupt, Asks!TypeOK, Asks!HeldOK, Asks!owner, Asks!provider,
  Asks!ghosts

\* The callers of a mailbox.
AsksBox(o) == Asks!Request(o) \/ Asks!WriteRequest(o) \/ Asks!AwaitRequest(o)

\* A caller of a mailbox writes its slot and its call.
LEMMA BoxTypes ==
  ASSUME Asks!ConstantsOK, Asks!TypeOK, NEW o \in BoxOps, AsksBox(o)
  PROVE  Asks!TypeOK'
<1>1. CASE Asks!Request(o)
  <2>1. call' \in [Answers \cup BoxOps -> Asks!Told]
    BY <1>1 DEF Asks!Request, Asks!Say, Asks!TypeOK, Asks!Told, Asks!Settled
  <2> QED BY <1>1, <2>1 DEF Asks!Request, Asks!TypeOK, Asks!HeldOK, Asks!files, Asks!owner,
    Asks!provider, Asks!ghosts
<1>2. CASE Asks!WriteRequest(o)
  <2>1. Kind[o] \in Asks!Kinds BY DEF Asks!ConstantsOK
  <2>2. PICK v \in Asks!Modes :
          box' = [box EXCEPT ![Kind[o]] = [op |-> o, mode |-> v, phase |-> "queued"]]
    BY <1>2 DEF Asks!WriteRequest, Asks!Modes
  <2>3. box' \in [Asks!Kinds -> Asks!Slots \cup {None}] BY <2>2 DEF Asks!TypeOK, Asks!Slots
  <2>4. ran' \in [Asks!Kinds -> Asks!Counts] BY <1>2 DEF Asks!WriteRequest, Asks!TypeOK,
    Asks!Counts
  <2>5. call' \in [Answers \cup BoxOps -> Asks!Told] BY <1>2 DEF Asks!WriteRequest, Asks!Say,
    Asks!TypeOK, Asks!Told
  <2> QED BY <1>2, <2>3, <2>4, <2>5 DEF Asks!WriteRequest, Asks!TypeOK, Asks!HeldOK, Asks!owner,
    Asks!provider
<1>3. CASE Asks!AwaitRequest(o)
  <2>1. call' \in [Answers \cup BoxOps -> Asks!Told]
    BY <1>3 DEF Asks!AwaitRequest, Asks!Say, Asks!TypeOK, Asks!Told, Asks!Settled
  <2> QED BY <1>3, <2>1 DEF Asks!AwaitRequest, Asks!TypeOK, Asks!HeldOK, Asks!files, Asks!owner,
    Asks!provider, Asks!ghosts
<1> QED BY <1>1, <1>2, <1>3 DEF AsksBox

\* A turn that ends is told, and the next prompt is taken.
LEMMA EndTypes ==
  ASSUME Asks!ConstantsOK, Asks!TypeOK, run.turn # 0, Asks!EndTurn
  PROVE  /\ out' \in Seq(Asks!Turns)
         /\ run' \in Asks!Runs
         /\ run'.mode = run.mode
<1>1. run.turn \in Asks!Turns BY DEF Asks!TypeOK, Asks!Turns, Asks!Runs
<1>2. out' \in Seq(Asks!Turns) BY <1>1 DEF Asks!EndTurn, Asks!TypeOK
<1>3. run.queue \in Seq(Asks!Turns) BY DEF Asks!TypeOK, Asks!Runs
<1>4. run.queue # <<>> => Head(run.queue) \in Asks!Turns /\ Tail(run.queue) \in Seq(Asks!Turns)
  BY <1>3
<1>5. run'.mode = run.mode /\ run' \in Asks!Runs
  <2>1. CASE run.queue = <<>>
    <3>1. run' = [run EXCEPT !.turn = 0, !.waits = FALSE] BY <2>1 DEF Asks!EndTurn
    <3>2. 0 \in 0..MaxTurns BY DEF Asks!ConstantsOK
    <3> QED BY <3>1, <3>2 DEF Asks!TypeOK, Asks!Runs
  <2>2. CASE run.queue # <<>>
    <3>1. run' = [run EXCEPT !.turn = Head(run.queue), !.waits = FALSE, !.queue = Tail(run.queue)]
      BY <2>2 DEF Asks!EndTurn
    <3>2. Head(run.queue) \in 0..MaxTurns BY <1>4, <2>2 DEF Asks!Turns
    <3> QED BY <1>4, <2>2, <3>1, <3>2 DEF Asks!TypeOK, Asks!Runs
  <2> QED BY <2>1, <2>2
<1> QED BY <1>2, <1>5

\* The owner's interrupt.
Interrupts == Asks!applyInterrupt \/ Asks!Recheck \/ Asks!StopTurn \/ Asks!Interrupted

\* An interrupt keeps the turn it is about in hand.
LEMMA StopTypes ==
  ASSUME Asks!ConstantsOK, Asks!TypeOK, Interrupts
  PROVE  Asks!TypeOK'
<1>1. CASE Asks!applyInterrupt
  BY <1>1 DEF Asks!applyInterrupt, Asks!Goto, Asks!TypeOK, Asks!HeldOK, Asks!Places, Asks!Kinds,
    Asks!provider, Asks!callers, Asks!ghosts
<1>2. CASE Asks!Recheck
  <2>1. proj' \in Asks!Projections
    <3>1. proj' = proj \/ proj' = [proj EXCEPT !.asked = {}] BY <1>2 DEF Asks!Recheck
    <3> QED BY <3>1 DEF Asks!TypeOK, Asks!Projections
  <2>2. run' \in Asks!Runs
    <3>1. run' = run \/ run' = [run EXCEPT !.waits = FALSE] BY <1>2 DEF Asks!Recheck
    <3> QED BY <3>1 DEF Asks!TypeOK, Asks!Runs
  <2>3. held \in Asks!Turns BY <1>2 DEF Asks!Recheck, Asks!TypeOK, Asks!HeldOK
  <2>4. CASE Asks!Goto("mode") /\ Asks!WriteIntr("rejected")
    BY <1>2, <2>1, <2>2, <2>3, <2>4 DEF Asks!Recheck, Asks!Goto, Asks!WriteIntr, Asks!TypeOK,
      Asks!HeldOK, Asks!Places, Asks!Kinds,
       Asks!callers, Asks!ghosts
  <2>5. CASE at' = "stopping" /\ held' = held /\ UNCHANGED intr
    BY <1>2, <2>1, <2>2, <2>3, <2>5 DEF Asks!Recheck, Asks!TypeOK, Asks!HeldOK, Asks!Places,
      Asks!callers, Asks!ghosts
  <2> QED BY <1>2, <2>4, <2>5 DEF Asks!Recheck
<1>3. CASE Asks!StopTurn
  <2>1. /\ out' \in Seq(Asks!Turns)
        /\ run' \in Asks!Runs
    BY <1>3, EndTypes DEF Asks!StopTurn, Asks!provider, Asks!TypeOK
  <2>2. at' \in Asks!Places /\ Asks!HeldOK' /\ (intr' = intr \/ Asks!WriteIntr("rejected"))
    BY <1>3 DEF Asks!StopTurn, Asks!Goto, Asks!TypeOK, Asks!HeldOK, Asks!Places, Asks!Kinds
  <2>3. intr' = None \/ intr' \in [turn: Asks!Turns, phase: {"queued", "uncertain", "accepted", "rejected"}]
    BY <1>3, <2>2 DEF Asks!StopTurn, Asks!WriteIntr, Asks!TypeOK, Asks!HeldOK
  <2> QED BY <1>3, <2>1, <2>2, <2>3 DEF Asks!StopTurn, Asks!TypeOK, Asks!callers, Asks!ghosts
<1>4. CASE Asks!Interrupted
  <2>1. proj' \in Asks!Projections BY <1>4 DEF Asks!Interrupted, Asks!TypeOK, Asks!Projections
  <2> QED BY <1>4, <2>1 DEF Asks!Interrupted, Asks!Goto, Asks!WriteIntr, Asks!TypeOK,
    Asks!HeldOK, Asks!Places, Asks!Kinds, Asks!provider, Asks!callers, Asks!ghosts
<1> QED BY <1>1, <1>2, <1>3, <1>4 DEF Interrupts

\* The mailboxes follow one another.
LEMMA AfterIs == ASSUME NEW k \in Asks!Kinds PROVE Asks!After(k) \in {"rewind", "mcp", "answer"}
<1> DEFINE n == CHOOSE i \in 1..3 : Asks!Order[i] = k
<1>1. \E i \in 1..3 : Asks!Order[i] = k BY DEF Asks!Order, Asks!Kinds
<1>2. n \in 1..3 BY <1>1
<1>3. Asks!After(k) = Asks!Order[1 + n] BY DEF Asks!After
<1> HIDE DEF n
<1>4. 1 + n \in {2, 3, 4} BY <1>2
<1> QED BY <1>3, <1>4 DEF Asks!Order

\* The owner's mailboxes.
Applies(k) == Asks!Skip(k) \/ Asks!Apply(k)

\* A request is applied from its slot, kept in hand, and written back.
LEMMA ApplyTypes ==
  ASSUME Asks!TypeOK, NEW k \in Asks!Kinds, Applies(k)
  PROVE  Asks!TypeOK'
<1>1. Asks!After(k) \in {"rewind", "mcp", "answer"} BY AfterIs
<1>2. CASE Asks!Skip(k)
  BY <1>1, <1>2 DEF Asks!Skip, Asks!Goto, Asks!TypeOK, Asks!HeldOK, Asks!Places, Asks!Kinds,
    Asks!files, Asks!provider, Asks!callers, Asks!ghosts
<1>3. CASE Asks!Apply(k)
  <2>1. box[k] \in Asks!Slots BY <1>3 DEF Asks!Apply, Asks!Applicable, Asks!TypeOK
  <2>2. ran' \in [Asks!Kinds -> Asks!Counts]
    <3> DEFINE n == IF ran[k].op = box[k].op THEN ran[k].n + 1 ELSE ran[k].n
    <3>1. n \in Nat BY DEF Asks!TypeOK, Asks!Counts
    <3>2. ran' = [ran EXCEPT ![k].n = n] BY <1>3 DEF Asks!Apply
    <3> QED BY <3>1, <3>2 DEF Asks!TypeOK, Asks!Counts
  <2>3. CASE at' = "applied" /\ held' = <<k, box[k]>> /\ UNCHANGED box
             /\ run' = [run EXCEPT !.mode = IF k = "mode" THEN box[k].mode ELSE @]
    <3>1. run' \in Asks!Runs
      BY <2>1, <2>3 DEF Asks!TypeOK, Asks!Slots, Asks!Runs
    <3>2. at' \in Asks!Places /\ Asks!HeldOK' BY <2>1, <2>3 DEF Asks!HeldOK, Asks!Places,
      Asks!Kinds
    <3> QED BY <1>3, <2>2, <2>3, <3>1, <3>2 DEF Asks!Apply, Asks!TypeOK, Asks!callers
  <2>4. CASE Asks!Goto(Asks!After(k)) /\ box' = [box EXCEPT ![k].phase = "failed"] /\ UNCHANGED run
    <3>1. box' \in [Asks!Kinds -> Asks!Slots \cup {None}] BY <2>1, <2>4 DEF Asks!TypeOK,
      Asks!Slots
    <3>2. at' \in Asks!Places /\ Asks!HeldOK' BY <1>1, <2>4 DEF Asks!Goto, Asks!HeldOK,
      Asks!Places, Asks!Kinds
    <3> QED BY <1>3, <2>2, <2>4, <3>1, <3>2 DEF Asks!Apply, Asks!TypeOK, Asks!callers
  <2> QED BY <1>3, <2>3, <2>4 DEF Asks!Apply
<1> QED BY <1>2, <1>3 DEF Applies

\* What was applied is written back as complete.
LEMMA AppliedTypes ==
  ASSUME Asks!TypeOK, Asks!Applied
  PROVE  Asks!TypeOK'
<1> DEFINE k == held[1]
<1>1. k \in Asks!Kinds /\ held[2] \in Asks!Slots BY DEF Asks!Applied, Asks!TypeOK, Asks!HeldOK
<1>2. box' = [box EXCEPT ![k] = [held[2] EXCEPT !.phase = "complete"]] BY DEF Asks!Applied
<1>3. box' \in [Asks!Kinds -> Asks!Slots \cup {None}] BY <1>1, <1>2 DEF Asks!TypeOK, Asks!Slots
<1>4. proj'.mode \in Asks!Modes /\ proj' = [proj EXCEPT !.mode = IF k = "mode" THEN held[2].mode ELSE @]
  BY <1>1 DEF Asks!Applied, Asks!TypeOK, Asks!Slots, Asks!Projections
<1>5. at' \in Asks!Places /\ Asks!HeldOK' BY <1>1, AfterIs DEF Asks!Applied, Asks!Goto,
  Asks!HeldOK, Asks!Places, Asks!Kinds
<1>6. proj' \in Asks!Projections BY <1>4 DEF Asks!TypeOK, Asks!Projections
<1> QED BY <1>3, <1>5, <1>6 DEF Asks!Applied, Asks!TypeOK, Asks!provider, Asks!callers

\* The owner's answer.
Gives == Asks!answerNativeCommand \/ Asks!Submit \/ Asks!Submitted \/ Asks!clearNativeCommand

\* An answer is read, announced, given and receipted.
LEMMA GiveTypes ==
  ASSUME Asks!ConstantsOK, Asks!TypeOK, Gives
  PROVE  Asks!TypeOK'
<1>1. CASE Asks!answerNativeCommand
  BY <1>1 DEF Asks!answerNativeCommand, Asks!Goto, Asks!TypeOK, Asks!HeldOK, Asks!Places,
    Asks!Kinds, Asks!Receipts, Asks!Outcomes, Asks!provider, Asks!callers,
     Asks!ghosts
<1>2. CASE Asks!Submit
  <2>1. held \in Answers BY <1>2 DEF Asks!Submit, Asks!TypeOK, Asks!HeldOK
  <2>2. given' \in [Answers -> Nat] BY <1>2, <2>1 DEF Asks!Submit, Asks!TypeOK
  <2>3. run' \in Asks!Runs BY <1>2 DEF Asks!Submit, Asks!TypeOK, Asks!Runs
  <2>4. proj' \in Asks!Projections
    <3>1. (IF proj.outstanding = 0 THEN 0 ELSE proj.outstanding - 1) \in Nat
      BY DEF Asks!TypeOK, Asks!Projections
    <3>2. proj' = [proj EXCEPT !.asked = proj.asked \ {paid[held]},
                     !.outstanding = IF proj.outstanding = 0 THEN 0 ELSE proj.outstanding - 1]
      BY <1>2 DEF Asks!Submit
    <3> QED BY <3>1, <3>2 DEF Asks!TypeOK, Asks!Projections
  <2> QED BY <1>2, <2>1, <2>2, <2>3, <2>4 DEF Asks!Submit, Asks!TypeOK, Asks!HeldOK, Asks!Places,
    Asks!callers
<1>3. CASE Asks!Submitted
  BY <1>3 DEF Asks!Submitted, Asks!Goto, Asks!TypeOK, Asks!HeldOK, Asks!Places, Asks!Kinds,
    Asks!Receipts, Asks!Outcomes, Asks!provider, Asks!callers, Asks!ghosts
<1>4. CASE Asks!clearNativeCommand
  BY <1>4 DEF Asks!clearNativeCommand, Asks!Goto, Asks!TypeOK, Asks!HeldOK, Asks!Places,
    Asks!Kinds, Asks!provider, Asks!callers, Asks!ghosts
<1> QED BY <1>1, <1>2, <1>3, <1>4 DEF Gives

\* The owner's life and its turns.
Lives == Asks!open \/ Asks!restoreMode \/ Asks!pickup \/ Asks!drain \/ Asks!OwnerDies

\* An owner comes up, takes prompts, closes turns and dies.
LEMMA LifeTypes ==
  ASSUME Asks!ConstantsOK, Asks!TypeOK, Lives
  PROVE  Asks!TypeOK'
<1>1. CASE Asks!open
  <2>1. run' \in Asks!Runs /\ out' \in Seq(Asks!Turns) BY <1>1 DEF Asks!open, Asks!Quiet,
    Asks!Runs, Asks!Modes, Asks!ConstantsOK
  <2>2. proj' \in Asks!Projections BY <1>1 DEF Asks!open, Asks!TypeOK, Asks!Projections
  <2> QED BY <1>1, <2>1, <2>2 DEF Asks!open, Asks!TypeOK, Asks!HeldOK, Asks!Places, Asks!files,
    Asks!callers, Asks!ghosts
<1>2. CASE Asks!restoreMode
  <2>1. Asks!shouldRestoreMode => box["mode"] \in Asks!Slots BY DEF Asks!shouldRestoreMode,
    Asks!TypeOK, Asks!Kinds
  <2>2. PICK v \in Asks!Modes : proj' = [proj EXCEPT !.mode = v] /\ run' = [run EXCEPT !.mode = v]
    BY <1>2, <2>1 DEF Asks!restoreMode, Asks!Slots, Asks!Modes
  <2>3. proj' \in Asks!Projections /\ run' \in Asks!Runs BY <2>2 DEF Asks!TypeOK,
    Asks!Projections, Asks!Runs
  <2> QED BY <1>2, <2>3 DEF Asks!restoreMode, Asks!TypeOK, Asks!HeldOK, Asks!Places,
    Asks!callers, Asks!ghosts
<1>3. CASE Asks!pickup
  <2>1. CASE UNCHANGED <<proj, run>>
    BY <1>3, <2>1 DEF Asks!pickup, Asks!Goto, Asks!TypeOK, Asks!HeldOK, Asks!Places, Asks!Kinds,
      Asks!files, Asks!callers, Asks!ghosts
  <2>2. CASE /\ proj.status # "inProgress" /\ proj.turn < MaxTurns
             /\ proj' = [proj EXCEPT !.turn = @ + 1, !.status = "inProgress"]
             /\ run' = IF run.turn = 0 THEN [run EXCEPT !.turn = proj.turn + 1]
                       ELSE [run EXCEPT !.queue = Append(@, proj.turn + 1)]
    <3>1. proj.turn + 1 \in Asks!Turns /\ proj.turn + 1 \in 0..MaxTurns
      BY <2>2 DEF Asks!TypeOK, Asks!Turns, Asks!ConstantsOK, Asks!Projections
    <3>2. run' \in Asks!Runs
      <4>1. run.queue \in Seq(Asks!Turns) BY DEF Asks!TypeOK, Asks!Runs
      <4>2. Append(run.queue, proj.turn + 1) \in Seq(Asks!Turns) BY <3>1, <4>1
      <4>3. \/ run' = [run EXCEPT !.turn = proj.turn + 1]
            \/ run' = [run EXCEPT !.queue = Append(run.queue, proj.turn + 1)]
        BY <2>2
      <4> QED BY <3>1, <4>2, <4>3 DEF Asks!TypeOK, Asks!Runs
    <3>3. proj' \in Asks!Projections BY <2>2, <3>1 DEF Asks!TypeOK, Asks!Projections
    <3> QED
      BY <1>3, <2>2, <3>2, <3>3 DEF Asks!pickup, Asks!Goto, Asks!TypeOK, Asks!HeldOK,
        Asks!Places, Asks!Kinds, Asks!files, Asks!callers,
         Asks!ghosts
  <2> QED BY <1>3, <2>1, <2>2 DEF Asks!pickup
<1>4. CASE Asks!drain
  <2>1. out' \in Seq(Asks!Turns) BY <1>4 DEF Asks!drain, Asks!TypeOK
  <2>2. proj' \in Asks!Projections
    <3>1. proj' = proj \/ proj' = [proj EXCEPT !.status = "completed"]
      BY <1>4 DEF Asks!drain, Asks!TypeOK, Asks!Projections
    <3> QED BY <3>1 DEF Asks!TypeOK, Asks!Projections
  <2> QED BY <1>4, <2>1, <2>2 DEF Asks!drain, Asks!TypeOK, Asks!HeldOK, Asks!files, Asks!callers,
    Asks!ghosts
<1>5. CASE Asks!OwnerDies
  <2>1. deaths' \in 0..MaxDeaths BY <1>5 DEF Asks!OwnerDies, Asks!TypeOK, Asks!ConstantsOK
  <2>2. ran' \in [Asks!Kinds -> Asks!Counts] BY <1>5 DEF Asks!OwnerDies, Asks!TypeOK, Asks!Counts
  <2>3. proj' \in Asks!Projections BY <1>5 DEF Asks!OwnerDies, Asks!NoTurn, Asks!TypeOK,
    Asks!Projections, Asks!Modes
  <2>4. run' \in Asks!Runs /\ out' \in Seq(Asks!Turns)
    BY <1>5 DEF Asks!OwnerDies, Asks!Quiet, Asks!Runs, Asks!Modes, Asks!ConstantsOK
  <2> QED
    BY <1>5, <2>1, <2>2, <2>3, <2>4 DEF Asks!OwnerDies, Asks!Goto, Asks!TypeOK, Asks!HeldOK,
      Asks!Places, Asks!callers
<1> QED BY <1>1, <1>2, <1>3, <1>4, <1>5 DEF Lives

\* The provider asks for approvals and ends its turns.
Works == Asks!decide \/ Asks!FinishTurn
LEMMA WorkTypes ==
  ASSUME Asks!ConstantsOK, Asks!TypeOK, Works
  PROVE  Asks!TypeOK'
<1>1. CASE Asks!decide
  <2>1. run.turn \in Asks!Turns BY <1>1 DEF Asks!decide, Asks!TypeOK, Asks!Turns, Asks!Runs
  <2>2. run' \in Asks!Runs BY <1>1 DEF Asks!decide, Asks!TypeOK, Asks!Runs
  <2>3. proj' \in Asks!Projections
    <3>1. proj' = [proj EXCEPT !.asked = proj.asked \cup {run.turn},
                               !.outstanding = proj.outstanding + 1]
      BY <1>1 DEF Asks!decide
    <3>2. proj.outstanding + 1 \in Nat BY DEF Asks!TypeOK, Asks!Projections
    <3>3. proj.asked \cup {run.turn} \in SUBSET Asks!Turns BY <2>1 DEF Asks!TypeOK,
      Asks!Projections
    <3> QED BY <3>1, <3>2, <3>3 DEF Asks!TypeOK, Asks!Projections
  <2> QED BY <1>1, <2>2, <2>3 DEF Asks!decide, Asks!TypeOK, Asks!HeldOK, Asks!files,
    Asks!callers, Asks!ghosts
<1>2. CASE Asks!FinishTurn
  BY <1>2, EndTypes DEF Asks!FinishTurn, Asks!TypeOK, Asks!HeldOK, Asks!files, Asks!owner,
    Asks!callers, Asks!ghosts
<1> QED BY <1>1, <1>2 DEF Works

\* The steps, by who takes them.
LEMMA AsksStepIs ==
  ASSUME Asks!Next
  PROVE  \/ \E a \in Answers : AsksAnswer(a)
         \/ \E t \in Asks!Turns : Asks!requestRuntimeInterrupt(t)
         \/ \E o \in BoxOps : AsksBox(o)
         \/ \E k \in Asks!Kinds : Applies(k)
         \/ Interrupts \/ Asks!Applied \/ Gives \/ Lives \/ Works
BY DEF Asks!Next, AsksAnswer, AsksBox, Applies, Interrupts, Gives, Lives, Works

\* Every step keeps the types.
LEMMA AsksTypeKept ==
  ASSUME Asks!ConstantsOK, Asks!TypeOK, [Asks!Next]_(Asks!vars)
  PROVE  Asks!TypeOK'
<1>1. CASE UNCHANGED Asks!vars
  BY <1>1 DEF Asks!vars, Asks!files, Asks!owner, Asks!provider, Asks!callers, Asks!ghosts,
    Asks!TypeOK, Asks!HeldOK
<1>2. CASE Asks!Next
  BY <1>2, AsksStepIs, AnswerTypes, InterruptTypes, BoxTypes, ApplyTypes, StopTypes, AppliedTypes,
     GiveTypes, LifeTypes, WorkTypes
<1> QED BY <1>1, <1>2

\* An empty session has the types.
LEMMA AsksTypeInit ==
  ASSUME Asks!ConstantsOK, Asks!Init
  PROVE  Asks!TypeOK
<1>1. 0 \in 0..MaxTurns /\ 0 \in 0..MaxDeaths BY DEF Asks!ConstantsOK
<1>2. run \in Asks!Runs BY <1>1 DEF Asks!Init, Asks!Quiet, Asks!Runs, Asks!Modes
<1>3. proj \in Asks!Projections BY <1>1 DEF Asks!Init, Asks!NoTurn, Asks!Projections, Asks!Modes
<1>4. ran \in [Asks!Kinds -> Asks!Counts] BY DEF Asks!Init, Asks!Counts
<1>5. at \in Asks!Places /\ Asks!HeldOK BY DEF Asks!Init, Asks!Places, Asks!HeldOK
<1> QED BY <1>1, <1>2, <1>3, <1>4, <1>5 DEF Asks!Init, Asks!TypeOK, Asks!Told

\* The files, the owner, the provider and the callers keep their types (runtime/mailbox.ts,
\* runtime/interrupt.ts, runtime/response.ts).
THEOREM AsksTypes == ASSUME Asks!ConstantsOK PROVE Asks!Spec => []Asks!TypeOK
<1>1. Asks!Init => Asks!TypeOK BY AsksTypeInit
<1>2. Asks!TypeOK /\ [Asks!Next]_(Asks!vars) => Asks!TypeOK' BY AsksTypeKept
<1> QED BY <1>1, <1>2, PTL DEF Asks!Spec

-----------------------------------------------------------------------------
(* Answers *)

AnswersInv == Asks!Announced /\ Asks!ReceiptTrue /\ Asks!GivenOnce /\ Asks!WritesFresh /\ Asks!ToldTrue

\* The receipt of an answer that the owner gives away says that it does not know.
LEMMA AnsweringKnown ==
  ASSUME Asks!ConstantsOK, Asks!Announced, NEW a \in Answers, Asks!Answering(a)
  PROVE  rcpt.outcome = "uncertain" /\ Asks!KnownOutcome(a)
<1>1. rcpt = [op |-> a, outcome |-> "uncertain"] BY DEF Asks!Announced
<1>2. rcpt \in Asks!Receipts BY <1>1 DEF Asks!Receipts, Asks!Outcomes
<1> QED BY <1>1, <1>2 DEF Asks!ConstantsOK, Asks!KnownOutcome

\* A step that writes no answer, gives none and asks for no approval that was answered keeps
\* what is said of answers.
LEMMA QuietAnswers ==
  ASSUME AnswersInv, UNCHANGED <<cmd, rcpt, paid, given>>, \A a \in Answers : call'[a] = call[a],
         at' \in {"submit", "submitted"} => at' = at /\ held' = held,
         \A a \in Answers : given[a] > 0 => paid[a] \notin proj'.asked
  PROVE  AnswersInv'
<1>1. \A a \in Answers : Asks!Answering(a)' => Asks!Answering(a) /\ at' = at BY DEF Asks!Answering
<1>2. \A a \in Answers : Asks!KnownOutcome(a)' = Asks!KnownOutcome(a) BY DEF Asks!KnownOutcome
<1>3. Asks!Announced' BY <1>1 DEF AnswersInv, Asks!Announced
<1>4. Asks!ReceiptTrue' BY DEF AnswersInv, Asks!ReceiptTrue
<1>5. Asks!GivenOnce' BY DEF AnswersInv, Asks!GivenOnce
<1>6. Asks!WritesFresh' BY <1>1, <1>2 DEF AnswersInv, Asks!WritesFresh
<1>7. Asks!ToldTrue' BY <1>1, <1>2 DEF AnswersInv, Asks!ToldTrue
<1> QED BY <1>3, <1>4, <1>5, <1>6, <1>7 DEF AnswersInv

\* A caller reads the receipt before it writes, and repeats an answer only for the approval it
\* was for; what is not asked any more it does not write.
LEMMA RespondAnswers ==
  ASSUME Asks!ConstantsOK, Asks!TypeOK, AnswersInv, NEW a \in Answers, Asks!Respond(a)
  PROVE  AnswersInv'
<1>1. UNCHANGED <<cmd, rcpt, at, held, proj, given>>
  BY DEF Asks!Respond, Asks!files, Asks!owner, Asks!ghosts
<1>2. \A b \in Answers : /\ Asks!KnownOutcome(b)' = Asks!KnownOutcome(b)
                         /\ Asks!Answering(b)' = Asks!Answering(b)
  BY <1>1 DEF Asks!KnownOutcome, Asks!Answering
<1>3. \A b \in Answers : given[b] > 0 => paid'[b] = paid[b]
  BY DEF Asks!Respond, AnswersInv, Asks!GivenOnce, Asks!TypeOK
<1>4. \A b \in Answers \ {a} : call'[b] = call[b]
  BY DEF Asks!Respond, Asks!Say, Asks!TypeOK
<1>5. CASE Asks!KnownOutcome(a)
  <2>1. call'[a] = rcpt.outcome /\ rcpt.op = a /\ rcpt # None
    BY <1>5 DEF Asks!Respond, Asks!Say, Asks!TypeOK, Asks!KnownOutcome
  <2>2. rcpt.outcome \in Asks!Outcomes BY <2>1 DEF Asks!TypeOK, Asks!Receipts
  <2>3. call'[a] # "writing" BY <2>1, <2>2 DEF Asks!Outcomes
  <2>4. call'[a] = "submitted" => given[a] = 1 BY <2>1 DEF AnswersInv, Asks!ReceiptTrue
  <2>5. call'[a] = "rejected" => given[a] = 0 /\ ~Asks!Answering(a)
    BY <2>1, AnsweringKnown DEF AnswersInv, Asks!ReceiptTrue
  <2>6. Asks!Announced' BY <1>1, <1>2 DEF AnswersInv, Asks!Announced
  <2>7. Asks!ReceiptTrue' BY <1>1 DEF AnswersInv, Asks!ReceiptTrue
  <2>8. Asks!GivenOnce' BY <1>1, <1>3 DEF AnswersInv, Asks!GivenOnce
  <2>9. Asks!WritesFresh' BY <1>1, <1>2, <1>4, <2>3 DEF AnswersInv, Asks!WritesFresh
  <2>10. Asks!ToldTrue' BY <1>1, <1>2, <1>4, <1>5, <2>4, <2>5 DEF AnswersInv, Asks!ToldTrue
  <2> QED BY <2>6, <2>7, <2>8, <2>9, <2>10 DEF AnswersInv
<1>6. CASE ~Asks!KnownOutcome(a)
  <2>1. PICK t \in IF paid[a] = 0 THEN Asks!Turns ELSE {paid[a]} :
          /\ paid' = [paid EXCEPT ![a] = t]
          /\ Asks!Say(a, CASE ~proj.up \/ t \notin proj.asked -> "stale"
                      [] cmd # None /\ cmd # a -> "busy"
                      [] cmd = a -> "waiting"
                      [] OTHER -> "writing")
    BY <1>6 DEF Asks!Respond
  <2>2. call'[a] \in {"stale", "busy", "waiting", "writing"}
    BY <2>1 DEF Asks!Say, Asks!TypeOK
  <2>3. call'[a] = "writing" => t \in proj.asked /\ cmd # a
    BY <2>1 DEF Asks!Say, Asks!TypeOK
  <2>4. call'[a] = "writing" => given[a] = 0
    BY <2>1, <2>3 DEF AnswersInv, Asks!GivenOnce, Asks!TypeOK
  <2>5. ~Asks!Answering(a) BY <1>6, AnsweringKnown DEF AnswersInv
  <2>6. Asks!Announced' BY <1>1, <1>2 DEF AnswersInv, Asks!Announced
  <2>7. Asks!ReceiptTrue' BY <1>1 DEF AnswersInv, Asks!ReceiptTrue
  <2>8. Asks!GivenOnce' BY <1>1, <1>3 DEF AnswersInv, Asks!GivenOnce
  <2>9. Asks!WritesFresh' BY <1>1, <1>2, <1>4, <2>3, <2>4, <2>5 DEF AnswersInv, Asks!WritesFresh
  <2>10. Asks!ToldTrue' BY <1>1, <1>2, <1>4, <2>2 DEF AnswersInv, Asks!ToldTrue
  <2> QED BY <2>6, <2>7, <2>8, <2>9, <2>10 DEF AnswersInv
<1> QED BY <1>5, <1>6

\* A caller writes an answer that was not given, and believes the receipt.
LEMMA CallerAnswers ==
  ASSUME Asks!ConstantsOK, Asks!TypeOK, AnswersInv, NEW a \in Answers,
         Asks!writeNativeCommand(a) \/ Asks!AwaitReceipt(a)
  PROVE  AnswersInv'
<1>1. UNCHANGED <<rcpt, at, held, proj, given, paid>>
  BY DEF Asks!writeNativeCommand, Asks!AwaitReceipt, Asks!files, Asks!owner, Asks!ghosts
<1>2. \A b \in Answers : /\ Asks!KnownOutcome(b)' = Asks!KnownOutcome(b)
                         /\ Asks!Answering(b)' = Asks!Answering(b)
  BY <1>1 DEF Asks!KnownOutcome, Asks!Answering
<1>3. \A b \in Answers \ {a} : call'[b] = call[b]
  BY DEF Asks!writeNativeCommand, Asks!AwaitReceipt, Asks!Say, Asks!TypeOK
<1>4. Asks!Announced' BY <1>1, <1>2 DEF AnswersInv, Asks!Announced
<1>5. Asks!ReceiptTrue' BY <1>1 DEF AnswersInv, Asks!ReceiptTrue
<1>6. Asks!GivenOnce' BY <1>1 DEF AnswersInv, Asks!GivenOnce
<1>7. CASE Asks!writeNativeCommand(a)
  <2>1. cmd' = a /\ call[a] = "writing" /\ call'[a] = "waiting"
    BY <1>7 DEF Asks!writeNativeCommand, Asks!Say, Asks!TypeOK
  <2>2. given[a] = 0 BY <2>1 DEF AnswersInv, Asks!WritesFresh
  <2>3. Asks!WritesFresh' BY <1>1, <1>2, <1>3, <2>1, <2>2 DEF AnswersInv, Asks!WritesFresh
  <2>4. Asks!ToldTrue' BY <1>1, <1>2, <1>3, <2>1 DEF AnswersInv, Asks!ToldTrue
  <2> QED BY <1>4, <1>5, <1>6, <2>3, <2>4 DEF AnswersInv
<1>8. CASE Asks!AwaitReceipt(a)
  <2>1. cmd' = cmd BY <1>8 DEF Asks!AwaitReceipt, Asks!files
  <2>2. call'[a] = IF Asks!KnownOutcome(a) THEN rcpt.outcome ELSE "uncertain"
    BY <1>8 DEF Asks!AwaitReceipt, Asks!Say, Asks!TypeOK
  <2>3. call'[a] # "writing" BY <2>2 DEF Asks!KnownOutcome, Asks!TypeOK, Asks!Receipts,
    Asks!Outcomes
  <2>4. call'[a] = "submitted" => given[a] = 1
    BY <2>2 DEF AnswersInv, Asks!ReceiptTrue, Asks!KnownOutcome
  <2>5. call'[a] = "rejected" => given[a] = 0 /\ Asks!KnownOutcome(a) /\ ~Asks!Answering(a)
    BY <2>2, AnsweringKnown DEF AnswersInv, Asks!ReceiptTrue, Asks!KnownOutcome
  <2>6. Asks!WritesFresh' BY <1>1, <1>2, <1>3, <2>1, <2>3 DEF AnswersInv, Asks!WritesFresh
  <2>7. Asks!ToldTrue' BY <1>1, <1>2, <1>3, <2>1, <2>4, <2>5 DEF AnswersInv, Asks!ToldTrue
  <2> QED BY <1>4, <1>5, <1>6, <2>6, <2>7 DEF AnswersInv
<1> QED BY <1>7, <1>8
\* The other callers, and the steps of the owner and the provider that are about no answer.
LEMMA OtherAnswers ==
  ASSUME Asks!ConstantsOK, Asks!TypeOK, AnswersInv,
         \/ \E t \in Asks!Turns : Asks!requestRuntimeInterrupt(t)
         \/ \E o \in BoxOps : AsksBox(o)
         \/ \E k \in Asks!Kinds : Applies(k)
         \/ Interrupts \/ Asks!Applied \/ Lives \/ Works
  PROVE  AnswersInv'
<1>1. CASE \E t \in Asks!Turns : Asks!requestRuntimeInterrupt(t)
  <2>1. UNCHANGED <<cmd, rcpt, paid, given, call, at, held, proj>>
    BY <1>1 DEF Asks!requestRuntimeInterrupt, Asks!owner, Asks!ghosts
  <2> QED BY <2>1, QuietAnswers DEF AnswersInv, Asks!GivenOnce
<1>2. CASE \E o \in BoxOps : AsksBox(o)
  <2>1. UNCHANGED <<cmd, rcpt, paid, given, at, held, proj>>
    BY <1>2 DEF AsksBox, Asks!Request, Asks!WriteRequest, Asks!AwaitRequest, Asks!files,
      Asks!owner, Asks!ghosts
  <2>2. \A a \in Answers : call'[a] = call[a]
    BY <1>2 DEF AsksBox, Asks!Request, Asks!WriteRequest, Asks!AwaitRequest, Asks!Say,
      Asks!TypeOK, Asks!ConstantsOK
  <2> QED BY <2>1, <2>2, QuietAnswers DEF AnswersInv, Asks!GivenOnce
<1>3. CASE \E k \in Asks!Kinds : Applies(k)
  <2>1. PICK k \in Asks!Kinds : Applies(k) BY <1>3
  <2>2. UNCHANGED <<cmd, rcpt, paid, given, call, proj>>
    BY <2>1 DEF Applies, Asks!Skip, Asks!Apply, Asks!files, Asks!callers, Asks!ghosts
  <2>3. at' \notin {"submit", "submitted"}
    BY <2>1, AfterIs DEF Applies, Asks!Skip, Asks!Apply, Asks!Goto
  <2> QED BY <2>2, <2>3, QuietAnswers DEF AnswersInv, Asks!GivenOnce
<1>4. CASE Interrupts
  <2>1. UNCHANGED <<cmd, rcpt, paid, given, call>>
    BY <1>4 DEF Interrupts, Asks!applyInterrupt, Asks!Recheck, Asks!StopTurn, Asks!Interrupted,
      Asks!callers, Asks!ghosts
  <2>2. at' \notin {"submit", "submitted"}
    BY <1>4 DEF Interrupts, Asks!applyInterrupt, Asks!Recheck, Asks!StopTurn, Asks!Interrupted,
      Asks!Goto
  <2>3. proj'.asked \subseteq proj.asked
    BY <1>4 DEF Interrupts, Asks!applyInterrupt, Asks!Recheck, Asks!StopTurn, Asks!Interrupted,
      Asks!TypeOK, Asks!Projections
  <2> QED BY <2>1, <2>2, <2>3, QuietAnswers DEF AnswersInv, Asks!GivenOnce
<1>5. CASE Asks!Applied
  <2>1. UNCHANGED <<cmd, rcpt, paid, given, call>> BY <1>5 DEF Asks!Applied, Asks!callers
  <2>2. held[1] \in Asks!Kinds BY <1>5 DEF Asks!Applied, Asks!TypeOK, Asks!HeldOK
  <2>3. at' \notin {"submit", "submitted"} BY <1>5, <2>2, AfterIs DEF Asks!Applied, Asks!Goto
  <2>4. proj'.asked = proj.asked BY <1>5 DEF Asks!Applied, Asks!TypeOK, Asks!Projections
  <2> QED BY <2>1, <2>3, <2>4, QuietAnswers DEF AnswersInv, Asks!GivenOnce
<1>6. CASE Lives
  <2>1. UNCHANGED <<cmd, rcpt, paid, given, call>>
    BY <1>6 DEF Lives, Asks!open, Asks!restoreMode, Asks!pickup, Asks!drain, Asks!OwnerDies,
      Asks!files, Asks!callers, Asks!ghosts
  <2>2. at' \in {"submit", "submitted"} => at' = at /\ held' = held
    BY <1>6 DEF Lives, Asks!open, Asks!restoreMode, Asks!pickup, Asks!drain, Asks!OwnerDies,
      Asks!Goto
  <2>3. proj'.asked \subseteq proj.asked
    BY <1>6 DEF Lives, Asks!open, Asks!restoreMode, Asks!pickup, Asks!drain, Asks!OwnerDies,
      Asks!NoTurn, Asks!TypeOK, Asks!Projections
  <2> QED BY <2>1, <2>2, <2>3, QuietAnswers DEF AnswersInv, Asks!GivenOnce
<1>7. CASE Works
  <2>1. UNCHANGED <<cmd, rcpt, paid, given, call, at, held>>
    BY <1>7 DEF Works, Asks!decide, Asks!FinishTurn, Asks!files, Asks!owner, Asks!callers,
      Asks!ghosts
  <2>2. \A a \in Answers : given[a] > 0 => paid[a] \notin proj'.asked
    <3>1. CASE Asks!decide
      <4>1. proj'.asked = proj.asked \cup {run.turn} BY <3>1 DEF Asks!decide, Asks!TypeOK,
        Asks!Projections
      <4>2. \A a \in Answers : given[a] = 0 \/ paid[a] # run.turn BY <3>1 DEF Asks!decide
      <4> QED BY <4>1, <4>2 DEF AnswersInv, Asks!GivenOnce, Asks!TypeOK
    <3>2. CASE Asks!FinishTurn
      BY <3>2 DEF Asks!FinishTurn, Asks!owner, AnswersInv, Asks!GivenOnce
    <3> QED BY <1>7, <3>1, <3>2 DEF Works
  <2> QED BY <2>1, <2>2, QuietAnswers
<1> QED BY <1>1, <1>2, <1>3, <1>4, <1>5, <1>6, <1>7

\* The owner announces an answer before it gives it, gives one that is asked for, and writes
\* its receipt before it clears the slot.
LEMMA GiveAnswers ==
  ASSUME Asks!ConstantsOK, Asks!TypeOK, AnswersInv, Gives
  PROVE  AnswersInv'
<1>0. call' = call /\ paid' = paid
  BY DEF Gives, Asks!answerNativeCommand, Asks!Submit, Asks!Submitted, Asks!clearNativeCommand,
    Asks!callers
<1>1. CASE Asks!answerNativeCommand
  <2>0. at = "answer" /\ given' = given /\ proj' = proj BY <1>1 DEF Asks!answerNativeCommand,
    Asks!ghosts
  <2>1. \A a \in Answers : ~Asks!Answering(a) BY <2>0 DEF Asks!Answering
  <2>2. Asks!GivenOnce' BY <1>0, <2>0 DEF AnswersInv, Asks!GivenOnce
  <2>3. CASE cmd = None \/ Asks!KnownOutcome(cmd)
    <3>1. at' = "pickup" /\ rcpt' = rcpt /\ cmd' \in {cmd, None}
      BY <1>1, <2>3 DEF Asks!answerNativeCommand, Asks!Goto
    <3>2. \A a \in Answers : ~Asks!Answering(a)' /\ Asks!KnownOutcome(a)' = Asks!KnownOutcome(a)
      BY <3>1 DEF Asks!Answering, Asks!KnownOutcome
    <3>3. \A a \in Answers : cmd' = a => cmd = a BY <3>1 DEF Asks!ConstantsOK
    <3>4. Asks!Announced' BY <3>2 DEF Asks!Announced
    <3>5. Asks!ReceiptTrue' BY <2>0, <3>1 DEF AnswersInv, Asks!ReceiptTrue
    <3>6. Asks!WritesFresh' BY <1>0, <2>0, <3>2, <3>3 DEF AnswersInv, Asks!WritesFresh
    <3>7. Asks!ToldTrue' BY <1>0, <2>0, <3>2, <3>3 DEF AnswersInv, Asks!ToldTrue
    <3> QED BY <2>2, <3>4, <3>5, <3>6, <3>7 DEF AnswersInv
  <2>4. CASE cmd # None /\ ~Asks!KnownOutcome(cmd)
    <3>1. cmd \in Answers /\ cmd' = cmd BY <1>1, <2>4 DEF Asks!answerNativeCommand, Asks!TypeOK
    <3>2. given[cmd] = 0
      BY <2>4, <3>1 DEF AnswersInv, Asks!WritesFresh, Asks!TypeOK
    <3>3. call[cmd] \notin {"writing", "submitted", "rejected"}
      BY <2>4, <3>1, <3>2 DEF AnswersInv, Asks!WritesFresh, Asks!ToldTrue
    <3>4. \A a \in Answers : Asks!Answering(a)' => a = cmd
      BY <1>1, <2>4 DEF Asks!answerNativeCommand, Asks!Answering, Asks!Goto
    <3>5. \A a \in Answers : cmd = a /\ given[a] > 0 => FALSE BY <3>2
    <3>6. \A a \in Answers : cmd = a => call[a] \notin {"writing", "submitted", "rejected"}
      BY <3>3
    <3>7. Asks!WritesFresh' BY <1>0, <2>0, <3>1, <3>4, <3>5, <3>6 DEF AnswersInv, Asks!WritesFresh
    <3>8. Asks!ToldTrue' BY <1>0, <2>0, <3>1, <3>4, <3>6 DEF AnswersInv, Asks!ToldTrue
    <3>9. CASE paid[cmd] \notin proj.asked
      <4>1. at' = "clear" /\ rcpt' = [op |-> cmd, outcome |-> "rejected"]
        BY <1>1, <2>4, <3>9 DEF Asks!answerNativeCommand, Asks!Goto
      <4>2. Asks!Announced' BY <4>1 DEF Asks!Announced, Asks!Answering
      <4>3. Asks!ReceiptTrue' BY <2>0, <3>2, <4>1 DEF Asks!ReceiptTrue
      <4> QED BY <2>2, <3>7, <3>8, <4>2, <4>3 DEF AnswersInv
    <3>10. CASE paid[cmd] \in proj.asked
      <4>1. at' = "submit" /\ rcpt' = [op |-> cmd, outcome |-> "uncertain"]
        BY <1>1, <2>4, <3>10 DEF Asks!answerNativeCommand
      <4>2. Asks!Announced' BY <3>4, <4>1 DEF Asks!Announced
      <4>3. Asks!ReceiptTrue' BY <4>1 DEF Asks!ReceiptTrue
      <4> QED BY <2>2, <3>7, <3>8, <4>2, <4>3 DEF AnswersInv
    <3> QED BY <3>9, <3>10
  <2> QED BY <2>3, <2>4
<1>2. CASE Asks!Submit
  <2>0. /\ at = "submit" /\ at' = "submitted" /\ held' = held /\ held \in Answers
        /\ paid[held] \in proj.asked
        /\ UNCHANGED <<cmd, rcpt>> /\ given' = [given EXCEPT ![held] = @ + 1]
    BY <1>2 DEF Asks!Submit, Asks!TypeOK, Asks!HeldOK
  <2>1. \A a \in Answers : Asks!Answering(a) <=> a = held BY <2>0 DEF Asks!Answering
  <2>2. \A a \in Answers : Asks!Answering(a)' <=> a = held BY <2>0 DEF Asks!Answering
  <2>3. given[held] = 0 /\ paid[held] # 0
    <3>1. paid[held] \in Asks!Turns BY <2>0 DEF Asks!TypeOK, Asks!Projections
    <3>2. paid[held] # 0 BY <3>1 DEF Asks!Turns
    <3> QED BY <2>0, <3>2 DEF AnswersInv, Asks!GivenOnce, Asks!TypeOK
  <2>4. given'[held] = 1 /\ \A a \in Answers \ {held} : given'[a] = given[a]
    BY <2>0, <2>3 DEF Asks!TypeOK
  <2>5. rcpt = [op |-> held, outcome |-> "uncertain"] /\ Asks!KnownOutcome(held)
    BY <2>0, <2>1, AnsweringKnown DEF AnswersInv, Asks!Announced
  <2>6. \A a \in Answers : Asks!KnownOutcome(a)' = Asks!KnownOutcome(a) BY <2>0
    DEF Asks!KnownOutcome
  <2>7. Asks!Announced' BY <2>0, <2>2, <2>4, <2>5 DEF Asks!Announced
  <2>8. Asks!ReceiptTrue' BY <2>0, <2>5 DEF Asks!ReceiptTrue
  <2>9. Asks!GivenOnce'
    <3>1. proj'.asked = proj.asked \ {paid[held]} BY <1>2 DEF Asks!Submit, Asks!TypeOK,
      Asks!Projections
    <3>2. \A a \in Answers : given[a] <= 1 /\ (given[a] > 0 => paid[a] # 0 /\ paid[a] \notin proj.asked)
      BY DEF AnswersInv, Asks!GivenOnce
    <3> QED BY <1>0, <2>3, <2>4, <3>1, <3>2 DEF Asks!GivenOnce
  <2>10. Asks!WritesFresh'
    BY <1>0, <2>0, <2>1, <2>2, <2>4, <2>5, <2>6 DEF AnswersInv, Asks!WritesFresh
  <2>11. Asks!ToldTrue' BY <1>0, <2>0, <2>1, <2>2, <2>4, <2>6 DEF AnswersInv, Asks!ToldTrue
  <2> QED BY <2>7, <2>8, <2>9, <2>10, <2>11 DEF AnswersInv
<1>3. CASE Asks!Submitted
  <2>0. /\ at = "submitted" /\ at' = "clear" /\ held \in Answers
        /\ UNCHANGED <<cmd, proj, given>> /\ rcpt' = [op |-> held, outcome |-> "submitted"]
    BY <1>3 DEF Asks!Submitted, Asks!Goto, Asks!TypeOK, Asks!HeldOK, Asks!ghosts
  <2>1. Asks!Answering(held) /\ given[held] = 1 BY <2>0 DEF AnswersInv, Asks!Announced,
    Asks!Answering
  <2>2. \A a \in Answers : ~Asks!Answering(a)' BY <2>0 DEF Asks!Answering
  <2>3. \A a \in Answers : Asks!KnownOutcome(a) <=> a = held
    BY <2>0, <2>1, AnsweringKnown DEF AnswersInv, Asks!KnownOutcome
  <2>4. \A a \in Answers : Asks!KnownOutcome(a)' <=> a = held
    <3>1. rcpt' \in Asks!Receipts BY <2>0 DEF Asks!Receipts, Asks!Outcomes
    <3>2. rcpt' # None /\ rcpt'.op = held BY <2>0, <3>1 DEF Asks!ConstantsOK
    <3> QED BY <3>2 DEF Asks!KnownOutcome
  <2>5. Asks!Announced' BY <2>2 DEF Asks!Announced
  <2>6. Asks!ReceiptTrue' BY <2>0, <2>1 DEF Asks!ReceiptTrue
  <2>7. Asks!GivenOnce' BY <1>0, <2>0 DEF AnswersInv, Asks!GivenOnce
  <2>8. Asks!WritesFresh' BY <1>0, <2>0, <2>2, <2>3, <2>4 DEF AnswersInv, Asks!WritesFresh
  <2>9. Asks!ToldTrue' BY <1>0, <2>0, <2>2, <2>3, <2>4 DEF AnswersInv, Asks!ToldTrue
  <2> QED BY <2>5, <2>6, <2>7, <2>8, <2>9 DEF AnswersInv
<1>4. CASE Asks!clearNativeCommand
  <2>0. at' = "pickup" /\ cmd' = None /\ UNCHANGED <<rcpt, proj, given>>
    BY <1>4 DEF Asks!clearNativeCommand, Asks!Goto, Asks!ghosts
  <2>1. \A a \in Answers : ~Asks!Answering(a)' /\ cmd' # a BY <2>0 DEF Asks!Answering,
    Asks!ConstantsOK
  <2>2. Asks!Announced' BY <2>1 DEF Asks!Announced
  <2>3. Asks!ReceiptTrue' BY <2>0 DEF AnswersInv, Asks!ReceiptTrue
  <2>4. Asks!GivenOnce' BY <1>0, <2>0 DEF AnswersInv, Asks!GivenOnce
  <2>5. Asks!WritesFresh' BY <1>0, <2>0, <2>1 DEF AnswersInv, Asks!WritesFresh
  <2>6. Asks!ToldTrue' BY <1>0, <2>0, <2>1 DEF AnswersInv, Asks!ToldTrue
  <2> QED BY <2>2, <2>3, <2>4, <2>5, <2>6 DEF AnswersInv
<1> QED BY <1>1, <1>2, <1>3, <1>4 DEF Gives
-----------------------------------------------------------------------------
(* Mailboxes *)

BoxesInv == Asks!RanOnce /\ Asks!WritesOnce

\* A step that writes no mailbox, runs no request and asks for none keeps what is said of them.
LEMMA QuietBoxes ==
  ASSUME BoxesInv, UNCHANGED <<box, ran>>, \A o \in BoxOps : call'[o] = call[o],
         at' = "applied" <=> at = "applied", at = "applied" => held' = held
  PROVE  BoxesInv'
<1>1. Asks!RanOnce' BY DEF BoxesInv, Asks!RanOnce
<1>2. \A k \in Asks!Kinds, o \in BoxOps : Asks!Queued(k, o)' = Asks!Queued(k, o) BY
  DEF Asks!Queued
<1>3. Asks!WritesOnce' BY DEF BoxesInv, Asks!WritesOnce, Asks!Queued
<1> QED BY <1>1, <1>3 DEF BoxesInv

\* The callers and the owner's steps that are about no mailbox.
LEMMA OtherBoxes ==
  ASSUME Asks!ConstantsOK, Asks!TypeOK, BoxesInv,
         \/ \E a \in Answers : AsksAnswer(a)
         \/ \E t \in Asks!Turns : Asks!requestRuntimeInterrupt(t)
         \/ \E k \in Asks!Kinds : Asks!Skip(k)
         \/ Interrupts \/ Gives \/ Asks!open \/ Asks!restoreMode \/ Asks!pickup \/ Asks!drain \/ Works
  PROVE  BoxesInv'
<1>1. CASE \E a \in Answers : AsksAnswer(a)
  <2>1. UNCHANGED <<box, ran, at, held>>
    BY <1>1 DEF AsksAnswer, Asks!Respond, Asks!writeNativeCommand, Asks!AwaitReceipt, Asks!files,
      Asks!owner, Asks!ghosts
  <2>2. \A o \in BoxOps : call'[o] = call[o]
    BY <1>1 DEF AsksAnswer, Asks!Respond, Asks!writeNativeCommand, Asks!AwaitReceipt, Asks!Say,
      Asks!TypeOK, Asks!ConstantsOK
  <2> QED BY <2>1, <2>2, QuietBoxes
<1>2. CASE \E t \in Asks!Turns : Asks!requestRuntimeInterrupt(t)
  <2>1. UNCHANGED <<box, ran, at, held, call>>
    BY <1>2 DEF Asks!requestRuntimeInterrupt, Asks!owner, Asks!ghosts
  <2> QED BY <2>1, QuietBoxes
<1>3. CASE \E k \in Asks!Kinds : Asks!Skip(k)
  <2>1. UNCHANGED <<box, ran, call>> BY <1>3 DEF Asks!Skip, Asks!files, Asks!callers, Asks!ghosts
  <2>2. at # "applied" /\ at' # "applied" BY <1>3, AfterIs DEF Asks!Skip, Asks!Goto, Asks!Kinds
  <2> QED BY <2>1, <2>2, QuietBoxes
<1>4. CASE Interrupts
  <2>1. UNCHANGED <<box, ran, call>>
    BY <1>4 DEF Interrupts, Asks!applyInterrupt, Asks!Recheck, Asks!StopTurn, Asks!Interrupted,
      Asks!callers, Asks!ghosts
  <2>2. at # "applied" /\ at' # "applied"
    BY <1>4 DEF Interrupts, Asks!applyInterrupt, Asks!Recheck, Asks!StopTurn, Asks!Interrupted,
      Asks!Goto
  <2> QED BY <2>1, <2>2, QuietBoxes
<1>5. CASE Gives
  <2>1. UNCHANGED <<box, ran, call>>
    BY <1>5 DEF Gives, Asks!answerNativeCommand, Asks!Submit, Asks!Submitted,
      Asks!clearNativeCommand, Asks!callers, Asks!ghosts
  <2>2. at # "applied" /\ at' # "applied"
    BY <1>5 DEF Gives, Asks!answerNativeCommand, Asks!Submit, Asks!Submitted,
      Asks!clearNativeCommand, Asks!Goto
  <2> QED BY <2>1, <2>2, QuietBoxes
<1>6. CASE Asks!open \/ Asks!restoreMode \/ Asks!pickup \/ Asks!drain
  <2>1. UNCHANGED <<box, ran, call>>
    BY <1>6 DEF Asks!open, Asks!restoreMode, Asks!pickup, Asks!drain, Asks!files, Asks!callers,
      Asks!ghosts
  <2>2. (at' = "applied" <=> at = "applied") /\ (at = "applied" => held' = held)
    BY <1>6 DEF Asks!open, Asks!restoreMode, Asks!pickup, Asks!drain, Asks!Goto
  <2> QED BY <2>1, <2>2, QuietBoxes
<1>7. CASE Works
  <2>1. UNCHANGED <<box, ran, call, at, held>>
    BY <1>7 DEF Works, Asks!decide, Asks!FinishTurn, Asks!files, Asks!owner, Asks!callers,
      Asks!ghosts
  <2> QED BY <2>1, QuietBoxes
<1> QED BY <1>1, <1>2, <1>3, <1>4, <1>5, <1>6, <1>7

\* A caller writes a request only where its own is not, and a request that has run is there.
LEMMA AskBoxes ==
  ASSUME Asks!ConstantsOK, Asks!TypeOK, BoxesInv, NEW o \in BoxOps, AsksBox(o)
  PROVE  BoxesInv'
<1>0. /\ Kind[o] \in Asks!Kinds /\ at' = at /\ held' = held
      /\ \A p \in BoxOps \ {o} : call'[p] = call[p]
  BY DEF Asks!ConstantsOK, AsksBox, Asks!Request, Asks!WriteRequest, Asks!AwaitRequest, Asks!Say,
    Asks!TypeOK, Asks!owner
<1>1. CASE Asks!Request(o)
  <2>1. box' = box /\ ran' = ran BY <1>1 DEF Asks!Request, Asks!files, Asks!ghosts
  <2>2. Asks!RanOnce' BY <1>0, <2>1 DEF BoxesInv, Asks!RanOnce
  <2>3. call'[o] = "writing" => ~Asks!Mine(o)
    <3>1. call'[o] = IF ~proj.up THEN "unavailable" ELSE IF Asks!Mine(o) THEN Asks!Settled(o) ELSE "writing"
      BY <1>1 DEF Asks!Request, Asks!Say, Asks!TypeOK
    <3> QED BY <3>1 DEF Asks!Settled
  <2>4. ~Asks!Mine(o) => ~Asks!Queued(Kind[o], o) /\ (ran[Kind[o]].op = o => ran[Kind[o]].n = 0)
    <3>1. ran[Kind[o]].n \in Nat BY <1>0 DEF Asks!TypeOK, Asks!Counts
    <3> QED BY <1>0, <3>1 DEF Asks!Mine, Asks!Queued, BoxesInv, Asks!RanOnce
  <2>5. Asks!WritesOnce' BY <1>0, <2>1, <2>3, <2>4 DEF BoxesInv, Asks!WritesOnce, Asks!Queued
  <2> QED BY <2>2, <2>5 DEF BoxesInv
<1>2. CASE Asks!WriteRequest(o)
  <2> DEFINE k == Kind[o]
  <2>1. PICK v \in Asks!Modes : box' = [box EXCEPT ![k] = [op |-> o, mode |-> v, phase |-> "queued"]]
    BY <1>2 DEF Asks!WriteRequest, Asks!Modes
  <2>2. box'[k] = [op |-> o, mode |-> v, phase |-> "queued"] BY <1>0, <2>1 DEF Asks!TypeOK
  <2>3. box'[k] # None
    <3>1. box'[k] \in Asks!Slots BY <2>2 DEF Asks!Slots
    <3> QED BY <3>1 DEF Asks!ConstantsOK
  <2>4. ran'[k].op = o /\ ran'[k].n = 0
    <3>1. ran'[k] = IF ran[k].op = o THEN ran[k] ELSE [op |-> o, n |-> 0]
      BY <1>0, <1>2 DEF Asks!WriteRequest, Asks!TypeOK
    <3>2. ran[k].op = o => ran[k].n = 0 BY <1>2 DEF Asks!WriteRequest, BoxesInv, Asks!WritesOnce
    <3> QED BY <3>1, <3>2
  <2>5. \A j \in Asks!Kinds \ {k} : box'[j] = box[j] /\ ran'[j] = ran[j]
    BY <1>2, <2>1 DEF Asks!WriteRequest, Asks!TypeOK
  <2>6. call'[o] = "waiting" BY <1>2 DEF Asks!WriteRequest, Asks!Say, Asks!TypeOK
  <2>7. Asks!RanOnce'
    <3> SUFFICES ASSUME NEW j \in Asks!Kinds
                 PROVE  /\ ran'[j].n <= 1
                        /\ ran'[j].n > 0 => /\ box'[j] # None /\ box'[j].op = ran'[j].op
                                            /\ at' = "applied" /\ held'[1] = j => held'[2].op = ran'[j].op
                        /\ box'[j] # None /\ box'[j].phase = "queued" =>
                             ran'[j].op = box'[j].op /\ (ran'[j].n = 0 \/ (at' = "applied" /\ held'[1] = j))
      BY DEF Asks!RanOnce
    <3>1. CASE j = k BY <2>2, <2>3, <2>4, <3>1
    <3>2. CASE j # k BY <1>0, <2>5, <3>2 DEF BoxesInv, Asks!RanOnce
    <3> QED BY <3>1, <3>2
  <2>8. Asks!WritesOnce'
    <3> SUFFICES ASSUME NEW p \in BoxOps, call'[p] = "writing"
                 PROVE  /\ ~(box'[Kind[p]] # None /\ box'[Kind[p]].op = p /\ box'[Kind[p]].phase = "queued")
                        /\ ran'[Kind[p]].op = p => ran'[Kind[p]].n = 0
      BY DEF Asks!WritesOnce, Asks!Queued
    <3>1. p # o BY <2>6
    <3>2. CASE Kind[p] = k BY <2>2, <2>4, <3>1, <3>2
    <3>3. CASE Kind[p] # k
      BY <1>0, <2>5, <3>1, <3>3 DEF BoxesInv, Asks!WritesOnce, Asks!Queued, Asks!ConstantsOK
    <3> QED BY <3>2, <3>3
  <2> QED BY <2>7, <2>8 DEF BoxesInv
<1>3. CASE Asks!AwaitRequest(o)
  <2>1. box' = box /\ ran' = ran BY <1>3 DEF Asks!AwaitRequest, Asks!files, Asks!ghosts
  <2>2. call'[o] # "writing" BY <1>3 DEF Asks!AwaitRequest, Asks!Say, Asks!TypeOK, Asks!Settled
  <2>3. Asks!RanOnce' BY <1>0, <2>1 DEF BoxesInv, Asks!RanOnce
  <2>4. Asks!WritesOnce' BY <1>0, <2>1, <2>2 DEF BoxesInv, Asks!WritesOnce, Asks!Queued
  <2> QED BY <2>3, <2>4 DEF BoxesInv
<1> QED BY <1>1, <1>2, <1>3 DEF AsksBox

\* A request that waits has not run, so that the owner runs it once; what it writes back is what
\* it has run, or what a later request has taken the place of.
LEMMA ApplyBoxes ==
  ASSUME Asks!ConstantsOK, Asks!TypeOK, BoxesInv, NEW k \in Asks!Kinds, Asks!Apply(k)
  PROVE  BoxesInv'
<1>0. /\ at = k /\ at # "applied" /\ call' = call
      /\ box[k] # None /\ box[k] \in Asks!Slots /\ box[k].phase = "queued"
  BY DEF Asks!Apply, Asks!Applicable, Asks!Kinds, Asks!callers, Asks!TypeOK
<1>1. ran[k].op = box[k].op /\ ran[k].n = 0 BY <1>0 DEF BoxesInv, Asks!RanOnce
<1>2. ran' = [ran EXCEPT ![k].n = 1] BY <1>1 DEF Asks!Apply, Asks!TypeOK, Asks!Counts
<1>3. /\ ran'[k].n = 1 /\ ran'[k].op = box[k].op
      /\ \A j \in Asks!Kinds \ {k} : ran'[j] = ran[j]
  BY <1>1, <1>2 DEF Asks!TypeOK, Asks!Counts
<1>4. box'[k] # None /\ box'[k].op = box[k].op /\ \A j \in Asks!Kinds \ {k} : box'[j] = box[j]
  <2>1. CASE box' = box BY <1>0, <2>1
  <2>2. CASE box' = [box EXCEPT ![k].phase = "failed"]
    <3>1. box'[k] \in Asks!Slots /\ box'[k].op = box[k].op BY <1>0, <2>2 DEF Asks!TypeOK,
      Asks!Slots
    <3> QED BY <2>2, <3>1 DEF Asks!ConstantsOK, Asks!TypeOK
  <2> QED BY <2>1, <2>2 DEF Asks!Apply
<1>5. \/ at' = "applied" /\ held' = <<k, box[k]>>
      \/ at' # "applied" /\ box'[k].phase = "failed"
  BY <1>0, AfterIs DEF Asks!Apply, Asks!Goto, Asks!TypeOK, Asks!Slots
<1>6. Asks!RanOnce'
  <2> SUFFICES ASSUME NEW j \in Asks!Kinds
               PROVE  /\ ran'[j].n <= 1
                      /\ ran'[j].n > 0 => /\ box'[j] # None /\ box'[j].op = ran'[j].op
                                          /\ at' = "applied" /\ held'[1] = j => held'[2].op = ran'[j].op
                      /\ box'[j] # None /\ box'[j].phase = "queued" =>
                           ran'[j].op = box'[j].op /\ (ran'[j].n = 0 \/ (at' = "applied" /\ held'[1] = j))
    BY DEF Asks!RanOnce
  <2>1. CASE j = k BY <1>3, <1>4, <1>5, <2>1
  <2>2. CASE j # k BY <1>0, <1>3, <1>4, <1>5, <2>2 DEF BoxesInv, Asks!RanOnce
  <2> QED BY <2>1, <2>2
<1>7. Asks!WritesOnce'
  <2> SUFFICES ASSUME NEW p \in BoxOps, call[p] = "writing"
               PROVE  /\ ~(box'[Kind[p]] # None /\ box'[Kind[p]].op = p /\ box'[Kind[p]].phase = "queued")
                      /\ ran'[Kind[p]].op = p => ran'[Kind[p]].n = 0
    BY <1>0 DEF Asks!WritesOnce, Asks!Queued
  <2>1. Kind[p] \in Asks!Kinds BY DEF Asks!ConstantsOK
  <2>2. CASE Kind[p] = k
    <3>1. box[k].op # p BY <1>0, <2>2 DEF BoxesInv, Asks!WritesOnce, Asks!Queued
    <3> QED BY <1>3, <1>4, <2>2, <3>1
  <2>3. CASE Kind[p] # k BY <1>3, <1>4, <2>1, <2>3 DEF BoxesInv, Asks!WritesOnce, Asks!Queued
  <2> QED BY <2>2, <2>3
<1> QED BY <1>6, <1>7 DEF BoxesInv

\* What the owner writes back does not wait.
LEMMA AppliedBoxes ==
  ASSUME Asks!ConstantsOK, Asks!TypeOK, BoxesInv, Asks!Applied
  PROVE  BoxesInv'
<1>0. PICK k \in Asks!Kinds : k = held[1] /\ held[2] \in Asks!Slots BY DEF Asks!Applied,
  Asks!TypeOK, Asks!HeldOK
<1>1. at = "applied" /\ at' # "applied" /\ ran' = ran /\ call' = call
  BY <1>0, AfterIs DEF Asks!Applied, Asks!Goto, Asks!callers
<1>2. box' = [box EXCEPT ![k] = [held[2] EXCEPT !.phase = "complete"]] BY <1>0 DEF Asks!Applied
<1>3. box'[k] \in Asks!Slots /\ box'[k].op = held[2].op /\ box'[k].phase = "complete"
  BY <1>0, <1>2 DEF Asks!TypeOK, Asks!Slots
<1>4. box'[k] # None BY <1>3 DEF Asks!ConstantsOK
<1>5. \A j \in Asks!Kinds \ {k} : box'[j] = box[j] BY <1>2 DEF Asks!TypeOK
<1>6. Asks!RanOnce'
  <2> SUFFICES ASSUME NEW j \in Asks!Kinds
               PROVE  /\ ran[j].n <= 1
                      /\ ran[j].n > 0 => box'[j] # None /\ box'[j].op = ran[j].op
                      /\ box'[j] # None /\ box'[j].phase = "queued" =>
                           ran[j].op = box'[j].op /\ ran[j].n = 0
    BY <1>1 DEF Asks!RanOnce
  <2>1. CASE j = k BY <1>0, <1>1, <1>3, <1>4, <2>1 DEF BoxesInv, Asks!RanOnce
  <2>2. CASE j # k BY <1>0, <1>1, <1>5, <2>2 DEF BoxesInv, Asks!RanOnce
  <2> QED BY <2>1, <2>2
<1>7. Asks!WritesOnce'
  <2> SUFFICES ASSUME NEW p \in BoxOps, call[p] = "writing"
               PROVE  /\ ~(box'[Kind[p]] # None /\ box'[Kind[p]].op = p /\ box'[Kind[p]].phase = "queued")
                      /\ ran[Kind[p]].op = p => ran[Kind[p]].n = 0
    BY <1>1 DEF Asks!WritesOnce, Asks!Queued
  <2>1. Kind[p] \in Asks!Kinds BY DEF Asks!ConstantsOK
  <2> QED BY <1>3, <1>5, <2>1 DEF BoxesInv, Asks!WritesOnce, Asks!Queued
<1> QED BY <1>6, <1>7 DEF BoxesInv

\* A request of a session that died is another when it runs again.
LEMMA DeathBoxes ==
  ASSUME Asks!ConstantsOK, Asks!TypeOK, BoxesInv, Asks!OwnerDies
  PROVE  BoxesInv'
<1>1. box' = box /\ call' = call /\ at' = "down" BY DEF Asks!OwnerDies, Asks!Goto, Asks!callers
<1>2. \A k \in Asks!Kinds : ran'[k].op = ran[k].op /\ ran'[k].n = 0 BY DEF Asks!OwnerDies,
  Asks!TypeOK, Asks!Counts
<1>3. Asks!RanOnce' BY <1>1, <1>2 DEF BoxesInv, Asks!RanOnce
<1>4. Asks!WritesOnce'
  <2>1. \A o \in BoxOps : call'[o] = "writing" => ~Asks!Queued(Kind[o], o) BY <1>1 DEF BoxesInv,
    Asks!WritesOnce
  <2>2. \A o \in BoxOps : ran'[Kind[o]].n = 0 BY <1>2 DEF Asks!ConstantsOK
  <2> QED BY <1>1, <2>1, <2>2 DEF Asks!WritesOnce, Asks!Queued
<1> QED BY <1>3, <1>4 DEF BoxesInv
-----------------------------------------------------------------------------
(* The mode of a session *)

\* A step that keeps the mode of the provider and the slot of the mode, brings no owner up and
\* begins no request.
LEMMA QuietMode ==
  ASSUME Asks!ModeHeld, run'.mode = run.mode, box'["mode"] = box["mode"],
         at' \in {"down", "restoring"} => run'.turn = 0,
         at \in {"down", "restoring"} => at' \in {"down", "restoring"},
         at' = "applied" => at = "applied" /\ held' = held
  PROVE  Asks!ModeHeld'
<1>1. Asks!shouldRestoreMode' = Asks!shouldRestoreMode BY DEF Asks!shouldRestoreMode
<1> QED BY <1>1 DEF Asks!ModeHeld

\* The callers, the answers, the interrupts and the turns leave the mode alone.
LEMMA OtherModes ==
  ASSUME Asks!ConstantsOK, Asks!TypeOK, Asks!ModeHeld,
         \/ \E a \in Answers : AsksAnswer(a)
         \/ \E t \in Asks!Turns : Asks!requestRuntimeInterrupt(t)
         \/ \E k \in Asks!Kinds : Asks!Skip(k)
         \/ Interrupts \/ Gives \/ Asks!pickup \/ Asks!drain \/ Works
  PROVE  Asks!ModeHeld'
<1>1. CASE \/ \E a \in Answers : AsksAnswer(a)
           \/ \E t \in Asks!Turns : Asks!requestRuntimeInterrupt(t)
  <2>1. UNCHANGED <<run, box, at, held>>
    BY <1>1 DEF AsksAnswer, Asks!Respond, Asks!writeNativeCommand, Asks!AwaitReceipt,
      Asks!requestRuntimeInterrupt,
       Asks!files, Asks!owner, Asks!provider
  <2> QED BY <2>1, QuietMode DEF Asks!ModeHeld
<1>2. CASE \E k \in Asks!Kinds : Asks!Skip(k)
  <2>1. run' = run /\ box' = box BY <1>2 DEF Asks!Skip, Asks!files, Asks!provider
  <2>2. at \notin {"down", "restoring"} /\ at' \notin {"down", "restoring", "applied"}
    BY <1>2, AfterIs DEF Asks!Skip, Asks!Goto, Asks!Kinds
  <2> QED BY <2>1, <2>2, QuietMode
<1>3. CASE Interrupts
  <2>1. box' = box BY <1>3 DEF Interrupts, Asks!applyInterrupt, Asks!Recheck, Asks!StopTurn,
    Asks!Interrupted
  <2>2. at \notin {"down", "restoring"} /\ at' \notin {"down", "restoring", "applied"}
    BY <1>3 DEF Interrupts, Asks!applyInterrupt, Asks!Recheck, Asks!StopTurn, Asks!Interrupted,
      Asks!Goto
  <2>3. run'.mode = run.mode
    <3>1. CASE Asks!StopTurn BY <3>1, EndTypes DEF Asks!StopTurn, Asks!provider
    <3>2. CASE Asks!Recheck BY <3>2 DEF Asks!Recheck, Asks!TypeOK, Asks!Runs
    <3>3. CASE Asks!applyInterrupt \/ Asks!Interrupted BY <3>3 DEF Asks!applyInterrupt,
      Asks!Interrupted, Asks!provider
    <3> QED BY <1>3, <3>1, <3>2, <3>3 DEF Interrupts
  <2> QED BY <2>1, <2>2, <2>3, QuietMode
<1>4. CASE Gives
  <2>1. box' = box BY <1>4 DEF Gives, Asks!answerNativeCommand, Asks!Submit, Asks!Submitted,
    Asks!clearNativeCommand
  <2>2. at \notin {"down", "restoring"} /\ at' \notin {"down", "restoring", "applied"}
    BY <1>4 DEF Gives, Asks!answerNativeCommand, Asks!Submit, Asks!Submitted,
      Asks!clearNativeCommand, Asks!Goto
  <2>3. run'.mode = run.mode
    BY <1>4 DEF Gives, Asks!answerNativeCommand, Asks!Submit, Asks!Submitted,
      Asks!clearNativeCommand, Asks!provider,
       Asks!TypeOK, Asks!Runs
  <2> QED BY <2>1, <2>2, <2>3, QuietMode
<1>5. CASE Asks!pickup
  <2>1. box' = box /\ at = "pickup" /\ at' = "idle" BY <1>5 DEF Asks!pickup, Asks!files, Asks!Goto
  <2>2. run'.mode = run.mode
    <3>1. \/ run' = run
          \/ run' = [run EXCEPT !.turn = proj.turn + 1]
          \/ run' = [run EXCEPT !.queue = Append(run.queue, proj.turn + 1)]
      BY <1>5 DEF Asks!pickup
    <3> QED BY <3>1 DEF Asks!TypeOK, Asks!Runs
  <2> QED BY <2>1, <2>2, QuietMode
<1>6. CASE Asks!drain
  BY <1>6, QuietMode DEF Asks!drain, Asks!files, Asks!ModeHeld
<1>7. CASE Works
  <2>1. box' = box /\ at' = at /\ held' = held /\ run.turn # 0
    BY <1>7 DEF Works, Asks!decide, Asks!FinishTurn, Asks!files, Asks!owner
  <2>2. run'.mode = run.mode
    <3>1. CASE Asks!decide BY <3>1 DEF Asks!decide, Asks!TypeOK, Asks!Runs
    <3>2. CASE Asks!FinishTurn BY <3>2, EndTypes DEF Asks!FinishTurn
    <3> QED BY <1>7, <3>1, <3>2 DEF Works
  <2>3. at \notin {"down", "restoring"} BY <2>1 DEF Asks!ModeHeld
  <2> QED BY <2>1, <2>2, <2>3, QuietMode
<1> QED BY <1>1, <1>2, <1>3, <1>4, <1>5, <1>6, <1>7

\* A request for a mode is none that was completed.
LEMMA AskModes ==
  ASSUME Asks!ConstantsOK, Asks!TypeOK, Asks!ModeHeld, NEW o \in BoxOps, AsksBox(o)
  PROVE  Asks!ModeHeld'
<1>1. UNCHANGED <<run, at, held>>
  BY DEF AsksBox, Asks!Request, Asks!WriteRequest, Asks!AwaitRequest, Asks!owner, Asks!provider
<1>2. box'["mode"] = box["mode"] \/ (box'["mode"]).phase = "queued"
  BY DEF AsksBox, Asks!Request, Asks!WriteRequest, Asks!AwaitRequest, Asks!files, Asks!TypeOK,
    Asks!Kinds, Asks!ConstantsOK
<1>3. CASE box'["mode"] = box["mode"] BY <1>1, <1>3, QuietMode DEF Asks!ModeHeld
<1>4. CASE (box'["mode"]).phase = "queued"
  <2>1. ~Asks!shouldRestoreMode' BY <1>4 DEF Asks!shouldRestoreMode
  <2> QED BY <1>1, <2>1 DEF Asks!ModeHeld
<1> QED BY <1>2, <1>3, <1>4

\* The owner changes the mode of the provider before it says so, and gives a new one the mode
\* of its mailbox.
LEMMA OwnerModes ==
  ASSUME Asks!ConstantsOK, Asks!TypeOK, Asks!ModeHeld,
         (\E k \in Asks!Kinds : Asks!Apply(k)) \/ Asks!Applied \/ Asks!open
         \/ Asks!restoreMode \/ Asks!OwnerDies
  PROVE  Asks!ModeHeld'
<1>1. CASE \E k \in Asks!Kinds : Asks!Apply(k)
  <2>1. PICK k \in Asks!Kinds : Asks!Apply(k) BY <1>1
  <2>2. at = k /\ box[k] # None /\ box[k].phase = "queued" /\ box[k] \in Asks!Slots
    BY <2>1 DEF Asks!Apply, Asks!Applicable, Asks!TypeOK
  <2>3. at \notin {"down", "restoring"} BY <2>2 DEF Asks!Kinds
  <2>4. CASE at' = "applied" /\ held' = <<k, box[k]>> /\ UNCHANGED box
             /\ run' = [run EXCEPT !.mode = IF k = "mode" THEN box[k].mode ELSE @]
    <3>1. Asks!shouldRestoreMode' = Asks!shouldRestoreMode BY <2>4 DEF Asks!shouldRestoreMode
    <3>2. k = "mode" => run'.mode = box[k].mode /\ ~Asks!shouldRestoreMode
      BY <2>2, <2>4 DEF Asks!TypeOK, Asks!Runs, Asks!shouldRestoreMode
    <3>3. k # "mode" => run'.mode = run.mode BY <2>4 DEF Asks!TypeOK, Asks!Runs
    <3> QED BY <2>2, <2>3, <2>4, <3>1, <3>2, <3>3 DEF Asks!ModeHeld
  <2>5. CASE Asks!Goto(Asks!After(k)) /\ box' = [box EXCEPT ![k].phase = "failed"] /\ UNCHANGED run
    <3>1. at' \notin {"down", "restoring", "applied"} BY <2>5, AfterIs DEF Asks!Goto
    <3>2. Asks!shouldRestoreMode' => box'["mode"] = box["mode"] /\ Asks!shouldRestoreMode
      BY <2>2, <2>5 DEF Asks!shouldRestoreMode, Asks!TypeOK, Asks!Kinds, Asks!Slots
    <3> QED BY <2>3, <2>5, <3>1, <3>2 DEF Asks!ModeHeld
  <2> QED BY <2>1, <2>4, <2>5 DEF Asks!Apply
<1>2. CASE Asks!Applied
  <2>1. PICK k \in Asks!Kinds : k = held[1] /\ held[2] \in Asks!Slots BY <1>2 DEF Asks!Applied,
    Asks!TypeOK, Asks!HeldOK
  <2>2. box' = [box EXCEPT ![k] = [held[2] EXCEPT !.phase = "complete"]] /\ run' = run
    BY <1>2, <2>1 DEF Asks!Applied, Asks!provider
  <2>3. at = "applied" /\ at' \notin {"down", "restoring", "applied"}
    BY <1>2, <2>1, AfterIs DEF Asks!Applied, Asks!Goto
  <2>4. CASE k = "mode"
    <3>1. run.mode = held[2].mode BY <2>1, <2>3, <2>4 DEF Asks!ModeHeld
    <3>2. box'["mode"].mode = held[2].mode BY <2>1, <2>2, <2>4 DEF Asks!TypeOK, Asks!Kinds,
      Asks!Slots
    <3> QED BY <2>2, <2>3, <3>1, <3>2 DEF Asks!ModeHeld
  <2>5. CASE k # "mode"
    <3>1. box'["mode"] = box["mode"] BY <2>2, <2>5 DEF Asks!TypeOK, Asks!Kinds
    <3> QED BY <2>2, <2>3, <3>1, QuietMode
  <2> QED BY <2>4, <2>5
<1>3. CASE Asks!open
  BY <1>3 DEF Asks!open, Asks!Quiet, Asks!ModeHeld
<1>4. CASE Asks!restoreMode
  <2>1. box' = box /\ at' = "idle" BY <1>4 DEF Asks!restoreMode
  <2>2. Asks!shouldRestoreMode' = Asks!shouldRestoreMode BY <2>1 DEF Asks!shouldRestoreMode
  <2>3. Asks!shouldRestoreMode => run'.mode = box["mode"].mode BY <1>4 DEF Asks!restoreMode,
    Asks!TypeOK, Asks!Runs
  <2> QED BY <2>1, <2>2, <2>3 DEF Asks!ModeHeld
<1>5. CASE Asks!OwnerDies
  BY <1>5 DEF Asks!OwnerDies, Asks!Goto, Asks!Quiet, Asks!ModeHeld
<1> QED BY <1>1, <1>2, <1>3, <1>4, <1>5

-----------------------------------------------------------------------------
(* The invariant *)

\* Every step keeps it.
LEMMA RequestsKept ==
  ASSUME Asks!ConstantsOK, Asks!TypeOK, Asks!RequestsInv, [Asks!Next]_(Asks!vars)
  PROVE  Asks!RequestsInv'
<1>0. AnswersInv /\ BoxesInv /\ Asks!ModeHeld BY DEF Asks!RequestsInv, AnswersInv, BoxesInv
<1>1. CASE UNCHANGED Asks!vars
  <2>1. UNCHANGED <<cmd, rcpt, paid, given, call, at, held, proj, box, ran, run>>
    BY <1>1 DEF Asks!vars, Asks!files, Asks!owner, Asks!provider, Asks!callers, Asks!ghosts
  <2>2. AnswersInv' BY <1>0, <2>1, QuietAnswers DEF AnswersInv, Asks!GivenOnce
  <2>3. BoxesInv' BY <1>0, <2>1, QuietBoxes
  <2>4. Asks!ModeHeld' BY <1>0, <2>1, QuietMode DEF Asks!ModeHeld
  <2> QED BY <2>2, <2>3, <2>4 DEF Asks!RequestsInv, AnswersInv, BoxesInv
<1>2. CASE Asks!Next
  <2>1. AnswersInv'
    BY <1>0, <1>2, AsksStepIs, RespondAnswers, CallerAnswers, OtherAnswers, GiveAnswers
      DEF AsksAnswer
  <2>2. BoxesInv'
    BY <1>0, <1>2, AsksStepIs, OtherBoxes, AskBoxes, ApplyBoxes, AppliedBoxes, DeathBoxes
    DEF Applies, Lives
  <2>3. Asks!ModeHeld' BY <1>0, <1>2, AsksStepIs, OtherModes, AskModes, OwnerModes DEF Applies,
    Lives
  <2> QED BY <2>1, <2>2, <2>3 DEF Asks!RequestsInv, AnswersInv, BoxesInv
<1> QED BY <1>1, <1>2

\* Nothing was asked yet.
LEMMA RequestsInit ==
  ASSUME Asks!ConstantsOK, Asks!Init
  PROVE  Asks!RequestsInv
<1>1. \A a \in Answers : given[a] = 0 /\ call[a] = "none" BY DEF Asks!Init
<1>2. ASSUME NEW a \in Answers PROVE given[a] <= 1 /\ ~(given[a] > 0)
  <2>1. given[a] = 0 BY <1>1
  <2> QED BY <2>1
<1>3. Asks!Announced /\ Asks!ReceiptTrue BY DEF Asks!Init, Asks!Announced, Asks!ReceiptTrue,
  Asks!Answering
<1>4. Asks!GivenOnce BY <1>2 DEF Asks!GivenOnce
<1>5. Asks!WritesFresh BY <1>1, <1>2 DEF Asks!WritesFresh
<1>6. Asks!ToldTrue BY DEF Asks!Init, Asks!ToldTrue
<1>7. Asks!RanOnce BY DEF Asks!Init, Asks!RanOnce
<1>8. Asks!WritesOnce BY DEF Asks!Init, Asks!WritesOnce
<1>9. Asks!ModeHeld BY DEF Asks!Init, Asks!ModeHeld, Asks!Quiet
<1> QED BY <1>3, <1>4, <1>5, <1>6, <1>7, <1>8, <1>9 DEF Asks!RequestsInv

\* What the receipts, the slots, the callers and the provider say of a request agrees
\* (runtime/mailbox.ts, runtime/response.ts, agent/claude/native).
THEOREM RequestsInductive == ASSUME Asks!ConstantsOK PROVE Asks!Spec => []Asks!RequestsInv
<1>1. Asks!Init => Asks!TypeOK /\ Asks!RequestsInv BY AsksTypeInit, RequestsInit
<1>2. Asks!TypeOK /\ Asks!RequestsInv /\ [Asks!Next]_(Asks!vars) => Asks!TypeOK' /\ Asks!RequestsInv'
  BY AsksTypeKept, RequestsKept
<1> QED BY <1>1, <1>2, PTL DEF Asks!Spec

\* A receipt says `submitted` of what was given, once.
LEMMA AnswersAreTold ==
  ASSUME Asks!RequestsInv
  PROVE  Asks!AnswerTold
BY DEF Asks!RequestsInv, Asks!GivenOnce, Asks!ToldTrue, Asks!AnswerTold

\* A request that was run is not run again.
LEMMA AskedOnce ==
  ASSUME Asks!RequestsInv
  PROVE  Asks!AskedTwiceIsOnce
BY DEF Asks!RequestsInv, Asks!RanOnce, Asks!AskedTwiceIsOnce

\* What an answer is told is so: `submitted` was given to the provider once, `rejected` was not,
\* whoever repeats the answer and wherever the owner dies (answerNativeCommand,
\* applyResponse.submit, respondControlNative).
THEOREM AnswersAlwaysTold == ASSUME Asks!ConstantsOK PROVE Asks!Spec => []Asks!AnswerTold
<1>1. Asks!RequestsInv => Asks!AnswerTold BY DEF Asks!RequestsInv, Asks!GivenOnce, Asks!ToldTrue,
  Asks!AnswerTold
<1> QED BY <1>1, RequestsInductive, PTL

\* An operation of a mailbox that is asked again runs once while its owner lives
\* (Mailbox.request).
THEOREM AskedTwiceAlwaysOnce == ASSUME Asks!ConstantsOK PROVE Asks!Spec => []Asks!AskedTwiceIsOnce
<1>1. Asks!RequestsInv => Asks!AskedTwiceIsOnce BY DEF Asks!RequestsInv, Asks!RanOnce,
  Asks!AskedTwiceIsOnce
<1> QED BY <1>1, RequestsInductive, PTL

\* An owner that comes up starts no turn before it has set the mode of its mailbox
\* (restoreMode).
LEMMA NoTurnBefore ==
  ASSUME Asks!ConstantsOK, Asks!TypeOK, Asks!ModeHeld, Asks!Next, at \in {"down", "restoring"}
  PROVE  run'.turn = 0
<1>0. run.turn = 0 BY DEF Asks!ModeHeld
<1>1. CASE \/ \E a \in Answers : AsksAnswer(a)
           \/ \E t \in Asks!Turns : Asks!requestRuntimeInterrupt(t)
           \/ \E o \in BoxOps : AsksBox(o)
  BY <1>0, <1>1 DEF AsksAnswer, Asks!Respond, Asks!writeNativeCommand, Asks!AwaitReceipt,
     Asks!requestRuntimeInterrupt, AsksBox, Asks!Request, Asks!WriteRequest, Asks!AwaitRequest,
     Asks!provider
<1>2. CASE \E k \in Asks!Kinds : Applies(k) BY <1>2 DEF Applies, Asks!Skip, Asks!Apply, Asks!Kinds
<1>3. CASE Interrupts \/ Asks!Applied \/ Gives
  BY <1>3 DEF Interrupts, Asks!applyInterrupt, Asks!Recheck, Asks!StopTurn, Asks!Interrupted,
    Asks!Applied, Gives,
     Asks!answerNativeCommand, Asks!Submit, Asks!Submitted, Asks!clearNativeCommand
<1>4. CASE Lives
  BY <1>0, <1>4 DEF Lives, Asks!open, Asks!restoreMode, Asks!pickup, Asks!drain, Asks!OwnerDies,
    Asks!Quiet, Asks!TypeOK, Asks!Runs
<1>5. CASE Works BY <1>0, <1>5 DEF Works, Asks!decide, Asks!FinishTurn
<1> QED BY <1>1, <1>2, <1>3, <1>4, <1>5, AsksStepIs

\* A turn that begins, begins in the mode that was set.
LEMMA TurnsInMode ==
  ASSUME Asks!ConstantsOK, Asks!TypeOK, Asks!RequestsInv, Asks!Next
  PROVE  Asks!BeginsInMode
<1>1. Asks!ModeHeld BY DEF Asks!RequestsInv
<1>2. CASE at \in {"down", "restoring"} BY <1>1, <1>2, NoTurnBefore DEF Asks!BeginsInMode
<1>3. CASE at \notin {"down", "restoring"} BY <1>1, <1>3 DEF Asks!ModeHeld, Asks!BeginsInMode
<1> QED BY <1>2, <1>3

\* A turn begins in the mode of the completed request of the mailbox, across deaths of the owner
\* (restoreMode, applyMode).
THEOREM TurnsAlwaysInMode == ASSUME Asks!ConstantsOK PROVE Asks!Spec => Asks!ModeRestored
<1>1. Asks!TypeOK /\ Asks!RequestsInv /\ [Asks!Next]_(Asks!vars) => [Asks!BeginsInMode]_(Asks!vars)
  BY TurnsInMode
<1> QED BY <1>1, AsksTypes, RequestsInductive, PTL DEF Asks!Spec, Asks!ModeRestored

-----------------------------------------------------------------------------
(* Steering *)

SteerInv == Steer!TypeOK /\ Steer!SteeringInv

LEMMA SteerInit == ASSUME Steer!ConstantsOK, Steer!Init PROVE SteerInv
BY DEF Steer!ConstantsOK, Steer!Init, SteerInv, Steer!TypeOK, Steer!Phases, Steer!SteeringInv,
  Steer!JobSound, Steer!JournalSound, Steer!Journaled, Steer!SteeringSafe, Steer!SteeredOnce,
  Steer!SteerTold, Steer!GateOpens, Steer!NoOp, Steer!Idle

LEMMA SteerTypes ==
  ASSUME Steer!ConstantsOK, SteerInv, Steer!Next
  PROVE  Steer!TypeOK'
<1> USE DEF Steer!ConstantsOK, SteerInv, Steer!TypeOK, Steer!Phases, Steer!Idle, Steer!Step, Steer!thread
<1>1. job.at # "idle" => job.op \in Steers BY DEF Steer!SteeringInv, Steer!JobSound
<1>2. ASSUME NEW o \in Steers, Steer!steerNativeTurn(o) PROVE Steer!TypeOK'
  <2>1. PICK t \in 1..turn : want' = [want EXCEPT ![o] = t] BY <1>2 DEF Steer!steerNativeTurn
  <2>2. t \in 0..MaxSteered OBVIOUS
  <2>3. job' = [at |-> "prior", op |-> o, reply |-> None] BY <1>2 DEF Steer!steerNativeTurn
  <2>4. UNCHANGED <<journal, gate, turn, busy, shown, items, pins, told, times, kills>>
    BY <1>2 DEF Steer!steerNativeTurn
  <2> QED BY <2>1, <2>2, <2>3, <2>4
<1>3. ASSUME NEW o \in Steers, Steer!readNativeSteering(o) PROVE Steer!TypeOK'
  BY <1>3 DEF Steer!readNativeSteering
<1>4. ASSUME Steer!priorSteering PROVE Steer!TypeOK' BY <1>4 DEF Steer!priorSteering
<1>5. ASSUME Steer!closeGate PROVE Steer!TypeOK'
  <2>1. \/ job' = [job EXCEPT !.at = "pin"] \/ job' = [job EXCEPT !.at = "open"]
        \/ job' = [at |-> "idle", op |-> None, reply |-> None]
    BY <1>5 DEF Steer!closeGate
  <2>2. gate' \in BOOLEAN /\ UNCHANGED <<journal, want, turn, busy, shown, items, pins, told, times, kills>>
    BY <1>5 DEF Steer!closeGate
  <2> QED BY <2>1, <2>2
<1>6. ASSUME Steer!pin PROVE Steer!TypeOK' BY <1>1, <1>6 DEF Steer!pin
<1>7. ASSUME Steer!intend PROVE Steer!TypeOK' BY <1>1, <1>7 DEF Steer!intend
<1>8. ASSUME Steer!request PROVE Steer!TypeOK'
  <2>1. /\ items' \in {items, [items EXCEPT ![job.op] = turn]}
        /\ times' \in {times, [times EXCEPT ![job.op] = @ + 1]}
        /\ \E reply \in {"submitted", "uncertain"} : job' = [job EXCEPT !.at = "settle", !.reply = reply]
    BY <1>8 DEF Steer!request
  <2>2. turn \in 0..MaxSteered /\ job.op \in Steers BY <1>1, <1>8 DEF Steer!request
  <2>3. UNCHANGED <<journal, want, gate, turn, busy, shown, pins, told, kills>> BY <1>8 DEF Steer!request
  <2>4. items' \in [Steers -> 0..MaxSteered] BY <2>1, <2>2
  <2>5. times' \in [Steers -> Nat] BY <2>1, <2>2
  <2> QED BY <2>1, <2>3, <2>4, <2>5
<1>9. ASSUME Steer!settle PROVE Steer!TypeOK'
  BY <1>1, <1>9 DEF Steer!settle, Steer!SteeringInv, Steer!JobSound
<1>10. ASSUME Steer!openGate PROVE Steer!TypeOK' BY <1>10 DEF Steer!openGate
<1>11. ASSUME Steer!reconcileSteering PROVE Steer!TypeOK' BY <1>1, <1>11 DEF Steer!reconcileSteering
<1>12. ASSUME Steer!answer PROVE Steer!TypeOK'
  BY <1>1, <1>12 DEF Steer!answer, Steer!SteeringInv, Steer!JobSound
<1>13. ASSUME Steer!Die PROVE Steer!TypeOK' BY <1>13 DEF Steer!Die
<1>14. ASSUME Steer!TurnEnds \/ Steer!TurnBegins \/ Steer!Publish,
              UNCHANGED <<journal, want, job, gate, items, pins, told, times, kills>>
       PROVE Steer!TypeOK'
  <2>1. turn' \in 1..MaxSteered
    <3>1. CASE turn' = turn BY <3>1
    <3>2. CASE turn < MaxSteered /\ turn' = turn + 1 BY <3>2
    <3> QED BY <1>14, <3>1, <3>2 DEF Steer!TurnEnds, Steer!TurnBegins, Steer!Publish
  <2>3. busy' \in BOOLEAN
    BY <1>14 DEF Steer!TurnEnds, Steer!TurnBegins, Steer!Publish
  <2>2. shown' \in 0..MaxSteered
    BY <1>14 DEF Steer!TurnEnds, Steer!TurnBegins, Steer!Publish
  <2> QED BY <1>14, <2>1, <2>2, <2>3
<1> QED BY <1>2, <1>3, <1>4, <1>5, <1>6, <1>7, <1>8, <1>9, <1>10, <1>11, <1>12, <1>13, <1>14 DEF Steer!Next

\* The process that steers has in hand what the journal, the thread and the callers allow.
LEMMA SteerStep ==
  ASSUME Steer!ConstantsOK, SteerInv, Steer!Next
  PROVE  Steer!SteeringInv'
<1> USE DEF SteerInv, Steer!TypeOK, Steer!Phases, Steer!Idle, Steer!Step, Steer!thread, Steer!Journaled,
      Steer!SteeringInv, Steer!JobSound, Steer!JournalSound, Steer!SteeringSafe, Steer!SteeredOnce,
      Steer!SteerTold, Steer!GateOpens
<1>2. ASSUME NEW o \in Steers, Steer!steerNativeTurn(o) PROVE Steer!SteeringInv' BY <1>2 DEF Steer!steerNativeTurn
<1>3. ASSUME NEW o \in Steers, Steer!readNativeSteering(o) PROVE Steer!SteeringInv'
  BY <1>3 DEF Steer!readNativeSteering
<1>4. ASSUME Steer!priorSteering PROVE Steer!SteeringInv' BY <1>4 DEF Steer!priorSteering
<1>5. ASSUME Steer!closeGate PROVE Steer!SteeringInv' BY <1>5 DEF Steer!closeGate
<1>6. ASSUME Steer!pin PROVE Steer!SteeringInv' BY <1>6 DEF Steer!pin
<1>7. ASSUME Steer!intend PROVE Steer!SteeringInv' BY <1>7 DEF Steer!intend
<1>8. ASSUME Steer!request PROVE Steer!SteeringInv' BY <1>8 DEF Steer!request
<1>9. ASSUME Steer!settle PROVE Steer!SteeringInv' BY <1>9 DEF Steer!settle
<1>10. ASSUME Steer!openGate PROVE Steer!SteeringInv' BY <1>10 DEF Steer!openGate
<1>11. ASSUME Steer!reconcileSteering PROVE Steer!SteeringInv' BY <1>11 DEF Steer!reconcileSteering
<1>12. ASSUME Steer!answer PROVE Steer!SteeringInv' BY <1>12 DEF Steer!answer
<1>13. ASSUME Steer!Die PROVE Steer!SteeringInv' BY <1>13 DEF Steer!Die
<1>14. ASSUME Steer!TurnEnds \/ Steer!TurnBegins \/ Steer!Publish,
              UNCHANGED <<journal, want, job, gate, items, pins, told, times, kills>>
       PROVE Steer!SteeringInv'
  BY <1>14
<1> QED BY <1>2, <1>3, <1>4, <1>5, <1>6, <1>7, <1>8, <1>9, <1>10, <1>11, <1>12, <1>13, <1>14 DEF Steer!Next

\* A step of a steer, of the owner or of the conversation keeps the invariant.
LEMMA SteerKept ==
  ASSUME Steer!ConstantsOK, SteerInv, [Steer!Next]_(Steer!vars)
  PROVE  SteerInv'
<1>1. CASE Steer!Next BY <1>1, SteerTypes, SteerStep DEF SteerInv
<1>2. CASE UNCHANGED Steer!vars
  BY <1>2 DEF Steer!vars, Steer!thread, SteerInv, Steer!TypeOK, Steer!SteeringInv, Steer!JobSound,
    Steer!JournalSound, Steer!Journaled, Steer!SteeringSafe, Steer!SteeredOnce, Steer!SteerTold,
    Steer!GateOpens
<1> QED BY <1>1, <1>2

\* The journal of steering, the process at work and the thread agree (steering/service.ts).
THEOREM SteeringInductive ==
  ASSUME Steer!ConstantsOK PROVE Steer!Spec => [](Steer!TypeOK /\ Steer!SteeringInv)
<1>1. Steer!Init => SteerInv BY SteerInit
<1>2. SteerInv /\ [Steer!Next]_(Steer!vars) => SteerInv' BY SteerKept
<1> QED BY <1>1, <1>2, PTL DEF Steer!Spec, SteerInv

\* A steered text enters at most once, in the turn it named and with its images pinned; "submitted"
\* is true and stays; and the pane is left deaf by a death only (steering/service.ts, receipt.ts).
THEOREM SteeringAlwaysSafe == ASSUME Steer!ConstantsOK PROVE Steer!Spec => []Steer!SteeringSafe
<1>1. Steer!TypeOK /\ Steer!SteeringInv => Steer!SteeringSafe BY DEF Steer!SteeringInv
<1> QED BY <1>1, SteeringInductive, PTL

-----------------------------------------------------------------------------
(* NativeContext: compaction and pages *)

SoundContext == Context!TypeOK /\ Context!ContextInv

LEMMA ContextInit == ASSUME Context!ConstantsOK, Context!Init PROVE SoundContext
<1> USE DEF Context!ConstantsOK, Context!Init
<1>1. Context!TypeOK
  <2>1. Context!NoOp \in Context!Entries BY DEF Context!NoOp, Context!Entries, Context!Pending
  <2>2. Context!Rest \in Context!Pumps BY DEF Context!Rest, Context!Pumps, Context!Places
  <2>3. [at |-> "none", cursor |-> None, page |-> None] \in Context!Calls BY DEF Context!Calls
  <2>4. ops \in [Ops -> Context!Entries] /\ pump \in Context!Pumps /\ call \in [Reads -> Context!Calls]
    BY <2>1, <2>2, <2>3
  <2> QED BY <2>4 DEF Context!TypeOK
<1>2. Context!CompactedOnce
  BY DEF Context!CompactedOnce, Context!NoOp, Context!Pending
<1> QED
  BY <1>1, <1>2 DEF SoundContext, Context!ContextInv, Context!PumpSound, Context!MarkerSound,
    Context!ReadersSound, Context!ContextSafe, Context!CompletedIsTrue, Context!ResetComesFirst,
    Context!InputWaits, Context!PagesBelong, Context!NoOp, Context!Rest, Context!Matching, Context!Dispatched

\* The generation a pass works under is one of the owner's.
LEMMA PassGeneration ==
  ASSUME Context!ConstantsOK, Context!TypeOK
  PROVE  Context!Generation \in 1..MaxGens
BY DEF Context!ConstantsOK, Context!TypeOK, Context!Generation

\* What is left of the pump when its step, and what it holds, change.
LEMMA PumpMoves ==
  ASSUME NEW p \in Context!Pumps, NEW s \in Context!Places
  PROVE  /\ [p EXCEPT !.at = s] \in Context!Pumps
         /\ [p EXCEPT !.at = s].at = s /\ [p EXCEPT !.at = s].obs = p.obs /\ [p EXCEPT !.at = s].box = p.box
         /\ [p EXCEPT !.at = s].op = p.op
BY DEF Context!Pumps

LEMMA PumpLeaves ==
  ASSUME NEW p \in Context!Pumps, NEW s \in Context!Places
  PROVE  /\ [p EXCEPT !.at = s, !.obs = None] \in Context!Pumps
         /\ [p EXCEPT !.at = s, !.obs = None].at = s
BY DEF Context!Pumps

LEMMA PumpAnswered ==
  ASSUME NEW p \in Context!Pumps, NEW s \in Context!Places
  PROVE  /\ [p EXCEPT !.at = s, !.box = None] \in Context!Pumps
         /\ [p EXCEPT !.at = s, !.box = None].at = s
BY DEF Context!Pumps

\* What the pump has in hand at each of its steps.
LEMMA PumpHolds ==
  ASSUME SoundContext
  PROVE  /\ pump \in Context!Pumps /\ pump.op \in Ops \cup {None}
         /\ pump.obs \in {None} \cup Context!Completions /\ pump.box \in {None} \cup Context!Boxes
         /\ pump.at \in {"admit", "compact", "acked", "lost"} => pump.op \in Ops
         /\ pump.at \in {"observe", "record"} => /\ pump.obs \in Context!Completions /\ "context" \in lock
                                                 /\ pump.obs.then \in {"history", "idle"}
                                                 /\ pump.obs.id \in 0..MaxMarks
         /\ pump.at \in {"page", "answer"} => pump.box \in Context!Boxes
<1>1. pump \in Context!Pumps BY DEF SoundContext, Context!TypeOK
<1>2. pump.op \in Ops \cup {None} /\ pump.obs \in {None} \cup Context!Completions
      /\ pump.box \in {None} \cup Context!Boxes
  BY <1>1 DEF Context!Pumps
<1>3. Context!PumpSound /\ Context!ReadersSound BY DEF SoundContext, Context!ContextInv
<1>4. \A c \in Context!Completions : c.then \in {"history", "idle"} /\ c.id \in 0..MaxMarks
  BY DEF Context!Completions
<1> QED BY <1>1, <1>2, <1>3, <1>4 DEF Context!PumpSound, Context!ReadersSound

\* The pump after each of its steps.
LEMMA PumpStarts ==
  ASSUME Context!ConstantsOK, SoundContext, Context!Start
  PROVE  /\ pump' \in Context!Pumps /\ lock' \subseteq lock \cup {"context"}
         /\ \/ /\ pump'.at = "observe" /\ lock' = {"context"}
               /\ pump'.obs = [gen |-> gen, id |-> marks, then |-> "history"]
               /\ pump'.obs \in Context!Completions
            \/ pump'.at = "history"
<1> DEFINE found == [gen |-> gen, id |-> marks, then |-> "history"]
<1>1. pump \in Context!Pumps /\ seen \in Nat BY DEF SoundContext, Context!TypeOK
<1>2. found \in Context!Completions
  BY DEF SoundContext, Context!TypeOK, Context!Completions, Context!ConstantsOK
<1>3. \/ pump' = [pump EXCEPT !.at = "observe", !.applied = seen, !.obs = found] /\ lock' = {"context"}
      \/ pump' = [pump EXCEPT !.at = "history"] /\ lock' = lock
  BY DEF Context!Start, Context!Pump
<1>4. "observe" \in Context!Places /\ "history" \in Context!Places BY DEF Context!Places
<1>5. CASE pump' = [pump EXCEPT !.at = "observe", !.applied = seen, !.obs = found] /\ lock' = {"context"}
  <2> HIDE DEF found
  <2>1. pump' \in Context!Pumps /\ pump'.at = "observe" /\ pump'.obs = found
    BY <1>1, <1>2, <1>4, <1>5 DEF Context!Pumps
  <2> QED BY <1>2, <1>5, <2>1 DEF found
<1>6. CASE pump' = [pump EXCEPT !.at = "history"] /\ lock' = lock
  BY <1>1, <1>4, <1>6, PumpMoves
<1> QED BY <1>3, <1>5, <1>6

LEMMA PumpPublishes ==
  ASSUME SoundContext, Context!publishBoundary
  PROVE  /\ pump.at = "observe" /\ pump' \in Context!Pumps /\ lock' \in {lock, {}}
         /\ Context!Repeated => pump'.at \in {"history", "idle"} /\ boundary' = boundary
         /\ ~Context!Repeated => /\ pump'.at = "record" /\ pump'.obs = pump.obs /\ lock' = lock
                                 /\ boundary' = boundary + 1
<1>1. pump.at = "observe" BY DEF Context!publishBoundary
<1>h. pump \in Context!Pumps /\ pump.obs.then \in {"history", "idle"} BY <1>1, PumpHolds
<1>2. "history" \in Context!Places /\ "idle" \in Context!Places /\ "record" \in Context!Places
  BY DEF Context!Places
<1>3. CASE Context!Repeated
  <2>1. pump' = [pump EXCEPT !.at = pump.obs.then, !.obs = None] /\ lock' = {} /\ boundary' = boundary
    BY <1>3 DEF Context!publishBoundary
  <2>2. pump.obs.then \in Context!Places BY <1>2, <1>h
  <2>3. pump' \in Context!Pumps /\ pump'.at = pump.obs.then BY <1>h, <2>1, <2>2, PumpLeaves
  <2> QED BY <1>1, <1>3, <1>h, <2>1, <2>3
<1>4. CASE ~Context!Repeated
  <2>1. pump' = [pump EXCEPT !.at = "record"] /\ lock' = lock /\ boundary' = boundary + 1
    BY <1>4 DEF Context!publishBoundary, Context!Pump
  <2>2. pump' \in Context!Pumps /\ pump'.at = "record" /\ pump'.obs = pump.obs BY <1>2, <1>h, <2>1, PumpMoves
  <2> QED BY <1>1, <1>4, <2>1, <2>2
<1> QED BY <1>3, <1>4

LEMMA PumpRecords ==
  ASSUME SoundContext, Context!observeContextCompletion
  PROVE  pump.at = "record" /\ pump' \in Context!Pumps /\ pump'.at \in {"history", "idle"} /\ lock' = {}
<1>1. pump.at = "record" /\ pump' = [pump EXCEPT !.at = pump.obs.then, !.obs = None] /\ lock' = {}
  BY DEF Context!observeContextCompletion
<1>2. pump \in Context!Pumps /\ pump.obs.then \in {"history", "idle"} BY <1>1, PumpHolds
<1>3. pump.obs.then \in Context!Places BY <1>2 DEF Context!Places
<1>4. pump' \in Context!Pumps /\ pump'.at = pump.obs.then BY <1>1, <1>2, <1>3, PumpLeaves
<1> QED BY <1>1, <1>2, <1>4

\* The answer it makes is of the request in the mailbox, and of this revision and connection.
LEMMA PumpReads ==
  ASSUME Context!ConstantsOK, SoundContext, Context!history
  PROVE  /\ pump' \in Context!Pumps
         /\ \/ pump'.at = "commands" /\ box' = box
            \/ /\ pump'.at = "commands" /\ box \in Context!Boxes /\ box' = [box EXCEPT !.state = "failed"]
            \/ /\ pump'.at = "page" /\ box \in Context!Boxes /\ box' = box /\ pump'.box \in Context!Boxes
               /\ pump'.box.id = box.id /\ pump'.box.cursor = box.cursor
               /\ pump'.box.page = Context!Current(box.id)
               /\ pump'.box.state = "complete" => Context!SameContext(box.cursor)
<1>0. /\ pump \in Context!Pumps /\ box \in {None} \cup Context!Boxes /\ rev \in Nat
      /\ Context!Generation \in 1..MaxGens
  BY PassGeneration DEF SoundContext, Context!TypeOK
<1>1. "commands" \in Context!Places /\ "page" \in Context!Places BY DEF Context!Places
<1>2. CASE box = None \/ box.state # "queued"
  <2>1. pump' = [pump EXCEPT !.at = "commands"] /\ box' = box BY <1>2 DEF Context!history, Context!Pump
  <2> QED BY <1>0, <1>1, <2>1, PumpMoves
<1>3. CASE box # None /\ box.state = "queued" /\ box.gen # Context!Generation
  <2>1. pump' = [pump EXCEPT !.at = "commands"] /\ box' = [box EXCEPT !.state = "failed"]
    BY <1>3 DEF Context!history, Context!Pump
  <2> QED BY <1>0, <1>1, <1>3, <2>1, PumpMoves
<1>4. CASE box # None /\ box.state = "queued" /\ box.gen = Context!Generation
  <2> DEFINE page == Context!Current(box.id)
  <2>1. PICK ok \in BOOLEAN : pump' = [pump EXCEPT !.at = "page", !.box = [box EXCEPT
            !.state = IF ok /\ Context!SameContext(box.cursor) THEN "complete" ELSE "failed", !.page = page]]
    BY <1>4 DEF Context!history
  <2>2. box' = box BY <1>4 DEF Context!history
  <2>3. box \in Context!Boxes /\ box.id \in Reads BY <1>0, <1>4 DEF Context!Boxes
  <2>4. page \in Context!Pages BY <1>0, <2>3 DEF Context!Current, Context!Pages
  <2> HIDE DEF page
  <2> DEFINE state == IF ok /\ Context!SameContext(box.cursor) THEN "complete" ELSE "failed"
             answer == [box EXCEPT !.state = state, !.page = page]
  <2>5. state \in {"complete", "failed"} /\ (state = "complete" => Context!SameContext(box.cursor)) OBVIOUS
  <2>6. pump' = [pump EXCEPT !.at = "page", !.box = answer] BY <2>1
  <2> HIDE DEF state
  <2>7. /\ answer \in Context!Boxes /\ answer.id = box.id /\ answer.cursor = box.cursor /\ answer.page = page
        /\ answer.state = state
    BY <2>3, <2>4, <2>5 DEF Context!Boxes
  <2> HIDE DEF answer
  <2>8. pump' \in Context!Pumps /\ pump'.at = "page" /\ pump'.box = answer
    BY <1>0, <1>1, <2>6, <2>7 DEF Context!Pumps
  <2> QED BY <2>2, <2>3, <2>5, <2>7, <2>8 DEF page
<1> QED BY <1>2, <1>3, <1>4

LEMMA PumpGoesOn ==
  ASSUME SoundContext, Context!Page \/ Context!writeHistoryMailbox \/ Context!applyContextCommands
  PROVE  /\ pump' \in Context!Pumps
         /\ Context!Page => pump.at = "page" /\ pump'.at \in {"answer", "commands"} /\ pump'.box = pump.box
         /\ Context!writeHistoryMailbox => pump.at = "answer" /\ pump'.at = "commands" /\ box' = pump.box
         /\ Context!applyContextCommands =>
              \/ pump'.at = "idle"
              \/ pump'.at = "admit" /\ pump'.op \in Ops
<1>0. pump \in Context!Pumps BY PumpHolds
<1>1. /\ "answer" \in Context!Places /\ "commands" \in Context!Places
      /\ "admit" \in Context!Places /\ "idle" \in Context!Places
  BY DEF Context!Places
<1>2. ASSUME Context!Page
      PROVE  pump' \in Context!Pumps /\ pump.at = "page" /\ pump'.at \in {"answer", "commands"} /\ pump'.box = pump.box
  <2>1. pump.at = "page" /\ \E s \in {"answer", "commands"} : pump' = [pump EXCEPT !.at = s]
    BY <1>2 DEF Context!Page, Context!Pump
  <2> QED BY <1>0, <1>1, <2>1, PumpMoves
<1>3. ASSUME Context!writeHistoryMailbox
      PROVE  pump' \in Context!Pumps /\ pump.at = "answer" /\ pump'.at = "commands" /\ box' = pump.box
  <2>1. pump.at = "answer" /\ box' = pump.box /\ pump' = [pump EXCEPT !.at = "commands", !.box = None]
    BY <1>3 DEF Context!writeHistoryMailbox
  <2> QED BY <1>0, <1>1, <2>1, PumpAnswered
<1>4. ASSUME Context!applyContextCommands
      PROVE  pump' \in Context!Pumps /\ (pump'.at = "idle" \/ (pump'.at = "admit" /\ pump'.op \in Ops))
  <2>1. \/ pump' = [pump EXCEPT !.at = "idle"]
        \/ \E o \in Ops : pump' = [pump EXCEPT !.at = "admit", !.op = o]
    BY <1>4 DEF Context!applyContextCommands, Context!Pump, Context!contextMutationPending
  <2>2. CASE pump' = [pump EXCEPT !.at = "idle"] BY <1>0, <1>1, <2>2, PumpMoves
  <2>3. ASSUME NEW o \in Ops, pump' = [pump EXCEPT !.at = "admit", !.op = o]
        PROVE  pump' \in Context!Pumps /\ pump'.at = "admit" /\ pump'.op \in Ops
    BY <1>0, <1>1, <2>3 DEF Context!Pumps
  <2> QED BY <2>1, <2>2, <2>3
<1> QED BY <1>2, <1>3, <1>4

\* A reconcile finds a marker, or leaves the pump idle.
LEMMA PumpReconciles ==
  ASSUME Context!ConstantsOK, SoundContext, Context!reconcile
  PROVE  /\ pump' \in Context!Pumps
         /\ \/ /\ pump'.at = "observe" /\ lock' = {"admission", "context"}
               /\ pump'.obs \in Context!Completions /\ pump'.obs.id = marks
            \/ pump'.at = "idle" /\ lock' = lock
<1> DEFINE found == [gen |-> ops[pump.op].gen, id |-> marks, then |-> "idle"]
<1>1. \/ pump' = [pump EXCEPT !.at = "observe", !.obs = found] /\ lock' = {"admission", "context"}
      \/ pump' = [pump EXCEPT !.at = "idle"] /\ lock' = lock
  BY DEF Context!reconcile, Context!Pump
<1>2. pump \in Context!Pumps /\ pump.op \in Ops BY PumpHolds DEF Context!reconcile
<1>3. found \in Context!Completions /\ found.id = marks
  BY <1>2 DEF SoundContext, Context!TypeOK, Context!Entries, Context!Completions
<1>4. "observe" \in Context!Places /\ "idle" \in Context!Places BY DEF Context!Places
<1> HIDE DEF found
<1>5. CASE pump' = [pump EXCEPT !.at = "observe", !.obs = found] /\ lock' = {"admission", "context"}
  <2>1. pump' \in Context!Pumps /\ pump'.at = "observe" /\ pump'.obs = found
    BY <1>2, <1>3, <1>4, <1>5 DEF Context!Pumps
  <2> QED BY <1>3, <1>5, <2>1
<1>6. CASE pump' = [pump EXCEPT !.at = "idle"] /\ lock' = lock BY <1>2, <1>4, <1>6, PumpMoves
<1> QED BY <1>1, <1>5, <1>6

LEMMA PumpCommands ==
  ASSUME SoundContext, Context!reject \/ Context!dispatch \/ Context!compact \/ Context!settle
  PROVE  /\ pump' \in Context!Pumps /\ pump'.op = pump.op /\ pump.op \in Ops
         /\ Context!reject => pump'.at = "idle" /\ lock' = lock
         /\ Context!dispatch => pump'.at = "compact" /\ lock' = {"admission"}
         /\ Context!compact => pump.at = "compact" /\ pump'.at \in {"acked", "lost"} /\ lock' = lock
         /\ Context!settle => pump.at \in {"acked", "lost"} /\ pump'.at = "idle" /\ lock' = {}
<1>0. {"idle", "compact", "acked", "lost"} \subseteq Context!Places BY DEF Context!Places
<1>1. pump \in Context!Pumps /\ pump.op \in Ops
  BY PumpHolds DEF Context!reject, Context!dispatch, Context!compact, Context!settle
<1>2. \E s \in Context!Places :
        /\ pump' = [pump EXCEPT !.at = s]
        /\ Context!reject => s = "idle" /\ lock' = lock
        /\ Context!dispatch => s = "compact" /\ lock' = {"admission"}
        /\ Context!compact => pump.at = "compact" /\ s \in {"acked", "lost"} /\ lock' = lock
        /\ Context!settle => pump.at \in {"acked", "lost"} /\ s = "idle" /\ lock' = {}
  <2>1. CASE Context!reject BY <1>0, <2>1 DEF Context!reject, Context!dispatch, Context!compact, Context!settle, Context!Pump
  <2>2. CASE Context!dispatch BY <1>0, <2>2 DEF Context!reject, Context!dispatch, Context!compact, Context!settle, Context!Pump
  <2>3. CASE Context!compact BY <1>0, <2>3 DEF Context!reject, Context!dispatch, Context!compact, Context!settle, Context!Pump
  <2>4. CASE Context!settle BY <1>0, <2>4 DEF Context!reject, Context!dispatch, Context!compact, Context!settle, Context!Pump
  <2> QED BY <2>1, <2>2, <2>3, <2>4
<1> QED BY <1>1, <1>2, PumpMoves

\* The journal after each step that writes it.
LEMMA JournalWrites ==
  ASSUME Context!ConstantsOK, SoundContext
  PROVE  /\ \A o \in Ops : Context!compactNativeContext(o) => ops' \in [Ops -> Context!Entries]
         /\ \/ Context!observeContextCompletion \/ Context!reconcile \/ Context!reject
            \/ Context!dispatch \/ Context!settle
            => ops' \in [Ops -> Context!Entries]
<1>0. ops \in [Ops -> Context!Entries] /\ marks \in 0..MaxMarks BY DEF SoundContext, Context!TypeOK
<1>1. Context!Generation \in 0..MaxGens /\ 0 \in 0..MaxMarks
  BY PassGeneration DEF SoundContext, Context!ConstantsOK
<1>2. ASSUME NEW o \in Ops, Context!compactNativeContext(o) PROVE ops' \in [Ops -> Context!Entries]
  <2> DEFINE queued == [state |-> "queued", gen |-> Context!Generation, before |-> 0]
  <2>1. queued \in Context!Entries BY <1>1 DEF Context!Entries, Context!Pending
  <2>2. ops' = [ops EXCEPT ![o] = queued] BY <1>2 DEF Context!compactNativeContext
  <2> HIDE DEF queued
  <2> QED BY <1>0, <2>1, <2>2
<1>3. ASSUME Context!observeContextCompletion PROVE ops' \in [Ops -> Context!Entries]
  <2>1. ops' = [o \in Ops |-> IF o \in Context!Matching THEN [ops[o] EXCEPT !.state = "completed"] ELSE ops[o]]
    BY <1>3 DEF Context!observeContextCompletion
  <2>2. \A o \in Ops : ops[o] \in Context!Entries /\ [ops[o] EXCEPT !.state = "completed"] \in Context!Entries
    BY <1>0 DEF Context!Entries
  <2> QED BY <2>1, <2>2
<1>4. ASSUME NEW o \in Ops, NEW s \in {"uncertain", "rejected", "running"}, ops' = [ops EXCEPT ![o].state = s]
      PROVE  ops' \in [Ops -> Context!Entries]
  BY <1>0, <1>4 DEF Context!Entries, Context!Pending
<1>5. pump.at \in {"admit", "acked", "lost"} => pump.op \in Ops BY PumpHolds
<1>6. ASSUME Context!reconcile PROVE ops' \in [Ops -> Context!Entries]
  <2>1. ops' = ops \/ ops' = [ops EXCEPT ![pump.op].state = "uncertain"]
    BY <1>6 DEF Context!reconcile, Context!SetState
  <2> QED BY <1>0, <1>4, <1>5, <1>6, <2>1 DEF Context!reconcile
<1>7. ASSUME Context!reject PROVE ops' \in [Ops -> Context!Entries]
  BY <1>4, <1>5, <1>7 DEF Context!reject, Context!SetState
<1>8. ASSUME Context!dispatch PROVE ops' \in [Ops -> Context!Entries]
  <2>1. pump.op \in Ops /\ ops' = [ops EXCEPT ![pump.op].state = "dispatching", ![pump.op].before = marks]
    BY <1>5, <1>8 DEF Context!dispatch
  <2> QED BY <1>0, <2>1 DEF Context!Entries, Context!Pending
<1>9. ASSUME Context!settle PROVE ops' \in [Ops -> Context!Entries]
  <2>1. pump.op \in Ops /\ \E s \in {"running", "uncertain"} : ops' = [ops EXCEPT ![pump.op].state = s]
    BY <1>5, <1>9 DEF Context!settle
  <2> QED BY <1>4, <2>1
<1> QED BY <1>2, <1>3, <1>6, <1>7, <1>8, <1>9

\* A reader's call and its mailbox.
LEMMA ReaderCalls ==
  ASSUME Context!ConstantsOK, SoundContext, NEW r \in Reads
  PROVE  /\ Context!readNativeHistory(r) => box' \in Context!Boxes /\ call' \in [Reads -> Context!Calls]
         /\ Context!AwaitPage(r) => call' \in [Reads -> Context!Calls]
<1>0. call \in [Reads -> Context!Calls] /\ box \in {None} \cup Context!Boxes BY DEF SoundContext, Context!TypeOK
<1>1. ASSUME Context!readNativeHistory(r) PROVE box' \in Context!Boxes /\ call' \in [Reads -> Context!Calls]
  <2>1. \A q \in Reads : call[q].at = "page" => call[q].page \in Context!Pages
    BY DEF SoundContext, Context!ContextInv, Context!ContextSafe, Context!PagesBelong
  <2>2. PICK c \in {None} \cup Context!Answered :
          /\ call' = [call EXCEPT ![r] = [at |-> "waiting", cursor |-> c, page |-> None]]
          /\ box' = [id |-> r, gen |-> Context!Generation, cursor |-> c, state |-> "queued", page |-> None]
    BY <1>1 DEF Context!readNativeHistory
  <2>3. c \in {None} \cup Context!Pages BY <2>1 DEF Context!Answered
  <2>4. Context!Generation \in 1..MaxGens BY PassGeneration DEF SoundContext
  <2>5. box' \in Context!Boxes BY <2>2, <2>3, <2>4 DEF Context!Boxes
  <2> DEFINE asks == [at |-> "waiting", cursor |-> c, page |-> None]
  <2>6. asks \in Context!Calls BY <2>3 DEF Context!Calls
  <2>7. call' = [call EXCEPT ![r] = asks] BY <2>2
  <2> HIDE DEF asks
  <2>8. call' \in [Reads -> Context!Calls] BY <1>0, <2>6, <2>7
  <2> QED BY <2>5, <2>8
<1>2. ASSUME Context!AwaitPage(r) PROVE call' \in [Reads -> Context!Calls]
  <2>1. box # None BY <1>2 DEF Context!AwaitPage, SoundContext, Context!ContextInv, Context!ReadersSound
  <2>2. box.page \in {None} \cup Context!Pages BY <1>0, <2>1 DEF Context!Boxes
  <2>3. \/ call' = [call EXCEPT ![r].at = "page", ![r].page = box.page]
        \/ call' = [call EXCEPT ![r].at = "refused"]
    BY <1>2 DEF Context!AwaitPage
  <2>4. CASE call' = [call EXCEPT ![r].at = "page", ![r].page = box.page] BY <1>0, <2>2, <2>4 DEF Context!Calls
  <2>5. CASE call' = [call EXCEPT ![r].at = "refused"] BY <1>0, <2>5 DEF Context!Calls
  <2> QED BY <2>3, <2>4, <2>5
<1> QED BY <1>1, <1>2

LEMMA ContextTypes ==
  ASSUME Context!ConstantsOK, SoundContext, Context!Next
  PROVE  Context!TypeOK'
<1>t. Context!TypeOK BY DEF SoundContext
<1>h. pump.at \in {"observe", "record"} => pump.obs \in Context!Completions BY PumpHolds
<1>b. pump.at = "answer" => pump.box \in Context!Boxes BY PumpHolds
<1>f. \A b \in Context!Boxes : [b EXCEPT !.state = "failed"] \in Context!Boxes BY DEF Context!Boxes
<1> USE <1>t DEF Context!TypeOK, Context!journal, Context!input, Context!runs, Context!owner
<1>1. ASSUME NEW o \in Ops, Context!compactNativeContext(o) PROVE Context!TypeOK'
  <2>1. ops' \in [Ops -> Context!Entries] BY <1>1, JournalWrites
  <2>2. UNCHANGED <<runtime, rev, last, box, boundary, letter, turn, lock, gen, live, shown, pump, seen,
                    asked, marks, ran, call>> BY <1>1 DEF Context!compactNativeContext
  <2> QED BY <2>1, <2>2
<1>2. ASSUME NEW r \in Reads, Context!readNativeHistory(r) \/ Context!AwaitPage(r) PROVE Context!TypeOK'
  <2>1. call' \in [Reads -> Context!Calls] /\ box' \in {None} \cup Context!Boxes
    BY <1>2, ReaderCalls DEF Context!AwaitPage
  <2>2. UNCHANGED <<runtime, ops, rev, last, boundary, letter, turn, lock, gen, live, shown, pump, seen,
                    asked, marks, ran>> BY <1>2 DEF Context!readNativeHistory, Context!AwaitPage
  <2> QED BY <2>1, <2>2
<1>3. ASSUME NEW l \in Letters, Context!Append(l) \/ Context!deliverNativeRuntime(l) \/ Context!Repair(l)
      PROVE Context!TypeOK'
  BY <1>3 DEF Context!Append, Context!deliverNativeRuntime, Context!Repair
<1>4. ASSUME NEW l \in Letters, Context!pickup(l) PROVE Context!TypeOK' BY <1>4 DEF Context!pickup
<1>5. ASSUME Context!Publish PROVE Context!TypeOK' BY <1>5 DEF Context!Publish, Context!Idle
<1>6. ASSUME Context!Start PROVE Context!TypeOK'
  <2>1. pump' \in Context!Pumps /\ lock' \subseteq lock \cup {"context"} BY <1>6, PumpStarts
  <2>2. UNCHANGED <<runtime, ops, rev, last, box, boundary, letter, turn, gen, live, shown, seen,
                    asked, marks, ran, call>> BY <1>6 DEF Context!Start
  <2> QED BY <2>1, <2>2
<1>7. ASSUME Context!publishBoundary PROVE Context!TypeOK'
  <2>1. pump' \in Context!Pumps /\ lock' \in {lock, {}} BY <1>7, PumpPublishes
  <2>2. boundary' \in Nat /\ UNCHANGED <<runtime, ops, rev, last, box, letter, turn,
          gen, live, shown, seen, asked, marks, ran, call>>
    BY <1>7 DEF Context!publishBoundary
  <2> QED BY <2>1, <2>2
<1>8. ASSUME Context!observeContextCompletion PROVE Context!TypeOK'
  <2>1. pump' \in Context!Pumps /\ lock' = {} BY <1>8, PumpRecords
  <2>2. UNCHANGED <<runtime, box, boundary, letter, turn, gen, live, shown, seen, asked, marks, ran, call>>
        /\ rev' \in Nat
    BY <1>8 DEF Context!observeContextCompletion
  <2>3. last' \in [gen : 0..MaxGens, id : 0..MaxMarks]
    BY <1>8, <1>h DEF Context!observeContextCompletion, Context!Completions
  <2>4. ops' \in [Ops -> Context!Entries] BY <1>8, JournalWrites
  <2> QED BY <2>1, <2>2, <2>3, <2>4
<1>9. ASSUME Context!history PROVE Context!TypeOK'
  <2>1. pump' \in Context!Pumps /\ box' \in {None} \cup Context!Boxes BY <1>9, <1>f, PumpReads
  <2>2. UNCHANGED <<runtime, ops, rev, last, boundary, letter, turn, lock, gen, live, shown, seen,
                    asked, marks, ran, call>> BY <1>9 DEF Context!history
  <2> QED BY <2>1, <2>2
<1>10. ASSUME Context!Page \/ Context!writeHistoryMailbox \/ Context!applyContextCommands PROVE Context!TypeOK'
  <2>1. pump' \in Context!Pumps BY <1>10, PumpGoesOn
  <2>2. box' \in {None} \cup Context!Boxes
    BY <1>10, <1>b DEF Context!Page, Context!writeHistoryMailbox, Context!applyContextCommands
  <2>3. UNCHANGED <<runtime, ops, rev, last, boundary, letter, turn, lock, gen, live, shown, seen,
                    asked, marks, ran, call>>
    BY <1>10 DEF Context!Page, Context!writeHistoryMailbox, Context!applyContextCommands
  <2> QED BY <2>1, <2>2, <2>3
<1>11. ASSUME Context!reconcile PROVE Context!TypeOK'
  <2>1. pump' \in Context!Pumps /\ lock' \in {lock, {"admission", "context"}} BY <1>11, PumpReconciles
  <2>2. ops' \in [Ops -> Context!Entries] BY <1>11, JournalWrites
  <2>3. UNCHANGED <<runtime, rev, last, box, boundary, letter, turn, gen, live, shown, seen, asked, marks,
                    ran, call>> BY <1>11 DEF Context!reconcile
  <2> QED BY <2>1, <2>2, <2>3
<1>12. ASSUME Context!reject \/ Context!dispatch \/ Context!settle PROVE Context!TypeOK'
  <2>1. pump' \in Context!Pumps /\ lock' \in {lock, {"admission"}, {}} BY <1>12, PumpCommands
  <2>2. ops' \in [Ops -> Context!Entries] BY <1>12, JournalWrites
  <2>3. UNCHANGED <<runtime, rev, last, box, boundary, letter, turn, gen, live, shown, seen, asked, marks,
                    ran, call>> BY <1>12 DEF Context!reject, Context!dispatch, Context!settle
  <2> QED BY <2>1, <2>2, <2>3
<1>13. ASSUME Context!compact PROVE Context!TypeOK'
  <2>1. pump' \in Context!Pumps /\ pump.op \in Ops BY <1>13, PumpCommands
  <2>2. UNCHANGED <<runtime, ops, rev, last, box, boundary, letter, turn, lock, gen, live, seen, marks, call>>
    BY <1>13 DEF Context!compact
  <2>5. asked' \in {asked, asked + 1} BY <1>13 DEF Context!compact
  <2>6. asked' \in Nat BY <2>5
  <2>7. shown' \in {shown, FALSE} BY <1>13 DEF Context!compact
  <2>3. ran' = [ran EXCEPT ![pump.op] = ran[pump.op] + 1] BY <1>13 DEF Context!compact
  <2>4. ran' \in [Ops -> Nat] BY <2>1, <2>3
  <2> QED BY <2>1, <2>2, <2>4, <2>6, <2>7
<1>14. ASSUME Context!Compacted \/ Context!Automatic PROVE Context!TypeOK'
  <2>1. marks' \in 0..MaxMarks /\ seen' \in Nat /\ asked' \in Nat
    BY <1>14 DEF Context!Compacted, Context!Automatic, Context!Mark, Context!ConstantsOK
  <2>2. UNCHANGED <<runtime, ops, rev, last, box, boundary, letter, turn, lock, gen, live, shown, pump, ran,
          call>>
    BY <1>14 DEF Context!Compacted, Context!Automatic
  <2> QED BY <2>1, <2>2
<1>15. ASSUME Context!TurnEnds PROVE Context!TypeOK' BY <1>15 DEF Context!TurnEnds
<1>16. ASSUME Context!OwnerDies PROVE Context!TypeOK'
  <2>1. pump' \in Context!Pumps BY <1>16 DEF Context!OwnerDies, Context!Rest, Context!Pumps, Context!Places
  <2>2. /\ live' = FALSE /\ gen < MaxGens /\ lock' = {} /\ seen' = 0 /\ asked' \in Nat
        /\ UNCHANGED <<runtime, ops, rev, last, box, boundary, call, gen, shown, marks, ran>>
    BY <1>16 DEF Context!OwnerDies
  <2>3. turn' \in {turn, None}
        /\ letter' \in [Letters -> {"none", "ledger", "armed", "slot", "begun", "over"}]
    BY <1>16 DEF Context!OwnerDies
  <2> QED BY <2>1, <2>2, <2>3
<1>17. ASSUME Context!OwnerOpens PROVE Context!TypeOK'
  <2>1. gen' \in 1..MaxGens BY <1>17 DEF Context!OwnerOpens, Context!ConstantsOK
  <2>2. live' \in BOOLEAN /\ shown' \in BOOLEAN /\ live' BY <1>17 DEF Context!OwnerOpens, Context!Idle
  <2>3. UNCHANGED <<runtime, ops, rev, last, box, boundary, letter, turn, lock, pump, seen, asked, marks, ran, call>>
    BY <1>17 DEF Context!OwnerOpens
  <2> QED BY <2>1, <2>2, <2>3
<1> QED BY <1>1, <1>2, <1>3, <1>4, <1>5, <1>6, <1>7, <1>8, <1>9, <1>10, <1>11, <1>12, <1>13, <1>14, <1>15,
  <1>16, <1>17 DEF Context!Next

\* An operation is asked for once: the pump dispatches it from "queued", and before the call.
LEMMA CompactStep ==
  ASSUME Context!ConstantsOK, SoundContext, Context!Next
  PROVE  Context!PumpSound' /\ Context!CompactedOnce'
<1> DEFINE Once == Context!PumpSound /\ Context!CompactedOnce
<1>0. /\ ran \in [Ops -> Nat] /\ ops \in [Ops -> Context!Entries] /\ None \notin Context!Completions
      /\ Context!PumpSound /\ Context!CompactedOnce
  BY DEF SoundContext, Context!TypeOK, Context!ConstantsOK, Context!ContextInv, Context!ContextSafe
<1> USE <1>0 DEF Context!PumpSound, Context!CompactedOnce, Context!Pending, Context!journal, Context!runs,
      Context!owner, Context!input
<1>1. ASSUME NEW o \in Ops, Context!compactNativeContext(o) PROVE Once'
  BY <1>1 DEF Context!compactNativeContext, Context!contextMutationPending
<1>2. ASSUME UNCHANGED <<ops, ran, pump, lock>> PROVE Once'
  BY <1>2
<1>3. ASSUME NEW r \in Reads, Context!readNativeHistory(r) \/ Context!AwaitPage(r) PROVE UNCHANGED <<ops, ran, pump, lock>>
  BY <1>3 DEF Context!readNativeHistory, Context!AwaitPage
<1>4. ASSUME NEW l \in Letters, Context!Append(l) \/ Context!deliverNativeRuntime(l) \/ Context!Repair(l) \/ Context!pickup(l)
      PROVE  UNCHANGED <<ops, ran, pump, lock>>
  BY <1>4 DEF Context!Append, Context!deliverNativeRuntime, Context!Repair, Context!pickup
<1>5. ASSUME Context!Publish \/ Context!Compacted \/ Context!Automatic \/ Context!TurnEnds \/ Context!OwnerOpens
      PROVE  UNCHANGED <<ops, ran, pump, lock>>
  BY <1>5 DEF Context!Publish, Context!Compacted, Context!Automatic, Context!TurnEnds, Context!OwnerOpens
<1>6. ASSUME UNCHANGED ran, \A o \in Ops : ops'[o].state = ops[o].state,
             \/ pump'.at \in {"idle", "history", "commands", "page", "answer"}
             \/ pump'.at = "admit" /\ pump'.op \in Ops
             \/ pump'.at \in {"observe", "record"} /\ "context" \in lock' /\ pump'.obs # None
      PROVE  Once'
  BY <1>6
<1>7. ASSUME Context!Start \/ Context!history PROVE Once'
  <2>1. UNCHANGED <<ops, ran>> BY <1>7 DEF Context!Start, Context!history
  <2>2. CASE Context!Start BY <1>6, <2>1, <2>2, PumpStarts
  <2>3. CASE Context!history BY <1>6, <2>1, <2>3, PumpReads
  <2> QED BY <1>7, <2>2, <2>3
<1>8. ASSUME Context!publishBoundary PROVE Once'
  <2>1. UNCHANGED <<ops, ran>> BY <1>8 DEF Context!publishBoundary
  <2>2. pump.at = "observe" BY <1>8 DEF Context!publishBoundary
  <2>3. pump.obs # None /\ "context" \in lock BY <2>2
  <2>4. CASE Context!Repeated BY <1>6, <1>8, <2>1, <2>4, PumpPublishes
  <2>5. CASE ~Context!Repeated BY <1>6, <1>8, <2>1, <2>3, <2>5, PumpPublishes
  <2> QED BY <2>4, <2>5
<1>9. ASSUME Context!observeContextCompletion PROVE Once'
  <2>1. pump'.at \in {"history", "idle"} BY <1>9, PumpRecords
  <2>2. ops' = [o \in Ops |-> IF o \in Context!Matching THEN [ops[o] EXCEPT !.state = "completed"] ELSE ops[o]]
    BY <1>9 DEF Context!observeContextCompletion
  <2>3. \A o \in Ops : [ops[o] EXCEPT !.state = "completed"].state = "completed" BY DEF Context!Entries
  <2>4. \A o \in Ops : ops'[o].state = "completed" \/ ops'[o].state = ops[o].state BY <2>2, <2>3
  <2>5. ran' = ran BY <1>9 DEF Context!observeContextCompletion
  <2> QED BY <2>1, <2>4, <2>5
<1>10. ASSUME Context!Page \/ Context!writeHistoryMailbox \/ Context!applyContextCommands PROVE Once'
  <2>1. UNCHANGED <<ops, ran>>
    BY <1>10 DEF Context!Page, Context!writeHistoryMailbox, Context!applyContextCommands
  <2> QED BY <1>6, <1>10, <2>1, PumpGoesOn
<1>11. ASSUME NEW o \in Ops, NEW s \in {"uncertain", "rejected", "running"}, UNCHANGED ran,
              ops' = [ops EXCEPT ![o].state = s], ops[o].state \in Context!Pending, pump'.at = "idle",
              s = "rejected" => ran[o] = 0
       PROVE  Once'
  <2>1. ops'[o].state = s /\ \A q \in Ops : q # o => ops'[q] = ops[q] BY <1>11 DEF Context!Entries
  <2> QED BY <1>11, <2>1
<1>12. ASSUME Context!reconcile PROVE Once'
  <2>1. pump.op \in Ops /\ ops[pump.op].state \in Context!Pending /\ ran' = ran
    BY <1>12 DEF Context!reconcile, Context!Dispatched
  <2>2. \/ pump'.at = "observe" /\ "context" \in lock' /\ pump'.obs # None
        \/ pump'.at = "idle"
    BY <1>12, PumpReconciles
  <2>3. ops' = ops \/ ops' = [ops EXCEPT ![pump.op].state = "uncertain"]
    BY <1>12 DEF Context!reconcile, Context!SetState
  <2>4. CASE ops' = ops BY <1>6, <2>1, <2>2, <2>4
  <2>5. CASE ops' = [ops EXCEPT ![pump.op].state = "uncertain"]
    <3>1. /\ ops'[pump.op].state = "uncertain" /\ \A q \in Ops : q # pump.op => ops'[q] = ops[q]
      BY <2>1, <2>5 DEF Context!Entries
    <3> QED BY <2>1, <2>2, <3>1
  <2> QED BY <2>3, <2>4, <2>5
<1>13. ASSUME Context!reject PROVE Once'
  <2>1. pump.op \in Ops /\ ops[pump.op].state = "queued" /\ ran' = ran
        /\ ops' = [ops EXCEPT ![pump.op].state = "rejected"]
    BY <1>13, PumpCommands DEF Context!reject, Context!SetState
  <2>2. pump'.at = "idle" BY <1>13, PumpCommands
  <2> QED BY <1>11, <2>1, <2>2
<1>14. ASSUME Context!dispatch PROVE Once'
  <2>1. /\ pump.op \in Ops /\ ops[pump.op].state = "queued" /\ ran' = ran
        /\ ops' = [ops EXCEPT ![pump.op].state = "dispatching", ![pump.op].before = marks]
    BY <1>14, PumpCommands DEF Context!dispatch
  <2>2. pump'.at = "compact" /\ pump'.op = pump.op /\ lock' = {"admission"} BY <1>14, PumpCommands
  <2>3. ops'[pump.op].state = "dispatching" /\ \A q \in Ops : q # pump.op => ops'[q] = ops[q]
    BY <2>1 DEF Context!Entries
  <2> QED BY <2>1, <2>2, <2>3
<1>15. ASSUME Context!compact PROVE Once'
  <2>1. ran' = [ran EXCEPT ![pump.op] = ran[pump.op] + 1] /\ UNCHANGED <<ops, lock>>
    BY <1>15 DEF Context!compact
  <2>2. pump.at = "compact" /\ pump.op \in Ops /\ pump'.op = pump.op /\ pump'.at \in {"acked", "lost"}
    BY <1>15, PumpCommands
  <2>3. ran'[pump.op] = 1 /\ \A q \in Ops : q # pump.op => ran'[q] = ran[q] BY <2>1, <2>2
  <2> QED BY <2>1, <2>2, <2>3
<1>16. ASSUME Context!settle PROVE Once'
  <2>1. pump.op \in Ops /\ pump.at \in {"acked", "lost"} /\ pump'.at = "idle" BY <1>16, PumpCommands
  <2>2. ran' = ran /\ \E s \in {"running", "uncertain"} : ops' = [ops EXCEPT ![pump.op].state = s]
    BY <1>16 DEF Context!settle
  <2> QED BY <1>11, <2>1, <2>2
<1>17. ASSUME Context!OwnerDies PROVE Once'
  <2>1. UNCHANGED <<ops, ran>> /\ pump'.at = "idle" BY <1>17 DEF Context!OwnerDies, Context!Rest
  <2> QED BY <1>6, <2>1
<1> QED BY <1>1, <1>2, <1>3, <1>4, <1>5, <1>7, <1>8, <1>9, <1>10, <1>12, <1>13, <1>14, <1>15, <1>16, <1>17
  DEF Context!Next

\* While an operation is unresolved the slot is empty: who fills one looks at the other first.
LEMMA InputStep ==
  ASSUME Context!ConstantsOK, SoundContext, Context!Next
  PROVE  Context!InputWaits'
<1> USE DEF SoundContext, Context!ContextInv, Context!ContextSafe, Context!InputWaits,
      Context!contextMutationPending, Context!journal, Context!input
<1>1. ASSUME NEW o \in Ops, Context!compactNativeContext(o) PROVE Context!InputWaits'
  BY <1>1 DEF Context!compactNativeContext, Context!NothingAccepted
<1>2. ASSUME NEW l \in Letters, Context!deliverNativeRuntime(l) \/ Context!Repair(l) PROVE Context!InputWaits'
  BY <1>2 DEF Context!deliverNativeRuntime, Context!Repair
<1>3. CASE /\ \A l \in Letters : letter'[l] = "slot" => letter[l] = "slot"
           /\ \A o \in Ops : ops'[o].state \in Context!Pending => ops[o].state \in Context!Pending
  BY <1>3
<1>4. ASSUME NEW l \in Letters, Context!Append(l) \/ Context!pickup(l) PROVE Context!InputWaits'
  BY <1>3, <1>4 DEF Context!Append, Context!pickup, Context!TypeOK
<1>5. ASSUME Context!reconcile \/ Context!reject \/ Context!dispatch \/ Context!settle PROVE Context!InputWaits'
  BY <1>3, <1>5 DEF Context!reconcile, Context!reject, Context!dispatch, Context!settle, Context!SetState,
    Context!TypeOK, Context!Entries, Context!PumpSound, Context!Pending, Context!Dispatched
<1>6. ASSUME Context!observeContextCompletion PROVE Context!InputWaits'
  BY <1>3, <1>6 DEF Context!observeContextCompletion, Context!Pending, Context!TypeOK, Context!Entries
<1>7. ASSUME Context!TurnEnds \/ Context!OwnerDies PROVE Context!InputWaits'
  BY <1>3, <1>7 DEF Context!TurnEnds, Context!OwnerDies, Context!TypeOK
<1>8. ASSUME UNCHANGED <<letter, ops>> PROVE Context!InputWaits' BY <1>8
<1>9. ASSUME NEW r \in Reads, Context!readNativeHistory(r) \/ Context!AwaitPage(r) PROVE UNCHANGED <<letter, ops>>
  BY <1>9 DEF Context!readNativeHistory, Context!AwaitPage
<1>10. ASSUME \/ Context!Publish \/ Context!Start \/ Context!publishBoundary \/ Context!history \/ Context!Page
              \/ Context!writeHistoryMailbox \/ Context!applyContextCommands \/ Context!compact
              \/ Context!Compacted \/ Context!Automatic \/ Context!OwnerOpens
       PROVE  UNCHANGED <<letter, ops>>
  BY <1>10 DEF Context!Publish, Context!Start, Context!publishBoundary, Context!history, Context!Page,
    Context!writeHistoryMailbox, Context!applyContextCommands, Context!compact, Context!Compacted,
    Context!Automatic, Context!OwnerOpens
<1> QED BY <1>1, <1>2, <1>4, <1>5, <1>6, <1>7, <1>8, <1>9, <1>10 DEF Context!Next

\* A marker completes what was dispatched before it, and readers are reset before that is written.
LEMMA MarkerStep ==
  ASSUME Context!ConstantsOK, SoundContext, Context!Next
  PROVE  Context!MarkerSound' /\ Context!CompletedIsTrue' /\ Context!ResetComesFirst'
<1> DEFINE Marked == Context!MarkerSound /\ Context!CompletedIsTrue /\ Context!ResetComesFirst
<1>0. /\ rev \in Nat /\ boundary \in Nat /\ marks \in Nat /\ ops \in [Ops -> Context!Entries]
      /\ Context!MarkerSound /\ Context!CompletedIsTrue /\ Context!ResetComesFirst
  BY DEF Context!ConstantsOK, SoundContext, Context!TypeOK, Context!ContextInv, Context!ContextSafe
<1>e. \A o \in Ops : ops[o].before \in Nat BY <1>0 DEF Context!ConstantsOK, Context!Entries
<1>p. pump.at \in {"observe", "record"} => /\ pump.obs.id \in Nat /\ pump.obs.id <= marks
                                           /\ pump.obs.then \in {"history", "idle"}
  BY <1>0, PumpHolds DEF Context!MarkerSound, Context!ConstantsOK
<1> USE <1>0, <1>e DEF Context!MarkerSound, Context!CompletedIsTrue, Context!ResetComesFirst, Context!Matching,
      Context!journal, Context!runs, Context!owner, Context!input
<1>1. ASSUME UNCHANGED <<ops, pump, rev, boundary>>, marks' \in Nat, marks <= marks' PROVE Marked'
  <2>1. \A o \in Ops : ops[o].before <= marks' BY <1>1
  <2>2. pump.at \in {"observe", "record"} => pump.obs.id <= marks' BY <1>1, <1>p
  <2>3. \A o \in Ops : ops[o].state = "completed" => marks' > ops[o].before BY <1>1
  <2> QED BY <1>1, <2>1, <2>2, <2>3
<1>2. ASSUME pump'.at \notin {"observe", "record"}, UNCHANGED <<rev, boundary, marks>>,
             \A o \in Ops : /\ ops'[o].before \in Nat /\ ops'[o].before <= marks
                            /\ ops'[o].state = "completed" =>
                                 ops[o].state = "completed" /\ ops'[o].before = ops[o].before
      PROVE  Marked'
  BY <1>2
<1>3. ASSUME NEW o \in Ops, Context!compactNativeContext(o) PROVE Marked'
  <2>1. /\ UNCHANGED <<pump, rev, boundary, marks>> /\ lock = {}
        /\ ops' = [ops EXCEPT ![o] = [state |-> "queued", gen |-> Context!Generation, before |-> 0]]
    BY <1>3 DEF Context!compactNativeContext
  <2>2. pump'.at \notin {"observe", "record"} BY <2>1, PumpHolds
  <2>3. /\ ops'[o].before = 0 /\ ops'[o].state = "queued"
        /\ \A q \in Ops : q # o => ops'[q] = ops[q]
    BY <2>1
  <2> QED BY <1>2, <2>1, <2>2, <2>3
<1>4. ASSUME NEW r \in Reads, Context!readNativeHistory(r) \/ Context!AwaitPage(r) PROVE Marked'
  BY <1>1, <1>4 DEF Context!readNativeHistory, Context!AwaitPage
<1>5. ASSUME NEW l \in Letters, Context!Append(l) \/ Context!deliverNativeRuntime(l) \/ Context!Repair(l) \/ Context!pickup(l)
      PROVE  Marked'
  BY <1>1, <1>5 DEF Context!Append, Context!deliverNativeRuntime, Context!Repair, Context!pickup
<1>6. ASSUME Context!Publish \/ Context!Compacted \/ Context!Automatic \/ Context!TurnEnds \/ Context!OwnerOpens
      PROVE  Marked'
  <2>1. UNCHANGED <<ops, pump, rev, boundary>> /\ marks' \in {marks, marks + 1}
    BY <1>6 DEF Context!Publish, Context!Compacted, Context!Automatic, Context!TurnEnds, Context!OwnerOpens, Context!Mark
  <2>2. marks' \in Nat /\ marks <= marks' BY <2>1
  <2> QED BY <1>1, <2>1, <2>2
<1>7. ASSUME UNCHANGED <<rev, boundary, marks>>, pump'.at = "observe", pump'.obs.id = marks,
             \A o \in Ops : /\ ops'[o].before = ops[o].before
                            /\ ops'[o].state = "completed" => ops[o].state = "completed"
      PROVE  Marked'
  BY <1>7
<1>8. ASSUME Context!Start PROVE Marked'
  <2>1. UNCHANGED <<ops, rev, boundary, marks>> BY <1>8 DEF Context!Start
  <2>2. \/ pump'.at = "observe" /\ pump'.obs.id = marks
        \/ pump'.at = "history"
    BY <1>8, PumpStarts
  <2>3. CASE pump'.at = "observe" /\ pump'.obs.id = marks BY <1>7, <2>1, <2>3
  <2>4. CASE pump'.at = "history" BY <1>2, <2>1, <2>4
  <2> QED BY <2>2, <2>3, <2>4
<1>9. ASSUME Context!publishBoundary PROVE Marked'
  <2>1. UNCHANGED <<ops, rev, marks>> /\ pump.at = "observe" BY <1>9 DEF Context!publishBoundary
  <2>2. CASE Context!Repeated
    <3>1. pump'.at \in {"history", "idle"} /\ boundary' = boundary BY <1>9, <2>2, PumpPublishes
    <3> QED BY <1>2, <2>1, <3>1
  <2>3. CASE ~Context!Repeated
    <3>1. pump'.at = "record" /\ pump'.obs = pump.obs /\ boundary' = boundary + 1
      BY <1>9, <2>3, PumpPublishes
    <3>2. \A o \in Context!Matching : ops[o].before # pump.obs.id BY <2>3 DEF Context!Repeated
    <3>3. rev < boundary' /\ rev <= boundary' BY <3>1
    <3>4. Context!Matching' = Context!Matching BY <2>1, <3>1
    <3>5. Context!MarkerSound' BY <2>1, <3>1, <3>2, <3>3, <3>4
    <3>6. Context!CompletedIsTrue' /\ Context!ResetComesFirst' BY <2>1, <3>3
    <3> QED BY <3>5, <3>6
  <2> QED BY <2>2, <2>3
<1>10. ASSUME Context!observeContextCompletion PROVE Marked'
  <2>1. pump.at = "record" /\ UNCHANGED <<boundary, marks>> /\ rev' = rev + 1
    BY <1>10 DEF Context!observeContextCompletion
  <2>2. pump'.at \in {"history", "idle"} BY <1>10, PumpRecords
  <2>3. ops' = [o \in Ops |-> IF o \in Context!Matching THEN [ops[o] EXCEPT !.state = "completed"] ELSE ops[o]]
    BY <1>10 DEF Context!observeContextCompletion
  <2>4. \A o \in Ops : [ops[o] EXCEPT !.state = "completed"].before = ops[o].before BY DEF Context!Entries
  <2>5. \A o \in Ops : ops'[o].before = ops[o].before
                       /\ (ops'[o].state = "completed" => ops[o].state = "completed" \/ o \in Context!Matching)
    BY <2>3, <2>4
  <2>6. ASSUME NEW o \in Context!Matching PROVE marks > ops[o].before
    <3>1. ops[o].before <= pump.obs.id /\ ops[o].before # pump.obs.id BY <2>1
    <3>2. o \in Ops BY DEF Context!Matching
    <3>3. ops[o].before \in Nat BY <3>2
    <3>4. \A a, b, c \in Nat : a <= b /\ a # b /\ b <= c => c > a OBVIOUS
    <3> QED BY <1>p, <2>1, <3>1, <3>3, <3>4
  <2>7. rev' <= boundary BY <2>1
  <2>8. Context!MarkerSound' BY <2>1, <2>2, <2>5
  <2>9. Context!CompletedIsTrue' BY <2>1, <2>5, <2>6
  <2> QED BY <2>1, <2>7, <2>8, <2>9
<1>11. ASSUME \/ Context!history \/ Context!Page \/ Context!writeHistoryMailbox \/ Context!applyContextCommands
              \/ Context!compact
       PROVE  Marked'
  <2>1. UNCHANGED <<ops, rev, boundary, marks>>
    BY <1>11 DEF Context!history, Context!Page, Context!writeHistoryMailbox, Context!applyContextCommands,
      Context!compact
  <2>2. pump'.at \in {"commands", "page", "answer", "admit", "idle", "acked", "lost"}
    BY <1>11, PumpReads, PumpGoesOn, PumpCommands
  <2> QED BY <1>2, <2>1, <2>2
<1>12. ASSUME NEW o \in Ops, NEW s \in {"uncertain", "rejected", "running"}, ops' = [ops EXCEPT ![o].state = s]
       PROVE  \A q \in Ops : /\ ops'[q].before = ops[q].before
                             /\ ops'[q].state = "completed" => ops[q].state = "completed"
  BY <1>12 DEF Context!Entries
<1>13. ASSUME Context!reconcile PROVE Marked'
  <2>1. \/ pump'.at = "observe" /\ pump'.obs.id = marks
        \/ pump'.at = "idle"
    BY <1>13, PumpReconciles
  <2>2. pump.op \in Ops BY <1>13, PumpHolds DEF Context!reconcile
  <2>3. UNCHANGED <<rev, boundary, marks>> /\ (ops' = ops \/ ops' = [ops EXCEPT ![pump.op].state = "uncertain"])
    BY <1>13 DEF Context!reconcile, Context!SetState
  <2>4. \A o \in Ops : /\ ops'[o].before = ops[o].before
                       /\ ops'[o].state = "completed" => ops[o].state = "completed"
    BY <1>12, <2>2, <2>3
  <2>5. CASE pump'.at = "observe" /\ pump'.obs.id = marks BY <1>7, <2>3, <2>4, <2>5
  <2>6. CASE pump'.at = "idle" BY <1>2, <2>3, <2>4, <2>6
  <2> QED BY <2>1, <2>5, <2>6
<1>14. ASSUME Context!reject \/ Context!settle PROVE Marked'
  <2>1. UNCHANGED <<rev, boundary, marks>> BY <1>14 DEF Context!reject, Context!settle
  <2>2. pump'.at = "idle" /\ pump.op \in Ops BY <1>14, PumpCommands
  <2>3. \E s \in {"uncertain", "rejected", "running"} : ops' = [ops EXCEPT ![pump.op].state = s]
    BY <1>14 DEF Context!reject, Context!settle, Context!SetState
  <2>4. \A o \in Ops : /\ ops'[o].before = ops[o].before
                       /\ ops'[o].state = "completed" => ops[o].state = "completed"
    BY <1>12, <2>2, <2>3
  <2> QED BY <1>2, <2>1, <2>2, <2>4
<1>15. ASSUME Context!dispatch PROVE Marked'
  <2>1. /\ UNCHANGED <<rev, boundary, marks>>
        /\ ops' = [ops EXCEPT ![pump.op].state = "dispatching", ![pump.op].before = marks]
    BY <1>15 DEF Context!dispatch
  <2>2. pump'.at = "compact" /\ pump.op \in Ops BY <1>15, PumpCommands
  <2>3. /\ ops'[pump.op].before = marks /\ ops'[pump.op].state = "dispatching"
        /\ \A o \in Ops : o # pump.op => ops'[o] = ops[o]
    BY <2>1, <2>2 DEF Context!Entries
  <2>4. \A o \in Ops : /\ ops'[o].before \in Nat /\ ops'[o].before <= marks
                       /\ ops'[o].state = "completed" =>
                            ops[o].state = "completed" /\ ops'[o].before = ops[o].before
    BY <2>3
  <2> QED BY <1>2, <2>1, <2>2, <2>4
<1>16. ASSUME Context!OwnerDies PROVE Marked'
  <2>1. UNCHANGED <<ops, rev, boundary, marks>> /\ pump'.at = "idle" BY <1>16 DEF Context!OwnerDies, Context!Rest
  <2> QED BY <1>2, <2>1
<1> QED BY <1>3, <1>4, <1>5, <1>6, <1>8, <1>9, <1>10, <1>11, <1>13, <1>14, <1>15, <1>16 DEF Context!Next

\* A request and its page go together, in the mailbox and in the pump's hand.
LEMMA ReadersStep ==
  ASSUME Context!ConstantsOK, SoundContext, Context!Next
  PROVE  Context!ReadersSound' /\ Context!PagesBelong'
<1> DEFINE Paged == Context!ReadersSound /\ Context!PagesBelong
<1>0. /\ None \notin Context!Pages /\ None \notin Context!Boxes /\ box \in {None} \cup Context!Boxes
      /\ Context!ReadersSound /\ Context!PagesBelong /\ call \in [Reads -> Context!Calls]
  BY DEF Context!ConstantsOK, SoundContext, Context!TypeOK, Context!ContextInv, Context!ContextSafe
<1>h. pump.at \in {"page", "answer"} => pump.box \in Context!Boxes BY PumpHolds
<1> USE <1>0 DEF Context!ReadersSound, Context!PagesBelong, Context!RequestSound
<1>b. ASSUME NEW b \in Context!Boxes
      PROVE  /\ b.id \in Reads /\ b.cursor \in {None} \cup Context!Pages /\ b.page \in {None} \cup Context!Pages
  BY DEF Context!Boxes
<1>1. ASSUME NEW r \in Reads, Context!readNativeHistory(r) PROVE Paged'
  <2>1. PICK c \in {None} \cup Context!Answered :
          /\ call' = [call EXCEPT ![r] = [at |-> "waiting", cursor |-> c, page |-> None]]
          /\ box' = [id |-> r, gen |-> Context!Generation, cursor |-> c, state |-> "queued", page |-> None]
    BY <1>1 DEF Context!readNativeHistory
  <2>2. box' # None
    <3>1. c \in {None} \cup Context!Pages BY DEF Context!Answered
    <3>2. Context!Generation \in 1..MaxGens BY PassGeneration DEF SoundContext
    <3>3. box' \in Context!Boxes BY <2>1, <3>1, <3>2 DEF Context!Boxes
    <3> QED BY <1>0, <3>3
  <2>3. call[r].at = "none" /\ pump' = pump BY <1>1 DEF Context!readNativeHistory
  <2>4. Context!RequestSound(box)' BY <2>1
  <2>5. pump.at \in {"page", "answer"} => pump.box.id \in Reads /\ pump.box.id # r BY <2>3, <1>b, <1>h
  <2>6. \A q \in Reads : q # r => call'[q] = call[q] BY <2>1
  <2>7. call'[r].at = "waiting" BY <2>1
  <2>8. Context!ReadersSound' BY <2>2, <2>3, <2>4, <2>5, <2>6
  <2>9. Context!PagesBelong' BY <2>6, <2>7
  <2> QED BY <2>8, <2>9
<1>2. ASSUME NEW r \in Reads, Context!AwaitPage(r) PROVE Paged'
  <2>1. box \in Context!Boxes /\ UNCHANGED <<box, pump>> BY <1>2 DEF Context!AwaitPage
  <2>2. CASE box.id = r /\ box.state = "complete"
    <3>1. call' = [call EXCEPT ![r].at = "page", ![r].page = box.page] BY <1>2, <2>2 DEF Context!AwaitPage
    <3>2. /\ call'[r].at = "page" /\ call'[r].page = box.page /\ call'[r].cursor = call[r].cursor
          /\ \A q \in Reads : q # r => call'[q] = call[q]
      BY <3>1 DEF Context!Calls
    <3>3. /\ box.page \in Context!Pages /\ box.page.of = r /\ call[r].cursor = box.cursor
          /\ box.cursor # None => box.page.rev = box.cursor.rev /\ box.page.gen = box.cursor.gen
      BY <1>0, <1>b, <2>1, <2>2
    <3>4. \A q \in Reads : call'[q].cursor = call[q].cursor /\ (call[q].at # "none" => call'[q].at # "none")
      BY <3>2
    <3>5. Context!ReadersSound' BY <1>0, <1>b, <1>h, <2>1, <3>4
    <3>6. Context!PagesBelong' BY <3>2, <3>3
    <3> QED BY <3>5, <3>6
  <2>3. CASE ~(box.id = r /\ box.state = "complete")
    <3>1. call' = [call EXCEPT ![r].at = "refused"] BY <1>2, <2>3 DEF Context!AwaitPage
    <3>2. /\ call'[r].at = "refused" /\ call'[r].cursor = call[r].cursor
          /\ \A q \in Reads : q # r => call'[q] = call[q]
      BY <3>1 DEF Context!Calls
    <3>4. \A q \in Reads : call'[q].cursor = call[q].cursor /\ (call[q].at # "none" => call'[q].at # "none")
      BY <3>2
    <3>5. Context!ReadersSound' BY <1>0, <1>b, <1>h, <2>1, <3>4
    <3>6. Context!PagesBelong' BY <3>2
    <3> QED BY <3>5, <3>6
  <2> QED BY <2>2, <2>3
<1>3. ASSUME Context!history PROVE Paged'
  <2>1. call' = call BY <1>3 DEF Context!history
  <2>2. CASE pump'.at = "commands" /\ box' = box BY <2>1, <2>2
  <2>3. CASE pump'.at = "commands" /\ box \in Context!Boxes /\ box' = [box EXCEPT !.state = "failed"]
    <3>1. box' \in Context!Boxes /\ box'.state = "failed" /\ box'.id = box.id /\ box'.cursor = box.cursor
      BY <2>3 DEF Context!Boxes
    <3> QED BY <2>1, <2>3, <3>1
  <2>4. CASE /\ pump'.at = "page" /\ box \in Context!Boxes /\ box' = box /\ pump'.box \in Context!Boxes
             /\ pump'.box.id = box.id /\ pump'.box.cursor = box.cursor
             /\ pump'.box.page = Context!Current(box.id)
             /\ pump'.box.state = "complete" => Context!SameContext(box.cursor)
    <3> DEFINE page == Context!Current(box.id)
    <3>1. page \in Context!Pages /\ page.of = box.id /\ page.rev = rev /\ page.gen = Context!Generation
      <4>1. rev \in Nat /\ Context!Generation \in 1..MaxGens BY PassGeneration DEF SoundContext, Context!TypeOK
      <4>2. box.id \in Reads BY <1>b, <2>4
      <4> QED BY <4>1, <4>2 DEF Context!Current, Context!Pages
    <3>2. pump'.box.page = page BY <2>4
    <3> HIDE DEF page
    <3>3. pump'.box.state = "complete" /\ box.cursor # None => page.rev = box.cursor.rev /\ page.gen = box.cursor.gen
      BY <2>4, <3>1 DEF Context!SameContext
    <3>4. call[box.id].at # "none" /\ call[box.id].cursor = box.cursor BY <2>4
    <3>5. page # None /\ pump'.box # None BY <2>4, <3>1
    <3>6. Context!RequestSound(pump.box)' BY <2>1, <2>4, <3>1, <3>2, <3>3, <3>4, <3>5
    <3> QED BY <2>1, <2>4, <3>5, <3>6
  <2> QED BY <1>3, <2>2, <2>3, <2>4, PumpReads
<1>4. ASSUME Context!writeHistoryMailbox PROVE Paged'
  <2>1. box' = pump.box /\ call' = call /\ pump.at = "answer" BY <1>4 DEF Context!writeHistoryMailbox
  <2>2. pump'.at = "commands" BY <1>4, PumpGoesOn
  <2> QED BY <2>1, <2>2
<1>5. ASSUME UNCHANGED <<box, call>>,
             pump'.at \in {"page", "answer"} => pump.at \in {"page", "answer"} /\ pump'.box = pump.box
      PROVE  Paged'
  BY <1>5
<1> USE DEF Context!journal, Context!runs, Context!owner, Context!input
<1>6. ASSUME NEW o \in Ops, Context!compactNativeContext(o) PROVE Paged'
  BY <1>5, <1>6 DEF Context!compactNativeContext
<1>7. ASSUME NEW l \in Letters, Context!Append(l) \/ Context!deliverNativeRuntime(l) \/ Context!Repair(l) \/ Context!pickup(l)
      PROVE  Paged'
  BY <1>5, <1>7 DEF Context!Append, Context!deliverNativeRuntime, Context!Repair, Context!pickup
<1>8. ASSUME Context!Publish \/ Context!Compacted \/ Context!Automatic \/ Context!TurnEnds \/ Context!OwnerOpens
      PROVE  Paged'
  BY <1>5, <1>8 DEF Context!Publish, Context!Compacted, Context!Automatic, Context!TurnEnds, Context!OwnerOpens
<1>9. ASSUME Context!Start \/ Context!publishBoundary \/ Context!observeContextCompletion PROVE Paged'
  <2>1. UNCHANGED <<box, call>>
    BY <1>9 DEF Context!Start, Context!publishBoundary, Context!observeContextCompletion
  <2>2. pump'.at \in {"observe", "record", "history", "idle"} BY <1>9, PumpStarts, PumpPublishes, PumpRecords
  <2> QED BY <1>5, <2>1, <2>2
<1>10. ASSUME Context!Page \/ Context!applyContextCommands PROVE Paged'
  <2>1. UNCHANGED <<box, call>> BY <1>10 DEF Context!Page, Context!applyContextCommands
  <2>2. CASE Context!Page BY <1>5, <2>1, <2>2, PumpGoesOn
  <2>3. CASE Context!applyContextCommands
    <3>1. pump'.at \in {"idle", "admit"} BY <2>3, PumpGoesOn
    <3> QED BY <1>5, <2>1, <3>1
  <2> QED BY <1>10, <2>2, <2>3
<1>11. ASSUME \/ Context!reconcile \/ Context!reject \/ Context!dispatch \/ Context!compact \/ Context!settle
              \/ Context!OwnerDies
       PROVE  Paged'
  <2>1. UNCHANGED <<box, call>>
    BY <1>11 DEF Context!reconcile, Context!reject, Context!dispatch, Context!compact, Context!settle,
      Context!OwnerDies
  <2>2. Context!OwnerDies => pump'.at = "idle" BY DEF Context!OwnerDies, Context!Rest
  <2>3. pump'.at \in {"observe", "idle", "compact", "acked", "lost"}
    BY <1>11, <2>2, PumpReconciles, PumpCommands
  <2> QED BY <1>5, <2>1, <2>3
<1> QED BY <1>1, <1>2, <1>3, <1>4, <1>6, <1>7, <1>8, <1>9, <1>10, <1>11 DEF Context!Next

\* A step of the pump, of a reader or of the conversation keeps the invariant.
LEMMA ContextKept ==
  ASSUME Context!ConstantsOK, SoundContext, [Context!Next]_(Context!vars)
  PROVE  SoundContext'
<1>1. CASE Context!Next
  BY <1>1, ContextTypes, CompactStep, InputStep, MarkerStep, ReadersStep
  DEF SoundContext, Context!ContextInv, Context!ContextSafe
<1>2. CASE UNCHANGED Context!vars
  BY <1>2 DEF Context!vars, Context!journal, Context!input, Context!owner, Context!runs, SoundContext,
    Context!TypeOK, Context!ContextInv, Context!PumpSound, Context!MarkerSound, Context!Matching,
    Context!ReadersSound, Context!RequestSound, Context!ContextSafe, Context!CompactedOnce,
    Context!CompletedIsTrue, Context!ResetComesFirst, Context!InputWaits, Context!contextMutationPending,
    Context!PagesBelong
<1> QED BY <1>1, <1>2

\* The journal of a compaction, the pump, the markers and the pages read agree
\* (context/pump.ts, service.ts, observer.ts).
THEOREM ContextInductive ==
  ASSUME Context!ConstantsOK PROVE Context!Spec => [](Context!TypeOK /\ Context!ContextInv)
<1>1. Context!Init => SoundContext BY ContextInit
<1>2. SoundContext /\ [Context!Next]_(Context!vars) => SoundContext' BY ContextKept
<1> QED BY <1>1, <1>2, PTL DEF Context!Spec, SoundContext

\* A compaction is asked for once and complete only by a marker that is newer than it, readers are
\* reset before that shows, no input waits beside it, and a page is its reader's, of the revision
\* and connection of the cursor it goes on from.
THEOREM ContextAlwaysSafe == ASSUME Context!ConstantsOK PROVE Context!Spec => []Context!ContextSafe
<1>1. Context!ContextInv => Context!ContextSafe BY DEF Context!ContextInv
<1> QED BY <1>1, ContextInductive, PTL
===============================================================================
