------------------------ MODULE NativeDispatchProofs ------------------------
(***************************************************************************)
(* Proofs about NativeDispatch, for any letters, commands, kinds of owner  *)
(* and bounds: the types are right, the cursors know what is in the slot   *)
(* and the slot keeps its letter until it is over, a letter has one turn   *)
(* and is called over only when it is, and the whole implements the        *)
(* orderly turns of LetterTurns.  Last, what the run of an owner checks of *)
(* all its sides together: the steps of a side keep its invariant and      *)
(* leave the other sides alone.                                            *)
(***************************************************************************)
EXTENDS MCNative, TLAPS

-----------------------------------------------------------------------------
(* Sequences and records.                                                  *)

\* The first input of a queue, and the queue without it.
LEMMA HeadAndTail ==
  ASSUME NEW S, NEW q \in Seq(S), q # <<>>
  PROVE  /\ Len(q) \in Nat /\ Len(q) >= 1 /\ Head(q) = q[1] /\ Head(q) \in S
         /\ Tail(q) \in Seq(S) /\ Len(Tail(q)) = Len(q) - 1
         /\ \A n \in 1..Len(Tail(q)) : n + 1 \in 1..Len(q) /\ Tail(q)[n] = q[n + 1]
<1>1. Len(q) \in Nat /\ Len(q) # 0 BY SMT
<1>2. q[1] \in S BY <1>1, SMT
<1> QED BY <1>1, <1>2, SMT

\* A queue with one input more.
LEMMA Appended ==
  ASSUME NEW S, NEW q \in Seq(S), NEW e \in S
  PROVE  /\ Len(q) \in Nat /\ Append(q, e) \in Seq(S) /\ Len(Append(q, e)) = Len(q) + 1
         /\ \A n \in 1..Len(q) : Append(q, e)[n] = q[n]
         /\ Append(q, e)[Len(q) + 1] = e
OBVIOUS

\* The values everything starts from.
LEMMA Nothing ==
  /\ NoTurn \in TurnsOf
  /\ Unavailable \in [live: BOOLEAN, turn: TurnsOf]
  /\ Off \in [at: {"off", "reconnecting", "idle", "dispatching", "pushed"},
              turn: TurnsOf, dispatched: Inputs \cup {None}, held: BOOLEAN]
BY DEF NoTurn, TurnsOf, Unavailable, Off

-----------------------------------------------------------------------------
(* Types.                                                                  *)

\* The daemon, a sender and a command keep the types.
LEMMA DaemonTypes ==
  ASSUME TypeOK, DaemonSound,
         \/ Send \/ Daemon \/ DaemonDies
         \/ \E k \in Commands : runControlCommand(k)
  PROVE  TypeOK'
<1> USE DispatchAssumption DEF TypeOK
<1>1. CASE Send
  BY <1>1
  DEF Send, FileType, ProcessType, RuntimeType, daemonVars, runtimeVars, faultVars
<1>2. CASE Repair
  BY <1>2
  DEF Repair, Queued, Inputs, FileType, ProcessType, RuntimeType, daemonVars, runtimeVars,
      faultVars
<1>3. CASE NoteAccepted
  BY <1>3
  DEF NoteAccepted, Advance, FileType, ProcessType, RuntimeType, runtimeVars, faultVars
<1>4. CASE SaveAccepted
  BY <1>4
  DEF SaveAccepted, NoPickup, FileType, ProcessType, RuntimeType, runtimeVars, faultVars
<1>5. CASE Choose
  <2>1. delivered + 1 \in Letters BY <1>5 DEF Choose, Letters, FileType
  <2> QED
    BY <1>5, <2>1
    DEF Choose, Advance, FileType, ProcessType, RuntimeType, runtimeVars, faultVars
<1>6. CASE armPickup
  <2>1. picked \in Letters /\ picked \in 0..written
    BY <1>6 DEF armPickup, DaemonSound, FileType, Letters
  <2> QED
    BY <1>6, <2>1 DEF armPickup, FileType, ProcessType, RuntimeType, runtimeVars, faultVars
<1>7. CASE Fill
  BY <1>7
  DEF Fill, Queued, Inputs, FileType, ProcessType, RuntimeType, runtimeVars, faultVars
<1>8. CASE DaemonDies
  BY <1>8
  DEF DaemonDies, FileType, ProcessType, RuntimeType, fileVars, runtimeVars, faultVars
<1>9. ASSUME NEW k \in Commands, runControlCommand(k) PROVE TypeOK'
  BY <1>9
  DEF runControlCommand, Queued, Inputs, FileType, ProcessType, RuntimeType, daemonVars,
      runtimeVars, faultVars
<1> QED BY <1>1, <1>2, <1>3, <1>4, <1>5, <1>6, <1>7, <1>8, <1>9 DEF Daemon

\* The owner keeps them: what it hands over is an input.
LEMMA OwnerTypes ==
  ASSUME TypeOK, SlotSound, FlowSound,
         OwnerOpens \/ Publish \/ Reconcile \/ TurnPickup \/ Push \/ Confirm \/ RecordTerminal
  PROVE  TypeOK'
<1> USE DispatchAssumption DEF TypeOK
<1> DEFINE Owners == [at: {"off", "reconnecting", "idle", "dispatching", "pushed"},
                      turn: TurnsOf, dispatched: Inputs \cup {None}, held: BOOLEAN]
<1>1. CASE OwnerOpens
  <2>1. Recalled \in TurnsOf
    <3>1. CASE said # <<>>
      <4>1. Last \in Inputs
        <5>1. Len(said) \in 1..Len(said) BY <3>1, HeadAndTail DEF RuntimeType
        <5> QED BY <5>1 DEF RuntimeType, Last
      <4> QED BY <4>1, Nothing DEF Recalled, TurnsOf
    <3>2. CASE said = <<>> BY <3>2, Nothing DEF Recalled
    <3> QED BY <3>1, <3>2
  <2>2. (agent = "custom" /\ said # <<>> /\ Last \notin ended) \in BOOLEAN OBVIOUS
  <2>3. owner' \in Owners BY <1>1, <2>1, <2>2 DEF OwnerOpens
  <2>4. FileType' BY <1>1 DEF OwnerOpens, FileType, fileVars
  <2>5. ProcessType' BY <1>1, <2>3 DEF OwnerOpens, ProcessType, daemonVars, faultVars
  <2>6. RuntimeType' BY <1>1 DEF OwnerOpens, RuntimeType
  <2> QED BY <2>4, <2>5, <2>6
<1>2. CASE Publish
  <2>1. FileType' BY <1>2 DEF Publish, FileType, ProcessType
  <2>2. ProcessType' BY <1>2 DEF Publish, ProcessType, daemonVars, faultVars
  <2>3. RuntimeType' BY <1>2 DEF Publish, RuntimeType, runtimeVars
  <2> QED BY <2>1, <2>2, <2>3
<1>3. CASE Reconcile
  <2>1. slot' \in {InPhase("accepted"), InPhase("queued"), InPhase("uncertain"), slot}
    BY <1>3 DEF Reconcile, SettledDispatch
  <2>4. slot' \in [id: Inputs \cup {None}, terminal: BOOLEAN,
                  phase: {"none", "queued", "dispatching", "accepted", "uncertain"}]
    BY <2>1 DEF InPhase, FileType
  <2>5. FileType' BY <1>3, <2>4 DEF Reconcile, FileType
  <2>2. ProcessType' BY <1>3 DEF Reconcile, FileType, ProcessType, daemonVars, faultVars
  <2>3. RuntimeType' BY <1>3 DEF Reconcile, RuntimeType, runtimeVars
  <2> QED BY <2>2, <2>3, <2>5
<1>4. CASE TurnPickup
  <2>1. [id |-> slot.id, status |-> "inProgress"] \in TurnsOf BY DEF FileType, TurnsOf
  <2>2. owner' \in Owners BY <1>4, <2>1 DEF TurnPickup, FileType, ProcessType
  <2>3. FileType' BY <1>4 DEF TurnPickup, InPhase, FileType
  <2>4. ProcessType' BY <1>4, <2>2 DEF TurnPickup, ProcessType, daemonVars, faultVars
  <2>5. RuntimeType' BY <1>4 DEF TurnPickup, RuntimeType, runtimeVars
  <2> QED BY <2>3, <2>4, <2>5
<1>5. CASE Push
  <2>1. slot.id \in Inputs BY <1>5 DEF Push, SlotSound, FlowSound, OwnerSound, NoSlot, FileType
  <2>2. sent' \in Seq(Inputs) BY <1>5, <2>1, Appended DEF Push, RuntimeType
  <2>3. FileType' BY <1>5 DEF Push, FileType, fileVars
  <2>4. ProcessType' BY <1>5 DEF Push, ProcessType, daemonVars, faultVars
  <2>5. RuntimeType' BY <1>5, <2>2 DEF Push, RuntimeType
  <2> QED BY <2>3, <2>4, <2>5
<1>6. CASE Confirm
  <2>1. FileType' BY <1>6 DEF Confirm, InPhase, FileType
  <2>2. ProcessType' BY <1>6 DEF Confirm, ProcessType, daemonVars, faultVars
  <2>3. RuntimeType' BY <1>6 DEF Confirm, RuntimeType, runtimeVars
  <2> QED BY <2>1, <2>2, <2>3
<1>7. CASE RecordTerminal
  <2>1. [id |-> slot.id, status |-> "ended"] \in TurnsOf BY DEF FileType, TurnsOf
  <2>2. owner' \in Owners BY <1>7, <2>1 DEF RecordTerminal, ProcessType
  <2>6. op' \in [Letters -> {"queued", "uncertain", "admitted", "ended"}]
    BY <1>7 DEF RecordTerminal, Advance, FileType
  <2>7. slot' \in [id: Inputs \cup {None}, terminal: BOOLEAN,
                  phase: {"none", "queued", "dispatching", "accepted", "uncertain"}]
    BY <1>7 DEF RecordTerminal, FileType
  <2>3. FileType' BY <1>7, <2>6, <2>7 DEF RecordTerminal, FileType
  <2>4. ProcessType' BY <1>7, <2>2 DEF RecordTerminal, ProcessType, daemonVars, faultVars
  <2>5. RuntimeType' BY <1>7 DEF RecordTerminal, Advance, RuntimeType, runtimeVars
  <2> QED BY <2>3, <2>4, <2>5
<1> QED BY <1>1, <1>2, <1>3, <1>4, <1>5, <1>6, <1>7

\* The runtime, its results and its failures keep them.
LEMMA RuntimeTypes ==
  ASSUME TypeOK, Disconnect \/ ReadResult \/ applyInterrupt \/ OwnerDies \/ Runtime
  PROVE  TypeOK'
<1> USE DispatchAssumption DEF TypeOK
<1> DEFINE Owners == [at: {"off", "reconnecting", "idle", "dispatching", "pushed"},
                      turn: TurnsOf, dispatched: Inputs \cup {None}, held: BOOLEAN]
<1>1. CASE Disconnect
  <2>1. [Off EXCEPT !.at = "reconnecting"] \in Owners BY Nothing
  <2>2. FileType' BY <1>1, Nothing DEF Disconnect, FileType
  <2>3. ProcessType' BY <1>1, <2>1 DEF Disconnect, ProcessType, daemonVars
  <2>4. sent' \in Seq(Inputs)
    <3>1. sent' = sent \/ sent' = <<>> BY <1>1 DEF Disconnect
    <3>2. <<>> \in Seq(Inputs) /\ sent \in Seq(Inputs) BY DEF RuntimeType
    <3> QED BY ONLY <3>1, <3>2
  <2>5. RuntimeType' BY <1>1, <2>4 DEF Disconnect, RuntimeType
  <2> QED BY <2>2, <2>3, <2>5
<1>2. CASE ReadResult
  <2>1. results' \in Seq(Inputs) BY <1>2, HeadAndTail DEF ReadResult, RuntimeType
  <2>2. owner' \in Owners BY <1>2 DEF ReadResult, ProcessType, TurnsOf
  <2>3. FileType' BY <1>2 DEF ReadResult, FileType, fileVars
  <2>4. ProcessType' BY <1>2, <2>2 DEF ReadResult, ProcessType, daemonVars, faultVars
  <2>5. RuntimeType' BY <1>2, <2>1 DEF ReadResult, RuntimeType
  <2> QED BY <2>3, <2>4, <2>5
<1>3. CASE applyInterrupt
  <2>1. running \in Inputs => Append(results, running) \in Seq(Inputs)
    BY Appended DEF RuntimeType
  <2>2. owner' \in Owners BY <1>3 DEF applyInterrupt, ProcessType, TurnsOf
  <2>3. interrupts' \in 0..MaxInterrupts BY <1>3 DEF applyInterrupt, ProcessType
  <2>4. FileType' BY <1>3 DEF applyInterrupt, FileType, fileVars
  <2>5. ProcessType' BY <1>3, <2>2, <2>3 DEF applyInterrupt, ProcessType, daemonVars
  <2>6. RuntimeType' BY <1>3, <2>1 DEF applyInterrupt, RuntimeType
  <2> QED BY <2>4, <2>5, <2>6
<1>4. CASE OwnerDies
  <2>1. said' \in Seq(Inputs)
    <3>1. CASE said' = said BY <3>1 DEF RuntimeType
    <3>2. CASE sent # <<>> /\ said' = Append(said, Head(sent))
      <4>1. Head(sent) \in Inputs BY <3>2, HeadAndTail DEF RuntimeType
      <4> QED BY <3>2, <4>1, Appended DEF RuntimeType
    <3> QED BY <1>4, <3>1, <3>2 DEF OwnerDies
  <2>2. ended' \subseteq Inputs BY <1>4, <2>1 DEF OwnerDies, RuntimeType
  <2>3. sent' \in Seq(Inputs) /\ results' \in Seq(Inputs) /\ running' = None
    BY <1>4 DEF OwnerDies, RuntimeType
  <2>4. owner' \in Owners /\ crashes' \in 0..MaxCrashes
    BY <1>4, Nothing DEF OwnerDies, ProcessType
  <2>5. FileType' BY <1>4, Nothing DEF OwnerDies, FileType
  <2>6. ProcessType' BY <1>4, <2>4 DEF OwnerDies, ProcessType, daemonVars
  <2>7. RuntimeType' BY <2>1, <2>2, <2>3 DEF RuntimeType
  <2> QED BY <2>5, <2>6, <2>7
<1>5. CASE BeginTurn
  <2>1. Head(sent) \in Inputs /\ Tail(sent) \in Seq(Inputs)
    BY <1>5, HeadAndTail DEF BeginTurn, RuntimeType
  <2>2. [id |-> Head(sent), status |-> "inProgress"] \in TurnsOf BY <2>1 DEF TurnsOf
  <2>3. said' \in Seq(Inputs) BY <1>5, <2>1, Appended DEF BeginTurn, RuntimeType
  <2>4. owner' \in Owners BY <1>5, <2>2 DEF BeginTurn, ProcessType
  <2>5. FileType' BY <1>5 DEF BeginTurn, FileType, fileVars
  <2>6. ProcessType' BY <1>5, <2>4 DEF BeginTurn, ProcessType, daemonVars, faultVars
  <2>7. RuntimeType' BY <1>5, <2>1, <2>3 DEF BeginTurn, RuntimeType
  <2> QED BY <2>5, <2>6, <2>7
<1>6. CASE EndTurn
  <2>1. Append(results, running) \in Seq(Inputs) BY <1>6, Appended DEF EndTurn, RuntimeType
  <2>2. FileType' BY <1>6 DEF EndTurn, FileType, fileVars
  <2>3. ProcessType' BY <1>6 DEF EndTurn, ProcessType, daemonVars, faultVars
  <2>4. RuntimeType' BY <1>6, <2>1 DEF EndTurn, RuntimeType
  <2> QED BY <2>2, <2>3, <2>4
<1> QED BY <1>1, <1>2, <1>3, <1>4, <1>5, <1>6 DEF Runtime

-----------------------------------------------------------------------------
(* The cursors, the operations and the slot.                               *)

\* Pickup and slot as the daemon writes them.
LEMMA Written ==
  /\ NoPickup.id = None /\ NoPickup.phase = "none"
  /\ NoSlot.id = None /\ NoSlot.phase = "none" /\ NoSlot.terminal = FALSE
  /\ \A i : Queued(i).id = i /\ Queued(i).phase = "queued" /\ Queued(i).terminal = FALSE
  /\ \A l \in Letters : l # None /\ l \in Nat /\ l >= 1
BY DispatchAssumption DEF NoPickup, NoSlot, Queued, Inputs, Letters

\* An operation only moves forward.
LEMMA Advances ==
  ASSUME FileType, NEW l \in Letters, NEW p, Advance(l, p)
  PROVE  /\ \A k \in Letters : op[k] = "ended" => op'[k] = "ended"
         /\ \A k \in Letters : k # l => op'[k] = op[k]
         /\ op'[l] = IF op[l] = "ended" THEN "ended" ELSE p
BY DEF FileType, Advance

\* The daemon, a sender and a command keep what the daemon has in hand, and the slot's place
\* behind the cursor.
LEMMA DaemonKeeps ==
  ASSUME NativeInv,
         \/ Send \/ Daemon \/ DaemonDies
         \/ \E k \in Commands : runControlCommand(k)
  PROVE  DaemonSound' /\ SlotSound'
<1> USE DispatchAssumption, Written DEF NativeInv, TypeOK
<1>1. CASE Send
  <2>1. DaemonSound' BY <1>1 DEF Send, DaemonSound, FileType, daemonVars
  <2>2. SlotSound' BY <1>1 DEF Send, SlotSound, CursorsKnowSlot
  <2> QED BY <2>1, <2>2
<1>2. CASE Repair
  <2>1. DaemonSound' BY <1>2 DEF Repair, DaemonSound, FileType, daemonVars
  <2>2. SlotSound' BY <1>2 DEF Repair, DaemonSound, SlotSound, CursorsKnowSlot, FileType
  <2> QED BY <2>1, <2>2
<1>3. CASE NoteAccepted
  <2>1. pickup.id \in Letters BY <1>3 DEF NoteAccepted, FileType
  <2>2. DaemonSound' BY <1>3, <2>1, Advances DEF NoteAccepted, DaemonSound, ProcessType, FileType
  <2>3. SlotSound' BY <1>3 DEF NoteAccepted, SlotSound, CursorsKnowSlot
  <2> QED BY <2>2, <2>3
<1>4. CASE SaveAccepted
  <2>1. DaemonSound' BY <1>4 DEF SaveAccepted, DaemonSound, ProcessType, FileType
  <2>2. SlotSound' BY <1>4 DEF SaveAccepted, DaemonSound, SlotSound, CursorsKnowSlot, FileType
  <2> QED BY <2>1, <2>2
<1>5. CASE Choose
  <2>1. delivered + 1 \in Letters BY <1>5 DEF Choose, Letters, FileType
  <2>2. DaemonSound' BY <1>5, <2>1, Advances DEF Choose, DaemonSound, FileType, ProcessType
  <2>3. SlotSound' BY <1>5 DEF Choose, SlotSound, CursorsKnowSlot
  <2> QED BY <2>2, <2>3
<1>6. CASE armPickup
  <2>1. /\ picked = delivered + 1 /\ delivered \in Nat /\ pickup = NoPickup
        /\ picked \in Letters /\ slot.id # picked
    BY <1>6 DEF armPickup, DaemonSound, SlotSound, CursorsKnowSlot, FileType, Letters
  <2>2. DaemonSound' BY <1>6, <2>1 DEF armPickup, DaemonSound, ProcessType
  <2>3. slot' = slot /\ delivered' = delivered + 1 /\ pickup'.phase = "intent"
    BY <1>6, <2>1 DEF armPickup
  <2>4. slot.id \in Letters => slot.id <= delivered /\ slot.phase = "accepted"
    BY <2>1 DEF SlotSound, CursorsKnowSlot
  <2>5. slot.id \in Letters => slot.id <= delivered + 1 BY <2>1, <2>4 DEF Letters
  <2>6. SlotSound' BY <2>3, <2>4, <2>5 DEF SlotSound, CursorsKnowSlot
  <2> QED BY <2>2, <2>6
<1>7. CASE Fill
  <2>1. DaemonSound' BY <1>7 DEF Fill, DaemonSound, FileType, ProcessType
  <2>2. SlotSound' BY <1>7 DEF Fill, DaemonSound, SlotSound, CursorsKnowSlot, FileType
  <2> QED BY <2>1, <2>2
<1>8. CASE DaemonDies
  <2>1. DaemonSound' BY <1>8 DEF DaemonDies, DaemonSound, ProcessType, fileVars
  <2>2. SlotSound' BY <1>8 DEF DaemonDies, SlotSound, CursorsKnowSlot, fileVars
  <2> QED BY <2>1, <2>2
<1>9. ASSUME NEW k \in Commands, runControlCommand(k) PROVE DaemonSound' /\ SlotSound'
  <2>1. DaemonSound'
    BY <1>9 DEF runControlCommand, DaemonSound, FileType, ProcessType, daemonVars
  <2>2. k # None /\ k \notin Letters BY DEF Inputs
  <2>3. SlotSound'
    <3>1. UNCHANGED <<pickup, delivered>> BY <1>9 DEF runControlCommand
    <3>2. CASE slot.id = k
      BY <1>9, <3>1, <3>2 DEF runControlCommand, SlotSound, CursorsKnowSlot
    <3>3. CASE slot.id # k
      <4>1. slot'.id = k /\ pickup = NoPickup BY <1>9, <3>3 DEF runControlCommand
      <4> QED BY <2>2, <3>1, <4>1 DEF SlotSound, CursorsKnowSlot
    <3> QED BY <3>2, <3>3
  <2> QED BY <2>1, <2>3
<1> QED BY <1>1, <1>2, <1>3, <1>4, <1>5, <1>6, <1>7, <1>8, <1>9 DEF Daemon

\* The owner keeps them: it holds the lock while it hands an input over, and it takes a slot
\* no further than `accepted` or back to a phase it leaves.
LEMMA OwnerKeeps ==
  ASSUME NativeInv,
         OwnerOpens \/ Publish \/ Reconcile \/ TurnPickup \/ Push \/ Confirm \/ RecordTerminal
  PROVE  DaemonSound' /\ SlotSound'
<1> USE DispatchAssumption, Written DEF NativeInv, TypeOK
<1>1. CASE OwnerOpens
  <2>1. DaemonSound'
    BY <1>1 DEF OwnerOpens, DaemonSound, ProcessType, Connected, fileVars, daemonVars
  <2>2. SlotSound' BY <1>1 DEF OwnerOpens, SlotSound, CursorsKnowSlot, fileVars
  <2> QED BY <2>1, <2>2
<1>2. CASE Publish
  <2>1. DaemonSound' BY <1>2 DEF Publish, DaemonSound, daemonVars
  <2>2. SlotSound' BY <1>2 DEF Publish, SlotSound, CursorsKnowSlot
  <2> QED BY <2>1, <2>2
<1>3. CASE Reconcile
  <2>1. slot' \in {InPhase("accepted"), InPhase("queued"), InPhase("uncertain")}
    BY <1>3 DEF Reconcile, SettledDispatch
  <2>2. slot'.id = slot.id BY <2>1 DEF InPhase, FileType
  <2>3. slot.phase # "accepted" /\ slot.phase # "none" /\ owner'.at = owner.at
    BY <1>3 DEF Reconcile, ProcessType
  <2>4. DaemonSound' BY <1>3, <2>2, <2>3 DEF Reconcile, DaemonSound, daemonVars
  <2>5. SlotSound' BY <1>3, <2>2, <2>3 DEF Reconcile, SlotSound, CursorsKnowSlot
  <2> QED BY <2>4, <2>5
<1>4. CASE TurnPickup
  <2>1. slot'.id = slot.id BY <1>4 DEF TurnPickup, InPhase, FileType
  <2>2. slot.phase \in {"queued", "dispatching", "uncertain"} BY <1>4 DEF TurnPickup, ToDispatch
  <2>3. owner'.at = "dispatching" BY <1>4 DEF TurnPickup, ProcessType
  <2>4. DaemonSound'
    BY <1>4, <2>1, <2>2, <2>3 DEF TurnPickup, DaemonSound, daemonVars
  <2>5. SlotSound' BY <1>4, <2>1, <2>2 DEF TurnPickup, SlotSound, CursorsKnowSlot
  <2> QED BY <2>4, <2>5
<1>5. CASE Push
  <2>1. owner'.at = "pushed" BY <1>5 DEF Push, ProcessType
  <2>2. DaemonSound' BY <1>5, <2>1 DEF Push, DaemonSound, fileVars, daemonVars
  <2>3. SlotSound' BY <1>5 DEF Push, SlotSound, CursorsKnowSlot, fileVars
  <2> QED BY <2>2, <2>3
<1>6. CASE Confirm
  <2>1. /\ slot'.id = slot.id /\ slot'.phase = "accepted" /\ owner'.at = "idle"
        /\ slot.id # None
    BY <1>6 DEF Confirm, InPhase, SlotSound, FlowSound, OwnerSound, FileType, ProcessType
  <2>2. DaemonSound' BY <1>6, <2>1 DEF Confirm, DaemonSound, daemonVars
  <2>3. SlotSound' BY <1>6, <2>1 DEF Confirm, SlotSound, CursorsKnowSlot
  <2> QED BY <2>2, <2>3
<1>7. CASE RecordTerminal
  <2>1. slot'.id = slot.id /\ slot'.phase = slot.phase /\ slot.id # None /\ owner'.at = owner.at
    BY <1>7 DEF RecordTerminal, SlotSound, FileType, ProcessType, RuntimeType
  <2>2. \A l \in Letters : op[l] = "ended" => op'[l] = "ended"
    BY <1>7, Advances DEF RecordTerminal
  <2>3. \A l \in Letters : op'[l] = "ended" => op[l] = "ended" \/ l = slot.id
    BY <1>7, Advances DEF RecordTerminal
  <2>4. slot.id \in Letters => slot.id <= delivered BY DEF SlotSound, CursorsKnowSlot
  <2>5. UNCHANGED <<written, delivered, pickup, lock, daemonAt, picked>>
    BY <1>7 DEF RecordTerminal, Advance, daemonVars
  <2>6. DaemonSound'
    BY <2>1, <2>2, <2>3, <2>4, <2>5 DEF DaemonSound, FileType
  <2>7. SlotSound' BY <2>1, <2>4, <2>5 DEF SlotSound, CursorsKnowSlot
  <2> QED BY <2>6, <2>7
<1> QED BY <1>1, <1>2, <1>3, <1>4, <1>5, <1>6, <1>7

\* The runtime and its failures keep them; an owner that dies lets the lock go.
LEMMA RuntimeKeeps ==
  ASSUME NativeInv, Disconnect \/ ReadResult \/ applyInterrupt \/ OwnerDies \/ Runtime
  PROVE  DaemonSound' /\ SlotSound'
<1> USE DEF NativeInv, TypeOK
<1>1. UNCHANGED <<written, delivered, pickup, op, slot, daemonAt, picked>>
  BY DEF Disconnect, ReadResult, applyInterrupt, OwnerDies, Runtime, BeginTurn, EndTurn,
         fileVars, daemonVars
<1>2. SlotSound' BY <1>1 DEF SlotSound, CursorsKnowSlot
<1>3. /\ lock' = "daemon" <=> lock = "daemon"
      /\ lock' = "owner" <=> owner'.at \in {"dispatching", "pushed"}
  <2>1. CASE Disconnect BY <2>1 DEF Disconnect, DaemonSound, ProcessType, Off
  <2>2. CASE OwnerDies BY <2>2 DEF OwnerDies, DaemonSound, ProcessType, Off
  <2>3. CASE ReadResult \/ applyInterrupt \/ Runtime
    <3>1. lock' = lock /\ owner'.at = owner.at
      BY <2>3 DEF ReadResult, applyInterrupt, Runtime, BeginTurn, EndTurn, ProcessType
    <3> QED BY <3>1 DEF DaemonSound
  <2> QED BY <2>1, <2>2, <2>3
<1>4. DaemonSound' BY <1>1, <1>3 DEF DaemonSound
<1> QED BY <1>2, <1>4

-----------------------------------------------------------------------------
(* The conversation and the queue behind it.                               *)

\* The daemon keeps them: what it takes up or puts into the slot, the runtime never had.
LEMMA DaemonFlows ==
  ASSUME NativeInv,
         \/ Send \/ Daemon \/ DaemonDies
         \/ \E k \in Commands : runControlCommand(k)
  PROVE  FlowSound'
<1> USE DispatchAssumption, Written DEF NativeInv, TypeOK
<1>1. UNCHANGED <<agent, said, sent, owner>>
  BY DEF Send, Daemon, Repair, NoteAccepted, SaveAccepted, Choose, armPickup, Fill, DaemonDies,
         runControlCommand, fileVars, runtimeVars
<1>2. /\ Ordered'
      /\ \A l : InConversation(l)' <=> InConversation(l)
      /\ \A l : InQueue(l)' <=> InQueue(l)
  BY <1>1 DEF FlowSound, Ordered, InConversation, InQueue
<1>3. ASSUME slot' = slot, delivered' >= delivered,
             \A l \in Letters : l = pickup'.id => l = pickup.id \/ l = slot.id \/ l > delivered
      PROVE  FlowSound'
  <2>1. OwnerSound' BY <1>1, <1>3 DEF FlowSound, OwnerSound
  <2>2. ASSUME NEW l \in Letters, InConversation(l) \/ InQueue(l) PROVE HandedOver(l)'
    <3>1. HandedOver(l) BY <2>2 DEF FlowSound
    <3>2. l \in Nat /\ delivered \in Nat /\ delivered' \in Nat
      BY <1>3, DaemonTypes DEF FileType, Letters, DaemonSound
    <3> QED BY <1>1, <1>2, <1>3, <3>1, <3>2 DEF HandedOver
  <2> QED BY <1>2, <2>1, <2>2 DEF FlowSound
\* A letter that the runtime has not, or a command, goes into the slot.
<1>4. ASSUME UNCHANGED <<delivered, pickup>>, lock # "owner", NEW i \in Inputs, slot' = Queued(i),
             i \in Letters => i = pickup.id /\ i # slot.id,
             i \notin Letters => pickup.id = None
      PROVE  FlowSound'
  <2>1. owner.at \notin {"dispatching", "pushed"} BY <1>4 DEF DaemonSound
  <2>2. OwnerSound' BY <1>1, <2>1 DEF FlowSound, OwnerSound
  <2>3. slot'.id = i /\ slot'.phase = "queued" BY <1>4
  <2>4. ASSUME NEW l \in Letters, InConversation(l) \/ InQueue(l) PROVE HandedOver(l)'
    <3>1. HandedOver(l) BY <2>4 DEF FlowSound
    <3>2. l # i BY <1>4, <3>1 DEF HandedOver
    <3> QED BY <1>1, <1>4, <2>1, <2>3, <3>1, <3>2 DEF HandedOver, DaemonSound
  <2> QED BY <1>2, <2>2, <2>4 DEF FlowSound
<1>5. delivered \in Nat BY DEF FileType
<1>6. CASE Send \/ NoteAccepted \/ Choose \/ DaemonDies
  BY <1>3, <1>5, <1>6 DEF Send, NoteAccepted, Choose, DaemonDies, fileVars
<1>7. CASE SaveAccepted
  <2>1. pickup'.id = pickup.id \/ pickup'.id = None BY <1>7 DEF SaveAccepted, FileType
  <2> QED BY <1>3, <1>5, <1>7, <2>1 DEF SaveAccepted
<1>8. CASE armPickup
  <2>1. picked = delivered + 1 /\ pickup'.id = picked /\ slot' = slot /\ delivered' = picked
    BY <1>8 DEF armPickup, DaemonSound
  <2> QED BY <1>3, <1>5, <2>1
<1>9. CASE Repair
  <2>1. pickup.id \in Letters /\ lock # "owner" BY <1>9 DEF Repair, DaemonSound, FileType
  <2> QED BY <1>4, <1>9, <2>1 DEF Repair, Inputs
<1>10. CASE Fill
  <2>1. pickup.id = picked /\ picked # slot.id /\ picked \in Letters /\ lock # "owner"
    BY <1>10 DEF Fill, DaemonSound, FileType
  <2> QED BY <1>4, <1>10, <2>1 DEF Fill, Inputs
<1>11. ASSUME NEW k \in Commands, runControlCommand(k) PROVE FlowSound'
  <2>1. CASE slot.id = k BY <1>3, <1>5, <1>11, <2>1 DEF runControlCommand
  <2>2. CASE slot.id # k BY <1>4, <1>11, <2>2 DEF runControlCommand, Inputs
  <2> QED BY <2>1, <2>2
<1> QED BY <1>6, <1>7, <1>8, <1>9, <1>10, <1>11 DEF Daemon

\* The owner keeps them: a dispatch that may have arrived is not queued again, and what it
\* hands over comes after everything the runtime has.
LEMMA OwnerFlows ==
  ASSUME NativeInv,
         OwnerOpens \/ Publish \/ Reconcile \/ TurnPickup \/ Push \/ Confirm \/ RecordTerminal
  PROVE  FlowSound'
<1> USE DispatchAssumption, Written DEF NativeInv, TypeOK
<1>1. UNCHANGED <<agent, said, delivered, pickup>>
  BY DEF OwnerOpens, Publish, Reconcile, TurnPickup, Push, Confirm, RecordTerminal, fileVars,
         runtimeVars
<1>2. ASSUME sent' = sent
      PROVE  /\ Ordered'
             /\ \A l : InConversation(l)' <=> InConversation(l)
             /\ \A l : InQueue(l)' <=> InQueue(l)
  BY <1>1, <1>2 DEF FlowSound, Ordered, InConversation, InQueue
\* The slot keeps its input and is not queued, and the owner is not about to hand it over.
<1>3. ASSUME sent' = sent, slot'.id = slot.id, slot'.phase = "queued" => slot.phase = "queued",
             OwnerSound', owner'.at # "dispatching" \/ owner'.at = owner.at,
             agent = "claude" /\ owner'.dispatched # owner.dispatched =>
               owner'.dispatched = slot.id \/ sent = <<>>
      PROVE  FlowSound'
  <2>1. ASSUME NEW l \in Letters, InConversation(l) \/ InQueue(l) PROVE HandedOver(l)'
    <3>1. HandedOver(l) BY <2>1 DEF FlowSound
    <3>2. sent = <<>> => ~InQueue(l) BY DEF InQueue
    <3> QED BY <1>1, <1>2, <1>3, <3>1, <3>2 DEF HandedOver
  <2> QED BY <1>2, <1>3, <2>1 DEF FlowSound
<1>4. CASE OwnerOpens
  <2>1. owner'.at = "idle" /\ sent' = sent /\ slot' = slot
    BY <1>4 DEF OwnerOpens, fileVars
  <2>2. agent = "claude" => sent = <<>>
    BY <1>4 DEF OwnerOpens, Connected, FlowSound, OwnerSound
  <2>3. OwnerSound' BY <2>1 DEF OwnerSound
  <2> QED BY <1>3, <2>1, <2>2, <2>3
<1>5. CASE Publish
  <2>1. UNCHANGED <<sent, slot, owner>> BY <1>5 DEF Publish, runtimeVars
  <2>2. OwnerSound' BY <1>1, <2>1 DEF FlowSound, OwnerSound
  <2> QED BY <1>3, <2>1, <2>2
<1>6. CASE RecordTerminal
  <2>1. /\ sent' = sent /\ slot'.id = slot.id /\ slot'.phase = slot.phase
        /\ owner.at = "idle" /\ owner'.at = "idle" /\ owner'.dispatched = owner.dispatched
    BY <1>6 DEF RecordTerminal, Advance, runtimeVars, FileType, ProcessType
  <2>2. OwnerSound' BY <1>1, <2>1 DEF FlowSound, OwnerSound
  <2> QED BY <1>3, <2>1, <2>2
<1>7. CASE Confirm
  <2>1. /\ sent' = sent /\ slot'.id = slot.id /\ slot'.phase = "accepted"
        /\ owner'.at = "idle" /\ owner'.dispatched = owner.dispatched
    BY <1>7 DEF Confirm, InPhase, runtimeVars, FileType, ProcessType
  <2>2. OwnerSound' BY <1>1, <2>1 DEF FlowSound, OwnerSound
  <2> QED BY <1>3, <2>1, <2>2
<1>8. CASE Reconcile
  <2>1. /\ sent' = sent /\ slot'.id = slot.id /\ owner'.at = "idle"
        /\ owner'.dispatched \in {owner.dispatched, slot.id}
    BY <1>8
    DEF Reconcile, SettledDispatch, InPhase, runtimeVars, FileType, ProcessType
  <2>2. OwnerSound' BY <2>1 DEF OwnerSound
  <2>3. CASE slot'.phase # "queued"
    BY <1>3, <2>1, <2>2, <2>3
  <2>4. CASE slot'.phase = "queued"
    <3>1. agent = "claude" /\ ~InConversation(slot.id) /\ slot.id # owner.dispatched
      BY <1>8, <2>4 DEF Reconcile, SettledDispatch, InPhase, Known, FileType
    <3>2. ASSUME NEW l \in Letters, InConversation(l) \/ InQueue(l)
          PROVE  l # slot.id
      <4>1. HandedOver(l) BY <3>2 DEF FlowSound
      <4> QED BY <3>1, <3>2, <4>1 DEF HandedOver
    <3>3. ASSUME NEW l \in Letters, InConversation(l) \/ InQueue(l) PROVE HandedOver(l)'
      <4>1. HandedOver(l) BY <3>3 DEF FlowSound
      <4>2. l # slot.id BY <3>2, <3>3
      <4> QED BY <1>1, <2>1, <4>1, <4>2 DEF HandedOver
    <3> QED BY <1>2, <2>1, <2>2, <3>3 DEF FlowSound
  <2> QED BY <2>3, <2>4
<1>9. CASE TurnPickup
  <2>1. /\ sent' = sent /\ slot'.id = slot.id /\ slot'.phase = "dispatching"
        /\ owner'.at = "dispatching" /\ owner'.dispatched = slot.id
    BY <1>9 DEF TurnPickup, InPhase, runtimeVars, FileType, ProcessType
  <2>2. OwnerSound' BY <2>1 DEF OwnerSound
  <2>3. agent # "custom" => slot.phase = "queued" BY <1>9 DEF TurnPickup, ToDispatch
  <2>4. ASSUME NEW l \in Letters, InConversation(l) \/ InQueue(l) PROVE HandedOver(l)'
    <3>1. HandedOver(l) BY <2>4 DEF FlowSound
    <3> QED BY <1>1, <2>1, <2>3, <3>1 DEF HandedOver
  <2> QED BY <1>2, <2>1, <2>2, <2>4 DEF FlowSound
<1>10. CASE Push
  <2>1. /\ slot' = slot /\ owner'.at = "pushed" /\ owner'.dispatched = owner.dispatched
        /\ slot.phase = "dispatching" /\ owner.at = "dispatching"
    BY <1>10 DEF Push, FlowSound, OwnerSound, ProcessType, fileVars
  <2>2. OwnerSound' BY <2>1 DEF FlowSound, OwnerSound
  <2>3. CASE sent' = sent BY <1>3, <2>1, <2>2, <2>3
  <2>4. CASE sent' = Append(sent, slot.id) /\ ~(agent = "custom" /\ Known(slot.id))
    <3>1. slot.id \in Inputs BY <2>1 DEF SlotSound, NoSlot, FileType
    <3>2. /\ Len(sent) \in Nat /\ Len(sent') = Len(sent) + 1
          /\ \A n \in 1..Len(sent) : sent'[n] = sent[n]
          /\ sent'[Len(sent) + 1] = slot.id
      BY <2>4, <3>1, Appended DEF RuntimeType
    <3>3. ASSUME slot.id \in Letters, NEW l \in Letters, InConversation(l) \/ InQueue(l)
          PROVE  l < slot.id
      <4>1. HandedOver(l) BY <3>3 DEF FlowSound
      <4>2. slot.id = delivered BY <2>1, <3>3 DEF SlotSound, DaemonSound
      <4>3. l # slot.id
        <5>1. CASE agent = "custom" BY <2>4, <3>3, <5>1 DEF Known, InConversation, InQueue
        <5>2. CASE agent # "custom" BY <2>1, <4>1, <5>2 DEF HandedOver
        <5> QED BY <5>1, <5>2
      <4> QED BY <3>3, <4>1, <4>2, <4>3 DEF HandedOver, Letters
    <3>4. \A n \in 1..Len(said) : slot.id \in Letters /\ said[n] \in Letters => said[n] < slot.id
      BY <3>3 DEF InConversation
    <3>5. \A n \in 1..Len(sent) : slot.id \in Letters /\ sent[n] \in Letters => sent[n] < slot.id
      BY <3>3 DEF InQueue
    <3>6. Ordered'
      <4>1. \A n \in 1..Len(sent)' : n \in 1..Len(sent) \/ n = Len(sent) + 1
        BY <3>2
      <4>2. \A m, n \in 1..Len(sent)' : m < n /\ sent'[m] \in Letters /\ sent'[n] \in Letters
              => sent'[m] < sent'[n]
        <5> SUFFICES ASSUME NEW m \in 1..Len(sent)', NEW n \in 1..Len(sent)', m < n,
                            sent'[m] \in Letters, sent'[n] \in Letters
                     PROVE  sent'[m] < sent'[n]
          OBVIOUS
        <5>1. m \in 1..Len(sent) BY <3>2
        <5>2. CASE n \in 1..Len(sent) BY <3>2, <5>1, <5>2 DEF FlowSound, Ordered
        <5>3. CASE n = Len(sent) + 1 BY <3>2, <3>5, <5>1, <5>3
        <5> QED BY <4>1, <5>2, <5>3
      <4>3. \A m \in 1..Len(said), n \in 1..Len(sent)' :
              said[m] \in Letters /\ sent'[n] \in Letters => said[m] < sent'[n]
        <5> SUFFICES ASSUME NEW m \in 1..Len(said), NEW n \in 1..Len(sent)',
                            said[m] \in Letters, sent'[n] \in Letters
                     PROVE  said[m] < sent'[n]
          OBVIOUS
        <5>1. CASE n \in 1..Len(sent) BY <3>2, <5>1 DEF FlowSound, Ordered
        <5>2. CASE n = Len(sent) + 1 BY <3>2, <3>4, <5>2
        <5> QED BY <4>1, <5>1, <5>2
      <4> QED BY <1>1, <4>2, <4>3 DEF FlowSound, Ordered
    <3>7. ASSUME NEW l \in Letters, InConversation(l)' \/ InQueue(l)' PROVE HandedOver(l)'
      <4>1. InConversation(l) \/ InQueue(l) \/ l = slot.id
        BY <1>1, <3>2, <3>7 DEF InConversation, InQueue
      <4>2. CASE InConversation(l) \/ InQueue(l)
        <5>1. HandedOver(l) BY <4>2 DEF FlowSound
        <5>2. l # slot.id BY <3>3, <4>2 DEF Letters
        <5> QED BY <1>1, <2>1, <5>1, <5>2 DEF HandedOver
      <4>3. CASE l = slot.id
        <5>1. l <= delivered BY <4>3 DEF SlotSound, CursorsKnowSlot
        <5>2. owner.dispatched = slot.id BY <2>1 DEF FlowSound, OwnerSound
        <5> QED BY <1>1, <2>1, <4>3, <5>1, <5>2 DEF HandedOver
      <4> QED BY <4>1, <4>2, <4>3
    <3> QED BY <2>2, <3>6, <3>7 DEF FlowSound
  <2> QED BY <1>10, <2>3, <2>4 DEF Push
<1> QED BY <1>4, <1>5, <1>6, <1>7, <1>8, <1>9, <1>10

\* The first input of the queue moves to the end of the conversation, and the rest stays
\* behind it.
LEMMA MovesOver ==
  ASSUME RuntimeType, Ordered, sent # <<>>, said' = Append(said, Head(sent)),
         sent' = Tail(sent) \/ sent' = <<>>
  PROVE  /\ Ordered'
         /\ \A l : InConversation(l)' <=> InConversation(l) \/ l = Head(sent)
         /\ \A l : InQueue(l)' => InQueue(l)
         /\ InQueue(Head(sent))
<1>1. /\ Len(sent) \in Nat /\ Len(sent) >= 1 /\ Head(sent) = sent[1] /\ Head(sent) \in Inputs
  BY HeadAndTail DEF RuntimeType
<1>2. /\ Len(said) \in Nat /\ Len(said') = Len(said) + 1
      /\ \A n \in 1..Len(said) : said'[n] = said[n]
      /\ said'[Len(said) + 1] = sent[1]
  BY <1>1, Appended DEF RuntimeType
<1>3. \A n \in 1..Len(sent') : n + 1 \in 1..Len(sent) /\ sent'[n] = sent[n + 1]
  <2>1. CASE sent' = Tail(sent) BY <2>1, HeadAndTail DEF RuntimeType
  <2>2. CASE sent' = <<>> BY <2>2
  <2> QED BY <2>1, <2>2
<1>4. \A n \in 1..Len(said') : n \in 1..Len(said) \/ n = Len(said) + 1 BY <1>2
<1>5. Len(sent') \in Nat
  <2>1. CASE sent' = Tail(sent) BY <1>1, <2>1, HeadAndTail DEF RuntimeType
  <2>2. CASE sent' = <<>> BY <2>2
  <2> QED BY <2>1, <2>2
<1>6. Ordered'
  <2>1. \A m, n \in 1..Len(said') :
          m < n /\ said'[m] \in Letters /\ said'[n] \in Letters => said'[m] < said'[n]
    <3> SUFFICES ASSUME NEW m \in 1..Len(said'), NEW n \in 1..Len(said'), m < n,
                        said'[m] \in Letters, said'[n] \in Letters
                 PROVE  said'[m] < said'[n]
      OBVIOUS
    <3>1. m \in 1..Len(said) BY <1>2
    <3>2. CASE n \in 1..Len(said) BY <1>2, <3>1, <3>2 DEF Ordered
    <3>3. CASE n = Len(said) + 1 BY <1>1, <1>2, <3>1, <3>3 DEF Ordered
    <3> QED BY <1>4, <3>2, <3>3
  <2>2. \A m, n \in 1..Len(sent') :
          m < n /\ sent'[m] \in Letters /\ sent'[n] \in Letters => sent'[m] < sent'[n]
    <3> SUFFICES ASSUME NEW m \in 1..Len(sent'), NEW n \in 1..Len(sent'), m < n,
                        sent'[m] \in Letters, sent'[n] \in Letters
                 PROVE  sent'[m] < sent'[n]
      OBVIOUS
    <3>1. m + 1 < n + 1 BY <1>5
    <3> QED BY <1>3, <3>1 DEF Ordered
  <2>3. \A m \in 1..Len(said'), n \in 1..Len(sent') :
          said'[m] \in Letters /\ sent'[n] \in Letters => said'[m] < sent'[n]
    <3> SUFFICES ASSUME NEW m \in 1..Len(said'), NEW n \in 1..Len(sent'),
                        said'[m] \in Letters, sent'[n] \in Letters
                 PROVE  said'[m] < sent'[n]
      OBVIOUS
    <3>1. CASE m \in 1..Len(said) BY <1>2, <1>3, <3>1 DEF Ordered
    <3>2. CASE m = Len(said) + 1
      <4>1. 1 \in 1..Len(sent) /\ 1 < n + 1 BY <1>1, <1>5
      <4> QED BY <1>2, <1>3, <3>2, <4>1 DEF Ordered
    <3> QED BY <1>4, <3>1, <3>2
  <2> QED BY <2>1, <2>2, <2>3 DEF Ordered
<1>7. \A l : InConversation(l)' <=> InConversation(l) \/ l = Head(sent)
  <2>1. Len(said) + 1 \in 1..Len(said') /\ 1..Len(said) \subseteq 1..Len(said') BY <1>2
  <2> QED BY <1>1, <1>2, <1>4, <2>1 DEF InConversation
<1>8. \A l : InQueue(l)' => InQueue(l) BY <1>3 DEF InQueue
<1>9. InQueue(Head(sent)) BY <1>1 DEF InQueue
<1> QED BY <1>6, <1>7, <1>8, <1>9

\* The runtime, its results and its failures keep them.
LEMMA RuntimeFlows ==
  ASSUME NativeInv, Disconnect \/ ReadResult \/ applyInterrupt \/ OwnerDies \/ Runtime
  PROVE  FlowSound'
<1> USE DEF NativeInv, TypeOK
<1>1. UNCHANGED <<agent, delivered, pickup, slot>>
  BY DEF Disconnect, ReadResult, applyInterrupt, OwnerDies, Runtime, BeginTurn, EndTurn, fileVars
\* The runtime has nothing it had not before.
<1>2. ASSUME Ordered', OwnerSound',
             \A l : InConversation(l)' => InConversation(l) \/ InQueue(l),
             \A l : InQueue(l)' => InQueue(l),
             owner'.at # "dispatching" \/ owner'.at = owner.at,
             agent = "claude" => owner'.dispatched = owner.dispatched \/ sent' = <<>>
      PROVE  FlowSound'
  <2>1. ASSUME NEW l \in Letters, InConversation(l)' \/ InQueue(l)' PROVE HandedOver(l)'
    <3>1. HandedOver(l) BY <1>2, <2>1 DEF FlowSound
    <3>2. sent' = <<>> => ~InQueue(l)' BY DEF InQueue
    <3> QED BY <1>1, <1>2, <3>1, <3>2 DEF HandedOver
  <2> QED BY <1>2, <2>1 DEF FlowSound
<1>3. CASE Disconnect
  <2>1. owner'.at = "reconnecting" /\ agent \in {"codex", "opencode"} /\ said' = said
    BY <1>3 DEF Disconnect, Off
  <2>2. OwnerSound' BY <1>1, <2>1 DEF OwnerSound
  <2>3. sent' = sent \/ sent' = <<>> BY <1>3 DEF Disconnect
  <2>4. \A l : /\ InConversation(l)' => InConversation(l)
               /\ InQueue(l)' => InQueue(l)
    BY <2>1, <2>3 DEF InConversation, InQueue
  <2>5. Ordered' BY <2>1, <2>3 DEF FlowSound, Ordered
  <2> QED BY <1>2, <2>1, <2>2, <2>4, <2>5
<1>4. CASE ReadResult \/ applyInterrupt \/ EndTurn
  <2>1. /\ UNCHANGED <<said, sent>>
        /\ owner'.at = owner.at /\ owner'.dispatched = owner.dispatched
        /\ owner.at = "off" => owner' = owner
    BY <1>4 DEF ReadResult, applyInterrupt, EndTurn, Connected, ProcessType
  <2>2. OwnerSound' /\ Ordered' BY <1>1, <2>1 DEF FlowSound, OwnerSound, Ordered
  <2>3. \A l : /\ InConversation(l)' => InConversation(l)
               /\ InQueue(l)' => InQueue(l)
    BY <2>1 DEF InConversation, InQueue
  <2> QED BY <1>2, <2>1, <2>2, <2>3
<1>5. CASE OwnerDies
  <2>1. /\ owner' = Off /\ owner'.at = "off"
        /\ sent' = (IF agent = "custom" THEN sent ELSE <<>>)
    BY <1>5 DEF OwnerDies, Off
  <2>2. OwnerSound' BY <1>1, <2>1 DEF OwnerSound, Off
  <2>3. agent = "claude" => sent' = <<>> BY <2>1
  <2>4. CASE said' = said
    <3>1. sent' = sent \/ sent' = <<>> BY <2>1
    <3>2. \A l : /\ InConversation(l)' => InConversation(l)
                 /\ InQueue(l)' => InQueue(l)
      BY <2>4, <3>1 DEF InConversation, InQueue
    <3>3. Ordered' BY <2>4, <3>1 DEF FlowSound, Ordered
    <3> QED BY <1>2, <2>1, <2>2, <2>3, <3>2, <3>3
  <2>5. CASE sent # <<>> /\ sent' = <<>> /\ said' = Append(said, Head(sent))
    <3>1. /\ Ordered'
          /\ \A l : InConversation(l)' <=> InConversation(l) \/ l = Head(sent)
          /\ \A l : InQueue(l)' => InQueue(l)
          /\ InQueue(Head(sent))
      BY <2>5, MovesOver DEF FlowSound
    <3> QED BY <1>2, <2>1, <2>2, <2>3, <3>1
  <2> QED BY <1>5, <2>1, <2>4, <2>5 DEF OwnerDies
<1>6. CASE BeginTurn
  <2>1. /\ owner'.at = owner.at /\ owner'.dispatched = owner.dispatched
        /\ owner.at # "off"
    BY <1>6 DEF BeginTurn, ProcessType
  <2>2. OwnerSound' BY <1>1, <2>1 DEF FlowSound, OwnerSound
  <2>3. /\ Ordered'
        /\ \A l : InConversation(l)' <=> InConversation(l) \/ l = Head(sent)
        /\ \A l : InQueue(l)' => InQueue(l)
        /\ InQueue(Head(sent))
    BY <1>6, MovesOver DEF BeginTurn, FlowSound
  <2> QED BY <1>2, <2>1, <2>2, <2>3
<1> QED BY <1>3, <1>4, <1>5, <1>6 DEF Runtime

-----------------------------------------------------------------------------
(* What is over.                                                           *)

\* The daemon and a command keep what is called over true: it calls a letter over that the
\* status or the slot of its owner calls over.
LEMMA DaemonTells ==
  ASSUME NativeInv,
         \/ Send \/ Daemon \/ DaemonDies
         \/ \E k \in Commands : runControlCommand(k)
  PROVE  TruthSound' /\ SettledIsOver'
<1> USE DispatchAssumption, Written DEF NativeInv, TypeOK
<1>1. UNCHANGED <<agent, said, sent, running, results, ended, interrupts, owner, snap>>
  BY DEF Send, Daemon, Repair, NoteAccepted, SaveAccepted, Choose, armPickup, Fill, DaemonDies,
         runControlCommand, fileVars, runtimeVars, faultVars
<1>2. slot'.terminal => slot.terminal /\ slot'.id = slot.id
  BY DEF Send, Daemon, Repair, NoteAccepted, SaveAccepted, Choose, armPickup, Fill, DaemonDies,
         runControlCommand, fileVars
<1>5. slot' = slot \/ owner.at # "dispatching"
  BY DEF Send, Daemon, Repair, NoteAccepted, SaveAccepted, Choose, armPickup, Fill, DaemonDies,
         runControlCommand, fileVars, DaemonSound
<1>3. TruthSound'
  BY <1>1, <1>2, <1>5
  DEF TruthSound, RuntimeSound, TurnTrue, OneOnItsWay, InConversation, OnItsWay, NothingOnItsWay
<1>4. SettledIsOver'
  <2>1. CASE NoteAccepted
    <3>1. pickup.id \in Letters /\ slot.id = pickup.id /\ snap.live BY <2>1 DEF NoteAccepted, FileType
    <3>2. ASSUME NEW l \in Letters, interrupts = 0, op'[l] = "ended" PROVE l \in ended
      <4>1. CASE op[l] = "ended" BY <3>2, <4>1 DEF SettledIsOver
      <4>2. CASE op[l] # "ended"
        <5>1. l = slot.id /\ Terminal
          BY <2>1, <3>1, <3>2, <4>2, Advances DEF NoteAccepted
        <5>2. CASE agent = "custom" BY <5>1, <5>2 DEF Terminal, TruthSound, RuntimeSound
        <5>3. CASE agent # "custom"
          <6>1. snap.turn.id = l /\ snap.turn.status # "inProgress" /\ snap.turn \in TurnsOf
            BY <5>1, <5>3 DEF Terminal, FileType
          <6>2. snap.turn.status = "ended" BY <6>1 DEF TruthSound, TurnTrue, TurnsOf
          <6> QED BY <3>2, <5>3, <6>1, <6>2 DEF TruthSound, TurnTrue
        <5> QED BY <5>2, <5>3
      <4> QED BY <4>1, <4>2
    <3> QED BY <1>1, <3>2 DEF SettledIsOver
  <2>2. CASE Choose
    <3>1. delivered + 1 \in Letters BY <2>2 DEF Choose, Letters, FileType
    <3>2. \A l \in Letters : op'[l] = "ended" => op[l] = "ended"
      BY <2>2, <3>1, Advances DEF Choose
    <3> QED BY <1>1, <3>2 DEF SettledIsOver
  <2>3. CASE op' = op BY <1>1, <2>3 DEF SettledIsOver
  <2> QED
    BY <2>1, <2>2, <2>3
    DEF Send, Daemon, Repair, SaveAccepted, armPickup, Fill, DaemonDies, runControlCommand, fileVars
<1> QED BY <1>3, <1>4

\* The owner keeps it: one that opens recalls the last turn as its provider has it, and one
\* turn of Claude starts when nothing is on its way.
LEMMA OwnerTells ==
  ASSUME NativeInv,
         OwnerOpens \/ Publish \/ Reconcile \/ TurnPickup \/ Push \/ Confirm \/ RecordTerminal
  PROVE  TruthSound' /\ SettledIsOver'
<1> USE DispatchAssumption, Written DEF NativeInv, TypeOK
<1>1. UNCHANGED <<agent, said, running, ended, interrupts>>
  BY DEF OwnerOpens, Publish, Reconcile, TurnPickup, Push, Confirm, RecordTerminal,
         runtimeVars, faultVars
<1>2. \A i : InConversation(i)' <=> InConversation(i) BY <1>1 DEF InConversation
<1>3. ASSUME results' = results \/ results' = <<>>, slot'.terminal => slot'.id \in ended
      PROVE  RuntimeSound'
  <2>1. \A n \in 1..Len(results') : results'[n] \in ended
    <3>1. CASE results' = results BY <3>1 DEF TruthSound, RuntimeSound
    <3>2. CASE results' = <<>> BY <3>2
    <3> QED BY <1>3, <3>1, <3>2
  <2> QED BY <1>1, <1>2, <1>3, <2>1 DEF TruthSound, RuntimeSound
<1>4. ASSUME op' = op PROVE SettledIsOver' BY <1>1, <1>4 DEF SettledIsOver
<1>5. ASSUME UNCHANGED <<sent, results>>, owner'.turn = owner.turn,
             owner'.at # "dispatching", owner.at # "dispatching"
      PROVE  OneOnItsWay' /\ TurnTrue(owner.turn)'
  BY <1>1, <1>5 DEF TruthSound, TurnTrue, OneOnItsWay, OnItsWay, NothingOnItsWay
<1>6. ASSUME snap' = snap PROVE TurnTrue(snap.turn)' BY <1>1, <1>6 DEF TruthSound, TurnTrue
<1>7. CASE OwnerOpens
  <2>1. /\ owner'.turn = Recalled /\ owner'.at = "idle" /\ results' = <<>>
        /\ UNCHANGED <<sent, slot, snap, op>>
    BY <1>7 DEF OwnerOpens, fileVars
  <2>2. TurnTrue(owner.turn)'
    <3>1. CASE agent = "claude" \/ said = <<>>
      BY <2>1, <3>1 DEF Recalled, NoTurn, TurnTrue
    <3>2. CASE agent # "claude" /\ said # <<>>
      <4>1. owner'.turn = [id |-> Last, status |-> IF running = Last THEN "inProgress" ELSE "ended"]
        BY <2>1, <3>2 DEF Recalled
      <4>2. Len(said) \in 1..Len(said) BY <3>2, HeadAndTail DEF RuntimeType
      <4>3. agent # "custom" => Last \in ended \cup {running}
        BY <4>2 DEF Last, TruthSound, RuntimeSound
      <4> QED BY <1>1, <4>1, <4>3 DEF TurnTrue
    <3> QED BY <3>1, <3>2
  <2>3. OneOnItsWay'
    <3> SUFFICES ASSUME agent = "claude", interrupts = 0 PROVE OneOnItsWay' BY <1>1 DEF OneOnItsWay
    <3>1. owner'.turn.status = "none" BY <2>1 DEF Recalled, NoTurn
    <3>2. owner.at = "off" BY <1>7 DEF OwnerOpens, Connected, FlowSound, OwnerSound
    <3>3. sent = <<>> BY <3>2 DEF FlowSound, OwnerSound
    <3>4. running = None
      BY <3>2 DEF FlowSound, OwnerSound, Off, NoTurn, TruthSound, OneOnItsWay, NothingOnItsWay
    <3> QED BY <1>1, <2>1, <3>1, <3>3, <3>4 DEF OneOnItsWay, NothingOnItsWay
  <2>4. RuntimeSound' BY <1>3, <2>1 DEF TruthSound, RuntimeSound
  <2> QED BY <1>4, <1>6, <2>1, <2>2, <2>3, <2>4 DEF TruthSound
<1>8. CASE Publish
  <2>1. UNCHANGED <<slot, owner, op, sent, results>> /\ snap'.turn = owner.turn
    BY <1>8 DEF Publish, runtimeVars
  <2>2. TurnTrue(snap.turn)' /\ TurnTrue(owner.turn)' /\ OneOnItsWay'
    BY <1>1, <2>1 DEF TruthSound, TurnTrue, OneOnItsWay, OnItsWay, NothingOnItsWay
  <2>3. RuntimeSound' BY <1>3, <2>1 DEF TruthSound, RuntimeSound
  <2> QED BY <1>4, <2>1, <2>2, <2>3 DEF TruthSound
<1>9. CASE Reconcile \/ Confirm
  <2>1. /\ UNCHANGED <<op, sent, results, snap>> /\ owner'.turn = owner.turn
        /\ owner.at # "dispatching" /\ owner'.at # "dispatching"
    BY <1>9 DEF Reconcile, Confirm, runtimeVars, ProcessType
  <2>2. slot'.id = slot.id /\ slot'.terminal = slot.terminal
    BY <1>9 DEF Reconcile, Confirm, SettledDispatch, InPhase, FileType
  <2>3. RuntimeSound' BY <1>3, <2>1, <2>2 DEF TruthSound, RuntimeSound
  <2> QED BY <1>4, <1>5, <1>6, <2>1, <2>3 DEF TruthSound
<1>10. CASE TurnPickup
  <2>1. /\ UNCHANGED <<op, sent, results, snap>> /\ owner'.at = "dispatching"
        /\ slot'.id = slot.id /\ slot'.terminal = slot.terminal
        /\ owner.turn.status # "inProgress"
        /\ owner'.turn = owner.turn \/ owner'.turn = [id |-> slot.id, status |-> "inProgress"]
    BY <1>10 DEF TurnPickup, InPhase, runtimeVars, ProcessType, FileType
  <2>2. TurnTrue(owner.turn)' BY <1>1, <2>1 DEF TruthSound, TurnTrue
  <2>3. OneOnItsWay'
    BY <1>1, <1>10, <2>1 DEF TurnPickup, TruthSound, OneOnItsWay, NothingOnItsWay, ProcessType
  <2>4. RuntimeSound' BY <1>3, <2>1 DEF TruthSound, RuntimeSound
  <2> QED BY <1>4, <1>6, <2>1, <2>2, <2>3, <2>4 DEF TruthSound
<1>11. CASE Push
  <2>1. /\ UNCHANGED <<op, slot, results, snap>> /\ owner'.turn = owner.turn
        /\ owner'.at = "pushed" /\ owner.at = "dispatching"
        /\ agent # "custom" => sent' = Append(sent, slot.id)
    BY <1>11 DEF Push, fileVars, ProcessType
  <2>2. TurnTrue(owner.turn)' BY <1>1, <2>1 DEF TruthSound, TurnTrue
  <2>3. OneOnItsWay'
    <3> SUFFICES ASSUME agent = "claude", interrupts = 0 PROVE OneOnItsWay' BY <1>1 DEF OneOnItsWay
    <3>1. NothingOnItsWay BY <2>1 DEF TruthSound, OneOnItsWay
    <3>2. owner.turn = [id |-> slot.id, status |-> "inProgress"]
      BY <2>1 DEF TruthSound, OneOnItsWay
    <3>3. sent' = <<slot.id>> BY <2>1, <3>1 DEF NothingOnItsWay
    <3> QED BY <1>1, <2>1, <3>1, <3>2, <3>3 DEF OneOnItsWay, OnItsWay, NothingOnItsWay
  <2>4. RuntimeSound' BY <1>3, <2>1 DEF TruthSound, RuntimeSound
  <2> QED BY <1>4, <1>6, <2>1, <2>2, <2>3, <2>4 DEF TruthSound
<1>12. CASE RecordTerminal
  <2>1. /\ UNCHANGED <<sent, results, snap>> /\ agent = "custom" /\ slot.id \in ended
        /\ slot'.id = slot.id /\ owner'.turn = [id |-> slot.id, status |-> "ended"]
    BY <1>12 DEF RecordTerminal, Advance, runtimeVars, ProcessType, FileType
  <2>2. TurnTrue(owner.turn)' BY <1>1, <2>1 DEF TurnTrue
  <2>3. OneOnItsWay' BY <1>1, <2>1 DEF OneOnItsWay
  <2>4. RuntimeSound' BY <1>3, <2>1 DEF TruthSound, RuntimeSound
  <2>5. \A l \in Letters : op'[l] = "ended" => op[l] = "ended" \/ l = slot.id
    BY <1>12, Advances DEF RecordTerminal
  <2>6. SettledIsOver' BY <1>1, <2>1, <2>5 DEF SettledIsOver
  <2> QED BY <1>6, <2>1, <2>2, <2>3, <2>4, <2>6 DEF TruthSound
<1> QED BY <1>7, <1>8, <1>9, <1>10, <1>11, <1>12

\* A queue of one, as it is filled and emptied.
LEMMA Single ==
  ASSUME NEW x
  PROVE  /\ Tail(<<x>>) = <<>> /\ Head(<<x>>) = x
         /\ Append(<<>>, x) = <<x>>
OBVIOUS

\* A turn that ends was said, is over, and its result says so.
LEMMA EndsSound ==
  ASSUME RuntimeType, RuntimeSound, running # None, running' = None,
         ended' = ended \cup {running}, results' = Append(results, running),
         UNCHANGED <<agent, said, slot>>
  PROVE  RuntimeSound'
<1>1. \A i : InConversation(i)' <=> InConversation(i) BY DEF InConversation
<1>2. \A n \in 1..Len(results') : results'[n] \in ended'
  <2>1. /\ Len(results) \in Nat /\ Len(results') = Len(results) + 1
        /\ \A n \in 1..Len(results) : results'[n] = results[n]
        /\ results'[Len(results) + 1] = running
    BY Appended DEF RuntimeType
  <2>2. \A n \in 1..Len(results') : n \in 1..Len(results) \/ n = Len(results) + 1 BY <2>1
  <2> QED BY <2>1, <2>2 DEF RuntimeSound
<1> QED BY <1>1, <1>2 DEF RuntimeSound

\* The runtime keeps it: what leaves the queue is said, and what ends is over.
LEMMA RuntimeTells ==
  ASSUME NativeInv, Disconnect \/ ReadResult \/ applyInterrupt \/ OwnerDies \/ Runtime
  PROVE  TruthSound' /\ SettledIsOver'
<1> USE DEF NativeInv, TypeOK
<1>1. UNCHANGED <<agent, op, slot>>
  BY DEF Disconnect, ReadResult, applyInterrupt, OwnerDies, Runtime, BeginTurn, EndTurn, fileVars
<1>2. ASSUME ended \subseteq ended', interrupts' = 0 => interrupts = 0
      PROVE  SettledIsOver'
  BY <1>1, <1>2 DEF SettledIsOver
<1>3. ASSUME ended \subseteq ended', interrupts' = 0 => interrupts = 0, snap' = snap
      PROVE  TurnTrue(snap.turn)'
  BY <1>1, <1>3 DEF TruthSound, TurnTrue
<1>4. NoTurn.status = "none" /\ NoTurn.id = None /\ Off.turn = NoTurn /\ Unavailable.turn = NoTurn
  BY DEF NoTurn, Off, Unavailable
<1>5. interrupts \in Nat BY DispatchAssumption DEF ProcessType
<1>6. CASE Disconnect
  <2>1. /\ UNCHANGED <<said, running, ended, results, interrupts>> /\ agent # "claude"
        /\ owner'.turn = NoTurn /\ snap'.turn = NoTurn
    BY <1>4, <1>6 DEF Disconnect, Off
  <2>2. RuntimeSound' BY <1>1, <2>1 DEF TruthSound, RuntimeSound, InConversation
  <2>3. TurnTrue(owner.turn)' /\ TurnTrue(snap.turn)' BY <1>4, <2>1 DEF TurnTrue
  <2>4. OneOnItsWay' BY <1>1, <2>1 DEF OneOnItsWay
  <2> QED BY <1>2, <2>1, <2>2, <2>3, <2>4 DEF TruthSound
<1>7. CASE ReadResult
  <2>1. /\ UNCHANGED <<said, sent, running, ended, interrupts, snap>> /\ results # <<>>
        /\ results' = Tail(results)
    BY <1>7 DEF ReadResult, fileVars, faultVars
  <2>2. RuntimeSound'
    <3>1. \A n \in 1..Len(results') : n + 1 \in 1..Len(results) /\ results'[n] = results[n + 1]
      BY <2>1, HeadAndTail DEF RuntimeType
    <3>2. \A n \in 1..Len(results') : results'[n] \in ended
      BY <3>1 DEF TruthSound, RuntimeSound
    <3> QED BY <1>1, <2>1, <3>2 DEF TruthSound, RuntimeSound, InConversation
  <2>3. Head(results) \in ended
    <3>1. Head(results) = results[1] /\ 1 \in 1..Len(results)
      BY <2>1, HeadAndTail DEF RuntimeType
    <3> QED BY <3>1 DEF TruthSound, RuntimeSound
  <2>4. CASE owner' = owner
    <3>1. TurnTrue(owner.turn)' BY <1>1, <2>1, <2>4 DEF TruthSound, TurnTrue
    <3>2. OneOnItsWay'
      <4> SUFFICES ASSUME agent = "claude", interrupts = 0 PROVE FALSE
        BY <1>1, <2>1 DEF OneOnItsWay
      <4>1. owner.turn.status = "inProgress"
        BY <2>1 DEF TruthSound, OneOnItsWay, NothingOnItsWay
      <4>2. owner'.turn.status = "ended" BY <1>7, <4>1 DEF ReadResult, IsMine, ProcessType, TurnsOf
      <4> QED BY <2>4, <4>1, <4>2
    <3> QED BY <1>2, <1>3, <2>1, <2>2, <3>1, <3>2 DEF TruthSound
  <2>5. CASE /\ IsMine(Head(results)) /\ owner.turn.status = "inProgress"
             /\ owner' = [owner EXCEPT !.turn.status = "ended"]
    <3>1. /\ owner'.turn.status = "ended" /\ owner'.turn.id = owner.turn.id
          /\ owner'.at = owner.at
      BY <2>5 DEF ProcessType, TurnsOf
    <3>2. ASSUME agent = "claude", interrupts = 0
          PROVE  /\ owner.at # "dispatching" /\ results = <<owner.turn.id>>
                 /\ sent = <<>> /\ running = None
      BY <2>1, <2>5, <3>2 DEF TruthSound, OneOnItsWay, OnItsWay, NothingOnItsWay
    <3>3. TurnTrue(owner.turn)'
      <4>1. CASE agent = "claude" /\ interrupts = 0
        <5>1. Head(results) = owner.turn.id BY <3>2, <4>1
        <5> QED BY <1>1, <2>1, <2>3, <3>1, <5>1 DEF TurnTrue
      <4>2. CASE agent # "claude"
        <5>1. Head(results) = owner.turn.id BY <2>5, <4>2 DEF IsMine
        <5> QED BY <1>1, <2>1, <2>3, <3>1, <5>1 DEF TurnTrue
      <4>3. CASE interrupts # 0 BY <2>1, <3>1, <4>3 DEF TurnTrue
      <4> QED BY <4>1, <4>2, <4>3
    <3>4. OneOnItsWay'
      <4> SUFFICES ASSUME agent = "claude", interrupts = 0 PROVE OneOnItsWay'
        BY <1>1, <2>1 DEF OneOnItsWay
      <4>1. results' = <<>> BY <2>1, <3>2, Single
      <4> QED BY <2>1, <3>1, <3>2, <4>1 DEF OneOnItsWay, NothingOnItsWay
    <3> QED BY <1>2, <1>3, <2>1, <2>2, <3>3, <3>4 DEF TruthSound
  <2> QED BY <1>7, <2>4, <2>5 DEF ReadResult
\* Somebody stops a turn: from then on nothing is claimed of what is over.
<1>8. CASE applyInterrupt
  <2>1. UNCHANGED <<said, sent, snap>> /\ interrupts' # 0 /\ interrupts' # interrupts
    BY <1>5, <1>8 DEF applyInterrupt, fileVars
  <2>2. RuntimeSound'
    <3>1. CASE UNCHANGED <<running, ended, results>>
      BY <1>1, <2>1, <3>1 DEF TruthSound, RuntimeSound, InConversation
    <3>2. CASE /\ running # None /\ running' = None /\ ended' = ended \cup {running}
               /\ results' = Append(results, running)
      BY <1>1, <2>1, <3>2, EndsSound DEF TruthSound
    <3> QED BY <1>8, <3>1, <3>2 DEF applyInterrupt
  <2>3. owner'.turn.status = "none" => owner'.turn.id = None
    BY <1>8 DEF applyInterrupt, ProcessType, TurnsOf, TruthSound, TurnTrue
  <2>4. TurnTrue(owner.turn)' /\ TurnTrue(snap.turn)'
    BY <2>1, <2>3 DEF TruthSound, TurnTrue
  <2>5. OneOnItsWay' /\ SettledIsOver' BY <2>1 DEF OneOnItsWay, SettledIsOver
  <2> QED BY <2>2, <2>4, <2>5 DEF TruthSound
<1>9. CASE OwnerDies
  <2>1. /\ UNCHANGED interrupts /\ running' = None /\ results' = <<>> /\ ended \subseteq ended'
        /\ owner'.turn = NoTurn /\ snap'.turn = NoTurn /\ (agent = "claude" => sent' = <<>>)
    BY <1>4, <1>9 DEF OwnerDies
  <2>2. \A i : InConversation(i) => InConversation(i)'
    <3>1. CASE said' = said BY <3>1 DEF InConversation
    <3>2. CASE sent # <<>> /\ said' = Append(said, Head(sent))
      <4>1. Head(sent) \in Inputs BY <3>2, HeadAndTail DEF RuntimeType
      <4>2. /\ Len(said) \in Nat /\ Len(said') = Len(said) + 1
            /\ \A n \in 1..Len(said) : said'[n] = said[n]
        BY <3>2, <4>1, Appended DEF RuntimeType
      <4>3. 1..Len(said) \subseteq 1..Len(said') BY <4>2
      <4> QED BY <4>2, <4>3 DEF InConversation
    <3> QED BY <1>9, <3>1, <3>2 DEF OwnerDies
  <2>3. \A i \in ended' : InConversation(i)'
    <3>1. CASE agent = "custom"
      BY <1>9, <2>2, <3>1 DEF OwnerDies, TruthSound, RuntimeSound
    <3>2. CASE agent # "custom"
      <4>1. ended' = ended \cup {said'[n] : n \in 1..Len(said')} BY <1>9, <3>2 DEF OwnerDies
      <4>2. \A n \in 1..Len(said') : InConversation(said[n])' BY DEF InConversation
      <4> QED BY <2>2, <4>1, <4>2 DEF TruthSound, RuntimeSound
    <3> QED BY <3>1, <3>2
  <2>4. agent # "custom" => \A n \in 1..Len(said') : said'[n] \in ended'
    BY <1>9 DEF OwnerDies
  <2>5. RuntimeSound' BY <1>1, <2>1, <2>3, <2>4 DEF TruthSound, RuntimeSound
  <2>6. TurnTrue(owner.turn)' /\ TurnTrue(snap.turn)' BY <1>4, <2>1 DEF TurnTrue
  <2>7. OneOnItsWay'
    BY <1>1, <1>4, <1>9, <2>1 DEF OwnerDies, Off, OneOnItsWay, NothingOnItsWay
  <2> QED BY <1>2, <2>1, <2>5, <2>6, <2>7 DEF TruthSound
<1>10. CASE BeginTurn
  <2>1. /\ UNCHANGED <<ended, results, interrupts, snap>> /\ running = None /\ sent # <<>>
        /\ running' = Head(sent) /\ sent' = Tail(sent) /\ said' = Append(said, Head(sent))
    BY <1>10 DEF BeginTurn, fileVars, faultVars
  <2>2. Head(sent) \in Inputs BY <2>1, HeadAndTail DEF RuntimeType
  <2>3. /\ Len(said) \in Nat /\ Len(said') = Len(said) + 1
        /\ \A n \in 1..Len(said) : said'[n] = said[n]
        /\ said'[Len(said) + 1] = Head(sent)
    BY <2>1, <2>2, Appended DEF RuntimeType
  <2>4. /\ 1..Len(said) \subseteq 1..Len(said') /\ Len(said) + 1 \in 1..Len(said')
        /\ \A n \in 1..Len(said') : n \in 1..Len(said) \/ n = Len(said) + 1
    BY <2>3
  <2>5. RuntimeSound'
    <3>1. \A i \in ended' \cup {running'} : InConversation(i)'
      BY <2>1, <2>3, <2>4 DEF TruthSound, RuntimeSound, InConversation
    <3>2. ASSUME agent # "custom", NEW n \in 1..Len(said') PROVE said'[n] \in ended' \cup {running'}
      <4>1. CASE n \in 1..Len(said)
        <5>1. said[n] \in ended \cup {None} BY <2>1, <3>2, <4>1 DEF TruthSound, RuntimeSound
        <5>2. said[n] # None BY <4>1, DispatchAssumption DEF RuntimeType
        <5> QED BY <2>1, <2>3, <4>1, <5>1, <5>2
      <4>2. CASE n = Len(said) + 1 BY <2>1, <2>3, <4>2
      <4> QED BY <2>4, <4>1, <4>2
    <3> QED BY <1>1, <2>1, <3>1, <3>2 DEF TruthSound, RuntimeSound
  <2>6. owner' = owner \/ (agent # "claude" /\ owner'.turn.status = "inProgress")
    BY <1>10 DEF BeginTurn, ProcessType
  <2>7. TurnTrue(owner.turn)' BY <1>1, <2>1, <2>6 DEF TruthSound, TurnTrue
  <2>8. OneOnItsWay'
    <3> SUFFICES ASSUME agent = "claude", interrupts = 0 PROVE OneOnItsWay'
      BY <1>1, <2>1 DEF OneOnItsWay
    <3>1. /\ owner.turn.status = "inProgress" /\ owner.at # "dispatching"
          /\ sent = <<owner.turn.id>> /\ results = <<>>
      BY <2>1 DEF TruthSound, OneOnItsWay, OnItsWay, NothingOnItsWay
    <3>2. running' = owner.turn.id /\ sent' = <<>> BY <2>1, <3>1, Single
    <3> QED BY <2>1, <2>6, <3>1, <3>2 DEF OneOnItsWay, OnItsWay
  <2> QED BY <1>2, <1>3, <2>1, <2>5, <2>7, <2>8 DEF TruthSound
<1>11. CASE EndTurn
  <2>1. /\ UNCHANGED <<said, sent, owner, interrupts, snap>> /\ running # None /\ running' = None
        /\ ended' = ended \cup {running} /\ results' = Append(results, running)
    BY <1>11 DEF EndTurn, fileVars, faultVars
  <2>2. RuntimeSound' BY <1>1, <2>1, EndsSound DEF TruthSound
  <2>3. TurnTrue(owner.turn)' BY <1>1, <2>1 DEF TruthSound, TurnTrue
  <2>4. OneOnItsWay'
    <3> SUFFICES ASSUME agent = "claude", interrupts = 0 PROVE OneOnItsWay'
      BY <1>1, <2>1 DEF OneOnItsWay
    <3>1. /\ owner.turn.status = "inProgress" /\ owner.at # "dispatching"
          /\ running = owner.turn.id /\ sent = <<>> /\ results = <<>>
      BY <2>1 DEF TruthSound, OneOnItsWay, OnItsWay, NothingOnItsWay
    <3>2. results' = <<owner.turn.id>> BY <2>1, <3>1, Single
    <3> QED BY <2>1, <3>1, <3>2 DEF OneOnItsWay, OnItsWay
  <2> QED BY <1>2, <1>3, <2>1, <2>2, <2>3, <2>4 DEF TruthSound
<1> QED BY <1>6, <1>7, <1>8, <1>9, <1>10, <1>11 DEF Runtime

-----------------------------------------------------------------------------
(* The invariant.                                                          *)

\* At first nobody has anything.
LEMMA InitHolds == Init => NativeInv
<1> SUFFICES ASSUME Init PROVE NativeInv OBVIOUS
<1> USE DispatchAssumption, Nothing, Written DEF Init
<1>1. FileType BY DEF FileType, NoPickup, NoSlot
<1>2. ProcessType BY DEF ProcessType
<1>3. RuntimeType BY DEF RuntimeType
<1>4. SettledIsOver BY DEF SettledIsOver
<1>5. DaemonSound BY DEF DaemonSound, Off
<1>6. SlotSound BY DEF SlotSound, CursorsKnowSlot
<1>7. FlowSound
  BY DEF FlowSound, Ordered, OwnerSound, InConversation, InQueue, Off
<1>8. TruthSound
  BY DEF TruthSound, RuntimeSound, TurnTrue, OneOnItsWay, NothingOnItsWay, Off, NoTurn, Unavailable
<1> QED BY <1>1, <1>2, <1>3, <1>4, <1>5, <1>6, <1>7, <1>8 DEF NativeInv, TypeOK

\* Every step keeps the invariant.
LEMMA NextHolds == NativeInv /\ [Next]_vars => NativeInv'
<1> SUFFICES ASSUME NativeInv, [Next]_vars PROVE NativeInv' OBVIOUS
<1>1. TypeOK /\ DaemonSound /\ SlotSound /\ FlowSound BY DEF NativeInv
<1>2. CASE Send \/ Daemon \/ DaemonDies \/ \E k \in Commands : runControlCommand(k)
  BY <1>1, <1>2, DaemonTypes, DaemonKeeps, DaemonFlows, DaemonTells DEF NativeInv
<1>3. CASE OwnerOpens \/ Publish \/ Reconcile \/ TurnPickup \/ Push \/ Confirm \/ RecordTerminal
  BY <1>1, <1>3, OwnerTypes, OwnerKeeps, OwnerFlows, OwnerTells DEF NativeInv
<1>4. CASE Disconnect \/ ReadResult \/ applyInterrupt \/ OwnerDies \/ Runtime
  BY <1>1, <1>4, RuntimeTypes, RuntimeKeeps, RuntimeFlows, RuntimeTells DEF NativeInv
<1>5. CASE UNCHANGED vars
  BY <1>5
  DEF vars, fileVars, daemonVars, runtimeVars, faultVars, NativeInv, TypeOK, FileType, ProcessType,
      RuntimeType, SettledIsOver, DaemonSound, SlotSound, CursorsKnowSlot, FlowSound, Ordered,
      HandedOver, OwnerSound, InConversation, InQueue, TruthSound, RuntimeSound, TurnTrue,
      OneOnItsWay, OnItsWay, NothingOnItsWay
<1> QED BY <1>2, <1>3, <1>4, <1>5 DEF Next, Owner

\* What makes the properties of the dispatch inductive holds for ever, for every kind of owner.
THEOREM NativeInductive == Spec => []NativeInv
<1> QED BY InitHolds, NextHolds, PTL DEF Spec

-----------------------------------------------------------------------------
(* The properties.                                                         *)

\* The types are right, a letter has one turn in the conversation whatever died on the way,
\* and what its operation calls over is over, unless somebody stopped a turn.
THEOREM NativeIsSafe == Spec => []NativeSafe
<1>1. NativeInv => OneTurnPerLetter
  <2> SUFFICES ASSUME NativeInv, NEW m \in 1..Len(said), NEW n \in 1..Len(said),
                      said[m] = said[n], said[m] \in Letters
               PROVE  m = n
    BY DEF OneTurnPerLetter
  <2>1. ~(said[m] < said[n]) /\ ~(said[n] < said[m]) BY DEF Letters
  <2>2. ~(m < n) /\ ~(n < m) BY <2>1 DEF NativeInv, FlowSound, Ordered
  <2> QED BY <2>2
<1>2. NativeInv => NativeSafe BY <1>1 DEF NativeInv, NativeSafe
<1> QED BY <1>2, NativeInductive, PTL

\* The cursors know of the letter in the slot: the slot is filled behind them.
THEOREM CursorsAlwaysKnow == Spec => []CursorsKnowSlot
<1>1. NativeInv => CursorsKnowSlot BY DEF NativeInv, SlotSound
<1> QED BY <1>1, NativeInductive, PTL

\* Only a slot whose letter is over is filled again, by a repair, the next letter or a command.
LEMMA SlotStep ==
  ASSUME NativeInv, Next, slot.id \in Letters, slot'.id # slot.id
  PROVE  op[slot.id] = "ended"
<1> USE DispatchAssumption, Written DEF NativeInv, TypeOK
<1>1. slot.id <= delivered BY DEF SlotSound, CursorsKnowSlot
<1>2. op[slot.id] = "ended" \/ slot.id = pickup.id BY <1>1 DEF DaemonSound
<1>3. CASE Send \/ NoteAccepted \/ SaveAccepted \/ Choose \/ armPickup \/ DaemonDies
  BY <1>3 DEF Send, NoteAccepted, SaveAccepted, Choose, armPickup, DaemonDies, fileVars
<1>4. CASE Repair BY <1>2, <1>4 DEF Repair
<1>5. CASE Fill BY <1>2, <1>5 DEF Fill, DaemonSound
<1>6. ASSUME NEW k \in Commands, runControlCommand(k) PROVE op[slot.id] = "ended"
  BY <1>2, <1>6 DEF runControlCommand
<1>7. CASE OwnerOpens \/ Publish \/ Push \/ ReadResult
  BY <1>7 DEF OwnerOpens, Publish, Push, ReadResult, fileVars
<1>8. CASE Reconcile \/ TurnPickup \/ Confirm \/ RecordTerminal
  BY <1>8
  DEF Reconcile, SettledDispatch, TurnPickup, Confirm, RecordTerminal, InPhase, FileType
<1>9. CASE Disconnect \/ applyInterrupt \/ OwnerDies \/ Runtime
  BY <1>9 DEF Disconnect, applyInterrupt, OwnerDies, Runtime, BeginTurn, EndTurn, fileVars
<1> QED BY <1>3, <1>4, <1>5, <1>6, <1>7, <1>8, <1>9 DEF Next, Daemon, Owner

\* A letter leaves the slot only when its operation is over.
THEOREM SlotKeeps == Spec => SlotKeepsLetter
<1>1. NativeInv /\ [Next]_vars =>
        [slot.id \in Letters /\ slot'.id # slot.id => op[slot.id] = "ended"]_vars
  BY SlotStep
<1> QED BY <1>1, NativeInductive, PTL DEF Spec, SlotKeepsLetter

-----------------------------------------------------------------------------
(* The refinement.                                                         *)

\* What LetterTurns looks at.
mapped == <<delivered, said, EndedOps, interrupts > 0>>

\* A command in the conversation, or a letter that comes after all others, is one of
\* LetterTurns' own.
LEMMA SaysNext ==
  ASSUME NativeInv, sent # <<>>, said' = Append(said, Head(sent)),
         UNCHANGED <<delivered, op, interrupts>>
  PROVE  Turns!Next
<1> USE DEF NativeInv, TypeOK
<1>1. /\ Head(sent) \in Inputs /\ Head(sent) = sent[1] /\ 1 \in 1..Len(sent)
  BY HeadAndTail DEF RuntimeType
<1>2. EndedOps' = EndedOps BY DEF EndedOps
<1>3. CASE Head(sent) \in Commands
  <2>1. Turns!Command(Head(sent)) BY <1>2 DEF Turns!Command
  <2> QED BY <1>3, <2>1 DEF Turns!Next
<1>4. CASE Head(sent) \in Letters
  <2>1. InQueue(Head(sent)) BY <1>1 DEF InQueue
  <2>2. Head(sent) \in 1..delivered
    BY <1>4, <2>1 DEF FlowSound, HandedOver, FileType, Letters
  <2>3. \A n \in 1..Len(said) : said[n] \in Turns!Letters => said[n] < Head(sent)
    BY <1>1, <1>4 DEF FlowSound, Ordered, Letters, Turns!Letters
  <2>4. Turns!Begin(Head(sent)) BY <1>2, <2>3 DEF Turns!Begin
  <2> QED BY <2>2, <2>4 DEF Turns!Next
<1> QED BY <1>1, <1>3, <1>4 DEF Inputs

\* A letter whose turn the owner saw the end of is settled, once it was begun.
LEMMA SettlesNext ==
  ASSUME NativeInv, NEW l \in Letters, l <= delivered, Advance(l, "ended"),
         interrupts > 0 \/ InConversation(l), UNCHANGED <<delivered, said, interrupts>>
  PROVE  Turns!Next
<1> USE DEF NativeInv, TypeOK
<1>1. EndedOps' = EndedOps \cup {l}
  BY Advances DEF EndedOps
<1>2. l \in 1..delivered BY DEF Letters, FileType
<1>3. Turns!Settle(l) BY <1>1 DEF Turns!Settle, InConversation
<1> QED BY <1>2, <1>3 DEF Turns!Next

\* Every step of the dispatch is a step of LetterTurns or leaves what it looks at alone.
LEMMA StepRefines ==
  ASSUME NativeInv, NativeInv', [Next]_vars
  PROVE  Turns!Next \/ UNCHANGED mapped
<1> USE DispatchAssumption, Written DEF NativeInv, TypeOK
<1>1. CASE UNCHANGED <<delivered, said, op, interrupts>>
  BY <1>1 DEF mapped, EndedOps
<1>2. CASE NoteAccepted
  <2>1. pickup.id \in Letters /\ pickup.id <= delivered /\ UNCHANGED <<delivered, said, interrupts>>
    BY <1>2 DEF NoteAccepted, FileType, DaemonSound, runtimeVars, faultVars, Letters
  <2>2. CASE Advance(pickup.id, "ended")
    <3>1. op'[pickup.id] = "ended" BY <2>1, <2>2, Advances
    <3>2. interrupts' = interrupts /\ ended' = ended /\ interrupts \in Nat
      BY <1>2 DEF NoteAccepted, runtimeVars, faultVars, ProcessType
    <3>3. CASE interrupts = 0
      <4>1. pickup.id \in ended
        BY <2>1, <3>1, <3>2, <3>3 DEF SettledIsOver
      <4>2. InConversation(pickup.id) BY <4>1 DEF TruthSound, RuntimeSound
      <4> QED BY <2>1, <2>2, <4>2, SettlesNext
    <3>4. CASE interrupts > 0
      BY <2>1, <2>2, <3>4, SettlesNext
    <3> QED BY <3>2, <3>3, <3>4
  <2>3. CASE Advance(pickup.id, "admitted")
    <3>1. EndedOps' = EndedOps BY <2>1, <2>3, Advances DEF EndedOps
    <3> QED BY <2>1, <3>1 DEF mapped
  <2> QED BY <1>2, <2>2, <2>3 DEF NoteAccepted
<1>3. CASE Choose
  <2>1. delivered + 1 \in Letters BY <1>3 DEF Choose, FileType, Letters
  <2>2. EndedOps' = EndedOps BY <1>3, <2>1, Advances DEF Choose, EndedOps
  <2> QED BY <1>3, <2>2 DEF Choose, mapped, runtimeVars, faultVars
<1>4. CASE armPickup
  <2>1. /\ delivered' = delivered + 1 /\ delivered < MaxLetters /\ pickup.id = None
        /\ UNCHANGED <<said, op, interrupts>>
    BY <1>4 DEF armPickup, DaemonSound, FileType, runtimeVars, faultVars
  <2>2. 1..delivered \subseteq EndedOps
    BY <2>1 DEF EndedOps, DaemonSound, FileType, Letters
  <2>3. Turns!Commit BY <2>1, <2>2 DEF Turns!Commit, EndedOps
  <2> QED BY <2>3 DEF Turns!Next
<1>5. CASE RecordTerminal
  <2>1. slot.id \in ended /\ UNCHANGED <<delivered, said, interrupts>>
    BY <1>5 DEF RecordTerminal, Advance, runtimeVars, faultVars
  <2>2. CASE slot.id \in Letters
    <3>1. Advance(slot.id, "ended") BY <1>5, <2>2 DEF RecordTerminal
    <3>2. slot.id <= delivered BY <2>2 DEF SlotSound, CursorsKnowSlot
    <3>3. InConversation(slot.id) BY <2>1 DEF TruthSound, RuntimeSound
    <3> QED BY <2>1, <2>2, <3>1, <3>2, <3>3, SettlesNext
  <2>3. CASE slot.id \notin Letters
    BY <1>1, <1>5, <2>1, <2>3 DEF RecordTerminal
  <2> QED BY <2>2, <2>3
<1>6. CASE applyInterrupt
  <2>1. UNCHANGED <<delivered, said, op>> /\ interrupts' = interrupts + 1 /\ interrupts \in Nat
    BY <1>6 DEF applyInterrupt, fileVars, ProcessType
  <2>2. EndedOps' = EndedOps BY <2>1 DEF EndedOps
  <2>3. CASE interrupts > 0
    <3>1. (interrupts' > 0) = (interrupts > 0) BY <2>1, <2>3
    <3> QED BY <2>1, <2>2, <3>1 DEF mapped
  <2>4. CASE ~(interrupts > 0)
    <3>1. (interrupts' > 0) = TRUE BY <2>1
    <3>2. Turns!Stop BY <2>1, <2>2, <2>4, <3>1 DEF Turns!Stop
    <3> QED BY <3>2 DEF Turns!Next
  <2> QED BY <2>3, <2>4
<1>7. CASE OwnerDies
  <2>1. UNCHANGED <<delivered, op, interrupts>> BY <1>7 DEF OwnerDies
  <2>2. CASE said' = said BY <1>1, <2>1, <2>2
  <2>3. CASE sent # <<>> /\ said' = Append(said, Head(sent)) BY <2>1, <2>3, SaysNext
  <2> QED BY <1>7, <2>2, <2>3 DEF OwnerDies
<1>8. CASE BeginTurn
  <2>1. /\ UNCHANGED <<delivered, op, interrupts>> /\ sent # <<>>
        /\ said' = Append(said, Head(sent))
    BY <1>8 DEF BeginTurn, fileVars, faultVars
  <2> QED BY <2>1, SaysNext
<1>9. CASE Send \/ Repair \/ SaveAccepted \/ Fill \/ DaemonDies
  BY <1>1, <1>9 DEF Send, Repair, SaveAccepted, Fill, DaemonDies, fileVars, runtimeVars, faultVars
<1>10. ASSUME NEW k \in Commands, runControlCommand(k) PROVE UNCHANGED mapped
  BY <1>10 DEF runControlCommand, mapped, EndedOps, runtimeVars, faultVars
<1>11. CASE OwnerOpens \/ Publish \/ Reconcile \/ TurnPickup \/ Push \/ Confirm
  BY <1>1, <1>11
  DEF OwnerOpens, Publish, Reconcile, TurnPickup, Push, Confirm, fileVars, runtimeVars, faultVars
<1>12. CASE Disconnect \/ ReadResult \/ EndTurn
  BY <1>1, <1>12 DEF Disconnect, ReadResult, EndTurn, fileVars, faultVars
<1>13. CASE UNCHANGED vars BY <1>1, <1>13 DEF vars, fileVars, runtimeVars, faultVars
<1> QED
  BY <1>2, <1>3, <1>4, <1>5, <1>6, <1>7, <1>8, <1>9, <1>10, <1>11, <1>12, <1>13
  DEF Next, Daemon, Owner, Runtime

\* The daemon, the owner, the commands and the runtime together implement the orderly turns
\* of LetterTurns: in order, one turn per letter, settled only after it was begun.
THEOREM ImplementsTurns == Spec => LettersTakeTurns
<1>1. Init => Turns!Init
  <2> SUFFICES ASSUME Init PROVE Turns!Init OBVIOUS
  <2>1. EndedOps = {} BY DEF Init, EndedOps
  <2>2. (interrupts > 0) = FALSE BY DEF Init
  <2> QED BY <2>1, <2>2 DEF Init, Turns!Init
<1>2. NativeInv /\ NativeInv' /\ [Next]_vars => [Turns!Next]_(Turns!vars)
  BY StepRefines DEF mapped, Turns!vars
<1> QED BY <1>1, <1>2, NativeInductive, PTL DEF Spec, LettersTakeTurns, Turns!Spec

-----------------------------------------------------------------------------
(* The four sides of an owner together                                     *)

\* The inductive invariant of the side that runs.
SideInv ==
  /\ part = "native" => NativeInv
  /\ part = "asks" => Session!Asks!TypeOK /\ Session!Asks!RequestsInv
  /\ part = "steer" => Session!SteerInv
  /\ part = "context" => Session!SoundContext

\* At first the side that runs is in its initial state.
LEMMA SideInit ==
  ASSUME PartsInit
  PROVE  SideInv
<1>1. CASE part = "native" /\ Init BY <1>1, InitHolds DEF SideInv
<1>2. CASE part = "asks" /\ Session!Asks!Init
  BY <1>2, PartConstants, Session!AsksTypeInit, Session!RequestsInit DEF SideInv
<1>3. CASE part = "steer" /\ Session!Steer!Init
  BY <1>3, PartConstants, Session!SteerInit DEF SideInv
<1>4. CASE part = "context" /\ Session!Context!Init
  BY <1>4, PartConstants, Session!ContextInit DEF SideInv
<1> QED BY <1>1, <1>2, <1>3, <1>4 DEF PartsInit

\* A step is a step of the side that runs.
LEMMA SideSteps ==
  ASSUME [PartsNext]_all
  PROVE  /\ part' = part
         /\ part = "native" => [Next]_vars
         /\ part = "asks" => [Session!Asks!Next]_(Session!Asks!vars)
         /\ part = "steer" => [Session!Steer!Next]_(Session!Steer!vars)
         /\ part = "context" => [Session!Context!Next]_(Session!Context!vars)
<1>1. CASE PartsNext BY <1>1 DEF PartsNext, InNative, InAsks, InSteer, InContext
<1>2. CASE UNCHANGED all
  <2>1. /\ UNCHANGED <<part, p1, p2, p3, p4, p5, p6, p7, p8, p9, p10, p11, p12, p13, p14, p15, p16,
                       p17, p18>>
        /\ UNCHANGED vars
    BY <1>2 DEF all, pool
  <2>2. UNCHANGED Session!Asks!vars
    BY <2>1 DEF Session!Asks!vars, Session!Asks!files, Session!Asks!owner, Session!Asks!provider,
      Session!Asks!callers, Session!Asks!ghosts
  <2>3. UNCHANGED Session!Steer!vars BY <2>1 DEF Session!Steer!vars, Session!Steer!thread
  <2>4. UNCHANGED Session!Context!vars
    BY <2>1 DEF Session!Context!vars, Session!Context!journal, Session!Context!input,
      Session!Context!owner, Session!Context!runs
  <2> QED BY <2>1, <2>2, <2>3, <2>4
<1> QED BY <1>1, <1>2

\* A step of the side that runs keeps its invariant.
LEMMA SideKept ==
  ASSUME SideInv, [PartsNext]_all
  PROVE  SideInv'
<1>1. CASE part = "native" BY <1>1, SideSteps, NextHolds DEF SideInv
<1>2. CASE part = "asks"
  BY <1>2, SideSteps, PartConstants, Session!AsksTypeKept, Session!RequestsKept DEF SideInv
<1>3. CASE part = "steer" BY <1>3, SideSteps, PartConstants, Session!SteerKept DEF SideInv
<1>4. CASE part = "context" BY <1>4, SideSteps, PartConstants, Session!ContextKept DEF SideInv
<1>5. CASE part \notin {"native", "asks", "steer", "context"} BY <1>5, SideSteps DEF SideInv
<1> QED BY <1>1, <1>2, <1>3, <1>4, <1>5

\* What a caller of the owner is told of its letter, its answer, its text or its compaction is
\* so, and none of them happens twice, whatever dies on the way (AnswersTrue of the run).
THEOREM AnswersAlwaysTrue == NativeSpec => []AnswersTrue
<1>1. PartsInit => SideInv BY SideInit
<1>2. SideInv /\ [PartsNext]_all => SideInv' BY SideKept
<1>3. SideInv => AnswersTrue
  BY Session!AnswersAreTold DEF SideInv, AnswersTrue, Session!SteerInv, Session!SoundContext
<1> QED BY <1>1, <1>2, <1>3, PTL DEF NativeSpec
=============================================================================
