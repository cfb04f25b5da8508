---------------------------- MODULE MCAlwaysProofs ----------------------------
(***************************************************************************)
(* Proofs about SessionSleep, for any operations, letters and bounds: the  *)
(* types are right, a session that is to sleep owes nothing and one that   *)
(* sleeps does not execute, and no caller is told otherwise.  Then what    *)
(* the run of eleven components checks of them together: a step of one of  *)
(* them keeps its invariant and leaves the others alone.                   *)
(***************************************************************************)
EXTENDS MCAlways, Sequences, TLAPS

-----------------------------------------------------------------------------
(* Types.                                                                  *)

\* The record of a session that nobody put to sleep, and a caller at rest.
LEMMA AwakeTypes == Awake \in Records /\ Idle \in Call
BY SleepAssumption DEF Awake, Records, Idle, Call, Steps

\* A caller moves to a step, takes a record in hand, or rests.
LEMMA StepTypes ==
  ASSUME CallType, NEW c \in Callers, NEW s \in Steps, Step(c, s)
  PROVE  at' \in [Callers -> Call]
BY DEF CallType, Step, Call

\* A caller that ends its call has no call to be in.
LEMMA RestTypes ==
  ASSUME CallType, NEW c \in Callers, Rest(c)
  PROVE  at' \in [Callers -> Call]
BY AwakeTypes DEF CallType, Rest

\* So does one that is refused, with an answer.
LEMMA RefuseTypes ==
  ASSUME CallType, NEW c \in Callers, Refuse(c)
  PROVE  at' \in [Callers -> Call] /\ told' \in [Callers -> Answers]
BY RestTypes DEF CallType, Refuse, Answer, Answers

\* What a caller is told is one of the answers.
LEMMA AnswerTypes ==
  ASSUME CallType, NEW c \in Callers, NEW a \in Answers, Answer(c, a)
  PROVE  told' \in [Callers -> Answers]
BY DEF CallType, Answer

\* An operation of session.sleep keeps the types.
LEMMA SleepingTypes == ASSUME TypeOK, NEW s \in SleepOps, Sleeping(s) PROVE TypeOK'
<1> USE DEF TypeOK
<1>1. s \in Callers BY DEF Callers
<1>2. CASE readIdle(s)
  <2>1. Facts \in Processes \X [Mail -> Places] BY DEF ProcessType, Facts
  <2>2. CallType' BY <1>2, <2>1 DEF readIdle, CallType
  <2> QED BY <1>2, <2>2 DEF readIdle, FileType, ProcessType, fileVars, procVars
<1>3. CASE sleepSession(s)
  <2>1. sleep' \in Records
    BY <1>3, SleepAssumption DEF sleepSession, Records, FileType, ProcessType, Processes
  <2>2. at' \in [Callers -> Call]
    <3>1. [step |-> "waiting", row |-> sleep'] \in Call BY <2>1 DEF Call, Steps
    <3>2. at' = [at EXCEPT ![s] = [step |-> "waiting", row |-> sleep']] \/ Rest(s)
      BY <1>3 DEF sleepSession, Holding, Refuse
    <3> QED BY <1>1, <3>1, <3>2, AwakeTypes DEF CallType, Rest
  <2>3. told' \in [Callers -> Answers]
    BY <1>1, <1>3, RefuseTypes DEF sleepSession, CallType
  <2> QED
    BY <1>3, <2>1, <2>2, <2>3 DEF sleepSession, FileType, ProcessType, CallType, procVars
<1>4. CASE sleepSettle(s)
  <2>1. sleep' \in Records
    BY <1>4 DEF sleepSettle, Records, FileType
  <2>2. at' \in [Callers -> Call]
    BY <1>1, <1>4, RestTypes DEF sleepSettle, Refuse
  <2>3. told' \in [Callers -> Answers]
    BY <1>4 DEF sleepSettle, CallType, Refuse, Answer, Answers
  <2> QED
    BY <1>4, <2>1, <2>2, <2>3 DEF sleepSettle, FileType, ProcessType, CallType, procVars
<1> QED BY <1>2, <1>3, <1>4 DEF Sleeping

\* The admission of a wake or a message keeps them.
LEMMA AdmitTypes ==
  ASSUME TypeOK,
         \/ \E w \in WakeOps : wakeSession(w)
         \/ \E l \in Letters : acceptControlMessage(l)
  PROVE  TypeOK'
<1> USE DEF TypeOK
<1>1. ASSUME NEW w \in WakeOps, wakeSession(w) PROVE TypeOK'
  <2>1. w \in Callers BY DEF Callers, Wakers
  <2>2. journal' \in [WakeOps -> [op: SleepOps \cup {None}, done: BOOLEAN]]
    BY <1>1 DEF wakeSession, FileType, Records
  <2>3. at' \in [Callers -> Call]
    BY <1>1, <2>1, RestTypes, StepTypes DEF wakeSession, Refuse, CallType, Steps
  <2>4. told' \in [Callers -> Answers]
    BY <1>1 DEF wakeSession, CallType, Refuse, Answer, Answers
  <2> QED BY <1>1, <2>2, <2>3, <2>4 DEF wakeSession, FileType, ProcessType, CallType, procVars
<1>2. ASSUME NEW l \in Letters, acceptControlMessage(l) PROVE TypeOK'
  <2>1. l \in Callers BY DEF Callers, Wakers
  <2>2. letter' \in [Mail -> Places]
    BY <1>2 DEF acceptControlMessage, ProcessType, Places, Mail
  <2>3. at' \in [Callers -> Call]
    BY <1>2, <2>1, RestTypes, StepTypes DEF acceptControlMessage, Refuse, CallType, Steps
  <2>4. told' \in [Callers -> Answers]
    BY <1>2 DEF acceptControlMessage, CallType, Refuse, Answer, Answers
  <2> QED
    BY <1>2, <2>2, <2>3, <2>4
    DEF acceptControlMessage, FileType, ProcessType, CallType, fileVars, procVars
<1> QED BY <1>1, <1>2

\* A step of a wake keeps them.
LEMMA WakingTypes == ASSUME TypeOK, NEW w \in Wakers, Waking(w) \/ BudgetEnds(w) PROVE TypeOK'
<1> USE DEF TypeOK
<1>1. w \in Callers BY DEF Callers
<1>2. CASE wakeRead(w)
  <2>1. at' \in [Callers -> Call]
    <3>1. CASE Refuse(w) BY <1>1, <3>1, RefuseTypes
    <3>2. CASE ~Refuse(w)
      <4>1. PICK s \in Steps : at' = [at EXCEPT ![w] = [step |-> s, row |-> sleep]]
        BY <1>2, <3>2 DEF wakeRead, Holding, Steps
      <4>2. [step |-> s, row |-> sleep] \in Call BY DEF Call, FileType
      <4> QED BY <1>1, <4>1, <4>2 DEF CallType
    <3> QED BY <3>1, <3>2
  <2>2. told' \in [Callers -> Answers]
    BY <1>2 DEF wakeRead, CallType, Refuse, Answer, Answers
  <2> QED BY <1>2, <2>1, <2>2 DEF wakeRead, FileType, ProcessType, CallType, fileVars, procVars
<1>3. CASE wakeWrite(w)
  <2>1. sleep' \in Records /\ lock' \in Wakers \cup {None}
    BY <1>3 DEF wakeWrite, Records, FileType, ProcessType
  <2>2. at' \in [Callers -> Call]
    BY <1>1, <1>3, RestTypes, StepTypes DEF wakeWrite, Refuse, Steps
  <2>3. told' \in [Callers -> Answers]
    BY <1>3 DEF wakeWrite, CallType, Refuse, Answer, Answers
  <2> QED BY <1>3, <2>1, <2>2, <2>3 DEF wakeWrite, FileType, ProcessType, CallType, procVars
<1>4. CASE wakeStart(w)
  <2>1. at' \in [Callers -> Call] BY <1>1, <1>4, StepTypes DEF wakeStart, Steps
  <2>2. started' \in Processes /\ session' \in {session, "starting"}
    BY <1>4, SleepAssumption DEF wakeStart, startSession, ProcessType, Processes
  <2> QED BY <1>4, <2>1, <2>2 DEF wakeStart, FileType, ProcessType, CallType, fileVars
<1>5. CASE wakeAck(w)
  <2>1. sleep' \in Records BY <1>5 DEF wakeAck, Records, FileType
  <2>2. at' \in [Callers -> Call]
    BY <1>1, <1>5, RestTypes, StepTypes DEF wakeAck, Refuse, Steps
  <2>3. told' \in [Callers -> Answers]
    BY <1>5 DEF wakeAck, CallType, Refuse, Answer, Answers
  <2> QED BY <1>5, <2>1, <2>2, <2>3 DEF wakeAck, FileType, ProcessType, CallType, procVars
<1>6. CASE wakeDone(w)
  <2>1. journal' \in [WakeOps -> [op: SleepOps \cup {None}, done: BOOLEAN]]
    BY <1>6 DEF wakeDone, FileType
  <2>2. at' \in [Callers -> Call] BY <1>1, <1>6, RestTypes DEF wakeDone, Refuse
  <2>3. told' \in [Callers -> Answers]
    BY <1>6 DEF wakeDone, CallType, Refuse, Answer, Answers
  <2> QED BY <1>6, <2>1, <2>2, <2>3 DEF wakeDone, FileType, ProcessType, CallType, procVars
<1>7. CASE BudgetEnds(w)
  <2>1. at' \in [Callers -> Call] BY <1>1, <1>7, RestTypes DEF BudgetEnds
  <2> QED BY <1>7, <2>1 DEF BudgetEnds, FileType, ProcessType, CallType, fileVars, procVars
<1> QED BY <1>2, <1>3, <1>4, <1>5, <1>6, <1>7 DEF Waking

\* The wait and the end of a call keep them, and so does a cancel: the processes it
\* names were started, for a record with an operation names one.
LEMMA CallerTypes ==
  ASSUME TypeOK, RecordSound,
         \/ \E c \in Cancels : cancelDelegation(c) \/ cancelReleased(c)
         \/ \E c \in Callers : awaitRelease(c) \/ Abort(c)
  PROVE  TypeOK'
<1> USE DEF TypeOK
<1>1. ASSUME NEW c \in Cancels, cancelDelegation(c) PROVE TypeOK'
  <2>1. c \in Callers BY DEF Callers
  <2>2. at' \in [Callers -> Call] BY <1>1, <2>1, StepTypes DEF cancelDelegation, Steps
  <2>3. sleep.op # None => sleep.held \in Processes
    BY SleepAssumption DEF RecordSound, FileType, Records, Processes
  <2>4. Evidence \in SUBSET Processes BY <2>3 DEF Evidence, FileType
  <2>5. stop' \in [on: BOOLEAN, held: SUBSET Processes] BY <1>1, <2>4 DEF cancelDelegation
  <2> QED BY <1>1, <2>2, <2>5 DEF cancelDelegation, FileType, ProcessType, CallType, procVars
<1>2. ASSUME NEW c \in Cancels, cancelReleased(c) PROVE TypeOK'
  <2>1. c \in Callers BY DEF Callers
  <2>2. at' \in [Callers -> Call] BY <1>2, <2>1, RestTypes DEF cancelReleased
  <2>3. told' \in [Callers -> Answers] BY <1>2 DEF cancelReleased, CallType, Answer, Answers
  <2> QED
    BY <1>2, <2>2, <2>3
    DEF cancelReleased, FileType, ProcessType, CallType, fileVars, procVars
<1>3. ASSUME NEW c \in Callers, awaitRelease(c) PROVE TypeOK'
  <2>1. at' \in [Callers -> Call] BY <1>3, StepTypes DEF awaitRelease, Steps
  <2> QED BY <1>3, <2>1 DEF awaitRelease, FileType, ProcessType, CallType, fileVars, procVars
<1>4. ASSUME NEW c \in Callers, Abort(c) PROVE TypeOK'
  <2>1. at' \in [Callers -> Call] BY <1>4, RestTypes DEF Abort
  <2>2. aborts' \in 0..MaxAborts BY <1>4, SleepAssumption DEF Abort, CallType
  <2> QED
    BY <1>4, <2>1, <2>2 DEF Abort, FileType, ProcessType, CallType, fileVars, procVars
<1> QED BY <1>1, <1>2, <1>3, <1>4

\* The supervisor, the owner, the daemon and a crash keep them.
LEMMA SessionTypes ==
  ASSUME TypeOK, Owner \/ Heal \/ Turns \/ ManagedRuntimeExit \/ Killed
  PROVE  TypeOK'
<1> USE DEF TypeOK
<1>1. 0 \in 0..MaxStarts /\ Processes \subseteq 0..MaxStarts /\ "over" \in Places
  BY SleepAssumption DEF Processes, Places
<1>2. Interrupted \in [Mail -> Places] BY <1>1 DEF Interrupted, ProcessType
<1>3. CASE Supervise
  BY <1>3 DEF Supervise, FileType, ProcessType, CallType, fileVars, callVars
<1>4. CASE OwnerOpens
  BY <1>1, <1>4 DEF OwnerOpens, FileType, ProcessType, CallType, callVars
<1>5. CASE ownerShouldSleep
  BY <1>1, <1>2, <1>5 DEF ownerShouldSleep, FileType, ProcessType, CallType, callVars
<1>6. CASE TmuxDrops
  BY <1>6 DEF TmuxDrops, FileType, ProcessType, CallType, fileVars, callVars
<1>7. CASE startHealed
  BY <1>7 DEF startHealed, FileType, ProcessType, CallType, fileVars, callVars
<1>8. CASE HealStart
  <2>1. started' \in Processes /\ session' \in {session, "starting"}
    BY <1>8, SleepAssumption DEF HealStart, startSession, ProcessType, Processes
  <2> QED BY <1>8, <2>1 DEF HealStart, FileType, ProcessType, CallType, fileVars, callVars
<1>9. CASE Turns
  <2>1. letter' \in [Mail -> Places]
    BY <1>9 DEF Turns, Dispatch, TurnEnds, ProcessType, Places
  <2> QED
    BY <1>9, <2>1
    DEF Turns, Dispatch, TurnEnds, FileType, ProcessType, CallType, fileVars, procVars, callVars
<1>10. CASE ManagedRuntimeExit \/ Killed
  <2>1. aborts' \in 0..MaxAborts
    BY <1>10, SleepAssumption DEF ManagedRuntimeExit, Killed, CallType
  <2> QED
    BY <1>1, <1>2, <1>10, <2>1
    DEF ManagedRuntimeExit, Killed, FileType, ProcessType, CallType
<1> QED BY <1>3, <1>4, <1>5, <1>6, <1>7, <1>8, <1>9, <1>10 DEF Owner, Heal

-----------------------------------------------------------------------------
(* The invariant.                                                          *)

\* A call that moves takes its own row along, and leaves the other calls alone.
LEMMA StepMoves ==
  ASSUME CallType, NEW c \in Callers, NEW s, Step(c, s)
  PROVE  \A x \in Callers : /\ at'[x].row = at[x].row
                            /\ at'[x].step = IF x = c THEN s ELSE at[x].step
BY DEF CallType, Step, Call

\* A call that comes to rest has nothing in hand.
LEMMA RestMoves ==
  ASSUME CallType, NEW c \in Callers, Rest(c)
  PROVE  \A x \in Callers : at'[x] = IF x = c THEN Idle ELSE at[x]
BY DEF CallType, Rest

\* A call that comes to rest disturbs nothing that holds of the record and the calls.
LEMMA RestSound ==
  ASSUME SleepInv, NEW c \in Callers, Rest(c), UNCHANGED <<sleep, journal, session, started>>
  PROVE  RecordSound' /\ CallsSound' /\ AsleepStaysDown'
<1>1. \A x \in Callers : at'[x] = IF x = c THEN Idle ELSE at[x]
  BY RestMoves DEF SleepInv, TypeOK
<1>2. Idle.step = "idle" /\ Idle.row.held = 0 BY DEF Idle, Awake
<1>3. CallsSound'
  <2>1. \A x \in Callers : at'[x].row.held <= started'
    BY <1>1, <1>2 DEF SleepInv, CallsSound, TypeOK, ProcessType, Processes
  <2>2. \A s \in SleepOps :
          /\ at'[s].step \in {"waiting", "released"} /\ sleep'.op = s
               => at'[s].row.held = sleep'.held
          /\ at'[s].step = "released" => ~Running(at[s].row.held)'
    BY <1>1, <1>2 DEF SleepInv, CallsSound, Running, Alive, Callers
  <2>3. \A w \in WakeOps :
          at'[w].step \in {"waiting", "released"} => at'[w].row.op = journal'[w].op
    BY <1>1, <1>2 DEF SleepInv, CallsSound, Callers, Wakers
  <2> QED BY <2>1, <2>2, <2>3 DEF CallsSound
<1>4. RecordSound' /\ AsleepStaysDown'
  BY DEF SleepInv, SleepSafe, RecordSound, AsleepStaysDown, Executing
<1> QED BY <1>3, <1>4

\* An operation of session.sleep keeps the invariant: what it writes names the process that
\* is there, and `sleeping` is written by a caller that saw that process go.
LEMMA SleepingSound ==
  ASSUME SleepInv, NEW s \in SleepOps, Sleeping(s)
  PROVE  SleepSafe' /\ RecordSound' /\ CallsSound'
<1> USE DEF SleepInv
<1>1. s \in Callers /\ s # None BY SleepAssumption DEF Callers
<1>2. CASE readIdle(s)
  BY <1>2
  DEF readIdle, fileVars, procVars, SleepSafe, AsleepOwesNothing, AsleepStaysDown, RecordSound,
      CallsSound, sleepBlocksStart, Executing, Running, Alive
<1>3. CASE sleepSession(s)
  <2>1. CASE sleep' = sleep /\ Rest(s)
    <3>1. UNCHANGED <<journal, session, started, letter>> BY <1>3 DEF sleepSession, procVars
    <3>2. AsleepOwesNothing'
      BY <2>1, <3>1 DEF SleepSafe, AsleepOwesNothing, sleepBlocksStart
    <3> QED BY <1>1, <2>1, <3>1, <3>2, RestSound DEF SleepSafe
  <2>2. CASE at' = [at EXCEPT ![s] = [step |-> "waiting", row |-> sleep']]
    <3>1. UNCHANGED <<journal, session, started, letter>> BY <1>3 DEF sleepSession, procVars
    <3>2. \A x \in Callers :
            at'[x] = IF x = s THEN [step |-> "waiting", row |-> sleep'] ELSE at[x]
      BY <2>2 DEF TypeOK, CallType
    <3>3. CASE sleep' = sleep
      <4>1. SleepSafe' /\ RecordSound'
        BY <3>1, <3>3
        DEF SleepSafe, AsleepOwesNothing, AsleepStaysDown, RecordSound, sleepBlocksStart, Executing
      <4>2. CallsSound'
        BY <1>1, <3>1, <3>2, <3>3, SleepAssumption
        DEF CallsSound, RecordSound, Running, Alive, Callers, Wakers
      <4> QED BY <4>1, <4>2
    <3>4. CASE /\ sleep.op # s /\ idleProof
               /\ sleep' = [op |-> s, phase |-> "requested", held |-> started]
      <4>1. started \in Nat /\ started # 0 BY DEF TypeOK, ProcessType, Processes
      <4>2. SleepSafe'
        BY <3>1, <3>4
        DEF SleepSafe, AsleepOwesNothing, AsleepStaysDown, sleepBlocksStart, Executing, idleProof, Mail
      <4>3. RecordSound' BY <3>1, <3>4, <4>1 DEF RecordSound, Executing
      <4>4. CallsSound'
        BY <1>1, <3>1, <3>2, <3>4, <4>1, SleepAssumption
        DEF CallsSound, Running, Alive, Callers, Wakers
      <4> QED BY <4>2, <4>3, <4>4
    <3> QED BY <1>3, <2>2, <3>3, <3>4, RestMoves DEF sleepSession, Holding, Refuse, Rest
  <2> QED BY <1>3, <2>1, <2>2 DEF sleepSession, Holding, Refuse
<1>4. CASE sleepSettle(s)
  <2>1. UNCHANGED <<journal, session, started, letter>> BY <1>4 DEF sleepSettle, procVars
  <2>2. CASE sleep' = sleep /\ Rest(s)
    <3>1. AsleepOwesNothing'
      BY <2>1, <2>2 DEF SleepSafe, AsleepOwesNothing, sleepBlocksStart
    <3> QED BY <1>1, <2>1, <2>2, <3>1, RestSound DEF SleepSafe
  <2>3. CASE /\ sleep.op = s /\ sleep.phase \in {"requested", "sleeping"} /\ Rest(s)
             /\ sleep' = [sleep EXCEPT !.phase = "sleeping"]
    <3>1. /\ sleep'.op = sleep.op /\ sleep'.held = sleep.held /\ sleep'.phase = "sleeping"
      BY <2>3 DEF TypeOK, FileType, Records
    <3>2. ~Running(sleep.held) BY <1>4, <2>3 DEF sleepSettle, CallsSound
    <3>3. ~Executing
      BY <2>3, <3>2 DEF SleepSafe, AsleepStaysDown, RecordSound, Executing, Running, Alive
    <3>4. SleepSafe'
      BY <2>1, <2>3, <3>1, <3>3
      DEF SleepSafe, AsleepOwesNothing, AsleepStaysDown, sleepBlocksStart, Executing
    <3>5. RecordSound' BY <2>1, <3>1 DEF RecordSound
    <3>6. \A x \in Callers : at'[x] = IF x = s THEN Idle ELSE at[x]
      BY <1>1, <2>3, RestMoves DEF TypeOK
    <3>7. CallsSound'
      BY <2>1, <3>1, <3>6
      DEF CallsSound, Idle, Awake, Running, Alive, Callers, Wakers, TypeOK, ProcessType, Processes
    <3> QED BY <3>4, <3>5, <3>7
  <2> QED BY <1>4, <2>2, <2>3 DEF sleepSettle, Refuse
<1> QED BY <1>2, <1>3, <1>4 DEF Sleeping

\* Admission keeps it: a message enters only a session that is awake, and a wake writes
\* its journal at rest.
LEMMA AdmitSound ==
  ASSUME SleepInv,
         \/ \E w \in WakeOps : wakeSession(w)
         \/ \E l \in Letters : acceptControlMessage(l)
  PROVE  SleepSafe' /\ RecordSound' /\ CallsSound'
<1> USE DEF SleepInv
<1>1. UNCHANGED <<sleep, session, started>>
  BY DEF wakeSession, acceptControlMessage, procVars, fileVars
<1>2. RecordSound' /\ AsleepStaysDown'
  BY <1>1 DEF SleepSafe, RecordSound, AsleepStaysDown, Executing
<1>3. ASSUME NEW w \in WakeOps, wakeSession(w) PROVE AsleepOwesNothing' /\ CallsSound'
  <2>1. w \in Callers BY DEF Callers, Wakers
  <2>2. AsleepOwesNothing'
    BY <1>1, <1>3 DEF SleepSafe, AsleepOwesNothing, sleepBlocksStart, wakeSession
  <2> SUFFICES CallsSound' BY <2>2
  <2>3. CASE journal' = journal /\ (at' = at \/ Rest(w))
    <3>1. CASE at' = at
      BY <1>1, <2>3, <3>1 DEF CallsSound, Running, Alive
    <3>2. CASE Rest(w) BY <1>1, <2>1, <2>3, <3>2, RestSound
    <3> QED BY <2>3, <3>1, <3>2
  <2>4. CASE journal' = [journal EXCEPT ![w].op = sleep.op] /\ Step(w, "admitted")
    <3>1. \A x \in Callers : /\ at'[x].row = at[x].row
                             /\ at'[x].step = IF x = w THEN "admitted" ELSE at[x].step
      BY <2>1, <2>4, StepMoves DEF TypeOK
    <3>2. \A v \in WakeOps \ {w} : journal'[v] = journal[v]
      BY <2>4 DEF TypeOK, FileType
    <3>3. w \notin SleepOps BY SleepAssumption DEF Wakers
    <3> QED
      BY <1>1, <3>1, <3>2, <3>3 DEF CallsSound, Running, Alive, Callers, Wakers
  <2> QED BY <1>3, <2>3, <2>4 DEF wakeSession, Refuse
<1>4. ASSUME NEW l \in Letters, acceptControlMessage(l)
      PROVE AsleepOwesNothing' /\ CallsSound'
  <2>1. l \in Callers BY DEF Callers, Wakers
  <2>2. UNCHANGED journal BY <1>4 DEF acceptControlMessage, fileVars
  <2>3. AsleepOwesNothing'
    <3>1. letter' = letter \/ sleep.phase = "awake" BY <1>4 DEF acceptControlMessage
    <3> QED BY <1>1, <3>1 DEF SleepSafe, AsleepOwesNothing, sleepBlocksStart
  <2> SUFFICES CallsSound' BY <2>3
  <2>4. CASE at' = at
    BY <1>1, <2>2, <2>4 DEF CallsSound, Running, Alive
  <2>5. CASE Rest(l)
    BY <1>1, <2>1, <2>2, <2>5, RestSound
  <2>6. CASE Step(l, "admitted")
    <3>1. \A x \in Callers : /\ at'[x].row = at[x].row
                             /\ at'[x].step = IF x = l THEN "admitted" ELSE at[x].step
      BY <2>1, <2>6, StepMoves DEF TypeOK
    <3> QED BY <1>1, <2>2, <3>1 DEF CallsSound, Running, Alive, Callers, Wakers
  <2> QED BY <1>4, <2>4, <2>5, <2>6 DEF acceptControlMessage, Refuse
<1> QED BY <1>2, <1>3, <1>4 DEF SleepSafe

\* A wake keeps it: it only ever writes `waking` and `awake`, and starts a process that
\* executes nothing before the supervisor has read the record.
LEMMA WakingSound ==
  ASSUME SleepInv, NEW w \in Wakers, Waking(w) \/ BudgetEnds(w)
  PROVE  SleepSafe' /\ RecordSound' /\ CallsSound'
<1> USE DEF SleepInv
<1>1. w \in Callers /\ w \notin SleepOps BY SleepAssumption DEF Callers
<1>2. UNCHANGED letter
  BY DEF Waking, wakeRead, wakeWrite, wakeStart, wakeAck, wakeDone, BudgetEnds
<1>3. ASSUME UNCHANGED <<sleep, session, started, journal>>, Rest(w)
      PROVE  SleepSafe' /\ RecordSound' /\ CallsSound'
  <2>1. AsleepOwesNothing' BY <1>2, <1>3 DEF SleepSafe, AsleepOwesNothing, sleepBlocksStart
  <2> QED BY <1>1, <1>3, <2>1, RestSound DEF SleepSafe
\* The record moves to a phase that blocks nothing.
<1>4. ASSUME UNCHANGED <<session, started, journal>>, NEW p \in {sleep.phase, "waking", "awake"},
             sleep' = [sleep EXCEPT !.phase = p],
             NEW s \in {"starting", "polling", "acked"}, Step(w, s)
      PROVE  SleepSafe' /\ RecordSound' /\ CallsSound'
  <2>1. sleep'.op = sleep.op /\ sleep'.held = sleep.held /\ sleep'.phase = p
    BY <1>4 DEF TypeOK, FileType, Records
  <2>2. SleepSafe' /\ RecordSound'
    BY <1>2, <1>4, <2>1
    DEF SleepSafe, AsleepOwesNothing, AsleepStaysDown, RecordSound, sleepBlocksStart, Executing
  <2>3. \A x \in Callers : /\ at'[x].row = at[x].row
                           /\ at'[x].step = IF x = w THEN s ELSE at[x].step
    BY <1>1, <1>4, StepMoves DEF TypeOK
  <2>4. CallsSound'
    BY <1>1, <1>4, <2>1, <2>3 DEF CallsSound, Running, Alive, Callers, Wakers
  <2> QED BY <2>2, <2>4
<1>5. CASE wakeRead(w)
  <2>1. UNCHANGED <<sleep, session, started, journal>> BY <1>5 DEF wakeRead, fileVars, procVars
  <2>2. CASE Refuse(w) BY <1>3, <2>1, <2>2 DEF Refuse
  <2>3. CASE ~Refuse(w)
    <3>1. /\ w \in WakeOps => sleep.op = journal[w].op
          /\ \E s \in {"acked", "waiting"} : at' = [at EXCEPT ![w] = [step |-> s, row |-> sleep]]
      BY <1>5, <2>3 DEF wakeRead, Expected, Holding
    <3>2. \A x \in Callers \ {w} : at'[x] = at[x] BY <3>1 DEF TypeOK, CallType
    <3>3. at'[w].row = sleep BY <1>1, <3>1 DEF TypeOK, CallType
    <3>4. CallsSound'
      BY <1>1, <2>1, <3>1, <3>2, <3>3
      DEF CallsSound, RecordSound, Running, Alive, Callers, Wakers
    <3>5. SleepSafe' /\ RecordSound'
      BY <1>2, <2>1
      DEF SleepSafe, AsleepOwesNothing, AsleepStaysDown, RecordSound, sleepBlocksStart, Executing
    <3> QED BY <3>4, <3>5
  <2> QED BY <2>2, <2>3
<1>6. CASE wakeWrite(w)
  <2>1. UNCHANGED <<session, started, journal>> BY <1>6 DEF wakeWrite, procVars
  <2>2. CASE sleep' = sleep /\ Refuse(w) BY <1>3, <2>1, <2>2 DEF Refuse
  <2>3. CASE sleep' = sleep /\ Step(w, "polling")
    <3>1. sleep' = [sleep EXCEPT !.phase = sleep.phase] BY <2>3 DEF TypeOK, FileType, Records
    <3> QED BY <1>4, <2>1, <2>3, <3>1
  <2>4. CASE sleep' = [sleep EXCEPT !.phase = "waking"] /\ Step(w, "starting")
    BY <1>4, <2>1, <2>4
  <2> QED BY <1>6, <2>2, <2>3, <2>4 DEF wakeWrite
<1>7. CASE wakeStart(w)
  <2>1. UNCHANGED <<sleep, journal>> BY <1>7 DEF wakeStart, fileVars
  <2>2. \A x \in Callers : /\ at'[x].row = at[x].row
                           /\ at'[x].step = IF x = w THEN "polling" ELSE at[x].step
    BY <1>1, <1>7, StepMoves DEF wakeStart, TypeOK
  <2>3. CASE UNCHANGED <<session, started>>
    <3>1. SleepSafe' /\ RecordSound'
      BY <1>2, <2>1, <2>3
      DEF SleepSafe, AsleepOwesNothing, AsleepStaysDown, RecordSound, sleepBlocksStart, Executing
    <3>2. CallsSound'
      BY <1>1, <2>1, <2>2, <2>3 DEF CallsSound, Running, Alive, Callers, Wakers
    <3> QED BY <3>1, <3>2
  <2>4. CASE session' = "starting" /\ started' = started + 1
    <3>1. started \in Nat BY DEF TypeOK, ProcessType, Processes
    <3>2. sleep.held \in Nat /\ \A x \in Callers : at[x].row.held \in Nat
      BY DEF TypeOK, FileType, CallType, Records, Call
    <3>3. SleepSafe' /\ RecordSound'
      BY <1>2, <2>1, <2>4, <3>1, <3>2
      DEF SleepSafe, AsleepOwesNothing, AsleepStaysDown, RecordSound, sleepBlocksStart, Executing
    <3>4. CallsSound'
      BY <1>1, <2>1, <2>2, <2>4, <3>1, <3>2 DEF CallsSound, Running, Alive, Callers, Wakers
    <3> QED BY <3>3, <3>4
  <2> QED BY <1>7, <2>3, <2>4 DEF wakeStart, startSession
<1>8. CASE wakeAck(w)
  <2>1. UNCHANGED <<session, started, journal>> BY <1>8 DEF wakeAck, procVars
  <2>2. CASE sleep' = sleep /\ Refuse(w) BY <1>3, <2>1, <2>2 DEF Refuse
  <2>3. CASE sleep' = sleep /\ Step(w, "acked")
    <3>1. sleep' = [sleep EXCEPT !.phase = sleep.phase] BY <2>3 DEF TypeOK, FileType, Records
    <3> QED BY <1>4, <2>1, <2>3, <3>1
  <2>4. CASE sleep' = [sleep EXCEPT !.phase = "awake"] /\ Step(w, "acked")
    BY <1>4, <2>1, <2>4
  <2> QED BY <1>8, <2>2, <2>3, <2>4 DEF wakeAck
<1>9. CASE wakeDone(w)
  <2>1. UNCHANGED <<sleep, session, started>> BY <1>9 DEF wakeDone, procVars
  <2>2. Rest(w) BY <1>9 DEF wakeDone, Refuse
  <2>3. CASE UNCHANGED journal BY <1>3, <2>1, <2>2, <2>3
  <2>4. CASE w \in WakeOps /\ journal' = [journal EXCEPT ![w].done = TRUE]
    <3>1. \A v \in WakeOps : journal'[v].op = journal[v].op
      BY <2>4 DEF TypeOK, FileType
    <3>2. \A x \in Callers : at'[x] = IF x = w THEN Idle ELSE at[x]
      BY <1>1, <2>2, RestMoves DEF TypeOK
    <3>3. SleepSafe' /\ RecordSound'
      BY <1>2, <2>1
      DEF SleepSafe, AsleepOwesNothing, AsleepStaysDown, RecordSound, sleepBlocksStart, Executing
    <3>4. CallsSound'
      BY <2>1, <3>1, <3>2
      DEF CallsSound, Idle, Awake, Running, Alive, Callers, Wakers, TypeOK, ProcessType, Processes
    <3> QED BY <3>3, <3>4
  <2> QED BY <1>9, <2>3, <2>4 DEF wakeDone, Wakers
<1>10. CASE BudgetEnds(w)
  BY <1>3, <1>10 DEF BudgetEnds, fileVars, procVars
<1> QED BY <1>5, <1>6, <1>7, <1>8, <1>9, <1>10 DEF Waking

\* A cancel, a wait that ends and a call cut short keep it; a sleep that goes on has seen
\* the process of its row go.
LEMMA CallerSound ==
  ASSUME SleepInv,
         \/ \E c \in Cancels : cancelDelegation(c) \/ cancelReleased(c)
         \/ \E c \in Callers : awaitRelease(c) \/ Abort(c)
  PROVE  SleepSafe' /\ RecordSound' /\ CallsSound'
<1> USE DEF SleepInv
<1>1. UNCHANGED <<sleep, session, started, journal, letter>>
  BY DEF cancelDelegation, cancelReleased, awaitRelease, Abort, fileVars, procVars
<1>2. SleepSafe' /\ RecordSound'
  BY <1>1
  DEF SleepSafe, AsleepOwesNothing, AsleepStaysDown, RecordSound, sleepBlocksStart, Executing
<1>3. ASSUME NEW c \in Cancels, cancelDelegation(c) PROVE CallsSound'
  <2>1. c \in Callers /\ c \notin SleepOps /\ c \notin WakeOps
    BY SleepAssumption DEF Callers, Wakers
  <2>2. \A x \in Callers : /\ at'[x].row = at[x].row
                           /\ at'[x].step = IF x = c THEN "waiting" ELSE at[x].step
    BY <1>3, <2>1, StepMoves DEF cancelDelegation, TypeOK
  <2> QED BY <1>1, <2>1, <2>2 DEF CallsSound, Running, Alive, Callers, Wakers
<1>4. ASSUME NEW c \in Callers, awaitRelease(c) PROVE CallsSound'
  <2>1. \A x \in Callers : /\ at'[x].row = at[x].row
                           /\ at'[x].step = IF x = c THEN "released" ELSE at[x].step
    BY <1>4, StepMoves DEF awaitRelease, TypeOK
  <2>2. at[c].step = "waiting" /\ ~Running(at[c].row.held) BY <1>4 DEF awaitRelease
  <2> QED BY <1>1, <2>1, <2>2 DEF CallsSound, Running, Alive, Callers, Wakers
<1>5. ASSUME NEW c \in Callers, Rest(c) PROVE CallsSound'
  BY <1>1, <1>5, RestSound
<1>6. Cancels \subseteq Callers BY DEF Callers
<1> QED BY <1>2, <1>3, <1>4, <1>5, <1>6 DEF cancelReleased, Abort

\* The supervisor, the owner, the daemon and a crash keep it: nothing gets past the record
\* while it says `requested` or `sleeping`, and a new process is none that was waited for.
LEMMA SessionSound ==
  ASSUME SleepInv, Owner \/ Heal \/ Turns \/ ManagedRuntimeExit \/ Killed
  PROVE  SleepSafe' /\ RecordSound' /\ CallsSound'
<1> USE DEF SleepInv
<1>1. UNCHANGED <<sleep, journal, at>>
  BY DEF Owner, Supervise, OwnerOpens, ownerShouldSleep, TmuxDrops, Heal, startHealed, HealStart,
         Turns, Dispatch, TurnEnds, ManagedRuntimeExit, Killed, fileVars, callVars
<1>2. AsleepOwesNothing'
  <2>1. sleepBlocksStart =>
          \A l \in Mail : /\ letter[l] \in {"none", "over"} => letter'[l] \in {"none", "over"}
                          /\ letter[l] # "begun" => letter'[l] # "begun"
    BY DEF Owner, Supervise, OwnerOpens, ownerShouldSleep, TmuxDrops, Heal, startHealed,
           HealStart, Turns, Dispatch, TurnEnds, ManagedRuntimeExit, Killed, Interrupted,
           TypeOK, ProcessType
  <2> QED BY <1>1, <2>1 DEF SleepSafe, AsleepOwesNothing, sleepBlocksStart, Mail
<1> SUFFICES AsleepStaysDown' /\ RecordSound' /\ CallsSound' BY <1>2 DEF SleepSafe
\* The same process, and it executes only if it did or the record let it.
<1>3. ASSUME UNCHANGED started, Alive' => Alive,
             Executing' => Executing \/ ~sleepBlocksStart
      PROVE  AsleepStaysDown' /\ RecordSound' /\ CallsSound'
  <2>1. AsleepStaysDown' BY <1>1, <1>3 DEF SleepSafe, AsleepStaysDown, sleepBlocksStart
  <2>2. RecordSound' BY <1>1, <1>3 DEF RecordSound, sleepBlocksStart
  <2>3. CallsSound' BY <1>1, <1>3 DEF CallsSound, Running
  <2> QED BY <2>1, <2>2, <2>3
<1>4. ASSUME session' = "starting", started' = started + 1
      PROVE  AsleepStaysDown' /\ RecordSound' /\ CallsSound'
  <2>1. started \in Nat BY DEF TypeOK, ProcessType, Processes
  <2>2. sleep.held \in Nat /\ \A x \in Callers : at[x].row.held \in Nat
    BY DEF TypeOK, FileType, CallType, Records, Call
  <2>3. AsleepStaysDown' /\ RecordSound'
    BY <1>1, <1>4, <2>1, <2>2 DEF AsleepStaysDown, RecordSound, Executing
  <2>4. CallsSound'
    BY <1>1, <1>4, <2>1, <2>2 DEF CallsSound, Running, Alive, Callers
  <2> QED BY <2>3, <2>4
<1>5. CASE Owner
  BY <1>3, <1>5
  DEF Owner, Supervise, OwnerOpens, ownerShouldSleep, TmuxDrops, Alive, Executing
<1>6. CASE Heal
  BY <1>3, <1>4, <1>6 DEF Heal, startHealed, HealStart, startSession, Alive, Executing
<1>7. CASE Turns
  BY <1>3, <1>7 DEF Turns, Dispatch, TurnEnds, procVars, Alive, Executing
<1>8. CASE ManagedRuntimeExit \/ Killed
  BY <1>3, <1>8 DEF ManagedRuntimeExit, Killed, Alive, Executing
<1> QED BY <1>5, <1>6, <1>7, <1>8

\* A letter that is only appended waits in the ledger, whatever the record says.
LEMMA PostSound ==
  ASSUME SleepInv, NEW l \in Posts, appendMessage(l)
  PROVE  SleepInv'
<1> USE DEF SleepInv
<1>1. /\ l \in Mail /\ l \notin Letters
      /\ UNCHANGED <<fileVars, procVars, callVars, lock>>
      /\ letter' = [letter EXCEPT ![l] = "accepted"]
  BY SleepAssumption DEF appendMessage, Mail, Callers, Wakers
<1>2. letter \in [Mail -> Places] BY DEF TypeOK, ProcessType
<1>3. letter' \in [Mail -> Places] BY <1>1, <1>2 DEF Places
<1>4. TypeOK'
  BY <1>1, <1>3 DEF TypeOK, FileType, ProcessType, CallType, fileVars, procVars, callVars
<1>5. AsleepOwesNothing'
  BY <1>1, <1>2 DEF SleepSafe, AsleepOwesNothing, sleepBlocksStart, fileVars, Mail
<1>6. AsleepStaysDown' /\ RecordSound' /\ CallsSound'
  BY <1>1 DEF SleepSafe, AsleepStaysDown, RecordSound, CallsSound, Executing, Running, Alive,
    fileVars, procVars, callVars
<1> QED BY <1>4, <1>5, <1>6 DEF SleepSafe

\* At first the record is nobody's and the process that is there runs.
LEMMA InitSound == Init => SleepInv
<1> SUFFICES ASSUME Init PROVE SleepInv OBVIOUS
<1> USE DEF Init
<1>1. 1 \in Processes /\ {} \in SUBSET Processes /\ 0 \in 0..MaxAborts /\ 1 \in 0..MaxStarts
  BY SleepAssumption DEF Processes
<1>2. FileType BY <1>1, AwakeTypes DEF FileType
<1>3. ProcessType BY <1>1 DEF ProcessType, Places
<1>4. CallType BY <1>1, AwakeTypes DEF CallType, Answers
<1>5. SleepSafe /\ RecordSound
  BY DEF SleepSafe, AsleepOwesNothing, AsleepStaysDown, RecordSound, sleepBlocksStart, Awake
<1>6. CallsSound BY DEF CallsSound, Idle, Awake, Callers, Wakers
<1> QED BY <1>2, <1>3, <1>4, <1>5, <1>6 DEF SleepInv, TypeOK

\* Every step keeps the invariant.
LEMMA NextSound == SleepInv /\ [Next]_vars => SleepInv'
<1> SUFFICES ASSUME SleepInv, [Next]_vars PROVE SleepInv' OBVIOUS
<1>1. TypeOK /\ RecordSound BY DEF SleepInv
<1>2. CASE \E s \in SleepOps : Sleeping(s)
  BY <1>1, <1>2, SleepingTypes, SleepingSound DEF SleepInv
<1>3. CASE \/ \E w \in WakeOps : wakeSession(w)
           \/ \E l \in Letters : acceptControlMessage(l)
  BY <1>1, <1>3, AdmitTypes, AdmitSound DEF SleepInv
<1>4. CASE \E w \in Wakers : Waking(w) \/ BudgetEnds(w)
  BY <1>1, <1>4, WakingTypes, WakingSound DEF SleepInv
<1>5. CASE \/ \E c \in Cancels : cancelDelegation(c) \/ cancelReleased(c)
           \/ \E c \in Callers : awaitRelease(c) \/ Abort(c)
  BY <1>1, <1>5, CallerTypes, CallerSound DEF SleepInv
<1>6. CASE Owner \/ Heal \/ Turns \/ ManagedRuntimeExit \/ Killed
  BY <1>1, <1>6, SessionTypes, SessionSound DEF SleepInv
<1>8. CASE \E l \in Posts : appendMessage(l) BY <1>8, PostSound
<1>7. CASE UNCHANGED vars
  BY <1>7
  DEF vars, fileVars, procVars, callVars, SleepInv, TypeOK, FileType, ProcessType, CallType,
      SleepSafe, AsleepOwesNothing, AsleepStaysDown, RecordSound, CallsSound, sleepBlocksStart,
      Executing, Running, Alive
<1> QED BY <1>2, <1>3, <1>4, <1>5, <1>6, <1>7, <1>8 DEF Next

\* What makes the properties of session.sleep and session.wake inductive holds for ever: the
\* process a record names was started, what a caller waits for is the process of its row, and
\* what it saw go stays gone.
THEOREM SleepInductive == Spec => []SleepInv
<1> QED BY InitSound, NextSound, PTL DEF Spec

-----------------------------------------------------------------------------
(* The properties.                                                         *)

\* A session that is asked to sleep owes nothing that message.send accepted and has no turn in
\* hand, though a letter that was appended without the lock may wait for it; and while its
\* record says `sleeping` nothing of it executes, whatever the supervisor, heal, a wake and a
\* message were doing when it was put to sleep.
THEOREM SleepIsSafe == Spec => []SleepSafe
<1>1. SleepInv => SleepSafe BY DEF SleepInv
<1> QED BY <1>1, SleepInductive, PTL

\* A step of one call leaves the other calls and what they were told alone.
LEMMA OthersStay ==
  ASSUME CallType, NEW c \in Callers, NEW x \in Callers, x # c,
         \/ c \in SleepOps /\ Sleeping(c)
         \/ c \in WakeOps /\ wakeSession(c)
         \/ c \in Letters /\ acceptControlMessage(c)
         \/ Waking(c) \/ BudgetEnds(c) \/ cancelDelegation(c) \/ cancelReleased(c)
         \/ awaitRelease(c) \/ Abort(c)
  PROVE  at'[x] = at[x] /\ told'[x] = told[x]
<1> USE DEF CallType, Step, Holding, Rest, Answer, Refuse
<1>1. CASE c \in SleepOps /\ Sleeping(c)
  BY <1>1 DEF Sleeping, readIdle, sleepSession, sleepSettle
<1>2. CASE (c \in WakeOps /\ wakeSession(c)) \/ (c \in Letters /\ acceptControlMessage(c))
  BY <1>2 DEF wakeSession, acceptControlMessage
<1>3. CASE Waking(c)
  BY <1>3 DEF Waking, wakeRead, wakeWrite, wakeStart, wakeAck, wakeDone
<1>4. CASE BudgetEnds(c) \/ cancelDelegation(c) \/ cancelReleased(c)
  BY <1>4 DEF BudgetEnds, cancelDelegation, cancelReleased
<1>5. CASE awaitRelease(c) \/ Abort(c)
  BY <1>5 DEF awaitRelease, Abort
<1> QED BY <1>1, <1>2, <1>3, <1>4, <1>5

\* The steps that are nobody's call leave the calls and the answers alone.
LEMMA SessionLeavesCalls ==
  ASSUME \/ Owner \/ Heal \/ Turns \/ ManagedRuntimeExit \/ Killed
         \/ \E l \in Posts : appendMessage(l)
  PROVE  UNCHANGED <<at, told>>
BY DEF appendMessage, Owner, Supervise, OwnerOpens, ownerShouldSleep, TmuxDrops, Heal, startHealed, HealStart,
       Turns, Dispatch, TurnEnds, ManagedRuntimeExit, Killed, callVars

\* A wake moves only the sleep its durable record names: the record is read again under the
\* lock and compared with the one the wake waited for.
LEMMA WakeStep ==
  ASSUME SleepInv, Next, NEW w \in WakeOps,
         at[w].step = "released", at'[w].step = "starting"
  PROVE  sleep.op = journal[w].op
<1>1. /\ w \in Wakers /\ w \in Callers /\ w \notin SleepOps /\ w \notin Letters
      /\ w \notin Cancels
  BY SleepAssumption DEF Wakers, Callers
<1>2. CallType /\ at \in [Callers -> Call] BY DEF SleepInv, TypeOK, CallType
<1>3. SleepOps \subseteq Callers /\ WakeOps \subseteq Callers /\ Letters \subseteq Callers
      /\ Wakers \subseteq Callers /\ Cancels \subseteq Callers
  BY DEF Callers, Wakers
<1>4. CASE \/ \E s \in SleepOps : Sleeping(s)
           \/ \E l \in Letters : acceptControlMessage(l)
           \/ \E c \in Cancels : cancelDelegation(c) \/ cancelReleased(c)
  BY <1>1, <1>2, <1>3, <1>4, OthersStay
<1>5. CASE \/ \E v \in WakeOps \ {w} : wakeSession(v)
           \/ \E v \in Wakers \ {w} : Waking(v) \/ BudgetEnds(v)
           \/ \E c \in Callers \ {w} : awaitRelease(c) \/ Abort(c)
  BY <1>1, <1>2, <1>3, <1>5, OthersStay
<1>6. CASE wakeWrite(w)
  <2>1. sleep.op = at[w].row.op
    BY <1>1, <1>2, <1>6 DEF wakeWrite, Refuse, Rest, Idle
  <2> QED BY <2>1 DEF SleepInv, CallsSound
<1>7. CASE wakeSession(w) \/ wakeRead(w) \/ wakeStart(w) \/ wakeAck(w) \/ wakeDone(w)
  BY <1>7 DEF wakeSession, wakeRead, wakeStart, wakeAck, wakeDone
<1>8. CASE BudgetEnds(w) \/ awaitRelease(w) \/ Abort(w)
  BY <1>1, <1>2, <1>8 DEF BudgetEnds, awaitRelease, Abort, Rest, Idle
<1>9. CASE \/ Owner \/ Heal \/ Turns \/ ManagedRuntimeExit \/ Killed
           \/ \E l \in Posts : appendMessage(l)
  BY <1>9, SessionLeavesCalls
<1> QED BY <1>1, <1>4, <1>5, <1>6, <1>7, <1>8, <1>9 DEF Next, Waking

\* A caller is told that the session sleeps only when nothing of it executes.
LEMMA SleepStep ==
  ASSUME SleepInv, Next, NEW s \in SleepOps,
         told[s] # "sleeping", told'[s] = "sleeping"
  PROVE  ~Executing
<1>1. s \in Callers /\ s \notin Wakers /\ s \notin Cancels BY SleepAssumption DEF Callers
<1>2. CallType /\ told \in [Callers -> Answers] BY DEF SleepInv, TypeOK, CallType
<1>3. SleepOps \subseteq Callers /\ WakeOps \subseteq Callers /\ Letters \subseteq Callers
      /\ Wakers \subseteq Callers /\ Cancels \subseteq Callers
      /\ WakeOps \subseteq Wakers /\ Letters \subseteq Wakers
  BY DEF Callers, Wakers
<1>4. CASE \/ \E w \in WakeOps : wakeSession(w)
           \/ \E l \in Letters : acceptControlMessage(l)
           \/ \E w \in Wakers : Waking(w) \/ BudgetEnds(w)
           \/ \E c \in Cancels : cancelDelegation(c) \/ cancelReleased(c)
  BY <1>1, <1>2, <1>3, <1>4, OthersStay
<1>5. CASE \/ \E r \in SleepOps \ {s} : Sleeping(r)
           \/ \E c \in Callers \ {s} : awaitRelease(c) \/ Abort(c)
  BY <1>1, <1>2, <1>3, <1>5, OthersStay
<1>6. CASE sleepSettle(s)
  <2>1. sleep.op = s /\ sleep.phase \in {"requested", "sleeping"} /\ at[s].step = "released"
    BY <1>1, <1>2, <1>6 DEF sleepSettle, Refuse, Answer
  <2>2. ~Running(sleep.held) BY <2>1 DEF SleepInv, CallsSound
  <2> QED
    BY <2>1, <2>2
    DEF SleepInv, SleepSafe, AsleepStaysDown, RecordSound, Executing, Running, Alive
<1>7. CASE readIdle(s) \/ sleepSession(s)
  BY <1>1, <1>2, <1>7 DEF readIdle, sleepSession, Refuse, Answer
<1>8. CASE awaitRelease(s) \/ Abort(s)
  BY <1>8 DEF awaitRelease, Abort
<1>9. CASE \/ Owner \/ Heal \/ Turns \/ ManagedRuntimeExit \/ Killed
           \/ \E l \in Posts : appendMessage(l)
  BY <1>9, SessionLeavesCalls
<1> QED BY <1>4, <1>5, <1>6, <1>7, <1>8, <1>9 DEF Next, Sleeping

\* A pending wake does not wake the next sleep, and a caller is not told that the session
\* sleeps while something of it executes.
THEOREM SleepAnswersTrue == Spec => SleepAnswers
<1>1. SleepInv /\ [Next]_vars =>
        [\A w \in WakeOps : at[w].step = "released" /\ at'[w].step = "starting"
           => sleep.op = journal[w].op]_vars
  BY WakeStep
<1>2. SleepInv /\ [Next]_vars =>
        [\A s \in SleepOps : told[s] # "sleeping" /\ told'[s] = "sleeping" => ~Executing]_vars
  BY SleepStep
<1> QED
  BY <1>1, <1>2, SleepInductive, PTL
  DEF Spec, SleepAnswers, WakeNamesItsSleep, SleepReceiptTrue

-----------------------------------------------------------------------------
(* The feeds are those the proofs are about.                               *)

\* The content and the events, and the events again with the bounds of the rotation.
Feeds == INSTANCE FeedProofs WITH Names <- {"n1", "n2"}, States <- {"a"}, MaxBytes <- 9,
  MaxEvents <- 2, MaxPasses <- 2, MaxDaemons <- 2, MaxLost <- 0, file <- p1, writer <- p2,
  count <- p3, pub <- p4, snap <- p5, past <- p6, reader <- p7, lost <- p8, passes <- p9,
  Texts <- {"t1"}, Requests <- {"q1"}, MaxRecords <- 2, MaxItems <- 1, MaxPositions <- 2,
  ItemUnits <- 1, MaxUnits <- 2, MaxGenerations <- 1, MaxResets <- 1,
  buf <- p2, next <- p3, writing <- p4, native <- p5, live <- p6, resets <- p8
Rotated == INSTANCE FeedProofs WITH Names <- {"n1"}, States <- {"a"}, MaxBytes <- 1,
  MaxEvents <- 3, MaxPasses <- 1, MaxDaemons <- 2, MaxLost <- 1, file <- p1, writer <- p2,
  count <- p3, pub <- p4, snap <- p5, past <- p6, reader <- p7, lost <- p8, passes <- p9,
  Texts <- {"t1"}, Requests <- {"q1"}, MaxRecords <- 2, MaxItems <- 1, MaxPositions <- 2,
  ItemUnits <- 1, MaxUnits <- 2, MaxGenerations <- 1, MaxResets <- 1,
  buf <- p2, next <- p3, writing <- p4, native <- p5, live <- p6, resets <- p8

\* The events of the run are those of the proofs, definition by definition.
LEMMA EventsSame ==
  /\ Events!ConstantsOK <=> Feeds!Events!ConstantsOK
  /\ Events!Init <=> Feeds!Events!Init
  /\ Events!Next <=> Feeds!Events!Next
  /\ Events!TypeOK <=> Feeds!Events!TypeOK
  /\ Events!EventsInv <=> Feeds!Events!EventsInv
  /\ Events!FollowedInOrder <=> Feeds!Events!FollowedInOrder
  /\ Events!MirrorTrue <=> Feeds!Events!MirrorTrue
  /\ Events!vars = Feeds!Events!vars
<1>1. Events!ConstantsOK <=> Feeds!Events!ConstantsOK
  BY DEF
    Events!Events, Events!ConstantsOK, Feeds!Events!Events, Feeds!Events!ConstantsOK
<1>2. Events!Init <=> Feeds!Events!Init
  BY DEF
    Events!Keep, Events!Files, Events!Writers, Events!NoRows, Events!Idle, Events!Publisher,
    Events!Init, Feeds!Events!Keep, Feeds!Events!Files, Feeds!Events!Writers, Feeds!Events!NoRows,
    Feeds!Events!Idle, Feeds!Events!Publisher, Feeds!Events!Init
<1>3. Events!Next <=> Feeds!Events!Next
  BY DEF
    Events!Keep, Events!Files, Events!Writers, Events!Rows, Events!NoRows, Events!Idle,
    Events!Publisher, Events!Size, Events!To, Events!Offer, Events!feedVars, Events!Stat,
    Events!Shift, Events!Write, Events!HookEvent, Events!Pass, Events!Change, Events!Snapshot,
    Events!WriteSnapshot, Events!NextDaemon, Events!applied, Events!Mirrored, Events!Numbers,
    Events!Deliver, Events!List, Events!ReadOldest, Events!Start, Events!Drain,
    Events!ReadInventory, Events!Next, Feeds!Events!Keep, Feeds!Events!Files,
    Feeds!Events!Writers, Feeds!Events!Rows, Feeds!Events!NoRows, Feeds!Events!Idle,
    Feeds!Events!Publisher, Feeds!Events!Size, Feeds!Events!To, Feeds!Events!Offer,
    Feeds!Events!feedVars, Feeds!Events!Stat, Feeds!Events!Shift, Feeds!Events!Write,
    Feeds!Events!HookEvent, Feeds!Events!Pass, Feeds!Events!Change, Feeds!Events!Snapshot,
    Feeds!Events!WriteSnapshot, Feeds!Events!NextDaemon, Feeds!Events!applied,
    Feeds!Events!Mirrored, Feeds!Events!Numbers, Feeds!Events!Deliver, Feeds!Events!List,
    Feeds!Events!ReadOldest, Feeds!Events!Start, Feeds!Events!Drain, Feeds!Events!ReadInventory,
    Feeds!Events!Next
<1>4. Events!TypeOK <=> Feeds!Events!TypeOK
  BY DEF
    Events!Keep, Events!Files, Events!Writers, Events!Rows, Events!Events, Events!Snapshots,
    Events!Appends, Events!Publishers, Events!Readers, Events!TypeOK, Feeds!Events!Keep,
    Feeds!Events!Files, Feeds!Events!Writers, Feeds!Events!Rows, Feeds!Events!Events,
    Feeds!Events!Snapshots, Feeds!Events!Appends, Feeds!Events!Publishers, Feeds!Events!Readers,
    Feeds!Events!TypeOK
<1>5. Events!EventsInv <=> Feeds!Events!EventsInv
  BY ZenonT(40) DEF
    Events!Keep, Events!Files, Events!Writers, Events!NoRows, Events!Size, Events!Events,
    Events!FollowedInOrder, Events!Held, Events!RowsAt, Events!FilesSound, Events!Newer,
    Events!ReaderSound, Events!EventTrue, Events!EventsSound, Events!RowsSound,
    Events!PublisherSound, Events!MirrorsSound, Events!EventsInv, Feeds!Events!Keep,
    Feeds!Events!Files, Feeds!Events!Writers, Feeds!Events!NoRows, Feeds!Events!Size,
    Feeds!Events!Events, Feeds!Events!FollowedInOrder, Feeds!Events!Held, Feeds!Events!RowsAt,
    Feeds!Events!FilesSound, Feeds!Events!Newer, Feeds!Events!ReaderSound, Feeds!Events!EventTrue,
    Feeds!Events!EventsSound, Feeds!Events!RowsSound, Feeds!Events!PublisherSound,
    Feeds!Events!MirrorsSound, Feeds!Events!EventsInv
<1>6. Events!FollowedInOrder <=> Feeds!Events!FollowedInOrder
  BY DEF
    Events!FollowedInOrder, Feeds!Events!FollowedInOrder
<1>7. Events!MirrorTrue <=> Feeds!Events!MirrorTrue
  BY DEF
    Events!MirrorTrue, Feeds!Events!MirrorTrue
<1>8. Events!vars = Feeds!Events!vars BY DEF Events!vars, Feeds!Events!vars
<1> QED BY <1>1, <1>2, <1>3, <1>4, <1>5, <1>6, <1>7, <1>8

\* So are those of the rotation.
LEMMA RotationSame ==
  /\ Rotation!ConstantsOK <=> Rotated!Events!ConstantsOK
  /\ Rotation!Init <=> Rotated!Events!Init
  /\ Rotation!Next <=> Rotated!Events!Next
  /\ Rotation!TypeOK <=> Rotated!Events!TypeOK
  /\ Rotation!EventsInv <=> Rotated!Events!EventsInv
  /\ Rotation!FollowedInOrder <=> Rotated!Events!FollowedInOrder
  /\ Rotation!MirrorTrue <=> Rotated!Events!MirrorTrue
  /\ Rotation!vars = Rotated!Events!vars
<1>1. Rotation!ConstantsOK <=> Rotated!Events!ConstantsOK
  BY ZenonT(40) DEF
    Rotation!Events, Rotation!ConstantsOK, Rotated!Events!Events, Rotated!Events!ConstantsOK
<1>2. Rotation!Init <=> Rotated!Events!Init
  BY DEF
    Rotation!Keep, Rotation!Files, Rotation!Writers, Rotation!NoRows, Rotation!Idle,
    Rotation!Publisher, Rotation!Init, Rotated!Events!Keep, Rotated!Events!Files,
    Rotated!Events!Writers, Rotated!Events!NoRows, Rotated!Events!Idle, Rotated!Events!Publisher,
    Rotated!Events!Init
<1>3. Rotation!Next <=> Rotated!Events!Next
  BY ZenonT(40) DEF
    Rotation!Keep, Rotation!Files, Rotation!Writers, Rotation!Rows, Rotation!NoRows,
    Rotation!Idle, Rotation!Publisher, Rotation!Size, Rotation!To, Rotation!Offer,
    Rotation!feedVars, Rotation!Stat, Rotation!Shift, Rotation!Write, Rotation!HookEvent,
    Rotation!Pass, Rotation!Change, Rotation!Snapshot, Rotation!WriteSnapshot,
    Rotation!NextDaemon, Rotation!applied, Rotation!Mirrored, Rotation!Numbers, Rotation!Deliver,
    Rotation!List, Rotation!ReadOldest, Rotation!Start, Rotation!Drain, Rotation!ReadInventory,
    Rotation!Next, Rotated!Events!Keep, Rotated!Events!Files, Rotated!Events!Writers,
    Rotated!Events!Rows, Rotated!Events!NoRows, Rotated!Events!Idle, Rotated!Events!Publisher,
    Rotated!Events!Size, Rotated!Events!To, Rotated!Events!Offer, Rotated!Events!feedVars,
    Rotated!Events!Stat, Rotated!Events!Shift, Rotated!Events!Write, Rotated!Events!HookEvent,
    Rotated!Events!Pass, Rotated!Events!Change, Rotated!Events!Snapshot,
    Rotated!Events!WriteSnapshot, Rotated!Events!NextDaemon, Rotated!Events!applied,
    Rotated!Events!Mirrored, Rotated!Events!Numbers, Rotated!Events!Deliver, Rotated!Events!List,
    Rotated!Events!ReadOldest, Rotated!Events!Start, Rotated!Events!Drain,
    Rotated!Events!ReadInventory, Rotated!Events!Next
<1>4. Rotation!TypeOK <=> Rotated!Events!TypeOK
  BY ZenonT(40) DEF
    Rotation!Keep, Rotation!Files, Rotation!Writers, Rotation!Rows, Rotation!Events,
    Rotation!Snapshots, Rotation!Appends, Rotation!Publishers, Rotation!Readers, Rotation!TypeOK,
    Rotated!Events!Keep, Rotated!Events!Files, Rotated!Events!Writers, Rotated!Events!Rows,
    Rotated!Events!Events, Rotated!Events!Snapshots, Rotated!Events!Appends,
    Rotated!Events!Publishers, Rotated!Events!Readers, Rotated!Events!TypeOK
<1>5. Rotation!EventsInv <=> Rotated!Events!EventsInv
  BY ZenonT(40) DEF
    Rotation!Keep, Rotation!Files, Rotation!Writers, Rotation!NoRows, Rotation!Size,
    Rotation!Events, Rotation!FollowedInOrder, Rotation!Held, Rotation!RowsAt,
    Rotation!FilesSound, Rotation!Newer, Rotation!ReaderSound, Rotation!EventTrue,
    Rotation!EventsSound, Rotation!RowsSound, Rotation!PublisherSound, Rotation!MirrorsSound,
    Rotation!EventsInv, Rotated!Events!Keep, Rotated!Events!Files, Rotated!Events!Writers,
    Rotated!Events!NoRows, Rotated!Events!Size, Rotated!Events!Events,
    Rotated!Events!FollowedInOrder, Rotated!Events!Held, Rotated!Events!RowsAt,
    Rotated!Events!FilesSound, Rotated!Events!Newer, Rotated!Events!ReaderSound,
    Rotated!Events!EventTrue, Rotated!Events!EventsSound, Rotated!Events!RowsSound,
    Rotated!Events!PublisherSound, Rotated!Events!MirrorsSound, Rotated!Events!EventsInv
<1>6. Rotation!FollowedInOrder <=> Rotated!Events!FollowedInOrder
  BY DEF
    Rotation!FollowedInOrder, Rotated!Events!FollowedInOrder
<1>7. Rotation!MirrorTrue <=> Rotated!Events!MirrorTrue
  BY DEF
    Rotation!MirrorTrue, Rotated!Events!MirrorTrue
<1>8. Rotation!vars = Rotated!Events!vars BY DEF Rotation!vars, Rotated!Events!vars
<1> QED BY <1>1, <1>2, <1>3, <1>4, <1>5, <1>6, <1>7, <1>8

\* What the buffer keeps of a text, given what it knows of it (Text of ContentFeed): the records
\* it pushes, and the state it remembers.
TextRecords(prior, i, op, n, real, complete) ==
  LET edition == IF prior = None THEN 1 ELSE IF op = "replace" THEN prior.rev + 1 ELSE prior.rev
      offset == IF prior = None \/ op = "replace" THEN 0 ELSE prior.total
      known == op = "replace" \/ offset = 0 \/ prior.known
      record(k) == [seq |-> 0, item |-> i, op |-> IF k = 1 THEN op ELSE "append", rev |-> edition,
        offset |-> offset + k - 1, units |-> IF n = 0 THEN 0 ELSE 1, real |-> real + k - 1,
        known |-> known, complete |-> complete /\ k = (IF n = 0 THEN 1 ELSE n)]
  IN [k \in 1..(IF n = 0 THEN 1 ELSE n) |-> record(k)]
TextState(prior, i, op, n, real, complete) ==
  LET edition == IF prior = None THEN 1 ELSE IF op = "replace" THEN prior.rev + 1 ELSE prior.rev
      offset == IF prior = None \/ op = "replace" THEN 0 ELSE prior.total
      known == op = "replace" \/ offset = 0 \/ prior.known
      total == offset + n
      start == IF op = "append" /\ prior # None THEN prior.from ELSE offset
      from == IF total - start > 1 THEN total - 1 ELSE start
  IN [item |-> i, rev |-> edition, from |-> from, total |-> total,
      real |-> real + n, known |-> known /\ from = 0,
      complete |-> complete /\ known /\ from = 0, status |-> "text"]
TextKnown(prior, op) ==
  op = "replace" \/ (IF prior = None \/ op = "replace" THEN 0 ELSE prior.total) = 0 \/ prior.known

\* The buffers are those of the proofs.
LEMMA BufferSame ==
  /\ \A b, rs : Feeds!Content!Pushed(b, rs) = Content!Pushed(b, rs)
  /\ \A ss : Feeds!Content!Bounded(ss) = Content!Bounded(ss)
  /\ \A s, i : Feeds!Content!Without(s, i) = Content!Without(s, i)
  /\ \A b, r : Feeds!Content!rememberPosition(b, r) = Content!rememberPosition(b, r)
  /\ \A b, i, status : Feeds!Content!lifecycle(b, i, status) = Content!lifecycle(b, i, status)
<1>1. \A b, rs : Feeds!Content!Pushed(b, rs) = Content!Pushed(b, rs)
  BY DEF
    Content!LastOf, Content!Pushed, Feeds!Content!LastOf, Feeds!Content!Pushed
<1>2. \A ss : Feeds!Content!Bounded(ss) = Content!Bounded(ss)
  BY DEF
    Content!RemovedAt, Content!Bounded, Feeds!Content!RemovedAt, Feeds!Content!Bounded
<1>3. \A s, i : Feeds!Content!Without(s, i) = Content!Without(s, i)
  BY DEF
    Content!Has, Content!At, Content!RemovedAt, Content!Without, Feeds!Content!Has,
    Feeds!Content!At, Feeds!Content!RemovedAt, Feeds!Content!Without
<1>4. \A b, r : Feeds!Content!rememberPosition(b, r) = Content!rememberPosition(b, r)
  BY DEF
    Content!LastOf, Content!Has, Content!At, Content!RemovedAt, Content!Without,
    Content!rememberPosition, Feeds!Content!LastOf, Feeds!Content!Has, Feeds!Content!At,
    Feeds!Content!RemovedAt, Feeds!Content!Without, Feeds!Content!rememberPosition
<1>5. \A b, i, status : Feeds!Content!lifecycle(b, i, status) = Content!lifecycle(b, i, status)
  BY DEF
    Content!LastOf, Content!Has, Content!At, Content!RemovedAt, Content!Without, Content!Row,
    Content!Pushed, Content!Bounded, Content!lifecycle, Feeds!Content!LastOf, Feeds!Content!Has,
    Feeds!Content!At, Feeds!Content!RemovedAt, Feeds!Content!Without, Feeds!Content!Row,
    Feeds!Content!Pushed, Feeds!Content!Bounded, Feeds!Content!lifecycle
<1> QED BY <1>1, <1>2, <1>3, <1>4, <1>5

\* A text is taken in the same way.
LEMMA TextSame ==
  /\ \A b, i, op, n, real, complete :
       Feeds!Content!Text(b, i, op, n, real, complete) = Content!Text(b, i, op, n, real, complete)
  /\ \A b, i, op, n, complete :
       Feeds!Content!Refused(b, i, op, n, complete) <=> Content!Refused(b, i, op, n, complete)
<1>1. \A b, i, op, n, real, complete :
        Content!Text(b, i, op, n, real, complete) =
          [Content!Pushed(b, TextRecords(Content!Prior(b, i), i, op, n, real, complete)) EXCEPT
            !.states = Content!Bounded(Append(Content!Without(b.states, i),
                         TextState(Content!Prior(b, i), i, op, n, real, complete))),
            !.positions = Content!rememberPosition(b,
                            [TextState(Content!Prior(b, i), i, op, n, real, complete) EXCEPT
                              !.complete = complete, !.known = TextKnown(Content!Prior(b, i), op)])]
  BY DEF Content!Text, TextRecords, TextState, TextKnown
<1>2. \A b, i, op, n, real, complete :
        Feeds!Content!Text(b, i, op, n, real, complete) =
          [Feeds!Content!Pushed(b, TextRecords(Feeds!Content!Prior(b, i), i, op, n, real, complete)) EXCEPT
            !.states = Feeds!Content!Bounded(Append(Feeds!Content!Without(b.states, i),
                         TextState(Feeds!Content!Prior(b, i), i, op, n, real, complete))),
            !.positions = Feeds!Content!rememberPosition(b,
                            [TextState(Feeds!Content!Prior(b, i), i, op, n, real, complete) EXCEPT
                              !.complete = complete, !.known = TextKnown(Feeds!Content!Prior(b, i), op)])]
  BY DEF Feeds!Content!Text, TextRecords, TextState, TextKnown
<1>3. \A b, i : Feeds!Content!Prior(b, i) = Content!Prior(b, i)
  BY DEF
    Content!Has, Content!At, Content!Row, Content!Prior, Feeds!Content!Has, Feeds!Content!At,
    Feeds!Content!Row, Feeds!Content!Prior
<1>4. \A b, i, op, n, complete :
        Feeds!Content!Refused(b, i, op, n, complete) <=> Content!Refused(b, i, op, n, complete)
  BY DEF
    Content!Has, Content!At, Content!Row, Content!Prior, Content!Refused, Feeds!Content!Has,
    Feeds!Content!At, Feeds!Content!Row, Feeds!Content!Prior, Feeds!Content!Refused
<1>5. \A b, i, op, n, real, complete :
        Feeds!Content!Text(b, i, op, n, real, complete) = Content!Text(b, i, op, n, real, complete)
  BY <1>1, <1>2, <1>3, BufferSame
<1> QED BY <1>4, <1>5

\* A step of the content is the same step.
LEMMA ContentNextSame == Content!Next <=> Feeds!Content!Next
<1>1. \A i, n : Content!Delta(i, n) <=> Feeds!Content!Delta(i, n)
  BY TextSame, ZenonT(40)
  DEF Content!Delta, Feeds!Content!Delta, Content!Published, Feeds!Content!Published
<1>2. \A i : Content!Complete(i) <=> Feeds!Content!Complete(i)
  BY TextSame, ZenonT(40)
  DEF Content!Complete, Feeds!Content!Complete, Content!Published, Feeds!Content!Published
<1>3. \A i : Content!LateStart(i) <=> Feeds!Content!LateStart(i)
  BY TextSame, ZenonT(40)
  DEF Content!LateStart, Feeds!Content!LateStart, Content!Published, Feeds!Content!Published
<1>4. \A i : Content!Ask(i) <=> Feeds!Content!Ask(i)
  BY BufferSame, ZenonT(40)
  DEF Content!Ask, Feeds!Content!Ask, Content!Published, Feeds!Content!Published
<1>5. \A i : Content!Resolve(i) <=> Feeds!Content!Resolve(i)
  BY BufferSame, ZenonT(40)
  DEF Content!Resolve, Feeds!Content!Resolve, Content!Published, Feeds!Content!Published
<1>6. Content!resetContext <=> Feeds!Content!resetContext
  BY DEF
    Content!Items, Content!Fresh, Content!Empty, Content!Reset, Content!Published,
    Content!resetContext, Feeds!Content!Items, Feeds!Content!Fresh, Feeds!Content!Empty,
    Feeds!Content!Reset, Feeds!Content!Published, Feeds!Content!resetContext
<1>7. Content!flush <=> Feeds!Content!flush
  BY DEF
    Content!Snapshot, Content!flush, Feeds!Content!Snapshot, Feeds!Content!flush
<1>8. Content!Written <=> Feeds!Content!Written
  BY DEF
    Content!Written, Feeds!Content!Written
<1>9. Content!OwnerDies <=> Feeds!Content!OwnerDies
  BY DEF
    Content!OwnerDies, Feeds!Content!OwnerDies
<1>10. Content!OwnerOpens <=> Feeds!Content!OwnerOpens
  BY DEF
    Content!Items, Content!Fresh, Content!Empty, Content!Snapshot, Content!OwnerOpens,
    Feeds!Content!Items, Feeds!Content!Fresh, Feeds!Content!Empty, Feeds!Content!Snapshot,
    Feeds!Content!OwnerOpens
<1>11. Content!Read <=> Feeds!Content!Read
  BY DEF
    Content!contentReset, Content!Apply, Content!Applied, Content!Baseline, Content!Read,
    Feeds!Content!contentReset, Feeds!Content!Apply, Feeds!Content!Applied,
    Feeds!Content!Baseline, Feeds!Content!Read
<1> QED
  BY <1>1, <1>2, <1>3, <1>4, <1>5, <1>6, <1>7, <1>8, <1>9, <1>10, <1>11, Zenon DEF Content!Next, Feeds!Content!Next

\* The content of the run is that of the proofs.
LEMMA ContentSame ==
  /\ Content!ConstantsOK <=> Feeds!Content!ConstantsOK
  /\ Content!Init <=> Feeds!Content!Init
  /\ Content!TypeOK <=> Feeds!Content!TypeOK
  /\ Content!AppendsContinue <=> Feeds!Content!AppendsContinue
  /\ Content!ReaderTrue <=> Feeds!Content!ReaderTrue
  /\ Content!RequestsSurvive <=> Feeds!Content!RequestsSurvive
  /\ Content!vars = Feeds!Content!vars
<1>1. Content!ConstantsOK <=> Feeds!Content!ConstantsOK
  BY DEF
    Content!RecordsOf, Content!TextRecords, Content!Records, Content!RowsOf, Content!TextRows,
    Content!Rows, Content!Snapshots, Content!Cursors, Content!ConstantsOK, Content!IsFiniteSet,
    Content!Cardinality, Feeds!Content!RecordsOf, Feeds!Content!TextRecords,
    Feeds!Content!Records, Feeds!Content!RowsOf, Feeds!Content!TextRows, Feeds!Content!Rows,
    Feeds!Content!Snapshots, Feeds!Content!Cursors, Feeds!Content!ConstantsOK,
    Feeds!Content!IsFiniteSet, Feeds!Content!Cardinality
<1>2. Content!Init <=> Feeds!Content!Init
  BY DEF
    Content!Items, Content!Fresh, Content!Empty, Content!Snapshot, Content!Init,
    Feeds!Content!Items, Feeds!Content!Fresh, Feeds!Content!Empty, Feeds!Content!Snapshot,
    Feeds!Content!Init
<1>3. Content!TypeOK <=> Feeds!Content!TypeOK
  BY DEF
    Content!Items, Content!RecordsOf, Content!TextRecords, Content!Records, Content!RowsOf,
    Content!TextRows, Content!Rows, Content!Buffers, Content!Snapshots, Content!Cursors,
    Content!Held, Content!OneRow, Content!Numbered, Content!BufferOK, Content!TypeOK,
    Feeds!Content!Items, Feeds!Content!RecordsOf, Feeds!Content!TextRecords,
    Feeds!Content!Records, Feeds!Content!RowsOf, Feeds!Content!TextRows, Feeds!Content!Rows,
    Feeds!Content!Buffers, Feeds!Content!Snapshots, Feeds!Content!Cursors, Feeds!Content!Held,
    Feeds!Content!OneRow, Feeds!Content!Numbered, Feeds!Content!BufferOK, Feeds!Content!TypeOK
<1>4. Content!AppendsContinue <=> Feeds!Content!AppendsContinue
  BY DEF
    Content!AppendsContinue, Feeds!Content!AppendsContinue
<1>5. Content!ReaderTrue <=> Feeds!Content!ReaderTrue
  BY DEF
    Content!ReaderTrue, Feeds!Content!ReaderTrue
<1>6. Content!RequestsSurvive <=> Feeds!Content!RequestsSurvive
  BY DEF
    Content!RequestsSurvive, Content!IsFiniteSet, Content!Cardinality,
    Feeds!Content!RequestsSurvive, Feeds!Content!IsFiniteSet, Feeds!Content!Cardinality
<1>7. Content!vars = Feeds!Content!vars BY DEF Content!vars, Feeds!Content!vars
<1> QED BY <1>1, <1>2, <1>3, <1>4, <1>5, <1>6, <1>7

-----------------------------------------------------------------------------
(* The components together.                                                 *)

\* The inductive invariant of the component that runs.
PartInv ==
  /\ part = "sleep" => SleepInv
  /\ part = "create" => Machine!Create!TypeOK /\ Machine!Create!CreateInv
  /\ part = "asks" => Session!Asks!TypeOK /\ Session!Asks!RequestsInv
  /\ part = "release" => Machine!SoundRelease
  /\ part = "uploads" => Machine!StoreInv
  /\ part = "watch" => Machine!KeptWatch
  /\ part = "context" => Session!SoundContext
  /\ part = "lease" => Machine!Lease!TypeOK /\ Machine!Lease!LeaseInv
  /\ part = "content" => Feeds!SoundContent
  /\ part = "events" => Feeds!SoundEvents
  /\ part = "rotation" => Rotated!SoundEvents
  /\ part = "usage" => Usage!UsageInductive

\* At first the component that runs is in its initial state.
LEMMA PartInit ==
  ASSUME PartsInit
  PROVE  PartInv
<1> USE PartConstants
<1>1. CASE part = "sleep" /\ Init BY <1>1, InitSound DEF PartInv
<1>2. CASE part = "create" /\ Machine!Create!Init BY <1>2, Machine!CreateInit DEF PartInv
<1>3. CASE part = "asks" /\ Session!Asks!Init
  BY <1>3, Session!AsksTypeInit, Session!RequestsInit DEF PartInv
<1>4. CASE part = "release" /\ Machine!Release!Init BY <1>4, Machine!ReleaseInit DEF PartInv
<1>5. CASE part = "uploads" /\ Machine!Store!Init BY <1>5, Machine!StoreInit DEF PartInv
<1>6. CASE part = "watch" /\ Machine!Watch!Init BY <1>6, Machine!WatchInit DEF PartInv
<1>7. CASE part = "context" /\ Session!Context!Init BY <1>7, Session!ContextInit DEF PartInv
<1>8. CASE part = "lease" /\ Machine!Lease!Init
  BY <1>8, Machine!LeaseTypeInit, Machine!LeaseInit DEF PartInv
<1>9. CASE part = "content" /\ Content!Init BY <1>9, ContentSame, Feeds!ContentInit DEF PartInv
<1>10. CASE part = "events" /\ Events!Init BY <1>10, EventsSame, Feeds!EventsInit DEF PartInv
<1>11. CASE part = "rotation" /\ Rotation!Init
  BY <1>11, RotationSame, Rotated!EventsInit DEF PartInv
<1>12. CASE part = "usage" /\ Usage!Init BY <1>12, Usage!UsageStarts DEF PartInv
<1> QED
  BY <1>1, <1>2, <1>3, <1>4, <1>5, <1>6, <1>7, <1>8, <1>9, <1>10, <1>11, <1>12 DEF PartsInit

\* What stutters as a whole stutters in each component.
LEMMA PartsRest ==
  ASSUME UNCHANGED all
  PROVE  /\ UNCHANGED part /\ UNCHANGED vars
         /\ UNCHANGED Machine!Create!vars /\ UNCHANGED Machine!Release!vars
         /\ UNCHANGED Machine!Store!vars /\ UNCHANGED Machine!Watch!vars
         /\ UNCHANGED Machine!Lease!vars
         /\ UNCHANGED Session!Asks!vars /\ UNCHANGED Session!Context!vars
         /\ UNCHANGED Feeds!Content!vars /\ UNCHANGED Feeds!Events!vars
         /\ UNCHANGED Rotated!Events!vars /\ UNCHANGED Usage!vars
<1>1. /\ UNCHANGED <<part, p1, p2, p3, p4, p5, p6, p7, p8, p9, p10, p11, p12, p13, p14, p15, p16,
                     p17, p18>>
      /\ UNCHANGED vars
  BY DEF all, pool
<1>2. UNCHANGED Machine!Create!vars BY <1>1 DEF Machine!Create!vars
<1>3. UNCHANGED Machine!Release!vars
  BY <1>1 DEF Machine!Release!vars, Machine!Release!disk, Machine!Release!guard
<1>4. UNCHANGED Machine!Store!vars BY <1>1 DEF Machine!Store!vars
<1>5. UNCHANGED Machine!Watch!vars BY <1>1 DEF Machine!Watch!vars
<1>6. UNCHANGED Machine!Lease!vars BY <1>1 DEF Machine!Lease!vars
<1>7. UNCHANGED Session!Asks!vars
  BY <1>1 DEF Session!Asks!vars, Session!Asks!files, Session!Asks!owner, Session!Asks!provider,
    Session!Asks!callers, Session!Asks!ghosts
<1>8. UNCHANGED Session!Context!vars
  BY <1>1 DEF Session!Context!vars, Session!Context!journal, Session!Context!input,
    Session!Context!owner, Session!Context!runs
<1>9. UNCHANGED Feeds!Content!vars BY <1>1 DEF Feeds!Content!vars
<1>10. UNCHANGED Feeds!Events!vars BY <1>1 DEF Feeds!Events!vars
<1>11. UNCHANGED Rotated!Events!vars BY <1>1 DEF Rotated!Events!vars
<1>12. UNCHANGED Usage!vars BY <1>1 DEF Usage!vars
<1> QED BY <1>1, <1>2, <1>3, <1>4, <1>5, <1>6, <1>7, <1>8, <1>9, <1>10, <1>11, <1>12

\* A step is a step of the component that runs.
LEMMA PartSteps ==
  ASSUME PartsNext
  PROVE  /\ part' = part
         /\ part = "sleep" => Next
         /\ part = "create" => Machine!Create!Next
         /\ part = "asks" => Session!Asks!Next
         /\ part = "release" => Machine!Release!Next
         /\ part = "uploads" => Machine!Store!Next
         /\ part = "watch" => Machine!Watch!Next
         /\ part = "context" => Session!Context!Next
         /\ part = "lease" => Machine!Lease!Next
         /\ part = "content" => Feeds!Content!Next
         /\ part = "events" => Feeds!Events!Next
         /\ part = "rotation" => Rotated!Events!Next
         /\ part = "usage" => Usage!Next
BY ContentNextSame, EventsSame, RotationSame
DEF PartsNext, InSleep, InCreate, InAsks, InRelease, InContent, InUploads, InWatch, InEvents,
  InRotation, InContext, InLease, InUsage

\* A step of the component that runs keeps its invariant.
LEMMA PartKept ==
  ASSUME PartInv, [PartsNext]_all
  PROVE  PartInv'
<1> USE PartConstants
<1>0. part' = part BY PartSteps, PartsRest
<1>1. CASE part = "sleep" BY <1>0, <1>1, PartSteps, PartsRest, NextSound DEF PartInv
<1>2. CASE part = "create"
  BY <1>0, <1>2, PartSteps, PartsRest, Machine!CreateTypeKept, Machine!CreateKept DEF PartInv
<1>3. CASE part = "asks"
  BY <1>0, <1>3, PartSteps, PartsRest, Session!AsksTypeKept, Session!RequestsKept DEF PartInv
<1>4. CASE part = "release" BY <1>0, <1>4, PartSteps, PartsRest, Machine!ReleaseKept DEF PartInv
<1>5. CASE part = "uploads" BY <1>0, <1>5, PartSteps, PartsRest, Machine!StoreStep DEF PartInv
<1>6. CASE part = "watch" BY <1>0, <1>6, PartSteps, PartsRest, Machine!WatchKept DEF PartInv
<1>7. CASE part = "context" BY <1>0, <1>7, PartSteps, PartsRest, Session!ContextKept DEF PartInv
<1>8. CASE part = "lease"
  <2>1. Machine!Lease!TypeOK /\ Machine!Lease!LeaseInv /\ [Machine!Lease!Next]_(Machine!Lease!vars)
    BY <1>8, PartSteps, PartsRest DEF PartInv
  <2>2. Machine!Lease!TypeOK' BY <2>1, Machine!LeaseTypeKept
  <2>3. Machine!Lease!LeaseInv' BY <2>1, <2>2, Machine!LeaseInvKept
  <2> QED BY <1>0, <1>8, <2>2, <2>3 DEF PartInv
<1>9. CASE part = "content"
  BY <1>0, <1>9, PartSteps, PartsRest, ContentSame, Feeds!ContentKept DEF PartInv
<1>10. CASE part = "events"
  BY <1>0, <1>10, PartSteps, PartsRest, EventsSame, Feeds!EventsKept DEF PartInv
<1>11. CASE part = "rotation"
  BY <1>0, <1>11, PartSteps, PartsRest, RotationSame, Rotated!EventsKept DEF PartInv
<1>12. CASE part = "usage" BY <1>0, <1>12, PartSteps, PartsRest, Usage!UsageStep DEF PartInv
<1>13. CASE part \notin {"sleep", "create", "asks", "release", "uploads", "watch", "context", "lease",
                        "content", "events", "rotation", "usage"}
  BY <1>0, <1>13 DEF PartInv
<1> QED BY <1>1, <1>2, <1>3, <1>4, <1>5, <1>6, <1>7, <1>8, <1>9, <1>10, <1>11, <1>12, <1>13

\* What the proofs rest on holds of the component that runs for ever.
THEOREM PartsInductive == AlwaysSpec => []PartInv
<1>1. PartsInit => PartInv BY PartInit
<1>2. PartInv /\ [PartsNext]_all => PartInv' BY PartKept
<1> QED BY <1>1, <1>2, PTL DEF AlwaysSpec

\* What is asked twice happens once, in the components that are asked: a session is created
\* once, a request of a mailbox runs once, an update of a lease is made and told once.
THEOREM OperationsAlwaysOnce == AlwaysSpec => []OperationsOnce
<1>1. PartInv => OperationsOnce
  BY PartConstants, Machine!OneHolds, Session!AskedOnce
  DEF PartInv, OperationsOnce, Machine!Lease!LeaseInv
<1> QED BY <1>1, PartsInductive, PTL

\* What is told of a creation is so, and a reader of the two files misses no session.
THEOREM CreatesAreAlwaysTrue == AlwaysSpec => []CreatesTrue
<1>1. PartInv => CreatesTrue BY Machine!CreatesAreTrue DEF PartInv, CreatesTrue
<1> QED BY <1>1, PartsInductive, PTL

\* Accepted images can be handed over, acknowledged bytes are kept, what was cancelled is gone.
THEOREM PinsAreAlwaysHeld == AlwaysSpec => []PinsHold
<1>1. PartInv => PinsHold BY PartConstants, Machine!PinsAreHeld DEF PartInv, PinsHold
<1> QED BY <1>1, PartsInductive, PTL

\* A backup is of the bundle that is replaced, a turn begins in the mode that was set, and
\* what has ended of a lease stays ended but for the input that had asked before, through
\* crashes and restarts.
THEOREM RestoresAlwaysTrue == AlwaysSpec => RestoresTrue
<1>1. ASSUME PartInv, PartsNext, part = "release" PROVE Machine!Release!KeepsPredecessor
  BY <1>1, PartSteps, PartConstants, Machine!PredecessorKept DEF PartInv
<1>2. ASSUME PartInv, PartsNext, part = "asks" PROVE Session!Asks!BeginsInMode
  BY <1>2, PartSteps, PartConstants, Session!TurnsInMode DEF PartInv
<1>3. ASSUME PartInv, PartInv', PartsNext, part = "lease" PROVE Machine!Lease!EndedStays
  <2>1. part' = "lease" /\ Machine!Lease!Next BY <1>3, PartSteps
  <2>2. Machine!Lease!TypeOK /\ Machine!Lease!TypeOK' /\ Machine!Lease!LeaseInv
    BY <1>3, <2>1 DEF PartInv
  <2> QED BY <2>1, <2>2, PartConstants, Machine!EndedKept
<1> QED BY <1>1, <1>2, <1>3, PartsInductive, PTL DEF AlwaysSpec, RestoresTrue

\* A turn seen working keeps its whole window, and a prompt that joins it does not move its
\* start.
THEOREM TurnsAreAlwaysKept == AlwaysSpec => TurnsKept
<1>1. ASSUME PartInv, PartsNext, part = "watch" PROVE Machine!Watch!TurnsKept
  BY <1>1, PartSteps, Machine!WindowPasses, Machine!StartStays DEF PartInv, Machine!Watch!TurnsKept
<1> QED BY <1>1, PartsInductive, PTL DEF AlwaysSpec, TurnsKept

\* One text is within the positions that are kept.
LEMMA OneText == Feeds!Cardinality({"t1"}) <= 2
BY Feeds!FS_Singleton

\* Every file, counter and step has its shape in the component that runs, and its journals,
\* receipts, locks, stamps and callers agree.
THEOREM TypesAlwaysOK == AlwaysSpec => []TypesOK
<1>1. ASSUME PartInv PROVE TypesOK
  <2>1. part = "content" => Content!TypeOK BY <1>1, ContentSame DEF PartInv, Feeds!SoundContent
  <2>2. part = "events" => Events!TypeOK /\ Events!EventsInv
    BY <1>1, EventsSame DEF PartInv, Feeds!SoundEvents
  <2>3. part = "rotation" => Rotation!TypeOK /\ Rotation!EventsInv
    BY <1>1, RotationSame DEF PartInv, Rotated!SoundEvents
  <2>4. part = "usage" => Usage!TypeOK /\ Usage!UsageInv
    BY <1>1, PartConstants, Usage!TypesFollow, Usage!FactsFollow, Usage!CallsFollow,
       Usage!SelfFollows
    DEF PartInv, Usage!UsageInv
  <2>5. part = "sleep" => TypeOK /\ RecordSound /\ CallsSound BY <1>1 DEF PartInv, SleepInv
  <2>6. part = "release" => Machine!Release!TypeOK /\ Machine!Release!ReleaseInv
    BY <1>1 DEF PartInv, Machine!SoundRelease
  <2>7. part = "uploads" => Machine!Store!TypeOK /\ Machine!Store!UploadsInv
    BY <1>1 DEF PartInv, Machine!StoreInv
  <2>8. part = "watch" => Machine!Watch!TypeOK /\ Machine!Watch!WatchInv
    BY <1>1 DEF PartInv, Machine!KeptWatch
  <2>9. part = "context" => Session!Context!TypeOK /\ Session!Context!ContextInv
    BY <1>1 DEF PartInv, Session!SoundContext
  <2>10. /\ part = "create" => Machine!Create!TypeOK /\ Machine!Create!CreateInv
         /\ part = "asks" => Session!Asks!TypeOK /\ Session!Asks!RequestsInv
         /\ part = "lease" => Machine!Lease!TypeOK /\ Machine!Lease!LeaseInv
    BY <1>1 DEF PartInv
  <2> QED
    BY <2>1, <2>2, <2>3, <2>4, <2>5, <2>6, <2>7, <2>8, <2>9, <2>10 DEF TypesOK
<1> QED BY <1>1, PartsInductive, PTL

\* What a reader holds or is told is what was written: the content and events of a session,
\* the pages of a history and the totals of a transcript, though buffers drop, files rotate,
\* processes restart, conversations are compacted and indexes are advanced by two.
THEOREM FeedsAlwaysTrue == AlwaysSpec => []FeedsTrue
<1>1. ASSUME PartInv PROVE FeedsTrue
  <2>1. part = "content" => Content!AppendsContinue /\ Content!ReaderTrue /\ Content!RequestsSurvive
    BY <1>1, ContentSame, OneText, Feeds!RequestsAreShown, Feeds!ReadersAreTrue DEF PartInv
  <2>2. part = "events" => Events!FollowedInOrder /\ Events!MirrorTrue
    BY <1>1, EventsSame, Feeds!EventsFollow DEF PartInv
  <2>3. part = "rotation" => Rotation!FollowedInOrder /\ Rotation!MirrorTrue
    BY <1>1, RotationSame, Rotated!EventsFollow DEF PartInv
  <2>4. part = "context" => Session!Context!ContextSafe
    BY <1>1 DEF PartInv, Session!SoundContext, Session!Context!ContextInv
  <2>5. part = "usage" => Usage!UsageSafe
    BY <1>1, PartConstants, Usage!SumsFollow, Usage!ReadyFollows, Usage!PassedOverFollows
    DEF PartInv, Usage!UsageSafe
  <2> QED BY <2>1, <2>2, <2>3, <2>4, <2>5 DEF FeedsTrue
<1> QED BY <1>1, PartsInductive, PTL
=============================================================================
