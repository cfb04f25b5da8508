------------------------- MODULE ChatDeliveryProofs -------------------------
(* Chat delivery, for every set of recipients and every bound: its types;  *)
(* that no letter is skipped silently; that immediate mail is pasted and   *)
(* written down in the order of the ledger, and what is reported as        *)
(* delivered is true; that the cursors only move forward, no letter is     *)
(* submitted to a Codex recipient without its durable barrier and none     *)
(* enters its conversation twice; and that a letter is pasted into a       *)
(* Claude pane again only after a fault.                                   *)
EXTENDS ChatDelivery, TLAPS

\* Every record of the ledger is a letter to a recipient.
LEMMA LetterType ==
  ASSUME FilesOK, NEW i \in 1..Len(ledger)
  PROVE  ledger[i] \in Letter /\ ledger[i].to \in Recipient /\ i \in Ids
  BY MailAssumption, BoundsAssumption DEF FilesOK, Letter, Ids

\* The letter in hand is a letter of the ledger.
LEMMA PickType ==
  ASSUME FilesOK, RunOK, pc \in InHand
  PROVE  pick \in 1..Len(ledger) /\ pick \in Ids /\ ledger[pick].to \in Recipient
<1>1. pick \in 1..Len(ledger)
  BY DEF RunOK, FilesOK
<1> QED
  BY <1>1, LetterType

\* Every cursor and barrier lies in the ledger.
LEMMA CursorTypes ==
  ASSUME TypeOK
  PROVE  /\ Len(ledger) \in Nat /\ mLen \in 0..Len(ledger)
         /\ \A c \in {disk, mem} : /\ c.delivered \in [Recipient -> 0..Len(ledger)]
                                  /\ c.pickup \in [Recipient -> 0..Len(ledger)]
         /\ \A q \in Recipient : /\ disk.delivered[q] \in Nat /\ disk.pickup[q] \in Nat
                                /\ mem.delivered[q] \in Nat /\ mem.pickup[q] \in Nat
<1>1. Len(ledger) \in Nat BY DEF TypeOK, FilesOK
<1>2. mLen \in 0..Len(ledger) BY DEF TypeOK, RunOK
<1>3. disk \in Cursors(Len(ledger)) /\ mem \in Cursors(Len(ledger)) BY DEF TypeOK
<1>4. ASSUME NEW n \in Nat, NEW c \in Cursors(n)
      PROVE  c.delivered \in [Recipient -> 0..n] /\ c.pickup \in [Recipient -> 0..n]
  BY DEF Cursors
<1>5. \A c \in {disk, mem} : /\ c.delivered \in [Recipient -> 0..Len(ledger)]
                             /\ c.pickup \in [Recipient -> 0..Len(ledger)]
  BY <1>1, <1>3, <1>4
<1> QED BY <1>1, <1>2, <1>5

LEMMA CursorTypesNext ==
  ASSUME TypeOK'
  PROVE  \A q \in Recipient : disk'.delivered[q] \in Nat /\ mem'.delivered[q] \in Nat
<1>1. Len(ledger') \in Nat BY DEF TypeOK, FilesOK
<1>2. disk' \in Cursors(Len(ledger')) /\ mem' \in Cursors(Len(ledger')) BY DEF TypeOK
<1>3. ASSUME NEW n \in Nat, NEW c \in Cursors(n) PROVE c.delivered \in [Recipient -> 0..n]
  BY DEF Cursors
<1> QED BY <1>1, <1>2, <1>3

\* What nextDelivery picks, and the cursor it leaves, lie in the ledger.
LEMMA NextType ==
  ASSUME TypeOK, NEW r \in Recipient, NEW i, NEW c, nextDelivery(r, i, c)
  PROVE  i \in 0..Len(ledger) /\ c \in 0..Len(ledger)
<1>1. mem.delivered[r] \in 0..Len(ledger) /\ Len(ledger) \in Nat /\ mLen \in 0..Len(ledger)
      /\ waiting \subseteq 1..mLen
  BY DEF TypeOK, Cursors, RunOK, FilesOK
<1> DEFINE now == ImmediateFrom(r, mem.delivered[r], mLen)
           later == {j \in waiting : ledger[j].to = r}
<1>2. \A j \in now : j \in 1..mLen
  BY <1>1 DEF ImmediateFrom
<1>3. \A j \in later : j \in 1..mLen
  BY <1>1
<1> HIDE DEF now, later
<1>4. CASE Least(i, now) /\ c = i - 1
  BY <1>1, <1>2, <1>4 DEF Least
<1>5. CASE c = mLen /\ (Least(i, later) \/ i = 0)
  BY <1>1, <1>3, <1>5 DEF Least
<1> QED
  BY <1>4, <1>5 DEF nextDelivery, now, later

LEMMA LargerType ==
  ASSUME NEW n \in Nat, NEW a \in 0..n, NEW b \in 0..n
  PROVE  Larger(a, b) \in 0..n
  BY DEF Larger

\* Moving a cursor or a pickup within the ledger keeps the cursors well typed.
LEMMA MoveType ==
  ASSUME NEW n \in Nat, NEW c \in Cursors(n), NEW r \in Recipient,
         NEW p \in 0..n, NEW d \in 0..n, NEW e \in 0..n
  PROVE  /\ [c EXCEPT !.pickup[r] = p, !.delivered[r] = d, !.read[r] = e] \in Cursors(n)
         /\ [c EXCEPT !.delivered[r] = d, !.read[r] = e] \in Cursors(n)
         /\ [c EXCEPT !.delivered[r] = d] \in Cursors(n)
         /\ [c EXCEPT !.read[r] = e] \in Cursors(n)
         /\ [c EXCEPT !.pickup[r] = p] \in Cursors(n)
         /\ c.delivered[r] \in 0..n /\ c.read[r] \in 0..n /\ c.pickup[r] \in 0..n
  BY DEF Cursors

LEMMA ArmType ==
  ASSUME NEW n \in Nat, NEW c \in Cursors(n), NEW r \in Recipient, NEW i \in 0..n
  PROVE  armPickup(c, r, i) \in Cursors(n)
  BY DEF armPickup, Cursors, Larger

LEMMA FinishType ==
  ASSUME TypeOK, NEW r \in Recipient, finishPickup(r, mem.pickup[r])
  PROVE  mem' \in Cursors(Len(ledger))
<1> DEFINE p == mem.pickup[r]
           d == Larger(mem.delivered[r], p)
           e == Larger(mem.read[r], p)
<1>0. /\ p \in 0..Len(ledger) /\ mem.delivered[r] \in 0..Len(ledger) /\ mem.read[r] \in 0..Len(ledger)
      /\ Len(ledger) \in Nat /\ mem \in Cursors(Len(ledger)) /\ 0 \in 0..Len(ledger)
  BY DEF TypeOK, FilesOK, Cursors
<1>1. d \in 0..Len(ledger) /\ e \in 0..Len(ledger)
  BY <1>0, LargerType
<1>2. \/ mem' = [mem EXCEPT !.pickup[r] = 0]
      \/ mem' = [mem EXCEPT !.pickup[r] = 0, !.delivered[r] = d, !.read[r] = e]
  BY DEF finishPickup
<1> HIDE DEF p, d, e
<1>3. [mem EXCEPT !.pickup[r] = 0] \in Cursors(Len(ledger))
  BY <1>0, MoveType, Zenon
<1>4. [mem EXCEPT !.pickup[r] = 0, !.delivered[r] = d, !.read[r] = e] \in Cursors(Len(ledger))
  BY <1>0, <1>1, MoveType, Zenon
<1> QED
  BY <1>2, <1>3, <1>4, Zenon

LEMMA ArmedType ==
  ASSUME TypeOK PROVE armedCursors \in Cursors(Len(ledger))
  BY DEF armedCursors, Cursors, NoCursors, TypeOK, FilesOK

LEMMA SaveType ==
  ASSUME TypeOK, NEW c \in Cursors(Len(ledger)), saveCursors(c)
  PROVE  disk' \in Cursors(Len(ledger)) /\ file' \in {"ok", "bad", "missing"}
<1>1. Fresh \in Cursors(Len(ledger))
  BY ArmedType DEF Fresh, TypeOK
<1> QED
  BY <1>1 DEF saveCursors, Cursors, furthest, Larger

LEMMA TypeInit == Init => TypeOK
<1> SUFFICES ASSUME Init PROVE TypeOK
  OBVIOUS
<1>1. FilesOK
  BY BoundsAssumption DEF Init, FilesOK, Outcome
<1>2. AgentsOK
  BY BoundsAssumption DEF Init, AgentsOK
<1>3. CliOK
  BY DEF Init, CliOK
<1>4. RunOK
  BY MailAssumption DEF Init, RunOK, InHand
<1>5. CountsOK
  BY DEF Init, CountsOK
<1>6. disk \in Cursors(Len(ledger)) /\ mem \in Cursors(Len(ledger))
  BY DEF Init, Cursors, NoCursors
<1>7. changed \in BOOLEAN
  BY DEF Init
<1> QED
  BY <1>1, <1>2, <1>3, <1>4, <1>5, <1>6, <1>7 DEF TypeOK

\* A part of the type invariant survives a step that leaves its variables alone.
LEMMA Frames ==
  ASSUME TypeOK
  PROVE  /\ UNCHANGED <<ledger, acks, reg, file>> => FilesOK'
         /\ UNCHANGED agentVars => AgentsOK'
         /\ UNCHANGED <<ledger, cliVars>> => CliOK'
         /\ UNCHANGED <<ledger, pc, mLen, waiting, todo, pick, batch, sent, live, build>> => RunOK'
         /\ UNCHANGED logVars => CountsOK'
         /\ UNCHANGED <<ledger, disk>> => disk' \in Cursors(Len(ledger'))
         /\ UNCHANGED <<ledger, mem>> => mem' \in Cursors(Len(ledger'))
         /\ UNCHANGED changed => changed' \in BOOLEAN
<1>1. UNCHANGED <<ledger, acks, reg, file>> => FilesOK'
  BY DEF TypeOK, FilesOK
<1>2. UNCHANGED agentVars => AgentsOK'
  BY DEF TypeOK, AgentsOK, agentVars, copyVars
<1>3. UNCHANGED <<ledger, cliVars>> => CliOK'
  BY DEF TypeOK, CliOK, cliVars, hookVars, cancelVars
<1>4. UNCHANGED <<ledger, pc, mLen, waiting, todo, pick, batch, sent, live, build>> => RunOK'
  BY DEF TypeOK, RunOK
<1>5. UNCHANGED logVars => CountsOK'
  BY DEF TypeOK, CountsOK, logVars, histVars, faultVars
<1>6. UNCHANGED <<ledger, disk>> => disk' \in Cursors(Len(ledger'))
  BY DEF TypeOK
<1>7. UNCHANGED <<ledger, mem>> => mem' \in Cursors(Len(ledger'))
  BY DEF TypeOK
<1>8. UNCHANGED changed => changed' \in BOOLEAN
  BY DEF TypeOK
<1> QED
  BY <1>1, <1>2, <1>3, <1>4, <1>5, <1>6, <1>7, <1>8

LEMMA AppendMessageType ==
  ASSUME TypeOK, NEW letter \in Mail, appendMessage(letter)
  PROVE  TypeOK'
<1>a. Len(ledger') = Len(ledger) + 1 /\ Len(ledger) \in Nat
  BY DEF appendMessage, TypeOK, FilesOK
<1>1. FilesOK'
  <2>1. Len(ledger') = Len(ledger) + 1 /\ ledger' \in Seq(Mail)
    BY DEF appendMessage, TypeOK, FilesOK
  <2> QED
    BY <2>1, BoundsAssumption DEF appendMessage, TypeOK, FilesOK
<1>2. CliOK'
  BY <1>a DEF appendMessage, TypeOK, FilesOK, CliOK, cliVars, hookVars, cancelVars
<1>3. RunOK'
  BY <1>a DEF appendMessage, TypeOK, FilesOK, RunOK, InHand, daemonVars, passVars, sweepVars
<1>4. mem' \in Cursors(Len(ledger'))
  BY <1>a DEF appendMessage, TypeOK, Cursors, daemonVars, passVars
<1>5. disk' \in Cursors(Len(ledger'))
  BY <1>a DEF appendMessage, TypeOK, Cursors
<1> QED
  BY <1>1, <1>2, <1>3, <1>4, <1>5, Frames DEF TypeOK, appendMessage, agentVars, cliVars, copyVars, daemonVars, logVars, passVars, sweepVars

LEMMA BecomeDueType ==
  ASSUME TypeOK, NEW i \in Ids, BecomeDue(i)
  PROVE  TypeOK'
<1>b. ledger' = ledger
  BY DEF BecomeDue, fileVars
<1>1. AgentsOK'
  BY <1>b DEF BecomeDue, TypeOK, AgentsOK, copyVars
<1> QED
  BY <1>1, Frames DEF TypeOK, BecomeDue, agentVars, cliVars, copyVars, daemonVars, fileVars, logVars, passVars, sweepVars

LEMMA AppendSessionType ==
  ASSUME TypeOK, NEW r \in Managed, appendSession(r)
  PROVE  TypeOK'
<1>b. ledger' = ledger
  BY DEF appendSession
<1>1. FilesOK'
  BY <1>b DEF appendSession, TypeOK, FilesOK, Outcome
<1> QED
  BY <1>1, Frames DEF TypeOK, appendSession, agentVars, cliVars, copyVars, daemonVars, logVars, passVars, sweepVars

LEMMA RemoveSessionType ==
  ASSUME TypeOK, NEW r \in Managed, removeSession(r)
  PROVE  TypeOK'
<1>b. ledger' = ledger
  BY DEF removeSession
<1>1. FilesOK'
  BY <1>b DEF removeSession, TypeOK, FilesOK, Outcome
<1> QED
  BY <1>1, Frames DEF TypeOK, removeSession, agentVars, cliVars, copyVars, daemonVars, logVars, passVars, sweepVars

LEMMA KillSessionType ==
  ASSUME TypeOK, NEW r \in Managed, killSession(r)
  PROVE  TypeOK'
<1>b. ledger' = ledger
  BY DEF killSession, fileVars
<1>1. AgentsOK'
  BY <1>b, BoundsAssumption DEF killSession, Kill, TypeOK, AgentsOK, Recipient, copyVars
<1>2. CliOK'
  BY <1>b DEF killSession, Kill, TypeOK, FilesOK, CliOK, fileVars, cancelVars
<1> QED
  BY <1>1, <1>2, Frames DEF TypeOK, killSession, Kill, agentVars, cancelVars, cliVars, copyVars, daemonVars, fileVars, logVars, passVars, sweepVars

LEMMA StartPaneType ==
  ASSUME TypeOK, NEW r \in Recipient, StartPane(r)
  PROVE  TypeOK'
<1>b. ledger' = ledger
  BY DEF StartPane, fileVars
<1>1. AgentsOK'
  BY <1>b DEF StartPane, TypeOK, AgentsOK, copyVars
<1> QED
  BY <1>1, Frames DEF TypeOK, StartPane, agentVars, cliVars, copyVars, daemonVars, fileVars, logVars, passVars, sweepVars

LEMMA DieType ==
  ASSUME TypeOK, NEW r \in Recipient, Die(r)
  PROVE  TypeOK'
<1>b. ledger' = ledger
  BY DEF Die, fileVars
<1>1. AgentsOK'
  BY <1>b, BoundsAssumption DEF Die, Kill, TypeOK, AgentsOK, Recipient, copyVars
<1>2. CliOK'
  BY <1>b DEF Die, Kill, TypeOK, FilesOK, CliOK, fileVars, cancelVars
<1>3. CountsOK'
  BY <1>b DEF Die, TypeOK, CountsOK, FilesOK, Ids, fileVars, histVars
<1> QED
  BY <1>1, <1>2, <1>3, Frames DEF TypeOK, Die, Kill, agentVars, cancelVars, cliVars, copyVars, daemonVars, faultVars, fileVars, histVars, logVars, passVars, sweepVars

LEMMA WorkType ==
  ASSUME TypeOK, NEW r \in Recipient, Work(r)
  PROVE  TypeOK'
<1>b. ledger' = ledger
  BY DEF Work, fileVars
<1>1. AgentsOK'
  BY <1>b DEF Work, SetTail, TypeOK, AgentsOK, copyVars
<1> QED
  BY <1>1, Frames DEF TypeOK, Work, agentVars, cliVars, copyVars, daemonVars, fileVars, logVars, passVars, sweepVars

LEMMA FinishTurnType ==
  ASSUME TypeOK, NEW r \in Recipient, FinishTurn(r)
  PROVE  TypeOK'
<1>b. ledger' = ledger
  BY DEF FinishTurn, fileVars
<1>1. AgentsOK'
  BY <1>b DEF FinishTurn, SetTail, TypeOK, AgentsOK, copyVars
<1>2. CliOK'
  BY <1>b DEF FinishTurn, TypeOK, FilesOK, CliOK, fileVars, cancelVars
<1> QED
  BY <1>1, <1>2, Frames DEF TypeOK, FinishTurn, agentVars, cancelVars, cliVars, copyVars, daemonVars, fileVars, logVars, passVars, sweepVars

LEMMA InterruptType ==
  ASSUME TypeOK, NEW r \in Recipient, Interrupt(r)
  PROVE  TypeOK'
<1>b. ledger' = ledger
  BY DEF Interrupt, fileVars
<1>1. AgentsOK'
  BY <1>b DEF Interrupt, SetTail, TypeOK, AgentsOK, copyVars
<1> QED
  BY <1>1, Frames DEF TypeOK, Interrupt, agentVars, cliVars, copyVars, daemonVars, fileVars, logVars, passVars, sweepVars

LEMMA BlockType ==
  ASSUME TypeOK, NEW r \in Recipient, Block(r)
  PROVE  TypeOK'
<1>b. ledger' = ledger
  BY DEF Block, fileVars
<1>1. AgentsOK'
  BY <1>b DEF Block, TypeOK, AgentsOK, copyVars
<1> QED
  BY <1>1, Frames DEF TypeOK, Block, agentVars, cliVars, copyVars, daemonVars, fileVars, logVars, passVars, sweepVars

LEMMA UnblockType ==
  ASSUME TypeOK, NEW r \in Recipient, Unblock(r)
  PROVE  TypeOK'
<1>b. ledger' = ledger
  BY DEF Unblock, fileVars
<1>1. AgentsOK'
  BY <1>b DEF Unblock, TypeOK, AgentsOK, copyVars
<1> QED
  BY <1>1, Frames DEF TypeOK, Unblock, agentVars, cliVars, copyVars, daemonVars, fileVars, logVars, passVars, sweepVars

LEMMA TakeType ==
  ASSUME TypeOK, NEW i \in Ids, Take(i)
  PROVE  TypeOK'
<1>b. ledger' = ledger
  BY DEF Take, fileVars
<1>1. AgentsOK'
  <2>1. i \in 1..Len(ledger)
    BY DEF Take, TypeOK, FilesOK, Ids
  <2>2. ledger[i].to \in Recipient
    BY <2>1, LetterType DEF TypeOK
  <2>3. held[i] \in Nat /\ held[i] > 0
    BY DEF Take, TypeOK, AgentsOK
  <2> QED
    BY <2>2, <2>3 DEF Take, SetTail, TypeOK, AgentsOK
<1> QED
  BY <1>1, Frames DEF TypeOK, Take, agentVars, cliVars, copyVars, daemonVars, fileVars, logVars, passVars, sweepVars

LEMMA HookReadType ==
  ASSUME TypeOK, NEW r \in HookPane, NEW B \in SUBSET Ids, HookRead(r, B)
  PROVE  TypeOK'
<1>b. ledger' = ledger
  BY DEF HookRead, fileVars
<1>1. CliOK'
  BY <1>b DEF HookRead, coalesce, Waiting, TypeOK, FilesOK, CliOK, fileVars, cancelVars
<1> QED
  BY <1>1, Frames DEF TypeOK, HookRead, agentVars, cancelVars, cliVars, copyVars, daemonVars, fileVars, logVars, passVars, sweepVars

LEMMA HookAckType ==
  ASSUME TypeOK, NEW r \in HookPane, HookAck(r)
  PROVE  TypeOK'
<1>b. ledger' = ledger
  BY DEF HookAck
<1>1. FilesOK'
  BY <1>b DEF HookAck, TypeOK, FilesOK, Outcome
<1>2. CliOK'
  BY <1>b DEF HookAck, TypeOK, FilesOK, CliOK, cancelVars
<1> QED
  BY <1>1, <1>2, Frames DEF TypeOK, HookAck, agentVars, cancelVars, cliVars, copyVars, daemonVars, logVars, passVars, sweepVars

LEMMA HookEmitType ==
  ASSUME TypeOK, NEW r \in HookPane, HookEmit(r)
  PROVE  TypeOK'
<1>b. ledger' = ledger
  BY DEF HookEmit, fileVars
<1>1. AgentsOK'
  BY <1>b DEF HookEmit, SetTail, TypeOK, AgentsOK, Recipient, Managed
<1>2. CliOK'
  BY <1>b DEF HookEmit, TypeOK, FilesOK, CliOK, fileVars, cancelVars
<1> QED
  BY <1>1, <1>2, Frames DEF TypeOK, HookEmit, agentVars, cancelVars, cliVars, copyVars, daemonVars, fileVars, logVars, passVars, sweepVars

LEMMA HookFailType ==
  ASSUME TypeOK, NEW r \in HookPane, HookFail(r)
  PROVE  TypeOK'
<1>b. ledger' = ledger
  BY DEF HookFail, fileVars
<1>1. CliOK'
  BY <1>b DEF HookFail, TypeOK, FilesOK, CliOK, fileVars, cancelVars
<1>2. CountsOK'
  BY <1>b DEF HookFail, TypeOK, CountsOK, FilesOK, Ids, fileVars, histVars
<1> QED
  BY <1>1, <1>2, Frames DEF TypeOK, HookFail, agentVars, cancelVars, cliVars, copyVars, daemonVars, faultVars, fileVars, histVars, logVars, passVars, sweepVars

LEMMA CancelReadType ==
  ASSUME TypeOK, NEW i \in Ids, CancelRead(i)
  PROVE  TypeOK'
<1>b. ledger' = ledger
  BY DEF CancelRead, fileVars
<1>1. CliOK'
  BY <1>b DEF CancelRead, TypeOK, FilesOK, CliOK, fileVars, hookVars
<1> QED
  BY <1>1, Frames DEF TypeOK, CancelRead, agentVars, cliVars, copyVars, daemonVars, fileVars, hookVars, logVars, passVars, sweepVars

LEMMA CancelAppendType ==
  ASSUME TypeOK, NEW i \in Ids, CancelAppend(i)
  PROVE  TypeOK'
<1>b. ledger' = ledger
  BY DEF CancelAppend
<1>1. FilesOK'
  BY <1>b DEF CancelAppend, TypeOK, FilesOK, Outcome
<1>2. CliOK'
  BY <1>b DEF CancelAppend, TypeOK, FilesOK, CliOK, hookVars
<1> QED
  BY <1>1, <1>2, Frames DEF TypeOK, CancelAppend, agentVars, cliVars, copyVars, daemonVars, hookVars, logVars, passVars, sweepVars

LEMMA MarkReadType ==
  ASSUME TypeOK, NEW r \in Inboxes, NEW n \in 1..Len(ledger), markRead(r, n)
  PROVE  TypeOK'
<1>b. ledger' = ledger
  BY DEF markRead
<1>1. disk' \in Cursors(Len(ledger'))
  <2>1. r \in Recipient
    BY KindsDisjoint DEF Recipient
  <2>2. n \in 0..Len(ledger) /\ Len(ledger) \in Nat
    BY DEF TypeOK, FilesOK
  <2> QED
    BY <1>b, <2>1, <2>2 DEF markRead, Cursors, Larger, TypeOK
<1> QED
  BY <1>1, Frames DEF TypeOK, markRead, agentVars, cliVars, copyVars, daemonVars, logVars, passVars, sweepVars

LEMMA LoadCursorsMissingType ==
  ASSUME TypeOK, loadCursorsMissing
  PROVE  TypeOK'
<1>b. ledger' = ledger
  BY DEF loadCursorsMissing
<1>1. FilesOK'
  BY <1>b DEF loadCursorsMissing, TypeOK, FilesOK, Outcome
<1>2. CountsOK'
  <2>1. 1..Len(ledger) \subseteq Ids
    BY BoundsAssumption DEF TypeOK, FilesOK, Ids
  <2> QED
    BY <2>1 DEF loadCursorsMissing, TypeOK, CountsOK, faultVars
<1>3. disk' \in Cursors(Len(ledger'))
  BY <1>b DEF loadCursorsMissing, Cursors, armedCursors, NoCursors, TypeOK
<1> QED
  BY <1>1, <1>2, <1>3, Frames DEF TypeOK, loadCursorsMissing, agentVars, cliVars, copyVars, daemonVars, faultVars, logVars, passVars, sweepVars

LEMMA LoseCursorsType ==
  ASSUME TypeOK, NEW how \in {"bad", "missing"}, LoseCursors(how)
  PROVE  TypeOK'
<1>b. ledger' = ledger
  BY DEF LoseCursors
<1>1. FilesOK'
  BY <1>b DEF LoseCursors, TypeOK, FilesOK, Outcome
<1>2. CountsOK'
  BY <1>b DEF LoseCursors, TypeOK, CountsOK, FilesOK, Ids, histVars
<1> QED
  BY <1>1, <1>2, Frames DEF TypeOK, LoseCursors, agentVars, cliVars, copyVars, daemonVars, faultVars, histVars, logVars, passVars, sweepVars

LEMMA RepairCursorsType ==
  ASSUME TypeOK, NEW how \in {"ok", "missing"}, RepairCursors(how)
  PROVE  TypeOK'
<1>b. ledger' = ledger
  BY DEF RepairCursors
<1>1. FilesOK'
  BY <1>b DEF RepairCursors, TypeOK, FilesOK, Outcome
<1> QED
  BY <1>1, Frames DEF TypeOK, RepairCursors, agentVars, cliVars, copyVars, daemonVars, logVars, passVars, sweepVars

LEMMA SweepSkipType ==
  ASSUME TypeOK, SweepSkip
  PROVE  TypeOK'
<1>b. ledger' = ledger
  BY DEF SweepSkip, fileVars
<1>1. RunOK'
  BY <1>b DEF SweepSkip, TypeOK, FilesOK, RunOK, InHand, fileVars, passVars, sweepVars
<1> QED
  BY <1>1, Frames DEF TypeOK, SweepSkip, agentVars, cliVars, copyVars, fileVars, logVars, passVars, sweepVars

LEMMA SweepBeginType ==
  ASSUME TypeOK, SweepBegin
  PROVE  TypeOK'
<1>b. ledger' = ledger
  BY DEF SweepBegin, fileVars
<1>1. RunOK'
  BY <1>b DEF SweepBegin, TypeOK, FilesOK, RunOK, InHand, fileVars, passVars
<1> QED
  BY <1>1, Frames DEF TypeOK, SweepBegin, agentVars, cliVars, copyVars, fileVars, logVars, passVars

LEMMA SettleUndeliverableType ==
  ASSUME TypeOK, settleUndeliverable
  PROVE  TypeOK'
<1>b. ledger' = ledger
  BY DEF settleUndeliverable
<1>1. FilesOK'
  BY <1>b DEF settleUndeliverable, Stranded, TypeOK, FilesOK, Outcome
<1>2. RunOK'
  BY <1>b DEF settleUndeliverable, TypeOK, FilesOK, RunOK, InHand, passVars, sweepVars
<1>3. CountsOK'
  BY <1>b, BoundsAssumption DEF settleUndeliverable, Stranded, TypeOK, CountsOK, FilesOK, Ids, faultVars
<1>4. disk' \in Cursors(Len(ledger'))
  <2>1. PICK last \in [Recipient -> 0..MaxLedger] :
          /\ \A r \in Recipient :
               \/ last[r] = disk.delivered[r]
               \/ last[r] \in Stranded
          /\ disk' = [disk EXCEPT !.delivered = last]
    BY DEF settleUndeliverable
  <2>2. last \in [Recipient -> 0..Len(ledger)]
    BY <2>1, BoundsAssumption DEF Stranded, TypeOK, Cursors, FilesOK
  <2> QED
    BY <1>b, <2>1, <2>2 DEF TypeOK, Cursors
<1> QED
  BY <1>1, <1>2, <1>3, <1>4, Frames DEF TypeOK, settleUndeliverable, agentVars, cliVars, copyVars, faultVars, logVars, passVars, sweepVars

LEMMA SweepEndType ==
  ASSUME TypeOK, SweepEnd
  PROVE  TypeOK'
<1>b. ledger' = ledger
  BY DEF SweepEnd, fileVars
<1>1. RunOK'
  BY <1>b DEF SweepEnd, TypeOK, FilesOK, RunOK, InHand, fileVars, passVars
<1> QED
  BY <1>1, Frames DEF TypeOK, SweepEnd, agentVars, cliVars, copyVars, fileVars, logVars, passVars

LEMMA PassBeginType ==
  ASSUME TypeOK, PassBegin
  PROVE  TypeOK'
<1>b. ledger' = ledger
  BY DEF PassBegin, fileVars
<1>1. RunOK'
  BY <1>b DEF PassBegin, Waiting, TypeOK, FilesOK, RunOK, InHand, fileVars, sweepVars, Recipient
<1>2. mem' \in Cursors(Len(ledger'))
  BY <1>b DEF PassBegin, TypeOK, fileVars
<1> QED
  BY <1>1, <1>2, Frames DEF TypeOK, PassBegin, agentVars, cliVars, copyVars, fileVars, logVars, sweepVars

LEMMA VisitHeldType ==
  ASSUME TypeOK, NEW r \in Recipient, NEW i \in 0..MaxLedger, NEW c \in 0..MaxLedger, VisitHeld(r, i, c)
  PROVE  TypeOK'
<1>a. i \in 0..Len(ledger) /\ c \in 0..Len(ledger)
  BY NextType DEF VisitHeld
<1>b. ledger' = ledger
  BY DEF VisitHeld, fileVars
<1>1. RunOK'
  BY <1>a, <1>b DEF VisitHeld, Leave, Visiting, TypeOK, FilesOK, RunOK, InHand, fileVars, sweepVars
<1>2. mem' \in Cursors(Len(ledger'))
  BY <1>a, <1>b DEF VisitHeld, Leave, nextDelivery, Cursors, Least, ImmediateFrom, TypeOK, fileVars
<1>3. changed' \in BOOLEAN
  BY <1>a, <1>b DEF VisitHeld, Leave, TypeOK
<1> QED
  BY <1>1, <1>2, <1>3, Frames DEF TypeOK, VisitHeld, Leave, agentVars, cliVars, copyVars, fileVars, logVars, sweepVars

LEMMA VisitChosenType ==
  ASSUME TypeOK, NEW r \in Recipient, NEW i \in 0..MaxLedger, NEW c \in 0..MaxLedger, NEW B \in SUBSET Ids, VisitChosen(r, i, c, B)
  PROVE  TypeOK'
<1>a. i \in 0..Len(ledger) /\ c \in 0..Len(ledger)
  BY NextType DEF VisitChosen
<1>b. ledger' = ledger
  BY DEF VisitChosen, fileVars
<1>1. RunOK'
  BY <1>a, <1>b DEF VisitChosen, Leave, Visiting, nextDelivery, Least, ImmediateFrom, coalesce, TypeOK, FilesOK, RunOK, InHand, fileVars, sweepVars
<1>2. mem' \in Cursors(Len(ledger'))
  BY <1>a, <1>b DEF VisitChosen, Leave, nextDelivery, Cursors, Least, ImmediateFrom, TypeOK, fileVars
<1>3. changed' \in BOOLEAN
  BY <1>a, <1>b DEF VisitChosen, Leave, TypeOK
<1> QED
  BY <1>1, <1>2, <1>3, Frames DEF TypeOK, VisitChosen, Leave, agentVars, cliVars, copyVars, fileVars, logVars, sweepVars

LEMMA SubmitHeldType ==
  ASSUME TypeOK, SubmitHeld
  PROVE  TypeOK'
<1>a. pick \in 1..Len(ledger) /\ pick \in Ids /\ ledger[pick].to \in Recipient
  BY PickType DEF TypeOK, InHand, SubmitHeld
<1>b. ledger' = ledger
  BY DEF SubmitHeld, fileVars
<1>1. RunOK'
  BY <1>a, <1>b DEF SubmitHeld, TypeOK, FilesOK, RunOK, InHand, fileVars, sweepVars
<1> QED
  BY <1>1, Frames DEF TypeOK, SubmitHeld, agentVars, cliVars, copyVars, fileVars, logVars, sweepVars

LEMMA SubmitPaneType ==
  ASSUME TypeOK, SubmitPane
  PROVE  TypeOK'
<1>a. pick \in 1..Len(ledger) /\ pick \in Ids /\ ledger[pick].to \in Recipient
  BY PickType DEF TypeOK, InHand, SubmitPane
<1>b. ledger' = ledger
  BY DEF SubmitPane, fileVars
<1>1. AgentsOK'
  BY <1>a, <1>b DEF SubmitPane, Type, SetTail, TypeOK, AgentsOK
<1>2. RunOK'
  BY <1>a, <1>b DEF SubmitPane, TypeOK, FilesOK, RunOK, InHand, fileVars, sweepVars
<1>3. mem' \in Cursors(Len(ledger'))
  <2> DEFINE r == ledger[pick].to
             e == Larger(mem.read[r], pick)
  <2>1. mem' = mem \/ mem' = [mem EXCEPT !.delivered[r] = pick, !.read[r] = e]
    BY DEF SubmitPane
  <2>2. Len(ledger) \in Nat /\ mem \in Cursors(Len(ledger)) /\ pick \in 0..Len(ledger)
    BY <1>a DEF TypeOK, FilesOK
  <2>3. e \in 0..Len(ledger)
    BY <1>a, <2>2, LargerType DEF Cursors
  <2> HIDE DEF e
  <2>4. [mem EXCEPT !.delivered[r] = pick, !.read[r] = e] \in Cursors(Len(ledger))
    BY <1>a, <2>2, <2>3, MoveType, Zenon
  <2> QED
    BY <1>b, <2>1, <2>2, <2>4, Zenon
<1>4. changed' \in BOOLEAN
  BY <1>a, <1>b DEF SubmitPane, TypeOK
<1> QED
  BY <1>1, <1>2, <1>3, <1>4, Frames DEF TypeOK, SubmitPane, agentVars, cliVars, copyVars, fileVars, logVars, sweepVars

LEMMA RecordAckType ==
  ASSUME TypeOK, NEW i \in Ids, RecordAck(i)
  PROVE  TypeOK'
<1>a. pick \in 1..Len(ledger) /\ pick \in Ids /\ ledger[pick].to \in Recipient
  BY PickType DEF TypeOK, InHand, RecordAck
<1>b. ledger' = ledger
  BY DEF RecordAck
<1>1. FilesOK'
  BY <1>a, <1>b DEF RecordAck, TypeOK, FilesOK, Outcome
<1>2. RunOK'
  BY <1>a, <1>b DEF RecordAck, TypeOK, FilesOK, RunOK, InHand, sweepVars
<1> QED
  BY <1>1, <1>2, Frames DEF TypeOK, RecordAck, agentVars, cliVars, copyVars, logVars, sweepVars

LEMMA ArmPaneType ==
  ASSUME TypeOK, ArmPane
  PROVE  TypeOK'
<1>a. pick \in 1..Len(ledger) /\ pick \in Ids /\ ledger[pick].to \in Recipient
  BY PickType DEF TypeOK, InHand, ArmPane
<1>b. ledger' = ledger
  BY DEF ArmPane
<1>1. FilesOK'
  BY <1>a, <1>b, SaveType DEF ArmPane, saveCursors, TypeOK, FilesOK, Outcome
<1>2. RunOK'
  BY <1>a, <1>b DEF ArmPane, TypeOK, FilesOK, RunOK, InHand, sweepVars
<1>3. mem' \in Cursors(Len(ledger'))
  BY <1>a, <1>b, ArmType DEF ArmPane, TypeOK, FilesOK
<1>4. disk' \in Cursors(Len(ledger'))
  BY <1>b, <1>3, SaveType DEF ArmPane
<1> QED
  BY <1>1, <1>2, <1>3, <1>4, Frames DEF TypeOK, ArmPane, saveCursors, agentVars, cliVars, copyVars, logVars, sweepVars

LEMMA SubmitArmedType ==
  ASSUME TypeOK, SubmitArmed
  PROVE  TypeOK'
<1>a. pick \in 1..Len(ledger) /\ pick \in Ids /\ ledger[pick].to \in Recipient
  BY PickType DEF TypeOK, InHand, SubmitArmed
<1>b. ledger' = ledger
  BY DEF SubmitArmed, fileVars
<1>1. AgentsOK'
  <2>1. pick \in 0..MaxLedger
    BY <1>a, BoundsAssumption DEF Ids
  <2>2. AgentsOK BY DEF TypeOK
  <2>3. UNCHANGED <<due, pane, tail, taken>> BY DEF SubmitArmed
  <2>4. CASE UNCHANGED <<typed, held, submitted>> BY <2>2, <2>3, <2>4 DEF AgentsOK
  <2>5. CASE /\ typed' = [i \in Ids |-> IF i \in {pick} THEN typed[i] + 1 ELSE typed[i]]
             /\ held' = [held EXCEPT ![pick] = @ + 1]
             /\ submitted' = [submitted EXCEPT ![ledger[pick].to] = pick]
    <3>1. typed' \in [Ids -> Nat] BY <2>2, <2>5 DEF AgentsOK
    <3>2. held' \in [Ids -> Nat] BY <1>a, <2>2, <2>5 DEF AgentsOK
    <3>3. submitted' \in [TranscriptPane -> 0..MaxLedger] BY <2>1, <2>2, <2>5 DEF AgentsOK
    <3> QED BY <2>2, <2>3, <3>1, <3>2, <3>3 DEF AgentsOK
  <2> QED BY <2>4, <2>5 DEF SubmitArmed, Type
<1>2. RunOK'
  BY <1>a, <1>b DEF SubmitArmed, TypeOK, FilesOK, RunOK, InHand, fileVars, sweepVars
<1>3. changed' \in BOOLEAN
  BY <1>a, <1>b DEF SubmitArmed, TypeOK
<1> QED
  BY <1>1, <1>2, <1>3, Frames DEF TypeOK, SubmitArmed, agentVars, cliVars, copyVars, fileVars, logVars, sweepVars

LEMMA PickupHeldType ==
  ASSUME TypeOK, NEW r \in Recipient, PickupHeld(r)
  PROVE  TypeOK'
<1>b. ledger' = ledger
  BY DEF PickupHeld, fileVars
<1>1. RunOK'
  BY <1>b DEF PickupHeld, TypeOK, FilesOK, RunOK, InHand, fileVars, sweepVars
<1> QED
  BY <1>1, Frames DEF TypeOK, PickupHeld, agentVars, cliVars, copyVars, fileVars, logVars, sweepVars

LEMMA PickupRetryType ==
  ASSUME TypeOK, NEW r \in Recipient, PickupRetry(r)
  PROVE  TypeOK'
<1>b. ledger' = ledger
  BY DEF PickupRetry, fileVars
<1>1. RunOK'
  <2>1. mem.pickup[r] \in 1..Len(ledger)
    BY DEF PickupRetry, TypeOK, FilesOK, Cursors
  <2> QED
    BY <1>b, <2>1 DEF PickupRetry, Visiting, TypeOK, RunOK, InHand, sweepVars
<1> QED
  BY <1>1, Frames DEF TypeOK, PickupRetry, agentVars, cliVars, copyVars, fileVars, logVars, sweepVars

LEMMA PickupAnsweredType ==
  ASSUME TypeOK, NEW r \in Recipient, PickupAnswered(r)
  PROVE  TypeOK'
<1>b. ledger' = ledger
  BY DEF PickupAnswered, finishPickup
<1>1. FilesOK'
  BY <1>b DEF PickupAnswered, finishPickup, TypeOK, FilesOK, Outcome
<1>2. RunOK'
  <2>1. mem.pickup[r] \in 1..Len(ledger)
    BY DEF PickupAnswered, TypeOK, FilesOK, Cursors
  <2> QED
    BY <1>b, <2>1 DEF PickupAnswered, finishPickup, Visiting, TypeOK, RunOK, InHand, sweepVars
<1>3. mem' \in Cursors(Len(ledger'))
  BY <1>b, FinishType DEF PickupAnswered
<1> QED
  BY <1>1, <1>2, <1>3, Frames DEF TypeOK, PickupAnswered, finishPickup, agentVars, cliVars, copyVars, logVars

LEMMA FinishSaveType ==
  ASSUME TypeOK, FinishSave
  PROVE  TypeOK'
<1>a. pick \in 1..Len(ledger) /\ pick \in Ids /\ ledger[pick].to \in Recipient
  BY PickType DEF TypeOK, InHand, FinishSave
<1>b. ledger' = ledger
  BY DEF FinishSave
<1>1. FilesOK'
  BY <1>a, <1>b, SaveType DEF FinishSave, saveCursors, TypeOK, FilesOK, Outcome
<1>2. RunOK'
  BY <1>a, <1>b DEF FinishSave, TypeOK, FilesOK, RunOK, InHand, sweepVars
<1>3. disk' \in Cursors(Len(ledger'))
  BY <1>a, <1>b, SaveType DEF FinishSave, TypeOK
<1>4. changed' \in BOOLEAN
  BY <1>a, <1>b DEF FinishSave, TypeOK
<1> QED
  BY <1>1, <1>2, <1>3, <1>4, Frames DEF TypeOK, FinishSave, saveCursors, agentVars, cliVars, copyVars, logVars, sweepVars

LEMMA AppResumeType ==
  ASSUME TypeOK, NEW r \in Recipient, AppResume(r)
  PROVE  TypeOK'
<1>b. ledger' = ledger
  BY DEF AppResume, finishPickup
<1>1. FilesOK'
  BY <1>b DEF AppResume, finishPickup, TypeOK, FilesOK, Outcome
<1>2. AgentsOK'
  <2>1. mem.pickup[r] \in Ids
    BY LetterType DEF AppResume, TypeOK, FilesOK, Cursors
  <2>2. UNCHANGED agentVars \/ StartTurn(r, mem.pickup[r])
    BY DEF AppResume, StartRefused
  <2>3. UNCHANGED agentVars => AgentsOK'
    BY Frames
  <2>4. StartTurn(r, mem.pickup[r]) => AgentsOK'
    BY <2>1 DEF StartTurn, Type, TypeOK, AgentsOK
  <2> QED
    BY <2>2, <2>3, <2>4
<1>3. RunOK'
  <2>1. mem.pickup[r] \in 1..Len(ledger)
    BY DEF AppResume, TypeOK, FilesOK, Cursors
  <2> QED
    BY <1>b, <2>1 DEF AppResume, finishPickup, Visiting, TypeOK, RunOK, InHand, sweepVars
<1>4. mem' \in Cursors(Len(ledger'))
  BY <1>b, FinishType DEF AppResume
<1> QED
  BY <1>1, <1>2, <1>3, <1>4, Frames DEF TypeOK, AppResume, finishPickup, StartTurn, agentVars, cliVars, copyVars, logVars

LEMMA AppResumeHeldType ==
  ASSUME TypeOK, NEW r \in Recipient, AppResumeHeld(r)
  PROVE  TypeOK'
<1>b. ledger' = ledger
  BY DEF AppResumeHeld, fileVars
<1>1. AgentsOK'
  <2>1. mem.pickup[r] \in Ids
    BY LetterType DEF AppResumeHeld, TypeOK, FilesOK, Cursors
  <2>2. UNCHANGED agentVars \/ StartTurn(r, mem.pickup[r])
    BY DEF AppResumeHeld, StartRefused
  <2>3. UNCHANGED agentVars => AgentsOK'
    BY Frames
  <2>4. StartTurn(r, mem.pickup[r]) => AgentsOK'
    BY <2>1 DEF StartTurn, Type, TypeOK, AgentsOK
  <2> QED
    BY <2>2, <2>3, <2>4
<1>2. RunOK'
  BY <1>b DEF AppResumeHeld, TypeOK, FilesOK, RunOK, InHand, fileVars, sweepVars
<1>3. CountsOK'
  BY <1>b DEF AppResumeHeld, StartRefused, StartTurn, TypeOK, CountsOK, FilesOK, Ids, fileVars, histVars
<1> QED
  BY <1>1, <1>2, <1>3, Frames DEF TypeOK, AppResumeHeld, StartRefused, agentVars, cliVars, copyVars, faultVars, fileVars, histVars, logVars, sweepVars

LEMMA AppArmType ==
  ASSUME TypeOK, NEW r \in Recipient, NEW i \in 0..MaxLedger, NEW c \in 0..MaxLedger, AppArm(r, i, c)
  PROVE  TypeOK'
<1>a. i \in 0..Len(ledger) /\ c \in 0..Len(ledger)
  BY NextType DEF AppArm
<1>b. ledger' = ledger
  BY DEF AppArm
<1>1. FilesOK'
  BY <1>a, <1>b, SaveType DEF AppArm, saveCursors, TypeOK, FilesOK, Outcome
<1>2. RunOK'
  BY <1>a, <1>b DEF AppArm, Visiting, TypeOK, FilesOK, RunOK, InHand, sweepVars
<1>3. mem' \in Cursors(Len(ledger'))
  <2>1. Len(ledger) \in Nat /\ mem \in Cursors(Len(ledger))
    BY DEF TypeOK, FilesOK
  <2>2. [mem EXCEPT !.delivered[r] = c] \in Cursors(Len(ledger))
    BY <1>a, <2>1, MoveType, Zenon
  <2>4. armPickup([mem EXCEPT !.delivered[r] = c], r, i) \in Cursors(Len(ledger))
    BY <1>a, <2>1, <2>2, ArmType, Zenon
  <2> QED
    BY <1>b, <2>4 DEF AppArm
<1>4. disk' \in Cursors(Len(ledger'))
  <2>1. saveCursors(mem') \/ UNCHANGED disk
    BY DEF AppArm
  <2> QED
    BY <1>b, <1>3, <2>1, SaveType DEF TypeOK
<1>5. changed' \in BOOLEAN
  BY <1>a, <1>b DEF AppArm, TypeOK
<1> QED
  BY <1>1, <1>2, <1>3, <1>4, <1>5, Frames DEF TypeOK, AppArm, saveCursors, agentVars, cliVars, copyVars, logVars, sweepVars

LEMMA AppStartType ==
  ASSUME TypeOK, AppStart
  PROVE  TypeOK'
<1>a. pick \in 1..Len(ledger) /\ pick \in Ids /\ ledger[pick].to \in Recipient
  BY PickType DEF TypeOK, InHand, AppStart
<1>b. ledger' = ledger
  BY DEF AppStart, fileVars
<1>1. AgentsOK'
  BY <1>a, <1>b DEF AppStart, StartTurn, Type, TypeOK, AgentsOK
<1>2. RunOK'
  BY <1>a, <1>b DEF AppStart, TypeOK, FilesOK, RunOK, InHand, fileVars, passVars, sweepVars
<1> QED
  BY <1>1, <1>2, Frames DEF TypeOK, AppStart, StartTurn, agentVars, cliVars, copyVars, fileVars, logVars, passVars, sweepVars

LEMMA AppStartHeldType ==
  ASSUME TypeOK, AppStartHeld
  PROVE  TypeOK'
<1>a. pick \in 1..Len(ledger) /\ pick \in Ids /\ ledger[pick].to \in Recipient
  BY PickType DEF TypeOK, InHand, AppStartHeld
<1>b. ledger' = ledger
  BY DEF AppStartHeld, fileVars
<1>1. AgentsOK'
  <2>2. UNCHANGED agentVars \/ StartTurn(ledger[pick].to, pick)
    BY DEF AppStartHeld, StartRefused
  <2>3. UNCHANGED agentVars => AgentsOK'
    BY Frames
  <2>4. StartTurn(ledger[pick].to, pick) => AgentsOK'
    BY <1>a DEF StartTurn, Type, TypeOK, AgentsOK
  <2> QED
    BY <2>2, <2>3, <2>4
<1>2. RunOK'
  BY <1>a, <1>b DEF AppStartHeld, TypeOK, FilesOK, RunOK, InHand, fileVars, sweepVars
<1>3. CountsOK'
  BY <1>a, <1>b DEF AppStartHeld, StartRefused, StartTurn, TypeOK, CountsOK, FilesOK, Ids, fileVars, histVars
<1> QED
  BY <1>1, <1>2, <1>3, Frames DEF TypeOK, AppStartHeld, StartRefused, agentVars, cliVars, copyVars, faultVars, fileVars, histVars, logVars, sweepVars

LEMMA AppRecordType ==
  ASSUME TypeOK, AppRecord
  PROVE  TypeOK'
<1>a. pick \in 1..Len(ledger) /\ pick \in Ids /\ ledger[pick].to \in Recipient
  BY PickType DEF TypeOK, InHand, AppRecord
<1>b. ledger' = ledger
  BY DEF AppRecord
<1>1. FilesOK'
  BY <1>a, <1>b DEF AppRecord, TypeOK, FilesOK, Outcome
<1>2. RunOK'
  BY <1>a, <1>b DEF AppRecord, TypeOK, FilesOK, RunOK, InHand, sweepVars
<1>3. mem' \in Cursors(Len(ledger'))
  <2>1. Len(ledger) \in Nat /\ mem \in Cursors(Len(ledger)) /\ 0 \in 0..Len(ledger)
    BY DEF TypeOK, FilesOK
  <2>2. mem' = [mem EXCEPT !.pickup[ledger[pick].to] = 0]
    BY DEF AppRecord
  <2> QED
    BY <1>a, <1>b, <2>1, <2>2, MoveType, Zenon
<1>4. changed' \in BOOLEAN
  BY <1>a, <1>b DEF AppRecord, TypeOK
<1> QED
  BY <1>1, <1>2, <1>3, <1>4, Frames DEF TypeOK, AppRecord, agentVars, cliVars, copyVars, logVars, sweepVars

LEMMA PassEndType ==
  ASSUME TypeOK, PassEnd
  PROVE  TypeOK'
<1>b. ledger' = ledger
  BY DEF PassEnd
<1>1. FilesOK'
  BY <1>b, SaveType DEF PassEnd, saveCursors, TypeOK, FilesOK, Outcome
<1>2. RunOK'
  BY <1>b DEF PassEnd, ResetPass, PassOver, TypeOK, FilesOK, RunOK, InHand, sweepVars
<1>3. mem' \in Cursors(Len(ledger'))
  BY <1>b DEF PassEnd, ResetPass, Cursors, NoCursors, TypeOK
<1>4. disk' \in Cursors(Len(ledger'))
  BY <1>b, SaveType DEF PassEnd, TypeOK
<1>5. changed' \in BOOLEAN
  BY <1>b DEF PassEnd, ResetPass, TypeOK
<1> QED
  BY <1>1, <1>2, <1>3, <1>4, <1>5, Frames DEF TypeOK, PassEnd, saveCursors, ResetPass, agentVars, cliVars, copyVars, logVars, sweepVars

LEMMA RunThrowsType ==
  ASSUME TypeOK, RunThrows
  PROVE  TypeOK'
<1>b. ledger' = ledger
  BY DEF RunThrows, fileVars
<1>1. RunOK'
  BY <1>b DEF RunThrows, ResetPass, TypeOK, FilesOK, RunOK, InHand, fileVars
<1>2. mem' \in Cursors(Len(ledger'))
  BY <1>b DEF RunThrows, ResetPass, Cursors, NoCursors, TypeOK, fileVars
<1>3. changed' \in BOOLEAN
  BY <1>b DEF RunThrows, ResetPass, TypeOK
<1> QED
  BY <1>1, <1>2, <1>3, Frames DEF TypeOK, RunThrows, ResetPass, agentVars, cliVars, copyVars, fileVars, logVars

LEMMA CrashType ==
  ASSUME TypeOK, NEW next \in {"old", "new"}, Crash(next)
  PROVE  TypeOK'
<1>b. ledger' = ledger
  BY DEF Crash, fileVars
<1>1. RunOK'
  BY <1>b DEF Crash, ResetPass, TypeOK, FilesOK, RunOK, InHand, fileVars
<1>2. CountsOK'
  BY <1>b DEF Crash, TypeOK, CountsOK, FilesOK, Ids, fileVars, histVars
<1>3. mem' \in Cursors(Len(ledger'))
  BY <1>b DEF Crash, ResetPass, Cursors, NoCursors, TypeOK, fileVars
<1>4. changed' \in BOOLEAN
  BY <1>b DEF Crash, ResetPass, TypeOK
<1> QED
  BY <1>1, <1>2, <1>3, <1>4, Frames DEF TypeOK, Crash, ResetPass, agentVars, cliVars, copyVars, faultVars, fileVars, histVars, logVars

LEMMA StutterType ==
  ASSUME TypeOK, UNCHANGED vars PROVE TypeOK'
  BY Frames DEF TypeOK, vars, fileVars, daemonVars, passVars, sweepVars

LEMMA VisitType ==
  ASSUME TypeOK, NEW r \in Recipient, Visit(r) PROVE TypeOK'
<1>1. ASSUME NEW i \in 0..MaxLedger, NEW c \in 0..MaxLedger,
             VisitHeld(r, i, c) \/ (\E B \in SUBSET Ids : VisitChosen(r, i, c, B)) \/ AppArm(r, i, c)
      PROVE  TypeOK'
  BY <1>1, VisitHeldType, VisitChosenType, AppArmType
<1> QED
  BY <1>1, PickupHeldType, PickupRetryType, PickupAnsweredType, AppResumeType, AppResumeHeldType
  DEF Visit

LEMMA DaemonType ==
  ASSUME TypeOK, Daemon PROVE TypeOK'
<1>1. Sweep => TypeOK'
  BY SweepSkipType, SweepBeginType, SettleUndeliverableType, SweepEndType DEF Sweep
<1>2. Submit => TypeOK'
  BY SubmitHeldType, SubmitPaneType, ArmPaneType, SubmitArmedType, FinishSaveType,
     AppStartType, AppStartHeldType, AppRecordType, RecordAckType DEF Submit
<1> QED
  BY <1>1, <1>2, PassBeginType, PassEndType, RunThrowsType, VisitType DEF Daemon

LEMMA OthersType ==
  ASSUME TypeOK, Others PROVE TypeOK'
<1>1. ASSUME NEW r \in Recipient, Agent(r) PROVE TypeOK'
  BY <1>1, StartPaneType, DieType, WorkType, FinishTurnType, InterruptType, BlockType, UnblockType
  DEF Agent
<1>2. ASSUME NEW r \in HookPane, Hook(r) PROVE TypeOK'
  BY <1>2, HookReadType, HookAckType, HookEmitType, HookFailType DEF Hook
<1>3. ASSUME NEW i \in Ids, BecomeDue(i) \/ Take(i) \/ CancelRead(i) \/ CancelAppend(i)
      PROVE  TypeOK'
  BY <1>3, BecomeDueType, TakeType, CancelReadType, CancelAppendType
<1>4. ASSUME NEW r \in Managed, appendSession(r) \/ removeSession(r) \/ killSession(r)
      PROVE  TypeOK'
  BY <1>4, AppendSessionType, RemoveSessionType, KillSessionType
<1>5. ASSUME NEW r \in Inboxes, NEW n \in 1..Len(ledger), markRead(r, n) PROVE TypeOK'
  BY <1>5, MarkReadType
<1>6. ASSUME NEW letter \in Mail, appendMessage(letter) PROVE TypeOK'
  BY <1>6, AppendMessageType
<1>7. ASSUME NEW how \in {"bad", "missing"}, LoseCursors(how) PROVE TypeOK'
  BY <1>7, LoseCursorsType
<1>8. ASSUME NEW how \in {"ok", "missing"}, RepairCursors(how) PROVE TypeOK'
  BY <1>8, RepairCursorsType
<1>9. ASSUME NEW next \in {"old", "new"}, Crash(next) PROVE TypeOK'
  BY <1>9, CrashType
<1> QED
  BY <1>1, <1>2, <1>3, <1>4, <1>5, <1>6, <1>7, <1>8, <1>9, LoadCursorsMissingType DEF Others

LEMMA TypeStep == TypeOK /\ [Next]_vars => TypeOK'
  BY DaemonType, OthersType, StutterType DEF Next

\* For every set of recipients and letters and every bound, each process
\* keeps the files, the cursors and the local state of the run well formed.
THEOREM TypeCorrect == Spec => []TypeOK
  BY TypeInit, TypeStep, PTL DEF Spec

-----------------------------------------------------------------------------
(* No silent skip: SkipInv is inductive.  It is maintained in three parts, *)
(* the cursors file, the copy of a running pass and the letter in hand,    *)
(* each of which most steps leave alone while the record of what was       *)
(* submitted only grows.                                                   *)

\* The ledger and the record of what reached a recipient only grow.
Grow ==
  /\ Len(ledger) <= Len(ledger')
  /\ \A i \in 1..Len(ledger) : ledger'[i] = ledger[i]
  /\ \A i \in Ids : typed[i] <= typed'[i] /\ taken[i] <= taken'[i]
  /\ skipped \subseteq skipped' /\ closed \subseteq closed'

Sound(c) == HidesNothing(c) /\ BarrierSound(c)

\* The same of cursors d in the state a step leads to.
SoundNext(d) ==
  /\ \A i \in 1..Len(ledger') :
       ~isConditional(i)' /\ i <= d.delivered[ledger'[i].to] /\ ~Excused(i)'
         => Received(i)' \/ d.pickup[ledger'[i].to] = i
  /\ \A r \in Recipient :
       d.pickup[r] # 0 =>
         /\ r \notin HookPane
         /\ ledger'[d.pickup[r]].defer \/ ledger'[d.pickup[r]].timed \/ d.pickup[r] <= d.delivered[r]

LEMMA GrowFrame ==
  ASSUME TypeOK, UNCHANGED <<ledger, typed, taken, skipped, closed>>
  PROVE  Grow
  BY DEF Grow, TypeOK, FilesOK, AgentsOK

\* What was received or excused stays so.
LEMMA Keeps ==
  ASSUME TypeOK, TypeOK', Grow, NEW i \in 1..Len(ledger)
  PROVE  /\ i \in 1..Len(ledger') /\ i \in Ids
         /\ ledger'[i] = ledger[i] /\ ledger[i].to \in Recipient
         /\ isConditional(i)' = isConditional(i)
         /\ Excused(i) => Excused(i)'
         /\ Received(i) => Received(i)'
<1>1. i \in 1..Len(ledger') /\ i \in Ids /\ ledger'[i] = ledger[i] /\ ledger[i].to \in Recipient
  BY LetterType DEF TypeOK, Grow, FilesOK
<1>2. isConditional(i)' = isConditional(i)
  BY <1>1 DEF isConditional
<1>3. Excused(i) => Excused(i)'
  BY <1>1 DEF Excused, Grow
<1>4. Received(i) => Received(i)'
  BY <1>1 DEF Received, Grow, TypeOK, AgentsOK
<1> QED
  BY <1>1, <1>2, <1>3, <1>4

LEMMA NextDisk == SoundNext(disk') <=> Sound(disk)'
  BY DEF SoundNext, Sound, HidesNothing, BarrierSound, isConditional

LEMMA NextMem == SoundNext(mem') <=> Sound(mem)'
  BY DEF SoundNext, Sound, HidesNothing, BarrierSound, isConditional

\* Sound cursors stay sound, and so does what is saved of them.
LEMMA Carry ==
  ASSUME TypeOK, TypeOK', Grow, NEW c \in Cursors(Len(ledger)), Sound(c),
         NEW d, d.delivered = c.delivered, d.pickup = c.pickup
  PROVE  SoundNext(d)
<1>1. ASSUME NEW i \in 1..Len(ledger'),
             ~isConditional(i)', i <= d.delivered[ledger'[i].to], ~Excused(i)'
      PROVE  Received(i)' \/ d.pickup[ledger'[i].to] = i
  <2>1. ledger'[i].to \in Recipient
    BY MailAssumption DEF TypeOK, FilesOK, Letter
  <2>2. d.delivered[ledger'[i].to] \in 0..Len(ledger)
    BY <2>1 DEF Cursors
  <2>3. Len(ledger) \in Nat /\ Len(ledger') \in Nat
    BY DEF TypeOK, FilesOK
  <2>4. i \in 1..Len(ledger)
    BY <1>1, <2>2, <2>3
  <2> QED
    BY <1>1, <2>4, Keeps DEF Sound, HidesNothing
<1>2. ASSUME NEW r \in Recipient, d.pickup[r] # 0
      PROVE  /\ r \notin HookPane
             /\ ledger'[d.pickup[r]].defer \/ ledger'[d.pickup[r]].timed \/ d.pickup[r] <= d.delivered[r]
  <2>1. c.pickup[r] \in 1..Len(ledger)
    <3>1. Len(ledger) \in Nat BY CursorTypes
    <3>2. c.pickup[r] \in 0..Len(ledger) BY DEF Cursors
    <3> QED BY <1>2, <3>1, <3>2
  <2> QED
    BY <1>2, <2>1 DEF Grow, Sound, BarrierSound, isConditional
<1> QED
  BY <1>1, <1>2 DEF SoundNext

\* The catch-up of nextDelivery steps over nothing this build reads.
LEMMA CatchUp ==
  ASSUME TypeOK, Sound(mem), NEW r \in Recipient, NEW i, NEW c, nextDelivery(r, i, c),
         mem.pickup[r] = 0
  PROVE  Sound([mem EXCEPT !.delivered[r] = c])
<1> DEFINE m == [mem EXCEPT !.delivered[r] = c]
<1>1. /\ m.pickup = mem.pickup /\ m.delivered[r] = c
      /\ \A q \in Recipient \ {r} : m.delivered[q] = mem.delivered[q]
  BY DEF TypeOK, Cursors
<1>2. i \in 0..Len(ledger) /\ c \in 0..Len(ledger) /\ mem.delivered[r] \in 0..Len(ledger)
      /\ mLen \in 0..Len(ledger) /\ Len(ledger) \in Nat
  BY NextType, CursorTypes
<1>3. ASSUME NEW j \in 1..Len(ledger), ledger[j].to = r, ~isConditional(j), Readable(j), j <= c
      PROVE  j <= mem.delivered[r]
  BY <1>2, <1>3 DEF nextDelivery, Least, ImmediateFrom
<1>4. HidesNothing(m)
  <2> SUFFICES ASSUME NEW j \in 1..Len(ledger),
                      ~isConditional(j), j <= m.delivered[ledger[j].to], ~Excused(j)
               PROVE  Received(j) \/ m.pickup[ledger[j].to] = j
    BY DEF HidesNothing
  <2>1. ledger[j].to \in Recipient
    BY LetterType DEF TypeOK
  <2>2. Readable(j)
    BY DEF Excused, Readable
  <2>3. j <= mem.delivered[ledger[j].to]
    BY <1>1, <1>3, <2>1, <2>2
  <2> QED
    BY <1>1, <2>3 DEF Sound, HidesNothing
<1>5. BarrierSound(m)
  BY <1>1 DEF Sound, BarrierSound
<1> QED
  BY <1>4, <1>5 DEF Sound

\* What nextDelivery picks is addressed to r; an immediate pick is next in line.
LEMMA PickedLetter ==
  ASSUME TypeOK, NEW r \in Recipient, NEW i, NEW c, nextDelivery(r, i, c), i # 0,
         \A j \in waiting : isConditional(j)
  PROVE  ledger[i].to = r /\ (~isConditional(i) => c = i - 1)
  BY DEF nextDelivery, Least, ImmediateFrom

\* Arming a barrier hides the letter behind nothing but its barrier.
LEMMA ArmSound ==
  ASSUME TypeOK, NEW c \in Cursors(Len(ledger)), Sound(c), NEW i \in 1..Len(ledger),
         NEW r \in Recipient, ledger[i].to = r, r \notin HookPane, c.pickup[r] = 0,
         ~isConditional(i) => c.delivered[r] = i - 1
  PROVE  Sound(armPickup(c, r, i))
<1> DEFINE m == armPickup(c, r, i)
<1>1. /\ m.pickup[r] = i /\ \A q \in Recipient \ {r} : m.pickup[q] = c.pickup[q]
      /\ m.delivered[r] = (IF isConditional(i) THEN c.delivered[r] ELSE i)
      /\ \A q \in Recipient \ {r} : m.delivered[q] = c.delivered[q]
  BY DEF armPickup, Cursors
<1> HIDE DEF m
<1>2. HidesNothing(m)
  <2> SUFFICES ASSUME NEW j \in 1..Len(ledger),
                      ~isConditional(j), j <= m.delivered[ledger[j].to], ~Excused(j)
               PROVE  Received(j) \/ m.pickup[ledger[j].to] = j
    BY DEF HidesNothing
  <2>1. ledger[j].to \in Recipient
    BY LetterType DEF TypeOK
  <2>2. CASE ledger[j].to # r
    BY <1>1, <2>1, <2>2 DEF Sound, HidesNothing
  <2>3. CASE ledger[j].to = r /\ j # i
    <3>1. j <= c.delivered[r] /\ j # 0
      BY <1>1, <2>3
    <3> QED
      BY <2>3, <3>1 DEF Sound, HidesNothing
  <2>4. CASE ledger[j].to = r /\ j = i
    BY <1>1, <2>4
  <2> QED
    BY <2>2, <2>3, <2>4
<1>3. BarrierSound(m)
  BY <1>1 DEF Sound, BarrierSound
<1> QED
  BY <1>2, <1>3 DEF Sound, m

\* The parts of SkipInv in the state a step leads to.
LEMMA SkipParts ==
  ASSUME file' # "missing" => SoundNext(disk'), pc' \in Passing => SoundNext(mem'),
         HandSound', CopiesSound', WaitingSound'
  PROVE  SkipInv'
  BY NextDisk, NextMem DEF SkipInv, Sound, Passing

\* A part survives a step that leaves its variables alone.
LEMMA SkipFrames ==
  ASSUME TypeOK, TypeOK', SkipInv, Grow
  PROVE  /\ UNCHANGED <<file, disk>> => (file' # "missing" => SoundNext(disk'))
         /\ UNCHANGED mem /\ pc \in Passing => SoundNext(mem')
         /\ UNCHANGED <<pc, pick, batch, mem>> => HandSound'
         /\ pc' \notin {"submit", "app", "appRecord"} => HandSound'
         /\ UNCHANGED copyVars => CopiesSound'
         /\ UNCHANGED waiting \/ waiting' = {} => WaitingSound'
<1>1. UNCHANGED <<file, disk>> => (file' # "missing" => SoundNext(disk'))
  BY Carry DEF SkipInv, Sound, TypeOK
<1>2. UNCHANGED mem /\ pc \in Passing => SoundNext(mem')
  BY Carry DEF SkipInv, Sound, TypeOK, Passing
<1>3. ASSUME UNCHANGED <<pc, pick, batch, mem>>, pc \in {"submit", "app", "appRecord"} PROVE HandSound'
  <2>1. pick \in 1..Len(ledger) /\ pick \in Ids
    BY <1>3, PickType DEF InHand, TypeOK
  <2>2. ledger'[pick] = ledger[pick] /\ (isConditional(pick)' <=> isConditional(pick))
    BY <1>3, <2>1 DEF Grow, isConditional
  <2>3. typed'[pick] >= typed[pick] /\ typed[pick] \in Nat /\ typed'[pick] \in Nat
    BY <2>1 DEF Grow, TypeOK, AgentsOK
  <2> QED
    BY <1>3, <2>2, <2>3 DEF SkipInv, HandSound
<1>4. pc' \notin {"submit", "app", "appRecord"} => HandSound'
  BY DEF HandSound
<1>5. UNCHANGED copyVars => CopiesSound'
  BY DEF SkipInv, CopiesSound, copyVars
<1>6. UNCHANGED waiting => WaitingSound'
  <2>1. waiting \subseteq 1..Len(ledger)
    BY DEF TypeOK, RunOK, FilesOK
  <2> QED
    BY <2>1 DEF SkipInv, WaitingSound, Grow, isConditional
<1>7. waiting' = {} => WaitingSound'
  BY DEF WaitingSound
<1> QED
  BY <1>1, <1>2, <1>3, <1>4, <1>5, <1>6, <1>7

\* A step outside the daemon that does not touch the cursors.
LEMMA OutsideSkip ==
  ASSUME TypeOK, TypeOK', SkipInv, Grow, CopiesSound', UNCHANGED <<file, disk, daemonVars>>
  PROVE  SkipInv'
<1>1. UNCHANGED <<pc, pick, batch, mem, waiting>>
  BY DEF daemonVars, passVars
<1> QED
  BY <1>1, SkipFrames, SkipParts

\* The Stop hook, the command line and the agents.
LEMMA HookSkip ==
  ASSUME TypeOK, TypeOK', SkipInv, NEW r \in HookPane, Hook(r)
  PROVE  SkipInv'
<1>1. CASE (\E B \in SUBSET Ids : HookRead(r, B)) \/ HookAck(r) \/ HookFail(r)
  <2>1. UNCHANGED <<ledger, copyVars, histVars, file, disk, daemonVars>>
    BY <1>1 DEF HookRead, HookAck, HookFail, fileVars, agentVars, logVars
  <2>2. Grow /\ CopiesSound'
    BY <2>1, GrowFrame, SkipFrames DEF copyVars, histVars
  <2> QED
    BY <2>1, <2>2, OutsideSkip
<1>2. CASE HookEmit(r)
  <2>1. Grow
    BY <1>2 DEF HookEmit, Grow, fileVars, logVars, histVars, TypeOK, AgentsOK, FilesOK
  <2>2. CopiesSound'
    BY <1>2 DEF HookEmit, SkipInv, CopiesSound, TypeOK, AgentsOK
  <2> QED
    BY <1>2, <2>1, <2>2, OutsideSkip DEF HookEmit, fileVars
<1> QED
  BY <1>1, <1>2 DEF Hook

LEMMA AgentSkip ==
  ASSUME TypeOK, TypeOK', SkipInv, NEW r \in Recipient, Agent(r) \/ killSession(r)
  PROVE  SkipInv'
<1>1. /\ UNCHANGED <<ledger, typed, taken, histVars, file, disk, daemonVars>>
      /\ \A i \in Ids : held'[i] \in {0, held[i]}
  BY DEF Agent, StartPane, Die, Kill, Work, FinishTurn, Interrupt, Block, Unblock, killSession,
         fileVars, copyVars, logVars
<1>2. Grow
  BY <1>1, GrowFrame DEF histVars
<1>3. CopiesSound'
  <2> SUFFICES ASSUME NEW i \in Ids PROVE held'[i] + taken'[i] <= typed'[i]
    BY DEF CopiesSound
  <2>1. held[i] \in Nat /\ taken[i] \in Nat /\ typed[i] \in Nat /\ held[i] + taken[i] <= typed[i]
    BY DEF SkipInv, CopiesSound, TypeOK, AgentsOK
  <2>2. taken'[i] = taken[i] /\ typed'[i] = typed[i] /\ (held'[i] = 0 \/ held'[i] = held[i])
    BY <1>1
  <2> QED
    BY <2>1, <2>2
<1> QED
  BY <1>1, <1>2, <1>3, OutsideSkip

LEMMA TakeSkip ==
  ASSUME TypeOK, TypeOK', SkipInv, NEW i \in Ids, Take(i)
  PROVE  SkipInv'
<1>1. Grow
  BY DEF Take, Grow, fileVars, logVars, histVars, TypeOK, AgentsOK, FilesOK
<1>2. CopiesSound'
  BY DEF Take, SkipInv, CopiesSound, TypeOK, AgentsOK
<1> QED
  BY <1>1, <1>2, OutsideSkip DEF Take, fileVars

LEMMA AppendSkip ==
  ASSUME TypeOK, TypeOK', SkipInv, NEW letter \in Mail, appendMessage(letter)
  PROVE  SkipInv'
<1>1. Grow
  BY DEF appendMessage, Grow, agentVars, copyVars, logVars, histVars, TypeOK, AgentsOK, FilesOK
<1> QED
  BY <1>1, SkipFrames, OutsideSkip DEF appendMessage, agentVars

\* Steps that touch neither a letter nor a cursor.
LEMMA OtherSkip ==
  ASSUME TypeOK, TypeOK', SkipInv,
         \/ \E i \in Ids : BecomeDue(i) \/ CancelRead(i) \/ CancelAppend(i)
         \/ \E r \in Managed : appendSession(r) \/ removeSession(r)
  PROVE  SkipInv'
<1>1. UNCHANGED <<ledger, copyVars, histVars, file, disk, daemonVars>>
  BY DEF BecomeDue, CancelRead, CancelAppend, appendSession, removeSession, fileVars, agentVars,
         logVars
<1>2. Grow
  BY <1>1, GrowFrame DEF copyVars, histVars
<1> QED
  BY <1>1, <1>2, SkipFrames, OutsideSkip

-----------------------------------------------------------------------------
(* The cursors file, from outside *)

LEMMA FileSkip ==
  ASSUME TypeOK, TypeOK', SkipInv,
         \/ \E r \in Inboxes, n \in 1..Len(ledger) : markRead(r, n)
         \/ \E how \in {"bad", "missing"} : LoseCursors(how)
         \/ \E how \in {"ok", "missing"} : RepairCursors(how)
  PROVE  SkipInv'
<1>1. /\ UNCHANGED <<ledger, copyVars, histVars, daemonVars>> /\ (file' # "missing" => file # "missing")
      /\ disk'.delivered = disk.delivered /\ disk'.pickup = disk.pickup
  BY DEF markRead, LoseCursors, RepairCursors, agentVars, logVars, TypeOK, Cursors
<1>2. Grow
  BY <1>1, GrowFrame DEF copyVars, histVars
<1>3. file' # "missing" => SoundNext(disk')
  BY <1>1, <1>2, Carry DEF SkipInv, Sound, TypeOK
<1>4. UNCHANGED <<pc, pick, batch, mem, waiting>>
  BY <1>1 DEF daemonVars, passVars
<1> QED
  BY <1>1, <1>2, <1>3, <1>4, SkipFrames, SkipParts

\* Armed cursors step over immediate mail, and the history says so.
LEMMA ArmedSkip ==
  ASSUME TypeOK, TypeOK', SkipInv, loadCursorsMissing
  PROVE  SkipInv'
<1>1. UNCHANGED <<ledger, copyVars, closed, daemonVars>>
  BY DEF loadCursorsMissing, agentVars
<1>2. Grow
  BY <1>1 DEF Grow, loadCursorsMissing, copyVars, TypeOK, FilesOK, AgentsOK
<1>3. SoundNext(disk')
  <2>1. \A i \in 1..Len(ledger') :
          ~isConditional(i)' /\ i <= disk'.delivered[ledger'[i].to] => Excused(i)'
    BY <1>1 DEF loadCursorsMissing, Excused, isConditional
  <2>2. \A r \in Recipient : disk'.pickup[r] = 0
    BY DEF loadCursorsMissing, armedCursors, NoCursors
  <2> QED
    BY <2>1, <2>2 DEF SoundNext
<1>4. UNCHANGED <<pc, pick, batch, mem, waiting>>
  BY <1>1 DEF daemonVars, passVars
<1> QED
  BY <1>1, <1>2, <1>3, <1>4, SkipFrames, SkipParts

-----------------------------------------------------------------------------
(* The daemon *)

\* A run that is not in a pass holds no cursors.
LEMMA SweepSkips ==
  ASSUME TypeOK, TypeOK', SkipInv,
         SweepSkip \/ SweepBegin \/ SweepEnd \/ RunThrows \/ \E next \in {"old", "new"} : Crash(next)
  PROVE  SkipInv'
<1>1. /\ UNCHANGED <<ledger, copyVars, histVars, file, disk>>
      /\ pc' \in {"swept", "sweep", "idle"} /\ (UNCHANGED waiting \/ waiting' = {})
  BY DEF SweepSkip, SweepBegin, SweepEnd, RunThrows, Crash, ResetPass, passVars, fileVars, agentVars,
         logVars
<1>2. Grow
  BY <1>1, GrowFrame DEF copyVars, histVars
<1> QED
  BY <1>1, <1>2, SkipFrames, SkipParts DEF Passing, InHand

\* The sweep moves a cursor only over letters it closes.
LEMMA SettleSkip ==
  ASSUME TypeOK, TypeOK', SkipInv, settleUndeliverable
  PROVE  SkipInv'
<1>1. /\ UNCHANGED <<ledger, copyVars, skipped, build, waiting>>
      /\ pc' = "sweepEnd" /\ file = "ok"
  BY DEF settleUndeliverable, agentVars, passVars
<1>2. Grow
  BY <1>1 DEF Grow, settleUndeliverable, copyVars, TypeOK, FilesOK, AgentsOK
<1>3. PICK last \in [Recipient -> 0..MaxLedger] :
        /\ \A r \in Recipient :
             LET mine == {i \in {j \in Stranded : ~isConditional(j)} : ledger[i].to = r} IN
             /\ mine = {} => last[r] = disk.delivered[r]
             /\ mine # {} => last[r] \in mine /\ \A i \in mine : i <= last[r]
        /\ disk' = [disk EXCEPT !.delivered = last]
  BY DEF settleUndeliverable
<1>4. disk'.delivered = last /\ disk'.pickup = disk.pickup
  BY <1>3 DEF TypeOK, Cursors
<1>5. \A r \in Recipient : disk.delivered[r] \in 0..Len(ledger) /\ last[r] \in Nat
  BY <1>3, BoundsAssumption DEF TypeOK, Cursors
<1>6. \A r \in Recipient : disk.delivered[r] <= last[r]
  <2> SUFFICES ASSUME NEW r \in Recipient, last[r] # disk.delivered[r]
               PROVE  disk.delivered[r] <= last[r]
    BY <1>5
  <2>1. last[r] \in Stranded /\ ~isConditional(last[r]) /\ ledger[last[r]].to = r
    BY <1>3
  <2> QED
    BY <1>5, <2>1 DEF Stranded, letterPending
<1>7. ASSUME NEW i \in 1..Len(ledger), ~isConditional(i), i <= last[ledger[i].to], ~Excused(i)'
      PROVE  i <= disk.delivered[ledger[i].to]
  <2> DEFINE r == ledger[i].to
  <2>1. r \in Recipient
    BY LetterType DEF TypeOK
  <2>2. SUFFICES ASSUME ~(i <= disk.delivered[r]) PROVE FALSE
    OBVIOUS
  <2>3. last[r] # disk.delivered[r]
    BY <1>7, <2>2
  <2>4. last[r] \in Stranded /\ ledger[last[r]].to = r
    BY <1>3, <2>1, <2>3
  <2>5. i \in Stranded
    <3>1. Readable(i)
      BY <1>1, <1>7 DEF Excused, Readable
    <3>2. r \in Managed \ live
      BY <2>4 DEF Stranded
    <3>3. letterPending(i, disk)
      BY <1>5, <1>7, <2>1, <2>2 DEF letterPending
    <3> QED
      BY <3>1, <3>2, <3>3 DEF Stranded
  <2>6. i \in closed'
    BY <1>7, <2>5 DEF settleUndeliverable
  <2> QED
    BY <1>7, <2>6 DEF Excused
<1>8. SoundNext(disk')
  <2>1. Sound(disk)
    BY <1>1 DEF SkipInv, Sound
  <2>2. ASSUME NEW i \in 1..Len(ledger'),
               ~isConditional(i)', i <= disk'.delivered[ledger'[i].to], ~Excused(i)'
        PROVE  Received(i)' \/ disk'.pickup[ledger'[i].to] = i
    <3>1. i \in 1..Len(ledger) /\ ledger'[i] = ledger[i] /\ ~isConditional(i)
      BY <1>1, <2>2 DEF isConditional
    <3>2. ~Excused(i)
      BY <1>2, <2>2, <3>1, Keeps
    <3>3. i <= disk.delivered[ledger[i].to]
      BY <1>4, <1>7, <2>2, <3>1
    <3> QED
      BY <1>2, <1>4, <2>1, <3>1, <3>2, <3>3, Keeps DEF Sound, HidesNothing
  <2>3. ASSUME NEW r \in Recipient, disk'.pickup[r] # 0
        PROVE  /\ r \notin HookPane
               /\ \/ ledger'[disk'.pickup[r]].defer \/ ledger'[disk'.pickup[r]].timed
                  \/ disk'.pickup[r] <= disk'.delivered[r]
    <3>1. disk.pickup[r] \in 0..Len(ledger)
      BY DEF TypeOK, Cursors
    <3>2. (isConditional(disk.pickup[r]) \/ disk.pickup[r] <= disk.delivered[r]) /\ r \notin HookPane
      BY <1>4, <2>1, <2>3 DEF Sound, BarrierSound
    <3> QED
      BY <1>1, <1>4, <1>5, <1>6, <3>1, <3>2 DEF isConditional
  <2> QED
    BY <2>2, <2>3 DEF SoundNext
<1> QED
  BY <1>1, <1>2, <1>8, SkipFrames, SkipParts DEF Passing, InHand

LEMMA PassBeginSkip ==
  ASSUME TypeOK, TypeOK', SkipInv, PassBegin
  PROVE  SkipInv'
<1>1. UNCHANGED <<ledger, copyVars, histVars, file, disk>> /\ pc' = "pass" /\ file = "ok" /\ mem' = disk
  BY DEF PassBegin, fileVars, agentVars, logVars
<1>2. Grow
  BY <1>1, GrowFrame DEF copyVars, histVars
<1>3. SoundNext(mem')
  BY <1>1, <1>2, Carry DEF SkipInv, Sound, TypeOK
<1>4. WaitingSound'
  BY <1>1 DEF PassBegin, Waiting, WaitingSound, isConditional
<1> QED
  BY <1>1, <1>2, <1>3, <1>4, SkipFrames, SkipParts

\* Steps of a pass that move no cursor and leave nothing in hand to record.
LEMMA HeldSkip ==
  ASSUME TypeOK, TypeOK', SkipInv,
         \/ SubmitHeld \/ \E i \in Ids : RecordAck(i)
         \/ \E r \in Recipient : PickupHeld(r) \/ PickupRetry(r)
  PROVE  SkipInv'
<1>1. /\ UNCHANGED <<ledger, copyVars, histVars, file, disk, mem, waiting>>
      /\ pc \in Passing /\ pc' \in {"pass", "record", "retry"}
  BY DEF SubmitHeld, RecordAck, PickupHeld, PickupRetry, Visiting, fileVars, agentVars, logVars,
         Passing, InHand
<1>2. Grow
  BY <1>1, GrowFrame DEF copyVars, histVars
<1> QED
  BY <1>1, <1>2, SkipFrames, SkipParts

\* A letter that waits: the cursor catches up with what is behind it.
LEMMA VisitHeldSkip ==
  ASSUME TypeOK, TypeOK', SkipInv, NEW r \in Recipient, NEW i, NEW c, VisitHeld(r, i, c)
  PROVE  SkipInv'
<1>1. /\ UNCHANGED <<ledger, copyVars, histVars, file, disk, waiting>> /\ pc = "pass" /\ pc' = "pass"
      /\ mem' = [mem EXCEPT !.delivered[r] = c] /\ nextDelivery(r, i, c)
  BY DEF VisitHeld, Visiting, Leave, fileVars, agentVars, logVars
<1>2. Grow
  BY <1>1, GrowFrame DEF copyVars, histVars
<1>3. Sound(mem) /\ mem.pickup[r] = 0
  BY <1>1 DEF SkipInv, Sound, VisitHeld, Free, BarrierSound, Passing, InHand
<1>4. Sound([mem EXCEPT !.delivered[r] = c])
  BY <1>1, <1>3, CatchUp
<1>5. SoundNext(mem')
  BY <1>1, <1>2, <1>4, Carry DEF TypeOK
<1> QED
  BY <1>1, <1>2, <1>5, SkipFrames, SkipParts

LEMMA VisitChosenSkip ==
  ASSUME TypeOK, TypeOK', SkipInv, NEW r \in Recipient, NEW i, NEW c, NEW B, VisitChosen(r, i, c, B)
  PROVE  SkipInv'
<1>1. /\ UNCHANGED <<ledger, copyVars, histVars, file, disk, waiting>> /\ pc = "pass" /\ pc' = "submit"
      /\ mem' = [mem EXCEPT !.delivered[r] = c] /\ nextDelivery(r, i, c)
      /\ i # 0 /\ pick' = i /\ batch' = B /\ (~isConditional(i) => B = {i})
  BY DEF VisitChosen, Visiting, Leave, fileVars, agentVars, logVars
<1>2. Grow
  BY <1>1, GrowFrame DEF copyVars, histVars
<1>3. Sound(mem) /\ mem.pickup[r] = 0
  BY <1>1 DEF SkipInv, Sound, VisitChosen, Free, BarrierSound, Passing
<1>4. Sound([mem EXCEPT !.delivered[r] = c])
  BY <1>1, <1>3, CatchUp
<1>5. SoundNext(mem')
  BY <1>1, <1>2, <1>4, Carry DEF TypeOK
<1>6. mem'.pickup[r] = 0 /\ mem'.delivered[r] = c
  BY <1>1, <1>3 DEF TypeOK, Cursors
<1>7. ledger[i].to = r /\ (~isConditional(i) => c = i - 1)
  BY <1>1, PickedLetter DEF SkipInv, WaitingSound
<1>8. HandSound'
  BY <1>1, <1>6, <1>7 DEF HandSound, isConditional
<1> QED
  BY <1>1, <1>2, <1>5, <1>8, SkipFrames, SkipParts

\* The paste into a Claude pane: the letter is received as its cursor passes it.
LEMMA SubmitPaneSkip ==
  ASSUME TypeOK, TypeOK', SkipInv, SubmitPane
  PROVE  SkipInv'
<1> DEFINE r == ledger[pick].to
<1>1. /\ UNCHANGED <<ledger, held, taken, histVars, file, disk, waiting>>
      /\ pc = "submit" /\ pc' \in {"pass", "record"} /\ r \in HookPane
      /\ typed' = [i \in Ids |-> IF i \in batch THEN typed[i] + 1 ELSE typed[i]]
  BY DEF SubmitPane, Type, fileVars, logVars
<1>2. pick \in 1..Len(ledger) /\ pick \in Ids /\ r \in Recipient
  BY <1>1, PickType DEF TypeOK, InHand
<1>3. Grow
  BY <1>1 DEF Grow, histVars, TypeOK, AgentsOK, FilesOK
<1>4. CopiesSound'
  BY <1>1 DEF SkipInv, CopiesSound, TypeOK, AgentsOK
<1>5. Sound(mem)
  BY <1>1 DEF SkipInv, Sound, InHand, Passing
<1>6. SoundNext(mem')
  <2>1. CASE UNCHANGED mem
    BY <1>3, <1>5, <2>1, Carry DEF TypeOK
  <2>2. CASE ~isConditional(pick)
    <3>1. /\ mem'.pickup = mem.pickup /\ mem'.delivered[r] = pick
          /\ \A q \in Recipient \ {r} : mem'.delivered[q] = mem.delivered[q]
      <4>1. mem' = [mem EXCEPT !.delivered[r] = pick, !.read[r] = Larger(@, pick)]
        BY <2>2 DEF SubmitPane
      <4> QED
        BY <1>2, <4>1 DEF TypeOK, Cursors
    <3>2. mem.delivered[r] = pick - 1 /\ batch = {pick} /\ mem.pickup[r] = 0
      BY <1>1, <2>2 DEF SkipInv, HandSound
    <3>3. ASSUME NEW i \in 1..Len(ledger'),
                 ~isConditional(i)', i <= mem'.delivered[ledger'[i].to], ~Excused(i)'
          PROVE  Received(i)' \/ mem'.pickup[ledger'[i].to] = i
      <4>1. /\ i \in 1..Len(ledger) /\ ledger'[i] = ledger[i] /\ ~isConditional(i)
            /\ ledger[i].to \in Recipient /\ i \in Ids /\ ~Excused(i)
        BY <1>1, <1>3, <3>3, Keeps DEF isConditional
      <4>2. CASE i = pick
        <5>1. typed'[i] > 0
          BY <1>1, <3>2, <4>1, <4>2 DEF TypeOK, AgentsOK
        <5> QED
          BY <1>1, <4>2, <5>1, KindsDisjoint DEF Received
      <4>3. CASE i # pick
        <5>1. i <= mem.delivered[ledger[i].to]
          BY <1>2, <3>1, <3>2, <3>3, <4>1, <4>3
        <5> QED
          BY <1>3, <1>5, <3>1, <4>1, <5>1, Keeps DEF Sound, HidesNothing
      <4> QED
        BY <4>2, <4>3
    <3>4. ASSUME NEW q \in Recipient, mem'.pickup[q] # 0
          PROVE  /\ q \notin HookPane
                 /\ \/ ledger'[mem'.pickup[q]].defer \/ ledger'[mem'.pickup[q]].timed
                    \/ mem'.pickup[q] <= mem'.delivered[q]
      BY <1>1, <1>5, <3>1, <3>2, <3>4 DEF Sound, BarrierSound, isConditional
    <3> QED
      BY <3>3, <3>4 DEF SoundNext
  <2> QED
    BY <2>1, <2>2 DEF SubmitPane
<1> QED
  BY <1>1, <1>3, <1>4, <1>6, SkipFrames, SkipParts

\* A save writes the delivered cursors and the barriers it is given.
LEMMA SaveKeeps ==
  ASSUME NEW n, NEW c \in Cursors(n), saveCursors(c)
  PROVE  disk'.delivered = c.delivered /\ disk'.pickup = c.pickup
  BY DEF saveCursors, Cursors

LEMMA ArmPaneSkip ==
  ASSUME TypeOK, TypeOK', SkipInv, ArmPane
  PROVE  SkipInv'
<1> DEFINE r == ledger[pick].to
<1>1. /\ UNCHANGED <<ledger, copyVars, histVars, waiting>> /\ pc = "submit" /\ pc' = "armed"
      /\ r \in TranscriptPane /\ mem' = armPickup(mem, r, pick) /\ saveCursors(mem')
  BY DEF ArmPane, agentVars, logVars
<1>2. pick \in 1..Len(ledger) /\ r \in Recipient
  BY <1>1, PickType DEF TypeOK, InHand
<1>3. Grow
  BY <1>1, GrowFrame DEF copyVars, histVars
<1>4. Sound(mem) /\ mem.pickup[r] = 0 /\ (~isConditional(pick) => mem.delivered[r] = pick - 1)
  BY <1>1 DEF SkipInv, Sound, HandSound, InHand, Passing
<1>5. Sound(armPickup(mem, r, pick))
  BY <1>1, <1>2, <1>4, ArmSound, KindsDisjoint DEF TypeOK
<1>6. SoundNext(mem')
  BY <1>1, <1>3, <1>5, Carry DEF TypeOK
<1>7. SoundNext(disk')
  <2>1. disk'.delivered = mem'.delivered /\ disk'.pickup = mem'.pickup
    BY <1>1, SaveKeeps DEF TypeOK
  <2> QED
    BY <1>6, <2>1 DEF SoundNext
<1> QED
  BY <1>1, <1>3, <1>6, <1>7, SkipFrames, SkipParts

\* A barrier may be dropped once its letter is received.
LEMMA DropBarrier ==
  ASSUME TypeOK, TypeOK', Grow, Sound(mem), NEW r \in Recipient,
         mem'.delivered = mem.delivered, mem'.pickup[r] = 0,
         \A q \in Recipient \ {r} : mem'.pickup[q] = mem.pickup[q],
         \A i \in 1..Len(ledger) : ledger[i].to = r /\ mem.pickup[r] = i => Received(i)'
  PROVE  SoundNext(mem')
<1>0. /\ Len(ledger) \in Nat /\ Len(ledger') \in Nat
      /\ \A q \in Recipient : mem.delivered[q] \in 0..Len(ledger) /\ mem.pickup[q] \in 0..Len(ledger)
  BY DEF TypeOK, FilesOK, Cursors
<1>1. ASSUME NEW i \in 1..Len(ledger'),
             ~isConditional(i)', i <= mem'.delivered[ledger'[i].to], ~Excused(i)'
      PROVE  Received(i)' \/ mem'.pickup[ledger'[i].to] = i
  <2>1. ledger'[i].to \in Recipient
    BY MailAssumption DEF TypeOK, FilesOK, Letter
  <2>2. i \in 1..Len(ledger)
    BY <1>0, <1>1, <2>1
  <2>3. ledger'[i] = ledger[i] /\ ~isConditional(i) /\ ~Excused(i)
    BY <1>1, <2>2, Keeps
  <2>4. Received(i) \/ mem.pickup[ledger[i].to] = i
    BY <1>1, <2>2, <2>3 DEF Sound, HidesNothing
  <2> QED
    BY <2>1, <2>2, <2>3, <2>4, Keeps
<1>2. ASSUME NEW q \in Recipient, mem'.pickup[q] # 0
      PROVE  /\ q \notin HookPane
             /\ \/ ledger'[mem'.pickup[q]].defer \/ ledger'[mem'.pickup[q]].timed
                \/ mem'.pickup[q] <= mem'.delivered[q]
  <2>1. q # r /\ mem.pickup[q] # 0 /\ mem'.pickup[q] = mem.pickup[q]
    BY <1>2
  <2>2. mem.pickup[q] \in 1..Len(ledger)
    BY <1>0, <2>1
  <2> QED
    BY <2>1, <2>2 DEF Grow, Sound, BarrierSound, isConditional
<1> QED
  BY <1>1, <1>2 DEF SoundNext

\* finishPickup moves no cursor: an immediate letter passed it when it was armed.
LEMMA FinishMoves ==
  ASSUME TypeOK, BarrierSound(mem), NEW r \in Recipient, mem.pickup[r] # 0,
         finishPickup(r, mem.pickup[r])
  PROVE  /\ mem'.delivered = mem.delivered /\ mem'.pickup[r] = 0
         /\ \A q \in Recipient \ {r} : mem'.pickup[q] = mem.pickup[q]
<1> DEFINE p == mem.pickup[r]
<1>1. mem \in Cursors(Len(ledger)) /\ p \in Nat /\ mem.delivered[r] \in Nat
  BY DEF TypeOK, Cursors
<1>2. CASE isConditional(p)
  <2>1. mem' = [mem EXCEPT !.pickup[r] = 0]
    BY <1>2 DEF finishPickup
  <2> QED
    BY <1>1, <2>1 DEF Cursors
<1>3. CASE ~isConditional(p)
  <2>1. mem' = [mem EXCEPT !.pickup[r] = 0,
                           !.delivered[r] = Larger(@, p), !.read[r] = Larger(@, p)]
    BY <1>3 DEF finishPickup
  <2>2. Larger(mem.delivered[r], p) = mem.delivered[r]
    BY <1>1, <1>3 DEF BarrierSound, Larger
  <2>3. mem'.delivered = [mem.delivered EXCEPT ![r] = Larger(@, p)]
        /\ mem'.pickup = [mem.pickup EXCEPT ![r] = 0]
    BY <1>1, <2>1 DEF Cursors
  <2> QED
    BY <1>1, <2>2, <2>3 DEF Cursors
<1> QED
  BY <1>2, <1>3

LEMMA PickupAnsweredSkip ==
  ASSUME TypeOK, TypeOK', SkipInv, NEW r \in Recipient, PickupAnswered(r)
  PROVE  SkipInv'
<1>1. /\ UNCHANGED <<ledger, copyVars, histVars, file, disk, waiting>> /\ pc = "pass" /\ pc' = "finish"
      /\ r \in TranscriptPane /\ mem.pickup[r] # 0 /\ taken[mem.pickup[r]] > 0
      /\ finishPickup(r, mem.pickup[r])
  BY DEF PickupAnswered, finishPickup, Visiting, Answered, agentVars, logVars
<1>2. Grow
  BY <1>1, GrowFrame DEF copyVars, histVars
<1>3. Sound(mem)
  BY <1>1 DEF SkipInv, Sound, Passing, InHand
<1>4. \A i \in 1..Len(ledger) : ledger[i].to = r /\ mem.pickup[r] = i => Received(i)'
  BY <1>1 DEF Received, copyVars
<1>5. SoundNext(mem')
  BY <1>1, <1>2, <1>3, <1>4, FinishMoves, DropBarrier DEF Sound
<1> QED
  BY <1>1, <1>2, <1>5, SkipFrames, SkipParts

\* A turn started on an App thread.
LEMMA StartSound ==
  ASSUME TypeOK, TypeOK', SkipInv, NEW r, NEW i \in Ids, StartTurn(r, i) \/ UNCHANGED agentVars,
         UNCHANGED <<ledger, histVars>>
  PROVE  Grow /\ CopiesSound' /\ (StartTurn(r, i) => typed'[i] > 0)
<1>1. CASE UNCHANGED agentVars
  <2>1. UNCHANGED copyVars
    BY <1>1 DEF agentVars
  <2>2. Grow
    BY <2>1, GrowFrame DEF copyVars, histVars
  <2>3. StartTurn(r, i) => typed'[i] > 0
    BY DEF StartTurn, Type, TypeOK, AgentsOK
  <2> QED
    BY <2>1, <2>2, <2>3, SkipFrames
<1>2. CASE StartTurn(r, i)
  <2>1. Grow
    BY <1>2 DEF StartTurn, Type, Grow, histVars, TypeOK, AgentsOK, FilesOK
  <2>2. CopiesSound'
    BY <1>2 DEF StartTurn, Type, SkipInv, CopiesSound, TypeOK, AgentsOK
  <2>3. typed'[i] > 0
    BY <1>2 DEF StartTurn, Type, TypeOK, AgentsOK
  <2> QED
    BY <2>1, <2>2, <2>3
<1> QED
  BY <1>1, <1>2

LEMMA AppResumeSkip ==
  ASSUME TypeOK, TypeOK', SkipInv, NEW r \in Recipient, AppResume(r)
  PROVE  SkipInv'
<1> DEFINE p == mem.pickup[r]
<1>1. /\ UNCHANGED <<ledger, histVars, file, disk, waiting>> /\ pc = "pass" /\ pc' = "finish"
      /\ r \in App /\ p # 0 /\ finishPickup(r, p)
      /\ StartTurn(r, p) \/ (taken[p] > 0 /\ UNCHANGED agentVars)
  BY DEF AppResume, finishPickup, Visiting, logVars
<1>2. p \in Ids
  BY <1>1, LetterType DEF TypeOK, FilesOK, Cursors
<1>3. Grow /\ CopiesSound' /\ (StartTurn(r, p) => typed'[p] > 0)
  BY <1>1, <1>2, StartSound
<1>4. typed'[p] > 0
  <2>1. CASE taken[p] > 0 /\ UNCHANGED agentVars
    <3>1. typed'[p] = typed[p] /\ typed[p] > 0
      BY <1>2, <2>1 DEF SkipInv, CopiesSound, TypeOK, AgentsOK, agentVars, copyVars
    <3> QED
      BY <3>1
  <2> QED
    BY <1>1, <1>3, <2>1
<1>5. \A i \in 1..Len(ledger) : ledger[i].to = r /\ mem.pickup[r] = i => Received(i)'
  BY <1>1, <1>4, KindsDisjoint DEF Received, Managed
<1>6. Sound(mem)
  BY <1>1 DEF SkipInv, Sound, Passing, InHand
<1>7. SoundNext(mem')
  BY <1>1, <1>3, <1>5, <1>6, FinishMoves, DropBarrier DEF Sound
<1> QED
  BY <1>1, <1>3, <1>7, SkipFrames, SkipParts

\* The turn was refused, or no answer says it was accepted: the barrier stands.
LEMMA RefusedSkip ==
  ASSUME TypeOK, TypeOK', SkipInv,
         (\E r \in Recipient : AppResumeHeld(r)) \/ AppStartHeld
  PROVE  SkipInv'
<1>1. /\ UNCHANGED <<ledger, histVars, file, disk, mem, waiting>> /\ pc \in {"pass", "app"} /\ pc' = "pass"
  BY DEF AppResumeHeld, AppStartHeld, Visiting, fileVars
<1>2. PICK r \in Recipient, i \in Ids : StartRefused(r, i)
  <2>1. ASSUME NEW r \in Recipient, AppResumeHeld(r)
        PROVE  mem.pickup[r] \in Ids /\ StartRefused(r, mem.pickup[r])
    BY <2>1, LetterType DEF AppResumeHeld, TypeOK, FilesOK, Cursors
  <2>2. ASSUME AppStartHeld
        PROVE  pick \in Ids /\ ledger[pick].to \in Recipient /\ StartRefused(ledger[pick].to, pick)
    BY <2>2, PickType DEF AppStartHeld, TypeOK, InHand
  <2> QED
    BY <2>1, <2>2
<1>3. StartTurn(r, i) \/ UNCHANGED agentVars
  BY <1>2 DEF StartRefused
<1>4. Grow /\ CopiesSound'
  BY <1>1, <1>3, StartSound
<1> QED
  BY <1>1, <1>4, SkipFrames, SkipParts DEF Passing, InHand

LEMMA AppStartSkip ==
  ASSUME TypeOK, TypeOK', SkipInv, AppStart
  PROVE  SkipInv'
<1>1. /\ UNCHANGED <<ledger, histVars, file, disk, mem, pick, waiting>> /\ pc = "app" /\ pc' = "appRecord"
      /\ StartTurn(ledger[pick].to, pick)
  BY DEF AppStart, fileVars, passVars, logVars
<1>2. pick \in Ids
  BY <1>1, PickType DEF TypeOK, InHand
<1>3. Grow /\ CopiesSound' /\ typed'[pick] > 0
  BY <1>1, <1>2, StartSound
<1>4. HandSound'
  BY <1>1, <1>3 DEF SkipInv, HandSound
<1> QED
  BY <1>1, <1>3, <1>4, SkipFrames, SkipParts DEF Passing, InHand

\* The accepted turn of an App thread needs its barrier no longer.
LEMMA AppRecordSkip ==
  ASSUME TypeOK, TypeOK', SkipInv, AppRecord
  PROVE  SkipInv'
<1> DEFINE r == ledger[pick].to
<1>1. /\ UNCHANGED <<ledger, copyVars, histVars, file, disk, waiting>>
      /\ pc = "appRecord" /\ pc' = "pass" /\ mem' = [mem EXCEPT !.pickup[r] = 0]
  BY DEF AppRecord, agentVars, logVars
<1>2. r \in Recipient /\ pick \in 1..Len(ledger)
  BY <1>1, PickType DEF TypeOK, InHand
<1>3. Grow
  BY <1>1, GrowFrame DEF copyVars, histVars
<1>4. r \in App /\ mem.pickup[r] = pick /\ typed[pick] > 0 /\ Sound(mem)
  BY <1>1 DEF SkipInv, HandSound, Sound, InHand, Passing
<1>5. \A i \in 1..Len(ledger) : ledger[i].to = r /\ mem.pickup[r] = i => Received(i)'
  BY <1>1, <1>4, KindsDisjoint DEF Received, Managed, copyVars
<1>6. /\ mem'.delivered = mem.delivered /\ mem'.pickup[r] = 0
      /\ \A q \in Recipient \ {r} : mem'.pickup[q] = mem.pickup[q]
  BY <1>1, <1>2 DEF TypeOK, Cursors
<1>7. SoundNext(mem')
  BY <1>2, <1>3, <1>4, <1>5, <1>6, DropBarrier
<1> QED
  BY <1>1, <1>3, <1>7, SkipFrames, SkipParts

LEMMA SubmitArmedSkip ==
  ASSUME TypeOK, TypeOK', SkipInv, SubmitArmed
  PROVE  SkipInv'
<1>1. /\ UNCHANGED <<ledger, taken, histVars, file, disk, mem, waiting>>
      /\ pc \in {"armed", "retry"} /\ pc' = "pass"
  BY DEF SubmitArmed, fileVars, logVars
<1>2. pick \in Ids
  BY <1>1, PickType DEF TypeOK, InHand
<1>3. \/ UNCHANGED <<typed, held>>
      \/ /\ typed' = [i \in Ids |-> IF i \in {pick} THEN typed[i] + 1 ELSE typed[i]]
         /\ held' = [held EXCEPT ![pick] = @ + 1]
  BY DEF SubmitArmed, Type
<1>4. Grow
  BY <1>1, <1>3 DEF Grow, histVars, TypeOK, AgentsOK, FilesOK
<1>5. CopiesSound'
  <2>1. CopiesSound BY DEF SkipInv
  <2>2. typed \in [Ids -> Nat] /\ held \in [Ids -> Nat] BY DEF TypeOK, AgentsOK
  <2>3. CASE UNCHANGED <<typed, held>> BY <1>1, <2>1, <2>3 DEF CopiesSound
  <2>4. CASE /\ typed' = [i \in Ids |-> IF i \in {pick} THEN typed[i] + 1 ELSE typed[i]]
             /\ held' = [held EXCEPT ![pick] = @ + 1]
    <3>1. \A i \in Ids : typed'[i] = IF i = pick THEN typed[i] + 1 ELSE typed[i] BY <2>4
    <3>2. \A i \in Ids : held'[i] = IF i = pick THEN held[i] + 1 ELSE held[i] BY <1>2, <2>2, <2>4
    <3>3. ASSUME NEW i \in Ids PROVE held'[i] + taken'[i] <= typed'[i]
      <4>1. held[i] + taken[i] <= typed[i] BY <2>1 DEF CopiesSound
      <4>2. taken' = taken /\ taken[i] \in Nat /\ held[i] \in Nat /\ typed[i] \in Nat
        BY <1>1, <2>2 DEF histVars, TypeOK, AgentsOK
      <4>3. CASE i = pick BY <3>1, <3>2, <4>1, <4>2, <4>3
      <4>4. CASE i # pick BY <3>1, <3>2, <4>1, <4>2, <4>4
      <4> QED BY <4>3, <4>4
    <3> QED BY <3>3 DEF CopiesSound
  <2> QED BY <1>3, <2>3, <2>4
<1> QED
  BY <1>1, <1>4, <1>5, SkipFrames, SkipParts DEF Passing, InHand

\* The copy of a pass is sound, so what it saves is.
LEMMA FinishSaveSkip ==
  ASSUME TypeOK, TypeOK', SkipInv, FinishSave
  PROVE  SkipInv'
<1>1. /\ UNCHANGED <<ledger, copyVars, histVars, mem, waiting>> /\ pc = "finish" /\ pc' = "pass"
      /\ saveCursors(mem) \/ UNCHANGED <<file, disk>>
  BY DEF FinishSave, agentVars, logVars
<1>2. Grow
  BY <1>1, GrowFrame DEF copyVars, histVars
<1>3. ASSUME saveCursors(mem) PROVE SoundNext(disk')
  BY <1>1, <1>2, <1>3, SaveKeeps, Carry DEF SkipInv, Sound, TypeOK, InHand, Passing
<1> QED
  BY <1>1, <1>2, <1>3, SkipFrames, SkipParts DEF Passing, InHand

LEMMA PassEndSkip ==
  ASSUME TypeOK, TypeOK', SkipInv, PassEnd
  PROVE  SkipInv'
<1>1. /\ UNCHANGED <<ledger, copyVars, histVars>> /\ pc = "pass" /\ pc' = "idle" /\ waiting' = {}
      /\ saveCursors(mem) \/ UNCHANGED <<file, disk>>
  BY DEF PassEnd, PassOver, ResetPass, agentVars, logVars
<1>2. Grow
  BY <1>1, GrowFrame DEF copyVars, histVars
<1>3. ASSUME saveCursors(mem) PROVE SoundNext(disk')
  BY <1>1, <1>2, <1>3, SaveKeeps, Carry DEF SkipInv, Sound, TypeOK, Passing, InHand
<1> QED
  BY <1>1, <1>2, <1>3, SkipFrames, SkipParts DEF Passing, InHand

LEMMA AppArmSkip ==
  ASSUME TypeOK, TypeOK', SkipInv, NEW r \in Recipient, NEW i, NEW c, AppArm(r, i, c)
  PROVE  SkipInv'
<1> DEFINE m == [mem EXCEPT !.delivered[r] = c]
<1>1. /\ UNCHANGED <<ledger, copyVars, histVars, waiting>> /\ pc = "pass" /\ r \in App
      /\ nextDelivery(r, i, c) /\ i # 0 /\ mem' = armPickup(m, r, i)
      /\ \/ saveCursors(mem') /\ pc' = "app" /\ pick' = i
         \/ UNCHANGED <<file, disk, pc>>
  BY DEF AppArm, Visiting, agentVars, logVars
<1>2. Grow
  BY <1>1, GrowFrame DEF copyVars, histVars
<1>3. Sound(mem) /\ mem.pickup[r] = 0 /\ r \notin HookPane
  BY <1>1, KindsDisjoint DEF SkipInv, Sound, AppArm, Free, BarrierSound, Managed, Passing, InHand
<1>4. i \in 1..Len(ledger) /\ c \in 0..Len(ledger) /\ Len(ledger) \in Nat
  BY <1>1, NextType DEF TypeOK, FilesOK
<1>5. ledger[i].to = r /\ (~isConditional(i) => c = i - 1)
  BY <1>1, PickedLetter DEF SkipInv, WaitingSound
<1>6. Sound(m) /\ m \in Cursors(Len(ledger)) /\ m.pickup[r] = 0 /\ m.delivered[r] = c
  <2>1. Sound(m)
    BY <1>1, <1>3, CatchUp
  <2> QED
    BY <1>3, <1>4, <2>1 DEF TypeOK, Cursors
<1> HIDE DEF m
<1>7. Sound(armPickup(m, r, i))
  BY <1>3, <1>4, <1>5, <1>6, ArmSound
<1>8. SoundNext(mem')
  <2>1. mem' \in Cursors(Len(ledger))
    BY <1>1 DEF TypeOK
  <2> QED
    BY <1>1, <1>2, <1>7, <2>1, Carry
<1>9. ASSUME saveCursors(mem') PROVE SoundNext(disk')
  <2>1. disk'.delivered = mem'.delivered /\ disk'.pickup = mem'.pickup
    BY <1>9, SaveKeeps DEF TypeOK
  <2> QED
    BY <1>8, <2>1 DEF SoundNext
<1>10. HandSound'
  <2>1. mem'.pickup[r] = i
    BY <1>1, <1>6 DEF armPickup, Cursors
  <2> QED
    BY <1>1, <1>5, <2>1, SkipFrames, <1>2 DEF HandSound
<1> QED
  BY <1>1, <1>2, <1>8, <1>9, <1>10, SkipFrames, SkipParts

-----------------------------------------------------------------------------
LEMMA DaemonSkip ==
  ASSUME TypeOK, TypeOK', SkipInv, Daemon PROVE SkipInv'
<1>1. ASSUME NEW r \in Recipient, Visit(r) PROVE SkipInv'
  BY <1>1, VisitHeldSkip, VisitChosenSkip, AppArmSkip, HeldSkip, PickupAnsweredSkip, AppResumeSkip,
     RefusedSkip DEF Visit
<1>2. Sweep => SkipInv'
  BY SweepSkips, SettleSkip DEF Sweep
<1>3. Submit => SkipInv'
  BY HeldSkip, SubmitPaneSkip, ArmPaneSkip, SubmitArmedSkip, FinishSaveSkip, AppStartSkip, RefusedSkip,
     AppRecordSkip DEF Submit
<1> QED
  BY <1>1, <1>2, <1>3, PassBeginSkip, PassEndSkip, SweepSkips DEF Daemon

LEMMA OthersSkip ==
  ASSUME TypeOK, TypeOK', SkipInv, Others PROVE SkipInv'
<1>1. ASSUME NEW r \in Managed, appendSession(r) \/ removeSession(r) \/ killSession(r) PROVE SkipInv'
  BY <1>1, AgentSkip, OtherSkip DEF Recipient
<1>2. ASSUME NEW i \in Ids, BecomeDue(i) \/ Take(i) \/ CancelRead(i) \/ CancelAppend(i) PROVE SkipInv'
  BY <1>2, TakeSkip, OtherSkip
<1> QED
  BY <1>1, <1>2, AppendSkip, AgentSkip, HookSkip, ArmedSkip, FileSkip, SweepSkips DEF Others

LEMMA SkipInit == Init => SkipInv
<1> SUFFICES ASSUME Init PROVE SkipInv
  OBVIOUS
<1>1. HidesNothing(disk) /\ BarrierSound(disk)
  BY DEF Init, HidesNothing, BarrierSound, NoCursors
<1>2. CopiesSound
  BY DEF Init, CopiesSound
<1> QED
  BY <1>1, <1>2 DEF Init, SkipInv, HandSound, WaitingSound, InHand

\* No step of any process breaks the inductive invariant.
THEOREM SkipInductive == Spec => []SkipInv
<1>1. TypeOK /\ TypeOK' /\ SkipInv /\ [Next]_vars => SkipInv'
  <2>1. ASSUME TypeOK, TypeOK', SkipInv, UNCHANGED vars PROVE SkipInv'
    <3>1. UNCHANGED <<ledger, copyVars, histVars, file, disk, daemonVars>>
      BY <2>1 DEF vars, fileVars, agentVars, logVars
    <3>2. Grow
      BY <2>1, <3>1, GrowFrame DEF copyVars, histVars
    <3> QED
      BY <2>1, <3>1, <3>2, SkipFrames, OutsideSkip
  <2> QED
    BY <2>1, DaemonSkip, OthersSkip DEF Next
<1> QED
  BY <1>1, SkipInit, TypeCorrect, PTL DEF Spec

\* For every set of recipients, whatever the daemon, the hooks, the senders and
\* the operator do and wherever the daemon dies, the cursors file never leaves
\* an undelivered immediate letter behind its cursor.
THEOREM NeverSkipped == Spec => []NoSilentSkip
<1>1. SkipInv => NoSilentSkip
  BY DEF SkipInv, NoSilentSkip
<1> QED
  BY <1>1, SkipInductive, PTL

-----------------------------------------------------------------------------
(* Who writes what *)

Sends == \E letter \in Mail : appendMessage(letter)

Submits ==
  \/ SubmitPane \/ SubmitArmed \/ AppStart \/ AppStartHeld
  \/ \E r \in Recipient : AppResume(r) \/ AppResumeHeld(r)
  \/ \E r \in HookPane : HookEmit(r)

Finishes == \E r \in Recipient : PickupAnswered(r) \/ AppResume(r)

Acknowledges ==
  \/ settleUndeliverable \/ AppRecord \/ Finishes
  \/ \E i \in Ids : RecordAck(i) \/ CancelAppend(i)
  \/ \E r \in HookPane : HookAck(r)

Arms == \E r \in Recipient, i, c \in 0..MaxLedger : AppArm(r, i, c)

Handles ==
  \/ \E r \in Inboxes, n \in 1..Len(ledger) : markRead(r, n)
  \/ \E how \in {"bad", "missing"} : LoseCursors(how)
  \/ \E how \in {"ok", "missing"} : RepairCursors(how)

Saves ==
  \/ Handles \/ loadCursorsMissing \/ settleUndeliverable
  \/ ArmPane \/ FinishSave \/ PassEnd \/ Arms

EndsRun == PassEnd \/ RunThrows \/ \E next \in {"old", "new"} : Crash(next)

Chooses ==
  \E r \in Recipient, i, c \in 0..MaxLedger :
    VisitHeld(r, i, c) \/ \E B \in SUBSET Ids : VisitChosen(r, i, c, B)

Moves ==
  PassBegin \/ Chooses \/ SubmitPane \/ ArmPane \/ Arms \/ Finishes \/ AppRecord \/ EndsRun

\* The ledger, the record of submissions, the ack log, the cursors file and the copy of a
\* pass each have their writers.
LEMMA Writers ==
  ASSUME [Next]_vars
  PROVE  /\ Sends \/ ledger' = ledger
         /\ Submits \/ typed' = typed
         /\ Acknowledges \/ acks' = acks
         /\ Saves \/ UNCHANGED <<file, disk>>
         /\ Moves \/ mem' = mem
<1> DEFINE Goal ==
         /\ Sends \/ ledger' = ledger
         /\ Submits \/ typed' = typed
         /\ Acknowledges \/ acks' = acks
         /\ Saves \/ UNCHANGED <<file, disk>>
         /\ Moves \/ mem' = mem
<1> SUFFICES Goal OBVIOUS
<1>1. ASSUME NEW r \in Recipient, Agent(r) \/ killSession(r)
      PROVE  UNCHANGED <<ledger, typed, acks, file, disk, mem>>
  BY <1>1 DEF Agent, StartPane, Die, Kill, Work, FinishTurn, Interrupt, Block, Unblock, killSession,
         fileVars, copyVars, daemonVars, passVars
<1>2. ASSUME NEW r \in HookPane, Hook(r) PROVE Goal
  <2>1. CASE (\E B \in SUBSET Ids : HookRead(r, B)) \/ HookFail(r)
    <3>1. UNCHANGED <<ledger, typed, acks, file, disk, mem>>
      BY <2>1 DEF HookRead, HookFail, fileVars, agentVars, copyVars, daemonVars, passVars
    <3> QED BY <3>1
  <2>2. CASE HookAck(r)
    <3>1. UNCHANGED <<ledger, typed, file, disk, mem>>
      BY <2>2 DEF HookAck, agentVars, copyVars, daemonVars, passVars
    <3> QED BY <2>2, <3>1 DEF Acknowledges
  <2>3. CASE HookEmit(r)
    <3>1. UNCHANGED <<ledger, acks, file, disk, mem>>
      BY <2>3 DEF HookEmit, fileVars, daemonVars, passVars
    <3> QED BY <2>3, <3>1 DEF Submits
  <2> QED BY <1>2, <2>1, <2>2, <2>3 DEF Hook
<1>3. ASSUME NEW i \in Ids, BecomeDue(i) \/ Take(i) \/ CancelRead(i) \/ CancelAppend(i) PROVE Goal
  <2>1. CASE BecomeDue(i) \/ Take(i) \/ CancelRead(i)
    <3>1. UNCHANGED <<ledger, typed, acks, file, disk, mem>>
      BY <2>1 DEF BecomeDue, Take, CancelRead, fileVars, agentVars, copyVars, daemonVars, passVars
    <3> QED BY <3>1
  <2>2. CASE CancelAppend(i)
    <3>1. UNCHANGED <<ledger, typed, file, disk, mem>>
      BY <2>2 DEF CancelAppend, agentVars, copyVars, daemonVars, passVars
    <3> QED BY <2>2, <3>1 DEF Acknowledges
  <2> QED BY <1>3, <2>1, <2>2
<1>4. ASSUME NEW r \in Managed, appendSession(r) \/ removeSession(r)
      PROVE  UNCHANGED <<ledger, typed, acks, file, disk, mem>>
  BY <1>4 DEF appendSession, removeSession, agentVars, copyVars, daemonVars, passVars
<1>5. CASE Handles \/ loadCursorsMissing
  <2>1. UNCHANGED <<ledger, typed, acks, mem>>
    BY <1>5 DEF Handles, loadCursorsMissing, markRead, LoseCursors, RepairCursors, agentVars,
         copyVars, daemonVars, passVars
  <2> QED BY <1>5, <2>1 DEF Saves
<1>6. CASE Sends
  <2>1. UNCHANGED <<typed, acks, file, disk, mem>>
    BY <1>6 DEF Sends, appendMessage, agentVars, copyVars, daemonVars, passVars
  <2> QED BY <1>6, <2>1
<1>7. ASSUME NEW next \in {"old", "new"}, Crash(next) PROVE Goal
  <2>1. UNCHANGED <<ledger, typed, acks, file, disk>>
    BY <1>7 DEF Crash, fileVars, agentVars, copyVars
  <2> QED BY <1>7, <2>1 DEF Moves, EndsRun
<1>8. CASE Sweep
  <2>1. CASE SweepSkip \/ SweepBegin \/ SweepEnd
    <3>1. UNCHANGED <<ledger, typed, acks, file, disk, mem>>
      BY <2>1 DEF SweepSkip, SweepBegin, SweepEnd, fileVars, agentVars, copyVars, passVars
    <3> QED BY <3>1
  <2>2. CASE settleUndeliverable
    <3>1. UNCHANGED <<ledger, typed, mem>>
      BY <2>2 DEF settleUndeliverable, agentVars, copyVars, passVars
    <3> QED BY <2>2, <3>1 DEF Acknowledges, Saves
  <2> QED BY <1>8, <2>1, <2>2 DEF Sweep
<1>9. CASE PassBegin
  <2>1. UNCHANGED <<ledger, typed, acks, file, disk>>
    BY <1>9 DEF PassBegin, fileVars, agentVars, copyVars
  <2> QED BY <1>9, <2>1 DEF Moves
<1>10. CASE PassEnd \/ RunThrows
  <2>1. UNCHANGED <<ledger, typed, acks>> /\ (PassEnd \/ UNCHANGED <<file, disk>>)
    BY <1>10 DEF PassEnd, RunThrows, fileVars, agentVars, copyVars
  <2> QED BY <1>10, <2>1 DEF Moves, EndsRun, Saves
<1>11. CASE Chooses
  <2>1. UNCHANGED <<ledger, typed, acks, file, disk>>
    <3>1. ASSUME NEW r \in Recipient, NEW i, NEW c, VisitHeld(r, i, c)
          PROVE  UNCHANGED <<ledger, typed, acks, file, disk>>
      BY <3>1 DEF VisitHeld, fileVars, agentVars, copyVars
    <3>2. ASSUME NEW r \in Recipient, NEW i, NEW c, NEW B, VisitChosen(r, i, c, B)
          PROVE  UNCHANGED <<ledger, typed, acks, file, disk>>
      BY <3>2 DEF VisitChosen, fileVars, agentVars, copyVars
    <3> QED BY <1>11, <3>1, <3>2 DEF Chooses
  <2> QED BY <1>11, <2>1 DEF Moves
<1>12. CASE Arms
  <2>1. UNCHANGED <<ledger, typed, acks>>
    BY <1>12 DEF Arms, AppArm, agentVars, copyVars
  <2> QED BY <1>12, <2>1 DEF Moves, Saves
<1>13. ASSUME NEW r \in Recipient, PickupHeld(r) \/ PickupRetry(r)
       PROVE  UNCHANGED <<ledger, typed, acks, file, disk, mem>>
  BY <1>13 DEF PickupHeld, PickupRetry, fileVars, agentVars, copyVars
<1>14. ASSUME NEW r \in Recipient, PickupAnswered(r) PROVE Goal
  <2>1. UNCHANGED <<ledger, typed, file, disk>>
    BY <1>14 DEF PickupAnswered, finishPickup, agentVars, copyVars
  <2> QED BY <1>14, <2>1 DEF Moves, Acknowledges, Finishes
<1>15. ASSUME NEW r \in Recipient, AppResume(r) PROVE Goal
  <2>1. UNCHANGED <<ledger, file, disk>>
    BY <1>15 DEF AppResume, finishPickup
  <2> QED BY <1>15, <2>1 DEF Moves, Acknowledges, Finishes, Submits
<1>16. ASSUME NEW r \in Recipient, AppResumeHeld(r) PROVE Goal
  <2>1. UNCHANGED <<ledger, acks, file, disk, mem>>
    BY <1>16 DEF AppResumeHeld, fileVars
  <2> QED BY <1>16, <2>1 DEF Submits
<1>17. CASE SubmitHeld
  <2>1. UNCHANGED <<ledger, typed, acks, file, disk, mem>>
    BY <1>17 DEF SubmitHeld, fileVars, agentVars, copyVars
  <2> QED BY <2>1
<1>18. CASE SubmitPane
  <2>1. UNCHANGED <<ledger, acks, file, disk>> BY <1>18 DEF SubmitPane, fileVars
  <2> QED BY <1>18, <2>1 DEF Submits, Moves
<1>19. CASE SubmitArmed \/ AppStart \/ AppStartHeld
  <2>1. UNCHANGED <<ledger, acks, file, disk, mem>>
    BY <1>19 DEF SubmitArmed, AppStart, AppStartHeld, fileVars, passVars
  <2> QED BY <1>19, <2>1 DEF Submits
<1>20. CASE ArmPane
  <2>1. UNCHANGED <<ledger, typed, acks>> BY <1>20 DEF ArmPane, agentVars, copyVars
  <2> QED BY <1>20, <2>1 DEF Moves, Saves
<1>21. CASE FinishSave
  <2>1. UNCHANGED <<ledger, typed, acks, mem>> BY <1>21 DEF FinishSave, agentVars, copyVars
  <2> QED BY <1>21, <2>1 DEF Saves
<1>22. CASE AppRecord
  <2>1. UNCHANGED <<ledger, typed, file, disk>> BY <1>22 DEF AppRecord, agentVars, copyVars
  <2> QED BY <1>22, <2>1 DEF Moves, Acknowledges
<1>23. ASSUME NEW i \in Ids, RecordAck(i) PROVE Goal
  <2>1. UNCHANGED <<ledger, typed, file, disk, mem>> BY <1>23 DEF RecordAck, agentVars, copyVars
  <2> QED BY <1>23, <2>1 DEF Acknowledges
<1>24. CASE UNCHANGED vars
  <2>1. UNCHANGED <<ledger, typed, acks, file, disk, mem>>
    BY <1>24 DEF vars, fileVars, agentVars, copyVars, daemonVars, passVars
  <2> QED BY <2>1
<1> HIDE DEF Goal
<1>25. Submit => Goal
  BY <1>17, <1>18, <1>19, <1>20, <1>21, <1>22, <1>23 DEF Submit
<1>26. ASSUME NEW r \in Recipient, Visit(r) PROVE Goal
  <2>1. (\E i, c \in 0..MaxLedger : \/ VisitHeld(r, i, c) \/ \E B \in SUBSET Ids : VisitChosen(r, i, c, B)
                                    \/ AppArm(r, i, c))
        => Chooses \/ Arms
    BY DEF Chooses, Arms
  <2> QED BY <1>11, <1>12, <1>13, <1>14, <1>15, <1>16, <1>26, <2>1 DEF Visit, Goal
<1>27. Others => Goal
  <2>1. ASSUME NEW r \in Managed, killSession(r) PROVE Goal
    BY <1>1, <2>1 DEF Recipient, Goal
  <2> QED BY <1>1, <1>2, <1>3, <1>4, <1>5, <1>6, <1>7, <2>1 DEF Others, Handles, Sends, Goal
<1> QED BY <1>8, <1>9, <1>10, <1>24, <1>25, <1>26, <1>27 DEF Next, Daemon

\* What became of letters and sessions, and the faults, is never taken back.
LEMMA Histories ==
  ASSUME TypeOK, [Next]_vars
  PROVE  /\ (\E i \in Ids : Take(i)) \/ taken' = taken
         /\ loadCursorsMissing \/ skipped' = skipped
         /\ settleUndeliverable \/ closed' = closed
         /\ losses' = losses \/ (losses' = losses + 1 /\ \E how \in {"bad", "missing"} : LoseCursors(how))
         /\ UNCHANGED <<crashes, build>> \/ \E next \in {"old", "new"} : Crash(next)
         /\ deaths' \in {deaths, deaths + 1}
         /\ \A r \in Managed : reg[r] = "gone" => reg'[r] = "gone"
<1> DEFINE Goal ==
         /\ (\E i \in Ids : Take(i)) \/ taken' = taken
         /\ loadCursorsMissing \/ skipped' = skipped
         /\ settleUndeliverable \/ closed' = closed
         /\ losses' = losses \/ (losses' = losses + 1 /\ \E how \in {"bad", "missing"} : LoseCursors(how))
         /\ UNCHANGED <<crashes, build>> \/ \E next \in {"old", "new"} : Crash(next)
         /\ deaths' \in {deaths, deaths + 1}
         /\ \A r \in Managed : reg[r] = "gone" => reg'[r] = "gone"
<1> SUFFICES Goal OBVIOUS
<1>1. ASSUME UNCHANGED <<taken, skipped, closed, losses, crashes, build, reg>>,
             deaths' \in {deaths, deaths + 1}
      PROVE  Goal
  BY <1>1
<1>2. ASSUME NEW r \in Recipient, Agent(r) \/ killSession(r) PROVE Goal
  <2>1. /\ UNCHANGED <<taken, skipped, closed, losses, crashes, build, reg>>
        /\ deaths' \in {deaths, deaths + 1}
    BY <1>2 DEF Agent, StartPane, Die, Kill, Work, FinishTurn, Interrupt, Block, Unblock, killSession,
           fileVars, copyVars, daemonVars, logVars, faultVars, histVars
  <2> QED BY <1>1, <2>1
<1>3. ASSUME NEW r \in HookPane, Hook(r) PROVE Goal
  <2>1. /\ UNCHANGED <<taken, skipped, closed, losses, crashes, build, reg>>
        /\ deaths' \in {deaths, deaths + 1}
    BY <1>3 DEF Hook, HookRead, HookAck, HookEmit, HookFail, fileVars, agentVars, copyVars,
           daemonVars, logVars, faultVars, histVars
  <2> QED BY <1>1, <2>1
<1>4. ASSUME NEW i \in Ids, BecomeDue(i) \/ Take(i) \/ CancelRead(i) \/ CancelAppend(i) PROVE Goal
  <2>1. UNCHANGED <<skipped, closed, losses, crashes, build, reg, deaths>>
    BY <1>4 DEF BecomeDue, Take, CancelRead, CancelAppend, fileVars, daemonVars, logVars, faultVars,
           histVars
  <2>2. Take(i) \/ taken' = taken
    BY <1>4 DEF BecomeDue, CancelRead, CancelAppend, agentVars, copyVars
  <2> QED BY <2>1, <2>2
<1>5. ASSUME NEW r \in Managed, appendSession(r) \/ removeSession(r) PROVE Goal
  <2>1. UNCHANGED <<taken, skipped, closed, losses, crashes, build, deaths>>
    BY <1>5 DEF appendSession, removeSession, agentVars, copyVars, daemonVars, logVars, faultVars, histVars
  <2>2. \A q \in Managed : reg[q] = "gone" => reg'[q] = "gone"
    BY <1>5 DEF appendSession, removeSession, TypeOK, FilesOK
  <2> QED BY <2>1, <2>2
<1>6. ASSUME NEW r \in Inboxes, NEW n \in 1..Len(ledger), markRead(r, n) PROVE Goal
  <2>1. UNCHANGED <<taken, skipped, closed, losses, crashes, build, reg, deaths>>
    BY <1>6 DEF markRead, agentVars, copyVars, daemonVars, logVars, faultVars, histVars
  <2> QED BY <1>1, <2>1
<1>7. ASSUME NEW how \in {"bad", "missing"}, LoseCursors(how) PROVE Goal
  <2>1. UNCHANGED <<taken, skipped, closed, crashes, build, reg, deaths>> /\ losses' = losses + 1
    BY <1>7 DEF LoseCursors, agentVars, copyVars, daemonVars, histVars
  <2> QED BY <1>7, <2>1
<1>8. ASSUME NEW how \in {"ok", "missing"}, RepairCursors(how) PROVE Goal
  <2>1. UNCHANGED <<taken, skipped, closed, losses, crashes, build, reg, deaths>>
    BY <1>8 DEF RepairCursors, agentVars, copyVars, daemonVars, logVars, faultVars, histVars
  <2> QED BY <1>1, <2>1
<1>9. CASE loadCursorsMissing
  <2>1. UNCHANGED <<taken, closed, losses, crashes, build, reg, deaths>>
    BY <1>9 DEF loadCursorsMissing, agentVars, copyVars, daemonVars, faultVars
  <2> QED BY <1>9, <2>1
<1>10. CASE Sends
  <2>1. UNCHANGED <<taken, skipped, closed, losses, crashes, build, reg, deaths>>
    BY <1>10 DEF Sends, appendMessage, agentVars, copyVars, daemonVars, logVars, faultVars, histVars
  <2> QED BY <1>1, <2>1
<1>11. ASSUME NEW next \in {"old", "new"}, Crash(next) PROVE Goal
  <2>1. UNCHANGED <<taken, skipped, closed, losses, reg, deaths>>
    BY <1>11 DEF Crash, fileVars, agentVars, copyVars, histVars
  <2> QED BY <1>11, <2>1
<1>12. CASE Sweep
  <2>1. UNCHANGED <<taken, skipped, losses, crashes, build, reg, deaths>>
    BY <1>12 DEF Sweep, SweepSkip, SweepBegin, SweepEnd, settleUndeliverable, fileVars, agentVars,
           copyVars, logVars, faultVars, histVars
  <2>2. settleUndeliverable \/ closed' = closed
    BY <1>12 DEF Sweep, SweepSkip, SweepBegin, SweepEnd, logVars, histVars
  <2> QED BY <2>1, <2>2
<1>13. CASE PassBegin \/ PassEnd \/ RunThrows
  <2>1. UNCHANGED <<taken, skipped, closed, losses, crashes, build, reg, deaths>>
    BY <1>13 DEF PassBegin, PassEnd, RunThrows, fileVars, agentVars, copyVars, logVars, faultVars, histVars
  <2> QED BY <1>1, <2>1
<1>14. CASE Chooses \/ Arms
  <2>1. UNCHANGED <<agentVars, reg, build, logVars>>
    <3>1. ASSUME NEW r \in Recipient, NEW i, NEW c, VisitHeld(r, i, c) \/ AppArm(r, i, c)
          PROVE  UNCHANGED <<agentVars, reg, build, logVars>>
      BY <3>1 DEF VisitHeld, AppArm, fileVars
    <3>2. ASSUME NEW r \in Recipient, NEW i, NEW c, NEW B, VisitChosen(r, i, c, B)
          PROVE  UNCHANGED <<agentVars, reg, build, logVars>>
      BY <3>2 DEF VisitChosen, fileVars
    <3> QED BY <1>14, <3>1, <3>2 DEF Chooses, Arms
  <2>2. UNCHANGED <<taken, skipped, closed, losses, crashes, build, reg, deaths>>
    BY <2>1 DEF agentVars, copyVars, logVars, faultVars, histVars
  <2> QED BY <1>1, <2>2
<1>15. ASSUME NEW r \in Recipient, PickupHeld(r) \/ PickupRetry(r) \/ PickupAnswered(r) PROVE Goal
  <2>1. UNCHANGED <<taken, skipped, closed, losses, crashes, build, reg, deaths>>
    BY <1>15 DEF PickupHeld, PickupRetry, PickupAnswered, finishPickup, fileVars, agentVars, copyVars,
           logVars, faultVars, histVars
  <2> QED BY <1>1, <2>1
<1>16. ASSUME NEW r \in Recipient, AppResume(r) \/ AppResumeHeld(r) PROVE Goal
  <2>1. /\ UNCHANGED <<taken, skipped, closed, losses, crashes, build, reg>>
        /\ deaths' \in {deaths, deaths + 1}
    BY <1>16 DEF AppResume, AppResumeHeld, finishPickup, StartTurn, StartRefused, fileVars, agentVars,
           copyVars, logVars, faultVars, histVars
  <2> QED BY <1>1, <2>1
<1>17. CASE AppStart \/ AppStartHeld
  <2>1. /\ UNCHANGED <<taken, skipped, closed, losses, crashes, build, reg>>
        /\ deaths' \in {deaths, deaths + 1}
    BY <1>17 DEF AppStart, AppStartHeld, StartTurn, StartRefused, fileVars, agentVars, copyVars,
           logVars, faultVars, histVars
  <2> QED BY <1>1, <2>1
<1>18. CASE SubmitHeld \/ SubmitPane \/ ArmPane \/ SubmitArmed
  <2>1. UNCHANGED <<taken, skipped, closed, losses, crashes, build, reg, deaths>>
    BY <1>18 DEF SubmitHeld, SubmitPane, ArmPane, SubmitArmed, fileVars, agentVars, copyVars, logVars,
           faultVars, histVars
  <2> QED BY <1>1, <2>1
<1>19. CASE FinishSave \/ AppRecord \/ \E i \in Ids : RecordAck(i)
  <2>1. UNCHANGED <<taken, skipped, closed, losses, crashes, build, reg, deaths>>
    BY <1>19 DEF FinishSave, AppRecord, RecordAck, agentVars, copyVars, logVars, faultVars, histVars
  <2> QED BY <1>1, <2>1
<1>20. CASE UNCHANGED vars
  <2>1. UNCHANGED <<taken, skipped, closed, losses, crashes, build, reg, deaths>>
    BY <1>20 DEF vars, fileVars, agentVars, copyVars, daemonVars, logVars, faultVars, histVars
  <2> QED BY <1>1, <2>1
<1> HIDE DEF Goal
<1>21. Submit => Goal
  BY <1>17, <1>18, <1>19 DEF Submit
<1>22. ASSUME NEW r \in Recipient, Visit(r) PROVE Goal
  <2>1. (\E i, c \in 0..MaxLedger : \/ VisitHeld(r, i, c) \/ \E B \in SUBSET Ids : VisitChosen(r, i, c, B)
                                    \/ AppArm(r, i, c))
        => Chooses \/ Arms
    BY DEF Chooses, Arms
  <2> QED BY <1>14, <1>15, <1>16, <1>22, <2>1 DEF Visit
<1>23. Others => Goal
  <2>1. ASSUME NEW r \in Managed, killSession(r) PROVE Goal
    BY <1>2, <2>1 DEF Recipient
  <2> QED
    BY <1>2, <1>3, <1>4, <1>5, <1>6, <1>7, <1>8, <1>9, <1>10, <1>11, <2>1 DEF Others, Sends
<1> QED BY <1>12, <1>13, <1>20, <1>21, <1>22, <1>23 DEF Next, Daemon

\* A step that submits adds one to some letters and leaves the others alone.
LEMMA SubmitsOnce ==
  ASSUME TypeOK, [Next]_vars, NEW i \in Ids
  PROVE  typed'[i] \in {typed[i], typed[i] + 1}
<1>1. CASE SubmitPane
  BY <1>1 DEF SubmitPane, Type, TypeOK, AgentsOK
<1>2. CASE SubmitArmed
  BY <1>2 DEF SubmitArmed, Type, TypeOK, AgentsOK
<1>3. ASSUME NEW r, NEW p, StartTurn(r, p) \/ UNCHANGED agentVars
      PROVE  typed'[i] \in {typed[i], typed[i] + 1}
  BY <1>3 DEF StartTurn, Type, agentVars, copyVars, TypeOK, AgentsOK
<1>4. CASE AppStart \/ AppStartHeld
  BY <1>3, <1>4 DEF AppStart, AppStartHeld, StartRefused
<1>5. ASSUME NEW r \in Recipient, AppResume(r) \/ AppResumeHeld(r)
      PROVE  typed'[i] \in {typed[i], typed[i] + 1}
  BY <1>3, <1>5 DEF AppResume, AppResumeHeld, StartRefused
<1>6. ASSUME NEW r \in HookPane, HookEmit(r) PROVE typed'[i] \in {typed[i], typed[i] + 1}
  BY <1>6 DEF HookEmit, TypeOK, AgentsOK
<1> QED BY <1>1, <1>2, <1>4, <1>5, <1>6, Writers DEF Submits

\* No step of any process takes a letter back.
LEMMA Grows ==
  ASSUME TypeOK, [Next]_vars
  PROVE  Grow
<1>1. Len(ledger) <= Len(ledger') /\ \A i \in 1..Len(ledger) : ledger'[i] = ledger[i]
  <2>1. CASE ledger' = ledger BY <2>1 DEF TypeOK, FilesOK
  <2>2. ASSUME NEW letter \in Mail, appendMessage(letter)
        PROVE  Len(ledger) <= Len(ledger') /\ \A i \in 1..Len(ledger) : ledger'[i] = ledger[i]
    BY <2>2 DEF appendMessage, TypeOK, FilesOK
  <2> QED BY <2>1, <2>2, Writers DEF Sends
<1>2. ASSUME NEW i \in Ids PROVE typed[i] <= typed'[i]
  <2>1. typed[i] \in Nat BY DEF TypeOK, AgentsOK
  <2>2. typed'[i] \in {typed[i], typed[i] + 1} BY SubmitsOnce
  <2> QED BY <2>1, <2>2
<1>3. \A i \in Ids : taken[i] <= taken'[i]
  <2>1. ASSUME NEW i \in Ids, Take(i) PROVE \A j \in Ids : taken[j] <= taken'[j]
    BY <2>1 DEF Take, TypeOK, AgentsOK
  <2> QED BY <2>1, Histories DEF TypeOK, AgentsOK
<1>4. skipped \subseteq skipped'
  BY Histories DEF loadCursorsMissing
<1>5. closed \subseteq closed'
  BY Histories DEF settleUndeliverable
<1> QED BY <1>1, <1>2, <1>3, <1>4, <1>5 DEF Grow

\* What is submitted is in the batch of a Claude pane or of its Stop hook, or it stands
\* behind the barrier of its Codex recipient.
LEMMA SubmitsWhat ==
  ASSUME TypeOK, SkipInv, OwnInv, [Next]_vars, NEW i \in Ids, typed'[i] # typed[i]
  PROVE  /\ i \in 1..Len(ledger)
         /\ \/ \E r \in HookPane : HookEmit(r) /\ i \in hookBatch[r]
            \/ SubmitPane /\ i \in batch
            \/ /\ ledger[i].to \notin HookPane /\ pc \in Passing
               /\ mem.pickup[ledger[i].to] = i
               /\ \/ pc \in {"armed", "retry", "app"} /\ pick = i
                  \/ /\ pc = "pass" /\ ledger[i].to \in App /\ taken[i] = 0
                     /\ pane[ledger[i].to] = "idle"
<1> DEFINE Behind == /\ ledger[i].to \notin HookPane /\ pc \in Passing
                     /\ mem.pickup[ledger[i].to] = i
                     /\ \/ pc \in {"armed", "retry", "app"} /\ pick = i
                        \/ /\ pc = "pass" /\ ledger[i].to \in App /\ taken[i] = 0
                           /\ pane[ledger[i].to] = "idle"
<1>1. CASE SubmitPane
  <2>1. i \in batch BY <1>1 DEF SubmitPane, Type, TypeOK, AgentsOK
  <2> QED BY <1>1, <2>1 DEF TypeOK, RunOK
<1>2. CASE SubmitArmed
  <2>1. i = pick /\ pc \in {"armed", "retry"}
    BY <1>2 DEF SubmitArmed, Type, TypeOK, AgentsOK
  <2>2. pick \in 1..Len(ledger) BY <2>1, PickType DEF TypeOK, InHand
  <2>3. ledger[pick].to \in TranscriptPane /\ mem.pickup[ledger[pick].to] = pick
    BY <2>1 DEF OwnInv, HandOwned
  <2> QED BY <2>1, <2>2, <2>3, KindsDisjoint DEF Passing, InHand
<1>3. ASSUME NEW r, NEW p, StartTurn(r, p) \/ UNCHANGED agentVars PROVE i = p /\ pane[r] = "idle"
  BY <1>3 DEF StartTurn, Type, agentVars, copyVars, TypeOK, AgentsOK
<1>4. CASE AppStart \/ AppStartHeld
  <2>1. i = pick /\ pc = "app" BY <1>3, <1>4 DEF AppStart, AppStartHeld, StartRefused
  <2>2. pick \in 1..Len(ledger) BY <2>1, PickType DEF TypeOK, InHand
  <2>3. ledger[pick].to \in App /\ mem.pickup[ledger[pick].to] = pick
    BY <2>1 DEF SkipInv, HandSound
  <2> QED BY <2>1, <2>2, <2>3, KindsDisjoint DEF Passing, InHand, Managed
<1>5. ASSUME NEW r \in Recipient, AppResume(r) \/ AppResumeHeld(r) PROVE i \in 1..Len(ledger) /\ Behind
  <2>1. /\ i = mem.pickup[r] /\ i # 0 /\ pane[r] = "idle" /\ pc = "pass" /\ r \in App
        /\ ~(taken[i] > 0)
    BY <1>3, <1>5 DEF AppResume, AppResumeHeld, StartRefused, Visiting, agentVars, copyVars
  <2>2. i \in 1..Len(ledger) /\ taken[i] \in Nat
    BY <2>1 DEF TypeOK, FilesOK, AgentsOK, Cursors
  <2>3. ledger[i].to = r BY <2>1 DEF OwnInv, PickupsOwned
  <2> QED BY <2>1, <2>2, <2>3, KindsDisjoint DEF Passing, InHand, Managed
<1>6. ASSUME NEW r \in HookPane, HookEmit(r) PROVE i \in hookBatch[r] /\ i \in 1..Len(ledger)
  BY <1>6 DEF HookEmit, TypeOK, AgentsOK, CliOK
<1> QED BY <1>1, <1>2, <1>4, <1>5, <1>6, Writers DEF Submits

-----------------------------------------------------------------------------
(* Order *)

\* The letters before one in a batch or behind a barrier were received.
LEMMA OrderKept ==
  ASSUME TypeOK, TypeOK', SkipInv, OwnInv, SubmittedInOrder, [Next]_vars
  PROVE  SubmittedInOrder'
<1> SUFFICES ASSUME NEW j \in 1..Len(ledger'), NEW i \in 1..(j - 1),
                    ledger'[i].to = ledger'[j].to, ~isConditional(i)', ~isConditional(j)',
                    typed'[j] > 0
             PROVE  Received(i)' \/ Excused(i)'
  BY DEF SubmittedInOrder
<1>1. Grow BY Grows
<1>2. Len(ledger) \in Nat /\ Len(ledger') \in Nat /\ Len(ledger') <= MaxLedger
  BY DEF TypeOK, FilesOK
<1>3. j \in Ids BY <1>2, BoundsAssumption DEF Ids
<1>4. j \in 1..Len(ledger)
  <2>1. SUFFICES ASSUME j > Len(ledger) PROVE FALSE BY <1>2
  <2>2. typed[j] = 0 BY <1>3, <2>1 DEF OwnInv, Unwritten
  <2>3. typed'[j] # typed[j] BY <2>2
  <2> QED BY <1>2, <1>3, <2>1, <2>3, SubmitsWhat
<1>5. i \in 1..Len(ledger) /\ i < j /\ i \in Nat /\ j \in Nat BY <1>2, <1>4
<1>6. /\ ledger'[i] = ledger[i] /\ ledger'[j] = ledger[j]
      /\ ~isConditional(i) /\ ~isConditional(j) /\ ledger[j].to \in Recipient
  BY <1>1, <1>4, <1>5, Keeps DEF isConditional
<1>7. SUFFICES Received(i) \/ Excused(i) BY <1>1, <1>5, Keeps
<1>8. CASE typed'[j] = typed[j]
  BY <1>4, <1>5, <1>6, <1>8 DEF SubmittedInOrder
<1>9. CASE typed'[j] # typed[j]
  <2>1. SUFFICES /\ HidesNothing(mem) /\ i <= mem.delivered[ledger[j].to]
                 /\ mem.pickup[ledger[j].to] # i
    BY <1>5, <1>6 DEF HidesNothing
  <2>2. mem.delivered[ledger[j].to] \in Nat BY <1>6 DEF TypeOK, Cursors
  <2>3. ASSUME NEW r \in HookPane, j \in hookBatch[r] PROVE FALSE
    BY <1>6, <2>3 DEF OwnInv, HooksOwned
  <2>4. CASE SubmitPane /\ j \in batch
    <3>1. pc = "submit" BY <2>4 DEF SubmitPane
    <3>2. ~isConditional(pick) BY <1>6, <2>4, <3>1 DEF OwnInv, HandOwned
    <3>3. batch = {pick} /\ mem.delivered[ledger[pick].to] = pick - 1 /\ mem.pickup[ledger[pick].to] = 0
      BY <3>1, <3>2 DEF SkipInv, HandSound
    <3> QED BY <1>5, <2>4, <3>1, <3>3 DEF SkipInv, Passing, InHand
  <2>5. CASE pc \in Passing /\ mem.pickup[ledger[j].to] = j
    BY <1>5, <1>6, <2>2, <2>5 DEF SkipInv, BarrierSound
  <2> QED BY <1>3, <1>9, <2>3, <2>4, <2>5, SubmitsWhat
<1> QED BY <1>8, <1>9

-----------------------------------------------------------------------------
(* Whose the letters are *)

\* A pass moves no barrier but to drop it or to arm the recipient's own letter.
LEMMA BarrierMoves ==
  ASSUME TypeOK, SkipInv, Moves, NEW q \in Recipient
  PROVE  \/ mem'.pickup[q] \in {0, mem.pickup[q]}
         \/ PassBegin /\ mem' = disk
         \/ mem'.pickup[q] \in 1..Len(ledger) /\ ledger[mem'.pickup[q]].to = q
<1>1. CASE PassBegin BY <1>1 DEF PassBegin
<1>2. CASE Chooses
  <2>1. ASSUME NEW r, NEW i, NEW c, VisitHeld(r, i, c) \/ \E B \in SUBSET Ids : VisitChosen(r, i, c, B)
        PROVE  mem'.pickup[q] = mem.pickup[q]
    <3>1. mem' = [mem EXCEPT !.delivered[r] = c] BY <2>1 DEF VisitHeld, VisitChosen, Leave
    <3> QED BY <3>1 DEF TypeOK, Cursors
  <2> QED BY <1>2, <2>1 DEF Chooses
<1>3. CASE SubmitPane
  <2>1. mem'.pickup[q] = mem.pickup[q] BY <1>3 DEF SubmitPane, TypeOK, Cursors
  <2> QED BY <2>1
<1>4. CASE ArmPane
  <2>1. pc = "submit" /\ mem' = armPickup(mem, ledger[pick].to, pick)
    BY <1>4 DEF ArmPane
  <2>2. pick \in 1..Len(ledger) /\ ledger[pick].to \in Recipient
    BY <2>1, PickType DEF TypeOK, InHand
  <2>3. mem'.pickup[q] = IF q = ledger[pick].to THEN pick ELSE mem.pickup[q]
    BY <2>1 DEF armPickup, TypeOK, Cursors
  <2> QED BY <2>2, <2>3
<1>5. ASSUME NEW r \in Recipient, NEW i, NEW c, AppArm(r, i, c)
      PROVE  \/ mem'.pickup[q] = mem.pickup[q]
             \/ mem'.pickup[q] = i /\ i \in 1..Len(ledger) /\ ledger[i].to = q
  <2>1. /\ nextDelivery(r, i, c) /\ i # 0
        /\ mem' = armPickup([mem EXCEPT !.delivered[r] = c], r, i)
    BY <1>5 DEF AppArm
  <2>2. i \in 1..Len(ledger) BY <2>1, NextType DEF TypeOK, FilesOK
  <2>3. ledger[i].to = r BY <2>1, PickedLetter DEF SkipInv, WaitingSound
  <2>4. mem'.pickup[q] = IF q = r THEN i ELSE mem.pickup[q]
    BY <2>1 DEF armPickup, TypeOK, Cursors
  <2> QED BY <2>2, <2>3, <2>4
<1>6. ASSUME NEW r \in Recipient, finishPickup(r, mem.pickup[r])
      PROVE  mem'.pickup[q] = IF q = r THEN 0 ELSE mem.pickup[q]
  BY <1>6 DEF finishPickup, TypeOK, Cursors
<1>7. CASE Finishes
  BY <1>6, <1>7 DEF Finishes, PickupAnswered, AppResume
<1>8. CASE AppRecord
  BY <1>8 DEF AppRecord, TypeOK, Cursors
<1>9. CASE EndsRun
  BY <1>9 DEF EndsRun, PassEnd, RunThrows, Crash, ResetPass, NoCursors
<1> QED BY <1>1, <1>2, <1>3, <1>4, <1>5, <1>7, <1>8, <1>9 DEF Moves, Arms

\* What is saved are the cursors of the pass.
LEMMA SavesWhat ==
  ASSUME TypeOK, TypeOK', [Next]_vars
  PROVE  \/ /\ UNCHANGED disk \/ (disk'.delivered = disk.delivered /\ disk'.pickup = disk.pickup)
            /\ Handles \/ UNCHANGED file
         \/ loadCursorsMissing \/ settleUndeliverable
         \/ /\ pc \in Passing /\ file # "bad" /\ file' = "ok" /\ (ArmPane \/ Arms)
            /\ disk'.delivered = mem'.delivered /\ disk'.pickup = mem'.pickup
         \/ /\ pc \in Passing /\ file # "bad" /\ file' = "ok" /\ (FinishSave \/ (PassEnd /\ changed))
            /\ disk'.delivered = mem.delivered /\ disk'.pickup = mem.pickup
<1> DEFINE Goal ==
         \/ /\ UNCHANGED disk \/ (disk'.delivered = disk.delivered /\ disk'.pickup = disk.pickup)
            /\ Handles \/ UNCHANGED file
         \/ loadCursorsMissing \/ settleUndeliverable
         \/ /\ pc \in Passing /\ file # "bad" /\ file' = "ok" /\ (ArmPane \/ Arms)
            /\ disk'.delivered = mem'.delivered /\ disk'.pickup = mem'.pickup
         \/ /\ pc \in Passing /\ file # "bad" /\ file' = "ok" /\ (FinishSave \/ (PassEnd /\ changed))
            /\ disk'.delivered = mem.delivered /\ disk'.pickup = mem.pickup
<1> SUFFICES Goal OBVIOUS
<1>1. CASE UNCHANGED <<file, disk>> BY <1>1
<1>2. CASE Handles
  <2>1. disk'.delivered = disk.delivered /\ disk'.pickup = disk.pickup
    BY <1>2 DEF Handles, markRead, LoseCursors, RepairCursors, TypeOK, Cursors
  <2> QED BY <1>2, <2>1
<1>3. ASSUME NEW c \in Cursors(Len(ledger)), saveCursors(c)
      PROVE  /\ file # "bad" /\ file' = "ok"
             /\ disk'.delivered = c.delivered /\ disk'.pickup = c.pickup
  BY <1>3, SaveKeeps DEF saveCursors
<1>4. CASE ArmPane
  <2>1. saveCursors(mem') /\ pc = "submit" /\ ledger' = ledger BY <1>4 DEF ArmPane
  <2>2. mem' \in Cursors(Len(ledger)) BY <2>1 DEF TypeOK
  <2> QED BY <1>3, <1>4, <2>1, <2>2 DEF Passing, InHand
<1>5. ASSUME NEW r \in Recipient, NEW i, NEW c, AppArm(r, i, c), disk' # disk \/ file' # file
      PROVE  saveCursors(mem') /\ pc = "pass" /\ ledger' = ledger
  BY <1>5 DEF AppArm, Visiting
<1>6. CASE Arms
  <2>1. UNCHANGED <<file, disk>> \/ (saveCursors(mem') /\ pc = "pass" /\ ledger' = ledger)
    BY <1>5, <1>6 DEF Arms
  <2>2. mem' \in Cursors(Len(ledger')) BY DEF TypeOK
  <2> QED BY <1>1, <1>3, <1>6, <2>1, <2>2 DEF Passing
<1>7. CASE FinishSave
  <2>1. UNCHANGED <<file, disk>> \/ saveCursors(mem) BY <1>7 DEF FinishSave
  <2>2. pc = "finish" /\ mem \in Cursors(Len(ledger)) BY <1>7 DEF FinishSave, TypeOK
  <2> QED BY <1>1, <1>3, <1>7, <2>1, <2>2 DEF Passing, InHand
<1>8. CASE PassEnd
  <2>1. UNCHANGED <<file, disk>> \/ (changed /\ saveCursors(mem)) BY <1>8 DEF PassEnd
  <2>2. pc = "pass" /\ mem \in Cursors(Len(ledger)) BY <1>8 DEF PassEnd, PassOver, TypeOK
  <2> QED BY <1>1, <1>3, <1>8, <2>1, <2>2 DEF Passing
<1>9. Saves \/ UNCHANGED <<file, disk>> BY Writers
<1>10. loadCursorsMissing \/ settleUndeliverable => Goal OBVIOUS
<1> HIDE DEF Goal
<1> QED BY <1>10, <1>1, <1>2, <1>4, <1>6, <1>7, <1>8, <1>9 DEF Saves

\* A barrier stays with its recipient.
LEMMA PickupsKept ==
  ASSUME TypeOK, TypeOK', SkipInv, OwnInv, [Next]_vars
  PROVE  PickupsOwned'
<1>1. Grow BY Grows
<1>2. ASSUME NEW c \in {disk, mem}, NEW q \in Recipient, c.pickup[q] # 0
      PROVE  ledger'[c.pickup[q]].to = q
  <2>1. c.pickup[q] \in 1..Len(ledger) BY <1>2 DEF TypeOK, FilesOK, Cursors
  <2> QED BY <1>1, <1>2, <2>1 DEF Grow, OwnInv, PickupsOwned
<1>3. ASSUME NEW q \in Recipient, mem'.pickup[q] # 0 PROVE ledger'[mem'.pickup[q]].to = q
  <2>1. CASE mem' = mem BY <1>2, <1>3, <2>1
  <2>2. CASE mem' = disk BY <1>2, <1>3, <2>2
  <2>3. CASE mem'.pickup[q] \in {0, mem.pickup[q]} BY <1>2, <1>3, <2>3
  <2>4. CASE mem'.pickup[q] \in 1..Len(ledger) /\ ledger[mem'.pickup[q]].to = q
    BY <1>1, <2>4 DEF Grow
  <2> QED BY <2>1, <2>2, <2>3, <2>4, BarrierMoves, Writers
<1>4. ASSUME NEW q \in Recipient, disk'.pickup[q] # 0 PROVE ledger'[disk'.pickup[q]].to = q
  <2>1. CASE disk'.pickup = disk.pickup BY <1>2, <1>4, <2>1
  <2>2. CASE disk'.pickup = mem.pickup BY <1>2, <1>4, <2>2
  <2>3. CASE disk'.pickup = mem'.pickup BY <1>3, <1>4, <2>3
  <2>4. CASE loadCursorsMissing
    BY <1>4, <2>4 DEF loadCursorsMissing, armedCursors, NoCursors
  <2>5. CASE settleUndeliverable
    BY <2>1, <2>5 DEF settleUndeliverable, TypeOK, Cursors
  <2> QED BY <2>1, <2>2, <2>3, <2>4, <2>5, SavesWhat
<1> QED BY <1>3, <1>4 DEF PickupsOwned

\* Nobody but the daemon and its restart touches the daemon.
LEMMA OthersLeave ==
  ASSUME Others
  PROVE  UNCHANGED daemonVars \/ \E next \in {"old", "new"} : Crash(next)
<1>1. ASSUME NEW r, Agent(r) \/ killSession(r) PROVE UNCHANGED daemonVars
  BY <1>1 DEF Agent, StartPane, Die, Kill, Work, FinishTurn, Interrupt, Block, Unblock, killSession
<1>2. ASSUME NEW r, Hook(r) PROVE UNCHANGED daemonVars
  BY <1>2 DEF Hook, HookRead, HookAck, HookEmit, HookFail
<1>3. ASSUME NEW i, BecomeDue(i) \/ Take(i) \/ CancelRead(i) \/ CancelAppend(i)
      PROVE  UNCHANGED daemonVars
  BY <1>3 DEF BecomeDue, Take, CancelRead, CancelAppend
<1>4. ASSUME NEW r, appendSession(r) \/ removeSession(r) PROVE UNCHANGED daemonVars
  BY <1>4 DEF appendSession, removeSession
<1>5. CASE Handles \/ loadCursorsMissing
  BY <1>5 DEF Handles, markRead, LoseCursors, RepairCursors, loadCursorsMissing
<1>6. ASSUME NEW letter, appendMessage(letter) PROVE UNCHANGED daemonVars
  BY <1>6 DEF appendMessage
<1> QED BY <1>1, <1>2, <1>3, <1>4, <1>5, <1>6 DEF Others, Handles

\* Only some steps leave a letter in hand that is still to be submitted or recorded.
LEMMA HandWriters ==
  ASSUME [Next]_vars, pc' \in {"submit", "armed", "retry", "record"}
  PROVE  \/ UNCHANGED daemonVars
         \/ SubmitPane \/ ArmPane
         \/ \E i \in Ids : RecordAck(i)
         \/ \E r \in Recipient : PickupRetry(r)
         \/ \E r \in Recipient, i, c \in 0..MaxLedger, B \in SUBSET Ids : VisitChosen(r, i, c, B)
<1> DEFINE Goal == \/ UNCHANGED daemonVars
                   \/ SubmitPane \/ ArmPane
                   \/ \E i \in Ids : RecordAck(i)
                   \/ \E r \in Recipient : PickupRetry(r)
                   \/ \E r \in Recipient, i, c \in 0..MaxLedger, B \in SUBSET Ids :
                        VisitChosen(r, i, c, B)
<1> SUFFICES Goal OBVIOUS
<1>1. ASSUME NEW r \in Recipient, Visit(r) PROVE Goal
  <2>1. ~PickupHeld(r) /\ ~PickupAnswered(r) /\ ~AppResume(r) /\ ~AppResumeHeld(r)
    BY DEF PickupHeld, PickupAnswered, AppResume, AppResumeHeld, finishPickup, Visiting
  <2>2. \A i, c : ~VisitHeld(r, i, c) /\ ~AppArm(r, i, c)
    BY DEF VisitHeld, AppArm, Visiting
  <2> QED BY <1>1, <2>1, <2>2 DEF Visit
<1>2. CASE Submit
  <2>1. ~SubmitHeld /\ ~SubmitArmed /\ ~FinishSave /\ ~AppStart /\ ~AppStartHeld /\ ~AppRecord
    BY DEF SubmitHeld, SubmitArmed, FinishSave, AppStart, AppStartHeld, AppRecord
  <2> QED BY <1>2, <2>1 DEF Submit
<1>3. ~Sweep /\ ~PassBegin /\ ~PassEnd /\ ~RunThrows /\ \A next : ~Crash(next)
  BY DEF Sweep, SweepSkip, SweepBegin, SweepEnd, settleUndeliverable, PassBegin, PassEnd, RunThrows, Crash
<1>4. CASE UNCHANGED vars BY <1>4 DEF vars
<1> HIDE DEF Goal
<1>5. CASE Others
  <2>1. UNCHANGED daemonVars BY <1>3, <1>5, OthersLeave
  <2> QED BY <2>1 DEF Goal
<1> QED BY <1>1, <1>2, <1>3, <1>4, <1>5 DEF Next, Daemon

\* What the pass has in hand stays one recipient's while it is handed over.
LEMMA HandKept ==
  ASSUME TypeOK, TypeOK', SkipInv, OwnInv, [Next]_vars
  PROVE  HandOwned'
<1> SUFFICES ASSUME pc' \in {"submit", "armed", "retry", "record"} PROVE HandOwned'
  BY DEF HandOwned
<1>1. Grow BY Grows
<1>2. CASE UNCHANGED daemonVars
  <2>1. UNCHANGED <<pc, pick, batch, mem, mLen, build>> BY <1>2 DEF daemonVars, passVars
  <2>2. pick \in 1..Len(ledger) BY <2>1, PickType DEF TypeOK, InHand
  <2>3. ledger'[pick] = ledger[pick] /\ (isConditional(pick)' <=> isConditional(pick))
        /\ (Readable(pick)' <=> Readable(pick))
    BY <1>1, <2>1, <2>2, Keeps DEF Readable
  <2>4. \A i \in batch : /\ ledger'[i] = ledger[i] /\ isConditional(i)' = isConditional(i)
                         /\ (typed[i] > 0 => typed'[i] > 0)
    <3>1. \A i \in batch : i \in 1..Len(ledger) /\ i \in Ids
      BY LetterType DEF TypeOK, RunOK, FilesOK
    <3>2. \A i \in batch : typed[i] <= typed'[i] /\ typed[i] \in Nat /\ typed'[i] \in Nat
      BY <1>1, <3>1 DEF Grow, TypeOK, AgentsOK
    <3> QED BY <1>1, <3>1, <3>2, Keeps
  <2> QED BY <2>1, <2>3, <2>4 DEF OwnInv, HandOwned, isConditional, Readable
<1>3. CASE SubmitPane
  <2>1. /\ pc = "submit" /\ pc' = "record" /\ UNCHANGED <<ledger, pick, batch>>
        /\ ledger[pick].to \in HookPane /\ isConditional(pick)
    BY <1>3 DEF SubmitPane, fileVars
  <2>2. \A i \in batch : typed'[i] > 0
    <3>1. \A i \in batch : i \in Ids BY LetterType DEF TypeOK, RunOK
    <3>2. \A i \in Ids : typed[i] \in Nat BY DEF TypeOK, AgentsOK
    <3>3. typed' = [i \in Ids |-> IF i \in batch THEN typed[i] + 1 ELSE typed[i]]
      BY <1>3 DEF SubmitPane, Type
    <3> QED BY <3>1, <3>2, <3>3
  <2> QED BY <2>1, <2>2 DEF OwnInv, HandOwned, isConditional
<1>4. CASE ArmPane
  <2>1. /\ pc = "submit" /\ pc' = "armed" /\ UNCHANGED <<ledger, pick>>
        /\ ledger[pick].to \in TranscriptPane /\ mem' = armPickup(mem, ledger[pick].to, pick)
    BY <1>4 DEF ArmPane
  <2>2. mem'.pickup[ledger[pick].to] = pick
    BY <2>1 DEF armPickup, TypeOK, Cursors, Recipient, Managed
  <2> QED BY <2>1, <2>2 DEF HandOwned
<1>5. ASSUME NEW k \in Ids, RecordAck(k) PROVE HandOwned'
  <2>1. pc = "record" /\ pc' = "record" /\ pick' = pick /\ batch' \subseteq batch /\ UNCHANGED <<ledger, typed>>
    BY <1>5 DEF RecordAck, agentVars, copyVars
  <2> QED BY <2>1 DEF OwnInv, HandOwned, isConditional
<1>6. ASSUME NEW r \in Recipient, PickupRetry(r) PROVE HandOwned'
  <2>1. /\ pc' = "retry" /\ r \in TranscriptPane /\ pick' = mem.pickup[r] /\ mem.pickup[r] # 0
        /\ UNCHANGED <<ledger, mem>>
    BY <1>6 DEF PickupRetry, fileVars
  <2>2. ledger[mem.pickup[r]].to = r BY <2>1 DEF OwnInv, PickupsOwned
  <2> QED BY <2>1, <2>2 DEF HandOwned
<1>7. ASSUME NEW r \in Recipient, NEW i, NEW c, NEW B, VisitChosen(r, i, c, B) PROVE HandOwned'
  <2>1. /\ pc' = "submit" /\ pick' = i /\ batch' = B /\ UNCHANGED <<ledger, mLen, build>>
        /\ nextDelivery(r, i, c) /\ i # 0 /\ r \in Managed
    BY <1>7 DEF VisitChosen, fileVars
  <2>2. ledger[i].to = r BY <2>1, PickedLetter DEF SkipInv, WaitingSound
  <2>3. i <= mLen
    BY <2>1 DEF nextDelivery, Least, ImmediateFrom, TypeOK, RunOK, FilesOK, Cursors
  <2>4. isConditional(i) \/ Readable(i)
    BY <2>1 DEF nextDelivery, Least, ImmediateFrom, SkipInv, WaitingSound
  <2>5. isConditional(i) => \A j \in B : ledger[j].to = r /\ isConditional(j)
    <3>1. B = {i} \/ B \subseteq {j \in waiting : ledger[j].to = r}
      BY <1>7 DEF VisitChosen, coalesce
    <3> QED BY <2>2, <3>1 DEF SkipInv, WaitingSound
  <2> QED BY <2>1, <2>2, <2>3, <2>4, <2>5 DEF HandOwned, isConditional, Readable
<1> QED BY <1>2, <1>3, <1>4, <1>5, <1>6, <1>7, HandWriters

\* The batch of a Stop hook is what it read; it is dropped when it is emitted, when the
\* hook fails and when its session ends.
LEMMA HookWriters ==
  ASSUME TypeOK, [Next]_vars, NEW q \in HookPane
  PROVE  \/ hookPc'[q] = hookPc[q] /\ hookBatch'[q] = hookBatch[q]
         \/ hookPc[q] = "none" /\ hookPc'[q] = "start" /\ hookBatch'[q] = hookBatch[q]
         \/ HookAck(q) /\ hookPc'[q] = "acked" /\ hookBatch'[q] = hookBatch[q]
         \/ hookPc[q] = "start" /\ \E B \in SUBSET Ids : HookRead(q, B) /\ hookBatch'[q] = B
         \/ hookBatch'[q] = {} /\ (HookEmit(q) \/ deaths' = deaths + 1 \/ reg[q] = "gone")
<1> DEFINE Goal ==
         \/ hookPc'[q] = hookPc[q] /\ hookBatch'[q] = hookBatch[q]
         \/ hookPc[q] = "none" /\ hookPc'[q] = "start" /\ hookBatch'[q] = hookBatch[q]
         \/ HookAck(q) /\ hookPc'[q] = "acked" /\ hookBatch'[q] = hookBatch[q]
         \/ hookPc[q] = "start" /\ \E B \in SUBSET Ids : HookRead(q, B) /\ hookBatch'[q] = B
         \/ hookBatch'[q] = {} /\ (HookEmit(q) \/ deaths' = deaths + 1 \/ reg[q] = "gone")
<1> SUFFICES Goal OBVIOUS
<1>0. /\ hookPc \in [HookPane -> {"none", "start", "read", "acked"}]
      /\ hookBatch \in [HookPane -> SUBSET (1..Len(ledger))] /\ deaths \in Nat
  BY DEF TypeOK, CliOK, CountsOK
<1>1. ASSUME UNCHANGED hookVars PROVE Goal BY <1>1 DEF hookVars
<1>2. ASSUME NEW r \in Recipient, Agent(r) PROVE Goal
  <2>1. CASE StartPane(r) \/ Work(r) \/ Interrupt(r) \/ Block(r) \/ Unblock(r)
    <3>1. UNCHANGED hookVars
      BY <2>1 DEF StartPane, Work, Interrupt, Block, Unblock, cliVars
    <3> QED BY <1>1, <3>1
  <2>2. CASE FinishTurn(r)
    BY <1>0, <2>2 DEF FinishTurn
  <2>3. CASE Die(r)
    BY <1>0, <2>3 DEF Die, Kill
  <2> QED BY <1>2, <2>1, <2>2, <2>3 DEF Agent
<1>3. ASSUME NEW r \in Managed, killSession(r) PROVE Goal
  BY <1>0, <1>3 DEF killSession, Kill
<1>4. ASSUME NEW r \in HookPane, Hook(r) PROVE Goal
  <2>1. ASSUME NEW B \in SUBSET Ids, HookRead(r, B) PROVE Goal
    <3>1. CASE r = q
      <4>1. hookPc[q] = "start" /\ hookBatch'[q] = B BY <1>0, <2>1, <3>1 DEF HookRead
      <4> QED BY <2>1, <3>1, <4>1
    <3>2. CASE r # q BY <1>0, <2>1, <3>2 DEF HookRead
    <3> QED BY <3>1, <3>2
  <2>2. CASE HookAck(r)
    <3>1. hookBatch' = hookBatch /\ hookPc' = [hookPc EXCEPT ![r] = "acked"]
      BY <2>2 DEF HookAck
    <3> QED BY <1>0, <2>2, <3>1
  <2>3. CASE HookEmit(r)
    <3>1. hookBatch' = [hookBatch EXCEPT ![r] = {}] /\ hookPc' = [hookPc EXCEPT ![r] = "none"]
      BY <2>3 DEF HookEmit
    <3> QED BY <1>0, <2>3, <3>1
  <2>4. CASE HookFail(r) BY <1>0, <2>4 DEF HookFail
  <2> QED BY <1>4, <2>1, <2>2, <2>3, <2>4 DEF Hook
<1>5. ASSUME NEW i \in Ids, BecomeDue(i) \/ Take(i) \/ CancelRead(i) \/ CancelAppend(i)
      PROVE  UNCHANGED hookVars
  BY <1>5 DEF BecomeDue, Take, CancelRead, CancelAppend, cliVars
<1>6. ASSUME NEW r \in Managed, appendSession(r) \/ removeSession(r) PROVE UNCHANGED hookVars
  BY <1>6 DEF appendSession, removeSession, cliVars
<1>7. CASE Handles \/ loadCursorsMissing \/ Sends
  <2>1. UNCHANGED cliVars
    BY <1>7 DEF Handles, markRead, LoseCursors, RepairCursors, loadCursorsMissing, Sends, appendMessage
  <2> QED BY <1>1, <2>1 DEF cliVars
<1>8. ASSUME NEW next \in {"old", "new"}, Crash(next) PROVE UNCHANGED hookVars
  BY <1>8 DEF Crash, cliVars
<1>9. CASE Daemon
  <2>1. Sweep \/ PassBegin \/ PassEnd \/ RunThrows => UNCHANGED cliVars
    BY DEF Sweep, SweepSkip, SweepBegin, SweepEnd, settleUndeliverable, PassBegin, PassEnd, RunThrows
  <2>2. Submit => UNCHANGED cliVars
    BY DEF Submit, SubmitHeld, SubmitPane, ArmPane, SubmitArmed, FinishSave, AppStart, AppStartHeld,
         AppRecord, RecordAck
  <2>3. ASSUME NEW r, Visit(r) PROVE UNCHANGED cliVars
    BY <2>3 DEF Visit, VisitHeld, VisitChosen, AppArm, PickupHeld, PickupRetry, PickupAnswered,
         AppResume, AppResumeHeld, finishPickup
  <2>4. UNCHANGED cliVars BY <1>9, <2>1, <2>2, <2>3 DEF Daemon
  <2> QED BY <1>1, <2>4 DEF cliVars
<1>10. CASE UNCHANGED vars BY <1>1, <1>10 DEF vars, cliVars
<1> HIDE DEF Goal
<1>11. CASE Others
  BY <1>1, <1>2, <1>3, <1>4, <1>5, <1>6, <1>7, <1>8, <1>11 DEF Others, Handles, Sends
<1> QED BY <1>9, <1>10, <1>11 DEF Next

\* A Stop hook's batch stays its recipient's conditional mail, up to the moment it is emitted.
LEMMA HooksKept ==
  ASSUME TypeOK, OwnInv, [Next]_vars
  PROVE  HooksOwned'
<1> SUFFICES ASSUME NEW q \in HookPane, NEW i \in hookBatch'[q]
             PROVE  ledger'[i].to = q /\ isConditional(i)'
  BY DEF HooksOwned
<1>1. Grow BY Grows
<1>2. CASE i \in hookBatch[q]
  <2>1. i \in 1..Len(ledger) BY <1>2 DEF TypeOK, CliOK
  <2>2. ledger'[i] = ledger[i] BY <1>1, <2>1 DEF Grow
  <2> QED BY <1>2, <2>2 DEF OwnInv, HooksOwned, isConditional
<1>3. ASSUME NEW B, HookRead(q, B), i \in B PROVE ledger'[i].to = q /\ isConditional(i)'
  BY <1>3 DEF HookRead, coalesce, Waiting, fileVars, isConditional
<1> QED BY <1>2, <1>3, HookWriters

\* A letter that is not written is neither submitted nor settled.
LEMMA UnwrittenStay ==
  ASSUME TypeOK, SkipInv, OwnInv, [Next]_vars, NEW i \in Ids, i > Len(ledger)
  PROVE  acks[i] = "none" /\ typed'[i] = 0 /\ acks'[i] = "none"
<1>1. Len(ledger) \in Nat /\ i \in Nat BY DEF TypeOK, FilesOK, Ids
<1>2. typed[i] = 0 /\ acks[i] = "none" BY <1>1 DEF OwnInv, Unwritten
<1>3. typed'[i] = 0
  <2>1. SUFFICES ASSUME typed'[i] # typed[i] PROVE FALSE BY <1>2
  <2> QED BY <1>1, <2>1, SubmitsWhat
<1>4. acks'[i] = "none"
  <2>1. CASE settleUndeliverable
    BY <1>1, <1>2, <2>1 DEF settleUndeliverable, Stranded
  <2>2. CASE AppRecord
    <3>1. pick \in 1..Len(ledger) BY <2>2, PickType DEF AppRecord, TypeOK, InHand
    <3> QED BY <1>1, <1>2, <2>2, <3>1 DEF AppRecord, TypeOK, FilesOK
  <2>3. ASSUME NEW r \in Recipient, mem.pickup[r] # 0, finishPickup(r, mem.pickup[r]) PROVE acks'[i] = "none"
    <3>1. mem.pickup[r] \in 1..Len(ledger) BY <2>3 DEF TypeOK, FilesOK, Cursors
    <3> QED BY <1>1, <1>2, <2>3, <3>1 DEF finishPickup, TypeOK, FilesOK
  <2>4. CASE Finishes BY <2>3, <2>4 DEF Finishes, PickupAnswered, AppResume
  <2>5. ASSUME NEW k \in Ids, RecordAck(k) \/ CancelAppend(k) PROVE acks'[i] = "none"
    <3>1. k \in 1..Len(ledger) BY <2>5 DEF RecordAck, CancelAppend, TypeOK, RunOK, CliOK
    <3> QED BY <1>1, <1>2, <2>5, <3>1 DEF RecordAck, CancelAppend, TypeOK, FilesOK
  <2>6. ASSUME NEW r \in HookPane, HookAck(r) PROVE acks'[i] = "none"
    BY <1>1, <1>2, <2>6 DEF HookAck, TypeOK, CliOK
  <2> QED BY <1>2, <2>1, <2>2, <2>4, <2>5, <2>6, Writers DEF Acknowledges
<1> QED BY <1>2, <1>3, <1>4

\* No step pastes or acknowledges a letter that the ledger does not hold yet.
LEMMA UnwrittenKept ==
  ASSUME TypeOK, TypeOK', SkipInv, OwnInv, [Next]_vars
  PROVE  Unwritten'
<1> SUFFICES ASSUME NEW i \in Ids, i > Len(ledger') PROVE typed'[i] = 0 /\ acks'[i] = "none"
  BY DEF Unwritten
<1>1. Len(ledger) \in Nat /\ Len(ledger') \in Nat /\ i \in Nat /\ i > Len(ledger)
  BY Grows DEF Grow, TypeOK, FilesOK, Ids
<1> QED BY <1>1, UnwrittenStay

\* Every step keeps what barriers, hands and hooks hold with the recipient it is for.
LEMMA OwnKept ==
  ASSUME TypeOK, TypeOK', SkipInv, OwnInv, [Next]_vars
  PROVE  OwnInv'
  BY PickupsKept, HandKept, HooksKept, UnwrittenKept DEF OwnInv

-----------------------------------------------------------------------------
(* The ack log *)

\* A row that is written says `delivered` of a letter that was submitted, or the Stop hook
\* that wrote it is about to emit the letter.
LEMMA AcksWhat ==
  ASSUME TypeOK, TypeOK', SkipInv, OwnInv, [Next]_vars, NEW i \in 1..Len(ledger),
         acks'[i] = "delivered", acks[i] # "delivered"
  PROVE  \/ Received(i)'
         \/ \E r \in HookPane : hookPc'[r] = "acked" /\ i \in hookBatch'[r]
<1> DEFINE Goal == \/ Received(i)'
                   \/ \E r \in HookPane : hookPc'[r] = "acked" /\ i \in hookBatch'[r]
<1> SUFFICES Goal OBVIOUS
<1>1. Grow /\ i \in Ids BY Grows, LetterType DEF TypeOK
<1>2. acks \in [Ids -> Outcome] BY DEF TypeOK, FilesOK
<1>3. Received(i) => Goal BY <1>1, Keeps
<1>4. ASSUME ledger[i].to \notin TranscriptPane, typed'[i] > 0 PROVE Goal
  BY <1>1, <1>4 DEF Received, Grow
<1>5. \A r \in HookPane \cup App : r \notin TranscriptPane BY KindsDisjoint DEF Managed
<1>6. CASE settleUndeliverable
  <2>1. acks'[i] = IF i \in Stranded /\ isConditional(i) THEN "undeliverable" ELSE acks[i]
    BY <1>1, <1>6 DEF settleUndeliverable
  <2> QED BY <2>1
<1>7. CASE AppRecord
  <2>1. pc = "appRecord" /\ i = pick /\ UNCHANGED typed
    BY <1>1, <1>2, <1>7 DEF AppRecord, agentVars, copyVars
  <2>2. ledger[i].to \in App /\ typed'[i] > 0 BY <2>1 DEF SkipInv, HandSound
  <2> QED BY <1>4, <1>5, <2>2
<1>8. ASSUME NEW r \in Recipient, mem.pickup[r] # 0, finishPickup(r, mem.pickup[r])
      PROVE  i = mem.pickup[r] /\ ledger[i].to = r
  <2>1. i = mem.pickup[r] BY <1>1, <1>2, <1>8 DEF finishPickup
  <2> QED BY <1>8, <2>1 DEF OwnInv, PickupsOwned
<1>9. ASSUME NEW r \in Recipient, PickupAnswered(r) PROVE Goal
  <2>1. i = mem.pickup[r] /\ ledger[i].to = r /\ r \in TranscriptPane /\ taken[i] > 0
    BY <1>8, <1>9 DEF PickupAnswered, Answered
  <2> QED BY <1>3, <2>1 DEF Received
<1>10. ASSUME NEW r \in Recipient, AppResume(r) PROVE Goal
  <2>1. /\ i = mem.pickup[r] /\ ledger[i].to = r /\ r \in App /\ UNCHANGED ledger
        /\ taken[i] > 0 \/ StartTurn(r, i)
    BY <1>8, <1>10 DEF AppResume, finishPickup
  <2>2. typed[i] \in Nat /\ held[i] \in Nat /\ taken[i] \in Nat BY <1>1 DEF TypeOK, AgentsOK
  <2>3. CASE taken[i] > 0
    <3>1. typed[i] > 0 BY <1>1, <2>2, <2>3 DEF SkipInv, CopiesSound
    <3> QED BY <1>3, <1>5, <2>1, <3>1 DEF Received
  <2>4. CASE StartTurn(r, i)
    <3>1. typed'[i] > 0 BY <1>1, <2>2, <2>4 DEF StartTurn, Type
    <3> QED BY <1>4, <1>5, <2>1, <3>1
  <2> QED BY <2>1, <2>3, <2>4
<1>11. ASSUME NEW k \in Ids, RecordAck(k) PROVE Goal
  <2>1. i = k /\ i \in batch /\ pc = "record" BY <1>1, <1>2, <1>11 DEF RecordAck
  <2>2. typed[i] > 0 /\ ledger[i].to \in HookPane
    BY <2>1 DEF OwnInv, HandOwned
  <2> QED BY <1>3, <1>5, <2>2 DEF Received
<1>12. ASSUME NEW k \in Ids, CancelAppend(k) PROVE FALSE
  BY <1>1, <1>2, <1>12 DEF CancelAppend
<1>13. ASSUME NEW r \in HookPane, HookAck(r) PROVE Goal
  <2>1. i \in hookBatch[r] BY <1>1, <1>2, <1>13 DEF HookAck
  <2>2. hookPc'[r] = "acked" /\ hookBatch' = hookBatch
    BY <1>13 DEF HookAck, TypeOK, CliOK
  <2> QED BY <2>1, <2>2
<1> HIDE DEF Goal
<1> QED
  BY <1>6, <1>7, <1>9, <1>10, <1>11, <1>12, <1>13, Writers DEF Acknowledges, Finishes

\* A row that says `delivered` stays true: the hook behind it emits, or it dies.
LEMMA TruthKept ==
  ASSUME TypeOK, TypeOK', SkipInv, OwnInv, DeliveredIsTrue, [Next]_vars
  PROVE  DeliveredIsTrue'
<1> SUFFICES ASSUME NEW i \in 1..Len(ledger'), acks'[i] = "delivered"
             PROVE  \/ Received(i)'
                    \/ ledger'[i].to \in HookPane /\ (deaths' > 0 \/ reg'[ledger'[i].to] = "gone")
                    \/ \E r \in HookPane : hookPc'[r] = "acked" /\ i \in hookBatch'[r]
  BY DEF DeliveredIsTrue
<1>1. Grow BY Grows
<1>2. /\ Len(ledger) \in Nat /\ Len(ledger') \in Nat /\ Len(ledger') <= MaxLedger
      /\ deaths \in Nat /\ deaths' \in {deaths, deaths + 1} /\ i \in Ids
  BY Histories, BoundsAssumption DEF TypeOK, FilesOK, CountsOK, Ids
<1>3. CASE i \notin 1..Len(ledger)
  <2>1. i > Len(ledger) BY <1>2, <1>3
  <2> QED BY <1>2, <2>1, UnwrittenStay
<1>4. CASE i \in 1..Len(ledger) /\ acks[i] # "delivered"
  BY <1>4, AcksWhat
<1>5. CASE i \in 1..Len(ledger) /\ acks[i] = "delivered"
  <2>1. ledger'[i] = ledger[i] /\ ledger[i].to \in Recipient /\ (Received(i) => Received(i)')
    BY <1>1, <1>5, Keeps
  <2>2. CASE Received(i) BY <2>1, <2>2
  <2>3. CASE ledger[i].to \in HookPane /\ (deaths > 0 \/ reg[ledger[i].to] = "gone")
    BY <1>2, <2>1, <2>3, Histories DEF Managed
  <2>4. ASSUME NEW r \in HookPane, hookPc[r] = "acked", i \in hookBatch[r]
        PROVE  \/ Received(i)'
               \/ ledger[i].to \in HookPane /\ (deaths' > 0 \/ reg'[ledger[i].to] = "gone")
               \/ hookPc'[r] = "acked" /\ i \in hookBatch'[r]
    <3>1. ledger[i].to = r BY <2>4 DEF OwnInv, HooksOwned
    <3>2. CASE HookEmit(r)
      <4>1. typed'[i] > 0
        BY <1>2, <2>4, <3>2 DEF HookEmit, TypeOK, AgentsOK
      <4> QED BY <2>1, <3>1, <4>1, KindsDisjoint DEF Received
    <3>3. CASE deaths' = deaths + 1 BY <1>2, <3>1, <3>3
    <3>4. CASE reg[r] = "gone" BY <3>1, <3>4, Histories DEF Managed
    <3> QED BY <2>4, <3>2, <3>3, <3>4, HookWriters
  <2> QED BY <1>5, <2>1, <2>2, <2>3, <2>4 DEF DeliveredIsTrue
<1> QED BY <1>3, <1>4, <1>5

-----------------------------------------------------------------------------
(* The theorems *)

\* The order of submissions, whose letters are in hand, and what the ack log says.
OrderInv == OwnInv /\ SubmittedInOrder /\ DeliveredIsTrue

\* A first run, with an empty ledger and no cursors file, has everything in order.
LEMMA OrderInit == Init => OrderInv
<1> SUFFICES ASSUME Init PROVE OrderInv OBVIOUS
<1>1. Len(ledger) = 0 /\ pick = 0 /\ pc = "idle" BY DEF Init
<1>2. PickupsOwned BY DEF Init, PickupsOwned, NoCursors
<1>3. HandOwned BY <1>1 DEF HandOwned
<1>4. HooksOwned /\ Unwritten BY DEF Init, HooksOwned, Unwritten
<1>5. SubmittedInOrder /\ DeliveredIsTrue BY <1>1 DEF SubmittedInOrder, DeliveredIsTrue
<1> QED BY <1>2, <1>3, <1>4, <1>5 DEF OrderInv, OwnInv

\* Whatever the daemon, the hooks, the command line and the agents do, and wherever the
\* daemon dies: the letter in hand and every barrier are the recipient's own, immediate
\* letters are submitted in ledger order, and the ack log is true (deliver.ts,
\* deliverApp.ts, hookDeliver.ts).
THEOREM OrderInductive == Spec => []OrderInv
<1>1. TypeOK /\ TypeOK' /\ SkipInv /\ OrderInv /\ [Next]_vars => OrderInv'
  BY OwnKept, OrderKept, TruthKept DEF OrderInv
<1> QED BY <1>1, OrderInit, TypeCorrect, SkipInductive, PTL DEF Spec

\* Immediate mail reaches every recipient in ledger order: the pass of deliver.ts picks
\* the least letter beyond the cursor and holds the next behind the barrier of the last.
THEOREM InOrderAlways == Spec => []InOrder
<1>1. TypeOK /\ SkipInv /\ OrderInv => InOrder
  <2> SUFFICES ASSUME TypeOK, SkipInv, OrderInv,
                      NEW j \in 1..Len(ledger), NEW i \in 1..j,
                      ledger[i].to = ledger[j].to, ~isConditional(i), ~isConditional(j), Received(j)
               PROVE  Received(i) \/ Excused(i)
    BY DEF InOrder
  <2>1. j \in Ids /\ Len(ledger) \in Nat BY LetterType DEF TypeOK, FilesOK
  <2>2. typed[j] \in Nat /\ held[j] \in Nat /\ taken[j] \in Nat BY <2>1 DEF TypeOK, AgentsOK
  <2>3. typed[j] > 0
    <3>1. held[j] + taken[j] <= typed[j] BY <2>1 DEF SkipInv, CopiesSound
    <3>2. typed[j] > 0 \/ taken[j] > 0 BY DEF Received
    <3> QED BY <2>2, <3>1, <3>2
  <2>4. CASE i = j BY <2>4
  <2>5. CASE i # j
    <3>1. i \in 1..(j - 1) BY <2>1, <2>5
    <3> QED BY <2>3, <3>1 DEF OrderInv, SubmittedInOrder
  <2> QED BY <2>4, <2>5
<1> QED BY <1>1, OrderInductive, TypeCorrect, SkipInductive, PTL

\* A row of the ack log that says `delivered` is true, for panes, hooks and App threads
\* alike; only a Stop hook that dies between its acks and its block can make it a lie.
THEOREM DeliveredAlwaysTrue == Spec => []DeliveredIsTrue
<1>1. OrderInv => DeliveredIsTrue BY DEF OrderInv
<1> QED BY <1>1, OrderInductive, PTL

-----------------------------------------------------------------------------
(* The course of a pass *)

\* A pass goes on with the ledger it began with.
LEMMA PassOn ==
  ASSUME [Next]_vars, pc' \in Passing
  PROVE  PassBegin \/ (pc \in Passing /\ mLen' = mLen)
<1> DEFINE Goal == PassBegin \/ (pc \in Passing /\ mLen' = mLen)
<1> SUFFICES Goal OBVIOUS
<1>1. CASE UNCHANGED daemonVars BY <1>1 DEF daemonVars, passVars
<1>2. CASE Submit
  <2>1. pc \in InHand /\ mLen' = mLen
    BY <1>2 DEF Submit, SubmitHeld, SubmitPane, ArmPane, SubmitArmed, FinishSave, AppStart,
         AppStartHeld, AppRecord, RecordAck, passVars, InHand
  <2> QED BY <2>1 DEF Passing
<1>3. ASSUME NEW r \in Recipient, Visit(r) PROVE Goal
  <2>1. pc = "pass" /\ mLen' = mLen
    BY <1>3 DEF Visit, VisitHeld, VisitChosen, AppArm, PickupHeld, PickupRetry, PickupAnswered,
         AppResume, AppResumeHeld, finishPickup, Visiting
  <2> QED BY <2>1 DEF Passing
<1>4. ~Sweep /\ ~PassEnd /\ ~RunThrows /\ \A next : ~Crash(next)
  BY DEF Sweep, SweepSkip, SweepBegin, SweepEnd, settleUndeliverable, PassEnd, RunThrows, Crash,
         Passing, InHand
<1>5. CASE UNCHANGED vars BY <1>1, <1>5 DEF vars
<1>6. CASE Others BY <1>1, <1>4, <1>6, OthersLeave
<1> HIDE DEF Goal
<1>7. PassBegin => Goal BY DEF Goal
<1> QED BY <1>2, <1>3, <1>4, <1>5, <1>6, <1>7 DEF Next, Daemon

\* In a pass a delivered cursor moves forward, and never past the letters the pass knows.
LEMMA PassForward ==
  ASSUME TypeOK, TypeOK', SkipInv, OwnInv, AheadSound, [Next]_vars,
         pc \in Passing, pc' \in Passing, NEW q \in Recipient
  PROVE  mem.delivered[q] <= mem'.delivered[q] /\ mem'.delivered[q] <= mLen
<1> DEFINE Goal == mem.delivered[q] <= mem'.delivered[q] /\ mem'.delivered[q] <= mLen
<1> SUFFICES Goal OBVIOUS
<1>0. /\ mem.delivered[q] \in Nat /\ mem.delivered[q] <= mLen /\ mLen \in Nat
      /\ Len(ledger) \in Nat
      /\ mem.delivered \in [Recipient -> 0..Len(ledger)]
      /\ mem.pickup \in [Recipient -> 0..Len(ledger)]
  BY CursorTypes DEF AheadSound
<1>1. ASSUME mem'.delivered = mem.delivered PROVE Goal BY <1>0, <1>1
<1>2. ASSUME NEW r \in Recipient, NEW n, mem'.delivered = [mem.delivered EXCEPT ![r] = n],
             n \in Nat, mem.delivered[r] <= n, n <= mLen
      PROVE  Goal
  BY <1>0, <1>2
<1>3. ASSUME NEW r \in Recipient, NEW i, NEW c, nextDelivery(r, i, c)
      PROVE  c \in Nat /\ mem.delivered[r] <= c /\ c <= mLen /\ i \in Nat /\ i <= mLen
  <2>1. /\ mem.delivered[r] \in Nat /\ mem.delivered[r] <= mLen
        /\ \A j \in waiting : j \in Nat /\ j <= mLen
    <3>1. \A j \in waiting : j \in 1..mLen BY DEF TypeOK, RunOK
    <3> QED BY <1>0, <3>1 DEF AheadSound
  <2>2. CASE i \in ImmediateFrom(r, mem.delivered[r], mLen) /\ c = i - 1
    BY <1>0, <2>1, <2>2 DEF ImmediateFrom
  <2>3. CASE c = mLen /\ (i \in waiting \/ i = 0)
    <3>1. CASE i \in waiting BY <1>0, <2>1, <2>3, <3>1
    <3>2. CASE i = 0 BY <1>0, <2>1, <2>3, <3>2
    <3> QED BY <2>3, <3>1, <3>2
  <2>4. \/ Least(i, ImmediateFrom(r, mem.delivered[r], mLen)) /\ c = i - 1
        \/ c = mLen /\ (Least(i, {j \in waiting : ledger[j].to = r}) \/ i = 0)
    BY <1>3 DEF nextDelivery
  <2> QED BY <2>2, <2>3, <2>4 DEF Least
<1>4. CASE Chooses
  <2>1. ASSUME NEW r \in Recipient, NEW i, NEW c,
               VisitHeld(r, i, c) \/ \E B \in SUBSET Ids : VisitChosen(r, i, c, B)
        PROVE  Goal
    <3>1. nextDelivery(r, i, c) /\ mem' = [mem EXCEPT !.delivered[r] = c]
      BY <2>1 DEF VisitHeld, VisitChosen, Leave
    <3>2. mem'.delivered = [mem.delivered EXCEPT ![r] = c] BY <3>1 DEF TypeOK, Cursors
    <3> QED BY <1>2, <1>3, <3>1, <3>2
  <2> HIDE DEF Goal
  <2> QED BY <1>4, <2>1 DEF Chooses
<1>5. CASE Arms
  <2>1. ASSUME NEW r \in Recipient, NEW i, NEW c, AppArm(r, i, c) PROVE Goal
    <3>1. nextDelivery(r, i, c) /\ mem' = armPickup([mem EXCEPT !.delivered[r] = c], r, i)
          /\ i # 0
      BY <2>1 DEF AppArm
    <3>2. i \in Nat /\ i <= mLen /\ c \in Nat /\ mem.delivered[r] <= c /\ c <= mLen
      BY <1>3, <3>1
    <3>3. ~isConditional(i) => c = i - 1
      BY <3>1, PickedLetter DEF SkipInv, WaitingSound
    <3>4. mem'.delivered = [mem.delivered EXCEPT ![r] = IF isConditional(i) THEN c ELSE i]
      BY <3>1 DEF armPickup, TypeOK, Cursors
    <3>5. mem.delivered[r] \in Nat BY <1>0
    <3> QED BY <1>2, <3>2, <3>3, <3>4, <3>5
  <2> HIDE DEF Goal
  <2> QED BY <1>5, <2>1 DEF Arms
<1>6. CASE SubmitPane \/ ArmPane
  <2>1. /\ pc = "submit"
        /\ \/ mem' = mem
           \/ ~isConditional(pick) /\ mem' = [mem EXCEPT !.delivered[ledger[pick].to] = pick,
                                        !.read[ledger[pick].to] = Larger(@, pick)]
           \/ mem' = armPickup(mem, ledger[pick].to, pick)
    BY <1>6 DEF SubmitPane, ArmPane
  <2>2. pick \in 1..Len(ledger) /\ ledger[pick].to \in Recipient
    BY <2>1, PickType DEF TypeOK, InHand
  <2>3. pick <= mLen /\ (~isConditional(pick) => mem.delivered[ledger[pick].to] = pick - 1)
    BY <2>1 DEF OwnInv, HandOwned, SkipInv, HandSound
  <2>4. \/ mem'.delivered = mem.delivered
        \/ /\ mem'.delivered = [mem.delivered EXCEPT ![ledger[pick].to] = pick]
           /\ ~isConditional(pick)
    BY <2>1 DEF armPickup, TypeOK, Cursors
  <2>5. pick \in Nat /\ (~isConditional(pick) => mem.delivered[ledger[pick].to] <= pick)
    BY <1>0, <2>2, <2>3
  <2> HIDE DEF Goal
  <2>6. CASE mem'.delivered = mem.delivered BY <1>1, <2>6
  <2>7. CASE mem'.delivered = [mem.delivered EXCEPT ![ledger[pick].to] = pick] /\ ~isConditional(pick)
    BY <1>2, <2>2, <2>3, <2>5, <2>7
  <2> QED BY <2>4, <2>6, <2>7
<1>7. ASSUME NEW r \in Recipient, mem.pickup[r] # 0, pc = "pass", finishPickup(r, mem.pickup[r])
      PROVE  Goal
  <2>1. ~isConditional(mem.pickup[r]) => mem.pickup[r] <= mem.delivered[r]
    BY <1>7 DEF SkipInv, BarrierSound, Passing
  <2>2. mem.pickup[r] \in Nat /\ mem.delivered[r] \in Nat BY <1>0
  <2>3. ~isConditional(mem.pickup[r]) => Larger(mem.delivered[r], mem.pickup[r]) = mem.delivered[r]
    BY <2>1, <2>2 DEF Larger
  <2>4. mem'.delivered = mem.delivered
    BY <1>7, <2>3 DEF finishPickup, TypeOK, Cursors
  <2> QED BY <1>1, <2>4
<1>8. CASE Finishes
  BY <1>7, <1>8 DEF Finishes, PickupAnswered, AppResume, Visiting
<1>9. CASE AppRecord
  <2>1. mem'.delivered = mem.delivered BY <1>9 DEF AppRecord, TypeOK, Cursors
  <2> QED BY <1>1, <2>1
<1>10. ~EndsRun /\ ~PassBegin
  BY DEF EndsRun, PassEnd, RunThrows, Crash, PassBegin, Passing, InHand
<1> HIDE DEF Goal
<1> QED BY <1>1, <1>4, <1>5, <1>6, <1>8, <1>9, <1>10, Writers DEF Moves

\* In a pass a barrier is armed where none stood; it is dropped when its turn is proved or
\* its first turn was accepted, and a conditional letter is then acknowledged.
LEMMA BarrierKept ==
  ASSUME TypeOK, SkipInv, OwnInv, [Next]_vars, pc \in Passing, pc' \in Passing,
         NEW q \in Recipient
  PROVE  \/ mem'.pickup[q] = mem.pickup[q]
         \/ mem.pickup[q] = 0 /\ (ArmPane \/ Arms)
         \/ /\ mem'.pickup[q] = 0 /\ mem.pickup[q] # 0
            /\ PickupAnswered(q) \/ ((AppResume(q) \/ AppRecord) /\ q \in App)
            /\ isConditional(mem.pickup[q]) => acks'[mem.pickup[q]] = "delivered"
<1> DEFINE Goal ==
         \/ mem'.pickup[q] = mem.pickup[q]
         \/ mem.pickup[q] = 0 /\ (ArmPane \/ Arms)
         \/ /\ mem'.pickup[q] = 0 /\ mem.pickup[q] # 0
            /\ PickupAnswered(q) \/ ((AppResume(q) \/ AppRecord) /\ q \in App)
            /\ isConditional(mem.pickup[q]) => acks'[mem.pickup[q]] = "delivered"
<1> SUFFICES Goal OBVIOUS
<1>0. /\ mem.pickup \in [Recipient -> 0..Len(ledger)] /\ acks \in [Ids -> Outcome]
      /\ \A k \in 1..Len(ledger) : k \in Ids
  BY LetterType DEF TypeOK, FilesOK, Cursors
<1>1. CASE Chooses
  <2>1. ASSUME NEW r, NEW i, NEW c, VisitHeld(r, i, c) \/ \E B \in SUBSET Ids : VisitChosen(r, i, c, B)
        PROVE  mem'.pickup[q] = mem.pickup[q]
    <3>1. mem' = [mem EXCEPT !.delivered[r] = c] BY <2>1 DEF VisitHeld, VisitChosen, Leave
    <3> QED BY <3>1 DEF TypeOK, Cursors
  <2> QED BY <1>1, <2>1 DEF Chooses
<1>2. CASE SubmitPane
  BY <1>2 DEF SubmitPane, TypeOK, Cursors
<1>3. CASE ArmPane
  <2>1. pc = "submit" /\ mem' = armPickup(mem, ledger[pick].to, pick)
    BY <1>3 DEF ArmPane
  <2>2. mem.pickup[ledger[pick].to] = 0 BY <2>1 DEF SkipInv, HandSound
  <2>3. q # ledger[pick].to => mem'.pickup[q] = mem.pickup[q]
    BY <2>1 DEF armPickup, TypeOK, Cursors
  <2> QED BY <1>3, <2>2, <2>3
<1>4. ASSUME NEW r \in Recipient, NEW i \in 0..MaxLedger, NEW c \in 0..MaxLedger, AppArm(r, i, c)
      PROVE  mem'.pickup[q] = mem.pickup[q] \/ mem.pickup[q] = 0
  <2>1. mem' = armPickup([mem EXCEPT !.delivered[r] = c], r, i) /\ mem.pickup[r] = 0
    BY <1>4, KindsDisjoint DEF AppArm, Free, Managed
  <2>2. q # r => mem'.pickup[q] = mem.pickup[q]
    BY <2>1 DEF armPickup, TypeOK, Cursors
  <2> QED BY <2>1, <2>2
<1>5. CASE Arms
  <2>1. mem'.pickup[q] = mem.pickup[q] \/ mem.pickup[q] = 0 BY <1>4, <1>5 DEF Arms
  <2> QED BY <1>5, <2>1
<1>6. ASSUME NEW r \in Recipient, mem.pickup[r] # 0, finishPickup(r, mem.pickup[r])
      PROVE  /\ q # r => mem'.pickup[q] = mem.pickup[q]
             /\ mem'.pickup[r] = 0
             /\ isConditional(mem.pickup[r]) => acks'[mem.pickup[r]] = "delivered"
  <2>1. mem.pickup[r] \in Ids BY <1>0, <1>6
  <2>2. (q # r => mem'.pickup[q] = mem.pickup[q]) /\ mem'.pickup[r] = 0
    BY <1>6 DEF finishPickup, TypeOK, Cursors
  <2> QED BY <1>0, <1>6, <2>1, <2>2 DEF finishPickup
<1>7. ASSUME NEW r \in Recipient, PickupAnswered(r) PROVE Goal
  <2>1. mem.pickup[r] # 0 /\ finishPickup(r, mem.pickup[r]) BY <1>7 DEF PickupAnswered
  <2> QED BY <1>6, <1>7, <2>1
<1>8. ASSUME NEW r \in Recipient, AppResume(r) PROVE Goal
  <2>1. mem.pickup[r] # 0 /\ finishPickup(r, mem.pickup[r]) /\ r \in App BY <1>8 DEF AppResume
  <2> QED BY <1>6, <1>8, <2>1
<1>9. CASE AppRecord
  <2>1. /\ pc = "appRecord" /\ mem' = [mem EXCEPT !.pickup[ledger[pick].to] = 0]
        /\ acks' = IF isConditional(pick) THEN [acks EXCEPT ![pick] = "delivered"] ELSE acks
    BY <1>9 DEF AppRecord
  <2>2. /\ pick \in Ids /\ pick # 0 /\ ledger[pick].to \in App
        /\ mem.pickup[ledger[pick].to] = pick
    BY <2>1, PickType DEF TypeOK, InHand, SkipInv, HandSound
  <2>3. /\ q # ledger[pick].to => mem'.pickup[q] = mem.pickup[q]
        /\ mem'.pickup[ledger[pick].to] = 0
    BY <2>1, <2>2 DEF TypeOK, Cursors, Recipient
  <2>4. isConditional(pick) => acks'[pick] = "delivered" BY <1>0, <2>1, <2>2
  <2> QED BY <1>9, <2>2, <2>3, <2>4
<1>10. ~EndsRun /\ ~PassBegin
  BY DEF EndsRun, PassEnd, RunThrows, Crash, PassBegin, Passing, InHand
<1>11. CASE mem' = mem BY <1>11
<1> HIDE DEF Goal
<1> QED
  BY <1>1, <1>2, <1>3, <1>5, <1>7, <1>8, <1>9, <1>10, <1>11, Writers DEF Moves, Finishes

-----------------------------------------------------------------------------
(* The cursors of the pass and of the file *)

\* An undamaged cursors file stays so.
LEMMA FileStays ==
  ASSUME TypeOK, TypeOK', [Next]_vars, losses' = 0, AheadSound
  PROVE  /\ losses = 0 /\ file = "ok" /\ file' = "ok"
         /\ ~loadCursorsMissing /\ (\A how : ~LoseCursors(how) /\ ~RepairCursors(how))
<1>1. losses = 0 /\ ~(\E how \in {"bad", "missing"} : LoseCursors(how))
  <2>1. losses \in Nat BY DEF TypeOK, CountsOK
  <2>2. ASSUME NEW how, LoseCursors(how) PROVE losses' = losses + 1 BY <2>2 DEF LoseCursors
  <2> QED BY <2>1, <2>2, Histories
<1>2. file = "ok" BY <1>1 DEF AheadSound
<1>3. ~loadCursorsMissing /\ \A how : ~RepairCursors(how)
  BY <1>2 DEF loadCursorsMissing, RepairCursors
<1>4. \A how : ~LoseCursors(how)
  <2>1. losses \in Nat BY DEF TypeOK, CountsOK
  <2> QED BY <1>1, <2>1 DEF LoseCursors
<1>5. Handles => file' = file BY <1>1, <1>3 DEF Handles, markRead
<1>6. settleUndeliverable => file' = file BY DEF settleUndeliverable
<1> QED BY <1>1, <1>2, <1>3, <1>4, <1>5, <1>6, SavesWhat

\* The sweep moves a delivered cursor only past letters that were still pending.
LEMMA SettleForward ==
  ASSUME TypeOK, settleUndeliverable, NEW q \in Recipient
  PROVE  /\ disk.delivered[q] <= disk'.delivered[q]
         /\ disk'.pickup = disk.pickup /\ disk'.read = disk.read
<1>1. PICK last \in [Recipient -> 0..MaxLedger] :
        /\ \A r \in Recipient :
             LET mine == {i \in {i \in Stranded : ~isConditional(i)} : ledger[i].to = r} IN
             /\ mine = {} => last[r] = disk.delivered[r]
             /\ mine # {} => last[r] \in mine /\ \A i \in mine : i <= last[r]
        /\ disk' = [disk EXCEPT !.delivered = last]
  BY DEF settleUndeliverable
<1>2. last[q] = disk.delivered[q] \/
        (last[q] \in Stranded /\ ~isConditional(last[q]) /\ ledger[last[q]].to = q)
  BY <1>1
<1>3. disk.delivered[q] <= last[q]
  <2>1. disk.delivered[q] \in Nat BY DEF TypeOK, FilesOK, Cursors
  <2>2. last[q] \in Nat BY <1>1
  <2> QED BY <1>2, <2>1, <2>2 DEF Stranded, letterPending
<1> QED BY <1>1, <1>3 DEF TypeOK, Cursors

\* With an undamaged file, a barrier of the pass that a step leaves standing is the file's.
LEMMA AheadKept ==
  ASSUME TypeOK, TypeOK', SkipInv, OwnInv, AheadSound, [Next]_vars
  PROVE  AheadSound'
<1>1. ASSUME pc' \in Passing, NEW q \in Recipient PROVE mem'.delivered[q] <= mLen'
  <2>1. CASE PassBegin
    BY <2>1 DEF PassBegin, TypeOK, FilesOK, Cursors
  <2>2. CASE pc \in Passing /\ mLen' = mLen BY <1>1, <2>2, PassForward
  <2> QED BY <1>1, <2>1, <2>2, PassOn
<1>2. ASSUME losses' = 0, pc' \in Passing, NEW q \in Recipient
      PROVE  /\ disk'.delivered[q] <= mem'.delivered[q]
             /\ mem'.pickup[q] # 0 => disk'.pickup[q] = mem'.pickup[q]
  <2>0. /\ disk.delivered[q] \in Nat /\ mem.delivered[q] \in Nat /\ mem'.delivered[q] \in Nat
        /\ disk'.delivered[q] \in Nat
    BY DEF TypeOK, FilesOK, Cursors
  <2>1. CASE PassBegin
    <3>1. mem' = disk /\ disk' = disk BY <2>1 DEF PassBegin, fileVars
    <3> QED BY <2>0, <3>1
  <2>2. CASE pc \in Passing
    <3>1. /\ disk.delivered[q] <= mem.delivered[q] /\ mem.delivered[q] <= mem'.delivered[q]
          /\ mem.pickup[q] # 0 => disk.pickup[q] = mem.pickup[q]
      BY <1>2, <2>2, FileStays, PassForward DEF AheadSound
    <3>2. CASE disk'.delivered = mem'.delivered /\ disk'.pickup = mem'.pickup
      BY <2>0, <3>2
    <3>3. CASE FinishSave
      <4>1. mem' = mem BY <3>3 DEF FinishSave
      <4>2. saveCursors(mem) BY <1>2, <3>3, FileStays DEF FinishSave
      <4> QED BY <2>0, <4>1, <4>2, SaveKeeps DEF TypeOK
    <3>4. ~PassEnd /\ ~loadCursorsMissing /\ ~settleUndeliverable
      BY <1>2, FileStays DEF PassEnd, settleUndeliverable, Passing, InHand
    <3>5. CASE disk'.delivered = disk.delivered /\ disk'.pickup = disk.pickup /\ ~FinishSave
      <4>1. mem'.pickup[q] \in {0, mem.pickup[q]} => disk'.pickup[q] = mem'.pickup[q] \/ mem'.pickup[q] = 0
        BY <3>1, <3>5
      <4>2. CASE ArmPane
        <5>1. saveCursors(mem') /\ ledger' = ledger BY <4>2 DEF ArmPane
        <5> QED BY <2>0, <5>1, SaveKeeps DEF TypeOK
      <4>3. CASE Arms
        <5>1. saveCursors(mem') /\ ledger' = ledger
          BY <1>2, <4>3, FileStays DEF Arms, AppArm
        <5> QED BY <2>0, <5>1, SaveKeeps DEF TypeOK
      <4>4. CASE ~ArmPane /\ ~Arms
        <5>1. mem'.pickup[q] \in {0, mem.pickup[q]}
          BY <1>2, <2>2, <4>4, BarrierKept
        <5> QED BY <2>0, <3>1, <3>5, <4>1, <5>1
      <4> QED BY <4>2, <4>3, <4>4
    <3> QED BY <3>2, <3>3, <3>4, <3>5, SavesWhat
  <2> QED BY <1>2, <2>1, <2>2, PassOn
<1> QED BY <1>1, <1>2, FileStays DEF AheadSound

\* At first no pass is on and the cursors file is not damaged.
LEMMA AheadInit == Init => AheadSound
  BY DEF Init, AheadSound, Passing, InHand

\* The copy a pass works on stays ahead of the cursors file, which `inbox` and the sweep write
\* too, so the save at its end (deliver.ts: saveCursors) takes nothing back.
THEOREM AheadInductive == Spec => []AheadSound
<1>1. TypeOK /\ TypeOK' /\ SkipInv /\ OrderInv /\ AheadSound /\ [Next]_vars => AheadSound'
  BY AheadKept DEF OrderInv
<1> QED BY <1>1, AheadInit, TypeCorrect, SkipInductive, OrderInductive, PTL DEF Spec

-----------------------------------------------------------------------------
(* Forward cursors and durable barriers *)

\* Every writer of an undamaged cursors file keeps it ahead of itself.
LEMMA ForwardStep ==
  ASSUME TypeOK, TypeOK', SkipInv, OwnInv, AheadSound, [Next]_vars, losses' = 0,
         NEW r \in Recipient
  PROVE  disk.read[r] <= disk'.read[r] /\ disk.delivered[r] <= disk'.delivered[r]
<1> DEFINE Goal == disk.read[r] <= disk'.read[r] /\ disk.delivered[r] <= disk'.delivered[r]
<1> SUFFICES Goal OBVIOUS
<1>0. /\ disk.read[r] \in Nat /\ disk.delivered[r] \in Nat /\ mem.delivered[r] \in Nat
      /\ mem'.delivered[r] \in Nat /\ mem.read[r] \in Nat /\ mem'.read[r] \in Nat
      /\ file = "ok" /\ losses = 0
  <2>1. file = "ok" /\ losses = 0 BY FileStays
  <2> QED BY <2>1 DEF TypeOK, FilesOK, Cursors
<1>1. ASSUME NEW c \in Cursors(Len(ledger)), saveCursors(c), disk.delivered[r] <= c.delivered[r]
      PROVE  Goal
  <2>1. disk' = [c EXCEPT !.read = furthest(disk.read, c.read)]
    BY <1>0, <1>1 DEF saveCursors, Fresh
  <2>2. c.read[r] \in Nat BY DEF TypeOK, FilesOK, Cursors
  <2>3. disk'.read[r] = Larger(disk.read[r], c.read[r]) /\ disk'.delivered = c.delivered
    BY <2>1 DEF Cursors, furthest
  <2> QED BY <1>0, <1>1, <2>2, <2>3 DEF Larger
<1>2. ASSUME pc \in Passing PROVE disk.delivered[r] <= mem.delivered[r]
  BY <1>0, <1>2 DEF AheadSound
<1>3. CASE UNCHANGED <<file, disk>> BY <1>0, <1>3
<1>4. CASE Handles
  <2>1. ASSUME NEW q \in Inboxes, NEW n \in 1..Len(ledger), markRead(q, n) PROVE Goal
    <3>1. disk' = [disk EXCEPT !.read[q] = Larger(@, n)] BY <2>1 DEF markRead
    <3>2. disk'.delivered = disk.delivered /\ n \in Nat BY <3>1 DEF TypeOK, Cursors
    <3>3. disk'.read[r] \in {disk.read[r], Larger(disk.read[r], n)}
      BY <3>1 DEF TypeOK, Cursors
    <3> QED BY <1>0, <3>2, <3>3 DEF Larger
  <2> QED BY <1>4, <2>1, FileStays DEF Handles
<1>5. CASE settleUndeliverable
  BY <1>0, <1>5, SettleForward
<1>6. CASE ArmPane
  <2>1. saveCursors(mem') /\ ledger' = ledger /\ pc = "submit" /\ pc' = "armed"
    BY <1>6 DEF ArmPane
  <2>2. mem.delivered[r] <= mem'.delivered[r] BY <2>1, PassForward DEF Passing, InHand
  <2> QED BY <1>0, <1>1, <1>2, <2>1, <2>2 DEF TypeOK, Passing, InHand
<1>7. CASE Arms
  <2>1. saveCursors(mem') /\ ledger' = ledger /\ pc = "pass" /\ pc' = "app"
    BY <1>0, <1>7 DEF Arms, AppArm, Visiting
  <2>2. mem.delivered[r] <= mem'.delivered[r] BY <2>1, PassForward DEF Passing, InHand
  <2> QED BY <1>0, <1>1, <1>2, <2>1, <2>2 DEF TypeOK, Passing, InHand
<1>8. CASE FinishSave
  <2>1. saveCursors(mem) /\ pc = "finish" BY <1>0, <1>8 DEF FinishSave
  <2> QED BY <1>0, <1>1, <1>2, <2>1 DEF TypeOK, Passing, InHand
<1>9. CASE PassEnd
  <2>1. pc = "pass" /\ (saveCursors(mem) \/ UNCHANGED <<file, disk>>)
    BY <1>9 DEF PassEnd, PassOver
  <2> QED BY <1>0, <1>1, <1>2, <1>3, <2>1 DEF TypeOK, Passing
<1> HIDE DEF Goal
<1> QED
  BY <1>3, <1>4, <1>5, <1>6, <1>7, <1>8, <1>9, FileStays, Writers DEF Saves

\* Two writers, one file: while nothing damages it, neither `inbox`, nor the sweep, nor the
\* whole-pass copy the daemon saves moves a read or a delivered cursor back (cursors.ts).
THEOREM AlwaysForward == Spec => CursorsForward
<1>1. /\ TypeOK /\ TypeOK' /\ SkipInv /\ OrderInv /\ AheadSound /\ [Next]_vars
      => [losses' = 0 => \A r \in Recipient :
            disk.read[r] <= disk'.read[r] /\ disk.delivered[r] <= disk'.delivered[r]]_vars
  BY ForwardStep DEF OrderInv
<1> QED
  BY <1>1, TypeCorrect, SkipInductive, OrderInductive, AheadInductive, PTL DEF Spec, CursorsForward

\* No turn without its barrier on disk: whatever submits a letter to a Codex pane or an App
\* thread, first or again, the cursors file names that letter at that moment
\* (beforeSubmit of deliver.ts, the barrier of deliverApp.ts).
THEOREM AlwaysBarred == Spec => BarrierFirst
<1>1. /\ TypeOK /\ SkipInv /\ OrderInv /\ AheadSound /\ [Next]_vars
      => [\A i \in 1..Len(ledger) :
            ledger[i].to \notin HookPane /\ typed'[i] # typed[i] /\ losses = 0
              => disk.pickup[ledger[i].to] = i]_vars
  <2> SUFFICES ASSUME TypeOK, SkipInv, OrderInv, AheadSound, [Next]_vars,
                      NEW i \in 1..Len(ledger), ledger[i].to \notin HookPane,
                      typed'[i] # typed[i], losses = 0
               PROVE  disk.pickup[ledger[i].to] = i
    OBVIOUS
  <2>1. i \in Ids /\ i # 0 /\ ledger[i].to \in Recipient BY LetterType DEF TypeOK, Ids
  <2>2. ASSUME NEW r \in HookPane, i \in hookBatch[r] PROVE FALSE
    BY <2>2 DEF OrderInv, OwnInv, HooksOwned
  <2>3. ~(SubmitPane /\ i \in batch)
    <3> SUFFICES ASSUME SubmitPane, i \in batch PROVE FALSE OBVIOUS
    <3>1. pc = "submit" /\ ledger[pick].to \in HookPane BY DEF SubmitPane
    <3> QED BY <3>1 DEF OrderInv, OwnInv, HandOwned, SkipInv, HandSound
  <2>4. pc \in Passing /\ mem.pickup[ledger[i].to] = i
    BY <2>1, <2>2, <2>3, SubmitsWhat DEF OrderInv
  <2> QED BY <2>1, <2>4 DEF AheadSound
<1> QED
  BY <1>1, TypeCorrect, SkipInductive, OrderInductive, AheadInductive, PTL DEF Spec, BarrierFirst

-----------------------------------------------------------------------------
(* Who writes what an agent holds *)

\* The ack log forgets nothing.
LEMMA AcksStay ==
  ASSUME TypeOK, OwnInv, [Next]_vars, NEW i \in Ids, acks[i] # "none"
  PROVE  acks'[i] # "none"
<1>0. acks \in [Ids -> Outcome] BY DEF TypeOK, FilesOK
<1>1. CASE settleUndeliverable BY <1>0, <1>1 DEF settleUndeliverable
<1>2. CASE AppRecord BY <1>0, <1>2 DEF AppRecord
<1>3. ASSUME NEW r \in Recipient, finishPickup(r, mem.pickup[r]) PROVE acks'[i] # "none"
  BY <1>0, <1>3 DEF finishPickup
<1>4. CASE Finishes BY <1>3, <1>4 DEF Finishes, PickupAnswered, AppResume
<1>5. ASSUME NEW k \in Ids, RecordAck(k) \/ CancelAppend(k) PROVE acks'[i] # "none"
  BY <1>0, <1>5 DEF RecordAck, CancelAppend
<1>6. ASSUME NEW r \in HookPane, HookAck(r) PROVE acks'[i] # "none"
  BY <1>0, <1>6 DEF HookAck
<1> QED BY <1>1, <1>2, <1>4, <1>5, <1>6, Writers DEF Acknowledges

\* Recipient r's pane ends, by a death or by `rm`.
Ends(r) == Kill(r) /\ UNCHANGED <<typed, taken, daemonVars>>

\* Where the copies of a letter come from and go to.
LEMMA CopyWriters ==
  ASSUME TypeOK, [Next]_vars, NEW i \in Ids
  PROVE  \/ held'[i] = held[i] /\ taken'[i] = taken[i]
         \/ /\ Take(i) /\ held[i] > 0 /\ held'[i] = held[i] - 1 /\ taken'[i] = taken[i] + 1
            /\ typed' = typed
         \/ /\ held'[i] = 0 /\ taken'[i] = taken[i]
            /\ \E r \in Recipient : Ends(r) /\ i <= Len(ledger) /\ ledger[i].to = r
         \/ typed'[i] # typed[i] /\ held'[i] = held[i] + 1 /\ taken'[i] = taken[i]
<1> DEFINE Goal ==
         \/ held'[i] = held[i] /\ taken'[i] = taken[i]
         \/ /\ Take(i) /\ held[i] > 0 /\ held'[i] = held[i] - 1 /\ taken'[i] = taken[i] + 1
            /\ typed' = typed
         \/ /\ held'[i] = 0 /\ taken'[i] = taken[i]
            /\ \E r \in Recipient : Ends(r) /\ i <= Len(ledger) /\ ledger[i].to = r
         \/ typed'[i] # typed[i] /\ held'[i] = held[i] + 1 /\ taken'[i] = taken[i]
<1> SUFFICES Goal OBVIOUS
<1>0. typed \in [Ids -> Nat] /\ held \in [Ids -> Nat] /\ taken \in [Ids -> Nat]
  BY DEF TypeOK, AgentsOK
<1>1. ASSUME UNCHANGED <<held, taken>> PROVE Goal BY <1>1
<1>2. ASSUME NEW r \in Recipient, Kill(r), UNCHANGED <<typed, taken, daemonVars>> PROVE Goal
  <2>1. Ends(r) BY <1>2 DEF Ends
  <2>2. CASE i <= Len(ledger) /\ ledger[i].to = r
    <3>1. held'[i] = 0 BY <1>2, <2>2 DEF Kill
    <3> QED BY <1>2, <2>1, <2>2, <3>1
  <2>3. CASE ~(i <= Len(ledger) /\ ledger[i].to = r)
    <3>1. held'[i] = held[i] BY <1>2, <2>3 DEF Kill
    <3> QED BY <1>2, <3>1
  <2> QED BY <2>2, <2>3
<1>3. ASSUME NEW r, NEW p \in Ids, StartTurn(r, p) PROVE Goal
  <2>1. taken' = taken BY <1>3 DEF StartTurn
  <2>2. i = p => typed'[i] # typed[i] /\ held'[i] = held[i] + 1
    BY <1>0, <1>3 DEF StartTurn, Type
  <2>3. i # p => held'[i] = held[i] BY <1>0, <1>3 DEF StartTurn
  <2> QED BY <2>1, <2>2, <2>3
<1>4. ASSUME NEW r \in Recipient, Agent(r) PROVE Goal
  <2>1. CASE Die(r) BY <1>2, <2>1 DEF Die
  <2>2. CASE ~Die(r)
    BY <1>1, <1>4, <2>2 DEF Agent, StartPane, Work, FinishTurn, Interrupt, Block, Unblock, copyVars
  <2> QED BY <2>1, <2>2
<1>5. ASSUME NEW r \in Managed, killSession(r) PROVE Goal
  BY <1>2, <1>5 DEF killSession, Recipient
<1>6. ASSUME NEW k \in Ids, BecomeDue(k) \/ Take(k) \/ CancelRead(k) \/ CancelAppend(k) PROVE Goal
  <2>1. CASE Take(k)
    <3>1. i # k => held'[i] = held[i] /\ taken'[i] = taken[i] BY <1>0, <2>1 DEF Take
    <3>2. i = k => held[i] > 0 /\ held'[i] = held[i] - 1 /\ taken'[i] = taken[i] + 1 /\ typed' = typed
      BY <1>0, <2>1 DEF Take
    <3> QED BY <2>1, <3>1, <3>2
  <2>2. CASE ~Take(k)
    BY <1>1, <1>6, <2>2 DEF BecomeDue, CancelRead, CancelAppend, agentVars, copyVars
  <2> QED BY <2>1, <2>2
<1>7. ASSUME NEW r \in HookPane, Hook(r) PROVE Goal
  BY <1>1, <1>7 DEF Hook, HookRead, HookAck, HookEmit, HookFail, agentVars, copyVars
<1>8. CASE \/ \E r \in Managed : appendSession(r) \/ removeSession(r)
           \/ Handles \/ loadCursorsMissing \/ Sends \/ \E next \in {"old", "new"} : Crash(next)
  BY <1>1, <1>8 DEF appendSession, removeSession, Handles, markRead, LoseCursors, RepairCursors,
     loadCursorsMissing, Sends, appendMessage, Crash, agentVars, copyVars
<1>9. CASE SubmitArmed
  <2>1. pick \in Ids BY <1>9, PickType DEF SubmitArmed, TypeOK, InHand
  <2>2. taken' = taken BY <1>9 DEF SubmitArmed
  <2>3. held' = held \/ (Type({pick}) /\ held' = [held EXCEPT ![pick] = @ + 1])
    BY <1>9 DEF SubmitArmed
  <2>4. CASE held' = held BY <2>2, <2>4
  <2>5. CASE Type({pick}) /\ held' = [held EXCEPT ![pick] = @ + 1]
    <3>1. i = pick => typed'[i] # typed[i] /\ held'[i] = held[i] + 1 BY <1>0, <2>5 DEF Type
    <3>2. i # pick => held'[i] = held[i] BY <1>0, <2>5
    <3> QED BY <2>2, <3>1, <3>2
  <2> QED BY <2>3, <2>4, <2>5
<1>10. CASE AppStart \/ AppStartHeld
  <2>1. pick \in Ids BY <1>10, PickType DEF AppStart, AppStartHeld, TypeOK, InHand
  <2>2. StartTurn(ledger[pick].to, pick) \/ UNCHANGED agentVars
    BY <1>10 DEF AppStart, AppStartHeld, StartRefused
  <2> QED BY <1>1, <1>3, <2>1, <2>2 DEF agentVars, copyVars
<1>11. ASSUME NEW r \in Recipient, AppResume(r) \/ AppResumeHeld(r) PROVE Goal
  <2>1. mem.pickup[r] \in Ids
    BY <1>11, LetterType DEF AppResume, AppResumeHeld, TypeOK, FilesOK, Cursors
  <2>2. StartTurn(r, mem.pickup[r]) \/ UNCHANGED agentVars
    BY <1>11 DEF AppResume, AppResumeHeld, StartRefused
  <2> QED BY <1>1, <1>3, <2>1, <2>2 DEF agentVars, copyVars
<1>12. CASE Sweep \/ PassBegin \/ PassEnd \/ RunThrows \/ UNCHANGED vars
  BY <1>1, <1>12 DEF Sweep, SweepSkip, SweepBegin, SweepEnd, settleUndeliverable, PassBegin, PassEnd,
     RunThrows, vars, agentVars, copyVars
<1>13. CASE Submit
  <2>1. CASE SubmitHeld \/ SubmitPane \/ ArmPane \/ FinishSave \/ AppRecord \/ \E k \in Ids : RecordAck(k)
    BY <1>1, <2>1 DEF SubmitHeld, SubmitPane, ArmPane, FinishSave, AppRecord, RecordAck, agentVars,
       copyVars
  <2> HIDE DEF Goal
  <2> QED BY <1>9, <1>10, <1>13, <2>1 DEF Submit
<1>14. ASSUME NEW r \in Recipient, Visit(r) PROVE Goal
  <2>1. CASE ~AppResume(r) /\ ~AppResumeHeld(r)
    <3>1. UNCHANGED agentVars
      BY <1>14, <2>1 DEF Visit, VisitHeld, VisitChosen, AppArm, PickupHeld, PickupRetry, PickupAnswered
    <3> QED BY <1>1, <3>1 DEF agentVars, copyVars
  <2> QED BY <1>11, <2>1
<1> HIDE DEF Goal
<1> QED
  BY <1>4, <1>5, <1>6, <1>7, <1>8, <1>12, <1>13, <1>14 DEF Next, Daemon, Others, Handles, Sends

\* A pane's option is written by the Enter into it and lost with the pane.
LEMMA OptionWriters ==
  ASSUME TypeOK, [Next]_vars, NEW r \in TranscriptPane
  PROVE  \/ submitted'[r] = submitted[r]
         \/ SubmitArmed /\ ledger[pick].to = r /\ submitted'[r] = pick
         \/ Kill(r)
<1> DEFINE Goal == \/ submitted'[r] = submitted[r]
                   \/ SubmitArmed /\ ledger[pick].to = r /\ submitted'[r] = pick
                   \/ Kill(r)
<1> SUFFICES Goal OBVIOUS
<1>1. ASSUME submitted' = submitted PROVE Goal BY <1>1
<1>2. ASSUME NEW q, Kill(q) PROVE Goal
  <2>1. CASE q = r BY <1>2, <2>1
  <2>2. CASE q # r BY <1>2, <2>2 DEF Kill
  <2> QED BY <2>1, <2>2
<1>3. ASSUME NEW q \in Recipient, Agent(q) PROVE Goal
  <2>1. CASE Die(q) BY <1>2, <2>1 DEF Die
  <2>2. CASE ~Die(q)
    BY <1>1, <1>3, <2>2 DEF Agent, StartPane, Work, FinishTurn, Interrupt, Block, Unblock
  <2> QED BY <2>1, <2>2
<1>4. ASSUME NEW q \in Managed, killSession(q) PROVE Goal
  BY <1>2, <1>4 DEF killSession
<1>5. CASE SubmitArmed
  <2>1. submitted' = submitted \/ submitted' = [submitted EXCEPT ![ledger[pick].to] = pick]
    BY <1>5 DEF SubmitArmed
  <2> QED BY <1>5, <2>1 DEF TypeOK, AgentsOK
<1>6. ASSUME NEW k \in Ids, BecomeDue(k) \/ Take(k) \/ CancelRead(k) \/ CancelAppend(k)
      PROVE  submitted' = submitted
  BY <1>6 DEF BecomeDue, Take, CancelRead, CancelAppend, agentVars
<1>7. ASSUME NEW q \in HookPane, Hook(q) PROVE submitted' = submitted
  BY <1>7 DEF Hook, HookRead, HookAck, HookEmit, HookFail, agentVars
<1>8. CASE \/ \E q \in Managed : appendSession(q) \/ removeSession(q)
           \/ Handles \/ loadCursorsMissing \/ Sends \/ \E next \in {"old", "new"} : Crash(next)
  BY <1>1, <1>8 DEF appendSession, removeSession, Handles, markRead, LoseCursors, RepairCursors,
     loadCursorsMissing, Sends, appendMessage, Crash, agentVars
<1>9. CASE Sweep \/ PassBegin \/ PassEnd \/ RunThrows \/ UNCHANGED vars
  BY <1>1, <1>9 DEF Sweep, SweepSkip, SweepBegin, SweepEnd, settleUndeliverable, PassBegin, PassEnd,
     RunThrows, vars, agentVars
<1>10. CASE Submit /\ ~SubmitArmed
  BY <1>1, <1>10 DEF Submit, SubmitHeld, SubmitPane, ArmPane, FinishSave, AppStart, AppStartHeld,
     AppRecord, RecordAck, StartTurn, StartRefused, agentVars
<1>11. ASSUME NEW q \in Recipient, Visit(q) PROVE submitted' = submitted
  BY <1>11 DEF Visit, VisitHeld, VisitChosen, AppArm, PickupHeld, PickupRetry, PickupAnswered,
     AppResume, AppResumeHeld, StartTurn, StartRefused, agentVars
<1> HIDE DEF Goal
<1> QED
  BY <1>1, <1>3, <1>4, <1>5, <1>6, <1>7, <1>8, <1>9, <1>10, <1>11
  DEF Next, Daemon, Others, Handles, Sends

\* An App thread that is given a turn is at work.
LEMMA ThreadStarts ==
  ASSUME TypeOK, SkipInv, OwnInv, [Next]_vars, NEW i \in 1..Len(ledger),
         ledger[i].to \in App, typed'[i] # typed[i]
  PROVE  pane'[ledger[i].to] = "working"
<1>0. i \in Ids /\ ledger[i].to \in Recipient BY LetterType DEF TypeOK
<1>1. /\ ledger[i].to \notin TranscriptPane /\ ledger[i].to \notin HookPane
  BY KindsDisjoint DEF Managed
<1>2. ASSUME NEW r \in HookPane, HookEmit(r) PROVE FALSE
  <2>1. i \in hookBatch[r] BY <1>0, <1>2 DEF HookEmit
  <2> QED BY <1>1, <2>1 DEF OwnInv, HooksOwned
<1>3. ~SubmitPane
  <2> SUFFICES ASSUME SubmitPane PROVE FALSE OBVIOUS
  <2>1. pc = "submit" /\ ledger[pick].to \in HookPane /\ i \in batch
    BY <1>0 DEF SubmitPane, Type
  <2>2. CASE isConditional(pick) BY <1>1, <2>1, <2>2 DEF OwnInv, HandOwned
  <2>3. CASE ~isConditional(pick) BY <1>1, <2>1, <2>3 DEF SkipInv, HandSound
  <2> QED BY <2>2, <2>3
<1>4. ~SubmitArmed
  <2> SUFFICES ASSUME SubmitArmed PROVE FALSE OBVIOUS
  <2>1. pc \in {"armed", "retry"} /\ i = pick BY <1>0 DEF SubmitArmed, Type
  <2> QED BY <1>1, <2>1 DEF OwnInv, HandOwned
<1>5. ASSUME NEW r \in Recipient, NEW p, StartTurn(r, p) \/ UNCHANGED agentVars
      PROVE  i = p /\ pane'[r] = "working"
  BY <1>0, <1>5 DEF StartTurn, Type, agentVars, copyVars, TypeOK, AgentsOK
<1>6. CASE AppStart \/ AppStartHeld
  <2>1. ledger[pick].to \in Recipient
    BY <1>6, PickType DEF AppStart, AppStartHeld, TypeOK, InHand
  <2> QED BY <1>5, <1>6, <2>1 DEF AppStart, AppStartHeld, StartRefused
<1>7. ASSUME NEW r \in Recipient, AppResume(r) \/ AppResumeHeld(r)
      PROVE  pane'[ledger[i].to] = "working"
  <2>1. i = mem.pickup[r] /\ pane'[r] = "working" /\ i # 0
    <3>1. /\ mem.pickup[r] # 0
          /\ StartTurn(r, mem.pickup[r]) \/ UNCHANGED agentVars
      BY <1>7 DEF AppResume, AppResumeHeld, StartRefused
    <3> QED BY <1>5, <3>1
  <2>2. ledger[i].to = r BY <2>1 DEF OwnInv, PickupsOwned
  <2> QED BY <2>1, <2>2
<1> QED BY <1>0, <1>2, <1>3, <1>4, <1>6, <1>7, Writers DEF Submits

\* The turn of an App thread does not end before its letters are taken up.
LEMMA ThreadRests ==
  ASSUME TypeOK, [Next]_vars, NEW i \in 1..Len(ledger), NEW r \in App, ledger[i].to = r,
         pane[r] = "working", pane'[r] # "working"
  PROVE  held'[i] = 0
<1>0. /\ i \in Ids /\ r \in Recipient /\ r \notin Managed /\ i <= Len(ledger)
      /\ pane \in [Recipient -> {"off", "idle", "working", "blocked"}]
  BY LetterType, KindsDisjoint DEF TypeOK, FilesOK, AgentsOK, Recipient
<1>1. ASSUME UNCHANGED pane PROVE FALSE BY <1>1
<1>2. ASSUME NEW q, pane' = [pane EXCEPT ![q] = "working"] PROVE FALSE BY <1>0, <1>2
<1>3. ASSUME NEW q, Kill(q) PROVE held'[i] = 0
  <2>1. q = r BY <1>0, <1>3 DEF Kill
  <2> QED BY <1>0, <1>3, <2>1 DEF Kill
<1>4. ASSUME NEW q \in Recipient, Agent(q) PROVE held'[i] = 0
  <2>1. CASE Die(q) BY <1>3, <2>1 DEF Die
  <2>2. CASE FinishTurn(q)
    <3>1. q = r BY <1>0, <2>2 DEF FinishTurn
    <3> QED BY <2>2, <3>1 DEF FinishTurn, copyVars
  <2>3. CASE Work(q) BY <1>2, <2>3 DEF Work
  <2>4. CASE StartPane(q) \/ Block(q) \/ Unblock(q)
    BY <1>0, <2>4 DEF StartPane, Block, Unblock
  <2>5. CASE Interrupt(q) BY <1>0, <2>5 DEF Interrupt
  <2> QED BY <1>4, <2>1, <2>2, <2>3, <2>4, <2>5 DEF Agent
<1>5. ASSUME NEW q \in Managed, killSession(q) PROVE held'[i] = 0
  BY <1>3, <1>5 DEF killSession
<1>6. ASSUME NEW k \in Ids, BecomeDue(k) \/ Take(k) \/ CancelRead(k) \/ CancelAppend(k) PROVE FALSE
  <2>1. UNCHANGED pane \/ pane' = [pane EXCEPT ![ledger[k].to] = "working"]
    BY <1>6 DEF BecomeDue, Take, CancelRead, CancelAppend, agentVars
  <2> QED BY <1>1, <1>2, <2>1
<1>7. ASSUME NEW q \in HookPane, Hook(q) PROVE FALSE
  <2>1. UNCHANGED pane \/ pane' = [pane EXCEPT ![q] = "working"]
    BY <1>7 DEF Hook, HookRead, HookAck, HookEmit, HookFail, agentVars
  <2> QED BY <1>1, <1>2, <2>1
<1>8. CASE \/ \E q \in Managed : appendSession(q) \/ removeSession(q)
           \/ Handles \/ loadCursorsMissing \/ Sends \/ \E next \in {"old", "new"} : Crash(next)
  BY <1>1, <1>8 DEF appendSession, removeSession, Handles, markRead, LoseCursors, RepairCursors,
     loadCursorsMissing, Sends, appendMessage, Crash, agentVars
<1>9. CASE Sweep \/ PassBegin \/ PassEnd \/ RunThrows \/ UNCHANGED vars
  BY <1>1, <1>9 DEF Sweep, SweepSkip, SweepBegin, SweepEnd, settleUndeliverable, PassBegin, PassEnd,
     RunThrows, vars, agentVars
<1>10. CASE Submit
  <2>1. UNCHANGED pane \/ \E q : pane' = [pane EXCEPT ![q] = "working"]
    BY <1>10 DEF Submit, SubmitHeld, SubmitPane, ArmPane, SubmitArmed, FinishSave, AppStart,
       AppStartHeld, AppRecord, RecordAck, StartTurn, StartRefused, agentVars
  <2> QED BY <1>1, <1>2, <2>1
<1>11. ASSUME NEW q \in Recipient, Visit(q) PROVE FALSE
  <2>1. UNCHANGED pane \/ pane' = [pane EXCEPT ![q] = "working"]
    BY <1>11 DEF Visit, VisitHeld, VisitChosen, AppArm, PickupHeld, PickupRetry, PickupAnswered,
       AppResume, AppResumeHeld, StartTurn, StartRefused, agentVars
  <2> QED BY <1>1, <1>2, <2>1
<1> QED
  BY <1>4, <1>5, <1>6, <1>7, <1>8, <1>9, <1>10, <1>11
  DEF Next, Daemon, Others, Handles, Sends

-----------------------------------------------------------------------------
(* One copy for a Codex recipient *)

\* What every step of this section starts from and leads to.
Known == TypeOK /\ SkipInv /\ OwnInv /\ AheadSound

\* A letter that is new has no copy.
LEMMA BarredWas ==
  ASSUME Known, Known', [Next]_vars, NEW i, i \in Barred'
  PROVE  /\ i \in Ids
         /\ \/ /\ i \in Barred /\ i \in 1..Len(ledger) /\ ledger'[i] = ledger[i]
               /\ ledger[i].to \in Recipient /\ isConditional(i)' = isConditional(i)
            \/ typed'[i] = 0 /\ held'[i] = 0 /\ taken'[i] = 0
<1>1. Grow BY Grows DEF Known
<1>2. i \in 1..Len(ledger') /\ i \in Ids /\ Len(ledger) \in Nat /\ i \in Nat
  BY LetterType, BoundsAssumption DEF Known, TypeOK, FilesOK, Barred, Ids
<1>3. CASE i \in 1..Len(ledger)
  BY <1>1, <1>2, <1>3, Keeps DEF Known, Barred
<1>4. CASE i > Len(ledger)
  <2>1. typed'[i] = 0 BY <1>2, <1>4, UnwrittenStay DEF Known
  <2>2. held'[i] \in Nat /\ taken'[i] \in Nat BY <1>2 DEF Known, TypeOK, AgentsOK
  <2>3. held'[i] + taken'[i] <= typed'[i] BY <1>2 DEF Known, SkipInv, CopiesSound
  <2> QED BY <1>2, <2>1, <2>2, <2>3
<1> QED BY <1>2, <1>3, <1>4

\* What is submitted to a Codex recipient has no copy, and its barrier stands in both
\* cursors.
LEMMA FirstCopy ==
  ASSUME Known, OnceSound, losses = 0, [Next]_vars, NEW i \in Barred, typed'[i] # typed[i]
  PROVE  /\ held[i] = 0 /\ taken[i] = 0 /\ pc \in Passing
         /\ mem.pickup[ledger[i].to] = i /\ disk.pickup[ledger[i].to] = i
<1>1. i \in 1..Len(ledger) /\ i \in Ids /\ i # 0 /\ ledger[i].to \in Recipient
  BY LetterType DEF Known, TypeOK, Barred, Ids
<1>2. typed[i] \in Nat /\ held[i] \in Nat /\ taken[i] \in Nat /\ held[i] + taken[i] <= typed[i]
  BY <1>1 DEF Known, TypeOK, AgentsOK, SkipInv, CopiesSound
<1>3. ASSUME NEW r \in HookPane, i \in hookBatch[r] PROVE FALSE
  BY <1>3 DEF Known, OwnInv, HooksOwned, Barred
<1>4. ~(SubmitPane /\ i \in batch)
  <2> SUFFICES ASSUME SubmitPane, i \in batch PROVE FALSE OBVIOUS
  <2>1. pc = "submit" /\ ledger[pick].to \in HookPane BY DEF SubmitPane
  <2>2. CASE isConditional(pick) BY <2>1, <2>2 DEF Known, OwnInv, HandOwned, Barred
  <2>3. CASE ~isConditional(pick) BY <2>1, <2>3 DEF Known, SkipInv, HandSound, Barred
  <2> QED BY <2>2, <2>3
<1>5. /\ pc \in Passing /\ mem.pickup[ledger[i].to] = i
      /\ \/ pc \in {"armed", "retry", "app"} /\ pick = i
         \/ ledger[i].to \in App /\ taken[i] = 0 /\ pane[ledger[i].to] = "idle"
  BY <1>1, <1>3, <1>4, SubmitsWhat DEF Known
<1>6. disk.pickup[ledger[i].to] = i BY <1>1, <1>5 DEF Known, AheadSound
<1>7. held[i] = 0 /\ taken[i] = 0
  <2>1. CASE pc \in {"armed", "app"} /\ pick = i
    <3>1. typed[i] = 0 BY <2>1 DEF OnceSound, HandFresh
    <3> QED BY <1>2, <3>1
  <2>2. CASE pc = "retry" /\ pick = i
    <3>1. held[i] + taken[i] = 0 BY <2>2 DEF OnceSound, HandFresh
    <3> QED BY <1>2, <3>1
  <2>3. CASE ledger[i].to \in App /\ taken[i] = 0 /\ pane[ledger[i].to] = "idle"
    BY <2>3 DEF OnceSound, ThreadsAtWork
  <2> QED BY <1>5, <2>1, <2>2, <2>3
<1> QED BY <1>5, <1>6, <1>7

\* No step makes a second copy of a letter for a Codex recipient: not a resubmission after a
\* crash, not an App Server answer that was lost.
LEMMA OneCopyKept ==
  ASSUME Known, Known', OnceSound, losses = 0, [Next]_vars
  PROVE  OneCopy'
<1> SUFFICES ASSUME NEW i, i \in Barred' PROVE held'[i] + taken'[i] <= 1
  BY DEF OneCopy
<1>1. i \in Ids BY BarredWas
<1>2. CASE typed'[i] = 0 /\ held'[i] = 0 /\ taken'[i] = 0 BY <1>2
<1>3. CASE i \in Barred
  <2>1. /\ held[i] + taken[i] <= 1 /\ held[i] \in Nat /\ taken[i] \in Nat
    BY <1>1, <1>3 DEF OnceSound, OneCopy, Known, TypeOK, AgentsOK
  <2>2. CASE typed'[i] # typed[i] /\ held'[i] = held[i] + 1 /\ taken'[i] = taken[i]
    BY <1>3, <2>2, FirstCopy
  <2>3. CASE held'[i] = held[i] /\ taken'[i] = taken[i] BY <2>1, <2>3
  <2>4. CASE held[i] > 0 /\ held'[i] = held[i] - 1 /\ taken'[i] = taken[i] + 1
    BY <2>1, <2>4
  <2>5. CASE held'[i] = 0 /\ taken'[i] = taken[i] BY <2>1, <2>5
  <2> QED BY <1>1, <2>2, <2>3, <2>4, <2>5, CopyWriters DEF Known
<1> QED BY <1>2, <1>3, BarredWas

\* In a pass, cursors that cover a letter go on covering it.
LEMMA WatchedInPass ==
  ASSUME Known, Known', [Next]_vars, pc \in Passing, pc' \in Passing,
         NEW i \in 1..Len(ledger), ledger'[i] = ledger[i], Watched(mem, i)
  PROVE  Watched(mem, i)'
<1> DEFINE r == ledger[i].to
<1>1. i \in Ids /\ i # 0 /\ i \in Nat /\ r \in Recipient BY LetterType DEF Known, TypeOK, Ids
<1>2. isConditional(i)' = isConditional(i) BY DEF isConditional
<1>3. /\ mem.delivered[r] <= mem'.delivered[r] /\ mem.delivered[r] \in Nat
      /\ mem'.delivered[r] \in Nat
  <2>1. mem.delivered[r] <= mem'.delivered[r] BY <1>1, PassForward DEF Known
  <2> QED BY <1>1, <2>1 DEF Known, TypeOK, FilesOK, Cursors
<1>4. acks[i] # "none" => acks'[i] # "none" BY <1>1, AcksStay DEF Known
<1>5. CASE mem.pickup[r] = i
  <2>1. ~isConditional(i) => i <= mem.delivered[r]
    BY <1>1, <1>5 DEF Known, SkipInv, BarrierSound
  <2>2. mem'.pickup[r] = i \/ (isConditional(i) => acks'[i] = "delivered")
    BY <1>1, <1>5, BarrierKept DEF Known
  <2> QED BY <1>1, <1>2, <1>3, <2>1, <2>2 DEF Watched
<1>6. CASE mem.pickup[r] # i
  BY <1>1, <1>2, <1>3, <1>4, <1>6 DEF Watched
<1> QED BY <1>5, <1>6

\* The undamaged file follows the pass, or moves on by itself.
LEMMA DiskFollows ==
  ASSUME Known, Known', [Next]_vars, losses' = 0
  PROVE  \/ disk'.pickup = disk.pickup
            /\ \A q \in Recipient : disk.delivered[q] <= disk'.delivered[q]
         \/ pc \in Passing /\ disk'.delivered = mem.delivered /\ disk'.pickup = mem.pickup
         \/ /\ pc \in Passing /\ pc' \in Passing
            /\ disk'.delivered = mem'.delivered /\ disk'.pickup = mem'.pickup
<1>1. \A q \in Recipient : disk.delivered[q] <= disk'.delivered[q]
  BY ForwardStep DEF Known
<1>2. settleUndeliverable => disk'.pickup = disk.pickup
  BY DEF settleUndeliverable, Known, TypeOK, Cursors
<1>3. ArmPane => pc' \in Passing BY DEF ArmPane, Passing, InHand
<1>4. Arms => pc' \in Passing BY DEF Arms, AppArm, Visiting, Passing, InHand
<1> QED BY <1>1, <1>2, <1>3, <1>4, SavesWhat, FileStays DEF Known

\* A submitted letter stays behind its barrier, its cursor or its ack row, in the file and in
\* the copy of the pass.
LEMMA CopiesWatchedKept ==
  ASSUME Known, Known', OnceSound, losses' = 0, losses = 0, [Next]_vars
  PROVE  CopiesWatched'
<1> SUFFICES ASSUME NEW i, i \in Barred', typed'[i] > 0
             PROVE  Watched(disk, i)' /\ (pc' \in Passing => Watched(mem, i)')
  BY DEF CopiesWatched
<1> DEFINE r == ledger[i].to
<1>1. /\ i \in Barred /\ i \in Ids /\ i \in 1..Len(ledger) /\ ledger'[i] = ledger[i]
      /\ r \in Recipient /\ isConditional(i)' = isConditional(i) /\ i \in Nat
  <2>1. ~(typed'[i] = 0) OBVIOUS
  <2> QED BY <2>1, BarredWas DEF Ids
<1>2. Watched(disk, i) /\ (pc \in Passing => Watched(mem, i))
  <2>1. CASE typed'[i] # typed[i] BY <1>1, <2>1, FirstCopy DEF Watched
  <2>2. CASE typed'[i] = typed[i] BY <1>1, <2>2 DEF OnceSound, CopiesWatched
  <2> QED BY <2>1, <2>2
<1>3. acks[i] # "none" => acks'[i] # "none" BY <1>1, AcksStay DEF Known
<1>4. ASSUME pc' \in Passing PROVE Watched(mem, i)'
  <2>1. CASE PassBegin
    <3>1. mem' = disk /\ acks' = acks BY <2>1 DEF PassBegin, fileVars
    <3> QED BY <1>1, <1>2, <3>1 DEF Watched
  <2>2. CASE pc \in Passing BY <1>1, <1>2, <1>4, <2>2, WatchedInPass
  <2> QED BY <1>4, <2>1, <2>2, PassOn
<1>5. Watched(disk, i)'
  <2>0. disk.delivered[r] \in Nat /\ disk'.delivered[r] \in Nat
    BY <1>1, CursorTypes, CursorTypesNext DEF Known
  <2>1. CASE disk'.pickup = disk.pickup /\ disk.delivered[r] <= disk'.delivered[r]
    BY <1>1, <1>2, <1>3, <2>0, <2>1 DEF Watched
  <2>2. CASE pc \in Passing /\ disk'.delivered = mem.delivered /\ disk'.pickup = mem.pickup
    BY <1>1, <1>2, <1>3, <2>2 DEF Watched
  <2>3. CASE /\ pc' \in Passing
             /\ disk'.delivered = mem'.delivered /\ disk'.pickup = mem'.pickup
    BY <1>1, <1>4, <2>3 DEF Watched
  <2> QED BY <1>1, <2>1, <2>2, <2>3, DiskFollows
<1> QED BY <1>4, <1>5

\* The Enter that submits a letter to a Codex pane writes the pane's option.
LEMMA EnterMarks ==
  ASSUME Known, [Next]_vars, NEW i \in Barred, ledger[i].to \in TranscriptPane,
         typed'[i] # typed[i]
  PROVE  submitted'[ledger[i].to] = i /\ UNCHANGED <<mem, disk>>
<1>1. i \in 1..Len(ledger) /\ i \in Ids BY LetterType DEF Known, TypeOK, Barred
<1>2. ledger[i].to \notin App BY KindsDisjoint DEF Managed
<1>3. ASSUME NEW r \in HookPane, HookEmit(r) PROVE FALSE
  <2>1. i \in hookBatch[r] BY <1>1, <1>3 DEF HookEmit
  <2> QED BY <2>1 DEF Known, OwnInv, HooksOwned, Barred
<1>4. ~SubmitPane
  <2> SUFFICES ASSUME SubmitPane PROVE FALSE OBVIOUS
  <2>1. pc = "submit" /\ ledger[pick].to \in HookPane /\ i \in batch
    BY <1>1 DEF SubmitPane, Type
  <2>2. CASE isConditional(pick) BY <2>1, <2>2 DEF Known, OwnInv, HandOwned, Barred
  <2>3. CASE ~isConditional(pick) BY <2>1, <2>3 DEF Known, SkipInv, HandSound, Barred
  <2> QED BY <2>2, <2>3
<1>5. ASSUME NEW r, NEW p, StartTurn(r, p) \/ UNCHANGED agentVars PROVE i = p
  BY <1>1, <1>5 DEF StartTurn, Type, agentVars, copyVars, Known, TypeOK, AgentsOK
<1>6. ~AppStart /\ ~AppStartHeld
  <2> SUFFICES ASSUME AppStart \/ AppStartHeld PROVE FALSE OBVIOUS
  <2>1. pc = "app" /\ i = pick BY <1>5 DEF AppStart, AppStartHeld, StartRefused
  <2> QED BY <1>2, <2>1 DEF Known, SkipInv, HandSound
<1>7. ASSUME NEW r \in Recipient, AppResume(r) \/ AppResumeHeld(r) PROVE FALSE
  <2>1. StartTurn(r, mem.pickup[r]) \/ UNCHANGED agentVars
    BY <1>7 DEF AppResume, AppResumeHeld, StartRefused
  <2>2. i = mem.pickup[r] /\ r \in App /\ mem.pickup[r] # 0
    BY <1>5, <1>7, <2>1 DEF AppResume, AppResumeHeld
  <2> QED BY <1>2, <2>2 DEF Known, OwnInv, PickupsOwned
<1>8. SubmitArmed BY <1>3, <1>4, <1>6, <1>7, Writers DEF Submits
<1>9. submitted' = [submitted EXCEPT ![ledger[pick].to] = pick] /\ i = pick
  BY <1>1, <1>8 DEF SubmitArmed, Type
<1> QED BY <1>8, <1>9 DEF SubmitArmed, Known, TypeOK, AgentsOK, fileVars

\* While a composer holds a letter, the barrier and the pane option go on naming it.
LEMMA ComposersBarredKept ==
  ASSUME Known, Known', OnceSound, losses' = 0, losses = 0, [Next]_vars
  PROVE  ComposersBarred'
<1> SUFFICES ASSUME NEW i, i \in Barred', ledger'[i].to \in TranscriptPane, held'[i] > 0
             PROVE  LET r == ledger'[i].to IN
                    disk'.pickup[r] = i /\ submitted'[r] = i /\ (pc' \in Passing => mem'.pickup[r] = i)
  BY DEF ComposersBarred
<1> DEFINE r == ledger[i].to
<1>1. /\ i \in Barred /\ i \in Ids /\ i \in 1..Len(ledger) /\ ledger'[i] = ledger[i]
      /\ r \in Recipient /\ r \in TranscriptPane /\ r \notin App /\ i \in Nat \ {0}
  <2>1. ~(held'[i] = 0) OBVIOUS
  <2> QED BY <2>1, BarredWas, KindsDisjoint DEF Ids, Managed
<1>2. held[i] \in Nat /\ taken[i] \in Nat BY <1>1 DEF Known, TypeOK, AgentsOK
<1>3. CASE typed'[i] # typed[i]
  <2>1. mem.pickup[r] = i /\ disk.pickup[r] = i BY <1>1, <1>3, FirstCopy
  <2> QED BY <1>1, <1>3, <2>1, EnterMarks
<1>4. CASE typed'[i] = typed[i]
  <2>1. held[i] > 0 BY <1>1, <1>2, <1>4, CopyWriters DEF Known
  <2>2. disk.pickup[r] = i /\ submitted[r] = i /\ (pc \in Passing => mem.pickup[r] = i)
    BY <1>1, <2>1 DEF OnceSound, ComposersBarred
  <2>3. taken[i] = 0
    <3>1. held[i] + taken[i] <= 1 BY <1>1 DEF OnceSound, OneCopy
    <3> QED BY <1>2, <2>1, <3>1
  <2>4. submitted'[r] = i
    <3>1. ~Kill(r)
      <4>1. i <= Len(ledger) BY <1>1 DEF Known, TypeOK, FilesOK
      <4> QED BY <1>1, <4>1 DEF Kill
    <3>2. CASE SubmitArmed /\ ledger[pick].to = r /\ submitted'[r] = pick
      <4>1. pc \in {"armed", "retry"} BY <3>2 DEF SubmitArmed
      <4>2. mem.pickup[r] = pick BY <3>2, <4>1 DEF Known, OwnInv, HandOwned
      <4> QED BY <2>2, <3>2, <4>1, <4>2 DEF Passing, InHand
    <3> QED BY <1>1, <2>2, <3>1, <3>2, OptionWriters DEF Known
  <2>5. ASSUME pc' \in Passing PROVE mem'.pickup[r] = i
    <3>1. CASE PassBegin BY <2>2, <3>1 DEF PassBegin
    <3>2. CASE pc \in Passing
      <4>1. ~PickupAnswered(r) BY <1>2, <2>2, <2>3, <3>2 DEF PickupAnswered, Answered
      <4> QED BY <1>1, <2>2, <2>5, <3>2, <4>1, BarrierKept DEF Known
    <3> QED BY <2>5, <3>1, <3>2, PassOn
  <2>6. disk'.pickup[r] = i BY <2>2, <2>5, DiskFollows
  <2> QED BY <1>1, <2>4, <2>5, <2>6
<1> QED BY <1>3, <1>4

\* An App thread does not come to rest with a letter it was started for still to take up.
LEMMA ThreadsAtWorkKept ==
  ASSUME Known, Known', OnceSound, losses = 0, [Next]_vars
  PROVE  ThreadsAtWork'
<1> SUFFICES ASSUME NEW i, i \in Barred', ledger'[i].to \in App, pane'[ledger'[i].to] # "working",
                    held'[i] # 0
             PROVE  FALSE
  BY DEF ThreadsAtWork
<1>1. i \in Barred /\ i \in Ids /\ i \in 1..Len(ledger) /\ ledger'[i] = ledger[i]
  BY BarredWas
<1>2. typed'[i] = typed[i] BY <1>1, ThreadStarts DEF Known
<1>3. pane[ledger[i].to] # "working" BY <1>1, ThreadRests DEF Known
<1>4. held[i] = 0 BY <1>1, <1>3 DEF OnceSound, ThreadsAtWork
<1> QED BY <1>1, <1>2, <1>4, CopyWriters DEF Known

\* An App letter comes into hand when its barrier is armed.
LEMMA AppHandWriters ==
  ASSUME [Next]_vars, pc' = "app"
  PROVE  UNCHANGED daemonVars \/ \E r \in Recipient, i, c \in 0..MaxLedger : AppArm(r, i, c)
<1> DEFINE Goal == UNCHANGED daemonVars \/ \E r \in Recipient, i, c \in 0..MaxLedger : AppArm(r, i, c)
<1> SUFFICES Goal OBVIOUS
<1>1. ASSUME NEW r \in Recipient, Visit(r) PROVE Goal
  <2>1. /\ ~PickupHeld(r) /\ ~PickupAnswered(r) /\ ~AppResume(r) /\ ~AppResumeHeld(r)
        /\ ~PickupRetry(r)
    BY DEF PickupHeld, PickupAnswered, PickupRetry, AppResume, AppResumeHeld, finishPickup, Visiting
  <2>2. \A i, c : ~VisitHeld(r, i, c) /\ \A B : ~VisitChosen(r, i, c, B)
    BY DEF VisitHeld, VisitChosen, Visiting
  <2> QED BY <1>1, <2>1, <2>2 DEF Visit
<1>2. ~Submit
  BY DEF Submit, SubmitHeld, SubmitPane, ArmPane, SubmitArmed, FinishSave, AppStart, AppStartHeld,
     AppRecord, RecordAck
<1>3. ~Sweep /\ ~PassBegin /\ ~PassEnd /\ ~RunThrows /\ \A next : ~Crash(next)
  BY DEF Sweep, SweepSkip, SweepBegin, SweepEnd, settleUndeliverable, PassBegin, PassEnd, RunThrows, Crash
<1>4. CASE UNCHANGED vars BY <1>4 DEF vars
<1> HIDE DEF Goal
<1>5. CASE Others
  <2>1. UNCHANGED daemonVars BY <1>3, <1>5, OthersLeave
  <2> QED BY <2>1 DEF Goal
<1> QED BY <1>1, <1>2, <1>3, <1>4, <1>5 DEF Next, Daemon

\* What nextDelivery picks for a Codex recipient was never submitted.
LEMMA PickedFresh ==
  ASSUME Known, OnceSound, losses = 0, pc = "pass", NEW r \in Recipient, r \notin HookPane,
         Free(r), NEW i, NEW c, nextDelivery(r, i, c), i # 0,
         isConditional(i) => acks[i] = "none"
  PROVE  typed[i] = 0
<1>1. ledger[i].to = r BY PickedLetter DEF Known, SkipInv, WaitingSound
<1>2. i \in 1..Len(ledger) /\ i \in Ids
  <2>1. i \in 0..Len(ledger) BY NextType DEF Known
  <2> QED BY <2>1, LetterType DEF Known, TypeOK, FilesOK
<1>3. ~isConditional(i) => mem.delivered[r] < i
  <2> SUFFICES ASSUME ~isConditional(i) PROVE mem.delivered[r] < i OBVIOUS
  <2>1. mem.delivered[r] \in Nat /\ mLen \in Nat BY DEF Known, TypeOK, FilesOK, RunOK, Cursors
  <2>2. i \in ImmediateFrom(r, mem.delivered[r], mLen)
    BY DEF nextDelivery, Least, Known, SkipInv, WaitingSound
  <2> QED BY <2>1, <2>2 DEF ImmediateFrom
<1>4. mem.pickup[r] = 0 BY DEF Free
<1>5. ~Watched(mem, i)
  <2>1. mem.delivered[r] \in Nat /\ i \in Nat BY <1>2 DEF Known, TypeOK, FilesOK, Cursors
  <2> QED BY <1>1, <1>3, <1>4, <2>1 DEF Watched
<1>6. ~(typed[i] > 0)
  BY <1>1, <1>2, <1>5 DEF OnceSound, CopiesWatched, Barred, Passing
<1> QED BY <1>2, <1>6 DEF Known, TypeOK, AgentsOK

\* The letter a pass picks up, or takes up again from a barrier, has no copy in the conversation.
LEMMA HandFreshKept ==
  ASSUME Known, Known', OnceSound, losses = 0, [Next]_vars
  PROVE  HandFresh'
<1> SUFFICES ASSUME NEW i, i \in Barred', pick' = i
             PROVE  /\ pc' \in {"submit", "armed", "app"} => typed'[i] = 0
                    /\ pc' = "retry" => held'[i] + taken'[i] = 0
  BY DEF HandFresh
<1> DEFINE Goal == /\ pc' \in {"submit", "armed", "app"} => typed'[i] = 0
                   /\ pc' = "retry" => held'[i] + taken'[i] = 0
<1> SUFFICES Goal OBVIOUS
<1>0. i \in Ids BY BarredWas
<1>1. typed[i] \in Nat /\ held[i] \in Nat /\ taken[i] \in Nat BY <1>0 DEF Known, TypeOK, AgentsOK
<1>2. CASE typed'[i] = 0 /\ held'[i] = 0 /\ taken'[i] = 0 BY <1>2
<1>3. CASE ~(pc' \in {"submit", "armed", "app", "retry"}) BY <1>3
<1>4. CASE i \in Barred /\ typed'[i] # typed[i] /\ pc' \in {"submit", "armed", "app", "retry"}
  <2>1. ~SubmitPane /\ ~SubmitArmed /\ ~AppStart /\ ~AppStartHeld
    BY <1>4 DEF SubmitPane, SubmitArmed, AppStart, AppStartHeld
  <2>2. \A r \in Recipient : ~AppResume(r) /\ ~AppResumeHeld(r)
    BY <1>4 DEF AppResume, AppResumeHeld, finishPickup, Visiting
  <2>3. ASSUME NEW r \in HookPane, HookEmit(r) PROVE FALSE
    <3>1. i \in hookBatch[r] BY <1>0, <1>4, <2>3 DEF HookEmit
    <3> QED BY <1>4, <3>1 DEF Known, OwnInv, HooksOwned, Barred
  <2> QED BY <1>4, <2>1, <2>2, <2>3, Writers DEF Submits
<1>5. CASE i \in Barred /\ typed'[i] = typed[i] /\ pc' \in {"submit", "armed", "app", "retry"}
  <2>0. held[i] + taken[i] = 0 => held'[i] + taken'[i] = 0
    BY <1>0, <1>1, <1>5, CopyWriters DEF Known
  <2>1. CASE UNCHANGED daemonVars
    <3>1. UNCHANGED <<pc, pick>> BY <2>1 DEF daemonVars, passVars
    <3> QED BY <1>5, <2>0, <3>1 DEF OnceSound, HandFresh
  <2>2. CASE ArmPane
    <3>1. pc = "submit" /\ pc' = "armed" /\ pick' = pick BY <2>2 DEF ArmPane
    <3> QED BY <1>5, <3>1 DEF OnceSound, HandFresh
  <2>3. ASSUME NEW r \in Recipient, PickupRetry(r) PROVE Goal
    <3>1. /\ pc' = "retry" /\ i = mem.pickup[r] /\ i # 0 /\ pc = "pass" /\ r \in TranscriptPane
          /\ taken[i] = 0 /\ submitted[r] # i
      BY <2>3 DEF PickupRetry, Visiting
    <3>2. ledger[i].to = r BY <3>1 DEF Known, OwnInv, PickupsOwned
    <3>3. held[i] = 0
      <4>1. ~(held[i] > 0) BY <1>5, <3>1, <3>2 DEF OnceSound, ComposersBarred
      <4> QED BY <1>1, <4>1
    <3> QED BY <2>0, <3>1, <3>3
  <2>4. ASSUME NEW r \in Recipient, NEW k, NEW c, NEW B, VisitChosen(r, k, c, B) PROVE Goal
    <3>1. /\ pc' = "submit" /\ i = k /\ pc = "pass" /\ Free(r) /\ nextDelivery(r, i, c) /\ i # 0
          /\ isConditional(i) => acks[i] = "none"
      BY <2>4 DEF VisitChosen, Visiting
    <3>2. ledger[i].to = r BY <3>1, PickedLetter DEF Known, SkipInv, WaitingSound
    <3>3. r \notin HookPane BY <1>5, <3>2 DEF Barred
    <3>4. typed[i] = 0 BY <3>1, <3>3, PickedFresh
    <3> QED BY <1>5, <3>1, <3>4
  <2>5. ASSUME NEW r \in Recipient, NEW k, NEW c, AppArm(r, k, c), pc' = "app" PROVE Goal
    <3>1. /\ i = k /\ pc = "pass" /\ Free(r) /\ nextDelivery(r, i, c) /\ i # 0
          /\ isConditional(i) => acks[i] = "none"
      BY <2>5 DEF AppArm, Visiting
    <3>2. ledger[i].to = r BY <3>1, PickedLetter DEF Known, SkipInv, WaitingSound
    <3>3. r \notin HookPane BY <1>5, <3>2 DEF Barred
    <3>4. typed[i] = 0 BY <3>1, <3>3, PickedFresh
    <3> QED BY <1>5, <2>5, <3>4
  <2>6. ~SubmitPane /\ \A k \in Ids : ~RecordAck(k)
    <3>1. ~SubmitPane BY <1>5 DEF SubmitPane
    <3>2. \A k \in Ids : RecordAck(k) => pc' \in {"pass", "record"} BY DEF RecordAck
    <3> QED BY <1>5, <3>1, <3>2
  <2> HIDE DEF Goal
  <2>7. CASE pc' = "app"
    BY <2>1, <2>5, <2>7, AppHandWriters
  <2>8. CASE pc' \in {"submit", "armed", "retry"}
    BY <2>1, <2>2, <2>3, <2>4, <2>6, <2>8, HandWriters
  <2> QED BY <1>5, <2>7, <2>8
<1> HIDE DEF Goal
<1> QED BY <1>2, <1>3, <1>4, <1>5, BarredWas

\* Every step keeps what makes a submission happen once.
LEMMA OnceKept ==
  ASSUME Known, Known', OnceSound, [Next]_vars
  PROVE  OnceSound'
<1> SUFFICES ASSUME losses' = 0
             PROVE  (OneCopy /\ CopiesWatched /\ ComposersBarred /\ ThreadsAtWork /\ HandFresh)'
  BY DEF OnceSound
<1>1. losses = 0 BY FileStays DEF Known
<1> QED BY <1>1, OneCopyKept, CopiesWatchedKept, ComposersBarredKept, ThreadsAtWorkKept, HandFreshKept

\* At first there is no letter to submit.
LEMMA OnceInit == Init => OnceSound
<1> SUFFICES ASSUME Init PROVE OnceSound OBVIOUS
<1>1. Barred = {} BY DEF Init, Barred
<1> QED
  BY <1>1 DEF OnceSound, OneCopy, CopiesWatched, ComposersBarred, ThreadsAtWork, HandFresh

\* With its cursors intact a letter to a Codex recipient has at most one copy, and that
\* copy is in front of its barrier, its pane option or its thread's turn.
THEOREM OnceInductive == Spec => []OnceSound
<1>1. /\ TypeOK /\ SkipInv /\ OrderInv /\ AheadSound
      /\ TypeOK' /\ SkipInv' /\ OrderInv' /\ AheadSound' /\ OnceSound /\ [Next]_vars
      => OnceSound'
  BY OnceKept DEF OrderInv, Known
<1> QED
  BY <1>1, OnceInit, TypeCorrect, SkipInductive, OrderInductive, AheadInductive, PTL DEF Spec

\* What a recipient that pulls its letters is promised: types, no silent skip, one pickup
\* through daemon crashes, agent deaths and lost App Server answers, in ledger order, and
\* a true ack log (deliver.ts, deliverApp.ts, turnProgress.ts).
THEOREM PickupAlwaysSafe == Spec => []PickupSafe
<1>1. TypeOK /\ OnceSound => TakenOnce
  <2> SUFFICES ASSUME TypeOK, OnceSound, losses = 0, NEW i \in 1..Len(ledger),
                      ledger[i].to \notin HookPane
               PROVE  taken[i] <= 1
    BY DEF TakenOnce
  <2>1. i \in Ids BY LetterType DEF TypeOK
  <2>2. held[i] \in Nat /\ taken[i] \in Nat BY <2>1 DEF TypeOK, AgentsOK
  <2>3. held[i] + taken[i] <= 1 BY DEF OnceSound, OneCopy, Barred
  <2> QED BY <2>2, <2>3
<1>2. TypeOK /\ NoSilentSkip /\ TakenOnce /\ InOrder /\ DeliveredIsTrue => PickupSafe
  BY DEF PickupSafe
<1> QED
  BY <1>1, <1>2, TypeCorrect, NeverSkipped, InOrderAlways, DeliveredAlwaysTrue, OnceInductive, PTL

-----------------------------------------------------------------------------
(* Repeated pastes *)

\* The arithmetic of the faults, stated of numbers.
LEMMA SumGrows ==
  ASSUME NEW a \in Nat, NEW b \in Nat, NEW c \in Nat, NEW d \in Nat, a <= c, b <= d
  PROVE  /\ a + b \in Nat /\ c + d \in Nat /\ a + b <= c + d
         /\ d = b + 1 => (a + b) + 1 <= c + d
OBVIOUS

\* What a letter may have been pasted, t times, after f faults with s of them spent, it may
\* after the next step.
LEMMA SpentCarries ==
  ASSUME NEW t \in Nat, NEW f \in Nat, NEW g \in Nat, NEW s \in {0, 1}, NEW u \in {0, 1},
         f <= g, u + f <= s + g
  PROVE  /\ t + s <= 1 + f => t + u <= 1 + g
         /\ t + s <= f => t + u <= g /\ t <= f /\ t <= g /\ (t + 1) + u <= 1 + g
         /\ t <= f => t <= g
         /\ t <= f /\ u = 0 => t + u <= g
         /\ t + s <= 1 + f /\ s = 1 => t <= g
         /\ t + s <= 1 + f /\ g = f + 1 => t <= g
OBVIOUS

\* A step that makes a save fail, or ends the pass that was to save, is a fault.
LEMMA FaultSteps ==
  ASSUME Known, Known', [Next]_vars
  PROVE  /\ Faults \in Nat /\ Faults' \in Nat /\ Spent \in {0, 1} /\ Spent' \in {0, 1}
         /\ Faults <= Faults' /\ Spent' + Faults <= Spent + Faults'
<1>1. /\ crashes \in Nat /\ losses \in Nat /\ crashes' \in Nat /\ losses' \in Nat
  BY DEF Known, TypeOK, CountsOK
<1>2. /\ crashes' \in {crashes, crashes + 1} /\ losses' \in {losses, losses + 1}
  BY Histories DEF Known, Crash
<1>3. ASSUME pc' \in Passing, file' = "bad" PROVE Spent = 1 \/ losses' = losses + 1
  <2>1. file' = file \/ losses' = losses + 1
    <3>1. Handles => file' = file \/ losses' = losses + 1
      BY <1>3 DEF Handles, markRead, LoseCursors, RepairCursors
    <3>2. ~loadCursorsMissing /\ (settleUndeliverable => file' = file)
      BY <1>3 DEF loadCursorsMissing, settleUndeliverable
    <3> QED BY <1>3, <3>1, <3>2, SavesWhat DEF Known
  <2>2. PassBegin => file = "ok" /\ file' = file BY DEF PassBegin, fileVars
  <2>3. pc \in Passing \/ PassBegin BY <1>3, PassOn
  <2>4. CASE file' = file /\ ~PassBegin
    BY <1>3, <2>3, <2>4 DEF Spent
  <2> QED BY <1>3, <2>1, <2>2, <2>4
<1>4. Spent' = 1 => Spent = 1 \/ losses' = losses + 1 BY <1>3 DEF Spent
<1>5. Spent \in {0, 1} /\ Spent' \in {0, 1} BY DEF Spent
<1>6. crashes <= crashes' /\ losses <= losses' BY <1>1, <1>2
<1>7. Faults \in Nat /\ Faults' \in Nat /\ Faults <= Faults'
  BY <1>1, <1>6, SumGrows, Zenon DEF Faults
<1>8. losses' = losses + 1 => Faults + 1 <= Faults'
  BY <1>1, <1>6, SumGrows, Zenon DEF Faults
<1>9. Spent' + Faults <= Spent + Faults'
  <2>1. \A f, g \in Nat : \A x, y \in {0, 1} :
          f <= g /\ (y = 1 => x = 1 \/ f + 1 <= g) => y + f <= x + g
    OBVIOUS
  <2>2. Spent' = 1 => Spent = 1 \/ Faults + 1 <= Faults' BY <1>4, <1>8
  <2> QED BY <1>5, <1>7, <2>1, <2>2, Zenon
<1> QED BY <1>5, <1>7, <1>9

\* An immediate letter is pasted into a Claude pane from the hand of the pass.
LEMMA PastesWhat ==
  ASSUME Known, [Next]_vars, NEW i \in 1..Len(ledger), ledger[i].to \in HookPane,
         ~isConditional(i), typed'[i] # typed[i]
  PROVE  /\ SubmitPane /\ pc = "submit" /\ i = pick /\ typed'[i] = typed[i] + 1
         /\ Readable(i) /\ mem.delivered[ledger[i].to] = i - 1
<1>1. i \in Ids BY LetterType DEF Known, TypeOK
<1>2. ASSUME NEW r \in HookPane, i \in hookBatch[r] PROVE FALSE
  BY <1>2 DEF Known, OwnInv, HooksOwned
<1>3. SubmitPane /\ i \in batch BY <1>1, <1>2, SubmitsWhat DEF Known
<1>4. pc = "submit" BY <1>3 DEF SubmitPane
<1>5. ~isConditional(pick) BY <1>3, <1>4 DEF Known, OwnInv, HandOwned
<1>6. i = pick /\ mem.delivered[ledger[pick].to] = pick - 1
  BY <1>3, <1>4, <1>5 DEF Known, SkipInv, HandSound
<1>7. Readable(i) BY <1>4, <1>5, <1>6 DEF Known, OwnInv, HandOwned
<1>8. typed'[i] = typed[i] + 1
  <2>1. typed'[i] \in {typed[i], typed[i] + 1} BY <1>1, SubmitsOnce DEF Known
  <2> QED BY <2>1
<1> QED BY <1>3, <1>4, <1>6, <1>7, <1>8

\* What a pass has moved it saves before it forgets that it moved it.
LEMMA ChangedWhat ==
  ASSUME [Next]_vars, pc \in Passing, changed, pc' \notin Passing \/ ~changed'
  PROVE  \/ saveCursors(mem)
         \/ file = "bad"
         \/ \E next \in {"old", "new"} : Crash(next)
<1> DEFINE Goal == \/ saveCursors(mem)
                   \/ file = "bad"
                   \/ \E next \in {"old", "new"} : Crash(next)
<1> SUFFICES Goal OBVIOUS
<1>1. ASSUME pc' \in Passing, changed' PROVE FALSE BY <1>1
<1>2. CASE UNCHANGED daemonVars BY <1>1, <1>2 DEF daemonVars, passVars
<1>3. CASE Submit
  <2>1. FinishSave => Goal
    BY <1>1 DEF FinishSave
  <2>2. CASE \/ SubmitHeld \/ SubmitPane \/ ArmPane \/ SubmitArmed \/ AppStart \/ AppStartHeld
             \/ AppRecord \/ \E i \in Ids : RecordAck(i)
    <3>1. pc' \in Passing /\ changed'
      BY <2>2 DEF SubmitHeld, SubmitPane, ArmPane, SubmitArmed, AppStart, AppStartHeld, AppRecord,
         RecordAck, passVars, Passing, InHand
    <3> QED BY <1>1, <3>1
  <2> QED BY <1>3, <2>1, <2>2 DEF Submit
<1>4. ASSUME NEW r \in Recipient, Visit(r) PROVE FALSE
  <2>1. pc' \in Passing /\ changed'
    <3> USE DEF Visiting, Leave, Passing, InHand
    <3>1. ASSUME NEW i, NEW c, VisitHeld(r, i, c) PROVE pc' \in Passing /\ changed' BY <3>1 DEF VisitHeld
    <3>2. ASSUME NEW i, NEW c, NEW B, VisitChosen(r, i, c, B) PROVE pc' \in Passing /\ changed'
      BY <3>2 DEF VisitChosen
    <3>3. ASSUME NEW i, NEW c, AppArm(r, i, c) PROVE pc' \in Passing /\ changed' BY <3>3 DEF AppArm
    <3>4. ASSUME PickupHeld(r) \/ PickupRetry(r) \/ PickupAnswered(r) PROVE pc' \in Passing /\ changed'
      BY <3>4 DEF PickupHeld, PickupRetry, PickupAnswered, finishPickup
    <3>5. ASSUME AppResume(r) PROVE pc' \in Passing /\ changed' BY <3>5 DEF AppResume, finishPickup
    <3>6. ASSUME AppResumeHeld(r) PROVE pc' \in Passing /\ changed' BY <3>6 DEF AppResumeHeld
    <3> QED BY <1>4, <3>1, <3>2, <3>3, <3>4, <3>5, <3>6 DEF Visit
  <2> QED BY <1>1, <2>1
<1>5. CASE PassEnd BY <1>5 DEF PassEnd
<1>6. CASE RunThrows BY <1>6 DEF RunThrows
<1>7. ~Sweep /\ ~PassBegin
  BY DEF Sweep, SweepSkip, SweepBegin, SweepEnd, settleUndeliverable, PassBegin, Passing, InHand
<1>8. CASE Others BY <1>2, <1>8, OthersLeave
<1>9. CASE UNCHANGED vars BY <1>2, <1>9 DEF vars
<1> HIDE DEF Goal
<1> QED BY <1>3, <1>4, <1>5, <1>6, <1>7, <1>8, <1>9 DEF Next, Daemon

\* What RepeatsSound says of letter i.
Repeats(i) ==
  LET r == ledger[i].to IN
  /\ typed[i] > 0 => Readable(i)
  /\ typed[i] + Spent <= 1 + Faults
  /\ pc \in Passing /\ mem.delivered[r] < i => typed[i] + Spent <= Faults
  /\ file # "missing" /\ disk.delivered[r] < i /\ (pc \in Passing => ~changed) =>
       typed[i] <= Faults

\* A letter just written has not been pasted.
LEMMA NewRepeats ==
  ASSUME Known, Known', [Next]_vars, NEW i \in 1..Len(ledger'), i > Len(ledger)
  PROVE  Repeats(i)'
<1>1. i \in Ids
  <2>1. Len(ledger') \in Nat /\ Len(ledger') <= MaxLedger
    BY BoundsAssumption DEF Known, TypeOK, FilesOK
  <2> QED BY <2>1, BoundsAssumption DEF Ids
<1>2. typed'[i] = 0 BY <1>1, UnwrittenStay DEF Known
<1>3. Spent' <= Faults'
  <2>1. losses' \in Nat /\ crashes' \in Nat BY DEF Known, TypeOK, CountsOK
  <2>2. file' = "bad" => losses' # 0 BY DEF Known, AheadSound
  <2>3. \A c, l \in Nat : (l # 0 => 1 <= c + l) /\ 0 <= c + l OBVIOUS
  <2>4. (losses' # 0 => 1 <= Faults') /\ 0 <= Faults' BY <2>1, <2>3, Zenon DEF Faults
  <2> QED BY <2>2, <2>4 DEF Spent
<1>4. Faults' \in Nat /\ Spent' \in {0, 1} BY FaultSteps
<1>5. \A f \in Nat : \A s \in {0, 1} :
        s <= f => 0 + s <= 1 + f /\ 0 + s <= f /\ 0 <= f /\ ~(0 > 0)
  OBVIOUS
<1>6. 0 + Spent' <= 1 + Faults' /\ 0 + Spent' <= Faults' /\ 0 <= Faults' /\ ~(0 > 0)
  BY <1>3, <1>4, <1>5, Zenon
<1>7. typed'[i] + Spent' = 0 + Spent' BY <1>2
<1> QED BY <1>2, <1>6, <1>7, Zenon DEF Repeats

\* A paste moves the cursor of the pass, which then has something to save.
LEMMA PasteRepeats ==
  ASSUME Known, Known', [Next]_vars, NEW i \in 1..Len(ledger), ledger[i].to \in HookPane,
         ~isConditional(i), Repeats(i), typed'[i] # typed[i]
  PROVE  Repeats(i)'
<1> DEFINE r == ledger[i].to
<1>1. /\ SubmitPane /\ pc = "submit" /\ i = pick /\ typed'[i] = typed[i] + 1
      /\ Readable(i) /\ mem.delivered[r] = i - 1
  BY PastesWhat
<1>2. i \in Ids /\ r \in Recipient /\ i \in Nat BY LetterType DEF Known, TypeOK, Ids
<1>3. typed[i] \in Nat /\ Faults \in Nat /\ Spent \in {0, 1} /\ Faults <= Faults'
      /\ Faults' \in Nat /\ Spent' \in {0, 1} /\ Spent' + Faults <= Spent + Faults'
  BY <1>2, FaultSteps DEF Known, TypeOK, AgentsOK
<1>4. /\ pc' = "pass" /\ changed' /\ UNCHANGED <<ledger, build>>
      /\ mem' = [mem EXCEPT !.delivered[r] = i, !.read[r] = Larger(@, i)]
  BY <1>1 DEF SubmitPane, fileVars
<1>5. mem'.delivered[r] = i BY <1>2, <1>4 DEF Known, TypeOK, Cursors
<1>6. typed[i] + Spent <= Faults BY <1>1, <1>2 DEF Repeats, Passing, InHand
<1>7. Readable(i)' BY <1>1, <1>4 DEF Readable
<1>8. typed'[i] + Spent' <= 1 + Faults'
  <2>1. (typed[i] + 1) + Spent' <= 1 + Faults' BY <1>3, <1>6, SpentCarries, Zenon
  <2> QED BY <1>1, <2>1
<1>9. ~(mem'.delivered[r] < i) BY <1>2, <1>5
<1>10. pc' \in Passing BY <1>4 DEF Passing
<1> QED BY <1>4, <1>7, <1>8, <1>9, <1>10 DEF Repeats

\* No other step loses a paste without a fault.
LEMMA RestRepeats ==
  ASSUME Known, Known', [Next]_vars, NEW i \in 1..Len(ledger), ledger[i].to \in HookPane,
         ~isConditional(i), Repeats(i), typed'[i] = typed[i]
  PROVE  Repeats(i)'
<1> DEFINE r == ledger[i].to
<1>1. /\ i \in Ids /\ i \in Nat /\ r \in Recipient /\ r \in Managed /\ r \notin App
      /\ ledger'[i] = ledger[i]
  BY LetterType, Grows, KindsDisjoint DEF Known, TypeOK, Ids, Grow, Managed
<1>2. /\ typed[i] \in Nat /\ Faults \in Nat /\ Spent \in {0, 1} /\ Faults <= Faults'
      /\ Faults' \in Nat /\ Spent' \in {0, 1} /\ Spent' + Faults <= Spent + Faults'
  BY <1>1, FaultSteps DEF Known, TypeOK, AgentsOK
<1>3. /\ disk.delivered[r] \in Nat /\ disk'.delivered[r] \in Nat
      /\ mem.delivered[r] \in Nat /\ mem'.delivered[r] \in Nat
  BY <1>1, CursorTypes, CursorTypesNext DEF Known
<1>4. typed'[i] > 0 => Readable(i)'
  <2>1. build' = build \/ (build = "new" => build' = "new")
    BY Histories DEF Known, Crash
  <2> QED BY <1>1, <2>1 DEF Repeats, Readable
<1>5. typed'[i] + Spent' <= 1 + Faults'
  <2>1. typed[i] + Spent <= 1 + Faults BY DEF Repeats
  <2>2. typed[i] + Spent' <= 1 + Faults' BY <1>2, <2>1, SpentCarries, Zenon
  <2> QED BY <2>2
<1>6. ASSUME pc \in Passing, mem.delivered[r] < i PROVE typed[i] <= Faults /\ typed[i] + Spent <= Faults
  <2>1. typed[i] + Spent <= Faults BY <1>6 DEF Repeats
  <2> QED BY <1>2, <2>1
<1>7. ASSUME pc' \in Passing, mem'.delivered[r] < i PROVE typed'[i] + Spent' <= Faults'
  <2>1. CASE PassBegin
    <3>1. mem' = disk /\ file = "ok" /\ file' = file /\ pc = "swept"
      BY <2>1 DEF PassBegin, fileVars
    <3>2. typed[i] <= Faults BY <1>7, <3>1 DEF Repeats, Passing, InHand
    <3>3. Spent' = 0 BY <3>1 DEF Spent
    <3> QED BY <1>2, <3>2, <3>3
  <2>2. CASE pc \in Passing
    <3>1. mem.delivered[r] <= mem'.delivered[r] BY <1>1, <1>7, <2>2, PassForward DEF Known
    <3>2. typed[i] + Spent <= Faults BY <1>3, <1>6, <1>7, <2>2, <3>1
    <3>3. typed[i] + Spent' <= Faults' BY <1>2, <3>2, SpentCarries, Zenon
    <3> QED BY <3>3
  <2> QED BY <1>7, <2>1, <2>2, PassOn
<1>8. ASSUME file' # "missing", disk'.delivered[r] < i, pc' \in Passing => ~changed'
      PROVE  typed[i] <= Faults'
  <2>1. CASE loadCursorsMissing
    <3>1. disk'.delivered[r] = (IF \E k \in 1..Len(ledger) : Readable(k) /\ ledger[k].to = r
                                THEN Len(ledger) ELSE 0)
      BY <1>1, <2>1 DEF loadCursorsMissing, armedCursors
    <3>2. ~Readable(i)
      <4>1. Len(ledger) \in Nat /\ i <= Len(ledger) BY DEF Known, TypeOK, FilesOK
      <4> QED BY <1>1, <1>8, <3>1, <4>1
    <3>3. ~(typed[i] > 0) BY <3>2 DEF Repeats
    <3> QED BY <1>2, <3>3
  <2>2. CASE settleUndeliverable
    <3>1. disk.delivered[r] <= disk'.delivered[r] BY <1>1, <2>2, SettleForward DEF Known
    <3>2. pc = "sweep" /\ file = "ok" BY <2>2 DEF settleUndeliverable
    <3>3. typed[i] <= Faults
      BY <1>3, <1>8, <3>1, <3>2 DEF Repeats, Passing, InHand
    <3> QED BY <1>2, <3>3
  <2>3. CASE pc \in Passing /\ disk'.delivered = mem.delivered
    BY <1>2, <1>6, <1>8, <2>3
  <2>4. CASE pc \in Passing /\ disk'.delivered = mem'.delivered /\ (ArmPane \/ Arms)
    <3>1. pc' \in Passing
      <4>1. ArmPane => pc' = "armed" BY DEF ArmPane
      <4>2. Arms => pc' = "app" \/ pc' = pc BY DEF Arms, AppArm
      <4> QED BY <2>4, <4>1, <4>2 DEF Passing, InHand
    <3>2. mem.delivered[r] <= mem'.delivered[r] BY <1>1, <2>4, <3>1, PassForward DEF Known
    <3> QED BY <1>2, <1>3, <1>6, <1>8, <2>4, <3>2
  <2>5. CASE disk'.delivered = disk.delivered /\ (Handles \/ UNCHANGED file)
    <3>1. file # "missing"
      BY <1>8, <2>5 DEF Handles, markRead, LoseCursors, RepairCursors
    <3>2. CASE pc \in Passing => ~changed
      <4>1. typed[i] <= Faults BY <1>8, <2>5, <3>1, <3>2 DEF Repeats
      <4> QED BY <1>2, <4>1
    <3>3. CASE pc \in Passing /\ changed
      <4>1. CASE saveCursors(mem)
        <5>1. disk'.delivered = mem.delivered BY <4>1, SaveKeeps DEF Known, TypeOK
        <5> QED BY <2>3, <3>3, <5>1
      <4>2. CASE file = "bad"
        <5>1. Spent = 1 BY <3>3, <4>2 DEF Spent
        <5>2. typed[i] + Spent <= 1 + Faults BY DEF Repeats
        <5> QED BY <1>2, <5>1, <5>2
      <4>3. ASSUME NEW next, Crash(next) PROVE typed[i] <= Faults'
        <5>1. Faults' = Faults + 1
          BY <4>3 DEF Crash, Faults, Known, TypeOK, CountsOK
        <5>2. typed[i] + Spent <= 1 + Faults BY DEF Repeats
        <5> QED BY <1>2, <5>1, <5>2
      <4> QED BY <1>8, <3>3, <4>1, <4>2, <4>3, ChangedWhat
    <3> QED BY <3>2, <3>3
  <2> QED BY <2>1, <2>2, <2>3, <2>4, <2>5, SavesWhat DEF Known
<1> QED BY <1>1, <1>4, <1>5, <1>7, <1>8 DEF Repeats

\* Every step keeps the count of pastes behind the count of faults.
LEMMA RepeatsKept ==
  ASSUME Known, Known', RepeatsSound, [Next]_vars
  PROVE  RepeatsSound'
<1> SUFFICES ASSUME NEW i \in 1..Len(ledger'), ledger'[i].to \in HookPane, ~isConditional(i)'
             PROVE  Repeats(i)'
  BY DEF RepeatsSound, Repeats
<1>1. Len(ledger) \in Nat /\ i \in Nat BY DEF Known, TypeOK, FilesOK
<1>2. CASE i > Len(ledger) BY <1>2, NewRepeats
<1>3. CASE i \in 1..Len(ledger)
  <2>1. ledger'[i] = ledger[i] BY <1>3, Grows DEF Known, Grow
  <2>2. ledger[i].to \in HookPane /\ ~isConditional(i) BY <2>1 DEF isConditional
  <2>3. Repeats(i) BY <1>3, <2>2 DEF RepeatsSound, Repeats
  <2> QED BY <1>3, <2>2, <2>3, PasteRepeats, RestRepeats
<1> QED BY <1>1, <1>2, <1>3

\* The cursors in force cover every paste into a Claude pane, or a fault lost the pass that
\* made it; a pass whose save will fail has spent its fault already.
THEOREM RepeatsInductive == Spec => []RepeatsSound
<1>1. Init => RepeatsSound
  <2>1. Init => Len(ledger) = 0 BY DEF Init
  <2> QED BY <2>1 DEF RepeatsSound
<1>2. /\ TypeOK /\ SkipInv /\ OrderInv /\ AheadSound
      /\ TypeOK' /\ SkipInv' /\ OrderInv' /\ AheadSound' /\ RepeatsSound /\ [Next]_vars
      => RepeatsSound'
  BY RepeatsKept DEF OrderInv, Known
<1> QED
  BY <1>1, <1>2, TypeCorrect, SkipInductive, OrderInductive, AheadInductive, PTL DEF Spec

\* An immediate letter is pasted into a Claude pane again only after a daemon crash or a
\* damaged cursors file lost the pass that pasted it, once for each (deliver.ts: the
\* cursors are saved once, at the end of the pass).
THEOREM RepeatsAlwaysFaults == Spec => []RepeatsAreFaults
<1>1. TypeOK /\ RepeatsSound => RepeatsAreFaults
  <2> SUFFICES ASSUME TypeOK, RepeatsSound, NEW i \in 1..Len(ledger),
                      ledger[i].to \in HookPane, ~isConditional(i)
               PROVE  typed[i] <= 1 + crashes + losses
    BY DEF RepeatsAreFaults
  <2>1. i \in Ids BY LetterType DEF TypeOK
  <2>2. typed[i] \in Nat /\ crashes \in Nat /\ losses \in Nat
    BY <2>1 DEF TypeOK, AgentsOK, CountsOK
  <2>3. typed[i] + Spent <= 1 + Faults BY DEF RepeatsSound
  <2> QED BY <2>2, <2>3 DEF Spent, Faults
<1> QED BY <1>1, RepeatsInductive, TypeCorrect, PTL

\* Everything the daemon keeps while it delivers, through every interleaving of its passes
\* with the Stop hooks, `inbox`, `msg cancel`, crashes, deaths and lost cursors.
THEOREM DeliveryInductive == Spec => []DeliveryInv
<1>1. SkipInv /\ OrderInv /\ AheadSound /\ OnceSound /\ RepeatsSound => DeliveryInv
  BY DEF DeliveryInv, OrderInv
<1> QED
  BY <1>1, SkipInductive, OrderInductive, AheadInductive, OnceInductive, RepeatsInductive, PTL
=============================================================================
