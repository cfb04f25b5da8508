-------------------------- MODULE FleetMailProofs ---------------------------
(***************************************************************************)
(* Proofs about FleetMail, for any letters, machines, receivers, routes    *)
(* and bounds: the types are right, a letter is kept once, a hop runs its  *)
(* command once, what is called accepted is true, and the whole implements *)
(* the relay of MailRelay.                                                 *)
(***************************************************************************)
EXTENDS FleetMail, TLAPS

(***************************************************************************)
(* What makes the properties inductive.                                    *)
(***************************************************************************)

\* A receiver somebody waits for was started by the one hop that waits.
Hops ==
  /\ \A c \in Callers : calls[c].runs = IF calls[c].phase = "open" THEN 1 ELSE 0
  /\ \A r \in Receivers : recv[r].caller # None =>
       /\ calls[recv[r].caller].phase = "open"
       /\ calls[recv[r].caller].letter = recv[r].letter
  /\ \A r, s \in Receivers :
       recv[r].caller # None /\ recv[r].caller = recv[s].caller => r = s

\* Between the look-up and the append the receiver holds the lock, and the letter is absent.
Locked ==
  /\ \A r \in Receivers : recv[r].pc \in {"check", "append"} => lock[At(r)] = r
  /\ \A r \in Receivers : recv[r].pc = "append" => ~Stored(recv[r].letter)
  /\ \A r \in Receivers : recv[r].pc = "reply" /\ recv[r].ok => Stored(recv[r].letter)

\* Rows and acks are of commands that ended, a row per command; a row still to visit is
\* failed and not acked.
Files ==
  /\ \A i \in Rows : cli[outbox[i].letter] = "done"
  /\ \A i, j \in Rows : outbox[i].letter = outbox[j].letter => i = j
  /\ \A l \in acked : cli[l] = "done"
  /\ \A i \in todo : ~outbox[i].ok /\ outbox[i].letter \notin acked

FleetInv == TypeOK /\ Hops /\ Locked /\ Files /\ KeptOnce /\ SettledIsTrue

-----------------------------------------------------------------------------
(* Types.                                                                  *)

\* A row of the outbox is a row.
LEMMA RowTypes ==
  ASSUME SenderType, NEW i \in Rows
  PROVE  outbox[i].letter \in Letters /\ outbox[i].ok \in BOOLEAN
<1>1. outbox \in Seq(Row) /\ i \in 1..Len(outbox) BY DEF SenderType, Rows
<1>2. outbox[i] \in Row BY <1>1
<1> QED BY <1>2 DEF Row

\* What a hop's end does to the files, the pass and the calls keeps their types (Finish).
LEMMA FinishTypes ==
  ASSUME SenderType, PassType, CallType, NEW c \in Callers, calls[c].phase # "idle",
         NEW failed \in BOOLEAN, NEW ok \in BOOLEAN, NEW permanent \in BOOLEAN,
         Finish(c, failed, ok, permanent)
  PROVE  SenderType' /\ PassType' /\ CallType'
<1>1. CASE c = Daemon
  <2>1. PICK i \in todo \ AfterFirst : outbox[i].letter = calls[Daemon].letter
    BY <1>1 DEF CallType
  <2>2. calls[Daemon].letter \in Letters
    BY <2>1, RowTypes DEF PassType
  <2>3. FlushRecords(calls[Daemon].letter, failed, ok, permanent) /\ calls' = [calls EXCEPT ![Daemon] = NoCall]
    BY <1>1 DEF Finish
  <2>4. SenderType'
    BY <2>2, <2>3 DEF SenderType, FlushRecords
  <2>5. PassType'
    BY <2>3 DEF PassType, FlushRecords, AfterFirst, Rows
  <2>6. CallType'
    <3>1. NoCall \in Call BY DEF NoCall, Call
    <3>2. calls' \in [Callers -> Call] BY <2>3, <3>1 DEF CallType
    <3>3. \A x \in Callers : calls'[x] = IF x = Daemon THEN NoCall ELSE calls[x]
      BY <2>3 DEF CallType
    <3>4. cli' = cli BY <2>3 DEF FlushRecords
    <3> QED BY <3>2, <3>3, <3>4, LettersAssumption DEF CallType, NoCall, Callers
  <2> QED BY <2>4, <2>5, <2>6
<1>2. CASE c # Daemon
  <2>1. c \in Letters BY <1>2 DEF Callers
  <2>2. CliRecords(c, failed, ok, permanent) /\ calls' = [calls EXCEPT ![c] = NoCall]
    BY <1>2 DEF Finish
  <2>3. [letter |-> c, ok |-> ok] \in Row BY <2>1 DEF Row
  <2>4. /\ outbox' = Append(outbox, [letter |-> c, ok |-> ok]) /\ outbox' \in Seq(Row)
        /\ Rows \subseteq Rows' /\ \A i \in Rows : outbox'[i] = outbox[i]
    BY <2>2, <2>3 DEF CliRecords, SenderType, Rows
  <2>5. SenderType'
    BY <2>1, <2>2, <2>4 DEF SenderType, CliRecords
  <2>6. PassType'
    BY <2>2, <2>4 DEF PassType, CliRecords, passVars
  <2>7. CallType'
    <3>1. NoCall \in Call BY DEF NoCall, Call
    <3>2. calls' \in [Callers -> Call] BY <2>2, <3>1 DEF CallType
    <3>3. \A x \in Callers : calls'[x] = IF x = c THEN NoCall ELSE calls[x]
      BY <2>2 DEF CallType
    <3>4. \A l \in Letters : cli'[l] = IF l = c THEN "done" ELSE cli[l]
      BY <2>1, <2>2 DEF CliRecords, SenderType
    <3>5. todo' = todo /\ AfterFirst' = AfterFirst
      BY <2>2 DEF CliRecords, passVars, AfterFirst
    <3>6. \A x \in Callers : calls'[x].phase = "idle" <=> calls'[x].letter = None
      BY <3>3 DEF CallType, NoCall
    <3>7. \A l \in Letters : IF cli'[l] = "hop" THEN calls'[l].letter = l ELSE calls'[l].letter = None
      BY <3>3, <3>4 DEF CallType, NoCall, Callers
    <3>8. calls'[Daemon].phase # "idle" =>
            \E i \in todo' \ AfterFirst' : outbox'[i].letter = calls'[Daemon].letter
      BY <1>2, <2>4, <3>3, <3>5 DEF CallType, PassType, Callers
    <3> QED BY <3>2, <3>6, <3>7, <3>8 DEF CallType
  <2> QED BY <2>5, <2>6, <2>7
<1> QED BY <1>1, <1>2

\* Receivers nobody waits for any more are still receivers.
LEMMA DetachedTypes ==
  ASSUME FarType, NEW c \in Callers, recv' = Detached(c), UNCHANGED <<lock, ledger>>
  PROVE  FarType'
<1>1. NoReceiver \in Receiver BY DEF NoReceiver, Receiver
<1>2. \A r \in Receivers : [recv[r] EXCEPT !.caller = None] \in Receiver
  BY DEF FarType, Receiver
<1>3. recv' \in [Receivers -> Receiver]
  BY <1>1, <1>2 DEF FarType, Detached
<1>4. \A r \in Receivers : recv'[r].pc = "free" <=> recv'[r].letter = None
  BY DEF FarType, Detached, NoReceiver, Receiver
<1> QED BY <1>3, <1>4 DEF FarType

\* The end of a receiver, and its move to another place of its code.
LEMMA RepliesTypes ==
  ASSUME FarType, NEW r \in Receivers, recv[r].pc # "free", NEW ok \in BOOLEAN, Replies(r, ok)
  PROVE  /\ recv' \in [Receivers -> Receiver]
         /\ \A s \in Receivers : recv'[s].pc = "free" <=> recv'[s].letter = None
<1>1. NoReceiver \in Receiver BY DEF NoReceiver, Receiver
<1>2. [recv[r] EXCEPT !.pc = "reply", !.ok = ok] \in Receiver
  BY DEF FarType, Receiver
<1> QED BY <1>1, <1>2 DEF FarType, Replies, NoReceiver, Receiver

LEMMA MovesTypes ==
  ASSUME FarType, NEW r \in Receivers, recv[r].pc # "free",
         NEW pc \in {"lock", "check", "append"}, Moves(r, pc)
  PROVE  /\ recv' \in [Receivers -> Receiver]
         /\ \A s \in Receivers : recv'[s].pc = "free" <=> recv'[s].letter = None
<1>1. [recv[r] EXCEPT !.pc = pc] \in Receiver
  BY DEF FarType, Receiver
<1> QED BY <1>1 DEF FarType, Moves, Receiver

\* A hop that begins (runPeer) is a call of its letter.
LEMMA RunPeerTypes ==
  ASSUME NEW l \in Letters, NEW ways \in SUBSET Way
  PROVE  runPeer(l, ways) \in Call /\ runPeer(l, ways).phase \in Way
         /\ runPeer(l, ways).letter = l /\ runPeer(l, ways).runs = 0
BY DEF runPeer, Call, Way

\* None is no letter and no caller.
LEMMA NoneIsNone == None \notin Letters /\ None \notin Receivers /\ None \notin Callers
                    /\ Daemon \notin Letters /\ Letters \subseteq Callers /\ Daemon \in Callers
BY LettersAssumption DEF Callers

\* The steps of a hop keep the types (runPeer, runRemote, runRemoteAdapter).
LEMMA HopTypes ==
  ASSUME TypeOK, Hops, NEW c \in Callers, Hop(c)
  PROVE  TypeOK'
<1> USE DEF TypeOK
<1>1. CASE Dispatch(c)
  <2>1. PICK r \in Receivers : 
          /\ calls[c].phase \in Way /\ recv[r].pc = "free"
          /\ recv' = [recv EXCEPT ![r] =
               [pc |-> "start", letter |-> calls[c].letter, caller |-> c, ok |-> FALSE]]
          /\ calls' = [calls EXCEPT ![c] =
               [phase |-> "open", letter |-> @.letter, alias |-> @.alias, runs |-> @.runs + 1]]
          /\ UNCHANGED <<senderVars, passVars, lock, ledger, worldVars, abandoned, boundVars>>
    BY <1>1 DEF Dispatch
  <2>2. calls[c] \in Call /\ calls[c].letter \in Letters
    BY <2>1, NoneIsNone DEF CallType, Call, Way
  <2>3. SenderType' /\ PassType' /\ WorldType'
    BY <2>1 DEF SenderType, PassType, WorldType, senderVars, passVars, worldVars, boundVars, Rows
  <2>4. FarType'
    <3>1. [pc |-> "start", letter |-> calls[c].letter, caller |-> c, ok |-> FALSE] \in Receiver
      BY <2>2 DEF Receiver
    <3>2. recv' \in [Receivers -> Receiver] BY <2>1, <3>1 DEF FarType
    <3>3. \A s \in Receivers : recv'[s].pc = "free" <=> recv'[s].letter = None
      BY <2>1, <2>2, NoneIsNone DEF FarType
    <3> QED BY <2>1, <3>2, <3>3 DEF FarType
  <2>5. CallType'
    <3>1. [phase |-> "open", letter |-> calls[c].letter, alias |-> calls[c].alias,
           runs |-> calls[c].runs + 1] \in Call
      BY <2>2 DEF Call
    <3>2. /\ calls' \in [Callers -> Call]
          /\ \A x \in Callers : calls'[x].letter = calls[x].letter
          /\ \A x \in Callers : calls'[x].phase = "idle" <=> calls[x].phase = "idle"
      BY <2>1, <2>2, <3>1 DEF CallType, Call, Way
    <3>3. UNCHANGED <<cli, todo, outbox, AfterFirst>>
      BY <2>1 DEF senderVars, passVars, AfterFirst
    <3> QED BY <3>2, <3>3, NoneIsNone DEF CallType
  <2> QED BY <2>3, <2>4, <2>5
<1>2. CASE Cut(c)
  <2>1. SenderType' /\ PassType' /\ CallType' BY <1>2, FinishTypes DEF Cut
  <2>2. FarType' BY <1>2, DetachedTypes DEF Cut
  <2>3. WorldType' BY <1>2, BoundsAssumption DEF Cut, WorldType, worldVars
  <2> QED BY <2>1, <2>2, <2>3
<1>3. CASE Answer(c)
  <2>1. PICK r \in Receivers :
          /\ recv[r].caller = c /\ recv[r].pc = "reply"
          /\ recv' = [recv EXCEPT ![r] = NoReceiver]
          /\ Finish(c, FALSE, recv[r].ok, FALSE)
          /\ UNCHANGED <<lock, ledger, worldVars, boundVars>>
    BY <1>3 DEF Answer
  <2>2. calls[c].phase # "idle" /\ recv[r].ok \in BOOLEAN
    BY <2>1, NoneIsNone DEF Hops, FarType, Receiver
  <2>3. SenderType' /\ PassType' /\ CallType'
    BY <2>1, <2>2, FinishTypes
  <2>4. FarType'
    <3>1. NoReceiver \in Receiver BY DEF NoReceiver, Receiver
    <3> QED BY <2>1, <3>1 DEF FarType, NoReceiver
  <2>5. WorldType' BY <2>1 DEF WorldType, worldVars, boundVars
  <2> QED BY <2>3, <2>4, <2>5
<1>4. ASSUME NEW permanent \in BOOLEAN, NotSent(c, permanent)
      PROVE  TypeOK'
  <2>1. FarType' /\ WorldType'
    BY <1>4, BoundsAssumption DEF NotSent, FarType, WorldType, farVars, worldVars
  <2>2. CASE calls[c].alias
    <3>1. /\ calls' = [calls EXCEPT ![c].phase = "ssh"] /\ calls[c].phase = "adapter"
          /\ UNCHANGED <<senderVars, passVars, abandoned>>
      BY <1>4, <2>2 DEF NotSent
    <3>2. SenderType' /\ PassType'
      BY <3>1 DEF SenderType, PassType, senderVars, passVars, Rows
    <3>3. [calls[c] EXCEPT !.phase = "ssh"] \in Call BY DEF CallType, Call
    <3>4. /\ calls' \in [Callers -> Call]
          /\ \A x \in Callers : calls'[x].letter = calls[x].letter
          /\ \A x \in Callers : calls'[x].phase = "idle" <=> calls[x].phase = "idle"
      BY <3>1, <3>3 DEF CallType, Call
    <3>5. UNCHANGED <<cli, todo, outbox, AfterFirst>>
      BY <3>1 DEF senderVars, passVars, AfterFirst
    <3>6. CallType' BY <3>4, <3>5, NoneIsNone DEF CallType
    <3> QED BY <2>1, <3>2, <3>6
  <2>3. CASE ~calls[c].alias
    <3>1. SenderType' /\ PassType' /\ CallType'
      BY <1>4, <2>3, FinishTypes DEF NotSent
    <3> QED BY <2>1, <3>1
  <2> QED BY <2>2, <2>3
<1>5. ASSUME NEW permanent \in BOOLEAN, Refused(c, permanent)
      PROVE  TypeOK'
  <2>1. FarType' /\ WorldType'
    BY <1>5, BoundsAssumption DEF Refused, FarType, WorldType, farVars, worldVars
  <2>2. SenderType' /\ PassType' /\ CallType'
    BY <1>5, FinishTypes DEF Refused
  <2> QED BY <2>1, <2>2
<1> QED BY <1>1, <1>2, <1>3, <1>4, <1>5 DEF Hop

\* The steps of a receiver keep the types (cmdReceiveChat, appendMessageOnce).
LEMMA ReceiverTypes ==
  ASSUME TypeOK, NEW r \in Receivers, cmdReceiveChat(r)
  PROVE  TypeOK'
<1> USE DEF TypeOK
<1>1. UNCHANGED <<senderVars, passVars, calls, worldVars, abandoned>> /\ recv[r].pc # "free"
  BY DEF cmdReceiveChat, ReceiveValidates, ReceiveLocks, ReceiveTimesOut, ReceiveLooksUp,
         ReceiveAppends, ReceiverDies, receiverFrame
<1>2. SenderType' /\ PassType' /\ CallType'
  BY <1>1 DEF SenderType, PassType, CallType, senderVars, passVars, Rows, AfterFirst
<1>3. WorldType'
  <2>1. /\ UNCHANGED <<deaths, changes>>
        /\ \/ faults' = faults
           \/ faults < MaxFaults /\ faults' = faults + 1
    BY DEF cmdReceiveChat, ReceiveValidates, ReceiveLocks, ReceiveTimesOut, ReceiveLooksUp,
           ReceiveAppends, ReceiverDies, boundVars
  <2>2. faults' \in 0..MaxFaults BY <2>1, BoundsAssumption DEF WorldType
  <2> QED BY <1>1, <2>1, <2>2 DEF WorldType, worldVars
<1>4. recv[r].letter \in Letters /\ At(r) \in Machines
  BY <1>1, LettersAssumption DEF FarType, Receiver, At
<1>5. /\ recv' \in [Receivers -> Receiver]
      /\ \A s \in Receivers : recv'[s].pc = "free" <=> recv'[s].letter = None
  BY <1>1, RepliesTypes, MovesTypes DEF cmdReceiveChat, ReceiveValidates, ReceiveLocks,
     ReceiveTimesOut, ReceiveLooksUp, ReceiveAppends, ReceiverDies
<1>6. lock' \in [Machines -> Receivers \cup {None}]
  BY <1>4 DEF FarType, cmdReceiveChat, ReceiveValidates, ReceiveLocks, ReceiveTimesOut,
     ReceiveLooksUp, ReceiveAppends, ReceiverDies
<1>7. ledger' \in [Machines -> Seq(Letters)]
  <2>1. \/ ledger' = ledger
        \/ ledger' = [ledger EXCEPT ![At(r)] = Append(@, recv[r].letter)]
    BY DEF cmdReceiveChat, ReceiveValidates, ReceiveLocks, ReceiveTimesOut, ReceiveLooksUp,
           ReceiveAppends, ReceiverDies
  <2>2. Append(ledger[At(r)], recv[r].letter) \in Seq(Letters)
    BY <1>4 DEF FarType
  <2> QED BY <1>4, <2>1, <2>2 DEF FarType
<1> QED BY <1>2, <1>3, <1>5, <1>6, <1>7 DEF FarType

\* The steps of the sending command, of the flush and of the daemon's death keep the types.
LEMMA SenderTypes ==
  ASSUME TypeOK, \/ \E l \in Letters : Send(l) \/ CliDies(l)
                 \/ flushOutbox \/ DaemonDies
  PROVE  TypeOK'
<1> USE DEF TypeOK
<1>1. ASSUME NEW l \in Letters, Send(l) PROVE TypeOK'
  <2>1. /\ cli[l] = "new" /\ cli' = [cli EXCEPT ![l] = "hop"]
        /\ calls' = [calls EXCEPT ![l] = runPeer(l, routes[Dest[l]])]
        /\ UNCHANGED <<outbox, acked, told, stale, passVars, farVars, worldVars, abandoned, boundVars>>
    BY <1>1 DEF Send
  <2>2. routes[Dest[l]] \in SUBSET Way BY LettersAssumption DEF WorldType
  <2>3. SenderType' /\ PassType' /\ FarType' /\ WorldType'
    BY <2>1 DEF SenderType, PassType, FarType, WorldType, passVars, farVars, worldVars, boundVars, Rows
  <2>4. /\ calls' \in [Callers -> Call]
        /\ \A x \in Callers : calls'[x] = IF x = l THEN runPeer(l, routes[Dest[l]]) ELSE calls[x]
    BY <2>1, <2>2, RunPeerTypes, NoneIsNone DEF CallType
  <2>5. UNCHANGED <<todo, outbox, AfterFirst>> BY <2>1 DEF passVars, AfterFirst
  <2>6. \A k \in Letters : cli'[k] = IF k = l THEN "hop" ELSE cli[k]
    BY <2>1 DEF SenderType
  <2>7. CallType'
    BY <2>2, <2>4, <2>5, <2>6, RunPeerTypes, NoneIsNone DEF CallType, Way
  <2> QED BY <2>3, <2>7
<1>2. ASSUME NEW l \in Letters, CliDies(l) PROVE TypeOK'
  <2>1. /\ cli' = [cli EXCEPT ![l] = "dead"] /\ calls' = [calls EXCEPT ![l] = NoCall]
        /\ recv' = Detached(l) /\ deaths < MaxDeaths /\ deaths' = deaths + 1
        /\ UNCHANGED <<outbox, acked, told, stale, passVars, lock, ledger, worldVars, abandoned, faults, changes>>
    BY <1>2 DEF CliDies
  <2>2. SenderType' /\ PassType'
    BY <2>1 DEF SenderType, PassType, passVars, Rows
  <2>3. FarType' BY <2>1, DetachedTypes, NoneIsNone
  <2>4. WorldType' BY <2>1, BoundsAssumption DEF WorldType, worldVars
  <2>5. NoCall \in Call BY DEF NoCall, Call
  <2>6. /\ calls' \in [Callers -> Call]
        /\ \A x \in Callers : calls'[x] = IF x = l THEN NoCall ELSE calls[x]
    BY <2>1, <2>5 DEF CallType
  <2>7. UNCHANGED <<todo, outbox, AfterFirst>> BY <2>1 DEF passVars, AfterFirst
  <2>8. \A k \in Letters : cli'[k] = IF k = l THEN "dead" ELSE cli[k]
    BY <2>1 DEF SenderType
  <2>9. CallType' BY <2>6, <2>7, <2>8, NoneIsNone DEF CallType, NoCall
  <2> QED BY <2>2, <2>3, <2>4, <2>9
<1>3. CASE FlushBegin
  <2>1. FirstOf(retryCandidates, MaxPerTick) \subseteq Rows
    BY DEF FirstOf, retryCandidates
  <2>2. SenderType' /\ PassType' /\ FarType' /\ WorldType'
    BY <1>3, <2>1 DEF FlushBegin, SenderType, PassType, FarType, WorldType, senderVars, farVars,
       worldVars, boundVars, Rows
  <2>3. CallType'
    BY <1>3 DEF FlushBegin, CallType, PassType, senderVars
  <2> QED BY <2>2, <2>3
<1>4. CASE FlushVisit
  <2>1. PICK i \in todo \ AfterFirst :
          /\ calls[Daemon].phase = "idle"
          /\ \/ todo' = AfterFirst /\ UNCHANGED <<acked, abandoned, calls>>
             \/ /\ todo' = AfterFirst
                /\ acked' = acked \cup {outbox[i].letter}
                /\ abandoned' = abandoned \cup {outbox[i].letter} /\ UNCHANGED calls
             \/ /\ calls' = [calls EXCEPT ![Daemon] =
                     runPeer(outbox[i].letter, conf[Dest[outbox[i].letter]])]
                /\ UNCHANGED <<todo, acked, abandoned>>
          /\ UNCHANGED <<outbox, cli, told, stale, flushing, conf, farVars, worldVars, boundVars>>
    BY <1>4 DEF FlushVisit
  <2>2. outbox[i].letter \in Letters BY <2>1, RowTypes DEF PassType
  <2>3. SenderType' /\ PassType' /\ FarType' /\ WorldType'
    BY <2>1, <2>2 DEF SenderType, PassType, FarType, WorldType, farVars, worldVars, boundVars, Rows, AfterFirst
  <2>4. CASE UNCHANGED calls
    <3>1. CallType' BY <2>1, <2>4 DEF CallType
    <3> QED BY <2>3, <3>1
  <2>5. CASE /\ calls' = [calls EXCEPT ![Daemon] =
                  runPeer(outbox[i].letter, conf[Dest[outbox[i].letter]])]
             /\ UNCHANGED <<todo, acked, abandoned>>
    <3>1. conf[Dest[outbox[i].letter]] \in SUBSET Way
      BY <2>2, LettersAssumption DEF PassType
    <3>2. /\ calls' \in [Callers -> Call]
          /\ \A x \in Letters : calls'[x] = calls[x]
          /\ calls'[Daemon].letter = outbox[i].letter /\ calls'[Daemon].phase \in Way
      BY <2>2, <2>5, <3>1, RunPeerTypes, NoneIsNone DEF CallType
    <3>3. \A x \in Callers : calls'[x].phase = "idle" <=> calls'[x].letter = None
      BY <2>2, <3>2, NoneIsNone DEF CallType, Callers, Way
    <3>4. AfterFirst' = AfterFirst BY <2>5 DEF AfterFirst
    <3>5. \E j \in todo' \ AfterFirst' : outbox'[j].letter = calls'[Daemon].letter
      BY <2>1, <2>5, <3>2, <3>4
    <3>6. \A x \in Letters : IF cli'[x] = "hop" THEN calls'[x].letter = x ELSE calls'[x].letter = None
      BY <2>1, <3>2 DEF CallType
    <3>7. CallType' BY <3>2, <3>3, <3>5, <3>6 DEF CallType
    <3> QED BY <2>3, <3>7
  <2> QED BY <2>1, <2>4, <2>5
<1>5. CASE FlushEnd
  <2>1. SenderType' /\ PassType' /\ FarType' /\ WorldType'
    BY <1>5 DEF FlushEnd, SenderType, PassType, FarType, WorldType, senderVars, farVars,
       worldVars, boundVars, Rows
  <2>2. CallType' BY <1>5 DEF FlushEnd, CallType, senderVars, AfterFirst
  <2> QED BY <2>1, <2>2
<1>6. CASE DaemonDies
  <2>1. /\ flushing' = FALSE /\ todo' = {} /\ calls' = [calls EXCEPT ![Daemon] = NoCall]
        /\ recv' = Detached(Daemon) /\ deaths < MaxDeaths /\ deaths' = deaths + 1
        /\ UNCHANGED <<senderVars, conf, lock, ledger, worldVars, abandoned, faults, changes>>
    BY <1>6 DEF DaemonDies
  <2>2. SenderType' /\ PassType' BY <2>1 DEF SenderType, PassType, senderVars, Rows
  <2>3. FarType' BY <2>1, DetachedTypes, NoneIsNone
  <2>4. WorldType' BY <2>1, BoundsAssumption DEF WorldType, worldVars
  <2>5. NoCall \in Call BY DEF NoCall, Call
  <2>6. /\ calls' \in [Callers -> Call]
        /\ \A x \in Callers : calls'[x] = IF x = Daemon THEN NoCall ELSE calls[x]
    BY <2>1, <2>5 DEF CallType
  <2>7. CallType' BY <2>1, <2>6, NoneIsNone DEF CallType, NoCall, senderVars
  <2> QED BY <2>2, <2>3, <2>4, <2>7
<1> QED BY <1>1, <1>2, <1>3, <1>4, <1>5, <1>6 DEF flushOutbox

\* The steps of the world keep the types.
LEMMA WorldTypes ==
  ASSUME TypeOK, World
  PROVE  TypeOK'
<1> USE DEF TypeOK
<1>1. UNCHANGED <<outbox, acked, cli, told, passVars, calls, farVars, abandoned>>
  BY DEF World, Age, Closes, Opens, GoesDown, ComesUp, Reconfigures, senderVars
<1>2. stale' \subseteq Letters
  BY DEF SenderType, World, Age, Closes, Opens, GoesDown, ComesUp, Reconfigures, senderVars
<1>3. SenderType' BY <1>1, <1>2 DEF SenderType
<1>4. PassType' /\ CallType' /\ FarType'
  BY <1>1 DEF PassType, CallType, FarType, passVars, farVars, Rows, AfterFirst
<1>5. open' \subseteq Letters /\ up' \subseteq Machines /\ routes' \in [Machines -> SUBSET Way]
  BY RoutesAssumption DEF WorldType, worldVars, World, Age, Closes, Opens, GoesDown, ComesUp, Reconfigures
<1>6. faults' \in 0..MaxFaults /\ deaths' \in 0..MaxDeaths /\ changes' \in 0..MaxChanges
  BY BoundsAssumption DEF WorldType, boundVars, World, Age, Closes, Opens, GoesDown, ComesUp, Reconfigures
<1> QED BY <1>3, <1>4, <1>5, <1>6 DEF WorldType

\* The types are right at first.
LEMMA InitTypes ==
  ASSUME Init
  PROVE  TypeOK
<1>1. NoCall \in Call /\ NoReceiver \in Receiver
  BY DEF NoCall, Call, NoReceiver, Receiver
<1>2. routes \in [Machines -> SUBSET Way] BY RoutesAssumption DEF Init
<1>3. SenderType
  BY DEF Init, SenderType
<1>4. PassType
  BY <1>2 DEF Init, PassType
<1>5. CallType
  BY <1>1, NoneIsNone DEF Init, CallType, NoCall
<1>6. FarType
  BY <1>1 DEF Init, FarType, NoReceiver
<1>7. WorldType
  BY <1>2, BoundsAssumption DEF Init, WorldType
<1> QED BY <1>3, <1>4, <1>5, <1>6, <1>7 DEF TypeOK

-----------------------------------------------------------------------------
(* A hop and the receiver it started (runPeer, runRemote).                 *)

\* How a receiver ends or moves, and that the others stay.
LEMMA RepliesEffect ==
  ASSUME TypeOK, NEW r \in Receivers, NEW ok \in BOOLEAN, Replies(r, ok)
  PROVE  /\ \A s \in Receivers : s # r => recv'[s] = recv[s]
         /\ \/ recv'[r].pc = "free"
            \/ recv'[r].pc = "reply" /\ recv'[r].letter = recv[r].letter /\ recv'[r].ok = ok
         /\ \/ recv'[r].caller = None
            \/ recv'[r].caller = recv[r].caller /\ recv'[r].letter = recv[r].letter
<1> DEFINE replied == [recv[r] EXCEPT !.pc = "reply", !.ok = ok]
<1>1. replied.pc = "reply" /\ replied.letter = recv[r].letter /\ replied.ok = ok
      /\ replied.caller = recv[r].caller
  BY DEF TypeOK, FarType, Receiver
<1>2. \A s \in Receivers : recv'[s] = IF s # r THEN recv[s] ELSE
        IF recv[r].caller = None THEN NoReceiver ELSE replied
  BY DEF Replies, TypeOK, FarType
<1>3. NoReceiver.pc = "free" /\ NoReceiver.caller = None BY DEF NoReceiver
<1> HIDE DEF replied
<1> QED BY <1>1, <1>2, <1>3

LEMMA MovesEffect ==
  ASSUME TypeOK, NEW r \in Receivers, NEW pc \in {"lock", "check", "append"}, Moves(r, pc)
  PROVE  /\ \A s \in Receivers : s # r => recv'[s] = recv[s]
         /\ recv'[r].pc = pc /\ recv'[r].letter = recv[r].letter /\ recv'[r].caller = recv[r].caller
<1> DEFINE moved == [recv[r] EXCEPT !.pc = pc]
<1>1. moved.pc = pc /\ moved.letter = recv[r].letter /\ moved.caller = recv[r].caller
  BY DEF TypeOK, FarType, Receiver
<1>2. \A s \in Receivers : recv'[s] = IF s # r THEN recv[s] ELSE moved
  BY DEF Moves, TypeOK, FarType
<1> HIDE DEF moved
<1> QED BY <1>1, <1>2

\* When a caller stops waiting, nobody is left that it waits for.
LEMMA DetachedHops ==
  ASSUME TypeOK, Hops, NEW c \in Callers, recv' = Detached(c),
         calls' = [calls EXCEPT ![c] = NoCall]
  PROVE  Hops'
<1>1. \A x \in Callers : calls'[x] = IF x = c THEN NoCall ELSE calls[x]
  BY DEF TypeOK, CallType
<1>2. \A r \in Receivers : recv'[r].caller # None =>
        recv'[r] = recv[r] /\ recv[r].caller # c
  BY DEF Detached, NoReceiver, TypeOK, FarType, Receiver
<1>3. \A r \in Receivers : recv[r].caller # None => recv[r].caller \in Callers
  BY DEF TypeOK, FarType, Receiver
<1> QED BY <1>1, <1>2, <1>3 DEF Hops, NoCall

\* A receiver that goes on or ends keeps its caller and its letter, or has no caller.
LEMMA ReceiverHops ==
  ASSUME TypeOK, Hops, calls' = calls,
         \A r \in Receivers :
           \/ recv'[r].caller = None
           \/ recv'[r].caller = recv[r].caller /\ recv'[r].letter = recv[r].letter
  PROVE  Hops'
BY DEF Hops

\* A caller whose hop has not left has no receiver.
LEMMA NoneWaitedFor ==
  ASSUME TypeOK, Hops, NEW c \in Callers, calls[c].phase # "open"
  PROVE  \A r \in Receivers : recv[r].caller # c
BY NoneIsNone DEF Hops

\* A caller without a receiver may begin, change or end a hop that has not left.
LEMMA CallerHops ==
  ASSUME TypeOK, Hops, NEW c \in Callers, calls[c].phase # "open", recv' = recv,
         NEW call, call.phase # "open", call.runs = 0, calls' = [calls EXCEPT ![c] = call]
  PROVE  Hops'
<1>1. \A x \in Callers : calls'[x] = IF x = c THEN call ELSE calls[x]
  BY DEF TypeOK, CallType
<1>2. \A r \in Receivers : recv[r].caller # None => recv[r].caller \in Callers /\ recv[r].caller # c
  BY NoneWaitedFor DEF TypeOK, FarType, Receiver
<1> QED BY <1>1, <1>2 DEF Hops

\* Every step keeps what ties hops to receivers.
LEMMA HopsStep ==
  ASSUME TypeOK, Hops, [Next]_vars
  PROVE  Hops'
<1>1. ASSUME UNCHANGED <<calls, recv>> PROVE Hops'
  BY <1>1 DEF Hops
<1>2. ASSUME NEW c \in Callers, Dispatch(c) PROVE Hops'
  <2>1. PICK r \in Receivers :
          /\ calls[c].phase \in Way
          /\ recv' = [recv EXCEPT ![r] =
               [pc |-> "start", letter |-> calls[c].letter, caller |-> c, ok |-> FALSE]]
          /\ calls' = [calls EXCEPT ![c] =
               [phase |-> "open", letter |-> @.letter, alias |-> @.alias, runs |-> @.runs + 1]]
    BY <1>2 DEF Dispatch
  <2>2. \A s \in Receivers : recv[s].caller # c
    BY <2>1, NoneWaitedFor DEF Way
  <2>3. \A x \in Callers : x # c => calls'[x] = calls[x]
    BY <2>1 DEF TypeOK, CallType
  <2>4. calls'[c].phase = "open" /\ calls'[c].letter = calls[c].letter /\ calls'[c].runs = 1
    BY <2>1 DEF TypeOK, CallType, Hops, Way
  <2>5. \A s \in Receivers : IF s = r THEN recv'[s].caller = c /\ recv'[s].letter = calls[c].letter
                                      ELSE recv'[s] = recv[s]
    BY <2>1 DEF TypeOK, FarType
  <2>6. \A s \in Receivers : recv[s].caller # None => recv[s].caller \in Callers
    BY DEF TypeOK, FarType, Receiver
  <2> QED BY <2>2, <2>3, <2>4, <2>5, <2>6 DEF Hops
<1>3. ASSUME NEW c \in Callers, Cut(c) PROVE Hops'
  BY <1>3, DetachedHops DEF Cut, Finish
<1>4. ASSUME NEW c \in Callers, Answer(c) PROVE Hops'
  <2>1. PICK r \in Receivers : recv[r].caller = c /\ recv' = [recv EXCEPT ![r] = NoReceiver]
                               /\ calls' = [calls EXCEPT ![c] = NoCall]
    BY <1>4 DEF Answer, Finish
  <2>2. \A x \in Callers : calls'[x] = IF x = c THEN NoCall ELSE calls[x]
    BY <2>1 DEF TypeOK, CallType
  <2>3. \A s \in Receivers : recv'[s] = IF s = r THEN NoReceiver ELSE recv[s]
    BY <2>1 DEF TypeOK, FarType
  <2>4. \A s \in Receivers : recv[s].caller # None =>
          recv[s].caller \in Callers /\ (recv[s].caller = c => s = r)
    BY <2>1 DEF TypeOK, FarType, Receiver, Hops
  <2> QED BY <2>2, <2>3, <2>4 DEF Hops, NoCall, NoReceiver
<1>5. ASSUME NEW c \in Callers, NEW permanent \in BOOLEAN,
             NotSent(c, permanent) \/ Refused(c, permanent)
      PROVE  Hops'
  <2>1. /\ calls[c].phase = "adapter" /\ recv' = recv
        /\ \/ calls' = [calls EXCEPT ![c] = [calls[c] EXCEPT !.phase = "ssh"]]
           \/ calls' = [calls EXCEPT ![c] = NoCall]
    BY <1>5 DEF NotSent, Refused, Finish, farVars
  <2>2. calls[c].runs = 0 /\ calls[c] \in Call
    BY <2>1 DEF Hops, TypeOK, CallType
  <2>3. [calls[c] EXCEPT !.phase = "ssh"].runs = 0 /\ [calls[c] EXCEPT !.phase = "ssh"].phase = "ssh"
    BY <2>2 DEF Call
  <2>4. NoCall.phase = "idle" /\ NoCall.runs = 0 BY DEF NoCall
  <2>5. CASE calls' = [calls EXCEPT ![c] = [calls[c] EXCEPT !.phase = "ssh"]]
    BY <2>1, <2>3, <2>5, CallerHops
  <2>6. CASE calls' = [calls EXCEPT ![c] = NoCall]
    BY <2>1, <2>4, <2>6, CallerHops
  <2> QED BY <2>1, <2>5, <2>6
<1>6. ASSUME NEW l \in Letters, Send(l) PROVE Hops'
  <2>1. /\ calls[l].phase = "idle" /\ recv' = recv /\ routes[Dest[l]] \in SUBSET Way
        /\ calls' = [calls EXCEPT ![l] = runPeer(l, routes[Dest[l]])]
    BY <1>6, NoneIsNone, LettersAssumption DEF Send, TypeOK, CallType, WorldType, farVars
  <2> QED BY <2>1, RunPeerTypes, CallerHops, NoneIsNone DEF Way
<1>7. ASSUME NEW l \in Letters, CliDies(l) PROVE Hops'
  BY <1>7, DetachedHops, NoneIsNone DEF CliDies
<1>8. ASSUME FlushVisit PROVE Hops'
  <2>1. PICK i \in todo :
          /\ recv' = recv /\ calls[Daemon].phase = "idle"
          /\ \/ UNCHANGED calls
             \/ calls' = [calls EXCEPT ![Daemon] =
                  runPeer(outbox[i].letter, conf[Dest[outbox[i].letter]])]
    BY <1>8 DEF FlushVisit, farVars
  <2>2. outbox[i].letter \in Letters BY RowTypes DEF TypeOK, PassType
  <2>3. conf[Dest[outbox[i].letter]] \in SUBSET Way
    BY <2>2, LettersAssumption DEF TypeOK, PassType
  <2>4. CASE UNCHANGED calls BY <1>1, <2>1, <2>4
  <2>5. CASE calls' = [calls EXCEPT ![Daemon] =
               runPeer(outbox[i].letter, conf[Dest[outbox[i].letter]])]
    <3> DEFINE call == runPeer(outbox[i].letter, conf[Dest[outbox[i].letter]])
    <3>1. call.phase # "open" /\ call.runs = 0 BY <2>2, <2>3, RunPeerTypes DEF Way
    <3> HIDE DEF call
    <3> QED BY <2>1, <2>5, <3>1, CallerHops, NoneIsNone DEF call
  <2> QED BY <2>1, <2>4, <2>5
<1>9. ASSUME DaemonDies PROVE Hops'
  BY <1>9, DetachedHops, NoneIsNone DEF DaemonDies
<1>10. ASSUME NEW r \in Receivers, cmdReceiveChat(r) PROVE Hops'
  <2>1. calls' = calls
    BY <1>10 DEF cmdReceiveChat, ReceiveValidates, ReceiveLocks, ReceiveTimesOut, ReceiveLooksUp,
       ReceiveAppends, ReceiverDies, receiverFrame
  <2>2. \/ \E pc \in {"lock", "check", "append"} : Moves(r, pc)
        \/ \E ok \in BOOLEAN : Replies(r, ok)
    BY <1>10 DEF cmdReceiveChat, ReceiveValidates, ReceiveLocks, ReceiveTimesOut, ReceiveLooksUp,
       ReceiveAppends, ReceiverDies
  <2>3. \A s \in Receivers :
          \/ recv'[s].caller = None
          \/ recv'[s].caller = recv[s].caller /\ recv'[s].letter = recv[s].letter
    BY <2>2, MovesEffect, RepliesEffect
  <2> QED BY <2>1, <2>3, ReceiverHops
<1>11. ASSUME FlushBegin \/ FlushEnd \/ World \/ UNCHANGED vars PROVE Hops'
  BY <1>1, <1>11 DEF FlushBegin, FlushEnd, World, Age, Closes, Opens, GoesDown, ComesUp,
     Reconfigures, vars, farVars
<1> QED BY <1>2, <1>3, <1>4, <1>5, <1>6, <1>7, <1>8, <1>9, <1>10, <1>11
        DEF Next, Hop, flushOutbox

\* Every step keeps the types, given that a caller waits only for its own receiver.
LEMMA TypeStep ==
  ASSUME TypeOK, Hops, [Next]_vars
  PROVE  TypeOK'
<1>1. ASSUME UNCHANGED vars PROVE TypeOK'
  BY <1>1 DEF vars, senderVars, passVars, farVars, worldVars, boundVars, TypeOK, SenderType,
     PassType, CallType, FarType, WorldType, Rows, AfterFirst
<1> QED BY <1>1, HopTypes, SenderTypes, ReceiverTypes, WorldTypes DEF Next

\* Types and hops at every step: Spec => []TypeOK, what every other property rests on.
THEOREM TypesAndHops == Spec => [](TypeOK /\ Hops)
<1>1. Init => TypeOK /\ Hops
  <2> SUFFICES ASSUME Init PROVE TypeOK /\ Hops OBVIOUS
  <2>1. \A c \in Callers : calls[c].phase = "idle" /\ calls[c].runs = 0
    BY DEF Init, NoCall
  <2>2. \A r \in Receivers : recv[r].caller = None
    BY DEF Init, NoReceiver
  <2> QED BY <2>1, <2>2, InitTypes DEF Hops
<1>2. TypeOK /\ Hops /\ [Next]_vars => (TypeOK /\ Hops)'
  BY TypeStep, HopsStep
<1> QED BY <1>1, <1>2, PTL DEF Spec

\* One hop runs its command once at most (runPeer: no second path after an unknown outcome).
THEOREM RunOnce == Spec => []RunsOnce
<1>1. TypeOK /\ Hops => RunsOnce
  BY NoneIsNone DEF Hops, RunsOnce, TypeOK, CallType, Call
<1> QED BY <1>1, TypesAndHops, PTL

-----------------------------------------------------------------------------
(* Admission once (appendMessageOnce, admitOnce).                          *)

\* What an append does to the positions of every letter.
LEMMA AppendPositions ==
  ASSUME TypeOK, NEW r \in Receivers, recv[r].letter \in Letters,
         ledger' = [ledger EXCEPT ![At(r)] = Append(@, recv[r].letter)], NEW l \in Letters
  PROVE  Positions(l)' = IF l = recv[r].letter THEN Positions(l) \cup {Len(ledger[At(r)]) + 1}
                                               ELSE Positions(l)
<1> DEFINE s == ledger[At(r)]
<1>1. At(r) \in Machines /\ s \in Seq(Letters) /\ Dest[l] \in Machines
  BY LettersAssumption DEF At, TypeOK, FarType
<1>2. CASE Dest[l] = At(r)
  <2>1. ledger'[Dest[l]] = Append(s, recv[r].letter) /\ ledger[Dest[l]] = s
    BY <1>1, <1>2 DEF TypeOK, FarType
  <2>2. /\ DOMAIN Append(s, recv[r].letter) = 1..(Len(s) + 1) /\ DOMAIN s = 1..Len(s)
        /\ Len(s) \in Nat
        /\ \A i \in 1..Len(s) : Append(s, recv[r].letter)[i] = s[i]
        /\ Append(s, recv[r].letter)[Len(s) + 1] = recv[r].letter
    BY <1>1
  <2> HIDE DEF s
  <2>3. \A i : i \in 1..(Len(s) + 1) <=> i \in 1..Len(s) \/ i = Len(s) + 1
    BY <2>2
  <2>4. Positions(l)' = {i \in 1..(Len(s) + 1) : Append(s, recv[r].letter)[i] = l}
    BY <2>1, <2>2 DEF Positions
  <2>5. Positions(l) = {i \in 1..Len(s) : s[i] = l}
    BY <2>1, <2>2 DEF Positions
  <2>6. CASE l = recv[r].letter
    BY <2>2, <2>3, <2>4, <2>5, <2>6 DEF s
  <2>7. CASE l # recv[r].letter
    BY <2>2, <2>3, <2>4, <2>5, <2>7 DEF s
  <2> QED BY <2>6, <2>7
<1>3. CASE Dest[l] # At(r)
  <2>1. ledger'[Dest[l]] = ledger[Dest[l]] /\ l # recv[r].letter
    BY <1>1, <1>3 DEF TypeOK, FarType, At
  <2> QED BY <2>1 DEF Positions
<1> QED BY <1>2, <1>3

\* What the receivers of a letter may rely on carries over a step that leaves locks and ledgers.
LEMMA LockedFrame ==
  ASSUME TypeOK, Locked, UNCHANGED <<lock, ledger>>,
         \A r \in Receivers :
           \/ recv'[r] = recv[r]
           \/ recv'[r].pc \notin {"check", "append", "reply"}
           \/ recv'[r].pc = "reply" /\ ~recv'[r].ok
           \/ recv'[r].pc = recv[r].pc /\ recv'[r].letter = recv[r].letter /\ recv'[r].ok = recv[r].ok
  PROVE  Locked'
BY DEF Locked, At, Stored, Positions

\* The steps that leave every ledger alone; nothing else touches one but an append.
LEMMA OtherSteps ==
  ASSUME TypeOK, Hops, Locked, [Next]_vars, \A r \in Receivers : ~cmdReceiveChat(r)
  PROVE  ledger' = ledger /\ Locked'
<1>1. ASSUME UNCHANGED <<lock, ledger, recv>> PROVE ledger' = ledger /\ Locked'
  BY <1>1, LockedFrame
<1>2. ASSUME NEW c \in Callers, recv' = Detached(c), UNCHANGED <<lock, ledger>>
      PROVE  ledger' = ledger /\ Locked'
  <2> DEFINE left(r) == [recv[r] EXCEPT !.caller = None]
  <2>1. \A r \in Receivers : /\ left(r).pc = recv[r].pc
                             /\ left(r).letter = recv[r].letter /\ left(r).ok = recv[r].ok
    BY DEF TypeOK, FarType, Receiver
  <2>2. \A r \in Receivers : recv'[r] \in {recv[r], NoReceiver, left(r)}
    BY <1>2 DEF Detached
  <2>3. NoReceiver.pc = "free" BY DEF NoReceiver
  <2> HIDE DEF left
  <2> QED BY <1>2, <2>1, <2>2, <2>3, LockedFrame
<1>3. ASSUME NEW c \in Callers, Dispatch(c) PROVE ledger' = ledger /\ Locked'
  <2>1. UNCHANGED <<lock, ledger>> /\ \E r \in Receivers :
          recv' = [recv EXCEPT ![r] =
            [pc |-> "start", letter |-> calls[c].letter, caller |-> c, ok |-> FALSE]]
    BY <1>3 DEF Dispatch
  <2>2. \A s \in Receivers : recv'[s] = recv[s] \/ recv'[s].pc = "start"
    BY <2>1 DEF TypeOK, FarType
  <2> QED BY <2>1, <2>2, LockedFrame
<1>4. ASSUME NEW c \in Callers, Answer(c) PROVE ledger' = ledger /\ Locked'
  <2>1. UNCHANGED <<lock, ledger>> /\ \E r \in Receivers : recv' = [recv EXCEPT ![r] = NoReceiver]
    BY <1>4 DEF Answer
  <2>2. \A s \in Receivers : recv'[s] = recv[s] \/ recv'[s].pc = "free"
    BY <2>1 DEF TypeOK, FarType, NoReceiver
  <2> QED BY <2>1, <2>2, LockedFrame
<1>5. ASSUME NEW c \in Callers, Cut(c) PROVE ledger' = ledger /\ Locked'
  BY <1>2, <1>5 DEF Cut
<1>6. ASSUME NEW l \in Letters, CliDies(l) PROVE ledger' = ledger /\ Locked'
  BY <1>2, <1>6, NoneIsNone DEF CliDies
<1>7. ASSUME DaemonDies PROVE ledger' = ledger /\ Locked'
  BY <1>2, <1>7, NoneIsNone DEF DaemonDies
<1>8. ASSUME \/ \E l \in Letters : Send(l)
             \/ \E c \in Callers, permanent \in BOOLEAN : NotSent(c, permanent) \/ Refused(c, permanent)
             \/ flushOutbox \/ World \/ UNCHANGED vars
      PROVE  ledger' = ledger /\ Locked'
  <2>1. UNCHANGED <<lock, ledger, recv>>
    BY <1>8 DEF Send, NotSent, Refused, flushOutbox, FlushBegin, FlushVisit, FlushEnd, World, Age,
       Closes, Opens, GoesDown, ComesUp, Reconfigures, vars, farVars
  <2> QED BY <1>1, <2>1
<1> QED BY <1>3, <1>4, <1>5, <1>6, <1>7, <1>8 DEF Next, Hop

\* A receiver that ends without an append, having released what it held.
LEMMA LockedEnd ==
  ASSUME TypeOK, Locked, NEW r \in Receivers, NEW ok \in BOOLEAN, Replies(r, ok),
         ledger' = ledger, ok => Stored(recv[r].letter),
         \A s \in Receivers : s # r /\ recv[s].pc \in {"check", "append"} => lock'[At(s)] = s
  PROVE  Locked'
<1>1. \A s \in Receivers : s # r => recv'[s] = recv[s]
  BY RepliesEffect
<1>2. \/ recv'[r].pc = "free"
      \/ recv'[r].pc = "reply" /\ recv'[r].letter = recv[r].letter /\ recv'[r].ok = ok
  BY RepliesEffect
<1>3. \A s \in Receivers : recv'[s].pc \in {"check", "append"} => lock'[At(s)'] = s
  BY <1>1, <1>2 DEF At
<1>4. \A s \in Receivers : recv'[s].pc = "append" => ~Stored(recv[s].letter)'
  BY <1>1, <1>2 DEF Locked, Stored, Positions
<1>5. \A s \in Receivers : recv'[s].pc = "reply" /\ recv'[s].ok => Stored(recv[s].letter)'
  BY <1>1, <1>2 DEF Locked, Stored, Positions
<1> QED BY <1>3, <1>4, <1>5 DEF Locked

\* Every step keeps each letter at one position at most, and what the receivers rely on.
LEMMA KeptStep ==
  ASSUME TypeOK, Hops, Locked, KeptOnce, [Next]_vars
  PROVE  /\ Locked' /\ KeptOnce'
         /\ \A l \in Letters : Stored(l) => Stored(l)'
<1>1. ASSUME \A r \in Receivers : ~cmdReceiveChat(r)
      PROVE  Locked' /\ KeptOnce' /\ \A l \in Letters : Stored(l) => Stored(l)'
  BY <1>1, OtherSteps DEF KeptOnce, Positions, Stored
<1>2. ASSUME NEW r \in Receivers, cmdReceiveChat(r)
      PROVE  Locked' /\ KeptOnce' /\ \A l \in Letters : Stored(l) => Stored(l)'
  <2>1. recv[r].pc # "free"
    BY <1>2 DEF cmdReceiveChat, ReceiveValidates, ReceiveLocks, ReceiveTimesOut, ReceiveLooksUp,
       ReceiveAppends, ReceiverDies
  <2>2. recv[r].letter \in Letters /\ At(r) \in Machines
    BY <2>1, LettersAssumption DEF TypeOK, FarType, Receiver, At
  <2>3. \A s \in Receivers : recv[s].pc \in {"check", "append"} => At(s) \in Machines
    BY LettersAssumption DEF TypeOK, FarType, Receiver, At
  <2>4. ASSUME ledger' = ledger, Locked'
        PROVE  Locked' /\ KeptOnce' /\ \A l \in Letters : Stored(l) => Stored(l)'
    BY <2>4 DEF KeptOnce, Positions, Stored
  <2>5. CASE ReceiveValidates(r)
    <3>1. UNCHANGED <<lock, ledger>> /\ (Moves(r, "lock") \/ Replies(r, FALSE))
      BY <2>5 DEF ReceiveValidates
    <3> QED BY <2>4, <3>1, LockedFrame, MovesEffect, RepliesEffect
  <2>6. CASE ReceiveTimesOut(r)
    <3>1. UNCHANGED <<lock, ledger>> /\ Replies(r, FALSE)
      BY <2>6 DEF ReceiveTimesOut
    <3> QED BY <2>4, <3>1, LockedFrame, RepliesEffect
  <2>7. CASE ReceiveLocks(r)
    <3>1. lock[At(r)] = None /\ lock' = [lock EXCEPT ![At(r)] = r] /\ Moves(r, "check") /\ ledger' = ledger
      BY <2>7 DEF ReceiveLocks
    <3>2. \A s \in Receivers : s # r => recv'[s] = recv[s]
      BY <3>1, MovesEffect
    <3>3. recv'[r].pc = "check" /\ recv'[r].letter = recv[r].letter
      BY <3>1, MovesEffect
    <3>4. \A s \in Receivers : s # r /\ recv[s].pc \in {"check", "append"} =>
            lock'[At(s)] = s
      BY <2>3, <3>1, NoneIsNone DEF Locked, TypeOK, FarType
    <3>5. lock'[At(r)] = r BY <2>2, <3>1 DEF TypeOK, FarType
    <3>6. Locked' BY <3>1, <3>2, <3>3, <3>4, <3>5 DEF Locked, At, Stored, Positions
    <3> QED BY <2>4, <3>1, <3>6
  <2>8. CASE ReceiveLooksUp(r)
    <3>1. CASE Stored(recv[r].letter)
      <4>1. Replies(r, TRUE) /\ lock' = [lock EXCEPT ![At(r)] = None] /\ ledger' = ledger
            /\ recv[r].pc = "check"
        BY <2>8, <3>1 DEF ReceiveLooksUp
      <4>2. \A s \in Receivers : s # r /\ recv[s].pc \in {"check", "append"} => lock'[At(s)] = s
        BY <2>3, <4>1 DEF Locked, TypeOK, FarType
      <4>3. Locked' BY <3>1, <4>1, <4>2, LockedEnd
      <4> QED BY <2>4, <4>1, <4>3
    <3>2. CASE ~Stored(recv[r].letter)
      <4>1. Moves(r, "append") /\ UNCHANGED <<lock, ledger>> /\ recv[r].pc = "check"
        BY <2>8, <3>2 DEF ReceiveLooksUp
      <4>2. \A s \in Receivers : s # r => recv'[s] = recv[s]
        BY <4>1, MovesEffect
      <4>3. recv'[r].pc = "append" /\ recv'[r].letter = recv[r].letter
        BY <4>1, MovesEffect
      <4>4. Locked' BY <3>2, <4>1, <4>2, <4>3 DEF Locked, At, Stored, Positions
      <4> QED BY <2>4, <4>1, <4>4
    <3> QED BY <3>1, <3>2
  <2>9. CASE ReceiverDies(r)
    <3>1. Replies(r, FALSE) /\ ledger' = ledger
          /\ lock' = [m \in Machines |-> IF lock[m] = r THEN None ELSE lock[m]]
      BY <2>9 DEF ReceiverDies
    <3>2. \A s \in Receivers : s # r /\ recv[s].pc \in {"check", "append"} => lock'[At(s)] = s
      BY <2>3, <3>1 DEF Locked
    <3>3. Locked' BY <3>1, <3>2, LockedEnd
    <3> QED BY <2>4, <3>1, <3>3
  <2>10. CASE ReceiveAppends(r)
    <3>1. lock' = [lock EXCEPT ![At(r)] = None] /\ recv[r].pc = "append"
      BY <2>10 DEF ReceiveAppends
    <3>2. \A s \in Receivers : s # r /\ recv[s].pc \in {"check", "append"} =>
            lock'[At(s)] = s /\ At(s) # At(r)
      BY <2>3, <3>1 DEF Locked, TypeOK, FarType
    <3>3. CASE ledger' = ledger /\ Replies(r, FALSE)
      <4>1. Locked' BY <3>2, <3>3, LockedEnd
      <4> QED BY <2>4, <3>3, <4>1
    <3>4. CASE ledger' = [ledger EXCEPT ![At(r)] = Append(@, recv[r].letter)] /\ Replies(r, TRUE)
      <4> DEFINE after(l) == {i \in DOMAIN ledger'[Dest[l]] : ledger'[Dest[l]][i] = l}
      <4>1. \A l \in Letters : after(l) =
              IF l = recv[r].letter THEN Positions(l) \cup {Len(ledger[At(r)]) + 1} ELSE Positions(l)
        BY <2>2, <3>4, AppendPositions DEF Positions
      <4>2. Positions(recv[r].letter) = {} BY <3>1 DEF Locked, Stored
      <4>3. KeptOnce'
        <5>1. \A l \in Letters : \A i, j \in after(l) : i = j
          BY <4>1, <4>2 DEF KeptOnce
        <5> QED BY <5>1 DEF KeptOnce, Positions
      <4>4. \A l \in Letters : Stored(l) => after(l) # {}
        BY <4>1 DEF Stored
      <4>5. after(recv[r].letter) # {}
        BY <2>2, <4>1
      <4>6. \A s \in Receivers : s # r => recv'[s] = recv[s]
        BY <3>4, RepliesEffect
      <4>7. \/ recv'[r].pc = "free"
            \/ recv'[r].pc = "reply" /\ recv'[r].letter = recv[r].letter
        BY <3>4, RepliesEffect
      <4>8. \A s \in Receivers : recv[s].pc \in {"append", "reply"} => recv[s].letter \in Letters
        BY NoneIsNone DEF TypeOK, FarType, Receiver
      <4>9. \A s \in Receivers : s # r /\ recv[s].pc = "append" => after(recv[s].letter) = {}
        <5>1. \A s \in Receivers : s # r /\ recv[s].pc = "append" =>
                recv[s].letter # recv[r].letter /\ Positions(recv[s].letter) = {}
          BY <3>2 DEF Locked, Stored, At
        <5> QED BY <4>1, <4>8, <5>1
      <4> HIDE DEF after
      <4>10. \A s \in Receivers : recv'[s].pc \in {"check", "append"} => lock'[At(s)'] = s
        BY <3>2, <4>6, <4>7 DEF At
      <4>11. \A s \in Receivers : recv'[s].pc = "append" => after(recv'[s].letter) = {}
        BY <4>6, <4>7, <4>9
      <4>12. \A s \in Receivers : recv'[s].pc = "reply" /\ recv'[s].ok => after(recv'[s].letter) # {}
        BY <4>4, <4>5, <4>6, <4>7, <4>8 DEF Locked
      <4>13. Locked' BY <4>10, <4>11, <4>12 DEF Locked, Stored, Positions, after
      <4>14. \A l \in Letters : Stored(l) => Stored(l)'
        BY <4>4 DEF Stored, Positions, after
      <4> QED BY <4>3, <4>13, <4>14
    <3> QED BY <2>10, <3>3, <3>4 DEF ReceiveAppends
  <2> QED BY <1>2, <2>5, <2>6, <2>7, <2>8, <2>9, <2>10 DEF cmdReceiveChat
<1> QED BY <1>1, <1>2

-----------------------------------------------------------------------------
(* The sender's files, and the relay.                                      *)

\* The flush goes on to its next row: what it records of this one, as the relay shows it.
LEMMA FlushRelay ==
  ASSUME FleetInv, NEW i \in todo \ AfterFirst, NEW ok \in BOOLEAN, NEW permanent \in BOOLEAN,
         FlushRecords(outbox[i].letter, TRUE, ok, permanent), ok => Stored(outbox[i].letter),
         ledger' = ledger
  PROVE  /\ Files' /\ SettledIsTrue'
         /\ Relay!Next \/ UNCHANGED Relay!vars
<1> USE DEF FleetInv
<1>1. \A k \in Letters : Positions(k)' = Positions(k)
  BY DEF Positions
<1> DEFINE l == outbox[i].letter
<1>2. l \in Letters /\ i \in Rows /\ ~outbox[i].ok /\ l \notin acked
  BY RowTypes DEF TypeOK, PassType, Files
<1>3. /\ todo' = AfterFirst
      /\ acked' = IF ok \/ permanent THEN acked \cup {l} ELSE acked
      /\ abandoned' = IF ~ok /\ permanent THEN abandoned \cup {l} ELSE abandoned
      /\ UNCHANGED <<outbox, cli>> /\ (ok => Stored(l))
  BY DEF FlushRecords
<1>4. ~Accepted(l) /\ Recorded(l) BY <1>2 DEF Accepted, Recorded, Files
<1>5. Files'
  <2>1. \A j \in todo' : j \in todo /\ outbox[j].letter # l
    BY <1>3 DEF AfterFirst, Files, TypeOK, PassType
  <2>2. cli[l] = "done" BY <1>2 DEF Files
  <2> HIDE DEF l
  <2> QED BY <1>3, <2>1, <2>2 DEF Files, Rows
<1>6. \A k \in Letters : /\ Accepted(k)' <=> Accepted(k) \/ (k = l /\ (ok \/ permanent))
                         /\ Recorded(k)' <=> Recorded(k)
  BY <1>3 DEF Accepted, Recorded, Rows
<1> HIDE DEF l
<1>7. SettledIsTrue'
  BY <1>1, <1>3, <1>6 DEF SettledIsTrue, Stored
<1>8. [k \in Letters |-> Positions(k)]' = [k \in Letters |-> Positions(k)]
  BY <1>1
<1>9. CASE ok \/ permanent
  <2>1. \A k \in Letters : Verdict(k)' = IF k = l THEN "settled" ELSE Verdict(k)
    BY <1>6, <1>9 DEF Verdict
  <2>2. [k \in Letters |-> Verdict(k)]' = [[k \in Letters |-> Verdict(k)] EXCEPT ![l] = "settled"]
    BY <1>2, <2>1
  <2>3. Verdict(l) = "queued" BY <1>4 DEF Verdict
  <2>4. CASE ok
    <3>1. Relay!Settle(l)
      BY <1>2, <1>3, <1>8, <2>2, <2>3, <2>4 DEF Relay!Settle, Stored
    <3> QED BY <1>2, <1>5, <1>7, <3>1 DEF Relay!Next
  <2>5. CASE ~ok
    <3>1. Relay!Abandon(l)
      BY <1>2, <1>3, <1>8, <1>9, <2>2, <2>3, <2>5 DEF Relay!Abandon
    <3> QED BY <1>2, <1>5, <1>7, <3>1 DEF Relay!Next
  <2> QED BY <2>4, <2>5
<1>10. CASE ~ok /\ ~permanent
  <2>1. [k \in Letters |-> Verdict(k)]' = [k \in Letters |-> Verdict(k)]
    BY <1>6, <1>10 DEF Verdict
  <2> QED BY <1>3, <1>5, <1>7, <1>8, <1>10, <2>1 DEF Relay!vars
<1> QED BY <1>9, <1>10

\* The step of a hop's end: what it does to the files, and to what the relay shows.
LEMMA FinishRelay ==
  ASSUME FleetInv, NEW c \in Callers, calls[c].phase # "idle",
         NEW failed \in BOOLEAN, NEW ok \in BOOLEAN, NEW permanent \in BOOLEAN,
         Finish(c, failed, ok, permanent), ok => Stored(calls[c].letter), ledger' = ledger
  PROVE  /\ Files' /\ SettledIsTrue'
         /\ Relay!Next \/ UNCHANGED Relay!vars
<1> USE DEF FleetInv
<1>1. \A l \in Letters : Positions(l)' = Positions(l)
  BY DEF Positions
<1>2. CASE c = Daemon
  <2>1. PICK i \in todo \ AfterFirst : outbox[i].letter = calls[Daemon].letter
    BY <1>2 DEF TypeOK, CallType
  <2>2. FlushRecords(outbox[i].letter, TRUE, ok, permanent)
    BY <1>2, <2>1 DEF Finish, FlushRecords
  <2> QED BY <1>2, <2>1, <2>2, FlushRelay
<1>3. CASE c # Daemon
  <2>1. c \in Letters /\ calls[c].letter = c /\ cli[c] = "hop"
    BY <1>3, NoneIsNone DEF Callers, TypeOK, CallType
  <2>2. /\ outbox' = Append(outbox, [letter |-> c, ok |-> ok])
        /\ cli' = [cli EXCEPT ![c] = "done"]
        /\ UNCHANGED <<acked, todo, abandoned>> /\ (ok => Stored(c))
    BY <1>3, <2>1 DEF Finish, CliRecords, passVars
  <2>3. /\ Len(outbox) \in Nat /\ Rows = 1..Len(outbox) /\ Rows' = 1..(Len(outbox) + 1)
        /\ outbox'[Len(outbox) + 1] = [letter |-> c, ok |-> ok]
        /\ \A i \in Rows : outbox'[i] = outbox[i]
    BY <2>2 DEF TypeOK, SenderType, Rows
  <2>4. \A i : i \in Rows' <=> i \in Rows \/ i = Len(outbox) + 1
    BY <2>3
  <2>5. outbox'[Len(outbox) + 1].letter = c /\ outbox'[Len(outbox) + 1].ok = ok
    BY <2>3
  <2>6. \A k \in Letters : cli'[k] = IF k = c THEN "done" ELSE cli[k]
    BY <2>2 DEF TypeOK, SenderType
  <2>7. \A i \in Rows : outbox[i].letter \in Letters /\ outbox[i].letter # c
    BY <2>1, RowTypes DEF Files, TypeOK
  <2>8. c \notin acked BY <2>1 DEF Files
  <2>9. Files'
    <3>1. \A i \in Rows' : cli'[outbox'[i].letter] = "done"
      BY <2>1, <2>3, <2>4, <2>5, <2>6, <2>7 DEF Files
    <3>2. \A i, j \in Rows' : outbox'[i].letter = outbox'[j].letter => i = j
      BY <2>3, <2>4, <2>5, <2>7 DEF Files
    <3>3. \A k \in acked' : cli'[k] = "done"
      BY <2>2, <2>6 DEF Files, TypeOK, SenderType
    <3>4. \A i \in todo' : ~outbox'[i].ok /\ outbox'[i].letter \notin acked'
      BY <2>2, <2>3 DEF Files, TypeOK, PassType
    <3> QED BY <3>1, <3>2, <3>3, <3>4 DEF Files
  <2>10. \A k \in Letters : /\ Accepted(k)' <=> Accepted(k) \/ (k = c /\ ok)
                            /\ Recorded(k)' <=> Recorded(k) \/ k = c
    BY <2>2, <2>3, <2>4, <2>5 DEF Accepted, Recorded
  <2>11. ~Accepted(c) /\ ~Recorded(c)
    BY <2>7, <2>8 DEF Accepted, Recorded
  <2>12. SettledIsTrue'
    BY <1>1, <2>2, <2>10 DEF SettledIsTrue, Stored
  <2>13. [k \in Letters |-> Positions(k)]' = [k \in Letters |-> Positions(k)]
    BY <1>1
  <2>14. \A k \in Letters : Verdict(k)' = IF k # c THEN Verdict(k) ELSE IF ok THEN "settled" ELSE "queued"
    BY <2>10, <2>11 DEF Verdict
  <2>15. Verdict(c) = "unsent" BY <2>11 DEF Verdict
  <2>16. CASE ok
    <3>1. [k \in Letters |-> Verdict(k)]' = [[k \in Letters |-> Verdict(k)] EXCEPT ![c] = "settled"]
      BY <2>1, <2>14, <2>16
    <3>2. Relay!Settle(c)
      BY <2>1, <2>2, <2>13, <2>15, <2>16, <3>1 DEF Relay!Settle, Stored
    <3> QED BY <2>1, <2>9, <2>12, <3>2 DEF Relay!Next
  <2>17. CASE ~ok
    <3>1. [k \in Letters |-> Verdict(k)]' = [[k \in Letters |-> Verdict(k)] EXCEPT ![c] = "queued"]
      BY <2>1, <2>14, <2>17
    <3>2. Relay!Queue(c)
      BY <2>1, <2>2, <2>13, <2>15, <3>1 DEF Relay!Queue
    <3> QED BY <2>1, <2>9, <2>12, <3>2 DEF Relay!Next
  <2> QED BY <2>16, <2>17
<1> QED BY <1>2, <1>3

\* A step that leaves the outbox, its acks and the commands alone shows nothing but an append.
LEMMA FilesFrame ==
  ASSUME FleetInv, UNCHANGED <<outbox, acked, abandoned>>, todo' \subseteq todo,
         \A l \in Letters : cli[l] = "done" => cli'[l] = "done",
         \A l \in Letters : Stored(l) => Stored(l)'
  PROVE  /\ Files' /\ SettledIsTrue'
         /\ [k \in Letters |-> Verdict(k)]' = [k \in Letters |-> Verdict(k)]
<1> USE DEF FleetInv
<1>1. Rows' = Rows BY DEF Rows
<1>2. \A k \in Letters : (Accepted(k)' <=> Accepted(k)) /\ (Recorded(k)' <=> Recorded(k))
  BY <1>1 DEF Accepted, Recorded
<1>3. Files'
  <2>1. \A i \in Rows : outbox[i].letter \in Letters BY RowTypes DEF TypeOK
  <2>2. acked \subseteq Letters BY DEF TypeOK, SenderType
  <2> QED BY <1>1, <2>1, <2>2 DEF Files
<1>4. SettledIsTrue' BY <1>2 DEF SettledIsTrue
<1>5. [k \in Letters |-> Verdict(k)]' = [k \in Letters |-> Verdict(k)]
  BY <1>2 DEF Verdict
<1> QED BY <1>3, <1>4, <1>5

\* A step of a receiver: nothing, or the letter is kept.
LEMMA ReceiverRelay ==
  ASSUME FleetInv, NEW r \in Receivers, cmdReceiveChat(r), \A l \in Letters : Stored(l) => Stored(l)'
  PROVE  /\ Files' /\ SettledIsTrue'
         /\ Relay!Next \/ UNCHANGED Relay!vars
<1> USE DEF FleetInv
<1>1. UNCHANGED receiverFrame
  BY DEF cmdReceiveChat, ReceiveValidates, ReceiveLocks, ReceiveTimesOut, ReceiveLooksUp,
     ReceiveAppends, ReceiverDies
<1>2. /\ Files' /\ SettledIsTrue' /\ abandoned' = abandoned
      /\ [k \in Letters |-> Verdict(k)]' = [k \in Letters |-> Verdict(k)]
  BY <1>1, FilesFrame DEF receiverFrame, senderVars, passVars
<1>3. CASE ledger' = ledger
  <2>1. [k \in Letters |-> Positions(k)]' = [k \in Letters |-> Positions(k)]
    BY <1>3 DEF Positions
  <2> QED BY <1>2, <2>1 DEF Relay!vars
<1>4. CASE ledger' # ledger
  <2>1. /\ recv[r].pc = "append"
        /\ ledger' = [ledger EXCEPT ![At(r)] = Append(@, recv[r].letter)]
    BY <1>4 DEF cmdReceiveChat, ReceiveValidates, ReceiveLocks, ReceiveTimesOut, ReceiveLooksUp,
       ReceiveAppends, ReceiverDies
  <2>2. recv[r].letter \in Letters BY <2>1 DEF TypeOK, FarType, Receiver
  <2>3. PICK l \in Letters : l = recv[r].letter BY <2>2
  <2>4. PICK n : n = Len(ledger[At(r)]) + 1 OBVIOUS
  <2>5. Positions(l) = {} BY <2>1, <2>3 DEF Locked, Stored
  <2>6. \A k \in Letters : Positions(k)' = IF k = l THEN {n} ELSE Positions(k)
    BY <2>1, <2>2, <2>3, <2>4, <2>5, AppendPositions
  <2>7. [k \in Letters |-> Positions(k)]' = [[k \in Letters |-> Positions(k)] EXCEPT ![l] = {n}]
    BY <2>6
  <2>8. Relay!Keep(l)
    BY <1>2, <2>5, <2>6, <2>7 DEF Relay!Keep
  <2> QED BY <1>2, <2>8 DEF Relay!Next
<1> QED BY <1>3, <1>4

\* Every step keeps the files right, and is a step of the relay or a stutter.
LEMMA RelayStep ==
  ASSUME FleetInv, [Next]_vars, \A l \in Letters : Stored(l) => Stored(l)'
  PROVE  /\ Files' /\ SettledIsTrue'
         /\ Relay!Next \/ UNCHANGED Relay!vars
<1> USE DEF FleetInv
<1> DEFINE Goal == /\ Files' /\ SettledIsTrue'
                   /\ Relay!Next \/ UNCHANGED Relay!vars
<1>1. ASSUME NEW r \in Receivers, cmdReceiveChat(r) PROVE Goal
  BY <1>1, ReceiverRelay
<1> SUFFICES ASSUME \A r \in Receivers : ~cmdReceiveChat(r) PROVE Goal
  BY <1>1
<1>2. ledger' = ledger BY OtherSteps
<1>3. ASSUME UNCHANGED <<outbox, acked, abandoned>>, todo' \subseteq todo,
             \A l \in Letters : cli[l] = "done" => cli'[l] = "done"
      PROVE  Goal
  <2>1. [k \in Letters |-> Positions(k)]' = [k \in Letters |-> Positions(k)]
    BY <1>2 DEF Positions
  <2> QED BY <1>3, <2>1, FilesFrame DEF Relay!vars
<1>4. ASSUME NEW c \in Callers, Hop(c) PROVE Goal
  <2>1. ASSUME NEW failed \in BOOLEAN, NEW ok \in BOOLEAN, NEW permanent \in BOOLEAN,
               Finish(c, failed, ok, permanent), calls[c].phase # "idle",
               ok => Stored(calls[c].letter)
        PROVE  Goal
    BY <1>2, <2>1, FinishRelay
  <2>2. CASE Dispatch(c)
    BY <1>3, <2>2 DEF Dispatch, senderVars, passVars
  <2>3. CASE Cut(c)
    BY <2>1, <2>3 DEF Cut
  <2>4. CASE Answer(c)
    <3>1. PICK r \in Receivers : /\ recv[r].caller = c /\ recv[r].pc = "reply"
                                 /\ Finish(c, FALSE, recv[r].ok, FALSE)
      BY <2>4 DEF Answer
    <3>2. calls[c].phase = "open" /\ calls[c].letter = recv[r].letter
      BY <3>1, NoneIsNone DEF Hops
    <3>3. recv[r].ok \in BOOLEAN BY DEF TypeOK, FarType, Receiver
    <3>4. recv[r].ok => Stored(calls[c].letter) BY <3>1, <3>2 DEF Locked
    <3> QED BY <2>1, <3>1, <3>2, <3>3, <3>4
  <2>5. ASSUME NEW permanent \in BOOLEAN, NotSent(c, permanent) PROVE Goal
    <3>1. CASE calls[c].alias
      BY <1>3, <2>5, <3>1 DEF NotSent, senderVars, passVars
    <3>2. CASE ~calls[c].alias
      BY <2>1, <2>5, <3>2 DEF NotSent
    <3> QED BY <3>1, <3>2
  <2>6. ASSUME NEW permanent \in BOOLEAN, Refused(c, permanent) PROVE Goal
    BY <2>1, <2>6 DEF Refused
  <2> QED BY <1>4, <2>2, <2>3, <2>4, <2>5, <2>6 DEF Hop
<1>5. ASSUME NEW l \in Letters, Send(l) \/ CliDies(l) PROVE Goal
  <2>1. /\ UNCHANGED <<outbox, acked, abandoned, todo>>
        /\ cli[l] # "done" /\ \E s : cli' = [cli EXCEPT ![l] = s]
    BY <1>5 DEF Send, CliDies, passVars
  <2> QED BY <1>3, <2>1 DEF TypeOK, SenderType
<1>6. ASSUME flushOutbox PROVE Goal
  <2>1. CASE FlushBegin
    <3>1. /\ UNCHANGED <<outbox, acked, abandoned, cli, ledger>>
          /\ todo' = FirstOf(retryCandidates, MaxPerTick)
      BY <2>1 DEF FlushBegin, senderVars, farVars
    <3>2. \A i \in todo' : i \in Rows /\ ~outbox[i].ok /\ outbox[i].letter \notin acked
      BY <3>1 DEF FirstOf, retryCandidates
    <3>3. Rows' = Rows BY <3>1 DEF Rows
    <3>4. Files' BY <3>1, <3>2, <3>3 DEF Files
    <3>5. \A k \in Letters : (Accepted(k)' <=> Accepted(k)) /\ (Recorded(k)' <=> Recorded(k))
      BY <3>1, <3>3 DEF Accepted, Recorded
    <3>6. [k \in Letters |-> Verdict(k)]' = [k \in Letters |-> Verdict(k)]
      BY <3>5 DEF Verdict
    <3>7. SettledIsTrue' BY <3>1, <3>5 DEF SettledIsTrue
    <3>8. [k \in Letters |-> Positions(k)]' = [k \in Letters |-> Positions(k)]
      BY <3>1 DEF Positions
    <3> QED BY <3>1, <3>4, <3>6, <3>7, <3>8 DEF Relay!vars
  <2>2. CASE FlushVisit
    <3>1. PICK i \in todo \ AfterFirst :
            \/ /\ todo' = AfterFirst /\ UNCHANGED <<acked, abandoned>>
            \/ /\ todo' = AfterFirst
               /\ acked' = acked \cup {outbox[i].letter}
               /\ abandoned' = abandoned \cup {outbox[i].letter}
            \/ UNCHANGED <<todo, acked, abandoned>>
      BY <2>2 DEF FlushVisit
    <3>2. UNCHANGED <<outbox, cli, told, stale, flushing, conf>>
      BY <2>2 DEF FlushVisit
    <3>3. CASE todo' = AfterFirst /\ UNCHANGED <<acked, abandoned>>
      BY <1>3, <3>2, <3>3 DEF AfterFirst
    <3>4. CASE /\ todo' = AfterFirst
               /\ acked' = acked \cup {outbox[i].letter}
               /\ abandoned' = abandoned \cup {outbox[i].letter}
      <4>1. FlushRecords(outbox[i].letter, TRUE, FALSE, TRUE)
        BY <3>2, <3>4 DEF FlushRecords
      <4> QED BY <1>2, <4>1, FlushRelay
    <3>5. CASE UNCHANGED <<todo, acked, abandoned>>
      BY <1>3, <3>2, <3>5
    <3> QED BY <3>1, <3>3, <3>4, <3>5
  <2>3. CASE FlushEnd
    BY <1>3, <2>3 DEF FlushEnd, senderVars
  <2> QED BY <1>6, <2>1, <2>2, <2>3 DEF flushOutbox
<1>7. ASSUME DaemonDies \/ World \/ UNCHANGED vars PROVE Goal
  <2>1. UNCHANGED <<outbox, acked, abandoned, cli>> /\ todo' \subseteq todo
    BY <1>7 DEF DaemonDies, World, Age, GoesDown, ComesUp, Closes, Opens, Reconfigures,
       vars, senderVars, passVars
  <2> QED BY <1>3, <2>1
<1> QED BY <1>4, <1>5, <1>6, <1>7 DEF Next

-----------------------------------------------------------------------------
(* The theorems.                                                           *)

\* FleetInv is an invariant: what the files, locks, hops and ledgers say of one another.
THEOREM FleetInvariant == Spec => []FleetInv
<1>1. Init => FleetInv
  <2> SUFFICES ASSUME Init PROVE FleetInv OBVIOUS
  <2>1. TypeOK /\ Hops BY InitTypes DEF Init, Hops, NoCall, NoReceiver
  <2>2. /\ Rows = {} /\ acked = {} /\ todo = {}
        /\ \A r \in Receivers : recv[r].pc = "free"
        /\ \A m \in Machines : ledger[m] = <<>>
    BY DEF Init, Rows, NoReceiver
  <2>3. \A l \in Letters : Positions(l) = {} BY <2>2, LettersAssumption DEF Positions
  <2>4. Locked BY <2>2 DEF Locked
  <2>5. Files /\ KeptOnce BY <2>2, <2>3 DEF Files, KeptOnce
  <2>6. SettledIsTrue BY <2>2 DEF SettledIsTrue, Accepted
  <2> QED BY <2>1, <2>4, <2>5, <2>6 DEF FleetInv
<1>2. FleetInv /\ [Next]_vars => FleetInv'
  <2> SUFFICES ASSUME FleetInv, [Next]_vars PROVE FleetInv' OBVIOUS
  <2>1. TypeOK' BY TypeStep DEF FleetInv
  <2>2. Hops' BY HopsStep DEF FleetInv
  <2>3. Locked' /\ KeptOnce' /\ \A l \in Letters : Stored(l) => Stored(l)'
    BY KeptStep DEF FleetInv
  <2>4. Files' /\ SettledIsTrue' BY <2>3, RelayStep
  <2> QED BY <2>1, <2>2, <2>3, <2>4 DEF FleetInv
<1> QED BY <1>1, <1>2, PTL DEF Spec

\* No recipient's ledger holds a letter twice, however many receivers of it overlap
\* (appendMessageOnce).
THEOREM KeptOnceAlways == Spec => []KeptOnce
<1>1. FleetInv => KeptOnce BY DEF FleetInv
<1> QED BY <1>1, FleetInvariant, PTL

\* A letter the sender's files call accepted is in the recipient's ledger, or was given up
\* by a flush (appendOutbound, flushOutbox).
THEOREM SettledAlways == Spec => []SettledIsTrue
<1>1. FleetInv => SettledIsTrue BY DEF FleetInv
<1> QED BY <1>1, FleetInvariant, PTL

\* The commands, hops, receivers and retries implement the relay: a letter is kept at one
\* position for good, and settled only once it is kept or abandoned.
THEOREM ImplementsRelay == Spec => IsRelay
<1>1. Init => Relay!Init
  <2> SUFFICES ASSUME Init PROVE Relay!Init OBVIOUS
  <2>1. Rows = {} /\ acked = {} /\ \A m \in Machines : ledger[m] = <<>>
    BY DEF Init, Rows
  <2>2. \A l \in Letters : Positions(l) = {} BY <2>1, LettersAssumption DEF Positions
  <2>3. \A l \in Letters : Verdict(l) = "unsent" BY <2>1 DEF Verdict, Accepted, Recorded
  <2> QED BY <2>2, <2>3 DEF Init, Relay!Init
<1>2. FleetInv /\ [Next]_vars => [Relay!Next]_Relay!vars
  BY KeptStep, RelayStep DEF FleetInv
<1> QED BY <1>1, <1>2, FleetInvariant, PTL DEF Spec, IsRelay, Relay!Spec
=============================================================================
