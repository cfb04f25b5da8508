----------------------------- MODULE FleetMail ------------------------------
(***************************************************************************)
(* Mail between the machines of a fleet, seen from one sending machine.    *)
(*                                                                         *)
(* `ccmux msg machine:session` (commands/msg.ts) runs one hop to the other *)
(* machine and then writes the letter to the outbox with the outcome.  The *)
(* daemon's flush (fleet/flush.ts) sends again what the outbox holds as    *)
(* failed, for an hour.  A hop travels through an injected adapter or ssh  *)
(* (fleet/transport.ts) and starts `_chat-receive-v2` on the other machine *)
(* (commands/receiveChat.ts), which admits the letter to its ledger once   *)
(* (chat/ledger.ts).  A hop may time out while the receiver it started     *)
(* runs on, so receivers of one letter overlap.                            *)
(*                                                                         *)
(* One action is what the code does between two points where another       *)
(* process can be seen.                                                    *)
(***************************************************************************)
EXTENDS Naturals, Sequences, FiniteSets

CONSTANTS
  Letters,     \* letters senders write, each by a command of its own
  AppLetters,  \* those addressed to a Codex App thread
  Machines,    \* the other machines
  Dest,        \* the machine of each letter
  Daemon,      \* the sending machine's daemon, as a caller of hops
  None,
  Receivers,   \* bound: receiver processes alive at once
  MaxPerTick,  \* MAX_PER_TICK of fleet/flush.ts
  Routes,      \* the route maps the operator may configure
  MaxFaults,   \* bound: hops cut, receivers killed, machines gone
  MaxDeaths,   \* bound: deaths of a sending command or of the daemon
  MaxChanges   \* bound: changes of the route maps or of recipients

Callers == Letters \cup {Daemon}
Way == {"adapter", "ssh"}
Row == [letter: Letters, ok: BOOLEAN]
Call == [phase: {"idle", "adapter", "ssh", "open"}, letter: Letters \cup {None},
         alias: BOOLEAN, runs: Nat]
Receiver == [pc: {"free", "start", "lock", "check", "append", "reply"},
             letter: Letters \cup {None}, caller: Callers \cup {None}, ok: BOOLEAN]

ASSUME LettersAssumption ==
  /\ AppLetters \subseteq Letters /\ Dest \in [Letters -> Machines]
  /\ Daemon \notin Letters /\ None \notin Callers \cup Receivers
ASSUME RoutesAssumption == Routes \subseteq [Machines -> SUBSET Way]
ASSUME BoundsAssumption ==
  MaxPerTick \in Nat /\ MaxFaults \in Nat /\ MaxDeaths \in Nat /\ MaxChanges \in Nat

VARIABLES
  \* the sending machine
  outbox,     \* outbox.jsonl: one row per attempt of `ccmux msg`
  acked,      \* outbox-ack.jsonl: letters whose retries are over
  cli,        \* per letter: its `ccmux msg` command
  told,       \* per letter: what that command told its caller
  stale,      \* letters older than the retry window
  flushing,   \* a flush is on
  todo,       \* rows it still has to visit
  conf,       \* the route maps it has read
  calls,      \* per caller: the hop it waits for
  \* the other machines
  recv,       \* receiver processes
  lock,       \* per machine: the holder of the receive lock
  ledger,     \* per machine: letters of this sender in its chat ledger
  open,       \* letters whose recipient exists and takes chat
  \* between them
  up,         \* machines that can be reached
  routes,     \* the route maps configured now
  \* history and bounds
  abandoned,  \* letters a flush settled without an accepted hop
  faults, deaths, changes

senderVars == <<outbox, acked, cli, told, stale>>
passVars == <<flushing, todo, conf>>
farVars == <<recv, lock, ledger>>
worldVars == <<open, up, routes>>
boundVars == <<faults, deaths, changes>>
vars == <<senderVars, passVars, calls, farVars, worldVars, abandoned, boundVars>>

-----------------------------------------------------------------------------
(* What the files say.                                                     *)

Rows == DOMAIN outbox
Recorded(l) == \E i \in Rows : outbox[i].letter = l
Positions(l) == {i \in DOMAIN ledger[Dest[l]] : ledger[Dest[l]][i] = l}
Stored(l) == Positions(l) # {}
\* `msg sent` calls a letter accepted by its row or by its ack.
Accepted(l) == l \in acked \/ \E i \in Rows : outbox[i].letter = l /\ outbox[i].ok

Verdict(l) == IF Accepted(l) THEN "settled" ELSE IF Recorded(l) THEN "queued" ELSE "unsent"

\* The first failed row of each letter that is neither acked nor too old.
retryCandidates == {i \in Rows :
  /\ ~outbox[i].ok
  /\ outbox[i].letter \notin acked \cup stale
  /\ \A j \in Rows : j < i /\ outbox[j].letter = outbox[i].letter => outbox[j].ok}
\* Mutant: one place of the tick is lost.
FirstOfShort(S, n) == {i \in S : Cardinality({j \in S : j <= i}) < n}
FirstOf(S, n) == {i \in S : Cardinality({j \in S : j <= i}) <= n}
\* The rows left to visit after the first of them.
AfterFirst == {i \in todo : \E j \in todo : j < i}

-----------------------------------------------------------------------------
(* A hop: runPeer, runRemote and the adapter.                              *)

NoCall == [phase |-> "idle", letter |-> None, alias |-> FALSE, runs |-> 0]
\* runPeer on a machine reached by these ways; the adapter wins where both are.
runPeer(l, ways) ==
  [phase |-> IF "adapter" \in ways THEN "adapter" ELSE "ssh", letter |-> l,
   alias |-> "ssh" \in ways, runs |-> 0]

NoReceiver == [pc |-> "free", letter |-> None, caller |-> None, ok |-> FALSE]
\* Nobody waits for the receivers of this caller any more.
Detached(c) == [r \in Receivers |-> IF recv[r].caller # c THEN recv[r]
                ELSE IF recv[r].pc = "reply" THEN NoReceiver ELSE [recv[r] EXCEPT !.caller = None]]

\* What the waiting command does with the outcome of its hop: appendOutbound, then the report.
CliRecords(l, failed, ok, permanent) ==
  /\ outbox' = Append(outbox, [letter |-> l, ok |-> ok])
  /\ cli' = [cli EXCEPT ![l] = "done"]
  /\ told' = [told EXCEPT ![l] = CASE failed /\ ~permanent -> "queued"
                                   [] ok -> "accepted"
                                   [] OTHER -> "refused"]
  /\ UNCHANGED <<acked, stale, passVars, abandoned>>

\* Mutant: any answer of the far side settles the letter, its exit code is not read.
FlushRecordsAny(l, failed, ok, permanent) ==
  /\ todo' = AfterFirst
  /\ acked' = IF ~failed \/ permanent THEN acked \cup {l} ELSE acked
  /\ abandoned' = IF failed /\ permanent THEN abandoned \cup {l} ELSE abandoned
  /\ UNCHANGED <<outbox, cli, told, stale, flushing, conf>>

\* What flushOutbox does with it: settle an accepted or a permanently refused letter.
FlushRecords(l, failed, ok, permanent) ==
  /\ todo' = AfterFirst
  /\ acked' = IF ok \/ permanent THEN acked \cup {l} ELSE acked
  /\ abandoned' = IF ~ok /\ permanent THEN abandoned \cup {l} ELSE abandoned
  /\ UNCHANGED <<outbox, cli, told, stale, flushing, conf>>

\* Mutant: the caller is not released.
FinishKeepsCall(c, failed, ok, permanent) ==
  /\ UNCHANGED calls
  /\ IF c = Daemon THEN FlushRecords(calls[c].letter, failed, ok, permanent)
                   ELSE CliRecords(c, failed, ok, permanent)

Finish(c, failed, ok, permanent) ==
  /\ calls' = [calls EXCEPT ![c] = NoCall]
  /\ IF c = Daemon THEN FlushRecords(calls[c].letter, failed, ok, permanent)
                   ELSE CliRecords(c, failed, ok, permanent)

\* The request leaves, and a receiver starts on the other machine.
Dispatch(c) == \E r \in Receivers :
  /\ calls[c].phase \in Way /\ Dest[calls[c].letter] \in up /\ recv[r].pc = "free"
  /\ recv' = [recv EXCEPT ![r] =
       [pc |-> "start", letter |-> calls[c].letter, caller |-> c, ok |-> FALSE]]
  /\ calls' = [calls EXCEPT ![c] =
       [phase |-> "open", letter |-> @.letter, alias |-> @.alias, runs |-> @.runs + 1]]
  /\ UNCHANGED <<senderVars, passVars, lock, ledger, worldVars, abandoned, boundVars>>

\* The adapter did not dispatch the call: ssh, where there is an alias.
NotSent(c, permanent) ==
  /\ calls[c].phase = "adapter" /\ faults < MaxFaults
  /\ faults' = faults + 1
  /\ IF calls[c].alias
     THEN /\ calls' = [calls EXCEPT ![c].phase = "ssh"]
          /\ UNCHANGED <<senderVars, passVars, abandoned>>
     ELSE Finish(c, TRUE, FALSE, permanent)
  /\ UNCHANGED <<farVars, worldVars, deaths, changes>>

\* The other side, or the policy before it, answers with a refusal and runs nothing.
Refused(c, permanent) ==
  /\ calls[c].phase = "adapter" /\ faults < MaxFaults
  /\ faults' = faults + 1
  /\ Finish(c, TRUE, FALSE, permanent)
  /\ UNCHANGED <<farVars, worldVars, deaths, changes>>

\* Mutant: a broken hop is tried again over ssh, whatever it may have started.
CutTriesSsh(c) ==
  /\ calls[c].phase # "idle" /\ faults < MaxFaults
  /\ faults' = faults + 1
  /\ IF calls[c].alias
     THEN /\ calls' = [calls EXCEPT ![c].phase = "ssh"]
          /\ UNCHANGED <<recv, senderVars, passVars, abandoned>>
     ELSE recv' = Detached(c) /\ Finish(c, TRUE, FALSE, FALSE)
  /\ UNCHANGED <<lock, ledger, worldVars, deaths, changes>>

\* The hop times out or breaks; whatever it started runs on, and nothing else is tried.
Cut(c) ==
  /\ calls[c].phase # "idle"
  /\ \/ Dest[calls[c].letter] \notin up /\ UNCHANGED faults
     \/ faults < MaxFaults /\ faults' = faults + 1
  /\ recv' = Detached(c)
  /\ Finish(c, TRUE, FALSE, FALSE)
  /\ UNCHANGED <<lock, ledger, worldVars, deaths, changes>>

\* The receiver's exit code arrives.
Answer(c) == \E r \in Receivers :
  /\ recv[r].caller = c /\ recv[r].pc = "reply" /\ Dest[recv[r].letter] \in up
  /\ recv' = [recv EXCEPT ![r] = NoReceiver]
  /\ Finish(c, FALSE, recv[r].ok, FALSE)
  /\ UNCHANGED <<lock, ledger, worldVars, boundVars>>

-----------------------------------------------------------------------------
(* `ccmux msg` to another machine.                                         *)

\* The recipient was resolved over the same route, so it was reachable and open.
Send(l) ==
  /\ cli[l] = "new" /\ routes[Dest[l]] # {} /\ Dest[l] \in up /\ l \in open
  /\ cli' = [cli EXCEPT ![l] = "hop"]
  /\ calls' = [calls EXCEPT ![l] = runPeer(l, routes[Dest[l]])]
  /\ UNCHANGED <<outbox, acked, told, stale, passVars, farVars, worldVars, abandoned, boundVars>>

\* The command is killed while it waits; ssh and the receiver may run on.
CliDies(l) ==
  /\ cli[l] = "hop" /\ deaths < MaxDeaths
  /\ cli' = [cli EXCEPT ![l] = "dead"]
  /\ calls' = [calls EXCEPT ![l] = NoCall]
  /\ recv' = Detached(l)
  /\ deaths' = deaths + 1
  /\ UNCHANGED <<outbox, acked, told, stale, passVars, lock, ledger, worldVars, abandoned, faults, changes>>

-----------------------------------------------------------------------------
(* The flush at the end of the daemon's delivery job.                      *)

\* It reads the outbox and its acks once and takes the first candidates.
FlushBegin ==
  /\ ~flushing /\ \E m \in Machines : routes[m] # {}
  /\ retryCandidates # {}
  /\ flushing' = TRUE
  /\ todo' = FirstOf(retryCandidates, MaxPerTick)
  /\ conf' = routes
  /\ UNCHANGED <<senderVars, calls, farVars, worldVars, abandoned, boundVars>>

\* One candidate: skipped, settled as unaddressable, or sent again.
FlushVisit == \E i \in todo \ AfterFirst :
  LET l == outbox[i].letter
  IN /\ calls[Daemon].phase = "idle"
     /\ \/ /\ l \in AppLetters
           /\ todo' = AfterFirst
           /\ UNCHANGED <<acked, abandoned, calls>>
        \/ /\ l \notin AppLetters /\ conf[Dest[l]] = {}
           /\ todo' = AfterFirst
           /\ acked' = acked \cup {l} /\ abandoned' = abandoned \cup {l}
           /\ UNCHANGED calls
        \/ /\ l \notin AppLetters /\ conf[Dest[l]] # {}
           /\ calls' = [calls EXCEPT ![Daemon] = runPeer(l, conf[Dest[l]])]
           /\ UNCHANGED <<todo, acked, abandoned>>
     /\ UNCHANGED <<outbox, cli, told, stale, flushing, conf, farVars, worldVars, boundVars>>

FlushEnd ==
  /\ flushing /\ todo = {} /\ flushing' = FALSE
  /\ UNCHANGED <<senderVars, todo, conf, calls, farVars, worldVars, abandoned, boundVars>>

\* The daemon is killed and started again; the pass is forgotten.
DaemonDies ==
  /\ flushing /\ deaths < MaxDeaths
  /\ flushing' = FALSE /\ todo' = {}
  /\ calls' = [calls EXCEPT ![Daemon] = NoCall]
  /\ recv' = Detached(Daemon)
  /\ deaths' = deaths + 1
  /\ UNCHANGED <<senderVars, conf, lock, ledger, worldVars, abandoned, faults, changes>>

-----------------------------------------------------------------------------
(* `_chat-receive-v2` on the other machine.                                *)

At(r) == Dest[recv[r].letter]
\* The process ends with this verdict; a caller still there will hear it.
Replies(r, ok) == recv' = [recv EXCEPT ![r] =
  IF recv[r].caller = None THEN NoReceiver ELSE [recv[r] EXCEPT !.pc = "reply", !.ok = ok]]
Moves(r, pc) == recv' = [recv EXCEPT ![r].pc = pc]
receiverFrame == <<senderVars, passVars, calls, worldVars, abandoned>>

\* Its recipient must still be there and take chat.
ReceiveValidates(r) ==
  /\ recv[r].pc = "start"
  /\ IF recv[r].letter \in open THEN Moves(r, "lock") ELSE Replies(r, FALSE)
  /\ UNCHANGED <<receiverFrame, lock, ledger, boundVars>>

\* Mutant: the lock of another receiver is broken.
ReceiveLocksOver(r) ==
  /\ recv[r].pc = "lock"
  /\ lock' = [lock EXCEPT ![At(r)] = r]
  /\ Moves(r, "check")
  /\ UNCHANGED <<receiverFrame, ledger, boundVars>>

\* appendMessageOnce takes the receive lock of the ledger, or waits in vain for it.
ReceiveLocks(r) ==
  /\ recv[r].pc = "lock" /\ lock[At(r)] = None
  /\ lock' = [lock EXCEPT ![At(r)] = r]
  /\ Moves(r, "check")
  /\ UNCHANGED <<receiverFrame, ledger, boundVars>>

ReceiveTimesOut(r) ==
  /\ recv[r].pc = "lock" /\ lock[At(r)] # None /\ faults < MaxFaults
  /\ faults' = faults + 1
  /\ Replies(r, FALSE)
  /\ UNCHANGED <<receiverFrame, lock, ledger, deaths, changes>>

\* Mutant: the id is not looked for.
ReceiveLooksUpBlind(r) ==
  /\ recv[r].pc = "check"
  /\ Moves(r, "append")
  /\ UNCHANGED <<receiverFrame, lock, ledger, boundVars>>

\* admitOnce: an id the ledger already holds is answered as accepted.
ReceiveLooksUp(r) ==
  /\ recv[r].pc = "check"
  /\ IF Stored(recv[r].letter)
     THEN Replies(r, TRUE) /\ lock' = [lock EXCEPT ![At(r)] = None]
     ELSE Moves(r, "append") /\ UNCHANGED lock
  /\ UNCHANGED <<receiverFrame, ledger, boundVars>>

\* appendMessage; it throws when the recipient's native selection cannot be read.
ReceiveAppends(r) ==
  /\ recv[r].pc = "append"
  /\ \/ /\ ledger' = [ledger EXCEPT ![At(r)] = Append(@, recv[r].letter)]
        /\ Replies(r, TRUE) /\ UNCHANGED faults
     \/ /\ faults < MaxFaults /\ faults' = faults + 1
        /\ Replies(r, FALSE) /\ UNCHANGED ledger
  /\ lock' = [lock EXCEPT ![At(r)] = None]
  /\ UNCHANGED <<receiverFrame, deaths, changes>>

\* The process is killed, wherever it is; a lock whose owner is gone is taken over.
ReceiverDies(r) ==
  /\ recv[r].pc # "free" /\ faults < MaxFaults
  /\ faults' = faults + 1
  /\ Replies(r, FALSE)
  /\ lock' = [m \in Machines |-> IF lock[m] = r THEN None ELSE lock[m]]
  /\ UNCHANGED <<receiverFrame, ledger, deaths, changes>>

-----------------------------------------------------------------------------
(* The world.                                                              *)

\* The retry window of a letter closes.
Age(l) ==
  /\ cli[l] # "new" /\ l \notin stale
  /\ stale' = stale \cup {l}
  /\ UNCHANGED <<outbox, acked, cli, told, passVars, calls, farVars, worldVars, abandoned, boundVars>>

GoesDown(m) ==
  /\ m \in up /\ faults < MaxFaults
  /\ up' = up \ {m} /\ faults' = faults + 1
  /\ UNCHANGED <<senderVars, passVars, calls, farVars, open, routes, abandoned, deaths, changes>>

ComesUp(m) ==
  /\ m \notin up /\ up' = up \cup {m}
  /\ UNCHANGED <<senderVars, passVars, calls, farVars, open, routes, abandoned, boundVars>>

\* The recipient is removed or stops taking chat; it may come back.
Closes(l) ==
  /\ l \in open /\ changes < MaxChanges
  /\ open' = open \ {l} /\ changes' = changes + 1
  /\ UNCHANGED <<senderVars, passVars, calls, farVars, up, routes, abandoned, faults, deaths>>

Opens(l) ==
  /\ l \notin open /\ open' = open \cup {l}
  /\ UNCHANGED <<senderVars, passVars, calls, farVars, up, routes, abandoned, boundVars>>

\* machine.json is edited.
Reconfigures(map) ==
  /\ map # routes /\ changes < MaxChanges
  /\ routes' = map /\ changes' = changes + 1
  /\ UNCHANGED <<senderVars, passVars, calls, farVars, open, up, abandoned, faults, deaths>>

-----------------------------------------------------------------------------
Init ==
  /\ outbox = <<>> /\ acked = {} /\ stale = {}
  /\ cli = [l \in Letters |-> "new"] /\ told = [l \in Letters |-> "nothing"]
  /\ flushing = FALSE /\ todo = {}
  /\ calls = [c \in Callers |-> NoCall]
  /\ recv = [r \in Receivers |-> NoReceiver]
  /\ lock = [m \in Machines |-> None] /\ ledger = [m \in Machines |-> <<>>]
  /\ open = Letters /\ up = Machines
  /\ routes \in Routes /\ conf = routes
  /\ abandoned = {} /\ faults = 0 /\ deaths = 0 /\ changes = 0

Hop(c) ==
  \/ Dispatch(c) \/ Cut(c) \/ Answer(c)
  \/ \E permanent \in BOOLEAN : NotSent(c, permanent) \/ Refused(c, permanent)

cmdReceiveChat(r) ==
  \/ ReceiveValidates(r) \/ ReceiveLocks(r) \/ ReceiveTimesOut(r)
  \/ ReceiveLooksUp(r) \/ ReceiveAppends(r) \/ ReceiverDies(r)

flushOutbox == FlushBegin \/ FlushVisit \/ FlushEnd

World ==
  \/ \E l \in Letters : Age(l) \/ Closes(l) \/ Opens(l)
  \/ \E m \in Machines : GoesDown(m) \/ ComesUp(m)
  \/ \E map \in Routes : Reconfigures(map)

Next ==
  \/ \E l \in Letters : Send(l) \/ CliDies(l)
  \/ \E c \in Callers : Hop(c)
  \/ flushOutbox \/ DaemonDies
  \/ \E r \in Receivers : cmdReceiveChat(r)
  \/ World

Spec == Init /\ [][Next]_vars

(***************************************************************************)
(* Fairness.  The delivery job runs every three seconds and a hop has a    *)
(* deadline; a receiver that is not killed goes on; machines come back and *)
(* recipients that were closed are opened again.                           *)
(***************************************************************************)
Fairness ==
  /\ WF_vars(flushOutbox)
  /\ \A c \in Callers : WF_vars(Hop(c))
  /\ \A r \in Receivers : WF_vars(cmdReceiveChat(r))
  /\ \A m \in Machines : WF_vars(ComesUp(m))
  /\ \A l \in Letters : WF_vars(Opens(l))
LiveSpec == Spec /\ Fairness

-----------------------------------------------------------------------------
(* Properties.                                                             *)

SenderType ==
  /\ outbox \in Seq(Row) /\ acked \subseteq Letters /\ stale \subseteq Letters
  /\ cli \in [Letters -> {"new", "hop", "done", "dead"}]
  /\ told \in [Letters -> {"nothing", "queued", "accepted", "refused"}]
  /\ abandoned \subseteq Letters
PassType ==
  /\ flushing \in BOOLEAN /\ todo \subseteq Rows /\ (todo # {} => flushing)
  /\ conf \in [Machines -> SUBSET Way]
\* A command waits exactly while its hop is on, the daemon while its hop is for the next row.
CallType ==
  /\ calls \in [Callers -> Call]
  /\ \A c \in Callers : calls[c].phase = "idle" <=> calls[c].letter = None
  /\ \A l \in Letters : IF cli[l] = "hop" THEN calls[l].letter = l ELSE calls[l].letter = None
  /\ calls[Daemon].phase # "idle" =>
       \E i \in todo \ AfterFirst : outbox[i].letter = calls[Daemon].letter
FarType ==
  /\ recv \in [Receivers -> Receiver]
  /\ \A r \in Receivers : recv[r].pc = "free" <=> recv[r].letter = None
  /\ lock \in [Machines -> Receivers \cup {None}]
  /\ ledger \in [Machines -> Seq(Letters)]
WorldType ==
  /\ open \subseteq Letters /\ up \subseteq Machines /\ routes \in [Machines -> SUBSET Way]
  /\ faults \in 0..MaxFaults /\ deaths \in 0..MaxDeaths /\ changes \in 0..MaxChanges
\* Every variable has its type, and callers, hops and receivers name the letter they are about.
TypeOK == SenderType /\ PassType /\ CallType /\ FarType /\ WorldType

\* A letter is in its recipient's ledger once at most, whatever is cut, killed or retried:
\* "a receiver ignores an id it already stored" (appendMessageOnce, README.md:746).
KeptOnce == \A l \in Letters : \A i, j \in Positions(l) : i = j

\* One hop runs its command once at most: ssh is tried only after a hop the adapter did not
\* dispatch, since "a second path would run it twice" (fleet/transport.ts:209-211).
RunsOnce == \A c \in Callers :
  /\ calls[c].runs <= 1
  /\ \A r, s \in Receivers : recv[r].caller = c /\ recv[s].caller = c => r = s

\* What the sender's files call accepted is in the recipient's ledger, or a flush gave it up
\* as unaddressable or refused for good (flushOutbox).
SettledIsTrue == \A l \in Letters : Accepted(l) => Stored(l) \/ l \in abandoned

\* The whole is a relay: kept once, for good, before it is settled (MailRelay).
Relay == INSTANCE MailRelay WITH
  kept <- [l \in Letters |-> Positions(l)],
  verdict <- [l \in Letters |-> Verdict(l)]
IsRelay == Relay!Spec

\* A letter whose sender was told it is queued arrives while its retry window is open
\* (queuedForRetryNotice, flushOutbox); managed recipients only.
QueuedArrives == \A l \in Letters \ AppLetters :
  told[l] = "queued" ~> Stored(l) \/ l \in stale \cup abandoned
=============================================================================
