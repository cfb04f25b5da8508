---------------------------- MODULE SessionCreate ----------------------------
(***************************************************************************)
(* Creating a managed session under one name: the control plane's receipt  *)
(* (control/lifecycle.ts), the reservation and its rollback                *)
(* (session/create.ts), the bootstrap process that proves an identity and  *)
(* promotes it (commands/bootstrap.ts, session/pending.ts), the registry   *)
(* in two files (session/promotion.ts) and the daemon's heal.              *)
(*                                                                         *)
(* A request owns one registration generation from its receipt on, so the  *)
(* generation is the request here.  Requests for other names do not meet.  *)
(***************************************************************************)
EXTENDS Naturals, FiniteSets

CONSTANTS
  Requests,      \* request ids, all for the same session name
  Interactive,   \* those for an interactive Claude session, without a bootstrap
  None,
  MaxFaults      \* bound: processes that die

\* No process of a request is the name of another, nor the session that runs.
ConstantsOK ==
  /\ Requests \cap {None, "run"} = {} /\ Interactive \subseteq Requests /\ MaxFaults \in Nat

VARIABLES
  receipt,   \* create-requests.json
  pend,      \* the pending journal: "none", "pending", "blocked", "promoted"
  ready,     \* the registry file
  lock,      \* the session-registry lock
  tmux,      \* the tmux session of the name: its generation, or "run"
  call,      \* per request: the call in progress (one: the request lock)
  told,      \* per request: its answer
  boot,      \* per request: its bootstrap process
  reader,    \* a reader of the registry between its two reads
  faults,    \* processes that died
  removed    \* the sessions a person removed

vars == <<receipt, pend, ready, lock, tmux, call, told, boot, reader, faults, removed>>

\* loadRegistrySessions: a promoted journal row is already a session.
Promoted == {r \in Requests : pend[r] = "promoted"}
Visible == ready \cup Promoted
\* loadPendingSessions
Pending == {r \in Requests : pend[r] \in {"pending", "blocked"}}
NameTaken == Visible # {} \/ Pending # {}

Go(r, s) == call' = [call EXCEPT ![r] = s]
Answer(r, a) == told' = [told EXCEPT ![r] = a]
Boot(r, s) == boot' = [boot EXCEPT ![r] = s]

Init ==
  /\ receipt = [r \in Requests |-> "none"] /\ pend = [r \in Requests |-> "none"]
  /\ ready = {} /\ lock = None /\ tmux = None
  /\ call = [r \in Requests |-> "idle"] /\ told = [r \in Requests |-> "none"]
  /\ boot = [r \in Requests |-> "none"]
  /\ reader = [at |-> "idle", seen |-> {}, must |-> {}] /\ faults = 0 /\ removed = {}

-----------------------------------------------------------------------------
(* The registry, every change under its lock *)

\* recoverPromotionsUnlocked, first thing under the lock: what a dead process
\* left promoted is completed.
RecoveredReady == ready \cup Promoted
RecoveredPend == [r \in Requests |-> IF pend[r] = "promoted" THEN "none" ELSE pend[r]]

\* What is removed is no longer owed to a reader that began before.
removeSession(r) ==
  /\ ready' = RecoveredReady \ {r} /\ pend' = RecoveredPend
  /\ reader' = [reader EXCEPT !.must = @ \ {r}]
removePendingSession(r) ==
  ready' = RecoveredReady /\ pend' = [RecoveredPend EXCEPT ![r] = "none"]

\* Mutant: the ready file is read first.
ReadReadyFirst ==
  \/ /\ reader.at = "idle"
     /\ reader' = [at |-> "half", seen |-> ready, must |-> Visible]
     /\ UNCHANGED <<receipt, pend, ready, lock, tmux, call, told, boot, faults, removed>>
  \/ /\ reader.at = "half"
     /\ reader' = [at |-> "done", seen |-> reader.seen \cup Promoted, must |-> reader.must]
     /\ UNCHANGED <<receipt, pend, ready, lock, tmux, call, told, boot, faults, removed>>
  \/ /\ reader.at = "done" /\ reader' = [at |-> "idle", seen |-> {}, must |-> {}]
     /\ UNCHANGED <<receipt, pend, ready, lock, tmux, call, told, boot, faults, removed>>

\* A reader takes no lock: the journal first, then the registry.  What was
\* there when it began is noted for the property.
loadRegistrySessions ==
  \/ /\ reader.at = "idle"
     /\ reader' = [at |-> "half", seen |-> Promoted, must |-> Visible]
     /\ UNCHANGED <<receipt, pend, ready, lock, tmux, call, told, boot, faults, removed>>
  \/ /\ reader.at = "half"
     /\ reader' = [at |-> "done", seen |-> reader.seen \cup ready, must |-> reader.must]
     /\ UNCHANGED <<receipt, pend, ready, lock, tmux, call, told, boot, faults, removed>>
  \/ /\ reader.at = "done" /\ reader' = [at |-> "idle", seen |-> {}, must |-> {}]
     /\ UNCHANGED <<receipt, pend, ready, lock, tmux, call, told, boot, faults, removed>>

-----------------------------------------------------------------------------
(* One call of createControlSession; the request lock keeps it alone *)

\* Mutant: a new receipt has no status yet.
ReceiveUnset(r) ==
  /\ call[r] = "idle" /\ told[r] = "none" /\ receipt' = [receipt EXCEPT ![r] = "new"]
  /\ Go(r, "absent") /\ UNCHANGED told
  /\ UNCHANGED <<pend, ready, lock, tmux, boot, reader, faults, removed>>

\* The receipt decides: a settled request does no work.
Receive(r) ==
  /\ call[r] = "idle" /\ told[r] = "none"
  /\ CASE receipt[r] = "failed" -> Answer(r, "failed") /\ UNCHANGED <<receipt, call, removed>>
       [] receipt[r] = "complete" /\ r \notin Visible ->
            Answer(r, "mismatch") /\ UNCHANGED <<receipt, call, removed>>
       [] OTHER -> /\ receipt' = [receipt EXCEPT ![r] = IF @ = "none" THEN "pending" ELSE @]
                   /\ Go(r, IF r \in Visible THEN "found" ELSE "absent") /\ UNCHANGED told
  /\ UNCHANGED <<pend, ready, lock, tmux, boot, reader, faults, removed>>

\* No session was seen; the journal is read after that.
LookPending(r) ==
  /\ call[r] = "absent"
  /\ Go(r, IF r \in Pending THEN "waiting" ELSE IF NameTaken THEN "caught" ELSE "creating")
  /\ UNCHANGED <<receipt, pend, ready, lock, tmux, told, boot, reader, faults, removed>>

\* Mutant: the name is not looked at again under the lock.
reservePendingSessionBlind(r) ==
  /\ call[r] = "creating" /\ lock = None /\ r \notin Interactive
  /\ ready' = RecoveredReady /\ pend' = [RecoveredPend EXCEPT ![r] = "pending"]
  /\ Go(r, "reserved")
  /\ UNCHANGED <<receipt, lock, tmux, told, boot, reader, faults, removed>>

reservePendingSession(r) ==
  /\ call[r] = "creating" /\ lock = None /\ r \notin Interactive
  /\ ready' = RecoveredReady
  /\ IF NameTaken THEN pend' = RecoveredPend /\ Go(r, "caught")
     ELSE pend' = [RecoveredPend EXCEPT ![r] = "pending"] /\ Go(r, "reserved")
  /\ UNCHANGED <<receipt, lock, tmux, told, boot, reader, faults, removed>>

\* An interactive session is registered before it is started.
createClaude(r) ==
  /\ call[r] = "creating" /\ lock = None /\ r \in Interactive
  /\ pend' = RecoveredPend
  /\ IF NameTaken THEN ready' = RecoveredReady /\ Go(r, "caught")
     ELSE ready' = RecoveredReady \cup {r} /\ Go(r, "appended")
  /\ UNCHANGED <<receipt, lock, tmux, told, boot, reader, faults, removed>>

\* tmux may refuse; the row is taken back.
StartClaude(r) ==
  /\ call[r] = "appended"
  /\ \/ tmux' = (IF tmux = None THEN "run" ELSE tmux) /\ Go(r, "found")
     \/ tmux' = tmux /\ Go(r, "unwinding")
  /\ UNCHANGED <<receipt, pend, ready, lock, told, boot, reader, faults, removed>>

startBootstrapSession(r) ==
  /\ call[r] = "reserved"
  /\ IF tmux # None THEN Go(r, "failing") /\ UNCHANGED <<tmux, boot, removed>>
     ELSE tmux' = r /\ Boot(r, "starting") /\ Go(r, "polling")
  /\ UNCHANGED <<receipt, pend, ready, lock, told, reader, faults, removed>>

\* Mutant: a bootstrap that ended is a bootstrap that succeeded.
PollTrusting(r) ==
  /\ call[r] = "polling"
  /\ \/ (r \in Visible \/ boot[r] = "none") /\ Go(r, "found")
     \/ r \notin Visible /\ Go(r, "failing")
  /\ UNCHANGED <<receipt, pend, ready, lock, tmux, told, boot, reader, faults, removed>>

\* The poll ends with the session, with a refusal, or with its deadline.
Poll(r) ==
  /\ call[r] = "polling"
  /\ \/ r \in Visible /\ Go(r, "found")
     \/ r \notin Visible /\ Go(r, "failing")
  /\ UNCHANGED <<receipt, pend, ready, lock, tmux, told, boot, reader, faults, removed>>

\* Mutant: the process is killed and the tmux session of the name is left.
KillProcess(r) ==
  /\ call[r] = "failing" /\ Go(r, "killed") /\ Boot(r, "none")
  /\ lock' = IF lock = r THEN None ELSE lock
  /\ UNCHANGED <<receipt, pend, ready, tmux, told, reader, faults, removed>>

\* rollbackPending: the tmux session of this generation, the reservation, the
\* row, in that order.
killSessionIfGeneration(r) ==
  /\ call[r] = "failing" /\ Go(r, "killed")
  /\ IF tmux = r THEN tmux' = None /\ Boot(r, "none") /\ lock' = IF lock = r THEN None ELSE lock
     ELSE UNCHANGED <<tmux, boot, lock>>
  /\ UNCHANGED <<receipt, pend, ready, told, reader, faults, removed>>

RollbackPending(r) ==
  /\ call[r] = "killed" /\ lock = None /\ removePendingSession(r) /\ Go(r, "unwinding")
  /\ UNCHANGED <<receipt, lock, tmux, told, boot, reader, faults, removed>>

RollbackReady(r) ==
  /\ call[r] = "unwinding" /\ lock = None /\ removeSession(r) /\ Go(r, "caught")
  /\ UNCHANGED <<receipt, lock, tmux, told, boot, faults, removed>>

\* Mutant: an error is a failure, whatever the registry says.
CaughtFails(r) ==
  /\ call[r] = "caught"
  /\ receipt' = [receipt EXCEPT ![r] = "failed"] /\ Go(r, "idle") /\ Answer(r, "failed")
  /\ UNCHANGED <<pend, ready, lock, tmux, boot, reader, faults, removed>>

\* The error counts only when the session is not there after all.
Caught(r) ==
  /\ call[r] = "caught"
  /\ IF r \in Visible THEN Go(r, "found") /\ UNCHANGED <<receipt, told, removed>>
     ELSE /\ receipt' = [receipt EXCEPT ![r] = "failed"]
          /\ Go(r, "idle") /\ Answer(r, "failed")
  /\ UNCHANGED <<pend, ready, lock, tmux, boot, reader, faults, removed>>

\* Another call's bootstrap is at work: CREATE_PENDING when the wait is over.
Waiting(r) ==
  /\ call[r] = "waiting"
  /\ Go(r, IF r \in Visible THEN "found" ELSE "idle")
  /\ UNCHANGED <<receipt, pend, ready, lock, tmux, told, boot, reader, faults, removed>>

Complete(r) ==
  /\ call[r] = "found"
  /\ receipt' = [receipt EXCEPT ![r] = "complete"] /\ Go(r, "idle") /\ Answer(r, "created")
  /\ UNCHANGED <<pend, ready, lock, tmux, boot, reader, faults, removed>>

\* The process of the call dies; the client repeats the request.
CallDies(r) ==
  /\ call[r] # "idle" /\ faults < MaxFaults /\ faults' = faults + 1 /\ Go(r, "idle")
  /\ UNCHANGED <<receipt, pend, ready, lock, tmux, told, boot, reader, removed>>

-----------------------------------------------------------------------------
(* The bootstrap process *)

cmdBootstrap(r) ==
  /\ boot[r] = "starting"
  /\ IF pend[r] = "pending" THEN Boot(r, "proving") /\ UNCHANGED tmux
     ELSE Boot(r, "none") /\ tmux' = None
  /\ UNCHANGED <<receipt, pend, ready, lock, call, told, reader, faults, removed>>

\* The provider does not prove an identity: the row is blocked, then removed.
BootBlocks(r) ==
  /\ boot[r] = "proving" /\ lock = None
  /\ ready' = RecoveredReady
  /\ pend' = [RecoveredPend EXCEPT ![r] = IF @ = "none" THEN @ ELSE "blocked"]
  /\ Boot(r, "blocked")
  /\ UNCHANGED <<receipt, lock, tmux, call, told, reader, faults, removed>>

BootUnregisters(r) ==
  /\ boot[r] = "blocked" /\ lock = None /\ removeSession(r) /\ Boot(r, "unregistered")
  /\ UNCHANGED <<receipt, lock, tmux, call, told, faults, removed>>

BootReleases(r) ==
  /\ boot[r] = "unregistered" /\ lock = None /\ removePendingSession(r)
  /\ Boot(r, "none") /\ tmux' = IF tmux = r THEN None ELSE tmux
  /\ UNCHANGED <<receipt, lock, call, told, reader, faults, removed>>

\* promotePendingSession: the journal first, and only for a row still pending.
PromoteJournal(r) ==
  /\ boot[r] = "proving" /\ lock = None
  /\ IF pend[r] = "pending" /\ Visible = {}
     THEN /\ pend' = [pend EXCEPT ![r] = "promoted"] /\ lock' = r /\ Boot(r, "promoted")
          /\ UNCHANGED ready
     ELSE /\ pend' = RecoveredPend /\ ready' = RecoveredReady /\ UNCHANGED lock
          /\ Boot(r, "blocked")
  /\ UNCHANGED <<receipt, tmux, call, told, reader, faults, removed>>

PromoteReady(r) ==
  /\ boot[r] = "promoted" /\ ready' = ready \cup {r} /\ Boot(r, "written")
  /\ UNCHANGED <<receipt, pend, lock, tmux, call, told, reader, faults, removed>>

PromoteCleanup(r) ==
  /\ boot[r] = "written" /\ pend' = [pend EXCEPT ![r] = "none"] /\ lock' = None
  /\ Boot(r, "supervising")
  /\ UNCHANGED <<receipt, ready, tmux, call, told, reader, faults, removed>>

\* Its registration is gone: the supervisor ends.
SuperviseGone(r) ==
  /\ boot[r] = "supervising" /\ r \notin Visible
  /\ Boot(r, "none") /\ tmux' = IF tmux = r THEN None ELSE tmux
  /\ UNCHANGED <<receipt, pend, ready, lock, call, told, reader, faults, removed>>

BootDies(r) ==
  /\ boot[r] # "none" /\ faults < MaxFaults /\ faults' = faults + 1
  /\ Boot(r, "none") /\ tmux' = IF tmux = r THEN None ELSE tmux
  /\ lock' = IF lock = r THEN None ELSE lock
  /\ UNCHANGED <<receipt, pend, ready, call, told, reader, removed>>

-----------------------------------------------------------------------------
(* The daemon and a person *)

\* Heal starts what the registry names and tmux does not have.
Heal ==
  /\ Visible # {} /\ tmux = None /\ tmux' = "run"
  /\ UNCHANGED <<receipt, pend, ready, lock, call, told, boot, reader, faults, removed>>

\* superviseReady of a name that is no longer registered.
RunGone ==
  /\ tmux = "run" /\ Visible = {} /\ tmux' = None
  /\ UNCHANGED <<receipt, pend, ready, lock, call, told, boot, reader, faults, removed>>

\* `ccmux rm`: kill, then remove; once each (a bound).
Remove(r) ==
  /\ r \in Visible \ removed /\ lock = None /\ removed' = removed \cup {r}
  /\ removeSession(r) /\ tmux' = None /\ boot' = [q \in Requests |-> "none"]
  /\ UNCHANGED <<receipt, lock, call, told, faults>>

-----------------------------------------------------------------------------
Call(r) ==
  \/ Receive(r) \/ LookPending(r) \/ reservePendingSession(r) \/ createClaude(r)
  \/ StartClaude(r) \/ startBootstrapSession(r) \/ Poll(r) \/ killSessionIfGeneration(r)
  \/ RollbackPending(r) \/ RollbackReady(r) \/ Caught(r) \/ Waiting(r) \/ Complete(r)
Bootstrap(r) ==
  \/ cmdBootstrap(r) \/ BootBlocks(r) \/ BootUnregisters(r) \/ BootReleases(r)
  \/ PromoteJournal(r) \/ PromoteReady(r) \/ PromoteCleanup(r) \/ SuperviseGone(r)

Next ==
  \/ \E r \in Requests : Call(r) \/ Bootstrap(r) \/ CallDies(r) \/ BootDies(r) \/ Remove(r)
  \/ loadRegistrySessions \/ Heal \/ RunGone

\* Processes run, a client repeats its request, the daemon heals.
Fairness ==
  /\ \A r \in Requests : SF_vars(Call(r)) /\ SF_vars(Bootstrap(r))
  /\ WF_vars(RunGone)

Spec == Init /\ [][Next]_vars /\ Fairness

-----------------------------------------------------------------------------
(* Properties *)

TypeOK ==
  /\ receipt \in [Requests -> {"none", "pending", "complete", "failed"}]
  /\ pend \in [Requests -> {"none", "pending", "blocked", "promoted"}]
  /\ ready \subseteq Requests /\ lock \in Requests \cup {None}
  /\ tmux \in Requests \cup {None, "run"}
  /\ call \in [Requests -> {"idle", "absent", "creating", "reserved", "appended", "polling",
                            "failing", "killed", "unwinding", "caught", "waiting", "found"}]
  /\ told \in [Requests -> {"none", "created", "failed", "mismatch"}]
  /\ boot \in [Requests -> {"none", "starting", "proving", "blocked", "unregistered",
                            "promoted", "written", "supervising"}]
  /\ reader \in [at: {"idle", "half", "done"}, seen: SUBSET Requests, must: SUBSET Requests]
  /\ faults \in 0..MaxFaults /\ removed \subseteq Requests

\* One generation holds the name, in the journal or in the registry, across
\* deaths between the three writes of a promotion: no recovery ever meets a
\* conflict.
OneHolder ==
  Cardinality({r \in Requests : pend[r] # "none"} \cup ready) <= 1

\* A create that was reported as failed leaves no session, then or later.
FailedIsAbsent == \A r \in Requests : receipt[r] = "failed" => r \notin Visible

\* A reader without the lock finds every session that was there when it began
\* and still is (promotion.ts on the order of the reads).
ReaderMissesNone == reader.at = "done" => reader.must \cap Visible \subseteq reader.seen

\* A receipt says complete only of a session the request made, unless somebody
\* removed it.
CreatedIsThere ==
  \A r \in Requests : receipt[r] = "complete" => r \in Visible \cup removed

CreatesTrue == FailedIsAbsent /\ CreatedIsThere /\ ReaderMissesNone

\* A request is answered in the end, and a failed one leaves nothing running.
CreatesAnswered == \A r \in Requests : told[r] = "none" ~> told[r] # "none"
Failed(r) == receipt[r] = "failed"
NothingRuns(r) == tmux # r /\ boot[r] = "none"
FailedLeavesNothing == \A r \in Requests : Failed(r) ~> NothingRuns(r)
-----------------------------------------------------------------------------
(* The properties made inductive *)

Holds(r) == pend[r] # "none" \/ r \in ready

\* One request holds the name; a reservation is no session yet.
OneHeld ==
  /\ \A r, q \in Requests : Holds(r) /\ Holds(q) => r = q
  /\ \A r \in Requests : pend[r] \in {"pending", "blocked"} => r \notin ready

\* A bootstrap lives in the tmux session of its request, and the journal is where it left it;
\* from its first write of a promotion to its last it has the lock.
BootHolds ==
  \A r \in Requests :
    /\ boot[r] # "none" => tmux = r
    /\ boot[r] \in {"starting", "proving"} => pend[r] = "pending"
    /\ boot[r] \in {"blocked", "unregistered"} => pend[r] = "blocked"
    /\ boot[r] \in {"promoted", "written"} => pend[r] = "promoted" /\ lock = r
    /\ boot[r] \in {"written", "supervising"} => r \in ready

\* What a call may rely on at each place: the receipt it has written, whether the name is
\* reserved for it, that no bootstrap of it is left when it takes the name back.
CallSound ==
  \A r \in Requests :
    /\ call[r] \notin {"idle", "found"} => receipt[r] = "pending"
    /\ call[r] \in {"creating", "appended", "unwinding", "caught"} => r \notin Pending
    /\ call[r] \in {"reserved", "appended", "killed", "unwinding"} => boot[r] = "none"
    /\ call[r] = "reserved" => pend[r] = "pending"
    /\ call[r] \in {"appended", "found"} => r \in Visible \cup removed

\* A receipt that says failed is of a request whose call is over and that holds nothing; one
\* that says complete, of a session that was there.
ReceiptSound ==
  \A r \in Requests :
    /\ receipt[r] = "failed" => call[r] = "idle" /\ ~Holds(r)
    /\ receipt[r] = "complete" => r \in Visible \cup removed

\* Between its two reads a reader has seen what it owes, or will see it in the registry.
ReaderSound ==
  /\ reader.at = "half" => reader.must \subseteq reader.seen \cup ready
  /\ reader.at = "done" => reader.must \subseteq reader.seen

CreateInv == OneHeld /\ BootHolds /\ CallSound /\ ReceiptSound /\ ReaderSound
=============================================================================
