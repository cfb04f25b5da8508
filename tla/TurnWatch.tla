------------------------------ MODULE TurnWatch ------------------------------
(***************************************************************************)
(* Who says that a turn is over.  The hooks of a session write its         *)
(* lifecycle stamp and announce its turns (commands/hookStatus.ts); the    *)
(* supervisor looks at it from outside, closes the stamps no hook closed   *)
(* and announces what it saw (events/observe.ts, chat/turnState.ts,        *)
(* events/paneActivity.ts, session/status.ts).                             *)
(*                                                                         *)
(* Time is a clock of a few ticks: SETTLE_MS is one, INTERRUPTED_MS two.   *)
(* A hook lives shorter than a tick.                                       *)
(***************************************************************************)
EXTENDS Naturals, FiniteSets

CONSTANTS
  MaxClock, Busy,  \* bounds: the last tick, the last tick something happens in
  MaxPrompts, MaxStops, MaxRestarts, MaxFailures, \* bounds
  None

Settle == 1
Interrupted == 2

VARIABLES
  clock,
  agent,  \* the session as it is: running, its turn, its pane and transcript
  life,   \* the lifecycle file, or None
  hook,   \* the hook process, or None
  prev,   \* the supervisor's memory of the session
  disk,   \* pane activity on disk
  look,   \* the observation pass, or None
  view,   \* what a reader of the feed believes
  seen,   \* ghost: when a finished pass last saw the pane working
  used    \* prompts, session stops, supervisor restarts, failed writes

vars == <<clock, agent, life, hook, prev, disk, look, view, seen, used>>

Times == 0..MaxClock
Latest(S) == CHOOSE t \in S : \A u \in S : u <= t
Unseen == [running |-> FALSE, menu |-> FALSE, pane |-> None, closed |-> None]
Spend(what, bound) == used[what] < bound /\ used' = [used EXCEPT ![what] = @ + 1]

Init ==
  /\ clock = 0 /\ life = None /\ hook = None /\ prev = Unseen /\ disk = None
  /\ look = None /\ seen = None
  /\ agent = [up |-> TRUE, turn |-> "none", pane |-> "still", moved |-> None, text |-> FALSE]
  /\ view = [turn |-> "idle", menu |-> FALSE]
  /\ used = [prompt |-> 0, stop |-> 0, restart |-> 0, fail |-> 0]

-----------------------------------------------------------------------------
(* The session *)

\* A hook of this session starts; the session waits for it.
Fire(event) == hook = None /\ hook' = [event |-> event, at |-> clock, prev |-> None, step |-> "read"]

Prompt ==
  /\ agent.up /\ clock <= Busy /\ Spend("prompt", MaxPrompts)
  /\ Fire("UserPromptSubmit")
  /\ agent' = [agent EXCEPT !.turn = "running"]
  /\ UNCHANGED <<clock, life, prev, disk, look, view, seen>>

\* A running turn draws a spinner, stands at a menu or is between two tools; it may
\* write a line of its own words or of anything else.
Work ==
  /\ agent.turn = "running" /\ clock <= Busy
  /\ \E p \in {"working", "still", "menu"}, t \in BOOLEAN :
       agent' = [agent EXCEPT !.pane = p, !.text = t, !.moved = clock]
  /\ UNCHANGED <<clock, life, hook, prev, disk, look, view, seen, used>>

\* It ends in words, and Stop fires or does not run; or it is interrupted.
End ==
  /\ agent.turn = "running" /\ hook = None
  /\ \/ /\ agent' = [agent EXCEPT !.turn = "none", !.pane = "still", !.text = TRUE, !.moved = clock]
        /\ UNCHANGED hook \/ Fire("Stop")
     \/ /\ agent' = [agent EXCEPT !.turn = "none", !.pane = "still"]
        /\ UNCHANGED hook
  /\ UNCHANGED <<clock, life, prev, disk, look, view, seen, used>>

\* The session goes: stopped by hand its status is cleared with it, crashed it is not.
Stopped ==
  /\ agent.up /\ Spend("stop", MaxStops)
  /\ agent' = [agent EXCEPT !.up = FALSE, !.turn = "none", !.pane = "still"]
  /\ hook' = None /\ life' \in {life, None}
  /\ UNCHANGED <<clock, prev, disk, look, view, seen>>

Started ==
  /\ ~agent.up /\ agent' = [agent EXCEPT !.up = TRUE]
  /\ UNCHANGED hook \/ Fire("SessionStart")
  /\ UNCHANGED <<clock, life, prev, disk, look, view, seen, used>>

\* The last turn is over by the tick Busy.
Tick == /\ clock < MaxClock /\ hook = None /\ clock' = clock + 1
        /\ clock = Busy => agent.turn # "running"
        /\ UNCHANGED <<agent, life, hook, prev, disk, look, view, seen, used>>

-----------------------------------------------------------------------------
(* cmdHookStatus: read what is there, write over it, announce *)

\* Mutant: every prompt starts the turn again.
toWriteMoved(h) == [state |-> IF h.event = "UserPromptSubmit" THEN "working" ELSE "idle",
                    ts |-> h.at, event |-> h.event]

\* lifecycleToWrite: a prompt in a running turn keeps its start.
lifecycleToWrite(h) ==
  IF h.event = "UserPromptSubmit"
  THEN [state |-> "working", event |-> h.event,
        ts |-> IF h.prev # None /\ h.prev.state = "working" THEN h.prev.ts ELSE h.at]
  ELSE [state |-> "idle", ts |-> h.at, event |-> h.event]

\* eventForLifecycle, as a reader of the feed takes it.
eventForLifecycle(h, v) ==
  CASE h.event = "UserPromptSubmit" ->
         IF h.prev # None /\ h.prev.state = "working" THEN v ELSE [v EXCEPT !.turn = "working"]
    [] h.event = "SessionStart" -> [turn |-> "idle", menu |-> FALSE]
    [] OTHER -> IF h.prev # None /\ h.prev.event = "ccmux:turn-closed" THEN v
                ELSE [v EXCEPT !.turn = "idle"]

HookRead == /\ hook # None /\ hook.step = "read"
            /\ hook' = [hook EXCEPT !.prev = life, !.step = "write"]
            /\ UNCHANGED <<clock, agent, life, prev, disk, look, view, seen, used>>

HookWrite == /\ hook # None /\ hook.step = "write"
             /\ life' = lifecycleToWrite(hook)
             /\ hook' = [hook EXCEPT !.step = "say"]
             /\ UNCHANGED <<clock, agent, prev, disk, look, view, seen, used>>

HookSay == /\ hook # None /\ hook.step = "say"
           /\ view' = eventForLifecycle(hook, view)
           /\ hook' = None
           /\ UNCHANGED <<clock, agent, life, prev, disk, look, seen, used>>

-----------------------------------------------------------------------------
(* observeOnce: look, close, announce, remember *)

\* Mutant: only the transcript is a sign of life.
signOfLifeTranscript(claimed, moved, pane) ==
  LET signs == {t \in {claimed, moved} \ {None} : claimed = None \/ t >= claimed}
  IN IF signs = {} THEN None ELSE Latest(signs)

\* lastSignOfLife: the latest of transcript, pane and the start of the turn itself.
lastSignOfLife(claimed, moved, pane) ==
  LET signs == {t \in {claimed, moved, pane} \ {None} : claimed = None \/ t >= claimed}
  IN IF signs = {} THEN None ELSE Latest(signs)

\* turnState: settled, over what this look has in hand.
Settled(claimed, pane) ==
  LET alive == lastSignOfLife(claimed, agent.moved, pane)
      text == agent.text /\ (claimed = None \/ (agent.moved # None /\ agent.moved >= claimed))
  IN /\ agent.pane = "still"
     /\ \/ alive = None
        \/ clock - alive >= IF text THEN Settle ELSE Interrupted

\* Mutant: a supervisor that just started trusts what it sees now.
RememberedNothing == prev.pane

\* What the pane last did, by this supervisor's memory or its predecessor's.
Remembered == IF prev.pane # None THEN prev.pane ELSE disk

\* observe
Look ==
  LET pane == IF agent.pane = "working" THEN clock ELSE Remembered
      claimed == IF life # None /\ life.state = "working" THEN life.ts ELSE None
  IN /\ look = None
     /\ look' = IF ~agent.up
                THEN [running |-> FALSE, menu |-> FALSE, pane |-> None, started |-> None,
                      over |-> FALSE, step |-> "close", found |-> None, at |-> clock]
                ELSE [running |-> TRUE, menu |-> agent.pane = "menu", pane |-> pane,
                      started |-> claimed, over |-> claimed # None /\ Settled(claimed, pane),
                      step |-> "close", found |-> None, at |-> clock]
     /\ UNCHANGED <<clock, agent, life, hook, prev, disk, view, seen, used>>

\* shouldCloseTurn
Closes == prev.running /\ look.over /\ prev.closed # look.started

\* closeTurn reads the stamp again, and closes any that is working.
CloseRead ==
  /\ look # None /\ look.step = "close"
  /\ look' = IF Closes /\ life # None /\ life.state = "working"
             THEN [look EXCEPT !.step = "write", !.found = life]
             ELSE [look EXCEPT !.step = "say"]
  /\ UNCHANGED <<clock, agent, life, hook, prev, disk, view, seen, used>>

\* The write; one that fails is swallowed.
CloseWrite ==
  /\ look # None /\ look.step = "write"
  /\ look' = [look EXCEPT !.step = "say"]
  /\ \/ /\ life' = [state |-> "idle", ts |-> clock, event |-> "ccmux:turn-closed"]
        /\ UNCHANGED used
     \/ Spend("fail", MaxFailures) /\ UNCHANGED life
  /\ UNCHANGED <<clock, agent, hook, prev, disk, view, seen>>

\* Mutant: the end of a turn is left to its hook.
transitionsQuiet(v) ==
  IF prev.running /\ ~look.running THEN [turn |-> "idle", menu |-> FALSE]
  ELSE IF ~look.running THEN v ELSE [v EXCEPT !.menu = look.menu]

\* transitions, as a reader of the feed takes them.
transitions(v) ==
  IF prev.running /\ ~look.running THEN [turn |-> "idle", menu |-> FALSE]
  ELSE IF ~look.running THEN v
  ELSE [turn |-> IF Closes THEN "idle" ELSE v.turn,
        menu |-> IF look.menu THEN TRUE ELSE IF prev.menu THEN FALSE ELSE v.menu]

\* The events, the memory of the next pass, and the pane activity for other readers.
Publish ==
  /\ look # None /\ look.step = "say"
  /\ view' = transitions(view)
  /\ prev' = [running |-> look.running, menu |-> look.menu, pane |-> look.pane,
              closed |-> IF Closes THEN look.started ELSE prev.closed]
  /\ disk' = look.pane
  /\ seen' = IF look.running /\ look.pane # None THEN look.pane ELSE IF look.running THEN seen ELSE None
  /\ look' = None
  /\ UNCHANGED <<clock, agent, life, hook, used>>

\* The supervisor is started again: the pass is lost, and its memory but for the disk.
Restarted ==
  /\ Spend("restart", MaxRestarts)
  /\ prev' = Unseen /\ look' = None
  /\ UNCHANGED <<clock, agent, life, hook, disk, view, seen>>

-----------------------------------------------------------------------------
Hook == HookRead \/ HookWrite \/ HookSay
Observe == Look \/ CloseRead \/ CloseWrite \/ Publish
Session == Prompt \/ Work \/ End \/ Stopped \/ Started

Next == Session \/ Hook \/ Observe \/ Tick \/ Restarted

Fairness == WF_vars(Hook) /\ WF_vars(Observe) /\ WF_vars(Tick) /\ WF_vars(End) /\ WF_vars(Started)

Spec == Init /\ [][Next]_vars
LiveSpec == Spec /\ Fairness

-----------------------------------------------------------------------------
Stamps == [state : {"working", "idle"}, ts : Times,
           event : {"UserPromptSubmit", "Stop", "SessionStart", "ccmux:turn-closed"}]

Marks == {None} \cup Times
Hooks == [event : {"UserPromptSubmit", "Stop", "SessionStart"}, at : Times,
          prev : {None} \cup Stamps, step : {"read", "write", "say"}]
Looks == [running : BOOLEAN, menu : BOOLEAN, pane : Marks, started : Marks, over : BOOLEAN,
          step : {"close", "write", "say"}, found : {None} \cup Stamps, at : Times]

TypeOK ==
  /\ clock \in Times
  /\ agent \in [up : BOOLEAN, turn : {"none", "running"}, pane : {"working", "still", "menu"},
               moved : Marks, text : BOOLEAN]
  /\ life \in {None} \cup Stamps
  /\ prev \in [running : BOOLEAN, menu : BOOLEAN, pane : Marks, closed : Marks]
  /\ disk \in Marks /\ seen \in Marks
  /\ view \in [turn : {"idle", "working"}, menu : BOOLEAN]
  /\ hook \in {None} \cup Hooks /\ look \in {None} \cup Looks

\* The supervisor decides to close a stamp.
Closing == look # None /\ look' # None /\ look.step = "close" /\ look'.step = "write"

\* A turn that a supervisor, this one or the one before it, saw working is given the
\* whole window from that moment before its stamp is closed (events/paneActivity.ts: a
\* session four minutes into a build writes nothing at all).
ClosesAfterWindow == Closing => seen = None \/ look.started > seen \/ look.at - seen >= Settle
ProofWindow == [][ClosesAfterWindow]_vars

\* The hook and the supervisor never take back a start: while a stamp says working, a
\* prompt of the same turn does not move its start forward (commands/hookStatus.ts).
KeepsStart ==
  life # None /\ life' # None /\ life.state = "working" /\ life'.state = "working" => life'.ts <= life.ts
JoinedPromptsKeepStart == [][KeepsStart]_vars

TurnsKept == ClosesAfterWindow /\ KeepsStart

Abandoned == agent.up /\ agent.turn = "none" /\ life # None /\ life.state = "working"

\* The stamp of a turn that is over does not say working for ever, though no hook ran
\* (events/observe.ts; "the next pass tries again").
AbandonedIsClosed == Abandoned ~> ~Abandoned

\* A reader of the feed does not believe in a turn for ever that is over: the hook's
\* announcement or the supervisor's reaches it, unless the session was stopped or the
\* supervisor restarted in between, where an announcement can be lost.
Undisturbed == used.stop = 0 /\ used.restart = 0
Misled == Undisturbed /\ view.turn = "working" /\ agent.turn = "none"
ReaderSettles == Misled ~> ~Misled

\* "a turn that started in the milliseconds since the observation is not closed on the
\* strength of stale evidence" (events/observe.ts, closeTurn).
NewTurnStaysOpen ==
  [][Closing => life.ts = look.started]_vars

-----------------------------------------------------------------------------
(* The properties made inductive *)

\* What the proofs ask of the constants: a clock, and None is no tick, stamp, hook or pass.
ConstantsOK ==
  /\ MaxClock \in Nat
  /\ None \notin Times /\ None \notin Stamps /\ None \notin Hooks /\ None \notin Looks

\* A stamp that says working is the one the hook has read, if it has read any: only hooks
\* write such a stamp, one at a time.
HookSound ==
  hook # None /\ hook.step = "write" /\ life # None /\ life.state = "working" => life = hook.prev

\* What the pane did last is on disk and in memory alike, and nothing newer was seen; a pass
\* that finds a turn over found it by that.
LookSound ==
  /\ seen \in {None, disk} /\ prev.pane \in {None, disk}
  /\ look # None /\ look.running /\ look.pane = None => seen = None
  /\ look # None /\ look.over => \/ seen = None \/ look.started > seen
                                \/ look.at - seen >= Settle

WatchInv == HookSound /\ LookSound
=============================================================================
