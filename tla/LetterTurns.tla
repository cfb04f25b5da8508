---------------------------- MODULE LetterTurns ----------------------------
(***************************************************************************)
(* What the dispatch of letters into a native runtime promises, without    *)
(* cursors, slots, owners and crashes: letters are committed to one after  *)
(* the other, the next only when the last is settled; each is begun at     *)
(* most once and in order, whatever commands come in between; and it is    *)
(* settled only after it was begun, unless somebody stopped a turn.        *)
(***************************************************************************)
EXTENDS Naturals, Sequences

CONSTANTS MaxLetters, Commands

Letters == 1..MaxLetters

VARIABLES
  committed,  \* letters the daemon has committed to
  begun,      \* letters and commands in the order their turns were begun
  settled,    \* letters recorded as over
  stopped     \* somebody stopped a turn

vars == <<committed, begun, settled, stopped>>

Init == committed = 0 /\ begun = <<>> /\ settled = {} /\ stopped = FALSE

Commit ==
  /\ committed < MaxLetters /\ 1..committed \subseteq settled
  /\ committed' = committed + 1
  /\ UNCHANGED <<begun, settled, stopped>>

Begin(l) ==
  /\ \A n \in 1..Len(begun) : begun[n] \in Letters => begun[n] < l
  /\ begun' = Append(begun, l)
  /\ UNCHANGED <<committed, settled, stopped>>

Command(k) == begun' = Append(begun, k) /\ UNCHANGED <<committed, settled, stopped>>

Settle(l) ==
  /\ stopped \/ \E n \in 1..Len(begun) : begun[n] = l
  /\ settled' = settled \cup {l}
  /\ UNCHANGED <<committed, begun, stopped>>

Stop == ~stopped /\ stopped' = TRUE /\ UNCHANGED <<committed, begun, settled>>

Next ==
  \/ Commit \/ Stop
  \/ \E l \in 1..committed : Begin(l) \/ Settle(l)
  \/ \E k \in Commands : Command(k)

Spec == Init /\ [][Next]_vars
=============================================================================
