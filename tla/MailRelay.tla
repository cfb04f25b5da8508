----------------------------- MODULE MailRelay -----------------------------
(***************************************************************************)
(* What a fleet of machines promises of a letter to another machine,       *)
(* without the hops, receivers and retries that keep it: the recipient's   *)
(* ledger keeps the letter at one position at most and never moves it, and *)
(* the sender's files call it settled only when it is kept, or when it was *)
(* abandoned because no attempt could ever succeed.                        *)
(***************************************************************************)
CONSTANT Letters

VARIABLES
  kept,       \* per letter: the positions it has in the recipient's ledger
  verdict,    \* per letter: what the sender's outbox and its acks say
  abandoned   \* letters the sender's machine stopped trying to send

vars == <<kept, verdict, abandoned>>

Init ==
  /\ kept = [l \in Letters |-> {}]
  /\ verdict = [l \in Letters |-> "unsent"]
  /\ abandoned = {}

\* The recipient's machine admits the letter, at one position of its ledger.
Keep(l) ==
  /\ kept[l] = {}
  /\ \E p \in kept'[l] : kept' = [kept EXCEPT ![l] = {p}]
  /\ UNCHANGED <<verdict, abandoned>>

\* The sender's machine records an attempt that is not known to have succeeded.
Queue(l) ==
  /\ verdict[l] = "unsent"
  /\ verdict' = [verdict EXCEPT ![l] = "queued"]
  /\ UNCHANGED <<kept, abandoned>>

\* The sender's machine records that the letter arrived.
Settle(l) ==
  /\ verdict[l] # "settled" /\ kept[l] # {}
  /\ verdict' = [verdict EXCEPT ![l] = "settled"]
  /\ UNCHANGED <<kept, abandoned>>

\* It stops trying: nowhere to send it, or refused for good.
Abandon(l) ==
  /\ verdict[l] = "queued"
  /\ verdict' = [verdict EXCEPT ![l] = "settled"]
  /\ abandoned' = abandoned \cup {l}
  /\ UNCHANGED kept

Next == \E l \in Letters :
  Keep(l) \/ Queue(l) \/ Settle(l) \/ Abandon(l)

Spec == Init /\ [][Next]_vars
=============================================================================
