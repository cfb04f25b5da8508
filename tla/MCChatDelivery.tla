--------------------------- MODULE MCChatDelivery ---------------------------
(* Instances of ChatDelivery for TLC: one Claude pane, one Codex pane and one *)
(* App thread, in the combinations the configurations choose.                 *)
EXTENDS ChatDelivery

CONSTANTS claude, codex, app

Now(r)      == [to |-> r, defer |-> FALSE, timed |-> FALSE, newer |-> FALSE]
Deferred(r) == [to |-> r, defer |-> TRUE,  timed |-> FALSE, newer |-> FALSE]
Timed(r)    == [to |-> r, defer |-> FALSE, timed |-> TRUE,  newer |-> FALSE]
Newer(r)    == [to |-> r, defer |-> FALSE, timed |-> FALSE, newer |-> TRUE]

ClaudeMail == {Now(claude), Deferred(claude)}
CodexMail  == {Now(codex), Deferred(codex), Newer(codex)}
AppMail    == {Now(app), Timed(app)}

-----------------------------------------------------------------------------
\* store.ts, on a target the sweep does not find: "Absence is therefore
\* permanent, which is what makes it safe".
ClosedIsGone == \A i \in closed : reg[ledger[i].to] = "gone"
=============================================================================
