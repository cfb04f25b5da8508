-------------------------- MODULE DelegationLease --------------------------
(***************************************************************************)
(* The authority an application lends to the sessions that work for it     *)
(* (src/src/delegation).  Its backend opens a lease, renews it while its   *)
(* run lives and closes it; requests may be sent twice and arrive late.    *)
(* Children inherit it and can only narrow it; every launch, input and     *)
(* turn of theirs asks whether the lease, their deadline or their cancel   *)
(* has ended them, and their owners ask in every round.  The clock and a   *)
(* close wait for nobody: an input may be kept, or its turn begun, a while *)
(* after it asked.                                                         *)
(***************************************************************************)
EXTENDS Integers, FiniteSets

CONSTANTS
  Children, Parent,       \* children and the child each comes from, or None: the application
  Addressed,              \* bound: children that are given input
  Renewals, Closes,       \* operation ids
  Capacity,               \* renewals leave the last place of the journal to a close
  LeaseTime, LifeTime, MaxTime,  \* leaseMs, lifetimeMs, and the bound of the clock
  Policies, Grant,        \* policies a child may ask for; the one of the host
  None

Updates == Renewals \cup Closes

\* Finitely many updates; levels of access that can be compared.
ConstantsOK ==
  /\ IsFiniteSet(Updates) /\ Parent \in [Children -> Children \cup {None}]
  /\ Capacity \in Nat /\ LeaseTime \in Nat /\ LifeTime \in Nat /\ MaxTime \in Nat
  /\ \A p \in Policies \cup {Grant} : p.access \in Int

VARIABLES
  now,
  row,    \* the authority's file
  call,   \* per update: the expiry it expects, once it is sent
  told,   \* what the callers of an update were told
  child,  \* per child: its accepted delegation
  run,    \* its process: "off", "starting", "live"
  stop,   \* children whose stop is written
  input   \* per child: its input

vars == <<now, row, call, told, child, run, stop, input>>

NoRow == [open |-> FALSE, closed |-> FALSE, expires |-> 0, deadline |-> 0, ops |-> [u \in {} |-> 0]]
NoChild == [created |-> FALSE, policy |-> Grant, deadline |-> 0]

Init ==
  /\ now = 0 /\ row = NoRow /\ call = [u \in Updates |-> 0] /\ told = [u \in Updates |-> {}]
  /\ child = [c \in Children |-> NoChild] /\ run = [c \in Children |-> "off"] /\ stop = {}
  /\ input = [c \in Children |-> "none"]

Lesser(a, b) == IF a < b THEN a ELSE b
active == row.open /\ ~row.closed /\ now < row.expires /\ now < row.deadline

-----------------------------------------------------------------------------
(* The lease *)

\* Mutant: opened again after its end, it begins again.
openAgain ==
  /\ ~active
  /\ row' = [row EXCEPT !.open = TRUE, !.expires = now + Lesser(LeaseTime, LifeTime),
                        !.deadline = now + LifeTime]
  /\ UNCHANGED <<now, call, told, child, run, stop, input>>
\* Opened again, it answers or refuses, and changes nothing.
openApplicationAuthority ==
  /\ ~row.open
  /\ row' = [NoRow EXCEPT !.open = TRUE, !.expires = now + Lesser(LeaseTime, LifeTime),
                          !.deadline = now + LifeTime]
  /\ UNCHANGED <<now, call, told, child, run, stop, input>>

\* The backend sends an update; the same one may arrive any number of times.
Send(u) ==
  /\ row.open /\ call[u] = 0 /\ call' = [call EXCEPT ![u] = row.expires]
  /\ UNCHANGED <<now, row, told, child, run, stop, input>>

Known == DOMAIN row.ops
Result(r) == [expires |-> r.expires, closed |-> r.closed]
Answer(u, r) == told' = [told EXCEPT ![u] = @ \cup {r}]
Kept(u, r) == [r EXCEPT !.ops = [k \in Known \cup {u} |-> IF k = u THEN Result(r) ELSE row.ops[k]]]

\* Mutant: it is told how things are now.
ReplayNow(u) ==
  /\ u \in Known /\ Answer(u, Result(row))
  /\ UNCHANGED <<now, row, call, child, run, stop, input>>
\* updateApplicationAuthority: a known update is told what it was told.
Replay(u) ==
  /\ u \in Known /\ Answer(u, row.ops[u])
  /\ UNCHANGED <<now, row, call, child, run, stop, input>>
Renewed == [row EXCEPT !.expires = Lesser(now + LeaseTime, row.deadline)]

\* Mutant: a lease that has ended is renewed.
renewEnded(u) ==
  /\ call[u] # 0 /\ u \notin Known
  /\ Cardinality(Known) < Capacity /\ call[u] = row.expires
  /\ row' = Kept(u, Renewed) /\ Answer(u, Result(Renewed))
  /\ UNCHANGED <<now, call, child, run, stop, input>>

\* Mutant: renewals take every place of the journal.
renewFull(u) ==
  /\ call[u] # 0 /\ u \notin Known
  /\ active /\ Cardinality(Known) < Capacity + 1 /\ call[u] = row.expires
  /\ row' = Kept(u, Renewed) /\ Answer(u, Result(Renewed))
  /\ UNCHANGED <<now, call, child, run, stop, input>>
renew(u) ==
  /\ call[u] # 0 /\ u \notin Known
  /\ active /\ Cardinality(Known) < Capacity /\ call[u] = row.expires
  /\ row' = Kept(u, Renewed) /\ Answer(u, Result(Renewed))
  /\ UNCHANGED <<now, call, child, run, stop, input>>
close(u) ==
  /\ call[u] # 0 /\ u \notin Known /\ Cardinality(Known) < Capacity + 1
  /\ LET r == [row EXCEPT !.closed = TRUE] IN row' = Kept(u, r) /\ Answer(u, Result(r))
  /\ UNCHANGED <<now, call, child, run, stop, input>>

-----------------------------------------------------------------------------
(* Children *)

\* delegationStopped, as every launch, input, turn and round of an owner asks it.
Stopped(c) == ~active \/ now >= child[c].deadline \/ c \in stop

\* narrowPolicy: no more access than the parent, and nothing outside its workspace.
Narrows(p, q) == p.access <= q.access /\ p.files \subseteq q.files

\* Mutant: a child of a child inherits from the application.
InheritedGrant(c) == Grant
InheritedPolicy(c) == IF Parent[c] = None THEN Grant ELSE child[Parent[c]].policy
InheritedDeadline(c) == IF Parent[c] = None THEN row.deadline ELSE child[Parent[c]].deadline

\* The parent's registration and the root's lease, but not the parent's own cancel.
resolveDelegation(c) ==
  /\ ~child[c].created /\ active
  /\ Parent[c] # None => child[Parent[c]].created
  /\ \E p \in Policies, t \in now + 1 .. MaxTime :
       /\ Narrows(p, InheritedPolicy(c)) /\ InheritedDeadline(c) > now
       /\ child' = [child EXCEPT ![c] = [created |-> TRUE, policy |-> p,
                                         deadline |-> Lesser(t, InheritedDeadline(c))]]
  /\ UNCHANGED <<now, row, call, told, run, stop, input>>

cancelDelegation(c) ==
  /\ child[c].created /\ c \notin stop /\ stop' = stop \cup {c}
  /\ UNCHANGED <<now, row, call, told, child, run, input>>

\* Started by the bootstrap, a wake or the healing; the provider is up a while later.
Launch(c) ==
  /\ child[c].created /\ run[c] = "off" /\ ~Stopped(c) /\ run' = [run EXCEPT ![c] = "starting"]
  /\ UNCHANGED <<now, row, call, told, child, stop, input>>
Opened(c) ==
  /\ run[c] = "starting" /\ run' = [run EXCEPT ![c] = "live"]
  /\ UNCHANGED <<now, row, call, told, child, stop, input>>

\* Mutant: the round looks for the cancel only.
OwnerEndsCancelled(c) ==
  /\ run[c] = "live" /\ input[c] # "taking" /\ c \in stop /\ run' = [run EXCEPT ![c] = "off"]
  /\ UNCHANGED <<now, row, call, told, child, stop, input>>
\* The round of the owner, which has no turn half handed over.
OwnerEnds(c) ==
  /\ run[c] = "live" /\ input[c] # "taking" /\ Stopped(c) /\ run' = [run EXCEPT ![c] = "off"]
  /\ UNCHANGED <<now, row, call, told, child, stop, input>>
\* What it had not handed over is queued again (reconcile).
OwnerDies(c) ==
  /\ run[c] # "off" /\ run' = [run EXCEPT ![c] = "off"]
  /\ input' = [input EXCEPT ![c] = IF @ = "taking" THEN "accepted" ELSE @]
  /\ UNCHANGED <<now, row, call, told, child, stop>>

\* The issuer or the managed parent gives input; neither may more than the child's own
\* check allows.
acceptControlMessage(c) ==
  /\ c \in Addressed /\ child[c].created /\ input[c] = "none" /\ ~Stopped(c)
  /\ input' = [input EXCEPT ![c] = "admitting"]
  /\ UNCHANGED <<now, row, call, told, child, run, stop>>

\* The letter is appended once the choice of a model is read and validated: nobody asks again.
Accept(c) ==
  /\ input[c] = "admitting" /\ input' = [input EXCEPT ![c] = "accepted"]
  /\ UNCHANGED <<now, row, call, told, child, run, stop>>
\* The choice is refused, or the caller gives up.
AcceptFails(c) ==
  /\ input[c] = "admitting" /\ input' = [input EXCEPT ![c] = "none"]
  /\ UNCHANGED <<now, row, call, told, child, run, stop>>

\* Mutant: an input that was accepted is not asked about again.
pickupAccepted(c) ==
  /\ run[c] = "live" /\ input[c] = "accepted"
  /\ input' = [input EXCEPT ![c] = "taking"]
  /\ UNCHANGED <<now, row, call, told, child, run, stop>>
\* The last look before the runtime is given the turn.
pickup(c) ==
  /\ run[c] = "live" /\ input[c] = "accepted" /\ ~Stopped(c)
  /\ input' = [input EXCEPT ![c] = "taking"]
  /\ UNCHANGED <<now, row, call, told, child, run, stop>>

\* The content is read from its files, and the turn is the runtime's.
Begin(c) ==
  /\ run[c] = "live" /\ input[c] = "taking"
  /\ input' = [input EXCEPT ![c] = "begun"]
  /\ UNCHANGED <<now, row, call, told, child, run, stop>>

Tick == now < MaxTime /\ now' = now + 1 /\ UNCHANGED <<row, call, told, child, run, stop, input>>

Round(c) == Opened(c) \/ Begin(c) \/ OwnerEnds(c)
Next ==
  \/ openApplicationAuthority \/ Tick
  \/ \E u \in Updates : Send(u) \/ Replay(u)
  \/ \E u \in Renewals : renew(u)
  \/ \E u \in Closes : close(u)
  \/ \E c \in Children : resolveDelegation(c) \/ cancelDelegation(c) \/ Launch(c) \/ Round(c)
                         \/ OwnerDies(c) \/ acceptControlMessage(c) \/ Accept(c)
                         \/ AcceptFails(c) \/ pickup(c)

Spec == Init /\ [][Next]_vars /\ \A c \in Children : WF_vars(Round(c))

-----------------------------------------------------------------------------
(* Properties *)

Times == 0..(MaxTime + LifeTime)
Results == [expires : Times, closed : BOOLEAN]
Journals == UNION {[S -> Results] : S \in SUBSET Updates}
TypeOK ==
  /\ now \in 0..MaxTime
  /\ row \in [open : BOOLEAN, closed : BOOLEAN, expires : Times, deadline : Times, ops : Journals]
  /\ call \in [Updates -> Times] /\ told \in [Updates -> SUBSET Results]
  /\ child \in [Children -> [created : BOOLEAN, policy : Policies \cup {Grant}, deadline : Times]]
  /\ run \in [Children -> {"off", "starting", "live"}] /\ stop \subseteq Children
  /\ input \in [Children -> {"none", "admitting", "accepted", "taking", "begun"}]

\* "Renew cannot revive a closed or expired authority or pass the hard deadline; an exact
\* repeat does not prolong the lease; room is kept for close" (delegation-and-sleep.md).
LeaseKept ==
  /\ row.expires <= row.deadline
  /\ Cardinality(Known) = Capacity + 1 => row.closed
  /\ \A u \in Updates : Cardinality(told[u]) <= 1

\* "Children inherit and can only narrow access, workspace and deadline", down the chain.
ChildrenNarrow ==
  \A c \in Children : child[c].created =>
    /\ Narrows(child[c].policy, Grant) /\ child[c].deadline <= row.deadline
    /\ Parent[c] # None => /\ Narrows(child[c].policy, child[Parent[c]].policy)
                           /\ child[c].deadline <= child[Parent[c]].deadline

\* What has ended stays so, and nothing new is begun in a child that has ended: an input
\* still moves only if it had asked before the end, and one that is accepted after the end
\* stays where it is ("Close, expiry ... stop new input", delegation-and-sleep.md, is true of
\* what asks after it).
Passing == {"admitting", "taking"}
EndedStays ==
  /\ row.open /\ ~active => ~active'
  /\ \A c \in Children : child[c].created /\ Stopped(c) =>
       /\ Stopped(c)'
       /\ input'[c] # input[c] => input[c] \in Passing /\ input'[c] \notin Passing
       /\ run'[c] = "starting" => run[c] = "starting"
LeaseStep == [][EndedStays]_vars

\* "Close or expiry end the resident execution of all descendants."
WorkOver(c) == child[c].created /\ Stopped(c)
Off(c) == run[c] = "off"
WorkEnds == \A c \in Children : WorkOver(c) ~> []Off(c)

LeaseSafe == LeaseKept /\ ChildrenNarrow

-----------------------------------------------------------------------------
(* LeaseSafe made inductive *)

\* Nothing is asked of an authority before it is opened.
Unopened ==
  ~row.open =>
    row = NoRow /\ (\A u \in Updates : call[u] = 0) /\ \A c \in Children : ~child[c].created

\* What the callers of an update were told is what the journal keeps.
ToldKept == \A u \in Updates : told[u] # {} => u \in Known /\ told[u] = {row.ops[u]}

\* A child was accepted after the one it comes from.
ParentsFirst ==
  \A c \in Children : child[c].created /\ Parent[c] # None => child[Parent[c]].created

LeaseInv == Unopened /\ ToldKept /\ ParentsFirst /\ LeaseSafe
=============================================================================
