------------------------------ MODULE MCAlways ------------------------------
(* What must never happen in eleven components, one at a time: a behaviour   *)
(* stays in the component it starts in.  SessionSleep has its own variables, *)
(* the others share a pool of them.                                          *)
EXTENDS SessionSleep, TLC

VARIABLES
  part,  \* the component that runs
  p1, p2, p3, p4, p5, p6, p7, p8, p9, p10, p11, p12, p13, p14, p15, p16,
  p17, p18  \* its variables

pool == <<p1, p2, p3, p4, p5, p6, p7, p8, p9, p10, p11, p12, p13, p14, p15, p16,
          p17, p18>>
all == <<part, pool, vars>>

\* The components of the machine and the sides of an owner, with the lemmas about them.
Machine == INSTANCE ComponentProofs WITH
  Uploads <- {"u1", "u2"}, Cancellable <- {"u1", "u2"}, Contents <- {"c1"}, Messages <- {"m1"},
  Source <- "source", Fork <- "fork", MaxRecords <- 2, MaxExpiries <- 2, MaxCuts <- 2,
  index <- p1, tomb <- p2, pins <- p3, files <- p4, fin <- p5, ledger <- p6, told <- p7,
  cuts <- p8, expiries <- p9,
  MaxClock <- 3, Busy <- 1, MaxPrompts <- 2, MaxStops <- 1, MaxRestarts <- 1, MaxFailures <- 1,
  clock <- p1, agent <- p2, life <- p3, hook <- p4, prev <- p5, disk <- p6, look <- p7,
  view <- p8, seen <- p9, used <- p10,
  Versions <- 1..3, Fates <- {"works", "dies"}, MAX_ATTEMPTS <- 3, MaxFaults <- 1,
  Commands <- 2,
  target <- p1, bak <- p2, digest <- p3, staged <- p4, release <- p5, attempts <- p6,
  proven <- p7, daemon <- p8, faults <- p9, lock <- p10, fate <- p11, tries <- p12, upd <- p13,
  commands <- p14,
  Requests <- {"r1", "r3"}, Interactive <- {"r3"}, MaxDeaths <- 2,
  receipt <- p1, pend <- p2, ready <- p3, tmux <- p4, boot <- p5, call <- p6, reader <- p8,
  removed <- p11,
  Children <- {"c1", "c2"}, Parent <- [c \in {"c1", "c2"} |-> IF c = "c1" THEN None ELSE "c1"],
  Addressed <- {"c2"}, Renewals <- {"r1", "r2"}, Closes <- {"k1"}, Capacity <- 1,
  LeaseTime <- 1, LifeTime <- 2, MaxTime <- 2,
  Policies <- {[access |-> a, files |-> {"f"}] : a \in {0, 1}},
  Grant <- [access |-> 1, files |-> {"f"}],
  now <- p1, row <- p2, child <- p3, run <- p4, stop <- p5, input <- p8
Session == INSTANCE OwnerProofs WITH
  Answers <- {}, BoxOps <- {"m1", "m2"}, Kind <- [o \in {"m1", "m2"} |-> "mode"], MaxTurns <- 1,
  MaxDeaths <- 1,
  cmd <- p1, rcpt <- p2, intr <- p3, box <- p4, at <- p5, held <- p6, proj <- p7, run <- p8,
  out <- p9, call <- p10, asking <- p11, paid <- p12, given <- p13, ran <- p14, deaths <- p15,
  \* Steering is checked with the letters (MCNative).
  Steers <- {}, MaxSteered <- 1, MaxKills <- 0, Capacity <- 1, Window <- 1,
  journal <- p1, want <- p2, job <- p3, gate <- p4, turn <- p5, busy <- p6, shown <- p7,
  items <- p8, pins <- p9, told <- p10, times <- p11, kills <- p12,
  Runtimes <- {"codex"}, Ops <- {"o1"}, Reads <- {"r1", "r2"}, Letters <- {}, MaxGens <- 2,
  MaxMarks <- 1,
  runtime <- p1, ops <- p2, rev <- p3, last <- p6, boundary <- p8, letter <- p9, lock <- p11,
  gen <- p12, live <- p13, pump <- p15, seen <- p16, asked <- p17, marks <- p18
Content == INSTANCE ContentFeed WITH Texts <- {"t1"}, Requests <- {"q1"}, MaxRecords <- 2,
  MaxItems <- 1, MaxPositions <- 2, ItemUnits <- 1, MaxUnits <- 2, MaxGenerations <- 1,
  MaxResets <- 1, file <- p1, buf <- p2, next <- p3, writing <- p4, native <- p5, live <-
  p6, reader <- p7, resets <- p8
Events == INSTANCE EventFeed WITH Names <- {"n1", "n2"}, States <- {"a"}, MaxBytes <- 9,
  MaxEvents <- 2, MaxPasses <- 2, MaxDaemons <- 2, MaxLost <- 0, file <- p1, writer <- p2,
  count <- p3, pub <- p4, snap <- p5, past <- p6, reader <- p7, lost <- p8, passes <- p9
\* The same feed with fewer changes, files that are full after one event, and failed writes.
Rotation == INSTANCE EventFeed WITH Names <- {"n1"}, States <- {"a"}, MaxBytes <- 1,
  MaxEvents <- 3, MaxPasses <- 1, MaxDaemons <- 2, MaxLost <- 1, file <- p1, writer <- p2,
  count <- p3, pub <- p4, snap <- p5, past <- p6, reader <- p7, lost <- p8, passes <- p9
Record(id, n, time) == [id |-> id, n |-> n, time |-> time]
Usage == INSTANCE UsageProofs WITH Runtimes <- {"claude"}, Lines <- {Record("a", 2, 2)},
  Early <- {<<Record("a", 1, 1)>>, <<Record("b", 3, 1), Record("a", 1, 1)>>}, Slice <- 3,
  HeadUnits <- 2, Page <- 1, CacheCap <- 2, MaxLines <- 3, MaxChanges <- 3, MaxEvents <- 1,
  runtime <- p1, file <- p2, db <- p3, call <- p4, queue <- p5, prepared <- p6, events <- p7

\* What the proofs about a component ask of its constants.
ASSUME PartConstants ==
  /\ Machine!Store!ConstantsOK /\ Machine!Watch!ConstantsOK /\ Machine!Release!ConstantsOK
  /\ Machine!Create!ConstantsOK /\ Machine!Lease!ConstantsOK
  /\ Session!Asks!ConstantsOK /\ Session!Context!ConstantsOK
  /\ Content!ConstantsOK /\ Events!ConstantsOK /\ Rotation!ConstantsOK /\ Usage!ConstantsOK

\* A component keeps its state in the first places of the pool, the rest is None.
PartsInit ==
  \/ part = "sleep" /\ Init
     /\ p1 = None /\ p2 = None /\ p3 = None /\ p4 = None /\ p5 = None /\ p6 = None /\ p7 = None
     /\ p8 = None /\ p9 = None /\ p10 = None /\ p11 = None /\ p12 = None /\ p13 = None
     /\ p14 = None /\ p15 = None /\ p16 = None /\ p17 = None /\ p18 = None
  \/ part = "create" /\ Machine!Create!Init /\ Init
     /\ p12 = None /\ p13 = None /\ p14 = None /\ p15 = None /\ p16 = None /\ p17 = None
     /\ p18 = None
  \/ part = "asks" /\ Session!Asks!Init /\ Init
     /\ p16 = None /\ p17 = None /\ p18 = None
  \/ part = "release" /\ Machine!Release!Init /\ Init
     /\ p15 = None /\ p16 = None /\ p17 = None /\ p18 = None
  \/ part = "content" /\ Content!Init /\ Init
     /\ p9 = None /\ p10 = None /\ p11 = None /\ p12 = None /\ p13 = None /\ p14 = None
     /\ p15 = None /\ p16 = None /\ p17 = None /\ p18 = None
  \/ part = "uploads" /\ Machine!Store!Init /\ Init
     /\ p10 = None /\ p11 = None /\ p12 = None /\ p13 = None /\ p14 = None /\ p15 = None
     /\ p16 = None /\ p17 = None /\ p18 = None
  \/ part = "watch" /\ Machine!Watch!Init /\ Init
     /\ p11 = None /\ p12 = None /\ p13 = None /\ p14 = None /\ p15 = None /\ p16 = None
     /\ p17 = None /\ p18 = None
  \/ ((part = "events" /\ Events!Init) \/ (part = "rotation" /\ Rotation!Init)) /\ Init
     /\ p10 = None /\ p11 = None /\ p12 = None /\ p13 = None /\ p14 = None /\ p15 = None
     /\ p16 = None /\ p17 = None /\ p18 = None
  \/ part = "context" /\ Session!Context!Init /\ Init
  \/ part = "lease" /\ Machine!Lease!Init /\ Init
     /\ p9 = None /\ p10 = None /\ p11 = None /\ p12 = None /\ p13 = None /\ p14 = None
     /\ p15 = None /\ p16 = None /\ p17 = None /\ p18 = None
  \/ part = "usage" /\ Usage!Init /\ Init
     /\ p8 = None /\ p9 = None /\ p10 = None /\ p11 = None /\ p12 = None /\ p13 = None
     /\ p14 = None /\ p15 = None /\ p16 = None /\ p17 = None /\ p18 = None

\* A step of a component leaves the others alone.
InSleep == part = "sleep" /\ UNCHANGED <<part, pool>>
InCreate == part = "create" /\ UNCHANGED <<part, vars, p12, p13, p14, p15, p16, p17, p18>>
InAsks == part = "asks" /\ UNCHANGED <<part, vars, p16, p17, p18>>
InRelease == part = "release" /\ UNCHANGED <<part, vars, p15, p16, p17, p18>>
InContent == part = "content" /\ UNCHANGED <<part, vars, p9, p10, p11, p12, p13, p14,
   p15, p16, p17, p18>>
InUploads == part = "uploads" /\ UNCHANGED <<part, vars, p10, p11, p12, p13, p14, p15,
   p16, p17, p18>>
InWatch == part = "watch" /\ UNCHANGED <<part, vars, p11, p12, p13, p14, p15, p16, p17, p18>>
\* Bound: one stop, restart or failed write, at any step.
WatchFaults == p10.stop + p10.restart + p10.fail <= 1
InEvents == part = "events" /\ UNCHANGED <<part, vars, p10, p11, p12, p13, p14, p15,
   p16, p17, p18>>
InRotation == part = "rotation" /\ UNCHANGED <<part, vars, p10, p11, p12, p13, p14, p15,
   p16, p17, p18>>
InContext == part = "context" /\ UNCHANGED <<part, vars>>
InLease == part = "lease" /\ UNCHANGED <<part, vars, p9, p10, p11, p12, p13, p14, p15,
   p16, p17, p18>>
InUsage == part = "usage" /\ UNCHANGED <<part, vars, p8, p9, p10, p11, p12, p13, p14, p15,
   p16, p17, p18>>

PartsNext ==
  \/ InSleep /\ Next
  \/ InCreate /\ Machine!Create!Next
  \/ InAsks /\ Session!Asks!Next
  \/ InRelease /\ Machine!Release!Next
  \/ InContent /\ Content!Next
  \/ InUploads /\ Machine!Store!Next
  \/ InWatch /\ Machine!Watch!Next /\ WatchFaults'
  \/ InEvents /\ Events!Next
  \/ InRotation /\ Rotation!Next
  \/ InContext /\ Session!Context!Next
  \/ InLease /\ Machine!Lease!Next
  \/ InUsage /\ Usage!Next

AlwaysSpec == PartsInit /\ [][PartsNext]_all

\* The sleeps differ in nothing but their ids.
SleepSymmetry == Permutations(SleepOps)

-----------------------------------------------------------------------------
(* What must hold, of the component that runs.                              *)

\* Every file, counter and step has its shape, and what the proofs rest on holds here too:
\* what a sleep and its callers have in hand names the same process, and the journals,
\* receipts, locks and callers of a creation, of the requests of an owner and of a lease agree,
\* as do the records, pins and bytes of a store, the stamps and looks of a watch, the bundle,
\* its backup and who replaces it, and a compaction with its marker and the pages read.
TypesOK ==
  /\ part = "sleep" => TypeOK /\ RecordSound /\ CallsSound
  /\ part = "create" => Machine!Create!TypeOK /\ Machine!Create!CreateInv
  /\ part = "asks" => Session!Asks!TypeOK /\ Session!Asks!RequestsInv
  /\ part = "release" => Machine!Release!TypeOK /\ Machine!Release!ReleaseInv
  /\ part = "content" => Content!TypeOK
  /\ part = "uploads" => Machine!Store!TypeOK /\ Machine!Store!UploadsInv
  /\ part = "watch" => Machine!Watch!TypeOK /\ Machine!Watch!WatchInv
  /\ part = "events" => Events!TypeOK /\ Events!EventsInv
  /\ part = "rotation" => Rotation!TypeOK /\ Rotation!EventsInv
  /\ part = "context" => Session!Context!TypeOK /\ Session!Context!ContextInv
  /\ part = "lease" => Machine!Lease!TypeOK /\ Machine!Lease!LeaseInv
  /\ part = "usage" => Usage!TypeOK /\ Usage!UsageInv

\* What is asked twice happens once: one generation holds the name of a session
\* whatever dies between the writes of a creation, a request of a mailbox runs once
\* while its receipt is there, and an update of a lease is made once and told once;
\* what children inherit only narrows.
OperationsOnce ==
  /\ part = "create" => Machine!Create!OneHolder
  /\ part = "asks" => Session!Asks!AskedTwiceIsOnce
  /\ part = "lease" => Machine!Lease!LeaseSafe

\* SessionCreate: a creation that was told failed is absent, one that was told
\* complete is there, and a reader of the two files misses no session.
CreatesTrue == part = "create" => Machine!Create!CreatesTrue

\* ReleaseGuard and RuntimeRequests: what a fault may need is kept before it is
\* replaced, and what a restart restores is what was there.  DelegationLease: no
\* renewal, launch or input brings back what has ended; what had asked before the end is
\* finished or stays where it is.
RestoresTrue ==
  /\ [][part = "release" => Machine!Release!KeepsPredecessor]_all
  /\ [][part = "asks" => Session!Asks!BeginsInMode]_all
  /\ [][part = "lease" => Machine!Lease!EndedStays]_all

\* ContentFeed, EventFeed, NativeContext and UsageIndex: what a reader holds or is told is
\* what was written, though buffers drop, writes coalesce, files rotate, processes restart,
\* the conversation is compacted under a cursor and an index is advanced by two.
FeedsTrue ==
  /\ part = "content" => Content!AppendsContinue /\ Content!ReaderTrue /\ Content!RequestsSurvive
  /\ part = "events" => Events!FollowedInOrder /\ Events!MirrorTrue
  /\ part = "rotation" => Rotation!FollowedInOrder /\ Rotation!MirrorTrue
  /\ part = "context" => Session!Context!ContextSafe
  /\ part = "usage" => Usage!UsageSafe

\* Attachments: accepted images can be handed over, acknowledged bytes are kept, and
\* what was cancelled is gone.
PinsHold == part = "uploads" => Machine!Store!PinsHold

\* TurnWatch: a turn seen working keeps its whole window before it is closed, and a
\* prompt that joins it does not move its start.
TurnsKept == [][part = "watch" => Machine!Watch!TurnsKept]_all
=============================================================================
