---------------------------- MODULE MCEventually ----------------------------
(* What must eventually happen in eight components, one at a time: a        *)
(* behaviour stays in the component it starts in, and they share a pool of   *)
(* variables.                                                                *)
EXTENDS Naturals

CONSTANT None

VARIABLES
  part,  \* the component that runs
  p1, p2, p3, p4, p5, p6, p7, p8, p9, p10, p11, p12, p13, p14  \* its variables

pool == <<p1, p2, p3, p4, p5, p6, p7, p8, p9, p10, p11, p12, p13, p14>>
all == <<part, pool>>

Sleep == INSTANCE SessionSleep WITH SleepOps <- {"s1"}, WakeOps <- {}, Letters <- {"l1"},
  Posts <- {}, Cancels <- {"c1"}, MaxStarts <- 3, MaxAborts <- 1, sleep <- p1, journal <- p2,
  stop <- p3, lock <- p4, session <- p5, started <- p6, owned <- p7, snap <- p8, heal <- p9,
  letter <- p10, at <- p11, revision <- p12, told <- p13, aborts <- p14
Create == INSTANCE SessionCreate WITH Requests <- {"r1"}, Interactive <- {}, MaxFaults <- 2,
  receipt <- p1, pend <- p2, ready <- p3, lock <- p4, tmux <- p5, call <- p6, told <- p7,
  boot <- p8, reader <- p9, faults <- p10, removed <- p11
Release == INSTANCE ReleaseGuard WITH Versions <- 1..3,
  Fates <- {"works", "throws", "dies"}, MAX_ATTEMPTS <- 3, MaxFaults <- 2,
  Commands <- 0, target <- p1, bak <- p2, digest <- p3, staged <- p4, release <- p5,
  attempts <- p6, proven <- p7, daemon <- p8, upd <- p9, lock <- p10, fate <- p11, tries <-
  p12, faults <- p13, commands <- p14
Content == INSTANCE ContentFeed WITH Texts <- {"t1"}, Requests <- {}, MaxRecords <- 2,
  MaxItems <- 2, MaxPositions <- 2, ItemUnits <- 1, MaxUnits <- 2, MaxGenerations <- 2,
  MaxResets <- 1, native <- p1, buf <- p2, next <- p3, writing <- p4, file <- p5, live <-
  p6, reader <- p7, resets <- p8
Uploads == INSTANCE Attachments WITH Uploads <- {"u1"}, Cancellable <- {}, Contents <-
  {"c1"}, Messages <- {"m1"}, Source <- "source", Fork <- "fork", MaxRecords <- 1,
  MaxExpiries <- 2, MaxCuts <- 2, index <- p1, tomb <- p2, pins <- p3, files <- p4, fin <-
  p5, ledger <- p6, told <- p7, cuts <- p8, expiries <- p9
Watch == INSTANCE TurnWatch WITH MaxClock <- 3, Busy <- 1, MaxPrompts <- 1, MaxStops <- 0,
  MaxRestarts <- 0, MaxFailures <- 0, clock <- p1, agent <- p2, life <- p3, hook <- p4, prev
  <- p5, disk <- p6, look <- p7, view <- p8, seen <- p9, used <- p10
Lease == INSTANCE DelegationLease WITH Children <- {"c1"}, Parent <- [c \in {"c1"} |-> None],
  Addressed <- {"c1"}, Renewals <- {"r1"}, Closes <- {"k1"}, Capacity <- 1, LeaseTime <- 1,
  LifeTime <- 2, MaxTime <- 2, Policies <- {[access |-> 0, files |-> {"f"}]},
  Grant <- [access |-> 1, files |-> {"f"}], now <- p1, row <- p2, call <- p3, told <- p4,
  child <- p5, run <- p6, stop <- p7, input <- p8
Usage == INSTANCE UsageIndex WITH Runtimes <- {"codex"}, Lines <- {[id |-> "a", n |-> 2, time
  |-> 2]}, Early <- {<<[id |-> "a", n |-> 1, time |-> 1]>>}, Slice <- 3, HeadUnits <- 2, Page
  <- 1, CacheCap <- 1, MaxLines <- 2, MaxChanges <- 1, MaxEvents <- 1, runtime <- p1, file <-
  p2, db <- p3, call <- p4, queue <- p5, prepared <- p6, events <- p7

\* A component keeps its state in the first places of the pool, the rest is None.
PartsInit ==
  \/ part = "sleep" /\ Sleep!Init
  \/ part = "create" /\ Create!Init
     /\ p12 = None /\ p13 = None /\ p14 = None
  \/ part = "release" /\ Release!Init
  \/ part = "content" /\ Content!Init
     /\ p9 = None /\ p10 = None /\ p11 = None /\ p12 = None /\ p13 = None /\ p14 = None
  \/ part = "uploads" /\ Uploads!Init
     /\ p10 = None /\ p11 = None /\ p12 = None /\ p13 = None /\ p14 = None
  \/ part = "watch" /\ Watch!Init
     /\ p11 = None /\ p12 = None /\ p13 = None /\ p14 = None
  \/ part = "lease" /\ Lease!Init
     /\ p9 = None /\ p10 = None /\ p11 = None /\ p12 = None /\ p13 = None /\ p14 = None
  \/ part = "usage" /\ Usage!Init
     /\ p8 = None /\ p9 = None /\ p10 = None /\ p11 = None /\ p12 = None /\ p13 = None
     /\ p14 = None

\* A step of a component leaves the others alone.
InSleep == part = "sleep" /\ UNCHANGED part
InCreate == part = "create" /\ UNCHANGED <<part, p12, p13, p14>>
InRelease == part = "release" /\ UNCHANGED part
InContent == part = "content" /\ UNCHANGED <<part, p9, p10, p11, p12, p13, p14>>
InUploads == part = "uploads" /\ UNCHANGED <<part, p10, p11, p12, p13, p14>>
InWatch == part = "watch" /\ UNCHANGED <<part, p11, p12, p13, p14>>
InLease == part = "lease" /\ UNCHANGED <<part, p9, p10, p11, p12, p13, p14>>
InUsage == part = "usage" /\ UNCHANGED <<part, p8, p9, p10, p11, p12, p13, p14>>

PartsNext ==
  \/ InSleep /\ Sleep!Next
  \/ InCreate /\ Create!Next
  \/ InRelease /\ Release!Next
  \/ InContent /\ Content!Next
  \/ InUploads /\ Uploads!Next
  \/ InWatch /\ Watch!Next
  \/ InLease /\ Lease!Next
  \/ InUsage /\ Usage!Next

\* The fairness of every component, no more of it than the properties need: only
\* one of them runs, so a condition of each fits in one formula.
EventuallySpec ==
  /\ PartsInit /\ [][PartsNext]_all
  /\ WF_all(\/ InCreate /\ (Create!RunGone \/ Create!Call("r1") \/ Create!Bootstrap("r1"))
            \/ InRelease /\ (\/ Release!Launch \/ Release!bootGuardStart \/ Release!proveBootBundle
                             \/ Release!BadDies \/ Release!autoUpdateOnce \/ Release!Update("daemon")
                             \/ Release!restartBoot \/ Release!RestartSelf)
            \/ InContent /\ (Content!flush \/ Content!Written \/ Content!Read \/ Content!OwnerOpens)
            \/ InUploads /\ Uploads!FinalizeCommit
            \/ InUploads /\ Uploads!Retry("u1") /\ <<p1, p4, p5, p6>>' # <<p1, p4, p5, p6>>
            \/ InWatch /\ (Watch!Hook \/ Watch!Tick \/ Watch!End \/ Watch!Started)
            \/ InSleep /\ Sleep!Heal
            \/ InLease /\ Lease!Round("c1")
            \/ InUsage /\ (\/ Usage!Open \/ Usage!Index("daemon") \/ Usage!ReadIndex
                           \/ Usage!Sum \/ Usage!Answer(TRUE)))
  /\ WF_all(\/ InWatch /\ Watch!Observe
            \/ InSleep /\ Sleep!Turns
            \/ InUsage /\ Usage!Index("cli"))
  /\ WF_all(InSleep /\ Sleep!BudgetEnds("l1")) /\ SF_all(InSleep /\ Sleep!Owner)
  /\ SF_all(\/ InSleep /\ Sleep!acceptControlMessage("l1")
            \/ InUsage /\ Usage!Requested("all"))
  /\ SF_all(\/ InSleep /\ Sleep!awaitRelease("l1")
            \/ InUsage /\ Usage!Requested("past"))
  /\ SF_all(InSleep /\ Sleep!wakeRead("l1"))
  /\ SF_all(InSleep /\ Sleep!wakeWrite("l1")) /\ SF_all(InSleep /\ Sleep!wakeStart("l1"))
  /\ SF_all(InSleep /\ (Sleep!wakeAck("l1") \/ Sleep!wakeDone("l1")))

-----------------------------------------------------------------------------
(* What must eventually happen, of the component that runs.                 *)

\* SessionSleep and DelegationLease: a stop, a lease that ends and a cancelled child end
\* every process, and no message of the control plane waits for ever for a session that
\* sleeps; with a cancel in between the records and the callers still agree.
SleepEnds ==
  /\ (part = "sleep" /\ Sleep!Stopped) ~> [](part = "sleep" /\ ~Sleep!Executing)
  /\ (part = "sleep" /\ Sleep!Unanswered("l1")) ~> (part = "sleep" /\ Sleep!Answered("l1"))
  /\ (part = "lease" /\ Lease!WorkOver("c1")) ~> [](part = "lease" => Lease!Off("c1"))
  /\ [](part = "sleep" => Sleep!SleepInv)

\* SessionCreate and Attachments: a create that was told failed leaves nothing
\* running, and a message whose client keeps trying is accepted with its image.
RequestsEnd ==
  /\ \A r \in {"r1"} :
       (part = "create" /\ Create!Failed(r)) ~> (part = "create" /\ Create!NothingRuns(r))
  /\ part = "uploads" => <>(part = "uploads" /\ Uploads!Arrived)

\* ReleaseGuard: a machine left to itself comes back to a bundle that works or lives on, as
\* long as there is one, and no bundle is taken back before it had its starts, but one that
\* was installed by a daemon without a pass.
MachineComesBack ==
  /\ []<>(part = "release" => Release!Running \/ Release!Up \/ Release!Lost)
  /\ [][part = "release" => Release!RevertsInTime]_all

\* ContentFeed, TurnWatch and UsageIndex: a reader of the content feed catches up, a
\* reader of the event feed does not believe for ever in a turn that is over, and a query
\* of usage that was told "building" is completed; what a query is told is so.
ReadersSettle ==
  /\ <>[](part = "content" => Content!CaughtUp)
  /\ (part = "watch" /\ Watch!Misled) ~> (part = "watch" /\ ~Watch!Misled)
  /\ \A q \in {"all", "past"} :
       (part = "usage" /\ Usage!Waits(q)) ~> (part = "usage" /\ ~Usage!Waits(q))
  /\ [](part = "usage" => Usage!TypeOK /\ Usage!UsageSafe)
=============================================================================
