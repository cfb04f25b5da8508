------------------------------ MODULE MCNative ------------------------------
(* An owner of a native session from four sides, one at a time: the letters it  *)
(* is given (NativeDispatch) and, on a pool of variables, the approvals it asks *)
(* for (RuntimeRequests), the text put into its running turn (Steering) and the *)
(* compaction of its conversation (NativeContext).                              *)
EXTENDS NativeDispatch

VARIABLES
  part,  \* the component that runs
  p1, p2, p3, p4, p5, p6, p7, p8, p9, p10, p11, p12, p13, p14, p15, p16,
  p17, p18  \* its variables

pool == <<p1, p2, p3, p4, p5, p6, p7, p8, p9, p10, p11, p12, p13, p14, p15, p16,
          p17, p18>>
all == <<part, pool, vars>>

\* The owner's sides, with the lemmas about them.
Session == INSTANCE OwnerProofs WITH
  Answers <- {"a1"}, BoxOps <- {}, Kind <- [o \in {} |-> "mode"], MaxTurns <- 2, MaxDeaths <- 1,
  cmd <- p1, rcpt <- p2, intr <- p3, box <- p4, at <- p5, held <- p6, proj <- p7, run <- p8,
  out <- p9, call <- p10, asking <- p11, paid <- p12, given <- p13, ran <- p14, deaths <- p15,
  Steers <- {"o1", "o2"}, MaxSteered <- 3, MaxKills <- 2, Capacity <- 2, Window <- 1,
  journal <- p1, want <- p2, job <- p3, gate <- p4, turn <- p5, busy <- p6, shown <- p7,
  items <- p8, pins <- p9, told <- p10, times <- p11, kills <- p12,
  Runtimes <- {"claude", "codex"}, Ops <- {"o1"}, Reads <- {"r1"}, Letters <- {"l1"},
  MaxGens <- 2, MaxMarks <- 2,
  runtime <- p1, ops <- p2, rev <- p3, last <- p6, boundary <- p8, letter <- p9, lock <- p11,
  gen <- p12, live <- p13, pump <- p15, seen <- p16, asked <- p17, marks <- p18

\* What the proofs about a component ask of its constants.
ASSUME PartConstants ==
  Session!Asks!ConstantsOK /\ Session!Steer!ConstantsOK /\ Session!Context!ConstantsOK

\* A component keeps its state in the first places of the pool, the rest is None.
PartsInit ==
  \/ part = "native" /\ Init
     /\ p1 = None /\ p2 = None /\ p3 = None /\ p4 = None /\ p5 = None /\ p6 = None /\ p7 = None
     /\ p8 = None /\ p9 = None /\ p10 = None /\ p11 = None /\ p12 = None /\ p13 = None
     /\ p14 = None /\ p15 = None /\ p16 = None /\ p17 = None /\ p18 = None
  \/ part = "asks" /\ Session!Asks!Init /\ Init /\ agent = "claude"
     /\ p16 = None /\ p17 = None /\ p18 = None
  \/ part = "steer" /\ Session!Steer!Init /\ Init /\ agent = "claude"
     /\ p13 = None /\ p14 = None /\ p15 = None /\ p16 = None /\ p17 = None /\ p18 = None
  \/ part = "context" /\ Session!Context!Init /\ Init /\ agent = "claude"

\* A step of a component leaves the others alone.
InNative == part = "native" /\ UNCHANGED <<part, pool>>
InAsks == part = "asks" /\ UNCHANGED <<part, vars, p16, p17, p18>>
InSteer == part = "steer" /\ UNCHANGED <<part, vars, p13, p14, p15, p16, p17, p18>>
InContext == part = "context" /\ UNCHANGED <<part, vars>>

PartsNext ==
  \/ InNative /\ Next
  \/ InAsks /\ Session!Asks!Next
  \/ InSteer /\ Session!Steer!Next
  \/ InContext /\ Session!Context!Next

NativeSpec ==
  /\ PartsInit /\ [][PartsNext]_all
  /\ WF_all(InNative /\ Daemon) /\ WF_all(InNative /\ OwnerOpens) /\ WF_all(InNative /\ Publish)
  /\ SF_all(InNative /\ Owner) /\ WF_all(InNative /\ Runtime)

\* What the cursors, the slot, the lock and the conversation say of a letter agrees.
\* RuntimeRequests, Steering and NativeContext: what a caller is told of its answer, its
\* text or its compaction is so, and none of them happens twice.
AnswersTrue ==
  /\ part = "native" => NativeInv
  /\ part = "asks" => Session!Asks!TypeOK /\ Session!Asks!RequestsInv /\ Session!Asks!AnswerTold
  /\ part = "steer" => Session!Steer!TypeOK /\ Session!Steer!SteeringInv
  /\ part = "context" => Session!Context!TypeOK /\ Session!Context!ContextInv
=============================================================================
