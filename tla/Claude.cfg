SPECIFICATION Spec
CONSTANTS
  claude = claude
  codex = codex
  app = app
  HookPane = {claude}
  TranscriptPane = {}
  App = {}
  Mail <- ClaudeMail
  FirstBuild = "new"
  MaxLedger = 2
  MaxBatch = 1
  MaxPerPass = 2
  Inboxes = {claude}
  MaxCancels = 1
  RateMax = 1
  MaxCrashes = 1
  MaxDeaths = 0
  MaxLosses = 0
INVARIANTS
  TypeOK
  NoSilentSkip
  RepeatsAreFaults
  InOrder
  DeliveredIsTrue
  DeliveryInv
PROPERTIES
  CursorsForward
