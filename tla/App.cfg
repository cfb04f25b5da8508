SPECIFICATION LiveSpec
CONSTANTS
  claude = claude
  codex = codex
  app = app
  HookPane = {}
  TranscriptPane = {}
  App = {app}
  Mail <- AppMail
  FirstBuild = "new"
  MaxLedger = 2
  MaxBatch = 2
  MaxPerPass = 2
  Inboxes = {}
  MaxCancels = 0
  RateMax = 2
  MaxCrashes = 1
  MaxDeaths = 1
  MaxLosses = 1
INVARIANTS
  PickupSafe
  DeliveryInv
PROPERTIES
  BarrierFirst
  EveryLetterSettles
