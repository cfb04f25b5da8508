SPECIFICATION LiveSpec
CONSTANTS
  claude = claude
  codex = codex
  app = app
  HookPane = {}
  TranscriptPane = {codex}
  App = {}
  Mail <- CodexMail
  FirstBuild = "old"
  MaxLedger = 2
  MaxBatch = 2
  MaxPerPass = 2
  Inboxes = {}
  MaxCancels = 0
  RateMax = 2
  MaxCrashes = 1
  MaxDeaths = 1
  MaxLosses = 0
INVARIANTS
  DeliveryInv
PROPERTIES
  BarrierFirst
  EveryLetterSettles
