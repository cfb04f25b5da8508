SPECIFICATION Spec
CONSTANTS
  claude = claude
  codex = codex
  app = app
  HookPane = {claude}
  TranscriptPane = {}
  App = {}
  Mail <- ClaudeMail
  FirstBuild = "new"
  MaxLedger = 1
  MaxBatch = 2
  MaxPerPass = 2
  Inboxes = {}
  MaxCancels = 0
  RateMax = 2
  MaxCrashes = 0
  MaxDeaths = 0
  MaxLosses = 0
INVARIANTS
  ClosedIsGone
