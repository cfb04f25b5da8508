SPECIFICATION NativeSpec
CONSTANTS
  Agents = {"claude", "codex", "opencode", "custom"}
  MaxLetters = 3
  Commands = {k1}
  None = None
  MaxCalls = 2
  MaxCrashes = 2
  MaxInterrupts = 1
INVARIANTS
  NativeSafe
  CursorsKnowSlot
  AnswersTrue
PROPERTIES
  LettersTakeTurns
  SlotKeepsLetter
  LettersSettle
CHECK_DEADLOCK FALSE
