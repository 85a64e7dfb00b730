CONSTANTS
  MaxTokens = 2
  Contexts = {4}
  Prompts = {0, 1, 3}
  Reserved = 1
  MaxSteps = 2
  MaxChunks = 4
  MaxRestarts = 1
SPECIFICATION Spec
INVARIANTS
  StreamInv
  ActsOnWhole
  BudgetHolds
