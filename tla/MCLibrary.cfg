SPECIFICATION LibrarySpec
CONSTANTS
  Configs <- MCConfigs
  Lookback = 3
  Headroom = 8
  Margin = 1
  BackoffCap = 1
  MaxAttempts = 2
  RollSlack = 1
  Nothing = Nothing
  ConfirmAt = {4}
  MaxTime = 12
  MaxDrops = 1
  MaxMeddling = 1
INVARIANTS WholeWhenPrompt InWindow GapCost ClipKept
CHECK_DEADLOCK FALSE
