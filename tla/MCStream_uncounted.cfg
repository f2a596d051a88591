CONSTANTS
  MaxProviders = 2  MaxTokens = 1  InsertMayFail = FALSE
SPECIFICATION Spec
INVARIANTS CleanFinishIsCounted
