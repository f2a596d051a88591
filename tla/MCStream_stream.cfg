CONSTANTS
  MaxProviders = 2  MaxTokens = 2  InsertMayFail = TRUE
SPECIFICATION FairSpec
INVARIANTS TypeOK ErrorIsReal LogsCleanFinish
PROPERTIES AnswerSpec NoneStranded
