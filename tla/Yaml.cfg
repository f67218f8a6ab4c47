SPECIFICATION Spec
CONSTANTS
  MaxKey = 1024
  MaxFlowLevel = 10000
  MaxIndents = 10000
  BestIndent = 2
  MaxSimple = 128
  LongText = 1100
  Scalars <- SomeScalars
  MaxNodes = 4
  MaxDocuments = 2
  Texts <- SomeTexts
  Columns = {0, 2}
INVARIANTS RoundTrip NeverSurprised SimpleKeysSound BlocksMatch TakesTokens
