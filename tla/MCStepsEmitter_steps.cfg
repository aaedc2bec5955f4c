SPECIFICATION EmitterSpec
CONSTANTS
  None = None
  Torn = Torn
  Pids = {p1, p2}
  Builds = {1, 2}
  MaxAsks = 2
  StepLists <- MCStepLists
  KasmerSteps <- MCKasmerSteps
  KoreText <- MCKoreText
  CacheKey <- UploadStepsCacheKey
  NoText <- Raised
  Terms <- MCTerms
  Sorts <- MCSorts
  Reserved <- MCReserved
  Definitions <- MCDefinitions
  StepsSort = "Steps"
INVARIANTS
  EntriesWhole
  ServedTextIsCurrent
  EmissionOnCourse
PROPERTIES
  ImplementsStepsCache
  AskedIsServed
