SPECIFICATION Spec
CONSTANTS
  MaxNodes = 8
  MaxDepth = 2
  NrFeatures = 2
  MaxValue = 2
  Jobs <- MCJobs
  Weights <- MCWeights
  PubJobs <- Published
  RelReduction = 1
  Readers = {r1}
  MaxGen = 3
CONSTRAINT WideAlone
INVARIANTS FitPublishable AnswersFromSamples EntriesIntact TornOnlyIfLapped
PROPERTY ImplementsRegister
