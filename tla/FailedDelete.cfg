SPECIFICATION Spec
CONSTANTS
  Nodes <- mcNodes
  Schema <- mcSchema
  Cases <- mcCases
  Inputs <- mcInputs
  Number <- mcNumber
  UIntMod = 8
  Indexes <- mcIndexes
  MaxFacts = 5
  Self = "self"
  None = "none"
INVARIANT FailureLosesNothing
