CONSTANTS
  ValRange = 8
  BankSize = 4
  Lead = 2
  Ns = {0, 1, 3, 5}
SPECIFICATION FairSpec
INVARIANTS
  SourceContract
  BankIsolation
  PassPlaysOneBank
PROPERTIES
  RepeatIsReported
  StartUpCompletes
