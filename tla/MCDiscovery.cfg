\* Three passes, one change and one failed call.
SPECIFICATION Spec
CONSTANTS
  None = None
  Settings <- MCSettings
  Changes <- MCChanges
  KubeKinds <- AllKubeKinds
  MaxPasses = 3
  MaxChanges = 1
  MaxFaults = 1
INVARIANTS TypeOK GraphIsWellFormed MissingIsReported
PROPERTY SteadyGraph
