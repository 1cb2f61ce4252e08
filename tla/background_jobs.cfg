\* Two launches for one task node that share a command, one failed save, a
\* restart; on Windows, and elsewhere, where runners leave zombies.
CONSTANTS
  build = build
  server = server
  n1 = n1
  NoOwner = NoOwner
  MaxJobs = 2
  MaxBundles = 2
  Commands <- TwoCommands
  Checks <- OneCheck
  Requests <- SameNode
  MaxFailures = 1
  MaxRestarts = 1
SPECIFICATION Spec
INVARIANTS EvidenceIsEarned BundleVerdictAgrees OneRunPerCommand
PROPERTIES VerdictIsFinal OverriddenStays
