\* A few kinds of trouble at a time, without a tool budget; a budget of two
\* tool turns with those that need no text.
SPECIFICATION FairSpec
CONSTANTS
  Setups <- MCSetups
  Bounces = {"wording"}
  BounceLimit <- MCBounceLimit
  Fallbacks = 1
  Extensions = 2
  RepairRounds = 1
  NoProgressFloor = 2
INVARIANTS
  ReviewCovers
  UnverifiedIsNamed
PROPERTIES
  BudgetEnds
  TurnEnds
CHECK_DEADLOCK FALSE
