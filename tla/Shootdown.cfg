SPECIFICATION Spec
CONSTANTS
  NumAPs = 2
  Boot = Boot
  User = User
  MaxTicks = 3
  MaxChanges = 2
INVARIANTS
    PendingBitServed
    QuietMeansFlushed
PROPERTIES
    EveryChangeFlushed
