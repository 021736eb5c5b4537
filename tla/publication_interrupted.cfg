\* A report rewritten inside its bundle, interrupted.
SPECIFICATION PublicationSpec
CONSTANTS
  Writers = {"rewrite"}
  MaxWrites = 1
  MaxFailures <- NoFailures
  Interruptible = {"rewrite"}
INVARIANTS PreviousKept
CHECK_DEADLOCK FALSE
