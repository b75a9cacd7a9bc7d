\* Two runners over four files, one edited file and two crashes.
SPECIFICATION FairSpec
CONSTANTS
  Runners = {r1, r2}
  Scripts <- MCScripts
  Objects <- MCObjects
  MaxEdits = 1
  MaxCrashes = 2
INVARIANTS
  SchemaIsAsRecorded
  TablesStay
PROPERTY
  RerunCompletes
