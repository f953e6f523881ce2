\* Three processes, a crash, the import command run up to three times.
\* In the end everything is done.
SPECIFICATION FairSpec
CHECK_DEADLOCK FALSE
CONSTANTS
  Processes = {"server", "import1", "import2"}
  Importers = {"import1", "import2"}
  LegacyFiles <- MCLegacyFiles
  MaxCrashes = 1
  MaxImports = 3
INVARIANTS LedgerIsTrue ImportWhole
PROPERTIES EveryoneStarts
