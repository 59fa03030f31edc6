CONSTANTS
  Lower <- MCLower
  Numerals <- MCNumerals
  Installed <- NormalizedInstalled
  Environments <- MCEnvironments
  Domains = {"messages", "hddtemp"}
  Queries <- MCQueries
  Directories <- MCDirectories
  DefaultDir <- MCDefaultDir
  Aliases <- MCAliases
  MaxConfigured = 1
  MaxChanges = 1
SPECIFICATION GetTextSpec
INVARIANTS
  LessSpecificFound
CHECK_DEADLOCK FALSE
