CONSTANTS
  Lower <- MCLower
  Numerals <- MCNumerals
  Installed <- MCInstalled
  Environments <- MCEnvironments
  Domains = {"messages", "hddtemp"}
  Queries <- MCQueries
  Directories <- MCDirectories
  DefaultDir <- MCDefaultDir
  Aliases <- MCAliases
  MaxConfigured = 2
  MaxChanges = 1
SPECIFICATION GetTextSpec
CONSTRAINT FewChanges
INVARIANTS
  OwnCatalogs
PROPERTIES
  ImplementsTranslations
CHECK_DEADLOCK FALSE
