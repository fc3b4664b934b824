\* One request at a time, on the curated table and two catalogs.
CONSTANTS
  KeyEntries <- MCKeyEntries
  HeaderSets <- MCHeaderSets
  RequestSet <- MCRequestSet
  Catalogs <- MCCatalogs
  Scripts <- MCScripts
  Counts <- MCCounts
  TokenModulus = 16
SPECIFICATION DispatchSpec
INVARIANTS DispatchTypeOK IdentityIsKeys OwnKeyOnly AutoNeverStrands AutoChoosesWell ChargedAsReserved UsageFaithful
PROPERTIES CuratedWins
