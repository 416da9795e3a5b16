CONSTANTS
  ResolverPayloads <- AnyResolver
  DetailPayloads <- AnyDetail
  Pages <- AnyPage
  MaxEvents = 2
SPECIFICATION Spec
INVARIANTS
  AnyWrapping
  ToleratesGaps
  HistoryFaithful
  NewestKept
  PartiesApart
  SpecificStatus
CHECK_DEADLOCK FALSE
