CONSTANTS
  ResolverPayloads <- AnyResolver
  DetailPayloads <- AnyDetail
  Pages <- AnyPage
  MaxEvents = 2
SPECIFICATION Spec
INVARIANTS
  FailsInTaxonomy
CHECK_DEADLOCK FALSE
