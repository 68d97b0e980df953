SPECIFICATION ServerSpec
CONSTANTS
  Offered <- FewValues
  MaxFlags = 2
  Absent = Absent
  Unresolved = Unresolved
  Refused = Refused
  Methods <- AllMethods
  Paths <- SomePaths
  Claims <- SomeClaims
  Null = Null
  NoExchange = NoExchange
INVARIANTS ServerTypeOK ConfigAsDocumented FailedStartOnlyMints DispatchByTable RefusedChangesNothing AdminGuarded GrantsExact
PROPERTY GarbledKept
