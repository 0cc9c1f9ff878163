SPECIFICATION Spec
CONSTANTS
  Programs <- AllPrograms
  LineOf <- MCLineOf
  Begins <- MCBegins
  HasWord <- MCHasWord
  Rank <- MCRank
  Supported <- MCSupported
INVARIANTS
  ScopeFollowsSource
  EachStatementOnce
  NestsAsInSource
  SameOrder
  NamesResolve
  OptionsExist
  MatchesGolden
  ScopesAreATree
PROPERTIES
  Compiles
  SymbolsStay
