SPECIFICATION Spec
CONSTANTS
  Programs <- FncOnly
  LineOf <- MCLineOf
  Begins <- MCBegins
  HasWord <- MCHasWord
  Rank <- MCRank
  Supported <- MCSupported
INVARIANT CallsNameTheirCallee
