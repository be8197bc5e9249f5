SPECIFICATION FairSpec
CONSTANTS
  alias = alias
  address = address
  NoShape = NoShape
  NoVersion = NoVersion
  Supported <- MCSupported
  MinSupported <- MCMin
  MaxSupported <- MCMax
  Fallback <- MCMin
  Clients <- MCClients
  Hostnames <- MCHostnames
  Offers <- MCOffers
INVARIANTS TypeOK AnswerWins AbsentIsReported
PROPERTY CreationEnds
