\* Each flow of the host, with other clients; sessions end and catalogs fill up.
SPECIFICATION FairSpec
CONSTANTS
  alice = alice  bob = bob  own = own  stranger = stranger
  read = read  write = write  offer = offer  other = other
  None = None
  Entries <- MCEntries
  Defaults <- MCDefaults
  Publishable <- MCPublishable
  PageSize = 2
  Echo = 6  ConfirmPreview = 2  DeferredEcho = 4
  TasksEnabled = TRUE
  Previews = {offer, other}
  Clients = {alice, bob, demo}
  HostName = demo
  HostPreview = offer
  OfferLists <- MCOffers
  Requests <- MCRequests
  Scopes = {read, write}
  Tokens = {own, bob, stranger}
  TokenScopes <- MCTokenScopes
  TokenSubject <- MCTokenSubject
  TokenForUs <- MCTokenForUs
  Policy <- MCPolicy
  Posts <- MCPosts
CHECK_DEADLOCK FALSE
INVARIANTS
  ListingFaithful
  ErasAgree
  LegacyResultsAreFinal
  RanAsAuthorised
  ConfirmedAsAsked
  SessionsSucceed
PROPERTIES
  SessionsEnd
