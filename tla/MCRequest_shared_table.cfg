SPECIFICATION Spec
CONSTANTS
  ListSize = 23
  Overhead = 3
  MaxTable = 12
  Static <- MCStatic
  MaxResources = 2
  GET <- MCGET
  Methods <- MCMethods
  Paths <- MCPaths
  ValidPaths <- MCValidPaths
  ContentTypes <- MCTypes
  Calls <- MCCalls
  AllowedTypes <- MCAllowedTypes
  Handlers = {"long", "fails"}
  METHOD <- MCMETHOD
  SCHEME <- MCSCHEME
  PATH <- MCPATH
  CONNECTION <- MCCONNECTION
  TE <- MCTE
  TRAILERS <- MCTRAILERS
  STATUS <- MCSTATUS
  CONTENT_TYPE <- MCCONTENT_TYPE
  CONTENT_LENGTH <- MCCONTENT_LENGTH
  MaxPath = 4
  BufSize = 2
  Returns <- MCReturns
  Requests <- IndexedRequests
  Indexing = TRUE
  Resizing = {"none"}
  Sizes = {6, 12}
  MaxQueue = 1
INVARIANTS
  RequestsRead
CHECK_DEADLOCK FALSE
