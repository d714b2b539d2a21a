CONSTANTS
  Client = {x, y, z}
  MaxClients = 2
  Nobody = Nobody
  File = {f}
  Buffer = 2
SPECIFICATION FairNetSpec
INVARIANTS AnswersOwnRequest
PROPERTIES RequestsRead SlotsFreed
