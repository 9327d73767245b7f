CONSTANTS
  ann = ann
  bob = bob
  eve = eve
  Clients = {ann, bob, eve}
  Fds = {1, 2, 3}
  MaxHandles = 2
  Names <- TestNames
  Lines <- TestLines
  MAX_HANDLE_LENGTH = 3
  MAX_MESSAGE_LENGTH = 5
  MAX_DEST_HANDLES = 2
  MAXBUF = 14
  MaxCommands = 2
SPECIFICATION FairSpec
INVARIANTS TableSound AddressedOnly DropExplained ListComplete
PROPERTIES HandleFreed ImplementsRegistry
