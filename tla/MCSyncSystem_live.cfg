CONSTANTS
  room = room
  none = none
  r1 = r1
  r2 = r2
  owner = owner
  editor = editor
  bad = bad
  Room = {room}
  NoRoom = none
  NoConn = none
  Replica = {r1, r2}
  RoomOf <- MCRoomOf
  Tokens <- MCTokens
  Grants <- MCGrants
  DefaultLevel <- MCEditors
  TokenChoices <- MCSame
  MaxConns = 3
  Conn <- MCConn
  Op <- MCOp
  MaxQueue = 4
  MaxOpens = 2
  Asked = {"Viewer"}
  Edits = 1
  Moves = 0
  Accesses = 0
  Breaks = 1
  Leaves = 0
  Budget <- MCBudget
  MaxSpent = 9
  Machines = {"room", "client"}
  Socket = {1, 2, 3, 4}
  NoSocket = null
  QueueLimit = 3
  MaxOps = 2
  MaxCalls = 4
SPECIFICATION ConnectionsFairSpec
INVARIANTS
  RoomsAreServed
  OneSession
PROPERTIES
  MembersLearnAll
  NoUnwantedSocket
  Reconnects
CHECK_DEADLOCK FALSE
