SPECIFICATION RoomFairSpec
CONSTANTS
  guest = guest  host = host  a = a  b = b
  g1 = g1  g2 = g2
  Null = Null
  User = {guest, host}
  Sock = {g1, g2}
  Room = {a, b}
  Seats = 2
  SocketsOf <- Clients
  HostOf <- Hosts
  Moderated = {a}
  Lockable = {1}
  MaxGen = 3
PROPERTIES
    NewSessionIsSpared
    OnlyTheGoneAreSwept
    TheGoneLeave
CHECK_DEADLOCK FALSE
