SPECIFICATION PlanningSpec
CONSTANTS
  r1 = r1
  r2 = r2
  p1 = p1
  p2 = p2
  s1 = s1
  s2 = s2
  t1 = t1
  t2 = t2
  Writers = {w1, w2, w3}
  Rooms <- MCRooms
  Speakers <- MCSpeakers
  Sessions <- MCSessions
  TicketTypes <- MCTicketTypes
  FirstRoom = r1
  FirstSpeaker = p1
  FirstSession = s1
  FirstTicketType = t1
  New = New
  Slots <- MCSlots
  MaxCapacity = 2
SYMMETRY Symmetry
INVARIANTS
  NobodyTwice
  PlanInsideEvent
PROPERTIES
  StatusMovesOn
CHECK_DEADLOCK FALSE
