SPECIFICATION Spec
CONSTANTS
  b1 = b1
  b2 = b2
  b3 = b3
  Bookings = {b1, b2, b3}
  Instants <- MCInstants
  MaxFleet = 4
  Day = 24
  Zones <- MCZones
  Walls <- MCWalls
  MaxDays = 4
  FirstWall <- MCFirstWall
  LastWall = 150
  MinDuration = 1
  MaxDuration = 72
  MaxAdvance = 0
  StartGrace = 0
  DaylightSavingAllowance = 1
  HostNames = {"localhost", "127.0.0.1", "rentals.example"}
  MaxEntries = 3
SYMMETRY Symmetry
INVARIANT PeakIsLargestUse
INVARIANT RemainingIsMost
INVARIANT DueWhenTheClockShows
INVARIANT DaysDecideTheLength
INVARIANT ProbeIsAccepted
