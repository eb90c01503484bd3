SPECIFICATION Spec
CONSTANTS
  c1 = c1
  c2 = c2
  i1 = i1
  i2 = i2
  i3 = i3
  p1 = p1
  p2 = p2
  cut = cut
  color = color
  ann = ann
  bob = bob
  Callers <- TwoCallers
  Ids <- TwoIds
  Phones <- TwoPhones
  Services <- BothServices
  Staff <- BothStaff
  Duration <- DurationTable
  Skills <- SkillTable
  StaffList <- StaffOrder
  SlotMinutes = 1
  DayMinutes = 3
  Opens = 0
  Closes = 3
  HorizonDays = 0
  ClosedDays <- NoDays
  Starts <- WholeDay
  LastMinute = 1
  MaxChanges = 3
  NoCaller = NoCaller
  NoReservation = NoReservation
  Anyone = Anyone
  Same = Same
SYMMETRY Symmetry
INVARIANTS
  BookIsSound
  CommittedSurvives
PROPERTIES
  ReservationsEvolve
