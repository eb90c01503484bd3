SPECIFICATION Spec
CONSTANTS
  s1 = s1
  i1 = i1
  i2 = i2
  p1 = p1
  p2 = p2
  cut = cut
  ann = ann
  kim = kim
  Sessions <- OneSession
  Ids <- TwoIds
  Phones <- OnePhone
  Names <- OneName
  Services <- OneService
  Staff <- OneStaff
  Duration <- DurationTable
  Skills <- SkillTable
  StaffList <- StaffOrder
  SlotMinutes = 1
  DayMinutes = 2
  Opens = 0
  Closes = 2
  HorizonDays = 2
  ClosedDays <- SecondDay
  Starts <- TwoStarts
  LastMinute = 1
  MaxVersion = 2
  NoReservation = NoReservation
  Anyone = Anyone
  Same = Same
  Unset = Unset
  NoCall = NoCall
  Nothing = Nothing
  Garbled = Garbled
  Silent = Silent
  Rejected = Rejected
SYMMETRY Symmetry
INVARIANTS
  CallIsSound
PROPERTIES
  WritesAreProposed
  RulesWriteTheProposal
  RulesUseOwnDetails
