SPECIFICATION MCSpec
CONSTANTS
  kay = kay
  amy = amy
  Dates = {1, 2}
  Users <- DayUsers
  Custodian = kay
  Grants <- DayGrants
  Keys = {k1, k2}
  Reasons = {"lost"}
  Counts = {0, 1}
  Instruments = {chq}
  MaxValue = 3
  MaxPostings = 2
  MaxRequests = 3
  MaxCycles = 2
  Nothing = Nothing
  NoReason = NoReason
  DayParts = {"closing", "queue"}
  Radix = 10
  Places = 2
  CeilingPlaces = 3
  SourcePlaces = 2
  BasePlaces = 1
  Amounts <- MCAmounts
  Rates <- MCRates
  Ceiling = 300
  Floors <- MCFloors
  Withheld = 50
  Positions <- MCPositions
  ListRows = {1, 2, 3}
  MaxMs = 1
  Micros = {0, 1}
  Limits = {1, 2}
  ReportRows = {1, 2, 3, 4}
  ReportGrants = {"ends", "middle"}
  Covers <- MCCovers
  PageSize = 1
  PerMs = 2
  MaxChanges = 2
  Unused = Unused
SYMMETRY Symmetric
INVARIANTS
  DaysAreSound
  AmountsSurvive
  PagesFitTogether
PROPERTY
  CashIsKept
CHECK_DEADLOCK FALSE
