SPECIFICATION TimersSpec
CONSTANTS
    timer = timer
    hand = hand
    Timer = timer
    ByHand = {hand}
    NumUsers = 1
    Dates = {1, 2}
    MaxPerHour = 1
    MaxCrashes = 1
    Loop = timer
    Hands = {hand}
    LastLaborDay = 2
    NoDate = NoDate
    ChunkDays = 2
    IncrementalDays = 2
    RecentDays = 3
    CorrectionDays = 1
    Glimpses <- NothingOrDayZero
    MaxCorrections = 1
    MaxStops = 1
INVARIANTS TypeOK OneEventPerHash NoRepeats SentIsMailed LaborTypeOK FinalDaysAreLoaded
PROPERTIES AlertsGoOut CorrectionsArrive
