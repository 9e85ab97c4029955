SPECIFICATION FairSpec
CONSTANT Crashes = {"adapter", "launcher"}
CONSTANT MaxLaunch = 2
INVARIANTS TypeOK EventsInOrder NoneSurvives
PROPERTIES KilledOnPurpose SessionEnds DebuggeeFollows
CHECK_DEADLOCK FALSE
