CONSTANT MaxFailures = 5
SPECIFICATION FairSpec
INVARIANTS TypeOK NeverStranded LeaksBounded BlindOnlyIfOvertaken
PROPERTIES HealthyKept Recovers ImplementsFeed
CHECK_DEADLOCK FALSE
