CONSTANT MaxVersion = 3
SPECIFICATION FairSpec
INVARIANTS ServesPromoted
PROPERTIES ImplementsServing ProductionRises SchedulerGoesOn
