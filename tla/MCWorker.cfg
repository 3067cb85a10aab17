SPECIFICATION FairSpec
INVARIANTS NoOrphan RunningIsWatched AnswerIsComing WorkerInv
PROPERTIES LifeSpec ContextEndsRun CrashIsRepaired
CHECK_DEADLOCK FALSE
