SPECIFICATION FairSpec
CONSTANT Threads = {t1, t2}
PROPERTY StopEndsTheRun
