SPECIFICATION FairSpec
CONSTANT Threads = {t1, t2}
INVARIANT StartReachesTheRunner
