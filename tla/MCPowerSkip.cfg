CONSTANTS
    t1 = t1  t2 = t2  t3 = t3
    Threads = {t1, t2}
    Big = {4}
    Nobody = Nobody
    CmdThreads = {t1, t2, t3}
    MaxStray = 1
SPECIFICATION GateSpec
INVARIANT CountMeansWhatItSays
