SPECIFICATION PmSpec
CONSTANTS
 Threads = {1,2}
 Indexes = {11,12}
 Nobody = 0
 MaxPid = 3
INVARIANTS OwnPages
CHECK_DEADLOCK FALSE
