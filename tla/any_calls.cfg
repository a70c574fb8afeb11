SPECIFICATION FairAnySpec
CONSTANTS
 Keys = {0,1,2,3,4,5,6,7,8,9,10,11,12,13,14,15,16,17,18,19,20,21,22,23,24,25,26,27,28,29,30,31,32,33,34,35,36,37,38,39,40}
 Vals = {0,1}
 ZeroVal = 0
 LeafMax = 5
 InnerMax = 5
 LowerBound <- BinarySearch
 Preloads = {5,14}
 Orders = {"up","down"}
 Drains = {10,14,17}
 MaxRemovals = 5
 RemovedKeys = {9,17,21,23,25,27,29}
 MaxCalls = 2
 CallKeys = {0,1,2,5,9,11,12,17,20,23,27,28}
 Ops = {"Insert","Remove","Get","Update"}
INVARIANTS TypeOK SlotsFit Balanced HalfFull
PROPERTIES EveryCallEnds
