SPECIFICATION FairAnySpec
CONSTANTS
 Keys = {0,1,2,3,4,5,6,7,8,9,10,11,12,13,14,15,16,17,18,19,20,21,22,23,24,25,26,27,28,29,30,31,32,33,34,35,36,37,38,39,40}
 Vals = {0,1}
 ZeroVal = 0
 LeafMax = 5
 InnerMax = 5
 LowerBound <- BinarySearch
 Preloads = {5}
 Orders = {"up"}
 Drains = {}
 MaxRemovals = 0
 RemovedKeys = {}
 MaxCalls = 1
 CallKeys = {1,3,5,7,9}
 Ops = {"Remove"}
PROPERTIES RemovedIsGone
