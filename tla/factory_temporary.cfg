SPECIFICATION PSpec
CONSTANTS
 Keys = {0,1,2,3,4,5,6,7,8,9,10,11,12,13,14,15,16,17,18,19,20,21,22,23,24,25,26,27,28}
 Vals = {0,1}
 ZeroVal = 0
 LeafMax = 5
 InnerMax = 5
 LowerBound <- BinarySearch
 Dead = 99
 TestNum = 10
 Preloads = {5,14}
 Orders = {"up","down"}
 MaxCalls = 4
 CallKeys = {0,1,3,5,7,28}
 Names = {"engine"}
INVARIANTS DefaultsInserted
