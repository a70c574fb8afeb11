SPECIFICATION MCCSpec
CONSTANTS
 Keys = {0,1,2,3,4,5,6,7,8,9,10,11,12,13,14,15}
 Vals = {0,1}
 ZeroVal = 0
 LeafMax = 3
 InnerMax = 4
 LowerBound <- BinarySearch
 Threads = {1,2}
 Nobody = 0
 First = 1
 MaxAsks = 3
 AskedOps = {"Insert","Get","Remove","List"}
 AskedKeys <- TwoTrees
INVARIANTS WritersAlone DrawnIsATree
PROPERTIES Linearizable EveryThreadIsAnswered
