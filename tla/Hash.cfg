\* Three keys in two buckets, two pages of two nodes.
CONSTANTS
    k1 = k1
    k2 = k2
    k3 = k3
    NULL = NULL
    Pages = {p1, p2}
    Word = 2
    HeadSize = 4
    PageSize = 16
    ElemSize = 5
    Keys = {k1, k2, k3}
    Values = {v1, v2}
    HashFun <- MCHashFun
    BucketNum = 2
    CountLimit = 3
SYMMETRY Interchangeable
SPECIFICATION Spec
INVARIANTS TypeOK OnePredecessor NodesAccounted KeysOnce
PROPERTIES ImplementsApi
