\* The linear hash table through an expansion, against its abstraction.
CONSTANTS
  n1 = n1  n2 = n2  n3 = n3  k1 = k1  k2 = k2  k3 = k3
  Node = {n1, n2, n3}
  NoNode = NoNode
  Key = {k1, k2, k3}
  Fold <- MCFold
  HASH_BUCKET_SIZE_BEGIN = 2
  HASH_BUCKET_SIZE_MAX = 4
  HASH_COLLISIONS = 1
SPECIFICATION Spec
INVARIANTS
  TypeOK
  LinearHashing
PROPERTIES
  HashSetsSpec
