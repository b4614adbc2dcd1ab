\* Three sessions in one bucket, a worker with its two threads.
CONSTANTS
  k1 = k1  k2 = k2
  s1 = s1  s2 = s2  s3 = s3
  Key = {k1, k2}
  Bucket = {0}
  Hash <- OneBucket
  Workers = 1
  Sess = {s1, s2, s3}
  Nil = Nil
  Modulus = 4
SPECIFICATION Spec
SYMMETRY Symmetry
CHECK_DEADLOCK FALSE
INVARIANTS ListsIntact OneSessionPerKey SessionsCounted
