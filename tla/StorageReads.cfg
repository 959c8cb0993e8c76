\* Reads of a key on which the two hash functions disagree.
CONSTANTS
    k1 = k1
    k2 = k2
    k3 = k3
    k4 = k4
    b1 = b1
    b2 = b2
    Key <- MCKey
    Value = {v1, v2}
    None = None
    Bucket <- MCBucket
    hash <- MChash
    hash_func <- MChash_func
SPECIFICATION Spec
INVARIANT
    ReadsSeeWrites
