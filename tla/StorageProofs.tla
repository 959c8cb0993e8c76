---------------------------- MODULE StorageProofs ----------------------------
(***************************************************************************)
(* For any keys, values, buckets and pair of hash functions: a key has one *)
(* entry at most, and the table implements a map of the keys on which the  *)
(* two functions agree.                                                    *)
(***************************************************************************)
EXTENDS Storage, SequenceTheorems, TLAPS

----------------------------------------------------------------------------
(* Chains with unique keys *)

\* A chain that has a key has it at one place, which Position names.
LEMMA PositionUnique ==
    ASSUME NEW chain \in Seq(Entry), Unique(chain), NEW i \in DOMAIN chain
    PROVE  Present(chain, chain[i].key) /\ Position(chain, chain[i].key) = i
  <1> DEFINE k == chain[i].key
  <1>1. \A j \in 1 .. i - 1 : j \in DOMAIN chain /\ j # i
    OBVIOUS
  <1>2. \A j \in 1 .. i - 1 : chain[j].key # k
    BY <1>1 DEF Unique
  <1>3. \A m \in DOMAIN chain : chain[m].key = k => m = i
    BY DEF Unique
  <1> QED
    BY <1>2, <1>3 DEF Present, Position

\* The value found is that of the entry with the key.
LEMMA LookupFinds ==
    ASSUME NEW chain \in Seq(Entry), Unique(chain), NEW i \in DOMAIN chain
    PROVE  Lookup(chain, chain[i].key) = chain[i].value
  BY PositionUnique DEF Lookup

\* A chain answers for its keys with their values and for no other key.
LEMMA LookupTyped ==
    ASSUME NEW chain \in Seq(Entry), Unique(chain), NEW k
    PROVE  Lookup(chain, k) \in Value \cup {None}
  <1>1. CASE Present(chain, k)
    <2>1. PICK i \in DOMAIN chain : chain[i].key = k
      BY <1>1 DEF Present
    <2>2. Lookup(chain, k) = chain[i].value
      BY <2>1, LookupFinds
    <2>3. chain[i] \in Entry
      OBVIOUS
    <2> QED
      BY <2>2, <2>3 DEF Entry
  <1>2. CASE ~Present(chain, k)
    BY <1>2 DEF Lookup
  <1> QED
    BY <1>1, <1>2

\* Two chains have the same entries, in whatever order, but for those of one key.
SameBut(c, d, k) ==
    /\ \A i \in DOMAIN c : c[i].key # k => \E j \in DOMAIN d : d[j] = c[i]
    /\ \A j \in DOMAIN d : d[j].key # k => \E i \in DOMAIN c : d[j] = c[i]

\* Such chains answer alike for every other key.
LEMMA LookupElsewhere ==
    ASSUME NEW c \in Seq(Entry), Unique(c), NEW d \in Seq(Entry), Unique(d), NEW k,
           SameBut(c, d, k)
    PROVE  \A q : q # k => Lookup(c, q) = Lookup(d, q)
  <1> SUFFICES ASSUME NEW q, q # k PROVE Lookup(c, q) = Lookup(d, q)
    OBVIOUS
  <1>1. CASE Present(c, q)
    <2>1. PICK i \in DOMAIN c : c[i].key = q
      BY <1>1 DEF Present
    <2>2. PICK j \in DOMAIN d : d[j] = c[i]
      BY <2>1 DEF SameBut
    <2>3. Lookup(c, q) = c[i].value
      BY <2>1, LookupFinds
    <2>4. Lookup(d, q) = d[j].value
      BY <2>1, <2>2, LookupFinds
    <2> QED
      BY <2>2, <2>3, <2>4
  <1>2. CASE ~Present(c, q)
    <2>1. ~Present(d, q)
      BY <1>2 DEF Present, SameBut
    <2> QED
      BY <1>2, <2>1 DEF Lookup
  <1> QED
    BY <1>1, <1>2

\* What a put leaves in a chain.
LEMMA PutShape ==
    ASSUME NEW chain \in Seq(Entry), Unique(chain), NEW k \in Key, NEW v \in Value
    PROVE  /\ PutIn(chain, k, v) \in Seq(Entry)
           /\ Unique(PutIn(chain, k, v))
           /\ Lookup(PutIn(chain, k, v), k) = v
           /\ \A q : q # k => Lookup(PutIn(chain, k, v), q) = Lookup(chain, q)
           /\ \A i \in DOMAIN PutIn(chain, k, v) :
                 \/ PutIn(chain, k, v)[i].key = k
                 \/ \E j \in DOMAIN chain : PutIn(chain, k, v)[i] = chain[j]
  <1> DEFINE e == [key |-> k, value |-> v]
             d == PutIn(chain, k, v)
  <1>0. e \in Entry /\ e.key = k /\ e.value = v
    BY DEF Entry
  <1>1. CASE Present(chain, k)
    <2>1. PICK p \in DOMAIN chain : chain[p].key = k
      BY <1>1 DEF Present
    <2>2. d = [chain EXCEPT ![p] = e]
      BY <1>1, <2>1, PositionUnique DEF PutIn
    <2> HIDE DEF d
    <2>3. d \in Seq(Entry) /\ DOMAIN d = DOMAIN chain
      BY <1>0, <2>2
    <2>4. d[p] = e /\ \A i \in DOMAIN d : i # p => d[i] = chain[i]
      BY <2>2
    <2>5. \A i \in DOMAIN d : d[i].key = chain[i].key
      BY <1>0, <2>1, <2>3, <2>4
    <2>6. Unique(d)
      BY <2>3, <2>5 DEF Unique
    <2>7. Lookup(d, k) = v
      BY <1>0, <2>1, <2>3, <2>4, <2>6, LookupFinds
    <2>8. \A i \in DOMAIN d : d[i].key # k => \E j \in DOMAIN chain : d[i] = chain[j]
      BY <1>0, <2>3, <2>4
    <2>9. \A j \in DOMAIN chain : chain[j].key # k => \E i \in DOMAIN d : d[i] = chain[j]
      BY <2>1, <2>3, <2>4
    <2>10. \A q : q # k => Lookup(chain, q) = Lookup(d, q)
      <3>1. SameBut(chain, d, k)
        BY <2>8, <2>9 DEF SameBut
      <3> QED
        BY <2>3, <2>6, <3>1, LookupElsewhere
    <2> QED
      BY <2>3, <2>6, <2>7, <2>8, <2>10 DEF d
  <1>2. CASE ~Present(chain, k)
    <2>1. d = <<e>> \o chain
      BY <1>2 DEF PutIn, AddHead
    <2> HIDE DEF d
    <2>2. <<e>> \in Seq(Entry) /\ Len(<<e>>) = 1 /\ <<e>>[1] = e
      BY <1>0
    <2> HIDE DEF e
    <2>3. /\ d \in Seq(Entry)
          /\ Len(d) = 1 + Len(chain)
          /\ \A i \in 1 .. 1 + Len(chain) : d[i] = IF i <= 1 THEN <<e>>[i] ELSE chain[i - 1]
      BY <2>1, <2>2, ConcatProperties
    <2>4. DOMAIN d = 1 .. Len(chain) + 1 /\ DOMAIN chain = 1 .. Len(chain)
      BY <2>3
    <2>5. d[1] = e /\ \A i \in DOMAIN d \ {1} : i - 1 \in DOMAIN chain /\ d[i] = chain[i - 1]
      BY <2>2, <2>3, <2>4
    <2>6. \A j \in DOMAIN chain : j + 1 \in DOMAIN d /\ d[j + 1] = chain[j] /\ chain[j].key # k
      BY <1>2, <2>3, <2>4 DEF Present
    <2>7. Unique(d)
      <3> SUFFICES ASSUME NEW i \in DOMAIN d, NEW j \in DOMAIN d, d[i].key = d[j].key
                   PROVE  i = j
        BY DEF Unique
      <3>1. CASE i = 1 \/ j = 1
        BY <1>0, <2>5, <2>6, <3>1
      <3>2. CASE i # 1 /\ j # 1
        <4>1. i - 1 = j - 1
          BY <2>5, <3>2 DEF Unique
        <4> QED
          BY <2>4, <4>1
      <3> QED
        BY <3>1, <3>2
    <2>8. Lookup(d, k) = v
      <3>1. 1 \in DOMAIN d
        BY <2>4
      <3> QED
        BY <1>0, <2>3, <2>5, <2>7, <3>1, LookupFinds
    <2>9. \A i \in DOMAIN d : d[i].key # k => \E j \in DOMAIN chain : d[i] = chain[j]
      BY <1>0, <2>5
    <2>10. \A j \in DOMAIN chain : chain[j].key # k => \E i \in DOMAIN d : d[i] = chain[j]
      BY <2>6
    <2>11. \A q : q # k => Lookup(chain, q) = Lookup(d, q)
      <3>1. SameBut(chain, d, k)
        BY <2>9, <2>10 DEF SameBut
      <3> QED
        BY <2>3, <2>7, <3>1, LookupElsewhere
    <2> QED
      BY <2>3, <2>7, <2>8, <2>9, <2>11 DEF d
  <1> QED
    BY <1>1, <1>2

\* The entries of a chain from which one has been unlinked.
LEMMA RemoveShape ==
    ASSUME NEW chain \in Seq(Entry), NEW p \in DOMAIN chain
    PROVE  /\ RemoveAt(chain, p) \in Seq(Entry)
           /\ Len(RemoveAt(chain, p)) = Len(chain) - 1
           /\ \A i \in 1 .. Len(chain) - 1 :
                 RemoveAt(chain, p)[i] = IF i < p THEN chain[i] ELSE chain[i + 1]
  <1> DEFINE front == SubSeq(chain, 1, p - 1)
             back == SubSeq(chain, p + 1, Len(chain))
  <1>1. /\ Len(chain) \in Nat
        /\ p \in 1 .. Len(chain)
        /\ \A i \in 1 .. Len(chain) : chain[i] \in Entry
    OBVIOUS
  <1>2. /\ front \in Seq(Entry)
        /\ Len(front) = p - 1
        /\ \A i \in 1 .. p - 1 : front[i] = chain[i]
    <2>1. \A i \in 1 .. p - 1 : chain[i] \in Entry
      BY <1>1
    <2>2. 1 \in Int /\ p - 1 \in Int
      BY <1>1
    <2>3. /\ front \in Seq(Entry)
          /\ Len(front) = IF 1 <= p - 1 THEN (p - 1) - 1 + 1 ELSE 0
          /\ \A i \in 1 .. (p - 1) - 1 + 1 : front[i] = chain[1 + i - 1]
      BY <2>1, <2>2, SubSeqProperties
    <2> HIDE DEF front
    <2> QED
      BY <1>1, <2>3
  <1>3. /\ back \in Seq(Entry)
        /\ Len(back) = Len(chain) - p
        /\ \A i \in 1 .. Len(chain) - p : back[i] = chain[p + i]
    <2>1. \A i \in p + 1 .. Len(chain) : chain[i] \in Entry
      BY <1>1
    <2>2. p + 1 \in Int /\ Len(chain) \in Int
      BY <1>1
    <2>3. /\ back \in Seq(Entry)
          /\ Len(back) = IF p + 1 <= Len(chain) THEN Len(chain) - (p + 1) + 1 ELSE 0
          /\ \A i \in 1 .. Len(chain) - (p + 1) + 1 : back[i] = chain[(p + 1) + i - 1]
      BY <2>1, <2>2, SubSeqProperties
    <2> HIDE DEF back
    <2>4. Len(chain) - (p + 1) + 1 = Len(chain) - p
      BY <1>1
    <2>5. Len(back) = Len(chain) - p
      BY <1>1, <2>3, <2>4
    <2>6. ASSUME NEW i \in 1 .. Len(chain) - p PROVE back[i] = chain[p + i]
      <3>1. (p + 1) + i - 1 = p + i
        BY <1>1
      <3>2. back[i] = chain[(p + 1) + i - 1]
        BY <2>3, <2>4
      <3> QED
        BY <3>1, <3>2
    <2> QED
      BY <2>3, <2>5, <2>6
  <1>4. RemoveAt(chain, p) = front \o back
    BY DEF RemoveAt
  <1> HIDE DEF front, back
  <1>5. /\ front \o back \in Seq(Entry)
        /\ Len(front \o back) = Len(front) + Len(back)
        /\ \A i \in 1 .. Len(front) + Len(back) :
              (front \o back)[i] = IF i <= Len(front) THEN front[i] ELSE back[i - Len(front)]
    BY <1>2, <1>3, ConcatProperties
  <1>6. ASSUME NEW i \in 1 .. Len(chain) - 1
        PROVE  (front \o back)[i] = IF i < p THEN chain[i] ELSE chain[i + 1]
    <2>1. i \in 1 .. Len(front) + Len(back) /\ i - Len(front) = i - p + 1
      BY <1>1, <1>2, <1>3
    <2>0. (front \o back)[i] = IF i <= Len(front) THEN front[i] ELSE back[i - Len(front)]
      BY <1>5, <2>1
    <2>1a. i <= Len(front) <=> i < p
      BY <1>1, <1>2
    <2>2. CASE i < p
      <3>1. i \in 1 .. p - 1
        BY <1>1, <2>2
      <3> QED
        BY <1>2, <2>0, <2>1a, <2>2, <3>1
    <2>3. CASE ~(i < p)
      <3>1. (front \o back)[i] = back[i - p + 1]
        BY <2>0, <2>1, <2>1a, <2>3
      <3>2. i - p + 1 \in 1 .. Len(chain) - p /\ p + (i - p + 1) = i + 1
        BY <1>1, <2>3
      <3> QED
        BY <1>3, <2>3, <3>1, <3>2
    <2> QED
      BY <2>2, <2>3
  <1>7. Len(front) + Len(back) = Len(chain) - 1
    BY <1>1, <1>2, <1>3
  <1> QED
    BY <1>4, <1>5, <1>6, <1>7

\* What a delete leaves in a chain.
LEMMA DeleteShape ==
    ASSUME NEW chain \in Seq(Entry), Unique(chain), NEW k \in Key
    PROVE  /\ DeleteFrom(chain, k) \in Seq(Entry)
           /\ Unique(DeleteFrom(chain, k))
           /\ Lookup(DeleteFrom(chain, k), k) = None
           /\ \A q : q # k => Lookup(DeleteFrom(chain, k), q) = Lookup(chain, q)
           /\ \A i \in DOMAIN DeleteFrom(chain, k) :
                 \E j \in DOMAIN chain : DeleteFrom(chain, k)[i] = chain[j]
  <1>1. CASE ~Present(chain, k)
    BY <1>1 DEF DeleteFrom, Lookup
  <1>2. CASE Present(chain, k)
    <2> DEFINE d == DeleteFrom(chain, k)
    <2>1. PICK p \in DOMAIN chain : chain[p].key = k
      BY <1>2 DEF Present
    <2>2. d = RemoveAt(chain, p)
      BY <1>2, <2>1, PositionUnique DEF DeleteFrom
    <2> HIDE DEF d
    <2>3. /\ d \in Seq(Entry)
          /\ Len(d) = Len(chain) - 1
          /\ \A i \in 1 .. Len(chain) - 1 : d[i] = IF i < p THEN chain[i] ELSE chain[i + 1]
      BY <2>2, RemoveShape
    <2>4. Len(chain) \in Nat /\ DOMAIN d = 1 .. Len(chain) - 1 /\ DOMAIN chain = 1 .. Len(chain)
      BY <2>3
    <2> DEFINE from(i) == IF i < p THEN i ELSE i + 1
    <2>5. \A i \in DOMAIN d : from(i) \in DOMAIN chain /\ from(i) # p /\ d[i] = chain[from(i)]
      BY <2>3, <2>4
    <2>6. \A i, j \in DOMAIN d : from(i) = from(j) => i = j
      BY <2>4
    <2>7. \A j \in DOMAIN chain : j # p => \E i \in DOMAIN d : from(i) = j
      <3> SUFFICES ASSUME NEW j \in DOMAIN chain, j # p
                   PROVE  \E i \in DOMAIN d : from(i) = j
        OBVIOUS
      <3>1. CASE j < p
        BY <2>4, <3>1
      <3>2. CASE j > p
        <4>1. j - 1 \in DOMAIN d /\ from(j - 1) = j
          BY <2>4, <3>2
        <4> QED
          BY <4>1
      <3> QED
        BY <2>4, <3>1, <3>2
    <2> HIDE DEF from
    <2>8. Unique(d)
      BY <2>5, <2>6 DEF Unique
    <2>9. \A i \in DOMAIN d : d[i].key # k
      BY <2>1, <2>5 DEF Unique
    <2>10. Lookup(d, k) = None
      BY <2>9 DEF Lookup, Present
    <2>11. \A i \in DOMAIN d : \E j \in DOMAIN chain : d[i] = chain[j]
      BY <2>5
    <2>12. \A j \in DOMAIN chain : chain[j].key # k => \E i \in DOMAIN d : d[i] = chain[j]
      BY <2>1, <2>5, <2>7
    <2>13. \A q : q # k => Lookup(chain, q) = Lookup(d, q)
      <3>1. SameBut(chain, d, k)
        BY <2>11, <2>12 DEF SameBut
      <3> QED
        BY <2>3, <2>8, <3>1, LookupElsewhere
    <2> QED
      BY <2>3, <2>8, <2>10, <2>11, <2>13 DEF d
  <1> QED
    BY <1>1, <1>2

----------------------------------------------------------------------------
(* The table *)

\* Chain d is chain c but for the entry of k, which now has the value x (or is gone).
Replaces(d, c, k, x) ==
    /\ d \in Seq(Entry) /\ Unique(d)
    /\ Lookup(d, k) = x
    /\ \A q : q # k => Lookup(d, q) = Lookup(c, q)
    /\ \A i \in DOMAIN d : d[i].key = k \/ \E j \in DOMAIN c : d[i] = c[j]

\* If the chain of a key's bucket is so replaced, the table stays well formed and
\* what it holds changes for that key alone.
LEMMA ChainReplaced ==
    ASSUME StorageInvariant, NEW k \in Key, NEW d, NEW x,
           entries' = [entries EXCEPT ![hash[k]] = d],
           Replaces(d, entries[hash[k]], k, x)
    PROVE  /\ entries' \in [Bucket -> Seq(Entry)]
           /\ OncePerKey'
           /\ Contents' = [Contents EXCEPT ![k] = x]
  <1> USE DEF Replaces
  <1>0. hash \in [Key -> Bucket] /\ hash[k] \in Bucket
    BY KeyAssumption
  <1>1. /\ entries' \in [Bucket -> Seq(Entry)]
        /\ entries'[hash[k]] = d
        /\ \A b \in Bucket : b # hash[k] => entries'[b] = entries[b]
    BY <1>0 DEF StorageInvariant, TypeOK
  <1>2. OncePerKey'
    <2> SUFFICES ASSUME NEW b \in Bucket
                 PROVE  /\ Unique(entries'[b])
                        /\ \A i \in DOMAIN entries'[b] : hash[entries'[b][i].key] = b
      BY DEF OncePerKey, Unique
    <2>1. CASE b # hash[k]
      BY <1>1, <2>1 DEF StorageInvariant, OncePerKey
    <2>2. CASE b = hash[k]
      <3>1. \A i \in DOMAIN d : hash[d[i].key] = b
        BY <1>0, <2>2 DEF StorageInvariant, OncePerKey
      <3> QED
        BY <1>1, <2>2, <3>1
    <2> QED
      BY <2>1, <2>2
  <1>3. ASSUME NEW q \in Key
        PROVE  Lookup(entries'[hash[q]], q) = IF q = k THEN x ELSE Lookup(entries[hash[q]], q)
    <2>1. CASE q = k
      BY <1>1, <2>1
    <2>2. CASE q # k /\ hash[q] = hash[k]
      BY <1>1, <2>2
    <2>3. CASE q # k /\ hash[q] # hash[k]
      <3>1. hash[q] \in Bucket
        BY <1>0
      <3> QED
        BY <1>1, <2>3, <3>1
    <2> QED
      BY <2>1, <2>2, <2>3
  <1>4. Contents' = [q \in Key |-> Lookup(entries'[hash[q]], q)]
    BY DEF Contents, Lookup, Present, Position
  <1> QED
    BY <1>1, <1>2, <1>3, <1>4 DEF Contents

\* A put: the table stays well formed and holds the new value.
LEMMA PutStep ==
    ASSUME StorageInvariant, NEW k \in Key, NEW v \in Value, hash_put(k, v)
    PROVE  /\ entries' \in [Bucket -> Seq(Entry)]
           /\ OncePerKey'
           /\ Contents' = [Contents EXCEPT ![k] = v]
  <1> DEFINE c == entries[hash[k]]
             d == PutIn(c, k, v)
  <1>1. hash[k] \in Bucket
    BY KeyAssumption
  <1>2. c \in Seq(Entry) /\ Unique(c)
    BY <1>1 DEF StorageInvariant, TypeOK, OncePerKey
  <1>3. entries' = [entries EXCEPT ![hash[k]] = d]
    BY <1>1 DEF hash_put, StorageInvariant, TypeOK
  <1>4. Replaces(d, c, k, v)
    BY <1>2, PutShape DEF Replaces
  <1> HIDE DEF d
  <1> QED
    BY <1>3, <1>4, ChainReplaced

\* A delete: the table stays well formed and holds nothing under the key.
LEMMA DeleteStep ==
    ASSUME StorageInvariant, NEW k \in Key, hash_delete(k)
    PROVE  /\ entries' \in [Bucket -> Seq(Entry)]
           /\ OncePerKey'
           /\ Contents' = [Contents EXCEPT ![k] = None]
  <1> DEFINE c == entries[hash[k]]
             d == DeleteFrom(c, k)
  <1>1. hash[k] \in Bucket
    BY KeyAssumption
  <1>2. c \in Seq(Entry) /\ Unique(c)
    BY <1>1 DEF StorageInvariant, TypeOK, OncePerKey
  <1>3. entries' = [entries EXCEPT ![hash[k]] = d]
    BY <1>1 DEF hash_delete, StorageInvariant, TypeOK
  <1>4. Replaces(d, c, k, None)
    BY <1>2, DeleteShape DEF Replaces
  <1> HIDE DEF d
  <1> QED
    BY <1>3, <1>4, ChainReplaced

\* An empty table is well formed and holds nothing.
LEMMA EmptyStep ==
    ASSUME entries' = EmptyTable
    PROVE  /\ entries' \in [Bucket -> Seq(Entry)]
           /\ OncePerKey'
           /\ Contents' = [k \in Key |-> None]
  <1>1. \A k \in Key : hash[k] \in Bucket
    BY KeyAssumption
  <1>2. << >> \in Seq(Entry) /\ DOMAIN << >> = {}
    OBVIOUS
  <1>3. \A b \in Bucket : entries'[b] = << >>
    BY DEF EmptyTable
  <1>4. OncePerKey'
    BY <1>2, <1>3 DEF OncePerKey, Unique
  <1>5. \A k \in Key : Lookup(entries'[hash[k]], k) = None
    BY <1>1, <1>2, <1>3 DEF Lookup, Present
  <1>6. Contents' = [k \in Key |-> Lookup(entries'[hash[k]], k)]
    BY DEF Contents, Lookup, Present, Position
  <1> QED
    BY <1>2, <1>4, <1>5, <1>6 DEF EmptyTable

\* A step that leaves the chains alone leaves what the table holds alone.
LEMMA SameEntries ==
    ASSUME OncePerKey, entries' = entries
    PROVE  OncePerKey' /\ Contents' = Contents
  BY DEF OncePerKey, Unique, Contents, Lookup, Present, Position

----------------------------------------------------------------------------
(* Every step of the storage *)

\* A load hangs or it does not.
LEMMA LoadTyped == hash_load => hung' \in BOOLEAN
  <1>1. (disk \in Counted) \in BOOLEAN
    OBVIOUS
  <1> QED
    BY <1>1 DEF hash_load

\* Every step keeps the invariant.
LEMMA StorageStep ==
    ASSUME StorageInvariant, [Next]_vars
    PROVE  StorageInvariant'
  <1> USE DEF StorageInvariant, NoTableNoEntries
  <1>1. CASE UNCHANGED vars
    BY <1>1, SameEntries DEF vars, TypeOK
  <1>2. ASSUME NEW k \in Key, NEW v \in Value, dstore_handle_put(k, v)
        PROVE  StorageInvariant'
    <2>1. entries' \in [Bucket -> Seq(Entry)] /\ OncePerKey'
      <3>1. CASE hash_put(k, v)
        BY <3>1, PutStep
      <3>2. CASE UNCHANGED entries
        BY <3>2, SameEntries DEF TypeOK
      <3> QED
        BY <1>2, <3>1, <3>2 DEF dstore_handle_put, db_insert
    <2>2. disk' \in Disk
      BY <1>2 DEF dstore_handle_put, dstore_save_to_rale_db, TypeOK, Disk
    <2>3. NoTableNoEntries'
      BY <1>2 DEF dstore_handle_put, db_insert
    <2> QED
      BY <1>2, <2>1, <2>2, <2>3 DEF dstore_handle_put, TypeOK
  <1>3. ASSUME NEW k \in Key, db_delete(k) PROVE StorageInvariant'
    <2>1. entries' \in [Bucket -> Seq(Entry)] /\ OncePerKey'
      <3>1. CASE hash_delete(k)
        BY <3>1, DeleteStep
      <3>2. CASE UNCHANGED entries
        BY <3>2, SameEntries DEF TypeOK
      <3> QED
        BY <1>3, <3>1, <3>2 DEF db_delete
    <2> QED
      BY <1>3, <2>1 DEF db_delete, TypeOK
  <1>4. ASSUME NEW k \in Key, db_get(k) PROVE StorageInvariant'
    <2>1. hash_func[k] \in Bucket
      BY KeyAssumption
    <2>2. Lookup(entries[hash_func[k]], k) \in Value \cup {None}
      BY <2>1, LookupTyped DEF TypeOK, OncePerKey
    <2>3. OncePerKey'
      BY <1>4, SameEntries DEF db_get
    <2> QED
      BY <1>4, <2>2, <2>3 DEF db_get, TypeOK
  <1>5. CASE db_init
    BY <1>5, EmptyStep, LoadTyped DEF db_init, TypeOK
  <1>6. CASE db_load
    <2>1. CASE allocated
      <3>1. /\ UNCHANGED <<allocated, entries, db_file, disk>>
            /\ answer' = << >> /\ hung' \in BOOLEAN
        BY <1>6, <2>1, LoadTyped DEF db_load
      <3> QED
        BY <3>1, SameEntries DEF TypeOK
    <2>2. CASE ~allocated
      <3>1. Gone /\ answer' = << >> /\ UNCHANGED disk
        BY <1>6, <2>2 DEF db_load
      <3> QED
        BY <3>1, EmptyStep DEF Gone, TypeOK
    <2> QED
      BY <2>1, <2>2
  <1>7. CASE db_save
    <2>1. CASE hash_save
      BY <1>7, <2>1, SameEntries DEF db_save, hash_save, Image, TypeOK, Disk
    <2>2. CASE DieInSave
      BY <1>7, <2>2, EmptyStep DEF db_save, DieInSave, Gone, Image, TypeOK, Disk
    <2> QED
      BY <1>7, <2>1, <2>2 DEF db_save
  <1>8. CASE db_remove
    BY <1>8, SameEntries DEF db_remove, TypeOK, Disk
  <1>9. CASE db_finit
    BY <1>9, EmptyStep DEF db_finit, TypeOK
  <1>10. CASE ProcessEnds
    BY <1>10, EmptyStep DEF ProcessEnds, Gone, TypeOK
  <1> QED
    BY <1>1, <1>2, <1>3, <1>4, <1>5, <1>6, <1>7, <1>8, <1>9, <1>10 DEF Next

\* The invariant holds at the start.
LEMMA StorageInit == Init => StorageInvariant
  <1> SUFFICES ASSUME Init PROVE StorageInvariant
    OBVIOUS
  <1>1. << >> \in Seq(Entry) /\ DOMAIN << >> = {}
    OBVIOUS
  <1>2. OncePerKey
    BY <1>1 DEF Init, EmptyTable, OncePerKey, Unique
  <1> QED
    BY <1>1, <1>2 DEF Init, EmptyTable, StorageInvariant, NoTableNoEntries, TypeOK, Disk

\* The storage is always of its types, and every key has at most one entry, in the
\* bucket where hash_put and hash_delete look for it.
THEOREM EntriesUnique == Spec => [](TypeOK /\ OncePerKey)
  <1>1. StorageInvariant /\ [Next]_vars => StorageInvariant'
    BY StorageStep
  <1> QED
    BY StorageInit, <1>1, PTL DEF Spec, StorageInvariant

----------------------------------------------------------------------------
(* The table implements a map *)

\* What the map of KeyValue holds and answers.
Map == [k \in Agreed |-> Contents[k]]
Answer == IF answer # << >> /\ answer[1] \in Agreed THEN answer ELSE << >>

\* A step that stores x under a key the functions agree on, and answers nobody,
\* does so in the map; for another key the map stays as it is.
LEMMA MapReplaced ==
    ASSUME NEW k \in Key, NEW x, Contents' = [Contents EXCEPT ![k] = x], answer' = << >>
    PROVE  /\ Answer' = << >>
           /\ k \in Agreed => Map' = [Map EXCEPT ![k] = x]
           /\ k \notin Agreed => Map' = Map
  <1>1. Answer' = << >>
    BY DEF Answer
  <1>2. \A q \in Key : Contents'[q] = IF q = k THEN x ELSE Contents[q]
    BY DEF Contents
  <1>3. \A q \in Agreed : q \in Key
    BY DEF Agreed
  <1>4. Map' = [q \in Agreed |-> Contents'[q]]
    BY DEF Map, Agreed
  <1> HIDE DEF Contents
  <1>5. k \in Agreed => Map' = [Map EXCEPT ![k] = x]
    BY <1>2, <1>3, <1>4 DEF Map
  <1>6. k \notin Agreed => Map' = Map
    BY <1>2, <1>3, <1>4 DEF Map
  <1> QED
    BY <1>1, <1>5, <1>6

\* A step that leaves the table alone and answers nobody passes the map by.
LEMMA MapPassed ==
    ASSUME OncePerKey, entries' = entries, answer' = << >>
    PROVE  KV!Pass
  <1>1. Contents' = Contents
    BY SameEntries
  <1> QED
    BY <1>1 DEF KV!Pass, Agreed

\* A step that empties the table empties the map.
LEMMA MapCleared ==
    ASSUME entries' = EmptyTable, answer' = << >>
    PROVE  KV!Clear
  <1>1. Contents' = [k \in Key |-> None]
    BY EmptyStep
  <1>2. \A k \in Agreed : k \in Key
    BY DEF Agreed
  <1>3. \A k \in Agreed : Contents'[k] = None
    BY <1>1, <1>2
  <1> HIDE DEF Contents
  <1> QED
    BY <1>3 DEF KV!Clear, Agreed

\* Every step of the table is a step of the map, or leaves the map alone.
LEMMA MapStep ==
    ASSUME StorageInvariant, [Next]_vars
    PROVE  [KV!Next]_(KV!vars)
  <1>0. OncePerKey
    BY DEF StorageInvariant
  <1>1. CASE UNCHANGED vars
    <2>1. Contents' = Contents /\ answer' = answer
      BY <1>0, <1>1, SameEntries DEF vars
    <2> QED
      BY <2>1 DEF KV!vars, Agreed
  <1>2. ASSUME NEW k \in Key, NEW v \in Value, dstore_handle_put(k, v)
        PROVE  KV!Next
    <2>1. CASE hash_put(k, v)
      <3>1. Contents' = [Contents EXCEPT ![k] = v] /\ answer' = << >>
        BY <1>2, <2>1, PutStep DEF dstore_handle_put
      <3>2. CASE k \in Agreed
        <4>1. KV!Put(k, v)
          BY <3>1, <3>2, MapReplaced DEF KV!Put, Map, Answer
        <4> QED
          BY <3>2, <4>1 DEF KV!Next
      <3>3. CASE k \notin Agreed
        <4>1. KV!Pass
          BY <3>1, <3>3, MapReplaced DEF KV!Pass, Map, Answer
        <4> QED
          BY <4>1 DEF KV!Next
      <3> QED
        BY <3>2, <3>3
    <2>2. CASE UNCHANGED entries
      BY <1>0, <1>2, <2>2, MapPassed DEF dstore_handle_put, KV!Next
    <2> QED
      BY <1>2, <2>1, <2>2 DEF dstore_handle_put, db_insert
  <1>3. ASSUME NEW k \in Key, db_delete(k) PROVE KV!Next
    <2>1. CASE hash_delete(k)
      <3>1. Contents' = [Contents EXCEPT ![k] = None] /\ answer' = << >>
        BY <1>3, <2>1, DeleteStep DEF db_delete
      <3>2. CASE k \in Agreed
        <4>1. KV!Delete(k)
          BY <3>1, <3>2, MapReplaced DEF KV!Delete, Map, Answer
        <4> QED
          BY <3>2, <4>1 DEF KV!Next
      <3>3. CASE k \notin Agreed
        <4>1. KV!Pass
          BY <3>1, <3>3, MapReplaced DEF KV!Pass, Map, Answer
        <4> QED
          BY <4>1 DEF KV!Next
      <3> QED
        BY <3>2, <3>3
    <2>2. CASE UNCHANGED entries
      BY <1>0, <1>3, <2>2, MapPassed DEF db_delete, KV!Next
    <2> QED
      BY <1>3, <2>1, <2>2 DEF db_delete
  <1>4. ASSUME NEW k \in Key, db_get(k) PROVE KV!Next
    <2>1. Contents' = Contents
      BY <1>0, <1>4, SameEntries DEF db_get
    <2>2. CASE k \in Agreed
      <3>1. answer' = <<k, Contents[k]>>
        <4>1. CASE allocated
          BY <1>4, <2>2, <4>1 DEF db_get, Agreed, Contents
        <4>2. CASE ~allocated
          <5>1. hash[k] \in Bucket
            BY KeyAssumption
          <5>2. entries[hash[k]] = << >>
            BY <4>2, <5>1 DEF StorageInvariant, NoTableNoEntries, EmptyTable
          <5>3. Contents[k] = None
            BY <5>2 DEF Contents, Lookup, Present
          <5> QED
            BY <1>4, <4>2, <5>3 DEF db_get
        <4> QED
          BY <4>1, <4>2
      <3> HIDE DEF Contents
      <3>2. answer' # << >> /\ answer'[1] = k
        BY <3>1
      <3>3. Answer' = <<k, Map[k]>>
        BY <2>2, <3>1, <3>2 DEF Answer, Map, Agreed
      <3>4. KV!Get(k)
        BY <2>1, <3>3 DEF KV!Get, Answer, Map, Agreed
      <3> QED
        BY <2>2, <3>4 DEF KV!Next
    <2>3. CASE k \notin Agreed
      <3>1. answer' # << >> /\ answer'[1] = k
        BY <1>4 DEF db_get
      <3>2. KV!Pass
        BY <2>1, <2>3, <3>1 DEF KV!Pass, Agreed
      <3> QED
        BY <3>2 DEF KV!Next
    <2> QED
      BY <2>2, <2>3
  <1>5. ASSUME entries' = EmptyTable, answer' = << >> PROVE KV!Next
    BY <1>5, MapCleared DEF KV!Next
  <1>6. ASSUME entries' = entries, answer' = << >> PROVE KV!Next
    BY <1>0, <1>6, MapPassed DEF KV!Next
  <1>7. CASE db_init \/ db_finit \/ ProcessEnds
    BY <1>5, <1>7 DEF db_init, db_finit, ProcessEnds, Gone
  <1>8. CASE db_load
    BY <1>5, <1>6, <1>8 DEF db_load, Gone
  <1>9. CASE db_save
    BY <1>5, <1>6, <1>9 DEF db_save, hash_save, DieInSave, Gone
  <1>10. CASE db_remove
    BY <1>6, <1>10 DEF db_remove
  <1> QED
    BY <1>1, <1>2, <1>3, <1>4, <1>7, <1>8, <1>9, <1>10 DEF Next

\* An empty table is an empty map.
LEMMA MapInit == Init => KV!Init
  <1> SUFFICES ASSUME Init PROVE KV!Init
    OBVIOUS
  <1>1. \A k \in Key : hash[k] \in Bucket
    BY KeyAssumption
  <1>2. \A k \in Key : entries[hash[k]] = << >>
    BY <1>1 DEF Init, EmptyTable
  <1>3. \A k \in Key : Lookup(entries[hash[k]], k) = None
    BY <1>2 DEF Lookup, Present
  <1>4. \A k \in Agreed : Contents[k] = None
    BY <1>3 DEF Contents, Agreed
  <1>5. answer = << >>
    BY DEF Init
  <1> QED
    BY <1>4, <1>5 DEF KV!Init

\* The chained hash table, with its life cycle, its file and its crashes, implements
\* the map of KeyValue for the keys on which hash and hash_func agree.
THEOREM TableImplementsMap == Spec => ImplementsKeyValue
  <1>1. StorageInvariant /\ [Next]_vars => StorageInvariant'
    BY StorageStep
  <1>2. StorageInvariant /\ [Next]_vars => [KV!Next]_(KV!vars)
    BY MapStep
  <1> QED
    BY StorageInit, MapInit, <1>1, <1>2, PTL DEF Spec, ImplementsKeyValue, KV!Spec

=============================================================================
