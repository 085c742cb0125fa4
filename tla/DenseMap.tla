------------------------------ MODULE DenseMap ------------------------------
(***************************************************************************)
(* The open-addressing hash table of llvm-DenseMap.h in the form in which  *)
(* NSObject.mm holds the extra reference counts of a side table:           *)
(* DenseMap<id, size_t, true>.  Erased keys leave tombstones, and an entry *)
(* whose value is zero may be purged whenever the table is rehashed or its *)
(* bucket is wanted: to its users a zero and no entry are the same.        *)
(*                                                                         *)
(* Every call is made with the lock of the side table held, so a call is   *)
(* one step.  What the calls were asked to store is kept in "stored".      *)
(***************************************************************************)
EXTENDS Integers, FiniteSetsExt, SequencesExt

CONSTANTS
    Key,            \* the keys
    Value,          \* the values, 0 among them
    Hash,           \* getHashValue of each key
    EmptyKey,       \* the key of a bucket that never held an entry
    TombstoneKey,   \* the key of a bucket whose entry was erased
    ZeroValuesArePurgeable,
    InitBuckets,    \* the number of buckets of a new table, 64 in the code
    MaxBuckets      \* bound: calls that would grow the table past it are not made

\* Bound: the powers of two that are reckoned with.
TwoTo[i \in 0 .. 30] == IF i = 0 THEN 1 ELSE 2 * TwoTo[i - 1]

PowersOfTwo == {TwoTo[i] : i \in 0 .. 30}

\* What the code writes 1 << Log2_32_Ceil(n): the least of them that is not below n.
PowerAtLeast(n) == Min({p \in PowersOfTwo : p >= n})

ASSUME DenseMapAssumption ==
    /\ EmptyKey \notin Key /\ TombstoneKey \notin Key
    /\ EmptyKey # TombstoneKey
    /\ Hash \in [Key -> Nat]
    /\ 0 \in Value
    /\ ZeroValuesArePurgeable \in BOOLEAN
    /\ InitBuckets \in PowersOfTwo /\ InitBuckets >= 8
    /\ MaxBuckets \in Nat /\ InitBuckets <= MaxBuckets /\ MaxBuckets < TwoTo[30]

VARIABLES
    map,        \* the table: NumBuckets, Buckets, NumEntries, NumTombstones
    stored      \* what the callers stored: the value of each key, 0 for none

mapVars == <<map, stored>>

Bucket == [first : Key \cup {EmptyKey, TombstoneKey}, second : Value]

\* Buckets with nothing in them.
NewBuckets(n) == [b \in 0 .. n - 1 |-> [first |-> EmptyKey, second |-> 0]]

\* A table of n buckets with nothing in it.
init(n) == [NumBuckets |-> n, Buckets |-> NewBuckets(n),
            NumEntries |-> 0, NumTombstones |-> 0]

MapInit ==
    /\ map = init(InitBuckets)
    /\ stored = [k \in Key |-> 0]

\* The bucket looked at in step i of the search for k among n buckets.
Probe(k, n, i) == (Hash[k] + (i * (i + 1)) \div 2) % n

Fatal == -1

\* An entry that may go from the table on its own.
Purgeable(entry) == ZeroValuesArePurgeable /\ entry.second = 0

\* Mutant: a search ends at the first bucket that could be reused.
LookupStopsAtReusable(bs, n, k) ==
    LET stops == {i \in 0 .. n - 1 :
                    bs[Probe(k, n, i)].first \in {k, EmptyKey, TombstoneKey}}
    IN  IF stops = {} THEN Fatal ELSE Probe(k, n, Min(stops))

\* The bucket that holds k, or else the one an entry for k should go to: the
\* first on the way that can be reused, or the empty one that ends the search.
LookupBucketFor(bs, n, k) ==
    LET at(i) == bs[Probe(k, n, i)]
        ends(i) == at(i).first \in {k, EmptyKey}
        reusable(i) == at(i).first = TombstoneKey \/ Purgeable(at(i))
        stop[i \in 0 .. n] == IF i = n \/ ends(i) THEN i ELSE stop[i + 1]
        end == stop[0]
        free[i \in 0 .. end] == IF i = end \/ reusable(i) THEN i ELSE free[i + 1]
    IN  IF end = n THEN Fatal
        ELSE Probe(k, n, IF at(end).first = k THEN end ELSE free[0])

Lookup(k) == LookupBucketFor(map.Buckets, map.NumBuckets, k)

InMap(k) == LET b == Lookup(k) IN b # Fatal /\ map.Buckets[b].first = k

\* What find, count and lookup answer: the value of k, 0 where there is none.
lookup(k) == IF InMap(k) THEN map.Buckets[Lookup(k)].second ELSE 0

\* n buckets, doubled until there are AtLeast: n is a power of two.
Doubled(n, AtLeast) == IF n >= AtLeast THEN n ELSE PowerAtLeast(AtLeast)

Occupied(bs) == {b \in DOMAIN bs : bs[b].first \in Key}

\* The new array of n buckets when bucket b of the old one has been gone through.
Inserted(new, n, bs, b) ==
    IF bs[b].first \in Key /\ ~ Purgeable(bs[b])
    THEN [new EXCEPT ![LookupBucketFor(new, n, bs[b].first)] = bs[b]]
    ELSE new

\* The entries of m in a new array of n buckets, bucket after bucket.
Moved(m, n) ==
    LET moved[b \in 0 .. m.NumBuckets] ==
            IF b = 0 THEN NewBuckets(n) ELSE Inserted(moved[b - 1], n, m.Buckets, b - 1)
    IN  moved[m.NumBuckets]

\* Move the entries to a new array, doubled until it has AtLeast buckets, without
\* the purgeable ones and the tombstones.
grow(m, AtLeast) ==
    LET n == Doubled(m.NumBuckets, AtLeast)
        purged == {b \in Occupied(m.Buckets) : Purgeable(m.Buckets[b])}
    IN  [NumBuckets |-> n, Buckets |-> Moved(m, n),
         NumEntries |-> m.NumEntries - Cardinality(purged), NumTombstones |-> 0]

\* The table with room for the entries it counts: doubled when three quarters of
\* it are entries, rehashed when less than an eighth of it is empty.
Room(m) ==
    CASE m.NumEntries * 4 >= m.NumBuckets * 3 -> grow(m, m.NumBuckets * 2)
      [] m.NumEntries * 4 < m.NumBuckets * 3
         /\ m.NumBuckets - (m.NumEntries + m.NumTombstones) < m.NumBuckets \div 8
            -> grow(m, m.NumBuckets)
      [] OTHER -> m

\* Mutant: an entry written over a zero value is counted a second time.
InsertCountsTwice(m, k, v) ==
    LET r == Room([m EXCEPT !.NumEntries = @ + 1])
        b == LookupBucketFor(r.Buckets, r.NumBuckets, k)
    IN  [r EXCEPT !.Buckets[b] = [first |-> k, second |-> v],
                  !.NumTombstones = IF r.Buckets[b].first = TombstoneKey THEN @ - 1 ELSE @]

\* The table with a new entry, in the bucket that a search for k came to.
InsertIntoBucket(m, k, v) ==
    LET r == Room([m EXCEPT !.NumEntries = @ + 1])
        b == LookupBucketFor(r.Buckets, r.NumBuckets, k)
        over == r.Buckets[b].first
    IN  [r EXCEPT
            !.Buckets[b] = [first |-> k, second |-> v],
            !.NumTombstones = IF over = TombstoneKey THEN @ - 1 ELSE @,
            !.NumEntries = IF over \in Key THEN @ - 1 ELSE @]

\* Bound: the call leaves the table within MaxBuckets.
Fits(m) == m.NumBuckets <= MaxBuckets

\* m.insert(pair(k, v)): nothing when k is in the map.
insert(k, v) ==
    /\ ~ InMap(k) /\ Lookup(k) # Fatal
    /\ map' = InsertIntoBucket(map, k, v) /\ Fits(map')
    /\ stored' = [stored EXCEPT ![k] = v]

\* m[k] = v: FindAndConstruct, then the value stored through the reference.
FindAndConstruct(k, v) ==
    /\ Lookup(k) # Fatal
    /\ map' = IF InMap(k) THEN [map EXCEPT !.Buckets[Lookup(k)].second = v]
              ELSE InsertIntoBucket(map, k, v)
    /\ Fits(map')
    /\ stored' = [stored EXCEPT ![k] = v]

\* m.erase(k), or m.erase(m.find(k)).
erase(k) ==
    /\ InMap(k)
    /\ map' = [map EXCEPT !.Buckets[Lookup(k)] = [first |-> TombstoneKey, second |-> 0],
                          !.NumEntries = @ - 1, !.NumTombstones = @ + 1]
    /\ stored' = [stored EXCEPT ![k] = 0]

\* m.resize(Size).
resize(Size) ==
    /\ map' = grow(map, Size) /\ Fits(map')
    /\ UNCHANGED stored

\* m.clear(), which gives back a large array that is mostly unused; the 64 and
\* the 32 of the code are InitBuckets and half of it.
clear ==
    /\ map.NumEntries # 0 \/ map.NumTombstones # 0
    /\ IF map.NumEntries * 4 < map.NumBuckets /\ map.NumBuckets > InitBuckets
       THEN map' = init(IF map.NumEntries > InitBuckets \div 2
                        THEN 2 * PowerAtLeast(map.NumEntries) ELSE InitBuckets)
       ELSE map' = [init(map.NumBuckets) EXCEPT !.NumEntries =
                        map.NumEntries - Cardinality(Occupied(map.Buckets))]
    /\ stored' = [k \in Key |-> 0]

\* A call of insert changes what m[k] = v does, so one value is enough for it.
MapNext ==
    \/ \E k \in Key : erase(k) \/ insert(k, 0) \/ \E v \in Value : FindAndConstruct(k, v)
    \/ \E Size \in {map.NumBuckets, 2 * map.NumBuckets} : resize(Size)
    \/ clear

MapSpec == MapInit /\ [][MapNext]_mapVars

\* The keys met by an iterator that goes from begin, which is the end when there
\* are no entries, to the end, past the buckets that hold no entry.
Iterated ==
    LET met[p \in 0 .. map.NumBuckets] ==
            IF p = 0 THEN <<>>
            ELSE IF map.Buckets[p - 1].first \in Key
            THEN Append(met[p - 1], map.Buckets[p - 1].first)
            ELSE met[p - 1]
    IN  IF map.NumEntries = 0 THEN <<>> ELSE met[map.NumBuckets]

-----------------------------------------------------------------------------

\* The table's fields are consistent in kind: its buckets are those it counts.
MapTypeOK ==
    /\ map.NumBuckets \in PowersOfTwo /\ map.NumBuckets >= 8
    /\ map.Buckets \in [0 .. map.NumBuckets - 1 -> Bucket]
    /\ map.NumEntries \in Nat /\ map.NumTombstones \in Nat
    /\ stored \in [Key -> Value]

\* The counters are exact through erasures, reuse of tombstones, purges of zero
\* values and rehashes, and no key has two buckets: the decision to rehash and
\* the length of every search rest on them.
CountsExact ==
    /\ map.NumEntries = Cardinality(Occupied(map.Buckets))
    /\ map.NumTombstones =
        Cardinality({b \in DOMAIN map.Buckets : map.Buckets[b].first = TombstoneKey})
    /\ map.NumEntries = Cardinality({map.Buckets[b].first : b \in Occupied(map.Buckets)})

\* No search runs out of buckets, which LookupBucketFor answers by ending the
\* process: an empty bucket is always left, on the way of every key.
SearchesEnd == \A k \in Key : Lookup(k) # Fatal

\* A search finds what was last stored under its key, however the entries around
\* it were erased, purged and moved since, and an iteration meets every key whose
\* value is not zero, once.
FindsWhatWasStored ==
    /\ \A k \in Key : lookup(k) = stored[k]
    /\ LET keys == Iterated
       IN  {k \in Key : stored[k] # 0} \subseteq ToSet(keys) /\ IsInjective(keys)

\* Every search ends, and ends with what was stored.
SearchesFind == SearchesEnd /\ FindsWhatWasStored

\* The table is what its counters say it is.
TableConsistent == MapTypeOK /\ CountsExact
=============================================================================
