----------------------------- MODULE PerfectHash -----------------------------
(***************************************************************************)
(* The precomputed tables of objc-shared-cache.h: the perfect hash of the  *)
(* selector names or class names of a shared cache, the table written from *)
(* it, the classes of each name, and the look-ups that the runtime makes   *)
(* in them.  A table is built by trials: a salt gives each name a pair     *)
(* (a, b) that must be new, then one value of tab[b] after another is      *)
(* chosen so that a ^ scramble[tab[b]] is a slot that nobody has.          *)
(*                                                                         *)
(* lookup8 under a new salt may give any values: nothing in the code is    *)
(* known of them but that they have UB8BITS bits.                          *)
(***************************************************************************)
EXTENDS Integers, FiniteSetsExt, SequencesExt, Bitwise

CONSTANTS
    Strings,        \* the names, in a table or only asked for
    EmptyString,    \* "", one of them
    CheckByte,      \* checkbyte of each name
    Stored,         \* the sets of names that a table is built of
    ClassTables,    \* those of them that are names of classes
    Image,          \* the images that define classes, as numbers
    Definers,       \* the sets of images that may define classes of one name
    UB8BITS,        \* bits of a hash value, 64 in the code
    SCRAMBLE_LEN,   \* 256 in the code
    RETRY_INITKEY,  \* 2048 in the code
    RETRY_PERFECT,  \* 4 in the code
    None

ASSUME PerfectHashAssumption ==
    /\ EmptyString \in Strings
    /\ CheckByte \in [Strings -> Nat] /\ CheckByte[EmptyString] = 0
    /\ \A s \in Stored : s \subseteq Strings
    /\ ClassTables \subseteq Stored
    /\ Image \subseteq Nat /\ Definers \subseteq SUBSET Image \ {{}}
    /\ {UB8BITS, SCRAMBLE_LEN, RETRY_INITKEY, RETRY_PERFECT} \subseteq Nat \ {0}

VARIABLES
    names,          \* the names the table is built of
    ShiftWraps,     \* whether x >> UB8BITS, which is undefined, is x here and not 0
    stage,          \* what the builder does next
    smax,           \* slots of the table, and alen: a is in 0 .. smax - 1
    blen,           \* b is in 0 .. blen - 1
    bad_initkey, bad_perfect,   \* trials that failed
    again,          \* the next trial takes the last salt again
    val,            \* lookup8 of each name under the salt
    tab,            \* val_b of each b
    mapped,         \* the bs that have their slots
    tabh,           \* the name in each slot
    room,           \* entries of tabq that the last call of augment left unused
    table,          \* the table the runtime reads
    given,          \* the classes to be written, a multimap: <<name, image>>
    classes         \* the class table, once it is written

hashVars == <<names, ShiftWraps, stage, smax, blen, bad_initkey, bad_perfect, again, val,
              tab, mapped, tabh, room, table, given, classes>>

Hash8 == 0 .. 2^UB8BITS - 1

\* Exclusive or, of values that fit a hash value.
xor == [x \in Hash8 |-> [y \in Hash8 |-> x ^^ y]]

\* The ceiling of the logarithm of n.
log2u(n) == CHOOSE i \in 0 .. n : 2^i >= n /\ \A j \in 0 .. i - 1 : 2^j < n

\* A permutation of 0 .. 2^nbits - 1, for x below that.
permute(x, nbits) ==
    LET up(y, c) == (y + y * 2^c) % 2^nbits
        down(y, c) == y ^^ (y \div 2^c)
        round[i \in 0 .. 20] ==
            IF i = 0 THEN x
            ELSE down(up(down(up(round[i - 1], 1 + nbits \div 2), 1 + nbits \div 3),
                         1 + nbits \div 4), 1 + nbits \div 5)
    IN  round[20]

\* scramble, for each number of slots a set of names may lead to.
Slots == UNION {{2^log2u(Cardinality(s)), 2^(log2u(Cardinality(s)) + 1)} : s \in Stored \ {{}}}
scramble == [m \in Slots |-> [i \in 0 .. SCRAMBLE_LEN - 1 |-> permute(i, log2u(m))]]

\* The pair of a name whose hash value is v, of its highest and its lowest bits, and
\* its slot if tab[b] is i.
a_k(v) == (v * smax) \div 2^UB8BITS
b_k(v) == v % blen
Slot(v, i) == xor[a_k(v)][scramble[smax][i]]

list_b(b) == {k \in names : b_k(val[k]) = b}

\* inittab: whether every name has a pair of its own.
Distinct(v) ==
    Cardinality({<<a_k(v[k]), b_k(v[k])>> : k \in names}) = Cardinality(names)

\* The first guess of blen, from how full m slots will be.
initalen(m) ==
    LET n == Cardinality(names)
        guess == m \div (IF 10 * n <= 6 * m THEN 16 ELSE IF 10 * n <= 8 * m THEN 8 ELSE 4)
    IN  IF guess < 1 THEN 1 ELSE guess

\* The table of a runtime that was given none: OPT_INITIALIZER.
empty_opt_data ==
    [capacity |-> 4, shift |-> UB8BITS - 1, mask |-> 3,
     scramble |-> [i \in 0 .. SCRAMBLE_LEN - 1 |-> 0], tab |-> [b \in 0 .. 3 |-> 0],
     checkbytes |-> [h \in 0 .. 3 |-> 0], offsets |-> [h \in 0 .. 3 |-> None]]

\* The table of no names: all zeros.
bzero ==
    [capacity |-> 0, shift |-> 0, mask |-> 0,
     scramble |-> [i \in 0 .. SCRAMBLE_LEN - 1 |-> 0], tab |-> [b \in {0} |-> 0],
     checkbytes |-> <<>>, offsets |-> <<>>]

findhash(m) ==
    /\ smax' = m /\ blen' = initalen(m)
    /\ bad_initkey' = 0 /\ bad_perfect' = 0

HashInit ==
    /\ names \in Stored
    /\ ShiftWraps \in {FALSE, Cardinality(names) = 1}    \* only such a table shifts by UB8BITS
    /\ smax = 2^log2u(Cardinality(names)) /\ blen = initalen(smax)
    /\ stage = "start" /\ again = FALSE
    /\ bad_initkey = 0 /\ bad_perfect = 0 /\ room = 0
    /\ val = [k \in names |-> 0]
    /\ tab = <<>> /\ mapped = {} /\ tabh = <<>>
    /\ table = empty_opt_data
    /\ given = {} /\ classes = None

-----------------------------------------------------------------------------
(* A salt is tried, and the table built while the trials go well. *)

\* The section may be too small for a header; no names need no trials.
Start ==
    /\ stage = "start"
    /\ \/ stage' = "failed" /\ table' = table
       \/ names = {} /\ stage' = "written" /\ table' = bzero
       \/ names # {} /\ stage' = "trial" /\ table' = table
    /\ UNCHANGED <<names, ShiftWraps, smax, blen, bad_initkey, bad_perfect, again, val, tab,
                   mapped, tabh, room, given, classes>>

\* alen is never less than maxalen, so only blen is left to be doubled.
MoreBits == IF blen < smax THEN 2 * blen ELSE blen

NoTable == tab' = <<>> /\ mapped' = {} /\ tabh' = <<>>

Forget == val' = [k \in names |-> 0] /\ NoTable

\* initnorm and inittab with hash values v.
Try(v) ==
    /\ again' = FALSE
    /\ UNCHANGED <<names, ShiftWraps, smax, room, table, given, classes>>
    /\ IF Distinct(v)
       THEN /\ val' = v /\ stage' = "perfect"
            /\ tab' = [b \in 0 .. blen - 1 |-> 0] /\ mapped' = {}
            /\ tabh' = [h \in 0 .. smax - 1 |-> None]
            /\ UNCHANGED <<blen, bad_initkey, bad_perfect>>
       ELSE /\ Forget /\ stage' = "trial"
            /\ IF bad_initkey + 1 >= RETRY_INITKEY
               THEN bad_initkey' = 0 /\ bad_perfect' = 0 /\ blen' = MoreBits
               ELSE bad_initkey' = bad_initkey + 1 /\ UNCHANGED <<blen, bad_perfect>>

NewSalt == stage = "trial" /\ ~again /\ \E v \in [names -> Hash8] : Try(v)

SameSalt == stage = "trial" /\ again /\ Try(val)

\* perfect: the longest list that has no slots yet, the first of several.
Next_b ==
    LET left == {b \in DOMAIN tab \ mapped : list_b(b) # {}}
        longest == Max({Cardinality(list_b(b)) : b \in left})
    IN  Min({b \in left : Cardinality(list_b(b)) = longest})

\* The other bs that own a slot which the names of b would take with tab[b] = i.
Children(b, i) ==
    {b_k(val[tabh[h]]) : h \in {s \in {Slot(val[k], i) : k \in list_b(b)} : tabh[s] # None}}

\* The bs whose water mark says that they are in the queue.
Water(seen, c) == seen \cup {c}

(* augment: the values of tab[b] in turn; one that hits a single other b puts
   that b in the queue, once, and the first that hits none is taken.  The queue
   is never walked past its root, so nothing is done about the others. *)
augment(b) ==
    LET walk[i \in 0 .. SCRAMBLE_LEN] ==
          IF i = 0 THEN [tail |-> 1, seen |-> {}, newval |-> None]
          ELSE LET w == walk[i - 1]  hit == Children(b, i - 1)
               IN  IF w.newval # None \/ Cardinality(hit) > 1 \/ hit \cap w.seen # {} THEN w
                   ELSE IF hit = {} THEN [w EXCEPT !.tail = @ + 1, !.newval = i - 1]
                   ELSE [w EXCEPT !.tail = @ + 1,
                                  !.seen = Water(@, CHOOSE c \in hit : TRUE)]
    IN  walk[SCRAMBLE_LEN]

\* Mutant: the slots of b are given to it while others have some of them.
TakeAnyway(b) == [augment(b) EXCEPT !.newval = 0]

\* The queue and the value that augment ends with.
Augmented(b) == augment(b)

\* apply with a path of one link: the names of b take their slots.
apply(b, i) ==
    /\ tab' = [tab EXCEPT ![b] = i]
    /\ tabh' = [h \in 0 .. smax - 1 |->
                  IF \E k \in list_b(b) : Slot(val[k], i) = h
                  THEN CHOOSE k \in list_b(b) : Slot(val[k], i) = h
                  ELSE tabh[h]]

\* What is left of findhash after perfect has failed.
Imperfect ==
    /\ IF bad_perfect + 1 < RETRY_PERFECT
       THEN /\ bad_perfect' = bad_perfect + 1 /\ again' = FALSE /\ stage' = "trial"
            /\ Forget /\ UNCHANGED <<smax, blen, bad_initkey>>
       ELSE IF blen < smax
       THEN /\ blen' = MoreBits /\ bad_perfect' = 0 /\ again' = TRUE /\ stage' = "trial"
            /\ UNCHANGED <<smax, bad_initkey, val>>
            /\ NoTable
       ELSE /\ Forget /\ again' = FALSE
            /\ IF smax = 2^log2u(Cardinality(names))
               THEN stage' = "trial" /\ findhash(2 * smax)
               ELSE stage' = "failed" /\ UNCHANGED <<smax, blen, bad_initkey, bad_perfect>>

Augment ==
    /\ stage = "perfect" /\ UNION {list_b(b) : b \in mapped} # names
    /\ LET b == Next_b  r == Augmented(b)
       IN  /\ room' = blen + 1 - r.tail
           /\ IF r.newval = None THEN Imperfect
              ELSE /\ apply(b, r.newval) /\ mapped' = mapped \cup {b}
                   /\ UNCHANGED <<stage, smax, blen, bad_initkey, bad_perfect, again, val>>
    /\ UNCHANGED <<names, ShiftWraps, table, given, classes>>

-----------------------------------------------------------------------------
(* The tables as they are written, and read. *)

\* hash: the slot of a name whose hash value under the salt of t is v.
hash(t, v) ==
    LET high == IF t.shift = UB8BITS /\ ShiftWraps THEN v ELSE v \div 2^t.shift
    IN  xor[high][t.scramble[t.tab[v % (t.mask + 1)]]]

INDEX_NOT_FOUND == -1

\* The text at an offset: the offset of the field "zero" is that of "".
Text(offset) == IF offset = None THEN EmptyString ELSE offset

\* getIndex: the slot that holds the name k with hash value v.
getIndex(t, k, v) ==
    LET h == hash(t, v)
    IN  IF t.checkbytes[h] # CheckByte[k] \/ Text(t.offsets[h]) # k
        THEN INDEX_NOT_FOUND ELSE h

\* The header and the hash data that make_perfect has found.
make_perfect ==
    [capacity |-> smax, shift |-> UB8BITS - log2u(smax), mask |-> blen - 1,
     scramble |-> scramble[smax], tab |-> tab,
     checkbytes |-> [h \in 0 .. smax - 1 |-> 0], offsets |-> [h \in 0 .. smax - 1 |-> None]]

\* objc_stringhash_t::write: every name goes to its slot.
write(t) ==
    FoldSet(LAMBDA k, s : [s EXCEPT !.offsets[hash(t, val[k])] = k,
                                    !.checkbytes[hash(t, val[k])] = CheckByte[k]],
            t, names)

\* The table is written, or is too big for its section, which has its header then.
Write ==
    /\ stage = "perfect" /\ UNION {list_b(b) : b \in mapped} = names
    /\ \/ stage' = "written" /\ table' = write(make_perfect) /\ UNCHANGED val
       \/ /\ stage' = "failed" /\ val' = [k \in names |-> 0]
          /\ table' = [table EXCEPT !.capacity = make_perfect.capacity,
                                    !.shift = make_perfect.shift, !.mask = make_perfect.mask]
    /\ NoTable
    /\ UNCHANGED <<names, ShiftWraps, smax, blen, bad_initkey, bad_perfect, again, room,
                   given, classes>>

\* An entry of the class table: a class and its image, or a count and an index.
Single(c) == [isDuplicate |-> FALSE, cls |-> c, hi |-> c[2]]
Several(count, index) == [isDuplicate |-> TRUE, count |-> count, index |-> index]
ZeroOffset == [isDuplicate |-> FALSE, cls |-> None, hi |-> None]

\* Mutant: the index of a name's classes is read after their count is added.
IndexAfterCount(c, t) ==
    LET h == getIndex(table, c[1], val[c[1]])
        same == {d \in given' : d[1] = c[1]}
    IN  IF t.offsets[h] # ZeroOffset THEN t
        ELSE IF Cardinality(same) = 1 THEN [t EXCEPT !.offsets[h] = Single(c)]
        ELSE [offsets |-> [t.offsets EXCEPT ![h] =
                    Several(Cardinality(same), Len(t.duplicates) + Cardinality(same))],
              duplicates |-> t.duplicates \o SetToSeq(same)]

(* One class c of the multimap, in objc_clsopt_t::write: the first of the
   classes of a name writes them all. *)
WriteClass(c, t) ==
    LET h == getIndex(table, c[1], val[c[1]])
        same == {d \in given' : d[1] = c[1]}
    IN  IF t.offsets[h] # ZeroOffset THEN t
        ELSE IF Cardinality(same) = 1 THEN [t EXCEPT !.offsets[h] = Single(c)]
        ELSE [offsets |-> [t.offsets EXCEPT ![h] = Several(Cardinality(same), Len(t.duplicates))],
              duplicates |-> t.duplicates \o SetToSeq(same)]

\* The classes are written in the order of the multimap, or the list is busted, or
\* the section too small before the first class or on the way; nobody reads it then.
WriteClasses ==
    /\ stage = "written" /\ names \in ClassTables
    /\ \/ stage' = "failed" /\ UNCHANGED <<given, classes>>
       \/ /\ \E in \in [names -> Definers] :
                given' = UNION {{<<k, i>> : i \in in[k]} : k \in names}
          /\ \A k \in names : getIndex(table, k, val[k]) # INDEX_NOT_FOUND
          /\ stage' = "done"
          /\ classes' = FoldSet(WriteClass,
                          [offsets |-> [h \in 0 .. table.capacity - 1 |-> ZeroOffset],
                           duplicates |-> <<>>],
                          given')
    /\ UNCHANGED <<names, ShiftWraps, smax, blen, bad_initkey, bad_perfect, again, val, tab,
                   mapped, tabh, room, table>>

HashNext == Start \/ NewSalt \/ SameSalt \/ Augment \/ Write \/ WriteClasses

HashSpec == HashInit /\ [][HashNext]_hashVars

\* getClassAndHeader, for the count, and getClassesAndHeaders, for the list.
duplicateCount(k, v) ==
    LET h == getIndex(table, k, v)
    IN  IF h = INDEX_NOT_FOUND THEN 0
        ELSE IF classes.offsets[h].isDuplicate THEN classes.offsets[h].count ELSE 1

getClassesAndHeaders(k, v) ==
    LET h == getIndex(table, k, v)
        e == classes.offsets[h]
    IN  IF h = INDEX_NOT_FOUND THEN <<>>
        ELSE IF e.isDuplicate
        THEN [n \in 1 .. e.count |-> IF e.index + n \in DOMAIN classes.duplicates
                                     THEN classes.duplicates[e.index + n] ELSE None]
        ELSE <<e.cls>>

\* The class that the runtime takes, with the images of "loaded" in the process.
getPreoptimizedClass(k, v, loaded) ==
    LET found == getClassesAndHeaders(k, v)
        here == {n \in DOMAIN found : found[n][2] \in loaded}
    IN  IF duplicateCount(k, v) \in {1, 2} /\ here # {} THEN found[Min(here)] ELSE None

-----------------------------------------------------------------------------
HashTypeOK ==
    /\ names \in Stored /\ ShiftWraps \in BOOLEAN
    /\ stage \in {"start", "trial", "perfect", "written", "done", "failed"}
    /\ names # {} => smax \in Slots
    /\ blen \in {2^i : i \in 0 .. log2u(smax)}
    /\ bad_initkey \in 0 .. RETRY_INITKEY - 1 /\ bad_perfect \in 0 .. RETRY_PERFECT - 1
    /\ again \in BOOLEAN
    /\ val \in [names -> Hash8]
    /\ stage = "perfect" => /\ tab \in [0 .. blen - 1 -> 0 .. SCRAMBLE_LEN - 1]
                            /\ tabh \in [0 .. smax - 1 -> names \cup {None}]
    /\ mapped \subseteq DOMAIN tab
    /\ given \subseteq names \X Image

(* While perfect() gives out the slots, each name that was given one still has
   it, alone, and no other slot is taken: giving tab[b] a value moves every name
   of b at once and disturbs no other b (objc-shared-cache.h:932). *)
SlotsHeld ==
    stage = "perfect" =>
        \A h \in 0 .. smax - 1 :
            {k \in names : b_k(val[k]) \in mapped /\ Slot(val[k], tab[b_k(val[k])]) = h}
              = IF tabh[h] = None THEN {} ELSE {tabh[h]}

(* The queue of augment has an entry for the root, one for each other b and one
   for the value that fits, however many values of tab[b] hit the same b
   (objc-shared-cache.h:1063). *)
QueueFits == room >= 0

(* "we know this salt got distinct (A,B)" (objc-shared-cache.h:1259): when blen is
   doubled the same salt is tried again, and no two names may have one pair. *)
SaltStaysGood == again => Distinct(val)

(* Whatever the hash values are, a name that is in the table is found in a slot
   of its own, and one that is not is not found, whatever its hash value and its
   check byte.  Two look-ups go wrong: "" is also found in a slot that nobody has
   (its check byte and its text are those of such a slot), and in a table of no
   names whatever follows the table is read (of that, nothing is said here). *)
FindsTheStored ==
    stage \in {"start", "trial", "written"} /\ table.capacity # 0 =>
    LET in == IF stage = "written" THEN names ELSE {}
    IN  /\ \A k \in in : LET h == getIndex(table, k, val[k])
                         IN  h \in DOMAIN table.offsets /\ table.offsets[h] = k
        /\ \A k \in Strings \ in, v \in Hash8 :
              LET h == getIndex(table, k, v)
              IN  h # INDEX_NOT_FOUND => k = EmptyString /\ table.offsets[h] = None

(* "given a set of n keys, this determines a hash function that maps each of
   those keys into a value in 0..n-1" (objc-shared-cache.h:716-718). *)
IndexInTable ==
    stage = "written" => \A k \in names : hash(table, val[k]) \in 0 .. table.capacity - 1

(* The class table gives for each name exactly the classes that were written for
   it, each once, with their count; the class that the runtime takes has the name
   and is in an image that is loaded, and where one or two images define it and one
   is loaded there is such a class.  For more, see TakesALoadedOne. *)
ClassesFound ==
    stage = "done" =>
        \A k \in names :
            LET all == {c \in given : c[1] = k}
                found == getClassesAndHeaders(k, val[k])
            IN  /\ duplicateCount(k, val[k]) = Cardinality(all)
                /\ Len(found) = Cardinality(all) /\ ToSet(found) = all
                /\ \A loaded \in SUBSET Image :
                      LET c == getPreoptimizedClass(k, val[k], loaded)
                          here == {d \in all : d[2] \in loaded}
                      IN  /\ c # None => c \in here
                          /\ Cardinality(all) <= 2 /\ here # {} => c # None

(* "more than one matching class - find one that is loaded" (objc-opt.mm:114). *)
TakesALoadedOne ==
    stage = "done" =>
        \A k \in names, loaded \in SUBSET Image :
            (\E c \in given : c[1] = k /\ c[2] \in loaded)
                => getPreoptimizedClass(k, val[k], loaded) # None

\* Look-ups in both tables, as far as the comments of the two parts go: "" that is
\* not stored, and a name with three definitions, are where they fail the caller.
LookupsFind == FindsTheStored /\ ClassesFound

\* The trials and the giving out of slots go as the builder takes for granted.
BuildConsistent == HashTypeOK /\ SlotsHeld /\ QueueFits /\ SaltStaysGood
=============================================================================
