------------------------------ MODULE WeakTable ------------------------------
(***************************************************************************)
(* The weak table of a side table, objc-weak.mm: an open-addressing table  *)
(* of the objects that weak variables point to, each with an open-         *)
(* addressing array of the variables' addresses.  A search for an object   *)
(* ends at the first empty entry, so a removal moves the entries after it; *)
(* a search for an address goes on for as many slots as the furthest       *)
(* address was ever put from its own, so a removal leaves a hole.          *)
(*                                                                         *)
(* Both searches give up without a word, and a register whose entry found  *)
(* no room is lost the same way.  To SideTable the table is a set of       *)
(* addresses for each object; that set is kept in "registered".            *)
(*                                                                         *)
(* Every call is made with the lock of the side table held, so a call is   *)
(* one step.                                                               *)
(***************************************************************************)
EXTENDS Integers, FiniteSetsExt, SequencesExt

CONSTANTS
    Referent,       \* the objects
    Referrer,       \* the addresses of weak variables
    nil,
    hash_pointer,   \* of each object and address
    malloc_size,    \* the size of an array for which n slots were asked
    FirstSize,      \* entries of the first table, 15 in the code
    WEAK_TABLE_DOUBLE_SIZE,
    Pairs           \* bound: the objects and addresses that meet

ASSUME WeakTableAssumption ==
    /\ nil \notin Referent \cup Referrer
    /\ hash_pointer \in [Referent \cup Referrer -> Nat]
    /\ \A n \in 1 .. 4 * Cardinality(Referrer) : malloc_size[n] >= n
    /\ Pairs \subseteq Referent \X Referrer
    /\ FirstSize \in Nat \ {0} /\ WEAK_TABLE_DOUBLE_SIZE \in Nat

VARIABLES
    weak_table,     \* num_weak_refs, max_weak_refs, weak_entries
    registered      \* the addresses registered for each object and not yet
                    \* unregistered or cleared

weakVars == <<weak_table, registered>>

NoReferrers == [refs |-> <<>>, num_refs |-> 0, num_allocated |-> 0,
                max_hash_displacement |-> 0]
NoEntry == [referent |-> nil, referrers |-> NoReferrers]

WeakInit ==
    /\ weak_table = [num_weak_refs |-> 0, max_weak_refs |-> 0, weak_entries |-> <<>>]
    /\ registered = [o \in Referent |-> {}]

\* The slot d places after that of key, among n.
Slot(key, d, n) == (hash_pointer[key] + d) % n

-----------------------------------------------------------------------------
(* The addresses of one object.                                            *)

RECURSIVE append_referrer(_, _)

\* Slots to ask for when there are n.
MoreSlots(n) == IF n < WEAK_TABLE_DOUBLE_SIZE THEN n + 1 ELSE n + n

\* Slots to use of n: an odd number in larger arrays.
OddSlots(n) == IF n > WEAK_TABLE_DOUBLE_SIZE /\ n % 2 = 0 THEN n - 1 ELSE n

Slots(list) == [i \in 1 .. list.num_allocated |-> list.refs[i - 1]]

grow_refs(list) ==
    LET n == OddSlots(malloc_size[MoreSlots(list.num_allocated)])
    IN  FoldLeft(LAMBDA new, l : append_referrer(new, l),
                 [refs |-> [i \in 0 .. n - 1 |-> nil], num_refs |-> 0,
                  num_allocated |-> n, max_hash_displacement |-> 0],
                 SelectSeq(Slots(list), LAMBDA l : l # nil))

Crowded(list) ==
    \/ list.num_refs = list.num_allocated
    \/ /\ list.num_refs >= WEAK_TABLE_DOUBLE_SIZE
       /\ list.num_refs >= (list.num_allocated * 2) \div 3

append_referrer(list, l) ==
    LET g == IF Crowded(list) THEN grow_refs(list) ELSE list
        n == g.num_allocated
        d == Min({e \in 0 .. n - 1 : g.refs[Slot(l, e, n)] = nil})
    IN  [g EXCEPT !.refs[Slot(l, d, n)] = l, !.num_refs = @ + 1,
                  !.max_hash_displacement = IF @ < d THEN d ELSE @]

\* The distances at which a search for l meets it before it gives up.
Met(list, l) == {d \in 0 .. list.num_allocated - 1 :
                    /\ d <= list.max_hash_displacement
                    /\ list.refs[Slot(l, d, list.num_allocated)] = l}

remove_referrer(list, l) ==
    IF Met(list, l) = {} THEN list
    ELSE LET at == Slot(l, Min(Met(list, l)), list.num_allocated)
         IN  [list EXCEPT !.refs[at] = nil, !.num_refs = @ - 1]

-----------------------------------------------------------------------------
(* The entries, numbered from 0.                                           *)

Size(entries) == Cardinality(DOMAIN entries)

Free(entries, i) == entries[i].referent = nil

\* Into the first free place from its own on; nowhere if there is none.
weak_entry_insert(entries, e) ==
    LET n == Size(entries)
        free == {d \in 0 .. n - 1 : Free(entries, Slot(e.referent, d, n))}
    IN  IF free = {} THEN entries
        ELSE [entries EXCEPT ![Slot(e.referent, Min(free), n)] = e]

\* Insert again each entry after place i, up to a free one or to "last".
RECURSIVE Rehash(_, _, _)
Rehash(entries, i, last) ==
    LET j == (i + 1) % Size(entries)
        moved == weak_entry_insert([entries EXCEPT ![j] = NoEntry], entries[j])
    IN  IF Free(entries, j) THEN entries
        ELSE IF j = last THEN moved ELSE Rehash(moved, j, last)

\* Mutant: the entries after the one removed stay where they are.
RemoveOnly(entries, i) == [entries EXCEPT ![i] = NoEntry]

weak_entry_remove(entries, i) == Rehash([entries EXCEPT ![i] = NoEntry], i, i)

\* A larger table when three quarters are used, with the same entries.  The
\* code inserts the empty ones as well, into places that are empty.
weak_grow_maybe(w) ==
    LET max == IF w.max_weak_refs = 0 THEN FirstSize ELSE w.max_weak_refs * 2 + 1
        entries == [i \in 1 .. w.max_weak_refs |-> w.weak_entries[i - 1]]
    IN  IF w.num_weak_refs < (w.max_weak_refs * 3) \div 4 THEN w
        ELSE [w EXCEPT !.max_weak_refs = max,
                       !.weak_entries = FoldLeft(weak_entry_insert,
                            [i \in 0 .. max - 1 |-> NoEntry],
                            SelectSeq(entries, LAMBDA e : e.referent # nil))]

Absent == -1

\* The place of o's entry, where the search for it ends before a free one.
weak_entry_for_referent(w, o) ==
    LET at(d) == Slot(o, d, w.max_weak_refs)
        ends == {d \in 0 .. w.max_weak_refs - 1 :
                    w.weak_entries[at(d)].referent \in {o, nil}}
    IN  IF ends # {} /\ w.weak_entries[at(Min(ends))].referent = o
        THEN at(Min(ends)) ELSE Absent

\* The table without the entry at place i.
Without(w, i) == [w EXCEPT !.weak_entries = weak_entry_remove(@, i),
                           !.num_weak_refs = @ - 1]

-----------------------------------------------------------------------------
(* The calls.                                                              *)

\* objc_storeWeak registers a variable that it has unregistered before.
weak_register(o, l) ==
    /\ \A p \in Referent : l \notin registered[p]
    /\ LET i == weak_entry_for_referent(weak_table, o)
           new == [referent |-> o, referrers |-> append_referrer(NoReferrers, l)]
           grown == weak_grow_maybe([weak_table EXCEPT !.num_weak_refs = @ + 1])
       IN  weak_table' =
            IF i # Absent
            THEN [weak_table EXCEPT !.weak_entries[i].referrers = append_referrer(@, l)]
            ELSE [grown EXCEPT !.weak_entries = weak_entry_insert(@, new)]
    /\ registered' = [registered EXCEPT ![o] = @ \cup {l}]

\* For a variable that is not registered, as after its object has gone, it
\* does nothing.
weak_unregister(o, l) ==
    /\ LET i == weak_entry_for_referent(weak_table, o)
           left == remove_referrer(weak_table.weak_entries[i].referrers, l)
           w == [weak_table EXCEPT !.weak_entries[i].referrers = left]
       IN  weak_table' = IF i = Absent THEN weak_table
                         ELSE IF left.num_refs = 0 THEN Without(w, i) ELSE w
    /\ registered' = [registered EXCEPT ![o] = @ \ {l}]

\* Zeroes what it finds, which ZeroesAll is about, and forgets the object.
arr_clear_deallocating(o) ==
    /\ LET i == weak_entry_for_referent(weak_table, o)
       IN  i # Absent /\ weak_table' = Without(weak_table, i)
    /\ registered' = [registered EXCEPT ![o] = {}]

WeakNext ==
    \/ \E p \in Pairs : weak_register(p[1], p[2]) \/ weak_unregister(p[1], p[2])
    \/ \E o \in Referent : arr_clear_deallocating(o)

-----------------------------------------------------------------------------

Entries == {i \in DOMAIN weak_table.weak_entries : ~ Free(weak_table.weak_entries, i)}

ListOK(list) ==
    /\ list.refs \in [0 .. list.num_allocated - 1 -> Referrer \cup {nil}]
    /\ list.num_refs = Cardinality({i \in DOMAIN list.refs : list.refs[i] # nil})
    /\ list.max_hash_displacement \in 0 .. list.num_allocated - 1

\* The counters that decide when to grow and when an entry is empty are exact,
\* and a free entry is left to end a search and to take the next object in.
CountersExact ==
    LET w == weak_table IN
    /\ DOMAIN w.weak_entries = (IF w.max_weak_refs = 0 THEN {} ELSE 0 .. w.max_weak_refs - 1)
    /\ w.num_weak_refs = Cardinality(Entries)
    /\ w.max_weak_refs > 0 => w.num_weak_refs < w.max_weak_refs
    /\ \A i \in Entries : /\ w.weak_entries[i].referent \in Referent
                          /\ ListOK(w.weak_entries[i].referrers)
                          /\ w.weak_entries[i].referrers.num_refs > 0

\* What the end of an object zeroes is what is registered for it, each variable
\* in one slot: the searches find every object that has variables, whatever was
\* removed, moved and rehashed around it, and no other.
ZeroesAll ==
    \A o \in Referent :
        LET i == weak_entry_for_referent(weak_table, o)
            list == weak_table.weak_entries[i].referrers
        IN  IF i = Absent THEN registered[o] = {}
            ELSE /\ {list.refs[j] : j \in DOMAIN list.refs} \ {nil} = registered[o]
                 /\ list.num_refs = Cardinality(registered[o])

\* A variable about to go away is found among those of its object, within the
\* displacement the array remembers.
AllRemovable ==
    \A o \in Referent : \A l \in registered[o] :
        LET i == weak_entry_for_referent(weak_table, o)
        IN  i # Absent /\ Met(weak_table.weak_entries[i].referrers, l) # {}

\* The weak table is the set of addresses per object that SideTable takes it for:
\* the counters are exact, and no search gives up on what was registered.
WeakTableIsSet == CountersExact /\ ZeroesAll /\ AllRemovable
=============================================================================
