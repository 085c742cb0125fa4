# Verification of the Objective-C runtime

The repository is Apple's Objective-C runtime `objc4-532.2` and block runtime
`libclosure-59`, ported to Android. It is a library: it has no loop and no
threads of its own. Its state is process-wide, it is changed by whatever thread
of the program calls in, and it calls back into the program (`-dealloc`,
`+initialize`, `+load`, `-retain`, `-release`, copy helpers) at moments when
its own data is half way through a change. That is where nearly all its hard
behaviour is, and what the models keep: every lock operation, every access to
shared memory made without a lock, and every call back.

Paths below without a directory are under `src/objc4-532.2/runtime/`.

## 1. Inventory

| Part | Source | State | Module | Status |
|---|---|---|---|---|
| reference counts and weak references | `NSObject.mm` | striped side tables: spin lock, counts, weak entries | `SideTable`, `WeakMemory` | modelled |
| reference count table | `llvm-DenseMap.h` | open addressing, tombstones, purgeable zeros | `DenseMap` | modelled |
| weak table layout | `objc-weak.mm` | open addressing twice, displacements | `WeakTable` | modelled |
| autorelease pools | `NSObject.mm` | each thread's list of pages, the hot page | `AutoreleasePool`, `PoolStack` | modelled |
| `@synchronized` | `objc-sync.mm` | sixteen lists of `SyncData`, per-thread caches, recursive mutexes | `Sync` | modelled |
| class registry | `objc-runtime-new.mm` | class tables, method lists, waiting categories, subclass lists, flags | `ClassRegistry` | partly |
| `+initialize` | `objc-initialize.mm`, `objc-runtime-new.mm` | two class flags, per-thread lists, pending subclasses, one monitor | `ClassInit`, `ClassHierarchy` | modelled |
| `+load` | `objc-loadmethod.mm`, `objc-runtime-new.mm` | lists of loadable classes and categories | `LoadMethods`, `ClassHierarchy` | modelled |
| method lookup and caches | `objc-cache.mm`, `objc-class.mm`, `objc-msg-arm.S` | one cache per class, forward entries, garbage | `MethodCache` | partly |
| custom cache allocator | `objc-cache.mm` | regions, free lists | `CacheAllocator` | modelled |
| ivar layouts and sliding | `objc-runtime-new.mm` | offsets and sizes of each class | `IvarLayout` | partly |
| locks and debugger mode | `objc-os.h`, `objc-runtime-new.mm`, `objc-runtime.mm` | locks, what the mode has taken, its nesting | `DebuggerLocks` | modelled |
| tables of the shared cache | `objc-shared-cache.h`, `objc-opt.mm` | a perfect hash, built once | `PerfectHash` | partly |
| associated objects | `objc-references.mm`, `objc-class.mm`, `objc-runtime-new.mm` | a map behind a spin lock, a flag in each class | `Associations` | modelled |
| property accessors | `Accessors.subproj/objc-accessors.mm` | two arrays of spin locks, the objects' words | `Accessors` | modelled |
| blocks | `libclosure-59/runtime.c`, `data.c`, `NSBlock.mm` | a flags word in each block and `__block` variable | `Blocks` | modelled |
| block trampolines | `src/objc/objc-block-trampolines.m`, `.S` | pages of slots, one block each | `BlockTrampolines` | modelled |
| protocols, selectors, the rest | see section 7 | | - | not modelled |

### What each part does, what is hard about it, and when it is correct

**Reference counts and weak references.** `objc_retain`, `objc_release`,
`objc_storeStrong`, `objc_storeWeak`, `objc_loadWeakRetained`, `objc_initWeak`,
`objc_destroyWeak`, `objc_copyWeak`, `objc_moveWeak`, and, at the end of an
object, `arr_clear_deallocating`. The count is kept as twice the number of
extra references plus a deallocating bit. A weak store reads the old value
before it holds a lock, picks up to two spin locks from it, and starts over if
the value has changed; a weak load does the same with one lock. A release drops
its lock before it sends `-dealloc`, so every other operation can meet an
object that is dying. Correct when the count is the number of strong references
for as long as the object lives, when an object is freed exactly once, when no
weak variable points to freed memory, when the tables hold no address that is
no longer a weak variable, and when the whole looks to its users like one
atomic memory in which weak variables become nil together with the last strong
reference.

**The tables inside a side table.** The counts are in a hash table whose erased
entries leave tombstones and whose zero values may be overwritten or purged at
any time; the weak references in a hash table of objects, each with a hash
table of addresses. All three searches give up silently or end the process when
a wrong counter or a wrong rehash misleads them. Correct when a search always
ends, finds what was stored and nothing else, and the counters that decide
about growth are exact.

**Autorelease pools.** Push, autorelease, pop, and the pop of everything when
the thread exits. One thread only, but a pop releases objects and each release
may run code that autoreleases, pushes and pops in the same list of pages.
Pages are freed with hysteresis, so tokens and pops in progress point into a
list that shrinks and grows. Correct when the pages are one stack, popped
exactly to the boundary whatever the releases do.

**`@synchronized`.** `objc_sync_enter` and `objc_sync_exit` find the `SyncData`
of an object in the thread's cache or in a locked list, take an unused one over
for another object, or add one. The thread count is lowered outside the lock of
the list and before the mutex is unlocked. Correct when two threads are never
inside the same object, an exit succeeds exactly for the thread that is inside,
a `SyncData` in use is never given to another object, and it becomes unused
when everybody has left.

**Class registry.** Images bring classes and categories in any order. A class
is realized by the first message to it (from its metaclass's side), by a look-up
of its name, by a subclass, or with its image; a name may be promised before its
image comes; categories wait until their class is realized, and come again
later for those that are. Programs add and exchange methods, make class pairs,
duplicate and move classes. What a class needs to know of its ancestors is kept
as flags in it. Correct when the pointers between realized classes and
metaclasses and the lists behind them are one hierarchy, when a class's methods
are the same however it came to be realized, and when no flag hides an override.

**`+initialize`.** `_class_initialize` initializes the superclass first, claims
the class under the monitor, sends `+initialize` with no lock held, and marks
the class when its superclass is done, or leaves it pending for whoever marks
the superclass. Other threads wait; the same thread passes. Correct when the
started classes reach without a gap up to the root (the comment in the code
explains how threads wait for each other otherwise), a class is marked after
its superclass, nobody returns from a message to a class that is not usable,
and every message gets through.

**`+load`.** Mapping an image schedules its classes, superclasses first, and
its categories; `call_load_methods` works the lists off with the lock released.
A `+load` method may map and unmap images, and the inner call returns at once.
Correct when each method runs once, a superclass and a category's class before,
and nothing is called in an image that is gone.

**Method lookup and caches.** The messenger reads a cache with no lock. A miss
searches the method lists under a reader lock and fills the cache under another
lock; whoever adds a method writes the lists and flushes. A cache that is
replaced goes to a list of garbage, which is freed when no thread's program
counter is inside a messenger. Correct when no reader meets freed memory, no
cache keeps what an addition has replaced, no message is answered by a method
that was never right while it was under way, and no memory leaks. The larger
caches come from an allocator without headers of its own; correct when blocks
do not overlap and a region is whole again when its last block is freed.

**Ivar layouts.** A class compiled over another version of its superclass
slides when it is realized; a class made at run time is laid out ivar by ivar.
Correct when no two ivars of an instance share a byte and each is aligned.

**Locks and debugger mode.** A debugger stops all threads anywhere, takes the
locks it can get and calls the runtime. Correct when its calls never run against
a stopped holder, wait for no side table, and leave every lock as it was. The mode
manages four locks; the first of these is not so for one of them, and a call may wait
for a lock it does not manage (section 5).

**Tables of the shared cache.** A perfect hash of all selector and class names
is searched for by trials and written into a file; the runtime looks names up in
it. Correct when a name is found exactly if it is there, whatever the hash
function gives and however many trials fail.

**Associated objects.** Set, get, remove all. The policy decides about
`-retain` and `-copy`, both called before the lock is taken, and the old value
is released after it is dropped. Its deallocation may come back. A class flag
tells `objc_destructInstance` whether to look at all. Correct when an object's
value is alive while it is in the map, counts are exact, and nothing is left
under the address of a freed object.

**Property accessors.** A getter retains and a setter exchanges a word under
one spin lock of an array; copying a structure takes two. Correct when counts
are exact, a getter of an atomic property never retains a freed object, no
structure is torn, and the locks do not block each other.

**Blocks.** `_Block_copy`, `_Block_release`, `_Block_tryRetain` and the helpers
for captured variables count in a flags word with compare-and-swap loops; a
count at its maximum stays there. Copying a block that captures a `__block`
variable moves the variable to the heap, for all blocks and the frame. Correct
when counts are exact or latched, nothing referenced is freed, and a variable
is one variable wherever it is reached from.

**Block trampolines.** `imp_implementationWithBlock` copies a block into the
next slot of the last page and returns the address of its trampoline;
`imp_getBlock` and `imp_removeBlock` find the slot again. Correct when each slot
in use has one block, alive until it is removed, and none afterwards.

### How the parts meet

- Objects are the common currency: associated objects, property accessors and
  autorelease pools own references counted in the side tables. `Associations`
  and `Accessors` count them in a variable of their own (`rc`), with the
  atomicity `SideTable` establishes; `AutoreleasePool` lets a release run
  arbitrary calls of the pool.
- `objc_destructInstance` removes associations and then clears weak
  references; `Associations` has the first, `SideTable` the second.
- Mapping images feeds the registry and then `+load`: the run `images` has both, and
  `LoadMethods` takes for granted what `ClassRegistry` shows, that a loaded
  image's classes are realized. A first message runs `+initialize`.
- `SideTable` takes the counts for a function and the weak table for a set of
  addresses per object. That is what `DenseMap` (`SearchesFind`) and `WeakTable`
  (`WeakTableIsSet`) show of their layouts, under the lock `SideTable` holds.
- `MethodCache` takes the memory of a cache for a block of its own, which is what
  `CacheAllocator` shows of the larger ones; and the flush at the end of each
  registry call that changes methods is what keeps its caches current.
- The functions of all of them nest locks. `DebuggerLocks` has ten functions, which
  between them take every lock another module has, as the sequences of their lock
  operations, and shows that their order cannot block them.
- Trampolines own copies of blocks: `BlockTrampolines` extends `Blocks`, its
  slots are holders of blocks next to the threads, and its next-state relation
  contains the whole of `Blocks`.

The hazards in `PROJECT.json` give the lines where each of these can go wrong
and the properties that would notice.

## 2. Plan

Order: what a program uses on every line first (counts, weak references, pools),
then the parts that run the program's code in the middle of their own work
(`@synchronized`, `+initialize`, `+load`, associations), then accessors and
blocks, then the class registry, the caches and what they stand on, then the data
structures the other models take for sets and functions. All of that is done.
What is left:

1. Protocols made at run time, and the ivars and properties of a class, with the
   class registry.
2. Unmapping of an image on the Mac, with the registry and the caches together.

## 3. Modules and how they correspond to the code

A step of a model is what the code does between two points where another thread
can notice: a lock operation with what it protects, or one access to shared
memory without a lock. Locals live across steps in variables indexed by the
thread; `pc` names the place in the code. The client is the set of legal calls,
in any order. A constant bounds their number.

**`SideTable`.** `slock[s]` is the spin lock of a side table, `refcnts` its
count map, `weak_table` its weak entries, `location[l]` the memory of a weak
variable, `storage[l]` whether that memory is a weak variable at the moment,
`mem[o]` the life of an object, `strong[t][s]` the thread's strong variables.
`Alloc`, `StoreStrong`, `StoreWeak`, `InitWeak`, `DestroyWeak`, `LoadWeak`,
`CopyWeak`, `MoveWeak` begin the calls. `RetainLock`, `RetainWrite`,
`ReleaseLock`, `ReleaseLast`, `ReleaseOne` are the counts, with the read and the
write in separate steps. `StoreRead`, `StoreRetry`, `StoreUnregister`,
`StoreRegister`, `StoreSet` are `objc_storeWeak`; `LoadRead`, `LoadLock`,
`LoadRetry`, `LoadRefused`, `LoadRetained` are `objc_loadWeakRetained`;
`ClearLock`, `ClearReferrer`, `ClearErase`, `Free` are the end of an object, one
referrer at a time. The client holds what it uses, and does not use a weak
variable while another thread initializes, destroys or moves it, which the
documentation of those three calls forbids. `TablesAgree` says that a table and a variable name
each other but for the store that has just taken the variable out of one or is about to
set it. `WeakMemory` is the atomic memory
this implements; its `weak` variable is the object only while that is alive.

**`DenseMap`, `WeakTable`.** `map` and `weak_table` are the tables with the code's
counters; `stored` and `registered` are what the callers were promised. A probe,
a purge, a rehash and a growth are in the operators named after the functions
(`LookupBucketFor`, `InsertIntoBucket`, `grow`, whose loop over the old buckets is
`Moved`, one bucket `Inserted` after the other; `weak_entry_for_referent`,
`weak_register`, `weak_unregister`, `arr_clear_deallocating`). Each call holds the lock of
the side table, so a call is a step.

**`AutoreleasePool`.** `pages` is the list, `hot` the index of the hot page,
`pops` the pops in progress with the page and index of their boundary, `tokens`
the tokens the code at each level holds, `leaked` the objects autoreleased
with no pool in place. `autorelease`, `push`, `pop`, `tls_dealloc` are the calls,
`releaseOne` is one turn of the loop in `releaseUntil`, `released` the return of
the release, `popDone` the end of the pop with its freeing of pages. A token is
a page and an index, as the address in the code is. `PoolStack` is one stack
and the heights of the pops' boundaries; `Height` of an entry adds the lengths
of the pages below.

**`Sync`.** `list`, `object`, `threadCount` are the `SyncData` of one of the
sixteen lists, `owner` and `depth` their mutexes, `lockCount[t][d]` the cache of
a thread, `at` where it is in its call. `Enter` and `Exit` are calls decided by the cache, `ListLock` to
`ListUnlock` the walk under the lock of the list, `StopUsing`, `MutexLock` and
`MutexUnlock` what is done outside it. The fast (thread-specific data) and the
slow cache are one function: they differ in capacity only. `UsersAgree` is how the
three agree: an object has one `SyncData`, the users of one are counted, though the count
may be too high (section 5), and a thread has in its cache what it is inside of.

**`ClassRegistry`.** `reg` is one record of everything `runtimeLock` protects: each
`class_t` (class or metaclass) with its `isa`, superclass, flags, subclass list and
method lists, the table of names, the realized classes, the remapped ones and
the categories that wait. `mapped` and `loaded` say how far an image has got. The
operators follow the functions (`realizeClass`, `AddSubclass`, `AttachMethodLists`,
`Methodize`, `remapClass`), the actions the entry points. Each takes `runtimeLock` for writing, so each is a step; the recursion to
superclass and metaclass is inside of it. `history` keeps what was added to each
class, for `MethodsAreHistory` alone. The client is legal: it neither disposes
of nor moves a class that has subclasses or shares its metaclass, it duplicates
no root, and it moves within one root.

**`MethodCache`.** `methods` are the method lists, where a method is a version, so
that an old one can be told from a new one; `heap` is the memory of caches and
forward entries, `cache[c]` a class's cache, `garbage_refs` what waits to be
freed, `writer`, `readers` and `cacheUpdateLock` the locks, `th[t]` the locals of a
thread. `LoadBucket` and `CompareEntry` are the two reads of the messenger's loop;
`LookupWithoutLock` to `unlockForMethodLookup` are `lookUpMethod`, `_cache_fill`,
`_cache_expand`, `Insert` the fill, `ChangeLists` and `flush_cache` the additions,
`_cache_collect` and `CollectALot` the collector. One step is one read of memory
that others may write, or what is done under one lock. `valid` is the history of
answers that were right since the message was sent. `CachedClass` are the classes, `Additions` what a category may
bring. `CanSeeThreads` says whether a thread's program counter can be read at all; where it
can, a reading may fail all the same, and the collector then takes the thread for a
reader, as it does where none can. `Line` is a class and what
it inherits from, `Resolve` the method of the nearest class in that line that has
one, and `WithSubclasses` the classes that a flush visits.

**`CacheAllocator`.** `regions` have their free lists, `live` the blocks in use. A
size is worked out from the mask, as in the code, both when a block is given out
and when it is freed.

**`IvarLayout`.** `ro` is the `class_ro_t` of a class with its start, size and ivars;
`MapClass` gives it what a compiler that took the superclass for some size would
have written; an image comes with the images it links to or after them, so a class
does not come before its superclass. `Realizing` is the recursion of `realizeClass`:
it reconciles a class with its superclass, after that one's own, with or without
the option that makes classes slide (`DebugNonFragileIvars`), which exempts any of
them.

**`DebuggerLocks`.** `holds` says how each actor holds each lock; `debugger` which the
mode has, `todo` the lock operations left of a function. A lock that is one of many in
the code (of a property, a table of counts, a synchronized object) is one here: two
functions that use it meet. The debugger is an
actor of its own: `gdb_objc_startDebuggerMode` may come at any moment, which is
where the threads are stopped, and they go on when the mode is off again. It
takes the locks it can get, gives them back when they are not enough, and a
call that needs another traps (`gdb_objc_debuggerModeFailure`) and is abandoned.
`Waits` is the call meeting a lock the mode does not manage and a stopped thread
has, and `Interrupt` the user giving up such a call.

**`PerfectHash`.** `stage` is the place in the builder, `smax` and `blen` its sizes,
`table` what has been written. `lookup8` under a new salt gives any values of
`UB8BITS` bits, since nothing in the code rests on which. `augment`'s search is the
queue with its water marks; its rollback never happens, because it goes one
level deep. `bzero` is the table of no names, all zeros. A section that is too small
ends the building, with nothing written, or with the header that `Write` leaves. In a
table of one name the code shifts by all its bits, which is undefined; `ShiftWraps` says
which of the two results that machines give is the one here.

**`ClassInit`.** `flags[c]` are the two flags, `list[t]` the classes a thread is
initializing, `pending` the table of pending subclasses, `monitor` the lock,
`stack[t]` the nested calls of a thread, the innermost first, each with its
class and its place in `_class_initialize`. `Message` is a message to a class
that is not initialized, from the program or from a `+initialize` method.
`Super`, `Claim`, `Run`, `Finish`, `Mark`, `FinishDone`, `Check`, `CheckAgain`,
`Wait` follow the function. `fatal` is the code's `_objc_fatal`, after which
nothing moves, so that `MessagesReturn` fails if it is ever reached.

**`LoadMethods`.** (`ClassHierarchy` has the classes and their superclasses for this
module and `ClassInit`.) `image` says what is mapped, `RW_LOADED` the class flag,
`loadable_classes` and `loadable_categories` the two lists, `detached` the list
that the call under way has taken over and `index` its place in it, `called` the
history of `+load` methods. `schedule_class_load` adds a class after its
superclasses (`Chain`), `Prepare` what an image brings (`Contents`). `LoadImage`, `UnloadImage`, `Classes`,
`Call`, `CallReturns`, `ClassesDone`, `CategoriesDone` follow
`call_load_methods`; its three nested loops are the order among their guards.
One thread: `loadMethodLock` is recursive and held throughout.

**`Associations`.** `associations[o]` is the map, `isa` and `hasAssoc` the class
and its flag, `todo[t]` what a thread still has to do: releases, deallocations,
removals, in the order the code does them. `ConcurrentSwizzle` says whether a
program may change the class of an object while another thread is making an
association on it.

**`Accessors`.** `slot` and `struct` are the words, `PropertyLocks` and
`StructLocks` the locks, which `GOODHASH` chooses. A structure has two words,
copied one at a time. A setter that copies is one whose `-copy` returns the
object itself.

**`Blocks`, `BlockTrampolines`.** `mem[h]` is a block or a `__block` variable on
the heap with its flags word and what it holds; `forwarding[t]` is where the
variable of a frame is; `held` says who owns what; `call[t]` is the list of
operations a thread still has to do. A loop of a read and a compare-and-swap is
`Read` followed by a `Swap...` or by `Retry`. `LoadWeak` is the load of a weak variable,
as `NSBlock` does it, and `WeakVariables` says whether the client makes any;
`_Block_tryRetain` is the function made for that and called by nothing. `BlockTrampolines` adds `buffers`
and `offset`, from which `Used` gives the slots in use, and makes the slots
(`Trampoline`) holders.

## 4. Runs

Each part has one invariant with its type invariant and the parts that only make
sense together (`...Consistent`), and beside it the properties a reader would ask
for by name.

| Run | Instance | Distinct states | What it shows |
|---|---|---|---|
| `weak_init` | weak references: two threads (three calls and two), two objects in different side tables, two weak variables of which one is global; `+initialize`: two threads, the hierarchy of the deadlock in the header comment of `objc-initialize.mm`: `OFObject` below `OBObject`, `OWController` and `OWAddressEntry` below that; the root's `+initialize` messages `OWController` | 224 767 | `TablesConsistent` (`WeakNeverDangles`, `NoStaleReferrer`, `TablesAgree`), `RefcountExact`; `ImplementsWeakMemory`: every step is one of `WeakMemory` or changes nothing of it; `CallsReturn`; `ContiguousFromRoot`, `MarksConsistent` (`InitializedIsComplete`, `PendingBelongsToSuper`), `ReturnsUsable`, `MessagesReturn`; no deadlock |
| `structures` | five structures, see below; blocks: two threads, three heap addresses, counts that latch at three, two literals of which one captures the other, two pages of two trampolines, five calls | 210 751 | pools: `ImplementsStack`, `WhileCanBeIf`, `TokensValid`, `PagesConsistent` (`HotPageSplits`, `OneSparePage`); `DenseMap`: `TableConsistent`, `SearchesFind`; `WeakTableIsSet`; `CacheMemoryExact`; `IvarsApart`; blocks: `BlocksConsistent` (`CountExact`, `OneVariable`), `ReferencesLive`, `OneBlockEach`, `LatchedForGood`; no deadlock |
| `images` | the registry: three images, eight classes, five categories, two calls of the client; `+load`: four images, five classes, four categories; caches: a class, its subclass, two selectors that collide, three messages and one change | 548 679 | `RegistryConsistent` (`PointersLive`, `TablesAgree`, `OnlyMissingIgnored`), `MethodsAreHistory`, `FlagsTellOverrides`; `LoadOrder`, `CallsConsistent` (`CalledOnce`, `OnlyMapped`); `CachesConsistent` (`NoUseAfterFree`, `EmptySlot`, `OnePlace`), `MethodsAreCurrent` |
| `assoc` | two threads, three addresses of which one is free at first, one key, two classes, four calls, policies assign, retain and copy | 684 711 | `ReferencesConsistent` (`RefcountExact`, `OwnedValueAlive`), `NoneLeftBehind` |
| `access_debug` | accessors: two threads, three properties (two share a lock, one is not atomic), three structures (two share a lock), one object, three calls; debugger mode: two threads with one function each, three requests of the debugger | 288 280 | `PropertiesConsistent` (`RefcountExact`, `GetterRetainsLive`), `NoTearing`, `AccessorsReturn`; `GdbIsSafe` (`StoppedThreadsExcluded`, `SideTablesAreFree`, `ModeHoldsItsLocks`, `FullModeNeverTraps`), `FunctionsReturn` |
| `sync_tables` | `@synchronized`: three threads, two objects of one list, three `SyncData`, three calls each; tables of the shared cache: no name, two or three of four names, up to three images with a class of one name | 334 079 | `MutualExclusion`, `ListConsistent` (`UsersAgree`, `ExitChecksOwner`, `WaitsForOwner`); `BuildConsistent` (`SlotsHeld`, `QueueFits`, `SaltStaysGood`), `LookupsFind` (`FindsTheStored`, `ClassesFound`) |

Each of six more runs is a finding of section 5, which TLC shows with a behaviour
that breaks the property:

| Run | Instance | Property |
|---|---|---|
| `sync_count` | `@synchronized` as above, two calls each | `ThreadCountExact` |
| `cache_flush` | the caches as above on Android (`CanSeeThreads = FALSE`), one message | `CallsReturn` |
| `debugger_limits` | debugger mode as above, two requests | `OffLimits` |
| `selopt_three` | tables of two of three names | `TakesALoadedOne` |
| `blocks_weak` | blocks as above, three calls, with loads from weak variables (`WeakVariables = TRUE`) | `ReferencesLive` |
| `blocks_remove` | blocks as above, pages of one slot | `RemovedIsGone` |

All passing runs but `assoc` compose parts that share nothing. The variable `part` of
the MC module says which one a behaviour works on; the others stay as they began, so the
states add up and do not multiply. Since each part's step leaves the others alone, that
loses no behaviour of any of them, and each part's properties hold in the others'
behaviours because they hold of its initial states. (`MCImages` is `LoadMethods` and
`MethodCache` with an instance of `ClassRegistry`; it looks at the registry's properties
in the registry's part only.)

### Why the bounds are enough to see the interesting cases

- Every race named in the hazards is between two operations on one object or
  one pair of objects. Two threads and two objects are both ends of each; a
  third thread matters only in `@synchronized`, where one gives a `SyncData` up, one takes
  it over and one still waits for it.
- With weak references, three calls of one thread against two of the other let a store, a
  load, a move and the last release meet, and let an address be used again
  after it was freed. One weak variable is global, so that it outlives the
  thread's use of it.
- In the pool, a page of two entries makes every second call cross a page, and
  the half that decides about freeing is one entry; seven calls fill three
  pages and reach pops inside pops inside pops.
- The count table has eight buckets, the fewest for which the code's rehash at an
  eighth empty means anything, and may double once; six keys, two of one hash
  value, fill it past three quarters, and with tombstones to the last bucket.
- The first weak table has three entries and grows to seven; arrays of referrers
  start with one slot, double at two and then grow by rehashing. Two objects
  start at the last entry, so one lies past the end; three variables start at
  one slot, so one is displaced by two.
- Regions have four quanta of seven words; caches of one, two, three and five
  quanta leave holes of every size below a region and need a region larger than
  the usual one.
- Ivars of one, two, four and eight bytes on a machine of four-byte words, over
  superclasses that the compiler took for four or nine bytes large: alignments
  above and below a word, and a superclass that ends at an odd offset.
- The registry's images hold a class listed before its superclass, a
  future class, a superclass that is missing, a second root, a class with a
  name that is taken, and categories before, with and after their classes, in
  every order of mapping and together. Each kind of class made at run time has one
  slot. Of the methods only those of a few classes are added to or exchanged
  (`AddTo`, `Swizzled`); two calls of the client make every pair of them.
- Of the method caches, the first has two slots and one is full at the second message,
  so that a message collides, fills, replaces and leaves garbage; the subclass
  inherits, overrides or has nothing; the one change is an addition, a category, a
  resolver's, or a flush of all. What is right for one thread to read before and
  after another's change needs one change.
- Three requests of the debugger make a start inside a start, a call in between
  and an end. One function per thread is enough to be stopped anywhere in any of the ten.
  The threads are alike, so a mode that the first request begins begins on the first of them.
- Four bits of hash give every coincidence of pairs among three names;
  two failures of each kind reach every retry and every growth of the table, and
  the end without one. Three names are interchangeable; `""` is there because its
  check byte is that of an empty slot. A table of no names is one of zeros; one of one name
  is left out, as the code's shift is undefined there (section 5).
- Of the counts of blocks, a maximum of three is one more than the two references a
  `__block` variable starts with on the heap: there are counts that stay below
  it and counts that meet it and latch. Five calls copy a block twice, make methods of
  two and release one. Pages of two make a copy go to the next
  slot of a page and to the first of a new one.
- In `assoc`, three addresses make an object, its value, and a copy or the
  value of the value. One of them is unborn, so that a copy has an address; a
  freed address is used again.
- The images with `+load` methods depend on each other's classes in
  both a superclass and a category, and a class list gives a subclass before its superclass.

- Three calls of the accessors, of two threads, make a getter or a copy meet two setters,
  or two copies in opposite directions while the third takes one of their locks.

`CHECK_DEADLOCK FALSE` stands where the number of calls is bounded and the
model stops when they are used up: `images`, `assoc`, `access_debug`, and `sync_tables`,
whose tables are also built once only. `weak_init` has an explicit
`Done` step for that end and `structures` a stutter of its blocks (`AtBound`), and both
are checked for deadlock. Threads blocked for ever while another could still make calls are
not a deadlock of the model: `CallsReturn`, `MessagesReturn` and
`AccessorsReturn` would find them, and `WaitsForOwner` says who a thread in
`@synchronized` waits for.

Symmetry is used in `sync_tables`, `assoc` and `structures`, where only
safety is checked and no constant distinguishes the permuted values: keys and
addresses are permuted only with others of the same hash value. Where two parts of a
run each permute values of a kind of their own, these are the same values (the
`SyncData` and the names in `sync_tables`; in `structures`, the heap addresses of blocks and
the like weak variables, the threads and the like keys), so that one permutation serves both parts.

### Fairness

`CallsReturn`, `MessagesReturn` and `AccessorsReturn` hold under weak fairness of
each thread's `Step` and nothing else: a thread inside the runtime is scheduled
again and again, as every preemptive scheduler does. `Call` is not in it: nobody
has to call. A spin lock is not assumed to be fair. That is enough because
calls are bounded, so a lock cannot be taken away for ever, and a class is claimed
once. What is shown, then, is that nothing blocks and no retry feeds itself. The same
fairness is all there is in `cache_flush`, where a call does not return: the collector
takes every step it can, again and again. In debugger mode the debugger ends what it starts
(weak fairness of `GdbMoves`), and a thread that can go on again and again, whenever
it is not stopped and its lock is free, does (strong fairness of `ThreadStep`): a
stop by the debugger must not count as being scheduled. For all of them, that a spinning thread gets its lock
against endless competition is not shown, and the code does not promise it.

## 5. Findings

Each of these is a run in which TLC finds the property violated.

**`imp_removeBlock`** (`src/objc/objc-block-trampolines.m:128`) releases the
address of the slot instead of the block in it, and leaves the slot. The test
expects `imp_getBlock` to return NULL afterwards. Run `blocks_remove`, property
`RemovedIsGone`.

**Weak references to blocks** (`src/libclosure-59/NSBlock.mm:96`). `NSBlock` inherits
`-retainWeakReference`, which counts in a side table, but overrides `-release`, which
counts in the block: each weak load takes a reference from another owner, and the block
is freed under it. `_Block_tryRetain` is exported "for the ARR weak subsystem", which
does not call it. Run `blocks_weak`, property `ReferencesLive`, which holds of clients
without such variables.

**An exit by a thread that is not inside** (`objc-sync.mm:218`) raises `threadCount`, the
"number of THREADS using this block" (line 36), and is then refused: the count never
comes down, and the `SyncData` is never used again for another object. Exclusion is not
affected. Run `sync_count`, property `ThreadCountExact`.

**Flushing all caches** (`objc-cache.mm:959`). Where no thread's program counter can be
read, as on Android (line 800), `_cache_collect(true)` waits for ever under
`cacheUpdateLock`, and so does `_objc_flush_caches(nil)`, which `test/forward.m:480`
calls. Run `cache_flush`, property `CallsReturn`.

**A lock that debugger mode did not get** (`objc-runtime-new.mm:210`). "Any attempt to
manipulate" it "will cause a trap" (line 103), but `loadMethodLock`'s functions do not ask
whether it was got, and gdb's call goes on against a stopped holder. Run
`debugger_limits`, property `OffLimits`.

**A class defined by three images** (`objc-opt.mm:113`) is looked for in none of them: the
branch commented "more than one matching class - find one that is loaded" is for two.
Run `selopt_three`, property `TakesALoadedOne`.

The following were met while modelling. Most are outside of what the code
promises, or on another platform; where a constant or a bound keeps the run away
from one, it is named, and setting it the other way shows the behaviour.

| Where | What | How to see it |
|---|---|---|
| `objc-references.mm:294` | the class is read and then flagged, in two steps; `object_setClass` exchanges the class and passes the flag on, also in two, without the lock. Interleaved, the new class is never flagged, and the association stays under the address of a freed object | `ConcurrentSwizzle = TRUE` in `assoc`: `NoneLeftBehind` |
| `objc-runtime-new.mm:6731` | `objc_destructInstance` reads the flag before it runs the C++ destructors, so an association that one of them makes first is missed | not modelled |
| `objc-loadmethod.mm:134` | `remove_class_from_loadable_list` does not see the list that `call_class_loads` has detached (images are unmapped on the Mac only) | `UnloadDetached = TRUE` in `images`: `CallsConsistent` |
| `objc-cache.mm:127` | the comment says that a full cache is emptied and used again every other time; `_class_shouldGrowCache` (`objc-runtime-new.mm:5291`) always says yes, so every full cache grows | `_cache_expand` of `MethodCache` |
| `objc-runtime-new.mm:2225` | `addSubclass` flags a class that has moved below one with C++ ivars, and not its subclasses | `MoveUnderCxx = TRUE` in `images`: `FlagsTellOverrides` |
| `objc-runtime-new.mm:5509` | exchanging `NSObject`'s `+allocWithZone:` sets the flag for custom retain and release instead | `SwizzleAlloc = TRUE` and `<<N, "meta">>` in `RegSwizzled` of `images`: `FlagsTellOverrides` |
| `objc-runtime-new.mm:2694` | a root class that was promised as a future class and is listed after its subclass makes the subclass ignored, although nothing is missing (comment at 2689) | `F` a root and before `G` in `RegClasslist[Lib]` of `images`: `RegistryConsistent` |
| `objc-runtime-new.mm:1299` | the comment says that root classes are flagged for custom retain and release; root pairs made at run time are not | `AllocatePair` of `ClassRegistry` |
| `objc-runtime-new.mm:6920` | `class_setSuperclass` moves no ivars | `MoveUnderBigger = TRUE` in `structures`: `IvarsApart` |
| `objc-shared-cache.h` | the name `""` is found in an empty slot, as its check byte is 0 | the exception in `FindsTheStored` |
| `objc-shared-cache.h:250` | the table of no names has a capacity and a mask of 0 and nothing behind the header, and `getIndex` reads the first check byte and offset of it | the exception in `FindsTheStored` |
| `objc-shared-cache.h:1335` | a table of one name has a shift of 64, which is undefined; where it is none, the index is outside the table | a set of one name in `Stored`: `IndexInTable` |
| `objc-opt.mm:140` | the binary search over the headers reads the one behind the last | not modelled |

## 6. Proofs

Each theorem is for all values of the constants: no bound on threads, objects,
classes, weak variables, keys, selectors, page size or calls enters. What they
start from are the assumptions that the modules state about their constants.
Most of these say what kind of value a constant is. Those with content are:

| Module | Assumption | Why the code satisfies it |
|---|---|---|
| `SideTable`, `Sync`, `Accessors`, `Associations` | the threads, and what a thread can hold references in, are finite | counts are sums over them, and memory is finite |
| `Associations` | a policy that copies or retains on reading also retains when it sets | the bits of the `OBJC_ASSOCIATION_` policies (`objc-references.mm`) |
| `MethodCache` | no class is its own ancestor; a cache starts with two buckets or more | `INIT_CACHE_SIZE` is 4; superclasses are realized first |
| `DenseMap` | a new table has a power of two of buckets, and eight or more; tables stay below 2^30 buckets; the marks for empty and erased are no keys; 0 is a value | `init` asserts the first, and 64 is the default; with fewer than eight an eighth is none, and tombstones could fill a table; up to 2^30 the `unsigned` counters, of which the code takes four times, do not wrap; the marks are those of `DenseMapInfo` |
| `AutoreleasePool` | a page has room for an entry, and the boundary is not an object | `POOL_SENTINEL` is 0 |
| `LoadMethods` | images have different classes and categories; no class is its own ancestor | one binary defines a class or category; superclasses are realized first |
| `LoadMethods`, in both theorems | `UnloadDetached` is false: no `+load` method unmaps an image whose `+load` methods are being called | images are unmapped on the Mac only, and not all programs do: see `remove_class_from_loadable_list` in section 5 |
| `Blocks` | addresses, holders, literals and captures are told apart, and there are finitely many addresses and holders; the highest count is above 1 | they are different things; `BLOCK_REFCOUNT_MASK` is `0xfffe`, in steps of two |
| `Blocks`, in its four theorems | `NoWeakLoad`, a premise: the client loads no block from a weak variable | what `NSBlock` does with weak loads is a defect: see section 5. The restriction is on the program, and what the runtime does is all there |
| `IvarLayout` | of two alignments one is a multiple of the other; no class is its own ancestor, and an image's class is not one the client makes | alignments are powers of two (`ivar_alignment`); superclasses are realized first |
| `IvarLayout`, in its theorem | `MoveUnderBigger` is false: no class is moved below one that ends after its own ivars begin | `class_setSuperclass` moves no ivars, and is for the few clients that know theirs fit: see its hazard |
| `Associations`, in `NoTableLeftBehind` only | `ConcurrentSwizzle` is false: the class of an object is exchanged only while nobody else is in a call on it | not all programs do: see `object_setClass` in section 5 |

Nearly all properties are of the same kind: nothing a single step could be blamed
for breaks them. The inductive invariant therefore says, of each place a call
can be at, what it knows of shared memory and who keeps that true (a lock it
holds, or that nobody else may touch it). Each proof has a lemma per action for
what the step does to its own thread and one lemma for what any step leaves to the
others.

**`ReleaseProofs`** has two parts, which share only lemmas. On the autorelease pool it
proves three theorems from one inductive invariant.
`PagesWellFormed`: pages below the hot one are full, above it empty, and nothing
is written past the end of a page (with the type invariant). `TheWhileCanBeIf`:
when the loop in `releaseUntil` finds the hot page empty, the parent exists and
is not empty. The code says of this: "fixme I think this `while` can be `if`,
but I can't prove it" (`NSObject.mm:663`). `TokensStayValid`: a token held by the
running code or by any caller is the address of a boundary, and so is what each pop in
progress was called with, until it reaches it.

None of the three is inductive. The walk begins only while the pool is above
the boundary of the pop, so it stays short as long as that boundary is not
below pages that were taken off, and that depends on what the code called from
releases may pop. The invariant therefore orders addresses in the pool (page,
then index) and says: the boundaries of nested pops ascend (`PopsNested`); the
tokens of each level ascend (`TokensAscend`), lie above the boundary of the pop
that level runs in (`TokensAbove`) and below that of the pop it has started
(`TokensBelow`). So code at any level can only pop to a boundary above those
that anybody further out still counts on. With it go `PopsInside` and
`TokensInside` (nothing under a boundary in use is gone), `Levels` (one level of
tokens per pop and one outside), `NoCodeNoTokens` and `TopIsOutermost` (the pop
of everything happens once, at the exit of the thread, when it has no tokens).
There is one lemma per action; `PageForIs` and `Added` describe what adding an
entry does to the pages for `push` and `autorelease` alike.

`PagesStayConsistent` says the rest of what holds of the list: full pages, the hot one, empty
ones (`HotPageSplits`), and between pops one spare page at most. The hot page
is left by a push or an autorelease only when it is full, and a pop that ends
kills what is beyond one child; in between, releases may leave any number of
empty pages, so `SpareInv` speaks only of the time when no pop is in progress.
`PagesImplementStack` is the refinement of `PoolStack`: `Joined` pages are the
stack, an address in the list is a height (`StopsOf`), and `EntryAt` says that the
entry is found there, so a pop to an address is a pop to a height.

On blocks it proves `BlocksStayConsistent`, `ReferencesStayLive` and `LatchesStay`,
for any threads, addresses and captures and any interleaving of the loops.
`BlocksIInv` says of each address what its count is: the references of
holders, of blocks, of frames, and of calls under way, which own what they are to
release or to return (`AddressOK`). Every step moves references from one of these
to another, and `Tallies` reduces what it does to the total to what one holder, one
block, one frame and one call had before and have after. That a count is never
raised from zero is not local: a block is captured because the thread holds it, or
the frame does, some steps before its count is raised, and `InScope` keeps that
until then; a literal that is copied is filled by several steps before
anybody holds it, and `Building` gives each thread the addresses of what it is copying,
which no other thread has in hand. The last reference takes everything a block
captures with it: `LastOne` says that nothing else has the object then, and
`DisposesNamed` that each capture is given up once. `_Block_tryRetain` has no
reference while it tries: the free waits for it, and it never raises a word with the
DEALLOCATING bit, which `FirstOp` says of what it has read. `OneBlockStays` is of
trampolines: a slot is given out before there is anything for it, so until its
block arrives there is one operation for it, in one call (`SlotOK`).

**`SideTableProofs`** proves that the striped tables are right and look atomic.
`CountsStayExact` and `TablesStayConsistent` are the invariants that the run `weak_init`
checks; `StoresAreNotFatal` says that a store of an object the caller holds never
meets the `_objc_fatal` of `weak_register_no_lock`; `SideTablesImplementWeakMemory`
is the refinement of `WeakMemory`, and `WeakReferencesAreSafe` carries over what holds
in the atomic memory: an object is alive exactly while it is strongly referenced,
and no weak variable has the value of a dead one. The invariant has four parts.
`ThreadOK` is what each function under way knows: its arguments, the locks it
holds, and what it read under them; what it read before it had the lock it must
read again, and nothing is said of that. `ApartOK` says that a variable being initialized, destroyed or
moved is in no other's arguments, and that one thread at most deallocates an object.
`ObjectOK` relates an object's count, its deallocating bit and its entry in
each phase of its life. `WeakOK` says that tables and variables name each other,
but for the variable a store under the lock is about to set. The
refinement then needs one observation per step: of a function's steps, one
is its step of the atomic memory, and it is where the variable or the count is
written.

It also proves that the table `refcnts` stands for, `DenseMap`, is right:
`CountTableStaysConsistent` and `SearchesStayRight`, for any keys, values and hash, however
the keys collide. The counters decide when a table is rehashed, so that they are
exact is what keeps a bucket empty, and an empty bucket is what ends a
search; but only if the search comes by it. `WayIs` shows that it does: the steps of
1, 2, 3, ... visit every bucket of a table of a power of two, as the
difference of two of their sums is a product of two factors of which one is odd, and
both are too small for the other to be a multiple of the size. What makes a search right is
not about one search: an entry is found as long as no bucket on the way to
it has become empty since it was written (`OnWay`), so erasing leaves a tombstone
and a purge writes over an entry. `MapIInv` says this of each entry, that no key
has two, that the counters are exact and leave one bucket empty, and that the
entries are what was stored. It is kept by each write to one bucket
(`WrittenSound`), and holds again in the new array after each bucket of the old one
that `grow` has moved (`HoldsKept`).

**`LockProofs`** proves `SynchronizedExcludes` (`MutualExclusion`) and
`ListStaysConsistent` (`ListConsistent`). That the mutex excludes is trivial; that
an object has one mutex for as long as anyone is inside is not, because a
`SyncData` in the list is taken over when its count is 0. `DataOK` says that one with
users is counted, `ObjectsApart` that an object has one, and `EntriesOK` counts how
often a thread has locked a mutex three ways: in the mutex, in the thread's cache
and by what it is inside of, with the call under way as the difference.
`threadCount` is only an upper bound of the users, for the reason in section 5,
and an upper bound is enough. `ListConsistent` says this to the reader (`UsersAgree`), with
what an exit refuses and who a waiting thread waits for.

The other half is debugger mode: `DebuggerStaysSafe` (`GdbIsSafe`). It is about three of
the four locks the mode manages, as `loadMethodLock` is not asked for (section 5), and
about the side tables, which are the one kind of lock it looks at without managing it. What a call of
the debugger may do rests on what the mode acquired when it began, many steps ago,
while the threads cannot have moved since. `StoppedOK` says that: what the
variables of the mode have, no stopped thread has in a way that excludes it, no
side table is locked, and the call is inside of no lock more strongly than the mode
holds it. `ModeOK` is how mode, thread and count go together; the count is what is
left to end. A mode may end only when no call is inside of a lock, which is a fact about
the functions: each drops what it takes (`Closes`, `UsingOK`). That a call
traps in partial mode only, and waits for no side table, follows. It may wait for any
other lock that is not managed: those of properties, associations, `@synchronized` and
`+initialize`.

**`ClassProofs`** proves that in any hierarchy and whatever the `+initialize`
methods message, the classes that are initializing or initialized reach up to the
root without a gap (`StartedIsContiguous`), a class is marked after its superclass
and after its own method (`MarksStayConsistent`), a call returns only when its
thread may use the class (`CallsReturnUsable`), and none of the function's own
fatal checks is reached (`NeverFatal`). A class is claimed on the strength of what
an inner call did for its superclass some steps earlier, which no state before the
claim shows. `SuperOK` says that a call past its first step may use the
superclass, unless the call directly inside it is seeing to that. That "may use" is
for good: a class once on the thread's list stays there until it is marked. With
it goes where each class is that a thread is initializing: in one `+initialize`
under way, pending on its superclass, or about to be marked, and in one of
these only (`KnownOK`, `FinishOK`, `MarkingOK`, `PendingOK`).

And it proves that `+load` methods are called once each, none is forgotten, and
none in an unmapped image (`LoadCallsStayConsistent`), a class's after its
superclass's and a category's after its class's (`LoadsInOrder`), for any
images, however the loads and unloads that `+load` methods make nest. `Pending` is
what is still to be called, in the detached list from its index on (`LeftAt`) or in
the two that are filled meanwhile. `OnceOK` says that nothing is twice in these, nor in
these and already called; `ListedOK` that they are what has a `+load` method in the
mapped images and has not been called; `OrderOK` that in each list a class comes
after its superclass or that has been called, and that when categories are
worked on, their classes have been called. New entries come from
`schedule_class_load`, whose recursion to the superclass stops at a class that is
flagged: `Grown` says what a list and the flags may have become, from any list and
any set of flags, and is kept by each class, chain and image. That `Chain` has the
equation by which it is defined follows from the superclass relation being
well-founded. Both theorems are for programs in which no `+load` unmaps an image
whose entries are in the detached list; the code does not see these (section 5).

**`StorageProofs`** has three parts. On accessors it proves `PropertiesStayConsistent`
and `StructuresStayWhole`. For the second, a copy holds the locks of both its ends while it moves (`CopyLocksHeld`),
and a structure half of which has been moved has the other half of what it was
(`WholeOrHalf`). For the first, what an accessor has read is still in the property when
it acts on it (`ReadIsThere`): it has the property's lock (`SlotLocksHeld`), or the
property is not atomic and used by one thread (`UsedByOne`). Counts are sums over
threads and properties, and each step changes one summand.

On the cache allocator it proves `CacheMemoryStaysExact`. The property says that
nothing overlaps; what is inductive is that nothing is missing either (`RegionOK`):
each word of a region is in one free block or in one cache's block, as the cache's
mask gives it, and in one only, and the free list is in order with a gap after
each block (`FreeList`). That is what makes the block that is given back exactly the
gap it fills, and leaves a region without caches one block. Every size is a
number of quanta, so that a rest that is thrown in with a slice is empty. The
proof is for any number of slots, power of two or not, and any quantum.

On layouts it proves `IvarsStayApart`. A layout in order, each ivar aligned
(`LaidOut`), stays so when it slides by what all its alignments divide (`SlidIs`),
which a multiple of the largest is. The invariant (`LayoutsOK`) is that every
realized class has such a layout and starts where its superclass ends, or after
it. Realizing a class realizes those above it first, and the invariant holds after
each; that the recursion has a value at all follows from the superclass relation
being well-founded (`RealizingIs`), and so does that a class is not realized by
the realization of its own superclass (`RealizedInTurn`). A class under
construction may grow because nothing is below it.

**`AssociationsProofs`** proves `ReferencesStayConsistent` from `CountInv`: the
count of an object is the sum of what threads hold, what is associated, what a
set call has retained and not yet stored, and the releases still to be done. An
object being deallocated is freed once (`FreesOnce`). `NoTableLeftBehind` needs
more (`RemoveInv`): the removal comes before the free in the same thread's
list (`RemovesFirst`), and an object with associations is of a flagged class or some
thread is about to flag it (`Flagged`), which is where two threads that change the
class and flag it at once would break in (`SwizzlesAlone`, `FlagsItsClass`).

**`MethodCacheProofs`** proves `CachesStayConsistent` and `MethodsStayCurrent`. It
has three invariants, each on top of the last. `Control` has what a thread's locals
are and which locks it holds at each place. `MemoryOK` puts each block of memory in
exactly one place: free, a cache in use, an outgrown cache among the garbage, or a forward
entry that is in a cache, about to be added, or dropped (`PlaceOf`). So nothing
leaks and nothing is freed twice. A reader has no lock, so what it reads is in use
or garbage (`ReaderIs`), and a collector that has looked at a thread's program
counter and found it outside knows that this thread holds no garbage and will
find none, as nothing that it can reach still refers to it (`SeenOK`). That is all that
keeps freed memory from being read. `MethodsOK` says which lists a cache entry
agrees with: those there are, or, in a class whose cache is yet to be flushed
(`Pending`), those or the ones before the change (`CacheAgrees`); and that a
thread's answer was right at some time since its message was sent (`AnswerOK`,
`ValidOK`). Inheritance enters through one lemma about `Resolve`: a change of a class
matters only to classes in whose line it is, which are those that are flushed.

**`FoldLemmas`** is about the folds the models use, `FlattenSeq`, `SumFunction` and
`FoldLeft`, and the recursive functions that count or search.
The provers cannot instantiate the library's induction theorems, which take an
operator. The lemmas do without: a set of numbers that are counterexamples has a
least one, and that gives the existence and the uniqueness of the recursive
function a fold is defined by, and its equation. What a sum does when one summand
changes follows, and that is the fact the proofs about counts rest on.

### Only model-checked

- All liveness properties, which are out of the prover's reach.
- `ClassRegistry` and `WeakTable`, which use recursive operators, and `PerfectHash`,
  which uses bitwise ones: nothing can be proved in a module that does.

`WeakMemory` and `PoolStack` are the specifications that others are proved to
implement.

## 7. What is left out

Inside the modelled parts:

- Garbage collection. It is compiled out on this platform; the entry points
  forward to the plain ones, and variants of accessors, blocks and associations
  for it are not reached.
- The fast path for autoreleased return values: `SUPPORT_RETURN_AUTORELEASE` is
  0 here.
- The other tables that models take for sets and functions: the map of associated
  objects, the interned selectors, the tables of names.
- Of a class: properties, protocols, the bitmaps of its ivar layout (read by a
  collector only), its vtable (not built), the memo table of
  `getNonMetaClass`. Images are unmapped on the Mac only.
- Of method lookup: the statistics, selectors that a collector ignores, the
  freeing of a class's cache with its class, and the look-ups of C++
  constructors and destructors.
- Of the shared cache's tables: the byte order of the file, offsets that do not fit in 32
  bits, and the search for an image's header; the runs have none of one name.
- Structures that are copied without their lock, which may tear.
- The growth of the arrays of `+load` methods, and of the lists of `+initialize`.
- C++ destructors run by `objc_destructInstance` before associations are
  removed. The flag is read before them, so an association that a destructor
  makes on its own object is missed; listed as a hazard without a property.
- Two threads that copy blocks over one `__block` variable while it is still on
  the stack of one of them. The runtime does nothing against it, and a frame's literals are
  copied by its own thread here.
- The allocation of memory never fails.

Parts not modelled: the runtime's own trampolines (replaced by `src/objc/` on
this platform); protocols (tables read from images, remapped once under
`runtimeLock` and then searched); selectors, hash tables and map tables
(sequential structures, each used under its caller's lock); type encodings (a
parser of constant strings); exceptions (the platform's unwinder carries them);
external references and everything else of the collector, with `markgc`, a tool
that marks object files for it; the old runtime and `Object.m` (not built); the
reading of images at start-up (the tables a compiler wrote); errors and the
debug build's assertions about locks; the messengers of other processors;
`src/objc-runtime/` (a program for another runtime).

Much of the headers is declarations, macros for other platforms and the layout of
structures, which no definition translates; what they define is modelled where it
is used.
