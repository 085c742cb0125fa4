---------------------------- MODULE ClassRegistry ----------------------------
(***************************************************************************)
(* The class registry of objc-runtime-new.mm: how classes are discovered   *)
(* in images, realized, given the methods of categories, made, moved and   *)
(* disposed of at run time.                                                *)
(*                                                                         *)
(* Every call here takes runtimeLock for writing, so each is one action.   *)
(* What is left to chance is the order: a class is realized by the         *)
(* messenger (from either side), by a look-up by name, or with its image;  *)
(* a category may be discovered before, between or after the realizations  *)
(* of its two targets; and the client's calls come in between.             *)
(*                                                                         *)
(* A node is one class_t: the class or the metaclass of a pair.  A method  *)
(* list has an identity (what it comes from) and an implementation for     *)
(* each of its selectors.                                                  *)
(***************************************************************************)
EXTENDS Integers, FiniteSets, SequencesExt

CONSTANTS
    Image, Class, Category,
    Future, Pair, Duplicate,    \* storage for the classes made at run time
    NULL, Missing, NSObject,
    super,              \* of a compiled class: a class, NULL (root) or Missing
    name,               \* of a compiled class
    parent,             \* class of each category
    methods,            \* of <<class or category, side>>: a set of selectors
    classlist, nonlazy, catlist, nonlazycat,    \* of each image
    Batch,              \* the sequences of images the linker may map together
    HasCxx,             \* the compiled classes flagged RO_HAS_CXX_STRUCTORS
    FutureName, MadeName,           \* names asked for by the client
    AddTo, Swizzled,    \* bounds: the nodes given methods, the nodes swizzled
    MaxCalls,           \* bound on the client's calls, other than those
                        \* that register or dispose of a pair it made
    MoveUnderCxx,       \* whether a class with subclasses is moved below one
                        \* with C++ structors
    SwizzleAlloc        \* whether NSObject's +allocWithZone: is swizzled

Made == Future \cup Pair \cup Duplicate
Node == (Class \cup Made) \X {"class", "meta"}
Compiled == Class \X {"class", "meta"}
RRSelector == {"retain"}
AWZSelector == {"allocWithZone"}
Selector == RRSelector \cup AWZSelector \cup {"initialize", "m"}

ClassRegistryAssumption ==
    /\ super \in [Class -> Class \cup {NULL, Missing}]
    /\ NSObject \in Class /\ super[NSObject] = NULL
    /\ parent \in [Category -> Class]
    /\ methods \in [(Class \cup Category) \X {"class", "meta"} -> SUBSET Selector]
    /\ classlist \in [Image -> Seq(Class)] /\ nonlazy \in [Image -> Seq(Class)]
    /\ catlist \in [Image -> Seq(Category)] /\ nonlazycat \in [Image -> Seq(Category)]
    /\ MaxCalls \in Nat /\ MoveUnderCxx \in BOOLEAN /\ SwizzleAlloc \in BOOLEAN

VARIABLES
    reg,        \* what runtimeLock guards, below
    mapped,     \* the images mapped, and those whose +load was prepared
    loaded,
    calls,      \* the calls of the client so far
    history     \* of each node: its method lists in the order they came

rvars == <<reg, mapped, loaded, calls, history>>

IsMeta(n) == n[2] = "meta"

RECURSIVE RootOf(_)
RootOf(c) == IF super[c] \in {NULL, Missing} THEN c ELSE RootOf(super[c])

\* A method list as the compiler emits it.
MethodList(x) == [id |-> x, imp |-> [s \in methods[x] |-> x]]

\* A class_t as the compiler emits it, or storage not yet used.
Emitted(n) ==
    IF n \in Compiled
      THEN LET c == n[1] IN
           [isa |-> IF IsMeta(n) THEN <<RootOf(c), "meta">> ELSE <<c, "meta">>,
            superclass |-> CASE super[c] = Missing -> NULL
                             [] super[c] = NULL -> IF IsMeta(n) THEN <<c, "class">> ELSE NULL
                             [] OTHER -> <<super[c], n[2]>>,
            flags |-> IF super[c] = NULL THEN {"ROOT"} ELSE {},
            ro |-> n, name |-> name[c], lists |-> <<>>, subs |-> <<>>]
      ELSE [isa |-> NULL, superclass |-> NULL, flags |-> {}, ro |-> NULL,
            name |-> NULL, lists |-> <<>>, subs |-> <<>>]

RegInit ==
    /\ mapped = {} /\ loaded = {} /\ calls = 0
    /\ reg = [node |-> [n \in Node |-> Emitted(n)],
              unattached |-> [n \in Node |-> <<>>],     \* unattachedCategories
              named |-> {}, future |-> {},              \* pairs of name and class
              remapped |-> {},                          \* pairs of old and new
              realized |-> {}]                          \* both hash tables
    /\ history = [n \in Node |-> <<>>]

-----------------------------------------------------------------------------
(* Look-ups.                                                               *)

Realized(st, n) == "REALIZED" \in st.node[n].flags

\* getClass: the class of a name, NULL if there is none.
GetClass(table, nm) ==
    IF \E e \in table : e[1] = nm THEN (CHOOSE e \in table : e[1] = nm)[2] ELSE NULL

\* Mutant: the class list's own pointer is taken for the class.
Unmapped(st, n) == n

remapClass(st, n) ==
    IF \E e \in st.remapped : e[1] = n
      THEN (CHOOSE e \in st.remapped : e[1] = n)[2] ELSE n

\* The index of the first of a node's lists that has a selector, 0 if none has:
\* getMethodNoSuper_nolock.
FirstWith(node, n, s) ==
    LET has == {k \in DOMAIN node[n].lists : s \in DOMAIN node[n].lists[k].imp}
    IN IF has = {} THEN 0 ELSE CHOOSE k \in has : \A j \in has : k <= j

-----------------------------------------------------------------------------
(* The flags of a class and its subclasses, and their lists.               *)

RECURSIVE AndSubclasses(_, _)
AndSubclasses(node, n) ==
    {n} \cup UNION {AndSubclasses(node, m) : m \in ToSet(node[n].subs)}

\* Mutant: subclasses that are realized already are forgotten.
FlagItself(st, n, f) == [st EXCEPT !.node[n].flags = @ \cup {f}]

\* setHasCustomRR and setHasCustomAWZ.
SetCustom(st, n, f) ==
    IF f \in st.node[n].flags THEN st
    ELSE LET below == AndSubclasses(st.node, n) IN
         [st EXCEPT !.node = [m \in Node |->
             IF m \in below THEN [@[m] EXCEPT !.flags = @ \cup {f}] ELSE @[m]]]

SetCustomAll(st, n, flags) ==
    FoldLeft(LAMBDA s, f : IF f \in flags THEN SetCustom(s, n, f) ELSE s,
             st, <<"CUSTOM_RR", "CUSTOM_AWZ">>)

\* addSubclass: to the front of the list, and what is inherited.
AddSubclass(st, s, n) ==
    LET linked == [st EXCEPT !.node[s].subs = <<n>> \o @,
                             !.node[n].flags = @ \cup (st.node[s].flags \cap {"CXX"})]
    IN SetCustomAll(linked, n, st.node[s].flags)

removeSubclass(st, s, n) == [st EXCEPT !.node[s].subs = SelectSeq(@, LAMBDA m : m # n)]

\* attachMethodLists.  NSObject's own methods, and those of its metaclass, are
\* what the flags compare with; any other root is custom whatever it defines.
AttachMethodLists(st, n, added, base) ==
    LET sels == UNION {DOMAIN l.imp : l \in ToSet(added)}
        rr  == IF base /\ st.node[n].superclass = NULL THEN n # <<NSObject, "class">>
               ELSE sels \cap RRSelector # {}
        awz == IF base /\ st.node[n].isa = n THEN n # st.node[<<NSObject, "class">>].isa
               ELSE sels \cap AWZSelector # {}
        flagged == SetCustomAll(st, n, {f \in {"CUSTOM_RR", "CUSTOM_AWZ"} :
                                          IF f = "CUSTOM_RR" THEN rr ELSE awz})
    IN [flagged EXCEPT !.node[n].lists = added \o @]

\* addMethod where the class has no such method of its own.
AddOneMethod(st, n, s, imp) ==
    AttachMethodLists(st, n, <<[id |-> s, imp |-> [t \in {s} |-> imp]]>>, FALSE)

\* Mutant: the oldest category in front.
OldestFirst(cats) == cats

\* attachCategoryMethods counts backwards, the newest first.
NewestFirst(cats) == Reverse(cats)

\* Categories without methods for this side have no list.
AttachCategories(st, n) ==
    LET lists == [k \in DOMAIN st.unattached[n] |->
                     MethodList(<<st.unattached[n][k], n[2]>>)]
    IN AttachMethodLists([st EXCEPT !.unattached[n] = <<>>], n,
                         SelectSeq(NewestFirst(lists), LAMBDA l : DOMAIN l.imp # {}), FALSE)

\* methodizeClass: the class's own list, a root metaclass's +initialize, and
\* the categories that were waiting.
Methodize(st, n) ==
    LET own == SelectSeq(<<MethodList(st.node[n].ro)>>, LAMBDA l : DOMAIN l.imp # {})
        based == AttachMethodLists(st, n, own, TRUE)
        bonus == IF based.node[n].isa = n /\ FirstWith(based.node, n, "initialize") = 0
                   THEN AddOneMethod(based, n, "initialize", "noop") ELSE based
    IN AttachCategories(bonus, n)

\* realizeClass: marked first, for root classes; then its superclass and its
\* metaclass, and what they are now.
RECURSIVE realizeClass(_, _)
realizeClass(st, n) ==
    IF n = NULL \/ Realized(st, n) THEN st
    ELSE LET marked == [st EXCEPT !.node[n].flags = {"REALIZED"}]
             supercls == remapClass(st, st.node[n].superclass)
             metacls == remapClass(st, st.node[n].isa)
             up == realizeClass(realizeClass(marked, supercls), metacls)
             fixed == [up EXCEPT !.node[n].superclass = supercls,
                                 !.node[n].isa = metacls,
                                 !.node[n].flags =
                                     @ \cup IF st.node[n].ro \in HasCxx \X {"class"}
                                              THEN {"CXX"} ELSE {}]
             linked == IF supercls = NULL THEN fixed ELSE AddSubclass(fixed, supercls, n)
         IN [Methodize(linked, n) EXCEPT !.realized = @ \cup {n}]

realizeAll(st, ns) == FoldLeft(realizeClass, st, ns)

-----------------------------------------------------------------------------
(* _read_images.                                                           *)

addNamedClass(st, n) ==
    IF GetClass(st.named, st.node[n].name) # NULL THEN st
    ELSE [st EXCEPT !.named = @ \cup {<<st.node[n].name, n>>}]

\* The flags are those of the data the class points to: of a future class that
\* has been resolved and not realized, not the class's own.
RECURSIVE missingWeakSuperclass(_, _)
missingWeakSuperclass(st, n) ==
    IF st.node[n].superclass = NULL THEN "ROOT" \notin st.node[n].flags
    ELSE LET s == remapClass(st, st.node[n].superclass) IN
         IF s = NULL THEN TRUE
         ELSE ~Realized(st, s) /\ missingWeakSuperclass(st, s)

\* One class of a class list: ignored, or copied to the future class of its
\* name, or entered as it is.
Discover(st, c) ==
    LET n == <<c, "class">>
        f == GetClass(st.future, name[c])
    IN CASE missingWeakSuperclass(st, n) ->
              [st EXCEPT !.remapped = @ \cup {<<n, NULL>>}, !.node[n].superclass = NULL]
         [] f # NULL /\ ~missingWeakSuperclass(st, n) ->
              addNamedClass([st EXCEPT !.future = @ \ {<<name[c], f>>},
                                       !.node[f] = [st.node[n] EXCEPT
                                                       !.flags = st.node[f].flags],
                                       !.remapped = @ \cup {<<n, f>>}], f)
         [] OTHER -> addNamedClass(st, n)

\* One side of a category: registered, and attached if its class is realized.
AddCategory(st, d, n) ==
    IF methods[<<d, n[2]>>] = {} THEN st
    ELSE LET waiting == [st EXCEPT !.unattached[n] = Append(@, d)]
         IN IF Realized(st, n) THEN AttachCategories(waiting, n) ELSE waiting

DiscoverCategory(st, d) ==
    LET n == remapClass(st, <<parent[d], "class">>)
    IN IF n = NULL THEN st ELSE AddCategory(AddCategory(st, d, n), d, st.node[n].isa)

\* The classes of a sequence of images, and what stands for them.
ClassesOf(images) == FlattenSeq([k \in DOMAIN images |-> classlist[images[k]]])
CategoriesOf(images) == FlattenSeq([k \in DOMAIN images |-> catlist[images[k]]])
RemapAll(st, cs) == [k \in DOMAIN cs |-> remapClass(st, <<cs[k], "class">>)]

ReadImages(st, images) ==
    LET found == FoldLeft(Discover, st, ClassesOf(images))
        lazyless == FlattenSeq([k \in DOMAIN images |-> nonlazy[images[k]]])
        resolved == SelectSeq(RemapAll(found, ClassesOf(images)), LAMBDA n : n # NULL /\ n[1] \in Future)
        connected == realizeAll(found, RemapAll(found, lazyless) \o resolved)
    IN FoldLeft(DiscoverCategory, connected, CategoriesOf(images))

\* The images whose classes an image's classes and categories refer to.
Requires(m) ==
    {k \in Image \ {m} :
        \/ \E c \in ToSet(classlist[m]) : super[c] \in ToSet(classlist[k])
        \/ \E d \in ToSet(catlist[m]) : parent[d] \in ToSet(classlist[k])}

\* The categories that reach a node, in the order they were found.
Reaching(st, n, images) ==
    SelectSeq(CategoriesOf(images), LAMBDA d :
        LET c == remapClass(st, <<parent[d], "class">>) IN
        /\ c # NULL /\ n = IF IsMeta(n) THEN st.node[c].isa ELSE c
        /\ methods[<<d, n[2]>>] # {})

MapImages(images) ==
    /\ ToSet(images) \cap mapped = {}
    /\ \A m \in ToSet(images) : Requires(m) \subseteq mapped \cup ToSet(images)
    /\ mapped' = mapped \cup ToSet(images)
    /\ reg' = ReadImages(reg, images)
    /\ history' = [n \in Node |->
          LET cats == Reaching(reg', n, images)
          IN history[n] \o [k \in DOMAIN cats |-> <<cats[k], n[2]>>]]
    /\ UNCHANGED <<loaded, calls>>

\* prepare_load_methods, of an image all of whose images it requires went
\* before: every class is realized, and those of its categories with a +load.
LoadImage(m) ==
    /\ m \in mapped \ loaded /\ Requires(m) \subseteq loaded
    /\ loaded' = loaded \cup {m}
    /\ reg' = realizeAll(reg, RemapAll(reg, classlist[m])
                  \o RemapAll(reg, [k \in DOMAIN nonlazycat[m] |-> parent[nonlazycat[m][k]]]))
    /\ UNCHANGED <<mapped, calls, history>>

-----------------------------------------------------------------------------
(* The calls that realize a class.                                         *)

\* What a reference to a class of an image leads to.
Referred == {remapClass(reg, <<c, "class">>) : c \in UNION {ToSet(classlist[m]) : m \in mapped}}
               \ {NULL}

\* The first message to a class: the receiver's class is its metaclass, and
\* that is what prepareForMethodLookup realizes.
MessageClass(n) ==
    /\ n \in Referred /\ ~Realized(reg, reg.node[n].isa)
    /\ reg' = realizeClass(reg, reg.node[n].isa)
    /\ UNCHANGED <<mapped, loaded, calls, history>>

\* Then _class_getNonMetaClass, before +initialize, finds and realizes the class.
GetNonMetaClass(n) ==
    /\ n \in Referred /\ ~Realized(reg, n) /\ Realized(reg, reg.node[n].isa)
    /\ reg' = realizeClass(reg, n)
    /\ UNCHANGED <<mapped, loaded, calls, history>>

look_up_class(nm) ==
    /\ GetClass(reg.named, nm) # NULL /\ ~Realized(reg, GetClass(reg.named, nm))
    /\ reg' = realizeClass(reg, GetClass(reg.named, nm))
    /\ UNCHANGED <<mapped, loaded, calls, history>>

-----------------------------------------------------------------------------
(* The client's calls on methods.                                          *)

Call ==
    /\ calls < MaxCalls
    /\ calls' = calls + 1
    /\ UNCHANGED <<mapped, loaded>>

\* class_addMethod, or class_replaceMethod, of a method the class has not got.
AddMethod(n, s) ==
    /\ Call
    /\ Realized(reg, n) /\ FirstWith(reg.node, n, s) = 0
    /\ reg' = AddOneMethod(reg, n, s, "new")
    /\ history' = [history EXCEPT ![n] = Append(@, s)]

SetImp(st, n, k, s, imp) == [st EXCEPT !.node[n].lists[k].imp[s] = imp]

FlagsOf(s) == {f \in {"CUSTOM_RR", "CUSTOM_AWZ"} :
                 IF f = "CUSTOM_RR" THEN s \in RRSelector ELSE s \in AWZSelector}

\* class_replaceMethod of a method it has: the class is known.
ReplaceMethod(n, s) ==
    /\ Call
    /\ Realized(reg, n) /\ FirstWith(reg.node, n, s) # 0
    /\ reg' = SetCustomAll(SetImp(reg, n, FirstWith(reg.node, n, s), s, "new"), n, FlagsOf(s))
    /\ UNCHANGED history

\* updateCustomRR_AWZ where the class is not known: only NSObject's own methods
\* can make a difference.  A swizzled +allocWithZone: sets the other flag.
UpdateCustom(st, n, s) ==
    LET root == <<NSObject, "class">> IN
    CASE s \in RRSelector /\ n = root -> SetCustom(st, n, "CUSTOM_RR")
      [] s \in AWZSelector /\ n = st.node[root].isa -> SetCustom(st, n, "CUSTOM_RR")
      [] OTHER -> st

\* The methods a client may have in hand: a node, a list of it and a selector.
Method == {m \in {n \in Swizzled : Realized(reg, n)} \X (1 .. 3) \X Selector :
             /\ m[2] \in DOMAIN reg.node[m[1]].lists
             /\ m[3] \in DOMAIN reg.node[m[1]].lists[m[2]].imp
             /\ SwizzleAlloc \/ m[3] \notin AWZSelector}

ImpOf(m) == reg.node[m[1]].lists[m[2]].imp[m[3]]

method_setImplementation(m) ==
    /\ Call
    /\ reg' = UpdateCustom(SetImp(reg, m[1], m[2], m[3], "new"), m[1], m[3])
    /\ UNCHANGED history

method_exchangeImplementations(m1, m2) ==
    /\ Call /\ m1 # m2
    /\ LET first == SetImp(reg, m1[1], m1[2], m1[3], ImpOf(m2))
           both == SetImp(first, m2[1], m2[2], m2[3], ImpOf(m1))
       IN reg' = UpdateCustom(UpdateCustom(both, m1[1], m1[3]), m2[1], m2[3])
    /\ UNCHANGED history

-----------------------------------------------------------------------------
(* The client's calls on classes.  It makes, moves and disposes of classes *)
(* as their documentation says: nothing that has subclasses or shares its  *)
(* metaclass goes away, and no metaclass is moved from under a duplicate.  *)

\* Classes the client can name: realized, and not under construction.
Usable == {n \in reg.realized : ~IsMeta(n)}

Unused(c) == reg.node[<<c, "class">>].flags = {}

SharesMeta(n) == \E m \in Node \ {n} : ~IsMeta(m) /\ reg.node[m].isa = reg.node[n].isa
                                         /\ Realized(reg, m)

\* _objc_allocateFutureClass, of a name no class has and none was promised.
AllocateFuture(f, nm) ==
    /\ Call
    /\ Unused(f) /\ GetClass(reg.named, nm) = NULL /\ GetClass(reg.future, nm) = NULL
    /\ reg' = [reg EXCEPT !.node[<<f, "class">>].flags = {"FUTURE"},
                          !.future = @ \cup {<<nm, <<f, "class">>>>}]
    /\ UNCHANGED history

\* objc_allocateClassPair.
AllocatePair(p, s, nm) ==
    /\ Call
    /\ Unused(p) /\ GetClass(reg.named, nm) = NULL
    /\ LET c == <<p, "class">>
           m == <<p, "meta">>
           blank == [Emitted(c) EXCEPT !.flags = {"REALIZED", "CONSTRUCTING"}, !.name = nm]
           smeta == reg.node[s].isa
       IN reg' = IF s = NULL
                   THEN AddSubclass([reg EXCEPT
                            !.node[c] = [blank EXCEPT !.isa = m],
                            !.node[m] = [blank EXCEPT !.isa = m, !.superclass = c]], c, m)
                   ELSE AddSubclass(AddSubclass([reg EXCEPT
                            !.node[c] = [blank EXCEPT !.isa = m, !.superclass = s],
                            !.node[m] = [blank EXCEPT !.isa = reg.node[smeta].isa,
                                                      !.superclass = smeta]], s, c), smeta, m)
    /\ UNCHANGED history

Under(p, f) == f \in reg.node[<<p, "class">>].flags /\ f \in reg.node[<<p, "meta">>].flags

RegisterPair(p) ==
    /\ Under(p, "CONSTRUCTING")
    /\ LET done(fl) == (fl \ {"CONSTRUCTING"}) \cup {"CONSTRUCTED"}
           built == [reg EXCEPT !.node[<<p, "class">>].flags = done(@),
                                !.node[<<p, "meta">>].flags = done(@)]
       IN reg' = [addNamedClass(built, <<p, "class">>) EXCEPT
                     !.realized = @ \cup {<<p, "class">>, <<p, "meta">>}]
    /\ UNCHANGED <<mapped, loaded, calls, history>>

\* detach_class and free_class, the metaclass first.  Another class may go by
\* the name.
Detach(st, n) ==
    LET s == st.node[n].superclass
        off == IF s = NULL THEN st ELSE removeSubclass(st, s, n)
    IN [off EXCEPT !.realized = @ \ {n}, !.unattached[n] = <<>>,
                   !.named = {e \in @ : e[2] # n}]

DisposePair(p) ==
    /\ UNCHANGED <<mapped, loaded, calls>>
    /\ Under(p, "CONSTRUCTED") \/ Under(p, "CONSTRUCTING")
    /\ LET c == <<p, "class">>
           m == <<p, "meta">>
           gone == Detach(Detach(reg, m), c)
       IN /\ ToSet(reg.node[c].subs) \subseteq {m} /\ reg.node[m].subs = <<>>
          /\ ~SharesMeta(c)
          /\ reg' = [gone EXCEPT !.node[c] = Emitted(c), !.node[m] = Emitted(m)]
          /\ history' = [history EXCEPT ![c] = <<>>, ![m] = <<>>]

\* objc_duplicateClass: a copy that shares the metaclass.
DuplicateClass(d, n, nm) ==
    /\ Call
    /\ Unused(d) /\ n \in Usable /\ reg.node[n].superclass # NULL
    /\ LET c == <<d, "class">>
           copy == [reg EXCEPT !.node[c] = [reg.node[n] EXCEPT !.name = nm, !.subs = <<>>]]
           linked == AddSubclass(copy, reg.node[n].superclass, c)
       IN reg' = [addNamedClass(linked, c) EXCEPT !.realized = @ \cup {c}]
    /\ history' = [history EXCEPT ![<<d, "class">>] = history[n]]

\* class_setSuperclass, within the hierarchy of one root.
SetSuperclass(n, s) ==
    /\ Call
    /\ {n, s} \subseteq Usable /\ reg.node[n].superclass \notin {NULL, s}
    /\ s \notin AndSubclasses(reg.node, n) /\ ~SharesMeta(n)
    /\ reg.node[reg.node[n].isa].isa = reg.node[reg.node[s].isa].isa
    /\ MoveUnderCxx \/ reg.node[n].subs = <<>> \/ "CXX" \notin reg.node[s].flags
    /\ LET old == reg.node[n].superclass
           m == reg.node[n].isa
           smeta == reg.node[s].isa
           off == removeSubclass(removeSubclass(reg, old, n), reg.node[old].isa, m)
           set == [off EXCEPT !.node[n].superclass = s, !.node[m].superclass = smeta]
       IN reg' = AddSubclass(AddSubclass(set, s, n), smeta, m)
    /\ UNCHANGED history

-----------------------------------------------------------------------------
RegNext ==
    \/ \E images \in Batch : MapImages(images)
    \/ \E m \in Image : LoadImage(m)
    \/ \E n \in Referred : MessageClass(n) \/ GetNonMetaClass(n)
    \/ \E nm \in {name[c] : c \in Class} : look_up_class(nm)
    \/ \E n \in AddTo, s \in Selector : AddMethod(n, s) \/ ReplaceMethod(n, s)
    \/ \E m \in Method : method_setImplementation(m)
    \/ \E m1, m2 \in Method : method_exchangeImplementations(m1, m2)
    \/ \E f \in Future, nm \in FutureName : AllocateFuture(f, nm)
    \/ \E p \in Pair, s \in Usable \cup {NULL}, nm \in MadeName : AllocatePair(p, s, nm)
    \/ \E p \in Pair : RegisterPair(p) \/ DisposePair(p)
    \/ \E d \in Duplicate, n \in Usable, nm \in MadeName : DuplicateClass(d, n, nm)
    \/ \E n, s \in Usable : SetSuperclass(n, s)

RegSpec == RegInit /\ [][RegNext]_rvars
-----------------------------------------------------------------------------
Flag == {"ROOT", "REALIZED", "FUTURE", "CONSTRUCTING", "CONSTRUCTED",
         "CUSTOM_RR", "CUSTOM_AWZ", "CXX"}

RegTypeOK ==
    /\ DOMAIN reg.node = Node /\ DOMAIN reg.unattached = Node
    /\ \A n \in Node :
          /\ reg.node[n].flags \subseteq Flag
          /\ {reg.node[n].isa, reg.node[n].superclass, reg.node[n].ro} \subseteq Node \cup {NULL}
          /\ reg.node[n].subs \in Seq(Node)
          /\ reg.unattached[n] \in Seq(Category)
    /\ reg.realized \subseteq Node
    /\ mapped \subseteq Image /\ loaded \subseteq mapped /\ calls \in 0 .. MaxCalls

Connected == {n \in Node : Realized(reg, n)}

\* A realized class leads only to realized ones, and to none that was replaced
\* or ignored; it is in its superclass's list once and nothing else is; and the
\* metaclasses stand to each other as the classes do, up to the root's, which is
\* their class.  Whatever realized them, in whatever order (realizeClass).
PointersLive ==
    \A n \in Connected :
        LET r == reg.node[n]
            s == r.superclass
        IN /\ r.isa \in Connected /\ s \in Connected \cup {NULL}
           /\ {n, r.isa, s} \cap {e[1] : e \in reg.remapped} = {}
           /\ IsInjective(r.subs)
           /\ ToSet(r.subs) = {m \in Connected : reg.node[m].superclass = n}
           /\ ~IsMeta(n) =>
                 /\ reg.node[r.isa].superclass = IF s = NULL THEN n ELSE reg.node[s].isa
                 /\ reg.node[r.isa].isa =
                       IF s = NULL THEN r.isa ELSE reg.node[reg.node[s].isa].isa

\* The tables say what the classes are: a name leads to one class, which bears
\* it; a class is in the table of realized ones as soon as it is no longer under
\* construction; and no category waits for a class that is realized.
TablesAgree ==
    /\ \A e1, e2 \in reg.named : e1[1] = e2[1] => e1 = e2
    /\ \A e \in reg.named :
          /\ reg.node[e[2]].name = e[1]
          /\ e[2] \notin {x[1] : x \in reg.remapped}
          /\ "CONSTRUCTING" \notin reg.node[e[2]].flags
    /\ reg.realized = {n \in Connected : "CONSTRUCTING" \notin reg.node[n].flags}
    /\ \A n \in Node : reg.unattached[n] # <<>> => ~Realized(reg, n)
    /\ \A m \in loaded : \A c \in ToSet(classlist[m]) :
          remapClass(reg, <<c, "class">>) \in Connected \cup {NULL}

RECURSIVE LacksAncestor(_)
LacksAncestor(c) == super[c] # NULL /\ (super[c] = Missing \/ LacksAncestor(super[c]))

\* "Return YES if some superclass of cls was weak-linked and is missing": those
\* are the classes ignored, and no others (objc-runtime-new.mm:2685).
OnlyMissingIgnored ==
    \A m \in mapped : \A c \in ToSet(classlist[m]) :
        (remapClass(reg, <<c, "class">>) = NULL) <=> LacksAncestor(c)

\* The registry is one: its pointers, its tables and what it leaves out.
RegistryConsistent == RegTypeOK /\ PointersLive /\ TablesAgree /\ OnlyMissingIgnored

\* What a class was compiled with: nothing for one made at run time.
Compiled0(n) ==
    LET own == reg.node[n].ro IN
    IF own = NULL \/ methods[own] = {} THEN <<>> ELSE <<own>>

\* The root metaclass's, "if they don't have them already. These apply before
\* category replacements" (objc-runtime-new.mm:1590-1591).
Bonus(n) ==
    IF reg.node[n].isa = n /\ reg.node[n].ro # NULL /\ "initialize" \notin methods[reg.node[n].ro]
      THEN <<"initialize">> ELSE <<>>

\* A class has the methods it was compiled with and, in front of them, those of
\* every category and call that reached it, the newest first: the same whenever
\* it was realized, and from whichever side (attachMethodLists, methodizeClass).
MethodsAreHistory ==
    \A n \in Connected :
        [k \in DOMAIN reg.node[n].lists |-> reg.node[n].lists[k].id]
            = Reverse(Compiled0(n) \o Bonus(n) \o history[n])

\* The implementation a message finds, NULL if there is none.
RECURSIVE Lookup(_, _)
Lookup(n, s) ==
    IF n = NULL THEN NULL
    ELSE LET k == FirstWith(reg.node, n, s) IN
         IF k = 0 THEN Lookup(reg.node[n].superclass, s) ELSE reg.node[n].lists[k].imp[s]

\* A class without the flag has NSObject's own retain and release, or none: that
\* is what objc_retain relies on when it does not send the message.  In the same
\* way its class has NSObject's own +allocWithZone:, and it has no C++ ivars of
\* its own or inherited (setHasCustomRR, addSubclass, attachMethodLists).
FlagsTellOverrides ==
    \A n \in Connected :
        LET r == reg.node[n] IN
        /\ "CUSTOM_RR" \notin r.flags =>
              Lookup(n, "retain") \in {NULL, <<NSObject, "class">>}
        /\ IsMeta(n) /\ "CUSTOM_AWZ" \notin r.flags =>
              Lookup(n, "allocWithZone") \in {NULL, <<NSObject, "meta">>}
        /\ ~IsMeta(n) /\ "CXX" \notin r.flags =>
              r.superclass = NULL \/ "CXX" \notin reg.node[r.superclass].flags
=============================================================================
