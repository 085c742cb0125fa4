----------------------------- MODULE LoadMethods -----------------------------
(***************************************************************************)
(* +load: the lists of objc-loadmethod.mm, filled by prepare_load_methods  *)
(* and emptied of what _unload_image takes away (objc-runtime-new.mm).     *)
(*                                                                         *)
(* loadMethodLock is recursive and held through load_images and            *)
(* unmap_image, so all of this happens on one thread at a time; but a      *)
(* +load method may itself map or unmap images, and those calls come in    *)
(* while a list is being worked on.  Only the outermost call_load_methods  *)
(* calls +load.                                                            *)
(*                                                                         *)
(* An image is loaded after the images it depends on and unloaded before   *)
(* them, once: the dynamic linker's part.                                  *)
(***************************************************************************)
EXTENDS ClassHierarchy, Integers, FiniteSets, SequencesExt

CONSTANTS
    Image, Category,
    parent,         \* class of each category
    classes,        \* per image: its class list
    categories,     \* per image: its category list
    HasLoad,        \* the classes and categories with a +load method
    UnloadDetached  \* whether a +load may unmap an image whose +load methods
                    \* are in the list being worked on

\* What an image brings.
Contents(m) == ToSet(classes[m]) \cup ToSet(categories[m])

\* A class and a category are in the lists of one image, a category once, and no
\* class is its own superclass's superclass.
LoadMethodsAssumption ==
    /\ Class \cap Category = {} /\ Nil \notin Category
    /\ parent \in [Category -> Class]
    /\ classes \in [Image -> Seq(Class)]
    /\ categories \in [Image -> Seq(Category)]
    /\ HasLoad \subseteq Class \cup Category
    /\ \A m \in Image : IsInjective(categories[m])
    /\ \A m, n \in Image : m # n => Contents(m) \cap Contents(n) = {}
    /\ \A c \in Class : \E m \in Image : c \in ToSet(classes[m])
    /\ \A S \in SUBSET Class : S # {} => \E c \in S : super[c] \notin S
    /\ UnloadDetached \in BOOLEAN

VARIABLES
    image,                  \* each image: "new", "loaded" or "unloaded"
    RW_LOADED,              \* the classes so flagged
    loadable_classes,       \* the two lists; an entry may be Nil
    loadable_categories,
    loading,                \* call_load_methods is active
    pc,
    detached, index,        \* the list detached by the loop and its index
    running,                \* the class or category whose +load runs, or Nil
    called                  \* history: the +load methods called, in order

loadVars == <<image, RW_LOADED, loadable_classes, loadable_categories, loading, pc,
              detached, index, running, called>>

LoadInit ==
    /\ image = [m \in Image |-> "new"]
    /\ RW_LOADED = {}
    /\ loadable_classes = <<>>
    /\ loadable_categories = <<>>
    /\ loading = FALSE
    /\ pc = "idle"
    /\ detached = <<>> /\ index = 0
    /\ running = Nil
    /\ called = <<>>

\* The elements of a sequence that are in S, in their order.
Those(seq, S) ==
    FoldLeft(LAMBDA found, x : IF x \in S THEN Append(found, x) ELSE found, <<>>, seq)

\* A class after its superclasses.
Chain == [c \in Class |->
    LET up[d \in Class] == IF super[d] = Nil THEN <<d>> ELSE Append(up[super[d]], d)
    IN up[c]]

\* The order in which schedule_class_load reaches the classes.
ScheduleOrder == Chain

\* Mutant: RW_LOADED is not looked at.
NeverLoaded(c, st) == FALSE

AlreadyLoaded(c, st) == c \in st.loaded

\* One class: not twice, and listed only if it has a +load.
AddClass(st, c) ==
    IF AlreadyLoaded(c, st) THEN st
    ELSE [list |-> IF c \in HasLoad THEN Append(st.list, c) ELSE st.list,
          loaded |-> st.loaded \cup {c}]

schedule_class_load(st, c) == FoldLeft(AddClass, st, ScheduleOrder[c])

\* Every class of an image: the classes with a +load, which form a list of their
\* own, then all of them.
Schedule(m, st) ==
    FoldLeft(schedule_class_load, st, Those(classes[m], HasLoad) \o classes[m])

\* The images an image needs loaded: those of its superclasses and of the
\* classes its categories extend.
Needs(m) ==
    {n \in Image \ {m} :
        \/ \E c \in ToSet(classes[m]) : super[c] \in ToSet(classes[n])
        \/ \E d \in ToSet(categories[m]) : parent[d] \in ToSet(classes[n])}

\* prepare_load_methods.
Prepare(m) ==
    /\ image[m] = "new" /\ \A n \in Needs(m) : image[n] = "loaded"
    /\ image' = [image EXCEPT ![m] = "loaded"]
    /\ LET st == Schedule(m, [list |-> loadable_classes, loaded |-> RW_LOADED])
       IN loadable_classes' = st.list /\ RW_LOADED' = st.loaded
    /\ loadable_categories' = loadable_categories
          \o Those(categories[m], HasLoad)

-----------------------------------------------------------------------------
NotLoading == ~loading

\* load_images: by a program, or by a +load method that is running.
LoadImage(m) ==
    /\ pc = "idle" \/ running # Nil
    /\ Prepare(m)
    /\ IF NotLoading
         THEN loading' = TRUE /\ pc' = "classes" /\ running' = Nil
         ELSE UNCHANGED <<loading, pc, running>>
    /\ UNCHANGED <<detached, index, called>>

\* remove_class_from_loadable_list and its twin, for what an image takes along.
RemoveFromList(entries, gone) ==
    [k \in DOMAIN entries |-> IF entries[k] \in gone THEN Nil ELSE entries[k]]

\* unmap_image: the lists are searched, the detached one cannot be.
UnloadImage(m) ==
    /\ pc = "idle" \/ running # Nil
    /\ image[m] = "loaded" /\ \A n \in Image : m \in Needs(n) => image[n] # "loaded"
    /\ running \notin Contents(m)
    /\ UnloadDetached \/ ToSet(detached) \cap Contents(m) = {}
    /\ image' = [image EXCEPT ![m] = "unloaded"]
    /\ RW_LOADED' = RW_LOADED \ ToSet(classes[m])
    /\ loadable_classes' = RemoveFromList(loadable_classes, ToSet(classes[m]))
    /\ loadable_categories' = RemoveFromList(loadable_categories, ToSet(categories[m]))
    /\ UNCHANGED <<loading, pc, detached, index, running, called>>

\* Mutant: categories that wait go before classes.
CategoriesFirst == loadable_classes # <<>> /\ loadable_categories = <<>>

MoreClasses == loadable_classes # <<>>

\* The head of the inner loop: detach the class list, or go on to categories.
Classes ==
    /\ pc = "classes"
    /\ index' = 1
    /\ IF MoreClasses
         THEN /\ pc' = "call_classes"
              /\ detached' = loadable_classes /\ loadable_classes' = <<>>
              /\ UNCHANGED loadable_categories
         ELSE /\ pc' = "call_categories"
              /\ detached' = loadable_categories /\ loadable_categories' = <<>>
              /\ UNCHANGED loadable_classes
    /\ UNCHANGED <<image, RW_LOADED, loading, running, called>>

\* Every category's class is connected: _class_isLoadable.
Loadable(x) == TRUE

\* Call the +load of the next entry, unless it was removed.
Call ==
    /\ pc \in {"call_classes", "call_categories"} /\ running = Nil
    /\ index <= Len(detached)
    /\ IF detached[index] # Nil /\ Loadable(detached[index])
         THEN /\ running' = detached[index]
              /\ called' = Append(called, detached[index])
              /\ UNCHANGED index
         ELSE index' = index + 1 /\ UNCHANGED <<running, called>>
    /\ UNCHANGED <<image, RW_LOADED, loadable_classes, loadable_categories,
                   loading, pc, detached>>

\* A category is struck out once its +load has returned.
CallReturns ==
    /\ running # Nil
    /\ running' = Nil
    /\ index' = index + 1
    /\ detached' = IF pc = "call_categories" THEN [detached EXCEPT ![index] = Nil] ELSE detached
    /\ UNCHANGED <<image, RW_LOADED, loadable_classes, loadable_categories,
                   loading, pc, called>>

\* The detached class list is destroyed.
ClassesDone ==
    /\ pc = "call_classes" /\ running = Nil /\ index > Len(detached)
    /\ pc' = "classes" /\ index' = 0 /\ detached' = <<>>
    /\ UNCHANGED <<image, RW_LOADED, loadable_classes, loadable_categories,
                   loading, running, called>>

\* More to do: new classes, or categories that were never tried.
More == loadable_classes # <<>> \/ loadable_categories # <<>>

\* Compact the detached list, add the new entries, and go round again or end.
CategoriesDone ==
    /\ pc = "call_categories" /\ running = Nil /\ index > Len(detached)
    /\ loadable_categories' =
          Those(detached, Category) \o loadable_categories
    /\ IF More THEN pc' = "classes" /\ UNCHANGED loading
               ELSE pc' = "idle" /\ loading' = FALSE
    /\ index' = 0 /\ detached' = <<>>
    /\ UNCHANGED <<image, RW_LOADED, loadable_classes, running, called>>

LoadNext ==
    \/ Classes \/ Call \/ CallReturns \/ ClassesDone \/ CategoriesDone
    \/ \E m \in Image : LoadImage(m) \/ UnloadImage(m)

LoadSpec == LoadInit /\ [][LoadNext]_loadVars
-----------------------------------------------------------------------------
Entry == Class \cup Category

LoadTypeOK ==
    /\ image \in [Image -> {"new", "loaded", "unloaded"}]
    /\ RW_LOADED \in SUBSET Class
    /\ loadable_classes \in Seq(Class \cup {Nil})
    /\ loadable_categories \in Seq(Category \cup {Nil})
    /\ loading \in BOOLEAN
    /\ pc \in {"idle", "classes", "call_classes", "call_categories"}
    /\ detached \in Seq(Entry \cup {Nil}) /\ index \in Nat
    /\ running \in Entry \cup {Nil}
    /\ called \in Seq(Entry)

\* The entries whose image is loaded.
Present == UNION {Contents(m) :
                     m \in {n \in Image : image[n] = "loaded"}}

\* "Class +load methods are called superclass-first.  Category +load methods are
\* not called until after the parent class's +load", however the calls that map
\* images nest (objc-loadmethod.mm:307-315).
LoadOrder ==
    \A k \in 1 .. Len(called) :
        LET before == {called[j] : j \in 1 .. k - 1} IN
        /\ called[k] \in Class => {super[called[k]]} \cap HasLoad \subseteq before
        /\ called[k] \in Category => {parent[called[k]]} \cap HasLoad \subseteq before

\* "No +load method is forgotten because it was added during a +load call", and
\* none is called twice: when the outermost call has returned, every one in a
\* loaded image has been called.
CalledOnce ==
    /\ IsInjective(called)
    /\ pc = "idle" => Present \cap HasLoad \subseteq ToSet(called)

\* A +load method is never called in an image that is unmapped: being unmapped
\* takes a class or category off the list (objc-loadmethod.mm:127-128, 151-152).
OnlyMapped == running # Nil => running \in Present

\* Every +load method is called, once, and in an image that is mapped.
CallsConsistent == LoadTypeOK /\ CalledOnce /\ OnlyMapped
=============================================================================
