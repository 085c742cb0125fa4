------------------------------ MODULE MCImages ------------------------------
(* Images come in: their classes are connected, ClassRegistry, and the +load
   methods they bring are called, LoadMethods; and messages are
   sent and answered from method caches, MethodCache.  Each part has its own
   classes and a behaviour works on one of them; LoadMethods takes every class it schedules for
   realized, which the registry's part shows of a loaded image.

   ClassRegistry: Core has the root and A, listed subclass first; Lib has F,
   which the client may promise as a future class, a subclass G of it, listed
   first, C with C++ ivars, and X below W whose weak-linked superclass is
   missing; Plug brings a root of its own with A's name, and categories on
   classes of both.  Two more calls of the client come in at any moment, and a
   pair, a duplicate and a future class may be made.

   LoadMethods: Base holds a hierarchy listed subclass first; Plug and Extra
   extend it with classes and categories of their own and each other's; a +load
   method may load or unload any of them at any moment the linker allows.

   MethodCache as MCMethodCache has it. *)
EXTENDS LoadMethods, MCMethodCache, TLC

CONSTANTS Core, Lib, Plug, Extra, Side, Base,
          N, A, B, E, F, G, W, X,
          catA, catA2, catB, catC, catE, catG, catN, catW, fut, pair, dup,
          Missing, MaxCalls, MoveUnderCxx, SwizzleAlloc
-----------------------------------------------------------------------------
LoadClass == {A, B, C, D, E}
LoadCategory == {catA, catB, catC, catE}
LoadSuper == (A :> Nil) @@ (B :> A) @@ (C :> B) @@ (D :> A) @@ (E :> C)
LoadParent == (catA :> A) @@ (catB :> B) @@ (catC :> C) @@ (catE :> E)
LoadClasses == (Base :> <<B, A>>) @@ (Plug :> <<C>>) @@ (Extra :> <<E>>) @@ (Side :> <<D>>)
LoadCategories == (Base :> <<catA>>) @@ (Plug :> <<catB, catC>>)
                  @@ (Extra :> <<catE>>) @@ (Side :> <<>>)
WithLoad == {A, B, C, E, catA, catB, catC, catE}       \* D has none

ASSUME LoadMethodsAssumption
-----------------------------------------------------------------------------
RegClass == {N, A, C, D, F, G, W, X}
RegCategory == {catA, catA2, catG, catN, catW}
RegSuper == (N :> Nil) @@ (A :> N) @@ (F :> A) @@ (G :> F) @@ (C :> N)
            @@ (W :> Missing) @@ (X :> W) @@ (D :> Nil)
RegName == (N :> "N") @@ (A :> "A") @@ (F :> "F") @@ (G :> "G") @@ (C :> "C")
           @@ (W :> "W") @@ (X :> "X") @@ (D :> "A")
RegParent == (catA :> A) @@ (catA2 :> A) @@ (catN :> N) @@ (catG :> G) @@ (catW :> X)
RegMethods ==
    [[k \in (RegClass \cup RegCategory) \X {"class", "meta"} |-> {}] EXCEPT
        ![<<N, "class">>] = {"retain", "m"}, ![<<N, "meta">>] = {"allocWithZone"},
        ![<<A, "class">>] = {"m"}, ![<<G, "class">>] = {"m"},
        ![<<D, "class">>] = {"retain"}, ![<<D, "meta">>] = {"initialize"},
        ![<<catA, "class">>] = {"m"}, ![<<catA, "meta">>] = {"m"},
        ![<<catA2, "class">>] = {"m"}, ![<<catN, "class">>] = {"m"},
        ![<<catG, "class">>] = {"retain"}, ![<<catG, "meta">>] = {"allocWithZone"},
        ![<<catW, "class">>] = {"m"}]
RegClasslist == (Core :> <<A, N>>) @@ (Lib :> <<G, X, F, W, C>>) @@ (Plug :> <<D>>)
RegNonlazy == (Core :> <<>>) @@ (Lib :> <<C>>) @@ (Plug :> <<D>>)
RegCatlist == (Core :> <<catA>>) @@ (Lib :> <<catW>>) @@ (Plug :> <<catG, catN, catA2>>)
RegNonlazycat == (Core :> <<>>) @@ (Lib :> <<>>) @@ (Plug :> <<catN>>)
RegBatch == {<<Core>>, <<Lib>>, <<Plug>>, <<Lib, Plug>>}
RegAddTo == {<<A, "class">>, <<A, "meta">>, <<pair, "meta">>}
RegSwizzled == {<<N, "class">>}

VARIABLES reg, mapped, loaded, registryCalls, history

Registry == INSTANCE ClassRegistry WITH
    Image <- {Core, Lib, Plug}, Class <- RegClass, Category <- RegCategory,
    Future <- {fut}, Pair <- {pair}, Duplicate <- {dup}, NSObject <- N, NULL <- Nil,
    super <- RegSuper, name <- RegName, parent <- RegParent, methods <- RegMethods,
    classlist <- RegClasslist, nonlazy <- RegNonlazy,
    catlist <- RegCatlist, nonlazycat <- RegNonlazycat, Batch <- RegBatch,
    HasCxx <- {C}, FutureName <- {"F"}, MadeName <- {"P"},
    AddTo <- RegAddTo, Swizzled <- RegSwizzled, calls <- registryCalls

ASSUME RegistryAssumption == Registry!ClassRegistryAssumption

-----------------------------------------------------------------------------
VARIABLE part       \* what the behaviour works on

registryVars == <<reg, mapped, loaded, registryCalls, history>>

PartInit ==
    /\ part \in {"registry", "load", "cache"}
    /\ Registry!RegInit /\ LoadInit /\ Init

Connect == part = "registry" /\ Registry!RegNext /\ UNCHANGED <<loadVars, vars, part>>
CallLoads == part = "load" /\ LoadNext /\ UNCHANGED <<registryVars, vars, part>>
Message == part = "cache" /\ Next /\ UNCHANGED <<registryVars, loadVars, part>>

PartSpec ==
    PartInit /\ [][Connect \/ CallLoads \/ Message]_<<registryVars, loadVars, vars, part>>
-----------------------------------------------------------------------------
\* The properties of the registry, in its part; see ClassRegistry.
RegistryConsistent == part = "registry" => Registry!RegistryConsistent
MethodsAreHistory == part = "registry" => Registry!MethodsAreHistory
FlagsTellOverrides == part = "registry" => Registry!FlagsTellOverrides
=============================================================================
