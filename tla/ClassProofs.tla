------------------------------ MODULE ClassProofs ------------------------------
(***************************************************************************)
(* What objc-initialize.mm promises so that threads cannot wait for each   *)
(* other, and what it needs so that none of its own checks ends the        *)
(* process: in any hierarchy, with any threads and whatever the            *)
(* +initialize methods message.                                            *)
(*                                                                         *)
(* ContiguousFromRoot is not inductive: a class is claimed on the strength *)
(* of what an inner call did for its superclass, several steps earlier.    *)
(* What has to be carried from step to step is, of every call under way,   *)
(* that its thread may use the superclass, for it is marked or the thread  *)
(* is initializing it, or that the call directly inside it sees to that    *)
(* (SuperOK).  With it goes where each class is that a thread is           *)
(* initializing: in one +initialize under way, waiting for its superclass, *)
(* or about to be marked, and in one of these only (KnownOK, MarkingOK,    *)
(* PendingOK).                                                             *)
(*                                                                         *)
(* And what objc-loadmethod.mm promises: every +load is called, once, and  *)
(* superclass first, whatever the images hold.  What is carried here is    *)
(* where each +load that has not been called is listed (OnceOK, ListedOK), *)
(* and that in each list a class comes after its superclass (OrderOK);     *)
(* that rests on what schedule_class_load adds to a list (Grown).          *)
(***************************************************************************)
EXTENDS ClassInit, LoadMethods, FoldLemmas, SequenceTheorems, TLAPS

\* The class is initializing or initialized; it stays so for ever.
Started(c) == flags[c] # {}

\* A thread may go on with the class; that stays so for ever too.
Usable(t, c) == Initialized(c) \/ c \in list[t]

\* Its +initialize has returned, and its mark is yet to come.
Ending(c) == (\E t \in Sender : c \in marking[t]) \/ (\E b \in Class : c \in pending[b])

FlagsOK == \A c \in Class : flags[c] \in {{}, {"INITIALIZING"}, {"INITIALIZED"}}

\* A class that is initializing is on the list of one thread.
ListsOK ==
    /\ \A c \in Class : Initializing(c) <=> \E t \in Sender : c \in list[t]
    /\ \A t, u \in Sender : \A c \in list[t] : c \in list[u] => t = u

\* The classes to be marked: by the holder of the monitor, and once each.
MarkingOK ==
    \A t \in Sender :
        /\ marking[t] # {} => monitor = t
        /\ \A c \in marking[t] : c \in list[t] /\ SuperReady(c) /\ \A b \in Class : c \notin pending[b]

PendingOK ==
    \A c \in Class : \A d \in pending[c] :
        super[d] = c /\ \E t \in Sender : c \in list[t] /\ d \in list[t]

SuperMarked == \A c \in Class : Initialized(c) => SuperReady(c)

StateOK ==
    /\ InitializeTypeOK /\ FlagsOK /\ ListsOK /\ MarkingOK /\ PendingOK /\ SuperMarked
    /\ ContiguousFromRoot /\ ~fatal

\* Before its attempt to claim the class, a call knows nothing of its flags.
Early == {"super", "claim"}

\* What the i-th call of t knows of its class.
KnownOK(t, i) ==
    /\ stack[t][i].at \notin Early => Started(stack[t][i].cls)
    /\ stack[t][i].at = "run" => stack[t][i].cls \in list[t] /\ ~Ending(stack[t][i].cls)
    /\ stack[t][i].at = "check2" => Initialized(stack[t][i].cls)

\* The call that marks classes is innermost and holds the monitor.
FinishOK(t, i) ==
    stack[t][i].at = "finish" =>
        /\ i = 1 /\ monitor = t
        /\ stack[t][i].cls \in marking[t] \/ Initialized(stack[t][i].cls)

\* A call past its first step may use the superclass, unless the call inside it
\* is still seeing to that.
SuperOK(t, i) ==
    stack[t][i].at # "super" /\ super[stack[t][i].cls] # Nil =>
        \/ Usable(t, super[stack[t][i].cls])
        \/ i > 1 /\ stack[t][i - 1].cls = super[stack[t][i].cls]

RunsApart(t) ==
    \A i, j \in 1 .. Len(stack[t]) :
        /\ stack[t][i].at = "run" /\ stack[t][j].at = "run"
        /\ stack[t][i].cls = stack[t][j].cls
        => i = j

CallsOK(t) ==
    /\ \A i \in 1 .. Len(stack[t]) : KnownOK(t, i) /\ FinishOK(t, i) /\ SuperOK(t, i)
    /\ RunsApart(t)

IInv == StateOK /\ \A t \in Sender : CallsOK(t)

\* The thread may go on with the class after the step.
UsableNext(t, c) == "INITIALIZED" \in flags'[c] \/ c \in list'[t]

\* A step that ends calls leaves their threads what they may use.
LeftUsable ==
    \A t \in Sender : stack[t] # <<>> /\ Len(stack'[t]) < Len(stack[t]) =>
        UsableNext(t, Cls(t))

-----------------------------------------------------------------------------
(* What an action does to the stacks: it moves innermost calls to another      *)
(* place, ends one, or begins one.                                             *)

\* The innermost call of a stack, replaced.
LEMMA HeadReplaced ==
  ASSUME NEW s \in Seq(Frames), s # <<>>, NEW f \in Frames
  PROVE  /\ Head(s) = s[1] /\ s[1] \in Frames /\ Len(s) \in Nat \ {0}
         /\ [s EXCEPT ![1] = f] \in Seq(Frames)
         /\ Len([s EXCEPT ![1] = f]) = Len(s)
         /\ [s EXCEPT ![1] = f][1] = f
         /\ \A i \in 2 .. Len(s) : [s EXCEPT ![1] = f][i] = s[i]
<1>1. Len(s) \in Nat \ {0} /\ 1 \in 1 .. Len(s)
  BY EmptySeq
<1> QED BY <1>1, ExceptSeq, ElementOfSeq

\* The frames of a stack are frames.
LEMMA FramesTyped ==
  ASSUME InitializeTypeOK, NEW t \in Sender
  PROVE  /\ stack[t] \in Seq(Frames) /\ Len(stack[t]) \in Nat
         /\ \A i \in 1 .. Len(stack[t]) :
              /\ stack[t][i] \in Frames /\ stack[t][i].cls \in Class
              /\ stack[t][i].at \in Places
              /\ super[stack[t][i].cls] \in Class \cup {Nil}
         /\ stack[t] # <<>> =>
              /\ Len(stack[t]) > 0 /\ 1 \in 1 .. Len(stack[t]) /\ Head(stack[t]) = stack[t][1]
              /\ Cls(t) = stack[t][1].cls /\ Cls(t) \in Class
              /\ super[Cls(t)] \in Class \cup {Nil}
<1>1. stack[t] \in Seq(Frames)
  BY DEF InitializeTypeOK
<1>2. Len(stack[t]) \in Nat
  BY <1>1, LenProperties
<1>3. \A i \in 1 .. Len(stack[t]) : stack[t][i] \in Frames
  BY <1>1, ElementOfSeq
<1>4. stack[t] # <<>> => 1 \in 1 .. Len(stack[t]) /\ Head(stack[t]) = stack[t][1]
  BY <1>1, EmptySeq
<1> QED BY <1>1, <1>2, <1>3, <1>4, ClassHierarchyAssumption, ClassInitAssumption DEF Frames, Cls

\* What a step of t leaves true for the calls that it does not touch.  x is the
\* class whose +initialize it ends, or Nil.
Grows(t, x) ==
    /\ \A c \in Class : (Started(c) => Started(c)') /\ (Initialized(c) => Initialized(c)')
    /\ \A u \in Sender, c \in Class : Usable(u, c) => Usable(u, c)'
    /\ \A u \in Sender, c \in Class :
         c # x /\ c \in list[u] /\ ~Ending(c) => c \in list'[u] /\ ~Ending(c)'
    /\ \A u \in Sender \ {t} : marking'[u] = marking[u] /\ (monitor = u => monitor' = u)

LEMMA NothingGrows ==
  ASSUME NEW t \in Sender, UNCHANGED <<flags, list, pending, marking>>,
         \A u \in Sender \ {t} : monitor = u => monitor' = u
  PROVE  Grows(t, Nil)
  BY DEF Grows, Started, Initialized, Usable, Ending

\* Calls stay where they are, or move on with what the new place asks for.
LEMMA Moved ==
  ASSUME IInv, NEW t \in Sender, NEW x, Grows(t, x), NEW u \in Sender,
         Len(stack'[u]) = Len(stack[u]),
         \A i \in 1 .. Len(stack[u]) :
            /\ stack'[u][i].cls = stack[u][i].cls
            /\ \/ /\ stack'[u][i].at = stack[u][i].at
                  /\ stack[u][i].at = "run" => stack[u][i].cls # x
                  /\ stack[u][i].at = "finish" => u # t
               \/ /\ KnownOK(u, i)' /\ FinishOK(u, i)'
                  /\ \/ stack[u][i].at # "super"
                     \/ super[stack[u][i].cls] = Nil
                     \/ UsableNext(u, super[stack[u][i].cls])
                  /\ stack'[u][i].at = "run" => i = 1 /\ ~Started(stack[u][i].cls)
  PROVE  CallsOK(u)'
<1>1. CallsOK(u) /\ InitializeTypeOK
  BY DEF IInv, StateOK
<1>2. ASSUME NEW i \in 1 .. Len(stack[u])
      PROVE  KnownOK(u, i)' /\ FinishOK(u, i)'
  <2>1. KnownOK(u, i) /\ FinishOK(u, i) /\ stack[u][i].cls \in Class
    BY <1>1, FramesTyped DEF CallsOK
  <2>2. CASE KnownOK(u, i)' /\ FinishOK(u, i)'
    BY <2>2
  <2>3. CASE /\ stack'[u][i].at = stack[u][i].at
             /\ stack[u][i].at = "run" => stack[u][i].cls # x
             /\ stack[u][i].at = "finish" => u # t
    <3>1. KnownOK(u, i)'
      BY <2>1, <2>3 DEF KnownOK, Grows
    <3>2. FinishOK(u, i)'
      BY <2>1, <2>3 DEF FinishOK, Grows
    <3> QED BY <3>1, <3>2
  <2> QED BY <2>2, <2>3
<1>3. ASSUME NEW i \in 1 .. Len(stack[u])
      PROVE  SuperOK(u, i)'
  <2>1. /\ SuperOK(u, i) /\ stack[u][i].cls \in Class
        /\ super[stack[u][i].cls] \in Class \cup {Nil}
        /\ stack'[u][i].cls = stack[u][i].cls
    BY <1>1, FramesTyped DEF CallsOK
  <2>2. i > 1 => i - 1 \in 1 .. Len(stack[u]) /\ stack'[u][i - 1].cls = stack[u][i - 1].cls
    <3>1. i > 1 => i - 1 \in 1 .. Len(stack[u])
      BY <1>1, FramesTyped
    <3> QED BY <3>1
  <2>3. \/ stack'[u][i].at = "super"
        \/ stack[u][i].at # "super"
        \/ super[stack[u][i].cls] = Nil
        \/ UsableNext(u, super[stack[u][i].cls])
    OBVIOUS
  <2> QED BY <2>1, <2>2, <2>3 DEF SuperOK, Grows, Usable, UsableNext, Initialized
<1>4. RunsApart(u)'
  <2> SUFFICES ASSUME NEW i \in 1 .. Len(stack[u]), NEW j \in 1 .. Len(stack[u]),
                      stack'[u][i].at = "run", stack'[u][j].at = "run",
                      stack'[u][i].cls = stack'[u][j].cls
               PROVE  i = j
    BY DEF RunsApart
  <2>1. \A k \in 1 .. Len(stack[u]) : stack'[u][k].at = "run" =>
           stack[u][k].at = "run" \/ (k = 1 /\ ~Started(stack[u][k].cls))
    OBVIOUS
  <2>2. \A k \in 1 .. Len(stack[u]) : stack[u][k].at = "run" => Started(stack[u][k].cls)
    BY <1>1 DEF CallsOK, KnownOK, Early
  <2>3. stack[u][i].cls = stack[u][j].cls
    OBVIOUS
  <2> QED BY <1>1, <2>1, <2>2, <2>3 DEF CallsOK, RunsApart
<1> QED BY <1>2, <1>3, <1>4 DEF CallsOK

\* The other threads' stacks are untouched.
LEMMA OthersKept ==
  ASSUME IInv, NEW t \in Sender, NEW x, Grows(t, x), x = Nil \/ x \in list[t],
         NEW u \in Sender \ {t}, stack'[u] = stack[u]
  PROVE  CallsOK(u)'
<1>1. \A i \in 1 .. Len(stack[u]) : stack[u][i].at = "run" => stack[u][i].cls # x
  <2> SUFFICES ASSUME NEW i \in 1 .. Len(stack[u]), stack[u][i].at = "run"
               PROVE  stack[u][i].cls # x
    OBVIOUS
  <2>1. stack[u][i].cls \in Class /\ stack[u][i].cls \in list[u]
    BY FramesTyped DEF IInv, StateOK, CallsOK, KnownOK
  <2> QED BY <2>1, ClassHierarchyAssumption, ClassInitAssumption DEF IInv, StateOK, ListsOK
<1> QED BY <1>1, Moved

\* The stacks are right after a step.
StacksKept ==
    /\ stack' \in [Sender -> Seq(Frames)]
    /\ \A u \in Sender : CallsOK(u)'
    /\ LeftUsable

\* The innermost call of t ends, and leaves t with a class it may use, which is
\* what the call around it waited for.
LEMMA Ended ==
  ASSUME IInv, NEW t \in Sender, stack[t] # <<>>, ReturnFrom(t), NEW x, Grows(t, x),
         x = Nil \/ (x = Cls(t) /\ Head(stack[t]).at = "run"),
         UsableNext(t, Cls(t))
  PROVE  StacksKept
<1>1. stack[t] \in Seq(Frames) /\ InitializeTypeOK /\ stack \in [Sender -> Seq(Frames)]
  BY DEF IInv, StateOK, InitializeTypeOK
<1>2. /\ stack' \in [Sender -> Seq(Frames)]
      /\ Len(stack'[t]) = Len(stack[t]) - 1
      /\ \A i \in 1 .. Len(stack'[t]) : stack'[t][i] = stack[t][i + 1]
      /\ \A u \in Sender \ {t} : stack'[u] = stack[u]
      /\ Len(stack[t]) \in Nat /\ Len(stack[t]) > 0
  BY <1>1, HeadTailProperties, FramesTyped DEF ReturnFrom
<1>3. /\ Head(stack[t]) = stack[t][1] /\ 1 \in 1 .. Len(stack[t])
      /\ Cls(t) = stack[t][1].cls /\ Cls(t) \in Class
  BY <1>1, FramesTyped
<1>4. CallsOK(t)
  BY DEF IInv
<1>5. ASSUME NEW u \in Sender \ {t} PROVE CallsOK(u)'
  <2>1. x = Nil \/ x \in list[t]
    BY <1>3, <1>4 DEF CallsOK, KnownOK
  <2> QED BY <1>2, <2>1, OthersKept
<1>6. ASSUME NEW i \in 1 .. Len(stack'[t])
      PROVE  /\ i + 1 \in 1 .. Len(stack[t]) /\ stack'[t][i] = stack[t][i + 1]
             /\ KnownOK(t, i + 1) /\ FinishOK(t, i + 1) /\ SuperOK(t, i + 1)
             /\ stack[t][i + 1].cls \in Class
             /\ super[stack[t][i + 1].cls] \in Class \cup {Nil}
             /\ stack[t][i + 1].at = "run" => stack[t][i + 1].cls # x
  <2>1. i + 1 \in 1 .. Len(stack[t]) /\ stack'[t][i] = stack[t][i + 1] /\ i + 1 # 1
    BY <1>2
  <2>2. /\ KnownOK(t, i + 1) /\ FinishOK(t, i + 1) /\ SuperOK(t, i + 1)
        /\ stack[t][i + 1].cls \in Class
        /\ super[stack[t][i + 1].cls] \in Class \cup {Nil}
    BY <1>1, <1>4, <2>1, FramesTyped DEF CallsOK
  <2>3. stack[t][i + 1].at = "run" => stack[t][i + 1].cls # x
    BY <1>3, <1>4, <2>1, <2>2, ClassHierarchyAssumption, ClassInitAssumption DEF CallsOK, RunsApart
  <2> QED BY <2>1, <2>2, <2>3
<1>7. ASSUME NEW i \in 1 .. Len(stack'[t])
      PROVE  KnownOK(t, i)' /\ FinishOK(t, i)'
  <2>1. i + 1 # 1
    BY <1>2
  <2> QED BY <1>6, <2>1 DEF KnownOK, FinishOK, Grows
<1>8. ASSUME NEW i \in 1 .. Len(stack'[t])
      PROVE  SuperOK(t, i)'
  <2>1. CASE super[stack[t][i + 1].cls] = Nil \/ stack[t][i + 1].at = "super"
    BY <1>6, <2>1 DEF SuperOK
  <2>2. CASE super[stack[t][i + 1].cls] # Nil /\ stack[t][i + 1].at # "super"
    <3>1. PICK s \in Class : s = super[stack[t][i + 1].cls]
      BY <1>6, <2>2
    <3>2. Usable(t, s) \/ stack[t][i].cls = s
      BY <1>2, <1>6, <2>2, <3>1 DEF SuperOK
    <3>3. SuperOK(t, i)' <=> Usable(t, s)' \/ (i > 1 /\ stack'[t][i - 1].cls = s)
      BY <1>6, <2>2, <3>1 DEF SuperOK, Usable, Initialized
    <3>4. CASE i = 1 /\ stack[t][i].cls = s
      BY <1>3, <3>3, <3>4 DEF Usable, UsableNext, Initialized
    <3>5. CASE i > 1 /\ stack[t][i].cls = s
      <4>1. i - 1 \in 1 .. Len(stack'[t]) /\ (i - 1) + 1 = i
        BY <1>2, <3>5
      <4>2. stack'[t][i - 1] = stack[t][i]
        BY <1>2, <4>1
      <4> QED BY <3>3, <3>5, <4>2
    <3>6. i = 1 \/ i > 1
      BY <1>2
    <3> QED BY <3>2, <3>3, <3>4, <3>5, <3>6 DEF Grows
  <2> QED BY <2>1, <2>2
<1>9. RunsApart(t)'
  <2> SUFFICES ASSUME NEW i \in 1 .. Len(stack'[t]), NEW j \in 1 .. Len(stack'[t]),
                      stack'[t][i].at = "run", stack'[t][j].at = "run",
                      stack'[t][i].cls = stack'[t][j].cls
               PROVE  i = j
    BY DEF RunsApart
  <2>1. i + 1 = j + 1
    BY <1>4, <1>6 DEF CallsOK, RunsApart
  <2> QED BY <1>2, <2>1
<1>10. LeftUsable
  <2>1. \A u \in Sender \ {t} : ~ (Len(stack'[u]) < Len(stack[u]))
    BY <1>1, <1>2, FramesTyped
  <2>2. UsableNext(t, Cls(t))
    OBVIOUS
  <2> QED BY <2>1, <2>2 DEF LeftUsable
<1> QED BY <1>2, <1>5, <1>7, <1>8, <1>9, <1>10 DEF CallsOK, StacksKept

\* The innermost call of t moves on.
LEMMA Replaced ==
  ASSUME IInv, NEW t \in Sender, stack[t] # <<>>, NEW x, Grows(t, x),
         x = Nil \/ (x = Cls(t) /\ Head(stack[t]).at = "run"),
         NEW f \in Frames, f.cls = Cls(t),
         stack' = [stack EXCEPT ![t] = [stack[t] EXCEPT ![1] = f]],
         Head(stack[t]).at # "finish",
         \/ f.at = Head(stack[t]).at /\ x = Nil
         \/ /\ f.at \notin Early => flags'[Cls(t)] # {}
            /\ f.at = "run" => /\ ~Started(Cls(t)) /\ Cls(t) \in list'[t]
                               /\ \A u \in Sender : Cls(t) \notin marking'[u]
                               /\ \A b \in Class : Cls(t) \notin pending'[b]
            /\ f.at = "check2" => "INITIALIZED" \in flags'[Cls(t)]
            /\ f.at = "finish" => monitor' = t /\ Cls(t) \in marking'[t]
            /\ \/ Head(stack[t]).at # "super"
               \/ super[Cls(t)] = Nil
               \/ UsableNext(t, super[Cls(t)])
  PROVE  StacksKept
<1>1. stack[t] \in Seq(Frames) /\ InitializeTypeOK /\ stack \in [Sender -> Seq(Frames)]
  BY DEF IInv, StateOK, InitializeTypeOK
<1>2. /\ Head(stack[t]) = stack[t][1] /\ 1 \in 1 .. Len(stack[t]) /\ Len(stack[t]) \in Nat
      /\ Cls(t) = stack[t][1].cls /\ Cls(t) \in Class
  BY <1>1, FramesTyped
<1>3. /\ stack' \in [Sender -> Seq(Frames)]
      /\ Len(stack'[t]) = Len(stack[t]) /\ stack'[t][1] = f
      /\ \A i \in 2 .. Len(stack[t]) : stack'[t][i] = stack[t][i]
      /\ \A u \in Sender \ {t} : stack'[u] = stack[u]
  <2> DEFINE s == [stack[t] EXCEPT ![1] = f]
  <2>1. /\ s \in Seq(Frames) /\ Len(s) = Len(stack[t]) /\ s[1] = f
        /\ \A i \in 2 .. Len(stack[t]) : s[i] = stack[t][i]
    BY <1>1, HeadReplaced
  <2>2. stack' = [stack EXCEPT ![t] = s]
    OBVIOUS
  <2> HIDE DEF s
  <2> QED BY <1>1, <2>1, <2>2
<1>4. CallsOK(t)
  BY DEF IInv
<1>5. ASSUME NEW u \in Sender \ {t} PROVE CallsOK(u)'
  <2>1. x = Nil \/ x \in list[t]
    BY <1>2, <1>4 DEF CallsOK, KnownOK
  <2> QED BY <1>3, <2>1, OthersKept
<1>6. ASSUME NEW i \in 2 .. Len(stack[t])
      PROVE  /\ i \in 1 .. Len(stack[t]) /\ stack'[t][i] = stack[t][i]
             /\ stack[t][i].at = "run" => stack[t][i].cls # x
             /\ stack[t][i].at # "finish"
  <2>1. i \in 1 .. Len(stack[t]) /\ i # 1
    BY <1>2
  <2>2. stack[t][i].cls # Nil
    BY <1>1, <2>1, FramesTyped, ClassHierarchyAssumption, ClassInitAssumption
  <2> QED BY <1>2, <1>3, <1>4, <2>1, <2>2 DEF CallsOK, RunsApart, FinishOK
<1>7. CallsOK(t)'
  <2>1. CASE f.at = Head(stack[t]).at /\ x = Nil
    <3>1. \A i \in 1 .. Len(stack[t]) :
            /\ stack'[t][i].cls = stack[t][i].cls /\ stack'[t][i].at = stack[t][i].at
            /\ stack[t][i].at = "run" => stack[t][i].cls # x
            /\ stack[t][i].at # "finish"
      <4> TAKE i \in 1 .. Len(stack[t])
      <4>1. i = 1 \/ i \in 2 .. Len(stack[t])
        BY <1>2
      <4>2. stack[t][i].cls # Nil
        BY <1>1, FramesTyped, ClassHierarchyAssumption, ClassInitAssumption
      <4> QED BY <1>2, <1>3, <1>6, <2>1, <4>1, <4>2
    <3> QED BY <1>3, <3>1, Moved
  <2>2. CASE ~ (f.at = Head(stack[t]).at /\ x = Nil)
    <3>1. KnownOK(t, 1)' /\ FinishOK(t, 1)'
      <4>1. KnownOK(t, 1)'
        <5>1. PICK c \in Class : c = Cls(t)
          BY <1>2
        <5>2. stack'[t][1].cls = c /\ stack'[t][1].at = f.at
          BY <1>3, <5>1
        <5>3. /\ f.at \notin Early => Started(c)'
              /\ f.at = "run" => c \in list'[t] /\ ~Ending(c)'
              /\ f.at = "check2" => Initialized(c)'
          BY <2>2, <5>1 DEF Started, Initialized, Ending
        <5> QED BY <5>2, <5>3 DEF KnownOK, Started, Initialized, Ending
      <4>2. FinishOK(t, 1)'
        BY <1>2, <1>3, <2>2 DEF FinishOK
      <4> QED BY <4>1, <4>2
    <3>2. ASSUME NEW i \in 1 .. Len(stack[t])
          PROVE  /\ stack'[t][i].cls = stack[t][i].cls
                 /\ \/ /\ stack'[t][i].at = stack[t][i].at
                       /\ stack[t][i].at = "run" => stack[t][i].cls # x
                       /\ stack[t][i].at = "finish" => t # t
                    \/ /\ KnownOK(t, i)' /\ FinishOK(t, i)'
                       /\ \/ stack[t][i].at # "super"
                          \/ super[stack[t][i].cls] = Nil
                          \/ UsableNext(t, super[stack[t][i].cls])
                       /\ stack'[t][i].at = "run" => i = 1 /\ ~Started(stack[t][i].cls)
      <4>1. CASE i = 1
        BY <1>2, <1>3, <2>2, <3>1, <4>1
      <4>2. CASE i # 1
        BY <1>2, <1>6, <4>2
      <4> QED BY <4>1, <4>2
    <3> QED BY <1>3, <3>2, Moved
  <2> QED BY <2>1, <2>2
<1>8. LeftUsable
  BY <1>1, <1>3, FramesTyped DEF LeftUsable
<1> QED BY <1>3, <1>5, <1>7, <1>8 DEF StacksKept

\* A call about c begins inside the innermost call of t, which may at the same
\* time go on to claim its class if c is its superclass.
LEMMA Began ==
  ASSUME IInv, NEW t \in Sender, Grows(t, Nil), NEW c \in Class, NEW rest \in Seq(Frames),
         Len(rest) = Len(stack[t]),
         \A i \in 1 .. Len(rest) :
            /\ rest[i].cls = stack[t][i].cls
            /\ rest[i].at = stack[t][i].at \/ (i = 1 /\ rest[i].at = "claim" /\ super[rest[i].cls] = c)
            /\ rest[i].at # "finish",
         stack' = [stack EXCEPT ![t] = <<Frame(c)>> \o rest]
  PROVE  StacksKept
<1>1. stack \in [Sender -> Seq(Frames)] /\ InitializeTypeOK
  BY DEF IInv, StateOK, InitializeTypeOK
<1>2. Frame(c) \in Frames /\ Frame(c).cls = c /\ Frame(c).at = "super"
  BY DEF Frame, Frames, Places
<1>3. /\ <<Frame(c)>> \in Seq(Frames)
      /\ Len(<<Frame(c)>>) = 1 /\ <<Frame(c)>>[1] = Frame(c)
  BY <1>2
<1>4. /\ <<Frame(c)>> \o rest \in Seq(Frames) /\ Len(rest) \in Nat
      /\ Len(<<Frame(c)>> \o rest) = Len(rest) + 1
      /\ (<<Frame(c)>> \o rest)[1] = Frame(c)
      /\ \A i \in 1 .. Len(rest) : (<<Frame(c)>> \o rest)[i + 1] = rest[i]
  BY <1>3, ConcatProperties, LenProperties
<1>5. /\ stack' \in [Sender -> Seq(Frames)]
      /\ Len(stack'[t]) = Len(stack[t]) + 1 /\ stack'[t][1] = Frame(c)
      /\ \A i \in 1 .. Len(stack[t]) : stack'[t][i + 1] = rest[i]
      /\ \A u \in Sender \ {t} : stack'[u] = stack[u]
      /\ Len(stack[t]) \in Nat
  BY <1>1, <1>4
<1>6. ASSUME NEW u \in Sender \ {t} PROVE CallsOK(u)'
  BY <1>5, OthersKept
<1>7. CallsOK(t)
  BY DEF IInv
<1>8. KnownOK(t, 1)' /\ FinishOK(t, 1)' /\ SuperOK(t, 1)'
  BY <1>2, <1>5 DEF KnownOK, FinishOK, SuperOK, Early
<1>9. \A i \in 1 .. Len(stack'[t]) : i = 1 \/ \E j \in 1 .. Len(stack[t]) : i = j + 1
  <2> TAKE i \in 1 .. Len(stack'[t])
  <2>1. i # 1 => i - 1 \in 1 .. Len(stack[t]) /\ i = (i - 1) + 1
    BY <1>5
  <2> QED BY <2>1
<1>10. ASSUME NEW j \in 1 .. Len(stack[t])
       PROVE  /\ stack'[t][j + 1].cls = stack[t][j].cls
              /\ \/ stack'[t][j + 1].at = stack[t][j].at
                 \/ stack'[t][j + 1].at = "claim" /\ j = 1 /\ super[stack[t][j].cls] = c
              /\ stack'[t][j + 1].at # "finish"
              /\ KnownOK(t, j) /\ SuperOK(t, j) /\ stack[t][j].cls \in Class
              /\ super[stack[t][j].cls] \in Class \cup {Nil}
  BY <1>1, <1>5, <1>7, FramesTyped DEF CallsOK
<1>11. ASSUME NEW j \in 1 .. Len(stack[t])
       PROVE  KnownOK(t, j + 1)' /\ FinishOK(t, j + 1)'
  <2>1. FinishOK(t, j + 1)'
    BY <1>10 DEF FinishOK
  <2>2. PICK d \in Class : d = stack[t][j].cls /\ d # Nil
    BY <1>10, ClassHierarchyAssumption, ClassInitAssumption
  <2>3. KnownOK(t, j + 1)'
    <3>1. stack'[t][j + 1].cls = d /\ stack'[t][j + 1].at \in {stack[t][j].at, "claim"}
      BY <1>10, <2>2
    <3>2. /\ Started(d) => Started(d)'
          /\ Initialized(d) => Initialized(d)'
          /\ d \in list[t] /\ ~Ending(d) => d \in list'[t] /\ ~Ending(d)'
      BY <2>2 DEF Grows
    <3>3. KnownOK(t, j)
      BY <1>10
    <3> QED BY <2>2, <3>1, <3>2, <3>3 DEF KnownOK, Early, Started, Initialized, Ending
  <2> QED BY <2>1, <2>3
<1>12. ASSUME NEW j \in 1 .. Len(stack[t])
       PROVE  SuperOK(t, j + 1)'
  <2>1. CASE super[stack[t][j].cls] = Nil \/ stack'[t][j + 1].at = "super"
    BY <1>10, <2>1 DEF SuperOK
  <2>2. CASE super[stack[t][j].cls] # Nil /\ stack'[t][j + 1].at # "super"
    <3>1. PICK s \in Class : s = super[stack[t][j].cls]
      BY <1>10, <2>2
    <3>2. j + 1 > 1 /\ (j + 1) - 1 = j /\ j + 1 # 1
      BY <1>5
    <3>3. SuperOK(t, j + 1)' <=> Usable(t, s)' \/ stack'[t][j].cls = s
      BY <1>10, <2>2, <3>1, <3>2 DEF SuperOK, Usable, Initialized
    <3>4. CASE stack'[t][j + 1].at # stack[t][j].at
      BY <1>2, <1>5, <1>10, <3>1, <3>3, <3>4
    <3>5. CASE stack'[t][j + 1].at = stack[t][j].at
      <4>1. Usable(t, s) \/ (j > 1 /\ stack[t][j - 1].cls = s)
        BY <1>10, <2>2, <3>1, <3>5 DEF SuperOK
      <4>2. j > 1 => stack'[t][j].cls = stack[t][j - 1].cls
        <5>1. j > 1 => j - 1 \in 1 .. Len(stack[t]) /\ (j - 1) + 1 = j
          BY <1>5
        <5> QED BY <1>10, <5>1
      <4> QED BY <3>3, <4>1, <4>2 DEF Grows
    <3> QED BY <3>4, <3>5
  <2> QED BY <2>1, <2>2
<1>13. RunsApart(t)'
  <2> SUFFICES ASSUME NEW i \in 1 .. Len(stack'[t]), NEW j \in 1 .. Len(stack'[t]),
                      stack'[t][i].at = "run", stack'[t][j].at = "run",
                      stack'[t][i].cls = stack'[t][j].cls
               PROVE  i = j
    BY DEF RunsApart
  <2>1. i # 1 /\ j # 1
    BY <1>2, <1>5
  <2>2. PICK k, m \in 1 .. Len(stack[t]) : i = k + 1 /\ j = m + 1
    BY <1>9, <2>1
  <2>3. k = m
    BY <1>7, <1>10, <2>2 DEF CallsOK, RunsApart
  <2> QED BY <2>2, <2>3
<1>14. CallsOK(t)'
  BY <1>8, <1>9, <1>11, <1>12, <1>13 DEF CallsOK
<1>15. LeftUsable
  <2>1. \A u \in Sender : ~ (Len(stack'[u]) < Len(stack[u]))
    BY <1>1, <1>5, FramesTyped
  <2> QED BY <2>1 DEF LeftUsable
<1> QED BY <1>5, <1>6, <1>14, <1>15 DEF StacksKept

-----------------------------------------------------------------------------
(* One lemma per action.                                                       *)

LEMMA InitInv == InitializeInit => IInv
<1> SUFFICES ASSUME InitializeInit PROVE IInv
  OBVIOUS
<1>1. InitializeTypeOK
  BY EmptySeq DEF InitializeInit, InitializeTypeOK
<1>2. FlagsOK /\ ListsOK /\ MarkingOK /\ PendingOK /\ SuperMarked /\ ContiguousFromRoot
      /\ ~fatal
  BY DEF InitializeInit, FlagsOK, ListsOK, MarkingOK, PendingOK, SuperMarked, ContiguousFromRoot,
         Initialized, Initializing
<1>3. \A t \in Sender : CallsOK(t)
  <2> TAKE t \in Sender
  <2>1. \A i \in 1 .. Len(stack[t]) : FALSE
    BY DEF InitializeInit
  <2> QED BY <2>1 DEF CallsOK, RunsApart
<1> QED BY <1>1, <1>2, <1>3 DEF IInv, StateOK

LEMMA StepKeeps ==
  ASSUME StateOK', StacksKept
  PROVE  IInv' /\ LeftUsable
  BY DEF StacksKept, IInv

LEMMA StateKept ==
  ASSUME IInv, UNCHANGED <<flags, list, pending, monitor, marking, fatal>>, StacksKept
  PROVE  IInv' /\ LeftUsable
<1>1. InitializeTypeOK' /\ ContiguousFromRoot' /\ ~fatal'
  BY DEF IInv, StateOK, InitializeTypeOK, ContiguousFromRoot, StacksKept
<1>2. FlagsOK' /\ ListsOK' /\ SuperMarked'
  BY DEF IInv, StateOK, FlagsOK, ListsOK, SuperMarked, SuperReady, Initialized, Initializing
<1>3. MarkingOK' /\ PendingOK'
  BY DEF IInv, StateOK, MarkingOK, PendingOK, SuperReady, Initialized
<1> QED BY <1>1, <1>2, <1>3, StepKeeps DEF StateOK

LEMMA UnchangedGrows ==
  ASSUME NEW t \in Sender, UNCHANGED <<flags, list, pending, monitor, marking>>
  PROVE  Grows(t, Nil)
  BY NothingGrows

\* What is innermost in a stack that is not empty, and what it knows.
LEMMA Innermost ==
  ASSUME IInv, NEW t \in Sender, stack[t] # <<>>
  PROVE  /\ stack[t] \in Seq(Frames) /\ Len(stack[t]) \in Nat
         /\ stack[t][1] \in Frames /\ Head(stack[t]) = stack[t][1]
         /\ Cls(t) = stack[t][1].cls
         /\ Cls(t) \in Class /\ super[Cls(t)] \in Class \cup {Nil} /\ Cls(t) # Nil
         /\ KnownOK(t, 1) /\ FinishOK(t, 1)
         /\ stack[t][1].at # "super" /\ super[Cls(t)] # Nil => Usable(t, super[Cls(t)])
<1>1. InitializeTypeOK /\ CallsOK(t)
  BY DEF IInv, StateOK
<1>2. /\ stack[t] \in Seq(Frames) /\ Len(stack[t]) \in Nat
      /\ stack[t][1] \in Frames /\ Head(stack[t]) = stack[t][1] /\ 1 \in 1 .. Len(stack[t])
      /\ Cls(t) = stack[t][1].cls
      /\ Cls(t) \in Class /\ super[Cls(t)] \in Class \cup {Nil}
  BY <1>1, FramesTyped
<1>3. KnownOK(t, 1) /\ FinishOK(t, 1) /\ SuperOK(t, 1)
  BY <1>1, <1>2 DEF CallsOK
<1> QED BY <1>2, <1>3, ClassHierarchyAssumption, ClassInitAssumption DEF SuperOK

\* The innermost call goes to another place.
LEMMA WentTo ==
  ASSUME IInv, NEW t \in Sender, stack[t] # <<>>, NEW p \in Places, GotoPlace(t, p)
  PROVE  \E f \in Frames :
            /\ f.cls = Cls(t) /\ f.at = p
            /\ stack' = [stack EXCEPT ![t] = [stack[t] EXCEPT ![1] = f]]
<1> DEFINE f == [stack[t][1] EXCEPT !.at = p]
<1>1. f \in Frames /\ f.cls = Cls(t) /\ f.at = p
  BY Innermost DEF Frames
<1>2. stack' = [stack EXCEPT ![t] = [stack[t] EXCEPT ![1] = f]]
  BY Innermost DEF GotoPlace
<1> HIDE DEF f
<1> QED BY <1>1, <1>2

LEMMA MessageInv ==
  ASSUME IInv, NEW t \in Sender, NEW c \in Class, Message(t, c)
  PROVE  IInv' /\ LeftUsable
<1> DEFINE rest == <<>>
<1>1. /\ rest \in Seq(Frames) /\ Len(rest) = Len(stack[t])
      /\ \A i \in 1 .. Len(rest) : FALSE
      /\ stack' = [stack EXCEPT ![t] = <<Frame(c)>> \o rest]
  BY EmptySeq DEF Message
<1>2. UNCHANGED <<flags, list, pending, monitor, marking, fatal>>
  BY DEF Message
<1> HIDE DEF rest
<1>3. StacksKept
  BY <1>1, <1>2, UnchangedGrows, Began
<1> QED BY <1>2, <1>3, StateKept

LEMMA SuperInv ==
  ASSUME IInv, NEW t \in Sender, Super(t)
  PROVE  IInv' /\ LeftUsable
<1>1. /\ stack[t] # <<>> /\ Head(stack[t]).at = "super"
      /\ UNCHANGED <<flags, list, pending, monitor, marking, fatal>>
  BY DEF Super, At
<1>2. PICK c \in Class : c = Cls(t) /\ super[c] \in Class \cup {Nil}
  BY <1>1, Innermost
<1> DEFINE f == [stack[t][1] EXCEPT !.at = "claim"]
           rest == [stack[t] EXCEPT ![1] = f]
<1>3. f \in Frames /\ f.cls = c /\ f.at = "claim"
  BY <1>1, <1>2, Innermost DEF Frames, Places
<1>4. rest = [stack[t] EXCEPT ![1].at = "claim"]
  BY <1>1, Innermost
<1>5. /\ rest \in Seq(Frames) /\ Len(rest) = Len(stack[t]) /\ rest[1] = f
      /\ \A i \in 2 .. Len(stack[t]) : rest[i] = stack[t][i]
  BY <1>1, <1>3, Innermost, HeadReplaced
<1>6. CASE SuperDone(c)
  <2>1. stack' = [stack EXCEPT ![t] = rest]
    BY <1>2, <1>4, <1>6 DEF Super
  <2>2. super[c] = Nil \/ UsableNext(t, super[c])
    BY <1>1, <1>6 DEF SuperDone, SuperReady, Initialized, UsableNext
  <2> HIDE DEF f
  <2>3. StacksKept
    BY <1>1, <1>2, <1>3, <2>1, <2>2, UnchangedGrows, Replaced DEF Early
  <2> QED BY <1>1, <2>3, StateKept
<1>7. CASE ~SuperDone(c)
  <2>1. super[c] \in Class
    BY <1>2, <1>7 DEF SuperDone, SuperReady
  <2>2. stack' = [stack EXCEPT ![t] = <<Frame(super[c])>> \o rest]
    BY <1>2, <1>4, <1>7 DEF Super
  <2> HIDE DEF f, rest
  <2>3. ASSUME NEW i \in 1 .. Len(rest)
        PROVE  /\ rest[i].cls = stack[t][i].cls
               /\ \/ rest[i].at = stack[t][i].at
                  \/ i = 1 /\ rest[i].at = "claim" /\ super[rest[i].cls] = super[c]
               /\ rest[i].at # "finish"
    <3>1. i = 1 \/ i \in 2 .. Len(stack[t])
      BY <1>1, <1>5, Innermost
    <3>2. CASE i = 1
      BY <1>1, <1>2, <1>3, <1>5, <3>2, Innermost
    <3>3. CASE i \in 2 .. Len(stack[t])
      <4>1. i \in 1 .. Len(stack[t]) /\ i # 1
        BY <1>5, <3>3
      <4> QED BY <1>5, <3>3, <4>1 DEF IInv, CallsOK, FinishOK
    <3> QED BY <3>1, <3>2, <3>3
  <2>4. StacksKept
    BY <1>1, <1>5, <2>1, <2>2, <2>3, UnchangedGrows, Began
  <2> QED BY <1>1, <2>4, StateKept
<1> QED BY <1>6, <1>7

LEMMA RunInv ==
  ASSUME IInv, NEW t \in Sender, NEW d \in Class, Run(t, d)
  PROVE  IInv' /\ LeftUsable
<1>1. /\ stack[t] # <<>> /\ Head(stack[t]).at = "run"
      /\ UNCHANGED <<flags, list, pending, monitor, marking, fatal>>
  BY DEF Run, At
<1>2. PICK c \in Class : c = Cls(t)
  BY <1>1, Innermost
<1> DEFINE f == [stack[t][1] EXCEPT !.todo = @ \ {d}]
           rest == [stack[t] EXCEPT ![1] = f]
<1>3. f \in Frames /\ f.cls = c /\ f.at = "run"
  BY <1>1, <1>2, Innermost DEF Frames
<1>4. rest = [stack[t] EXCEPT ![1].todo = @ \ {d}]
  BY <1>1, Innermost
<1>5. /\ rest \in Seq(Frames) /\ Len(rest) = Len(stack[t]) /\ rest[1] = f
      /\ \A i \in 2 .. Len(stack[t]) : rest[i] = stack[t][i]
  BY <1>1, <1>3, Innermost, HeadReplaced
<1>6. CASE Initialized(d)
  <2>1. stack' = [stack EXCEPT ![t] = rest]
    BY <1>4, <1>6 DEF Run
  <2> HIDE DEF f
  <2>2. StacksKept
    BY <1>1, <1>2, <1>3, <2>1, UnchangedGrows, Replaced
  <2> QED BY <1>1, <2>2, StateKept
<1>7. CASE ~Initialized(d)
  <2>1. stack' = [stack EXCEPT ![t] = <<Frame(d)>> \o rest]
    BY <1>4, <1>7 DEF Run
  <2> HIDE DEF f, rest
  <2>2. ASSUME NEW i \in 1 .. Len(rest)
        PROVE  /\ rest[i].cls = stack[t][i].cls
               /\ rest[i].at = stack[t][i].at
               /\ rest[i].at # "finish"
    <3>1. i = 1 \/ i \in 2 .. Len(stack[t])
      BY <1>1, <1>5, Innermost
    <3>2. CASE i = 1
      BY <1>1, <1>2, <1>3, <1>5, <3>2, Innermost
    <3>3. CASE i \in 2 .. Len(stack[t])
      <4>1. i \in 1 .. Len(stack[t]) /\ i # 1
        BY <1>5, <3>3
      <4> QED BY <1>5, <3>3, <4>1 DEF IInv, CallsOK, FinishOK
    <3> QED BY <3>1, <3>2, <3>3
  <2>3. StacksKept
    BY <1>1, <1>5, <2>1, <2>2, UnchangedGrows, Began
  <2> QED BY <1>1, <2>3, StateKept
<1> QED BY <1>6, <1>7

\* A class that is claimed was fresh, so no thread had it on its list; its
\* superclass may be used, for no call is inside the one that claims it.
LEMMA ClaimInv ==
  ASSUME IInv, NEW t \in Sender, Claim(t)
  PROVE  IInv' /\ LeftUsable
<1>1. /\ stack[t] # <<>> /\ Head(stack[t]).at = "claim"
      /\ UNCHANGED <<pending, monitor, marking>>
  BY DEF Claim, At
<1>2. PICK c \in Class : c = Cls(t) /\ c # Nil /\ super[c] \in Class \cup {Nil}
  BY <1>1, Innermost
<1>3. super[c] # Nil => Usable(t, super[c])
  BY <1>1, <1>2, Innermost
<1>4. CASE Claimable(c)
  <2> DEFINE f == [cls |-> c, at |-> "run", todo |-> messages[c] \cup {c}]
  <2>1. /\ flags' = [flags EXCEPT ![c] = @ \cup {"INITIALIZING"}]
        /\ list' = [list EXCEPT ![t] = @ \cup {c}] /\ fatal' = (c \in list[t])
        /\ stack' = [stack EXCEPT ![t][1] = f]
    BY <1>2, <1>4 DEF Claim, SetInitializing
  <2>2. f \in Frames /\ f.cls = c /\ f.at = "run"
    BY ClassHierarchyAssumption, ClassInitAssumption DEF Frames, Places
  <2>3. stack' = [stack EXCEPT ![t] = [stack[t] EXCEPT ![1] = f]]
    BY <2>1 DEF IInv, StateOK, InitializeTypeOK
  <2> HIDE DEF f
  <2>4. flags[c] = {} /\ (\A u \in Sender : c \notin list[u]) /\ ~Ending(c)
    <3>1. flags[c] = {} /\ \A u \in Sender : c \notin list[u]
      BY <1>4 DEF Claimable, IInv, StateOK, ListsOK, Initializing
    <3> QED BY <3>1 DEF Ending, IInv, StateOK, MarkingOK, PendingOK
  <2>5. /\ flags'[c] = {"INITIALIZING"} /\ \A d \in Class \ {c} : flags'[d] = flags[d]
        /\ list'[t] = list[t] \cup {c} /\ \A u \in Sender \ {t} : list'[u] = list[u]
        /\ \A u \in Sender : list[u] \subseteq Class
    BY <2>1, <2>4 DEF IInv, StateOK, InitializeTypeOK
  <2>6. Grows(t, Nil)
    <3>1. \A d \in Class : (Started(d) => Started(d)') /\ (Initialized(d) => Initialized(d)')
      BY <2>4, <2>5 DEF Started, Initialized
    <3>2. \A u \in Sender, d \in Class : Usable(u, d) => Usable(u, d)'
      BY <2>5, <3>1 DEF Usable
    <3>3. \A d \in Class : Ending(d)' <=> Ending(d)
      BY <1>1 DEF Ending
    <3>4. \A u \in Sender, d \in Class : d \in list[u] => d \in list'[u]
      BY <2>5
    <3> QED BY <1>1, <3>1, <3>2, <3>3, <3>4 DEF Grows
  <2>7. StacksKept
    <3>1. \A u \in Sender : c \notin marking'[u]
      BY <1>1, <2>4 DEF Ending
    <3>2. \A b \in Class : c \notin pending'[b]
      BY <1>1, <2>4 DEF Ending
    <3>3. /\ flags'[c] # {} /\ c \in list'[t] /\ ~Started(c)
      BY <2>4, <2>5 DEF Started
    <3>4. Head(stack[t]).at \notin {"finish", "super"}
      BY <1>1
    <3> QED BY <1>1, <1>2, <2>2, <2>3, <2>6, <3>1, <3>2, <3>3, <3>4, Replaced
  <2>8. InitializeTypeOK' /\ ~fatal'
    BY <1>1, <1>2, <2>1, <2>4, <2>7 DEF StacksKept, IInv, StateOK, InitializeTypeOK
  <2>9. FlagsOK'
    BY <2>5 DEF IInv, StateOK, FlagsOK
  <2>10. ListsOK'
    <3>1. \A d \in Class : Initializing(d)' <=> \E u \in Sender : d \in list'[u]
      BY <2>5 DEF IInv, StateOK, ListsOK, Initializing
    <3> QED BY <2>4, <2>5, <3>1 DEF IInv, StateOK, ListsOK
  <2>11. \A d \in Class : SuperReady(d) => SuperReady(d)'
    BY <2>6, ClassHierarchyAssumption, ClassInitAssumption DEF SuperReady, Grows
  <2>12. MarkingOK' /\ PendingOK'
    <3>1. MarkingOK'
      <4> SUFFICES ASSUME NEW u \in Sender
                   PROVE  /\ marking[u] # {} => monitor = u
                          /\ \A d \in marking[u] : /\ d \in list'[u] /\ SuperReady(d)'
                                                   /\ \A b \in Class : d \notin pending[b]
        BY <1>1 DEF MarkingOK
      <4>1. marking[u] \subseteq Class /\ MarkingOK
        BY DEF IInv, StateOK, InitializeTypeOK
      <4> QED BY <2>5, <2>11, <4>1 DEF MarkingOK
    <3>2. PendingOK'
      BY <1>1, <2>5 DEF IInv, StateOK, PendingOK
    <3> QED BY <3>1, <3>2
  <2>13. SuperMarked'
    BY <2>5, <2>11 DEF IInv, StateOK, SuperMarked, Initialized
  <2>14. ContiguousFromRoot'
    BY <1>3, <2>5, ClassHierarchyAssumption, ClassInitAssumption DEF IInv, StateOK, ContiguousFromRoot, Usable, Initialized,
                                          ListsOK, Initializing
  <2> QED BY <2>7, <2>8, <2>9, <2>10, <2>12, <2>13, <2>14, StepKeeps DEF StateOK
<1>5. CASE ~Claimable(c)
  <2>1. GotoPlace(t, "check") /\ UNCHANGED <<flags, list, fatal>> /\ flags'[c] # {}
    BY <1>2, <1>5 DEF Claim, Claimable
  <2>2. PICK f \in Frames :
          /\ f.cls = Cls(t) /\ f.at = "check"
          /\ stack' = [stack EXCEPT ![t] = [stack[t] EXCEPT ![1] = f]]
    BY <1>1, <2>1, WentTo DEF Places
  <2>3. StacksKept
    BY <1>1, <1>2, <2>1, <2>2, UnchangedGrows, Replaced
  <2> QED BY <1>1, <2>1, <2>3, StateKept
<1> QED BY <1>4, <1>5

\* The superclass that is not marked is being initialized by this very thread,
\* which is what lets the class be left for it to mark.
LEMMA FinishInv ==
  ASSUME IInv, NEW t \in Sender, Finish(t)
  PROVE  IInv' /\ LeftUsable
<1>1. /\ stack[t] # <<>> /\ Head(stack[t]).at = "run" /\ monitor = Nil
      /\ UNCHANGED <<flags, list, fatal>>
  BY DEF Finish, At
<1>2. PICK c \in Class : c = Cls(t) /\ c # Nil /\ super[c] \in Class \cup {Nil}
  BY <1>1, Innermost
<1>3. /\ c \in list[t] /\ ~Ending(c) /\ Started(c)
      /\ super[c] # Nil => Usable(t, super[c])
  BY <1>1, <1>2, Innermost DEF KnownOK, Early
<1>4. \A u \in Sender : marking[u] = {}
  BY <1>1, ClassHierarchyAssumption, ClassInitAssumption DEF IInv, StateOK, MarkingOK
<1>5. \A d \in Class : (SuperReady(d) <=> SuperReady(d)') /\ (Started(d) <=> Started(d)')
                       /\ (Initialized(d) <=> Initialized(d)')
                       /\ (Initializing(d) <=> Initializing(d)')
  BY <1>1 DEF SuperReady, Started, Initialized, Initializing
<1>6. FlagsOK' /\ ListsOK' /\ SuperMarked' /\ ContiguousFromRoot' /\ ~fatal'
  BY <1>1, <1>5 DEF IInv, StateOK, FlagsOK, ListsOK, SuperMarked, ContiguousFromRoot, Started
<1>7. \A b \in Class : pending[b] \subseteq Class
  BY DEF IInv, StateOK, InitializeTypeOK
<1>8. CASE SuperReady(c)
  <2>1. /\ monitor' = t /\ marking' = [marking EXCEPT ![t] = {c}] /\ pending' = pending
        /\ GotoPlace(t, "finish")
    BY <1>2, <1>8 DEF Finish
  <2>2. /\ marking'[t] = {c} /\ \A u \in Sender \ {t} : marking'[u] = {} /\ marking[u] = {}
    BY <1>4, <2>1 DEF IInv, StateOK, InitializeTypeOK
  <2>3. PICK f \in Frames :
          /\ f.cls = Cls(t) /\ f.at = "finish"
          /\ stack' = [stack EXCEPT ![t] = [stack[t] EXCEPT ![1] = f]]
    BY <1>1, <2>1, WentTo DEF Places
  <2>4. Grows(t, c)
    <3>1. \A d \in Class : d # c /\ ~Ending(d) => ~Ending(d)'
      BY <2>1, <2>2 DEF Ending
    <3>2. \A u \in Sender : monitor # u
      BY <1>1, ClassHierarchyAssumption, ClassInitAssumption
    <3> QED BY <1>1, <1>5, <2>2, <3>1, <3>2 DEF Grows, Usable
  <2>5. StacksKept
    <3>1. flags'[c] # {} /\ c \in marking'[t]
      BY <1>1, <1>3, <2>2 DEF Started
    <3> QED BY <1>1, <1>2, <2>1, <2>3, <2>4, <3>1, Replaced
  <2>6. InitializeTypeOK'
    BY <1>1, <2>1, <2>5 DEF StacksKept, IInv, StateOK, InitializeTypeOK
  <2>7. MarkingOK' /\ PendingOK'
    <3>1. \A b \in Class : c \notin pending[b]
      BY <1>3 DEF Ending
    <3>2. MarkingOK'
      BY <1>1, <1>3, <1>5, <1>8, <2>1, <2>2, <3>1 DEF MarkingOK
    <3>3. PendingOK'
      BY <1>1, <2>1 DEF IInv, StateOK, PendingOK
    <3> QED BY <3>2, <3>3
  <2> QED BY <1>6, <2>5, <2>6, <2>7, StepKeeps DEF StateOK
<1>9. CASE ~SuperReady(c)
  <2>1. /\ super[c] \in Class /\ super[c] \in list[t]
        /\ pending' = [pending EXCEPT ![super[c]] = @ \cup {c}] /\ ReturnFrom(t)
        /\ UNCHANGED <<monitor, marking>>
    BY <1>2, <1>3, <1>9 DEF Finish, SuperReady, Usable
  <2>2. PICK s \in Class : s = super[c]
    BY <2>1
  <2>3. /\ pending' \in [Class -> SUBSET Class]
        /\ \A b \in Class : pending'[b] = IF b = s THEN pending[b] \cup {c} ELSE pending[b]
    BY <2>1, <2>2 DEF IInv, StateOK, InitializeTypeOK
  <2>4. Grows(t, c)
    <3>1. \A d \in Class : d # c /\ ~Ending(d) => ~Ending(d)'
      BY <2>1, <2>3 DEF Ending
    <3> QED BY <1>1, <1>5, <2>1, <3>1 DEF Grows, Usable
  <2>5. UsableNext(t, c)
    BY <1>1, <1>3 DEF UsableNext
  <2>6. StacksKept
    BY <1>1, <1>2, <2>1, <2>4, <2>5, Ended
  <2>7. InitializeTypeOK'
    BY <1>1, <2>1, <2>3, <2>6 DEF StacksKept, IInv, StateOK, InitializeTypeOK
  <2>8. MarkingOK'
    BY <1>4, <2>1 DEF MarkingOK
  <2>9. PendingOK'
    <3>1. \A b \in Class : \A d \in pending[b] :
             super[d] = b /\ \E u \in Sender : b \in list[u] /\ d \in list[u]
      BY DEF IInv, StateOK, PendingOK
    <3>2. s \in list[t] /\ super[c] = s
      BY <2>1, <2>2
    <3> QED BY <1>1, <1>3, <2>3, <3>1, <3>2 DEF PendingOK
  <2> QED BY <1>6, <2>6, <2>7, <2>8, <2>9, StepKeeps DEF StateOK
<1> QED BY <1>8, <1>9

\* What _finishInitializing marks is on its list, and what it goes on to had
\* waited for this mark only.
LEMMA MarkInv ==
  ASSUME IInv, NEW t \in Sender, NEW c \in Class, Mark(t, c)
  PROVE  IInv' /\ LeftUsable
<1>1. /\ stack[t] # <<>> /\ Head(stack[t]).at = "finish" /\ c \in marking[t]
      /\ flags' = [flags EXCEPT ![c] = (@ \cup {"INITIALIZED"}) \ {"INITIALIZING"}]
      /\ fatal' = (c \notin list[t]) /\ list' = [list EXCEPT ![t] = @ \ {c}]
      /\ pending' = [pending EXCEPT ![c] = {}]
      /\ marking' = [marking EXCEPT ![t] = (@ \ {c}) \cup pending[c]]
      /\ stack' = [u \in Sender |->
                     IF u \in Notified(t, c) THEN [stack[u] EXCEPT ![1].at = "wait"]
                     ELSE stack[u]]
      /\ monitor' = monitor
  BY DEF Mark, At, SetNotInitializing, Waiting
<1>2. /\ c \in list[t] /\ SuperReady(c) /\ (\A b \in Class : c \notin pending[b])
      /\ Initializing(c) /\ flags[c] = {"INITIALIZING"}
      /\ monitor = t /\ \A u \in Sender \ {t} : marking[u] = {} /\ c \notin list[u]
  <2>1. c \in list[t] /\ SuperReady(c) /\ (\A b \in Class : c \notin pending[b]) /\ monitor = t
    BY <1>1 DEF IInv, StateOK, MarkingOK
  <2>2. Initializing(c) /\ \A u \in Sender \ {t} : c \notin list[u]
    BY <2>1 DEF IInv, StateOK, ListsOK
  <2>3. flags[c] = {"INITIALIZING"}
    BY <2>2 DEF IInv, StateOK, FlagsOK, Initializing
  <2>4. \A u \in Sender \ {t} : marking[u] = {}
    BY <2>1 DEF IInv, StateOK, MarkingOK
  <2> QED BY <2>1, <2>2, <2>3, <2>4
<1>3. /\ flags' \in [Class -> SUBSET {"INITIALIZING", "INITIALIZED"}]
      /\ flags'[c] = {"INITIALIZED"} /\ \A d \in Class \ {c} : flags'[d] = flags[d]
      /\ list' \in [Sender -> SUBSET Class]
      /\ list'[t] = list[t] \ {c} /\ \A u \in Sender \ {t} : list'[u] = list[u]
      /\ pending' \in [Class -> SUBSET Class]
      /\ pending'[c] = {} /\ \A b \in Class \ {c} : pending'[b] = pending[b]
      /\ marking' \in [Sender -> SUBSET Class]
      /\ marking'[t] = (marking[t] \ {c}) \cup pending[c]
      /\ \A u \in Sender \ {t} : marking'[u] = marking[u]
      /\ marking[t] \subseteq Class /\ \A b \in Class : pending[b] \subseteq Class
  BY <1>1, <1>2 DEF IInv, StateOK, InitializeTypeOK
<1>4. \A d \in Class : /\ Started(d) <=> Started(d)'
                       /\ Initialized(d)' <=> Initialized(d) \/ d = c
                       /\ SuperReady(d) => SuperReady(d)'
                       /\ super[d] = c => SuperReady(d)'
  <2>1. \A d \in Class : /\ Started(d) <=> Started(d)'
                         /\ Initialized(d)' <=> Initialized(d) \/ d = c
    BY <1>2, <1>3 DEF Started, Initialized
  <2> QED BY <2>1, ClassHierarchyAssumption, ClassInitAssumption DEF SuperReady
<1>5. Grows(t, Nil)
  <2>1. \A u \in Sender, d \in Class : Usable(u, d) => Usable(u, d)'
    BY <1>3, <1>4 DEF Usable
  <2>2. ASSUME NEW u \in Sender, NEW d \in Class, d \in list[u], ~Ending(d)
        PROVE  d \in list'[u] /\ ~Ending(d)'
    <3>1. d # c
      BY <1>1, <2>2 DEF Ending
    <3> QED BY <1>3, <2>2, <3>1 DEF Ending
  <2> QED BY <1>1, <1>3, <1>4, <2>1, <2>2 DEF Grows
<1>6. ASSUME NEW u \in Sender
      PROVE  CallsOK(u)' /\ stack'[u] \in Seq(Frames) /\ Len(stack'[u]) = Len(stack[u])
  <2>1. stack[u] \in Seq(Frames) /\ CallsOK(u)
    BY DEF IInv, StateOK, InitializeTypeOK
  <2>2. \A i \in 1 .. Len(stack[u]) : stack[u][i].at = "run" => stack[u][i].cls # Nil
    BY FramesTyped, ClassHierarchyAssumption, ClassInitAssumption DEF IInv, StateOK
  <2>3. CASE u \in Notified(t, c)
    <3> DEFINE f == [stack[u][1] EXCEPT !.at = "wait"]
    <3>1. stack[u] # <<>> /\ stack[u][1].at = "sleep"
      BY <2>3, Innermost DEF Notified, At
    <3>2. f \in Frames /\ f.cls = stack[u][1].cls /\ f.at = "wait"
      BY <3>1, Innermost DEF Frames, Places
    <3>3. stack'[u] = [stack[u] EXCEPT ![1] = f]
      BY <1>1, <2>3, <3>1, Innermost
    <3> HIDE DEF f
    <3>4. /\ stack'[u] \in Seq(Frames) /\ Len(stack'[u]) = Len(stack[u])
          /\ stack'[u][1] = f /\ Len(stack[u]) \in Nat /\ Len(stack[u]) > 0
          /\ \A i \in 2 .. Len(stack[u]) : stack'[u][i] = stack[u][i]
      BY <2>1, <3>1, <3>2, <3>3, HeadReplaced
    <3>5. KnownOK(u, 1)' /\ FinishOK(u, 1)'
      <4>1. PICK d \in Class : d = stack[u][1].cls
        BY <3>1, Innermost
      <4>2. Started(d)
        BY <3>1, <4>1, Innermost DEF KnownOK, Early
      <4>3. flags'[d] # {}
        BY <1>4, <4>2 DEF Started
      <4> QED BY <3>2, <3>4, <4>1, <4>3 DEF KnownOK, FinishOK, Started
    <3>6. \A i \in 2 .. Len(stack[u]) : stack[u][i].at # "finish"
      <4> TAKE i \in 2 .. Len(stack[u])
      <4>1. i \in 1 .. Len(stack[u]) /\ i # 1
        BY <3>4
      <4> QED BY <2>1, <4>1 DEF CallsOK, FinishOK
    <3>7. \A i \in 1 .. Len(stack[u]) : i = 1 \/ i \in 2 .. Len(stack[u])
      BY <3>4
    <3>8. CallsOK(u)'
      BY <1>5, <2>2, <3>1, <3>2, <3>4, <3>5, <3>6, <3>7, Moved
    <3> QED BY <3>4, <3>8
  <2>4. CASE u \notin Notified(t, c) /\ u # t
    <3>1. stack'[u] = stack[u]
      BY <1>1, <2>4
    <3> QED BY <1>5, <2>1, <2>2, <2>4, <3>1, Moved
  <2>5. CASE u = t
    <3>1. stack'[t] = stack[t]
      BY <1>1 DEF Notified, At
    <3>2. stack[t][1].at = "finish" /\ Len(stack[t]) \in Nat
      BY <1>1, Innermost
    <3>3. KnownOK(t, 1)' /\ FinishOK(t, 1)'
      <4>1. PICK d \in Class : d = stack[t][1].cls
        BY <1>1, Innermost
      <4>2. Started(d) /\ (d \in marking[t] \/ Initialized(d))
        BY <1>1, <3>2, <4>1, Innermost DEF KnownOK, FinishOK, Early
      <4>3. /\ flags'[d] # {}
            /\ d \in marking'[t] \/ "INITIALIZED" \in flags'[d]
        BY <1>3, <1>4, <4>2 DEF Started, Initialized
      <4> QED BY <1>1, <1>2, <3>1, <3>2, <4>1, <4>3 DEF KnownOK, FinishOK, Started, Initialized
    <3>4. \A i \in 1 .. Len(stack[t]) : i = 1 \/ stack[t][i].at # "finish"
      BY <2>1, <2>5 DEF CallsOK, FinishOK
    <3> QED BY <1>5, <2>1, <2>2, <2>5, <3>1, <3>2, <3>3, <3>4, Moved
  <2> QED BY <2>3, <2>4, <2>5
<1>7. StacksKept
  <2>1. stack' \in [Sender -> Seq(Frames)]
    BY <1>1, <1>6
  <2>2. LeftUsable
    <3>1. \A u \in Sender : Len(stack[u]) \in Nat
      BY FramesTyped DEF IInv, StateOK
    <3> QED BY <1>6, <3>1 DEF LeftUsable
  <2> QED BY <1>6, <2>1, <2>2 DEF StacksKept
<1>8. InitializeTypeOK' /\ ~fatal'
  BY <1>1, <1>2, <1>3, <1>7 DEF StacksKept, IInv, StateOK, InitializeTypeOK
<1>9. FlagsOK' /\ SuperMarked'
  <2>1. FlagsOK'
    BY <1>3 DEF IInv, StateOK, FlagsOK
  <2>2. SuperMarked'
    BY <1>2, <1>4 DEF IInv, StateOK, SuperMarked
  <2> QED BY <2>1, <2>2
<1>10. ListsOK'
  <2>1. \A d \in Class : Initializing(d)' <=> \E u \in Sender : d \in list'[u]
    BY <1>2, <1>3 DEF IInv, StateOK, ListsOK, Initializing
  <2>2. \A u \in Sender : list'[u] \subseteq list[u]
    BY <1>3
  <2> QED BY <2>1, <2>2 DEF IInv, StateOK, ListsOK
<1>11. MarkingOK'
  <2>1. ASSUME NEW d \in marking'[t]
        PROVE  d \in list'[t] /\ SuperReady(d)' /\ \A b \in Class : d \notin pending'[b]
    <3>1. CASE d \in marking[t] \ {c}
      BY <1>3, <1>4, <3>1 DEF IInv, StateOK, MarkingOK
    <3>2. CASE d \in pending[c]
      <4>1. super[d] = c /\ d \in Class /\ \E u \in Sender : c \in list[u] /\ d \in list[u]
        BY <1>3, <3>2 DEF IInv, StateOK, PendingOK
      <4>2. d \in list[t] /\ d # c
        BY <1>2, <3>2, <4>1
      <4>3. \A b \in Class : d \in pending[b] => b = c
        BY <4>1 DEF IInv, StateOK, PendingOK
      <4> QED BY <1>3, <1>4, <4>1, <4>2, <4>3
    <3> QED BY <1>3, <2>1, <3>1, <3>2
  <2> QED BY <1>1, <1>2, <1>3, <2>1 DEF MarkingOK
<1>12. PendingOK'
  <2> SUFFICES ASSUME NEW b \in Class \ {c}, NEW d \in pending[b]
               PROVE  super[d] = b /\ \E u \in Sender : b \in list'[u] /\ d \in list'[u]
    BY <1>3 DEF PendingOK
  <2>1. super[d] = b /\ \E u \in Sender : b \in list[u] /\ d \in list[u]
    BY DEF IInv, StateOK, PendingOK
  <2>2. d # c
    BY <1>2
  <2> QED BY <1>3, <2>1, <2>2
<1>13. ContiguousFromRoot'
  BY <1>4, ClassHierarchyAssumption, ClassInitAssumption DEF IInv, StateOK, ContiguousFromRoot, Started
<1> QED BY <1>7, <1>8, <1>9, <1>10, <1>11, <1>12, <1>13, StepKeeps DEF StateOK

LEMMA FinishDoneInv ==
  ASSUME IInv, NEW t \in Sender, FinishDone(t)
  PROVE  IInv' /\ LeftUsable
<1>1. /\ stack[t] # <<>> /\ Head(stack[t]).at = "finish" /\ marking[t] = {} /\ monitor' = Nil
      /\ ReturnFrom(t) /\ UNCHANGED <<flags, list, pending, marking, fatal>>
  BY DEF FinishDone, At
<1>2. monitor = t /\ Initialized(Cls(t))
  BY <1>1, Innermost DEF FinishOK
<1>3. Grows(t, Nil)
  BY <1>1, <1>2, NothingGrows
<1>4. StacksKept
  BY <1>1, <1>2, <1>3, Ended DEF UsableNext, Initialized
<1>5. InitializeTypeOK' /\ ContiguousFromRoot' /\ ~fatal'
  BY <1>1, <1>4 DEF IInv, StateOK, InitializeTypeOK, ContiguousFromRoot, StacksKept
<1>6. FlagsOK' /\ ListsOK' /\ SuperMarked'
  BY <1>1 DEF IInv, StateOK, FlagsOK, ListsOK, SuperMarked, SuperReady, Initialized, Initializing
<1>7. MarkingOK'
  <2>1. \A u \in Sender : marking[u] = {}
    BY <1>1, <1>2 DEF IInv, StateOK, MarkingOK
  <2> QED BY <1>1, <2>1 DEF MarkingOK
<1>8. PendingOK'
  BY <1>1 DEF IInv, StateOK, PendingOK
<1> QED BY <1>4, <1>5, <1>6, <1>7, <1>8, StepKeeps DEF StateOK

\* A call that could not claim its class waits, or ends when it may use it.
LEMMA LookedAgain ==
  ASSUME IInv, NEW t \in Sender, stack[t] # <<>>,
         Head(stack[t]).at \in {"check", "check2", "wait"},
         UNCHANGED <<flags, list, pending, monitor, marking, fatal>>,
         \/ ReturnFrom(t) /\ Usable(t, Cls(t))
         \/ GotoPlace(t, "wait") \/ GotoPlace(t, "sleep")
         \/ GotoPlace(t, "check2") /\ Initialized(Cls(t))
  PROVE  IInv' /\ LeftUsable
<1>1. StacksKept
  <2>1. CASE ReturnFrom(t) /\ Usable(t, Cls(t))
    BY <2>1, UnchangedGrows, Ended DEF Usable, UsableNext, Initialized
  <2>2. ASSUME NEW p \in {"wait", "sleep", "check2"}, GotoPlace(t, p),
               p = "check2" => Initialized(Cls(t))
        PROVE  StacksKept
    <3>1. PICK f \in Frames :
            /\ f.cls = Cls(t) /\ f.at = p
            /\ stack' = [stack EXCEPT ![t] = [stack[t] EXCEPT ![1] = f]]
      BY <2>2, WentTo DEF Places
    <3>2. flags'[Cls(t)] # {}
      BY Innermost DEF KnownOK, Early, Started
    <3> QED BY <2>2, <3>1, <3>2, UnchangedGrows, Replaced DEF Initialized
  <2> QED BY <2>1, <2>2
<1> QED BY <1>1, StateKept

\* The two reads in their order: a class that is no longer initializing is marked.
LEMMA CheckInv ==
  ASSUME IInv, NEW t \in Sender, Check(t) \/ CheckAgain(t) \/ Wait(t)
  PROVE  IInv' /\ LeftUsable
<1>1. stack[t] # <<>> /\ Head(stack[t]).at \in {"check", "check2", "wait"}
  BY DEF Check, CheckAgain, Wait, At
<1>2. /\ CheckOrder[1] = "INITIALIZING" /\ CheckOrder[2] = "INITIALIZED"
      /\ flags[Cls(t)] \in {{}, {"INITIALIZING"}, {"INITIALIZED"}}
  BY <1>1, Innermost DEF CheckOrder, IInv, StateOK, FlagsOK
<1>3. CASE Check(t)
  <2>1. Head(stack[t]).at = "check" /\ UNCHANGED <<flags, list, pending, monitor, marking, fatal>>
    BY <1>3 DEF Check, At
  <2>2. Started(Cls(t))
    BY <1>1, <2>1, Innermost DEF KnownOK, Early
  <2>3. \/ ReturnFrom(t) /\ Usable(t, Cls(t))
        \/ GotoPlace(t, "wait")
        \/ GotoPlace(t, "check2") /\ Initialized(Cls(t))
    BY <1>2, <1>3, <2>2 DEF Check, Found, ThisThreadIsInitializing, Usable, Initialized, Started
  <2> QED BY <1>1, <2>1, <2>3, LookedAgain
<1>4. CASE CheckAgain(t)
  <2>1. Head(stack[t]).at = "check2" /\ UNCHANGED <<flags, list, pending, monitor, marking>>
    BY <1>4 DEF CheckAgain, At
  <2>2. Initialized(Cls(t))
    BY <1>1, <2>1, Innermost DEF KnownOK
  <2>3. ReturnFrom(t) /\ Usable(t, Cls(t)) /\ UNCHANGED fatal
    BY <1>2, <1>4, <2>2 DEF CheckAgain, Found, Usable, Initialized
  <2> QED BY <1>1, <2>1, <2>3, LookedAgain
<1>5. CASE Wait(t)
  <2>1. UNCHANGED <<flags, list, pending, monitor, marking, fatal>>
    BY <1>5 DEF Wait
  <2>2. (ReturnFrom(t) /\ Usable(t, Cls(t))) \/ GotoPlace(t, "sleep")
    BY <1>5 DEF Wait, Usable
  <2> QED BY <1>1, <2>1, <2>2, LookedAgain
<1> QED BY <1>3, <1>4, <1>5

LEMMA StutterInv ==
  ASSUME IInv, UNCHANGED initializeVars
  PROVE  IInv' /\ LeftUsable
<1>1. UNCHANGED <<flags, list, pending, monitor, marking, fatal, stack>>
  BY DEF initializeVars
<1>2. \A t \in Sender : CallsOK(t)'
  <2> TAKE t \in Sender
  <2>1. CallsOK(t)
    BY DEF IInv
  <2>2. RunsApart(t)'
    BY <1>1, <2>1 DEF CallsOK, RunsApart
  <2>3. ASSUME NEW i \in 1 .. Len(stack[t])
        PROVE  KnownOK(t, i)' /\ FinishOK(t, i)' /\ SuperOK(t, i)'
    <3>1. KnownOK(t, i) /\ FinishOK(t, i) /\ SuperOK(t, i)
      BY <2>1 DEF CallsOK
    <3>2. KnownOK(t, i)'
      BY <1>1, <3>1 DEF KnownOK, Started, Ending, Initialized
    <3>3. FinishOK(t, i)' /\ SuperOK(t, i)'
      BY <1>1, <3>1 DEF FinishOK, SuperOK, Usable, Initialized
    <3> QED BY <3>2, <3>3
  <2> QED BY <1>1, <2>2, <2>3 DEF CallsOK
<1>3. LeftUsable
  BY <1>1, FramesTyped DEF LeftUsable, IInv, StateOK
<1>4. stack' \in [Sender -> Seq(Frames)]
  BY <1>1 DEF IInv, StateOK, InitializeTypeOK
<1> QED BY <1>1, <1>2, <1>3, <1>4, StateKept DEF StacksKept

LEMMA NextInv == IInv /\ [InitializeNext]_initializeVars => IInv' /\ LeftUsable
<1> SUFFICES ASSUME IInv, [InitializeNext]_initializeVars PROVE IInv' /\ LeftUsable
  OBVIOUS
<1>1. ASSUME NEW t \in Sender, InitializeStep(t) PROVE IInv' /\ LeftUsable
  BY <1>1, SuperInv, ClaimInv, RunInv, FinishInv, MarkInv, FinishDoneInv, CheckInv
     DEF InitializeStep
<1>2. ASSUME NEW t \in Sender, NEW c \in Class, Message(t, c) \/ MessageMarked(t, c)
      PROVE  IInv' /\ LeftUsable
  BY <1>2, MessageInv, StutterInv DEF MessageMarked
<1> QED BY <1>1, <1>2, StutterInv DEF InitializeNext

LEMMA Invariance == InitializeSpec => []IInv
BY InitInv, NextInv, PTL DEF InitializeSpec

-----------------------------------------------------------------------------
(* The theorems.                                                               *)

\* In every hierarchy the started classes reach up to the root without a gap, and
\* so of two started classes, one above the other, every class between is started
\* too: the deadlock of objc-initialize.mm:61-81 has no state to happen in.
THEOREM StartedIsContiguous == InitializeSpec => [](InitializeTypeOK /\ ContiguousFromRoot)
<1>1. IInv => InitializeTypeOK /\ ContiguousFromRoot
  BY DEF IInv, StateOK
<1> QED BY Invariance, <1>1, PTL

\* A marked class has its superclasses marked and no +initialize running; a class
\* left pending belongs to the thread that is initializing its superclass.
THEOREM MarksStayConsistent == InitializeSpec => []MarksConsistent
<1>1. IInv => MarksConsistent
  <2> SUFFICES ASSUME IInv PROVE MarksConsistent
    OBVIOUS
  <2>1. InitializeTypeOK
    BY DEF IInv, StateOK
  <2>2. InitializedIsComplete
    <3> SUFFICES ASSUME NEW c \in Class, Initialized(c)
                 PROVE  /\ super[c] # Nil => Initialized(super[c])
                        /\ \A t \in Sender : \A i \in 1 .. Len(stack[t]) :
                              ~(stack[t][i].cls = c /\ stack[t][i].at = "run")
      BY DEF InitializedIsComplete
    <3>1. super[c] # Nil => Initialized(super[c])
      BY DEF IInv, StateOK, SuperMarked, SuperReady
    <3>2. \A t \in Sender : c \notin list[t]
      <4>1. flags[c] = {"INITIALIZED"}
        BY DEF IInv, StateOK, FlagsOK, Initialized
      <4> QED BY <4>1 DEF IInv, StateOK, ListsOK, Initializing
    <3> QED BY <3>1, <3>2 DEF IInv, CallsOK, KnownOK
  <2>3. PendingBelongsToSuper
    <3> SUFFICES ASSUME NEW c \in Class, NEW d \in pending[c]
                 PROVE  /\ super[d] = c /\ Initializing(c) /\ Initializing(d)
                        /\ \E t \in Sender : {c, d} \subseteq list[t]
      BY DEF PendingBelongsToSuper
    <3>1. super[d] = c /\ d \in Class /\ \E t \in Sender : c \in list[t] /\ d \in list[t]
      BY <2>1 DEF InitializeTypeOK, IInv, StateOK, PendingOK
    <3> QED BY <3>1 DEF IInv, StateOK, ListsOK
  <2> QED BY <2>1, <2>2, <2>3 DEF MarksConsistent
<1> QED BY Invariance, <1>1, PTL

\* None of the runtime's own checks ends the process: no thread finds a class on
\* its list that it claims, misses one there that it marks, or reads both flags of
\* a class it waits for and finds neither ("class init is buggy").
THEOREM NeverFatal == InitializeSpec => [](~fatal)
<1>1. IInv => ~fatal
  BY DEF IInv, StateOK
<1> QED BY Invariance, <1>1, PTL

\* A call of _class_initialize ends only when its thread may use the class.
THEOREM CallsReturnUsable == InitializeSpec => ReturnsUsable
<1>1. IInv /\ [InitializeNext]_initializeVars =>
        [\A t \in Sender, c \in Class :
           (stack[t] # <<>> /\ c = Cls(t) /\ stack'[t] = Tail(stack[t])) =>
               "INITIALIZED" \in flags'[c] \/ c \in list'[t]]_initializeVars
  <2> SUFFICES ASSUME IInv, [InitializeNext]_initializeVars, NEW t \in Sender, NEW c \in Class,
                      stack[t] # <<>>, c = Cls(t), stack'[t] = Tail(stack[t])
               PROVE  "INITIALIZED" \in flags'[c] \/ c \in list'[t]
    OBVIOUS
  <2>1. Len(stack'[t]) < Len(stack[t])
    BY Innermost, HeadTailProperties
  <2> QED BY <2>1, NextInv DEF LeftUsable, UsableNext
<1> QED BY Invariance, <1>1, PTL DEF InitializeSpec, ReturnsUsable

-----------------------------------------------------------------------------
(* The +load methods: Chain.                                                   *)

\* A solution of the equation of Chain, on classes and their superclasses.
Chains(f, D) ==
    /\ D \in SUBSET Class /\ \A c \in D : super[c] # Nil => super[c] \in D
    /\ f \in [D -> Seq(Class)]
    /\ \A c \in D : f[c] = IF super[c] = Nil THEN <<c>> ELSE Append(f[super[c]], c)

LEMMA Top ==
  ASSUME LoadMethodsAssumption, NEW S \in SUBSET Class, S # {}
  PROVE  \E c \in S : super[c] \notin S
BY DEF LoadMethodsAssumption

LEMMA ChainsAgree ==
  ASSUME LoadMethodsAssumption, NEW f, NEW D, NEW g, NEW E, Chains(f, D), Chains(g, E)
  PROVE  \A c \in D \cap E : f[c] = g[c]
<1> DEFINE S == {c \in D \cap E : f[c] # g[c]}
<1> SUFFICES ASSUME S # {} PROVE FALSE
  OBVIOUS
<1>1. S \in SUBSET Class
  BY DEF Chains
<1>2. PICK c \in S : super[c] \notin S
  BY <1>1, Top
<1>3. c \in D /\ c \in E /\ f[c] # g[c]
  OBVIOUS
<1>4. super[c] # Nil => super[c] \in D \cap E
  BY <1>3 DEF Chains
<1>5. super[c] # Nil => f[super[c]] = g[super[c]]
  BY <1>2, <1>4
<1>6. /\ f[c] = IF super[c] = Nil THEN <<c>> ELSE Append(f[super[c]], c)
      /\ g[c] = IF super[c] = Nil THEN <<c>> ELSE Append(g[super[c]], c)
  BY <1>3 DEF Chains
<1> QED BY <1>3, <1>5, <1>6

LEMMA ChainsExist ==
  ASSUME LoadMethodsAssumption
  PROVE  \A c \in Class : \E D, f : Chains(f, D) /\ c \in D
<1> DEFINE S == {c \in Class : ~ \E D, f : Chains(f, D) /\ c \in D}
<1> SUFFICES ASSUME S # {} PROVE FALSE
  OBVIOUS
<1>1. PICK c \in S : super[c] \notin S
  BY S \in SUBSET Class, Top
<1>2. c \in Class /\ super[c] \in Class \cup {Nil} /\ Nil \notin Class
  BY ClassHierarchyAssumption
<1>3. CASE super[c] = Nil
  <2> DEFINE f == [d \in {c} |-> <<c>>]
  <2>1. Chains(f, {c})
    BY <1>2, <1>3 DEF Chains
  <2> QED BY <2>1
<1>4. CASE super[c] # Nil
  <2>1. super[c] \in Class
    BY <1>2, <1>4
  <2>2. PICK D, g : Chains(g, D) /\ super[c] \in D
    BY <1>1, <2>1
  <2>3. c \notin D
    BY <2>2
  <2> HIDE DEF S
  <2> DEFINE f == [d \in D \cup {c} |-> IF d = c THEN Append(g[super[c]], c) ELSE g[d]]
  <2>4. g[super[c]] \in Seq(Class) /\ g \in [D -> Seq(Class)] /\ D \in SUBSET Class
    BY <2>2 DEF Chains
  <2>5. f \in [D \cup {c} -> Seq(Class)]
    <3>1. Append(g[super[c]], c) \in Seq(Class)
      BY <1>2, <2>4, AppendProperties
    <3> QED BY <2>4, <3>1
  <2>6. ASSUME NEW d \in D \cup {c}
        PROVE  /\ super[d] # Nil => super[d] \in D
               /\ f[d] = IF super[d] = Nil THEN <<d>> ELSE Append(f[super[d]], d)
    <3>1. CASE d = c
      <4>1. f[super[c]] = g[super[c]]
        BY <2>2, <2>3
      <4> QED BY <1>4, <2>2, <3>1, <4>1
    <3>2. CASE d # c
      <4>1. d \in D /\ f[d] = g[d]
        BY <3>2
      <4>2. super[d] # Nil => super[d] \in D
        BY <2>2, <4>1 DEF Chains
      <4>3. super[d] # Nil => f[super[d]] = g[super[d]]
        BY <2>3, <4>2
      <4>4. g[d] = IF super[d] = Nil THEN <<d>> ELSE Append(g[super[d]], d)
        BY <2>2, <4>1 DEF Chains
      <4> QED BY <4>1, <4>2, <4>3, <4>4
    <3> QED BY <3>1, <3>2
  <2> HIDE DEF f
  <2>7. Chains(f, D \cup {c})
    BY <1>2, <2>4, <2>5, <2>6 DEF Chains
  <2> QED BY <2>7 DEF S
<1> QED BY <1>3, <1>4

\* Chain is what its equation says.
LEMMA ChainIs ==
  ASSUME LoadMethodsAssumption
  PROVE  /\ Chain \in [Class -> Seq(Class)]
         /\ \A c \in Class :
               Chain[c] = IF super[c] = Nil THEN <<c>> ELSE Append(Chain[super[c]], c)
<1> DEFINE Eq(f) == f = [d \in Class |-> IF super[d] = Nil THEN <<d>> ELSE Append(f[super[d]], d)]
           Of(c) == CHOOSE f : \E D : Chains(f, D) /\ c \in D
           F == [c \in Class |-> Of(c)[c]]
           up == CHOOSE f : Eq(f)
<1>1. \A c \in Class : \E D : Chains(Of(c), D) /\ c \in D
  BY ChainsExist
<1> HIDE DEF Of
<1>2. ASSUME NEW c \in Class
      PROVE  /\ F[c] \in Seq(Class)
             /\ F[c] = IF super[c] = Nil THEN <<c>> ELSE Append(F[super[c]], c)
  <2>1. PICK D : Chains(Of(c), D) /\ c \in D
    BY <1>1
  <2>2. /\ Of(c)[c] = IF super[c] = Nil THEN <<c>> ELSE Append(Of(c)[super[c]], c)
        /\ Of(c)[c] \in Seq(Class)
        /\ super[c] # Nil => super[c] \in D /\ super[c] \in Class
    BY <2>1 DEF Chains
  <2>3. ASSUME super[c] # Nil PROVE Of(c)[super[c]] = F[super[c]]
    <3>1. PICK E : Chains(Of(super[c]), E) /\ super[c] \in E
      BY <1>1, <2>2, <2>3
    <3>2. super[c] \in D \cap E
      BY <2>2, <2>3, <3>1
    <3> QED BY <2>1, <2>2, <2>3, <3>1, <3>2, ChainsAgree
  <2> QED BY <2>2, <2>3
<1>3. Eq(F)
  <2>1. F \in [Class -> Seq(Class)]
    BY <1>2
  <2> HIDE DEF F
  <2> QED BY <1>2, <2>1
<1>4. Eq(up)
  <2> HIDE DEF F
  <2> QED BY <1>3
<1>5. Chain = [c \in Class |-> up[c]]
  BY DEF Chain
<1>6. Chains(F, Class)
  <2>1. F \in [Class -> Seq(Class)]
    BY <1>2
  <2>2. \A c \in Class : super[c] # Nil => super[c] \in Class
    BY ClassHierarchyAssumption
  <2> HIDE DEF F
  <2> QED BY <1>2, <2>1, <2>2 DEF Chains
<1>7. \A c \in Class : up[c] = F[c]
  <2> DEFINE S == {c \in Class : up[c] # F[c]}
  <2> SUFFICES ASSUME S # {} PROVE FALSE
    OBVIOUS
  <2>1. PICK c \in S : super[c] \notin S
    BY S \in SUBSET Class, Top
  <2>2. c \in Class /\ up[c] # F[c]
    BY <2>1
  <2>3. super[c] # Nil => super[c] \in Class
    BY <2>2, ClassHierarchyAssumption
  <2>4. super[c] # Nil => up[super[c]] = F[super[c]]
    BY <2>1, <2>3
  <2> HIDE DEF S, F, up
  <2>5. up[c] = IF super[c] = Nil THEN <<c>> ELSE Append(up[super[c]], c)
    BY <1>4, <2>2
  <2> QED BY <1>2, <2>2, <2>4, <2>5
<1> HIDE DEF F, up
<1>8. ASSUME NEW c \in Class
      PROVE  Chain[c] = F[c] /\ (super[c] # Nil => super[c] \in Class /\ Chain[super[c]] = F[super[c]])
  <2>1. super[c] # Nil => super[c] \in Class
    BY ClassHierarchyAssumption
  <2> QED BY <1>5, <1>7, <2>1
<1> QED BY <1>2, <1>5, <1>8

\* The members of a chain, in any set that has the superclasses of its classes,
\* each after its superclass.
LEMMA ChainGoesUp ==
  ASSUME LoadMethodsAssumption, NEW U \in SUBSET Class,
         \A c \in U : super[c] # Nil => super[c] \in U, NEW c \in U
  PROVE  /\ Chain[c] \in Seq(U) /\ Len(Chain[c]) \in Nat \ {0}
         /\ Chain[c][Len(Chain[c])] = c
         /\ \A k \in 1 .. Len(Chain[c]) :
               super[Chain[c][k]] # Nil =>
                  k - 1 \in 1 .. Len(Chain[c]) /\ super[Chain[c][k]] = Chain[c][k - 1]
<1> DEFINE Good(d) ==
             /\ Chain[d] \in Seq(U) /\ Len(Chain[d]) \in Nat \ {0}
             /\ Chain[d][Len(Chain[d])] = d
             /\ \A k \in 1 .. Len(Chain[d]) :
                   super[Chain[d][k]] # Nil =>
                      k - 1 \in 1 .. Len(Chain[d]) /\ super[Chain[d][k]] = Chain[d][k - 1]
           S == {d \in U : ~Good(d)}
<1> SUFFICES ASSUME S # {} PROVE FALSE
  OBVIOUS
<1>1. PICK d \in S : super[d] \notin S
  BY S \in SUBSET Class, Top
<1>2. d \in U /\ d \in Class /\ ~Good(d)
  OBVIOUS
<1>3. Chain[d] = IF super[d] = Nil THEN <<d>> ELSE Append(Chain[super[d]], d)
  BY <1>2, ChainIs
<1>4. super[d] # Nil
  <2> SUFFICES ASSUME super[d] = Nil PROVE Good(d)
    BY <1>2
  <2>1. Chain[d] = <<d>>
    BY <1>3
  <2> HIDE DEF Good, S
  <2>2. <<d>> \in Seq(U) /\ Len(<<d>>) = 1 /\ <<d>>[1] = d
    BY <1>2
  <2> QED BY <2>1, <2>2 DEF Good
<1>5. super[d] \in U /\ Good(super[d])
  BY <1>1, <1>2, <1>4
<1> HIDE DEF S
<1>6. PICK q : q = Chain[super[d]]
  OBVIOUS
<1>7. PICK n \in Nat \ {0} : n = Len(q)
  BY <1>5, <1>6
<1>8. /\ q \in Seq(U) /\ q[n] = super[d]
      /\ \A k \in 1 .. n : super[q[k]] # Nil => k - 1 \in 1 .. n /\ super[q[k]] = q[k - 1]
  BY <1>5, <1>6, <1>7
<1>9. PICK r : r = Chain[d]
  OBVIOUS
<1>10. /\ r \in Seq(U) /\ Len(r) = n + 1 /\ r[n + 1] = d
       /\ \A k \in 1 .. n : r[k] = q[k]
  BY <1>2, <1>3, <1>4, <1>6, <1>7, <1>8, <1>9, AppendProperties
<1>11. ASSUME NEW k \in 1 .. n + 1, super[r[k]] # Nil
       PROVE  k - 1 \in 1 .. n + 1 /\ super[r[k]] = r[k - 1]
  <2>1. CASE k = n + 1
    <3>1. k - 1 = n /\ n \in 1 .. n /\ n \in 1 .. n + 1
      BY <2>1
    <3> QED BY <1>8, <1>10, <2>1, <3>1
  <2>2. CASE k # n + 1
    <3>1. k \in 1 .. n /\ (k - 1 \in 1 .. n => k - 1 \in 1 .. n + 1)
      BY <2>2
    <3>2. r[k] = q[k]
      BY <1>10, <3>1
    <3>3. k - 1 \in 1 .. n /\ super[q[k]] = q[k - 1]
      BY <1>8, <1>11, <3>1, <3>2
    <3> QED BY <1>10, <3>1, <3>2, <3>3
  <2> QED BY <2>1, <2>2
<1>12. Good(d)
  <2>1. r \in Seq(U) /\ Len(r) \in Nat \ {0} /\ r[Len(r)] = d
    BY <1>10
  <2>2. \A k \in 1 .. Len(r) : super[r[k]] # Nil => k - 1 \in 1 .. Len(r) /\ super[r[k]] = r[k - 1]
    BY <1>10, <1>11
  <2> QED BY <1>9, <2>1, <2>2
<1> QED BY <1>2, <1>12
-----------------------------------------------------------------------------
(* The lists of the classes and categories of an image.                        *)

\* Those is what its equation says.
LEMMA ThoseSteps ==
  ASSUME NEW X, NEW S, NEW seq \in Seq(X)
  PROVE  \E g : /\ g[0] = <<>> /\ Those(seq, S) = g[Len(seq)]
                /\ \A k \in 1 .. Len(seq) :
                      g[k] = IF seq[k] \in S THEN Append(g[k - 1], seq[k]) ELSE g[k - 1]
<1>1. PICK n \in Nat : n = Len(seq)
  BY LenProperties
<1>2. DOMAIN seq = 1 .. n /\ \A k \in 1 .. n : seq[k] \in X
  BY <1>1, LenProperties, ElementOfSeq
<1> DEFINE G == [p \in Seq(X) \X (1 .. n) |->
                    IF seq[p[2]] \in S THEN Append(p[1], seq[p[2]]) ELSE p[1]]
           Eq(h) == h = [s \in SUBSET (1 .. n) |->
                            IF s = {} THEN <<>>
                            ELSE IF seq[Max(s)] \in S THEN Append(h[s \ {Max(s)}], seq[Max(s)])
                                 ELSE h[s \ {Max(s)}]]
           H == CHOOSE h : Eq(h)
<1>3. Those(seq, S) = H[1 .. n]
  BY <1>2, Zenon DEF Those, FoldLeft, MapThenFoldSet
<1>4. Eq(H)
  <2>1. G \in [Seq(X) \X (1 .. n) -> Seq(X)]
    BY <1>2, AppendProperties
  <2>2. <<>> \in Seq(X)
    OBVIOUS
  <2> HIDE DEF G
  <2>3. PICK h \in [SUBSET (1 .. n) -> Seq(X)] : Folds(h, G, <<>>, SUBSET (1 .. n))
    BY <2>1, <2>2, FoldsExists
  <2>4. ASSUME NEW s \in SUBSET (1 .. n), s # {}
        PROVE  G[<<h[s \ {Max(s)}], Max(s)>>] =
                  IF seq[Max(s)] \in S THEN Append(h[s \ {Max(s)}], seq[Max(s)])
                  ELSE h[s \ {Max(s)}]
    <3>1. Max(s) \in 1 .. n /\ s \ {Max(s)} \in SUBSET (1 .. n)
      BY <2>4, LargestIn
    <3>2. <<h[s \ {Max(s)}], Max(s)>> \in Seq(X) \X (1 .. n)
      BY <2>3, <3>1
    <3> QED BY <3>2 DEF G
  <2>5. Eq(h)
    BY <2>3, <2>4 DEF Folds
  <2> QED BY <2>5
<1> HIDE DEF H
<1> DEFINE g == [k \in 0 .. n |-> H[1 .. k]]
<1>5. g[0] = <<>>
  BY <1>4, 1 .. 0 = {}
<1>6. ASSUME NEW k \in 1 .. n
      PROVE  g[k] = IF seq[k] \in S THEN Append(g[k - 1], seq[k]) ELSE g[k - 1]
  <2>1. PICK s : s = 1 .. k
    OBVIOUS
  <2>2. k \in Nat \ {0} /\ k \in s /\ s \in SUBSET (1 .. n)
    BY <2>1
  <2>3. Max(s) = k /\ s \ {k} = 1 .. k - 1
    BY <2>1, <2>2, LargestIs
  <2>4. g[k] = H[s] /\ g[k - 1] = H[s \ {k}]
    BY <2>1, <2>3
  <2>5. H[s] = IF s = {} THEN <<>>
               ELSE IF seq[Max(s)] \in S THEN Append(H[s \ {Max(s)}], seq[Max(s)])
                    ELSE H[s \ {Max(s)}]
    BY <1>4, <2>2
  <2> QED BY <2>2, <2>3, <2>4, <2>5
<1> HIDE DEF g
<1>7. Those(seq, S) = g[n]
  BY <1>3 DEF g
<1> QED BY <1>1, <1>5, <1>6, <1>7

\* They are those of the sequence that are in the set, each once if it is so in
\* the sequence.
LEMMA ThoseIs ==
  ASSUME NEW X, NEW S, NEW seq \in Seq(X)
  PROVE  /\ Those(seq, S) \in Seq(X \cap S)
         /\ ToSet(Those(seq, S)) = ToSet(seq) \cap S
         /\ IsInjective(seq) => IsInjective(Those(seq, S))
<1>1. PICK n \in Nat : n = Len(seq)
  BY LenProperties
<1>2. DOMAIN seq = 1 .. n /\ \A k \in 1 .. n : seq[k] \in X
  BY <1>1, LenProperties, ElementOfSeq
<1>3. PICK g : /\ g[0] = <<>> /\ Those(seq, S) = g[n]
               /\ \A k \in 1 .. n :
                     g[k] = IF seq[k] \in S THEN Append(g[k - 1], seq[k]) ELSE g[k - 1]
  BY <1>1, ThoseSteps
<1> DEFINE Good(k) ==
             /\ g[k] \in Seq(X \cap S)
             /\ ToSet(g[k]) = {seq[j] : j \in 1 .. k} \cap S
             /\ IsInjective(seq) => IsInjective(g[k])
           T == {k \in 0 .. n : Good(k)}
<1>4. 0 \in T
  <2>1. {seq[j] : j \in 1 .. 0} = {} /\ DOMAIN <<>> = {}
    OBVIOUS
  <2>2. <<>> \in Seq(X \cap S) /\ ToSet(<<>>) = {} /\ IsInjective(<<>>)
    BY <2>1 DEF ToSet, IsInjective
  <2>3. Good(0)
    BY <1>3, <2>1, <2>2
  <2> QED BY <2>3
<1>5. ASSUME NEW k \in 0 .. n - 1, k \in T PROVE k + 1 \in T
  <2>1. Good(k) /\ k + 1 \in 1 .. n /\ k + 1 - 1 = k /\ k + 1 \in 0 .. n /\ k \in Nat
    BY <1>5
  <2>a. g[k + 1] = IF seq[k + 1] \in S THEN Append(g[k], seq[k + 1]) ELSE g[k]
    <3>1. k + 1 \in 1 .. n /\ k + 1 - 1 = k
      BY <2>1
    <3> HIDE DEF T
    <3> QED BY <1>3, <3>1
  <2>2. {seq[j] : j \in 1 .. k + 1} = {seq[j] : j \in 1 .. k} \cup {seq[k + 1]}
    <3>1. \A j \in 1 .. k + 1 : j \in 1 .. k \/ j = k + 1
      BY <2>1
    <3>2. \A j \in 1 .. k : j \in 1 .. k + 1
      BY <2>1
    <3>3. k + 1 \in 1 .. k + 1
      BY <2>1
    <3> QED BY <3>1, <3>2, <3>3
  <2>3. CASE seq[k + 1] \notin S
    <3>1. g[k + 1] = g[k]
      BY <2>3, <2>a
    <3>2. ToSet(g[k]) = {seq[j] : j \in 1 .. k + 1} \cap S
      BY <2>1, <2>2, <2>3
    <3> QED BY <2>1, <3>1, <3>2
  <2>4. CASE seq[k + 1] \in S
    <3>1. PICK r \in Seq(X \cap S) : r = g[k]
      BY <2>1
    <3>2. PICK x : x = seq[k + 1]
      OBVIOUS
    <3>3. x \in X \cap S
      BY <1>2, <2>1, <2>4, <3>2
    <3>4. PICK m \in Nat : m = Len(r)
      BY LenProperties
    <3>5. PICK q : q = Append(r, x)
      OBVIOUS
    <3>6. /\ q \in Seq(X \cap S) /\ Len(q) = m + 1 /\ q[m + 1] = x
          /\ \A j \in 1 .. m : q[j] = r[j]
      BY <3>3, <3>4, <3>5, AppendProperties
    <3>7. DOMAIN r = 1 .. m /\ DOMAIN q = 1 .. m + 1
      BY <3>4, <3>6, LenProperties
    <3>8. g[k + 1] = q
      BY <2>4, <2>a, <3>1, <3>2, <3>5
    <3>9. ToSet(q) = ToSet(r) \cup {x}
      <4>1. \A j \in 1 .. m + 1 : j \in 1 .. m \/ j = m + 1
        OBVIOUS
      <4>2. m + 1 \in 1 .. m + 1 /\ \A j \in 1 .. m : j \in 1 .. m + 1
        OBVIOUS
      <4> QED BY <3>6, <3>7, <4>1, <4>2 DEF ToSet
    <3>10. ToSet(q) = {seq[j] : j \in 1 .. k + 1} \cap S
      BY <2>1, <2>2, <2>4, <3>1, <3>2, <3>9
    <3>11. ASSUME IsInjective(seq) PROVE IsInjective(q)
      <4>1. IsInjective(r)
        BY <2>1, <3>1, <3>11
      <4>2. \A j \in 1 .. m : r[j] # x
        <5> SUFFICES ASSUME NEW j \in 1 .. m, r[j] = x PROVE FALSE
          OBVIOUS
        <5>1. x \in ToSet(r)
          BY <3>7 DEF ToSet
        <5>2. PICK i \in 1 .. k : seq[i] = x
          BY <2>1, <3>1, <5>1
        <5>3. i \in 1 .. n /\ k + 1 \in 1 .. n /\ i # k + 1
          BY <2>1
        <5> QED BY <1>2, <3>2, <3>11, <5>2, <5>3 DEF IsInjective
      <4>3. \A i, j \in 1 .. m : r[i] = r[j] => i = j
        BY <3>7, <4>1 DEF IsInjective
      <4>4. \A j \in 1 .. m + 1 : j \in 1 .. m \/ j = m + 1
        OBVIOUS
      <4>5. \A i, j \in 1 .. m + 1 : q[i] = q[j] => i = j
        BY <3>6, <4>2, <4>3, <4>4
      <4> QED BY <3>7, <4>5 DEF IsInjective
    <3> QED BY <2>1, <3>6, <3>8, <3>10, <3>11
  <2> QED BY <2>3, <2>4
<1>6. \A k \in 0 .. n : k \in T
  <2> HIDE DEF T
  <2> QED BY <1>4, <1>5, CountsUp
<1>7. Good(n)
  BY <1>6, n \in 0 .. n
<1>8. ToSet(seq) = {seq[j] : j \in 1 .. n}
  BY <1>2 DEF ToSet
<1> QED BY <1>3, <1>7, <1>8

LEMMA ThoseNone ==
  ASSUME NEW X, NEW S, NEW seq \in Seq(X), ToSet(seq) \cap S = {}
  PROVE  Those(seq, S) = <<>>
<1>1. Those(seq, S) \in Seq(X \cap S) /\ ToSet(Those(seq, S)) = {}
  BY ThoseIs
<1>2. PICK q \in Seq(X \cap S) : q = Those(seq, S)
  BY <1>1
<1>3. Len(q) \in Nat /\ DOMAIN q = 1 .. Len(q)
  BY LenProperties
<1>4. DOMAIN q = {}
  BY <1>1, <1>2 DEF ToSet
<1>5. Len(q) = 0
  BY <1>3, <1>4
<1> QED BY <1>2, <1>5, EmptySeq
-----------------------------------------------------------------------------
(* schedule_class_load: what it adds to the list.                              *)

State == [list : Seq(Class \cup {Nil}), loaded : SUBSET Class]

LEMMA AddTyped ==
  ASSUME NEW st \in State, NEW c \in Class
  PROVE  AddClass(st, c) \in State
<1>1. /\ st.list \in Seq(Class \cup {Nil}) /\ st.loaded \in SUBSET Class
      /\ Append(st.list, c) \in Seq(Class \cup {Nil})
  BY AppendProperties DEF State
<1> QED BY <1>1 DEF AddClass, State

\* The classes of a chain, one by one.
LEMMA AddSteps ==
  ASSUME NEW st \in State, NEW seq \in Seq(Class)
  PROVE  \E g : /\ g[0] = st /\ FoldLeft(AddClass, st, seq) = g[Len(seq)]
                /\ \A k \in 1 .. Len(seq) : g[k] = AddClass(g[k - 1], seq[k])
<1>1. PICK n \in Nat : n = Len(seq)
  BY LenProperties
<1>2. DOMAIN seq = 1 .. n /\ \A k \in 1 .. n : seq[k] \in Class
  BY <1>1, LenProperties, ElementOfSeq
<1> DEFINE G == [p \in State \X (1 .. n) |-> AddClass(p[1], seq[p[2]])]
           Eq(h) == h = [s \in SUBSET (1 .. n) |->
                            IF s = {} THEN st
                            ELSE AddClass(h[s \ {Max(s)}], seq[Max(s)])]
           H == CHOOSE h : Eq(h)
<1>3. FoldLeft(AddClass, st, seq) = H[1 .. n]
  BY <1>2 DEF FoldLeft, MapThenFoldSet
<1>4. Eq(H)
  <2>1. G \in [State \X (1 .. n) -> State]
    BY <1>2, AddTyped
  <2> HIDE DEF G
  <2>2. PICK h \in [SUBSET (1 .. n) -> State] : Folds(h, G, st, SUBSET (1 .. n))
    BY <2>1, FoldsExists
  <2>3. ASSUME NEW s \in SUBSET (1 .. n), s # {}
        PROVE  G[<<h[s \ {Max(s)}], Max(s)>>] = AddClass(h[s \ {Max(s)}], seq[Max(s)])
    <3>1. Max(s) \in 1 .. n /\ s \ {Max(s)} \in SUBSET (1 .. n)
      BY <2>3, LargestIn
    <3>2. <<h[s \ {Max(s)}], Max(s)>> \in State \X (1 .. n)
      BY <2>2, <3>1
    <3> QED BY <3>2 DEF G
  <2>4. Eq(h)
    BY <2>2, <2>3 DEF Folds
  <2> QED BY <2>4
<1> HIDE DEF H
<1> DEFINE g == [k \in 0 .. n |-> H[1 .. k]]
<1>5. g[0] = st
  BY <1>4, 1 .. 0 = {}
<1>6. ASSUME NEW k \in 1 .. n
      PROVE  g[k] = AddClass(g[k - 1], seq[k])
  <2>1. PICK s : s = 1 .. k
    OBVIOUS
  <2>2. k \in Nat \ {0} /\ k \in s /\ s \in SUBSET (1 .. n)
    BY <2>1
  <2>3. Max(s) = k /\ s \ {k} = 1 .. k - 1
    BY <2>1, <2>2, LargestIs
  <2>4. g[k] = H[s] /\ g[k - 1] = H[s \ {k}]
    BY <2>1, <2>3
  <2>5. H[s] = IF s = {} THEN st ELSE AddClass(H[s \ {Max(s)}], seq[Max(s)])
    BY <1>4, <2>2
  <2> QED BY <2>2, <2>3, <2>4, <2>5
<1> HIDE DEF g
<1>7. FoldLeft(AddClass, st, seq) = g[n]
  BY <1>3 DEF g
<1> QED BY <1>1, <1>5, <1>6, <1>7

LEMMA ScheduleTyped ==
  ASSUME LoadMethodsAssumption, NEW st \in State, NEW c \in Class
  PROVE  schedule_class_load(st, c) \in State
<1>1. PICK seq \in Seq(Class) : seq = ScheduleOrder[c]
  BY ChainIs DEF ScheduleOrder
<1>2. PICK n \in Nat : n = Len(seq)
  BY LenProperties
<1>3. \A k \in 1 .. n : seq[k] \in Class
  BY <1>2, ElementOfSeq
<1>a. PICK g : /\ g[0] = st /\ FoldLeft(AddClass, st, seq) = g[Len(seq)]
               /\ \A k \in 1 .. Len(seq) : g[k] = AddClass(g[k - 1], seq[k])
  BY AddSteps
<1>4. /\ g[0] = st /\ FoldLeft(AddClass, st, seq) = g[n]
      /\ \A k \in 1 .. n : g[k] = AddClass(g[k - 1], seq[k])
  BY <1>2, <1>a
<1> DEFINE T == {k \in 0 .. n : g[k] \in State}
<1>5. 0 \in T
  BY <1>4
<1>6. ASSUME NEW k \in 0 .. n - 1, k \in T PROVE k + 1 \in T
  <2>1. k + 1 \in 1 .. n /\ k + 1 - 1 = k /\ g[k] \in State
    BY <1>6
  <2>2. g[k + 1] = AddClass(g[k], seq[k + 1])
    <3>1. PICK i \in 1 .. n : i = k + 1 /\ i - 1 = k
      BY <2>1
    <3>2. g[i] = AddClass(g[i - 1], seq[i])
      BY <1>4
    <3> QED BY <3>1, <3>2
  <2> QED BY <1>3, <2>1, <2>2, AddTyped
<1>7. \A k \in 0 .. n : k \in T
  <2> HIDE DEF T
  <2> QED BY <1>5, <1>6, CountsUp
<1>8. n \in T
  BY <1>7
<1> QED BY <1>1, <1>4, <1>8 DEF schedule_class_load

\* The classes of an image, one by one.
LEMMA ScheduleSteps ==
  ASSUME NEW st \in State, NEW seq \in Seq(Class), LoadMethodsAssumption
  PROVE  \E g : /\ g[0] = st /\ FoldLeft(schedule_class_load, st, seq) = g[Len(seq)]
                /\ \A k \in 1 .. Len(seq) : g[k] = schedule_class_load(g[k - 1], seq[k])
<1>1. PICK n \in Nat : n = Len(seq)
  BY LenProperties
<1>2. DOMAIN seq = 1 .. n /\ \A k \in 1 .. n : seq[k] \in Class
  BY <1>1, LenProperties, ElementOfSeq
<1> DEFINE G == [p \in State \X (1 .. n) |-> schedule_class_load(p[1], seq[p[2]])]
           Eq(h) == h = [s \in SUBSET (1 .. n) |->
                            IF s = {} THEN st
                            ELSE schedule_class_load(h[s \ {Max(s)}], seq[Max(s)])]
           H == CHOOSE h : Eq(h)
<1>3. FoldLeft(schedule_class_load, st, seq) = H[1 .. n]
  BY <1>2 DEF FoldLeft, MapThenFoldSet
<1>4. Eq(H)
  <2>1. G \in [State \X (1 .. n) -> State]
    BY <1>2, ScheduleTyped
  <2> HIDE DEF G
  <2>2. PICK h \in [SUBSET (1 .. n) -> State] : Folds(h, G, st, SUBSET (1 .. n))
    BY <2>1, FoldsExists
  <2>3. ASSUME NEW s \in SUBSET (1 .. n), s # {}
        PROVE  G[<<h[s \ {Max(s)}], Max(s)>>] = schedule_class_load(h[s \ {Max(s)}], seq[Max(s)])
    <3>1. Max(s) \in 1 .. n /\ s \ {Max(s)} \in SUBSET (1 .. n)
      BY <2>3, LargestIn
    <3>2. <<h[s \ {Max(s)}], Max(s)>> \in State \X (1 .. n)
      BY <2>2, <3>1
    <3> QED BY <3>2 DEF G
  <2>4. Eq(h)
    BY <2>2, <2>3 DEF Folds
  <2> QED BY <2>4
<1> HIDE DEF H
<1> DEFINE g == [k \in 0 .. n |-> H[1 .. k]]
<1>5. g[0] = st
  BY <1>4, 1 .. 0 = {}
<1>6. ASSUME NEW k \in 1 .. n
      PROVE  g[k] = schedule_class_load(g[k - 1], seq[k])
  <2>1. PICK s : s = 1 .. k
    OBVIOUS
  <2>2. k \in Nat \ {0} /\ k \in s /\ s \in SUBSET (1 .. n)
    BY <2>1
  <2>3. Max(s) = k /\ s \ {k} = 1 .. k - 1
    BY <2>1, <2>2, LargestIs
  <2>4. g[k] = H[s] /\ g[k - 1] = H[s \ {k}]
    BY <2>1, <2>3
  <2>5. H[s] = IF s = {} THEN st ELSE schedule_class_load(H[s \ {Max(s)}], seq[Max(s)])
    BY <1>4, <2>2
  <2> QED BY <2>2, <2>3, <2>4, <2>5
<1> HIDE DEF g
<1>7. FoldLeft(schedule_class_load, st, seq) = g[n]
  BY <1>3 DEF g
<1> QED BY <1>1, <1>5, <1>6, <1>7

\* What has been added to a list L, when the classes of R were loaded: the new
\* classes that have a +load, once each and after their superclasses.
Grown(L, R, st) ==
    /\ st \in State
    /\ Len(st.list) >= Len(L) /\ \A k \in 1 .. Len(L) : st.list[k] = L[k]
    /\ R \subseteq st.loaded
    /\ \A c \in st.loaded : super[c] # Nil => super[c] \in st.loaded
    /\ \A k \in 1 .. Len(st.list) : k > Len(L) =>
          /\ st.list[k] \in (st.loaded \ R) \cap HasLoad
          /\ super[st.list[k]] \in HasLoad \ R =>
                \E j \in 1 .. k - 1 : j > Len(L) /\ st.list[j] = super[st.list[k]]
          /\ \A j \in 1 .. Len(st.list) : j > Len(L) /\ st.list[j] = st.list[k] => j = k
    /\ \A c \in (st.loaded \ R) \cap HasLoad :
          \E k \in 1 .. Len(st.list) : k > Len(L) /\ st.list[k] = c

UpLoaded(st, c) == super[c] # Nil => super[c] \in st.loaded

LEMMA AddGrows ==
  ASSUME NEW L \in Seq(Class \cup {Nil}), NEW R \in SUBSET Class, NEW st, Grown(L, R, st),
         Nil \notin HasLoad,
         NEW c \in Class, UpLoaded(st, c)
  PROVE  Grown(L, R, AddClass(st, c)) /\ AddClass(st, c).loaded = st.loaded \cup {c}
<1>1. CASE c \in st.loaded
  <2>1. AddClass(st, c) = st
    BY <1>1 DEF AddClass, AlreadyLoaded
  <2> QED BY <1>1, <2>1
<1>2. CASE c \notin st.loaded
  <2>1. PICK new : new = AddClass(st, c)
    OBVIOUS
  <2>2. new = [list |-> IF c \in HasLoad THEN Append(st.list, c) ELSE st.list,
               loaded |-> st.loaded \cup {c}]
    BY <1>2, <2>1 DEF AddClass, AlreadyLoaded
  <2>3. PICK s \in Seq(Class \cup {Nil}) : s = st.list
    BY DEF Grown, State
  <2>4. PICK n \in Nat : n = Len(s)
    BY LenProperties
  <2>5. PICK b \in Nat : b = Len(L)
    BY LenProperties
  <2>6. PICK D : D = st.loaded
    OBVIOUS
  <2>7. /\ n >= b /\ (\A k \in 1 .. b : s[k] = L[k]) /\ D \in SUBSET Class /\ R \subseteq D
        /\ \A d \in D : super[d] # Nil => super[d] \in D
    BY <2>3, <2>4, <2>5, <2>6 DEF Grown, State
  <2>8. /\ \A k \in 1 .. n : k > b =>
              /\ s[k] \in (D \ R) \cap HasLoad
              /\ super[s[k]] \in HasLoad \ R =>
                    \E j \in 1 .. k - 1 : j > b /\ s[j] = super[s[k]]
              /\ \A j \in 1 .. n : j > b /\ s[j] = s[k] => j = k
        /\ \A d \in (D \ R) \cap HasLoad : \E k \in 1 .. n : k > b /\ s[k] = d
    BY <2>3, <2>4, <2>5, <2>6 DEF Grown
  <2>9. c \notin D /\ c \notin R /\ (super[c] # Nil => super[c] \in D)
    BY <1>2, <2>6, <2>7 DEF UpLoaded
  <2>10. \A d \in D \cup {c} : super[d] # Nil => super[d] \in D \cup {c}
    BY <2>7, <2>9
  <2>11. CASE c \notin HasLoad
    <3>1. new.list = s /\ new.loaded = D \cup {c} /\ new \in State
      BY <2>2, <2>3, <2>6, <2>7, <2>11 DEF State
    <3>2. ((D \cup {c}) \ R) \cap HasLoad = (D \ R) \cap HasLoad
      BY <2>11
    <3> QED BY <2>1, <2>4, <2>5, <2>6, <2>7, <2>8, <2>10, <3>1, <3>2 DEF Grown
  <2>12. CASE c \in HasLoad
    <3>1. PICK r : r = Append(s, c)
      OBVIOUS
    <3>2. /\ r \in Seq(Class \cup {Nil}) /\ Len(r) = n + 1 /\ r[n + 1] = c
          /\ \A k \in 1 .. n : r[k] = s[k]
      BY <2>4, <3>1, AppendProperties
    <3>3. new.list = r /\ new.loaded = D \cup {c} /\ new \in State
      BY <2>2, <2>3, <2>6, <2>7, <2>12, <3>1, <3>2 DEF State
    <3>4. n + 1 >= b /\ \A k \in 1 .. b : r[k] = L[k]
      BY <2>7, <3>2
    <3>5. ASSUME NEW k \in 1 .. n + 1, k > b
          PROVE  /\ r[k] \in ((D \cup {c}) \ R) \cap HasLoad
                 /\ super[r[k]] \in HasLoad \ R =>
                       \E j \in 1 .. k - 1 : j > b /\ r[j] = super[r[k]]
                 /\ \A j \in 1 .. n + 1 : j > b /\ r[j] = r[k] => j = k
      <4>1. \A j \in 1 .. n + 1 : j \in 1 .. n \/ j = n + 1
        OBVIOUS
      <4>2. \A j \in 1 .. n : j > b => r[j] = s[j] /\ r[j] \in D
        BY <2>8, <3>2
      <4>3. CASE k = n + 1
        <5>1. r[k] = c
          BY <3>2, <4>3
        <5>2. ASSUME super[c] \in HasLoad \ R
              PROVE  \E j \in 1 .. k - 1 : j > b /\ r[j] = super[c]
          <6>1. super[c] \in (D \ R) \cap HasLoad
            BY <2>9, <5>2
          <6>2. PICK j \in 1 .. n : j > b /\ s[j] = super[c]
            BY <2>8, <6>1
          <6>3. j \in 1 .. k - 1
            BY <4>3
          <6> QED BY <3>2, <6>2, <6>3
        <5> QED BY <2>9, <2>12, <4>1, <4>2, <4>3, <5>1, <5>2
      <4>4. CASE k \in 1 .. n
        <5>1. \A j \in 1 .. k - 1 : j \in 1 .. n
          BY <4>4
        <5>2. r[k] = s[k] /\ r[k] \in (D \ R) \cap HasLoad
          BY <2>8, <3>2, <3>5, <4>4
        <5>3. super[s[k]] \in HasLoad \ R =>
                 \E j \in 1 .. k - 1 : j > b /\ r[j] = super[s[k]]
          BY <2>8, <3>2, <3>5, <4>4, <5>1
        <5>4. \A j \in 1 .. n + 1 : j > b /\ r[j] = r[k] => j = k
          BY <2>8, <2>9, <3>2, <3>5, <4>1, <4>2, <4>4, <5>2
        <5> QED BY <5>2, <5>3, <5>4
      <4> QED BY <4>1, <4>3, <4>4
    <3>6. ASSUME NEW d \in ((D \cup {c}) \ R) \cap HasLoad
          PROVE  \E k \in 1 .. n + 1 : k > b /\ r[k] = d
      <4>1. CASE d = c
        <5>1. n + 1 \in 1 .. n + 1 /\ n + 1 > b
          BY <2>7
        <5> QED BY <3>2, <4>1, <5>1
      <4>2. CASE d # c
        <5>1. PICK k \in 1 .. n : k > b /\ s[k] = d
          BY <2>8, <4>2
        <5>2. k \in 1 .. n + 1
          OBVIOUS
        <5> QED BY <3>2, <5>1, <5>2
      <4> QED BY <4>1, <4>2
    <3>7. \A k \in 1 .. Len(r) : k > Len(L) =>
             /\ r[k] \in ((D \cup {c}) \ R) \cap HasLoad
             /\ super[r[k]] \in HasLoad \ R =>
                   \E j \in 1 .. k - 1 : j > Len(L) /\ r[j] = super[r[k]]
             /\ \A j \in 1 .. Len(r) : j > Len(L) /\ r[j] = r[k] => j = k
      BY <2>5, <3>2, <3>5
    <3>8. \A d \in ((D \cup {c}) \ R) \cap HasLoad :
             \E k \in 1 .. Len(r) : k > Len(L) /\ r[k] = d
      BY <2>5, <3>2, <3>6
    <3>9. Len(r) >= Len(L) /\ \A k \in 1 .. Len(L) : r[k] = L[k]
      BY <2>5, <3>2, <3>4
    <3>10. R \subseteq D \cup {c}
      BY <2>7
    <3>11. Grown(L, R, new)
      BY <2>10, <3>3, <3>7, <3>8, <3>9, <3>10 DEF Grown
    <3> QED BY <2>1, <2>6, <3>3, <3>11
  <2> QED BY <2>11, <2>12
<1> QED BY <1>1, <1>2

LEMMA ClassGrows ==
  ASSUME LoadMethodsAssumption, Nil \notin HasLoad,
         NEW L \in Seq(Class \cup {Nil}), NEW R \in SUBSET Class,
         NEW st, Grown(L, R, st), NEW U \in SUBSET Class,
         \A d \in U : super[d] # Nil => super[d] \in U, st.loaded \subseteq U, NEW c \in U
  PROVE  LET new == schedule_class_load(st, c) IN
         Grown(L, R, new) /\ st.loaded \cup {c} \subseteq new.loaded /\ new.loaded \subseteq U
<1>1. PICK seq \in Seq(U) : seq = Chain[c]
  BY ChainGoesUp
<1>2. PICK n \in Nat \ {0} : n = Len(seq)
  BY <1>1, ChainGoesUp
<1>3. /\ seq[n] = c /\ seq \in Seq(Class)
      /\ \A k \in 1 .. n : super[seq[k]] # Nil => k - 1 \in 1 .. n /\ super[seq[k]] = seq[k - 1]
  <2>1. seq[n] = c
    BY <1>1, <1>2, ChainGoesUp
  <2>2. seq \in Seq(Class)
    BY <1>1, ChainIs
  <2>3. \A k \in 1 .. Len(Chain[c]) :
           super[Chain[c][k]] # Nil =>
              k - 1 \in 1 .. Len(Chain[c]) /\ super[Chain[c][k]] = Chain[c][k - 1]
    BY ChainGoesUp
  <2> QED BY <1>1, <1>2, <2>1, <2>2, <2>3
<1>4. \A k \in 1 .. n : seq[k] \in U
  BY <1>2, ElementOfSeq
<1>5. st \in State
  BY DEF Grown
<1>a. PICK g : /\ g[0] = st /\ FoldLeft(AddClass, st, seq) = g[Len(seq)]
               /\ \A k \in 1 .. Len(seq) : g[k] = AddClass(g[k - 1], seq[k])
  BY <1>3, <1>5, AddSteps
<1>6. /\ g[0] = st /\ FoldLeft(AddClass, st, seq) = g[n]
      /\ \A k \in 1 .. n : g[k] = AddClass(g[k - 1], seq[k])
  BY <1>2, <1>a
<1> DEFINE Good(k) ==
             /\ Grown(L, R, g[k]) /\ st.loaded \subseteq g[k].loaded /\ g[k].loaded \subseteq U
             /\ k # 0 => seq[k] \in g[k].loaded
           T == {k \in 0 .. n : Good(k)}
<1>7. 0 \in T
  BY <1>6
<1>8. ASSUME NEW k \in 0 .. n - 1, k \in T PROVE k + 1 \in T
  <2>1. k + 1 \in 1 .. n /\ k + 1 - 1 = k /\ k + 1 \in 0 .. n /\ k + 1 # 0
    OBVIOUS
  <2>2. Good(k)
    BY <1>8
  <2> HIDE DEF T
  <2>3. g[k + 1] = AddClass(g[k], seq[k + 1])
    <3>1. PICK i \in 1 .. n : i = k + 1 /\ i - 1 = k
      BY <2>1
    <3>2. g[i] = AddClass(g[i - 1], seq[i])
      BY <1>6
    <3> QED BY <3>1, <3>2
  <2>4. super[seq[k + 1]] # Nil => super[seq[k + 1]] \in g[k].loaded
    <3> SUFFICES ASSUME super[seq[k + 1]] # Nil PROVE super[seq[k + 1]] \in g[k].loaded
      OBVIOUS
    <3>1. k \in 1 .. n /\ super[seq[k + 1]] = seq[k]
      BY <1>3, <2>1
    <3> QED BY <2>2, <3>1
  <2>5. seq[k + 1] \in U /\ seq[k + 1] \in Class
    BY <1>4, <2>1
  <2>a. Grown(L, R, g[k])
    BY <2>2
  <2>b. PICK st1, d : st1 = g[k] /\ d = seq[k + 1]
    OBVIOUS
  <2>c. Grown(L, R, AddClass(st1, d)) /\ AddClass(st1, d).loaded = st1.loaded \cup {d}
    <3>1. Grown(L, R, st1)
      BY <2>a, <2>b
    <3>2. d \in Class
      BY <2>5, <2>b
    <3>3. UpLoaded(st1, d)
      BY <2>4, <2>b DEF UpLoaded
    <3>4. Grown(L, R, AddClass(st1, d))
      BY <3>1, <3>2, <3>3, AddGrows
    <3>5. AddClass(st1, d).loaded = st1.loaded \cup {d}
      BY DEF AddClass, AlreadyLoaded
    <3> QED BY <3>4, <3>5
  <2>6. Grown(L, R, g[k + 1]) /\ g[k + 1].loaded = g[k].loaded \cup {seq[k + 1]}
    BY <2>3, <2>b, <2>c
  <2>7. Good(k + 1)
    BY <2>2, <2>5, <2>6
  <2> QED BY <2>1, <2>7 DEF T
<1>9. \A k \in 0 .. n : k \in T
  <2> HIDE DEF T
  <2> QED BY <1>7, <1>8, CountsUp
<1>10. Good(n)
  BY <1>9
<1>11. schedule_class_load(st, c) = g[n]
  BY <1>1, <1>6 DEF schedule_class_load, ScheduleOrder
<1> QED BY <1>3, <1>10, <1>11

\* The superclasses of a set's classes are in it.
Closed(S) == \A d \in S : super[d] # Nil => super[d] \in S

\* Once the classes of an image are scheduled, they are all loaded.
LEMMA ImageGrows ==
  ASSUME LoadMethodsAssumption, Nil \notin HasLoad,
         NEW L \in Seq(Class \cup {Nil}), NEW R \in SUBSET Class, NEW m \in Image,
         Closed(R), Closed(R \cup ToSet(classes[m]))
  PROVE  LET new == Schedule(m, [list |-> L, loaded |-> R]) IN
         Grown(L, R, new) /\ new.loaded = R \cup ToSet(classes[m])
<1>1. PICK cs \in Seq(Class) : cs = classes[m]
  BY DEF LoadMethodsAssumption
<1>2. PICK p \in Nat : p = Len(cs)
  BY LenProperties
<1>3. DOMAIN cs = 1 .. p /\ \A k \in 1 .. p : cs[k] \in Class
  BY <1>2, LenProperties, ElementOfSeq
<1>4. PICK U : U = R \cup ToSet(cs)
  OBVIOUS
<1>5. U \in SUBSET Class /\ \A d \in U : super[d] # Nil => super[d] \in U
  BY <1>1, <1>3, <1>4 DEF ToSet, Closed
<1>6. PICK th \in Seq(Class) : th = Those(cs, HasLoad) /\ ToSet(th) \subseteq ToSet(cs)
  <2>1. Those(cs, HasLoad) \in Seq(Class \cap HasLoad)
    BY ThoseIs
  <2>2. Those(cs, HasLoad) \in Seq(Class)
    BY <2>1
  <2>3. ToSet(Those(cs, HasLoad)) = ToSet(cs) \cap HasLoad
    BY ThoseIs
  <2> QED BY <2>2, <2>3
<1>7. PICK q \in Nat : q = Len(th)
  BY LenProperties
<1>8. DOMAIN th = 1 .. q
  BY <1>7, LenProperties
<1>9. PICK seq : seq = th \o cs
  OBVIOUS
<1>10. /\ seq \in Seq(Class) /\ Len(seq) = q + p
       /\ \A k \in 1 .. q : seq[k] = th[k]
       /\ \A k \in 1 .. p : seq[q + k] = cs[k]
  BY <1>2, <1>7, <1>9, ConcatProperties
<1>11. \A k \in 1 .. q + p : seq[k] \in U
  <2> TAKE k \in 1 .. q + p
  <2>1. CASE k \in 1 .. q
    BY <1>4, <1>6, <1>8, <1>10, <2>1 DEF ToSet
  <2>2. CASE k \notin 1 .. q
    <3>1. k - q \in 1 .. p /\ q + (k - q) = k
      BY <2>2
    <3>2. seq[k] = cs[k - q]
      BY <1>10, <3>1
    <3> QED BY <1>3, <1>4, <3>1, <3>2 DEF ToSet
  <2> QED BY <2>1, <2>2
<1>12. PICK st : st = [list |-> L, loaded |-> R]
  OBVIOUS
<1>13. st \in State /\ Grown(L, R, st)
  <2>1. st \in State /\ st.list = L /\ st.loaded = R
    BY <1>12 DEF State
  <2>2. Len(L) \in Nat
    BY LenProperties
  <2> QED BY <2>1, <2>2 DEF Grown, Closed
<1>14. PICK n \in Nat : n = q + p
  OBVIOUS
<1>a. PICK g : /\ g[0] = st /\ FoldLeft(schedule_class_load, st, seq) = g[Len(seq)]
               /\ \A k \in 1 .. Len(seq) : g[k] = schedule_class_load(g[k - 1], seq[k])
  BY <1>10, <1>13, ScheduleSteps
<1>15. /\ g[0] = st /\ FoldLeft(schedule_class_load, st, seq) = g[n]
       /\ \A k \in 1 .. n : g[k] = schedule_class_load(g[k - 1], seq[k])
  BY <1>10, <1>14, <1>a
<1> DEFINE Good(k) ==
             /\ Grown(L, R, g[k]) /\ g[k].loaded \subseteq U
             /\ \A j \in 1 .. k : seq[j] \in g[k].loaded
           T == {k \in 0 .. n : Good(k)}
<1>16. 0 \in T
  <2>1. Good(0)
    BY <1>4, <1>12, <1>13, <1>15
  <2> QED BY <2>1
<1>17. ASSUME NEW k \in 0 .. n - 1, k \in T PROVE k + 1 \in T
  <2>1. /\ k + 1 \in 1 .. n /\ k + 1 - 1 = k /\ k + 1 \in 0 .. n
        /\ \A j \in 1 .. k + 1 : j \in 1 .. k \/ j = k + 1
    OBVIOUS
  <2>2. Good(k)
    BY <1>17
  <2> HIDE DEF T
  <2>3. g[k + 1] = schedule_class_load(g[k], seq[k + 1])
    <3>1. PICK i \in 1 .. n : i = k + 1 /\ i - 1 = k
      BY <2>1
    <3>2. g[i] = schedule_class_load(g[i - 1], seq[i])
      BY <1>15
    <3> QED BY <3>1, <3>2
  <2>4. seq[k + 1] \in U
    BY <1>11, <1>14, <2>1
  <2>5. /\ Grown(L, R, g[k + 1]) /\ g[k + 1].loaded \subseteq U
        /\ g[k].loaded \cup {seq[k + 1]} \subseteq g[k + 1].loaded
    <3>1. PICK st1, d : st1 = g[k] /\ d = seq[k + 1]
      OBVIOUS
    <3>2. Grown(L, R, st1) /\ st1.loaded \subseteq U /\ d \in U
      BY <2>2, <2>4, <3>1
    <3>3. /\ Grown(L, R, schedule_class_load(st1, d))
          /\ st1.loaded \cup {d} \subseteq schedule_class_load(st1, d).loaded
          /\ schedule_class_load(st1, d).loaded \subseteq U
      BY <1>5, <3>2, ClassGrows
    <3> QED BY <2>3, <3>1, <3>3
  <2>6. Good(k + 1)
    BY <2>1, <2>2, <2>5
  <2> QED BY <2>1, <2>6 DEF T
<1>18. \A k \in 0 .. n : k \in T
  <2> HIDE DEF T
  <2> QED BY <1>16, <1>17, CountsUp
<1>19. Good(n)
  BY <1>18
<1>20. ToSet(cs) \subseteq g[n].loaded
  <2> SUFFICES ASSUME NEW k \in 1 .. p PROVE cs[k] \in g[n].loaded
    BY <1>3 DEF ToSet
  <2>1. q + k \in 1 .. n /\ cs[k] = seq[q + k]
    BY <1>10, <1>14
  <2> QED BY <1>19, <2>1
<1>21. R \subseteq g[n].loaded
  BY <1>19 DEF Grown
<1>22. Schedule(m, st) = g[n]
  BY <1>1, <1>6, <1>9, <1>15 DEF Schedule
<1> QED BY <1>1, <1>4, <1>12, <1>19, <1>20, <1>21, <1>22

-----------------------------------------------------------------------------
(* The inductive invariant.                                                    *)

\* The classes and the categories that wait in the two lists.
InClasses == ToSet(loadable_classes) \ {Nil}
InCategories == ToSet(loadable_categories) \ {Nil}

\* The places of the detached list that are still to be called.
LeftAt == {k \in 1 .. Len(detached) : k >= index /\ (running # Nil => k # index)}

Ahead == {detached[k] : k \in LeftAt} \ {Nil}

Pending == Ahead \cup InClasses \cup InCategories

\* Where the loop is, and what it holds: of a detached list of categories, those
\* before the index are struck out.
LoopOK ==
    /\ loading <=> pc # "idle"
    /\ pc = "idle" => loadable_classes = <<>> /\ loadable_categories = <<>>
    /\ pc \in {"idle", "classes"} => detached = <<>> /\ running = Nil
    /\ pc \in {"call_classes", "call_categories"} => index >= 1
    /\ pc = "call_classes" => detached \in Seq(Class \cup {Nil})
    /\ pc = "call_categories" =>
          /\ detached \in Seq(Category \cup {Nil})
          /\ \A k \in 1 .. Len(detached) : k < index => detached[k] = Nil
    /\ running # Nil => index <= Len(detached) /\ running = detached[index]

\* What is flagged, and what is mapped with an image.
ImagesOK ==
    /\ RW_LOADED = UNION {ToSet(classes[m]) : m \in {n \in Image : image[n] = "loaded"}}
    /\ \A m \in Image : image[m] = "loaded" => \A n \in Needs(m) : image[n] = "loaded"

\* Twice in a list, at some of its places, is only Nil.
OnceIn(entries, at) ==
    \A j, k \in at : entries[j] = entries[k] /\ entries[j] # Nil => j = k

\* No method is called twice, or called and yet to be called.
OnceOK ==
    /\ OnceIn(detached, LeftAt)
    /\ OnceIn(loadable_classes, 1 .. Len(loadable_classes))
    /\ OnceIn(loadable_categories, 1 .. Len(loadable_categories))
    /\ Ahead \cap (InClasses \cup InCategories) = {}
    /\ ToSet(called) \cap Pending = {}
    /\ IsInjective(called)

\* None is forgotten, and none is there too long.
ListedOK ==
    /\ Present \cap HasLoad \subseteq ToSet(called) \cup Pending
    /\ Pending \subseteq Present \cap HasLoad
    /\ running # Nil => running \in Present
    /\ \A m \in Image : image[m] = "new" => Contents(m) \cap ToSet(called) = {}

\* A class comes after its superclass, which has been called or comes first.
AfterSuper(entries, at, before) ==
    \A k \in at :
        entries[k] \in Class /\ super[entries[k]] \in HasLoad =>
            super[entries[k]] \in before \/ \E j \in at : j < k /\ entries[j] = super[entries[k]]

OrderOK ==
    /\ AfterSuper(detached, LeftAt, ToSet(called))
    /\ AfterSuper(loadable_classes, 1 .. Len(loadable_classes), ToSet(called) \cup Ahead)
    /\ \A k \in LeftAt :
          detached[k] \in Category /\ parent[detached[k]] \in HasLoad =>
              parent[detached[k]] \in ToSet(called)

LoadIInv ==
    LoadTypeOK /\ LoopOK /\ ImagesOK /\ OnceOK /\ ListedOK /\ OrderOK /\ LoadOrder

\* What the lemmas are about: no +load unmaps what is in the list being worked on.
Assumed == LoadMethodsAssumption /\ UnloadDetached = FALSE

LEMMA Kinds ==
  ASSUME LoadMethodsAssumption
  PROVE  /\ Nil \notin Class /\ Nil \notin Category /\ Class \cap Category = {}
         /\ HasLoad \subseteq Class \cup Category /\ Nil \notin HasLoad
BY ClassHierarchyAssumption DEF LoadMethodsAssumption

\* The members of a sequence.
LEMMA MembersAre ==
  ASSUME NEW S, NEW seq \in Seq(S)
  PROVE  /\ Len(seq) \in Nat /\ DOMAIN seq = 1 .. Len(seq)
         /\ \A k \in 1 .. Len(seq) : seq[k] \in S
         /\ ToSet(seq) = {seq[k] : k \in 1 .. Len(seq)} /\ ToSet(seq) \subseteq S
<1>1. Len(seq) \in Nat /\ DOMAIN seq = 1 .. Len(seq) /\ \A k \in 1 .. Len(seq) : seq[k] \in S
  BY LenProperties, ElementOfSeq
<1> QED BY <1>1 DEF ToSet

LEMMA ContentsAre ==
  ASSUME LoadMethodsAssumption, NEW m \in Image
  PROVE  /\ ToSet(classes[m]) \subseteq Class /\ ToSet(categories[m]) \subseteq Category
         /\ Contents(m) \cap Class = ToSet(classes[m])
         /\ Contents(m) \cap Category = ToSet(categories[m])
         /\ Contents(m) \subseteq Class \cup Category
<1>1. classes[m] \in Seq(Class) /\ categories[m] \in Seq(Category) /\ Class \cap Category = {}
  BY DEF LoadMethodsAssumption
<1>2. ToSet(classes[m]) \subseteq Class /\ ToSet(categories[m]) \subseteq Category
  BY <1>1, MembersAre
<1> QED BY <1>1, <1>2 DEF Contents

\* The classes of the images that are loaded are those flagged.
LEMMA FlaggedIsPresent ==
  ASSUME LoadMethodsAssumption, ImagesOK
  PROVE  Present \cap Class = RW_LOADED /\ Present \subseteq Class \cup Category
<1>1. \A m \in Image : Contents(m) \cap Class = ToSet(classes[m]) /\ Contents(m) \subseteq Class \cup Category
  BY ContentsAre
<1>2. RW_LOADED = UNION {ToSet(classes[m]) : m \in {n \in Image : image[n] = "loaded"}}
  BY DEF ImagesOK
<1> QED BY <1>1, <1>2 DEF Present

\* What a list holds, of its kind.
LEMMA ListsTyped ==
  ASSUME LoadTypeOK
  PROVE  /\ InClasses \subseteq Class /\ InCategories \subseteq Category
         /\ InClasses = {loadable_classes[k] : k \in 1 .. Len(loadable_classes)} \ {Nil}
         /\ InCategories = {loadable_categories[k] : k \in 1 .. Len(loadable_categories)} \ {Nil}
         /\ Ahead \subseteq Class \cup Category
         /\ Len(detached) \in Nat /\ \A k \in 1 .. Len(detached) : detached[k] \in Class \cup Category \cup {Nil}
<1>1. /\ loadable_classes \in Seq(Class \cup {Nil}) /\ loadable_categories \in Seq(Category \cup {Nil})
      /\ detached \in Seq(Class \cup Category \cup {Nil})
  BY DEF LoadTypeOK, Entry
<1>2. /\ ToSet(loadable_classes) \subseteq Class \cup {Nil}
      /\ ToSet(loadable_classes) = {loadable_classes[k] : k \in 1 .. Len(loadable_classes)}
  BY <1>1, MembersAre
<1>3. /\ ToSet(loadable_categories) \subseteq Category \cup {Nil}
      /\ ToSet(loadable_categories) = {loadable_categories[k] : k \in 1 .. Len(loadable_categories)}
  BY <1>1, MembersAre
<1>4. Len(detached) \in Nat /\ \A k \in 1 .. Len(detached) : detached[k] \in Class \cup Category \cup {Nil}
  BY <1>1, MembersAre
<1>5. Ahead \subseteq Class \cup Category
  BY <1>4 DEF Ahead, LeftAt
<1> QED BY <1>2, <1>3, <1>4, <1>5 DEF InClasses, InCategories

\* The superclass of a class, and the class of a category, in loaded images.
LEMMA NeededLoaded ==
  ASSUME Assumed, ImagesOK
  PROVE  /\ \A c \in RW_LOADED : super[c] # Nil => super[c] \in RW_LOADED
         /\ \A d \in Present \cap Category : parent[d] \in RW_LOADED
<1>a. LoadMethodsAssumption
  BY DEF Assumed
<1>1. /\ RW_LOADED = UNION {ToSet(classes[m]) : m \in {n \in Image : image[n] = "loaded"}}
      /\ \A m \in Image : image[m] = "loaded" => \A n \in Needs(m) : image[n] = "loaded"
  BY DEF ImagesOK
<1>2. \A m \in Image : ToSet(classes[m]) \subseteq Class /\ Contents(m) \cap Category = ToSet(categories[m])
  BY <1>a, ContentsAre
<1>3. \A c \in Class : \E m \in Image : c \in ToSet(classes[m])
  BY <1>a DEF LoadMethodsAssumption
<1>4. ASSUME NEW c \in RW_LOADED, super[c] # Nil PROVE super[c] \in RW_LOADED
  <2>1. PICK m \in Image : image[m] = "loaded" /\ c \in ToSet(classes[m])
    BY <1>1
  <2>2. super[c] \in Class
    BY <1>2, <1>4, <2>1, ClassHierarchyAssumption
  <2>3. PICK n \in Image : super[c] \in ToSet(classes[n])
    BY <1>3, <2>2
  <2>4. n # m => n \in Needs(m)
    BY <2>1, <2>3 DEF Needs
  <2> QED BY <1>1, <2>1, <2>3, <2>4
<1>5. ASSUME NEW d \in Present \cap Category PROVE parent[d] \in RW_LOADED
  <2>1. PICK m \in Image : image[m] = "loaded" /\ d \in ToSet(categories[m])
    BY <1>2 DEF Present
  <2>2. parent[d] \in Class
    BY <1>a DEF LoadMethodsAssumption
  <2>3. PICK n \in Image : parent[d] \in ToSet(classes[n])
    BY <1>3, <2>2
  <2>4. n # m => n \in Needs(m)
    BY <2>1, <2>3 DEF Needs
  <2> QED BY <1>1, <2>1, <2>3, <2>4
<1> QED BY <1>4, <1>5

-----------------------------------------------------------------------------
(* The steps.                                                                  *)

LEMMA LoadInitInv ==
  ASSUME Assumed, LoadInit
  PROVE  LoadIInv
<1>1. /\ image = [m \in Image |-> "new"] /\ RW_LOADED = {} /\ loadable_classes = <<>>
      /\ loadable_categories = <<>> /\ loading = FALSE /\ pc = "idle" /\ detached = <<>>
      /\ index = 0 /\ running = Nil /\ called = <<>>
  BY DEF LoadInit
<1>2. /\ \A S : <<>> \in Seq(S)
      /\ ToSet(<<>>) = {} /\ Len(<<>>) = 0 /\ 1 .. 0 = {} /\ DOMAIN <<>> = {}
  BY DEF ToSet
<1>3. InClasses = {} /\ InCategories = {} /\ LeftAt = {} /\ Ahead = {} /\ Pending = {} /\ Present = {}
  <2>1. LeftAt = {}
    BY <1>1, <1>2 DEF LeftAt
  <2>2. InClasses = {} /\ InCategories = {}
    BY <1>1, <1>2 DEF InClasses, InCategories
  <2>3. Present = {}
    BY <1>1 DEF Present
  <2> QED BY <2>1, <2>2, <2>3 DEF Ahead, Pending
<1>4. LoadTypeOK
  BY <1>1, <1>2 DEF LoadTypeOK
<1>5. LoopOK
  BY <1>1 DEF LoopOK
<1>6. ImagesOK
  BY <1>1 DEF ImagesOK
<1>7. OnceOK
  BY <1>1, <1>2, <1>3 DEF OnceOK, OnceIn, IsInjective
<1>8. ListedOK
  BY <1>1, <1>2, <1>3 DEF ListedOK
<1>9. OrderOK
  BY <1>1, <1>2, <1>3 DEF OrderOK, AfterSuper
<1>10. LoadOrder
  BY <1>1, <1>2 DEF LoadOrder
<1> QED BY <1>4, <1>5, <1>6, <1>7, <1>8, <1>9, <1>10 DEF LoadIInv

\* When nothing is detached, nothing is ahead.
LEMMA NothingAhead ==
  ASSUME LoadTypeOK, detached = <<>> \/ index > Len(detached)
  PROVE  LeftAt = {} /\ Ahead = {}
<1>1. Len(detached) \in Nat /\ index \in Nat
  BY ListsTyped DEF LoadTypeOK
<1>2. LeftAt = {}
  <2>1. detached = <<>> => Len(detached) = 0
    OBVIOUS
  <2> QED BY <1>1, <2>1 DEF LeftAt
<1> QED BY <1>2 DEF Ahead

\* Neither images nor flags change.
LEMMA ImagesKept ==
  ASSUME ImagesOK, UNCHANGED <<image, RW_LOADED>>
  PROVE  ImagesOK' /\ Present' = Present
BY DEF ImagesOK, Present

LEMMA OrderKept ==
  ASSUME LoadOrder, UNCHANGED called
  PROVE  LoadOrder'
BY DEF LoadOrder

\* What is listed, when what is ahead and what waits are together the same.
LEMMA ListedKept ==
  ASSUME ListedOK, UNCHANGED <<image, called>>, Pending' = Pending,
         running' = Nil \/ running' = running
  PROVE  ListedOK'
<1>1. Present' = Present
  BY DEF Present
<1> QED BY <1>1 DEF ListedOK

LEMMA ClassesInv ==
  ASSUME Assumed, LoadIInv, Classes
  PROVE  LoadIInv'
<1>a. LoadMethodsAssumption
  BY DEF Assumed
<1>1. LoadTypeOK /\ LoopOK /\ ImagesOK /\ OnceOK /\ ListedOK /\ OrderOK /\ LoadOrder
  BY DEF LoadIInv
<1>2. /\ pc = "classes" /\ index' = 1
      /\ UNCHANGED <<image, RW_LOADED, loading, running, called>>
  BY DEF Classes
<1>3. /\ loadable_classes \in Seq(Class \cup {Nil}) /\ loadable_categories \in Seq(Category \cup {Nil})
      /\ detached = <<>> /\ running = Nil /\ loading
  BY <1>1, <1>2 DEF LoadTypeOK, LoopOK
<1>4. LeftAt = {} /\ Ahead = {}
  BY <1>1, <1>3, NothingAhead
<1>5. /\ \A S : <<>> \in Seq(S)
      /\ ToSet(<<>>) = {} /\ Len(<<>>) = 0 /\ 1 .. 0 = {}
  BY DEF ToSet
<1>6. ImagesOK' /\ LoadOrder'
  BY <1>1, <1>2, ImagesKept, OrderKept
<1>7. CASE loadable_classes # <<>>
  <2>1. /\ pc' = "call_classes" /\ detached' = loadable_classes /\ loadable_classes' = <<>>
        /\ loadable_categories' = loadable_categories
    BY <1>7 DEF Classes, MoreClasses
  <2>2. LeftAt' = 1 .. Len(loadable_classes)
    BY <1>2, <1>3, <2>1 DEF LeftAt
  <2>3. Ahead' = InClasses /\ InClasses' = {} /\ InCategories' = InCategories
    <3>1. InClasses = {loadable_classes[k] : k \in 1 .. Len(loadable_classes)} \ {Nil}
      BY <1>1, ListsTyped
    <3>2. Ahead' = {loadable_classes[k] : k \in 1 .. Len(loadable_classes)} \ {Nil}
      BY <2>1, <2>2 DEF Ahead
    <3>3. InClasses' = {}
      BY <1>5, <2>1 DEF InClasses
    <3>4. InCategories' = InCategories
      BY <2>1 DEF InCategories
    <3> QED BY <3>1, <3>2, <3>3, <3>4
  <2>4. Pending' = Pending
    BY <1>4, <2>3 DEF Pending
  <2>5. LoadTypeOK'
    <3>1. loadable_classes \in Seq(Entry \cup {Nil})
      BY <1>3 DEF Entry
    <3> QED BY <1>1, <1>2, <1>5, <2>1, <3>1 DEF LoadTypeOK
  <2>6. LoopOK'
    BY <1>2, <1>3, <2>1 DEF LoopOK
  <2>7. ListedOK'
    BY <1>1, <1>2, <1>3, <2>4, ListedKept
  <2>8. OnceOK'
    <3>1. OnceIn(loadable_classes, 1 .. Len(loadable_classes))
      BY <1>1 DEF OnceOK
    <3>2. OnceIn(detached', LeftAt')
      BY <2>1, <2>2, <3>1
    <3>3. OnceIn(loadable_classes', 1 .. Len(loadable_classes'))
      BY <1>5, <2>1 DEF OnceIn
    <3>4. Ahead' \cap (InClasses' \cup InCategories') = {}
      <4>1. InClasses \subseteq Class /\ InCategories \subseteq Category
        BY <1>1, ListsTyped
      <4> QED BY <1>a, <2>3, <4>1, Kinds
    <3> QED BY <1>1, <1>2, <2>1, <2>4, <3>2, <3>3, <3>4 DEF OnceOK
  <2>9. OrderOK'
    <3>1. AfterSuper(loadable_classes, 1 .. Len(loadable_classes), ToSet(called))
      BY <1>1, <1>4 DEF OrderOK
    <3>2. AfterSuper(detached', LeftAt', ToSet(called'))
      BY <1>2, <2>1, <2>2, <3>1
    <3>3. AfterSuper(loadable_classes', 1 .. Len(loadable_classes'), ToSet(called') \cup Ahead')
      BY <1>5, <2>1 DEF AfterSuper
    <3>4. \A k \in LeftAt' : detached'[k] \notin Category
      <4>1. \A k \in 1 .. Len(loadable_classes) : loadable_classes[k] \in Class \cup {Nil}
        BY <1>3, MembersAre
      <4> QED BY <1>a, <2>1, <2>2, <4>1, Kinds
    <3> QED BY <3>2, <3>3, <3>4 DEF OrderOK
  <2> QED BY <1>6, <2>5, <2>6, <2>7, <2>8, <2>9 DEF LoadIInv
<1>8. CASE loadable_classes = <<>>
  <2>1. /\ pc' = "call_categories" /\ detached' = loadable_categories
        /\ loadable_categories' = <<>> /\ loadable_classes' = <<>>
    BY <1>8 DEF Classes, MoreClasses
  <2>2. LeftAt' = 1 .. Len(loadable_categories)
    BY <1>2, <1>3, <2>1 DEF LeftAt
  <2>3. Ahead' = InCategories /\ InClasses' = {} /\ InCategories' = {} /\ InClasses = {}
    <3>1. InCategories = {loadable_categories[k] : k \in 1 .. Len(loadable_categories)} \ {Nil}
      BY <1>1, ListsTyped
    <3>2. Ahead' = {loadable_categories[k] : k \in 1 .. Len(loadable_categories)} \ {Nil}
      BY <2>1, <2>2 DEF Ahead
    <3>3. InClasses' = {} /\ InClasses = {}
      BY <1>5, <1>8, <2>1 DEF InClasses
    <3>4. InCategories' = {}
      BY <1>5, <2>1 DEF InCategories
    <3> QED BY <3>1, <3>2, <3>3, <3>4
  <2>4. Pending' = Pending
    BY <1>4, <2>3 DEF Pending
  <2>5. LoadTypeOK'
    <3>1. loadable_categories \in Seq(Entry \cup {Nil})
      BY <1>3 DEF Entry
    <3> QED BY <1>1, <1>2, <1>5, <2>1, <3>1 DEF LoadTypeOK
  <2>6. LoopOK'
    <3>1. \A k \in 1 .. Len(detached') : ~ (k < index')
      BY <1>2
    <3> QED BY <1>2, <1>3, <2>1, <3>1 DEF LoopOK
  <2>7. ListedOK'
    BY <1>1, <1>2, <1>3, <2>4, ListedKept
  <2>8. OnceOK'
    <3>1. OnceIn(loadable_categories, 1 .. Len(loadable_categories))
      BY <1>1 DEF OnceOK
    <3>2. OnceIn(detached', LeftAt')
      BY <2>1, <2>2, <3>1
    <3>3. /\ OnceIn(loadable_classes', 1 .. Len(loadable_classes'))
          /\ OnceIn(loadable_categories', 1 .. Len(loadable_categories'))
      BY <1>5, <2>1 DEF OnceIn
    <3> QED BY <1>1, <1>2, <2>3, <2>4, <3>2, <3>3 DEF OnceOK
  <2>9. OrderOK'
    <3>1. ASSUME NEW k \in LeftAt', detached'[k] \in Category, parent[detached'[k]] \in HasLoad
          PROVE  parent[detached'[k]] \in ToSet(called')
      <4>1. detached'[k] \in InCategories
        BY <1>a, <2>3, <3>1, Kinds DEF Ahead
      <4>2. detached'[k] \in Present
        BY <1>1, <4>1 DEF ListedOK, Pending
      <4>3. parent[detached'[k]] \in RW_LOADED
        BY <1>1, <3>1, <4>2, NeededLoaded
      <4>4. parent[detached'[k]] \in Present \cap Class
        BY <1>1, <1>a, <4>3, FlaggedIsPresent
      <4>5. parent[detached'[k]] \in ToSet(called) \cup InCategories
        BY <1>1, <1>4, <2>3, <3>1, <4>4 DEF ListedOK, Pending
      <4>6. InCategories \subseteq Category
        BY <1>1, ListsTyped
      <4> QED BY <1>2, <1>a, <4>4, <4>5, <4>6, Kinds
    <3>2. \A k \in LeftAt' : detached'[k] \notin Class
      <4>1. \A k \in 1 .. Len(loadable_categories) : loadable_categories[k] \in Category \cup {Nil}
        BY <1>3, MembersAre
      <4> QED BY <1>a, <2>1, <2>2, <4>1, Kinds
    <3>3. AfterSuper(loadable_classes', 1 .. Len(loadable_classes'), ToSet(called') \cup Ahead')
      BY <1>5, <2>1 DEF AfterSuper
    <3>4. AfterSuper(detached', LeftAt', ToSet(called'))
      BY <3>2 DEF AfterSuper
    <3> QED BY <3>1, <3>3, <3>4 DEF OrderOK
  <2> QED BY <1>6, <2>5, <2>6, <2>7, <2>8, <2>9 DEF LoadIInv
<1> QED BY <1>7, <1>8

LEMMA CallInv ==
  ASSUME Assumed, LoadIInv, Call
  PROVE  LoadIInv'
<1>a. LoadMethodsAssumption
  BY DEF Assumed
<1>1. LoadTypeOK /\ LoopOK /\ ImagesOK /\ OnceOK /\ ListedOK /\ OrderOK /\ LoadOrder
  BY DEF LoadIInv
<1>2. /\ pc \in {"call_classes", "call_categories"} /\ running = Nil /\ index <= Len(detached)
      /\ UNCHANGED <<image, RW_LOADED, loadable_classes, loadable_categories, loading, pc, detached>>
  BY DEF Call
<1>3. PICK n \in Nat : n = Len(detached)
  BY <1>1, ListsTyped
<1>4. index \in 1 .. n /\ index \in Nat
  BY <1>1, <1>2, <1>3 DEF LoopOK, LoadTypeOK
<1>5. index \in LeftAt /\ LeftAt = index .. n
  BY <1>2, <1>3, <1>4 DEF LeftAt
<1>6. PICK x : x = detached[index]
  OBVIOUS
<1>7. x \in Class \cup Category \cup {Nil}
  BY <1>1, <1>3, <1>4, <1>6, ListsTyped
<1>8. ImagesOK' /\ Present' = Present
  BY <1>1, <1>2, ImagesKept
<1>9. InClasses' = InClasses /\ InCategories' = InCategories
  BY <1>2 DEF InClasses, InCategories
<1>10. CASE x # Nil
  <2>1. running' = x /\ called' = Append(called, x) /\ index' = index
    BY <1>6, <1>10 DEF Call, Loadable
  <2>2. LeftAt' = LeftAt \ {index}
    BY <1>2, <1>10, <2>1 DEF LeftAt
  <2>3. x \in Ahead /\ x \in Pending
    BY <1>5, <1>6, <1>10 DEF Ahead, Pending
  <2>4. Ahead' = Ahead \ {x}
    <3>1. \A k \in LeftAt : detached[k] = x => k = index
      BY <1>1, <1>5, <1>6, <1>10 DEF OnceOK, OnceIn
    <3> QED BY <1>2, <1>6, <2>2, <3>1 DEF Ahead
  <2>5. Pending' = Pending \ {x}
    <3>1. x \notin InClasses /\ x \notin InCategories
      BY <1>1, <2>3 DEF OnceOK
    <3> QED BY <1>9, <2>4, <3>1 DEF Pending
  <2>6. x \in Present \cap HasLoad /\ x \notin ToSet(called) /\ x \in Entry
    BY <1>1, <1>7, <1>10, <2>3 DEF ListedOK, OnceOK, Entry
  <2>7. PICK p \in Nat : p = Len(called)
    BY <1>1, LenProperties DEF LoadTypeOK
  <2>8. PICK c2 : c2 = called'
    OBVIOUS
  <2>9. /\ c2 \in Seq(Entry) /\ Len(c2) = p + 1 /\ c2[p + 1] = x
        /\ \A k \in 1 .. p : c2[k] = called[k]
    BY <1>1, <2>1, <2>6, <2>7, <2>8, AppendProperties DEF LoadTypeOK
  <2>10. /\ ToSet(called) = {called[k] : k \in 1 .. p} /\ DOMAIN called = 1 .. p
         /\ ToSet(c2) = {c2[k] : k \in 1 .. p + 1} /\ DOMAIN c2 = 1 .. p + 1
    <3>1. called \in Seq(Entry)
      BY <1>1 DEF LoadTypeOK
    <3> QED BY <2>7, <2>9, <3>1, MembersAre
  <2>11. \A k \in 1 .. p + 1 : k \in 1 .. p \/ k = p + 1
    OBVIOUS
  <2>12. ToSet(c2) = ToSet(called) \cup {x}
    <3>1. p + 1 \in 1 .. p + 1 /\ \A k \in 1 .. p : k \in 1 .. p + 1
      OBVIOUS
    <3> QED BY <2>9, <2>10, <2>11, <3>1
  <2>13. LoadTypeOK'
    BY <1>1, <1>2, <2>1, <2>6, <2>8, <2>9 DEF LoadTypeOK
  <2>14. LoopOK'
    BY <1>1, <1>2, <1>6, <2>1 DEF LoopOK
  <2>15. OnceOK'
    <3>1. OnceIn(detached', LeftAt')
      BY <1>1, <1>2, <2>2 DEF OnceOK, OnceIn
    <3>2. /\ OnceIn(loadable_classes', 1 .. Len(loadable_classes'))
          /\ OnceIn(loadable_categories', 1 .. Len(loadable_categories'))
      BY <1>1, <1>2 DEF OnceOK
    <3>3. Ahead' \cap (InClasses' \cup InCategories') = {}
      BY <1>1, <1>9, <2>4 DEF OnceOK
    <3>4. ToSet(c2) \cap Pending' = {}
      BY <1>1, <2>5, <2>12 DEF OnceOK
    <3>5. IsInjective(c2)
      <4>1. \A j, k \in 1 .. p : called[j] = called[k] => j = k
        BY <1>1, <2>10 DEF OnceOK, IsInjective
      <4>2. \A k \in 1 .. p : called[k] # x
        BY <2>6, <2>10
      <4>3. \A j, k \in 1 .. p + 1 : c2[j] = c2[k] => j = k
        BY <2>9, <2>11, <4>1, <4>2
      <4> QED BY <2>10, <4>3 DEF IsInjective
    <3> QED BY <2>8, <3>1, <3>2, <3>3, <3>4, <3>5 DEF OnceOK
  <2>16. ListedOK'
    <3>1. Present' \cap HasLoad \subseteq ToSet(c2) \cup Pending'
      BY <1>1, <1>8, <2>5, <2>12 DEF ListedOK
    <3>2. Pending' \subseteq Present' \cap HasLoad
      BY <1>1, <1>8, <2>5 DEF ListedOK
    <3>3. running' \in Present'
      BY <1>8, <2>1, <2>6
    <3>4. ASSUME NEW m \in Image, image'[m] = "new" PROVE Contents(m) \cap ToSet(c2) = {}
      <4>1. PICK q \in Image : image[q] = "loaded" /\ x \in Contents(q)
        BY <2>6 DEF Present
      <4>2. image[m] = "new" /\ m # q
        BY <1>2, <3>4, <4>1
      <4>3. Contents(m) \cap Contents(q) = {}
        BY <1>a, <4>2 DEF LoadMethodsAssumption
      <4>4. Contents(m) \cap ToSet(called) = {}
        BY <1>1, <4>2 DEF ListedOK
      <4> QED BY <2>12, <4>1, <4>3, <4>4
    <3> QED BY <2>8, <3>1, <3>2, <3>3, <3>4 DEF ListedOK
  <2>17. OrderOK'
    <3>1. AfterSuper(detached', LeftAt', ToSet(c2))
      <4> SUFFICES ASSUME NEW k \in LeftAt', detached[k] \in Class, super[detached[k]] \in HasLoad,
                          super[detached[k]] \notin ToSet(c2)
                   PROVE  \E j \in LeftAt' : j < k /\ detached[j] = super[detached[k]]
        BY <1>2 DEF AfterSuper
      <4>1. k \in LeftAt /\ super[detached[k]] \notin ToSet(called) /\ super[detached[k]] # x
        BY <2>2, <2>12
      <4>2. PICK j \in LeftAt : j < k /\ detached[j] = super[detached[k]]
        BY <1>1, <4>1 DEF OrderOK, AfterSuper
      <4>3. j # index
        BY <1>6, <4>1, <4>2
      <4> QED BY <2>2, <4>2, <4>3
    <3>2. ToSet(c2) \cup Ahead' = ToSet(called) \cup Ahead
      BY <2>3, <2>4, <2>12
    <3>3. AfterSuper(loadable_classes', 1 .. Len(loadable_classes'), ToSet(c2) \cup Ahead')
      BY <1>1, <1>2, <3>2 DEF OrderOK
    <3>4. \A k \in LeftAt' : detached'[k] \in Category /\ parent[detached'[k]] \in HasLoad =>
             parent[detached'[k]] \in ToSet(c2)
      BY <1>1, <1>2, <2>2, <2>12 DEF OrderOK
    <3> QED BY <2>8, <3>1, <3>3, <3>4 DEF OrderOK
  <2>18. LoadOrder'
    <3>1. x \in Class => {super[x]} \cap HasLoad \subseteq ToSet(called)
      <4> SUFFICES ASSUME x \in Class, super[x] \in HasLoad PROVE super[x] \in ToSet(called)
        OBVIOUS
      <4>1. \A j \in LeftAt : ~ (j < index)
        BY <1>4, <1>5
      <4> QED BY <1>1, <1>5, <1>6, <4>1 DEF OrderOK, AfterSuper
    <3>2. x \in Category => {parent[x]} \cap HasLoad \subseteq ToSet(called)
      BY <1>1, <1>5, <1>6 DEF OrderOK
    <3>3. ASSUME NEW k \in 1 .. p + 1
          PROVE  /\ c2[k] \in Class => {super[c2[k]]} \cap HasLoad \subseteq {c2[j] : j \in 1 .. k - 1}
                 /\ c2[k] \in Category => {parent[c2[k]]} \cap HasLoad \subseteq {c2[j] : j \in 1 .. k - 1}
      <4>1. \A j \in 1 .. k - 1 : j \in 1 .. p /\ c2[j] = called[j]
        BY <2>9
      <4>2. {c2[j] : j \in 1 .. k - 1} = {called[j] : j \in 1 .. k - 1}
        BY <4>1
      <4>3. CASE k \in 1 .. p
        <5>1. c2[k] = called[k]
          BY <2>9, <4>3
        <5>2. /\ called[k] \in Class => {super[called[k]]} \cap HasLoad \subseteq {called[j] : j \in 1 .. k - 1}
              /\ called[k] \in Category => {parent[called[k]]} \cap HasLoad \subseteq {called[j] : j \in 1 .. k - 1}
          BY <1>1, <2>7, <4>3 DEF LoadOrder
        <5> QED BY <4>2, <5>1, <5>2
      <4>4. CASE k = p + 1
        <5>1. {c2[j] : j \in 1 .. k - 1} = ToSet(called)
          <6>1. k - 1 = p
            BY <4>4
          <6> QED BY <2>10, <4>2, <6>1
        <5> QED BY <2>9, <3>1, <3>2, <4>4, <5>1
      <4> QED BY <2>11, <4>3, <4>4
    <3> QED BY <2>8, <2>9, <3>3 DEF LoadOrder
  <2> QED BY <1>8, <2>13, <2>14, <2>15, <2>16, <2>17, <2>18 DEF LoadIInv
<1>11. CASE x = Nil
  <2>1. running' = Nil /\ called' = called /\ index' = index + 1
    BY <1>2, <1>6, <1>11 DEF Call
  <2>2. LeftAt' = LeftAt \ {index}
    <3>1. LeftAt' = index + 1 .. n
      BY <1>2, <1>3, <1>4, <2>1 DEF LeftAt
    <3> QED BY <1>4, <1>5, <3>1
  <2>3. Ahead' = Ahead
    BY <1>2, <1>6, <1>11, <2>2 DEF Ahead
  <2>4. Pending' = Pending
    BY <1>9, <2>3 DEF Pending
  <2>5. LoadTypeOK'
    BY <1>1, <1>2, <1>4, <2>1 DEF LoadTypeOK
  <2>6. LoopOK'
    <3>1. pc = "call_categories" => \A k \in 1 .. n : k < index + 1 => detached[k] = Nil
      <4> SUFFICES ASSUME pc = "call_categories", NEW k \in 1 .. n, k < index + 1
                   PROVE  detached[k] = Nil
        OBVIOUS
      <4>1. k < index \/ k = index
        BY <1>4
      <4> QED BY <1>1, <1>3, <1>6, <1>11, <4>1 DEF LoopOK
    <3> QED BY <1>1, <1>2, <1>3, <1>4, <2>1, <3>1 DEF LoopOK
  <2>7. ListedOK'
    BY <1>1, <1>2, <2>1, <2>4, ListedKept
  <2>8. OnceOK'
    <3>1. OnceIn(detached', LeftAt')
      BY <1>1, <1>2, <2>2 DEF OnceOK, OnceIn
    <3> QED BY <1>1, <1>2, <1>9, <2>1, <2>3, <2>4, <3>1 DEF OnceOK
  <2>9. OrderOK'
    <3>1. AfterSuper(detached', LeftAt', ToSet(called'))
      <4> SUFFICES ASSUME NEW k \in LeftAt', detached[k] \in Class, super[detached[k]] \in HasLoad,
                          super[detached[k]] \notin ToSet(called)
                   PROVE  \E j \in LeftAt' : j < k /\ detached[j] = super[detached[k]]
        BY <1>2, <2>1 DEF AfterSuper
      <4>1. PICK j \in LeftAt : j < k /\ detached[j] = super[detached[k]]
        BY <1>1, <2>2 DEF OrderOK, AfterSuper
      <4>2. j # index
        BY <1>6, <1>11, <1>a, <4>1, Kinds
      <4> QED BY <2>2, <4>1, <4>2
    <3>2. \A k \in LeftAt' : detached'[k] \in Category /\ parent[detached'[k]] \in HasLoad =>
             parent[detached'[k]] \in ToSet(called')
      BY <1>1, <1>2, <2>1, <2>2 DEF OrderOK
    <3>3. AfterSuper(loadable_classes', 1 .. Len(loadable_classes'), ToSet(called') \cup Ahead')
      BY <1>1, <1>2, <2>1, <2>3 DEF OrderOK
    <3> QED BY <3>1, <3>2, <3>3 DEF OrderOK
  <2>10. LoadOrder'
    BY <1>1, <2>1, OrderKept
  <2> QED BY <1>8, <2>5, <2>6, <2>7, <2>8, <2>9, <2>10 DEF LoadIInv
<1> QED BY <1>10, <1>11

LEMMA CallReturnsInv ==
  ASSUME Assumed, LoadIInv, CallReturns
  PROVE  LoadIInv'
<1>a. LoadMethodsAssumption
  BY DEF Assumed
<1>1. LoadTypeOK /\ LoopOK /\ ImagesOK /\ OnceOK /\ ListedOK /\ OrderOK /\ LoadOrder
  BY DEF LoadIInv
<1>2. /\ running # Nil /\ running' = Nil /\ index' = index + 1
      /\ UNCHANGED <<image, RW_LOADED, loadable_classes, loadable_categories, loading, pc, called>>
  BY DEF CallReturns
<1>3. PICK n \in Nat : n = Len(detached)
  BY <1>1, ListsTyped
<1>4. /\ index \in 1 .. n /\ index \in Nat /\ pc \in {"call_classes", "call_categories"}
      /\ running = detached[index]
  BY <1>1, <1>2, <1>3 DEF LoopOK, LoadTypeOK
<1>5. PICK d2 : d2 = detached'
  OBVIOUS
<1>6. /\ detached \in Seq(Class \cup Category \cup {Nil}) /\ DOMAIN detached = 1 .. n
      /\ pc = "call_classes" => d2 = detached
      /\ pc = "call_categories" => d2 = [detached EXCEPT ![index] = Nil]
  BY <1>1, <1>3, <1>4, <1>5, MembersAre DEF CallReturns, LoadTypeOK, Entry
<1>7. d2 \in Seq(Class \cup Category \cup {Nil}) /\ Len(d2) = n /\ \A k \in 1 .. n : k # index => d2[k] = detached[k]
  <2>1. CASE pc = "call_classes"
    BY <1>3, <1>6, <2>1
  <2>2. CASE pc = "call_categories"
    <3>1. d2 = [detached EXCEPT ![index] = Nil]
      BY <1>6, <2>2
    <3>2. d2 \in Seq(Class \cup Category \cup {Nil}) /\ Len(d2) = n
      BY <1>3, <1>4, <1>6, <3>1, ExceptSeq
    <3> QED BY <1>6, <3>1, <3>2
  <2> QED BY <1>4, <2>1, <2>2
<1>8. LeftAt = index + 1 .. n /\ LeftAt' = LeftAt
  <2>1. LeftAt = index + 1 .. n
    BY <1>2, <1>3, <1>4 DEF LeftAt
  <2>2. LeftAt' = index + 1 .. n
    BY <1>2, <1>4, <1>5, <1>7 DEF LeftAt
  <2> QED BY <2>1, <2>2
<1>9. \A k \in LeftAt : k \in 1 .. n /\ d2[k] = detached[k]
  BY <1>4, <1>7, <1>8
<1>10. Ahead' = Ahead
  BY <1>5, <1>8, <1>9 DEF Ahead
<1>11. InClasses' = InClasses /\ InCategories' = InCategories
  BY <1>2 DEF InClasses, InCategories
<1>12. Pending' = Pending
  BY <1>10, <1>11 DEF Pending
<1>13. ImagesOK' /\ LoadOrder'
  BY <1>1, <1>2, ImagesKept, OrderKept
<1>14. LoadTypeOK'
  <2>1. d2 \in Seq(Entry \cup {Nil})
    BY <1>7 DEF Entry
  <2> QED BY <1>1, <1>2, <1>4, <1>5, <2>1 DEF LoadTypeOK
<1>15. LoopOK'
  <2>1. pc = "call_classes" => d2 \in Seq(Class \cup {Nil})
    BY <1>1, <1>6 DEF LoopOK
  <2>2. ASSUME pc = "call_categories"
        PROVE  /\ d2 \in Seq(Category \cup {Nil})
               /\ \A k \in 1 .. n : k < index + 1 => d2[k] = Nil
    <3>1. d2 = [detached EXCEPT ![index] = Nil]
      BY <1>6, <2>2
    <3>2. /\ detached \in Seq(Category \cup {Nil})
          /\ \A k \in 1 .. n : k < index => detached[k] = Nil
      BY <1>1, <1>3, <2>2 DEF LoopOK
    <3>3. d2 \in Seq(Category \cup {Nil})
      BY <1>3, <1>4, <3>1, <3>2, ExceptSeq
    <3>4. d2[index] = Nil
      BY <1>4, <1>6, <3>1
    <3>5. \A k \in 1 .. n : k < index + 1 => k = index \/ (k < index /\ k # index)
      BY <1>4
    <3>6. ASSUME NEW k \in 1 .. n, k < index + 1 PROVE d2[k] = Nil
      <4>1. CASE k = index
        BY <3>4, <4>1
      <4>2. CASE k # index
        <5>1. k < index
          BY <3>5, <3>6, <4>2
        <5> QED BY <1>7, <3>2, <4>2, <5>1
      <4> QED BY <4>1, <4>2
    <3> QED BY <3>3, <3>6
  <2> QED BY <1>1, <1>2, <1>4, <1>5, <1>7, <2>1, <2>2 DEF LoopOK
<1>16. ListedOK'
  BY <1>1, <1>2, <1>12, ListedKept
<1>17. OnceOK'
  <2>1. OnceIn(d2, LeftAt)
    BY <1>1, <1>9 DEF OnceOK, OnceIn
  <2> QED BY <1>1, <1>2, <1>5, <1>8, <1>10, <1>11, <1>12, <2>1 DEF OnceOK
<1>18. OrderOK'
  <2>1. AfterSuper(d2, LeftAt, ToSet(called))
    BY <1>1, <1>9 DEF OrderOK, AfterSuper
  <2>2. AfterSuper(loadable_classes', 1 .. Len(loadable_classes'), ToSet(called') \cup Ahead')
    BY <1>1, <1>2, <1>10 DEF OrderOK
  <2>3. \A k \in LeftAt : d2[k] \in Category /\ parent[d2[k]] \in HasLoad =>
             parent[d2[k]] \in ToSet(called)
    BY <1>1, <1>9 DEF OrderOK
  <2> QED BY <1>2, <1>5, <1>8, <2>1, <2>2, <2>3 DEF OrderOK
<1> QED BY <1>13, <1>14, <1>15, <1>16, <1>17, <1>18 DEF LoadIInv

\* A detached list comes to its end; what it leaves is nothing.
LEMMA DoneInv ==
  ASSUME Assumed, LoadIInv, running = Nil, index > Len(detached),
         index' = 0, detached' = <<>>,
         UNCHANGED <<image, RW_LOADED, loadable_classes, loadable_categories, running, called>>
  PROVE  ImagesOK' /\ OnceOK' /\ ListedOK' /\ OrderOK' /\ LoadOrder'
<1>1. LoadTypeOK /\ LoopOK /\ ImagesOK /\ OnceOK /\ ListedOK /\ OrderOK /\ LoadOrder
  BY DEF LoadIInv
<1>2. LeftAt = {} /\ Ahead = {}
  BY <1>1, NothingAhead
<1>3. LeftAt' = {} /\ Ahead' = {}
  <2>1. LeftAt' = {}
    BY Len(<<>>) = 0 /\ 1 .. 0 = {} DEF LeftAt
  <2> QED BY <2>1 DEF Ahead
<1>4. InClasses' = InClasses /\ InCategories' = InCategories
  BY DEF InClasses, InCategories
<1>5. Pending' = Pending
  BY <1>2, <1>3, <1>4 DEF Pending
<1>6. ImagesOK' /\ LoadOrder'
  BY <1>1, ImagesKept, OrderKept
<1>7. ListedOK'
  BY <1>1, <1>5, ListedKept
<1>8. OnceOK'
  <2>1. OnceIn(detached', LeftAt')
    BY <1>3 DEF OnceIn
  <2> QED BY <1>1, <1>3, <1>5, <2>1 DEF OnceOK
<1>9. OrderOK'
  <2>1. AfterSuper(detached', LeftAt', ToSet(called'))
    BY <1>3 DEF AfterSuper
  <2> QED BY <1>1, <1>2, <1>3, <2>1 DEF OrderOK
<1> QED BY <1>6, <1>7, <1>8, <1>9

LEMMA ClassesDoneInv ==
  ASSUME Assumed, LoadIInv, ClassesDone
  PROVE  LoadIInv'
<1>1. LoadTypeOK /\ LoopOK
  BY DEF LoadIInv
<1>2. /\ pc = "call_classes" /\ running = Nil /\ index > Len(detached)
      /\ pc' = "classes" /\ index' = 0 /\ detached' = <<>>
      /\ UNCHANGED <<image, RW_LOADED, loadable_classes, loadable_categories,
                     loading, running, called>>
  BY DEF ClassesDone
<1>3. ImagesOK' /\ OnceOK' /\ ListedOK' /\ OrderOK' /\ LoadOrder'
  BY <1>2, DoneInv
<1>4. LoadTypeOK'
  BY <1>1, <1>2 DEF LoadTypeOK
<1>5. LoopOK'
  BY <1>1, <1>2 DEF LoopOK
<1> QED BY <1>3, <1>4, <1>5 DEF LoadIInv

LEMMA CategoriesDoneInv ==
  ASSUME Assumed, LoadIInv, CategoriesDone
  PROVE  LoadIInv'
<1>a. LoadMethodsAssumption
  BY DEF Assumed
<1>1. LoadTypeOK /\ LoopOK
  BY DEF LoadIInv
<1>2. /\ pc = "call_categories" /\ running = Nil /\ index > Len(detached)
      /\ index' = 0 /\ detached' = <<>>
      /\ UNCHANGED <<image, RW_LOADED, loadable_classes, running, called>>
      /\ loadable_categories' = Those(detached, Category) \o loadable_categories
  BY DEF CategoriesDone
<1>3. loadable_categories' = loadable_categories
  <2>1. /\ detached \in Seq(Category \cup {Nil}) /\ loadable_categories \in Seq(Category \cup {Nil})
        /\ \A k \in 1 .. Len(detached) : k < index => detached[k] = Nil
        /\ index \in Nat
    BY <1>1, <1>2 DEF LoopOK, LoadTypeOK
  <2>2. /\ Len(detached) \in Nat /\ ToSet(detached) = {detached[k] : k \in 1 .. Len(detached)}
    BY <2>1, MembersAre
  <2>3. \A k \in 1 .. Len(detached) : detached[k] = Nil
    BY <1>2, <2>1, <2>2
  <2>4. ToSet(detached) \cap Category = {}
    BY <1>a, <2>2, <2>3, Kinds
  <2>5. Those(detached, Category) = <<>>
    BY <2>1, <2>4, ThoseNone
  <2> QED BY <1>2, <2>1, <2>5, ConcatEmptySeq
<1>4. ImagesOK' /\ OnceOK' /\ ListedOK' /\ OrderOK' /\ LoadOrder'
  BY <1>2, <1>3, DoneInv
<1>5. \/ (loadable_classes # <<>> \/ loadable_categories # <<>>) /\ pc' = "classes" /\ loading' = loading
      \/ loadable_classes = <<>> /\ loadable_categories = <<>> /\ pc' = "idle" /\ loading' = FALSE
  <2>1. IF More THEN pc' = "classes" /\ loading' = loading ELSE pc' = "idle" /\ loading' = FALSE
    BY DEF CategoriesDone
  <2> QED BY <2>1 DEF More
<1>6. LoadTypeOK'
  <2>1. /\ image \in [Image -> {"new", "loaded", "unloaded"}] /\ RW_LOADED \in SUBSET Class
        /\ loadable_classes \in Seq(Class \cup {Nil}) /\ loadable_categories \in Seq(Category \cup {Nil})
        /\ running \in Entry \cup {Nil} /\ called \in Seq(Entry) /\ loading \in BOOLEAN
    BY <1>1 DEF LoadTypeOK
  <2>2. detached' \in Seq(Entry \cup {Nil}) /\ index' \in Nat
    BY <1>2
  <2>3. loading' \in BOOLEAN /\ pc' \in {"idle", "classes", "call_classes", "call_categories"}
    BY <1>5, <2>1
  <2> QED BY <1>2, <1>3, <2>1, <2>2, <2>3 DEF LoadTypeOK
<1>7. LoopOK'
  <2>1. loading /\ running' = Nil /\ detached' = <<>>
    BY <1>1, <1>2 DEF LoopOK
  <2>2. CASE pc' = "classes" /\ loading' = loading
    BY <2>1, <2>2 DEF LoopOK
  <2>3. CASE /\ loadable_classes = <<>> /\ loadable_categories = <<>>
             /\ pc' = "idle" /\ loading' = FALSE
    BY <1>2, <1>3, <2>1, <2>3 DEF LoopOK
  <2> QED BY <1>5, <2>2, <2>3
<1> QED BY <1>4, <1>6, <1>7 DEF LoadIInv

\* What comes with an image: its classes go behind those that wait, and so do
\* its categories.
LEMMA LoadImageInv ==
  ASSUME Assumed, LoadIInv, NEW m \in Image, LoadImage(m)
  PROVE  LoadIInv'
<1>a. LoadMethodsAssumption
  BY DEF Assumed
<1>1. LoadTypeOK /\ LoopOK /\ ImagesOK /\ OnceOK /\ ListedOK /\ OrderOK /\ LoadOrder
  BY DEF LoadIInv
<1>2. /\ pc = "idle" \/ running # Nil
      /\ image[m] = "new" /\ \A n \in Needs(m) : image[n] = "loaded"
      /\ image' = [image EXCEPT ![m] = "loaded"]
      /\ UNCHANGED <<detached, index, called>>
  BY DEF LoadImage, Prepare
<1>3. PICK new : new = Schedule(m, [list |-> loadable_classes, loaded |-> RW_LOADED])
  OBVIOUS
<1>4. PICK th : th = Those(categories[m], HasLoad)
  OBVIOUS
<1>5. /\ loadable_classes' = new.list /\ RW_LOADED' = new.loaded
      /\ loadable_categories' = loadable_categories \o th
  BY <1>3, <1>4 DEF LoadImage, Prepare
<1>6. /\ image \in [Image -> {"new", "loaded", "unloaded"}]
      /\ RW_LOADED \in SUBSET Class
      /\ loadable_classes \in Seq(Class \cup {Nil})
      /\ loadable_categories \in Seq(Category \cup {Nil})
  BY <1>1 DEF LoadTypeOK
<1>7. PICK C, D : C = ToSet(classes[m]) /\ D = ToSet(categories[m])
  OBVIOUS
<1>8. /\ C \subseteq Class /\ D \subseteq Category /\ Contents(m) = C \cup D
      /\ Class \cap Category = {} /\ Nil \notin Class /\ Nil \notin Category
      /\ HasLoad \subseteq Class \cup Category /\ Nil \notin HasLoad
  BY <1>a, <1>7, ContentsAre, Kinds DEF Contents
\* The image is loaded, and nothing of it was.
<1>9. image'[m] = "loaded" /\ \A n \in Image : n # m => image'[n] = image[n]
  BY <1>2, <1>6
<1>10. Present' = Present \cup C \cup D
  BY <1>2, <1>8, <1>9 DEF Present
<1>11. Present \cap (C \cup D) = {}
  <2>1. \A n \in Image : image[n] = "loaded" => Contents(n) \cap Contents(m) = {}
    BY <1>a, <1>2 DEF LoadMethodsAssumption
  <2> QED BY <1>8, <2>1 DEF Present
<1>12. Present \cap Class = RW_LOADED /\ Present \subseteq Class \cup Category
  BY <1>a, <1>1, FlaggedIsPresent
<1>13. ToSet(called) \cap (C \cup D) = {}
  BY <1>1, <1>2, <1>8 DEF ListedOK
\* What schedule_class_load adds.
<1>14. Grown(loadable_classes, RW_LOADED, new) /\ new.loaded = RW_LOADED \cup C
  <2>1. \A d \in RW_LOADED : super[d] # Nil => super[d] \in RW_LOADED
    BY <1>1, NeededLoaded
  <2>2. ASSUME NEW d \in C, super[d] # Nil PROVE super[d] \in RW_LOADED \cup C
    <3>1. super[d] \in Class
      BY <1>8, <2>2, ClassHierarchyAssumption
    <3>2. PICK n \in Image : super[d] \in ToSet(classes[n])
      BY <1>a, <3>1 DEF LoadMethodsAssumption
    <3>3. n # m => n \in Needs(m)
      BY <1>7, <3>2 DEF Needs
    <3>4. n # m => super[d] \in RW_LOADED
      BY <1>1, <1>2, <3>2, <3>3 DEF ImagesOK
    <3> QED BY <1>7, <3>2, <3>4
  <2>3. Closed(RW_LOADED) /\ Closed(RW_LOADED \cup ToSet(classes[m]))
    BY <1>7, <2>1, <2>2 DEF Closed
  <2>4. PICK L, R : L = loadable_classes /\ R = RW_LOADED
    OBVIOUS
  <2>5. L \in Seq(Class \cup {Nil}) /\ R \in SUBSET Class
    BY <1>6, <2>4
  <2>6. Closed(R) /\ Closed(R \cup ToSet(classes[m]))
    BY <2>3, <2>4
  <2>7. LET n2 == Schedule(m, [list |-> L, loaded |-> R])
        IN  Grown(L, R, n2) /\ n2.loaded = R \cup ToSet(classes[m])
    BY <1>a, <1>8, <2>5, <2>6, ImageGrows
  <2> QED BY <1>3, <1>7, <2>4, <2>7
<1>15. PICK s \in Seq(Class \cup {Nil}) : s = new.list
  BY <1>14 DEF Grown, State
<1>16. PICK b \in Nat : b = Len(loadable_classes)
  BY <1>6, LenProperties
<1>17. PICK e \in Nat : e = Len(s)
  BY LenProperties
<1>18. /\ e >= b /\ \A k \in 1 .. b : s[k] = loadable_classes[k]
       /\ \A k \in 1 .. e : k > b =>
             /\ s[k] \in C \cap HasLoad
             /\ super[s[k]] \in HasLoad \ RW_LOADED =>
                   \E j \in 1 .. k - 1 : j > b /\ s[j] = super[s[k]]
             /\ \A j \in 1 .. e : j > b /\ s[j] = s[k] => j = k
       /\ \A c \in C \cap HasLoad : \E k \in 1 .. e : k > b /\ s[k] = c
  <2>1. (new.loaded \ RW_LOADED) \cap HasLoad = C \cap HasLoad
    BY <1>8, <1>10, <1>11, <1>12, <1>14
  <2> QED BY <1>14, <1>15, <1>16, <1>17, <2>1 DEF Grown
<1>19. InClasses = {loadable_classes[k] : k \in 1 .. b} \ {Nil}
  BY <1>1, <1>16, ListsTyped
<1>20. InClasses' = InClasses \cup (C \cap HasLoad)
  <2>1. ToSet(s) = {s[k] : k \in 1 .. e}
    BY <1>17, MembersAre
  <2>2. InClasses' = {s[k] : k \in 1 .. e} \ {Nil}
    BY <1>5, <1>15, <2>1 DEF InClasses
  <2>3. \A k \in 1 .. e : k \in 1 .. b \/ k > b
    OBVIOUS
  <2>4. \A k \in 1 .. b : k \in 1 .. e
    BY <1>18
  <2>5. \A k \in 1 .. e : s[k] # Nil => s[k] \in InClasses \cup (C \cap HasLoad)
    BY <1>18, <1>19, <2>3
  <2>6. \A x \in InClasses \cup (C \cap HasLoad) : x # Nil /\ \E k \in 1 .. e : s[k] = x
    BY <1>8, <1>18, <1>19, <2>4
  <2> QED BY <2>2, <2>5, <2>6
\* What a category list adds.
<1>21. /\ th \in Seq(Category \cap HasLoad) /\ ToSet(th) = D \cap HasLoad /\ IsInjective(th)
  <2>1. categories[m] \in Seq(Category) /\ IsInjective(categories[m])
    BY <1>a DEF LoadMethodsAssumption
  <2> QED BY <1>4, <1>7, <2>1, ThoseIs
<1>22. PICK h \in Nat : h = Len(loadable_categories)
  BY <1>6, LenProperties
<1>23. PICK g \in Nat : g = Len(th)
  BY <1>21, LenProperties
<1>24. PICK z : z = loadable_categories'
  OBVIOUS
<1>25. /\ z \in Seq(Category \cup {Nil}) /\ Len(z) = h + g
       /\ \A k \in 1 .. h : z[k] = loadable_categories[k]
       /\ \A k \in 1 .. g : z[h + k] = th[k]
  <2>1. th \in Seq(Category \cup {Nil})
    BY <1>21
  <2> QED BY <1>5, <1>6, <1>22, <1>23, <1>24, <2>1, ConcatProperties
<1>26. DOMAIN th = 1 .. g /\ D \cap HasLoad = {th[k] : k \in 1 .. g}
  BY <1>21, <1>23, MembersAre
<1>27. InCategories = {loadable_categories[k] : k \in 1 .. h} \ {Nil}
  BY <1>1, <1>22, ListsTyped
<1>28. \A k \in 1 .. h + g : k \in 1 .. h \/ (k - h \in 1 .. g /\ h + (k - h) = k)
  OBVIOUS
<1>29. InCategories' = InCategories \cup (D \cap HasLoad)
  <2>1. ToSet(z) = {z[k] : k \in 1 .. h + g}
    BY <1>25, MembersAre
  <2>2. InCategories' = {z[k] : k \in 1 .. h + g} \ {Nil}
    BY <1>24, <2>1 DEF InCategories
  <2>3. \A k \in 1 .. h + g : z[k] # Nil => z[k] \in InCategories \cup (D \cap HasLoad)
    <3> SUFFICES ASSUME NEW k \in 1 .. h + g, z[k] # Nil
                 PROVE  z[k] \in InCategories \cup (D \cap HasLoad)
      OBVIOUS
    <3>1. CASE k \in 1 .. h
      BY <1>25, <1>27, <3>1
    <3>2. CASE k \notin 1 .. h
      <4>1. k - h \in 1 .. g /\ z[k] = th[k - h]
        BY <1>25, <1>28, <3>2
      <4> QED BY <1>26, <4>1
    <3> QED BY <3>1, <3>2
  <2>4. \A x \in InCategories : x # Nil /\ \E k \in 1 .. h + g : z[k] = x
    <3>1. \A k \in 1 .. h : k \in 1 .. h + g
      OBVIOUS
    <3> QED BY <1>25, <1>27, <3>1
  <2>5. \A x \in D \cap HasLoad : x # Nil /\ \E k \in 1 .. h + g : z[k] = x
    <3>1. \A k \in 1 .. g : h + k \in 1 .. h + g
      OBVIOUS
    <3> QED BY <1>8, <1>25, <1>26, <3>1
  <2> QED BY <2>2, <2>3, <2>4, <2>5
\* The rest of the state.
<1>30. /\ pc = "idle" => ~loading /\ loading' = TRUE /\ pc' = "classes" /\ running' = Nil
       /\ pc # "idle" => loading /\ UNCHANGED <<loading, pc, running>> /\ running # Nil
  BY <1>1, <1>2 DEF LoadImage, NotLoading, LoopOK
<1>31. LeftAt' = LeftAt /\ Ahead' = Ahead
  <2>1. CASE pc = "idle"
    <3>1. detached = <<>> /\ Len(<<>>) = 0 /\ 1 .. 0 = {}
      BY <1>1, <2>1 DEF LoopOK
    <3>2. LeftAt = {} /\ LeftAt' = {}
      BY <1>2, <3>1 DEF LeftAt
    <3> QED BY <3>2 DEF Ahead
  <2>2. CASE pc # "idle"
    <3>1. LeftAt' = LeftAt
      BY <1>2, <1>30, <2>2 DEF LeftAt
    <3> QED BY <1>2, <3>1 DEF Ahead
  <2> QED BY <2>1, <2>2
<1>32. Pending' = Pending \cup ((C \cup D) \cap HasLoad)
  BY <1>20, <1>29, <1>31 DEF Pending
<1>33. LoadTypeOK'
  <2>1. RW_LOADED' \in SUBSET Class
    BY <1>5, <1>6, <1>8, <1>14
  <2>2. /\ loading' \in BOOLEAN /\ running' \in Entry \cup {Nil}
        /\ pc' \in {"idle", "classes", "call_classes", "call_categories"}
    BY <1>1, <1>30 DEF LoadTypeOK
  <2>3. image' \in [Image -> {"new", "loaded", "unloaded"}]
    BY <1>2, <1>6
  <2>4. loadable_classes' \in Seq(Class \cup {Nil}) /\ loadable_categories' \in Seq(Category \cup {Nil})
    BY <1>5, <1>15, <1>24, <1>25
  <2> QED BY <1>1, <1>2, <2>1, <2>2, <2>3, <2>4 DEF LoadTypeOK
<1>34. LoopOK'
  <2>1. CASE pc = "idle"
    <3>1. detached' = <<>> /\ loading' = TRUE /\ pc' = "classes" /\ running' = Nil
      BY <1>1, <1>2, <1>30, <2>1 DEF LoopOK
    <3> QED BY <3>1 DEF LoopOK
  <2>2. CASE pc # "idle"
    <3>1. UNCHANGED <<loading, pc, running, detached, index>>
      BY <1>2, <1>30, <2>2
    <3> QED BY <1>1, <2>2, <3>1 DEF LoopOK
  <2> QED BY <2>1, <2>2
<1>35. ImagesOK'
  <2>1. RW_LOADED' = UNION {ToSet(classes[n]) : n \in {n \in Image : image'[n] = "loaded"}}
    <3>1. RW_LOADED' = RW_LOADED \cup C
      BY <1>5, <1>14
    <3>2. RW_LOADED = UNION {ToSet(classes[n]) : n \in {n \in Image : image[n] = "loaded"}}
      BY <1>1 DEF ImagesOK
    <3>3. {n \in Image : image'[n] = "loaded"} = {n \in Image : image[n] = "loaded"} \cup {m}
      BY <1>9
    <3> QED BY <1>7, <3>1, <3>2, <3>3
  <2>2. \A p \in Image : image'[p] = "loaded" => \A n \in Needs(p) : image'[n] = "loaded"
    <3>1. \A p \in Image : image[p] = "loaded" => \A n \in Needs(p) : image[n] = "loaded"
      BY <1>1 DEF ImagesOK
    <3>2. \A p \in Image : Needs(p) \subseteq Image
      BY DEF Needs
    <3> QED BY <1>2, <1>9, <3>1, <3>2
  <2> QED BY <2>1, <2>2 DEF ImagesOK
<1>36. Pending \cap (C \cup D) = {}
  BY <1>1, <1>11 DEF ListedOK
<1>37. OnceOK'
  <2>1. OnceIn(detached', LeftAt')
    BY <1>1, <1>2, <1>31 DEF OnceOK
  <2>2. OnceIn(s, 1 .. e)
    <3>1. \A k \in 1 .. e : k \in 1 .. b \/ k > b
      OBVIOUS
    <3>2. \A j, k \in 1 .. b : s[j] = s[k] /\ s[j] # Nil => j = k
      BY <1>1, <1>16, <1>18 DEF OnceOK, OnceIn
    <3>3. \A k \in 1 .. b : s[k] # Nil => s[k] \notin C
      <4>1. InClasses \cap C = {}
        BY <1>36 DEF Pending
      <4> QED BY <1>18, <1>19, <4>1
    <3>4. ASSUME NEW j \in 1 .. e, NEW k \in 1 .. e, s[j] = s[k], s[j] # Nil PROVE j = k
      <4>1. j > b => s[j] \in C /\ (k > b => j = k)
        BY <1>18, <3>4
      <4>2. k > b => s[k] \in C
        BY <1>18
      <4> QED BY <3>1, <3>2, <3>3, <3>4, <4>1, <4>2
    <3> QED BY <3>4 DEF OnceIn
  <2>3. OnceIn(z, 1 .. h + g)
    <3>1. \A j, k \in 1 .. h : z[j] = z[k] /\ z[j] # Nil => j = k
      BY <1>1, <1>22, <1>25 DEF OnceOK, OnceIn
    <3>2. \A k \in 1 .. h : z[k] # Nil => z[k] \notin D
      <4>1. InCategories \cap D = {}
        BY <1>36 DEF Pending
      <4> QED BY <1>25, <1>27, <4>1
    <3>3. \A k \in 1 .. h + g : k \notin 1 .. h => k - h \in 1 .. g /\ z[k] = th[k - h] /\ z[k] \in D
      <4> SUFFICES ASSUME NEW k \in 1 .. h + g, k \notin 1 .. h
                   PROVE  k - h \in 1 .. g /\ z[k] = th[k - h] /\ z[k] \in D
        OBVIOUS
      <4>1. k - h \in 1 .. g /\ z[k] = th[k - h]
        BY <1>25, <1>28
      <4> QED BY <1>26, <4>1
    <3>4. \A j, k \in 1 .. g : th[j] = th[k] => j = k
      BY <1>21, <1>26 DEF IsInjective
    <3>5. ASSUME NEW j \in 1 .. h + g, NEW k \in 1 .. h + g, z[j] = z[k], z[j] # Nil PROVE j = k
      <4>1. CASE j \in 1 .. h /\ k \in 1 .. h
        BY <3>1, <3>5, <4>1
      <4>2. CASE j \notin 1 .. h /\ k \notin 1 .. h
        <5>1. j - h = k - h
          BY <3>3, <3>4, <3>5, <4>2
        <5> QED BY <5>1
      <4>3. CASE ~ (j \in 1 .. h <=> k \in 1 .. h)
        BY <3>2, <3>3, <3>5, <4>3
      <4> QED BY <4>1, <4>2, <4>3
    <3> QED BY <3>5 DEF OnceIn
  <2>4. Ahead' \cap (InClasses' \cup InCategories') = {}
    <3>1. Ahead \cap (C \cup D) = {} /\ Ahead \cap (InClasses \cup InCategories) = {}
      BY <1>1, <1>36 DEF Pending, OnceOK
    <3> QED BY <1>20, <1>29, <1>31, <3>1
  <2>5. ToSet(called') \cap Pending' = {}
    BY <1>1, <1>2, <1>13, <1>32 DEF OnceOK
  <2>6. IsInjective(called')
    BY <1>1, <1>2 DEF OnceOK
  <2>7. /\ OnceIn(loadable_classes', 1 .. Len(loadable_classes'))
        /\ OnceIn(loadable_categories', 1 .. Len(loadable_categories'))
    BY <1>5, <1>15, <1>17, <1>24, <1>25, <2>2, <2>3
  <2> QED BY <2>1, <2>4, <2>5, <2>6, <2>7 DEF OnceOK
<1>38. ListedOK'
  <2>1. Present' \cap HasLoad \subseteq ToSet(called') \cup Pending'
    BY <1>1, <1>2, <1>10, <1>32 DEF ListedOK
  <2>2. Pending' \subseteq Present' \cap HasLoad
    BY <1>1, <1>10, <1>32 DEF ListedOK
  <2>3. running' # Nil => running' \in Present'
    BY <1>1, <1>10, <1>30 DEF ListedOK
  <2>4. \A n \in Image : image'[n] = "new" => Contents(n) \cap ToSet(called') = {}
    BY <1>1, <1>2, <1>9 DEF ListedOK
  <2> QED BY <2>1, <2>2, <2>3, <2>4 DEF ListedOK
<1>39. OrderOK'
  <2>1. AfterSuper(detached', LeftAt', ToSet(called'))
    BY <1>1, <1>2, <1>31 DEF OrderOK
  <2>2. \A k \in LeftAt' : detached'[k] \in Category /\ parent[detached'[k]] \in HasLoad =>
             parent[detached'[k]] \in ToSet(called')
    BY <1>1, <1>2, <1>31 DEF OrderOK
  <2>3. AfterSuper(s, 1 .. e, ToSet(called) \cup Ahead)
    <3> SUFFICES ASSUME NEW k \in 1 .. e, s[k] \in Class, super[s[k]] \in HasLoad,
                        super[s[k]] \notin ToSet(called) \cup Ahead
                 PROVE  \E j \in 1 .. e : j < k /\ s[j] = super[s[k]]
      BY DEF AfterSuper
    <3>1. \A j \in 1 .. b : j \in 1 .. e
      BY <1>18
    <3>2. CASE k \in 1 .. b
      <4>1. s[k] = loadable_classes[k]
        BY <1>18, <3>2
      <4>2. PICK j \in 1 .. b : j < k /\ loadable_classes[j] = super[loadable_classes[k]]
        BY <1>1, <1>16, <3>2, <4>1 DEF OrderOK, AfterSuper
      <4> QED BY <1>18, <3>1, <4>1, <4>2
    <3>3. CASE k > b
      <4>1. CASE super[s[k]] \notin RW_LOADED
        <5>1. PICK j \in 1 .. k - 1 : j > b /\ s[j] = super[s[k]]
          BY <1>18, <3>3, <4>1
        <5>2. j \in 1 .. e /\ j < k
          OBVIOUS
        <5> QED BY <5>1, <5>2
      <4>2. CASE super[s[k]] \in RW_LOADED
        <5>1. super[s[k]] \in Present \cap Class
          BY <1>12, <4>2
        <5>2. super[s[k]] \in InClasses
          <6>1. InCategories \subseteq Category
            BY <1>1, ListsTyped
          <6>2. super[s[k]] \in ToSet(called) \cup Pending
            BY <1>1, <5>1 DEF ListedOK
          <6> QED BY <1>8, <5>1, <6>1, <6>2 DEF Pending
        <5>3. PICK j \in 1 .. b : loadable_classes[j] = super[s[k]]
          BY <1>19, <5>2
        <5>4. j \in 1 .. e /\ j < k
          BY <3>1, <3>3
        <5> QED BY <1>18, <5>3, <5>4
      <4> QED BY <4>1, <4>2
    <3> QED BY <3>2, <3>3
  <2>4. AfterSuper(loadable_classes', 1 .. Len(loadable_classes'), ToSet(called') \cup Ahead')
    BY <1>2, <1>5, <1>15, <1>17, <1>31, <2>3
  <2> QED BY <2>1, <2>2, <2>4 DEF OrderOK
<1>40. LoadOrder'
  BY <1>1, <1>2, OrderKept
<1> QED BY <1>33, <1>34, <1>35, <1>37, <1>38, <1>39, <1>40 DEF LoadIInv

LEMMA Removed ==
  ASSUME NEW S, NEW seq \in Seq(S \cup {Nil}), NEW gone
  PROVE  /\ RemoveFromList(seq, gone) \in Seq(S \cup {Nil})
         /\ Len(RemoveFromList(seq, gone)) = Len(seq)
<1>1. PICK n \in Nat : n = Len(seq)
  BY LenProperties
<1>2. DOMAIN seq = 1 .. n /\ \A k \in 1 .. n : seq[k] \in S \cup {Nil}
  BY <1>1, LenProperties, ElementOfSeq
<1> DEFINE r == [k \in 1 .. n |-> IF seq[k] \in gone THEN Nil ELSE seq[k]]
<1>3. RemoveFromList(seq, gone) = r
  BY <1>2 DEF RemoveFromList
<1>4. \A k \in 1 .. n : r[k] \in S \cup {Nil}
  BY <1>2
<1>5. r \in Seq(S \cup {Nil}) /\ Len(r) = n
  <2> HIDE DEF r
  <2>1. r \in [1 .. n -> S \cup {Nil}]
    BY <1>4 DEF r
  <2> QED BY <2>1
<1> QED BY <1>1, <1>3, <1>5

\* What goes with an image: it is taken off the lists, and nothing of it is ahead.
LEMMA UnloadImageInv ==
  ASSUME Assumed, LoadIInv, NEW m \in Image, UnloadImage(m)
  PROVE  LoadIInv'
<1>a. LoadMethodsAssumption /\ UnloadDetached = FALSE
  BY DEF Assumed
<1>1. LoadTypeOK /\ LoopOK /\ ImagesOK /\ OnceOK /\ ListedOK /\ OrderOK /\ LoadOrder
  BY DEF LoadIInv
<1>2. /\ image[m] = "loaded" /\ \A n \in Image : m \in Needs(n) => image[n] # "loaded"
      /\ running \notin Contents(m) /\ ToSet(detached) \cap Contents(m) = {}
      /\ image' = [image EXCEPT ![m] = "unloaded"]
      /\ RW_LOADED' = RW_LOADED \ ToSet(classes[m])
      /\ loadable_classes' = RemoveFromList(loadable_classes, ToSet(classes[m]))
      /\ loadable_categories' = RemoveFromList(loadable_categories, ToSet(categories[m]))
      /\ UNCHANGED <<loading, pc, detached, index, running, called>>
  BY <1>a DEF UnloadImage
<1>3. /\ image \in [Image -> {"new", "loaded", "unloaded"}]
      /\ RW_LOADED \in SUBSET Class
      /\ loadable_classes \in Seq(Class \cup {Nil})
      /\ loadable_categories \in Seq(Category \cup {Nil})
      /\ detached \in Seq(Entry \cup {Nil})
  BY <1>1 DEF LoadTypeOK
<1>4. PICK C, D : C = ToSet(classes[m]) /\ D = ToSet(categories[m])
  OBVIOUS
<1>5. /\ C \subseteq Class /\ D \subseteq Category /\ Contents(m) = C \cup D
      /\ Class \cap Category = {} /\ Nil \notin Class /\ Nil \notin Category
      /\ HasLoad \subseteq Class \cup Category /\ Nil \notin HasLoad
  BY <1>a, <1>4, ContentsAre, Kinds DEF Contents
<1>6. image'[m] = "unloaded" /\ \A n \in Image : n # m => image'[n] = image[n]
  BY <1>2, <1>3
<1>7. Present' = Present \ (C \cup D)
  <2>1. \A n \in Image : n # m => Contents(n) \cap Contents(m) = {}
    BY <1>a DEF LoadMethodsAssumption
  <2> QED BY <1>2, <1>5, <1>6, <2>1 DEF Present
<1>8. PICK b \in Nat : b = Len(loadable_classes)
  BY <1>3, LenProperties
<1>9. PICK s : s = loadable_classes'
  OBVIOUS
<1>10. /\ s \in Seq(Class \cup {Nil}) /\ Len(s) = b
       /\ \A k \in 1 .. b : s[k] = IF loadable_classes[k] \in C THEN Nil ELSE loadable_classes[k]
  <2>1. PICK q \in Seq(Class \cup {Nil}) : q = loadable_classes
    BY <1>3
  <2>2. /\ RemoveFromList(q, C) \in Seq(Class \cup {Nil})
        /\ Len(RemoveFromList(q, C)) = Len(q)
        /\ \A k \in 1 .. Len(q) :
              RemoveFromList(q, C)[k] = IF q[k] \in C THEN Nil ELSE q[k]
    <3>1. RemoveFromList(q, C) \in Seq(Class \cup {Nil})
      BY Removed
    <3>2. Len(RemoveFromList(q, C)) = Len(q)
      BY Removed
    <3>3. \A k \in 1 .. Len(q) :
              RemoveFromList(q, C)[k] = IF q[k] \in C THEN Nil ELSE q[k]
      BY LenProperties DEF RemoveFromList
    <3> QED BY <3>1, <3>2, <3>3
  <2>3. s = RemoveFromList(q, C)
    BY <1>2, <1>4, <1>9, <2>1
  <2> QED BY <1>8, <2>1, <2>2, <2>3
<1>11. PICK h \in Nat : h = Len(loadable_categories)
  BY <1>3, LenProperties
<1>12. PICK z : z = loadable_categories'
  OBVIOUS
<1>13. /\ z \in Seq(Category \cup {Nil}) /\ Len(z) = h
       /\ \A k \in 1 .. h : z[k] = IF loadable_categories[k] \in D THEN Nil ELSE loadable_categories[k]
  <2>1. PICK q \in Seq(Category \cup {Nil}) : q = loadable_categories
    BY <1>3
  <2>2. /\ RemoveFromList(q, D) \in Seq(Category \cup {Nil})
        /\ Len(RemoveFromList(q, D)) = Len(q)
        /\ \A k \in 1 .. Len(q) :
              RemoveFromList(q, D)[k] = IF q[k] \in D THEN Nil ELSE q[k]
    <3>1. RemoveFromList(q, D) \in Seq(Category \cup {Nil})
      BY Removed
    <3>2. Len(RemoveFromList(q, D)) = Len(q)
      BY Removed
    <3>3. \A k \in 1 .. Len(q) :
              RemoveFromList(q, D)[k] = IF q[k] \in D THEN Nil ELSE q[k]
      BY LenProperties DEF RemoveFromList
    <3> QED BY <3>1, <3>2, <3>3
  <2>3. z = RemoveFromList(q, D)
    BY <1>2, <1>4, <1>12, <2>1
  <2> QED BY <1>11, <2>1, <2>2, <2>3
<1>14. InClasses' = InClasses \ C
  <2>1. InClasses = {loadable_classes[k] : k \in 1 .. b} \ {Nil}
    BY <1>1, <1>8, ListsTyped
  <2>2. ToSet(s) = {s[k] : k \in 1 .. b}
    BY <1>10, MembersAre
  <2>3. InClasses' = {s[k] : k \in 1 .. b} \ {Nil}
    BY <1>9, <2>2 DEF InClasses
  <2>4. \A k \in 1 .. b : s[k] # Nil => s[k] = loadable_classes[k] /\ s[k] \notin C
    BY <1>10
  <2>5. \A k \in 1 .. b : loadable_classes[k] \notin C => s[k] = loadable_classes[k]
    BY <1>10
  <2> QED BY <2>1, <2>3, <2>4, <2>5
<1>15. InCategories' = InCategories \ D
  <2>1. InCategories = {loadable_categories[k] : k \in 1 .. h} \ {Nil}
    BY <1>1, <1>11, ListsTyped
  <2>2. ToSet(z) = {z[k] : k \in 1 .. h}
    BY <1>13, MembersAre
  <2>3. InCategories' = {z[k] : k \in 1 .. h} \ {Nil}
    BY <1>12, <2>2 DEF InCategories
  <2>4. \A k \in 1 .. h : z[k] # Nil => z[k] = loadable_categories[k] /\ z[k] \notin D
    BY <1>13
  <2>5. \A k \in 1 .. h : loadable_categories[k] \notin D => z[k] = loadable_categories[k]
    BY <1>13
  <2> QED BY <2>1, <2>3, <2>4, <2>5
<1>16. LeftAt' = LeftAt /\ Ahead' = Ahead
  <2>1. LeftAt' = LeftAt
    BY <1>2 DEF LeftAt
  <2> QED BY <1>2, <2>1 DEF Ahead
<1>17. Ahead \cap (C \cup D) = {}
  <2>1. ToSet(detached) = {detached[k] : k \in 1 .. Len(detached)}
    BY <1>3, MembersAre
  <2>2. Ahead \subseteq ToSet(detached)
    BY <2>1 DEF Ahead, LeftAt
  <2> QED BY <1>2, <1>5, <2>2
<1>18. Pending' = Pending \ (C \cup D)
  <2>1. InClasses \subseteq Class /\ InCategories \subseteq Category
    BY <1>1, ListsTyped
  <2>2. InClasses \cap D = {} /\ InCategories \cap C = {}
    BY <1>5, <2>1
  <2> QED BY <1>14, <1>15, <1>16, <1>17, <2>2 DEF Pending
<1>19. LoadTypeOK'
  <2>1. image' \in [Image -> {"new", "loaded", "unloaded"}]
    BY <1>2, <1>3
  <2>2. RW_LOADED' \in SUBSET Class
    BY <1>2, <1>3
  <2> QED BY <1>1, <1>2, <1>9, <1>10, <1>12, <1>13, <2>1, <2>2 DEF LoadTypeOK
<1>20. LoopOK'
  <2>1. pc = "idle" => loadable_classes' = <<>> /\ loadable_categories' = <<>>
    <3> SUFFICES ASSUME pc = "idle" PROVE s = <<>> /\ z = <<>>
      BY <1>9, <1>12
    <3>1. loadable_classes = <<>> /\ loadable_categories = <<>>
      BY <1>1 DEF LoopOK
    <3>2. Len(s) = 0 /\ Len(z) = 0
      BY <1>8, <1>10, <1>11, <1>13, <3>1
    <3> QED BY <1>10, <1>13, <3>2, EmptySeq
  <2> QED BY <1>1, <1>2, <2>1 DEF LoopOK
<1>21. ImagesOK'
  <2>1. RW_LOADED' = UNION {ToSet(classes[n]) : n \in {n \in Image : image'[n] = "loaded"}}
    <3>1. RW_LOADED = UNION {ToSet(classes[n]) : n \in {n \in Image : image[n] = "loaded"}}
      BY <1>1 DEF ImagesOK
    <3>2. {n \in Image : image'[n] = "loaded"} = {n \in Image : image[n] = "loaded"} \ {m}
      BY <1>6
    <3>3. \A n \in Image : n # m => ToSet(classes[n]) \cap C = {}
      <4>1. \A n \in Image : n # m => Contents(n) \cap Contents(m) = {}
        BY <1>a DEF LoadMethodsAssumption
      <4> QED BY <1>4, <4>1 DEF Contents
    <3> QED BY <1>2, <1>4, <3>1, <3>2, <3>3
  <2>2. \A p \in Image : image'[p] = "loaded" => \A n \in Needs(p) : image'[n] = "loaded"
    <3>1. \A p \in Image : image[p] = "loaded" => \A n \in Needs(p) : image[n] = "loaded"
      BY <1>1 DEF ImagesOK
    <3>2. \A p \in Image : Needs(p) \subseteq Image
      BY DEF Needs
    <3> QED BY <1>2, <1>6, <3>1, <3>2
  <2> QED BY <2>1, <2>2 DEF ImagesOK
<1>22. OnceOK'
  <2>1. OnceIn(detached', LeftAt')
    BY <1>1, <1>2, <1>16 DEF OnceOK
  <2>2. OnceIn(s, 1 .. b)
    BY <1>1, <1>8, <1>10 DEF OnceOK, OnceIn
  <2>3. OnceIn(z, 1 .. h)
    BY <1>1, <1>11, <1>13 DEF OnceOK, OnceIn
  <2>4. Ahead' \cap (InClasses' \cup InCategories') = {}
    BY <1>1, <1>14, <1>15, <1>16 DEF OnceOK
  <2>5. ToSet(called') \cap Pending' = {} /\ IsInjective(called')
    BY <1>1, <1>2, <1>18 DEF OnceOK
  <2>6. /\ OnceIn(loadable_classes', 1 .. Len(loadable_classes'))
        /\ OnceIn(loadable_categories', 1 .. Len(loadable_categories'))
    BY <1>9, <1>10, <1>12, <1>13, <2>2, <2>3
  <2> QED BY <2>1, <2>4, <2>5, <2>6 DEF OnceOK
<1>23. ListedOK'
  <2>1. Present' \cap HasLoad \subseteq ToSet(called') \cup Pending'
    BY <1>1, <1>2, <1>7, <1>18 DEF ListedOK
  <2>2. Pending' \subseteq Present' \cap HasLoad
    BY <1>1, <1>7, <1>18 DEF ListedOK
  <2>3. running' # Nil => running' \in Present'
    BY <1>1, <1>2, <1>5, <1>7 DEF ListedOK
  <2>4. \A n \in Image : image'[n] = "new" => Contents(n) \cap ToSet(called') = {}
    BY <1>1, <1>2, <1>6 DEF ListedOK
  <2> QED BY <2>1, <2>2, <2>3, <2>4 DEF ListedOK
<1>24. OrderOK'
  <2>1. AfterSuper(detached', LeftAt', ToSet(called'))
    BY <1>1, <1>2, <1>16 DEF OrderOK
  <2>2. \A k \in LeftAt' : detached'[k] \in Category /\ parent[detached'[k]] \in HasLoad =>
             parent[detached'[k]] \in ToSet(called')
    BY <1>1, <1>2, <1>16 DEF OrderOK
  <2>3. AfterSuper(s, 1 .. b, ToSet(called) \cup Ahead)
    <3> SUFFICES ASSUME NEW k \in 1 .. b, s[k] \in Class, super[s[k]] \in HasLoad,
                        super[s[k]] \notin ToSet(called) \cup Ahead
                 PROVE  \E j \in 1 .. b : j < k /\ s[j] = super[s[k]]
      BY DEF AfterSuper
    <3>1. s[k] = loadable_classes[k] /\ s[k] \notin C
      BY <1>5, <1>10
    <3>2. PICK j \in 1 .. b : j < k /\ loadable_classes[j] = super[s[k]]
      BY <1>1, <1>8, <3>1 DEF OrderOK, AfterSuper
    <3>3. super[s[k]] \notin C
      <4> SUFFICES ASSUME super[s[k]] \in C PROVE FALSE
        OBVIOUS
      <4>1. s[k] \in InClasses
        BY <1>1, <1>5, <1>8, <3>1, ListsTyped
      <4>2. s[k] \in Present
        BY <1>1, <4>1 DEF ListedOK, Pending
      <4>3. PICK n \in Image : image[n] = "loaded" /\ s[k] \in Contents(n)
        BY <4>2 DEF Present
      <4>4. s[k] \in ToSet(classes[n])
        BY <1>a, <4>3, ContentsAre
      <4>5. n # m
        BY <1>4, <3>1, <4>4
      <4>6. m \in Needs(n)
        BY <1>4, <4>4, <4>5 DEF Needs
      <4> QED BY <1>2, <4>3, <4>6
    <3> QED BY <1>10, <3>2, <3>3
  <2>4. AfterSuper(loadable_classes', 1 .. Len(loadable_classes'), ToSet(called') \cup Ahead')
    BY <1>2, <1>9, <1>10, <1>16, <2>3
  <2> QED BY <2>1, <2>2, <2>4 DEF OrderOK
<1>25. LoadOrder'
  BY <1>1, <1>2, OrderKept
<1> QED BY <1>19, <1>20, <1>21, <1>22, <1>23, <1>24, <1>25 DEF LoadIInv

LEMMA LoadStutterInv ==
  ASSUME LoadIInv, UNCHANGED loadVars
  PROVE  LoadIInv'
<1>1. UNCHANGED <<image, RW_LOADED, loadable_classes, loadable_categories, loading, pc,
                  detached, index, running, called>>
  BY DEF loadVars
<1>2. LeftAt' = LeftAt /\ Ahead' = Ahead
  BY <1>1 DEF LeftAt, Ahead
<1>3. Pending' = Pending /\ InClasses' = InClasses /\ InCategories' = InCategories /\ Present' = Present
  BY <1>1, <1>2 DEF Pending, InClasses, InCategories, Present
<1>4. LoadTypeOK' /\ LoopOK'
  BY <1>1 DEF LoadIInv, LoadTypeOK, LoopOK
<1>5. ImagesOK' /\ LoadOrder'
  BY <1>1, ImagesKept, OrderKept DEF LoadIInv
<1>6. OnceOK'
  BY <1>1, <1>2, <1>3 DEF LoadIInv, OnceOK
<1>7. ListedOK'
  BY <1>1, <1>3 DEF LoadIInv, ListedOK
<1>8. OrderOK'
  BY <1>1, <1>2 DEF LoadIInv, OrderOK
<1> QED BY <1>4, <1>5, <1>6, <1>7, <1>8 DEF LoadIInv

LEMMA LoadInvariance ==
  ASSUME Assumed
  PROVE  LoadSpec => []LoadIInv
<1>1. LoadInit => LoadIInv
  BY LoadInitInv
<1>2. LoadIInv /\ [LoadNext]_loadVars => LoadIInv'
  <2> SUFFICES ASSUME LoadIInv, [LoadNext]_loadVars PROVE LoadIInv'
    OBVIOUS
  <2>1. CASE LoadNext
    BY <2>1, ClassesInv, CallInv, CallReturnsInv, ClassesDoneInv, CategoriesDoneInv,
       LoadImageInv, UnloadImageInv DEF LoadNext
  <2>2. CASE UNCHANGED loadVars
    BY <2>2, LoadStutterInv
  <2> QED BY <2>1, <2>2
<1> QED BY <1>1, <1>2, PTL DEF LoadSpec

-----------------------------------------------------------------------------
\* Every +load method of a mapped image is called, once, while its image is mapped,
\* and none is forgotten because it was added during a +load call
\* (objc-loadmethod.mm:297-347): whatever the images hold and however the calls that
\* map and unmap them nest, as long as none unmaps what is in the list being worked on.
THEOREM LoadCallsStayConsistent ==
  ASSUME LoadMethodsAssumption, UnloadDetached = FALSE
  PROVE  LoadSpec => []CallsConsistent
<1>1. LoadIInv => CallsConsistent
  <2> SUFFICES ASSUME LoadIInv PROVE CallsConsistent
    OBVIOUS
  <2>1. LoadTypeOK /\ LoopOK /\ OnceOK /\ ListedOK
    BY DEF LoadIInv
  <2>2. ASSUME pc = "idle" PROVE Pending = {}
    <3>1. loadable_classes = <<>> /\ loadable_categories = <<>> /\ detached = <<>>
      BY <2>1, <2>2 DEF LoopOK
    <3>2. InClasses = {} /\ InCategories = {}
      BY <3>1 DEF InClasses, InCategories, ToSet
    <3> QED BY <2>1, <3>1, <3>2, NothingAhead DEF Pending
  <2>3. CalledOnce
    BY <2>1, <2>2 DEF CalledOnce, OnceOK, ListedOK
  <2> QED BY <2>1, <2>3 DEF CallsConsistent, OnlyMapped, ListedOK
<1>2. Assumed
  BY DEF Assumed
<1> QED BY <1>1, <1>2, LoadInvariance, PTL

\* "Class +load methods are called superclass-first.  Category +load methods are not
\* called until after the parent class's +load" (objc-loadmethod.mm:307-315), whatever
\* the images hold and however the calls nest.
THEOREM LoadsInOrder ==
  ASSUME LoadMethodsAssumption, UnloadDetached = FALSE
  PROVE  LoadSpec => []LoadOrder
<1>1. LoadIInv => LoadOrder
  BY DEF LoadIInv
<1>2. Assumed
  BY DEF Assumed
<1> QED BY <1>1, <1>2, LoadInvariance, PTL
=============================================================================
