------------------------------ MODULE ClassInit ------------------------------
(***************************************************************************)
(* +initialize: _class_initialize of objc-initialize.mm, reached from      *)
(* prepareForMethodLookup of objc-runtime-new.mm.                          *)
(*                                                                         *)
(* A message to a class that is not INITIALIZED first initializes its      *)
(* superclasses, then claims the class by setting INITIALIZING under the   *)
(* monitor classInitLock and sends it +initialize.  The claiming thread    *)
(* may message the class meanwhile; every other one waits until it is      *)
(* INITIALIZED.  A class whose +initialize ends before that of its         *)
(* superclass, because the superclass's own +initialize messaged it, is    *)
(* left pending and marked when the superclass is.                         *)
(*                                                                         *)
(* A thread's calls are a stack of frames, one per call of                 *)
(* _class_initialize under way.  Reads outside the monitor are steps of    *)
(* their own.                                                              *)
(***************************************************************************)
EXTENDS ClassHierarchy, Integers, Sequences

CONSTANTS
    Sender,
    messages    \* the classes that each class's +initialize messages

ASSUME ClassInitAssumption ==
    /\ Nil \notin Sender
    /\ messages \in [Class -> SUBSET Class]

VARIABLES
    flags,      \* of each class: RW_INITIALIZING, RW_INITIALIZED
    list,       \* per thread: _objc_initializing_classes
    pending,    \* pendingInitializeMap: per superclass the subclasses to mark
    monitor,    \* classInitLock: the holder, or Nil
    stack,      \* per thread: its calls of _class_initialize, innermost first
    marking,    \* per thread: the classes _finishInitializing has to mark
    fatal       \* whether _objc_fatal was called, which ends the process

initializeVars == <<flags, list, pending, monitor, stack, marking, fatal>>

InitializeInit ==
    /\ flags = [c \in Class |-> {}]
    /\ list = [t \in Sender |-> {}]
    /\ pending = [c \in Class |-> {}]
    /\ monitor = Nil
    /\ stack = [t \in Sender |-> <<>>]
    /\ marking = [t \in Sender |-> {}]
    /\ fatal = FALSE

Initialized(c) == "INITIALIZED" \in flags[c]
Initializing(c) == "INITIALIZING" \in flags[c]

\* A call of _class_initialize: the class, where the call is, and what its
\* +initialize has yet to message.
Places == {"super", "claim", "run", "finish", "check", "check2", "wait", "sleep"}
Frames == [cls : Class, at : Places, todo : SUBSET Class]

\* A new call.
Frame(c) == [cls |-> c, at |-> "super", todo |-> {}]

At(t, place) == ~fatal /\ stack[t] # <<>> /\ Head(stack[t]).at = place
Cls(t) == Head(stack[t]).cls
ReturnFrom(t) == stack' = [stack EXCEPT ![t] = Tail(@)]
GotoPlace(t, place) == stack' = [stack EXCEPT ![t][1].at = place]

\* Mutant: the superclass is not waited for.
NoSuper(c) == TRUE

\* Whether the superclass is marked, or there is none.
SuperReady(c) == super[c] = Nil \/ Initialized(super[c])

\* What _class_initialize asks of the superclass before it goes on.
SuperDone(c) == SuperReady(c)

Claimable(c) == flags[c] = {}

\* Mutant: whoever is initializing the class.
AnyThread(t, c) == Initializing(c)

ThisThreadIsInitializing(t, c) == c \in list[t]

\* The thread's list of the classes it is initializing: a class on it twice, or
\* not on it when it is struck off, is fatal.
SetInitializing(t, c) ==
    /\ fatal' = (c \in list[t])
    /\ list' = [list EXCEPT ![t] = @ \cup {c}]

SetNotInitializing(t, c) ==
    /\ fatal' = (c \notin list[t])
    /\ list' = [list EXCEPT ![t] = @ \ {c}]

-----------------------------------------------------------------------------
\* A message from outside any +initialize to a class that is not marked.
Message(t, c) ==
    /\ ~fatal /\ stack[t] = <<>> /\ ~Initialized(c)
    /\ stack' = [stack EXCEPT ![t] = <<Frame(c)>>]
    /\ UNCHANGED <<flags, list, pending, monitor, marking, fatal>>

\* A message to a marked class: nothing to do here.
MessageMarked(t, c) ==
    /\ ~fatal /\ stack[t] = <<>> /\ Initialized(c)
    /\ UNCHANGED initializeVars

\* The superclass first, all the way up.
Super(t) ==
    /\ At(t, "super")
    /\ LET c == Cls(t)
           onward == [stack[t] EXCEPT ![1].at = "claim"]
       IN stack' = [stack EXCEPT ![t] =
                      IF SuperDone(c) THEN onward ELSE <<Frame(super[c])>> \o onward]
    /\ UNCHANGED <<flags, list, pending, monitor, marking, fatal>>

\* The test-and-set under the monitor.  +initialize itself is looked up by a
\* message to the class, which comes back here and returns.
Claim(t) ==
    /\ At(t, "claim") /\ monitor = Nil
    /\ LET c == Cls(t) IN
       IF Claimable(c)
         THEN /\ flags' = [flags EXCEPT ![c] = @ \cup {"INITIALIZING"}]
              /\ SetInitializing(t, c)
              /\ stack' = [stack EXCEPT ![t][1] =
                             [cls |-> c, at |-> "run", todo |-> messages[c] \cup {c}]]
         ELSE /\ GotoPlace(t, "check")
              /\ UNCHANGED <<flags, list, fatal>>
    /\ UNCHANGED <<pending, monitor, marking>>

\* A message sent by the +initialize under way.
Run(t, c) ==
    /\ At(t, "run") /\ c \in Head(stack[t]).todo
    /\ LET onward == [stack[t] EXCEPT ![1].todo = @ \ {c}]
       IN stack' = [stack EXCEPT ![t] =
                      IF Initialized(c) THEN onward ELSE <<Frame(c)>> \o onward]
    /\ UNCHANGED <<flags, list, pending, monitor, marking, fatal>>

\* +initialize has returned: mark the class, or leave it to its superclass.
Finish(t) ==
    /\ At(t, "run") /\ Head(stack[t]).todo = {} /\ monitor = Nil
    /\ LET c == Cls(t) IN
       IF SuperReady(c)
         THEN /\ monitor' = t
              /\ marking' = [marking EXCEPT ![t] = {c}]
              /\ GotoPlace(t, "finish")
              /\ UNCHANGED pending
         ELSE /\ pending' = [pending EXCEPT ![super[c]] = @ \cup {c}]
              /\ ReturnFrom(t)
              /\ UNCHANGED <<monitor, marking>>
    /\ UNCHANGED <<flags, list, fatal>>

\* Whom monitor_notifyAll wakes: every sleeper.
Notified(t, c) == {u \in Sender : At(u, "sleep")}

\* The subclasses that were merely waiting for c.
Waiting(c) == pending[c]

\* _finishInitializing of one class: mark it, wake the sleepers, strike it off
\* the list, go on to the subclasses that waited for it.
Mark(t, c) ==
    /\ At(t, "finish") /\ c \in marking[t]
    /\ flags' = [flags EXCEPT ![c] = (@ \cup {"INITIALIZED"}) \ {"INITIALIZING"}]
    /\ SetNotInitializing(t, c)
    /\ pending' = [pending EXCEPT ![c] = {}]
    /\ marking' = [marking EXCEPT ![t] = (@ \ {c}) \cup Waiting(c)]
    /\ stack' = [u \in Sender |->
                   IF u \in Notified(t, c) THEN [stack[u] EXCEPT ![1].at = "wait"]
                   ELSE stack[u]]
    /\ UNCHANGED monitor

FinishDone(t) ==
    /\ At(t, "finish") /\ marking[t] = {}
    /\ monitor' = Nil
    /\ ReturnFrom(t)
    /\ UNCHANGED <<flags, list, pending, marking, fatal>>

\* Mutant: INITIALIZED is asked first.
InitializedFirst == <<"INITIALIZED", "INITIALIZING">>

\* The order in which a thread that could not claim the class reads the flags.
CheckOrder == <<"INITIALIZING", "INITIALIZED">>

\* What the flag it finds tells it: return, or wait for the other thread.
Found(t, flag) ==
    IF flag = "INITIALIZED" \/ ThisThreadIsInitializing(t, Cls(t))
      THEN ReturnFrom(t) ELSE GotoPlace(t, "wait")

\* The two reads outside the monitor, each of which may see a later state.
Check(t) ==
    /\ At(t, "check")
    /\ IF CheckOrder[1] \in flags[Cls(t)] THEN Found(t, CheckOrder[1])
                                           ELSE GotoPlace(t, "check2")
    /\ UNCHANGED <<flags, list, pending, monitor, marking, fatal>>

CheckAgain(t) ==
    /\ At(t, "check2")
    /\ IF CheckOrder[2] \in flags[Cls(t)]
         THEN Found(t, CheckOrder[2]) /\ UNCHANGED fatal
         ELSE fatal' = TRUE /\ UNCHANGED stack  \* class init is buggy
    /\ UNCHANGED <<flags, list, pending, monitor, marking>>

\* The wait, which gives the monitor up.
Wait(t) ==
    /\ At(t, "wait") /\ monitor = Nil
    /\ IF Initialized(Cls(t)) THEN ReturnFrom(t) ELSE GotoPlace(t, "sleep")
    /\ UNCHANGED <<flags, list, pending, monitor, marking, fatal>>

InitializeStep(t) ==
    \/ Super(t) \/ Claim(t) \/ \E c \in Class : Run(t, c)
    \/ Finish(t) \/ \E c \in Class : Mark(t, c)
    \/ FinishDone(t) \/ Check(t) \/ CheckAgain(t) \/ Wait(t)

InitializeNext ==
    \E t \in Sender :
        \/ InitializeStep(t)
        \/ \E c \in Class : Message(t, c) \/ MessageMarked(t, c)

InitializeSpec == InitializeInit /\ [][InitializeNext]_initializeVars

\* A thread in the runtime keeps running, and so does a +initialize method.
InitializeFairness == \A t \in Sender : WF_initializeVars(InitializeStep(t))
InitializeFairSpec == InitializeSpec /\ InitializeFairness
-----------------------------------------------------------------------------
InitializeTypeOK ==
    /\ flags \in [Class -> SUBSET {"INITIALIZING", "INITIALIZED"}]
    /\ list \in [Sender -> SUBSET Class]
    /\ pending \in [Class -> SUBSET Class]
    /\ monitor \in Sender \cup {Nil}
    /\ stack \in [Sender -> Seq(Frames)]
    /\ marking \in [Sender -> SUBSET Class]
    /\ fatal \in BOOLEAN

\* The promise of the header comment, objc-initialize.mm:83-88: the classes that
\* are initializing or initialized are a contiguous tree that starts at the root,
\* so no thread ever waits between two classes that are initializing.
ContiguousFromRoot ==
    \A c \in Class : flags[c] # {} /\ super[c] # Nil => flags[super[c]] # {}

\* A class is only marked when all its superclasses are, and never while its own
\* +initialize is running, on whatever thread: whoever sees the mark may use the
\* whole class, and no second thread was let in to run +initialize again.
InitializedIsComplete ==
    \A c \in Class : Initialized(c) =>
        /\ super[c] # Nil => Initialized(super[c])
        /\ \A t \in Sender : \A i \in 1 .. Len(stack[t]) :
              ~(stack[t][i].cls = c /\ stack[t][i].at = "run")

\* A subclass left pending was initialized by the thread that is initializing the
\* superclass, for it is that thread which will strike it off its list.
PendingBelongsToSuper ==
    \A c \in Class : \A d \in pending[c] :
        /\ super[d] = c /\ Initializing(c) /\ Initializing(d)
        /\ \E t \in Sender : {c, d} \subseteq list[t]

\* A thread whose message initialized or waited for a class gets on only with a
\* class it may use: one that is marked, or one it is initializing itself.
ReturnsUsable ==
    [][\A t \in Sender, c \in Class :
         (stack[t] # <<>> /\ c = Cls(t) /\ stack'[t] = Tail(stack[t])) =>
             "INITIALIZED" \in flags'[c] \/ c \in list'[t]]_initializeVars

\* Every message to a class gets through: no wake-up is lost, no two classes wait for
\* each other, and none of the runtime's own checks ends the process ("thread is
\* already initializing this class", "thread is not initializing this class",
\* "class init is buggy").
MessagesReturn == \A t \in Sender : stack[t] # <<>> ~> stack[t] = <<>>

\* The marks of a class, the lists of the threads and the pending subclasses agree
\* on what is initialized and on who will finish the rest.
MarksConsistent == InitializeTypeOK /\ InitializedIsComplete /\ PendingBelongsToSuper
=============================================================================
