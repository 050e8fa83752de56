------------------------- MODULE EpollReactorProofs -------------------------
(***************************************************************************)
(* Theorems about EpollReactor for programs that have one operation at a   *)
(* time on a socket, with any number of threads, or both directions at     *)
(* once with one thread in run().                                          *)
(***************************************************************************)
EXTENDS EpollReactor, TLAPS

\* A thread that is arming an operation, and the demultiplexer when it clears
\* the bit of one it has taken.
Starting(t) == \/ pc[t] \in {"count", "flag"}
               \/ pc[t] \in {"copy", "apply"} /\ back[t] # "post"
Clearing    == \/ pc[Demux] = "clear"
               \/ pc[Demux] \in {"copy", "apply"} /\ back[Demux] = "post"
Waiting     == {d \in Dirs : slot[d]}

\* Only the demultiplexer polls and dispatches.
Roles ==
    /\ \A t \in Threads : pc[t] \in {"poll", "take", "clear", "post"} => t = Demux
    /\ \A t \in Threads : back[t] \in {"poll", "post"} => t = Demux
    /\ \A t \in Threads : pc[t] \in {"count", "flag"} => back[t] # "post"

\* At most one direction is in use.
OneAtATime ==
    /\ \A d, e \in Dirs : d = e \/ life[d] = "idle" \/ life[e] = "idle"
    /\ \A d, e \in Dirs : slot[d] /\ slot[e] => d = e

\* Who has the operation: the thread that arms it, the demultiplexer, or the
\* thread that completes it, each of them alone.
Hands ==
    /\ \A t \in Threads : Starting(t) => life[dir[t]] = "armed"
    /\ \A t, u \in Threads : Starting(t) /\ Starting(u) => t = u
    /\ \A t \in Threads : pc[t] = "complete" => life[dir[t]] = "running"
    /\ \A t, u \in Threads : pc[t] = "complete" /\ pc[u] = "complete" => t = u
    /\ Clearing \/ pc[Demux] = "post" => got /\ life[dir[Demux]] = "taken"

\* An event is only reported for an operation that waits and is armed.
EventsMatch ==
    /\ \A d \in found : slot[d] /\ life[d] = "armed"
    /\ found # {} <=> pc[Demux] = "take"
    /\ found # {} => \A t \in Threads : ~Starting(t)

\* While an operation is being armed the kernel watches nothing.
StartingOk(t) ==
    /\ slot[dir[t]]
    /\ kmask = {}
    /\ mask = IF pc[t] \in {"count", "flag"} THEN {} ELSE {dir[t]}
    /\ pc[t] = "apply" => copied[t] = {dir[t]}

\* While the bit of the operation that was taken is cleared, it is the only one.
ClearingOk ==
    /\ kmask = {dir[Demux]}
    /\ mask = IF pc[Demux] = "clear" THEN {dir[Demux]} ELSE {}
    /\ pc[Demux] = "apply" => copied[Demux] = {}

Quiet == ~Clearing /\ \A t \in Threads : ~Starting(t)

OpenSocket ==
    /\ \A d \in Dirs : slot[d] <=> life[d] = "armed"
    /\ \A t \in Threads : Starting(t) => StartingOk(t)
    /\ Clearing => ClearingOk
    /\ Quiet => mask = kmask /\ mask = Waiting

\* The inductive invariant.
HalfInv ==
    /\ TypeOK
    /\ Roles
    /\ OneAtATime
    /\ Hands
    /\ EventsMatch
    /\ open => OpenSocket
    /\ ~open => kmask = {}

-----------------------------------------------------------------------------
(***************************************************************************)
(* Types.                                                                  *)
(***************************************************************************)
LEMMA InitTypeOK == Init => TypeOK
<1> SUFFICES ASSUME Init PROVE TypeOK
  OBVIOUS
<1>1. pc \in [Threads -> Labels]
  BY DEF Init, Crews, Top, Labels
<1>2. slot \in [Dirs -> BOOLEAN] /\ life \in [Dirs -> Lives]
  BY DEF Init, Lives
<1>3. dir \in [Threads -> Dirs] /\ copied \in [Threads -> SUBSET Dirs]
  BY DEF Init, Dirs
<1>4. back \in [Threads -> {"run", "poll", "callback", "post"}]
  BY DEF Init
<1> QED BY <1>1, <1>2, <1>3, <1>4 DEF Init, TypeOK

\* The step lemma for the types.
LEMMA TypeStep == TypeOK /\ [Next]_vars => TypeOK'
<1> SUFFICES ASSUME TypeOK, [Next]_vars PROVE TypeOK'
  OBVIOUS
<1> USE DemuxAssumption DEF TypeOK, Goto, Top, Dirs, Lives, Labels, kernel, socket, demuxer
<1>1. ASSUME NEW d \in Dirs, Arrive(d) PROVE TypeOK'
  BY <1>1 DEF Arrive
<1>2. CASE HangUp
  BY <1>2 DEF HangUp
<1>3. CASE EpollWait
  BY <1>3 DEF EpollWait, AfterEvents
<1>4. CASE TakeOperation
  BY <1>4 DEF TakeOperation, NextEvent
<1>5. CASE ClearFlag
  BY <1>5 DEF ClearFlag
<1>6. CASE PostOperation
  BY <1>6 DEF PostOperation, AfterEvents
<1>7. CASE NothingQueued
  BY <1>7 DEF NothingQueued
<1>8. ASSUME NEW t \in Threads, StartingStep(t) PROVE TypeOK'
  <2>1. CASE WorkStarted(t)
    BY <2>1 DEF WorkStarted
  <2>2. CASE SetFlag(t)
    BY <2>2 DEF SetFlag
  <2>3. CASE CtlCopies(t)
    BY <2>3 DEF CtlCopies
  <2>4. CASE CtlApplies(t)
    BY <2>4 DEF CtlApplies
  <2>5. CASE CtlFails(t)
    BY <2>5 DEF CtlFails
  <2> QED BY <1>8, <2>1, <2>2, <2>3, <2>4, <2>5 DEF StartingStep
<1>9. ASSUME NEW t \in Threads, CompletionStep(t) PROVE TypeOK'
  <2>1. CASE FinishOperation(t)
    BY <2>1 DEF FinishOperation, Transfer
  <2>2. CASE Restart(t)
    BY <2>2 DEF Restart, Transfer, SetOp
  <2>3. ASSUME NEW d \in Dirs, Pop(t, d) PROVE TypeOK'
    BY <2>3 DEF Pop
  <2> QED BY <1>9, <2>1, <2>2, <2>3 DEF CompletionStep
<1>10. ASSUME NEW t \in Threads, OtherCallback(t) \/ CallbackReturns(t) \/ Close(t)
       PROVE  TypeOK'
  BY <1>10 DEF OtherCallback, CallbackReturns, Close
<1>11. ASSUME NEW t \in Threads, NEW d \in Dirs, StartOperation(t, d) PROVE TypeOK'
  BY <1>11 DEF StartOperation, SetOp
<1>12. CASE UNCHANGED vars
  BY <1>12 DEF vars
<1> QED
  BY <1>1, <1>2, <1>3, <1>4, <1>5, <1>6, <1>7, <1>8, <1>9, <1>10, <1>11, <1>12
  DEF Next, DemuxStep

\* Every variable of the reactor keeps its type in every program, duplex or
\* not: masks only hold directions and each thread is at a label of the code.
THEOREM ReactorTypeCorrect == Spec => []TypeOK
<1>1. Init => TypeOK
  BY InitTypeOK
<1>2. TypeOK /\ [Next]_vars => TypeOK'
  BY TypeStep
<1> QED BY <1>1, <1>2, PTL DEF Spec

-----------------------------------------------------------------------------
(***************************************************************************)
(* The steps that need an argument.  Where an event is taken or an         *)
(* operation starts, the other direction is idle, because the program has  *)
(* one operation at a time; that is what the two masks race for.           *)
(***************************************************************************)

\* With no operation armed there is no event to dispatch.
LEMMA NoEvents ==
  ASSUME HalfInv, NEW e \in Dirs, life[e] # "armed",
         \A x \in Dirs : x # e => life[x] = "idle"
  PROVE  found = {}
  BY DEF HalfInv, EventsMatch, TypeOK

\* Starting an operation, for the first time or again, leaves it with the
\* thread that starts it and the kernel watching nothing.
LEMMA StartStep ==
  ASSUME HalfInv, TypeOK', NEW t \in Threads, NEW d \in Dirs, NEW label,
         SetOp(t, d, label), open, label \in {"callback", Top(t)},
         \/ pc[t] = "callback" /\ life[d] = "idle"
         \/ pc[t] = "complete" /\ life[d] = "running",
         \A x \in Dirs : x # d => life[x] = "idle"
  PROVE  HalfInv'
<1> USE DemuxAssumption DEF SetOp, Goto, HalfInv, TypeOK
<1>1. found = {}
  BY NoEvents
<1>2. /\ \A x \in Threads : ~Starting(x)
      /\ ~Clearing /\ pc[Demux] # "post"
      /\ \A x \in Threads \ {t} : pc[x] # "complete"
  BY DEF Hands, Starting, Clearing
<1>3. mask = {} /\ kmask = {} /\ \A x \in Dirs : ~slot[x]
  BY <1>2 DEF OpenSocket, Quiet, Waiting
<1>4. Roles' /\ OneAtATime'
  BY <1>3 DEF Roles, OneAtATime, Top
<1>5. /\ Starting(t)' /\ StartingOk(t)' /\ ~Clearing' /\ pc'[Demux] # "post"
      /\ \A x \in Threads : Starting(x)' => x = t
      /\ \A x \in Threads : pc'[x] # "complete"
  BY <1>2, <1>3 DEF Starting, StartingOk, Clearing, Roles, Top
<1>6. Hands'
  BY <1>5 DEF Hands
<1>7. EventsMatch'
  BY <1>1 DEF EventsMatch, demuxer
<1>8. OpenSocket'
  BY <1>3, <1>5 DEF OpenSocket, Quiet
<1> QED BY <1>4, <1>6, <1>7, <1>8, open' = open

\* The first start of an operation, from a callback.
LEMMA StartOperationStep ==
  ASSUME ~MayOverlap, HalfInv, TypeOK',
         NEW t \in Threads, NEW d \in Dirs, StartOperation(t, d)
  PROVE  HalfInv'
  BY StartStep DEF StartOperation, MayStart

\* The next round of an operation that is not finished.
LEMMA RestartStep ==
  ASSUME HalfInv, TypeOK', NEW t \in Threads, Restart(t)
  PROVE  HalfInv'
<1>1. dir[t] \in Dirs /\ life[dir[t]] = "running"
  BY DEF Restart, HalfInv, TypeOK, Hands
<1>2. \A x \in Dirs : x # dir[t] => life[x] = "idle"
  BY <1>1 DEF HalfInv, OneAtATime
<1> QED BY <1>1, <1>2, StartStep DEF Restart

\* Only one thread arms, so the flag it sets is the only one.
LEMMA SetFlagStep ==
  ASSUME HalfInv, TypeOK', NEW t \in Threads, SetFlag(t)
  PROVE  HalfInv'
<1> USE DemuxAssumption DEF SetFlag, Goto, HalfInv, TypeOK, kernel, demuxer
<1>1. /\ Starting(t) /\ back[t] # "post"
      /\ \A x \in Threads : Starting(x) => x = t
  BY DEF Roles, Hands, Starting
<1>2. /\ \A x \in Threads : Starting(x)' => x = t
      /\ Clearing' <=> Clearing
  BY <1>1 DEF Starting, Clearing
<1>3. Roles' /\ OneAtATime'
  BY DEF Roles, OneAtATime
<1>4. Hands' /\ EventsMatch'
  BY <1>1, <1>2 DEF Hands, EventsMatch, Starting, Clearing
<1>5. ASSUME open' PROVE OpenSocket'
  <2>1. StartingOk(t) /\ mask = {}
    BY <1>1, <1>5 DEF OpenSocket, StartingOk
  <2>2. Starting(t)' /\ StartingOk(t)'
    BY <1>1, <2>1 DEF Starting, StartingOk
  <2>3. ~Clearing
    BY <1>1 DEF Hands, OneAtATime
  <2>4. \A x \in Threads : Starting(x)' => StartingOk(x)'
    BY <1>2, <2>2
  <2> QED BY <1>2, <1>5, <2>2, <2>3, <2>4 DEF OpenSocket, Quiet
<1> QED BY <1>3, <1>4, <1>5

\* The kernel copies the mask of the thread that called it.
LEMMA CtlCopiesStep ==
  ASSUME HalfInv, TypeOK', NEW t \in Threads, CtlCopies(t)
  PROVE  HalfInv'
<1> USE DemuxAssumption DEF CtlCopies, Goto, HalfInv, TypeOK, kernel, socket, demuxer
<1>1. /\ \A x \in Threads : Starting(x)' <=> Starting(x)
      /\ Clearing' <=> Clearing
  BY DEF Starting, Clearing
<1>2. Roles' /\ OneAtATime'
  BY DEF Roles, OneAtATime
<1>3. Hands' /\ EventsMatch'
  BY <1>1 DEF Hands, EventsMatch
<1>4. ASSUME open' PROVE OpenSocket'
  <2>1. \A x \in Threads : Starting(x)' => StartingOk(x)'
    BY <1>1, <1>4 DEF OpenSocket, StartingOk, Starting
  <2>2. ASSUME Clearing' PROVE ClearingOk'
    <3>1. ClearingOk
      BY <1>1, <1>4, <2>2 DEF OpenSocket
    <3>2. CASE t = Demux
      BY <3>1, <3>2 DEF ClearingOk
    <3>3. CASE t # Demux
      BY <3>1, <3>3 DEF ClearingOk
    <3> QED BY <3>2, <3>3
  <2> QED BY <1>1, <1>4, <2>1, <2>2 DEF OpenSocket, Quiet, Waiting
<1> QED BY <1>2, <1>3, <1>4

\* When the kernel has the mask that it copied, all three agree again.
LEMMA CtlAppliesStep ==
  ASSUME HalfInv, TypeOK', NEW t \in Threads, CtlApplies(t)
  PROVE  HalfInv'
<1> USE DemuxAssumption DEF CtlApplies, Goto, HalfInv, TypeOK, socket, demuxer
<1>1. Roles'
  BY DEF Roles
<1>2. CASE back[t] = "post"
  <2>1. t = Demux /\ Clearing
    BY <1>2 DEF Roles, Clearing
  <2>2. /\ got /\ life[dir[t]] = "taken" /\ copied[t] = {} /\ mask = {}
        /\ \A x \in Dirs : ~slot[x]
    BY <2>1 DEF Hands, OneAtATime, OpenSocket, ClearingOk
  <2>3. /\ ~Clearing' /\ pc'[t] = "post"
        /\ \A x \in Threads : ~Starting(x) /\ ~Starting(x)'
    BY <1>2, <2>1, <2>2 DEF Starting, Clearing, Hands, OneAtATime
  <2>4. OneAtATime' /\ Hands' /\ EventsMatch'
    BY <1>2, <2>1, <2>2, <2>3 DEF OneAtATime, Hands, EventsMatch
  <2>5. Waiting' = {} /\ kmask' = {} /\ mask' = {}
    BY <2>2 DEF Waiting
  <2>6. OpenSocket'
    BY <2>3, <2>5 DEF OpenSocket
  <2> QED BY <1>1, <2>4, <2>6
<1>3. CASE back[t] # "post"
  <2>1. Starting(t) /\ ~Clearing
    BY <1>3 DEF Starting, Hands, OneAtATime
  <2>2. /\ slot[dir[t]] /\ life[dir[t]] = "armed"
        /\ copied[t] = {dir[t]} /\ mask = {dir[t]}
    BY <2>1 DEF OpenSocket, StartingOk, Hands
  <2>3. ~Clearing' /\ \A x \in Threads : ~Starting(x)'
    BY <1>3, <2>1 DEF Starting, Clearing, Hands
  <2>4. OneAtATime' /\ Hands' /\ EventsMatch'
    BY <1>3, <2>1, <2>2, <2>3 DEF OneAtATime, Hands, EventsMatch, Roles
  <2>5. Waiting = {dir[t]}
    BY <2>2 DEF OneAtATime, Waiting
  <2>6. OpenSocket'
    BY <2>2, <2>3, <2>5 DEF OpenSocket, Waiting
  <2> QED BY <1>1, <2>4, <2>6
<1> QED BY <1>2, <1>3

\* What the kernel reports is what the socket waits for.
LEMMA EpollWaitStep ==
  ASSUME HalfInv, TypeOK', EpollWait
  PROVE  HalfInv'
<1> USE DemuxAssumption DEF EpollWait, Goto, HalfInv, TypeOK, socket
<1>1. /\ ~Clearing /\ ~Clearing' /\ pc'[Demux] # "post"
      /\ \A x \in Threads : Starting(x)' <=> Starting(x)
  BY DEF Clearing, Starting, AfterEvents
<1>2. Roles' /\ OneAtATime' /\ Hands'
  BY <1>1 DEF Roles, OneAtATime, Hands, AfterEvents
<1>3. EventsMatch'
  <2>1. ASSUME found' # {} PROVE open /\ Quiet
    BY <1>1, <2>1 DEF OpenSocket, StartingOk, Quiet
  <2>2. ASSUME NEW d \in found' PROVE slot[d] /\ life[d] = "armed"
    BY <2>1, <2>2 DEF OpenSocket, Waiting
  <2> QED BY <1>1, <2>1, <2>2 DEF EventsMatch, AfterEvents, Quiet
<1>4. ASSUME open' PROVE OpenSocket'
  BY <1>1, <1>4 DEF OpenSocket, StartingOk, Quiet, Waiting, AfterEvents
<1> QED BY <1>2, <1>3, <1>4

\* The loop over the events takes one of those that were found.
LEMMA NextEventFound ==
  ASSUME found # {}, found \subseteq Dirs PROVE NextEvent \in found /\ NextEvent \in Dirs
<1>1. PICK d \in Dirs : d \in found
  OBVIOUS
<1>2. CASE "in" \in found
  BY <1>2 DEF NextEvent
<1>3. CASE "in" \notin found
  <2>1. d = "out"
    BY <1>1, <1>3 DEF Dirs
  <2> QED BY <1>1, <1>3, <2>1 DEF NextEvent
<1> QED BY <1>2, <1>3

\* The operation that is taken out of its slot was the only one, and nobody
\* is arming: the demultiplexer has the mask to itself.
LEMMA TakeOperationStep ==
  ASSUME HalfInv, TypeOK', TakeOperation
  PROVE  HalfInv'
<1> DEFINE e == NextEvent
<1> USE DemuxAssumption DEF TakeOperation, Goto, HalfInv, TypeOK, kernel
<1>1. e \in Dirs /\ e \in found
  <2>1. found # {} /\ found \subseteq Dirs
    BY DEF EventsMatch
  <2> QED BY <2>1, NextEventFound
<1>2. /\ slot[e] /\ life[e] = "armed"
      /\ \A x \in Dirs : x # e => life[x] = "idle" /\ ~slot[x]
  BY <1>1 DEF EventsMatch, OneAtATime
<1>3. /\ \A x \in Threads : ~Starting(x)
      /\ ~Clearing
  BY <1>1 DEF EventsMatch, Clearing
<1>4. /\ found' = {} /\ got' /\ slot' = [slot EXCEPT ![e] = FALSE]
      /\ life' = [life EXCEPT ![e] = "taken"]
      /\ pc' = [pc EXCEPT ![Demux] = "clear"] /\ dir' = [dir EXCEPT ![Demux] = e]
  BY <1>1, <1>2 DEF EventsMatch
<1> HIDE DEF e
<1>5. \A x \in Threads : pc'[x] # "complete"
  BY <1>1, <1>2, <1>4 DEF Hands
<1>6. Roles' /\ OneAtATime'
  BY <1>1, <1>2, <1>4 DEF Roles, OneAtATime
<1>7. Clearing' /\ \A x \in Threads : ~Starting(x)'
  BY <1>3, <1>4 DEF Starting, Clearing
<1>8. Hands' /\ EventsMatch'
  BY <1>1, <1>2, <1>4, <1>5, <1>7 DEF Hands, EventsMatch
<1>9. ASSUME open' PROVE OpenSocket'
  <2>1. mask = {e} /\ kmask = {e}
    BY <1>1, <1>2, <1>3, <1>9 DEF OpenSocket, Quiet, Waiting
  <2>2. ClearingOk'
    BY <1>4, <2>1 DEF ClearingOk
  <2>3. \A d \in Dirs : slot'[d] <=> life'[d] = "armed"
    BY <1>1, <1>2, <1>4
  <2> QED BY <1>7, <2>2, <2>3 DEF OpenSocket, Quiet
<1> QED BY <1>6, <1>8, <1>9

-----------------------------------------------------------------------------
(***************************************************************************)
(* The invariant and its consequences.                                     *)
(***************************************************************************)
LEMMA HalfInit == Init => HalfInv
<1>1. Init => TypeOK
  BY InitTypeOK
<1>2. Init => Roles /\ OneAtATime /\ Hands /\ EventsMatch /\ OpenSocket
  BY DemuxAssumption DEF Init, Roles, OneAtATime, Hands, EventsMatch, OpenSocket,
     Starting, Clearing, Quiet, Waiting, Top
<1> QED BY <1>1, <1>2 DEF HalfInv, Init

\* The step lemmas together.
LEMMA HalfStep ==
  ASSUME ~MayOverlap, HalfInv, [Next]_vars
  PROVE  HalfInv'
<1>1. TypeOK'
  BY TypeStep DEF HalfInv
<1> USE <1>1, DemuxAssumption
    DEF HalfInv, TypeOK, Roles, OneAtATime, Hands, EventsMatch, OpenSocket, Starting,
        StartingOk, Clearing, ClearingOk, Quiet, Waiting, Goto, Top, Dirs, Lives,
        Labels, kernel, socket, demuxer
<1>2. ASSUME NEW d \in Dirs, Arrive(d) PROVE HalfInv'
  BY <1>2 DEF Arrive
<1>3. CASE HangUp
  BY <1>3 DEF HangUp
<1>4. CASE EpollWait
  BY <1>4, EpollWaitStep
<1>5. CASE TakeOperation
  BY <1>5, TakeOperationStep
<1>6. CASE ClearFlag
  BY <1>6 DEF ClearFlag
<1>7. CASE PostOperation
  BY <1>7 DEF PostOperation, AfterEvents
<1>8. CASE NothingQueued
  BY <1>8 DEF NothingQueued
<1>9. ASSUME NEW t \in Threads, StartingStep(t) PROVE HalfInv'
  <2>1. CASE WorkStarted(t)
    BY <2>1 DEF WorkStarted
  <2>2. CASE SetFlag(t)
    BY <2>2, SetFlagStep
  <2>3. CASE CtlCopies(t)
    BY <2>3, CtlCopiesStep
  <2>4. CASE CtlApplies(t)
    BY <2>4, CtlAppliesStep
  <2>5. CASE CtlFails(t)
    BY <2>5 DEF CtlFails
  <2> QED BY <1>9, <2>1, <2>2, <2>3, <2>4, <2>5 DEF StartingStep
<1>10. ASSUME NEW t \in Threads, CompletionStep(t) PROVE HalfInv'
  <2>1. CASE FinishOperation(t)
    BY <2>1 DEF FinishOperation, Transfer
  <2>2. CASE Restart(t)
    BY <2>2, RestartStep
  <2>3. ASSUME NEW d \in Dirs, Pop(t, d) PROVE HalfInv'
    BY <2>3 DEF Pop
  <2> QED BY <1>10, <2>1, <2>2, <2>3 DEF CompletionStep
<1>11. ASSUME NEW t \in Threads, OtherCallback(t) \/ CallbackReturns(t) PROVE HalfInv'
  BY <1>11 DEF OtherCallback, CallbackReturns
<1>12. ASSUME NEW t \in Threads, Close(t) PROVE HalfInv'
  BY <1>12 DEF Close
<1>13. ASSUME NEW t \in Threads, NEW d \in Dirs, StartOperation(t, d) PROVE HalfInv'
  BY <1>13, StartOperationStep
<1>14. CASE UNCHANGED vars
  BY <1>14 DEF vars
<1> HIDE DEF HalfInv, TypeOK, Roles, OneAtATime, Hands, EventsMatch, OpenSocket, Starting,
             StartingOk, Clearing, ClearingOk, Quiet, Waiting, Goto, Top, Dirs, Lives,
             Labels, kernel, socket, demuxer
<1> QED
  BY <1>2, <1>3, <1>4, <1>5, <1>6, <1>7, <1>8, <1>9, <1>10, <1>11, <1>12, <1>13, <1>14
  DEF Next, DemuxStep

-----------------------------------------------------------------------------
(***************************************************************************)
(* The demultiplexer alone in run().  Then nobody races with it for the    *)
(* mask, and both directions may be in use.                                *)
(***************************************************************************)
Alone == \A t \in Threads \ {Demux} : pc[t] = "absent"

Arming      == Starting(Demux)
Dispatching == Clearing \/ pc[Demux] \in {"take", "post"}

\* The masks lag behind the slots by the operation that is being armed.
ArmingOk ==
    /\ slot[dir[Demux]]
    /\ kmask = Waiting \ {dir[Demux]}
    /\ mask = IF pc[Demux] \in {"count", "flag"} THEN Waiting \ {dir[Demux]} ELSE Waiting
    /\ pc[Demux] = "apply" => copied[Demux] = Waiting

\* They still have the bit of the one that was taken out of its slot.
TakenOk ==
    /\ kmask = Waiting \cup {dir[Demux]}
    /\ mask = IF pc[Demux] = "clear" THEN Waiting \cup {dir[Demux]} ELSE Waiting
    /\ pc[Demux] = "apply" => copied[Demux] = Waiting

LoneSocket ==
    /\ \A d \in Dirs : slot[d] <=> life[d] = "armed"
    /\ found \subseteq Waiting
    /\ Arming => ArmingOk
    /\ Clearing => TakenOk
    /\ Clearing \/ pc[Demux] = "post" => got /\ life[dir[Demux]] = "taken"
    /\ ~Arming /\ ~Clearing => mask = kmask /\ mask = Waiting

\* The inductive invariant of one thread.
LoneInv ==
    /\ TypeOK
    /\ Alone
    /\ pc[Demux] \in {"count", "flag"} => back[Demux] # "post"
    /\ pc[Demux] = "complete" => life[dir[Demux]] = "running"
    /\ pc[Demux] = "take" => found # {}
    /\ found # {} => Dispatching
    /\ Arming \/ Dispatching => open
    /\ open => LoneSocket
    /\ ~open => kmask = {}

\* No thread enters or leaves run() for good.
LEMMA AloneStays ==
  ASSUME TypeOK, [Next]_vars PROVE Alone' <=> Alone
<1> USE DemuxAssumption DEF TypeOK, Goto, Top, kernel, socket, demuxer
<1>1. ASSUME UNCHANGED pc PROVE Alone' <=> Alone
  BY <1>1 DEF Alone
<1>2. ASSUME NEW t \in Threads, NEW label, label # "absent", pc[t] # "absent",
             Goto(t, label)
      PROVE  Alone' <=> Alone
  BY <1>2 DEF Alone
<1>3. CASE \E d \in Dirs : Arrive(d)
  BY <1>1, <1>3 DEF Arrive
<1>4. CASE HangUp
  BY <1>1, <1>4 DEF HangUp
<1>5. CASE DemuxStep
  <2>1. \E label : label # "absent" /\ pc[Demux] # "absent" /\ Goto(Demux, label)
    BY <1>5 DEF DemuxStep, EpollWait, TakeOperation, ClearFlag, PostOperation, NothingQueued,
       AfterEvents
  <2> HIDE DEF Goto
  <2> QED BY <1>2, <2>1
<1>6. ASSUME NEW t \in Threads,
             \/ StartingStep(t) \/ CompletionStep(t)
             \/ OtherCallback(t) \/ CallbackReturns(t)
             \/ \E d \in Dirs : StartOperation(t, d)
      PROVE  Alone' <=> Alone
  <2>1. \E label : label # "absent" /\ pc[t] # "absent" /\ Goto(t, label)
    BY <1>6 DEF StartingStep, WorkStarted, SetFlag, CtlCopies, CtlApplies, CtlFails,
       CompletionStep, FinishOperation, Restart, Pop, OtherCallback, CallbackReturns,
       StartOperation, SetOp
  <2> HIDE DEF Goto
  <2> QED BY <1>2, <2>1
<1>7. ASSUME NEW t \in Threads, Close(t) PROVE Alone' <=> Alone
  BY <1>1, <1>7 DEF Close
<1>8. CASE UNCHANGED vars
  BY <1>1, <1>8 DEF vars
<1> QED BY <1>3, <1>4, <1>5, <1>6, <1>7, <1>8 DEF Next

\* The sequential program keeps its invariant.
LEMMA LoneStep ==
  ASSUME LoneInv, [Next]_vars PROVE LoneInv'
<1>1. TypeOK' /\ Alone'
  BY TypeStep, AloneStays DEF LoneInv
<1>2. \A t \in Threads : pc[t] # "absent" => t = Demux
  BY DEF LoneInv, Alone
<1> USE <1>1, DemuxAssumption
    DEF LoneInv, TypeOK, LoneSocket, ArmingOk, TakenOk, Arming, Dispatching, Starting, Clearing,
        Waiting, Goto, Top, Dirs, Lives, Labels, kernel, socket, demuxer
<1>3. ASSUME NEW d \in Dirs, Arrive(d) PROVE LoneInv'
  BY <1>3 DEF Arrive
<1>4. CASE HangUp
  BY <1>4 DEF HangUp
<1>5. CASE EpollWait
  <2>1. ~Arming /\ ~Clearing /\ ~Arming' /\ ~Clearing'
    BY <1>5 DEF EpollWait, AfterEvents
  <2>2. found' \subseteq Waiting /\ (found' # {} => open)
    <3>1. found' \subseteq kmask
      BY <1>5 DEF EpollWait
    <3>2. open => kmask = Waiting
      BY <2>1
    <3>3. ~open => kmask = {}
      OBVIOUS
    <3> HIDE DEF LoneInv
    <3> QED BY <3>1, <3>2, <3>3
  <2>3. pc'[Demux] = IF found' = {} THEN "run" ELSE "take"
    BY <1>5 DEF EpollWait, AfterEvents
  <2>4. Waiting' = Waiting /\ UNCHANGED << slot, life, mask, kmask, open, dir, back, got >>
    BY <1>5 DEF EpollWait
  <2> HIDE DEF Arming, Clearing, Waiting
  <2>5. LoneSocket => LoneSocket'
    BY <2>1, <2>2, <2>3, <2>4
  <2> QED BY <1>5, <2>1, <2>2, <2>3, <2>4, <2>5
<1>6. CASE TakeOperation
  BY <1>6, NextEventFound DEF TakeOperation
<1>7. CASE ClearFlag
  BY <1>7 DEF ClearFlag
<1>8. CASE PostOperation
  <2>1. ~Arming /\ ~Clearing /\ ~Arming' /\ ~Clearing'
    BY <1>8 DEF PostOperation, AfterEvents
  <2>2. open /\ got /\ life[dir[Demux]] = "taken"
    BY <1>8 DEF PostOperation
  <2>3. pc'[Demux] = IF found = {} THEN "run" ELSE "take"
    BY <1>8 DEF PostOperation, AfterEvents
  <2>4. life' = [life EXCEPT ![dir[Demux]] = "queued"]
    BY <1>8, <2>2 DEF PostOperation
  <2>5. Waiting' = Waiting /\ UNCHANGED << slot, mask, kmask, open, dir, found >>
    BY <1>8 DEF PostOperation
  <2>6. \A d \in Dirs : slot'[d] <=> life'[d] = "armed"
    BY <2>2, <2>4, <2>5
  <2> HIDE DEF Arming, Clearing, Waiting
  <2>7. LoneSocket'
    BY <2>1, <2>2, <2>3, <2>5, <2>6
  <2> QED BY <2>1, <2>2, <2>3, <2>5, <2>7
<1>9. CASE NothingQueued
  BY <1>9 DEF NothingQueued
<1>10. ASSUME NEW t \in Threads, StartingStep(t) PROVE LoneInv'
  <2>0. t = Demux
    BY <1>2, <1>10 DEF StartingStep, WorkStarted, SetFlag, CtlCopies, CtlApplies, CtlFails
  <2>1. CASE WorkStarted(t)
    BY <2>0, <2>1 DEF WorkStarted
  <2>2. CASE SetFlag(t)
    BY <2>0, <2>2 DEF SetFlag
  <2>3. CASE CtlCopies(t)
    BY <2>0, <2>3 DEF CtlCopies
  <2>4. CASE CtlApplies(t)
    BY <2>0, <2>4 DEF CtlApplies
  <2>5. CASE CtlFails(t)
    BY <2>0, <2>5 DEF CtlFails
  <2> QED BY <1>10, <2>1, <2>2, <2>3, <2>4, <2>5 DEF StartingStep
<1>11. ASSUME NEW t \in Threads, CompletionStep(t) PROVE LoneInv'
  <2>0. t = Demux
    BY <1>2, <1>11 DEF CompletionStep, FinishOperation, Restart, Pop
  <2>1. CASE FinishOperation(t)
    BY <2>0, <2>1 DEF FinishOperation, Transfer
  <2>2. CASE Restart(t)
    BY <2>0, <2>2 DEF Restart, Transfer, SetOp
  <2>3. ASSUME NEW d \in Dirs, Pop(t, d) PROVE LoneInv'
    BY <2>0, <2>3 DEF Pop
  <2> QED BY <1>11, <2>1, <2>2, <2>3 DEF CompletionStep
<1>12. ASSUME NEW t \in Threads, OtherCallback(t) \/ CallbackReturns(t) \/ Close(t)
       PROVE  LoneInv'
  <2>0. t = Demux
    BY <1>2, <1>12 DEF OtherCallback, CallbackReturns, Close
  <2> QED BY <1>12, <2>0 DEF OtherCallback, CallbackReturns, Close
<1>13. ASSUME NEW t \in Threads, NEW d \in Dirs, StartOperation(t, d) PROVE LoneInv'
  <2>0. t = Demux
    BY <1>2, <1>13 DEF StartOperation
  <2> QED BY <1>13, <2>0 DEF StartOperation, SetOp, MayStart
<1>14. CASE UNCHANGED vars
  BY <1>14 DEF vars, Alone
<1> HIDE DEF LoneInv, TypeOK, LoneSocket, ArmingOk, TakenOk, Arming, Dispatching, Starting,
             Clearing, Waiting, Goto, Top, Dirs, Lives, Labels, kernel, socket, demuxer
<1> QED
  BY <1>3, <1>4, <1>5, <1>6, <1>7, <1>8, <1>9, <1>10, <1>11, <1>12, <1>13, <1>14
  DEF Next, DemuxStep

-----------------------------------------------------------------------------
(***************************************************************************)
(* Both kinds of program.                                                  *)
(***************************************************************************)

\* Who has both directions in use has one thread in run().
CarefulDuplex == Duplex = "full" => Threads = {Demux}

ReactorInv == IF Alone THEN LoneInv ELSE HalfInv

LEMMA ReactorInit == Init => ReactorInv
<1>1. ASSUME Init, Alone PROVE LoneInv
  BY <1>1, InitTypeOK, DemuxAssumption
  DEF Init, LoneInv, LoneSocket, Arming, Dispatching, Starting, Clearing, Waiting, Crews, Top
<1> QED BY <1>1, HalfInit DEF ReactorInv

\* Several threads never overlap two operations.
LEMMA ReactorStep ==
  ASSUME CarefulDuplex, ReactorInv, [Next]_vars PROVE ReactorInv'
<1>1. Alone' <=> Alone
  BY AloneStays DEF ReactorInv, LoneInv, HalfInv
<1>2. CASE Alone
  BY <1>1, <1>2, LoneStep DEF ReactorInv
<1>3. CASE ~Alone
  <2>1. ~MayOverlap
    BY <1>3, DuplexAssumption DEF CarefulDuplex, MayOverlap, Alone
  <2> QED BY <1>1, <1>3, <2>1, HalfStep DEF ReactorInv
<1> QED BY <1>2, <1>3

\* The kernel's mask, the library's mask and the slots agree whenever nobody
\* is changing them: with one operation at a time on the socket, or with both
\* directions and one thread in run().
THEOREM MasksCorrect ==
  ASSUME CarefulDuplex PROVE Spec => []MasksAgree
<1>1. HalfInv => MasksAgree
  <2> SUFFICES ASSUME HalfInv, open, Changing = {} PROVE Quiet
    BY DEF MasksAgree, HalfInv, OpenSocket, Waiting
  <2> QED BY DemuxAssumption DEF Changing, Quiet, Starting, Clearing
<1>2. LoneInv => MasksAgree
  <2> SUFFICES ASSUME LoneInv, open, Changing = {} PROVE ~Arming /\ ~Clearing
    BY DEF MasksAgree, LoneInv, LoneSocket, Waiting
  <2> QED BY DemuxAssumption DEF Changing, Arming, Starting, Clearing
<1>3. ReactorInv => MasksAgree
  BY <1>1, <1>2 DEF ReactorInv
<1> QED BY <1>3, ReactorInit, ReactorStep, PTL DEF Spec

\* With one operation at a time, or with one thread in run(), the
\* demultiplexer finds an operation for every event it dispatches.
THEOREM NoFatalErrorCorrect ==
  ASSUME CarefulDuplex PROVE Spec => []NoFatalError
<1>1. HalfInv => NoFatalError
  BY DEF NoFatalError, HalfInv, Hands, Clearing
<1>2. LoneInv => NoFatalError
  BY DEF NoFatalError, LoneInv, LoneSocket, Dispatching, Clearing
<1>3. ReactorInv => NoFatalError
  BY <1>1, <1>2 DEF ReactorInv
<1> QED BY <1>3, ReactorInit, ReactorStep, PTL DEF Spec

\* With one operation at a time, or with one thread in run(), an operation
\* that is queued, run or finished is not in its slot as long as the socket
\* is open.
THEOREM OneCompletionCorrect ==
  ASSUME CarefulDuplex PROVE Spec => []OneCompletion
<1>1. HalfInv => OneCompletion
  BY DEF OneCompletion, HalfInv, OpenSocket
<1>2. LoneInv => OneCompletion
  BY DEF OneCompletion, LoneInv, LoneSocket
<1>3. ReactorInv => OneCompletion
  BY <1>1, <1>2 DEF ReactorInv
<1> QED BY <1>3, ReactorInit, ReactorStep, PTL DEF Spec

-----------------------------------------------------------------------------
(***************************************************************************)
(* The count of outstanding work.  begin_recv publishes the operation      *)
(* first and counts it afterwards; that is safe because no event can be    *)
(* reported for it before the kernel's mask is set, which comes later yet. *)
(***************************************************************************)
BeingCounted(d) == \E t \in Threads : pc[t] = "count" /\ dir[t] = d

Counted ==
    \A d \in Dirs : life[d] \in {"armed", "taken", "queued"} =>
                      BeingCounted(d) \/ d \in counted

\* What both invariants say of the thread that handles an operation.
Handled ==
    /\ \A t \in Threads : Starting(t) => life[dir[t]] = "armed"
    /\ \A t \in Threads : pc[t] = "complete" => life[dir[t]] = "running"
    /\ pc[Demux] = "take" => found # {} /\ \A d \in found : life[d] = "armed"
    /\ pc[Demux] = "post" => life[dir[Demux]] = "taken"

LEMMA ReactorHandles == ReactorInv => TypeOK /\ Handled
<1>1. HalfInv => TypeOK /\ Handled
  BY DEF HalfInv, Handled, Hands, EventsMatch
<1>2. ASSUME LoneInv PROVE TypeOK /\ Handled
  <2>1. ASSUME NEW t \in Threads, Starting(t) \/ pc[t] = "complete" PROVE t = Demux
    BY <1>2, <2>1 DEF LoneInv, Alone, Starting
  <2>2. Arming => life[dir[Demux]] = "armed"
    BY <1>2, DemuxAssumption DEF LoneInv, LoneSocket, ArmingOk, TypeOK
  <2>3. pc[Demux] = "take" => found # {} /\ \A d \in found : life[d] = "armed"
    BY <1>2 DEF LoneInv, LoneSocket, Dispatching, Waiting
  <2>4. pc[Demux] = "post" => life[dir[Demux]] = "taken"
    BY <1>2 DEF LoneInv, LoneSocket, Dispatching
  <2>5. pc[Demux] = "complete" => life[dir[Demux]] = "running"
    BY <1>2 DEF LoneInv
  <2> QED BY <1>2, <2>1, <2>2, <2>3, <2>4, <2>5 DEF LoneInv, Handled, Arming
<1> QED BY <1>1, <1>2 DEF ReactorInv

\* The step lemma for the count.
LEMMA CountedStep ==
  ASSUME TypeOK, Handled, Counted, [Next]_vars
  PROVE  Counted'
<1> USE DEF TypeOK, Counted, BeingCounted, Goto, kernel, socket, demuxer
<1>1. ASSUME NEW d \in Dirs, Arrive(d) PROVE Counted'
  BY <1>1 DEF Arrive
<1>2. CASE HangUp
  BY <1>2 DEF HangUp
<1>3. CASE EpollWait
  BY <1>3, DemuxAssumption DEF EpollWait
<1>4. CASE TakeOperation
  <2>1. NextEvent \in Dirs
    BY <1>4, NextEventFound DEF TakeOperation, Handled
  <2>2. \A d \in Dirs : life'[d] \in {"armed", "taken", "queued"} =>
                            life[d] \in {"armed", "taken", "queued"}
    BY <1>4, <2>1, NextEventFound DEF TakeOperation, Handled
  <2> QED BY <1>4, <2>2, DemuxAssumption DEF TakeOperation
<1>5. CASE ClearFlag
  BY <1>5, DemuxAssumption DEF ClearFlag
<1>6. CASE PostOperation
  BY <1>6, DemuxAssumption DEF PostOperation, Handled
<1>7. CASE NothingQueued
  BY <1>7, DemuxAssumption DEF NothingQueued
<1>8. ASSUME NEW t \in Threads, StartingStep(t) PROVE Counted'
  <2>1. CASE WorkStarted(t)
    BY <2>1 DEF WorkStarted
  <2>2. CASE SetFlag(t)
    BY <2>2 DEF SetFlag
  <2>3. CASE CtlCopies(t)
    BY <2>3 DEF CtlCopies
  <2>4. CASE CtlApplies(t)
    BY <2>4 DEF CtlApplies
  <2>5. CASE CtlFails(t)
    BY <2>5 DEF CtlFails, Handled, Starting
  <2> QED BY <1>8, <2>1, <2>2, <2>3, <2>4, <2>5 DEF StartingStep
<1>9. ASSUME NEW t \in Threads, CompletionStep(t) PROVE Counted'
  <2>1. CASE FinishOperation(t)
    BY <2>1 DEF FinishOperation
  <2>2. CASE Restart(t)
    BY <2>2 DEF Restart, SetOp, Handled
  <2>3. ASSUME NEW d \in Dirs, Pop(t, d) PROVE Counted'
    BY <2>3 DEF Pop
  <2> QED BY <1>9, <2>1, <2>2, <2>3 DEF CompletionStep
<1>10. ASSUME NEW t \in Threads, OtherCallback(t) \/ CallbackReturns(t) \/ Close(t)
       PROVE  Counted'
  BY <1>10 DEF OtherCallback, CallbackReturns, Close
<1>11. ASSUME NEW t \in Threads, NEW d \in Dirs, StartOperation(t, d) PROVE Counted'
  BY <1>11 DEF StartOperation, SetOp
<1>12. CASE UNCHANGED vars
  BY <1>12 DEF vars
<1> QED
  BY <1>1, <1>2, <1>3, <1>4, <1>5, <1>6, <1>7, <1>8, <1>9, <1>10, <1>11, <1>12
  DEF Next, DemuxStep

\* With one operation at a time, or with one thread in run(), an operation is
\* in outstanding_work_ before the demultiplexer takes it or anybody completes it.
THEOREM CountedFirstCorrect ==
  ASSUME CarefulDuplex PROVE Spec => []CountedFirst
<1>1. Init => Counted
  BY DEF Init, Counted
<1>2. Handled /\ Counted => CountedFirst
  BY DEF Handled, Counted, BeingCounted, CountedFirst, Starting
<1>3. ReactorInv /\ Counted /\ [Next]_vars => Counted'
  BY ReactorHandles, CountedStep
<1>4. ReactorInv /\ Counted => CountedFirst
  BY <1>2, ReactorHandles
<1> QED BY <1>1, <1>3, <1>4, ReactorInit, ReactorStep, PTL DEF Spec
=============================================================================
