------------------------- MODULE EpollServiceProofs -------------------------
(***************************************************************************)
(* Theorems about EpollService, for every number of threads, outsiders and *)
(* operations, every usage and whether or not system calls fail; and that  *)
(* it implements CompletionPort.                                           *)
(***************************************************************************)
EXTENDS EpollServiceRefinement, FiniteSetTheorems, FunctionTheorems, TLAPS

(***************************************************************************)
(* Every action keeps the shape of the state; this needs nothing else.     *)
(***************************************************************************)

\* Queueing an operation writes well-formed values, whatever reference it is
\* given (post_deferred_completion).
LEMMA QueueingShape ==
    ASSUME StateShape, NEW op \in Ops \cup {Null}, PostDeferredCompletion(op)
    PROVE  /\ ready' \in [Ops -> {0, 1}]
           /\ place' \in [Ops -> Places]
           /\ completed_ops' \in Seq(Ops \cup {Null})
<1>1. ready \in [Ops -> {0, 1}] /\ ready' = [ready EXCEPT ![op] = 1]
    BY DEF StateShape, PostDeferredCompletion
<1>2. place \in [Ops -> Places] /\ place' = [place EXCEPT ![op] = "queued"]
    BY DEF StateShape, PostDeferredCompletion
<1>3. "queued" \in Places
    BY DEF Places
<1>4. completed_ops \in Seq(Ops \cup {Null}) /\ completed_ops' = Append(completed_ops, op)
    BY DEF StateShape, PostDeferredCompletion
<1>5. ready' \in [Ops -> {0, 1}]
    BY <1>1
<1>6. place' \in [Ops -> Places]
    BY <1>2, <1>3
<1>7. completed_ops' \in Seq(Ops \cup {Null})
    BY <1>4
<1> QED
    BY <1>5, <1>6, <1>7

\* So does counting a new piece of work (work_started and the constructor or
\* reset() of the operation).
LEMMA StartingShape ==
    ASSUME StateShape, NEW c \in Callers, NEW op \in Ops \cup {Null}, WorkStarted(c, op)
    PROVE  /\ outstanding_work' \in Int
           /\ ready' \in [Ops -> {0, 1}]
           /\ place' \in [Ops -> Places]
           /\ new' \in [Callers -> Ops \cup {Null}]
           /\ pc' \in [Callers -> Labels]
<1>1. outstanding_work' \in Int
    BY DEF StateShape, WorkStarted
<1>2. ready' \in [Ops -> {0, 1}]
    BY DEF StateShape, WorkStarted
<1>3. place' \in [Ops -> Places]
    BY DEF StateShape, WorkStarted, Places
<1>4. new' \in [Callers -> Ops \cup {Null}]
    BY DEF StateShape, WorkStarted
<1>5. pc' \in [Callers -> Labels]
    BY DEF StateShape, WorkStarted, Goto, Labels, ScopeLabels
<1> QED
    BY <1>1, <1>2, <1>3, <1>4, <1>5

\* The step lemma of the shape invariant: each action of the service writes
\* values of the right kind to the variables it changes.
LEMMA ShapeStep == StateShape /\ [Next]_vars => StateShape'
<1> SUFFICES ASSUME StateShape, [Next]_vars PROVE StateShape'
    OBVIOUS
<1> USE NullAssumption DEF StateShape, Callers, Labels, OutsideLabels, StopLabels,
        LoopLabels, ScopeLabels, Places, shared, local, vars, Goto, CallStop

<1>1. ASSUME NEW c \in Callers, StopCas(c) PROVE StateShape'
    BY <1>1 DEF StopCas
<1>2. ASSUME NEW c \in Callers, StopInterrupt(c) PROVE StateShape'
    BY <1>2 DEF StopInterrupt
<1>3. ASSUME NEW c \in Callers, Submit(c) PROVE StateShape'
  <2>1. new[c] \in Ops \cup {Null}
    OBVIOUS
  <2>2. CASE PostDeferredCompletion(new[c])
    BY <1>3, <2>1, <2>2, QueueingShape DEF Submit, AfterSubmit
  <2>3. CASE ~PostDeferredCompletion(new[c])
    BY <1>3, <2>1, <2>3 DEF Submit, AfterSubmit
  <2> QED
    BY <2>2, <2>3
<1>4. ASSUME NEW c \in Callers, StartOperation(c) PROVE StateShape'
    BY <1>4, StartingShape DEF StartOperation
<1>5. ASSUME NEW c \in Callers, UserStop(c) PROVE StateShape'
    BY <1>5 DEF UserStop, MayCallService
<1>6. ASSUME NEW op \in Ops, WorkerCompletes(op) PROVE StateShape'
    BY <1>6, QueueingShape DEF WorkerCompletes
<1>7. ASSUME NEW t \in Threads, Run(t) PROVE StateShape'
    BY <1>7 DEF Run
<1>8. ASSUME NEW t \in Threads, CallbackReturns(t) PROVE StateShape'
    BY <1>8 DEF CallbackReturns
<1>9. ASSUME NEW t \in Threads, ThreadStep(t) PROVE StateShape'
  <2>1. CASE Enter(t)            BY <2>1 DEF Enter
  <2>2. CASE Claim(t)            BY <2>2 DEF Claim
  <2>3. CASE EpollWait(t)        BY <2>3 DEF EpollWait, AfterEvents
  <2>4. CASE DetachOperation(t)  BY <2>4 DEF DetachOperation, AfterEvents
  <2>5. CASE PostDetached(t)     
    <3>1. new[t] \in Ops \cup {Null}
        OBVIOUS
    <3> QED
        BY <2>5, <3>1, QueueingShape DEF PostDetached, AfterEvents
  <2>6. CASE PopOperation(t)     BY <2>6 DEF PopOperation
  <2>7. CASE PopInterrupt(t)     BY <2>7 DEF PopInterrupt
  <2>8. CASE WaitTimeout(t)      BY <2>8 DEF WaitTimeout
  <2>9. CASE SyscallFails(t)     BY <2>9 DEF SyscallFails
  <2>10. CASE PassInterrupt(t)
    <3>1. CASE stopped # 0
      <4>1. /\ pc' = [pc EXCEPT ![t] = "leave"] /\ completed_ops' = Append(completed_ops, Null)
            /\ UNCHANGED << shared, events, ready, place, local >>
        BY <2>10, <3>1 DEF PassInterrupt
      <4>2. Append(completed_ops, Null) \in Seq(Ops \cup {Null})
        OBVIOUS
      <4>3. pc' \in [Callers -> Labels]
        BY <4>1
      <4> QED
        BY <4>1, <4>2, <4>3
    <3>2. CASE ~(stopped # 0)
        BY <2>10, <3>2 DEF PassInterrupt
    <3> QED
        BY <3>1, <3>2
  <2>11. CASE Complete(t)        BY <2>11, ZenonT(40) DEF Complete
  <2>12. CASE Restart(t)         
    <3>1. t \in Callers /\ cur[t] \in Ops \cup {Null}
        OBVIOUS
    <3> QED
        BY <2>12, <3>1, StartingShape DEF Restart
  <2>13. CASE WorkFinished(t)    BY <2>13, SMTT(30) DEF WorkFinished
  <2>14. CASE Leave(t)           BY <2>14 DEF Leave, RoleAfter
  <2> QED BY <1>9, <2>1, <2>2, <2>3, <2>4, <2>5, <2>6, <2>7, <2>8, <2>9, <2>10,
             <2>11, <2>12, <2>13, <2>14 DEF ThreadStep
<1>10. CASE UNCHANGED vars
    BY <1>10
<1> QED
    BY <1>1, <1>2, <1>3, <1>4, <1>5, <1>6, <1>7, <1>8, <1>9, <1>10 DEF Next, CallerStep

-----------------------------------------------------------------------------
(***************************************************************************)
(* The inductive strengthening of OneOwner and NothingDropped.  It adds    *)
(* which operation a thread must hold at each label, and that a popped     *)
(* operation still has ready_ set when do_one() tests it.                  *)
(***************************************************************************)
QueueOnce ==
    \A i, j \in 1..Len(completed_ops) :
       i # j /\ completed_ops[i] # Null => completed_ops[i] # completed_ops[j]

QueueReady ==
    \A i \in 1..Len(completed_ops) :
       completed_ops[i] # Null => /\ place[completed_ops[i]] = "queued"
                                  /\ ready[completed_ops[i]] = 1

QueuedFound ==
    \A op \in Ops : place[op] = "queued" => \E i \in 1..Len(completed_ops) : completed_ops[i] = op

CurOwned ==
    /\ \A c \in Callers : cur[c] # Null => place[cur[c]] = "held"
    /\ \A c, d \in Callers : c # d /\ cur[c] # Null => cur[c] # cur[d]

NewOwned ==
    /\ \A c \in Callers : new[c] # Null => place[new[c]] \in {"started", "detached"}
    /\ \A c, d \in Callers : c # d /\ new[c] # Null => new[c] # new[d]

LabelsHold ==
    \A c \in Callers :
       /\ pc[c] \in {"claimed", "callback"} => cur[c] # Null
       /\ pc[c] \in StopLabels /\ ret[c] = "callback" => cur[c] # Null
       /\ pc[c] \in {"start", "detached"} => new[c] # Null
       /\ pc[c] = "claimed" => ready[cur[c]] = 1

NoneDropped == \A op \in Ops : place[op] # "dropped"

QueueOwned == QueueOnce /\ QueueReady /\ QueuedFound /\ NoneDropped
HandsOwned == CurOwned /\ NewOwned /\ LabelsHold
Ownership  == QueueOwned /\ HandsOwned

\* Appending to completed_ops_ (my_semaphore::append) leaves the elements
\* before the new one where they are.
LEMMA AppendElements ==
    ASSUME NEW S, NEW q \in Seq(S), NEW e \in S
    PROVE  /\ Len(q) \in Nat
           /\ Len(Append(q, e)) = Len(q) + 1
           /\ \A i \in 1..Len(q) : Append(q, e)[i] = q[i]
           /\ Append(q, e)[Len(q) + 1] = e
    OBVIOUS

\* Taking the head of completed_ops_ (my_semaphore::wait) moves every other
\* element one place forward.
LEMMA TailElements ==
    ASSUME NEW S, NEW q \in Seq(S), q # << >>
    PROVE  /\ Len(q) \in Nat
           /\ Len(q) >= 1
           /\ Len(Tail(q)) = Len(q) - 1
           /\ \A i \in 1..Len(q) - 1 : Tail(q)[i] = q[i + 1]
           /\ Head(q) = q[1]
    OBVIOUS

\* An operation that is not in the queue yet can be queued: it is then in the
\* queue once, with ready_ set, and so is everything else.
LEMMA QueueingKeepsQueue ==
    ASSUME StateShape, QueueOwned, NEW op \in Ops, place[op] # "queued",
           PostDeferredCompletion(op)
    PROVE  QueueOwned'
<1> DEFINE q == completed_ops
<1>1. /\ Len(q) \in Nat /\ Len(q') = Len(q) + 1
      /\ \A i \in 1..Len(q) : q'[i] = q[i]
      /\ q'[Len(q) + 1] = op
    BY AppendElements DEF StateShape, PostDeferredCompletion
<1>2. \A i \in 1..Len(q) : q[i] # op
    BY NullAssumption DEF QueueOwned, QueueReady
<1>3. /\ \A x \in Ops : x # op => place'[x] = place[x] /\ ready'[x] = ready[x]
      /\ place'[op] = "queued" /\ ready'[op] = 1
    BY DEF StateShape, PostDeferredCompletion
<1>4. \A i \in 1..Len(q) : q[i] \in Ops \cup {Null}
    BY DEF StateShape
<1>5. \A i \in 1..Len(q) + 1 : i \in 1..Len(q) \/ i = Len(q) + 1
    BY <1>1
<1>6. QueueOnce'
    BY <1>1, <1>2, <1>5 DEF QueueOwned, QueueOnce
<1>7. QueueReady'
    BY <1>1, <1>2, <1>3, <1>4, <1>5 DEF QueueOwned, QueueReady
<1>8. QueuedFound'
    BY <1>1, <1>3 DEF QueueOwned, QueuedFound
<1>9. NoneDropped'
    BY <1>3 DEF QueueOwned, NoneDropped
<1> QED
    BY <1>6, <1>7, <1>8, <1>9 DEF QueueOwned

\* The interrupt can be queued any time: a null operation has no object.
LEMMA InterruptKeepsQueue ==
    ASSUME StateShape, QueueOwned, completed_ops' = Append(completed_ops, Null),
           UNCHANGED << place, ready >>
    PROVE  QueueOwned'
<1> DEFINE q == completed_ops
<1>1. /\ Len(q) \in Nat /\ Len(q') = Len(q) + 1
      /\ \A i \in 1..Len(q) : q'[i] = q[i]
      /\ q'[Len(q) + 1] = Null
    BY AppendElements DEF StateShape
<1>2. \A i \in 1..Len(q) + 1 : i \in 1..Len(q) \/ i = Len(q) + 1
    BY <1>1
<1>3. QueueOnce'
    BY <1>1, <1>2 DEF QueueOwned, QueueOnce
<1>4. QueueReady'
    BY <1>1, <1>2 DEF QueueOwned, QueueReady
<1>5. QueuedFound'
    BY <1>1 DEF QueueOwned, QueuedFound
<1> QED
    BY <1>3, <1>4, <1>5 DEF QueueOwned, NoneDropped

\* Popping the head, operation or interrupt, leaves the rest in order.
LEMMA PoppingKeepsQueue ==
    ASSUME StateShape, QueueOwned, completed_ops # << >>,
           completed_ops' = Tail(completed_ops), ready' = ready,
           place' = IF Head(completed_ops) = Null THEN place
                    ELSE [place EXCEPT ![Head(completed_ops)] = "held"]
    PROVE  QueueOwned'
<1> DEFINE q == completed_ops
<1>1. /\ Len(q) \in Nat /\ Len(q) >= 1 /\ Len(q') = Len(q) - 1
      /\ \A i \in 1..Len(q) - 1 : q'[i] = q[i + 1]
      /\ Head(q) = q[1]
    BY TailElements DEF StateShape
<1>2. \A i \in 1..Len(q) : q[i] \in Ops \cup {Null}
    BY DEF StateShape
<1>3. \A i \in 1..Len(q) - 1 : i + 1 \in 1..Len(q) /\ i + 1 # 1
    BY <1>1
<1>4. QueueOnce'
    BY <1>1, <1>3 DEF QueueOwned, QueueOnce
<1>5. \A x \in Ops : x # Head(q) => place'[x] = place[x]
    BY DEF StateShape
<1>6. Head(q) # Null => Head(q) \in Ops /\ place'[Head(q)] = "held"
    BY <1>1, <1>2 DEF StateShape
<1>7. 1 \in 1..Len(q)
    BY <1>1
<1>8. \A i \in 1..Len(q) - 1 : q'[i] # Null => q'[i] # Head(q)
    BY <1>1, <1>3, <1>7 DEF QueueOwned, QueueOnce
<1>9. QueueReady'
    BY <1>1, <1>2, <1>3, <1>5, <1>8 DEF QueueOwned, QueueReady
<1>10. QueuedFound'
  <2> SUFFICES ASSUME NEW x \in Ops, place'[x] = "queued"
               PROVE  \E i \in 1..Len(q') : q'[i] = x
      BY DEF QueuedFound
  <2>1. x # Head(q) /\ place[x] = "queued"
      BY <1>5, <1>6, NullAssumption
  <2>2. PICK i \in 1..Len(q) : q[i] = x
      BY <2>1 DEF QueueOwned, QueuedFound
  <2>3. i # 1 /\ i - 1 \in 1..Len(q')
      BY <1>1, <2>1, <2>2
  <2>4. q'[i - 1] = q[i]
      BY <1>1, <2>2, <2>3
  <2> QED
      BY <2>2, <2>3, <2>4
<1>11. NoneDropped'
    BY <1>5, <1>6 DEF QueueOwned, NoneDropped
<1> QED
    BY <1>4, <1>9, <1>10, <1>11 DEF QueueOwned

\* A step that leaves the queue, and the operations in it, alone.
LEMMA QueueFrame ==
    ASSUME StateShape, QueueOwned, completed_ops' = completed_ops,
           \A op \in Ops :
              /\ place[op] = "queued" => place'[op] = "queued" /\ ready'[op] = ready[op]
              /\ place'[op] = "queued" => place[op] = "queued"
              /\ place'[op] # "dropped"
    PROVE  QueueOwned'
<1>1. \A i \in 1..Len(completed_ops) : completed_ops[i] \in Ops \cup {Null}
    BY DEF StateShape
<1>2. QueueReady'
    BY <1>1 DEF QueueOwned, QueueReady
<1> QED
    BY <1>2 DEF QueueOwned, QueueOnce, QueuedFound, NoneDropped

\* Every step keeps the ownership of the operations: starting, arming,
\* handing over, dispatching, queueing, popping, completing and restarting
\* each move one operation from one owner to the next.
LEMMA OwnershipStep == StateShape /\ Ownership /\ [Next]_vars => Ownership'
<1> SUFFICES ASSUME StateShape, Ownership, [Next]_vars PROVE Ownership'
    OBVIOUS
<1> USE NullAssumption DEF Ownership
<1> DEFINE Shape == /\ ready \in [Ops -> {0, 1}] /\ place \in [Ops -> Places]
                    /\ pc \in [Callers -> Labels]
                    /\ cur \in [Callers -> Ops \cup {Null}]
                    /\ new \in [Callers -> Ops \cup {Null}]
                    /\ ret \in [Callers -> {"out", "enter", "claim", "callback"}]
<1>0. Shape
    BY DEF StateShape
<1> HIDE DEF Shape
<1> USE DEF Goto, CallStop, StopLabels, shared, local
<1>1. ASSUME NEW c \in Callers, StopCas(c) PROVE Ownership'
  <2>1. QueueOwned'
    BY <1>1, QueueFrame DEF StopCas, QueueOwned, NoneDropped
  <2>2. HandsOwned'
    BY <1>0, <1>1 DEF Shape, StopCas, HandsOwned, CurOwned, NewOwned, LabelsHold
  <2> QED
    BY <2>1, <2>2
<1>2. ASSUME NEW c \in Callers, StopInterrupt(c) PROVE Ownership'
  <2>1. QueueOwned'
    BY <1>2, InterruptKeepsQueue DEF StopInterrupt
  <2>2. HandsOwned'
    BY <1>0, <1>2 DEF Shape, StopInterrupt, HandsOwned, CurOwned, NewOwned, LabelsHold
  <2> QED
    BY <2>1, <2>2
<1>3. ASSUME NEW c \in Callers, Submit(c) PROVE Ownership'
  <2>1. new[c] \in Ops /\ place[new[c]] \in {"started", "detached"}
    BY <1>0, <1>3 DEF Shape, Submit, HandsOwned, NewOwned, LabelsHold
  <2>2. QueueOwned'
    <3>1. CASE PostDeferredCompletion(new[c])
      BY <2>1, <3>1, QueueingKeepsQueue
    <3>2. CASE ~PostDeferredCompletion(new[c])
      BY <1>0, <1>3, <2>1, <3>2, QueueFrame DEF Shape, Submit, QueueOwned, NoneDropped
    <3> QED
      BY <3>1, <3>2
  <2>3. \A op \in Ops : op # new[c] => place'[op] = place[op] /\ ready'[op] = ready[op]
    BY <1>0, <1>3 DEF Shape, Submit, PostDeferredCompletion
  <2>4. CurOwned'
    BY <1>0, <1>3, <2>1, <2>3 DEF Shape, Submit, HandsOwned, CurOwned
  <2>5. NewOwned'
    BY <1>0, <1>3, <2>1, <2>3 DEF Shape, Submit, HandsOwned, NewOwned
  <2>6. \A d \in Callers : pc[d] = "claimed" => cur[d] \in Ops /\ cur[d] # new[c]
    BY <1>0, <2>1 DEF Shape, HandsOwned, CurOwned, LabelsHold
  <2>7. LabelsHold'
    BY <1>0, <1>3, <2>3, <2>6 DEF Shape, Submit, AfterSubmit, HandsOwned, LabelsHold
  <2> QED
    BY <2>2, <2>4, <2>5, <2>7 DEF HandsOwned
<1>4. ASSUME NEW c \in Callers, StartOperation(c) PROVE Ownership'
  <2>1. PICK op \in Ops : place[op] = "free" /\ WorkStarted(c, op)
    BY <1>4 DEF StartOperation
  <2>2. \A x \in Ops : x # op => place'[x] = place[x] /\ ready'[x] = ready[x]
    BY <1>0, <2>1 DEF Shape, WorkStarted
  <2>3. place'[op] = "started"
    BY <1>0, <2>1 DEF Shape, WorkStarted
  <2>4. QueueOwned'
    BY <1>4, <2>1, <2>2, <2>3, QueueFrame DEF StartOperation, QueueOwned, NoneDropped
  <2>5. CurOwned'
    BY <1>0, <1>4, <2>1, <2>2 DEF Shape, StartOperation, HandsOwned, CurOwned
  <2>6. NewOwned'
    BY <1>0, <2>1, <2>2, <2>3 DEF Shape, WorkStarted, HandsOwned, NewOwned
  <2>7. \A d \in Callers : pc[d] = "claimed" => cur[d] \in Ops /\ cur[d] # op
    BY <1>0, <2>1 DEF Shape, HandsOwned, CurOwned, LabelsHold
  <2>8. LabelsHold'
    BY <1>0, <1>4, <2>1, <2>2, <2>7
       DEF Shape, StartOperation, WorkStarted, HandsOwned, LabelsHold
  <2> QED
    BY <2>4, <2>5, <2>6, <2>8 DEF HandsOwned
<1>5. ASSUME NEW c \in Callers, UserStop(c) PROVE Ownership'
  <2>1. QueueOwned'
    BY <1>5, QueueFrame DEF UserStop, QueueOwned, NoneDropped
  <2>2. HandsOwned'
    BY <1>0, <1>5 DEF Shape, UserStop, MayCallService, HandsOwned, CurOwned, NewOwned, LabelsHold
  <2> QED
    BY <2>1, <2>2
<1>6. ASSUME NEW op \in Ops, WorkerCompletes(op) PROVE Ownership'
  <2>1. QueueOwned'
    BY <1>6, QueueingKeepsQueue DEF WorkerCompletes
  <2>2. \A x \in Ops : x # op => place'[x] = place[x] /\ ready'[x] = ready[x]
    BY <1>0, <1>6 DEF Shape, WorkerCompletes, PostDeferredCompletion
  <2>3. \A d \in Callers : cur[d] # op /\ new[d] # op
    BY <1>6 DEF WorkerCompletes, HandsOwned, CurOwned, NewOwned
  <2>4. HandsOwned'
    BY <1>0, <1>6, <2>2, <2>3
       DEF Shape, WorkerCompletes, HandsOwned, CurOwned, NewOwned, LabelsHold
  <2> QED
    BY <2>1, <2>4
<1>7. ASSUME NEW t \in Threads, Run(t) PROVE Ownership'
  <2>1. QueueOwned'
    BY <1>7, QueueFrame DEF Run, QueueOwned, NoneDropped
  <2>2. HandsOwned'
    BY <1>0, <1>7 DEF Shape, Run, HandsOwned, CurOwned, NewOwned, LabelsHold
  <2> QED
    BY <2>1, <2>2
<1>8. ASSUME NEW t \in Threads, CallbackReturns(t) PROVE Ownership'
  <2>1. t \in Callers /\ cur[t] \in Ops /\ place[cur[t]] = "held"
    BY <1>0, <1>8 DEF Shape, Callers, CallbackReturns, HandsOwned, LabelsHold, CurOwned
  <2>2. \A x \in Ops : x # cur[t] => place'[x] = place[x]
    BY <1>0, <1>8 DEF Shape, CallbackReturns
  <2>3. place'[cur[t]] = "free"
    BY <1>0, <1>8, <2>1 DEF Shape, CallbackReturns
  <2>4. QueueOwned'
    BY <1>8, <2>1, <2>2, <2>3, QueueFrame DEF CallbackReturns, QueueOwned, NoneDropped
  <2>5. CurOwned'
    BY <1>0, <1>8, <2>1, <2>2 DEF Shape, CallbackReturns, HandsOwned, CurOwned
  <2>6. NewOwned'
    BY <1>0, <1>8, <2>1, <2>2 DEF Shape, CallbackReturns, HandsOwned, NewOwned
  <2>7. LabelsHold'
    BY <1>0, <1>8, <2>1 DEF Shape, CallbackReturns, HandsOwned, LabelsHold
  <2> QED
    BY <2>4, <2>5, <2>6, <2>7 DEF HandsOwned
<1>10. CASE UNCHANGED vars
    BY <1>10 DEF vars, QueueOwned, QueueOnce, QueueReady, QueuedFound, NoneDropped,
                 HandsOwned, CurOwned, NewOwned, LabelsHold
<1>9. ASSUME NEW t \in Threads, ThreadStep(t) PROVE Ownership'
  <2> USE DEF Callers
  <2>1. ASSUME \/ Enter(t) \/ Claim(t) \/ EpollWait(t) \/ WaitTimeout(t)
               \/ SyscallFails(t) \/ WorkFinished(t) \/ Leave(t)
        PROVE  Ownership'
    <3>1. UNCHANGED << completed_ops, ready, place, cur, new >>
      BY <2>1 DEF Enter, Claim, EpollWait, WaitTimeout, SyscallFails, WorkFinished, Leave
    <3>2. QueueOwned'
      BY <3>1, QueueFrame DEF QueueOwned, NoneDropped
    <3>3. CurOwned' /\ NewOwned'
      BY <3>1 DEF HandsOwned, CurOwned, NewOwned
    <3>4. /\ \A d \in Callers : d # t => pc'[d] = pc[d] /\ ret'[d] = ret[d]
          /\ pc'[t] \in {"claim", "epoll", "wait", "dispatch", "leave", "out", "stop"}
          /\ pc'[t] = "stop" => ret'[t] = "claim"
      BY <1>0, <2>1 DEF Shape, Enter, Claim, EpollWait, AfterEvents, WaitTimeout,
                        SyscallFails, WorkFinished, Leave
    <3>5. LabelsHold'
      BY <3>1, <3>4 DEF HandsOwned, LabelsHold
    <3> QED
      BY <3>2, <3>3, <3>5 DEF HandsOwned
  <2>2. CASE DetachOperation(t)
    <3>1. PICK op \in events :
             /\ events' = events \ {op}
             /\ IF place[op] = "armed"
                THEN /\ place' = [place EXCEPT ![op] = "detached"]
                     /\ new' = [new EXCEPT ![t] = op]
                     /\ Goto(t, "detached")
                ELSE Goto(t, AfterEvents(events')) /\ UNCHANGED << place, new >>
      BY <2>2 DEF DetachOperation
    <3>2. op \in Ops
      BY DEF StateShape
    <3>3. /\ UNCHANGED << completed_ops, ready, cur, ret >>
          /\ \A d \in Callers : d # t => pc'[d] = pc[d]
      BY <1>0, <2>2, <3>1 DEF Shape, DetachOperation
    <3>4. CASE place[op] = "armed"
      <4>1. /\ \A x \in Ops : x # op => place'[x] = place[x]
            /\ place'[op] = "detached"
            /\ \A d \in Callers : d # t => new'[d] = new[d]
            /\ new'[t] = op
            /\ pc'[t] = "detached"
        BY <1>0, <3>1, <3>2, <3>4 DEF Shape
      <4>2. QueueOwned'
        BY <3>2, <3>3, <3>4, <4>1, QueueFrame DEF QueueOwned, NoneDropped
      <4>3. CurOwned'
        BY <1>0, <3>2, <3>3, <3>4, <4>1 DEF Shape, HandsOwned, CurOwned
      <4>4. NewOwned'
        BY <1>0, <3>2, <3>3, <3>4, <4>1 DEF Shape, HandsOwned, NewOwned
      <4>5. LabelsHold'
        BY <3>2, <3>3, <4>1 DEF HandsOwned, LabelsHold
      <4> QED
        BY <4>2, <4>3, <4>4, <4>5 DEF HandsOwned
    <3>5. CASE place[op] # "armed"
      <4>1. UNCHANGED << place, new >> /\ pc'[t] \in {"wait", "dispatch"}
        BY <1>0, <3>1, <3>5 DEF Shape, AfterEvents
      <4>2. QueueOwned'
        BY <3>3, <4>1, QueueFrame DEF QueueOwned, NoneDropped
      <4>3. HandsOwned'
        BY <3>3, <4>1 DEF HandsOwned, CurOwned, NewOwned, LabelsHold
      <4> QED
        BY <4>2, <4>3
    <3> QED
      BY <3>4, <3>5
  <2>3. CASE PostDetached(t)
    <3>1. new[t] \in Ops /\ place[new[t]] \in {"started", "detached"}
      BY <1>0, <2>3 DEF Shape, PostDetached, HandsOwned, NewOwned, LabelsHold
    <3>2. QueueOwned'
      BY <2>3, <3>1, QueueingKeepsQueue DEF PostDetached
    <3>3. \A op \in Ops : op # new[t] => place'[op] = place[op] /\ ready'[op] = ready[op]
      BY <1>0, <2>3 DEF Shape, PostDetached, PostDeferredCompletion
    <3>4. CurOwned'
      BY <1>0, <2>3, <3>1, <3>3 DEF Shape, PostDetached, HandsOwned, CurOwned
    <3>5. NewOwned'
      BY <1>0, <2>3, <3>1, <3>3 DEF Shape, PostDetached, HandsOwned, NewOwned
    <3>6. \A d \in Callers : pc[d] = "claimed" => cur[d] \in Ops /\ cur[d] # new[t]
      BY <1>0, <3>1 DEF Shape, HandsOwned, CurOwned, LabelsHold
    <3>7. LabelsHold'
      BY <1>0, <2>3, <3>3, <3>6 DEF Shape, PostDetached, AfterEvents, HandsOwned, LabelsHold
    <3> QED
      BY <3>2, <3>4, <3>5, <3>7 DEF HandsOwned
  <2>4. CASE PopOperation(t)
    <3> DEFINE h == Head(completed_ops)
    <3>1. /\ Len(completed_ops) >= 1 /\ Len(completed_ops) \in Nat
          /\ h = completed_ops[1] /\ h # Null
      BY <2>4, TailElements DEF PopOperation, StateShape
    <3>2. h \in Ops /\ place[h] = "queued" /\ ready[h] = 1
      BY <3>1 DEF StateShape, QueueOwned, QueueReady
    <3>3. QueueOwned'
      BY <2>4, PoppingKeepsQueue DEF PopOperation
    <3>4. /\ UNCHANGED << ready, new, ret >>
          /\ \A x \in Ops : x # h => place'[x] = place[x]
          /\ place'[h] = "held"
          /\ \A d \in Callers : d # t => pc'[d] = pc[d] /\ cur'[d] = cur[d]
          /\ pc'[t] = "claimed" /\ cur'[t] = h
      BY <1>0, <2>4, <3>2 DEF Shape, PopOperation
    <3>5. CurOwned'
      BY <1>0, <3>2, <3>4 DEF Shape, HandsOwned, CurOwned
    <3>6. NewOwned'
      BY <1>0, <3>2, <3>4 DEF Shape, HandsOwned, NewOwned
    <3>7. LabelsHold'
      BY <3>2, <3>4 DEF HandsOwned, LabelsHold
    <3> QED
      BY <3>3, <3>5, <3>6, <3>7 DEF HandsOwned
  <2>5. CASE PopInterrupt(t)
    <3>1. QueueOwned'
      BY <2>5, PoppingKeepsQueue DEF PopInterrupt
    <3>2. HandsOwned'
      BY <1>0, <2>5 DEF Shape, PopInterrupt, HandsOwned, CurOwned, NewOwned, LabelsHold
    <3> QED
      BY <3>1, <3>2
  <2>6. CASE PassInterrupt(t)
    <3>1. QueueOwned'
      BY <2>6, InterruptKeepsQueue, QueueFrame DEF PassInterrupt, QueueOwned, NoneDropped
    <3>2. HandsOwned'
      BY <1>0, <2>6 DEF Shape, PassInterrupt, HandsOwned, CurOwned, NewOwned, LabelsHold
    <3> QED
      BY <3>1, <3>2
  <2>7. CASE Complete(t)
    <3>1. cur[t] \in Ops /\ place[cur[t]] = "held" /\ ready[cur[t]] = 1
      BY <1>0, <2>7 DEF Shape, Complete, HandsOwned, CurOwned, LabelsHold
    <3>2. ready' = ready
      BY <1>0, <2>7, <3>1 DEF Shape, Complete
    <3>3. QueueOwned'
      BY <2>7, <3>1, <3>2, QueueFrame DEF Complete, QueueOwned, NoneDropped
    <3>4. HandsOwned'
      BY <1>0, <2>7, <3>1, <3>2
         DEF Shape, Complete, HandsOwned, CurOwned, NewOwned, LabelsHold
    <3> QED
      BY <3>3, <3>4
  <2>8. CASE Restart(t)
    <3> DEFINE op == cur[t]
    <3>1. op \in Ops /\ place[op] = "held"
      BY <1>0, <2>8 DEF Shape, Restart, HandsOwned, CurOwned, LabelsHold
    <3>2. /\ \A x \in Ops : x # op => place'[x] = place[x] /\ ready'[x] = ready[x]
          /\ place'[op] = "started"
          /\ \A d \in Callers : d # t => /\ pc'[d] = pc[d] /\ cur'[d] = cur[d]
                                         /\ new'[d] = new[d]
          /\ pc'[t] = "start" /\ cur'[t] = Null /\ new'[t] = op
          /\ UNCHANGED << completed_ops, ret >>
      BY <1>0, <2>8, <3>1 DEF Shape, Restart, WorkStarted
    <3>3. QueueOwned'
      BY <3>1, <3>2, QueueFrame DEF QueueOwned, NoneDropped
    <3>4. CurOwned'
      BY <1>0, <3>1, <3>2 DEF Shape, HandsOwned, CurOwned
    <3>5. NewOwned'
      BY <1>0, <3>1, <3>2 DEF Shape, HandsOwned, NewOwned
    <3>6. \A d \in Callers : d # t /\ pc[d] = "claimed" => cur[d] \in Ops /\ cur[d] # op
      BY <1>0, <3>1 DEF Shape, HandsOwned, CurOwned, LabelsHold
    <3>7. LabelsHold'
      BY <3>1, <3>2, <3>6 DEF HandsOwned, LabelsHold
    <3> QED
      BY <3>3, <3>4, <3>5, <3>7 DEF HandsOwned
  <2> QED
    BY <1>9, <2>1, <2>2, <2>3, <2>4, <2>5, <2>6, <2>7, <2>8 DEF ThreadStep
<1> QED
    BY <1>1, <1>2, <1>3, <1>4, <1>5, <1>6, <1>7, <1>8, <1>9, <1>10 DEF Next, CallerStep

-----------------------------------------------------------------------------
(***************************************************************************)
(* The accounting.  Four actions move the books: starting and restarting   *)
(* add a pending operation and one to the counter, popping moves an        *)
(* operation from Pending to the thread that completes it, finishing takes *)
(* that thread out of Owing and one from the counter.                      *)
(***************************************************************************)

\* Both sides of the books are finite, so that their sizes are numbers.
LEMMA BooksFinite ==
    /\ IsFiniteSet(Pending) /\ Cardinality(Pending) \in Nat
    /\ IsFiniteSet(Owing) /\ Cardinality(Owing) \in Nat
<1>1. Pending \in SUBSET Ops /\ Owing \in SUBSET Threads
    BY DEF Pending, Owing
<1>2. IsFiniteSet(Pending) /\ IsFiniteSet(Owing)
    BY <1>1, OpsAssumption, ThreadsAssumption, FS_Subset
<1> QED
    BY <1>2, FS_CardinalityType

\* The step lemma of the accounting.
LEMMA AccountingStep ==
    StateShape /\ Ownership /\ WorkAccounting /\ [Next]_vars => WorkAccounting'
<1> SUFFICES ASSUME StateShape, Ownership, WorkAccounting, [Next]_vars
             PROVE  WorkAccounting'
    OBVIOUS
<1> USE NullAssumption
<1> DEFINE Shape == /\ outstanding_work \in Int
                    /\ place \in [Ops -> Places]
                    /\ pc \in [Callers -> Labels]
                    /\ cur \in [Callers -> Ops \cup {Null}]
                    /\ new \in [Callers -> Ops \cup {Null}]
                    /\ ret \in [Callers -> {"out", "enter", "claim", "callback"}]
<1>0. Shape /\ Threads \subseteq Callers
    BY DEF StateShape, Callers
<1> HIDE DEF Shape
<1> USE DEF Goto, CallStop, StopLabels, ScopeLabels, Waiting, shared, local
<1>a. ASSUME outstanding_work' = outstanding_work, Pending' = Pending, Owing' = Owing
      PROVE  WorkAccounting'
    BY <1>a DEF WorkAccounting
<1>b. ASSUME NEW op \in Ops, place[op] \notin Waiting, place' = [place EXCEPT ![op] = "started"],
             outstanding_work' = outstanding_work + 1, Owing' = Owing
      PROVE  WorkAccounting'
  <2>1. Pending' = Pending \cup {op} /\ op \notin Pending
    BY <1>0, <1>b DEF Shape, Pending
  <2>2. Cardinality(Pending') = Cardinality(Pending) + 1
    BY <2>1, BooksFinite, FS_AddElement
  <2> QED
    BY <1>0, <1>b, <2>2, BooksFinite DEF Shape, WorkAccounting
<1>1. ASSUME NEW c \in Callers, StopCas(c) PROVE WorkAccounting'
  <2>1. Pending' = Pending
    BY <1>1 DEF StopCas, Pending
  <2>2. Owing' = Owing
    BY <1>0, <1>1 DEF Shape, StopCas, Owing
  <2> QED
    BY <1>a, <1>1, <2>1, <2>2 DEF StopCas
<1>2. ASSUME NEW c \in Callers, StopInterrupt(c) PROVE WorkAccounting'
  <2>1. Pending' = Pending
    BY <1>2 DEF StopInterrupt, Pending
  <2>2. Owing' = Owing
    BY <1>0, <1>2 DEF Shape, StopInterrupt, Owing
  <2> QED
    BY <1>a, <1>2, <2>1, <2>2 DEF StopInterrupt
<1>3. ASSUME NEW c \in Callers, Submit(c) PROVE WorkAccounting'
  <2>1. new[c] \in Ops /\ place[new[c]] \in {"started", "detached"}
    BY <1>0, <1>3 DEF Shape, Submit, Ownership, HandsOwned, NewOwned, LabelsHold
  <2>2. \E p \in Waiting : place' = [place EXCEPT ![new[c]] = p]
    BY <1>3 DEF Submit, PostDeferredCompletion
  <2>3. Pending' = Pending
    BY <1>0, <2>1, <2>2 DEF Shape, Pending
  <2>4. Owing' = Owing
    BY <1>0, <1>3, CallersAssumption DEF Shape, Submit, AfterSubmit, Owing
  <2> QED
    BY <1>a, <1>3, <2>3, <2>4 DEF Submit
<1>4. ASSUME NEW c \in Callers, StartOperation(c) PROVE WorkAccounting'
  <2>1. PICK op \in Ops : place[op] = "free" /\ WorkStarted(c, op)
    BY <1>4 DEF StartOperation
  <2>2. Owing' = Owing
    BY <1>0, <1>4, <2>1, CallersAssumption
       DEF Shape, StartOperation, MayCallService, WorkStarted, Owing
  <2> QED
    BY <1>b, <2>1, <2>2 DEF WorkStarted
<1>5. ASSUME NEW c \in Callers, UserStop(c) PROVE WorkAccounting'
  <2>1. Pending' = Pending
    BY <1>5 DEF UserStop, Pending
  <2>2. Owing' = Owing
    BY <1>0, <1>5, CallersAssumption DEF Shape, UserStop, MayCallService, Owing
  <2> QED
    BY <1>a, <1>5, <2>1, <2>2 DEF UserStop
<1>6. ASSUME NEW op \in Ops, WorkerCompletes(op) PROVE WorkAccounting'
  <2>1. Pending' = Pending
    BY <1>0, <1>6 DEF Shape, WorkerCompletes, PostDeferredCompletion, Pending
  <2>2. Owing' = Owing
    BY <1>6 DEF WorkerCompletes, Owing
  <2> QED
    BY <1>a, <1>6, <2>1, <2>2 DEF WorkerCompletes
<1>7. ASSUME NEW t \in Threads, Run(t) PROVE WorkAccounting'
  <2>1. ~Inside(t)
    BY <1>7 DEF Run, MayRun, Inside, OutsideLabels
  <2>2. Pending' = Pending
    BY <1>7 DEF Run, Pending
  <2>3. Owing' = Owing
    BY <1>0, <1>7, <2>1 DEF Shape, Run, Owing, Inside, OutsideLabels
  <2> QED
    BY <1>a, <1>7, <2>2, <2>3 DEF Run
<1>8. ASSUME NEW t \in Threads, CallbackReturns(t) PROVE WorkAccounting'
  <2>1. cur[t] \in Ops /\ place[cur[t]] = "held"
    BY <1>0, <1>8 DEF Shape, CallbackReturns, Ownership, HandsOwned, CurOwned, LabelsHold
  <2>2. Pending' = Pending
    BY <1>0, <1>8, <2>1 DEF Shape, CallbackReturns, Pending
  <2>3. Owing' = Owing
    BY <1>0, <1>8 DEF Shape, CallbackReturns, Owing
  <2> QED
    BY <1>a, <1>8, <2>2, <2>3 DEF CallbackReturns
<1>9. ASSUME NEW t \in Threads, ThreadStep(t) PROVE WorkAccounting'
  <2>1. ASSUME \/ Enter(t) \/ Claim(t) \/ EpollWait(t) \/ WaitTimeout(t)
               \/ SyscallFails(t) \/ Leave(t) \/ PopInterrupt(t) \/ PassInterrupt(t)
        PROVE  WorkAccounting'
    <3>1. UNCHANGED << outstanding_work, place, ret >>
      BY <2>1 DEF Enter, Claim, EpollWait, WaitTimeout, SyscallFails, Leave, PopInterrupt,
                  PassInterrupt
    <3>2. /\ \A d \in Callers : d # t => pc'[d] = pc[d]
          /\ pc[t] \notin StopLabels \cup ScopeLabels
          /\ pc'[t] \notin StopLabels \cup ScopeLabels
      BY <1>0, <2>1 DEF Shape, Enter, Claim, EpollWait, AfterEvents, WaitTimeout,
                        SyscallFails, Leave, PopInterrupt, PassInterrupt
    <3>3. Pending' = Pending
      BY <3>1 DEF Pending
    <3>4. Owing' = Owing
      BY <1>0, <3>1, <3>2 DEF Owing
    <3> QED
      BY <1>a, <3>1, <3>3, <3>4
  <2>2. CASE DetachOperation(t)
    <3>1. Pending' = Pending
      BY <1>0, <2>2 DEF Shape, DetachOperation, Pending
    <3>2. Owing' = Owing
      BY <1>0, <2>2 DEF Shape, DetachOperation, AfterEvents, Owing
    <3> QED
      BY <1>a, <2>2, <3>1, <3>2 DEF DetachOperation
  <2>3. CASE PostDetached(t)
    <3>1. new[t] \in Ops /\ place[new[t]] \in {"started", "detached"}
      BY <1>0, <2>3 DEF Shape, PostDetached, Ownership, HandsOwned, NewOwned, LabelsHold
    <3>2. Pending' = Pending
      BY <1>0, <2>3, <3>1 DEF Shape, PostDetached, PostDeferredCompletion, Pending
    <3>3. Owing' = Owing
      BY <1>0, <2>3 DEF Shape, PostDetached, AfterEvents, Owing
    <3> QED
      BY <1>a, <2>3, <3>2, <3>3 DEF PostDetached
  <2>4. CASE PopOperation(t)
    <3> DEFINE h == Head(completed_ops)
    <3>1. /\ Len(completed_ops) >= 1 /\ Len(completed_ops) \in Nat
          /\ h = completed_ops[1] /\ h # Null
      BY <2>4, TailElements DEF PopOperation, StateShape
    <3>2. h \in Ops /\ place[h] = "queued"
      BY <3>1 DEF StateShape, Ownership, QueueOwned, QueueReady
    <3>3. Pending' = Pending \ {h} /\ h \in Pending
      BY <1>0, <2>4, <3>2 DEF Shape, PopOperation, Pending
    <3>4. Owing' = Owing \cup {t} /\ t \notin Owing
      BY <1>0, <2>4 DEF Shape, PopOperation, Owing
    <3>5. Cardinality(Pending') = Cardinality(Pending) - 1
      BY <3>3, BooksFinite, FS_RemoveElement
    <3>6. Cardinality(Owing') = Cardinality(Owing) + 1
      BY <3>4, BooksFinite, FS_AddElement
    <3> QED
      BY <1>0, <2>4, <3>5, <3>6, BooksFinite DEF Shape, PopOperation, WorkAccounting
  <2>5. CASE Complete(t)
    <3>1. ready[cur[t]] = 1
      BY <1>0, <2>5 DEF Complete, Ownership, HandsOwned, LabelsHold
    <3>2. Pending' = Pending
      BY <2>5, <3>1 DEF Complete, Pending
    <3>3. Owing' = Owing
      BY <1>0, <2>5, <3>1 DEF Shape, Complete, Owing
    <3> QED
      BY <1>a, <2>5, <3>2, <3>3 DEF Complete
  <2>6. CASE Restart(t)
    <3>1. cur[t] \in Ops /\ place[cur[t]] = "held"
      BY <1>0, <2>6 DEF Shape, Restart, Ownership, HandsOwned, CurOwned, LabelsHold
    <3>2. Owing' = Owing
      BY <1>0, <2>6 DEF Shape, Restart, WorkStarted, Owing
    <3> QED
      BY <1>b, <2>6, <3>1, <3>2 DEF Restart, WorkStarted
  <2>7. CASE WorkFinished(t)
    <3>1. Pending' = Pending
      BY <2>7 DEF WorkFinished, Pending
    <3>2. Owing' = Owing \ {t} /\ t \in Owing
      BY <1>0, <2>7 DEF Shape, WorkFinished, Owing
    <3>3. Cardinality(Owing') = Cardinality(Owing) - 1
      BY <3>2, BooksFinite, FS_RemoveElement
    <3> QED
      BY <1>0, <2>7, <3>1, <3>3, BooksFinite DEF Shape, WorkFinished, WorkAccounting
  <2> QED
    BY <1>9, <2>1, <2>2, <2>3, <2>4, <2>5, <2>6, <2>7 DEF ThreadStep
<1>10. CASE UNCHANGED vars
    BY <1>10 DEF vars, WorkAccounting, Pending, Owing
<1> QED
    BY <1>1, <1>2, <1>3, <1>4, <1>5, <1>6, <1>7, <1>8, <1>9, <1>10 DEF Next, CallerStep

-----------------------------------------------------------------------------
(***************************************************************************)
(* The theorems.                                                           *)
(***************************************************************************)
ServiceInv == StateShape /\ Ownership /\ WorkAccounting

\* The inductive invariant the theorems rest on holds in every state.
LEMMA ServiceInvariant == Spec => []ServiceInv
<1>1. Init => ServiceInv
  <2> SUFFICES ASSUME Init PROVE ServiceInv
    OBVIOUS
  <2> USE NullAssumption DEF Init
  <2>1. StateShape
    BY DEF StateShape, Callers, Places, Labels, OutsideLabels
  <2>2. Ownership
    BY DEF Ownership, QueueOwned, QueueOnce, QueueReady, QueuedFound, NoneDropped,
           HandsOwned, CurOwned, NewOwned, LabelsHold, StopLabels
  <2>3. Pending = {}
    BY DEF Pending, Waiting
  <2>4. Owing = {}
    BY DEF Owing, ScopeLabels, StopLabels, Callers
  <2>5. WorkAccounting
    BY <2>3, <2>4, FS_EmptySet DEF WorkAccounting
  <2> QED
    BY <2>1, <2>2, <2>5 DEF ServiceInv
<1>2. ServiceInv /\ [Next]_vars => ServiceInv'
    BY ShapeStep, OwnershipStep, AccountingStep DEF ServiceInv
<1> QED
    BY <1>1, <1>2, PTL DEF Spec

\* Every variable keeps its type; in particular outstanding_work_ is never
\* negative, so that no decrement skips the value zero that stops the service.
THEOREM TypeCorrect == Spec => []TypeOK
<1>1. ServiceInv => TypeOK
    BY BooksFinite DEF ServiceInv, WorkAccounting, TypeOK
<1> QED
    BY <1>1, ServiceInvariant, PTL

\* outstanding_work_ is exactly the number of operations that wait somewhere
\* plus the number of threads that are completing one (work_started,
\* work_finished and the guard on_exit of do_one).
THEOREM AccountingCorrect == Spec => []WorkAccounting
<1>1. ServiceInv => WorkAccounting
    BY DEF ServiceInv
<1> QED
    BY <1>1, ServiceInvariant, PTL

\* No operation object is queued twice, run by two threads, or run while it is
\* queued or armed.
THEOREM OwnershipCorrect == Spec => []OneOwner
<1>1. ServiceInv => OneOwner
  <2> SUFFICES ASSUME ServiceInv PROVE OneOwner
    OBVIOUS
  <2>1. DOMAIN completed_ops = 1..Len(completed_ops)
    BY DEF ServiceInv, StateShape
  <2>2. \A op \in Ops : place[op] = "queued"
                     <=> \E i \in DOMAIN completed_ops : completed_ops[i] = op
    BY <2>1, NullAssumption DEF ServiceInv, Ownership, QueueOwned, QueueReady, QueuedFound
  <2> QED
    BY <2>1, <2>2 DEF ServiceInv, Ownership, QueueOwned, QueueOnce, HandsOwned, CurOwned,
                      NewOwned, OneOwner
<1> QED
    BY <1>1, ServiceInvariant, PTL

\* do_one() never pops an operation whose ready_ is clear, so it never forgets
\* one.
THEOREM NothingDroppedCorrect == Spec => []NothingDropped
<1>1. ServiceInv => NothingDropped
  <2> SUFFICES ASSUME ServiceInv PROVE NothingDropped
    OBVIOUS
  <2>1. ASSUME NEW op \in Ops, place[op] = "queued" PROVE ready[op] = 1
    <3>1. PICK i \in 1..Len(completed_ops) : completed_ops[i] = op
      BY <2>1 DEF ServiceInv, Ownership, QueueOwned, QueuedFound
    <3> QED
      BY <3>1, NullAssumption DEF ServiceInv, Ownership, QueueOwned, QueueReady
  <2> QED
    BY <2>1 DEF ServiceInv, Ownership, QueueOwned, NoneDropped, NothingDropped
<1> QED
    BY <1>1, ServiceInvariant, PTL

-----------------------------------------------------------------------------
(***************************************************************************)
(* The counter at zero.  A caller on its way into stop() from the top of   *)
(* run() or from work_finished() read zero.  By the accounting nothing is  *)
(* pending and nobody completes anything then, so no callback can start    *)
(* work, and unless usage is "open" nobody else may.                       *)
(***************************************************************************)
StoppingOnZero ==
    \A c \in Callers : pc[c] \in StopLabels /\ ret[c] \in {"enter", "claim"}
      => c \in Threads /\ (usage # "open" => outstanding_work = 0)

\* With the counter at zero both sides of the books are empty.
LEMMA ZeroMeansIdle ==
    ASSUME WorkAccounting, outstanding_work = 0
    PROVE  Pending = {} /\ Owing = {}
<1>1. Cardinality(Pending) = 0 /\ Cardinality(Owing) = 0
    BY BooksFinite DEF WorkAccounting
<1> QED
    BY <1>1, BooksFinite, FS_EmptySet

\* While no outsider may start work and the counter is zero, no step changes
\* it: only a callback could, and nobody is in one.
LEMMA ZeroStays ==
    ASSUME ServiceInv, [Next]_vars, outstanding_work = 0, ~OutsiderMayStart
    PROVE  outstanding_work' = 0
<1>1. Owing = {}
    BY ZeroMeansIdle DEF ServiceInv
<1>2. ASSUME NEW c \in Callers, StartOperation(c) PROVE FALSE
  <2>1. c \in Threads /\ pc[c] = "callback"
    BY <1>2 DEF StartOperation, MayCallService
  <2> QED
    BY <1>1, <2>1 DEF Owing, ScopeLabels
<1>3. ASSUME NEW t \in Threads, Restart(t) \/ WorkFinished(t) PROVE FALSE
    BY <1>1, <1>3 DEF Restart, WorkFinished, Owing, ScopeLabels
<1>4. \A c \in Callers : CallerStep(c) \/ UserStop(c) => UNCHANGED outstanding_work
    BY DEF CallerStep, StopCas, StopInterrupt, Submit, UserStop, shared
<1>5. \A t \in Threads : Run(t) \/ CallbackReturns(t) => UNCHANGED outstanding_work
    BY DEF Run, CallbackReturns, shared
<1>6. \A op \in Ops : WorkerCompletes(op) => UNCHANGED outstanding_work
    BY DEF WorkerCompletes, shared
<1>7. \A t \in Threads : ThreadStep(t) /\ ~Restart(t) /\ ~WorkFinished(t)
                         => UNCHANGED outstanding_work
    BY DEF ThreadStep, Enter, Claim, EpollWait, DetachOperation, PostDetached, PopOperation,
           PopInterrupt, WaitTimeout, SyscallFails, PassInterrupt, Complete, Leave, shared
<1> QED
    BY <1>2, <1>3, <1>4, <1>5, <1>6, <1>7 DEF Next, vars, shared

\* A program does not change its way of using the service.
LEMMA UsageStays == [Next]_vars => usage' = usage
<1> SUFFICES ASSUME [Next]_vars PROVE usage' = usage
    OBVIOUS
<1> USE DEF shared, vars
<1>1. ASSUME NEW c \in Callers, CallerStep(c) \/ StartOperation(c) \/ UserStop(c)
      PROVE  usage' = usage
    BY <1>1 DEF CallerStep, StopCas, StopInterrupt, Submit, StartOperation, UserStop
<1>2. ASSUME NEW t \in Threads, ThreadStep(t) \/ Run(t) \/ CallbackReturns(t)
      PROVE  usage' = usage
    BY <1>2
       DEF ThreadStep, Enter, Claim, EpollWait, DetachOperation, PostDetached, PopOperation,
           PopInterrupt, WaitTimeout, SyscallFails, PassInterrupt, Complete, Restart,
           WorkFinished, Leave, Run, CallbackReturns
<1>3. ASSUME NEW op \in Ops, WorkerCompletes(op) PROVE usage' = usage
    BY <1>3 DEF WorkerCompletes
<1> QED
    BY <1>1, <1>2, <1>3 DEF Next

\* The step lemma: whoever is stopping on zero is a thread of run() and still
\* finds zero.
LEMMA StoppingStep == ServiceInv /\ StoppingOnZero /\ [Next]_vars => StoppingOnZero'
<1> SUFFICES ASSUME ServiceInv, StoppingOnZero, [Next]_vars,
                    NEW c \in Callers, pc'[c] \in StopLabels, ret'[c] \in {"enter", "claim"}
             PROVE  c \in Threads /\ (usage # "open" => outstanding_work' = 0)
    BY UsageStays DEF StoppingOnZero
<1> DEFINE Shape == /\ pc \in [Callers -> Labels]
                    /\ ret \in [Callers -> {"out", "enter", "claim", "callback"}]
<1>0. Shape /\ Threads \subseteq Callers
    BY DEF ServiceInv, StateShape, Callers
<1> HIDE DEF Shape
<1>1. CASE pc[c] \in StopLabels /\ ret[c] \in {"enter", "claim"}
  <2>1. c \in Threads /\ (usage # "open" => outstanding_work = 0)
    BY <1>1 DEF StoppingOnZero
  <2>2. Inside(c)
    BY <1>1 DEF Inside, OutsideLabels, StopLabels
  <2>3. usage # "open" => ~OutsiderMayStart
    BY <2>1, <2>2, UsagesAssumption
       DEF OutsiderMayStart, AllOutside, Inside, OutsideLabels, ServiceInv, StateShape
  <2> QED
    BY <2>1, <2>3, ZeroStays
<1>2. CASE ~(pc[c] \in StopLabels /\ ret[c] \in {"enter", "claim"})
  <2> USE DEF StopLabels, Goto, CallStop, shared, local
  <2>1. (c \in Threads /\ Run(c)) \/ (c \in Threads /\ WorkFinished(c))
    <3>1. ASSUME NEW d \in Callers, CallerStep(d) PROVE FALSE
      BY <1>0, <1>2, <3>1
         DEF Shape, CallerStep, StopCas, StopInterrupt, Submit, AfterSubmit
    <3>2. ASSUME NEW d \in Callers, StartOperation(d) PROVE FALSE
      BY <1>0, <1>2, <3>2 DEF Shape, StartOperation, WorkStarted
    <3>3. ASSUME NEW d \in Callers, UserStop(d) PROVE FALSE
      BY <1>0, <1>2, <3>3 DEF Shape, UserStop, MayCallService
    <3>4. ASSUME NEW op \in Ops, WorkerCompletes(op) PROVE FALSE
      BY <1>2, <3>4 DEF WorkerCompletes
    <3>5. ASSUME NEW t \in Threads, CallbackReturns(t) PROVE FALSE
      BY <1>0, <1>2, <3>5 DEF Shape, CallbackReturns
    <3>6. ASSUME NEW t \in Threads, Run(t) PROVE t = c
      BY <1>0, <1>2, <3>6 DEF Shape, Run
    <3>7. ASSUME NEW t \in Threads, ThreadStep(t) PROVE WorkFinished(t) /\ t = c
      <4>1. ASSUME WorkFinished(t) PROVE t = c
        BY <1>0, <1>2, <4>1 DEF Shape, WorkFinished
      <4>2. ASSUME \/ Enter(t) \/ Claim(t) \/ EpollWait(t) \/ WaitTimeout(t)
                   \/ SyscallFails(t) \/ Leave(t) \/ PopOperation(t) \/ PopInterrupt(t)
                   \/ PassInterrupt(t) \/ Complete(t) \/ Restart(t)
            PROVE  FALSE
        BY <1>0, <1>2, <4>2
           DEF Shape, Enter, Claim, EpollWait, AfterEvents, WaitTimeout, SyscallFails, Leave,
               PopOperation, PopInterrupt, PassInterrupt, Complete, Restart, WorkStarted
      <4>3. ASSUME DetachOperation(t) \/ PostDetached(t) PROVE FALSE
        BY <1>0, <1>2, <4>3 DEF Shape, DetachOperation, PostDetached, AfterEvents
      <4> QED
        BY <3>7, <4>1, <4>2, <4>3 DEF ThreadStep
    <3>8. CASE UNCHANGED vars
      BY <1>2, <3>8 DEF vars
    <3> QED
      BY <3>1, <3>2, <3>3, <3>4, <3>5, <3>6, <3>7, <3>8 DEF Next
  <2>2. outstanding_work' = 0
    BY <1>0, <1>2, <2>1 DEF Shape, Run, WorkFinished, LastWork
  <2> QED
    BY <2>1, <2>2
<1> QED
    BY <1>1, <1>2

\* The zero that makes a thread call stop(), at the top of run() or in
\* work_finished(), is still zero whenever stopped_ is set and the interrupt
\* is queued: the service never stops itself with work left.
THEOREM ZeroIsFinalCorrect == Spec => []ZeroIsFinal
<1>1. Init => StoppingOnZero
    BY DEF Init, StoppingOnZero, StopLabels
<1>2. ServiceInv /\ StoppingOnZero /\ [Next]_vars => StoppingOnZero'
    BY StoppingStep
<1>3. ServiceInv /\ StoppingOnZero => ZeroIsFinal
    BY ZeroMeansIdle DEF StoppingOnZero, ZeroIsFinal, ServiceInv
<1> QED
    BY <1>1, <1>2, <1>3, ServiceInvariant, PTL DEF Spec

-----------------------------------------------------------------------------
(***************************************************************************)
(* One dispatcher.  A thread between epoll_wait and the end of its         *)
(* dispatch loop holds the role, and an event array that one thread works  *)
(* on names only sockets whose operation nobody else can take.             *)
(***************************************************************************)
RoleHeld == \A t \in Threads : pc[t] \in PollLabels => demultiplexing_thread = t

DispatchInv == RoleHeld /\ \A op \in events : place[op] = "armed"

\* The step lemma for the role and the event array.
LEMMA DispatchStep == ServiceInv /\ DispatchInv /\ [Next]_vars => DispatchInv'
<1> SUFFICES ASSUME ServiceInv, DispatchInv, [Next]_vars PROVE DispatchInv'
    OBVIOUS
<1> DEFINE Shape == /\ place \in [Ops -> Places]
                    /\ pc \in [Callers -> Labels]
                    /\ cur \in [Callers -> Ops \cup {Null}]
                    /\ new \in [Callers -> Ops \cup {Null}]
                    /\ ret \in [Callers -> {"out", "enter", "claim", "callback"}]
                    /\ events \in SUBSET Ops
                    /\ Threads \subseteq Callers
<1>0. Shape /\ Ownership
    BY DEF ServiceInv, StateShape, Callers
<1> HIDE DEF Shape
<1> USE NullAssumption DEF DispatchInv, RoleHeld, PollLabels, Goto, CallStop, shared, local
<1>a. ASSUME NEW c \in Callers, \A d \in Callers : d # c => pc'[d] = pc[d],
             pc'[c] \notin PollLabels, UNCHANGED << demultiplexing_thread, events >>,
             \A op \in Ops : place[op] = "armed" => place'[op] = "armed"
      PROVE  DispatchInv'
    BY <1>0, <1>a DEF Shape
<1>1. ASSUME NEW c \in Callers, CallerStep(c) PROVE DispatchInv'
  <2>1. CASE StopCas(c) \/ StopInterrupt(c)
    BY <1>0, <1>a, <2>1 DEF Shape, StopCas, StopInterrupt
  <2>2. CASE Submit(c)
    <3>1. new[c] \in Ops /\ place[new[c]] \in {"started", "detached"}
      BY <1>0, <2>2 DEF Shape, Submit, Ownership, HandsOwned, NewOwned, LabelsHold
    <3> QED
      BY <1>0, <1>a, <2>2, <3>1 DEF Shape, Submit, PostDeferredCompletion, AfterSubmit
  <2> QED
    BY <1>1, <2>1, <2>2 DEF CallerStep
<1>2. ASSUME NEW c \in Callers, StartOperation(c) PROVE DispatchInv'
    BY <1>0, <1>a, <1>2 DEF Shape, StartOperation, WorkStarted
<1>3. ASSUME NEW c \in Callers, UserStop(c) PROVE DispatchInv'
    BY <1>0, <1>a, <1>3 DEF Shape, UserStop
<1>4. ASSUME NEW op \in Ops, WorkerCompletes(op) PROVE DispatchInv'
    BY <1>0, <1>4 DEF Shape, WorkerCompletes, PostDeferredCompletion
<1>5. ASSUME NEW t \in Threads, Run(t) PROVE DispatchInv'
    BY <1>0, <1>a, <1>5 DEF Shape, Run
<1>6. ASSUME NEW t \in Threads, CallbackReturns(t) PROVE DispatchInv'
  <2>1. cur[t] \in Ops /\ place[cur[t]] = "held"
    BY <1>0, <1>6 DEF Shape, CallbackReturns, Ownership, HandsOwned, CurOwned, LabelsHold
  <2> QED
    BY <1>0, <1>a, <1>6, <2>1 DEF Shape, CallbackReturns
<1>7. ASSUME NEW t \in Threads, ThreadStep(t) PROVE DispatchInv'
  <2>1. CASE Enter(t) \/ WaitTimeout(t) \/ SyscallFails(t) \/ PopInterrupt(t)
             \/ PassInterrupt(t) \/ WorkFinished(t)
    BY <1>0, <1>a, <2>1
       DEF Shape, Enter, WaitTimeout, SyscallFails, PopInterrupt, PassInterrupt, WorkFinished
  <2>2. CASE Claim(t)
    BY <1>0, <2>2 DEF Shape, Claim, NeedEpollWait
  <2>3. CASE EpollWait(t)
    BY <1>0, <2>3 DEF Shape, EpollWait, AfterEvents
  <2>4. CASE DetachOperation(t)
    BY <1>0, <2>4 DEF Shape, DetachOperation, AfterEvents
  <2>5. CASE PostDetached(t)
    <3>1. new[t] \in Ops /\ place[new[t]] \in {"started", "detached"}
      BY <1>0, <2>5 DEF Shape, PostDetached, Ownership, HandsOwned, NewOwned, LabelsHold
    <3> QED
      BY <1>0, <2>5, <3>1 DEF Shape, PostDetached, PostDeferredCompletion, AfterEvents
  <2>6. CASE PopOperation(t)
    <3> DEFINE h == Head(completed_ops)
    <3>1. /\ Len(completed_ops) >= 1 /\ Len(completed_ops) \in Nat
          /\ h = completed_ops[1] /\ h # Null
      BY <2>6, TailElements DEF PopOperation, ServiceInv, StateShape
    <3>2. h \in Ops /\ place[h] = "queued"
      BY <1>0, <3>1 DEF ServiceInv, StateShape, Ownership, QueueOwned, QueueReady
    <3> QED
      BY <1>0, <1>a, <2>6, <3>2 DEF Shape, PopOperation
  <2>7. CASE Complete(t) \/ Restart(t)
    <3>1. cur[t] \in Ops /\ place[cur[t]] = "held"
      BY <1>0, <2>7 DEF Shape, Complete, Restart, Ownership, HandsOwned, CurOwned, LabelsHold
    <3> QED
      BY <1>0, <1>a, <2>7, <3>1 DEF Shape, Complete, Restart, WorkStarted
  <2>8. CASE Leave(t)
    BY <1>0, <2>8 DEF Shape, Leave, RoleAfter
  <2> QED
    BY <1>7, <2>1, <2>2, <2>3, <2>4, <2>5, <2>6, <2>7, <2>8 DEF ThreadStep
<1>8. CASE UNCHANGED vars
    BY <1>8 DEF vars
<1> QED
    BY <1>1, <1>2, <1>3, <1>4, <1>5, <1>6, <1>7, <1>8 DEF Next

\* At most one thread is between epoll_wait and the end of its dispatch loop
\* (the compare-and-swap on demultiplexing_thread_ in do_one and run), and
\* each event it has left is for an operation still attached to its socket.
THEOREM OneDispatcherCorrect == Spec => []OneDispatcher
<1>1. Init => DispatchInv
    BY DEF Init, DispatchInv, RoleHeld, PollLabels, Callers
<1>2. ServiceInv /\ DispatchInv /\ [Next]_vars => DispatchInv'
    BY DispatchStep
<1>3. DispatchInv => OneDispatcher
    BY DEF DispatchInv, RoleHeld, OneDispatcher
<1> QED
    BY <1>1, <1>2, <1>3, ServiceInvariant, PTL DEF Spec

-----------------------------------------------------------------------------
(***************************************************************************)
(* The interrupt.  Its two forms, a null operation in completed_ops_ and a *)
(* thread about to put one there, are counted separately.                  *)
(***************************************************************************)
NullsOf(q) == {i \in DOMAIN q : q[i] = Null}
Carriers   == {c \in Callers : pc[c] \in {"interrupt", "token"}}

\* Both counts are numbers.
LEMMA InterruptsFinite ==
    /\ \A q \in Seq(Ops \cup {Null}) : IsFiniteSet(NullsOf(q)) /\ Cardinality(NullsOf(q)) \in Nat
    /\ IsFiniteSet(Carriers) /\ Cardinality(Carriers) \in Nat
<1>1. ASSUME NEW q \in Seq(Ops \cup {Null})
      PROVE  IsFiniteSet(NullsOf(q)) /\ Cardinality(NullsOf(q)) \in Nat
  <2>1. NullsOf(q) \in SUBSET (1..Len(q)) /\ Len(q) \in Nat
    BY DEF NullsOf
  <2>2. IsFiniteSet(1..Len(q))
    BY <2>1, FS_Interval
  <2>3. IsFiniteSet(NullsOf(q))
    BY <2>1, <2>2, FS_Subset
  <2> QED
    BY <2>3, FS_CardinalityType
<1>2. IsFiniteSet(Callers)
    BY ThreadsAssumption, FS_Union DEF Callers
<1>3. IsFiniteSet(Carriers)
    BY <1>2, FS_Subset DEF Carriers
<1> QED
    BY <1>1, <1>3, FS_CardinalityType

\* Queueing an operation leaves the number of interrupts in the queue alone,
\* queueing an interrupt adds one (my_semaphore::append).
LEMMA NullsOfAppend ==
    ASSUME NEW q \in Seq(Ops \cup {Null}), NEW e \in Ops \cup {Null}
    PROVE  Cardinality(NullsOf(Append(q, e)))
             = Cardinality(NullsOf(q)) + (IF e = Null THEN 1 ELSE 0)
<1>1. /\ Len(q) \in Nat /\ Len(Append(q, e)) = Len(q) + 1
      /\ \A i \in 1..Len(q) : Append(q, e)[i] = q[i]
      /\ Append(q, e)[Len(q) + 1] = e
    BY AppendElements
<1>2. DOMAIN q = 1..Len(q) /\ DOMAIN Append(q, e) = 1..Len(q) + 1
    BY <1>1
<1>3. 1..Len(q) + 1 = (1..Len(q)) \cup {Len(q) + 1} /\ Len(q) + 1 \notin 1..Len(q)
    BY <1>1
<1>4. IsFiniteSet(NullsOf(q)) /\ Cardinality(NullsOf(q)) \in Nat
    BY InterruptsFinite
<1>5. CASE e = Null
  <2>1. NullsOf(Append(q, e)) = NullsOf(q) \cup {Len(q) + 1} /\ Len(q) + 1 \notin NullsOf(q)
    BY <1>1, <1>2, <1>3, <1>5 DEF NullsOf
  <2> QED
    BY <1>4, <1>5, <2>1, FS_AddElement
<1>6. CASE e # Null
  <2>1. NullsOf(Append(q, e)) = NullsOf(q)
    BY <1>1, <1>2, <1>3, <1>6 DEF NullsOf
  <2> QED
    BY <1>4, <1>6, <2>1
<1> QED
    BY <1>5, <1>6

\* Taking the head takes an interrupt out exactly when it is one
\* (my_semaphore::wait).
LEMMA NullsOfTail ==
    ASSUME NEW q \in Seq(Ops \cup {Null}), q # << >>
    PROVE  Cardinality(NullsOf(Tail(q)))
             = Cardinality(NullsOf(q)) - (IF Head(q) = Null THEN 1 ELSE 0)
<1> DEFINE Rest == NullsOf(q) \ {1}
           back == [i \in NullsOf(Tail(q)) |-> i + 1]
<1>1. /\ Len(q) \in Nat /\ Len(q) >= 1 /\ Len(Tail(q)) = Len(q) - 1
      /\ \A i \in 1..Len(q) - 1 : Tail(q)[i] = q[i + 1]
      /\ Head(q) = q[1]
    BY TailElements
<1>2. DOMAIN q = 1..Len(q) /\ DOMAIN Tail(q) = 1..Len(q) - 1 /\ Tail(q) \in Seq(Ops \cup {Null})
    BY <1>1
<1>3. /\ IsFiniteSet(NullsOf(q)) /\ Cardinality(NullsOf(q)) \in Nat
      /\ IsFiniteSet(NullsOf(Tail(q))) /\ Cardinality(NullsOf(Tail(q))) \in Nat
    BY <1>2, InterruptsFinite
<1>4. back \in [NullsOf(Tail(q)) -> Rest]
    BY <1>1, <1>2 DEF NullsOf
<1>5. \A i, j \in NullsOf(Tail(q)) : back[i] = back[j] => i = j
    BY <1>2 DEF NullsOf
<1>6. \A k \in Rest : \E i \in NullsOf(Tail(q)) : back[i] = k
  <2> SUFFICES ASSUME NEW k \in Rest PROVE \E i \in NullsOf(Tail(q)) : back[i] = k
    OBVIOUS
  <2>1. k - 1 \in 1..Len(q) - 1 /\ k \in 1..Len(q) /\ q[k] = Null
    BY <1>1, <1>2 DEF NullsOf
  <2>2. Tail(q)[k - 1] = q[(k - 1) + 1] /\ (k - 1) + 1 = k
    BY <1>1, <2>1
  <2>3. k - 1 \in NullsOf(Tail(q))
    BY <1>2, <2>1, <2>2 DEF NullsOf
  <2> QED
    BY <2>2, <2>3
<1>7. back \in Bijection(NullsOf(Tail(q)), Rest)
    BY <1>4, <1>5, <1>6, Fun_IsBij
<1>8. Cardinality(Rest) = Cardinality(NullsOf(Tail(q)))
    BY <1>3, <1>7, FS_Bijection DEF ExistsBijection
<1>a. Rest = NullsOf(q) \ {1}
    OBVIOUS
<1> HIDE DEF Rest, back
<1>9. CASE Head(q) = Null
  <2>1. 1 \in NullsOf(q)
    BY <1>1, <1>2, <1>9 DEF NullsOf
  <2> QED
    BY <1>3, <1>8, <1>9, <1>a, <2>1, FS_RemoveElement
<1>10. CASE Head(q) # Null
  <2>1. Rest = NullsOf(q)
    BY <1>1, <1>10, <1>a DEF NullsOf
  <2> QED
    BY <1>3, <1>8, <1>10, <2>1
<1> QED
    BY <1>9, <1>10

\* The step lemma: stopped_ is set by the one caller that goes on to queue the
\* interrupt, and whoever takes the interrupt from the queue of a stopped
\* service puts it back.
LEMMA InterruptStep == ServiceInv /\ OneInterrupt /\ [Next]_vars => OneInterrupt'
<1> SUFFICES ASSUME ServiceInv, OneInterrupt, [Next]_vars PROVE OneInterrupt'
    OBVIOUS
<1> DEFINE q == completed_ops
           Queued == Cardinality(NullsOf(q))
           Carried == Cardinality(Carriers)
           Shape == /\ stopped \in {0, 1}
                    /\ pc \in [Callers -> Labels]
                    /\ ret \in [Callers -> {"out", "enter", "claim", "callback"}]
                    /\ Threads \subseteq Callers
<1>0. Shape /\ q \in Seq(Ops \cup {Null}) /\ Ownership
    BY DEF ServiceInv, StateShape, Callers
<1>i. Queued \in Nat /\ Carried \in Nat /\ IsFiniteSet(Carriers)
    BY <1>0, InterruptsFinite
<1>ii. OneInterrupt <=> Queued + Carried = stopped
    BY DEF OneInterrupt, Interrupts, NullsOf, Carriers
<1>iii. OneInterrupt' <=> Queued' + Carried' = stopped'
    BY DEF OneInterrupt, Interrupts, NullsOf, Carriers
<1> HIDE DEF Shape, Queued, Carried
<1> USE NullAssumption DEF Goto, CallStop, shared, local
\* What the four kinds of change do to the counts.
<1>a. ASSUME q' = q PROVE Queued' = Queued
    BY <1>a DEF Queued
<1>b. ASSUME NEW e \in Ops \cup {Null}, q' = Append(q, e)
      PROVE  Queued' = Queued + (IF e = Null THEN 1 ELSE 0)
    BY <1>0, <1>b, NullsOfAppend DEF Queued
<1>c. ASSUME NEW c \in Callers, \A d \in Callers : d # c => pc'[d] = pc[d],
             pc[c] \notin {"interrupt", "token"}, pc'[c] \notin {"interrupt", "token"}
      PROVE  Carried' = Carried
  <2>1. Carriers' = Carriers
    BY <1>c DEF Carriers
  <2> QED
    BY <2>1 DEF Carried
<1>d. ASSUME NEW c \in Callers, \A d \in Callers : d # c => pc'[d] = pc[d],
             pc[c] \notin {"interrupt", "token"}, pc'[c] \in {"interrupt", "token"}
      PROVE  Carried' = Carried + 1
  <2>1. Carriers' = Carriers \cup {c} /\ c \notin Carriers
    BY <1>d DEF Carriers
  <2> QED
    BY <1>i, <2>1, FS_AddElement DEF Carried
<1>e. ASSUME NEW c \in Callers, \A d \in Callers : d # c => pc'[d] = pc[d],
             pc[c] \in {"interrupt", "token"}, pc'[c] \notin {"interrupt", "token"}
      PROVE  Carried' = Carried - 1
  <2>1. Carriers' = Carriers \ {c} /\ c \in Carriers
    BY <1>e DEF Carriers
  <2> QED
    BY <1>i, <2>1, FS_RemoveElement DEF Carried
<1>f. ASSUME Queued' = Queued, Carried' = Carried, stopped' = stopped PROVE OneInterrupt'
    BY <1>f, <1>ii, <1>iii
<1>1. ASSUME NEW c \in Callers, StopCas(c) PROVE OneInterrupt'
  <2>1. CASE stopped = 0
    BY <1>0, <1>i, <1>ii, <1>iii, <1>1, <1>a, <1>d, <2>1 DEF Shape, StopCas
  <2>2. CASE stopped # 0
    BY <1>0, <1>1, <1>a, <1>c, <1>f, <2>2 DEF Shape, StopCas
  <2> QED
    BY <2>1, <2>2
<1>2. ASSUME NEW c \in Callers, StopInterrupt(c) PROVE OneInterrupt'
  <2>1. Queued' = Queued + 1
    BY <1>2, <1>b DEF StopInterrupt
  <2>2. Carried' = Carried - 1
    BY <1>0, <1>2, <1>e DEF Shape, StopInterrupt
  <2> QED
    BY <1>i, <1>ii, <1>iii, <1>2, <2>1, <2>2 DEF StopInterrupt
<1>3. ASSUME NEW c \in Callers, Submit(c) PROVE OneInterrupt'
  <2>1. new[c] \in Ops
    BY <1>0, <1>3 DEF Submit, Ownership, HandsOwned, LabelsHold, ServiceInv, StateShape
  <2>2. Queued' = Queued
    <3>1. CASE PostDeferredCompletion(new[c])
      BY <1>i, <1>b, <2>1, <3>1 DEF PostDeferredCompletion
    <3> QED
      BY <1>3, <1>a, <3>1 DEF Submit
  <2>3. Carried' = Carried
    BY <1>0, <1>3, <1>c DEF Shape, Submit, AfterSubmit
  <2> QED
    BY <1>3, <1>f, <2>2, <2>3 DEF Submit
<1>4. ASSUME NEW c \in Callers, StartOperation(c) PROVE OneInterrupt'
    BY <1>0, <1>4, <1>a, <1>c, <1>f DEF Shape, StartOperation, MayCallService, WorkStarted
<1>5. ASSUME NEW c \in Callers, UserStop(c) PROVE OneInterrupt'
    BY <1>0, <1>5, <1>a, <1>c, <1>f DEF Shape, UserStop, MayCallService
<1>6. ASSUME NEW op \in Ops, WorkerCompletes(op) PROVE OneInterrupt'
  <2>1. Queued' = Queued
    BY <1>i, <1>6, <1>b DEF WorkerCompletes, PostDeferredCompletion
  <2>2. Carried' = Carried
    BY <1>6 DEF WorkerCompletes, Carried, Carriers
  <2> QED
    BY <1>6, <1>f, <2>1, <2>2 DEF WorkerCompletes
<1>7. ASSUME NEW t \in Threads, Run(t) PROVE OneInterrupt'
  <2>1. pc[t] \notin {"interrupt", "token"}
    BY <1>7 DEF Run, MayRun, Inside, OutsideLabels
  <2> QED
    BY <1>0, <1>7, <1>a, <1>c, <1>f, <2>1 DEF Shape, Run
<1>8. ASSUME NEW t \in Threads, CallbackReturns(t) PROVE OneInterrupt'
    BY <1>0, <1>8, <1>a, <1>c, <1>f DEF Shape, CallbackReturns
<1>9. ASSUME NEW t \in Threads, ThreadStep(t) PROVE OneInterrupt'
  <2>1. CASE \/ Enter(t) \/ Claim(t) \/ EpollWait(t) \/ DetachOperation(t) \/ WaitTimeout(t)
             \/ SyscallFails(t) \/ Complete(t) \/ Restart(t) \/ WorkFinished(t) \/ Leave(t)
    <3>1. /\ q' = q /\ stopped' = stopped
          /\ \A d \in Callers : d # t => pc'[d] = pc[d]
          /\ pc[t] \notin {"interrupt", "token"}
          /\ pc'[t] \notin {"interrupt", "token"}
      BY <1>0, <2>1
         DEF Shape, Enter, Claim, EpollWait, DetachOperation, AfterEvents, WaitTimeout,
             SyscallFails, Complete, Restart, WorkStarted, WorkFinished, Leave
    <3> QED
      BY <1>0, <1>a, <1>c, <1>f, <3>1 DEF Shape
  <2>2. CASE PostDetached(t)
    <3>1. new[t] \in Ops
      BY <1>0, <2>2 DEF Shape, PostDetached, Ownership, HandsOwned, LabelsHold, ServiceInv, StateShape
    <3>2. Queued' = Queued
      BY <1>i, <1>b, <2>2, <3>1 DEF PostDetached, PostDeferredCompletion
    <3>3. Carried' = Carried
      BY <1>0, <1>c, <2>2 DEF Shape, PostDetached, AfterEvents
    <3> QED
      BY <1>f, <2>2, <3>2, <3>3 DEF PostDetached
  <2>3. CASE PopOperation(t)
    <3>1. Queued' = Queued
      BY <1>0, <1>i, <2>3, NullsOfTail DEF PopOperation, Queued
    <3>2. Carried' = Carried
      BY <1>0, <1>c, <2>3 DEF Shape, PopOperation
    <3> QED
      BY <1>f, <2>3, <3>1, <3>2 DEF PopOperation
  <2>4. CASE PopInterrupt(t)
    <3>1. Queued' = Queued - 1
      BY <1>0, <1>i, <2>4, NullsOfTail DEF PopInterrupt, Queued
    <3>2. Carried' = Carried + 1
      BY <1>0, <1>d, <2>4 DEF Shape, PopInterrupt
    <3> QED
      BY <1>i, <1>ii, <1>iii, <2>4, <3>1, <3>2 DEF PopInterrupt
  <2>5. CASE PassInterrupt(t)
    <3>1. Carriers # {}
      BY <1>0, <2>5 DEF Shape, PassInterrupt, Carriers
    <3>2. Carried # 0
      BY <1>i, <3>1, FS_EmptySet DEF Carried
    <3>3. stopped # 0
      BY <1>0, <1>i, <1>ii, <3>2 DEF Shape
    <3>4. Queued' = Queued + 1
      BY <1>b, <2>5, <3>3 DEF PassInterrupt
    <3>5. Carried' = Carried - 1
      BY <1>0, <1>e, <2>5, <3>3 DEF Shape, PassInterrupt
    <3> QED
      BY <1>i, <1>ii, <1>iii, <2>5, <3>4, <3>5 DEF PassInterrupt
  <2> QED
    BY <1>9, <2>1, <2>2, <2>3, <2>4, <2>5 DEF ThreadStep
<1>10. CASE UNCHANGED vars
    BY <1>10, <1>a, <1>f DEF vars, Carried, Carriers
<1> QED
    BY <1>1, <1>2, <1>3, <1>4, <1>5, <1>6, <1>7, <1>8, <1>9, <1>10 DEF Next, CallerStep

\* From the moment stopped_ is set there is exactly one interrupt, in
\* completed_ops_ or in the hands of a caller that is about to put it there,
\* and before that moment there is none: do_one hands the one it pops on, so
\* stop() reaches every thread with a single null operation.
THEOREM OneInterruptCorrect == Spec => []OneInterrupt
<1>1. Init => OneInterrupt
  <2> SUFFICES ASSUME Init PROVE OneInterrupt
    OBVIOUS
  <2>1. {i \in DOMAIN completed_ops : completed_ops[i] = Null} = {}
    BY DEF Init
  <2>2. {c \in Callers : pc[c] \in {"interrupt", "token"}} = {}
    BY DEF Init
  <2>3. Interrupts = 0 + 0
    BY <2>1, <2>2, FS_EmptySet DEF Interrupts
  <2> QED
    BY <2>3 DEF Init, OneInterrupt
<1>2. ServiceInv /\ OneInterrupt /\ [Next]_vars => OneInterrupt'
    BY InterruptStep
<1> QED
    BY <1>1, <1>2, ServiceInvariant, PTL DEF Spec

----------------------------------------------------------------------------
(***************************************************************************)
(* What the mapping needs beyond ServiceInv: which caller completes a held *)
(* operation and where it is then, that a thread that stops the service    *)
(* goes on inside run(), and why a thread may leave run().                 *)
(***************************************************************************)
Completing(c) == \/ pc[c] \in {"claimed", "callback", "start"}
                 \/ pc[c] \in StopLabels /\ ret[c] = "callback"

HeldFound == \A op \in Ops : place[op] = "held" => \E t \in Threads : cur[t] = op

CurPlaced == \A c \in Callers : cur[c] # Null => c \in Threads /\ Completing(c)

StopReturns == \A t \in Threads : pc[t] \in StopLabels => ret[t] # "out"

LeaveJustified == \A t \in Threads : pc[t] = "leave" => stopped = 1 \/ SyscallMayFail

MappingInv == HeldFound /\ CurPlaced /\ StopReturns /\ LeaveJustified

\* The step lemma for the held operations: one is held from the moment a
\* thread pops it until that thread deletes it or starts it again.
LEMMA HeldStep ==
    ServiceInv /\ HeldFound /\ CurPlaced /\ [Next]_vars => HeldFound' /\ CurPlaced'
<1> SUFFICES ASSUME ServiceInv, HeldFound, CurPlaced, [Next]_vars
             PROVE  HeldFound' /\ CurPlaced'
    OBVIOUS
<1> DEFINE Shape == /\ place \in [Ops -> Places]
                    /\ pc \in [Callers -> Labels]
                    /\ cur \in [Callers -> Ops \cup {Null}]
                    /\ new \in [Callers -> Ops \cup {Null}]
                    /\ ret \in [Callers -> {"out", "enter", "claim", "callback"}]
                    /\ events \in SUBSET Ops
                    /\ Threads \subseteq Callers
<1>0. Shape /\ Ownership
    BY DEF ServiceInv, StateShape, Callers
<1> HIDE DEF Shape
<1> USE NullAssumption DEF StopLabels, Goto, CallStop, shared, local
\* A step that leaves the held operations and their threads alone.
<1>a. ASSUME NEW c \in Callers, \A d \in Callers : d # c => pc'[d] = pc[d] /\ ret'[d] = ret[d],
             cur' = cur, \A op \in Ops : place'[op] = "held" => place[op] = "held",
             cur[c] # Null => Completing(c)'
      PROVE  HeldFound' /\ CurPlaced'
  <2>1. HeldFound'
    BY <1>a DEF HeldFound
  <2>2. \A d \in Callers : d # c => (Completing(d)' <=> Completing(d))
    BY <1>a DEF Completing
  <2>3. CurPlaced'
    BY <1>a, <2>2 DEF CurPlaced
  <2> QED
    BY <2>1, <2>3
<1>1. ASSUME NEW c \in Callers, StopCas(c) \/ StopInterrupt(c) PROVE HeldFound' /\ CurPlaced'
    BY <1>0, <1>1, <1>a DEF Shape, StopCas, StopInterrupt, CurPlaced, Completing
<1>2. ASSUME NEW c \in Callers, Submit(c) PROVE HeldFound' /\ CurPlaced'
  <2>1. new[c] \in Ops
    BY <1>0, <1>2 DEF Shape, Submit, Ownership, HandsOwned, LabelsHold
  <2>2. \A op \in Ops : place'[op] = "held" => place[op] = "held"
    BY <1>0, <1>2, <2>1 DEF Shape, Submit, PostDeferredCompletion
  <2>3. cur[c] # Null => pc'[c] = "callback"
    BY <1>0, <1>2, CallersAssumption DEF Shape, Submit, AfterSubmit, CurPlaced
  <2> QED
    BY <1>0, <1>2, <1>a, <2>2, <2>3 DEF Shape, Submit, Completing
<1>3. ASSUME NEW c \in Callers, StartOperation(c) PROVE HeldFound' /\ CurPlaced'
    BY <1>0, <1>3, <1>a DEF Shape, StartOperation, WorkStarted, Completing
<1>4. ASSUME NEW c \in Callers, UserStop(c) PROVE HeldFound' /\ CurPlaced'
    BY <1>0, <1>4, <1>a, CallersAssumption
       DEF Shape, UserStop, MayCallService, CurPlaced, Completing
<1>5. ASSUME NEW op \in Ops, WorkerCompletes(op) PROVE HeldFound' /\ CurPlaced'
    BY <1>0, <1>5 DEF Shape, WorkerCompletes, PostDeferredCompletion, HeldFound, CurPlaced, Completing
<1>6. ASSUME NEW t \in Threads, Run(t) PROVE HeldFound' /\ CurPlaced'
  <2>1. cur[t] = Null
    BY <1>0, <1>6 DEF Shape, Run, MayRun, Inside, OutsideLabels, CurPlaced, Completing
  <2> QED
    BY <1>0, <1>6, <1>a, <2>1 DEF Shape, Run
<1>7. ASSUME NEW t \in Threads, CallbackReturns(t) PROVE HeldFound' /\ CurPlaced'
  <2>1. cur[t] \in Ops
    BY <1>0, <1>7 DEF Shape, CallbackReturns, Ownership, HandsOwned, LabelsHold
  <2> QED
    BY <1>0, <1>7, <2>1 DEF Shape, CallbackReturns, HeldFound, CurPlaced, Completing
<1>8. ASSUME NEW t \in Threads, ThreadStep(t) PROVE HeldFound' /\ CurPlaced'
  <2>1. CASE \/ Enter(t) \/ Claim(t) \/ EpollWait(t) \/ PopInterrupt(t) \/ WaitTimeout(t)
             \/ SyscallFails(t) \/ PassInterrupt(t) \/ WorkFinished(t) \/ Leave(t)
    <3>1. cur[t] = Null
      BY <1>0, <2>1
         DEF Shape, Enter, Claim, EpollWait, PopInterrupt, WaitTimeout, SyscallFails,
             PassInterrupt, WorkFinished, Leave, CurPlaced, Completing
    <3> QED
      BY <1>0, <1>a, <2>1, <3>1
         DEF Shape, Enter, Claim, EpollWait, PopInterrupt, WaitTimeout, SyscallFails,
             PassInterrupt, WorkFinished, Leave
  <2>2. CASE DetachOperation(t)
    <3>1. cur[t] = Null
      BY <1>0, <2>2 DEF Shape, DetachOperation, CurPlaced, Completing
    <3> QED
      BY <1>0, <1>a, <2>2, <3>1 DEF Shape, DetachOperation
  <2>3. CASE PostDetached(t)
    <3>1. cur[t] = Null
      BY <1>0, <2>3 DEF Shape, PostDetached, CurPlaced, Completing
    <3>2. new[t] \in Ops
      BY <1>0, <2>3 DEF Shape, PostDetached, Ownership, HandsOwned, LabelsHold
    <3> QED
      BY <1>0, <1>a, <2>3, <3>1, <3>2 DEF Shape, PostDetached, PostDeferredCompletion
  <2>4. CASE PopOperation(t)
    <3> DEFINE h == Head(completed_ops)
    <3>1. h \in Ops
      BY <2>4 DEF PopOperation, ServiceInv, StateShape
    <3>2. cur[t] = Null
      BY <1>0, <2>4 DEF Shape, PopOperation, CurPlaced, Completing
    <3> HIDE DEF h
    <3>3. /\ place' = [place EXCEPT ![h] = "held"] /\ cur' = [cur EXCEPT ![t] = h]
          /\ pc' = [pc EXCEPT ![t] = "claimed"] /\ ret' = ret
      BY <2>4 DEF PopOperation, h
    <3> QED
      BY <1>0, <3>1, <3>2, <3>3 DEF Shape, HeldFound, CurPlaced, Completing
  <2>5. CASE Complete(t)
    <3>1. ready[cur[t]] = 1
      BY <1>0, <2>5 DEF Shape, Complete, Ownership, HandsOwned, LabelsHold
    <3> QED
      BY <1>0, <1>a, <2>5, <3>1 DEF Shape, Complete, Completing
  <2>6. CASE Restart(t)
    <3>1. cur[t] \in Ops
      BY <1>0, <2>6 DEF Shape, Restart, Ownership, HandsOwned, LabelsHold
    <3> QED
      BY <1>0, <2>6, <3>1 DEF Shape, Restart, WorkStarted, HeldFound, CurPlaced, Completing
  <2> QED
    BY <1>8, <2>1, <2>2, <2>3, <2>4, <2>5, <2>6 DEF ThreadStep
<1>9. CASE UNCHANGED vars
    BY <1>9 DEF vars, HeldFound, CurPlaced, Completing
<1> QED
    BY <1>1, <1>2, <1>3, <1>4, <1>5, <1>6, <1>7, <1>8, <1>9 DEF Next, CallerStep

\* The step lemma for the threads in stop(): they go on inside run().
LEMMA StopReturnsStep == ServiceInv /\ StopReturns /\ [Next]_vars => StopReturns'
<1> SUFFICES ASSUME ServiceInv, StopReturns, [Next]_vars,
                    NEW c \in Threads, pc'[c] \in StopLabels
             PROVE  ret'[c] # "out"
    BY DEF StopReturns
<1> DEFINE Shape == /\ pc \in [Callers -> Labels]
                    /\ ret \in [Callers -> {"out", "enter", "claim", "callback"}]
                    /\ Threads \subseteq Callers
<1>0. Shape
    BY DEF ServiceInv, StateShape, Callers
<1> HIDE DEF Shape
<1>1. pc[c] \in StopLabels => ret[c] # "out"
    BY DEF StopReturns
<1> USE DEF StopLabels, Goto, CallStop, shared, local
<1>2. ASSUME NEW d \in Callers, CallerStep(d) PROVE pc[c] \in StopLabels /\ ret'[c] = ret[c]
    BY <1>0, <1>2 DEF Shape, CallerStep, StopCas, StopInterrupt, Submit, AfterSubmit
<1>3. ASSUME NEW d \in Callers, StartOperation(d) PROVE pc[c] \in StopLabels /\ ret'[c] = ret[c]
    BY <1>0, <1>3 DEF Shape, StartOperation, WorkStarted
<1>4. ASSUME NEW d \in Callers, UserStop(d)
      PROVE  ret'[c] # "out"
    BY <1>0, <1>1, <1>4, CallersAssumption DEF Shape, UserStop, MayCallService
<1>5. ASSUME NEW op \in Ops, WorkerCompletes(op) PROVE pc[c] \in StopLabels /\ ret'[c] = ret[c]
    BY <1>5 DEF WorkerCompletes
<1>6. ASSUME NEW t \in Threads, Run(t)
      PROVE  \/ ret'[c] = "enter"
             \/ pc[c] \in StopLabels /\ ret'[c] = ret[c]
    BY <1>0, <1>6 DEF Shape, Run
<1>7. ASSUME NEW t \in Threads, CallbackReturns(t) PROVE pc[c] \in StopLabels /\ ret'[c] = ret[c]
    BY <1>0, <1>7 DEF Shape, CallbackReturns
<1>8. ASSUME NEW t \in Threads, ThreadStep(t)
      PROVE  \/ ret'[c] = "claim"
             \/ pc[c] \in StopLabels /\ ret'[c] = ret[c]
  <2>1. ASSUME WorkFinished(t)
        PROVE  \/ ret'[c] = "claim"
               \/ pc[c] \in StopLabels /\ ret'[c] = ret[c]
    BY <1>0, <2>1 DEF Shape, WorkFinished
  <2>2. ASSUME \/ Enter(t) \/ Claim(t) \/ EpollWait(t) \/ WaitTimeout(t)
               \/ SyscallFails(t) \/ Leave(t) \/ PopOperation(t) \/ PopInterrupt(t)
               \/ PassInterrupt(t) \/ Complete(t) \/ Restart(t)
        PROVE  pc[c] \in StopLabels /\ ret'[c] = ret[c]
    BY <1>0, <2>2
       DEF Shape, Enter, Claim, EpollWait, AfterEvents, WaitTimeout, SyscallFails, Leave,
           PopOperation, PopInterrupt, PassInterrupt, Complete, Restart, WorkStarted
  <2>3. ASSUME DetachOperation(t) \/ PostDetached(t)
        PROVE  pc[c] \in StopLabels /\ ret'[c] = ret[c]
    BY <1>0, <2>3 DEF Shape, DetachOperation, PostDetached, AfterEvents
  <2> QED
    BY <1>8, <2>1, <2>2, <2>3 DEF ThreadStep
<1>9. CASE UNCHANGED vars
    BY <1>1, <1>9 DEF vars
<1> QED
    BY <1>1, <1>2, <1>3, <1>4, <1>5, <1>6, <1>7, <1>8, <1>9 DEF Next

\* stopped_ is never reset.
LEMMA StoppedStays == ServiceInv /\ stopped = 1 /\ [Next]_vars => stopped' = 1
<1> SUFFICES ASSUME stopped = 1, [Next]_vars PROVE stopped' = 1
    OBVIOUS
<1> USE DEF shared, vars
<1>1. ASSUME NEW c \in Callers, CallerStep(c) \/ StartOperation(c) \/ UserStop(c)
      PROVE  stopped' = 1
    BY <1>1 DEF CallerStep, StopCas, StopInterrupt, Submit, StartOperation, UserStop
<1>2. ASSUME NEW t \in Threads, ThreadStep(t) \/ Run(t) \/ CallbackReturns(t)
      PROVE  stopped' = 1
    BY <1>2
       DEF ThreadStep, Enter, Claim, EpollWait, DetachOperation, PostDetached, PopOperation,
           PopInterrupt, WaitTimeout, SyscallFails, PassInterrupt, Complete, Restart,
           WorkFinished, Leave, Run, CallbackReturns
<1>3. ASSUME NEW op \in Ops, WorkerCompletes(op) PROVE stopped' = 1
    BY <1>3 DEF WorkerCompletes
<1> QED
    BY <1>1, <1>2, <1>3 DEF Next

\* The step lemma for the threads on their way out of run(): they found
\* stopped_ set behind the interrupt, or a system call failed.
LEMMA LeaveStep == ServiceInv /\ LeaveJustified /\ [Next]_vars => LeaveJustified'
<1> SUFFICES ASSUME ServiceInv, LeaveJustified, [Next]_vars, NEW t \in Threads, pc'[t] = "leave"
             PROVE  stopped' = 1 \/ SyscallMayFail
    BY DEF LeaveJustified
<1> DEFINE Shape == /\ pc \in [Callers -> Labels]
                    /\ ret \in [Callers -> {"out", "enter", "claim", "callback"}]
                    /\ stopped \in {0, 1}
                    /\ Threads \subseteq Callers
<1>0. Shape
    BY DEF ServiceInv, StateShape, Callers
<1> HIDE DEF Shape
<1>1. CASE pc[t] = "leave"
    BY <1>1, StoppedStays DEF LeaveJustified
<1>2. CASE pc[t] # "leave"
  <2> USE DEF Goto, CallStop, shared, local
  <2>1. ASSUME NEW d \in Callers, CallerStep(d) \/ StartOperation(d) \/ UserStop(d) PROVE FALSE
    BY <1>0, <1>2, <2>1
       DEF Shape, CallerStep, StopCas, StopInterrupt, Submit, AfterSubmit, StartOperation,
           WorkStarted, UserStop
  <2>2. ASSUME NEW op \in Ops, WorkerCompletes(op) PROVE FALSE
    BY <1>2, <2>2 DEF WorkerCompletes
  <2>3. ASSUME NEW u \in Threads, Run(u) \/ CallbackReturns(u) PROVE FALSE
    BY <1>0, <1>2, <2>3 DEF Shape, Run, CallbackReturns
  <2>4. ASSUME NEW u \in Threads, SyscallFails(u) \/ PassInterrupt(u)
        PROVE  stopped' = 1 \/ SyscallMayFail
    BY <1>0, <1>2, <2>4 DEF Shape, SyscallFails, PassInterrupt
  <2>5. ASSUME NEW u \in Threads,
               \/ Enter(u) \/ Claim(u) \/ EpollWait(u) \/ WaitTimeout(u) \/ Leave(u)
               \/ PopOperation(u) \/ PopInterrupt(u) \/ Complete(u) \/ Restart(u)
        PROVE  FALSE
    BY <1>0, <1>2, <2>5
       DEF Shape, Enter, Claim, EpollWait, AfterEvents, WaitTimeout, Leave, PopOperation,
           PopInterrupt, Complete, Restart, WorkStarted
  <2>6. ASSUME NEW u \in Threads, WorkFinished(u) \/ DetachOperation(u) \/ PostDetached(u)
        PROVE  FALSE
    BY <1>0, <1>2, <2>6 DEF Shape, WorkFinished, DetachOperation, PostDetached, AfterEvents
  <2>7. CASE UNCHANGED vars
    BY <1>2, <2>7 DEF vars
  <2> QED
    BY <2>1, <2>2, <2>3, <2>4, <2>5, <2>6, <2>7 DEF Next, ThreadStep
<1> QED
    BY <1>1, <1>2

\* The invariant of the mapping holds in every state.
LEMMA MappingInvariant == Spec => [](ServiceInv /\ StoppingOnZero /\ MappingInv)
<1>1. Init => StoppingOnZero /\ MappingInv
    BY NullAssumption
       DEF Init, StoppingOnZero, MappingInv, HeldFound, CurPlaced, StopReturns, LeaveJustified,
           StopLabels, Callers
<1>2. ServiceInv /\ StoppingOnZero /\ MappingInv /\ [Next]_vars => StoppingOnZero' /\ MappingInv'
    BY HeldStep, StoppingStep, StopReturnsStep, LeaveStep DEF MappingInv
<1> QED
    BY <1>1, <1>2, ServiceInvariant, PTL DEF Spec

-----------------------------------------------------------------------------
(***************************************************************************)
(* The mapping, step by step.  Starting maps to Start, popping to Begin,   *)
(* the return of a callback and a restart to End, calling run() to         *)
(* EnterRun and leaving it to LeaveRun.  Stopping is two steps: the        *)
(* decision, which is an Ask by the program, a Drain by the thread that    *)
(* counted down to zero, or part of EnterRun, and then the                 *)
(* compare-and-swap, a Halt.  Everything else is invisible.                *)
(***************************************************************************)

\* What an operation's place and a thread's label map to.
LEMMA MappedValues ==
    /\ \A op \in Ops : /\ place[op] \in Waiting => lifeBar[op] = "pending"
                       /\ place[op] = "free" => lifeBar[op] = "idle"
                       /\ place[op] = "held" => lifeBar[op] = "running"
    /\ \A t \in Threads : /\ pc[t] = "new" => phaseBar[t] = "before"
                          /\ pc[t] = "out" => phaseBar[t] = "after"
                          /\ Inside(t) => phaseBar[t] = "in"
    BY DEF lifeBar, phaseBar, Waiting, Inside, OutsideLabels

\* The initial states map to the initial states of CompletionPort.
LEMMA MappedInit == Init => Port!PortInit
<1> SUFFICES ASSUME Init PROVE Port!PortInit
    OBVIOUS
<1>1. /\ lifeBar = [op \in Ops |-> "idle"]
      /\ phaseBar = [t \in Threads |-> "before"]
      /\ [t \in Threads |-> cur[t]] = [t \in Threads |-> Null]
    BY DEF Init, lifeBar, phaseBar, Waiting, Callers
<1>2. drainedBar = {} /\ askedBar = {}
    BY DEF Init, drainedBar, askedBar
<1> QED
    BY <1>1, <1>2 DEF Init, Port!PortInit

\* A step that neither takes a caller to the compare-and-swap of stop() nor
\* beyond it.
StoppersStay ==
    \A c \in Callers : pc[c] = "stop" \/ pc'[c] = "stop" => pc'[c] = pc[c] /\ ret'[c] = ret[c]

\* Such a step leaves those who are about to halt the service as they are.
LEMMA SameStoppers == StoppersStay => drainedBar' = drainedBar /\ askedBar' = askedBar
    BY DEF StoppersStay, drainedBar, askedBar

\* A caller that is not in stop() is not about to halt the service.
LEMMA NotStopping ==
    ASSUME NEW c \in Callers, pc[c] # "stop"
    PROVE  c \notin drainedBar /\ c \notin askedBar
    BY DEF drainedBar, askedBar

\* A step that moves an operation between waiting places, and a thread between
\* labels inside run() or within one label outside, is invisible.
LEMMA MappedStutter ==
    ASSUME StateShape, StoppersStay,
           \A op \in Ops : \/ place'[op] = place[op]
                           \/ place[op] \in Waiting /\ place'[op] \in Waiting,
           \A t \in Threads : \/ pc'[t] = pc[t]
                              \/ Inside(t) /\ Inside(t)',
           cur' = cur, stopped' = stopped, usage' = usage
    PROVE  UNCHANGED Port!portVars
<1>1. \A op \in Ops : lifeBar'[op] = lifeBar[op]
  <2> SUFFICES ASSUME NEW op \in Ops PROVE lifeBar'[op] = lifeBar[op]
    OBVIOUS
  <2>1. CASE place'[op] = place[op]
    BY <2>1 DEF lifeBar
  <2>2. CASE place[op] \in Waiting /\ place'[op] \in Waiting
    BY <2>2 DEF lifeBar, Waiting
  <2> QED
    BY <2>1, <2>2
<1>2. lifeBar' = lifeBar
    BY <1>1 DEF lifeBar
<1>3. phaseBar' = phaseBar
    BY DEF phaseBar, Inside, OutsideLabels
<1> QED
    BY <1>2, <1>3, SameStoppers DEF Port!portVars

\* When nothing is pending and whoever owes a work_finished() is through with
\* its operation, CompletionPort has only idle operations.
LEMMA IdleWhenDone ==
    ASSUME ServiceInv, MappingInv, Pending = {}, \A t \in Owing : cur[t] = Null
    PROVE  Port!AllIdle
<1>1. ASSUME NEW op \in Ops PROVE place[op] = "free"
  <2>1. place[op] \notin Waiting /\ place[op] # "dropped"
    BY DEF Pending, ServiceInv, Ownership, QueueOwned, NoneDropped
  <2>2. ASSUME place[op] = "held" PROVE FALSE
    <3>1. PICK t \in Threads : cur[t] = op
      BY <2>2 DEF MappingInv, HeldFound
    <3>2. t \in Callers /\ op # Null
      BY NullAssumption DEF Callers
    <3>3. t \in Owing
      BY <3>1, <3>2 DEF MappingInv, CurPlaced, Completing, Owing, ScopeLabels
    <3> QED
      BY <3>1, <3>2, <3>3
  <2> QED
    BY <2>1, <2>2 DEF ServiceInv, StateShape, Places, Waiting
<1> QED
    BY <1>1, MappedValues DEF Port!AllIdle

\* So it is when the counter is at zero.
LEMMA IdleOnZero ==
    ASSUME ServiceInv, MappingInv, outstanding_work = 0
    PROVE  Port!AllIdle
<1>1. Pending = {} /\ Owing = {}
    BY ZeroMeansIdle DEF ServiceInv
<1> QED
    BY <1>1, IdleWhenDone

\* So it is for the thread that takes the counter from one to zero.
LEMMA IdleAtLast ==
    ASSUME ServiceInv, MappingInv, NEW t \in Owing, cur[t] = Null, outstanding_work = 1
    PROVE  Port!AllIdle
<1>1. /\ IsFiniteSet(Pending) /\ IsFiniteSet(Owing)
      /\ Cardinality(Pending) \in Nat /\ Cardinality(Owing) \in Nat
    BY BooksFinite, FS_CardinalityType
<1>2. Cardinality(Owing) # 0
    BY <1>1, FS_EmptySet
<1>3. Cardinality(Pending) = 0 /\ Cardinality(Owing) = 1
    BY <1>1, <1>2 DEF ServiceInv, WorkAccounting
<1>4. Pending = {}
    BY <1>1, <1>3, FS_EmptySet
<1>5. \E x : Owing = {x}
    BY <1>1, <1>3, FS_Singleton
<1> QED
    BY <1>4, <1>5, IdleWhenDone

\* When the program may call the service, CompletionPort lets it: in a
\* callback, or from outside when its usage allows.
LEMMA MappedCaller ==
    ASSUME ServiceInv, NEW c \in Callers, MayCallService(c)
    PROVE  Port!MayCall(c)
<1> USE NullAssumption
<1>1. CASE c \in Threads
  <2>1. pc[c] = "callback"
    BY <1>1, CallersAssumption DEF MayCallService
  <2>2. cur[c] # Null
    BY <2>1 DEF ServiceInv, Ownership, HandsOwned, LabelsHold
  <2> QED
    BY <1>1, <2>1, <2>2, NotStopping DEF Port!MayCall
<1>2. CASE c \notin Threads
  <2>1. c \in Outsiders /\ pc[c] = "out" /\ OutsiderMayStart
    BY <1>2 DEF MayCallService
  <2>2. usage = "single" => \A t \in Threads : phaseBar[t] = "before"
    BY <2>1, MappedValues DEF OutsiderMayStart
  <2>3. usage = "rerun" => \A t \in Threads : phaseBar[t] # "in"
    BY <2>1, MappedValues DEF OutsiderMayStart, AllOutside, Inside, OutsideLabels
  <2> QED
    BY <2>1, <2>2, <2>3, NotStopping DEF Port!MayCall, Port!OutsiderMayCall
<1> QED
    BY <1>1, <1>2

\* Starting an operation is a Start.
LEMMA MappedStart ==
    ASSUME ServiceInv, NEW c \in Callers, StartOperation(c)
    PROVE  \E op \in Ops : Port!Start(c, op)
<1> USE NullAssumption
<1>0. /\ place \in [Ops -> Places] /\ pc \in [Callers -> Labels]
      /\ Threads \subseteq Callers
      /\ cur' = cur /\ stopped' = stopped /\ usage' = usage /\ ret' = ret
    BY DEF ServiceInv, StateShape, Callers, StartOperation
<1>1. PICK op \in Ops : place[op] = "free" /\ WorkStarted(c, op)
    BY DEF StartOperation
<1>2. lifeBar[op] = "idle"
    BY <1>1, MappedValues
<1>3. Port!MayCall(c)
    BY MappedCaller DEF StartOperation
<1>4. lifeBar' = [lifeBar EXCEPT ![op] = "pending"]
    BY <1>0, <1>1 DEF WorkStarted, lifeBar, Waiting
<1>5. phaseBar' = phaseBar
    BY <1>0, <1>1, CallersAssumption
       DEF StartOperation, MayCallService, WorkStarted, Goto, phaseBar
<1>6. StoppersStay
    BY <1>0, <1>1 DEF StartOperation, MayCallService, WorkStarted, Goto, StoppersStay
<1> QED
    BY <1>0, <1>2, <1>3, <1>4, <1>5, <1>6, SameStoppers DEF Port!Start

\* Calling stop() is an Ask.
LEMMA MappedAsk ==
    ASSUME ServiceInv, NEW c \in Callers, UserStop(c)
    PROVE  Port!Ask(c)
<1>0. /\ pc \in [Callers -> Labels] /\ ret \in [Callers -> {"out", "enter", "claim", "callback"}]
      /\ Threads \subseteq Callers
      /\ place' = place /\ cur' = cur /\ stopped' = stopped /\ usage' = usage
      /\ pc[c] \in {"out", "callback"} /\ (c \in Threads => pc[c] = "callback")
      /\ pc' = [pc EXCEPT ![c] = "stop"] /\ ret' = [ret EXCEPT ![c] = pc[c]]
    BY CallersAssumption
       DEF ServiceInv, StateShape, Callers, UserStop, MayCallService, CallStop, Goto, shared
<1>1. lifeBar' = lifeBar
    BY <1>0 DEF lifeBar
<1>2. phaseBar' = phaseBar
    BY <1>0 DEF phaseBar
<1>3. drainedBar' = drainedBar
    BY <1>0 DEF drainedBar
<1>4. askedBar' = askedBar \cup {c}
    BY <1>0 DEF askedBar
<1>5. ExplicitStop /\ Port!MayCall(c)
    BY MappedCaller DEF UserStop
<1> QED
    BY <1>0, <1>1, <1>2, <1>3, <1>4, <1>5 DEF Port!Ask

\* The compare-and-swap is a Halt, by a caller that was asked to, or by a
\* thread that found no work: unless outsiders start work at any time, there
\* still is none.
LEMMA MappedStop ==
    ASSUME ServiceInv, StoppingOnZero, MappingInv, NEW c \in Callers, StopCas(c)
    PROVE  Port!Halt(c)
<1>0. /\ pc \in [Callers -> Labels] /\ ret \in [Callers -> {"out", "enter", "claim", "callback"}]
      /\ Threads \subseteq Callers
      /\ place' = place /\ cur' = cur /\ stopped' = 1 /\ usage' = usage /\ pc[c] = "stop"
      /\ \E l \in {"interrupt", ret[c]} : pc' = [pc EXCEPT ![c] = l]
      /\ \E r \in {"out", ret[c]} : ret' = [ret EXCEPT ![c] = r]
    BY DEF ServiceInv, StateShape, Callers, StopCas, Goto
<1>1. lifeBar' = lifeBar
    BY <1>0 DEF lifeBar
<1>2. \A t \in Threads : pc'[t] = pc[t] \/ (Inside(t) /\ Inside(t)')
    BY <1>0 DEF Inside, OutsideLabels, MappingInv, StopReturns, StopLabels
<1>3. phaseBar' = phaseBar
    BY <1>2 DEF phaseBar, Inside, OutsideLabels
<1>4. c \in drainedBar \cup askedBar
    BY <1>0 DEF drainedBar, askedBar
<1>5. drainedBar' = drainedBar \ {c} /\ askedBar' = askedBar \ {c}
    BY <1>0 DEF drainedBar, askedBar
<1>6. ASSUME c \in drainedBar, usage # "open" PROVE Port!AllIdle
  <2>1. outstanding_work = 0
    BY <1>6 DEF drainedBar, StoppingOnZero, StopLabels
  <2> QED
    BY <2>1, IdleOnZero
<1> QED
    BY <1>0, <1>1, <1>3, <1>4, <1>5, <1>6 DEF Port!Halt

\* Popping an operation is a Begin by a thread that completes nothing else.
LEMMA MappedPop ==
    ASSUME ServiceInv, MappingInv, NEW t \in Threads, PopOperation(t)
    PROVE  \E op \in Ops : Port!Begin(t, op)
<1> USE NullAssumption
<1> DEFINE h == Head(completed_ops)
<1>0. /\ place \in [Ops -> Places] /\ pc \in [Callers -> Labels]
      /\ cur \in [Callers -> Ops \cup {Null}]
      /\ Threads \subseteq Callers /\ stopped' = stopped /\ usage' = usage /\ ret' = ret
    BY DEF ServiceInv, StateShape, Callers, PopOperation, shared
<1>1. /\ Len(completed_ops) >= 1 /\ Len(completed_ops) \in Nat
      /\ h = completed_ops[1] /\ h # Null
    BY TailElements DEF PopOperation, ServiceInv, StateShape
<1>2. h \in Ops /\ place[h] = "queued"
    BY <1>1 DEF ServiceInv, StateShape, Ownership, QueueOwned, QueueReady
<1>3. cur[t] = Null /\ pc[t] = "wait"
    BY <1>0 DEF PopOperation, MappingInv, CurPlaced, Completing, StopLabels
<1>4. /\ place' = [place EXCEPT ![h] = "held"] /\ cur' = [cur EXCEPT ![t] = h]
      /\ pc' = [pc EXCEPT ![t] = "claimed"]
    BY DEF PopOperation, Goto
<1> HIDE DEF h
<1>5. lifeBar[h] = "pending" /\ phaseBar[t] = "in"
    BY <1>2, <1>3, MappedValues DEF Waiting, Inside, OutsideLabels
<1>6. lifeBar' = [lifeBar EXCEPT ![h] = "running"]
    BY <1>0, <1>2, <1>4 DEF lifeBar, Waiting
<1>7. phaseBar' = phaseBar
    BY <1>0, <1>3, <1>4 DEF phaseBar
<1>8. [u \in Threads |-> cur[u]]' = [[u \in Threads |-> cur[u]] EXCEPT ![t] = h]
    BY <1>0, <1>4
<1>9. t \notin drainedBar /\ StoppersStay
    BY <1>0, <1>3, <1>4, NotStopping DEF StoppersStay
<1> QED
    BY <1>0, <1>2, <1>3, <1>5, <1>6, <1>7, <1>8, <1>9, SameStoppers DEF Port!Begin, Port!Free

\* The return of a callback and a restart are the End of a completion.
LEMMA MappedEnd ==
    ASSUME ServiceInv, NEW t \in Threads, CallbackReturns(t) \/ Restart(t)
    PROVE  Port!End(t)
<1> USE NullAssumption
<1> DEFINE op == cur[t]
<1>0. /\ place \in [Ops -> Places] /\ pc \in [Callers -> Labels]
      /\ cur \in [Callers -> Ops \cup {Null}]
      /\ Threads \subseteq Callers /\ t \in Callers
      /\ stopped' = stopped /\ usage' = usage /\ ret' = ret
    BY DEF ServiceInv, StateShape, Callers, CallbackReturns, Restart, shared
<1>1. op \in Ops /\ op # Null
    BY <1>0 DEF CallbackReturns, Restart, ServiceInv, Ownership, HandsOwned, LabelsHold
<1>2. /\ \E p \in {"free", "started"} : place' = [place EXCEPT ![op] = p]
      /\ cur' = [cur EXCEPT ![t] = Null]
      /\ \E l \in {"finish", "start"} : pc' = [pc EXCEPT ![t] = l]
      /\ pc[t] \in {"callback", "claimed"}
    BY DEF CallbackReturns, Restart, WorkStarted, Goto
<1>a. op = cur[t]
    OBVIOUS
<1> HIDE DEF op
<1>3. \E next \in {"idle", "pending"} : lifeBar' = [lifeBar EXCEPT ![op] = next]
  <2>1. CASE place' = [place EXCEPT ![op] = "free"]
    <3>1. lifeBar' = [lifeBar EXCEPT ![op] = "idle"]
      BY <1>0, <1>1, <2>1 DEF lifeBar, Waiting
    <3> QED
      BY <3>1
  <2>2. CASE place' = [place EXCEPT ![op] = "started"]
    <3>1. lifeBar' = [lifeBar EXCEPT ![op] = "pending"]
      BY <1>0, <1>1, <2>2 DEF lifeBar, Waiting
    <3> QED
      BY <3>1
  <2> QED
    BY <1>2, <2>1, <2>2
<1>4. phaseBar' = phaseBar
    BY <1>0, <1>2 DEF phaseBar
<1>5. [u \in Threads |-> cur[u]]' = [[u \in Threads |-> cur[u]] EXCEPT ![t] = Null]
    BY <1>0, <1>2
<1>6. t \notin askedBar /\ StoppersStay
    BY <1>0, <1>2, NotStopping DEF StoppersStay
<1> QED
    BY <1>0, <1>1, <1>3, <1>4, <1>5, <1>6, <1>a, SameStoppers DEF Port!End

\* Calling run() is an EnterRun; whether the thread found work is read off the
\* counter.
LEMMA MappedRun ==
    ASSUME ServiceInv, MappingInv, NEW t \in Threads, Run(t)
    PROVE  Port!EnterRun(t)
<1>0. /\ pc \in [Callers -> Labels] /\ ret \in [Callers -> {"out", "enter", "claim", "callback"}]
      /\ Threads \subseteq Callers /\ pc[t] \in {"new", "out"}
      /\ usage = "single" => pc[t] = "new"
      /\ place' = place /\ cur' = cur /\ stopped' = stopped /\ usage' = usage
    BY DEF ServiceInv, StateShape, Callers, Run, MayRun, Inside, OutsideLabels, shared
<1>1. lifeBar' = lifeBar
    BY <1>0 DEF lifeBar
<1>2. phaseBar[t] # "in" /\ (usage = "single" => phaseBar[t] = "before")
    BY <1>0, MappedValues
<1>3. CASE outstanding_work = 0
  <2>1. pc' = [pc EXCEPT ![t] = "stop"] /\ ret' = [ret EXCEPT ![t] = "enter"]
    BY <1>3 DEF Run, CallStop, Goto
  <2>2. phaseBar' = [phaseBar EXCEPT ![t] = "in"]
    BY <1>0, <2>1 DEF phaseBar
  <2>3. drainedBar' = drainedBar \cup {t} /\ askedBar' = askedBar
    BY <1>0, <2>1 DEF drainedBar, askedBar
  <2>4. Port!AllIdle
    BY <1>3, IdleOnZero
  <2> QED
    BY <1>0, <1>1, <1>2, <2>2, <2>3, <2>4 DEF Port!EnterRun
<1>4. CASE outstanding_work # 0
  <2>1. pc' = [pc EXCEPT ![t] = "enter"] /\ ret' = ret
    BY <1>4 DEF Run, Goto
  <2>2. phaseBar' = [phaseBar EXCEPT ![t] = "in"]
    BY <1>0, <2>1 DEF phaseBar
  <2>3. StoppersStay
    BY <1>0, <2>1 DEF StoppersStay
  <2> QED
    BY <1>0, <1>1, <1>2, <2>2, <2>3, SameStoppers DEF Port!EnterRun
<1> QED
    BY <1>3, <1>4

\* The decrement of the counter to zero is a Drain, any other is invisible.
LEMMA MappedFinish ==
    ASSUME ServiceInv, MappingInv, NEW t \in Threads, WorkFinished(t)
    PROVE  Port!Drain(t) \/ UNCHANGED Port!portVars
<1>0. /\ pc \in [Callers -> Labels] /\ ret \in [Callers -> {"out", "enter", "claim", "callback"}]
      /\ Threads \subseteq Callers /\ pc[t] = "finish" /\ StateShape
      /\ place' = place /\ cur' = cur /\ stopped' = stopped /\ usage' = usage
    BY DEF ServiceInv, StateShape, Callers, WorkFinished
<1>1. CASE outstanding_work' = 0
  <2>1. pc' = [pc EXCEPT ![t] = "stop"] /\ ret' = [ret EXCEPT ![t] = "claim"]
    BY <1>1 DEF WorkFinished, LastWork, CallStop, Goto
  <2>2. lifeBar' = lifeBar
    BY <1>0 DEF lifeBar
  <2>3. phaseBar' = phaseBar
    BY <1>0, <2>1 DEF phaseBar
  <2>4. drainedBar' = drainedBar \cup {t} /\ askedBar' = askedBar
    BY <1>0, <2>1 DEF drainedBar, askedBar
  <2>5. t \in Owing /\ cur[t] = Null
    BY <1>0 DEF Owing, ScopeLabels, MappingInv, CurPlaced, Completing, StopLabels
  <2>6. Port!AllIdle
    <3>1. outstanding_work = 1
      BY <1>0, <1>1 DEF WorkFinished, StateShape
    <3> QED
      BY <2>5, <3>1, IdleAtLast
  <2>7. Port!Free(t)
    <3>1. cur[t] = Null /\ phaseBar[t] = "in" /\ t \notin drainedBar
      BY <1>0, MappedValues, NotStopping
         DEF MappingInv, CurPlaced, Completing, StopLabels, Inside, OutsideLabels
    <3> QED
      BY <3>1 DEF Port!Free
  <2> QED
    BY <1>0, <2>2, <2>3, <2>4, <2>6, <2>7 DEF Port!Drain
<1>2. CASE outstanding_work' # 0
  <2>1. pc' = [pc EXCEPT ![t] = "claim"] /\ ret' = ret
    BY <1>2 DEF WorkFinished, LastWork, Goto
  <2>2. StoppersStay /\ \A u \in Threads : pc'[u] = pc[u] \/ (Inside(u) /\ Inside(u)')
    BY <1>0, <2>1 DEF StoppersStay, Inside, OutsideLabels
  <2> QED
    BY <1>0, <2>2, MappedStutter
<1> QED
    BY <1>1, <1>2

\* Leaving run() is a LeaveRun, by a thread that completes nothing, after the
\* service has stopped or a system call has failed.
LEMMA MappedLeave ==
    ASSUME ServiceInv, MappingInv, NEW t \in Threads, Leave(t)
    PROVE  Port!LeaveRun(t)
<1>0. /\ pc \in [Callers -> Labels] /\ Threads \subseteq Callers /\ pc[t] = "leave"
      /\ place' = place /\ cur' = cur /\ stopped' = stopped /\ usage' = usage /\ ret' = ret
      /\ pc' = [pc EXCEPT ![t] = "out"]
    BY DEF ServiceInv, StateShape, Callers, Leave, Goto, local
<1>1. lifeBar' = lifeBar
    BY <1>0 DEF lifeBar
<1>2. phaseBar' = [phaseBar EXCEPT ![t] = "after"]
    BY <1>0 DEF phaseBar
<1>3. cur[t] = Null /\ phaseBar[t] = "in"
    BY <1>0, MappedValues
       DEF MappingInv, CurPlaced, Completing, StopLabels, Inside, OutsideLabels
<1>4. stopped = 1 \/ SyscallMayFail
    BY <1>0 DEF MappingInv, LeaveJustified
<1>5. t \notin drainedBar /\ StoppersStay
    BY <1>0, NotStopping DEF StoppersStay
<1> QED
    BY <1>0, <1>1, <1>2, <1>3, <1>4, <1>5, SameStoppers DEF Port!LeaveRun, Port!Free

\* The rest of the code is invisible: stop() after the compare-and-swap, the
\* ways an operation travels until it is popped, and do_one() around them.
LEMMA MappedRest ==
    ASSUME ServiceInv, MappingInv,
           \/ \E c \in Callers : StopInterrupt(c) \/ Submit(c)
           \/ \E t \in Threads : /\ ThreadStep(t)
                                 /\ ~PopOperation(t) /\ ~Restart(t) /\ ~Leave(t) /\ ~WorkFinished(t)
           \/ \E op \in Ops : WorkerCompletes(op)
           \/ UNCHANGED vars
    PROVE  UNCHANGED Port!portVars
<1> DEFINE Shape == /\ place \in [Ops -> Places] /\ pc \in [Callers -> Labels]
                    /\ ret \in [Callers -> {"out", "enter", "claim", "callback"}]
                    /\ new \in [Callers -> Ops \cup {Null}]
                    /\ cur \in [Callers -> Ops \cup {Null}]
                    /\ events \in SUBSET Ops
                    /\ Threads \subseteq Callers
<1>0. Shape /\ Ownership /\ StateShape
    BY DEF ServiceInv, StateShape, Callers
<1> HIDE DEF Shape
<1> USE NullAssumption DEF Goto, CallStop, shared, local, Inside, OutsideLabels, StoppersStay
<1>1. ASSUME NEW c \in Callers, StopInterrupt(c) PROVE UNCHANGED Port!portVars
  <2>1. \A t \in Threads : pc'[t] = pc[t] \/ (Inside(t) /\ Inside(t)')
    BY <1>0, <1>1 DEF Shape, StopInterrupt, MappingInv, StopReturns, StopLabels
  <2>2. StoppersStay
    BY <1>0, <1>1 DEF Shape, StopInterrupt
  <2> QED
    BY <1>0, <1>1, <2>1, <2>2, MappedStutter DEF StopInterrupt
<1>2. ASSUME NEW c \in Callers, Submit(c) PROVE UNCHANGED Port!portVars
  <2>1. new[c] \in Ops /\ place[new[c]] \in Waiting
    BY <1>0, <1>2 DEF Shape, Submit, Ownership, HandsOwned, LabelsHold, NewOwned, Waiting
  <2>2. \A op \in Ops : \/ place'[op] = place[op]
                        \/ place[op] \in Waiting /\ place'[op] \in Waiting
    BY <1>0, <1>2, <2>1 DEF Shape, Submit, PostDeferredCompletion, Waiting
  <2>3. \A t \in Threads : pc'[t] = pc[t] \/ (Inside(t) /\ Inside(t)')
    BY <1>0, <1>2, CallersAssumption DEF Shape, Submit, AfterSubmit
  <2>4. StoppersStay
    BY <1>0, <1>2 DEF Shape, Submit, AfterSubmit
  <2> QED
    BY <1>0, <1>2, <2>2, <2>3, <2>4, MappedStutter DEF Submit
<1>3. ASSUME NEW op \in Ops, WorkerCompletes(op) PROVE UNCHANGED Port!portVars
  <2>1. \A p \in Ops : \/ place'[p] = place[p]
                       \/ place[p] \in Waiting /\ place'[p] \in Waiting
    BY <1>0, <1>3 DEF Shape, WorkerCompletes, PostDeferredCompletion, Waiting
  <2> QED
    BY <1>0, <1>3, <2>1, MappedStutter DEF WorkerCompletes
<1>4. ASSUME NEW t \in Threads, ThreadStep(t),
             ~PopOperation(t), ~Restart(t), ~Leave(t), ~WorkFinished(t)
      PROVE  UNCHANGED Port!portVars
  <2>1. CASE \/ Enter(t) \/ Claim(t) \/ EpollWait(t) \/ PopInterrupt(t) \/ WaitTimeout(t)
             \/ SyscallFails(t) \/ PassInterrupt(t)
    <3>1. /\ \A u \in Threads : pc'[u] = pc[u] \/ (Inside(u) /\ Inside(u)')
          /\ place' = place /\ cur' = cur /\ stopped' = stopped /\ usage' = usage
      BY <1>0, <2>1
         DEF Shape, Enter, Claim, EpollWait, AfterEvents, PopInterrupt, WaitTimeout,
             SyscallFails, PassInterrupt
    <3>2. StoppersStay
      BY <1>0, <2>1
         DEF Shape, Enter, Claim, EpollWait, AfterEvents, PopInterrupt, WaitTimeout,
             SyscallFails, PassInterrupt
    <3> QED
      BY <1>0, <3>1, <3>2, MappedStutter
  <2>2. CASE DetachOperation(t)
    <3>1. /\ \A u \in Threads : pc'[u] = pc[u] \/ (Inside(u) /\ Inside(u)')
          /\ \A op \in Ops : \/ place'[op] = place[op]
                             \/ place[op] \in Waiting /\ place'[op] \in Waiting
      BY <1>0, <2>2 DEF Shape, DetachOperation, AfterEvents, Waiting
    <3>2. StoppersStay
      BY <1>0, <2>2 DEF Shape, DetachOperation, AfterEvents
    <3> QED
      BY <1>0, <2>2, <3>1, <3>2, MappedStutter DEF DetachOperation
  <2>3. CASE PostDetached(t)
    <3>1. new[t] \in Ops /\ place[new[t]] \in Waiting
      BY <1>0, <2>3 DEF Shape, PostDetached, Ownership, HandsOwned, LabelsHold, NewOwned, Waiting
    <3>2. /\ \A u \in Threads : pc'[u] = pc[u] \/ (Inside(u) /\ Inside(u)')
          /\ \A op \in Ops : \/ place'[op] = place[op]
                             \/ place[op] \in Waiting /\ place'[op] \in Waiting
      BY <1>0, <2>3, <3>1 DEF Shape, PostDetached, PostDeferredCompletion, AfterEvents, Waiting
    <3>3. StoppersStay
      BY <1>0, <2>3 DEF Shape, PostDetached, AfterEvents
    <3> QED
      BY <1>0, <2>3, <3>2, <3>3, MappedStutter DEF PostDetached
  <2>4. CASE Complete(t)
    <3>1. ready[cur[t]] = 1
      BY <1>0, <2>4 DEF Shape, Complete, Ownership, HandsOwned, LabelsHold
    <3>2. /\ \A u \in Threads : pc'[u] = pc[u] \/ (Inside(u) /\ Inside(u)')
          /\ place' = place /\ cur' = cur /\ stopped' = stopped /\ usage' = usage
      BY <1>0, <2>4, <3>1 DEF Shape, Complete
    <3>3. StoppersStay
      BY <1>0, <2>4, <3>1 DEF Shape, Complete
    <3> QED
      BY <1>0, <3>2, <3>3, MappedStutter
  <2> QED
    BY <1>4, <2>1, <2>2, <2>3, <2>4 DEF ThreadStep
<1>5. CASE UNCHANGED vars
    BY <1>0, <1>5, MappedStutter DEF vars
<1> QED
    BY <1>1, <1>2, <1>3, <1>4, <1>5

\* Every step of the epoll service is a step of CompletionPort or invisible.
LEMMA RefinementStep ==
    ServiceInv /\ StoppingOnZero /\ MappingInv /\ [Next]_vars
      => [Port!PortNext]_(Port!portVars)
<1> SUFFICES ASSUME ServiceInv, StoppingOnZero, MappingInv, [Next]_vars
             PROVE  [Port!PortNext]_(Port!portVars)
    OBVIOUS
<1>0. Callers = Threads \cup Outsiders
    BY DEF Callers
<1>1. ASSUME NEW c \in Callers, StartOperation(c) PROVE Port!PortNext
    BY <1>0, <1>1, MappedStart DEF Port!PortNext
<1>2. ASSUME NEW c \in Callers, UserStop(c) PROVE Port!PortNext
    BY <1>0, <1>2, MappedAsk DEF Port!PortNext
<1>3. ASSUME NEW c \in Callers, StopCas(c) PROVE Port!PortNext
    BY <1>0, <1>3, MappedStop DEF Port!PortNext
<1>4. ASSUME NEW t \in Threads, PopOperation(t) PROVE Port!PortNext
    BY <1>4, MappedPop DEF Port!PortNext
<1>5. ASSUME NEW t \in Threads, CallbackReturns(t) \/ Restart(t) PROVE Port!PortNext
    BY <1>5, MappedEnd DEF Port!PortNext
<1>6. ASSUME NEW t \in Threads, Run(t) PROVE Port!PortNext
    BY <1>6, MappedRun DEF Port!PortNext
<1>7. ASSUME NEW t \in Threads, WorkFinished(t) PROVE [Port!PortNext]_(Port!portVars)
    BY <1>7, MappedFinish DEF Port!PortNext
<1>8. ASSUME NEW t \in Threads, Leave(t) PROVE Port!PortNext
    BY <1>8, MappedLeave DEF Port!PortNext
<1> QED
    BY <1>1, <1>2, <1>3, <1>4, <1>5, <1>6, <1>7, <1>8, MappedRest
       DEF Next, CallerStep, ThreadStep

\* For every number of threads and operations, and whenever the program starts
\* work, stops the service or calls run(), the service keeps the promises of
\* CompletionPort: each started operation is completed by one thread of run(),
\* no thread leaves before the service has stopped unless a system call
\* failed, and the service stops because the program asked or because a thread
\* found no work, which is still so then unless work is started from outside
\* at any time.
THEOREM Implementation == Spec => ImplementsCompletionPort
<1>1. ServiceInv /\ StoppingOnZero /\ MappingInv /\ [Next]_vars
        => [Port!PortNext]_(Port!portVars)
    BY RefinementStep
<1> QED
    BY <1>1, MappedInit, MappingInvariant, PTL DEF Spec, ImplementsCompletionPort, Port!PortSpec
=============================================================================
