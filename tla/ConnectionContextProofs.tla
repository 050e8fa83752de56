---------------------- MODULE ConnectionContextProofs ----------------------
(***************************************************************************)
(* The reference count of a connection, for programs that do not call      *)
(* Shutdown() themselves (see shutdown_twice for those that do), any       *)
(* number of threads and any kind of connection.                           *)
(***************************************************************************)
EXTENDS ConnectionContext, FiniteSetTheorems, TLAPS

\* ref_ is only typed as an integer: that it is a natural number follows from
\* the count.
Shape ==
    /\ ref \in Int
    /\ close_flag \in BOOLEAN /\ shutdown_flag \in BOOLEAN
    /\ deleted \in BOOLEAN /\ accepting \in BOOLEAN
    /\ IsFiniteSet(pending) /\ pending \subseteq OpNames \X Threads
    /\ started \in 0 .. MaxStarts
    /\ pc \in [Threads -> Labels]
    /\ op \in [Threads -> OpNames]
    /\ new \in [Threads -> OpNames]
    /\ back \in [Threads -> {"callback", "dec", "idle", "next"}]
    /\ reject \in [Threads -> BOOLEAN]

\* The first operation and, for SSL, its callback are alone.
FirstIsAlone ==
    /\ \A p \in pending : p[1] \in {"accept", "connect"} =>
         pending = {p} /\ \A t \in Threads : pc[t] = "idle"
    /\ \A t \in Threads : HasSsl /\ pc[t] = "callback" /\ op[t] = First =>
         pending = {} /\ \A u \in Threads \ {t} : pc[u] = "idle"

\* An operation that is being started is not outstanding yet, only the last
\* thread shuts the session down, once, and the program starts nothing on an
\* SSL connection before its handshake.
StartsAreNew ==
    \A t \in Starting :
        /\ << new[t], t >> \notin pending
        /\ new[t] \notin {"accept", "connect"}
        /\ pc[t] = "cas" => ~shutdown_flag /\ Last(t)
        /\ HasSsl /\ back[t] = "callback" => op[t] # First

ContextInv ==
    /\ Shape
    /\ FirstIsAlone
    /\ StartsAreNew
    /\ DeletedIsUnused
    /\ LastIsAlone
    /\ RefCounts

-----------------------------------------------------------------------------
\* Every action writes values of the right kind to the variables it changes.
LEMMA ShapeStep == Shape /\ [Next]_vars => Shape'
<1> SUFFICES ASSUME Shape, [Next]_vars PROVE Shape'
  OBVIOUS
<1> USE StartsAssumption DEF Shape, OpNames, Labels, Goto, flags, locals
<1>1. ASSUME NEW p \in pending, AcceptFails(p) PROVE Shape'
  BY <1>1, FS_RemoveElement DEF AcceptFails
<1>2. ASSUME NEW p \in pending, NEW t \in Threads, Completes(t, p) PROVE Shape'
  <2>1. IsFiniteSet(pending') /\ pending' \subseteq OpNames \X Threads
    BY <1>2, FS_RemoveElement DEF Completes
  <2>2. p[1] \in OpNames
    OBVIOUS
  <2> QED BY <1>2, <2>1, <2>2 DEF Completes
<1>3. ASSUME NEW t \in Threads, LibraryStep(t) PROVE Shape'
  <2>1. CASE SetShutdownFlag(t)
    BY <2>1 DEF SetShutdownFlag
  <2>2. CASE Count(t)
    BY <2>2 DEF Count
  <2>3. CASE Issue(t)
    <3>1. << new[t], t >> \in OpNames \X Threads
      OBVIOUS
    <3>2. IsFiniteSet(pending') /\ pending' \subseteq OpNames \X Threads
      BY <2>3, <3>1, FS_AddElement DEF Issue
    <3> QED BY <2>3, <3>2 DEF Issue
  <2>4. CASE Dec(t)
    BY <2>4 DEF Dec, After
  <2>5. CASE ShutdownAtZero(t)
    BY <2>5 DEF ShutdownAtZero, Begin, Counting, After
  <2>6. CASE Delete(t)
    BY <2>6 DEF Delete, After
  <2>7. CASE NextAccept(t)
    BY <2>7 DEF NextAccept
  <2> QED BY <1>3, <2>1, <2>2, <2>3, <2>4, <2>5, <2>6, <2>7 DEF LibraryStep
<1>4. ASSUME NEW t \in Threads, CallbackReturns(t) \/ CallClose(t) PROVE Shape'
  BY <1>4 DEF CallbackReturns, ReturnsOk, ReturnsError, CallClose, Begin, Counting
<1>5. ASSUME NEW t \in Threads, NEW o \in OpNames, CallStart(t, o) PROVE Shape'
  BY <1>5 DEF CallStart, Begin, Counting
<1>6. CASE UNCHANGED vars
  BY <1>6 DEF vars
<1> QED BY <1>1, <1>2, <1>3, <1>4, <1>5, <1>6 DEF Next

(***************************************************************************)
(* Which threads and operations can meet.                                  *)
(***************************************************************************)
\* The first operation of a connection, the accept or the connect, stays alone
\* until its callback has run.
LEMMA FirstStep ==
  ASSUME "shutdown" \notin Calls, ContextInv, [Next]_vars
  PROVE  FirstIsAlone'
<1> USE DEF ContextInv, Shape, FirstIsAlone, OpNames, Labels, Goto, flags, locals
<1>1. ASSUME NEW p \in pending, AcceptFails(p) PROVE FirstIsAlone'
  BY <1>1 DEF AcceptFails
<1>2. ASSUME NEW p \in pending, NEW t \in Threads, Completes(t, p) PROVE FirstIsAlone'
  BY <1>2 DEF Completes, First
<1>3. ASSUME NEW t \in Threads, LibraryStep(t) PROVE FirstIsAlone'
  <2>1. CASE SetShutdownFlag(t)
    BY <2>1 DEF SetShutdownFlag
  <2>2. CASE Count(t)
    BY <2>2 DEF Count
  <2>3. CASE Issue(t)
    <3>1. /\ pc[t] = "issue" /\ new[t] \notin {"accept", "connect"}
          /\ HasSsl /\ back[t] = "callback" => op[t] # First
      BY <2>3 DEF Issue, StartsAreNew, Starting
    <3>2. ASSUME NEW p \in pending', p[1] \in {"accept", "connect"} PROVE FALSE
      BY <2>3, <3>1, <3>2 DEF Issue
    <3>3. ASSUME NEW u \in Threads, HasSsl, pc'[u] = "callback", op'[u] = First PROVE FALSE
      <4>1. CASE u = t
        BY <2>3, <3>1, <3>3, <4>1 DEF Issue
      <4>2. CASE u # t
        BY <2>3, <3>1, <3>3, <4>2 DEF Issue
      <4> QED BY <4>1, <4>2
    <3>4. HasSsl' = HasSsl /\ First' = First
      BY DEF HasSsl, First, IsServer
    <3> QED BY <3>2, <3>3, <3>4
  <2>4. CASE Dec(t)
    BY <2>4 DEF Dec, After
  <2>5. CASE ShutdownAtZero(t)
    BY <2>5 DEF ShutdownAtZero, Begin, Counting, After
  <2>6. CASE Delete(t)
    BY <2>6 DEF Delete, After
  <2>7. CASE NextAccept(t)
    BY <2>7 DEF NextAccept
  <2> QED BY <1>3, <2>1, <2>2, <2>3, <2>4, <2>5, <2>6, <2>7 DEF LibraryStep
<1>4. ASSUME NEW t \in Threads, CallbackReturns(t) \/ CallClose(t) PROVE FirstIsAlone'
  BY <1>4 DEF CallbackReturns, ReturnsOk, ReturnsError, CallClose, Begin, Counting
<1>5. ASSUME NEW t \in Threads, NEW o \in OpNames, CallStart(t, o) PROVE FirstIsAlone'
  BY <1>5 DEF CallStart, MayStart, Begin, Counting
<1>6. CASE UNCHANGED vars
  BY <1>6 DEF vars
<1> QED BY <1>1, <1>2, <1>3, <1>4, <1>5, <1>6 DEF Next

\* An operation is counted and started before any thread can complete it.
LEMMA StartsStep ==
  ASSUME "shutdown" \notin Calls, ContextInv, [Next]_vars
  PROVE  StartsAreNew'
<1> USE CallsAssumption
    DEF ContextInv, Shape, StartsAreNew, Starting, Last, OpNames, Labels, Goto, flags, locals
<1>1. ASSUME NEW p \in pending, AcceptFails(p) PROVE StartsAreNew'
  BY <1>1 DEF AcceptFails
<1>2. ASSUME NEW p \in pending, NEW t \in Threads, Completes(t, p) PROVE StartsAreNew'
  BY <1>2 DEF Completes
<1>3. ASSUME NEW t \in Threads, LibraryStep(t) PROVE StartsAreNew'
  <2>1. CASE SetShutdownFlag(t)
    BY <2>1 DEF SetShutdownFlag, LastIsAlone
  <2>2. CASE Count(t) \/ Dec(t) \/ Delete(t) \/ NextAccept(t)
    BY <2>2 DEF Count, Dec, Delete, NextAccept, After
  <2>3. CASE Issue(t)
    BY <2>3 DEF Issue
  <2>4. CASE ShutdownAtZero(t)
    BY <2>4 DEF ShutdownAtZero, NeedsShutdown, Begin, Counting, After, LastIsAlone
  <2> QED BY <1>3, <2>1, <2>2, <2>3, <2>4 DEF LibraryStep
<1>4. ASSUME NEW t \in Threads, CallbackReturns(t) \/ CallClose(t) PROVE StartsAreNew'
  BY <1>4 DEF CallbackReturns, ReturnsOk, ReturnsError, CallClose, Begin, Counting,
              FirstIsAlone
<1>5. ASSUME NEW t \in Threads, NEW o \in OpNames, CallStart(t, o) PROVE StartsAreNew'
  BY <1>5 DEF CallStart, MayStart, Begin, Counting
<1>6. CASE UNCHANGED vars
  BY <1>6 DEF vars
<1> QED BY <1>1, <1>2, <1>3, <1>4, <1>5, <1>6, ZenonT(40) DEF Next

-----------------------------------------------------------------------------
(***************************************************************************)
(* The count.                                                              *)
(***************************************************************************)
\* All that ref_ counts is finite, so that the sizes are numbers.
LEMMA BooksFinite ==
  ASSUME Shape
  PROVE  /\ Cardinality(pending) \in Nat
         /\ IsFiniteSet(Holders) /\ Cardinality(Holders) \in Nat
         /\ IsFiniteSet(Counted) /\ Cardinality(Counted) \in Nat
<1>1. IsFiniteSet(Holders) /\ IsFiniteSet(Counted)
  BY ThreadsAssumption, FS_Subset DEF Holders, Counted
<1> QED BY <1>1, FS_CardinalityType DEF Shape

\* Every step that starts or completes an operation, or passes through
\* CheckAndDelete(), moves ref_ and what it counts together.
LEMMA CountStep ==
  ASSUME "shutdown" \notin Calls, ContextInv, [Next]_vars
  PROVE  RefCounts'
<1> USE CallsAssumption DEF ContextInv, Shape, OpNames, Labels, Goto, flags, locals
<1>a. ASSUME ref' = ref, deleted' = deleted, pending' = pending,
             Holders' = Holders, Counted' = Counted
      PROVE  RefCounts'
  BY <1>a DEF RefCounts
<1>b. ASSUME deleted' PROVE RefCounts'
  BY <1>b DEF RefCounts
<1>1. ASSUME NEW p \in pending, AcceptFails(p) PROVE RefCounts'
  BY <1>b, <1>1 DEF AcceptFails
<1>2. ASSUME NEW p \in pending, NEW t \in Threads, Completes(t, p) PROVE RefCounts'
  <2>1. Holders' = Holders \cup {t} /\ t \notin Holders /\ Counted' = Counted
    BY <1>2 DEF Completes, Holders, Counted, Starting
  <2>2. Cardinality(Holders') = Cardinality(Holders) + 1
    BY <2>1, BooksFinite, FS_AddElement
  <2>3. Cardinality(pending') = Cardinality(pending) - 1
    BY <1>2, FS_RemoveElement DEF Completes
  <2> QED BY <1>2, <2>1, <2>2, <2>3, BooksFinite DEF Completes, RefCounts
<1>3. ASSUME NEW t \in Threads, LibraryStep(t) PROVE RefCounts'
  <2>1. CASE SetShutdownFlag(t)
    <3>1. Holders' = Holders /\ Counted' = Counted
      BY <2>1, ZenonT(40) DEF SetShutdownFlag, Holders, Counted, Starting, StartsAreNew
    <3> QED BY <1>a, <2>1, <3>1 DEF SetShutdownFlag
  <2>2. CASE Count(t)
    <3>1. Holders' = Holders /\ Counted' = Counted \cup {t} /\ t \notin Counted
      BY <2>2 DEF Count, Holders, Counted, Starting
    <3>2. Cardinality(Counted') = Cardinality(Counted) + 1
      BY <3>1, BooksFinite, FS_AddElement
    <3> QED BY <2>2, <3>1, <3>2, BooksFinite DEF Count, RefCounts
  <2>3. CASE Issue(t)
    <3>1. Holders' = Holders /\ Counted' = Counted \ {t} /\ t \in Counted
      BY <2>3 DEF Issue, Holders, Counted, Starting
    <3>2. Cardinality(Counted') = Cardinality(Counted) - 1
      BY <3>1, BooksFinite, FS_RemoveElement
    <3>3. Cardinality(pending') = Cardinality(pending) + 1
      BY <2>3, FS_AddElement DEF Issue, StartsAreNew, Starting
    <3> QED BY <2>3, <3>1, <3>2, <3>3, BooksFinite DEF Issue, RefCounts
  <2>4. CASE Dec(t)
    <3>1. Holders' = Holders \ {t} /\ t \in Holders /\ Counted' = Counted
      BY <2>4 DEF Dec, After, Holders, Counted, Starting
    <3>2. Cardinality(Holders') = Cardinality(Holders) - 1
      BY <3>1, BooksFinite, FS_RemoveElement
    <3> QED BY <2>4, <3>1, <3>2, BooksFinite DEF Dec, RefCounts
  <2>5. CASE ShutdownAtZero(t)
    <3>1. Holders' = Holders /\ Counted' = Counted
      BY <2>5 DEF ShutdownAtZero, Begin, Counting, After, Holders, Counted, Starting
    <3> QED BY <1>a, <2>5, <3>1 DEF ShutdownAtZero
  <2>6. CASE Delete(t)
    BY <1>b, <2>6 DEF Delete
  <2>7. CASE NextAccept(t)
    <3>1. Holders' = Holders /\ Counted' = Counted
      BY <2>7 DEF NextAccept, Holders, Counted, Starting
    <3> QED BY <1>a, <2>7, <3>1 DEF NextAccept
  <2> QED BY <1>3, <2>1, <2>2, <2>3, <2>4, <2>5, <2>6, <2>7 DEF LibraryStep
<1>4. ASSUME NEW t \in Threads, ReturnsOk(t) \/ ReturnsError(t) \/ CallClose(t)
      PROVE  RefCounts'
  <2>1. Holders' = Holders /\ Counted' = Counted
    BY <1>4 DEF ReturnsOk, ReturnsError, CallClose, Begin, Counting, Holders, Counted, Starting
  <2> QED BY <1>a, <1>4, <2>1 DEF ReturnsOk, ReturnsError, CallClose
<1>5. ASSUME NEW t \in Threads, NEW o \in OpNames, CallStart(t, o) PROVE RefCounts'
  <2>1. Holders' = Holders /\ Counted' = Counted
    BY <1>5 DEF CallStart, Begin, Counting, Holders, Counted, Starting
  <2> QED BY <1>a, <1>5, <2>1 DEF CallStart
<1>6. CASE UNCHANGED vars
  <2>1. Holders' = Holders /\ Counted' = Counted
    BY <1>6 DEF vars, Holders, Counted, Starting
  <2> QED BY <1>a, <1>6, <2>1 DEF vars
<1> QED BY <1>1, <1>2, <1>3, <1>4, <1>5, <1>6 DEF Next, CallbackReturns

(***************************************************************************)
(* The thread that counts down to zero is alone.                           *)
(***************************************************************************)
\* Nobody else is at work when ref_ reaches zero: the others would be counted,
\* and another thread that saw zero would have found this one at work.
LEMMA ZeroIsAlone ==
  ASSUME ContextInv, RefCounts', Shape', NEW t \in Threads, Dec(t), ref' = 0
  PROVE  /\ pending = {}
         /\ \A u \in Threads \ {t} : pc[u] \in {"idle", "next"}
<1> USE DEF Dec, Goto
<1>1. ~deleted
  BY DEF ContextInv, DeletedIsUnused
<1>2. Cardinality(pending') = 0 /\ Cardinality(Holders') = 0 /\ Cardinality(Counted') = 0
  <2>1. /\ Cardinality(pending') \in Nat
        /\ Cardinality(Holders') \in Nat
        /\ Cardinality(Counted') \in Nat
    <3>1. IsFiniteSet(Holders') /\ IsFiniteSet(Counted')
      BY ThreadsAssumption, FS_Subset DEF Holders, Counted
    <3> QED BY <3>1, FS_CardinalityType DEF Shape
  <2> QED BY <1>1, <2>1 DEF RefCounts
<1>3. pending' = {} /\ Holders' = {} /\ Counted' = {}
  <2>1. IsFiniteSet(pending') /\ IsFiniteSet(Holders') /\ IsFiniteSet(Counted')
    BY ThreadsAssumption, FS_Subset DEF Shape, Holders, Counted
  <2> QED BY <1>2, <2>1, FS_EmptySet
<1>4. ASSUME NEW u \in Threads \ {t} PROVE pc[u] \in {"idle", "next"}
  <2>1. pc'[u] = pc[u] /\ back'[u] = back[u]
    BY DEF ContextInv, Shape, locals
  <2>2. ~Last(u)
    BY DEF ContextInv, LastIsAlone
  <2>3. u \notin Holders'
    BY <1>3
  <2>4. pc[u] \in Labels
    BY DEF ContextInv, Shape
  <2> QED BY <2>1, <2>2, <2>3, <2>4 DEF Holders, Starting, Last, Labels
<1> QED BY <1>3, <1>4

\* Nothing joins the thread that saw zero, or comes back to a deleted context.
LEMMA AloneStep ==
  ASSUME "shutdown" \notin Calls, ContextInv, [Next]_vars, RefCounts', Shape'
  PROVE  DeletedIsUnused' /\ LastIsAlone'
<1>z. ASSUME NEW t \in Threads, Dec(t), ref' = 0
      PROVE  pending = {} /\ \A u \in Threads \ {t} : pc[u] \in {"idle", "next"}
  BY <1>z, ZeroIsAlone
<1> USE CallsAssumption
    DEF ContextInv, DeletedIsUnused, LastIsAlone, Last, Starting, Goto, flags, locals
<1>s. /\ pc \in [Threads -> Labels] /\ op \in [Threads -> OpNames]
      /\ back \in [Threads -> {"callback", "dec", "idle", "next"}]
  BY DEF Shape
<1>1. ASSUME NEW p \in pending, AcceptFails(p) PROVE DeletedIsUnused' /\ LastIsAlone'
  BY <1>1 DEF AcceptFails, FirstIsAlone
<1>2. ASSUME NEW p \in pending, NEW t \in Threads, Completes(t, p)
      PROVE  DeletedIsUnused' /\ LastIsAlone'
  BY <1>s, <1>2 DEF Completes
<1>3. ASSUME NEW t \in Threads, LibraryStep(t) PROVE DeletedIsUnused' /\ LastIsAlone'
  <2>1. CASE SetShutdownFlag(t)
    BY <1>s, <2>1 DEF SetShutdownFlag
  <2>2. CASE Count(t)
    BY <1>s, <2>2 DEF Count
  <2>3. CASE Issue(t)
    BY <1>s, <2>3 DEF Issue
  <2>4. CASE Dec(t)
    <3>1. CASE ref' = 0
      <4>1. pending' = {} /\ ~deleted'
        BY <2>4, <3>1, <1>z DEF Dec
      <4>2. \A u \in Threads \ {t} : pc[u] \in {"idle", "next"} /\ pc'[u] = pc[u] /\ back'[u] = back[u]
        BY <1>s, <2>4, <3>1, <1>z DEF Dec
      <4> QED BY <4>1, <4>2
    <3>2. CASE ref' # 0
      BY <1>s, <2>4, <3>2 DEF Dec, After
    <3> QED BY <3>1, <3>2
  <2>5. CASE ShutdownAtZero(t)
    BY <1>s, <2>5 DEF ShutdownAtZero, Begin, Counting, After
  <2>6. CASE Delete(t)
    BY <1>s, <2>6 DEF Delete, After
  <2>7. CASE NextAccept(t)
    BY <1>s, <2>7 DEF NextAccept
  <2> QED BY <1>3, <2>1, <2>2, <2>3, <2>4, <2>5, <2>6, <2>7 DEF LibraryStep
<1>4. ASSUME NEW t \in Threads, ReturnsOk(t) \/ ReturnsError(t) \/ CallClose(t)
      PROVE  DeletedIsUnused' /\ LastIsAlone'
  BY <1>s, <1>4 DEF ReturnsOk, ReturnsError, CallClose, Begin, Counting
<1>5. ASSUME NEW t \in Threads, NEW o \in OpNames, CallStart(t, o)
      PROVE  DeletedIsUnused' /\ LastIsAlone'
  BY <1>s, <1>5 DEF CallStart, Begin, Counting
<1>6. CASE UNCHANGED vars
  BY <1>6 DEF vars
<1> QED BY <1>1, <1>2, <1>3, <1>4, <1>5, <1>6 DEF Next, CallbackReturns

-----------------------------------------------------------------------------
\* startHTTP, startHTTPS and connect leave one counted operation behind.
LEMMA ContextInit == Init => ContextInv
<1> SUFFICES ASSUME Init PROVE ContextInv
  OBVIOUS
<1>1. PICK t \in Threads : pending = {<< First, t >>}
  BY DEF Init
<1>2. First \in {"accept", "connect"} /\ First \in OpNames
  BY DEF First, OpNames
<1>3. IsFiniteSet(pending) /\ Cardinality(pending) = 1
  BY <1>1, FS_Singleton
<1>4. Shape
  <2>1. pending \subseteq OpNames \X Threads
    BY <1>1, <1>2
  <2>2. op \in [Threads -> OpNames] /\ new \in [Threads -> OpNames]
    BY <1>2 DEF Init
  <2>3. accepting \in BOOLEAN
    BY DEF Init, IsServer
  <2>4. pc \in [Threads -> Labels] /\ started \in 0 .. MaxStarts
    BY StartsAssumption DEF Init, Labels
  <2>5. back \in [Threads -> {"callback", "dec", "idle", "next"}]
    BY DEF Init
  <2>6. reject \in [Threads -> BOOLEAN]
    BY DEF Init
  <2>7. ref \in Int
    BY DEF Init
  <2>8. close_flag = FALSE /\ shutdown_flag = FALSE /\ deleted = FALSE
    BY DEF Init
  <2> QED BY <1>3, <2>1, <2>2, <2>3, <2>4, <2>5, <2>6, <2>7, <2>8 DEF Shape
<1>5. FirstIsAlone /\ StartsAreNew /\ DeletedIsUnused /\ LastIsAlone
  BY <1>1 DEF Init, FirstIsAlone, StartsAreNew, DeletedIsUnused, LastIsAlone, Last, Starting
<1>6. Holders = {} /\ Counted = {}
  BY DEF Init, Holders, Counted, Starting
<1>7. RefCounts
  BY <1>3, <1>6, FS_EmptySet DEF Init, RefCounts
<1> QED BY <1>4, <1>5, <1>7 DEF ContextInv

\* The step lemmas together.
LEMMA ContextStep ==
  ASSUME "shutdown" \notin Calls, ContextInv, [Next]_vars
  PROVE  ContextInv'
BY ShapeStep, FirstStep, StartsStep, CountStep, AloneStep DEF ContextInv

\* The reference count of a connection is right in every state.
THEOREM RefCountCorrect ==
  ASSUME "shutdown" \notin Calls PROVE Spec => []RefCounts
<1>1. ContextInv => RefCounts
  BY DEF ContextInv
<1> QED BY <1>1, ContextInit, ContextStep, PTL DEF Spec

\* A deleted context is never touched again.
THEOREM DeletedIsUnusedCorrect ==
  ASSUME "shutdown" \notin Calls PROVE Spec => []DeletedIsUnused
<1>1. ContextInv => DeletedIsUnused
  BY DEF ContextInv
<1> QED BY <1>1, ContextInit, ContextStep, PTL DEF Spec

\* The thread that shuts down or deletes a connection is alone with it.
THEOREM LastIsAloneCorrect ==
  ASSUME "shutdown" \notin Calls PROVE Spec => []LastIsAlone
<1>1. ContextInv => LastIsAlone
  BY DEF ContextInv
<1> QED BY <1>1, ContextInit, ContextStep, PTL DEF Spec

\* A thread in CheckAndDelete() still holds its own reference.
LEMMA OwnReference ==
  ASSUME ContextInv, NEW t \in Threads, pc[t] = "dec"
  PROVE  ref >= 1
<1>1. ~deleted
  BY DEF ContextInv, DeletedIsUnused
<1>2. t \in Holders
  BY DEF Holders
<1>3. Cardinality(Holders) # 0
  BY <1>2, BooksFinite, FS_EmptySet DEF ContextInv
<1> QED BY <1>1, <1>3, BooksFinite DEF ContextInv, RefCounts

\* The decrement of CheckAndDelete() is the only one, so ref_ stays a natural
\* number, also in a context that was deleted.
LEMMA CountNatural ==
  ASSUME ContextInv, ref \in Nat, [Next]_vars
  PROVE  ref' \in Nat
<1> USE DEF flags, locals
<1>1. ASSUME NEW t \in Threads, LibraryStep(t) PROVE ref' \in Nat
  <2>1. CASE Dec(t)
    BY <2>1, OwnReference DEF Dec
  <2>2. CASE ~Dec(t)
    BY <1>1, <2>2
       DEF LibraryStep, SetShutdownFlag, Count, Issue, ShutdownAtZero, Delete, NextAccept
  <2> QED BY <2>1, <2>2
<1>2. ASSUME NEW p \in pending, AcceptFails(p) \/ \E t \in Threads : Completes(t, p)
      PROVE  ref' \in Nat
  BY <1>2 DEF AcceptFails, Completes
<1>3. ASSUME NEW t \in Threads, \/ CallbackReturns(t) \/ CallClose(t)
                                \/ \E o \in OpNames : CallStart(t, o)
      PROVE  ref' \in Nat
  BY <1>3 DEF CallbackReturns, ReturnsOk, ReturnsError, CallClose, CallStart
<1> QED BY <1>1, <1>2, <1>3 DEF Next, vars

\* Every variable keeps its type; ref_ never goes below zero.
THEOREM TypeCorrect ==
  ASSUME "shutdown" \notin Calls PROVE Spec => []TypeOK
<1>1. Init => ref \in Nat
  BY DEF Init
<1>2. ContextInv /\ ref \in Nat => TypeOK
  BY DEF ContextInv, Shape, TypeOK
<1>3. (ContextInv /\ ref \in Nat) /\ [Next]_vars => (ContextInv /\ ref \in Nat)'
  BY ContextStep, CountNatural
<1> QED BY <1>1, <1>2, <1>3, ContextInit, PTL DEF Spec

\* The assertion in CheckAndDelete() never fails in a program that leaves the
\* shutdown of the session to the library.
THEOREM AssertCorrect ==
  ASSUME "shutdown" \notin Calls PROVE Spec => []AssertHolds
<1>1. ContextInv => AssertHolds
  BY OwnReference DEF AssertHolds
<1> QED BY <1>1, ContextInit, ContextStep, PTL DEF Spec
=============================================================================
