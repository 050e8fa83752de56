-------------------------- MODULE FiberServerProofs --------------------------
(***************************************************************************)
(* Theorems about FiberServer, for any number of threads, accepted and     *)
(* outgoing connections and any number of calls on each.                   *)
(***************************************************************************)
EXTENDS FiberServer, TLAPS

(***************************************************************************)
(* The inductive invariant.  invoker_ and the target of a switch are the   *)
(* two ends of one link; only the acceptor's fiber switches to another, so *)
(* that a thread executes its own context, a fiber it switched to, or one  *)
(* the acceptor switched to on this thread.                                *)
(***************************************************************************)
\* The fiber's end of the link.
Invoked ==
    \A f \in Fibers :
       IF invoker[f] = Nobody
         THEN pc[f] \in {"none", "made", "asleep"}
         ELSE \/ pc[f] = "freed"
              \/ /\ pc[f] \in {"run", "yield", "asleep", "switch", "inside"}
                 /\ pc[invoker[f]] = "inside"
                 /\ target[invoker[f]] = f

\* The other end of the link.
Invoking ==
    \A c \in Contexts : pc[c] = "inside" => invoker[target[c]] = c /\ pc[target[c]] # "freed"

\* Threads and fibers have labels of their own; of the fibers only the
\* acceptor's switches, to a connection that it just made.
Nesting ==
    /\ \A t \in Threads : pc[t] \in ThreadLabels
    /\ \A f \in Fibers :
         /\ pc[f] \in FiberLabels \ {"refused"}
         /\ pc[f] \in {"switch", "inside"} => f = Acceptor /\ target[f] \in Servers
         /\ pc[f] = "switch" => pc[target[f]] = "made"

\* The context a thread executes is its own or hangs on it, and what it
\* switched to has come back.
Executing ==
    \A t \in Threads :
       /\ on[t] \in Threads => on[t] = t
       /\ on[t] \in Fibers =>
            /\ pc[on[t]] \in {"run", "yield", "switch", "inside"}
            /\ \/ invoker[on[t]] = t
               \/ invoker[on[t]] = Acceptor /\ invoker[Acceptor] = t
       /\ pc[on[t]] = "inside" => pc[target[on[t]]] = "asleep"

\* At most one completion is on its way to a fiber, queued or held by a thread
\* that is about to switch; a connection just made expects none.
Aims(t) == pc[t] \in {"switch", "refused"}

OneCompletion ==
    /\ \A t \in Threads : Aims(t) => op[target[t]] = "none"
    /\ \A t, u \in Threads : Aims(t) /\ Aims(u) /\ target[t] = target[u] => t = u
    /\ \A f \in Servers : pc[f] = "made" => ~Expected(f)

\* A fiber that has not ended, and may run without a completion, has its
\* object; only a routine's end lets it go.
Alive ==
    \A f \in Fibers :
       /\ pc[f] = "none" => ~free_flag[f]
       /\ pc[f] \in {"made", "run", "switch", "inside"} => stream[f] /\ ~free_flag[f]

FiberInv ==
    /\ TypeOK
    /\ Invoked /\ Invoking /\ Nesting /\ Executing
    /\ OneCompletion /\ CompletionFindsFiber /\ Alive

-----------------------------------------------------------------------------
\* A fiber and a thread are different things, and neither is Nobody.
LEMMA Kinds ==
    /\ \A f \in Fibers : f # Nobody /\ f \notin Threads /\ f \in Contexts
    /\ \A t \in Threads : t # Nobody /\ t \notin Fibers /\ t \in Contexts
    /\ \A c \in Contexts : c \in Threads \/ c \in Fibers
    /\ Acceptor \in Fibers /\ Acceptor \notin Servers /\ Servers \subseteq Fibers
    /\ Clients \subseteq Fibers /\ Acceptor \notin Clients /\ Acceptor \notin Threads
    BY ContextsAssumption DEF Contexts, Fibers

\* A fiber that a thread executes was switched to, and a context is executed
\* by one thread only.
LEMMA Alone ==
    ASSUME FiberInv
    PROVE  /\ \A t \in Threads : on[t] \in Fibers => invoker[on[t]] # Nobody
           /\ \A t, u \in Threads : on[t] = on[u] => t = u
<1>1. \A t \in Threads : on[t] \in Contexts
    BY DEF FiberInv, TypeOK
<1> QED
    BY <1>1, Kinds DEF FiberInv, Executing

\* The initial state.
LEMMA FiberInit == Init => FiberInv
<1> SUFFICES ASSUME Init PROVE FiberInv
    OBVIOUS
<1> USE Kinds, CallsAssumption DEF Init
<1>1. TypeOK
  <2>1. pc \in [Contexts -> ThreadLabels \cup FiberLabels]
    BY DEF ThreadLabels, FiberLabels
  <2>2. on \in [Threads -> Contexts]
    OBVIOUS
  <2>3. \A c \in Contexts : pc[c] \notin {"switch", "inside", "refused"}
    OBVIOUS
  <2> QED
    BY <2>1, <2>2, <2>3 DEF TypeOK
<1>2. Invoked /\ Invoking
    BY DEF Invoked, Invoking
<1>3. Nesting /\ Executing
    BY DEF Nesting, Executing, ThreadLabels, FiberLabels
<1>4. OneCompletion /\ CompletionFindsFiber /\ Alive
    BY DEF OneCompletion, CompletionFindsFiber, Alive, Aims, Expected
<1> QED
    BY <1>1, <1>2, <1>3, <1>4 DEF FiberInv

-----------------------------------------------------------------------------
\* The compare-and-swap in zwitch(): it succeeds for a fiber that was made or
\* has yielded, and only then is the fiber linked to who switches to it.  A
\* thread that is refused keeps the completion.
LEMMA ZwitchStep ==
    ASSUME FiberInv, NEW t \in Threads, Zwitch(t)
    PROVE  FiberInv'
<1> USE Kinds DEF FiberInv
<1>a. PICK c \in Contexts, f \in Fibers : c = on[t] /\ f = target[c]
    BY DEF TypeOK, Zwitch, At
<1>1. /\ pc[c] = "switch"
      /\ c \in Threads => c = t
      /\ c \in Fibers => c = Acceptor /\ pc[f] = "made" /\ f \in Servers
    BY <1>a DEF Zwitch, At, Executing, Nesting
<1>2. UNCHANGED << target, free_flag, op, stream, closed, calls, accept_ec >>
    BY DEF Zwitch, objects
<1>3. CASE invoker[f] = Nobody
  <2>1. /\ pc[f] \in {"made", "asleep"} /\ f # c
        /\ invoker' = [invoker EXCEPT ![f] = c]
        /\ on' = [on EXCEPT ![t] = f]
        /\ pc' = [pc EXCEPT ![c] = "inside", ![f] = "run"]
    BY <1>1, <1>3, <1>a DEF Zwitch, Invoked, CompletionFindsFiber, Expected
  <2>2. /\ \A d \in Contexts : d # c /\ d # f => pc'[d] = pc[d]
        /\ pc'[c] = "inside" /\ pc'[f] = "run"
        /\ \A g \in Fibers : g # f => invoker'[g] = invoker[g]
        /\ invoker'[f] = c
        /\ \A u \in Threads : u # t => on'[u] = on[u]
        /\ on'[t] = f
    BY <1>1, <2>1 DEF TypeOK
  <2>3. TypeOK'
    <3>1. pc' \in [Contexts -> ThreadLabels \cup FiberLabels]
      BY <1>1, <2>1 DEF TypeOK, ThreadLabels, FiberLabels
    <3>2. on' \in [Threads -> Contexts] /\ invoker' \in [Fibers -> Contexts \cup {Nobody}]
      BY <1>1, <2>1 DEF TypeOK
    <3> QED
      BY <1>1, <1>2, <2>2, <1>a, <3>1, <3>2 DEF TypeOK
  <2>4. Invoked' /\ Invoking'
    BY <1>1, <1>2, <1>3, <2>1, <2>2, <1>a DEF TypeOK, Invoked, Invoking
  <2>5. \A g \in Servers : pc[g] = "made" /\ c \in Threads => g # f
    BY <1>1, <1>a DEF OneCompletion, Expected
  <2>6. Nesting'
    <3>1. \A u \in Threads : pc'[u] \in ThreadLabels
      BY <1>1, <2>1, <2>2 DEF Nesting, ThreadLabels
    <3>2. ASSUME NEW g \in Fibers, g # c, g # f, pc[g] = "switch" PROVE pc'[target[g]] = "made"
      <4>1. c \in Threads /\ target[g] \in Servers /\ pc[target[g]] = "made"
        BY <1>1, <3>2 DEF Nesting
      <4>2. target[g] # c /\ target[g] # f /\ target[g] \in Contexts
        BY <1>1, <2>5, <4>1
      <4> QED
        BY <2>2, <4>1, <4>2
    <3>3. ASSUME NEW g \in Fibers
          PROVE  /\ pc'[g] \in FiberLabels \ {"refused"}
                 /\ pc'[g] \in {"switch", "inside"} => g = Acceptor /\ target[g] \in Servers
                 /\ pc'[g] = "switch" => pc'[target[g]] = "made"
      <4>1. CASE g = c
        BY <1>1, <1>a, <2>2, <4>1 DEF FiberLabels
      <4>2. CASE g = f
        BY <2>2, <4>2 DEF FiberLabels
      <4>3. CASE g # c /\ g # f
        BY <2>2, <3>2, <4>3 DEF Nesting
      <4> QED
        BY <4>1, <4>2, <4>3
    <3> QED
      BY <1>2, <3>1, <3>3 DEF Nesting
  <2>7. Executing'
    <3>1. ASSUME NEW u \in Threads, u # t PROVE on[u] # f /\ on[u] # c /\ on[u] \in Contexts
      BY <1>1, <1>3, <1>a, <3>1, Alone DEF TypeOK
    <3>2. ASSUME NEW u \in Threads, u # t, pc[on[u]] = "inside"
          PROVE  target[on[u]] # f /\ target[on[u]] # c /\ target[on[u]] \in Contexts
      BY <1>1, <1>3, <3>1, <3>2 DEF TypeOK, Invoking, Executing
    <3>3. c \in Fibers => invoker[c] = t
      BY <1>1, <1>a DEF Executing, Nesting, Invoked
    <3> QED
      <4>1. ASSUME NEW u \in Threads, u # t
            PROVE  /\ on[u] \in Threads => on[u] = u
                   /\ on[u] \in Fibers =>
                        /\ pc'[on[u]] \in {"run", "yield", "switch", "inside"}
                        /\ \/ invoker'[on[u]] = u
                           \/ invoker'[on[u]] = Acceptor /\ invoker'[Acceptor] = u
                   /\ pc'[on[u]] = "inside" => pc'[target[on[u]]] = "asleep"
        BY <1>3, <2>2, <3>1, <3>2, <4>1 DEF Executing
      <4>2. invoker'[f] = t \/ (invoker'[f] = Acceptor /\ invoker'[Acceptor] = t)
        BY <1>1, <2>2, <3>3
      <4> QED
        BY <1>2, <2>2, <4>1, <4>2 DEF Executing
  <2>8. OneCompletion' /\ CompletionFindsFiber'
    <3>1. \A u \in Threads : pc'[u] \in {"switch", "refused"} => pc[u] \in {"switch", "refused"} /\ u # c
      BY <1>1, <2>1, <2>2
    <3>2. ~Expected(f)'
      <4>1. op[f] = "none" /\ \A u \in Threads : pc[u] \in {"switch", "refused"} /\ target[u] = f => u = c
        BY <1>1, <1>a DEF OneCompletion, Aims, Expected
      <4> QED
        BY <1>2, <3>1, <4>1 DEF Expected
    <3>3. \A g \in Fibers : Expected(g)' => Expected(g) /\ g # f
      BY <1>2, <3>1, <3>2 DEF Expected
    <3>4. OneCompletion'
      BY <1>2, <2>2, <3>1, <3>3 DEF OneCompletion, Aims
    <3>5. \A g \in Fibers : Expected(g) => g # c
      BY <1>1 DEF CompletionFindsFiber
    <3> QED
      BY <1>2, <2>2, <3>3, <3>4, <3>5 DEF CompletionFindsFiber
  <2>9. Alive'
    <3>1. stream[f] /\ ~free_flag[f]
      BY <1>1, <1>a DEF Alive, CompletionFindsFiber, Expected
    <3> QED
      BY <1>1, <1>2, <2>2, <3>1 DEF Alive
  <2> QED
    BY <2>3, <2>4, <2>6, <2>7, <2>8, <2>9
<1>4. CASE invoker[f] # Nobody
  <2>1. c \in Threads /\ c = t
    BY <1>1, <1>4, <1>a DEF Invoked
  <2>2. UNCHANGED << on, invoker >> /\ pc' = [pc EXCEPT ![c] = "refused"]
    BY <1>4, <1>a DEF Zwitch, Goto
  <2>3. /\ \A d \in Contexts : d # c => pc'[d] = pc[d]
        /\ pc'[c] = "refused"
    BY <1>1, <2>2 DEF TypeOK
  <2>4. TypeOK'
    <3>1. pc' \in [Contexts -> ThreadLabels \cup FiberLabels]
      BY <2>2 DEF TypeOK, ThreadLabels
    <3> QED
      BY <1>1, <1>2, <2>2, <2>3, <1>a, <3>1 DEF TypeOK
  <2>5. Invoked' /\ Invoking'
    BY <1>1, <1>2, <2>1, <2>2, <2>3 DEF TypeOK, Invoked, Invoking
  <2>6. Nesting'
    BY <1>2, <2>1, <2>3 DEF Nesting, ThreadLabels
  <2>7. Executing'
    BY <1>1, <1>2, <2>1, <2>2, <2>3, Alone DEF TypeOK, Invoked, Executing
  <2>8. OneCompletion' /\ CompletionFindsFiber'
    BY <1>1, <1>2, <2>1, <2>3 DEF OneCompletion, Aims, CompletionFindsFiber, Expected
  <2>9. Alive'
    BY <1>2, <2>1, <2>3 DEF Alive
  <2> QED
    BY <2>4, <2>5, <2>6, <2>7, <2>8, <2>9
<1> QED
    BY <1>3, <1>4

\* A step that starts no operation and completes none: whoever expects a
\* completion goes on doing so, and is still there.
LEMMA CompletionFrame ==
    ASSUME FiberInv, op' = op,
           \A t \in Threads : /\ Aims(t)' <=> Aims(t)
                              /\ Aims(t) => target'[t] = target[t],
           \A f \in Fibers : pc'[f] = "made" => pc[f] = "made",
           \A f \in Fibers : Expected(f) => /\ stream'[f] /\ ~free_flag'[f]
                                            /\ pc'[f] \in {"made", "yield", "asleep"}
    PROVE  OneCompletion' /\ CompletionFindsFiber'
<1>1. \A f \in Fibers : Expected(f)' => Expected(f)
    BY DEF Expected, Aims
<1>2. OneCompletion'
    BY <1>1, Kinds DEF FiberInv, OneCompletion
<1> QED
    BY <1>1, <1>2 DEF CompletionFindsFiber

\* yield() in a fiber that runs: the thread goes back to whoever switched to
\* it, on whose stack it still is.
LEMMA YieldStep ==
    ASSUME FiberInv, NEW t \in Threads, Yield(t)
    PROVE  FiberInv'
<1> USE Kinds DEF FiberInv
<1>1. PICK f \in Fibers : f = on[t] /\ pc[f] = "yield"
    BY DEF Yield, At
<1>2. PICK c \in Contexts : c = invoker[f] /\ c # Nobody
    BY <1>1, Alone DEF TypeOK
<1>3. /\ UNCHANGED << target, invoker, free_flag, op, stream, closed, calls, accept_ec >>
      /\ on' = [on EXCEPT ![t] = c]
      /\ pc' = [pc EXCEPT ![f] = "asleep"]
    BY <1>1, <1>2 DEF Yield, Goto, fibers, objects
<1>4. /\ pc[c] = "inside" /\ target[c] = f /\ c # f
      /\ \/ c = t
         \/ c = Acceptor /\ invoker[Acceptor] = t
    BY <1>1, <1>2 DEF Invoked, Executing
<1>5. /\ \A d \in Contexts : d # f => pc'[d] = pc[d]
      /\ pc'[f] = "asleep"
      /\ \A u \in Threads : u # t => on'[u] = on[u]
      /\ on'[t] = c
    BY <1>1, <1>3 DEF TypeOK
<1>6. TypeOK'
  <2>1. pc' \in [Contexts -> ThreadLabels \cup FiberLabels]
    BY <1>3 DEF TypeOK, FiberLabels
  <2>2. on' \in [Threads -> Contexts]
    BY <1>3 DEF TypeOK
  <2> QED
    BY <1>3, <1>5, <2>1, <2>2 DEF TypeOK
<1>7. Invoked' /\ Invoking'
    BY <1>1, <1>2, <1>3, <1>4, <1>5 DEF TypeOK, Invoked, Invoking
<1>8. Nesting'
  <2>1. \A g \in Fibers : pc[g] = "switch" => target[g] # f /\ target[g] \in Contexts
    BY <1>1 DEF Nesting
  <2> QED
    BY <1>3, <1>5, <2>1 DEF Nesting, FiberLabels
<1>9. Executing'
  <2>1. ASSUME NEW u \in Threads, u # t PROVE on[u] # f /\ on[u] \in Contexts
    BY <1>1, <2>1, Alone DEF TypeOK
  <2>2. ASSUME NEW u \in Threads, u # t, pc[on[u]] = "inside"
        PROVE  target[on[u]] # f /\ target[on[u]] \in Contexts
    BY <1>1, <2>1, <2>2 DEF TypeOK, Executing
  <2> QED
    BY <1>3, <1>4, <1>5, <2>1, <2>2 DEF Executing
<1>10. OneCompletion' /\ CompletionFindsFiber'
    BY <1>1, <1>3, <1>5, CompletionFrame DEF Aims, CompletionFindsFiber
<1>11. Alive'
    BY <1>3, <1>5 DEF Alive
<1> QED
    BY <1>6, <1>7, <1>8, <1>9, <1>10, <1>11

\* zwitch() after switch_fiber(): the fiber has yielded, so the link can be
\* cut, or the fiber be freed if its routine is over.
LEMMA ReleaseStep ==
    ASSUME FiberInv, NEW t \in Threads, Release(t)
    PROVE  FiberInv'
<1> USE Kinds DEF FiberInv
<1>1. PICK c \in Contexts, f \in Fibers : c = on[t] /\ f = target[c] /\ pc[c] = "inside"
    BY DEF TypeOK, Release, At
<1>2. /\ invoker[f] = c /\ pc[f] = "asleep"
      /\ c \in Threads => c = t
      /\ c \in Fibers => c = Acceptor /\ f \in Servers
    BY <1>1 DEF Invoking, Executing, Nesting
<1>3. /\ UNCHANGED << on, free_flag, op, stream, closed, calls, accept_ec >>
      /\ IF free_flag[f]
           THEN pc' = [pc EXCEPT ![f] = "freed", ![c] = Resumed(c)] /\ UNCHANGED invoker
           ELSE pc' = [pc EXCEPT ![c] = Resumed(c)] /\ invoker' = [invoker EXCEPT ![f] = Nobody]
      /\ target' = IF c \in Threads THEN [target EXCEPT ![c] = Nobody] ELSE target
    BY <1>1 DEF Release, Forget, Goto, objects
<1>4. /\ \A d \in Contexts : d # c /\ d # f => pc'[d] = pc[d]
      /\ pc'[c] = Resumed(c)
      /\ pc'[f] = IF free_flag[f] THEN "freed" ELSE "asleep"
      /\ \A g \in Fibers : g # f => invoker'[g] = invoker[g]
      /\ invoker'[f] = IF free_flag[f] THEN c ELSE Nobody
      /\ \A d \in Contexts : d # c => target'[d] = target[d]
      /\ c \in Fibers => target'[c] = target[c]
    BY <1>1, <1>2, <1>3 DEF TypeOK
<1>5. Resumed(c) \in {"idle", "run"} /\ (c \in Fibers <=> Resumed(c) = "run")
    BY DEF Resumed
<1>6. TypeOK'
  <2>1. pc' \in [Contexts -> ThreadLabels \cup FiberLabels]
    BY <1>3, <1>5 DEF TypeOK, ThreadLabels, FiberLabels
  <2>2. /\ invoker' \in [Fibers -> Contexts \cup {Nobody}]
        /\ target' \in [Contexts -> Fibers \cup {Nobody}]
    BY <1>3 DEF TypeOK
  <2>3. target'[Acceptor] = target[Acceptor]
    BY <1>4
  <2>4. \A d \in Contexts : pc'[d] \in {"switch", "inside", "refused"} => target'[d] \in Fibers
    BY <1>4, <1>5 DEF TypeOK
  <2> QED
    BY <1>3, <2>1, <2>2, <2>3, <2>4 DEF TypeOK
<1>7. Invoked'
  <2> SUFFICES ASSUME NEW g \in Fibers
               PROVE  IF invoker'[g] = Nobody
                        THEN pc'[g] \in {"none", "made", "asleep"}
                        ELSE \/ pc'[g] = "freed"
                             \/ /\ pc'[g] \in {"run", "yield", "asleep", "switch", "inside"}
                                /\ pc'[invoker'[g]] = "inside"
                                /\ target'[invoker'[g]] = g
    BY DEF Invoked
  <2>1. CASE g = f
    BY <1>4, <2>1
  <2>2. CASE g # f
    <3>1. g # c => pc'[g] = pc[g]
      BY <1>4, <2>2
    <3>2. pc[g] # "freed" /\ invoker[g] # Nobody => /\ invoker[g] \in Contexts /\ invoker[g] # c
                                                    /\ invoker[g] # f
      BY <1>1, <1>2, <2>2 DEF TypeOK, Invoked
    <3>3. c \in Fibers => invoker[c] # Nobody
      BY <1>1, Alone
    <3> QED
      BY <1>1, <1>4, <1>5, <2>2, <3>1, <3>2, <3>3 DEF Invoked
  <2> QED
    BY <2>1, <2>2
<1>8. Invoking'
  <2>1. ASSUME NEW d \in Contexts, pc[d] = "inside", d # c
        PROVE  target[d] \in Fibers /\ target[d] # f
    BY <1>2, <2>1 DEF TypeOK, Invoking
  <2> QED
    BY <1>2, <1>4, <1>5, <2>1 DEF Invoking
<1>9. Nesting'
  <2>1. \A g \in Fibers : pc[g] = "switch" => target[g] # f /\ target[g] # c /\ target[g] \in Contexts
    BY <1>1, <1>2 DEF Nesting
  <2>2. \A u \in Threads : pc'[u] \in ThreadLabels
    BY <1>4, <1>5 DEF Nesting, ThreadLabels
  <2> QED
    BY <1>2, <1>4, <1>5, <2>1, <2>2 DEF Nesting, FiberLabels
<1>10. Executing'
  <2>1. ASSUME NEW u \in Threads, u # t PROVE on[u] # f /\ on[u] # c /\ on[u] \in Contexts
    BY <1>1, <1>2, <2>1, Alone DEF TypeOK, Executing
  <2>2. ASSUME NEW u \in Threads, u # t, pc[on[u]] = "inside"
        PROVE  target[on[u]] # f /\ target[on[u]] # c /\ target[on[u]] \in Contexts
    BY <1>1, <1>2, <2>1, <2>2 DEF TypeOK, Invoking, Executing
  <2>3. ASSUME NEW u \in Threads, on[u] \in Fibers, invoker[on[u]] = Acceptor PROVE Acceptor # f
    BY <1>2, <2>3 DEF Executing, Invoked
  <2> QED
    BY <1>1, <1>2, <1>3, <1>4, <1>5, <2>1, <2>2, <2>3 DEF Executing
<1>11. OneCompletion' /\ CompletionFindsFiber'
  <2>1. \A u \in Threads : Aims(u)' <=> Aims(u)
    BY <1>1, <1>4, <1>5 DEF Aims
  <2>2. \A u \in Threads : Aims(u) => target'[u] = target[u]
    BY <1>1, <1>4 DEF Aims
  <2>3. \A g \in Fibers : Expected(g) => g # c /\ (g = f => ~free_flag[f])
    BY <1>1 DEF CompletionFindsFiber
  <2> QED
    BY <1>2, <1>3, <1>4, <1>5, <2>1, <2>2, <2>3, CompletionFrame DEF CompletionFindsFiber
<1>12. Alive'
    BY <1>1, <1>2, <1>3, <1>4, <1>5 DEF Alive
<1> QED
    BY <1>6, <1>7, <1>8, <1>9, <1>10, <1>11, <1>12

\* A step of the routine that thread t executes: only the position of its own
\* fiber changes, and the acceptor's may make a connection.  No link is touched.
LEMMA RoutineFrame ==
    ASSUME FiberInv, NEW t \in Threads, NEW f \in Fibers, f = on[t], pc[f] = "run",
           UNCHANGED << on, invoker >>,
           \A d \in Contexts : d # f => /\ target'[d] = target[d]
                                        /\ pc'[d] = pc[d] \/ (pc[d] = "none" /\ pc'[d] = "made"),
           pc'[f] \in {"run", "yield", "switch"},
           pc'[f] = "switch" => /\ f = Acceptor /\ target'[f] \in Servers
                                /\ pc'[target'[f]] = "made"
    PROVE  Invoked' /\ Invoking' /\ Nesting' /\ Executing'
<1> USE Kinds DEF FiberInv
<1>1. \A d \in Contexts : pc[d] # "none" /\ d # f => pc'[d] = pc[d]
    OBVIOUS
<1>2. \A u \in Threads : pc'[u] = pc[u] /\ pc[u] \in ThreadLabels
    BY <1>1 DEF Nesting, ThreadLabels
<1>3. Invoked'
  <2>1. invoker[f] # Nobody
    BY Alone
  <2>2. \A g \in Fibers : pc[invoker[g]] = "inside" /\ invoker[g] # Nobody
            => pc'[invoker[g]] = "inside" /\ target'[invoker[g]] = target[invoker[g]]
    BY <1>1 DEF TypeOK
  <2> QED
    BY <1>1, <2>1, <2>2 DEF Invoked
<1>4. Invoking'
  <2>1. ASSUME NEW c \in Contexts, pc'[c] = "inside"
        PROVE  c # f /\ pc[c] = "inside" /\ target'[c] = target[c] /\ target[c] \in Fibers
    BY <2>1 DEF TypeOK
  <2> QED
    BY <1>1, <2>1 DEF Invoking
<1>5. Nesting'
  <2>1. ASSUME NEW g \in Fibers, g # f
        PROVE  /\ pc'[g] \in FiberLabels \ {"refused"}
               /\ pc'[g] \in {"switch", "inside"} => g = Acceptor /\ target'[g] \in Servers
               /\ pc'[g] = "switch" => pc'[target'[g]] = "made"
    BY <1>1, <2>1 DEF Nesting, FiberLabels
  <2> QED
    BY <1>2, <2>1 DEF Nesting, FiberLabels
<1>6. Executing'
  <2>1. ASSUME NEW u \in Threads, u # t
        PROVE  on[u] # f /\ on[u] \in Contexts /\ pc'[on[u]] = pc[on[u]]
    <3>1. on[u] # f /\ on[u] \in Contexts
      BY <2>1, Alone DEF TypeOK
    <3>2. pc[on[u]] # "none"
      BY <1>2, <3>1 DEF Executing, ThreadLabels
    <3> QED
      BY <1>1, <3>1, <3>2
  <2>2. ASSUME NEW u \in Threads, u # t, pc[on[u]] = "inside"
        PROVE  target'[on[u]] = target[on[u]] /\ pc'[target[on[u]]] = "asleep"
    BY <1>1, <2>1, <2>2 DEF TypeOK, Executing
  <2> QED
    BY <2>1, <2>2 DEF Executing
<1> QED
    BY <1>3, <1>4, <1>5, <1>6

\* Call and Shutdown start an operation of the fiber that runs, which expects
\* none, and go on to yield.
LEMMA StartStep ==
    ASSUME FiberInv, NEW t \in Threads, At(t, Servers \cup Clients, "run"), Start(on[t]),
           UNCHANGED << on, target, fibers, stream, accept_ec >>,
           closed' \in [Fibers -> BOOLEAN], calls' \in [Fibers -> 0 .. MaxCalls]
    PROVE  FiberInv'
<1> USE Kinds DEF FiberInv
<1>1. PICK f \in Fibers : f = on[t] /\ pc[f] = "run" /\ f # Acceptor
    BY ContextsAssumption DEF At
<1>2. /\ op' = [op EXCEPT ![f] = "started"]
      /\ pc' = [pc EXCEPT ![f] = "yield"]
      /\ UNCHANGED << on, target, invoker, free_flag, stream, accept_ec >>
    BY <1>1 DEF Start, Goto, fibers
<1>3. /\ \A d \in Contexts : d # f => pc'[d] = pc[d]
      /\ pc'[f] = "yield"
      /\ \A g \in Fibers : g # f => op'[g] = op[g]
      /\ op'[f] = "started"
    BY <1>1, <1>2 DEF TypeOK
<1>4. TypeOK'
  <2>1. pc' \in [Contexts -> ThreadLabels \cup FiberLabels]
    BY <1>2 DEF TypeOK, FiberLabels
  <2>2. op' \in [Fibers -> {"none", "started", "queued"}]
    BY <1>2 DEF TypeOK
  <2> QED
    BY <1>2, <1>3, <2>1, <2>2 DEF TypeOK
<1>5. Invoked' /\ Invoking' /\ Nesting' /\ Executing'
    BY <1>1, <1>2, <1>3, RoutineFrame
<1>6. ~Expected(f) /\ stream[f] /\ ~free_flag[f]
    BY <1>1 DEF CompletionFindsFiber, Alive
<1>7. \A g \in Fibers : g # f => (Expected(g)' <=> Expected(g))
    BY <1>1, <1>2, <1>3 DEF Expected
<1>8. OneCompletion'
  <2>1. \A u \in Threads : (Aims(u)' <=> Aims(u)) /\ (Aims(u) => target[u] # f)
    BY <1>2, <1>3, <1>6 DEF Aims, Expected
  <2> QED
    BY <1>2, <1>3, <1>7, <2>1 DEF OneCompletion, TypeOK, Aims
<1>9. CompletionFindsFiber'
    BY <1>2, <1>3, <1>6, <1>7 DEF CompletionFindsFiber
<1>10. Alive'
    BY <1>2, <1>3 DEF Alive
<1> QED
    BY <1>4, <1>5, <1>8, <1>9, <1>10

\* Close sets the flag that the calls read.
LEMMA CloseStep ==
    ASSUME FiberInv, NEW t \in Threads, Close(t)
    PROVE  FiberInv'
<1> USE Kinds DEF FiberInv
<1>1. UNCHANGED << on, pc, target, invoker, free_flag, op, stream, calls, accept_ec >>
    BY DEF Close, fibers
<1>2. closed' \in [Fibers -> BOOLEAN]
    BY DEF Close, TypeOK
<1>3. TypeOK' /\ Alive' /\ Invoked' /\ Invoking'
    BY <1>1, <1>2 DEF TypeOK, Alive, Invoked, Invoking
<1>4. Nesting' /\ Executing'
    BY <1>1 DEF Nesting, Executing
<1>5. OneCompletion' /\ CompletionFindsFiber'
    BY <1>1 DEF OneCompletion, CompletionFindsFiber, Expected, Aims
<1> QED
    BY <1>3, <1>4, <1>5

\* A routine ends when it runs: no completion is on its way to it, so that its
\* object can be deleted.
LEMMA EndsStep ==
    ASSUME FiberInv, NEW t \in Threads, Ends(t)
    PROVE  FiberInv'
<1> USE Kinds DEF FiberInv
<1>1. PICK f \in Fibers : f = on[t] /\ pc[f] = "run" /\ f # Acceptor
    BY ContextsAssumption DEF Ends, At
<1>2. /\ pc' = [pc EXCEPT ![f] = "yield"]
      /\ stream' = [stream EXCEPT ![f] = FALSE]
      /\ free_flag' = [free_flag EXCEPT ![f] = TRUE]
      /\ closed' = [closed EXCEPT ![f] = FALSE]
      /\ calls' = [calls EXCEPT ![f] = 0]
      /\ UNCHANGED << on, target, invoker, op, accept_ec >>
    BY <1>1 DEF Ends, Goto
<1>3. /\ \A d \in Contexts : d # f => pc'[d] = pc[d]
      /\ pc'[f] = "yield"
      /\ \A g \in Fibers : g # f => stream'[g] = stream[g] /\ free_flag'[g] = free_flag[g]
    BY <1>1, <1>2 DEF TypeOK
<1>4. TypeOK'
  <2>1. pc' \in [Contexts -> ThreadLabels \cup FiberLabels]
    BY <1>2 DEF TypeOK, FiberLabels
  <2>2. /\ stream' \in [Fibers -> BOOLEAN] /\ free_flag' \in [Fibers -> BOOLEAN]
        /\ closed' \in [Fibers -> BOOLEAN]
    BY <1>2 DEF TypeOK
  <2>3. calls' \in [Fibers -> 0 .. MaxCalls]
    BY <1>2, CallsAssumption DEF TypeOK
  <2> QED
    BY <1>2, <1>3, <2>1, <2>2, <2>3 DEF TypeOK
<1>5. Invoked' /\ Invoking' /\ Nesting' /\ Executing'
    BY <1>1, <1>2, <1>3, RoutineFrame
<1>6. OneCompletion' /\ CompletionFindsFiber'
  <2>1. ~Expected(f)
    BY <1>1 DEF CompletionFindsFiber
  <2>2. \A u \in Threads : Aims(u)' <=> Aims(u)
    BY <1>3 DEF Aims
  <2> QED
    BY <1>2, <1>3, <2>1, <2>2, CompletionFrame DEF CompletionFindsFiber
<1>7. Alive'
    BY <1>2, <1>3 DEF Alive
<1> QED
    BY <1>4, <1>5, <1>6, <1>7

\* The acceptor makes a connection, whose fiber waits for invoke(), and starts
\* to accept into it.
LEMMA AcceptStep ==
    ASSUME FiberInv, NEW t \in Threads, NEW f \in Servers, Accept(t, f)
    PROVE  FiberInv'
<1> USE Kinds DEF FiberInv
<1>1. on[t] = Acceptor /\ pc[Acceptor] = "run" /\ f # Acceptor /\ f \in Fibers /\ pc[f] = "none"
    BY DEF Accept, At
<1>2. /\ pc' = [pc EXCEPT ![f] = "made", ![Acceptor] = "yield"]
      /\ target' = [target EXCEPT ![Acceptor] = f]
      /\ op' = [op EXCEPT ![Acceptor] = "started"]
      /\ stream' = [stream EXCEPT ![f] = TRUE]
      /\ accept_ec' \in {"ok", "failed"}
      /\ UNCHANGED << on, invoker, free_flag, closed, calls >>
    BY DEF Accept, fibers
<1>3. /\ \A d \in Contexts : d # f /\ d # Acceptor => pc'[d] = pc[d]
      /\ pc'[f] = "made" /\ pc'[Acceptor] = "yield"
      /\ \A d \in Contexts : d # Acceptor => target'[d] = target[d]
      /\ target'[Acceptor] = f
      /\ \A g \in Fibers : g # Acceptor => op'[g] = op[g]
      /\ op'[Acceptor] = "started"
      /\ \A g \in Fibers : g # f => stream'[g] = stream[g]
      /\ stream'[f]
    BY <1>1, <1>2 DEF TypeOK
<1>a. UNCHANGED << on, invoker, free_flag >>
    BY <1>2
<1>4. TypeOK'
  <2>1. pc' \in [Contexts -> ThreadLabels \cup FiberLabels]
    BY <1>2 DEF TypeOK, FiberLabels
  <2>2. /\ target' \in [Contexts -> Fibers \cup {Nobody}]
        /\ op' \in [Fibers -> {"none", "started", "queued"}]
        /\ stream' \in [Fibers -> BOOLEAN]
    BY <1>1, <1>2 DEF TypeOK
  <2> QED
    BY <1>1, <1>2, <1>3, <2>1, <2>2 DEF TypeOK
<1>5. Invoked' /\ Invoking' /\ Nesting' /\ Executing'
  <2>1. ASSUME NEW d \in Contexts, d # Acceptor
        PROVE  /\ target'[d] = target[d]
               /\ pc'[d] = pc[d] \/ (pc[d] = "none" /\ pc'[d] = "made")
    BY <1>1, <1>3, <2>1
  <2> QED
    BY <1>1, <1>3, <1>a, <2>1, RoutineFrame
<1>6. /\ ~Expected(Acceptor) /\ stream[Acceptor] /\ ~free_flag[Acceptor]
      /\ ~Expected(f) /\ ~free_flag[f]
    BY <1>1 DEF CompletionFindsFiber, Alive
<1>7. \A u \in Threads : /\ Aims(u)' <=> Aims(u)
                         /\ target'[u] = target[u]
                         /\ Aims(u) => target[u] # Acceptor
    BY <1>1, <1>3, <1>6 DEF Aims, Expected
<1>8. \A g \in Fibers : g # Acceptor => (Expected(g)' <=> Expected(g))
    BY <1>3, <1>7 DEF Expected, Aims
<1>9. OneCompletion'
  <2>1. \A u \in Threads : Aims(u) => target[u] \in Fibers
    BY DEF Aims, TypeOK
  <2> QED
    BY <1>1, <1>3, <1>6, <1>7, <1>8, <2>1 DEF OneCompletion
<1>10. CompletionFindsFiber'
    BY <1>1, <1>3, <1>a, <1>6, <1>8 DEF CompletionFindsFiber
<1>11. Alive'
    BY <1>1, <1>3, <1>a, <1>6 DEF Alive
<1> QED
    BY <1>4, <1>5, <1>9, <1>10, <1>11

\* invoke(): the acceptor goes on to switch to the connection that it made.
LEMMA InvokeStep ==
    ASSUME FiberInv, NEW t \in Threads, Invoke(t)
    PROVE  FiberInv'
<1> USE Kinds DEF FiberInv
<1>1. /\ on[t] = Acceptor /\ pc[Acceptor] = "run"
      /\ target[Acceptor] \in Servers /\ pc[target[Acceptor]] = "made"
    BY DEF Invoke, At, TypeOK
<1>2. /\ pc' = [pc EXCEPT ![Acceptor] = "switch"]
      /\ UNCHANGED << on, target, invoker, free_flag, op, stream, closed, calls, accept_ec >>
    BY DEF Invoke, Goto, fibers, objects
<1>3. /\ \A d \in Contexts : d # Acceptor => pc'[d] = pc[d]
      /\ pc'[Acceptor] = "switch"
    BY <1>2 DEF TypeOK
<1>4. TypeOK'
  <2>1. pc' \in [Contexts -> ThreadLabels \cup FiberLabels]
    BY <1>2 DEF TypeOK, FiberLabels
  <2> QED
    BY <1>1, <1>2, <1>3, <2>1 DEF TypeOK
<1>5. Invoked' /\ Invoking' /\ Nesting' /\ Executing'
    BY <1>1, <1>2, <1>3, RoutineFrame
<1>6. OneCompletion' /\ CompletionFindsFiber'
  <2>1. ~Expected(Acceptor)
    BY <1>1 DEF CompletionFindsFiber
  <2>2. \A u \in Threads : Aims(u)' <=> Aims(u)
    BY <1>3 DEF Aims
  <2> QED
    BY <1>2, <1>3, <2>1, <2>2, CompletionFrame DEF CompletionFindsFiber
<1>7. Alive'
    BY <1>1, <1>2, <1>3 DEF Alive
<1> QED
    BY <1>4, <1>5, <1>6, <1>7

\* The acceptor's loop goes round, or its routine returns.
LEMMA LoopStep ==
    ASSUME FiberInv, NEW t \in Threads, Loop(t)
    PROVE  FiberInv'
<1> USE Kinds DEF FiberInv
<1>1. on[t] = Acceptor /\ pc[Acceptor] = "run"
    BY DEF Loop, At
<1>2. /\ UNCHANGED << on, target, invoker, op, stream, closed, calls >>
      /\ accept_ec' \in {"none", accept_ec}
      /\ \/ UNCHANGED << pc, free_flag >>
         \/ /\ pc' = [pc EXCEPT ![Acceptor] = "yield"]
            /\ free_flag' = [free_flag EXCEPT ![Acceptor] = TRUE]
    BY DEF Loop, Goto
<1>3. /\ \A d \in Contexts : d # Acceptor => pc'[d] = pc[d]
      /\ pc'[Acceptor] \in {"run", "yield"}
      /\ \A g \in Fibers : g # Acceptor => free_flag'[g] = free_flag[g]
      /\ pc'[Acceptor] = "run" => free_flag'[Acceptor] = free_flag[Acceptor]
    BY <1>1, <1>2 DEF TypeOK
<1>4. TypeOK'
  <2>1. pc' \in [Contexts -> ThreadLabels \cup FiberLabels]
    BY <1>2 DEF TypeOK, FiberLabels
  <2>2. free_flag' \in [Fibers -> BOOLEAN]
    BY <1>2 DEF TypeOK
  <2>3. /\ accept_ec' \in {"none", "ok", "failed"}
        /\ accept_ec' # "none" => target'[Acceptor] \in Servers
    BY <1>2 DEF TypeOK
  <2>4. \A c \in Contexts : pc'[c] \in {"switch", "inside", "refused"} => target'[c] \in Fibers
    BY <1>2, <1>3 DEF TypeOK
  <2> QED
    BY <1>2, <2>1, <2>2, <2>3, <2>4 DEF TypeOK
<1>5. Invoked' /\ Invoking' /\ Nesting' /\ Executing'
    BY <1>1, <1>2, <1>3, RoutineFrame
<1>6. OneCompletion' /\ CompletionFindsFiber'
  <2>1. ~Expected(Acceptor)
    BY <1>1 DEF CompletionFindsFiber
  <2>2. \A u \in Threads : Aims(u)' <=> Aims(u)
    BY <1>3 DEF Aims
  <2> QED
    BY <1>2, <1>3, <2>1, <2>2, CompletionFrame DEF CompletionFindsFiber
<1>7. Alive'
    BY <1>1, <1>2, <1>3 DEF Alive
<1> QED
    BY <1>4, <1>5, <1>6, <1>7

\* A step of a thread on its own stack, which neither switches nor returns.
LEMMA ThreadFrame ==
    ASSUME FiberInv, NEW t \in Threads, pc[t] # "inside",
           UNCHANGED << on, invoker, free_flag, stream >>,
           \A d \in Contexts : d # t => pc'[d] = pc[d] /\ target'[d] = target[d],
           pc'[t] \in ThreadLabels \ {"inside"}
    PROVE  Invoked' /\ Invoking' /\ Nesting' /\ Executing' /\ Alive'
<1> USE Kinds DEF FiberInv
<1>1. \A c \in Contexts : pc'[c] = "inside" <=> pc[c] = "inside"
    OBVIOUS
<1>2. \A c \in Contexts : pc[c] = "inside" => target'[c] = target[c] /\ target[c] \in Fibers
    BY DEF TypeOK
<1>3. Invoked'
  <2>1. \A g \in Fibers : invoker[g] # Nobody => invoker[g] \in Contexts
    BY DEF TypeOK
  <2> QED
    BY <1>1, <1>2, <2>1 DEF Invoked
<1>4. Invoking'
    BY <1>1, <1>2 DEF Invoking
<1>5. Nesting'
  <2>1. \A g \in Fibers : pc[g] = "switch" => target[g] \in Fibers
    BY DEF Nesting
  <2> QED
    BY <2>1 DEF Nesting
<1>6. Executing'
  <2>1. \A u \in Threads : on[u] \in Contexts
    BY DEF TypeOK
  <2> QED
    BY <1>1, <1>2, <2>1 DEF Executing
<1>7. Alive'
    BY DEF Alive
<1> QED
    BY <1>3, <1>4, <1>5, <1>6, <1>7

\* on_received and the others take a completion from the queue.
LEMMA CallbackStep ==
    ASSUME FiberInv, NEW t \in Threads, NEW f \in Fibers, Callback(t, f)
    PROVE  FiberInv'
<1> USE Kinds DEF FiberInv
<1>1. on[t] = t /\ pc[t] = "idle" /\ op[f] = "queued"
    BY DEF Callback, At, Executing
<1>2. /\ op' = [op EXCEPT ![f] = "none"]
      /\ target' = [target EXCEPT ![t] = f]
      /\ pc' = [pc EXCEPT ![t] = "switch"]
      /\ UNCHANGED << on, invoker, free_flag, stream, closed, calls, accept_ec >>
    BY <1>1 DEF Callback, Goto, fibers
<1>3. /\ \A d \in Contexts : d # t => pc'[d] = pc[d] /\ target'[d] = target[d]
      /\ pc'[t] = "switch" /\ target'[t] = f
      /\ \A g \in Fibers : g # f => op'[g] = op[g]
      /\ op'[f] = "none"
    BY <1>2 DEF TypeOK
<1>4. TypeOK'
  <2>1. pc' \in [Contexts -> ThreadLabels \cup FiberLabels]
    BY <1>2 DEF TypeOK, ThreadLabels
  <2>2. /\ target' \in [Contexts -> Fibers \cup {Nobody}]
        /\ op' \in [Fibers -> {"none", "started", "queued"}]
    BY <1>2 DEF TypeOK
  <2> QED
    BY <1>2, <1>3, <2>1, <2>2 DEF TypeOK
<1>5. Invoked' /\ Invoking' /\ Nesting' /\ Executing' /\ Alive'
    BY <1>1, <1>2, <1>3, ThreadFrame DEF ThreadLabels
<1>6. \A g \in Fibers : Expected(g)' <=> Expected(g)
    BY <1>1, <1>3 DEF Expected
<1>7. OneCompletion'
  <2>1. \A u \in Threads : Aims(u) => target[u] # f /\ u # t
    BY <1>1 DEF Aims, OneCompletion
  <2>2. \A u \in Threads : u # t => (Aims(u)' <=> Aims(u))
    BY <1>3 DEF Aims
  <2> QED
    BY <1>1, <1>3, <1>6, <2>1, <2>2 DEF OneCompletion, TypeOK, Aims
<1>8. CompletionFindsFiber'
    BY <1>2, <1>3, <1>6 DEF CompletionFindsFiber
<1> QED
    BY <1>4, <1>5, <1>7, <1>8

\* A thread that was refused posts the completion again.
LEMMA RefusedStep ==
    ASSUME FiberInv, NEW t \in Threads, Refused(t)
    PROVE  FiberInv'
<1> USE Kinds DEF FiberInv
<1>1. PICK f \in Fibers : on[t] = t /\ pc[t] = "refused" /\ f = target[t]
    BY DEF Refused, At, Executing, TypeOK
<1>2. /\ op' = [op EXCEPT ![f] = "queued"]
      /\ target' = [target EXCEPT ![t] = Nobody]
      /\ pc' = [pc EXCEPT ![t] = "idle"]
      /\ UNCHANGED << on, invoker, free_flag, stream, closed, calls, accept_ec >>
    BY <1>1 DEF Refused, Goto, Forget, fibers
<1>3. /\ \A d \in Contexts : d # t => pc'[d] = pc[d] /\ target'[d] = target[d]
      /\ pc'[t] = "idle"
      /\ \A g \in Fibers : g # f => op'[g] = op[g]
      /\ op'[f] = "queued"
    BY <1>2 DEF TypeOK
<1>4. TypeOK'
  <2>1. pc' \in [Contexts -> ThreadLabels \cup FiberLabels]
    BY <1>2 DEF TypeOK, ThreadLabels
  <2>2. /\ target' \in [Contexts -> Fibers \cup {Nobody}]
        /\ op' \in [Fibers -> {"none", "started", "queued"}]
    BY <1>2 DEF TypeOK
  <2> QED
    BY <1>2, <1>3, <2>1, <2>2 DEF TypeOK
<1>5. Invoked' /\ Invoking' /\ Nesting' /\ Executing' /\ Alive'
    BY <1>1, <1>2, <1>3, ThreadFrame DEF ThreadLabels
<1>6. Expected(f) /\ \A g \in Fibers : Expected(g)' <=> Expected(g)
    BY <1>1, <1>3 DEF Expected
<1>7. OneCompletion'
  <2>1. \A u \in Threads : Aims(u)' <=> Aims(u) /\ u # t
    BY <1>1, <1>3 DEF Aims
  <2>2. \A u \in Threads : Aims(u)' => target'[u] = target[u] /\ target[u] # f
    BY <1>1, <1>3, <2>1 DEF OneCompletion, Aims
  <2>3. \A u \in Threads : Aims(u) => target[u] \in Fibers
    BY DEF Aims, TypeOK
  <2> QED
    BY <1>1, <1>3, <1>6, <2>1, <2>2, <2>3 DEF OneCompletion
<1>8. CompletionFindsFiber'
    BY <1>2, <1>3, <1>6 DEF CompletionFindsFiber
<1> QED
    BY <1>4, <1>5, <1>7, <1>8

\* The callback of an operation that was started is queued.
LEMMA ArrivesStep ==
    ASSUME FiberInv, NEW f \in Fibers, Arrives(f)
    PROVE  FiberInv'
<1> USE Kinds DEF FiberInv
<1>1. /\ UNCHANGED << on, pc, target, invoker, free_flag, stream, closed, calls, accept_ec >>
      /\ op[f] = "started" /\ op' = [op EXCEPT ![f] = "queued"]
    BY DEF Arrives, fibers
<1>2. op' \in [Fibers -> {"none", "started", "queued"}]
    BY <1>1 DEF TypeOK
<1>3. \A g \in Fibers : /\ op'[g] = "none" <=> op[g] = "none"
                        /\ Expected(g)' <=> Expected(g)
    BY <1>1 DEF TypeOK, Expected
<1>4. TypeOK' /\ Alive' /\ Invoked' /\ Invoking'
    BY <1>1, <1>2 DEF TypeOK, Alive, Invoked, Invoking
<1>5. Nesting' /\ Executing'
    BY <1>1 DEF Nesting, Executing
<1>6. OneCompletion' /\ CompletionFindsFiber'
    BY <1>1, <1>3 DEF OneCompletion, CompletionFindsFiber, Aims, TypeOK
<1> QED
    BY <1>4, <1>5, <1>6

\* Every step preserves the invariant.
LEMMA FiberStep == FiberInv /\ [Next]_vars => FiberInv'
<1> SUFFICES ASSUME FiberInv, [Next]_vars PROVE FiberInv'
    OBVIOUS
<1>1. CASE UNCHANGED vars
  <2>1. UNCHANGED << on, pc, target, invoker, free_flag, op, stream, closed, calls, accept_ec >>
    BY <1>1 DEF vars, fibers, objects
  <2>2. TypeOK' /\ Alive' /\ Invoked' /\ Invoking'
    BY <2>1 DEF FiberInv, TypeOK, Alive, Invoked, Invoking
  <2>3. Nesting' /\ Executing'
    BY <2>1 DEF FiberInv, Nesting, Executing
  <2>4. OneCompletion' /\ CompletionFindsFiber'
    BY <2>1 DEF FiberInv, OneCompletion, CompletionFindsFiber, Aims, Expected
  <2> QED
    BY <2>2, <2>3, <2>4 DEF FiberInv
<1>2. CASE \E f \in Fibers : Arrives(f)
    BY <1>2, ArrivesStep
<1>3. ASSUME NEW t \in Threads, SchedulerStep(t) PROVE FiberInv'
    BY <1>3, ZwitchStep, YieldStep, ReleaseStep, RefusedStep DEF SchedulerStep
<1>4. ASSUME NEW t \in Threads, RoutineStep(t) PROVE FiberInv'
  <2>1. CASE Call(t)
    <3>1. calls[on[t]] \in Nat /\ calls[on[t]] < MaxCalls /\ on[t] \in Fibers
      BY <2>1, Kinds, CallsAssumption DEF Call, At, FiberInv, TypeOK
    <3>2. calls' \in [Fibers -> 0 .. MaxCalls]
      BY <2>1, <3>1, CallsAssumption DEF Call, FiberInv, TypeOK
    <3> QED
      BY <2>1, <3>2, StartStep DEF Call, FiberInv, TypeOK
  <2>2. CASE Shutdown(t)
    <3>1. closed' \in [Fibers -> BOOLEAN]
      BY <2>2 DEF Shutdown, FiberInv, TypeOK
    <3> QED
      BY <2>2, <3>1, StartStep DEF Shutdown, FiberInv, TypeOK
  <2> QED
    BY <1>4, <2>1, <2>2, EndsStep DEF RoutineStep
<1>5. ASSUME NEW t \in Threads, AcceptorStep(t) PROVE FiberInv'
    BY <1>5, AcceptStep, InvokeStep, LoopStep DEF AcceptorStep
<1>6. ASSUME NEW t \in Threads, Close(t) \/ Dispatch(t) PROVE FiberInv'
    BY <1>6, CloseStep, CallbackStep DEF Dispatch
<1> QED
    BY <1>1, <1>2, <1>3, <1>4, <1>5, <1>6 DEF Next

\* The invariant of the fibers and of the threads that execute them.
LEMMA FiberInvariant == Spec => []FiberInv
    BY FiberInit, FiberStep, PTL DEF Spec

-----------------------------------------------------------------------------
\* Threads, fibers and the objects of the calls have values of the right kind;
\* a context that switches or has switched knows the fiber it switches to, and
\* the acceptor that has accepted the connection it accepted (scheduler::zwitch
\* and the loop of the acceptor).
THEOREM FiberTypeCorrect == Spec => []TypeOK
<1>1. FiberInv => TypeOK
    BY DEF FiberInv
<1> QED
    BY <1>1, FiberInvariant, PTL

\* No two threads execute on one stack, and a fiber that may be switched to is
\* executed by none and has saved its registers: the compare-and-swap on
\* invoker_ in zwitch() and the order of the steps in yield() and zwitch().
THEOREM OneStackCorrect == Spec => []OneStack
<1>1. FiberInv => OneStack
  <2> SUFFICES ASSUME FiberInv PROVE OneStack
      OBVIOUS
  <2>1. \A f \in Fibers : invoker[f] = Nobody => pc[f] \in {"none", "made", "asleep"}
      BY DEF FiberInv, Invoked
  <2> QED
      BY <2>1, Alone DEF OneStack
<1> QED
    BY <1>1, FiberInvariant, PTL

\* A completion finds the object of its call and the fiber that waits for it,
\* however the callback and yield() interleave, since a routine ends only when
\* it expects none (the wrapper of the routine deletes the context after it).
THEOREM CompletionFindsFiberCorrect == Spec => []CompletionFindsFiber
<1>1. FiberInv => CompletionFindsFiber
    BY DEF FiberInv
<1> QED
    BY <1>1, FiberInvariant, PTL

=============================================================================
