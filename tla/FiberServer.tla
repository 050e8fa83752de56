---------------------------- MODULE FiberServer ----------------------------
(***************************************************************************)
(* Fibers on the threads of a service, and the fiber web server made of    *)
(* them.  A fiber calls an operation as if it blocked: it starts the       *)
(* asynchronous operation and yields; the completion, on any thread,       *)
(* switches back to it.  invoker_ is who switched to a fiber: another      *)
(* fiber, or the scheduler object of a thread; it is 0 while the fiber is  *)
(* suspended, and a compare-and-swap on it decides who may resume it.      *)
(*                                                                         *)
(* The acceptor's fiber makes a connection, accepts into it and starts its *)
(* fiber, nested in its own.  A connection's fiber makes some calls on its *)
(* stream, deletes the context and ends.                                   *)
(***************************************************************************)
EXTENDS Naturals

CONSTANTS
    Threads,
    Acceptor,   \* fiber of the acceptor
    Servers,    \* fibers of the connections it accepts
    Clients,    \* fibers of outgoing connections
    Nobody,
    MaxCalls    \* bound on the calls that one connection makes

Fibers   == {Acceptor} \cup Servers \cup Clients
Contexts == Threads \cup Fibers

ASSUME ContextsAssumption ==
    /\ Acceptor \notin Servers \cup Clients /\ Servers \cap Clients = {}
    /\ Threads \cap Fibers = {} /\ Nobody \notin Contexts
ASSUME CallsAssumption == MaxCalls \in Nat

VARIABLES
    on,         \* the context that a thread executes
    pc,         \* position of a context
    target,     \* the fiber a context switches to
    invoker, free_flag,
    op,         \* what a fiber waits for: "none", "started", "queued"
    stream,     \* the socket object of a fiber exists
    closed,     \* check_closed() of its context
    calls,      \* operations it has called
    accept_ec   \* result of the last accept

fibers  == << invoker, free_flag >>
objects == << op, stream, closed, calls, accept_ec >>
vars    == << on, pc, target, fibers, objects >>

ThreadLabels == {"idle", "switch", "inside", "refused"}
FiberLabels  == {"none", "made", "run", "yield", "asleep", "switch", "inside", "refused", "freed"}

\* startHTTP posts the start of the acceptor, connect() that of a client.
Init ==
    /\ on = [t \in Threads |-> t]
    /\ pc = [c \in Contexts |-> IF c \in Threads THEN "idle"
                                ELSE IF c \in Servers THEN "none" ELSE "made"]
    /\ target = [c \in Contexts |-> Nobody]
    /\ invoker = [f \in Fibers |-> Nobody]
    /\ free_flag = [f \in Fibers |-> FALSE]
    /\ op = [f \in Fibers |-> IF f \in Servers THEN "none" ELSE "queued"]
    /\ stream = [f \in Fibers |-> f \notin Servers]
    /\ closed = [f \in Fibers |-> FALSE]
    /\ calls = [f \in Fibers |-> 0]
    /\ accept_ec = "none"

Goto(c, label) == pc' = [pc EXCEPT ![c] = label]

\* Thread t executes a context of Who and this is at a label.
At(t, Who, label) == on[t] \in Who /\ pc[on[t]] = label

-----------------------------------------------------------------------------
(***************************************************************************)
(* fiber::scheduler.                                                       *)
(***************************************************************************)
\* Seeded fault: the fiber is resumed whoever runs it.
Zwitch_unchecked(t) ==
    /\ At(t, Contexts, "switch")
    /\ LET c == on[t]  f == target[c] IN
         /\ invoker' = [invoker EXCEPT ![f] = c]
         /\ on' = [on EXCEPT ![t] = f]
         /\ pc' = [pc EXCEPT ![c] = "inside", ![f] = "run"]
    /\ UNCHANGED << target, free_flag, objects >>

\* zwitch(): the compare-and-swap, and switch_fiber() when it succeeds.
Zwitch(t) ==
    /\ At(t, Contexts, "switch")
    /\ LET c == on[t]  f == target[c] IN
         IF invoker[f] = Nobody
           THEN /\ invoker' = [invoker EXCEPT ![f] = c]
                /\ on' = [on EXCEPT ![t] = f]
                /\ pc' = [pc EXCEPT ![c] = "inside", ![f] = "run"]
           ELSE Goto(c, "refused") /\ UNCHANGED << invoker, on >>
    /\ UNCHANGED << target, free_flag, objects >>

\* A fiber that was made or left starts or goes on; a context that switched to
\* another goes on after the call.
Resumed(c) == IF c \in Threads THEN "idle" ELSE "run"

\* Seeded fault: the acceptor loses the connection it has accepted.
Forget_all(c) == [target EXCEPT ![c] = Nobody]

\* The callback of a thread is over; the acceptor still has its connection.
Forget(c) == IF c \in Threads THEN [target EXCEPT ![c] = Nobody] ELSE target

\* yield(): nothing happens in a fiber that nobody switched to.
Yield(t) ==
    /\ At(t, Fibers, "yield")
    /\ LET f == on[t] IN
         IF invoker[f] = Nobody
           THEN Goto(f, "run") /\ UNCHANGED on
           ELSE on' = [on EXCEPT ![t] = invoker[f]] /\ Goto(f, "asleep")
    /\ UNCHANGED << target, fibers, objects >>

\* Seeded fault: the completion posts another one also when it succeeded.
Release_posts(t) ==
    /\ At(t, Contexts, "inside")
    /\ LET c == on[t]  f == target[c] IN
         /\ IF free_flag[f]
              THEN pc' = [pc EXCEPT ![f] = "freed", ![c] = Resumed(c)] /\ UNCHANGED invoker
              ELSE invoker' = [invoker EXCEPT ![f] = Nobody] /\ Goto(c, Resumed(c))
         /\ op' = [op EXCEPT ![f] = "queued"]
    /\ target' = Forget(on[t])
    /\ UNCHANGED << on, free_flag, stream, closed, calls, accept_ec >>

\* zwitch() after switch_fiber(): the fiber is freed if its routine is over.
Release(t) ==
    /\ At(t, Contexts, "inside")
    /\ LET c == on[t]  f == target[c] IN
         IF free_flag[f]
           THEN pc' = [pc EXCEPT ![f] = "freed", ![c] = Resumed(c)] /\ UNCHANGED invoker
           ELSE invoker' = [invoker EXCEPT ![f] = Nobody] /\ Goto(c, Resumed(c))
    /\ target' = Forget(on[t])
    /\ UNCHANGED << on, free_flag, objects >>

-----------------------------------------------------------------------------
(***************************************************************************)
(* Calls of fiber_socket, fiber_acceptor, fiber_ssl_socket, fiber_file and *)
(* fiber_http_socket: start the operation, yield, read the result.         *)
(***************************************************************************)
\* The library completes an operation: its callback is queued.
Arrives(f) ==
    /\ op[f] = "started"
    /\ op' = [op EXCEPT ![f] = "queued"]
    /\ UNCHANGED << on, pc, target, fibers, stream, closed, calls, accept_ec >>

\* on_received and the others, on_post: the object of the call is written and
\* read, then its fiber switched to.
Callback(t, f) ==
    /\ At(t, Threads, "idle")
    /\ op[f] = "queued"
    /\ op' = [op EXCEPT ![f] = "none"]
    /\ target' = [target EXCEPT ![t] = f]
    /\ Goto(t, "switch")
    /\ UNCHANGED << on, fibers, stream, closed, calls, accept_ec >>

\* Seeded fault: a refused switch is not tried again.
Refused_lost(t) ==
    /\ At(t, Threads, "refused")
    /\ Goto(t, "idle")
    /\ target' = Forget(t)
    /\ UNCHANGED << on, fibers, objects >>

\* The fiber has not yielded yet: on_post is posted and tries again.  (invoke()
\* ignores a refusal, but nobody else switches to a fiber just made.)
Refused(t) ==
    /\ At(t, Threads, "refused")
    /\ op' = [op EXCEPT ![target[t]] = "queued"]
    /\ Goto(t, "idle")
    /\ target' = Forget(t)
    /\ UNCHANGED << on, fibers, stream, closed, calls, accept_ec >>

Start(f) == op' = [op EXCEPT ![f] = "started"] /\ Goto(f, "yield")

\* Recv, Send, Handshake, Connect of a connection.
Call(t) ==
    /\ At(t, Servers \cup Clients, "run")
    /\ LET f == on[t] IN
         /\ ~closed[f] /\ calls[f] < MaxCalls
         /\ calls' = [calls EXCEPT ![f] = @ + 1]
         /\ Start(f)
    /\ UNCHANGED << on, target, fibers, stream, closed, accept_ec >>

\* Shutdown: the flag, then a call.  Afterwards the others return at once.
Shutdown(t) ==
    /\ At(t, Servers \cup Clients, "run")
    /\ ~closed[on[t]]
    /\ closed' = [closed EXCEPT ![on[t]] = TRUE]
    /\ Start(on[t])
    /\ UNCHANGED << on, target, fibers, stream, calls, accept_ec >>

Close(t) ==
    /\ At(t, Servers \cup Clients, "run")
    /\ ~closed[on[t]]
    /\ closed' = [closed EXCEPT ![on[t]] = TRUE]
    /\ UNCHANGED << on, pc, target, fibers, op, stream, calls, accept_ec >>

\* The routine returns: the wrapper deletes the context, and its fiber ends.
Ends(t) ==
    /\ At(t, Servers \cup Clients, "run")
    /\ stream' = [stream EXCEPT ![on[t]] = FALSE]
    /\ free_flag' = [free_flag EXCEPT ![on[t]] = TRUE]
    /\ closed' = [closed EXCEPT ![on[t]] = FALSE]
    /\ calls' = [calls EXCEPT ![on[t]] = 0]
    /\ Goto(on[t], "yield")
    /\ UNCHANGED << on, target, invoker, op, accept_ec >>

-----------------------------------------------------------------------------
(***************************************************************************)
(* The loop of the acceptor.                                               *)
(***************************************************************************)
\* A new connection with its stream and fiber; accept() into it.
Accept(t, f) ==
    /\ At(t, {Acceptor}, "run")
    /\ accept_ec = "none"
    /\ f \in Servers /\ pc[f] = "none"
    /\ stream' = [stream EXCEPT ![f] = TRUE]
    /\ target' = [target EXCEPT ![Acceptor] = f]
    /\ \E ec \in {"ok", "failed"} : accept_ec' = ec
    /\ op' = [op EXCEPT ![Acceptor] = "started"]
    /\ pc' = [pc EXCEPT ![f] = "made", ![Acceptor] = "yield"]
    /\ UNCHANGED << on, fibers, closed, calls >>

\* invoke(): also after an error, which is for the connection's routine to see.
Invoke(t) ==
    /\ At(t, {Acceptor}, "run")
    /\ accept_ec # "none" /\ pc[target[Acceptor]] = "made"
    /\ Goto(Acceptor, "switch")
    /\ UNCHANGED << on, target, fibers, objects >>

\* After the connection's fiber has yielded: around the loop, or out of it.
Loop(t) ==
    /\ At(t, {Acceptor}, "run")
    /\ accept_ec # "none" /\ pc[target[Acceptor]] # "made"
    /\ IF accept_ec = "ok"
         THEN accept_ec' = "none" /\ UNCHANGED << pc, free_flag >>
         ELSE /\ free_flag' = [free_flag EXCEPT ![Acceptor] = TRUE]
              /\ Goto(Acceptor, "yield")
              /\ UNCHANGED accept_ec
    /\ UNCHANGED << on, target, invoker, op, stream, closed, calls >>

-----------------------------------------------------------------------------
SchedulerStep(t) == Zwitch(t) \/ Yield(t) \/ Release(t) \/ Refused(t)
RoutineStep(t)   == Call(t) \/ Shutdown(t) \/ Ends(t)
AcceptorStep(t)  == (\E f \in Servers : Accept(t, f)) \/ Invoke(t) \/ Loop(t)
Dispatch(t)      == \E f \in Fibers : Callback(t, f)

Next ==
    \/ \E f \in Fibers : Arrives(f)
    \/ \E t \in Threads : SchedulerStep(t) \/ RoutineStep(t) \/ Close(t) \/ AcceptorStep(t) \/ Dispatch(t)

Spec == Init /\ [][Next]_vars

(***************************************************************************)
(* Fairness: threads are scheduled, and a connection's routine goes on.    *)
(* Nothing is assumed about the completion of operations.                  *)
(***************************************************************************)
Fairness == \A t \in Threads : /\ WF_vars(SchedulerStep(t)) /\ WF_vars(RoutineStep(t))
                               /\ WF_vars(AcceptorStep(t)) /\ WF_vars(Dispatch(t))

FairSpec == Spec /\ Fairness

-----------------------------------------------------------------------------
TypeOK ==
    /\ on \in [Threads -> Contexts]
    /\ pc \in [Contexts -> ThreadLabels \cup FiberLabels]
    /\ target \in [Contexts -> Fibers \cup {Nobody}]
    /\ invoker \in [Fibers -> Contexts \cup {Nobody}]
    /\ free_flag \in [Fibers -> BOOLEAN]
    /\ op \in [Fibers -> {"none", "started", "queued"}]
    /\ stream \in [Fibers -> BOOLEAN]
    /\ closed \in [Fibers -> BOOLEAN]
    /\ calls \in [Fibers -> 0 .. MaxCalls]
    /\ accept_ec \in {"none", "ok", "failed"}
    /\ accept_ec # "none" => target[Acceptor] \in Servers
    /\ \A c \in Contexts : pc[c] \in {"switch", "inside", "refused"} => target[c] \in Fibers

\* A fiber is executed by one thread at a time, and whoever may switch to it
\* finds it made or left: its registers have been saved.
OneStack ==
    /\ \A t, u \in Threads : on[t] = on[u] => t = u
    /\ \A f \in Fibers : invoker[f] = Nobody => pc[f] \in {"none", "made", "asleep"}
                                             /\ \A t \in Threads : on[t] # f

\* A completion, queued or about to switch, finds its object and its fiber,
\* which waits for it: they are deleted only when no completion is to come.
Expected(f) == op[f] # "none" \/ \E t \in Threads : pc[t] \in {"switch", "refused"} /\ target[t] = f

CompletionFindsFiber ==
    \A f \in Fibers : Expected(f) => stream[f] /\ ~free_flag[f] /\ pc[f] \in {"made", "yield", "asleep"}

\* A blocking call returns once its operation is complete, also when this
\* happens before the fiber has yielded.
CallReturns == \A f \in Fibers : op[f] = "queued" ~> pc[f] = "run"
=============================================================================
