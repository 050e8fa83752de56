---------------------------- MODULE IocpService ----------------------------
(***************************************************************************)
(* iocp::service on Windows: operations handed to a completion port, the   *)
(* threads of run() that take them from it, and the calls that start them. *)
(*                                                                         *)
(* An overlapped call gives its operation to the kernel, which may finish  *)
(* it before the call has returned.  The field ready_ decides which of the *)
(* two, the starter in on_pending() or the thread in do_one(), sees that   *)
(* the other has been there: the second one lets the operation complete.   *)
(* A packet the port refuses waits in completed_ops_ until some thread     *)
(* finds dispatch_required_ set.                                           *)
(*                                                                         *)
(* A step is what happens between two accesses to state that other threads *)
(* can see.  A caller that is inside a call has it in call[c]; a thread    *)
(* goes on with its own loop when that call has returned.                  *)
(***************************************************************************)
EXTENDS Integers, Sequences, FiniteSets

CONSTANTS Threads,    \* threads that may call run()
          Outsiders,  \* other threads of the program
          Ops,        \* operation objects, used again after they were deleted
          Programs,   \* the programs, see ProgramsAssumption
          MaxParts,   \* most chunks one send or receive takes; none for an empty buffer
          Null

Callers   == Threads \cup Outsiders
Links     == {"accept", "connect"}
Transfers == {"send", "recv", "write", "read"}
Kinds     == {"post"} \cup Links \cup Transfers
Results   == {"ok", "error"}

ASSUME PartiesAssumption  == IsFiniteSet(Ops) /\ IsFiniteSet(Threads) /\ Threads \cap Outsiders = {}
ASSUME NullAssumption     == Null \notin Ops \cup Callers
ASSUME PartsAssumption    == MaxParts \in Nat \ {0}
\* A program has the threads it runs, a kind for each operation it uses, and
\* may stop and reset the service.
ASSUME ProgramsAssumption ==
  Programs \subseteq [crew : SUBSET Threads, kind : [Ops -> Kinds \cup {"unused"}], stops : BOOLEAN]

VARIABLES
  program,           \* the program that runs
  ops,               \* the operations: fields of the objects, parts left, and
                     \* truth, what the kernel or the call made of it
  pc,                \* thread -> where it is in run()
  call,              \* caller -> the call it is in: operation and place
  got,               \* thread -> the packet it took, then the operation it completes
  port,              \* packets queued at the completion port
  kernel,            \* operations the kernel works on
  deferred,          \* completed_ops_
  batch,             \* thread -> the list ops of do_one()
  lock,              \* holder of completed_ops_cs_
  dispatchRequired, outstanding, stopped,
  scarce             \* the port may refuse a packet

vars == <<program, ops, pc, call, got, port, kernel, deferred, batch, lock,
          dispatchRequired, outstanding, stopped, scarce>>
loopVars  == <<program, pc, got, batch, lock>>
queueVars == <<port, kernel, deferred, dispatchRequired, scarce>>
countVars == <<outstanding, stopped>>

None == [op |-> Null, at |-> "none"]
At(op, place) == [op |-> op, at |-> place]
InCall(c, place) == call[c].at = place

Packet(op, key, res) == [op |-> op, key |-> key, res |-> res]
Interrupt == Packet(Null, "interrupt", "ok")
Holds(op) == Packet(op, "none", "ok")
Nothing   == Holds(Null)

Deleted == [life |-> "free", parts |-> 0, ready |-> 0, stored |-> "ok", truth |-> "ok"]
\* (Seeded fault: ready_ stays set.)
Reset_keepsReady(o) == [o EXCEPT !.stored = "ok"]

\* reset(): the fields the service uses are cleared for another round.
Reset(o) == [o EXCEPT !.ready = 0, !.stored = "ok"]

\* dispatch_required_ has no initialiser: it may be set when the service starts.
Init ==
  /\ program \in Programs
  /\ ops = [op \in Ops |-> Deleted]
  /\ pc = [t \in Threads |-> "out"]
  /\ call = [c \in Callers |-> None]
  /\ got = [t \in Threads |-> Nothing]
  /\ port = <<>> /\ kernel = {} /\ deferred = <<>>
  /\ batch = [t \in Threads |-> <<>>] /\ lock = Null
  /\ dispatchRequired \in {0, 1} /\ outstanding = 0 /\ stopped = 0
  /\ scarce \in BOOLEAN

-----------------------------------------------------------------------------
(* Handing an operation to the port *)

\* The operation is ready and its result stored; the packet is queued next.
OnCompletion(o, r) == [o EXCEPT !.ready = 1, !.stored = r, !.truth = r]

\* post_deferred_completion() leaves the result fields as they are.
PostDeferredCompletion(o) == [o EXCEPT !.ready = 1]

Queue(c) ==
  /\ InCall(c, "queue")
  /\ \/ /\ port' = Append(port, Packet(call[c].op, "stored", "ok"))
        /\ call' = [call EXCEPT ![c] = None]
     \/ /\ scarce
        /\ call' = [call EXCEPT ![c].at = "defer"]
        /\ UNCHANGED port
  /\ UNCHANGED <<ops, kernel, deferred, dispatchRequired, scarce, loopVars, countVars>>

Defer(c) ==
  /\ InCall(c, "defer")
  /\ lock = Null
  /\ deferred' = Append(deferred, call[c].op)
  /\ dispatchRequired' = 1
  /\ call' = [call EXCEPT ![c] = None]
  /\ UNCHANGED <<ops, port, kernel, scarce, loopVars, countVars>>

\* (Seeded fault: the operation is left to do_one() in every case.)
OnPending_leaves(c) ==
  /\ InCall(c, "pending")
  /\ call' = [call EXCEPT ![c] = None]
  /\ ops' = [ops EXCEPT ![call[c].op].ready = 1]
  /\ UNCHANGED <<queueVars, loopVars, countVars>>

\* on_pending(): the first to get here leaves the operation to the second.
OnPending(c) ==
  LET op == call[c].op IN
  /\ InCall(c, "pending")
  /\ call' = [call EXCEPT ![c] = IF ops[op].ready = 1 THEN At(op, "queue") ELSE None]
  /\ ops' = [ops EXCEPT ![op].ready = 1]
  /\ UNCHANGED <<queueVars, loopVars, countVars>>

-----------------------------------------------------------------------------
(* Starting operations *)

\* A thread starts an operation from a callback, any other thread any time.
\* The bound: a callback starts at most one.
MayCall(c) == call[c] = None /\ (c \in Threads => pc[c] = "callback")
Called(c)  == pc' = IF c \in Threads THEN [pc EXCEPT ![c] = "return"] ELSE pc

\* A send of several chunks completes in on_complete() while the thread still
\* looks at it: the programs that have one run a single thread.
PartsOf(k) == CASE k = "recv" -> 0..MaxParts
                [] k = "send" /\ Cardinality(program.crew) = 1 -> 0..MaxParts
                [] OTHER -> {0, 1}

New(n) == [Deleted EXCEPT !.life = "live", !.parts = n]

Begin(c, op, o, place) ==
  /\ MayCall(c) /\ ops[op].life = "free"
  /\ outstanding' = outstanding + 1
  /\ ops' = [ops EXCEPT ![op] = o]
  /\ call' = [call EXCEPT ![c] = At(op, place)]
  /\ Called(c)
  /\ UNCHANGED <<program, got, batch, lock, queueVars, stopped>>

\* post(callback, binded)
Post(c, op) ==
  /\ program.kind[op] = "post"
  /\ Begin(c, op, PostDeferredCompletion(New(1)), "queue")

\* post(callback, binded, ec)
PostWith(c, op, r) ==
  /\ program.kind[op] = "post"
  /\ Begin(c, op, OnCompletion(New(1), r), "queue")

\* open(), bind() or the lookup of the extension may fail before the call.
AsynAccept(c, op) ==
  /\ program.kind[op] = "accept"
  /\ \/ Begin(c, op, OnCompletion(New(1), "error"), "queue")
     \/ Begin(c, op, New(1), "issue")

AsynConnect(c, op) ==
  /\ program.kind[op] = "connect"
  /\ \/ Begin(c, op, OnCompletion(New(1), "error"), "queue")
     \/ Begin(c, op, New(1), "issue")

AsynSend(c, op)  == program.kind[op] = "send" /\ \E n \in PartsOf("send") : Begin(c, op, New(n), "issue")
AsynRecv(c, op)  == program.kind[op] = "recv" /\ \E n \in PartsOf("recv") : Begin(c, op, New(n), "issue")
AsynWrite(c, op) == program.kind[op] = "write" /\ \E n \in PartsOf("write") : Begin(c, op, New(n), "issue")
AsynRead(c, op)  == program.kind[op] = "read" /\ \E n \in PartsOf("read") : Begin(c, op, New(n), "issue")

\* The overlapped call itself: refused at once, or taken by the kernel.
Overlapped(c) ==
  LET op == call[c].op IN
  /\ ops[op].parts > 0
  /\ \/ /\ ops' = [ops EXCEPT ![op] = OnCompletion(@, "error")]
        /\ call' = [call EXCEPT ![c].at = "queue"]
        /\ UNCHANGED kernel
     \/ /\ kernel' = kernel \cup {op}
        /\ call' = [call EXCEPT ![c].at = "pending"]
        /\ UNCHANGED ops

\* An empty buffer (no parts) completes without a call.
NoOperation(c) ==
  /\ ops[call[c].op].parts = 0
  /\ ops' = [ops EXCEPT ![call[c].op] = OnCompletion(@, "ok")]
  /\ call' = [call EXCEPT ![c].at = "queue"]
  /\ UNCHANGED kernel

Issuing(c, k) == InCall(c, "issue") /\ program.kind[call[c].op] = k

Accept(c)  == Issuing(c, "accept") /\ Overlapped(c)
Connect(c) == Issuing(c, "connect") /\ Overlapped(c)
Send(c)    == Issuing(c, "send") /\ (NoOperation(c) \/ Overlapped(c))
Recv(c)    == Issuing(c, "recv") /\ (NoOperation(c) \/ Overlapped(c))
Write(c)   == Issuing(c, "write") /\ (NoOperation(c) \/ Overlapped(c))
Read(c)    == Issuing(c, "read") /\ (NoOperation(c) \/ Overlapped(c))

Issue(c) ==
  /\ Accept(c) \/ Connect(c) \/ Send(c) \/ Recv(c) \/ Write(c) \/ Read(c)
  /\ UNCHANGED <<port, deferred, dispatchRequired, scarce, loopVars, countVars>>

\* The kernel finishes an operation and queues its packet.
KernelCompletes(op, r) ==
  /\ op \in kernel
  /\ kernel' = kernel \ {op}
  /\ port' = Append(port, Packet(op, "kernel", r))
  /\ ops' = [ops EXCEPT ![op].truth = r]
  /\ UNCHANGED <<call, deferred, dispatchRequired, scarce, loopVars, countVars>>

-----------------------------------------------------------------------------
(* Stopping *)

\* stop(): only the call that sets stopped_ posts the interrupt, and a refused
\* interrupt is never posted again.
StopExchange(c) ==
  /\ InCall(c, "stop")
  /\ stopped' = 1
  /\ call' = [call EXCEPT ![c] = IF stopped = 0 THEN At(Null, "interrupt") ELSE None]
  /\ UNCHANGED <<ops, outstanding, queueVars, loopVars>>

StopInterrupt(c) ==
  /\ InCall(c, "interrupt")
  /\ \/ port' = Append(port, Interrupt)
     \/ scarce /\ UNCHANGED port
  /\ call' = [call EXCEPT ![c] = None]
  /\ UNCHANGED <<ops, kernel, deferred, dispatchRequired, scarce, loopVars, countVars>>

UserStop(c) ==
  /\ program.stops /\ c \in Outsiders /\ call[c] = None
  /\ call' = [call EXCEPT ![c] = At(Null, "stop")]
  /\ UNCHANGED <<ops, queueVars, loopVars, countVars>>

\* The program resets the service when every thread has left run().  The
\* bound: one interrupt may be left over from earlier rounds.
ServiceReset ==
  /\ program.stops /\ stopped = 1
  /\ \A t \in Threads : pc[t] = "out"
  /\ \A c \in Callers : call[c] = None
  /\ Cardinality({i \in DOMAIN port : port[i] = Interrupt}) <= 1
  /\ stopped' = 0
  /\ UNCHANGED <<ops, call, outstanding, queueVars, loopVars>>

-----------------------------------------------------------------------------
(* run() and do_one() *)

Steps(t, from, to) == pc[t] = from /\ call[t] = None /\ pc' = [pc EXCEPT ![t] = to]

Run(t) ==
  /\ t \in program.crew
  /\ Steps(t, "out", "loop")
  /\ call' = [call EXCEPT ![t] = IF outstanding = 0 THEN At(Null, "stop") ELSE None]
  /\ UNCHANGED <<program, ops, got, batch, lock, queueVars, countVars>>

\* The thread that clears dispatch_required_ dispatches completed_ops_.
TryDispatch(t) ==
  /\ Steps(t, "loop", IF dispatchRequired = 1 THEN "dispatch" ELSE "wait")
  /\ dispatchRequired' = 0
  /\ UNCHANGED <<program, ops, call, got, batch, lock, port, kernel, deferred, scarce, countVars>>

TakeDeferred(t) ==
  /\ Steps(t, "dispatch", "batch")
  /\ lock = Null /\ lock' = t
  /\ batch' = [batch EXCEPT ![t] = deferred]
  /\ deferred' = <<>>
  /\ UNCHANGED <<program, ops, call, got, port, kernel, dispatchRequired, scarce, countVars>>

\* post_deferred_completions(): a refused one goes back with all behind it.
PostDeferred(t) ==
  /\ Steps(t, "batch", "batch") /\ batch[t] # <<>>
  /\ ops' = [ops EXCEPT ![Head(batch[t])] = PostDeferredCompletion(@)]
  /\ \/ /\ port' = Append(port, Packet(Head(batch[t]), "stored", "ok"))
        /\ batch' = [batch EXCEPT ![t] = Tail(@)]
        /\ UNCHANGED <<deferred, dispatchRequired>>
     \/ /\ scarce
        /\ deferred' = deferred \o batch[t]
        /\ batch' = [batch EXCEPT ![t] = <<>>]
        /\ dispatchRequired' = 1
        /\ UNCHANGED port
  /\ UNCHANGED <<program, call, got, lock, kernel, scarce, countVars>>

DispatchEnds(t) ==
  /\ Steps(t, "batch", "wait") /\ batch[t] = <<>>
  /\ lock' = Null
  /\ UNCHANGED <<program, ops, call, got, batch, queueVars, countVars>>

Dequeue(t) ==
  /\ port # <<>>
  /\ Steps(t, "wait", IF Head(port) = Interrupt THEN "interrupted" ELSE "got")
  /\ got' = [got EXCEPT ![t] = Head(port)]
  /\ port' = Tail(port)
  /\ UNCHANGED <<program, ops, call, batch, lock, kernel, deferred, dispatchRequired, scarce, countVars>>

\* GetQueuedCompletionStatus() gives up after gqcs_timeout.
Timeout(t) ==
  /\ port = <<>>
  /\ Steps(t, "wait", "loop")
  /\ UNCHANGED <<program, ops, call, got, batch, lock, queueVars, countVars>>

\* The result is read from or stored in the operation, and the operation
\* completes if its starter is through; if not, on_pending() will queue it.
Ready(o) == o.ready = 1

Complete(t) ==
  LET op == got[t].op
      r  == IF got[t].key = "stored" THEN ops[op].stored ELSE got[t].res IN
  /\ Steps(t, "got", IF Ready(ops[op]) THEN "complete" ELSE "loop")
  /\ ops' = [ops EXCEPT ![op].stored = r, ![op].ready = 1]
  /\ got' = [got EXCEPT ![t] = IF Ready(ops[op]) THEN [@ EXCEPT !.res = r] ELSE Nothing]
  /\ UNCHANGED <<program, call, batch, lock, queueVars, countVars>>

\* Passes the interrupt on; a leftover of an earlier run() is dropped.
Interrupted(t) ==
  /\ \/ /\ stopped = 1
        /\ Steps(t, "interrupted", "out")
        /\ port' = Append(port, Interrupt) \/ (scarce /\ UNCHANGED port)
     \/ stopped = 0 /\ Steps(t, "interrupted", "loop") /\ UNCHANGED port
  /\ got' = [got EXCEPT ![t] = Nothing]
  /\ UNCHANGED <<program, ops, call, batch, lock, kernel, deferred, dispatchRequired, scarce, countVars>>

-----------------------------------------------------------------------------
(* on_complete() of the operations *)

Unfinished(t) == got[t].res = "ok" /\ ops[got[t].op].parts > 1

\* The callback is called when nothing is left to transfer or an error came.
CallBack(t) ==
  /\ Steps(t, "complete", "callback")
  /\ ~Unfinished(t)
  /\ got' = [got EXCEPT ![t] = Holds(got[t].op)]
  /\ UNCHANGED <<program, ops, call, batch, lock, queueVars, countVars>>

\* (Seeded fault: the rest of a transfer is not counted.)
CountedAgain_not == outstanding

\* socket_ops::recv and send count the operation again; the round that
\* started the rest ends with work_finished() as any other.
CountedAgain == outstanding + 1

\* recv_op and send_op start the rest with the same object.  recv_op returns
\* at once, send_op still asks how much is left.
Continue(t, k, to) ==
  LET op == got[t].op IN
  /\ Steps(t, "complete", to)
  /\ program.kind[op] = k /\ Unfinished(t)
  /\ ops' = [ops EXCEPT ![op] = [Reset(ops[op]) EXCEPT !.parts = @ - 1]]
  /\ outstanding' = CountedAgain
  /\ call' = [call EXCEPT ![t] = At(op, "issue")]
  /\ UNCHANGED <<program, got, batch, lock, queueVars, stopped>>

ContinueRecv(t) == Continue(t, "recv", "finish")
ContinueSend(t) == Continue(t, "send", "resume")

Resume(t) ==
  /\ Steps(t, "resume", "finish")
  /\ UNCHANGED <<program, ops, call, got, batch, lock, queueVars, countVars>>

\* The callback returns and the operation deletes itself.
Return(t) ==
  /\ Steps(t, "callback", "finish") \/ Steps(t, "return", "finish")
  /\ ops' = [ops EXCEPT ![got[t].op] = Deleted]
  /\ UNCHANGED <<program, call, got, batch, lock, queueVars, countVars>>

WorkFinished(t) ==
  /\ Steps(t, "finish", "loop")
  /\ outstanding' = outstanding - 1
  /\ call' = [call EXCEPT ![t] = IF outstanding = 1 THEN At(Null, "stop") ELSE None]
  /\ got' = [got EXCEPT ![t] = Nothing]
  /\ UNCHANGED <<program, ops, batch, lock, queueVars, stopped>>

\* The port has room again.
Recover ==
  /\ scarce /\ scarce' = FALSE
  /\ UNCHANGED <<ops, call, port, kernel, deferred, dispatchRequired, loopVars, countVars>>

-----------------------------------------------------------------------------
Start(c) ==
  \E op \in Ops :
    \/ Post(c, op) \/ \E r \in Results : PostWith(c, op, r)
    \/ AsynAccept(c, op) \/ AsynConnect(c, op) \/ AsynSend(c, op)
    \/ AsynRecv(c, op) \/ AsynWrite(c, op) \/ AsynRead(c, op)

CallStep(c) == Issue(c) \/ OnPending(c) \/ Queue(c) \/ Defer(c) \/ StopExchange(c) \/ StopInterrupt(c)

LoopStep(t) ==
  \/ Run(t) \/ TryDispatch(t) \/ TakeDeferred(t) \/ PostDeferred(t) \/ DispatchEnds(t)
  \/ Dequeue(t) \/ Timeout(t) \/ Complete(t) \/ Interrupted(t)
  \/ CallBack(t) \/ ContinueRecv(t) \/ ContinueSend(t) \/ Resume(t)
  \/ Return(t) \/ WorkFinished(t)

KernelStep(op) == \E r \in Results : KernelCompletes(op, r)

Next ==
  \/ \E c \in Callers : Start(c) \/ CallStep(c) \/ UserStop(c)
  \/ \E t \in Threads : LoopStep(t)
  \/ \E op \in Ops : KernelStep(op)
  \/ ServiceReset \/ Recover

Spec == Init /\ [][Next]_vars

\* Threads and calls are scheduled, the network answers, a shortage ends.
Fairness ==
  /\ \A c \in Callers : WF_vars(CallStep(c))
  /\ \A t \in Threads : WF_vars(LoopStep(t))
  /\ \A op \in Ops : WF_vars(KernelStep(op))
  /\ WF_vars(Recover)

FairSpec == Spec /\ Fairness

-----------------------------------------------------------------------------
(* Properties *)

Completing == {"complete", "callback", "return"}

\* Everybody who still has an operation in hand.
InPort(op)  == {i \in DOMAIN port : port[i].op = op}
Waiting(op) == {i \in DOMAIN deferred : deferred[i] = op}
               \cup UNION {{i \in DOMAIN batch[t] : batch[t][i] = op} : t \in Threads}
Starting(op) == {c \in Callers : call[c].op = op}
Holding(op)  == {t \in Threads : got[t].op = op /\ pc[t] \in Completing \cup {"got", "resume"}}

\* While on_complete() works on an operation (which ends by deleting it) no
\* starter is still inside the call that started it, and no packet, list,
\* kernel or other thread will bring it back: the handshake on ready_ between
\* on_pending() and do_one() completes it once, with the result of its call.
CompletedAlone ==
  \A t \in Threads :
    LET op == got[t].op IN
    pc[t] \in Completing =>
      /\ ops[op].life = "live"
      /\ Starting(op) = {} /\ InPort(op) = {} /\ Waiting(op) = {} /\ op \notin kernel
      /\ Holding(op) = {t}
      /\ pc[t] = "complete" => got[t].res = ops[op].truth

\* outstanding_work_ counts the operations alive, and one more for a thread
\* that has deleted its operation or started it again and has not yet come to
\* work_finished(): it reaches zero, and the service stops itself, only when
\* nothing is left, whatever the port refuses.
WorkAccounting ==
  outstanding = Cardinality({op \in Ops : ops[op].life = "live"})
                + Cardinality({t \in Threads : pc[t] \in {"finish", "resume"}})

\* Every operation started is completed unless the service is stopped, also
\* one the port refused, in whichever order its starter returns and its packet
\* is taken.
OperationsComplete ==
  \A op \in Ops : ops[op].life = "live" ~> (ops[op].life = "free" \/ stopped = 1)

=============================================================================
