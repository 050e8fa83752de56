---------------------------- MODULE EpollService ----------------------------
(***************************************************************************)
(* The completion core of the library on Linux: iocp::service of           *)
(* epoll_service.h and epoll_service.cpp, with the queue of completed      *)
(* operations (my_semaphore) and the life of an operation object           *)
(* (iocp_operation.h).                                                     *)
(*                                                                         *)
(* Threads call run(): each loops in do_one(), where at most one of them   *)
(* polls epoll and all of them take operations from completed_ops_ and run *)
(* their callbacks.  A callback starts further operations.  The count      *)
(* outstanding_work_ goes up when an operation is started and down when    *)
(* its completion has been run; at zero the service stops itself by        *)
(* putting a null operation, the interrupt, in the queue.                  *)
(*                                                                         *)
(* One action is one atomic step of the code: an interlocked instruction,  *)
(* a critical section of the queue's mutex, or a system call.  A write to  *)
(* an object that only the acting thread can reach (ready_ of an operation *)
(* it holds) is part of the neighbouring step.                             *)
(***************************************************************************)
EXTENDS Integers, Sequences, FiniteSets

CONSTANTS
    Threads,        \* the threads that call service::run
    Outsiders,      \* threads that use the service but are not inside run
    Ops,            \* operation objects
    Null,           \* a null operation*, a null pthread_t
    Usages,         \* the ways a program may use the service, see below
    ExplicitStop,   \* do callers call service::stop themselves?
    SyscallMayFail  \* can epoll_wait or pthread_cond_timedwait fail?

(***************************************************************************)
(* "single": all outside work is started before the first call of run, and *)
(*           each thread calls run once (tcp.cpp, file.cpp, ssl.cpp);      *)
(* "rerun":  outside work is also started between calls of run, and run is *)
(*           called again;                                                 *)
(* "open":   outsiders start work at any time, run is called at any time:  *)
(*           startHTTP() of the web servers leaves threads in run, and     *)
(*           startHTTPS() then posts an accept (http_server.cpp:157, 170). *)
(***************************************************************************)

ASSUME ThreadsAssumption == IsFiniteSet(Threads) /\ IsFiniteSet(Outsiders)
ASSUME OpsAssumption     == IsFiniteSet(Ops)
ASSUME CallersAssumption == Threads \cap Outsiders = {}
ASSUME NullAssumption    == Null \notin Ops \cup Threads \cup Outsiders
ASSUME UsagesAssumption  == Usages \subseteq {"single", "rerun", "open"}
ASSUME FlagsAssumption   == ExplicitStop \in BOOLEAN /\ SyscallMayFail \in BOOLEAN

Callers == Threads \cup Outsiders

VARIABLES
    usage,                 \* the way the program uses the service
    outstanding_work,      \* service::outstanding_work_
    stopped,               \* service::stopped_, never reset
    nthread,               \* service::nthread_
    demultiplexing_thread, \* service::demultiplexing_thread_
    completed_ops,         \* service::completed_ops_, Null is the interrupt
    events,                \* what is left to dispatch of service::events_
    ready,                 \* operation::ready_
    place,                 \* who refers to an operation object
    pc,                    \* where a caller is in the code
    cur,                   \* the operation whose completion a thread runs
    new,                   \* the operation a caller starts or dispatches
    ret                    \* where a caller of stop() goes on

shared  == << usage, outstanding_work, stopped, nthread, demultiplexing_thread >>
local   == << cur, new, ret >>
vars    == << shared, completed_ops, events, ready, place, pc, local >>

(***************************************************************************)
(* The places of an operation object:                                      *)
(*   free      not allocated                                               *)
(*   started   counted by work_started(), known to its starter only        *)
(*   armed     in_op_ or out_op_ of a socket, registered with epoll        *)
(*   worker    in the queue of the file thread or of the resolver thread   *)
(*   detached  taken from its socket by the demultiplexing thread          *)
(*   queued    in completed_ops_                                           *)
(*   held      popped by a thread of run, until deleted or started again   *)
(*   dropped   popped with ready_ clear and forgotten                      *)
(***************************************************************************)
Places  == {"free", "started", "armed", "worker", "detached", "queued", "held", "dropped"}
Waiting == {"started", "armed", "worker", "detached", "queued"}

(***************************************************************************)
(* new and out are outside run; the others are steps inside it.            *)
(***************************************************************************)
OutsideLabels == {"new", "out"}
StopLabels    == {"stop", "interrupt"}
LoopLabels    == {"enter", "claim", "epoll", "dispatch", "detached", "wait", "token", "leave"}
ScopeLabels   == {"claimed", "callback", "start", "finish"}
Labels        == OutsideLabels \cup StopLabels \cup LoopLabels \cup ScopeLabels

Inside(t)  == pc[t] \notin OutsideLabels
AllOutside == \A t \in Threads : ~Inside(t)

Goto(c, label) == pc' = [pc EXCEPT ![c] = label]

-----------------------------------------------------------------------------
Init ==
    /\ usage \in Usages
    /\ outstanding_work = 0
    /\ stopped = 0
    /\ nthread = 0
    /\ demultiplexing_thread = Null
    /\ completed_ops = << >>
    /\ events = {}
    /\ ready = [op \in Ops |-> 0]
    /\ place = [op \in Ops |-> "free"]
    /\ pc    = [c \in Callers |-> IF c \in Threads THEN "new" ELSE "out"]
    /\ cur   = [c \in Callers |-> Null]
    /\ new   = [c \in Callers |-> Null]
    /\ ret   = [c \in Callers |-> "out"]

-----------------------------------------------------------------------------
(***************************************************************************)
(* Queueing an operation: ready_ is set, then the operation is appended.   *)
(***************************************************************************)
\* Seeded faults: ready_ is not set; the operation jumps the queue.
PostDeferredCompletion_unready(op) ==
    /\ place' = [place EXCEPT ![op] = "queued"]
    /\ completed_ops' = Append(completed_ops, op)
    /\ UNCHANGED ready

PostDeferredCompletion_front(op) ==
    /\ ready' = [ready EXCEPT ![op] = 1]
    /\ place' = [place EXCEPT ![op] = "queued"]
    /\ completed_ops' = << op >> \o completed_ops

PostDeferredCompletion(op) ==
    /\ ready' = [ready EXCEPT ![op] = 1]
    /\ place' = [place EXCEPT ![op] = "queued"]
    /\ completed_ops' = Append(completed_ops, op)

(***************************************************************************)
(* stop(): the caller that turns stopped_ to 1 queues the interrupt.       *)
(***************************************************************************)
CallStop(c, back) ==
    /\ Goto(c, "stop")
    /\ ret' = [ret EXCEPT ![c] = back]

StopCas(c) ==
    /\ pc[c] = "stop"
    /\ stopped' = 1
    /\ IF stopped = 0
       THEN Goto(c, "interrupt") /\ UNCHANGED ret
       ELSE Goto(c, ret[c]) /\ ret' = [ret EXCEPT ![c] = "out"]
    /\ UNCHANGED << usage, outstanding_work, nthread, demultiplexing_thread,
                    completed_ops, events, ready, place, cur, new >>

StopInterrupt(c) ==
    /\ pc[c] = "interrupt"
    /\ completed_ops' = Append(completed_ops, Null)
    /\ Goto(c, ret[c])
    /\ ret' = [ret EXCEPT ![c] = "out"]
    /\ UNCHANGED << shared, events, ready, place, cur, new >>

(***************************************************************************)
(* Starting an operation: work_started() first; then the operation is      *)
(* queued at once (post, or I/O that completed immediately), armed on a    *)
(* socket, or handed to the file or resolver thread.                       *)
(***************************************************************************)
OutsiderMayStart ==
    CASE usage = "single" -> \A t \in Threads : pc[t] = "new"
      [] usage = "rerun"  -> AllOutside
      [] OTHER            -> TRUE

MayCallService(c) ==
    \/ c \in Threads /\ pc[c] = "callback"
    \/ c \in Outsiders /\ pc[c] = "out" /\ OutsiderMayStart

\* Seeded fault: an operation is started without work_started().
WorkStarted_uncounted(c, op) ==
    /\ ready' = [ready EXCEPT ![op] = 0]
    /\ place' = [place EXCEPT ![op] = "started"]
    /\ new' = [new EXCEPT ![c] = op]
    /\ Goto(c, "start")
    /\ UNCHANGED outstanding_work

WorkStarted(c, op) ==
    /\ outstanding_work' = outstanding_work + 1
    /\ ready' = [ready EXCEPT ![op] = 0]
    /\ place' = [place EXCEPT ![op] = "started"]
    /\ new' = [new EXCEPT ![c] = op]
    /\ Goto(c, "start")

StartOperation(c) ==
    /\ MayCallService(c)
    /\ \E op \in Ops : place[op] = "free" /\ WorkStarted(c, op)
    /\ UNCHANGED << usage, stopped, nthread, demultiplexing_thread, completed_ops,
                    events, cur, ret >>

\* The caller returns to user code, or, where the operation restarted
\* itself, to the end of the scope that counts its work as finished.
AfterSubmit(c) ==
    IF c \in Outsiders THEN "out" ELSE IF cur[c] = Null THEN "finish" ELSE "callback"

Submit(c) ==
    /\ pc[c] = "start"
    /\ \/ PostDeferredCompletion(new[c])
       \/ /\ \E p \in {"armed", "worker"} : place' = [place EXCEPT ![new[c]] = p]
          /\ UNCHANGED << ready, completed_ops >>
    /\ new' = [new EXCEPT ![c] = Null]
    /\ Goto(c, AfterSubmit(c))
    /\ UNCHANGED << shared, events, cur, ret >>

UserStop(c) ==
    /\ ExplicitStop
    /\ MayCallService(c)
    /\ CallStop(c, pc[c])
    /\ UNCHANGED << shared, completed_ops, events, ready, place, cur, new >>

(***************************************************************************)
(* The file and resolver threads complete what was handed to them.         *)
(***************************************************************************)
WorkerCompletes(op) ==
    /\ place[op] = "worker"
    /\ PostDeferredCompletion(op)
    /\ UNCHANGED << shared, events, pc, local >>

-----------------------------------------------------------------------------
(***************************************************************************)
(* run()                                                                   *)
(***************************************************************************)
MayRun(t) ==
    CASE usage = "single" -> pc[t] = "new" /\ \A o \in Outsiders : pc[o] = "out"
      [] usage = "rerun"  -> ~Inside(t) /\ \A o \in Outsiders : pc[o] = "out"
      [] OTHER            -> ~Inside(t)

Run(t) ==
    /\ MayRun(t)
    /\ IF outstanding_work = 0
       THEN CallStop(t, "enter")
       ELSE Goto(t, "enter") /\ UNCHANGED ret
    /\ UNCHANGED << shared, completed_ops, events, ready, place, cur, new >>

Enter(t) ==
    /\ pc[t] = "enter"
    /\ nthread' = nthread + 1
    /\ Goto(t, "claim")
    /\ UNCHANGED << usage, outstanding_work, stopped, demultiplexing_thread,
                    completed_ops, events, ready, place, local >>

\* Seeded faults: leaving clears the role whoever holds it, or never.
RoleAfter_cleared(t) == Null
RoleAfter_kept(t)    == demultiplexing_thread

RoleAfter(t) == IF demultiplexing_thread = t THEN Null ELSE demultiplexing_thread

Leave(t) ==
    /\ pc[t] = "leave"
    /\ nthread' = nthread - 1
    /\ demultiplexing_thread' = RoleAfter(t)
    /\ Goto(t, "out")
    /\ UNCHANGED << usage, outstanding_work, stopped, completed_ops, events, ready,
                    place, local >>

(***************************************************************************)
(* do_one(), first half: one thread claims the role of demultiplexer and   *)
(* keeps it until it leaves run; it polls with a bounded timeout, so an    *)
(* empty answer is always possible.                                        *)
(***************************************************************************)
NeedEpollWait(t) == demultiplexing_thread \in {Null, t}

Claim(t) ==
    /\ pc[t] = "claim"
    /\ IF NeedEpollWait(t)
       THEN demultiplexing_thread' = t /\ Goto(t, "epoll")
       ELSE UNCHANGED demultiplexing_thread /\ Goto(t, "wait")
    /\ UNCHANGED << usage, outstanding_work, stopped, nthread, completed_ops, events,
                    ready, place, local >>

AfterEvents(evs) == IF evs = {} THEN "wait" ELSE "dispatch"

EpollWait(t) ==
    /\ pc[t] = "epoll"
    /\ events' \in SUBSET {op \in Ops : place[op] = "armed"}
    /\ Goto(t, AfterEvents(events'))
    /\ UNCHANGED << shared, completed_ops, ready, place, local >>

\* An event whose socket holds no operation any more is only reported on
\* the console.
DetachOperation(t) ==
    /\ pc[t] = "dispatch"
    /\ \E op \in events :
         /\ events' = events \ {op}
         /\ IF place[op] = "armed"
            THEN /\ place' = [place EXCEPT ![op] = "detached"]
                 /\ new' = [new EXCEPT ![t] = op]
                 /\ Goto(t, "detached")
            ELSE Goto(t, AfterEvents(events')) /\ UNCHANGED << place, new >>
    /\ UNCHANGED << shared, completed_ops, ready, cur, ret >>

PostDetached(t) ==
    /\ pc[t] = "detached"
    /\ PostDeferredCompletion(new[t])
    /\ new' = [new EXCEPT ![t] = Null]
    /\ Goto(t, AfterEvents(events))
    /\ UNCHANGED << shared, events, cur, ret >>

(***************************************************************************)
(* do_one(), second half: completed_ops_.wait.  The wait is always timed.  *)
(* It can also time out while the queue is no longer empty; that is the    *)
(* timeout taken just before the append.                                   *)
(***************************************************************************)
PopOperation(t) ==
    /\ pc[t] = "wait"
    /\ completed_ops # << >>
    /\ Head(completed_ops) # Null
    /\ completed_ops' = Tail(completed_ops)
    /\ cur' = [cur EXCEPT ![t] = Head(completed_ops)]
    /\ place' = [place EXCEPT ![Head(completed_ops)] = "held"]
    /\ Goto(t, "claimed")
    /\ UNCHANGED << shared, events, ready, new, ret >>

PopInterrupt(t) ==
    /\ pc[t] = "wait"
    /\ completed_ops # << >>
    /\ Head(completed_ops) = Null
    /\ completed_ops' = Tail(completed_ops)
    /\ Goto(t, "token")
    /\ UNCHANGED << shared, events, ready, place, local >>

WaitTimeout(t) ==
    /\ pc[t] = "wait"
    /\ completed_ops = << >>
    /\ Goto(t, "claim")
    /\ UNCHANGED << shared, completed_ops, events, ready, place, local >>

SyscallFails(t) ==
    /\ SyscallMayFail
    /\ pc[t] \in {"epoll", "wait"}
    /\ Goto(t, "leave")
    /\ UNCHANGED << shared, completed_ops, events, ready, place, local >>

(***************************************************************************)
(* The interrupt: a stopped service hands it on to the next thread.        *)
(***************************************************************************)
\* Seeded fault: the thread that pops the interrupt keeps it.
PassInterrupt_keeps(t) ==
    /\ pc[t] = "token"
    /\ Goto(t, IF stopped # 0 THEN "leave" ELSE "claim")
    /\ UNCHANGED << shared, completed_ops, events, ready, place, local >>

PassInterrupt(t) ==
    /\ pc[t] = "token"
    /\ IF stopped # 0
       THEN completed_ops' = Append(completed_ops, Null) /\ Goto(t, "leave")
       ELSE UNCHANGED completed_ops /\ Goto(t, "claim")
    /\ UNCHANGED << shared, events, ready, place, local >>

(***************************************************************************)
(* A popped operation: run only if ready_ was set.  complete() either      *)
(* calls back the user or, where the I/O has more to do (EAGAIN, a partial *)
(* transfer, the second stage of a connect), resets the operation and      *)
(* starts it again.                                                        *)
(***************************************************************************)
Complete(t) ==
    /\ pc[t] = "claimed"
    /\ ready' = [ready EXCEPT ![cur[t]] = 1]
    /\ IF ready[cur[t]] = 1
       THEN Goto(t, "callback") /\ UNCHANGED << place, cur >>
       ELSE /\ Goto(t, "claim")
            /\ place' = [place EXCEPT ![cur[t]] = "dropped"]
            /\ cur' = [cur EXCEPT ![t] = Null]
    /\ UNCHANGED << shared, completed_ops, events, new, ret >>

\* Seeded fault: the restart does not return, so that the callback and
\* "delete op" follow it.
Restart_fallsThrough(t) ==
    /\ pc[t] = "claimed"
    /\ ready[cur[t]] = 1
    /\ WorkStarted(t, cur[t])
    /\ UNCHANGED << usage, stopped, nthread, demultiplexing_thread, completed_ops,
                    events, cur, ret >>

Restart(t) ==
    /\ pc[t] = "claimed"
    /\ ready[cur[t]] = 1
    /\ WorkStarted(t, cur[t])
    /\ cur' = [cur EXCEPT ![t] = Null]
    /\ UNCHANGED << usage, stopped, nthread, demultiplexing_thread, completed_ops,
                    events, ret >>

CallbackReturns(t) ==
    /\ pc[t] = "callback"
    /\ place' = [place EXCEPT ![cur[t]] = "free"]
    /\ cur' = [cur EXCEPT ![t] = Null]
    /\ Goto(t, "finish")
    /\ UNCHANGED << shared, completed_ops, events, ready, new, ret >>

\* Seeded faults: the service stops one piece of work too early, or tests the
\* counter as it was before the decrement.
LastWork_early(left)    == left <= 1
LastWork_testsOld(left) == left + 1 = 0

LastWork(left) == left = 0

WorkFinished(t) ==
    /\ pc[t] = "finish"
    /\ outstanding_work' = outstanding_work - 1
    /\ IF LastWork(outstanding_work')
       THEN CallStop(t, "claim")
       ELSE Goto(t, "claim") /\ UNCHANGED ret
    /\ UNCHANGED << usage, stopped, nthread, demultiplexing_thread, completed_ops,
                    events, ready, place, cur, new >>

-----------------------------------------------------------------------------
\* The steps that library code takes by itself, in stop() and in run().
CallerStep(c) == StopCas(c) \/ StopInterrupt(c) \/ Submit(c)

ThreadStep(t) ==
    \/ Enter(t) \/ Claim(t) \/ EpollWait(t) \/ DetachOperation(t) \/ PostDetached(t)
    \/ PopOperation(t) \/ PopInterrupt(t) \/ WaitTimeout(t) \/ SyscallFails(t)
    \/ PassInterrupt(t) \/ Complete(t) \/ Restart(t) \/ WorkFinished(t) \/ Leave(t)

Next ==
    \/ \E c \in Callers : CallerStep(c) \/ StartOperation(c) \/ UserStop(c)
    \/ \E t \in Threads : ThreadStep(t) \/ Run(t) \/ CallbackReturns(t)
    \/ \E op \in Ops : WorkerCompletes(op)

Spec == Init /\ [][Next]_vars

(***************************************************************************)
(* Fairness: a thread that is running keeps running (the operating system  *)
(* schedules it and every wait is timed), the worker threads go on, every  *)
(* thread that is going to call run does, and a callback returns.          *)
(* Callbacks, and the program that prepares work before it calls run, are  *)
(* strongly fair: while they call the service they are only now and then   *)
(* at the point where they could return or call run.                       *)
(***************************************************************************)
Fairness ==
    /\ \A c \in Callers : WF_vars(CallerStep(c))
    /\ \A t \in Threads :
         WF_vars(ThreadStep(t)) /\ SF_vars(Run(t)) /\ SF_vars(CallbackReturns(t))
    /\ \A op \in Ops : WF_vars(WorkerCompletes(op))

FairSpec == Spec /\ Fairness

-----------------------------------------------------------------------------
\* The shape of the state, before the accounting says that the counter does
\* not go below zero.
StateShape ==
    /\ usage \in Usages
    /\ outstanding_work \in Int
    /\ stopped \in {0, 1}
    /\ nthread \in Int
    /\ demultiplexing_thread \in Threads \cup {Null}
    /\ completed_ops \in Seq(Ops \cup {Null})
    /\ events \in SUBSET Ops
    /\ ready \in [Ops -> {0, 1}]
    /\ place \in [Ops -> Places]
    /\ pc \in [Callers -> Labels]
    /\ cur \in [Callers -> Ops \cup {Null}]
    /\ new \in [Callers -> Ops \cup {Null}]
    /\ ret \in [Callers -> {"out", "enter", "claim", "callback"}]

\* Every variable has its type, and outstanding_work_, a signed long that is
\* only ever compared with zero, never goes below zero.
TypeOK == StateShape /\ outstanding_work \in Nat

(***************************************************************************)
(* The safety properties.                                                  *)
(***************************************************************************)
Pending == {op \in Ops : place[op] \in Waiting}

\* Threads that owe a work_finished(): inside the scope of on_exit in
\* do_one(), also while a callback is inside stop().
Owing == {t \in Threads : \/ pc[t] \in ScopeLabels
                          \/ pc[t] \in StopLabels /\ ret[t] = "callback"}

\* outstanding_work_ counts exactly the operations that are started and not
\* yet popped, and the threads that are completing one: work_started() and
\* work_finished() balance on every path (post, arm, hand over, restart).
WorkAccounting == outstanding_work = Cardinality(Pending) + Cardinality(Owing)

\* No operation object is ever known to two parties that could each complete
\* it: it is at most once in completed_ops_, no thread runs or starts one
\* that is queued, armed or run elsewhere, so complete() runs once per start
\* and "delete op" never frees an object that something still refers to.
OneOwner ==
    /\ \A i, j \in DOMAIN completed_ops :
         i # j /\ completed_ops[i] # Null => completed_ops[i] # completed_ops[j]
    /\ \A op \in Ops : place[op] = "queued" <=> \E i \in DOMAIN completed_ops : completed_ops[i] = op
    /\ \A c \in Callers :
         /\ cur[c] # Null => place[cur[c]] = "held"
         /\ new[c] # Null => place[new[c]] \in {"started", "detached"}
    /\ \A c, d \in Callers : c # d =>
         /\ cur[c] # Null => cur[c] # cur[d]
         /\ new[c] # Null => new[c] # new[d]

\* Whatever is in completed_ops_ has ready_ set when do_one() tests it, so the
\* test at epoll_service.cpp:236 never forgets an operation that was popped.
NothingDropped ==
    /\ \A op \in Ops : place[op] = "queued" => ready[op] = 1
    /\ \A op \in Ops : place[op] # "dropped"

\* events_ is one array shared by all threads without a lock: from epoll_wait
\* to the end of the dispatch loop at most one thread uses it, and every event
\* left in it is for an operation that is still attached to its socket.
PollLabels == {"epoll", "dispatch", "detached"}
OneDispatcher ==
    /\ \A t, u \in Threads : pc[t] \in PollLabels /\ pc[u] \in PollLabels => t = u
    /\ \A op \in events : place[op] = "armed"

Interrupts == Cardinality({i \in DOMAIN completed_ops : completed_ops[i] = Null})
              + Cardinality({c \in Callers : pc[c] \in {"interrupt", "token"}})

\* Once stopped_ is set there is exactly one interrupt, in the queue or in
\* the hands of a thread that is about to put it there, and none before: each
\* thread that leaves hands it on, so no thread of run misses it.
OneInterrupt == Interrupts = stopped

\* A caller that stops the service because it saw outstanding_work_ at zero
\* still finds it at zero when it gets to stop(): the value read by the
\* interlocked decrement, or at the top of run(), cannot go stale in between.
\* It needs work to be started from callbacks or from outside run only.
ZeroIsFinal ==
    usage # "open" =>
      \A c \in Callers : pc[c] \in StopLabels /\ ret[c] \in {"enter", "claim"}
        => outstanding_work = 0 /\ Pending = {}

\* "The stopped_ flag is always checked to ensure that any leftover
\* interrupts from a previous run invocation are ignored"
\* (epoll_service.cpp:254-255): without an explicit stop or a failure, the
\* interrupt makes a thread leave run() only when no work is outstanding.
LeftoverInterruptsIgnored ==
    ~ExplicitStop /\ ~SyscallMayFail =>
      \A t \in Threads : pc[t] = "leave" => outstanding_work = 0

(***************************************************************************)
(* Liveness, under FairSpec.                                               *)
(***************************************************************************)
\* A stopped service lets every thread out of run(): the single interrupt
\* reaches all of them, past the operations queued before it.  Threads that
\* call run() over and over may keep it from the others, so each calls once.
StopReachesEveryThread ==
    \A t \in Threads : (usage = "single" /\ stopped = 1 /\ Inside(t)) ~> ~Inside(t)

\* A queued operation is completed, whichever thread holds the role of
\* demultiplexer, unless the service is stopped first or every thread has
\* left after a failed system call.  Where threads call run() again, each of
\* their calls may fail, and one that does is excuse enough.
AllLeft == \A t \in Threads : pc[t] = "out"
CallsFail == AllLeft \/ (usage # "single" /\ \E t \in Threads : pc[t] = "leave")
QueuedIsServed ==
    \A op \in Ops :
       place[op] = "queued" ~> (place[op] # "queued" \/ stopped = 1 \/ CallsFail)

\* When the last piece of work is finished somebody stops the service: the
\* decrement to zero is never lost between two threads that finish together.
DrainedServiceStops ==
    (outstanding_work = 0 /\ \E t \in Threads : pc[t] # "new") ~> (stopped = 1)

\* While an operation waits for epoll and some thread is in run(), somebody
\* gets back to epoll_wait: the role of demultiplexer is given up by a thread
\* that leaves, also when it leaves because a system call failed.
PollingContinues ==
    (\E op \in Ops : place[op] = "armed") /\ ~AllOutside
      ~> (\E t \in Threads : pc[t] = "epoll") \/ stopped = 1 \/ AllOutside
=============================================================================
