----------------------- MODULE EpollServiceRefinement -----------------------
(***************************************************************************)
(* EpollService implements CompletionPort, whatever way the program uses   *)
(* it.                                                                     *)
(***************************************************************************)
EXTENDS EpollService

\* An operation counts as pending from work_started() until a thread pops it
\* and as running until its callback has returned or it started itself again.
lifeBar == [op \in Ops |->
              CASE place[op] \in Waiting -> "pending"
                [] place[op] = "free"    -> "idle"
                [] OTHER                 -> "running"]

phaseBar == [t \in Threads |->
               CASE pc[t] = "new" -> "before"
                 [] pc[t] = "out" -> "after"
                 [] OTHER         -> "in"]

\* Who is in stop(), before its compare-and-swap, and why: a thread of run()
\* that read outstanding_work_ at zero goes on inside run(), a caller that the
\* program told to stop returns to the program.
drainedBar == {c \in Callers : pc[c] = "stop" /\ ret[c] \in {"enter", "claim"}}
askedBar   == {c \in Callers : pc[c] = "stop" /\ ret[c] \in {"out", "callback"}}

Port == INSTANCE CompletionPort WITH
          life <- lifeBar, runner <- [t \in Threads |-> cur[t]], phase <- phaseBar,
          drained <- drainedBar, asked <- askedBar, halted <- (stopped = 1)

\* The epoll service keeps every promise of CompletionPort: the counter, the
\* interrupt and the shared queue together complete each started operation
\* once, inside run(), stop the service only when the program asks or a
\* thread found no work left, and let no thread out of run() before that
\* unless a system call failed.
ImplementsCompletionPort == Port!PortSpec
=============================================================================
