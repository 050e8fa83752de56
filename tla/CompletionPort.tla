--------------------------- MODULE CompletionPort ---------------------------
(***************************************************************************)
(* What iocp::service promises to a program, without queue, counter or     *)
(* polling: an operation that was started is completed by exactly one      *)
(* thread inside run(); a thread comes out of run() only when the service  *)
(* has halted or a system call has failed; and the service halts only      *)
(* because the program asked for it, or because a thread found no work     *)
(* left.  Finding that and halting are two steps.  The program cannot      *)
(* start work in between, unless it does so from outside at any time.      *)
(***************************************************************************)
CONSTANTS Threads, Outsiders, Ops, Null, Usages, ExplicitStop, SyscallMayFail

VARIABLES
    usage,    \* the way the program uses the service, see EpollService
    life,     \* of an operation: idle, pending or running
    runner,   \* the operation a thread is completing
    phase,    \* of a thread: before, in or after run
    drained,  \* threads that found no work left and are about to halt
    asked,    \* callers that the program told to stop, about to halt
    halted

portVars == << usage, life, runner, phase, drained, asked, halted >>

PortInit ==
    /\ usage \in Usages
    /\ life    = [op \in Ops |-> "idle"]
    /\ runner  = [t \in Threads |-> Null]
    /\ phase   = [t \in Threads |-> "before"]
    /\ drained = {} /\ asked = {}
    /\ halted  = FALSE

AllIdle == \A op \in Ops : life[op] = "idle"

(***************************************************************************)
(* The program calls the service from a completion, or from outside: then  *)
(* before the first run, while no thread is in run, or at any time.        *)
(***************************************************************************)
OutsiderMayCall ==
    /\ usage = "single" => \A t \in Threads : phase[t] = "before"
    /\ usage = "rerun"  => \A t \in Threads : phase[t] # "in"

MayCall(c) ==
    /\ c \notin asked
    /\ \/ c \in Threads /\ runner[c] # Null
       \/ c \in Outsiders /\ OutsiderMayCall

Start(c, op) ==
    /\ MayCall(c)
    /\ life[op] = "idle"
    /\ life' = [life EXCEPT ![op] = "pending"]
    /\ UNCHANGED << usage, runner, phase, drained, asked, halted >>

Ask(c) ==
    /\ ExplicitStop
    /\ MayCall(c)
    /\ asked' = asked \cup {c}
    /\ UNCHANGED << usage, life, runner, phase, drained, halted >>

EnterRun(t) ==
    /\ phase[t] # "in"
    /\ usage = "single" => phase[t] = "before"
    /\ phase' = [phase EXCEPT ![t] = "in"]
    /\ drained' \in {drained} \cup (IF AllIdle THEN {drained \cup {t}} ELSE {})
    /\ UNCHANGED << usage, life, runner, asked, halted >>

\* A thread inside run that completes nothing and is not about to halt.
Free(t) == phase[t] = "in" /\ runner[t] = Null /\ t \notin drained

Begin(t, op) ==
    /\ Free(t)
    /\ life[op] = "pending"
    /\ life' = [life EXCEPT ![op] = "running"]
    /\ runner' = [runner EXCEPT ![t] = op]
    /\ UNCHANGED << usage, phase, drained, asked, halted >>

\* A completion ends with the operation done, or waiting for more I/O.
End(t) ==
    /\ runner[t] # Null /\ t \notin asked
    /\ \E next \in {"idle", "pending"} : life' = [life EXCEPT ![runner[t]] = next]
    /\ runner' = [runner EXCEPT ![t] = Null]
    /\ UNCHANGED << usage, phase, drained, asked, halted >>

Drain(t) ==
    /\ Free(t)
    /\ AllIdle
    /\ drained' = drained \cup {t}
    /\ UNCHANGED << usage, life, runner, phase, asked, halted >>

\* What a thread found is still true when it halts the service.
Halt(c) ==
    /\ c \in drained \cup asked
    /\ c \in drained /\ usage # "open" => AllIdle
    /\ halted'  = TRUE
    /\ drained' = drained \ {c}
    /\ asked'   = asked \ {c}
    /\ UNCHANGED << usage, life, runner, phase >>

LeaveRun(t) ==
    /\ Free(t)
    /\ halted \/ SyscallMayFail
    /\ phase' = [phase EXCEPT ![t] = "after"]
    /\ UNCHANGED << usage, life, runner, drained, asked, halted >>

PortNext ==
    \/ \E c \in Threads \cup Outsiders : Ask(c) \/ Halt(c) \/ \E op \in Ops : Start(c, op)
    \/ \E t \in Threads : \/ EnterRun(t) \/ Drain(t) \/ LeaveRun(t) \/ End(t)
                          \/ \E op \in Ops : Begin(t, op)

PortSpec == PortInit /\ [][PortNext]_portVars
=============================================================================
