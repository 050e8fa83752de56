------------------------- MODULE ConnectionContext -------------------------
(***************************************************************************)
(* One connection of the callback HTTP server.  Threads of the service     *)
(* complete its operations; the callback may start further operations on   *)
(* it.  ref_ counts the operations that are outstanding or being called    *)
(* back, and the thread that brings it to zero closes the SSL session in   *)
(* good order (type https) or deletes the context.                         *)
(*                                                                         *)
(* The context is used without a lock: ref_, close_flag_ and               *)
(* shutdown_flag_ are read and written by single atomic instructions.      *)
(***************************************************************************)
EXTENDS Integers, FiniteSets

CONSTANTS
    Threads,
    Kind,       \* type_
    Calls,      \* what the program calls on a context in its callbacks
    MaxStarts   \* bound on the operations the program starts

ASSUME ThreadsAssumption == IsFiniteSet(Threads) /\ Threads # {}
ASSUME KindAssumption    == Kind \in {"http", "https", "tcp", "ssl"}
ASSUME CallsAssumption   == Calls \subseteq {"recv", "send", "close", "shutdown"}
ASSUME StartsAssumption  == MaxStarts \in Nat

IsServer == Kind \in {"http", "https"}
HasSsl   == Kind \in {"https", "ssl"}
First    == IF IsServer THEN "accept" ELSE "connect"

OpNames == {"accept", "connect", "handshake", "recv", "send", "shutdown"}

VARIABLES
    ref, close_flag, shutdown_flag,
    deleted,     \* cbOnClosed was called and the context deleted
    pending,     \* outstanding operations: name and the thread that started it
    accepting,   \* the server has an accept outstanding
    started,     \* operations started by the program
    pc,          \* position of a thread
    op,          \* the operation it completes
    new,         \* the operation it starts
    back,        \* where it goes on after starting it
    reject       \* ret of the callback

flags  == << close_flag, shutdown_flag >>
locals == << op, new, back, reject >>
vars   == << ref, flags, deleted, pending, accepting, started, pc, locals >>

Labels == {"idle", "callback", "cas", "count", "issue", "dec", "zero", "next"}

Goto(t, label) == pc' = [pc EXCEPT ![t] = label]

\* startHTTP, startHTTPS: ref_ is set to 1; connect: Connect() counts itself.
Init ==
    /\ ref = 1
    /\ close_flag = FALSE /\ shutdown_flag = FALSE
    /\ deleted = FALSE
    /\ \E t \in Threads : pending = {<< First, t >>}
    /\ accepting = IsServer
    /\ started = 0
    /\ pc = [t \in Threads |-> "idle"]
    /\ op = [t \in Threads |-> First]
    /\ new = [t \in Threads |-> First]
    /\ back = [t \in Threads |-> "dec"]
    /\ reject = [t \in Threads |-> FALSE]

check_closed == close_flag \/ (HasSsl /\ shutdown_flag)

-----------------------------------------------------------------------------
(***************************************************************************)
(* Completions.                                                            *)
(***************************************************************************)
\* on_connect, on_http_accept, on_https_accept, on_handshake, on_send,
\* on_receive call the program; on_shutdown does not.
Completes(t, p) ==
    /\ pc[t] = "idle"
    /\ p \in pending
    /\ pending' = pending \ {p}
    /\ accepting' = (accepting /\ p[1] # "accept")
    /\ op' = [op EXCEPT ![t] = p[1]]
    /\ reject' = [reject EXCEPT ![t] = FALSE]
    /\ Goto(t, IF p[1] = "shutdown" THEN "dec" ELSE "callback")
    /\ UNCHANGED << ref, flags, deleted, started, new, back >>

\* An accept that fails deletes the context at once, and the server has no
\* accept any more.
AcceptFails(p) ==
    /\ p \in pending
    /\ p[1] = "accept"
    /\ pending' = pending \ {p}
    /\ accepting' = FALSE
    /\ deleted' = TRUE
    /\ UNCHANGED << ref, flags, started, pc, locals >>

(***************************************************************************)
(* Starting an operation: test the flags, count, start.                    *)
(***************************************************************************)
\* Where the counting begins.  Shutdown() first sets shutdown_flag_.
Counting(o) == IF o = "shutdown" THEN "cas" ELSE "count"

Begin(t, o, label) ==
    /\ new' = [new EXCEPT ![t] = o]
    /\ back' = [back EXCEPT ![t] = label]
    /\ Goto(t, Counting(o))

\* The program has one receive and one send at a time, and nothing on an SSL
\* connection before the handshake is over.
MayStart(t, o) ==
    /\ HasSsl => op[t] # First
    /\ o # "shutdown" =>
         /\ \A p \in pending : p[1] # o
         /\ \A u \in Threads : pc[u] \in {"count", "issue"} => new[u] # o

\* Recv, Send, and Shutdown called by the program.
CallStart(t, o) ==
    /\ pc[t] = "callback"
    /\ o \in Calls \ {"close"}
    /\ started < MaxStarts
    /\ o = "shutdown" => HasSsl
    /\ MayStart(t, o)
    /\ ~check_closed
    /\ started' = started + 1
    /\ Begin(t, o, "callback")
    /\ UNCHANGED << ref, flags, deleted, pending, accepting, op, reject >>

\* if (sync_compare_and_swap(&shutdown_flag_, 0, 1)): the count depends on it,
\* the asyn_shutdown() on the next line does not.
SetShutdownFlag(t) ==
    /\ pc[t] = "cas"
    /\ shutdown_flag' = TRUE
    /\ Goto(t, IF shutdown_flag THEN "issue" ELSE "count")
    /\ UNCHANGED << ref, close_flag, deleted, pending, accepting, started, locals >>

\* Seeded fault: the operation is not counted.
Count_missing(t) ==
    /\ pc[t] = "count"
    /\ Goto(t, "issue")
    /\ UNCHANGED << ref, flags, deleted, pending, accepting, started, locals >>

Count(t) ==
    /\ pc[t] = "count"
    /\ ref' = ref + 1
    /\ Goto(t, "issue")
    /\ UNCHANGED << flags, deleted, pending, accepting, started, locals >>

Issue(t) ==
    /\ pc[t] = "issue"
    /\ pending' = pending \cup {<< new[t], t >>}
    /\ Goto(t, back[t])
    /\ UNCHANGED << ref, flags, deleted, accepting, started, locals >>

-----------------------------------------------------------------------------
(***************************************************************************)
(* The end of a callback.                                                  *)
(***************************************************************************)
\* Close() called by the program.
CallClose(t) ==
    /\ pc[t] = "callback"
    /\ "close" \in Calls
    /\ close_flag' = TRUE
    /\ UNCHANGED << ref, shutdown_flag, deleted, pending, accepting, started, pc, locals >>

\* The callback returns non-zero: Close().
ReturnsError(t) ==
    /\ pc[t] = "callback"
    /\ close_flag' = TRUE
    /\ reject' = [reject EXCEPT ![t] = TRUE]
    /\ Goto(t, "dec")
    /\ UNCHANGED << ref, shutdown_flag, deleted, pending, accepting, started, op, new, back >>

\* The callback returns zero: an SSL connection that was just established
\* starts its handshake, unless the callback closed it.
ReturnsOk(t) ==
    /\ pc[t] = "callback"
    /\ IF op[t] = First /\ HasSsl /\ ~check_closed
         THEN Begin(t, "handshake", "dec")
         ELSE Goto(t, "dec") /\ UNCHANGED << new, back >>
    /\ UNCHANGED << ref, flags, deleted, pending, accepting, started, op, reject >>

(***************************************************************************)
(* CheckAndDelete().                                                       *)
(***************************************************************************)
After(t) == IF op[t] = "accept" /\ ~reject[t] THEN "next" ELSE "idle"

\* Seeded fault: the context is given up with one reference left.
Dec_early(t) ==
    /\ pc[t] = "dec"
    /\ ref' = ref - 1
    /\ Goto(t, IF ref' <= 1 THEN "zero" ELSE After(t))
    /\ UNCHANGED << flags, deleted, pending, accepting, started, locals >>

Dec(t) ==
    /\ pc[t] = "dec"
    /\ ref' = ref - 1
    /\ Goto(t, IF ref' = 0 THEN "zero" ELSE After(t))
    /\ UNCHANGED << flags, deleted, pending, accepting, started, locals >>

\* Seeded fault: a session that was shut down is shut down again.
NeedsShutdown_again == Kind = "https" /\ ~close_flag

NeedsShutdown == Kind = "https" /\ ~close_flag /\ ~shutdown_flag

ShutdownAtZero(t) ==
    /\ pc[t] = "zero"
    /\ NeedsShutdown
    /\ Begin(t, "shutdown", After(t))
    /\ UNCHANGED << ref, flags, deleted, pending, accepting, started, op, reject >>

Delete(t) ==
    /\ pc[t] = "zero"
    /\ ~NeedsShutdown
    /\ deleted' = TRUE
    /\ Goto(t, After(t))
    /\ UNCHANGED << ref, flags, pending, accepting, started, locals >>

\* on_http_accept, on_https_accept: a new context waits for the next client.
NextAccept(t) ==
    /\ pc[t] = "next"
    /\ accepting' = TRUE
    /\ Goto(t, "idle")
    /\ UNCHANGED << ref, flags, deleted, pending, started, locals >>

-----------------------------------------------------------------------------
LibraryStep(t) ==
    \/ SetShutdownFlag(t) \/ Count(t) \/ Issue(t)
    \/ Dec(t) \/ ShutdownAtZero(t) \/ Delete(t) \/ NextAccept(t)

CallbackReturns(t) == ReturnsOk(t) \/ ReturnsError(t)

Next ==
    \/ \E p \in pending : AcceptFails(p) \/ \E t \in Threads : Completes(t, p)
    \/ \E t \in Threads :
         \/ LibraryStep(t) \/ CallbackReturns(t) \/ CallClose(t)
         \/ \E o \in OpNames : CallStart(t, o)

Spec == Init /\ [][Next]_vars

(***************************************************************************)
(* Fairness: threads are scheduled, callbacks return, and every operation  *)
(* completes.  The last is an assumption about the stream.                 *)
(***************************************************************************)
Fairness ==
    /\ \A t \in Threads : WF_vars(LibraryStep(t)) /\ WF_vars(CallbackReturns(t))
    /\ WF_vars(\E p \in pending, t \in Threads : Completes(t, p))

FairSpec == Spec /\ Fairness

-----------------------------------------------------------------------------
TypeOK ==
    /\ ref \in Nat
    /\ close_flag \in BOOLEAN /\ shutdown_flag \in BOOLEAN
    /\ deleted \in BOOLEAN /\ accepting \in BOOLEAN
    /\ pending \subseteq OpNames \X Threads
    /\ started \in 0 .. MaxStarts
    /\ pc \in [Threads -> Labels]
    /\ op \in [Threads -> OpNames]
    /\ new \in [Threads -> OpNames]
    /\ back \in [Threads -> {"callback", "dec", "idle", "next"}]
    /\ reject \in [Threads -> BOOLEAN]

\* Threads that work for the context between the completion of an operation
\* and CheckAndDelete(), threads that start an operation, and those of them
\* that have counted it.
Starting == {t \in Threads : pc[t] \in {"cas", "count", "issue"}}
Holders  == {t \in Threads : \/ pc[t] \in {"callback", "dec"}
                             \/ t \in Starting /\ back[t] \in {"callback", "dec"}}
Counted  == {t \in Threads : pc[t] = "issue"}

\* ref_ is the number of operations outstanding, counted to be started, or
\* being called back, as long as there is a context.
RefCounts ==
    ~deleted => ref = Cardinality(pending) + Cardinality(Holders) + Cardinality(Counted)

\* The context is deleted only when no operation and no thread refers to it,
\* so that no callback and no second delete can touch it.
DeletedIsUnused ==
    deleted => pending = {} /\ \A t \in Threads : pc[t] \in {"idle", "next"}

\* The thread that saw zero has the context to itself: what it starts then,
\* the SSL shutdown, meets no other operation on the stream and no callback.
Last(t) == pc[t] = "zero" \/ (t \in Starting /\ back[t] \notin {"callback", "dec"})

LastIsAlone ==
    \A t \in Threads : Last(t) =>
        pending = {} /\ \A u \in Threads \ {t} : pc[u] \in {"idle", "next"}

\* The assertion in CheckAndDelete(): ref_ is never counted below zero.
AssertHolds == \A t \in Threads : pc[t] = "dec" => ref >= 1

\* A connection is deleted when its operations have completed and the program
\* starts no more: there is no cycle of references or shutdowns.
ContextGoes == <>deleted
=============================================================================
