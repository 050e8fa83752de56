---------------------------- MODULE EpollReactor ----------------------------
(***************************************************************************)
(* One open socket and the epoll service: in_op_ and out_op_ hold the      *)
(* operation that waits for each direction, event_.events is the library's *)
(* copy of the event mask, and the kernel has its own, set by epoll_ctl.   *)
(* Events are edge triggered (EPOLLET): the kernel reports a direction     *)
(* when something arrives while it is in the kernel's mask, or when a call *)
(* of epoll_ctl finds it ready.                                            *)
(*                                                                         *)
(* Threads run callbacks, and a callback starts operations; one of the     *)
(* threads, the demultiplexer, calls epoll_wait, takes the operations out  *)
(* of the socket, clears the mask and queues them.  None of this is under  *)
(* a lock.                                                                 *)
(*                                                                         *)
(* A program starts a receive only when no receive is outstanding, and the *)
(* same for sends, so an operation is named by its direction.  An          *)
(* operation whose first try completes immediately does not come here; see *)
(* EpollService, which also shows that one thread at a time demultiplexes. *)
(***************************************************************************)
EXTENDS FiniteSets

CONSTANTS
    Threads,
    Demux,    \* the thread that holds the role of demultiplexer
    Duplex    \* "half": one operation at a time; "full": both directions;
              \* "lone": both when the demultiplexer is alone in run()

ASSUME DemuxAssumption  == Demux \in Threads
ASSUME DuplexAssumption == Duplex \in {"half", "full", "lone"}

Dirs == {"in", "out"}

VARIABLES
    slot,      \* slot[d]: in_op_, out_op_ hold the operation of direction d
    mask,      \* event_.events, without the bits that never change
    kmask,     \* the mask that the kernel has for the socket
    pend,      \* the socket is in the kernel's list of ready sockets
    avail,     \* directions in which I/O is possible
    open,      \* the socket is open and registered
    life,      \* where the operation of a direction is
    counted,   \* operations counted in outstanding_work_
    pc, dir,   \* of a thread: position, direction it works on
    back,      \* where it goes on after epoll_ctl
    copied,    \* the mask epoll_ctl has read
    found,     \* the events still to be dispatched
    got        \* epoll_op is not null

kernel  == << kmask, pend, avail, open >>
socket  == << slot, mask, life, counted >>
demuxer == << found, got >>
vars    == << kernel, socket, pc, dir, back, copied, demuxer >>

\* idle, waiting in its slot, taken by the demultiplexer, in completed_ops_,
\* or being completed by a thread.
Lives  == {"idle", "armed", "taken", "queued", "running"}
Labels == {"absent", "poll", "take", "clear", "post", "run", "complete", "callback",
           "count", "flag", "copy", "apply"}

Goto(t, label) == pc' = [pc EXCEPT ![t] = label]

\* The top of the loop in do_one().
Top(t) == IF t = Demux THEN "poll" ELSE "run"

\* The threads inside run().
Crews == IF Duplex = "lone" THEN {Threads, {Demux}} ELSE {Threads}

Init ==
    /\ slot = [d \in Dirs |-> FALSE]
    /\ mask = {} /\ kmask = {}
    /\ pend = FALSE
    /\ avail = {}
    /\ open = TRUE
    /\ life = [d \in Dirs |-> "idle"]
    /\ counted = {}
    /\ \E crew \in Crews : pc = [t \in Threads |-> IF t \in crew THEN Top(t) ELSE "absent"]
    /\ dir = [t \in Threads |-> "in"]
    /\ back = [t \in Threads |-> "run"]
    /\ copied = [t \in Threads |-> {}]
    /\ found = {}
    /\ got = FALSE

-----------------------------------------------------------------------------
(***************************************************************************)
(* The kernel and the peer (external).                                     *)
(***************************************************************************)
Arrive(d) ==
    /\ open
    /\ avail' = avail \cup {d}
    /\ pend' = (pend \/ d \in kmask)
    /\ UNCHANGED << kmask, open, socket, pc, dir, back, copied, demuxer >>

\* EPOLLHUP, EPOLLERR and EPOLLRDHUP are always in the mask.
HangUp ==
    /\ open
    /\ pend' = TRUE
    /\ UNCHANGED << kmask, avail, open, socket, pc, dir, back, copied, demuxer >>

(***************************************************************************)
(* Starting an operation: begin_recv and begin_send store the operation in *)
(* the socket, count it, set the bit in the mask and, if the bit was       *)
(* clear, call epoll_ctl.  Receives and sends that are not finished start  *)
(* themselves again from their own completion.                             *)
(***************************************************************************)
SetOp(t, d, label) ==
    /\ slot' = [slot EXCEPT ![d] = TRUE]
    /\ life' = [life EXCEPT ![d] = "armed"]
    /\ dir' = [dir EXCEPT ![t] = d]
    /\ back' = [back EXCEPT ![t] = label]
    /\ Goto(t, "count")
    /\ UNCHANGED << mask, counted, kmask, pend, open, copied, demuxer >>

MayOverlap ==
    \/ Duplex = "full"
    \/ Duplex = "lone" /\ \A t \in Threads \ {Demux} : pc[t] = "absent"

MayStart(d) ==
    /\ open
    /\ life[d] = "idle"
    /\ MayOverlap \/ \A e \in Dirs : life[e] = "idle"

StartOperation(t, d) ==
    /\ pc[t] = "callback"
    /\ MayStart(d)
    /\ SetOp(t, d, "callback")
    /\ UNCHANGED avail

\* The I/O takes all there is, or leaves something.
Transfer(d) == avail' \in {avail, avail \ {d}}

\* Seeded fault: no return after the restart, so the operation is finished too.
Restart_fallsThrough(t) ==
    /\ pc[t] = "complete"
    /\ open
    /\ Transfer(dir[t])
    /\ SetOp(t, dir[t], "complete")

Restart(t) ==
    /\ pc[t] = "complete"
    /\ open
    /\ Transfer(dir[t])
    /\ SetOp(t, dir[t], Top(t))

\* Seeded fault: the operation is not counted.
WorkStarted_missing(t) ==
    /\ pc[t] = "count"
    /\ Goto(t, "flag")
    /\ UNCHANGED << kernel, socket, dir, back, copied, demuxer >>

WorkStarted(t) ==
    /\ pc[t] = "count"
    /\ counted' = counted \cup {dir[t]}
    /\ Goto(t, "flag")
    /\ UNCHANGED << kernel, slot, mask, life, dir, back, copied, demuxer >>

SetFlag(t) ==
    /\ pc[t] = "flag"
    /\ mask' = mask \cup {dir[t]}
    /\ Goto(t, IF dir[t] \in mask THEN back[t] ELSE "copy")
    /\ UNCHANGED << kernel, slot, life, counted, dir, back, copied, demuxer >>

(***************************************************************************)
(* epoll_ctl(EPOLL_CTL_MOD): the kernel copies the structure that the      *)
(* caller points to, and changes the registration later, under its lock.   *)
(***************************************************************************)
CtlCopies(t) ==
    /\ pc[t] = "copy"
    /\ copied' = [copied EXCEPT ![t] = mask]
    /\ Goto(t, "apply")
    /\ UNCHANGED << kernel, socket, dir, back, demuxer >>

CtlApplies(t) ==
    /\ pc[t] = "apply"
    /\ open
    /\ kmask' = copied[t]
    /\ pend' = (pend \/ copied[t] \cap avail # {})
    /\ Goto(t, back[t])
    /\ UNCHANGED << avail, open, socket, dir, back, copied, demuxer >>

\* The socket was closed meanwhile: who arms queues the operation with the
\* error and leaves it in the socket, who clears goes on.
CtlFails(t) ==
    /\ pc[t] = "apply"
    /\ ~open
    /\ life' = IF back[t] = "post" THEN life ELSE [life EXCEPT ![dir[t]] = "queued"]
    /\ Goto(t, back[t])
    /\ UNCHANGED << kernel, slot, mask, counted, dir, back, copied, demuxer >>

-----------------------------------------------------------------------------
(***************************************************************************)
(* The demultiplexer: for each event, EPOLLIN before EPOLLOUT, the         *)
(* operation is taken out of the socket, the bit is cleared, and only then *)
(* the operation is queued, so that its callback finds the bit clear.      *)
(***************************************************************************)
AfterEvents(events) == IF events = {} THEN "run" ELSE "take"

EpollWait ==
    /\ pc[Demux] = "poll"
    /\ found' = IF pend THEN kmask \cap avail ELSE {}
    /\ pend' = FALSE
    /\ Goto(Demux, AfterEvents(found'))
    /\ UNCHANGED << kmask, avail, open, socket, dir, back, copied, got >>

NextEvent == IF "in" \in found THEN "in" ELSE "out"

\* Seeded fault: the operation is queued before the bit is cleared.
TakeOperation_posts ==
    /\ pc[Demux] = "take"
    /\ got' = FALSE
    /\ slot' = [slot EXCEPT ![NextEvent] = FALSE]
    /\ life' = [life EXCEPT ![NextEvent] = IF slot[NextEvent] THEN "queued" ELSE @]
    /\ found' = found \ {NextEvent}
    /\ dir' = [dir EXCEPT ![Demux] = NextEvent]
    /\ Goto(Demux, "clear")
    /\ UNCHANGED << kernel, mask, counted, back, copied >>

\* Seeded fault: the operation is read out of the socket but not removed.
TakeOperation_reads ==
    /\ pc[Demux] = "take"
    /\ got' = slot[NextEvent]
    /\ life' = [life EXCEPT ![NextEvent] = IF slot[NextEvent] THEN "taken" ELSE @]
    /\ found' = found \ {NextEvent}
    /\ dir' = [dir EXCEPT ![Demux] = NextEvent]
    /\ Goto(Demux, "clear")
    /\ UNCHANGED << kernel, slot, mask, counted, back, copied >>

TakeOperation ==
    /\ pc[Demux] = "take"
    /\ got' = slot[NextEvent]
    /\ slot' = [slot EXCEPT ![NextEvent] = FALSE]
    /\ life' = [life EXCEPT ![NextEvent] = IF slot[NextEvent] THEN "taken" ELSE @]
    /\ found' = found \ {NextEvent}
    /\ dir' = [dir EXCEPT ![Demux] = NextEvent]
    /\ Goto(Demux, "clear")
    /\ UNCHANGED << kernel, mask, counted, back, copied >>

\* Seeded fault: the bit stays set.
ClearFlag_kept ==
    /\ pc[Demux] = "clear"
    /\ Goto(Demux, "post")
    /\ UNCHANGED << kernel, socket, dir, back, copied, demuxer >>

ClearFlag ==
    /\ pc[Demux] = "clear"
    /\ mask' = mask \ {dir[Demux]}
    /\ back' = [back EXCEPT ![Demux] = "post"]
    /\ Goto(Demux, IF dir[Demux] \in mask THEN "copy" ELSE "post")
    /\ UNCHANGED << kernel, slot, life, counted, dir, copied, demuxer >>

PostOperation ==
    /\ pc[Demux] = "post"
    /\ life' = IF got THEN [life EXCEPT ![dir[Demux]] = "queued"] ELSE life
    /\ got' = FALSE
    /\ Goto(Demux, AfterEvents(found))
    /\ UNCHANGED << kernel, slot, mask, counted, dir, back, copied, found >>

-----------------------------------------------------------------------------
(***************************************************************************)
(* Completions.  The demultiplexer polls once before each.                 *)
(***************************************************************************)
Pop(t, d) ==
    /\ pc[t] = "run"
    /\ life[d] = "queued"
    /\ life' = [life EXCEPT ![d] = "running"]
    /\ counted' = counted \ {d}
    /\ dir' = [dir EXCEPT ![t] = d]
    /\ Goto(t, "complete")
    /\ UNCHANGED << kernel, slot, mask, back, copied, demuxer >>

\* The I/O succeeds or fails for good, and the user is called back.
FinishOperation(t) ==
    /\ pc[t] = "complete"
    /\ Transfer(dir[t])
    /\ life' = [life EXCEPT ![dir[t]] = "idle"]
    /\ Goto(t, "callback")
    /\ UNCHANGED << kmask, pend, open, slot, mask, counted, dir, back, copied, demuxer >>

\* A completion of something else: a post, another socket.
OtherCallback(t) ==
    /\ pc[t] = "run"
    /\ Goto(t, "callback")
    /\ UNCHANGED << kernel, socket, dir, back, copied, demuxer >>

NothingQueued ==
    /\ pc[Demux] = "run"
    /\ \A d \in Dirs : life[d] # "queued"
    /\ Goto(Demux, "poll")
    /\ UNCHANGED << kernel, socket, dir, back, copied, demuxer >>

CallbackReturns(t) ==
    /\ pc[t] = "callback"
    /\ Goto(t, Top(t))
    /\ UNCHANGED << kernel, socket, dir, back, copied, demuxer >>

\* close() takes the socket out of epoll; whatever waits in it stays there.
Close(t) ==
    /\ pc[t] = "callback"
    /\ open
    /\ open' = FALSE
    /\ kmask' = {}
    /\ pend' = FALSE
    /\ UNCHANGED << avail, socket, pc, dir, back, copied, demuxer >>

-----------------------------------------------------------------------------
StartingStep(t) == WorkStarted(t) \/ SetFlag(t) \/ CtlCopies(t) \/ CtlApplies(t) \/ CtlFails(t)

DemuxStep == EpollWait \/ TakeOperation \/ ClearFlag \/ PostOperation \/ NothingQueued

CompletionStep(t) == FinishOperation(t) \/ Restart(t) \/ \E d \in Dirs : Pop(t, d)

Next ==
    \/ \E d \in Dirs : Arrive(d)
    \/ HangUp
    \/ DemuxStep
    \/ \E t \in Threads :
         \/ StartingStep(t) \/ CompletionStep(t)
         \/ OtherCallback(t) \/ CallbackReturns(t) \/ Close(t)
         \/ \E d \in Dirs : StartOperation(t, d)

Spec == Init /\ [][Next]_vars

(***************************************************************************)
(* Fairness: threads in library code are scheduled and every wait there is *)
(* timed; a callback, which may call the service again and again, returns. *)
(***************************************************************************)
Fairness ==
    /\ WF_vars(DemuxStep)
    /\ \A t \in Threads :
         /\ WF_vars(StartingStep(t)) /\ WF_vars(CompletionStep(t))
         /\ SF_vars(CallbackReturns(t))

FairSpec == Spec /\ Fairness

-----------------------------------------------------------------------------
TypeOK ==
    /\ slot \in [Dirs -> BOOLEAN]
    /\ mask \in SUBSET Dirs /\ kmask \in SUBSET Dirs /\ avail \in SUBSET Dirs
    /\ pend \in BOOLEAN /\ open \in BOOLEAN /\ got \in BOOLEAN
    /\ life \in [Dirs -> Lives]
    /\ counted \in SUBSET Dirs
    /\ pc \in [Threads -> Labels]
    /\ dir \in [Threads -> Dirs]
    /\ back \in [Threads -> {"run", "poll", "callback", "post"}]
    /\ copied \in [Threads -> SUBSET Dirs]
    /\ found \in SUBSET Dirs

Changing == {t \in Threads : pc[t] \in {"count", "flag", "copy", "apply", "clear"}}

\* Whenever nobody is starting an operation or clearing a bit, the kernel's
\* mask, the library's mask and the operations waiting in the socket agree:
\* no operation waits for an event the kernel does not report, and no event
\* is reported for an operation that is not there.
MasksAgree ==
    open /\ Changing = {} => mask = kmask /\ mask = {d \in Dirs : slot[d]}

\* The demultiplexer finds an operation for every event: the branches that
\* print "in fatal error" and "out fatal error" are never taken.
NoFatalError == pc[Demux] = "clear" => got

\* An operation is in outstanding_work_ before it can be completed, although
\* begin_recv and begin_send publish it first and count it afterwards.
CountedFirst == \A d \in Dirs : life[d] \in {"taken", "queued"} => d \in counted

\* Nobody completes an operation that can still be taken out of the socket:
\* while the socket is open, what is in a slot is waiting, not queued, run or
\* finished.  (A failing epoll_ctl queues the operation and leaves it in its
\* slot, but only after a close, when no event can come for it.)
OneCompletion == open => \A d \in Dirs : slot[d] => life[d] = "armed"

\* While the socket stays open, an operation whose direction is ready leaves
\* its slot: the edge that came between the attempt that found nothing and
\* the call of epoll_ctl is not lost.
ReadyIsServed ==
    \A d \in Dirs : (slot[d] /\ d \in avail) ~> (~slot[d] \/ ~open)
=============================================================================
