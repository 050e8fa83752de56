------------------------- MODULE IocpServiceProofs -------------------------
(***************************************************************************)
(* Theorems about IocpService, for any number of threads, outsiders,       *)
(* operations and chunks and for every set of programs.                    *)
(***************************************************************************)
EXTENDS IocpService, FiniteSetTheorems, TLAPS

(***************************************************************************)
(* The inductive invariant.  First the shape of the state.                 *)
(***************************************************************************)
Labels     == {"out", "loop", "dispatch", "batch", "wait", "got", "interrupted", "complete",
               "callback", "return", "resume", "finish"}
OpPlaces   == {"issue", "queue", "defer", "pending"}
Places     == OpPlaces \cup {"none", "stop", "interrupt"}
Operations == [life : {"free", "live"}, parts : 0..MaxParts, ready : {0, 1},
               stored : Results, truth : Results]
Packets    == {Interrupt} \cup [op : Ops, key : {"stored", "kernel"}, res : Results]

Shape ==
  /\ program \in Programs
  /\ ops \in [Ops -> Operations]
  /\ pc \in [Threads -> Labels]
  /\ call \in [Callers -> [op : Ops \cup {Null}, at : Places]]
  /\ \A c \in Callers : call[c].at \in OpPlaces <=> call[c].op \in Ops
  /\ got \in [Threads -> [op : Ops \cup {Null}, key : {"interrupt", "none", "stored", "kernel"},
                          res : Results]]
  /\ port \in Seq(Packets)
  /\ kernel \in SUBSET Ops
  /\ deferred \in Seq(Ops)
  /\ batch \in [Threads -> Seq(Ops)]
  /\ outstanding \in Int

\* A thread that has an operation in hand knows it, only threads of the program
\* run, and the list of a thread is empty unless it holds completed_ops_cs_.
Working == Completing \cup {"got", "resume", "finish"}
Stations ==
  \A t \in Threads :
    /\ pc[t] \in Working => got[t].op \in Ops
    /\ pc[t] = "got" => got[t].key \in {"stored", "kernel"}
    /\ pc[t] # "out" => t \in program.crew
    /\ pc[t] = "batch" => lock = t
    /\ batch[t] # <<>> => pc[t] = "batch"

\* Sends of several chunks are made by programs with one thread.
Chunks ==
  /\ \A op \in Ops : program.kind[op] = "send" /\ ops[op].parts > 1
                       => Cardinality(program.crew) = 1
  /\ \A t \in Threads : pc[t] = "resume" => Cardinality(program.crew) = 1

(***************************************************************************)
(* Who has an operation: the call that starts it, the kernel, the port, a  *)
(* list of refused ones, or the thread that completes it.  Only one has    *)
(* it, except that a starter which has not yet come to on_pending() stands *)
(* beside the kernel, the port or the thread.                              *)
(***************************************************************************)
Elements(s) == {s[i] : i \in 1..Len(s)}

Calls(c, op)  == call[c].op = op /\ call[c].at \in {"issue", "queue", "defer"}
Pends(c, op)  == call[c].op = op /\ call[c].at = "pending"
Queued(op)    == \E p \in Elements(port) : p.op = op
Refused(op)   == op \in Elements(deferred) \/ \E t \in Threads : op \in Elements(batch[t])
Busy(t, op)   == got[t].op = op /\ pc[t] \in Completing \cup {"got"}
Travels(op)   == op \in kernel \/ Queued(op) \/ Refused(op) \/ \E t \in Threads : Busy(t, op)

OneBearer(op) ==
  /\ \A c, d \in Callers : call[c].op = op /\ call[d].op = op => c = d
  /\ \A c \in Callers : Calls(c, op) => ~Travels(op)
  /\ op \in kernel => ~Queued(op) /\ ~Refused(op) /\ \A t \in Threads : ~Busy(t, op)
  /\ Queued(op) => ~Refused(op) /\ \A t \in Threads : ~Busy(t, op)
  /\ Refused(op) => \A t \in Threads : ~Busy(t, op)
  /\ \A t, u \in Threads : Busy(t, op) /\ Busy(u, op) => t = u

\* The handshake: ready_ is set by the first of the two, and while it is clear
\* the starter is still in its call.
Stored(op) == ops[op].ready = 1 /\ ops[op].stored = ops[op].truth

Handshake(op) ==
  /\ ops[op].life = "free" => ~Travels(op) /\ \A c \in Callers : call[c].op # op
  /\ ops[op].life = "live" /\ ops[op].ready = 0
       => \E c \in Callers : call[c].op = op /\ call[c].at \in {"issue", "pending"}
  /\ \A c \in Callers :
       /\ Calls(c, op) /\ call[c].at = "issue" => ops[op].ready = 0
       /\ Calls(c, op) /\ call[c].at # "issue" => Stored(op)
       /\ Pends(c, op) /\ ops[op].ready = 1 => ~Travels(op) /\ Stored(op)
  /\ Refused(op) => Stored(op)
  /\ \A p \in Elements(port) :
       p.op = op => IF p.key = "stored" THEN Stored(op) ELSE p.res = ops[op].truth
  /\ \A t \in Threads : Busy(t, op) =>
       /\ pc[t] = "got" => IF got[t].key = "stored" THEN Stored(op) ELSE got[t].res = ops[op].truth
       /\ pc[t] # "got" => ops[op].ready = 1
       /\ pc[t] = "complete" => got[t].res = ops[op].truth

\* No list has an operation twice.
PortOnce    == \A i, j \in 1..Len(port) : port[i].op = port[j].op /\ port[i].op # Null => i = j
Once(s)     == \A i, j \in 1..Len(s) : s[i] = s[j] => i = j
RefusedOnce ==
  /\ Once(deferred)
  /\ \A t \in Threads : Once(batch[t]) /\ Elements(deferred) \cap Elements(batch[t]) = {}

Handover == \A op \in Ops : OneBearer(op) /\ Handshake(op)

IocpInv == Shape /\ Stations /\ Chunks /\ Handover /\ PortOnce /\ RefusedOnce /\ WorkAccounting

-----------------------------------------------------------------------------
(***************************************************************************)
(* Lists.                                                                  *)
(***************************************************************************)
\* Queueing at the end of a list (PostQueuedCompletionStatus, push).
LEMMA Appended ==
  ASSUME NEW S, NEW s \in Seq(S), NEW e \in S
  PROVE  /\ Append(s, e) \in Seq(S)
         /\ Len(s) \in Nat /\ Len(Append(s, e)) = Len(s) + 1
         /\ \A i \in 1..Len(s) : Append(s, e)[i] = s[i]
         /\ Append(s, e)[Len(s) + 1] = e
         /\ Elements(Append(s, e)) = Elements(s) \cup {e}
<1>1. /\ Append(s, e) \in Seq(S)
      /\ Len(s) \in Nat /\ Len(Append(s, e)) = Len(s) + 1
      /\ \A i \in 1..Len(s) : Append(s, e)[i] = s[i]
      /\ Append(s, e)[Len(s) + 1] = e
  OBVIOUS
<1>2. 1..Len(s) + 1 = (1..Len(s)) \cup {Len(s) + 1}
  BY <1>1
<1> QED
  BY <1>1, <1>2 DEF Elements

\* Taking the first of a list (GetQueuedCompletionStatus, pop).
LEMMA Taken ==
  ASSUME NEW S, NEW s \in Seq(S), s # <<>>
  PROVE  /\ Head(s) \in S /\ Tail(s) \in Seq(S)
         /\ Len(s) \in Nat /\ Len(s) >= 1 /\ Len(Tail(s)) = Len(s) - 1
         /\ Head(s) = s[1]
         /\ \A i \in 1..Len(s) - 1 : Tail(s)[i] = s[i + 1]
         /\ Elements(s) = {Head(s)} \cup Elements(Tail(s))
<1>1. /\ Head(s) \in S /\ Tail(s) \in Seq(S)
      /\ Len(s) \in Nat /\ Len(s) >= 1 /\ Len(Tail(s)) = Len(s) - 1
      /\ Head(s) = s[1]
      /\ \A i \in 1..Len(s) - 1 : Tail(s)[i] = s[i + 1]
  OBVIOUS
<1>2. \A i \in 1..Len(s) : i = 1 \/ (i - 1 \in 1..Len(s) - 1 /\ s[i] = Tail(s)[i - 1])
  BY <1>1
<1>3. \A i \in 1..Len(s) - 1 : i + 1 \in 1..Len(s) /\ Tail(s)[i] = s[i + 1]
  BY <1>1
<1>4. ASSUME NEW x \in Elements(s) PROVE x \in {Head(s)} \cup Elements(Tail(s))
  BY <1>1, <1>2, <1>4 DEF Elements
<1>5. ASSUME NEW x \in {Head(s)} \cup Elements(Tail(s)) PROVE x \in Elements(s)
  BY <1>1, <1>3, <1>5 DEF Elements
<1> QED
  BY <1>1, <1>4, <1>5

\* The list of a thread that goes back behind the refused operations.
LEMMA Joined ==
  ASSUME NEW S, NEW s \in Seq(S), NEW u \in Seq(S), Once(s), Once(u),
         Elements(s) \cap Elements(u) = {}
  PROVE  /\ s \o u \in Seq(S)
         /\ Elements(s \o u) = Elements(s) \cup Elements(u)
         /\ Once(s \o u)
<1>1. /\ s \o u \in Seq(S) /\ Len(s) \in Nat /\ Len(u) \in Nat
      /\ Len(s \o u) = Len(s) + Len(u)
      /\ \A i \in 1..Len(s) : i \in 1..Len(s) + Len(u) /\ (s \o u)[i] = s[i]
      /\ \A i \in 1..Len(u) : Len(s) + i \in 1..Len(s) + Len(u) /\ (s \o u)[Len(s) + i] = u[i]
  OBVIOUS
<1>2. \A i \in 1..Len(s) + Len(u) :
         \/ i \in 1..Len(s) /\ (s \o u)[i] = s[i]
         \/ i - Len(s) \in 1..Len(u) /\ (s \o u)[i] = u[i - Len(s)]
  BY <1>1
<1>3. \A i \in 1..Len(s) + Len(u) : (s \o u)[i] \in Elements(s) \cup Elements(u)
  BY <1>2 DEF Elements
<1>4. Elements(s \o u) = Elements(s) \cup Elements(u)
  <2>1. Elements(s \o u) \subseteq Elements(s) \cup Elements(u)
    BY <1>1, <1>3 DEF Elements
  <2>2. Elements(s) \subseteq Elements(s \o u)
    BY <1>1 DEF Elements
  <2>3. Elements(u) \subseteq Elements(s \o u)
    BY <1>1 DEF Elements
  <2> QED
    BY <2>1, <2>2, <2>3
<1>5. Once(s \o u)
  <2> SUFFICES ASSUME NEW i \in 1..Len(s) + Len(u), NEW j \in 1..Len(s) + Len(u),
                      (s \o u)[i] = (s \o u)[j]
               PROVE  i = j
    BY <1>1 DEF Once
  <2>1. CASE i \in 1..Len(s) /\ j \in 1..Len(s)
    BY <1>1, <2>1 DEF Once
  <2>2. CASE i - Len(s) \in 1..Len(u) /\ j - Len(s) \in 1..Len(u)
    <3>1. (s \o u)[i] = u[i - Len(s)] /\ (s \o u)[j] = u[j - Len(s)]
      BY <1>1, <1>2, <2>2
    <3>2. i - Len(s) = j - Len(s)
      BY <2>2, <3>1 DEF Once
    <3> QED
      BY <1>1, <3>2
  <2>3. CASE i \in 1..Len(s) /\ j - Len(s) \in 1..Len(u)
    <3>1. (s \o u)[i] \in Elements(s)
      BY <1>1, <2>3 DEF Elements
    <3>2. (s \o u)[j] = u[j - Len(s)]
      BY <1>1, <1>2, <2>3
    <3>3. (s \o u)[j] \in Elements(u)
      BY <2>3, <3>2 DEF Elements
    <3> QED
      BY <3>1, <3>3
  <2>4. CASE j \in 1..Len(s) /\ i - Len(s) \in 1..Len(u)
    <3>1. (s \o u)[j] \in Elements(s)
      BY <1>1, <2>4 DEF Elements
    <3>2. (s \o u)[i] = u[i - Len(s)]
      BY <1>1, <1>2, <2>4
    <3>3. (s \o u)[i] \in Elements(u)
      BY <2>4, <3>2 DEF Elements
    <3> QED
      BY <3>1, <3>3
  <2> QED
    BY <1>2, <2>1, <2>2, <2>3, <2>4
<1> QED
  BY <1>1, <1>4, <1>5

-----------------------------------------------------------------------------
(***************************************************************************)
(* The shape of the state.                                                 *)
(***************************************************************************)
\* What the constructors, reset() and the completion of an operation make of it
\* is an operation again.
LEMMA OperationShape ==
  /\ \A o \in Operations, r \in Results :
       /\ OnCompletion(o, r) \in Operations
       /\ [o EXCEPT !.truth = r] \in Operations
       /\ [o EXCEPT !.stored = r, !.ready = 1] \in Operations
  /\ \A o \in Operations :
       /\ PostDeferredCompletion(o) \in Operations
       /\ [o EXCEPT !.ready = 1] \in Operations
       /\ o.parts > 1 => [Reset(o) EXCEPT !.parts = @ - 1] \in Operations
  /\ \A n \in 0..MaxParts : New(n) \in Operations
  /\ Deleted \in Operations /\ New(1) \in Operations
<1> USE DEF Operations, Results
<1>1. \A o \in Operations, r \in Results :
        /\ OnCompletion(o, r) \in Operations
        /\ [o EXCEPT !.truth = r] \in Operations
        /\ [o EXCEPT !.stored = r, !.ready = 1] \in Operations
  BY DEF OnCompletion
<1>2. \A o \in Operations : PostDeferredCompletion(o) \in Operations /\ [o EXCEPT !.ready = 1] \in Operations
  BY DEF PostDeferredCompletion
<1>3. ASSUME NEW o \in Operations, o.parts > 1 PROVE [Reset(o) EXCEPT !.parts = @ - 1] \in Operations
  <2>1. o.parts - 1 \in 0..MaxParts
    BY <1>3, PartsAssumption
  <2> DEFINE u == Reset(o)
  <2>2. u \in Operations /\ u.parts = o.parts
    BY DEF Reset
  <2>3. [u EXCEPT !.parts = @ - 1] \in Operations
    BY <2>1, <2>2
  <2> QED
    BY <2>3
<1>4. 0 \in 0..MaxParts /\ 1 \in 0..MaxParts
  BY PartsAssumption
<1>5. Deleted \in Operations
  BY <1>4 DEF Deleted
<1>6. \A n \in 0..MaxParts : New(n) \in Operations
  BY <1>4 DEF New, Deleted
<1> HIDE DEF Operations
<1>7. \A o \in Operations : o.parts > 1 => [Reset(o) EXCEPT !.parts = @ - 1] \in Operations
  BY <1>3
<1> QED
  BY <1>1, <1>2, <1>4, <1>5, <1>6, <1>7

\* Starting an operation writes values of the right kind.
LEMMA BeginShape ==
  ASSUME Shape, NEW c \in Callers, NEW op \in Ops, NEW o \in Operations,
         NEW p \in {"issue", "queue"}, Begin(c, op, o, p)
  PROVE  Shape'
<1>1. /\ outstanding' = outstanding + 1
      /\ ops' = [ops EXCEPT ![op] = o]
      /\ call' = [call EXCEPT ![c] = At(op, p)]
      /\ \/ pc' = pc
         \/ c \in Threads /\ pc' = [pc EXCEPT ![c] = "return"]
      /\ UNCHANGED <<program, got, batch, lock, port, kernel, deferred, dispatchRequired, scarce, stopped>>
  BY DEF Begin, Called, queueVars
<1>2. ops' \in [Ops -> Operations] /\ outstanding' \in Int
  BY <1>1 DEF Shape
<1>3. /\ call' \in [Callers -> [op : Ops \cup {Null}, at : Places]]
      /\ \A d \in Callers : call'[d].at \in OpPlaces <=> call'[d].op \in Ops
  BY <1>1 DEF Shape, At, Places, OpPlaces
<1>4. pc' \in [Threads -> Labels]
  BY <1>1 DEF Shape, Labels
<1> QED
  BY <1>1, <1>2, <1>3, <1>4 DEF Shape

\* Starting an operation: it is new, and either goes to its call or is ready,
\* with its result, for the port (the calls of service, socket and file).
LEMMA StartCases ==
  ASSUME Shape, NEW c \in Callers, Start(c)
  PROVE  \E op \in Ops, o \in Operations, p \in {"issue", "queue"} :
           /\ Begin(c, op, o, p) /\ o.life = "live"
           /\ p = "issue" => o.ready = 0
           /\ p = "queue" => o.ready = 1 /\ o.stored = o.truth
           /\ program.kind[op] = "send" /\ o.parts > 1 => Cardinality(program.crew) = 1
<1> DEFINE Fits(op, o, p) ==
             /\ op \in Ops /\ o \in Operations /\ p \in {"issue", "queue"}
             /\ Begin(c, op, o, p) /\ o.life = "live"
             /\ p = "issue" => o.ready = 0
             /\ p = "queue" => o.ready = 1 /\ o.stored = o.truth
             /\ program.kind[op] = "send" /\ o.parts > 1 => Cardinality(program.crew) = 1
<1>1. PICK op \in Ops :
        \/ Post(c, op) \/ \E r \in Results : PostWith(c, op, r)
        \/ AsynAccept(c, op) \/ AsynConnect(c, op) \/ AsynSend(c, op)
        \/ AsynRecv(c, op) \/ AsynWrite(c, op) \/ AsynRead(c, op)
  BY DEF Start
<1>2. \A n \in 0..MaxParts : /\ New(n) \in Operations
                             /\ New(n).life = "live" /\ New(n).ready = 0 /\ New(n).parts = n
                             /\ New(n).stored = New(n).truth
  BY OperationShape DEF New, Deleted
<1>3. 1 \in 0..MaxParts
  BY PartsAssumption
<1>4. \A r \in Results : LET o == OnCompletion(New(1), r) IN
         /\ o \in Operations /\ o.life = "live" /\ o.ready = 1 /\ o.stored = o.truth /\ o.parts = 1
  BY <1>2, <1>3, OperationShape DEF OnCompletion, Operations
<1>5. LET o == PostDeferredCompletion(New(1)) IN
         /\ o \in Operations /\ o.life = "live" /\ o.ready = 1 /\ o.stored = o.truth /\ o.parts = 1
  BY <1>2, <1>3, OperationShape DEF PostDeferredCompletion, Operations
<1>6. CASE Post(c, op) \/ \E r \in Results : PostWith(c, op, r)
  BY <1>4, <1>5, <1>6 DEF Post, PostWith
<1>7. CASE AsynAccept(c, op) \/ AsynConnect(c, op)
  <2>1. "error" \in Results /\ program.kind[op] # "send"
    BY <1>7 DEF Results, AsynAccept, AsynConnect
  <2> QED
    BY <1>2, <1>3, <1>4, <1>7, <2>1 DEF AsynAccept, AsynConnect
<1>8. CASE AsynSend(c, op)
  <2>1. PICK n \in PartsOf("send") : Begin(c, op, New(n), "issue")
    BY <1>8 DEF AsynSend
  <2>2. n \in 0..MaxParts /\ (n > 1 => Cardinality(program.crew) = 1)
    BY PartsAssumption DEF PartsOf
  <2> QED
    BY <1>2, <2>1, <2>2
<1>9. CASE AsynRecv(c, op) \/ AsynWrite(c, op) \/ AsynRead(c, op)
  <2>1. PICK n \in 0..MaxParts : Begin(c, op, New(n), "issue")
    BY <1>9, PartsAssumption DEF AsynRecv, AsynWrite, AsynRead, PartsOf
  <2>2. program.kind[op] # "send"
    BY <1>9 DEF AsynRecv, AsynWrite, AsynRead
  <2> QED
    BY <1>2, <2>1, <2>2
<1> QED
  BY <1>1, <1>6, <1>7, <1>8, <1>9

\* Every action writes values of the right kind to the variables it changes.
LEMMA ShapeStep == Shape /\ Stations /\ [Next]_vars => Shape'
<1> SUFFICES ASSUME Shape, Stations, [Next]_vars PROVE Shape'
  OBVIOUS
<1> USE NullAssumption DEF loopVars, queueVars, countVars, InCall
<1>a. Interrupt \in Packets /\ \A op \in Ops, r \in Results : Packet(op, "stored", r) \in Packets
                                                         /\ Packet(op, "kernel", r) \in Packets
  BY DEF Packets, Packet
<1>b. "ok" \in Results /\ "error" \in Results
  BY DEF Results
<1>c. \A op \in Ops : ops[op] \in Operations
  BY DEF Shape
<1>d. port \in Seq(Packets) /\ \A p \in Packets : Append(port, p) \in Seq(Packets)
  BY Appended DEF Shape
<1>1. ASSUME NEW c \in Callers, Start(c) PROVE Shape'
  BY <1>1, StartCases, BeginShape
<1>2. ASSUME NEW c \in Callers, CallStep(c) \/ UserStop(c) PROVE Shape'
  <2>1. /\ UNCHANGED <<program, pc, got, batch, lock>>
        /\ outstanding' = outstanding
    BY <1>2 DEF CallStep, UserStop, Issue, OnPending, Queue, Defer, StopExchange, StopInterrupt
  <2>2. /\ ops' \in [Ops -> Operations]
        /\ port' \in Seq(Packets)
        /\ deferred' \in Seq(Ops)
        /\ kernel' \in SUBSET Ops
        /\ \E p \in [op : Ops \cup {Null}, at : Places] :
             /\ p.at \in OpPlaces <=> p.op \in Ops
             /\ call' = [call EXCEPT ![c] = p]
    <3> DEFINE Writes(p) == /\ p \in [op : Ops \cup {Null}, at : Places]
                            /\ p.at \in OpPlaces <=> p.op \in Ops
                            /\ call' = [call EXCEPT ![c] = p]
    <3>1. CASE Issue(c)
      <4>1. /\ call[c].at = "issue" /\ UNCHANGED <<port, deferred>>
            /\ \/ /\ \E r \in Results : ops' = [ops EXCEPT ![call[c].op] = OnCompletion(@, r)]
                  /\ call' = [call EXCEPT ![c].at = "queue"]
                  /\ UNCHANGED kernel
               \/ /\ kernel' = kernel \cup {call[c].op}
                  /\ call' = [call EXCEPT ![c].at = "pending"]
                  /\ UNCHANGED ops
        BY <1>b, <3>1 DEF Issue, Accept, Connect, Send, Recv, Write, Read, Issuing, Overlapped, NoOperation
      <4>2. call[c].op \in Ops
        BY <4>1 DEF Shape, OpPlaces
      <4>3. ops' \in [Ops -> Operations] /\ kernel' \in SUBSET Ops
        <5>1. CASE \E r \in Results : ops' = [ops EXCEPT ![call[c].op] = OnCompletion(@, r)]
          <6>1. PICK r \in Results : ops' = [ops EXCEPT ![call[c].op] = OnCompletion(@, r)]
            BY <5>1
          <6>2. OnCompletion(ops[call[c].op], r) \in Operations
            BY <1>c, <4>2, OperationShape
          <6> QED
            BY <4>1, <4>2, <6>1, <6>2 DEF Shape
        <5> QED
          BY <4>1, <4>2, <5>1 DEF Shape
      <4>4. Writes(At(call[c].op, "queue")) \/ Writes(At(call[c].op, "pending"))
        BY <4>1, <4>2 DEF Shape, At, Places, OpPlaces
      <4> QED
        BY <4>1, <4>3, <4>4 DEF Shape
    <3>2. CASE OnPending(c)
      <4>1. call[c].op \in Ops
        BY <3>2 DEF OnPending, Shape, OpPlaces
      <4>2. ops' \in [Ops -> Operations]
        <5>1. [ops[call[c].op] EXCEPT !.ready = 1] \in Operations
          BY <1>c, <4>1 DEF Operations
        <5> QED
          BY <3>2, <4>1, <5>1 DEF OnPending, Shape
      <4>3. Writes(At(call[c].op, "queue")) \/ Writes(None)
        BY <3>2, <4>1 DEF OnPending, At, None, Places, OpPlaces
      <4> QED
        BY <3>2, <4>2, <4>3 DEF OnPending, Shape
    <3>3. CASE Queue(c)
      <4>1. call[c].op \in Ops
        BY <3>3 DEF Queue, Shape, OpPlaces
      <4>2. port' \in Seq(Packets)
        BY <1>a, <1>b, <1>d, <3>3, <4>1 DEF Queue
      <4>3. Writes(At(call[c].op, "defer")) \/ Writes(None)
        BY <3>3, <4>1 DEF Queue, At, None, Places, OpPlaces, Shape
      <4> QED
        BY <3>3, <4>2, <4>3 DEF Queue, Shape
    <3>4. CASE Defer(c)
      <4>1. call[c].op \in Ops
        BY <3>4 DEF Defer, Shape, OpPlaces
      <4>2. deferred' \in Seq(Ops)
        BY <3>4, <4>1 DEF Defer, Shape
      <4>3. Writes(None)
        BY <3>4 DEF Defer, None, Places, OpPlaces
      <4> QED
        BY <3>4, <4>2, <4>3 DEF Defer, Shape
    <3>5. CASE StopExchange(c) \/ StopInterrupt(c) \/ UserStop(c)
      <4>1. port' \in Seq(Packets)
        BY <1>a, <1>d, <3>5 DEF StopExchange, StopInterrupt, UserStop
      <4>2. Writes(None) \/ Writes(At(Null, "interrupt")) \/ Writes(At(Null, "stop"))
        BY <3>5 DEF StopExchange, StopInterrupt, UserStop, At, None, Places, OpPlaces
      <4> QED
        BY <3>5, <4>1, <4>2 DEF StopExchange, StopInterrupt, UserStop, Shape
    <3> QED
      BY <1>2, <3>1, <3>2, <3>3, <3>4, <3>5 DEF CallStep
  <2>3. PICK p \in [op : Ops \cup {Null}, at : Places] :
          /\ p.at \in OpPlaces <=> p.op \in Ops
          /\ call' = [call EXCEPT ![c] = p]
    BY <2>2
  <2>4. /\ call' \in [Callers -> [op : Ops \cup {Null}, at : Places]]
        /\ \A d \in Callers : call'[d].at \in OpPlaces <=> call'[d].op \in Ops
    BY <2>3 DEF Shape
  <2> QED
    BY <2>1, <2>2, <2>4 DEF Shape
<1>3. ASSUME NEW t \in Threads, LoopStep(t) PROVE Shape'
  <2>1. t \in Callers /\ UNCHANGED program
    BY <1>3 DEF Callers, LoopStep, Run, TryDispatch, TakeDeferred, PostDeferred, DispatchEnds,
                Dequeue, Timeout, Complete, Interrupted, CallBack, ContinueRecv, ContinueSend,
                Continue, Resume, Return, WorkFinished
  <2>2. pc' \in [Threads -> Labels]
    BY <1>3 DEF Shape, Labels, Steps, LoopStep, Run, TryDispatch, TakeDeferred, PostDeferred,
                DispatchEnds, Dequeue, Timeout, Complete, Interrupted, CallBack, ContinueRecv,
                ContinueSend, Continue, Resume, Return, WorkFinished
  <2>3. /\ call' \in [Callers -> [op : Ops \cup {Null}, at : Places]]
        /\ \A c \in Callers : call'[c].at \in OpPlaces <=> call'[c].op \in Ops
    <3>1. \/ call' = call \/ call' = [call EXCEPT ![t] = None]
          \/ call' = [call EXCEPT ![t] = At(Null, "stop")]
          \/ pc[t] = "complete" /\ call' = [call EXCEPT ![t] = At(got[t].op, "issue")]
      BY <1>3 DEF Steps, LoopStep, Run, TryDispatch, TakeDeferred, PostDeferred, DispatchEnds,
                  Dequeue, Timeout, Complete, Interrupted, CallBack, ContinueRecv, ContinueSend,
                  Continue, Resume, Return, WorkFinished
    <3>2. pc[t] = "complete" => got[t].op \in Ops
      BY DEF Stations, Working, Completing
    <3>3. \E p \in [op : Ops \cup {Null}, at : Places] :
             /\ p.at \in OpPlaces <=> p.op \in Ops
             /\ call' = call \/ call' = [call EXCEPT ![t] = p]
      <4> DEFINE Fits(p) == p \in [op : Ops \cup {Null}, at : Places] /\ (p.at \in OpPlaces <=> p.op \in Ops)
      <4>1. Fits(None) /\ Fits(At(Null, "stop")) /\ (pc[t] = "complete" => Fits(At(got[t].op, "issue")))
        BY <3>2 DEF At, None, Places, OpPlaces
      <4> HIDE DEF Fits
      <4>2. \E p : Fits(p) /\ (call' = call \/ call' = [call EXCEPT ![t] = p])
        BY <3>1, <4>1
      <4> QED
        BY <4>2 DEF Fits
    <3>4. PICK p \in [op : Ops \cup {Null}, at : Places] :
             /\ p.at \in OpPlaces <=> p.op \in Ops
             /\ call' = call \/ call' = [call EXCEPT ![t] = p]
      BY <3>3
    <3>5. /\ call \in [Callers -> [op : Ops \cup {Null}, at : Places]]
          /\ \A c \in Callers : call[c].at \in OpPlaces <=> call[c].op \in Ops
      BY DEF Shape
    <3> QED
      BY <2>1, <3>4, <3>5
  <2>4. got' \in [Threads -> [op : Ops \cup {Null}, key : {"interrupt", "none", "stored", "kernel"},
                              res : Results]]
    <3> DEFINE G == [op : Ops \cup {Null}, key : {"interrupt", "none", "stored", "kernel"},
                     res : Results]
    <3>1. got[t] \in G /\ Nothing \in G /\ Holds(got[t].op) \in G /\ Packets \subseteq G
      BY <1>b DEF Shape, Nothing, Holds, Packets, Packet, Interrupt
    <3>2. port # <<>> => Head(port) \in G
      BY <3>1, Taken DEF Shape
    <3>3. \/ got' = got \/ \E g \in G : got' = [got EXCEPT ![t] = g]
      <4>1. CASE Complete(t)
        <5>1. pc[t] = "got" /\ got[t].op \in Ops
          BY <4>1 DEF Complete, Steps, Stations, Working
        <5>2. got[t].res \in Results /\ ops[got[t].op].stored \in Results
          BY <1>c, <5>1 DEF Shape, Operations
        <5> DEFINE r == IF got[t].key = "stored" THEN ops[got[t].op].stored ELSE got[t].res
        <5>3. r \in Results
          BY <5>2
        <5>4. [got[t] EXCEPT !.res = r] \in G
          BY <3>1, <5>3
        <5>5. \/ got' = [got EXCEPT ![t] = [got[t] EXCEPT !.res = r]]
              \/ got' = [got EXCEPT ![t] = Nothing]
          BY <4>1 DEF Complete
        <5> QED
          BY <3>1, <5>4, <5>5
      <4>2. CASE ~Complete(t)
        <5>1. \/ got' = got \/ got' = [got EXCEPT ![t] = Nothing]
              \/ got' = [got EXCEPT ![t] = Holds(got[t].op)]
              \/ port # <<>> /\ got' = [got EXCEPT ![t] = Head(port)]
          BY <1>3, <4>2 DEF LoopStep, Run, TryDispatch, TakeDeferred, PostDeferred, DispatchEnds,
               Dequeue, Timeout, Interrupted, CallBack, ContinueRecv, ContinueSend,
               Continue, Resume, Return, WorkFinished
        <5> QED
          BY <3>1, <3>2, <5>1
      <4> QED
        BY <4>1, <4>2
    <3> QED
      BY <3>3 DEF Shape
  <2>5. batch[t] \in Seq(Ops) /\ (batch[t] # <<>> => Head(batch[t]) \in Ops /\ Tail(batch[t]) \in Seq(Ops))
    BY Taken DEF Shape
  <2>6. ops' \in [Ops -> Operations]
    <3>1. \/ ops' = ops
          \/ \E op \in Ops, o \in Operations : ops' = [ops EXCEPT ![op] = o]
      <4>1. CASE PostDeferred(t)
        <5>1. batch[t] # <<>> /\ ops' = [ops EXCEPT ![Head(batch[t])] = PostDeferredCompletion(@)]
          BY <4>1 DEF PostDeferred
        <5>2. PostDeferredCompletion(ops[Head(batch[t])]) \in Operations
          BY <1>b, <1>c, <2>5, <5>1, OperationShape
        <5> QED
          BY <2>5, <5>1, <5>2
      <4>2. CASE Complete(t)
        <5>1. pc[t] = "got" /\ got[t].op \in Ops
          BY <4>2 DEF Complete, Steps, Stations, Working
        <5>2. got[t].res \in Results /\ ops[got[t].op].stored \in Results
          BY <1>c, <5>1 DEF Shape, Operations
        <5> DEFINE r == IF got[t].key = "stored" THEN ops[got[t].op].stored ELSE got[t].res
        <5>3. r \in Results
          BY <5>2
        <5>4. [ops[got[t].op] EXCEPT !.stored = r, !.ready = 1] \in Operations
          BY <1>c, <5>1, <5>3 DEF Operations
        <5>5. ops' = [ops EXCEPT ![got[t].op] = [ops[got[t].op] EXCEPT !.stored = r, !.ready = 1]]
          BY <4>2, <5>1 DEF Complete, Shape
        <5> QED
          BY <5>1, <5>4, <5>5
      <4>3. CASE ContinueRecv(t) \/ ContinueSend(t)
        <5>1. /\ pc[t] = "complete" /\ got[t].op \in Ops /\ ops[got[t].op].parts > 1
              /\ ops' = [ops EXCEPT ![got[t].op] = [Reset(ops[got[t].op]) EXCEPT !.parts = @ - 1]]
          BY <4>3 DEF ContinueRecv, ContinueSend, Continue, Unfinished, Steps, Stations, Working,
                      Completing
        <5>2. [Reset(ops[got[t].op]) EXCEPT !.parts = @ - 1] \in Operations
          BY <1>c, <5>1, OperationShape
        <5> QED
          BY <5>1, <5>2
      <4>4. CASE Return(t)
        <5>1. got[t].op \in Ops
          BY <4>4 DEF Return, Steps, Stations, Working, Completing
        <5>2. Deleted \in Operations
          BY <1>b, <1>c, <5>1, OperationShape
        <5> QED
          BY <4>4, <5>1, <5>2 DEF Return
      <4> QED
        BY <1>3, <4>1, <4>2, <4>3, <4>4 DEF LoopStep, Run, TryDispatch, TakeDeferred,
           DispatchEnds, Dequeue, Timeout, Interrupted, CallBack, Resume, WorkFinished
    <3> QED
      BY <3>1 DEF Shape
  <2>7. port' \in Seq(Packets)
    <3>1. \/ port' = port \/ port' = Append(port, Interrupt)
          \/ port # <<>> /\ port' = Tail(port)
          \/ batch[t] # <<>> /\ port' = Append(port, Packet(Head(batch[t]), "stored", "ok"))
      <4>1. CASE PostDeferred(t)
        BY <4>1 DEF PostDeferred
      <4>2. CASE Dequeue(t) \/ Interrupted(t)
        BY <4>2 DEF Dequeue, Interrupted
      <4> QED
        BY <1>3, <4>1, <4>2 DEF LoopStep, Run, TryDispatch, TakeDeferred, DispatchEnds, Timeout,
           Complete, CallBack, ContinueRecv, ContinueSend, Continue, Resume, Return, WorkFinished
    <3>2. port # <<>> => Tail(port) \in Seq(Packets)
      BY Taken DEF Shape
    <3> QED
      BY <1>a, <1>b, <1>d, <2>5, <3>1, <3>2
  <2>8. /\ batch' \in [Threads -> Seq(Ops)] /\ deferred' \in Seq(Ops)
        /\ kernel' \in SUBSET Ops /\ outstanding' \in Int
    <3>1. <<>> \in Seq(Ops) /\ deferred \in Seq(Ops) /\ deferred \o batch[t] \in Seq(Ops)
      BY <2>5 DEF Shape
    <3>2. \/ batch' = batch \/ batch' = [batch EXCEPT ![t] = deferred]
          \/ batch' = [batch EXCEPT ![t] = <<>>]
          \/ batch[t] # <<>> /\ batch' = [batch EXCEPT ![t] = Tail(batch[t])]
      BY <1>3 DEF LoopStep, Run, TryDispatch, TakeDeferred, PostDeferred, DispatchEnds,
               Dequeue, Timeout, Complete, Interrupted, CallBack, ContinueRecv, ContinueSend,
               Continue, Resume, Return, WorkFinished
    <3>3. \/ deferred' = deferred \/ deferred' = <<>> \/ deferred' = deferred \o batch[t]
      BY <1>3 DEF LoopStep, Run, TryDispatch, TakeDeferred, PostDeferred, DispatchEnds,
               Dequeue, Timeout, Complete, Interrupted, CallBack, ContinueRecv, ContinueSend,
               Continue, Resume, Return, WorkFinished
    <3>4. /\ kernel' = kernel
          /\ outstanding' \in {outstanding, outstanding + 1, outstanding - 1}
      BY <1>3 DEF LoopStep, Run, TryDispatch, TakeDeferred, PostDeferred, DispatchEnds,
               Dequeue, Timeout, Complete, Interrupted, CallBack, ContinueRecv, ContinueSend,
               Continue, CountedAgain, Resume, Return, WorkFinished
    <3>5. batch' \in [Threads -> Seq(Ops)]
      BY <2>5, <3>1, <3>2 DEF Shape
    <3>6. outstanding' \in Int /\ kernel' \in SUBSET Ops
      BY <3>4 DEF Shape
    <3> QED
      BY <3>1, <3>3, <3>5, <3>6
  <2> QED
    BY <2>1, <2>2, <2>3, <2>4, <2>6, <2>7, <2>8 DEF Shape
<1>4. ASSUME NEW op \in Ops, KernelStep(op) PROVE Shape'
  <2>1. PICK r \in Results : KernelCompletes(op, r)
    BY <1>4 DEF KernelStep
  <2>2. [ops[op] EXCEPT !.truth = r] \in Operations
    BY <1>c, OperationShape
  <2>3. ops' \in [Ops -> Operations]
    BY <2>1, <2>2 DEF KernelCompletes, Shape
  <2>4. port' \in Seq(Packets)
    BY <1>a, <1>d, <2>1 DEF KernelCompletes
  <2> QED
    BY <2>1, <2>3, <2>4 DEF KernelCompletes, Shape
<1>5. CASE ServiceReset \/ Recover \/ UNCHANGED vars
  BY <1>5 DEF ServiceReset, Recover, vars, Shape
<1> QED
  BY <1>1, <1>2, <1>3, <1>4, <1>5 DEF Next

\* The threads: what they hold where they are in run(), and the lock.
LEMMA StationsStep == Shape /\ Stations /\ [Next]_vars => Stations'
<1> SUFFICES ASSUME Shape, Stations, [Next]_vars PROVE Stations'
  OBVIOUS
<1> USE NullAssumption DEF loopVars, queueVars, countVars, Working, Completing
<1>1. ASSUME UNCHANGED <<program, pc, got, batch, lock>> PROVE Stations'
  BY <1>1 DEF Stations
<1>2. ASSUME NEW c \in Callers, Start(c) PROVE Stations'
  <2>1. PICK op \in Ops, o \in Operations, p \in {"issue", "queue"} : Begin(c, op, o, p)
    BY <1>2, StartCases
  <2>2. /\ UNCHANGED <<program, got, batch, lock>>
        /\ \/ pc' = pc
           \/ c \in Threads /\ pc[c] = "callback" /\ pc' = [pc EXCEPT ![c] = "return"]
    BY <2>1 DEF Begin, MayCall, Called
  <2> QED
    BY <2>2 DEF Stations, Shape
<1>3. ASSUME NEW c \in Callers, CallStep(c) \/ UserStop(c) PROVE Stations'
  BY <1>1, <1>3 DEF CallStep, UserStop, Issue, OnPending, Queue, Defer, StopExchange, StopInterrupt
<1>4. ASSUME NEW t \in Threads, LoopStep(t) PROVE Stations'
  <2> USE DEF Steps
  <2>1. /\ \A u \in Threads : u # t => pc'[u] = pc[u] /\ got'[u] = got[u] /\ batch'[u] = batch[u]
        /\ UNCHANGED program
    BY <1>4 DEF Shape, LoopStep, Run, TryDispatch, TakeDeferred, PostDeferred,
                DispatchEnds, Dequeue, Timeout, Complete, Interrupted, CallBack, ContinueRecv,
                ContinueSend, Continue, Resume, Return, WorkFinished
  <2>2. ASSUME pc'[t] \in Working => got'[t].op \in Ops,
               pc'[t] = "got" => got'[t].key \in {"stored", "kernel"},
               pc'[t] # "out" => t \in program.crew,
               pc'[t] = "batch" => lock' = t,
               batch'[t] # <<>> => pc'[t] = "batch",
               lock' = lock \/ (lock = Null /\ lock' = t) \/ (pc[t] = "batch" /\ lock' = Null)
        PROVE  Stations'
    <3>1. \A u \in Threads : u # Null
      BY DEF Callers
    <3> QED
      BY <2>1, <2>2, <3>1 DEF Stations
  <2>3. CASE Run(t)
    BY <2>2, <2>3 DEF Run, Stations, Shape
  <2>4. CASE TryDispatch(t) \/ Timeout(t) \/ Resume(t)
    BY <2>2, <2>4 DEF TryDispatch, Timeout, Resume, Stations, Shape
  <2>5. CASE TakeDeferred(t)
    BY <2>2, <2>5 DEF TakeDeferred, Stations, Shape
  <2>6. CASE PostDeferred(t)
    BY <2>2, <2>6 DEF PostDeferred, Stations, Shape
  <2>7. CASE DispatchEnds(t)
    BY <2>2, <2>7 DEF DispatchEnds, Stations, Shape
  <2>8. CASE Dequeue(t)
    <3>1. Head(port) \in Packets
      BY <2>8, Taken DEF Dequeue, Shape
    <3>2. Head(port) # Interrupt => Head(port).op \in Ops /\ Head(port).key \in {"stored", "kernel"}
      BY <3>1 DEF Packets
    <3> QED
      BY <2>2, <2>8, <3>2 DEF Dequeue, Stations, Shape
  <2>9. CASE Complete(t)
    <3>1. pc[t] = "got" /\ got[t].op \in Ops /\ t \in program.crew /\ batch[t] = <<>>
      BY <2>9 DEF Complete, Stations
    <3>2. pc'[t] = "complete" => got'[t].op = got[t].op
      BY <2>9 DEF Complete, Shape
    <3>3. pc'[t] \in {"complete", "loop"}
      BY <2>9 DEF Complete, Shape
    <3> QED
      BY <2>2, <2>9, <3>1, <3>2, <3>3 DEF Complete
  <2>10. CASE Interrupted(t) \/ WorkFinished(t)
    BY <2>2, <2>10 DEF Interrupted, WorkFinished, Stations, Shape
  <2>11. CASE CallBack(t)
    BY <2>2, <2>11 DEF CallBack, Holds, Packet, Stations, Shape
  <2>12. CASE ContinueRecv(t) \/ ContinueSend(t) \/ Return(t)
    BY <2>2, <2>12 DEF ContinueRecv, ContinueSend, Continue, Return, Stations, Shape
  <2> QED
    BY <1>4, <2>3, <2>4, <2>5, <2>6, <2>7, <2>8, <2>9, <2>10, <2>11, <2>12 DEF LoopStep
<1>5. ASSUME NEW op \in Ops, KernelStep(op) PROVE Stations'
  BY <1>1, <1>5 DEF KernelStep, KernelCompletes
<1>6. CASE ServiceReset \/ Recover \/ UNCHANGED vars
  BY <1>1, <1>6 DEF ServiceReset, Recover, vars
<1> QED
  BY <1>2, <1>3, <1>4, <1>5, <1>6 DEF Next

\* Only a program with one thread has a send of several chunks: no step adds a
\* chunk to an operation.
LEMMA ChunksStep == Shape /\ Stations /\ Chunks /\ [Next]_vars => Chunks'
<1> SUFFICES ASSUME Shape, Stations, Chunks, [Next]_vars PROVE Chunks'
  OBVIOUS
<1> USE DEF loopVars, queueVars, countVars
<1>a. \A op \in Ops : ops[op].parts \in Nat
  BY DEF Shape, Operations
<1>1. ASSUME UNCHANGED <<program, pc>>, \A op \in Ops : ops'[op].parts = ops[op].parts PROVE Chunks'
  BY <1>1 DEF Chunks
<1>2. ASSUME NEW c \in Callers, Start(c) PROVE Chunks'
  <2>1. PICK op \in Ops, o \in Operations, p \in {"issue", "queue"} :
          /\ Begin(c, op, o, p)
          /\ program.kind[op] = "send" /\ o.parts > 1 => Cardinality(program.crew) = 1
    BY <1>2, StartCases
  <2>2. /\ UNCHANGED program /\ ops' = [ops EXCEPT ![op] = o]
        /\ \A t \in Threads : pc'[t] = "resume" => pc[t] = "resume"
    BY <2>1 DEF Begin, Called, Shape
  <2> QED
    BY <2>1, <2>2 DEF Chunks, Shape
<1>3. ASSUME NEW c \in Callers, CallStep(c) \/ UserStop(c) PROVE Chunks'
  <2>1. UNCHANGED <<program, pc>>
    BY <1>3 DEF CallStep, UserStop, Issue, OnPending, Queue, Defer, StopExchange, StopInterrupt
  <2>2. \A op \in Ops : ops'[op].parts = ops[op].parts
    <3>1. CASE Issue(c)
      <4>1. \/ \E r : ops' = [ops EXCEPT ![call[c].op] = OnCompletion(@, r)]
            \/ UNCHANGED ops
        BY <3>1 DEF Issue, Accept, Connect, Send, Recv, Write, Read, Overlapped, NoOperation
      <4>2. \A op \in Ops : \A r : OnCompletion(ops[op], r).parts = ops[op].parts
        BY DEF OnCompletion, Shape, Operations
      <4> QED
        BY <4>1, <4>2 DEF Shape
    <3>2. CASE OnPending(c)
      BY <3>2 DEF OnPending, Shape, Operations
    <3> QED
      BY <1>3, <3>1, <3>2 DEF CallStep, UserStop, Queue, Defer, StopExchange, StopInterrupt
  <2> QED
    BY <1>1, <2>1, <2>2
<1>4. ASSUME NEW t \in Threads, LoopStep(t) PROVE Chunks'
  <2> USE DEF Steps
  <2>1. UNCHANGED program
    BY <1>4 DEF LoopStep, Run, TryDispatch, TakeDeferred, PostDeferred,
                DispatchEnds, Dequeue, Timeout, Complete, Interrupted, CallBack, ContinueRecv,
                ContinueSend, Continue, Resume, Return, WorkFinished
  <2>2. \A op \in Ops : ops'[op].parts <= ops[op].parts
    <3>1. CASE PostDeferred(t)
      BY <1>a, <3>1 DEF PostDeferred, PostDeferredCompletion, Shape, Operations
    <3>2. CASE Complete(t)
      BY <1>a, <3>2 DEF Complete, Shape, Operations
    <3>3. CASE ContinueRecv(t) \/ ContinueSend(t)
      <4>1. ops' = [ops EXCEPT ![got[t].op] = [Reset(ops[got[t].op]) EXCEPT !.parts = @ - 1]]
        BY <3>3 DEF ContinueRecv, ContinueSend, Continue
      <4>2. \A o \in Operations : [Reset(o) EXCEPT !.parts = @ - 1].parts = o.parts - 1
        <5>1. \A o \in Operations : Reset(o) \in Operations /\ Reset(o).parts = o.parts
          BY DEF Reset, Operations, Results
        <5> QED
          BY <5>1 DEF Operations
      <4>3. \A op \in Ops : [Reset(ops[op]) EXCEPT !.parts = @ - 1].parts = ops[op].parts - 1
        BY <4>2 DEF Shape
      <4> QED
        BY <1>a, <4>1, <4>3 DEF Shape
    <3>4. CASE Return(t)
      BY <1>a, <3>4 DEF Return, Deleted, Shape, Operations
    <3>5. CASE UNCHANGED ops
      BY <1>a, <3>5
    <3> QED
      BY <1>4, <3>1, <3>2, <3>3, <3>4, <3>5 DEF LoopStep, Run, TryDispatch, TakeDeferred,
         DispatchEnds, Dequeue, Timeout, Interrupted, CallBack, Resume, WorkFinished
  <2>3. \A u \in Threads : pc'[u] = "resume" => pc[u] = "resume" \/ (u = t /\ ContinueSend(t))
    BY <1>4 DEF Shape, LoopStep, Run, TryDispatch, TakeDeferred, PostDeferred,
                DispatchEnds, Dequeue, Timeout, Complete, Interrupted, CallBack, ContinueRecv,
                ContinueSend, Continue, Resume, Return, WorkFinished
  <2>4. ContinueSend(t) => Cardinality(program.crew) = 1
    BY DEF ContinueSend, Continue, Unfinished, Chunks, Stations, Working, Completing
  <2>5. \A op \in Ops : ops'[op].parts > 1 => ops[op].parts > 1
    <3>1. \A op \in Ops : ops'[op].parts \in Nat
      BY ShapeStep DEF Shape, Operations
    <3> QED
      BY <1>a, <2>2, <3>1
  <2> QED
    BY <2>1, <2>3, <2>4, <2>5 DEF Chunks
<1>5. ASSUME NEW op \in Ops, KernelStep(op) PROVE Chunks'
  BY <1>1, <1>5 DEF KernelStep, KernelCompletes, Shape, Operations
<1>6. CASE ServiceReset \/ Recover \/ UNCHANGED vars
  BY <1>1, <1>6 DEF ServiceReset, Recover, vars
<1> QED
  BY <1>2, <1>3, <1>4, <1>5, <1>6 DEF Next

-----------------------------------------------------------------------------
(***************************************************************************)
(* The handover of an operation.                                           *)
(***************************************************************************)
Lists == Handover /\ PortOnce /\ RefusedOnce

\* A step that does not concern an operation.
Untouched(op) ==
  /\ ops'[op] = ops[op]
  /\ \A c \in Callers : call'[c] = call[c] \/ (call[c].op # op /\ call'[c].op # op)
  /\ op \in kernel' <=> op \in kernel
  /\ \A p : p.op = op => (p \in Elements(port') <=> p \in Elements(port))
  /\ Refused(op)' <=> Refused(op)
  /\ \A t \in Threads :
       /\ Busy(t, op)' <=> Busy(t, op)
       /\ Busy(t, op) => /\ pc'[t] = "got" <=> pc[t] = "got"
                         /\ pc'[t] \in {"got", "complete"} => pc'[t] = pc[t] /\ got'[t] = got[t]

\* What a step does not touch stays with its bearer.
LEMMA UntouchedStays ==
  ASSUME NEW op \in Ops, OneBearer(op), Handshake(op), Untouched(op)
  PROVE  OneBearer(op)' /\ Handshake(op)'
<1>1. /\ \A c \in Callers : /\ call'[c].op = op <=> call[c].op = op
                            /\ call[c].op = op => call'[c] = call[c]
      /\ Queued(op)' <=> Queued(op)
      /\ \A c \in Callers : (Calls(c, op)' <=> Calls(c, op)) /\ (Pends(c, op)' <=> Pends(c, op))
      /\ Stored(op)' <=> Stored(op)
  BY DEF Untouched, Queued, Calls, Pends, Stored
<1>2. Travels(op)' <=> Travels(op)
  BY <1>1 DEF Untouched, Travels
<1>3. OneBearer(op)'
  BY <1>1, <1>2 DEF Untouched, OneBearer
<1>4. Handshake(op)'
  <2>1. ops'[op] = ops[op]
    BY DEF Untouched
  <2>2. \A p \in Elements(port') : p.op = op => p \in Elements(port)
    BY DEF Untouched
  <2>3. \A t \in Threads : Busy(t, op)' => /\ Busy(t, op)
                                           /\ pc'[t] = "got" <=> pc[t] = "got"
                                           /\ pc'[t] \in {"got", "complete"} => pc'[t] = pc[t] /\ got'[t] = got[t]
    BY DEF Untouched
  <2>4. Refused(op)' <=> Refused(op)
    BY DEF Untouched
  <2>5. \A c \in Callers :
          /\ Calls(c, op)' /\ call'[c].at = "issue" => ops'[op].ready = 0
          /\ Calls(c, op)' /\ call'[c].at # "issue" => Stored(op)'
          /\ Pends(c, op)' /\ ops'[op].ready = 1 => ~Travels(op)' /\ Stored(op)'
    BY <1>1, <1>2, <2>1 DEF Handshake, Calls
  <2>6. /\ ops'[op].life = "free" => ~Travels(op)' /\ \A c \in Callers : call'[c].op # op
        /\ ops'[op].life = "live" /\ ops'[op].ready = 0
             => \E c \in Callers : call'[c].op = op /\ call'[c].at \in {"issue", "pending"}
        /\ Refused(op)' => Stored(op)'
    BY <1>1, <1>2, <2>1, <2>4 DEF Handshake
  <2>7. \A p \in Elements(port') :
          p.op = op => IF p.key = "stored" THEN Stored(op)' ELSE p.res = ops'[op].truth
    BY <1>1, <2>1, <2>2 DEF Handshake
  <2>8. \A t \in Threads : Busy(t, op)' =>
          /\ pc'[t] = "got" => IF got'[t].key = "stored" THEN Stored(op)' ELSE got'[t].res = ops'[op].truth
          /\ pc'[t] # "got" => ops'[op].ready = 1
          /\ pc'[t] = "complete" => got'[t].res = ops'[op].truth
    BY <1>1, <2>1, <2>3 DEF Handshake
  <2> QED
    BY <2>5, <2>6, <2>7, <2>8 DEF Handshake
<1> QED
  BY <1>3, <1>4

\* The port: a packet of an operation that has none there may be queued, and
\* the first packet is the only one of its operation.
LEMMA PacketQueued ==
  ASSUME Shape, PortOnce, NEW p \in Packets, p.op = Null \/ ~Queued(p.op),
         port' = Append(port, p)
  PROVE  PortOnce' /\ Elements(port') = Elements(port) \cup {p}
<1>1. /\ Len(port) \in Nat /\ Len(port') = Len(port) + 1
      /\ \A i \in 1..Len(port) : port'[i] = port[i]
      /\ port'[Len(port) + 1] = p
      /\ Elements(port') = Elements(port) \cup {p}
  BY Appended DEF Shape
<1>2. \A i \in 1..Len(port) : p.op # Null => port[i].op # p.op
  BY DEF Queued, Elements
<1>3. \A i \in 1..Len(port) + 1 : i \in 1..Len(port) \/ i = Len(port) + 1
  BY <1>1
<1> QED
  BY <1>1, <1>2, <1>3 DEF PortOnce

\* The first packet leaves the port.
LEMMA PacketTaken ==
  ASSUME Shape, PortOnce, port # <<>>, port' = Tail(port)
  PROVE  /\ PortOnce'
         /\ Head(port) \in Packets
         /\ Elements(port) = {Head(port)} \cup Elements(port')
         /\ \A p \in Elements(port') : p.op = Head(port).op => p.op = Null
<1>1. /\ Len(port) \in Nat /\ Len(port) >= 1 /\ Len(port') = Len(port) - 1
      /\ Head(port) \in Packets /\ Head(port) = port[1]
      /\ \A i \in 1..Len(port) - 1 : port'[i] = port[i + 1]
      /\ Elements(port) = {Head(port)} \cup Elements(port')
  BY Taken DEF Shape
<1>2. \A i \in 1..Len(port') : i + 1 \in 1..Len(port) /\ i + 1 # 1 /\ port'[i] = port[i + 1]
  BY <1>1
<1>3. 1 \in 1..Len(port)
  BY <1>1
<1>4. \A i \in 1..Len(port') : port'[i].op = Head(port).op => port'[i].op = Null
  BY <1>1, <1>2, <1>3 DEF PortOnce
<1>5. PortOnce'
  <2> SUFFICES ASSUME NEW i \in 1..Len(port'), NEW j \in 1..Len(port'),
                      port'[i].op = port'[j].op, port'[i].op # Null
               PROVE  i = j
    BY DEF PortOnce
  <2>1. i + 1 = j + 1
    BY <1>2 DEF PortOnce
  <2> QED
    BY <1>1, <2>1
<1> QED
  BY <1>1, <1>4, <1>5 DEF Elements

\* A step that concerns no operation: at most an interrupt is queued, a call
\* without an operation changes, and a thread moves between places where it
\* has none.
LEMMA QuietStep ==
  ASSUME Shape, Lists, UNCHANGED <<ops, kernel>>,
         UNCHANGED <<deferred, batch>>,
         port' = port \/ port' = Append(port, Interrupt),
         \A c \in Callers : call'[c] = call[c] \/ (call[c].op = Null /\ call'[c].op = Null),
         \A t \in Threads : \/ pc'[t] = pc[t] /\ got'[t] = got[t]
                            \/ {pc[t], pc'[t]} \cap (Completing \cup {"got"}) = {}
  PROVE  Lists'
<1> USE NullAssumption
<1>1. /\ PortOnce'
      /\ \A p : p.op # Null => (p \in Elements(port') <=> p \in Elements(port))
  <2>1. CASE port' = port
    BY <2>1 DEF PortOnce, Lists
  <2>2. CASE port' = Append(port, Interrupt)
    <3>1. Interrupt \in Packets /\ Interrupt.op = Null
      BY DEF Interrupt, Packet, Packets
    <3> QED
      BY <2>2, <3>1, PacketQueued DEF Lists
  <2> QED
    BY <2>1, <2>2
<1>2. RefusedOnce' /\ \A op \in Ops : Refused(op)' <=> Refused(op)
  BY DEF RefusedOnce, Refused, Lists
<1>3. \A op \in Ops, t \in Threads : Busy(t, op)' <=> Busy(t, op)
  BY DEF Busy
<1>4. \A op \in Ops : Untouched(op)
  BY <1>1, <1>2, <1>3 DEF Untouched, Busy
<1> QED
  BY <1>1, <1>2, <1>4, UntouchedStays DEF Handover, Lists

\* A new operation is nobody's before, and only its starter's afterwards.
LEMMA BeginStep ==
  ASSUME Shape, Stations, Lists, NEW c \in Callers, Start(c)
  PROVE  Lists'
<1> USE NullAssumption DEF queueVars
<1>1. PICK x \in Ops, o \in Operations, p \in {"issue", "queue"} :
        /\ Begin(c, x, o, p) /\ o.life = "live"
        /\ p = "issue" => o.ready = 0
        /\ p = "queue" => o.ready = 1 /\ o.stored = o.truth
  BY StartCases
<1>2. /\ call[c].op = Null /\ call'[c] = At(x, p)
      /\ \A d \in Callers : d # c => call'[d] = call[d]
      /\ ops[x].life = "free" /\ ops'[x] = o
      /\ \A op \in Ops : op # x => ops'[op] = ops[op]
      /\ UNCHANGED <<got, batch, port, kernel, deferred>>
      /\ \A t \in Threads : pc'[t] = pc[t] \/ (pc[t] = "callback" /\ pc'[t] = "return")
  BY <1>1 DEF Begin, MayCall, None, Called, Shape
<1>3. /\ PortOnce' /\ RefusedOnce'
      /\ \A op \in Ops : /\ Refused(op)' <=> Refused(op)
                         /\ Queued(op)' <=> Queued(op)
                         /\ \A t \in Threads : Busy(t, op)' <=> Busy(t, op)
  BY <1>2 DEF PortOnce, RefusedOnce, Refused, Queued, Busy, Completing, Lists
<1>4. \A op \in Ops : op # x => Untouched(op)
  BY <1>2, <1>3 DEF Untouched, At, Completing
<1>5. OneBearer(x)' /\ Handshake(x)'
  <2>1. ~Travels(x) /\ \A d \in Callers : call[d].op # x
    BY <1>2 DEF Lists, Handover, Handshake
  <2>2. ~Travels(x)'
    BY <1>2, <1>3, <2>1 DEF Travels
  <2>3. \A d \in Callers : call'[d].op = x <=> d = c
    BY <1>2, <2>1 DEF At
  <2>4. OneBearer(x)'
    BY <2>2, <2>3 DEF OneBearer, Travels
  <2>5. Handshake(x)'
    <3>1. \A t \in Threads : ~Busy(t, x)'
      BY <2>2 DEF Travels
    <3>2. ~Refused(x)' /\ \A q \in Elements(port') : q.op # x
      BY <2>2 DEF Travels, Queued
    <3> QED
      BY <1>1, <1>2, <2>2, <2>3, <3>1, <3>2 DEF Handshake, Stored, Calls, Pends, At
  <2> QED
    BY <2>4, <2>5
<1> QED
  BY <1>3, <1>4, <1>5, UntouchedStays DEF Handover, Lists

\* The overlapped call takes place: the kernel has the operation and its
\* starter comes to on_pending(), or the call was refused and the operation is
\* ready for the port.
LEMMA IssueStep ==
  ASSUME Shape, Stations, Lists, NEW c \in Callers, Issue(c)
  PROVE  Lists'
<1> USE NullAssumption DEF loopVars, queueVars, countVars
<1>1. PICK x \in Ops : x = call[c].op /\ call[c].at = "issue"
  BY DEF Issue, Accept, Connect, Send, Recv, Write, Read, Issuing, InCall, Shape, OpPlaces
<1>2. /\ UNCHANGED <<pc, got, batch, port, deferred>>
      /\ \/ /\ \E r : ops' = [ops EXCEPT ![x] = OnCompletion(@, r)]
            /\ call' = [call EXCEPT ![c].at = "queue"]
            /\ UNCHANGED kernel
         \/ /\ kernel' = kernel \cup {x}
            /\ call' = [call EXCEPT ![c].at = "pending"]
            /\ UNCHANGED ops
  BY <1>1 DEF Issue, Accept, Connect, Send, Recv, Write, Read, Overlapped, NoOperation
<1>3. /\ \A d \in Callers : d # c => call'[d] = call[d] /\ call[d].op # x
      /\ call'[c].op = x
      /\ \A op \in Ops : op # x => ops'[op] = ops[op] /\ (op \in kernel' <=> op \in kernel)
  BY <1>1, <1>2 DEF Shape, Lists, Handover, OneBearer
<1>4. /\ PortOnce' /\ RefusedOnce'
      /\ \A op \in Ops : /\ Refused(op)' <=> Refused(op)
                         /\ Queued(op)' <=> Queued(op)
                         /\ \A t \in Threads : Busy(t, op)' <=> Busy(t, op)
  BY <1>2 DEF PortOnce, RefusedOnce, Refused, Queued, Busy, Lists
<1>5. \A op \in Ops : op # x => Untouched(op)
  BY <1>1, <1>2, <1>3, <1>4 DEF Untouched
<1>6. OneBearer(x)' /\ Handshake(x)'
  <2>1. Calls(c, x) /\ OneBearer(x) /\ Handshake(x)
    BY <1>1 DEF Calls, Lists, Handover
  <2>2. ~Travels(x) /\ ops[x].ready = 0 /\ ops[x].life = "live"
    <3>1. ops[x].life \in {"free", "live"}
      BY DEF Shape, Operations
    <3> QED
      BY <1>1, <2>1, <3>1 DEF OneBearer, Handshake
  <2>3. /\ ~Refused(x)' /\ ~Queued(x)'
        /\ \A p \in Elements(port') : p.op # x
        /\ \A t \in Threads : ~Busy(t, x)'
    BY <1>2, <1>4, <2>2 DEF Travels, Queued
  <2>4. CASE UNCHANGED kernel /\ call' = [call EXCEPT ![c].at = "queue"]
             /\ \E r : ops' = [ops EXCEPT ![x] = OnCompletion(@, r)]
    <3>1. call'[c].at = "queue" /\ ~Travels(x)'
      BY <1>4, <2>2, <2>3, <2>4 DEF Shape, Travels
    <3>2. Stored(x)' /\ ops'[x].life = "live"
      BY <2>2, <2>4 DEF Shape, Operations, OnCompletion, Stored
    <3>3. OneBearer(x)'
      BY <1>3, <2>3, <3>1 DEF OneBearer, Travels
    <3>4. Handshake(x)'
      BY <1>3, <2>3, <3>1, <3>2 DEF Handshake, Calls, Pends, Stored
    <3> QED
      BY <3>3, <3>4
  <2>5. CASE kernel' = kernel \cup {x} /\ call' = [call EXCEPT ![c].at = "pending"] /\ UNCHANGED ops
    <3>1. call'[c].at = "pending" /\ x \in kernel' /\ ops'[x] = ops[x]
      BY <2>5 DEF Shape
    <3>2. OneBearer(x)'
      BY <1>3, <2>3, <3>1 DEF OneBearer, Calls
    <3>3. Handshake(x)'
      BY <1>3, <2>2, <2>3, <3>1 DEF Handshake, Calls, Pends, Stored
    <3> QED
      BY <3>2, <3>3
  <2> QED
    BY <1>2, <2>4, <2>5
<1> QED
  BY <1>4, <1>5, <1>6, UntouchedStays DEF Handover, Lists

\* on_pending(): the operation is ready and the starter queues it, or whoever
\* has it meets ready_ set.
LEMMA PendingStep ==
  ASSUME Shape, Stations, Lists, NEW c \in Callers, OnPending(c)
  PROVE  Lists'
<1> USE NullAssumption DEF loopVars, queueVars, countVars
<1>1. PICK x \in Ops : x = call[c].op /\ call[c].at = "pending"
  BY DEF OnPending, InCall, Shape, OpPlaces
<1>2. /\ UNCHANGED <<pc, got, batch, port, deferred, kernel>>
      /\ call' = [call EXCEPT ![c] = IF ops[x].ready = 1 THEN At(x, "queue") ELSE None]
      /\ ops' = [ops EXCEPT ![x].ready = 1]
  BY <1>1 DEF OnPending
<1>3. /\ \A d \in Callers : d # c => call'[d] = call[d] /\ call[d].op # x
      /\ call'[c] = IF ops[x].ready = 1 THEN At(x, "queue") ELSE None
      /\ \A op \in Ops : op # x => ops'[op] = ops[op]
      /\ ops'[x].ready = 1 /\ ops'[x].life = ops[x].life
      /\ ops'[x].stored = ops[x].stored /\ ops'[x].truth = ops[x].truth
  <2>1. \A d \in Callers : d # c => call'[d] = call[d] /\ call[d].op # x
    BY <1>1, <1>2 DEF Shape, Lists, Handover, OneBearer
  <2>2. call'[c] = IF ops[x].ready = 1 THEN At(x, "queue") ELSE None
    BY <1>2 DEF Shape
  <2>3. /\ \A op \in Ops : op # x => ops'[op] = ops[op]
        /\ ops'[x].ready = 1 /\ ops'[x].life = ops[x].life
        /\ ops'[x].stored = ops[x].stored /\ ops'[x].truth = ops[x].truth
    BY <1>2 DEF Shape, Operations
  <2> QED
    BY <2>1, <2>2, <2>3
<1>4. /\ PortOnce' /\ RefusedOnce'
      /\ \A op \in Ops : /\ Refused(op)' <=> Refused(op)
                         /\ Queued(op)' <=> Queued(op)
                         /\ Travels(op)' <=> Travels(op)
                         /\ \A t \in Threads : Busy(t, op)' <=> Busy(t, op)
  BY <1>2 DEF PortOnce, RefusedOnce, Refused, Queued, Busy, Travels, Lists
<1>5. \A op \in Ops : op # x => Untouched(op)
  BY <1>1, <1>2, <1>3, <1>4 DEF Untouched, At, None
<1>6. OneBearer(x)' /\ Handshake(x)'
  <2>1. Pends(c, x) /\ OneBearer(x) /\ Handshake(x)
    BY <1>1 DEF Pends, Lists, Handover
  <2>2. ops[x].life = "live" /\ ops[x].ready \in {0, 1}
    BY <1>1, <2>1 DEF Shape, Operations, Handshake
  <2>3. CASE ops[x].ready = 1
    <3>1. ~Travels(x)' /\ Stored(x)' /\ call'[c] = At(x, "queue")
      BY <1>3, <1>4, <2>1, <2>3 DEF Handshake, Stored
    <3>2. /\ ~Refused(x)' /\ ~Queued(x)' /\ \A p \in Elements(port') : p.op # x
          /\ \A t \in Threads : ~Busy(t, x)'
      BY <3>1 DEF Travels, Queued
    <3>3. OneBearer(x)'
      BY <1>3, <3>1, <3>2 DEF OneBearer, Travels
    <3>4. Handshake(x)'
      BY <1>3, <2>2, <3>1, <3>2 DEF Handshake, Calls, Pends, Stored, At
    <3> QED
      BY <3>3, <3>4
  <2>4. CASE ops[x].ready = 0
    <3>1. /\ call'[c].op = Null
          /\ \A d \in Callers : call'[d].op # x
      BY <1>3, <2>4 DEF None
    <3>2. /\ ~Refused(x)
          /\ \A p \in Elements(port) : p.op = x => p.key # "stored"
          /\ \A t \in Threads : Busy(t, x) => pc[t] = "got" /\ got[t].key # "stored"
      BY <2>1, <2>4 DEF Handshake, Stored
    <3>3. OneBearer(x)'
      BY <1>2, <1>4, <2>1, <3>1 DEF OneBearer, Calls
    <3>4. Handshake(x)'
      BY <1>2, <1>3, <1>4, <2>1, <2>2, <3>1, <3>2 DEF Handshake, Calls, Pends, Stored
    <3> QED
      BY <3>3, <3>4
  <2> QED
    BY <2>2, <2>3, <2>4
<1> QED
  BY <1>4, <1>5, <1>6, UntouchedStays DEF Handover, Lists

\* A ready operation is queued at the port, or refused and kept by its starter.
LEMMA QueueStep ==
  ASSUME Shape, Stations, Lists, NEW c \in Callers, Queue(c) \/ Defer(c)
  PROVE  Lists'
<1> USE NullAssumption DEF loopVars, queueVars, countVars
<1>1. PICK x \in Ops : x = call[c].op /\ call[c].at \in {"queue", "defer"}
  BY DEF Queue, Defer, InCall, Shape, OpPlaces
<1> DEFINE p == Packet(x, "stored", "ok")
<1>2. /\ UNCHANGED <<pc, got, batch, kernel, ops>>
      /\ \/ /\ port' = Append(port, p) /\ call' = [call EXCEPT ![c] = None]
            /\ UNCHANGED deferred
         \/ /\ deferred' = Append(deferred, x) /\ call' = [call EXCEPT ![c] = None]
            /\ UNCHANGED port
         \/ /\ call' = [call EXCEPT ![c].at = "defer"] /\ UNCHANGED <<port, deferred>>
  BY <1>1 DEF Queue, Defer
<1>3. \A d \in Callers : d # c => call'[d] = call[d] /\ call[d].op # x
  BY <1>1, <1>2 DEF Shape, Lists, Handover, OneBearer
<1>4. /\ OneBearer(x) /\ Handshake(x) /\ ~Travels(x) /\ Stored(x)
      /\ ~Refused(x) /\ ~Queued(x) /\ x \notin kernel
      /\ \A q \in Elements(port) : q.op # x
      /\ \A t \in Threads : ~Busy(t, x)
      /\ ops[x].life = "live"
  <2>1. OneBearer(x) /\ Handshake(x) /\ Calls(c, x)
    BY <1>1 DEF Lists, Handover, Calls
  <2>2. ~Travels(x) /\ Stored(x)
    BY <1>1, <2>1 DEF OneBearer, Handshake
  <2>3. ops[x].life = "live"
    BY <1>1, <2>1 DEF Handshake, Shape, Operations
  <2> QED
    BY <2>1, <2>2, <2>3 DEF Travels, Queued
<1>5. \A op \in Ops : \A t \in Threads : Busy(t, op)' <=> Busy(t, op)
  BY <1>2 DEF Busy
<1>6. CASE port' = Append(port, p) /\ call' = [call EXCEPT ![c] = None] /\ UNCHANGED deferred
  <2>1. p \in Packets /\ p.op = x /\ p.key = "stored"
    BY DEF Packets, Packet, Results
  <2> HIDE DEF p
  <2>2. PortOnce' /\ Elements(port') = Elements(port) \cup {p}
    BY <1>4, <1>6, <2>1, PacketQueued DEF Lists
  <2>3. RefusedOnce' /\ \A op \in Ops : Refused(op)' <=> Refused(op)
    BY <1>2, <1>6 DEF RefusedOnce, Refused, Lists
  <2>4. call'[c].op = Null
    BY <1>6 DEF None, Shape
  <2>5. \A op \in Ops : op # x => Untouched(op)
    BY <1>1, <1>2, <1>3, <1>5, <2>1, <2>2, <2>3, <2>4 DEF Untouched
  <2>6. OneBearer(x)'
    BY <1>2, <1>3, <1>4, <1>5, <2>3, <2>4 DEF OneBearer, Calls
  <2>7. Handshake(x)'
    BY <1>2, <1>3, <1>4, <1>5, <2>1, <2>2, <2>3, <2>4 DEF Handshake, Stored, Calls, Pends
  <2> QED
    BY <2>2, <2>3, <2>5, <2>6, <2>7, UntouchedStays DEF Handover, Lists
<1>7. CASE deferred' = Append(deferred, x) /\ call' = [call EXCEPT ![c] = None] /\ UNCHANGED port
  <2>1. /\ Len(deferred) \in Nat /\ Len(deferred') = Len(deferred) + 1
        /\ \A i \in 1..Len(deferred) : deferred'[i] = deferred[i]
        /\ deferred'[Len(deferred) + 1] = x
        /\ Elements(deferred') = Elements(deferred) \cup {x}
    BY <1>7, Appended DEF Shape
  <2>2. x \notin Elements(deferred) /\ \A t \in Threads : x \notin Elements(batch[t])
    BY <1>4 DEF Refused
  <2>3. Once(deferred')
    <3>1. \A i \in 1..Len(deferred) : deferred[i] # x
      BY <2>2 DEF Elements
    <3>2. \A i \in 1..Len(deferred) + 1 : i \in 1..Len(deferred) \/ i = Len(deferred) + 1
      BY <2>1
    <3>3. Once(deferred)
      BY DEF Lists, RefusedOnce
    <3> QED
      BY <2>1, <3>1, <3>2, <3>3 DEF Once
  <2>4. PortOnce' /\ RefusedOnce'
    BY <1>2, <1>7, <2>1, <2>2, <2>3 DEF PortOnce, RefusedOnce, Lists
  <2>5. Refused(x)' /\ \A op \in Ops : op # x => (Refused(op)' <=> Refused(op))
    BY <1>2, <2>1 DEF Refused
  <2>6. call'[c].op = Null
    BY <1>7 DEF None, Shape
  <2>7. \A op \in Ops : op # x => Untouched(op)
    BY <1>1, <1>2, <1>3, <1>5, <1>7, <2>5, <2>6 DEF Untouched
  <2>8. OneBearer(x)'
    BY <1>2, <1>3, <1>4, <1>5, <1>7, <2>5, <2>6 DEF OneBearer, Calls, Queued
  <2>9. Handshake(x)'
    BY <1>2, <1>3, <1>4, <1>5, <1>7, <2>5, <2>6 DEF Handshake, Stored, Calls, Pends
  <2> QED
    BY <2>4, <2>7, <2>8, <2>9, UntouchedStays DEF Handover, Lists
<1>8. CASE call' = [call EXCEPT ![c].at = "defer"] /\ UNCHANGED <<port, deferred>>
  <2>1. call'[c].op = x /\ call'[c].at = "defer"
    BY <1>1, <1>8 DEF Shape
  <2>2. /\ PortOnce' /\ RefusedOnce'
        /\ \A op \in Ops : (Refused(op)' <=> Refused(op)) /\ (Queued(op)' <=> Queued(op))
    BY <1>2, <1>8 DEF PortOnce, RefusedOnce, Refused, Queued, Lists
  <2>3. \A op \in Ops : op # x => Untouched(op)
    BY <1>1, <1>2, <1>3, <1>5, <1>8, <2>1, <2>2 DEF Untouched
  <2>4. ~Travels(x)'
    BY <1>2, <1>4, <1>5, <2>2 DEF Travels
  <2>5. OneBearer(x)'
    BY <1>2, <1>3, <1>4, <1>5, <2>1, <2>2, <2>4 DEF OneBearer
  <2>6. Handshake(x)'
    BY <1>2, <1>3, <1>4, <1>5, <1>8, <2>1, <2>2, <2>4 DEF Handshake, Stored, Calls, Pends
  <2> QED
    BY <2>2, <2>3, <2>5, <2>6, UntouchedStays DEF Handover, Lists
<1> QED
  BY <1>2, <1>6, <1>7, <1>8

\* The kernel finishes with an operation, whose packet carries the result.
LEMMA KernelCompletesStep ==
  ASSUME Shape, Stations, Lists, NEW x \in Ops, KernelStep(x)
  PROVE  Lists'
<1> USE NullAssumption DEF loopVars, queueVars, countVars
<1>1. PICK r \in Results : KernelCompletes(x, r)
  BY DEF KernelStep
<1> DEFINE p == Packet(x, "kernel", r)
<1>2. /\ x \in kernel /\ kernel' = kernel \ {x}
      /\ port' = Append(port, p)
      /\ UNCHANGED <<call, pc, got, batch, deferred>>
      /\ \A op \in Ops : op # x => ops'[op] = ops[op]
      /\ ops'[x].ready = ops[x].ready /\ ops'[x].life = ops[x].life /\ ops'[x].truth = r
  BY <1>1 DEF KernelCompletes, Shape, Operations
<1>3. p \in Packets /\ p.op = x /\ p.key = "kernel" /\ p.res = r
  BY DEF Packets, Packet
<1> HIDE DEF p
<1>4. OneBearer(x) /\ Handshake(x) /\ Travels(x)
  BY <1>2 DEF Lists, Handover, Travels
<1>5. /\ ~Queued(x) /\ ~Refused(x) /\ \A q \in Elements(port) : q.op # x
      /\ \A t \in Threads : ~Busy(t, x)
      /\ \A c \in Callers : call[c].op = x => call[c].at = "pending" /\ ops[x].ready = 0
      /\ ops[x].life # "free"
  <2>1. /\ ~Queued(x) /\ ~Refused(x) /\ \A t \in Threads : ~Busy(t, x)
        /\ \A c \in Callers : ~Calls(c, x)
    BY <1>2, <1>4 DEF OneBearer
  <2>2. \A c \in Callers : call[c].op = x => call[c].at = "pending"
    BY <2>1 DEF Calls, Shape, OpPlaces
  <2>3. ops[x].ready \in {0, 1}
    BY DEF Shape, Operations
  <2> QED
    BY <1>4, <2>1, <2>2, <2>3 DEF Handshake, Pends, Queued
<1>6. PortOnce' /\ Elements(port') = Elements(port) \cup {p}
  BY <1>2, <1>3, <1>5, PacketQueued DEF Lists
<1>7. /\ RefusedOnce'
      /\ \A op \in Ops : /\ Refused(op)' <=> Refused(op)
                         /\ \A t \in Threads : Busy(t, op)' <=> Busy(t, op)
  BY <1>2 DEF RefusedOnce, Refused, Busy, Lists
<1>8. \A op \in Ops : op # x => Untouched(op)
  BY <1>2, <1>3, <1>6, <1>7 DEF Untouched
<1>9. OneBearer(x)'
  BY <1>2, <1>4, <1>5, <1>7 DEF OneBearer, Calls
<1>10. Handshake(x)'
  BY <1>2, <1>3, <1>4, <1>5, <1>6, <1>7 DEF Handshake, Calls, Pends
<1> QED
  BY <1>6, <1>7, <1>8, <1>9, <1>10, UntouchedStays DEF Handover, Lists

\* The refused operations change hands when a thread dispatches them and when
\* it puts the rest of them back; the others stay with nobody else.
LEMMA TakeDeferredStep ==
  ASSUME Shape, Stations, Lists, NEW t \in Threads, TakeDeferred(t)
  PROVE  Lists'
<1> USE NullAssumption DEF countVars
<1>1. /\ pc[t] = "dispatch" /\ pc' = [pc EXCEPT ![t] = "batch"] /\ lock = Null
      /\ batch' = [batch EXCEPT ![t] = deferred] /\ deferred' = <<>>
      /\ UNCHANGED <<ops, call, got, port, kernel>>
  BY DEF TakeDeferred, Steps
<1>2. batch[t] = <<>> /\ Elements(<<>>) = {}
  BY <1>1 DEF Stations, Elements
<1>3. /\ batch'[t] = deferred
      /\ \A u \in Threads : u # t => batch'[u] = batch[u]
  BY <1>1 DEF Shape
<1>4. RefusedOnce'
  BY <1>1, <1>2, <1>3 DEF RefusedOnce, Once, Lists
<1>5. \A op \in Ops : Refused(op)' <=> Refused(op)
  BY <1>1, <1>2, <1>3 DEF Refused
<1>6. PortOnce' /\ \A op \in Ops, u \in Threads : Busy(u, op)' <=> Busy(u, op)
  BY <1>1 DEF PortOnce, Busy, Completing, Shape, Lists
<1>7. \A op \in Ops : Untouched(op)
  BY <1>1, <1>5, <1>6 DEF Untouched, Shape
<1> QED
  BY <1>4, <1>6, <1>7, UntouchedStays DEF Handover, Lists

\* A deferred operation is posted with the result it has stored.
LEMMA PostDeferredStep ==
  ASSUME Shape, Stations, Lists, NEW t \in Threads, PostDeferred(t)
  PROVE  Lists'
<1> USE NullAssumption
<1>1. PICK x \in Ops : batch[t] # <<>> /\ x = Head(batch[t])
  BY Taken DEF PostDeferred, Shape
<1> DEFINE p == Packet(x, "stored", "ok")
<1>2. /\ pc' = pc /\ pc[t] = "batch"
      /\ ops' = [ops EXCEPT ![x] = PostDeferredCompletion(@)]
      /\ UNCHANGED <<call, got, kernel>>
      /\ \/ /\ port' = Append(port, p) /\ batch' = [batch EXCEPT ![t] = Tail(@)]
            /\ UNCHANGED deferred
         \/ /\ deferred' = deferred \o batch[t] /\ batch' = [batch EXCEPT ![t] = <<>>]
            /\ UNCHANGED port
  <2>1. pc' = [pc EXCEPT ![t] = "batch"] /\ pc[t] = "batch"
    BY DEF PostDeferred, Steps
  <2>2. pc' = pc
    BY <2>1 DEF Shape
  <2> QED
    BY <1>1, <2>1, <2>2 DEF PostDeferred
<1>3. /\ batch[t] \in Seq(Ops) /\ Tail(batch[t]) \in Seq(Ops) /\ deferred \in Seq(Ops)
      /\ Len(batch[t]) \in Nat /\ Len(batch[t]) >= 1 /\ Len(Tail(batch[t])) = Len(batch[t]) - 1
      /\ x = batch[t][1]
      /\ \A i \in 1..Len(batch[t]) - 1 : Tail(batch[t])[i] = batch[t][i + 1]
      /\ Elements(batch[t]) = {x} \cup Elements(Tail(batch[t]))
  BY <1>1, Taken DEF Shape
<1>4. /\ Once(batch[t]) /\ Once(deferred) /\ Elements(deferred) \cap Elements(batch[t]) = {}
      /\ \A u \in Threads : u # t => batch[u] = <<>>
      /\ Elements(<<>>) = {} /\ Once(<<>>)
  <2>1. \A u \in Threads : u # t => batch[u] = <<>>
    BY <1>2 DEF Stations
  <2>2. Elements(<<>>) = {} /\ Once(<<>>)
    BY DEF Elements, Once
  <2> QED
    BY <2>1, <2>2 DEF Lists, RefusedOnce
<1>5. /\ OneBearer(x) /\ Handshake(x) /\ Refused(x) /\ Stored(x)
      /\ x \notin kernel /\ ~Queued(x)
      /\ \A q \in Elements(port) : q.op # x
      /\ \A u \in Threads : ~Busy(u, x)
      /\ \A c \in Callers : call[c].op # x
      /\ ops[x].life = "live"
  <2>1. OneBearer(x) /\ Handshake(x) /\ Refused(x)
    BY <1>3 DEF Lists, Handover, Refused
  <2>2. Stored(x) /\ x \notin kernel /\ ~Queued(x) /\ (\A u \in Threads : ~Busy(u, x)) /\ Travels(x)
    BY <2>1 DEF OneBearer, Handshake, Travels
  <2>3. \A c \in Callers : ~Calls(c, x) /\ ~Pends(c, x)
    BY <2>1, <2>2 DEF OneBearer, Handshake, Stored
  <2>4. \A c \in Callers : call[c].op # x
    BY <2>3 DEF Calls, Pends, Shape, OpPlaces
  <2>5. ops[x].life = "live"
    BY <2>1, <2>2 DEF Handshake, Shape, Operations
  <2> QED
    BY <2>1, <2>2, <2>4, <2>5 DEF Queued
<1>6. ops' = ops
  BY <1>2, <1>5 DEF PostDeferredCompletion, Stored, Shape, Operations
<1>7. \A op \in Ops, u \in Threads : Busy(u, op)' <=> Busy(u, op)
  BY <1>2 DEF Busy
<1>8. CASE port' = Append(port, p) /\ batch' = [batch EXCEPT ![t] = Tail(@)] /\ UNCHANGED deferred
  <2>1. p \in Packets /\ p.op = x /\ p.key = "stored"
    BY DEF Packets, Packet, Results
  <2> HIDE DEF p
  <2>2. PortOnce' /\ Elements(port') = Elements(port) \cup {p}
    BY <1>5, <1>8, <2>1, PacketQueued DEF Lists
  <2>3. /\ batch'[t] = Tail(batch[t])
        /\ \A u \in Threads : u # t => batch'[u] = batch[u]
    BY <1>8 DEF Shape
  <2>4. x \notin Elements(Tail(batch[t])) /\ Once(Tail(batch[t]))
    <3>1. \A i \in 1..Len(batch[t]) - 1 : i + 1 \in 1..Len(batch[t]) /\ i + 1 # 1 /\ 1 \in 1..Len(batch[t])
      BY <1>3
    <3>2. \A i \in 1..Len(batch[t]) - 1 : Tail(batch[t])[i] # x
      BY <1>3, <1>4, <3>1 DEF Once
    <3>3. ASSUME NEW i \in 1..Len(batch[t]) - 1, NEW j \in 1..Len(batch[t]) - 1,
                 Tail(batch[t])[i] = Tail(batch[t])[j]
          PROVE  i = j
      <4>1. i + 1 = j + 1
        BY <1>3, <1>4, <3>1, <3>3 DEF Once
      <4> QED
        BY <1>3, <4>1
    <3> QED
      BY <1>3, <3>2, <3>3 DEF Elements, Once
  <2>5. RefusedOnce'
    BY <1>3, <1>4, <1>8, <2>3, <2>4 DEF RefusedOnce
  <2>6. ~Refused(x)' /\ \A op \in Ops : op # x => (Refused(op)' <=> Refused(op))
    BY <1>3, <1>4, <1>8, <2>3, <2>4 DEF Refused
  <2>7. \A op \in Ops : op # x => Untouched(op)
    BY <1>2, <1>6, <1>7, <2>1, <2>2, <2>6 DEF Untouched
  <2>8. OneBearer(x)'
    BY <1>2, <1>5, <1>7, <2>6 DEF OneBearer, Calls
  <2>9. Handshake(x)'
    BY <1>2, <1>5, <1>6, <1>7, <2>1, <2>2, <2>6 DEF Handshake, Stored, Calls, Pends
  <2> QED
    BY <2>2, <2>5, <2>7, <2>8, <2>9, UntouchedStays DEF Handover, Lists
<1>9. CASE /\ deferred' = deferred \o batch[t] /\ batch' = [batch EXCEPT ![t] = <<>>]
           /\ UNCHANGED port
  <2>1. Elements(deferred') = Elements(deferred) \cup Elements(batch[t]) /\ Once(deferred')
    BY <1>3, <1>4, <1>9, Joined
  <2>2. \A u \in Threads : batch'[u] = <<>>
    BY <1>4, <1>9 DEF Shape
  <2>3. RefusedOnce'
    BY <1>4, <2>1, <2>2 DEF RefusedOnce
  <2>4. \A op \in Ops : Refused(op)' <=> Refused(op)
    BY <1>4, <2>1, <2>2 DEF Refused
  <2>5. PortOnce' /\ \A op \in Ops : Untouched(op)
    BY <1>2, <1>6, <1>7, <1>9, <2>4 DEF Untouched, PortOnce, Lists
  <2> QED
    BY <2>3, <2>5, UntouchedStays DEF Handover, Lists
<1> QED
  BY <1>2, <1>8, <1>9

\* A thread takes a packet, and with it the operation.
LEMMA DequeueStep ==
  ASSUME Shape, Stations, Lists, NEW t \in Threads, Dequeue(t)
  PROVE  Lists'
<1> USE NullAssumption DEF countVars
<1>1. /\ pc[t] = "wait" /\ port # <<>> /\ port' = Tail(port)
      /\ pc' = [pc EXCEPT ![t] = IF Head(port) = Interrupt THEN "interrupted" ELSE "got"]
      /\ got' = [got EXCEPT ![t] = Head(port)]
      /\ UNCHANGED <<ops, call, batch, kernel, deferred>>
  BY DEF Dequeue, Steps
<1>2. /\ \A u \in Threads : u # t => pc'[u] = pc[u] /\ got'[u] = got[u]
      /\ pc'[t] = IF Head(port) = Interrupt THEN "interrupted" ELSE "got"
      /\ got'[t] = Head(port)
  BY <1>1 DEF Shape
<1>3. /\ PortOnce' /\ Head(port) \in Packets
      /\ Elements(port) = {Head(port)} \cup Elements(port')
      /\ \A p \in Elements(port') : p.op = Head(port).op => p.op = Null
  BY <1>1, PacketTaken DEF Lists
<1>4. RefusedOnce' /\ \A op \in Ops : Refused(op)' <=> Refused(op)
  BY <1>1 DEF RefusedOnce, Refused, Lists
<1>5. Interrupt.op = Null
  BY DEF Interrupt, Packet
<1>6. CASE Head(port) = Interrupt
  <2>1. \A op \in Ops, u \in Threads : Busy(u, op)' <=> Busy(u, op)
    BY <1>1, <1>2, <1>6 DEF Busy, Completing
  <2>2. \A op \in Ops : Untouched(op)
    BY <1>1, <1>2, <1>3, <1>4, <1>5, <1>6, <2>1 DEF Untouched, Busy
  <2> QED
    BY <1>3, <1>4, <2>2, UntouchedStays DEF Handover, Lists
<1>7. CASE Head(port) # Interrupt
  <2>1. PICK x \in Ops : x = Head(port).op
    BY <1>3, <1>7 DEF Packets
  <2>2. /\ Busy(t, x)' /\ \A op \in Ops : op # x => ~Busy(t, op)'
        /\ \A op \in Ops : ~Busy(t, op)
        /\ \A op \in Ops, u \in Threads : u # t => (Busy(u, op)' <=> Busy(u, op))
    BY <1>1, <1>2, <1>7, <2>1 DEF Busy, Completing
  <2>3. OneBearer(x) /\ Handshake(x) /\ Queued(x) /\ Travels(x)
    BY <1>3, <2>1 DEF Lists, Handover, Queued, Travels
  <2>4. /\ x \notin kernel /\ ~Refused(x)
        /\ \A u \in Threads : ~Busy(u, x)
        /\ \A c \in Callers : ~Calls(c, x)
        /\ IF Head(port).key = "stored" THEN Stored(x) ELSE Head(port).res = ops[x].truth
        /\ \A p \in Elements(port') : p.op # x
    BY <1>3, <2>1, <2>3 DEF OneBearer, Handshake
  <2>5. \A op \in Ops : op # x => Untouched(op)
    BY <1>1, <1>2, <1>3, <1>4, <2>1, <2>2 DEF Untouched
  <2>6. OneBearer(x)'
    BY <1>1, <1>4, <2>2, <2>3, <2>4 DEF OneBearer, Calls, Queued
  <2>7. Handshake(x)'
    <3>1. pc'[t] = "got" /\ got'[t] = Head(port)
      BY <1>2, <1>7
    <3> QED
      BY <1>1, <1>4, <2>2, <2>3, <2>4, <3>1 DEF Handshake, Stored, Calls, Pends
  <2> QED
    BY <1>3, <1>4, <2>5, <2>6, <2>7, UntouchedStays DEF Handover, Lists
<1> QED
  BY <1>6, <1>7

\* do_one() stores the result and meets ready_ set: the starter is through and
\* the operation completes; or it leaves the operation to its starter.
LEMMA CompleteStep ==
  ASSUME Shape, Stations, Lists, NEW t \in Threads, Complete(t)
  PROVE  Lists'
<1> USE NullAssumption DEF queueVars, countVars
<1>1. PICK x \in Ops : x = got[t].op /\ pc[t] = "got" /\ got[t].key \in {"stored", "kernel"}
  BY DEF Complete, Steps, Stations, Working
<1>2. PICK r : r = IF got[t].key = "stored" THEN ops[x].stored ELSE got[t].res
  OBVIOUS
<1>3. /\ pc' = [pc EXCEPT ![t] = IF ops[x].ready = 1 THEN "complete" ELSE "loop"]
      /\ ops' = [ops EXCEPT ![x].stored = r, ![x].ready = 1]
      /\ got' = [got EXCEPT ![t] = IF ops[x].ready = 1 THEN [@ EXCEPT !.res = r] ELSE Nothing]
      /\ UNCHANGED <<call, batch, port, kernel, deferred>>
  BY <1>1, <1>2 DEF Complete, Steps, Ready
<1>4. /\ \A op \in Ops : op # x => ops'[op] = ops[op]
      /\ ops'[x].stored = r /\ ops'[x].ready = 1
      /\ ops'[x].life = ops[x].life /\ ops'[x].truth = ops[x].truth
      /\ \A u \in Threads : u # t => pc'[u] = pc[u] /\ got'[u] = got[u]
      /\ pc'[t] = IF ops[x].ready = 1 THEN "complete" ELSE "loop"
      /\ ops[x].ready = 1 => got'[t].res = r /\ got'[t].op = x
  <2>1. /\ \A op \in Ops : op # x => ops'[op] = ops[op]
        /\ ops'[x].stored = r /\ ops'[x].ready = 1
        /\ ops'[x].life = ops[x].life /\ ops'[x].truth = ops[x].truth
    BY <1>3 DEF Shape, Operations
  <2>2. /\ \A u \in Threads : u # t => pc'[u] = pc[u] /\ got'[u] = got[u]
        /\ pc'[t] = IF ops[x].ready = 1 THEN "complete" ELSE "loop"
        /\ ops[x].ready = 1 => got'[t].res = r /\ got'[t].op = x
    BY <1>1, <1>3 DEF Shape
  <2> QED
    BY <2>1, <2>2
<1>a. UNCHANGED <<call, batch, port, kernel, deferred>>
  BY <1>3
<1>5. OneBearer(x) /\ Handshake(x) /\ Busy(t, x) /\ Travels(x)
  BY <1>1 DEF Lists, Handover, Busy, Travels
<1>6. /\ ~Queued(x) /\ ~Refused(x) /\ x \notin kernel
      /\ \A q \in Elements(port) : q.op # x
      /\ \A u \in Threads : u # t => ~Busy(u, x)
      /\ \A c \in Callers : ~Calls(c, x)
      /\ r = ops[x].truth
      /\ ops[x].life = "live"
  <2>1. /\ ~Queued(x) /\ ~Refused(x) /\ x \notin kernel
        /\ \A u \in Threads : u # t => ~Busy(u, x)
        /\ \A c \in Callers : ~Calls(c, x)
    BY <1>5 DEF OneBearer
  <2>2. r = ops[x].truth
    BY <1>1, <1>2, <1>5 DEF Handshake, Stored
  <2>3. ops[x].life = "live"
    BY <1>5 DEF Handshake, Shape, Operations
  <2> QED
    BY <2>1, <2>2, <2>3 DEF Queued
<1>7. /\ PortOnce' /\ RefusedOnce'
      /\ \A op \in Ops : (Refused(op)' <=> Refused(op)) /\ (Queued(op)' <=> Queued(op))
  BY <1>3 DEF PortOnce, RefusedOnce, Refused, Queued, Lists
<1>8. /\ \A op \in Ops, u \in Threads : u # t => (Busy(u, op)' <=> Busy(u, op))
      /\ \A op \in Ops : op # x => ~Busy(t, op)
      /\ \A op \in Ops : op # x => ~Busy(t, op)'
  BY <1>1, <1>4 DEF Busy, Completing
<1>9. \A op \in Ops : op # x => Untouched(op)
  BY <1>3, <1>4, <1>7, <1>8 DEF Untouched
<1>10. CASE ops[x].ready = 1
  <2>1. pc'[t] = "complete" /\ got'[t].res = ops'[x].truth /\ got'[t].op = x /\ Busy(t, x)'
    BY <1>4, <1>6, <1>10 DEF Busy, Completing
  <2>2. \A c \in Callers : ~Pends(c, x)
    BY <1>5, <1>10 DEF Handshake
  <2>3. OneBearer(x)'
    BY <1>3, <1>5, <1>6, <1>7, <1>8, <2>1 DEF OneBearer, Calls
  <2>4. Handshake(x)'
    BY <1>4, <1>6, <1>7, <1>8, <1>a, <2>1, <2>2 DEF Handshake, Calls, Pends
  <2> QED
    BY <1>7, <1>9, <2>3, <2>4, UntouchedStays DEF Handover, Lists
<1>11. CASE ops[x].ready # 1
  <2>1. \A u \in Threads : ~Busy(u, x)'
    BY <1>4, <1>6, <1>8, <1>11 DEF Busy, Completing
  <2>2. ~Travels(x)' /\ Stored(x)'
    BY <1>3, <1>4, <1>6, <1>7, <2>1 DEF Travels, Stored
  <2>3. OneBearer(x)'
    BY <1>3, <1>5, <2>2 DEF OneBearer, Calls, Travels
  <2>4. Handshake(x)'
    BY <1>4, <1>6, <1>7, <1>a, <2>1, <2>2 DEF Handshake, Calls, Pends, Stored
  <2> QED
    BY <1>7, <1>9, <2>3, <2>4, UntouchedStays DEF Handover, Lists
<1> QED
  BY <1>10, <1>11

\* on_complete() of an operation: to the callback, to another round, or over.
LEMMA OnCompleteStep ==
  ASSUME Shape, Stations, Lists, NEW t \in Threads,
         CallBack(t) \/ ContinueRecv(t) \/ ContinueSend(t) \/ Return(t)
  PROVE  Lists'
<1> USE NullAssumption DEF queueVars
<1>1. PICK x \in Ops : x = got[t].op /\ pc[t] \in Completing
  BY DEF CallBack, ContinueRecv, ContinueSend, Continue, Return, Steps, Stations, Working, Completing
<1>2. /\ UNCHANGED <<batch, port, kernel, deferred>>
      /\ \A op \in Ops : op # x => ops'[op] = ops[op]
      /\ \A u \in Threads : u # t => pc'[u] = pc[u] /\ got'[u] = got[u]
      /\ got'[t].op = x /\ pc'[t] \notin {"got", "complete"}
      /\ call[t] = None
  BY <1>1 DEF CallBack, Holds, Packet, ContinueRecv, ContinueSend, Continue, Return, Steps, Shape
<1>3. OneBearer(x) /\ Handshake(x) /\ Busy(t, x) /\ Travels(x)
  BY <1>1 DEF Lists, Handover, Busy, Travels
<1>4. /\ ~Queued(x) /\ ~Refused(x) /\ x \notin kernel
      /\ \A q \in Elements(port) : q.op # x
      /\ \A u \in Threads : u # t => ~Busy(u, x)
      /\ \A c \in Callers : call[c].op # x
      /\ ops[x].life = "live" /\ ops[x].ready = 1
  <2>1. /\ ~Queued(x) /\ ~Refused(x) /\ x \notin kernel
        /\ \A u \in Threads : u # t => ~Busy(u, x)
        /\ \A c \in Callers : ~Calls(c, x)
    BY <1>3 DEF OneBearer
  <2>2. ops[x].life = "live" /\ ops[x].ready = 1
    BY <1>1, <1>3 DEF Handshake, Shape, Operations, Completing
  <2>3. \A c \in Callers : ~Pends(c, x)
    BY <1>3, <2>2 DEF Handshake
  <2>4. \A c \in Callers : call[c].op # x
    BY <2>1, <2>3 DEF Calls, Pends, Shape, OpPlaces
  <2> QED
    BY <2>1, <2>2, <2>4 DEF Queued
<1>5. /\ PortOnce' /\ RefusedOnce'
      /\ \A op \in Ops : (Refused(op)' <=> Refused(op)) /\ (Queued(op)' <=> Queued(op))
  BY <1>2 DEF PortOnce, RefusedOnce, Refused, Queued, Lists
<1>6. /\ \A op \in Ops, u \in Threads : u # t => (Busy(u, op)' <=> Busy(u, op))
      /\ \A op \in Ops : op # x => ~Busy(t, op) /\ ~Busy(t, op)'
  BY <1>1, <1>2 DEF Busy
<1>7. \A c \in Callers : call'[c] = call[c] \/ (c = t /\ call'[c] = At(x, "issue"))
  BY <1>1 DEF CallBack, ContinueRecv, ContinueSend, Continue, Return, Shape
<1>8. \A op \in Ops : op # x => Untouched(op)
  BY <1>2, <1>5, <1>6, <1>7 DEF Untouched, None, At
<1>9. CASE CallBack(t)
  <2>1. pc'[t] = "callback" /\ UNCHANGED <<ops, call>>
    BY <1>9 DEF CallBack, Steps, Shape
  <2>2. Busy(t, x)'
    BY <1>2, <2>1 DEF Busy, Completing
  <2>3. OneBearer(x)'
    BY <1>2, <1>3, <1>4, <1>5, <1>6, <2>1, <2>2 DEF OneBearer, Calls
  <2>4. Handshake(x)'
    BY <1>2, <1>4, <1>5, <1>6, <2>1, <2>2 DEF Handshake, Calls, Pends
  <2> QED
    BY <1>5, <1>8, <2>3, <2>4, UntouchedStays DEF Handover, Lists
<1>10. CASE ContinueRecv(t) \/ ContinueSend(t)
  <2>1. /\ pc'[t] \in {"finish", "resume"}
        /\ call' = [call EXCEPT ![t] = At(x, "issue")]
        /\ ops' = [ops EXCEPT ![x] = [Reset(ops[x]) EXCEPT !.parts = @ - 1]]
        /\ t \in Callers
    BY <1>1, <1>10 DEF ContinueRecv, ContinueSend, Continue, Steps, Shape, Callers
  <2>2. ops'[x].life = "live" /\ ops'[x].ready = 0
    <3>1. LET u == [Reset(ops[x]) EXCEPT !.parts = @ - 1] IN u.life = "live" /\ u.ready = 0
      BY <1>4 DEF Reset, Shape, Operations
    <3> QED
      BY <2>1, <3>1 DEF Shape
  <2>3. /\ call'[t].op = x /\ call'[t].at = "issue"
        /\ \A c \in Callers : c # t => call'[c].op # x
    BY <1>4, <2>1 DEF Shape, At
  <2>4. \A u \in Threads : ~Busy(u, x)'
    BY <1>4, <1>6, <2>1 DEF Busy, Completing
  <2>5. ~Travels(x)'
    BY <1>2, <1>4, <1>5, <2>4 DEF Travels
  <2>6. OneBearer(x)'
    BY <1>2, <1>4, <1>5, <2>3, <2>4, <2>5 DEF OneBearer
  <2>7. Handshake(x)'
    BY <1>2, <1>4, <1>5, <2>1, <2>2, <2>3, <2>4, <2>5 DEF Handshake, Calls, Pends
  <2> QED
    BY <1>5, <1>8, <2>6, <2>7, UntouchedStays DEF Handover, Lists
<1>11. CASE Return(t)
  <2>1. pc'[t] = "finish" /\ ops'[x] = Deleted /\ UNCHANGED call
    BY <1>1, <1>11 DEF Return, Steps, Shape
  <2>2. \A u \in Threads : ~Busy(u, x)'
    BY <1>4, <1>6, <2>1 DEF Busy, Completing
  <2>3. ~Travels(x)' /\ \A c \in Callers : call'[c].op # x
    BY <1>2, <1>4, <1>5, <2>1, <2>2 DEF Travels
  <2>4. OneBearer(x)' /\ Handshake(x)'
    BY <1>2, <1>4, <1>5, <2>1, <2>2, <2>3 DEF OneBearer, Handshake, Calls, Pends, Deleted
  <2> QED
    BY <1>5, <1>8, <2>4, UntouchedStays DEF Handover, Lists
<1> QED
  BY <1>9, <1>10, <1>11

\* Every step hands an operation from one to another, or concerns none.
LEMMA HandoverStep == Shape /\ Stations /\ Lists /\ [Next]_vars => Lists'
<1> SUFFICES ASSUME Shape, Stations, Lists, [Next]_vars PROVE Lists'
  OBVIOUS
<1> USE NullAssumption DEF loopVars, queueVars, countVars, Completing
<1>1. ASSUME NEW c \in Callers, StopExchange(c) \/ StopInterrupt(c) \/ UserStop(c) PROVE Lists'
  <2>1. call[c].op = Null
    <3>1. call[c].at \notin OpPlaces
      BY <1>1 DEF StopExchange, StopInterrupt, UserStop, InCall, None, OpPlaces
    <3> QED
      BY <3>1 DEF Shape
  <2>2. \A d \in Callers : call'[d] = call[d] \/ (call[d].op = Null /\ call'[d].op = Null)
    BY <1>1, <2>1 DEF StopExchange, StopInterrupt, UserStop, At, None, Shape
  <2>3. /\ UNCHANGED <<ops, kernel, deferred, batch, pc, got>>
        /\ port' = port \/ port' = Append(port, Interrupt)
    BY <1>1 DEF StopExchange, StopInterrupt, UserStop
  <2> QED
    BY <2>2, <2>3, QuietStep
<1>2. ASSUME NEW t \in Threads,
             \/ Run(t) \/ TryDispatch(t) \/ DispatchEnds(t) \/ Timeout(t)
             \/ Interrupted(t) \/ Resume(t) \/ WorkFinished(t)
      PROVE  Lists'
  <2>1. /\ UNCHANGED <<ops, kernel, deferred, batch>>
        /\ port' = port \/ port' = Append(port, Interrupt)
    BY <1>2 DEF Run, TryDispatch, DispatchEnds, Timeout, Interrupted, Resume, WorkFinished
  <2>2. \A u \in Threads : \/ pc'[u] = pc[u] /\ got'[u] = got[u]
                           \/ {pc[u], pc'[u]} \cap (Completing \cup {"got"}) = {}
    BY <1>2 DEF Run, TryDispatch, DispatchEnds, Timeout, Interrupted, Resume, WorkFinished,
                Steps, Shape
  <2>3. \A c \in Callers : call'[c] = call[c] \/ (call[c].op = Null /\ call'[c].op = Null)
    BY <1>2 DEF Run, TryDispatch, DispatchEnds, Timeout, Interrupted, Resume, WorkFinished,
                Steps, At, None, Shape
  <2> QED
    BY <2>1, <2>2, <2>3, QuietStep
<1>3. CASE ServiceReset \/ Recover \/ UNCHANGED vars
  <2>1. UNCHANGED <<ops, kernel, deferred, batch, port, call, pc, got>>
    BY <1>3 DEF ServiceReset, Recover, vars
  <2> QED
    BY <2>1, QuietStep
<1> QED
  BY <1>1, <1>2, <1>3, BeginStep, IssueStep, PendingStep, QueueStep, KernelCompletesStep,
     TakeDeferredStep, PostDeferredStep, DequeueStep, CompleteStep, OnCompleteStep
     DEF Next, CallStep, LoopStep

-----------------------------------------------------------------------------
(***************************************************************************)
(* The books.  An operation alive is counted until the thread that deleted *)
(* it comes to work_finished(); one that a thread started again is counted *)
(* once more until then.                                                   *)
(***************************************************************************)
Live    == {op \in Ops : ops[op].life = "live"}
Closing == {t \in Threads : pc[t] \in {"finish", "resume"}}

\* Both sides of the books are finite.
LEMMA BooksFinite ==
  /\ IsFiniteSet(Live) /\ Cardinality(Live) \in Nat
  /\ IsFiniteSet(Closing) /\ Cardinality(Closing) \in Nat
<1>1. IsFiniteSet(Live) /\ IsFiniteSet(Closing)
  BY PartiesAssumption, FS_Subset DEF Live, Closing
<1> QED
  BY <1>1, FS_CardinalityType

\* work_started() and work_finished() keep the books.
LEMMA AccountingStep ==
  Shape /\ Stations /\ Lists /\ WorkAccounting /\ [Next]_vars => WorkAccounting'
<1> SUFFICES ASSUME Shape, Stations, Lists, WorkAccounting, [Next]_vars
             PROVE  WorkAccounting'
  OBVIOUS
<1> USE DEF loopVars, queueVars, countVars
<1>a. /\ WorkAccounting <=> outstanding = Cardinality(Live) + Cardinality(Closing)
      /\ WorkAccounting' <=> outstanding' = Cardinality(Live') + Cardinality(Closing')
  BY DEF WorkAccounting, Live, Closing
<1>b. outstanding \in Int
  BY DEF Shape
<1>1. ASSUME UNCHANGED outstanding, Live' = Live, Closing' = Closing PROVE WorkAccounting'
  BY <1>1, <1>a
<1>2. ASSUME NEW c \in Callers, Start(c) PROVE WorkAccounting'
  <2>1. PICK x \in Ops, o \in Operations, p \in {"issue", "queue"} :
          Begin(c, x, o, p) /\ o.life = "live"
    BY <1>2, StartCases
  <2>2. Live' = Live \cup {x} /\ x \notin Live
    BY <2>1 DEF Begin, Live, Shape
  <2>3. Closing' = Closing /\ outstanding' = outstanding + 1
    BY <2>1 DEF Begin, MayCall, Called, Closing, Shape
  <2>4. Cardinality(Live') = Cardinality(Live) + 1
    BY <2>2, BooksFinite, FS_AddElement
  <2> QED
    BY <1>a, <1>b, <2>3, <2>4, BooksFinite
<1>3. ASSUME NEW c \in Callers, CallStep(c) \/ UserStop(c) PROVE WorkAccounting'
  <2>1. UNCHANGED <<pc, outstanding>>
    BY <1>3 DEF CallStep, UserStop, Issue, OnPending, Queue, Defer, StopExchange, StopInterrupt
  <2>2. \A op \in Ops : ops'[op].life = ops[op].life
    <3>1. CASE Issue(c)
      <4>1. \/ \E r : ops' = [ops EXCEPT ![call[c].op] = OnCompletion(@, r)]
            \/ UNCHANGED ops
        BY <3>1 DEF Issue, Accept, Connect, Send, Recv, Write, Read, Overlapped, NoOperation
      <4>2. \A op \in Ops : \A r : OnCompletion(ops[op], r).life = ops[op].life
        BY DEF OnCompletion, Shape, Operations
      <4> QED
        BY <4>1, <4>2 DEF Shape
    <3>2. CASE OnPending(c)
      BY <3>2 DEF OnPending, Shape, Operations
    <3> QED
      BY <1>3, <3>1, <3>2 DEF CallStep, UserStop, Queue, Defer, StopExchange, StopInterrupt
  <2>3. Live' = Live /\ Closing' = Closing
    BY <2>1, <2>2 DEF Live, Closing
  <2> QED
    BY <1>1, <2>1, <2>3
<1>4. ASSUME NEW t \in Threads, LoopStep(t) PROVE WorkAccounting'
  <2> USE DEF Steps
  <2>1. CASE \/ Run(t) \/ TryDispatch(t) \/ TakeDeferred(t) \/ DispatchEnds(t) \/ Dequeue(t)
             \/ Timeout(t) \/ Interrupted(t) \/ CallBack(t) \/ Resume(t)
    <3>1. UNCHANGED <<ops, outstanding>>
      BY <2>1 DEF Run, TryDispatch, TakeDeferred, DispatchEnds, Dequeue, Timeout, Interrupted,
                  CallBack, Resume
    <3>2. Closing' = Closing
      BY <2>1 DEF Run, TryDispatch, TakeDeferred, DispatchEnds, Dequeue, Timeout, Interrupted,
                  CallBack, Resume, Closing, Shape
    <3>3. Live' = Live
      BY <3>1 DEF Live
    <3> QED
      BY <1>1, <3>1, <3>2, <3>3
  <2>2. CASE PostDeferred(t)
    <3>1. Live' = Live
      BY <2>2 DEF PostDeferred, PostDeferredCompletion, Live, Shape, Operations
    <3>2. Closing' = Closing /\ UNCHANGED outstanding
      BY <2>2 DEF PostDeferred, Closing, Shape
    <3> QED
      BY <1>1, <3>1, <3>2
  <2>3. CASE Complete(t)
    <3>1. Live' = Live
      BY <2>3 DEF Complete, Live, Shape, Operations
    <3>2. Closing' = Closing /\ UNCHANGED outstanding
      BY <2>3 DEF Complete, Closing, Shape
    <3> QED
      BY <1>1, <3>1, <3>2
  <2>4. CASE ContinueRecv(t) \/ ContinueSend(t)
    <3>1. ops' = [ops EXCEPT ![got[t].op] = [Reset(ops[got[t].op]) EXCEPT !.parts = @ - 1]]
      BY <2>4 DEF ContinueRecv, ContinueSend, Continue
    <3>2. \A op \in Ops : [Reset(ops[op]) EXCEPT !.parts = @ - 1].life = ops[op].life
      BY DEF Reset, Shape, Operations
    <3>3. Live' = Live
      BY <3>1, <3>2 DEF Live, Shape
    <3>4. Closing' = Closing \cup {t} /\ t \notin Closing /\ outstanding' = outstanding + 1
      BY <2>4 DEF ContinueRecv, ContinueSend, Continue, CountedAgain, Closing, Shape
    <3>5. Cardinality(Closing') = Cardinality(Closing) + 1
      BY <3>4, BooksFinite, FS_AddElement
    <3> QED
      BY <1>a, <1>b, <3>3, <3>4, <3>5, BooksFinite
  <2>5. CASE Return(t)
    <3>1. got[t].op \in Ops /\ pc[t] \in {"callback", "return"} /\ UNCHANGED outstanding
      BY <2>5 DEF Return, Stations, Working, Completing
    <3>2. ops[got[t].op].life = "live"
      <4>1. Handshake(got[t].op) /\ Travels(got[t].op)
        BY <3>1 DEF Lists, Handover, Travels, Busy, Completing
      <4> QED
        BY <3>1, <4>1 DEF Handshake, Shape, Operations
    <3>3. Live' = Live \ {got[t].op} /\ got[t].op \in Live
      BY <2>5, <3>1, <3>2 DEF Return, Deleted, Live, Shape
    <3>4. Closing' = Closing \cup {t} /\ t \notin Closing
      BY <2>5, <3>1 DEF Return, Closing, Shape
    <3>5. /\ Cardinality(Live') = Cardinality(Live) - 1
          /\ Cardinality(Closing') = Cardinality(Closing) + 1
      BY <3>3, <3>4, BooksFinite, FS_AddElement, FS_RemoveElement
    <3> QED
      BY <1>a, <1>b, <3>1, <3>5, BooksFinite
  <2>6. CASE WorkFinished(t)
    <3>1. Live' = Live /\ outstanding' = outstanding - 1
      BY <2>6 DEF WorkFinished, Live
    <3>2. Closing' = Closing \ {t} /\ t \in Closing
      BY <2>6 DEF WorkFinished, Closing, Shape
    <3>3. Cardinality(Closing') = Cardinality(Closing) - 1
      BY <3>2, BooksFinite, FS_RemoveElement
    <3> QED
      BY <1>a, <1>b, <3>1, <3>3, BooksFinite
  <2> QED
    BY <1>4, <2>1, <2>2, <2>3, <2>4, <2>5, <2>6 DEF LoopStep
<1>5. ASSUME NEW op \in Ops, KernelStep(op) PROVE WorkAccounting'
  <2>1. UNCHANGED <<pc, outstanding>>
    BY <1>5 DEF KernelStep, KernelCompletes
  <2>2. Live' = Live /\ Closing' = Closing
    BY <1>5, <2>1 DEF KernelStep, KernelCompletes, Live, Closing, Shape, Operations
  <2> QED
    BY <1>1, <2>1, <2>2
<1>6. CASE ServiceReset \/ Recover \/ UNCHANGED vars
  <2>1. UNCHANGED <<ops, pc, outstanding>>
    BY <1>6 DEF ServiceReset, Recover, vars
  <2> QED
    BY <1>1, <2>1 DEF Live, Closing
<1> QED
  BY <1>2, <1>3, <1>4, <1>5, <1>6 DEF Next

-----------------------------------------------------------------------------
(***************************************************************************)
(* The theorems.                                                           *)
(***************************************************************************)
\* The inductive invariant holds in every state.
LEMMA IocpInvariant == Spec => []IocpInv
<1>1. Init => IocpInv
  <2> SUFFICES ASSUME Init PROVE IocpInv
    OBVIOUS
  <2> USE NullAssumption DEF Init
  <2>1. \A op \in Ops : ops[op] = Deleted /\ Deleted.life = "free" /\ Deleted.parts = 0
    BY DEF Deleted
  <2>2. Elements(<<>>) = {} /\ Once(<<>>) /\ Len(port) = 0
    BY DEF Elements, Once
  <2>3. Shape
    <3>1. Deleted \in Operations
      BY OperationShape
    <3>2. None \in [op : Ops \cup {Null}, at : Places] /\ None.at \notin OpPlaces /\ None.op \notin Ops
      BY DEF None, Places, OpPlaces
    <3>3. Nothing \in [op : Ops \cup {Null}, key : {"interrupt", "none", "stored", "kernel"},
                       res : Results]
      BY DEF Nothing, Holds, Packet, Results
    <3> QED
      BY <3>1, <3>2, <3>3 DEF Shape, Labels
  <2>4. Stations /\ Chunks
    BY <2>1 DEF Stations, Chunks, Working, Completing
  <2>5. ASSUME NEW op \in Ops PROVE OneBearer(op) /\ Handshake(op)
    <3>1. ~Travels(op) /\ ~Queued(op) /\ ~Refused(op) /\ \A t \in Threads : ~Busy(t, op)
      BY <2>2 DEF Travels, Queued, Refused, Busy, Completing
    <3>2. \A c \in Callers : call[c].op # op
      BY DEF None
    <3> QED
      BY <2>1, <2>2, <2>5, <3>1, <3>2 DEF OneBearer, Handshake, Calls, Pends
  <2>6. PortOnce /\ RefusedOnce
    BY <2>2 DEF PortOnce, RefusedOnce
  <2>7. WorkAccounting
    <3>1. Live = {} /\ Closing = {}
      BY <2>1 DEF Live, Closing
    <3>2. WorkAccounting <=> outstanding = Cardinality(Live) + Cardinality(Closing)
      BY DEF WorkAccounting, Live, Closing
    <3> QED
      BY <3>1, <3>2, FS_EmptySet
  <2> QED
    BY <2>3, <2>4, <2>5, <2>6, <2>7 DEF IocpInv, Handover
<1>2. IocpInv /\ [Next]_vars => IocpInv'
  BY ShapeStep, StationsStep, ChunksStep, HandoverStep, AccountingStep DEF IocpInv, Lists
<1> QED
  BY <1>1, <1>2, PTL DEF Spec

\* outstanding_work_ is the number of operations alive and of threads that have
\* ended a round of one, in every interleaving of calls, kernel and threads
\* (work_started(), work_finished() and the count of recv() and send()).
THEOREM WorkAccountingCorrect == Spec => []WorkAccounting
<1>1. IocpInv => WorkAccounting
  BY DEF IocpInv
<1> QED
  BY <1>1, IocpInvariant, PTL

\* An operation is completed once, by one thread, after the call that started
\* it is through, and with the result of that call (ready_ in on_pending() and
\* do_one()).
THEOREM CompletedAloneCorrect == Spec => []CompletedAlone
<1>1. IocpInv => CompletedAlone
  <2> SUFFICES ASSUME IocpInv, NEW t \in Threads, pc[t] \in Completing
               PROVE  LET op == got[t].op IN
                        /\ ops[op].life = "live"
                        /\ Starting(op) = {} /\ InPort(op) = {} /\ Waiting(op) = {} /\ op \notin kernel
                        /\ Holding(op) = {t}
                        /\ pc[t] = "complete" => got[t].res = ops[op].truth
    BY DEF CompletedAlone
  <2>1. PICK x \in Ops : x = got[t].op
    BY DEF IocpInv, Stations, Working
  <2>2. OneBearer(x) /\ Handshake(x) /\ Busy(t, x) /\ Travels(x)
    BY <2>1 DEF IocpInv, Handover, Busy, Travels
  <2>3. /\ ~Queued(x) /\ ~Refused(x) /\ x \notin kernel
        /\ \A u \in Threads : Busy(u, x) => u = t
        /\ \A c \in Callers : ~Calls(c, x)
    BY <2>2 DEF OneBearer
  <2>4. /\ ops[x].life = "live" /\ ops[x].ready = 1
        /\ pc[t] = "complete" => got[t].res = ops[x].truth
    BY <2>2 DEF Handshake, IocpInv, Shape, Operations, Completing
  <2>5. Starting(x) = {}
    <3>1. \A c \in Callers : ~Pends(c, x)
      BY <2>2, <2>4 DEF Handshake
    <3> QED
      BY <2>3, <3>1 DEF Starting, Calls, Pends, IocpInv, Shape, OpPlaces
  <2>6. InPort(x) = {} /\ Waiting(x) = {}
    <3>1. /\ DOMAIN port = 1..Len(port) /\ DOMAIN deferred = 1..Len(deferred)
          /\ \A u \in Threads : DOMAIN batch[u] = 1..Len(batch[u])
      BY DEF IocpInv, Shape
    <3>2. /\ \A i \in 1..Len(port) : port[i].op # x
          /\ \A i \in 1..Len(deferred) : deferred[i] # x
          /\ \A u \in Threads : \A i \in 1..Len(batch[u]) : batch[u][i] # x
      BY <2>3 DEF Queued, Refused, Elements
    <3> QED
      BY <3>1, <3>2 DEF InPort, Waiting
  <2>7. Holding(x) = {t}
    <3>1. ASSUME NEW u \in Threads, pc[u] = "resume" PROVE FALSE
      <4>1. Cardinality(program.crew) = 1 /\ u \in program.crew /\ t \in program.crew
        BY <3>1 DEF IocpInv, Chunks, Stations, Completing
      <4>2. program.crew \subseteq Threads
        BY ProgramsAssumption DEF IocpInv, Shape
      <4>3. IsFiniteSet(program.crew)
        BY <4>2, PartiesAssumption, FS_Subset
      <4>4. u = t
        BY <4>1, <4>3, FS_Singleton
      <4> QED
        BY <3>1, <4>4 DEF Completing
    <3> QED
      BY <2>1, <2>3, <3>1 DEF Holding, Busy
  <2> QED
    BY <2>1, <2>3, <2>4, <2>5, <2>6, <2>7
<1> QED
  BY <1>1, IocpInvariant, PTL
=============================================================================
